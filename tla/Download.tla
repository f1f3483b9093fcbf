-------------------------------- MODULE Download --------------------------------
(***************************************************************************)
(* Downloads into one directory, under one file name and its numbered      *)
(* variants, beside a user who saves and removes files there.  A download  *)
(* writes a part file in pieces, checks what it received, and only then    *)
(* gives the file its name: by a hard link, which never replaces a file,   *)
(* by a rename to a name that looked free where there are no links, or by  *)
(* a rename over the name it was told.                                     *)
(***************************************************************************)
EXTENDS Naturals, FiniteSets

CONSTANTS Loads,       \* the downloads
          Ways,        \* how each may be started: "into", "to" a path, by "force"
          MaxNumber,   \* the last numbered variant of the name
          Pieces,      \* bound on the pieces of a file: 1, .. Pieces
          MaxTouches,  \* bound on what the user does
          Overlap,     \* whether two loads to the same path may overlap
          Nobody

User == "user"

ASSUME DownloadAssumption ==
  /\ User \notin Loads \cup {Nobody}
  /\ Ways \in [Loads -> SUBSET {"into", "to", "force"}]
  /\ MaxNumber \in Nat /\ Pieces \in Nat \ {0} /\ MaxTouches \in Nat
  /\ Nobody \notin Loads /\ Overlap \in BOOLEAN

VARIABLES
  links,    \* whether the file system has hard links
  names,    \* the file under each name
  bytes,    \* what each file holds: whose piece is at each place
  pc, way,  \* the next step of each download, and how it was started
  pos,      \* the pieces it has written
  file,     \* the file it writes
  number,   \* the variant of the name it tries
  result,   \* the name it reported
  touches

vars == <<links, names, bytes, pc, way, pos, file, number, result, touches>>

Final(n) == <<"final", n>>
Finals == {Final(n) : n \in 0..MaxNumber}
\* A download into the directory has a part file of its own; one to a given
\* path shares `<path>.passalong-part` with every other to that path.
PartOf(p) == IF way[p] = "into" THEN <<"part", p>> ELSE <<"part", Nobody>>
Parts == {"part"} \X (Loads \cup {Nobody})
Names == Finals \cup Parts
Nodes == Loads \cup {User}
Steps == {"off", "look", "part", "stream", "link", "check", "rename", "place", "clean", "done", "failed", "dead"}
Working == Steps \ {"off", "done", "failed", "dead"}
Empty == [k \in 1..Pieces |-> Nobody]
NoName == <<"none", 0>>

TypeOK ==
  /\ links \in BOOLEAN
  /\ names \in [Names -> Nodes \cup {Nobody}]
  /\ bytes \in [Nodes -> [1..Pieces -> Nodes \cup {Nobody}]]
  /\ pc \in [Loads -> Steps] /\ way \in [Loads -> {"into", "to", "force"}]
  /\ pos \in [Loads -> 0..Pieces] /\ file \in [Loads -> Nodes \cup {Nobody}]
  /\ number \in [Loads -> 0..(MaxNumber + 1)]
  /\ result \in [Loads -> Finals \cup {NoName}] /\ touches \in 0..MaxTouches

Goto(p, step) == pc' = [pc EXCEPT ![p] = step]
Free(n) == names[n] = Nobody
Put(n, node) == names' = [names EXCEPT ![n] = node]

(***************************************************************************)
(* The user saves a file under a free name, and removes files.             *)
(***************************************************************************)
UserSaves(n) ==
  /\ touches < MaxTouches /\ touches' = touches + 1
  /\ Free(n) /\ \A m \in Finals : names[m] # User
  /\ Put(n, User)
  /\ UNCHANGED <<links, bytes, pc, way, pos, file, number, result>>

UserRemoves(n) ==
  /\ touches < MaxTouches /\ touches' = touches + 1
  /\ ~Free(n)
  /\ Put(n, Nobody)
  /\ UNCHANGED <<links, bytes, pc, way, pos, file, number, result>>

(***************************************************************************)
(* A download.                                                             *)
(***************************************************************************)
Start(p) ==
  /\ pc[p] = "off"
  /\ \E w \in Ways[p] :
       /\ w # "into" /\ ~Overlap => \A q \in Loads : way[q] = "into" \/ pc[q] \notin Working
       /\ way' = [way EXCEPT ![p] = w]
       /\ Goto(p, IF w = "to" THEN "look" ELSE "part")
  /\ UNCHANGED <<links, names, bytes, pos, file, number, result, touches>>

\* `load` to a path refuses a file that is there, unless forced.
LookAtTarget(p) ==
  /\ pc[p] = "look"
  /\ Goto(p, IF Free(Final(0)) THEN "part" ELSE "failed")
  /\ UNCHANGED <<links, names, bytes, way, pos, file, number, result, touches>>

\* A new file, or the file another download to that path writes, emptied.
CreatePart(p) ==
  /\ pc[p] = "part"
  /\ IF Free(PartOf(p))
     THEN Put(PartOf(p), p) /\ file' = [file EXCEPT ![p] = p] /\ UNCHANGED bytes
     ELSE /\ file' = [file EXCEPT ![p] = names[PartOf(p)]]
          /\ bytes' = [bytes EXCEPT ![names[PartOf(p)]] = Empty]
          /\ UNCHANGED names
  /\ Goto(p, "stream")
  /\ UNCHANGED <<links, way, pos, number, result, touches>>

CreateFails(p) ==
  /\ pc[p] = "part" /\ Goto(p, "failed")
  /\ UNCHANGED <<links, names, bytes, way, pos, file, number, result, touches>>

WritePiece(p) ==
  /\ pc[p] = "stream" /\ pos[p] < Pieces
  /\ pos' = [pos EXCEPT ![p] = @ + 1]
  /\ bytes' = [bytes EXCEPT ![file[p]][pos'[p]] = p]
  /\ UNCHANGED <<links, names, pc, way, file, number, result, touches>>

\* Mutant: what was received is not checked.
FinishUnchecked(p) ==
  /\ pc[p] = "stream"
  /\ Goto(p, IF way[p] = "into" THEN "link" ELSE "place")
  /\ UNCHANGED <<links, names, bytes, way, pos, file, number, result, touches>>

\* The digest of what was received is the item's.
FinishStream(p) ==
  /\ pc[p] = "stream" /\ pos[p] = Pieces
  /\ Goto(p, IF way[p] = "into" THEN "link" ELSE "place")
  /\ UNCHANGED <<links, names, bytes, way, pos, file, number, result, touches>>

\* Reading, writing or the integrity check failed.
StreamFails(p) ==
  /\ pc[p] = "stream" /\ Goto(p, "clean")
  /\ UNCHANGED <<links, names, bytes, way, pos, file, number, result, touches>>

Reports(p, n) == result' = [result EXCEPT ![p] = n]

\* Mutant: the part file is renamed to the first name that was free when the
\* download looked.
LinkLooking(p) ==
  /\ pc[p] = "link"
  /\ Goto(p, "check")
  /\ UNCHANGED <<links, names, bytes, way, pos, file, number, result, touches>>

\* The hard link to the first free name; a name that is taken is refused, and
\* a file system without links sends the download to the renames.
Link(p) ==
  /\ pc[p] = "link"
  /\ \/ ~links /\ Goto(p, "check") /\ UNCHANGED <<names, number, result>>
     \/ links /\ number[p] > MaxNumber /\ Goto(p, "clean") /\ UNCHANGED <<names, number, result>>
     \/ /\ links /\ number[p] <= MaxNumber /\ Free(Final(number[p]))
        /\ Put(Final(number[p]), file[p])
        /\ Reports(p, Final(number[p])) /\ Goto(p, "clean") /\ UNCHANGED number
     \/ /\ links /\ number[p] <= MaxNumber /\ ~Free(Final(number[p]))
        /\ number' = [number EXCEPT ![p] = @ + 1]
        /\ UNCHANGED <<names, result, pc>>
  /\ UNCHANGED <<links, bytes, way, pos, file, touches>>

CheckName(p) ==
  /\ pc[p] = "check"
  /\ \/ number[p] > MaxNumber /\ Goto(p, "clean") /\ UNCHANGED number
     \/ number[p] <= MaxNumber /\ Free(Final(number[p])) /\ Goto(p, "rename") /\ UNCHANGED number
     \/ /\ number[p] <= MaxNumber /\ ~Free(Final(number[p]))
        /\ number' = [number EXCEPT ![p] = @ + 1] /\ UNCHANGED pc
  /\ UNCHANGED <<links, names, bytes, way, pos, file, result, touches>>

\* A rename moves the part file, whatever it is by now, over the name.
MovePart(p, n) ==
  IF Free(PartOf(p))
  THEN Goto(p, "clean") /\ UNCHANGED <<names, result>>
  ELSE /\ names' = [names EXCEPT ![n] = names[PartOf(p)], ![PartOf(p)] = Nobody]
       /\ Reports(p, n)
       /\ Goto(p, IF way[p] = "into" THEN "clean" ELSE "done")

RenameToName(p) ==
  /\ pc[p] = "rename"
  /\ MovePart(p, Final(number[p]))
  /\ UNCHANGED <<links, bytes, way, pos, file, number, touches>>

RenameOver(p) ==
  /\ pc[p] = "place"
  /\ MovePart(p, Final(0))
  /\ UNCHANGED <<links, bytes, way, pos, file, number, touches>>

\* Mutant: only a download that failed removes its part file.
CleanFailed(p) ==
  /\ pc[p] = "clean"
  /\ IF result[p] = NoName THEN Put(PartOf(p), Nobody) ELSE UNCHANGED names
  /\ Goto(p, IF result[p] = NoName THEN "failed" ELSE "done")
  /\ UNCHANGED <<links, bytes, way, pos, file, number, result, touches>>

\* The part file goes, after a failure and after a link.
Clean(p) ==
  /\ pc[p] = "clean"
  /\ Put(PartOf(p), Nobody)
  /\ Goto(p, IF result[p] = NoName THEN "failed" ELSE "done")
  /\ UNCHANGED <<links, bytes, way, pos, file, number, result, touches>>

Crash(p) ==
  /\ pc[p] \in Working /\ Goto(p, "dead")
  /\ UNCHANGED <<links, names, bytes, way, pos, file, number, result, touches>>

Init ==
  /\ links \in BOOLEAN
  /\ names = [n \in Names |-> Nobody] /\ bytes = [n \in Nodes |-> Empty]
  /\ pc = [p \in Loads |-> "off"] /\ way = [p \in Loads |-> "into"]
  /\ pos = [p \in Loads |-> 0] /\ file = [p \in Loads |-> Nobody]
  /\ number = [p \in Loads |-> 0] /\ result = [p \in Loads |-> NoName]
  /\ touches = 0

Next ==
  \/ \E n \in Finals : UserSaves(n) \/ UserRemoves(n)
  \/ \E p \in Loads :
       \/ Start(p) \/ LookAtTarget(p) \/ CreatePart(p) \/ CreateFails(p)
       \/ WritePiece(p) \/ FinishStream(p) \/ StreamFails(p)
       \/ Link(p) \/ CheckName(p) \/ RenameToName(p) \/ RenameOver(p)
       \/ Clean(p) \/ Crash(p)

Spec == Init /\ [][Next]_vars

--------------------------------------------------------------------------------
\* A file that a download put under a final name is one item's, from its first
\* piece to its last, whoever stops or fails at whatever point (download.rs
\* `download_into`, `write_verified`: "a damaged download never replaces
\* anything").
FinalsWhole ==
  \A n \in Finals : names[n] \in Loads => \E p \in Loads : bytes[names[n]] = [k \in 1..Pieces |-> p]

\* With hard links, a name that is taken keeps its file: only a rename over a
\* given path replaces one (download.rs `link_to_free_name`: "no existing file
\* is ever replaced, even by another download finishing at the same moment").
NothingReplaced ==
  [][\A n \in Finals :
       links /\ names[n] # Nobody /\ names'[n] \notin {names[n], Nobody}
         => \E p \in Loads : pc[p] = "place" /\ pc'[p] # "place"]_vars

\* A file is replaced only by a load that was forced to.
OnlyForceReplaces ==
  [][\A n \in Finals :
       links /\ names[n] # Nobody /\ names'[n] \notin {names[n], Nobody}
         => \E p \in Loads : pc[p] = "place" /\ pc'[p] # "place" /\ way[p] = "force"]_vars

\* A part file belongs to a download that works on it, or to one that was
\* killed: no failure leaves one (download.rs `download_into`: "Nothing is left
\* in `dir` after a failure").
PartsOwned ==
  \A n \in Parts : names[n] # Nobody =>
    \E p \in Loads : n = PartOf(p) /\ pc[p] \notin {"off", "done", "failed"}

\* Downloads that reported a name reported different ones, if the user removed
\* nothing and no file was replaced by rename.
OwnNames ==
  touches = 0 /\ links => \A p, q \in Loads :
    p # q /\ way[p] = "into" /\ way[q] = "into" /\ result[p] # NoName => result[p] # result[q]
================================================================================
