-------------------------------- MODULE FsStore --------------------------------
(***************************************************************************)
(* The item store over a file system: items are staged under `tmp/` and    *)
(* published by one rename, and leave `items/` by one rename.  Clients     *)
(* work side by side and may stop between any two remote calls.  What the  *)
(* guard of an encrypted store adds is in GuardedStore.                    *)
(***************************************************************************)
EXTENDS Integers, FiniteSets

CONSTANTS Clients,
          Times,        \* the seconds an item may be dated, by a client's clock
          ContentKeys,  \* identical contents have one key
          Tokens,       \* random names of folders under tmp/
          Offered,      \* the operations clients run
          Punctual,     \* no upload leaves its folder alone until a clean-up's cutoff
          Nothing       \* a field without a value

ASSUME TimesAssumption == Times \subseteq Nat /\ ContentKeys \subseteq Nat
ASSUME NothingAssumption == Nothing \notin Tokens \cup ContentKeys /\ Punctual \in BOOLEAN

VARIABLES
  items,   \* what is in items/<id>; {} where there is no such folder
  tmp,     \* what is in tmp/<token>
  stale,   \* the folders of tmp/ last changed before a clean-up's cutoff
  op       \* what each client is doing

vars == <<items, tmp, stale, op>>

Ids   == Times \X ContentKeys
Parts == {"dir", "content", "meta"}
Published == {i \in Ids : items[i] # {}}
Readable  == {i \in Ids : "meta" \in items[i]}
OfKey(k)  == {i \in Published : i[2] = k}

\* Ids sort by time, then by key.
Older(i, j) == i[1] < j[1] \/ (i[1] = j[1] /\ i[2] < j[2])
IsOldest(i, S) == \A j \in S \ {i} : Older(i, j)
IsNewest(i, S) == \A j \in S \ {i} : Older(j, i)

PutSteps == {"open", "look", "match", "check", "publish", "exists", "clear"}
Steps == PutSteps \cup {"idle", "bury", "erase", "read", "content", "return",
                        "sweep", "scrub", "probe"}
Answers == {"created", "existing", "removed", "failed", "found", "corrupt", "done"}

\* `left` is what a loop has still to visit and `got` what a listing has read.
\* `owed` only observes: the items an operation has to take into account,
\* because they were there when it began and did not leave since.
Idle == [at |-> "idle", key |-> Nothing, token |-> Nothing, id |-> Nothing,
         answer |-> Nothing, left |-> {}, got |-> {}, owed |-> {}]

Ops == [at : Steps, key : ContentKeys \cup {Nothing}, token : Tokens \cup {Nothing},
        id : Ids \cup {Nothing}, answer : Answers \cup {Nothing},
        left : SUBSET (Ids \cup Tokens), got : SUBSET Ids, owed : SUBSET Ids]

\* Everything is what its name says.
TypeOK ==
  /\ items \in [Ids -> SUBSET Parts]
  /\ tmp \in [Tokens -> SUBSET Parts]
  /\ stale \in SUBSET Tokens
  /\ op \in [Clients -> Ops]

Init ==
  /\ items = [i \in Ids |-> {}]
  /\ tmp = [t \in Tokens |-> {}]
  /\ stale = {}
  /\ op = [c \in Clients |-> Idle]

\* The folders uploads and probes in progress stage in.
Live == {op[c].token : c \in {d \in Clients : op[d].at \in PutSteps \cup {"probe"}}}
Fresh(t) == tmp[t] = {} /\ \A c \in Clients : op[c].token # t

Start(c, what) == op[c].at = "idle" /\ what \in Offered
Set(c, o) == op' = [op EXCEPT ![c] = o]
Goto(c, step) == Set(c, [op[c] EXCEPT !.at = step])
Answer(c, step, answer) == Set(c, [op[c] EXCEPT !.at = step, !.answer = answer])
End(c) == Set(c, Idle)

-----------------------------------------------------------------------------
(***************************************************************************)
(* Files and folders under tmp/.                                           *)
(***************************************************************************)
MakeStaging(t) == tmp' = [tmp EXCEPT ![t] = {"dir"}] /\ stale' = stale \ {t}

\* The parent folder must exist; a new entry makes it younger.
HasStaging(c) == tmp[op[c].token] # {}
CreateFile(c, file) ==
  /\ HasStaging(c)
  /\ tmp' = [tmp EXCEPT ![op[c].token] = @ \cup {file}]
  /\ stale' = stale \ {op[c].token}

\* A folder is removed one file at a time, then the folder itself.
RemoveOne(t) ==
  \/ \E file \in tmp[t] \ {"dir"} : tmp' = [tmp EXCEPT ![t] = @ \ {file}]
  \/ tmp[t] = {"dir"} /\ tmp' = [tmp EXCEPT ![t] = {}]

RemoveTree(c, after) ==
  /\ IF HasStaging(c)
       THEN RemoveOne(op[c].token) /\ UNCHANGED op
       ELSE Set(c, after) /\ UNCHANGED tmp
  /\ UNCHANGED <<items, stale>>

-----------------------------------------------------------------------------
(***************************************************************************)
(* Storing an item.                                                        *)
(***************************************************************************)
BeginPut(c, k, t) ==
  /\ Start(c, "put")
  /\ Fresh(t)
  /\ MakeStaging(t)
  /\ Set(c, [Idle EXCEPT !.at = "open", !.key = k, !.token = t, !.owed = OfKey(k)])
  /\ UNCHANGED items

OpenContent(c) ==
  /\ op[c].at = "open"
  /\ CreateFile(c, "content")
  /\ Goto(c, "look")
  /\ UNCHANGED items

\* The content is there: look for items with its key.
Look(c) ==
  /\ op[c].at = "look"
  /\ Set(c, [op[c] EXCEPT !.at = "match", !.left = OfKey(op[c].key)])
  /\ UNCHANGED <<items, tmp, stale>>

\* Mutant: an item that cannot be read ends the search.
MatchFirst(c) ==
  /\ op[c].at = "match"
  /\ \E i \in op[c].left :
       /\ IsOldest(i, op[c].left)
       /\ Set(c, IF i \in Readable
                   THEN [op[c] EXCEPT !.at = "clear", !.answer = "existing", !.id = i, !.left = {}]
                   ELSE [op[c] EXCEPT !.left = {}])
  /\ UNCHANGED <<items, tmp, stale>>

Match(c) ==
  /\ op[c].at = "match"
  /\ \E i \in op[c].left :
       /\ IsOldest(i, op[c].left)
       /\ Set(c, IF i \in Readable
                   THEN [op[c] EXCEPT !.at = "clear", !.answer = "existing", !.id = i, !.left = {}]
                   ELSE [op[c] EXCEPT !.left = @ \ {i}])
  /\ UNCHANGED <<items, tmp, stale>>

\* Mutant: the second is rounded up.
WriteMetaLate(c, time) ==
  /\ op[c].at = "match" /\ op[c].left = {}
  /\ CreateFile(c, "meta")
  /\ Set(c, [op[c] EXCEPT !.at = "check", !.id = <<time + 1, op[c].key>>])
  /\ UNCHANGED items

\* The item is dated now, by this client's clock, and its metadata written.
WriteMeta(c, time) ==
  /\ op[c].at = "match" /\ op[c].left = {}
  /\ CreateFile(c, "meta")
  /\ Set(c, [op[c] EXCEPT !.at = "check", !.id = <<time, op[c].key>>])
  /\ UNCHANGED items

\* The staging folder was cleaned away under the upload.
Unstaged(c) ==
  /\ op[c].at \in {"open", "match", "publish", "probe"} /\ op[c].left = {}
  /\ ~HasStaging(c)
  /\ Answer(c, "clear", "failed")
  /\ UNCHANGED <<items, tmp, stale>>

\* `rename` looks for the target before it renames.
CheckTarget(c) ==
  /\ op[c].at = "check"
  /\ Goto(c, IF op[c].id \in Published THEN "exists" ELSE "publish")
  /\ UNCHANGED <<items, tmp, stale>>

Publish(c) ==
  LET o == op[c] IN
  /\ o.at = "publish"
  /\ HasStaging(c)
  /\ o.id \notin Published
  /\ items' = [items EXCEPT ![o.id] = tmp[o.token]]
  /\ tmp' = [tmp EXCEPT ![o.token] = {}]
  /\ stale' = stale \ {o.token}
  /\ Answer(c, "clear", "created")

\* Another client published the same content in the same second since.
PublishRefused(c) ==
  /\ op[c].at = "publish"
  /\ HasStaging(c)
  /\ op[c].id \in Published
  /\ Answer(c, "clear", "failed")
  /\ UNCHANGED <<items, tmp, stale>>

\* Mutant: the item found by `rename` is not read.
AnswerUnread(c) ==
  /\ op[c].at = "exists"
  /\ Answer(c, "clear", "existing")
  /\ UNCHANGED <<items, tmp, stale>>

AnswerExisting(c) ==
  /\ op[c].at = "exists"
  /\ Answer(c, "clear", IF op[c].id \in Readable THEN "existing" ELSE "failed")
  /\ UNCHANGED <<items, tmp, stale>>

\* What is left of the staging folder goes, whatever the answer.
Clear(c) ==
  /\ op[c].at = "clear"
  /\ RemoveTree(c, Idle)

-----------------------------------------------------------------------------
(***************************************************************************)
(* Deleting an item: out of items/ in one step, then its data.             *)
(***************************************************************************)
BeginDelete(c, i) ==
  /\ Start(c, "delete")
  /\ i \in Readable
  /\ Set(c, [Idle EXCEPT !.at = "bury", !.id = i])
  /\ UNCHANGED <<items, tmp, stale>>

\* Mutant: an item is removed where it is, file by file.
BuryInPlace(c, t) ==
  /\ op[c].at = "bury"
  /\ \E file \in items[op[c].id] : items' = [items EXCEPT ![op[c].id] = @ \ {file}]
  /\ UNCHANGED <<tmp, stale, op>>

\* The folder keeps the age it had in items/.
Bury(c, t) ==
  LET o == op[c] IN
  /\ o.at = "bury"
  /\ Fresh(t)
  /\ o.id \in Published
  /\ tmp' = [tmp EXCEPT ![t] = items[o.id]]
  /\ stale' \in {stale \ {t}, stale \cup {t}}
  /\ items' = [items EXCEPT ![o.id] = {}]
  /\ op' = [d \in Clients |->
       IF d = c THEN [o EXCEPT !.at = "erase", !.token = t, !.answer = "removed"]
                ELSE [op[d] EXCEPT !.owed = @ \ {o.id}]]

\* Another client deleted it since: not found.
BuryMissing(c) ==
  /\ op[c].at = "bury"
  /\ op[c].id \notin Published
  /\ End(c)
  /\ UNCHANGED <<items, tmp, stale>>

Erase(c) ==
  /\ op[c].at = "erase"
  /\ RemoveTree(c, Idle)

-----------------------------------------------------------------------------
(***************************************************************************)
(* Reading: the names first, then one metadata file after the other.       *)
(***************************************************************************)
BeginList(c) ==
  /\ Start(c, "list")
  /\ Set(c, [Idle EXCEPT !.at = "read", !.left = Published, !.owed = Published])
  /\ UNCHANGED <<items, tmp, stale>>

\* Mutant: an item that left meanwhile ends the listing.
ReadUntilMissing(c) ==
  /\ op[c].at = "read"
  /\ \E i \in op[c].left :
       /\ IsNewest(i, op[c].left)
       /\ Set(c, IF i \in Readable
                   THEN [op[c] EXCEPT !.left = @ \ {i}, !.got = @ \cup {i}]
                   ELSE [op[c] EXCEPT !.left = {}])
  /\ UNCHANGED <<items, tmp, stale>>

\* An item that left meanwhile is skipped.
ReadNext(c) ==
  /\ op[c].at = "read"
  /\ \E i \in op[c].left :
       /\ IsNewest(i, op[c].left)
       /\ Set(c, [op[c] EXCEPT !.left = @ \ {i}, !.got = @ \cup ({i} \cap Readable)])
  /\ UNCHANGED <<items, tmp, stale>>

BeginGet(c, i) ==
  /\ Start(c, "get")
  /\ i \in Readable
  /\ Set(c, [Idle EXCEPT !.at = "content", !.id = i])
  /\ UNCHANGED <<items, tmp, stale>>

ReadContent(c) ==
  /\ op[c].at = "content"
  /\ Answer(c, "return", IF "content" \in items[op[c].id] THEN "found" ELSE "corrupt")
  /\ UNCHANGED <<items, tmp, stale>>

-----------------------------------------------------------------------------
(***************************************************************************)
(* Housekeeping: the write probe and the removal of stale staging folders. *)
(***************************************************************************)
BeginProbe(c, t) ==
  /\ Start(c, "probe")
  /\ Fresh(t)
  /\ MakeStaging(t)
  /\ Set(c, [Idle EXCEPT !.at = "probe", !.token = t])
  /\ UNCHANGED items

WriteProbe(c) ==
  /\ op[c].at = "probe"
  /\ CreateFile(c, "content")
  /\ Answer(c, "clear", "done")
  /\ UNCHANGED items

BeginClean(c) ==
  /\ Start(c, "clean")
  /\ Set(c, [Idle EXCEPT !.at = "sweep", !.left = {t \in Tokens : tmp[t] # {}}])
  /\ UNCHANGED <<items, tmp, stale>>

\* Mutant: a folder goes whatever its age.
SweepAll(c, t) ==
  /\ op[c].at = "sweep"
  /\ t \in op[c].left
  /\ Set(c, [op[c] EXCEPT !.left = @ \ {t}, !.at = "scrub", !.token = t])
  /\ UNCHANGED <<items, tmp, stale>>

\* Mutant: a folder that does not hold a whole item is passed over.
SweepWhole(c, t) ==
  /\ op[c].at = "sweep"
  /\ t \in op[c].left
  /\ Set(c, IF t \in stale /\ tmp[t] = Parts
              THEN [op[c] EXCEPT !.left = @ \ {t}, !.at = "scrub", !.token = t]
              ELSE [op[c] EXCEPT !.left = @ \ {t}])
  /\ UNCHANGED <<items, tmp, stale>>

\* The age of each folder is read when its turn comes.
Sweep(c, t) ==
  /\ op[c].at = "sweep"
  /\ t \in op[c].left
  /\ Set(c, IF t \in stale /\ tmp[t] # {}
              THEN [op[c] EXCEPT !.left = @ \ {t}, !.at = "scrub", !.token = t]
              ELSE [op[c] EXCEPT !.left = @ \ {t}])
  /\ UNCHANGED <<items, tmp, stale>>

Scrub(c) ==
  /\ op[c].at = "scrub"
  /\ RemoveTree(c, [op[c] EXCEPT !.at = "sweep", !.token = Nothing])

\* A listing or a clean-up is through, or an answer was given.
Return(c) ==
  /\ op[c].at \in {"read", "sweep", "return"} /\ op[c].left = {}
  /\ End(c)
  /\ UNCHANGED <<items, tmp, stale>>

-----------------------------------------------------------------------------
\* Time passes over a folder nobody touches.
Age(t) ==
  /\ tmp[t] # {}
  /\ t \notin stale
  /\ Punctual => t \notin Live
  /\ stale' = stale \cup {t}
  /\ UNCHANGED <<items, tmp, op>>

\* A client stops, or loses its connection and with it the answer.
Stop(c) ==
  /\ op[c].at # "idle"
  /\ End(c)
  /\ UNCHANGED <<items, tmp, stale>>

PutStep(c) ==
  \/ OpenContent(c) \/ Look(c) \/ Match(c)
  \/ \E time \in Times : WriteMeta(c, time)
  \/ Unstaged(c) \/ CheckTarget(c) \/ Publish(c) \/ PublishRefused(c)
  \/ AnswerExisting(c) \/ Clear(c)

\* An operation goes on, or ends without an answer.
Work(c) ==
  \/ PutStep(c)
  \/ \E t \in Tokens : Bury(c, t) \/ Sweep(c, t)
  \/ BuryMissing(c) \/ Erase(c)
  \/ ReadNext(c) \/ ReadContent(c)
  \/ WriteProbe(c) \/ Scrub(c)
  \/ Return(c) \/ Stop(c)

Next ==
  \/ \E c \in Clients :
       \/ Work(c)
       \/ \E k \in ContentKeys, t \in Tokens : BeginPut(c, k, t)
       \/ \E i \in Ids : BeginDelete(c, i) \/ BeginGet(c, i)
       \/ \E t \in Tokens : BeginProbe(c, t)
       \/ BeginList(c) \/ BeginClean(c)
  \/ \E t \in Tokens : Age(t)

Spec == Init /\ [][Next]_vars

-----------------------------------------------------------------------------
(***************************************************************************)
(* Properties.                                                             *)
(***************************************************************************)
\* An item is in items/ with its content and its metadata or not at all,
\* whoever stops, deletes or cleans up meanwhile: readers never see a part of
\* one (`stage_and_publish`, `delete`, `clean_staging`).
WholeItems == \A i \in Ids : items[i] \in {{}, Parts}

\* A put that goes on to publish overlooked no item with its content that was
\* in the store all the time since it began (`find_by_content_key`).
Deduplicates ==
  \A c \in Clients : op[c].at \in {"check", "publish"} => op[c].owed = {}

\* A listing has every item that was in the store from its first call to its
\* last, whatever came and went beside it (`list_after`).
ListsAll ==
  \A c \in Clients : op[c].at = "read" /\ op[c].left = {} => op[c].owed \subseteq op[c].got

\* Once the staging folder of an upload is gone the upload is over: a clean-up
\* never takes the folder from under one (`clean_staging`, STALE_STAGING).
UploadsKeepFolder ==
  \A c \in Clients : op[c].at \in PutSteps \ {"clear"} => HasStaging(c)

\* The call a client is in, as its caller sees it.
CallOf(o) ==
  CASE o.at \in PutSteps /\ o.key # Nothing -> [op |-> "put", about |-> o.key, answer |-> o.answer]
    [] o.at \in {"bury", "erase"} -> [op |-> "delete", about |-> o.id, answer |-> o.answer]
    [] OTHER -> [op |-> "none", about |-> Nothing, answer |-> Nothing]

Calls == [c \in Clients |-> CallOf(op[c])]

Abstract == INSTANCE ItemStore WITH present <- Published, call <- Calls

\* The store does what ItemStore promises: puts and deletes are atomic.
ImplementsItemStore == Abstract!ItemSpec

\* The content of an item is stored once (README, "identical content is stored
\* only once").
StoredOnce == \A i, j \in Published : i[2] = j[2] => i = j

\* What interrupted uploads, probes and deletions leave is removed in the end,
\* as long as somebody prunes now and then (`clean_staging`).
LeftoversGo ==
  \A t \in Tokens : (tmp[t] # {} /\ t \notin Live) ~> (tmp[t] = {})

\* An operation does not hang for ever.  A clean-up is started again and again
\* and is not stopped every time before it came to a folder; time passes.
CleaningSpec ==
  /\ Spec
  /\ \A c \in Clients : WF_vars(Work(c))
  /\ \A t \in Tokens :
       /\ WF_vars(Age(t))
       /\ SF_vars(\E c \in Clients : Sweep(c, t))
       /\ SF_vars(\E c \in Clients : op[c].token = t /\ Scrub(c))
  /\ SF_vars(\E c \in Clients : BeginClean(c))
=============================================================================
