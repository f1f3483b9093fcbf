----------------------------- MODULE DownloadProofs -----------------------------
(***************************************************************************)
(* Downloads keep what they find and leave what they should, for any       *)
(* number of them, names and pieces.                                       *)
(***************************************************************************)
EXTENDS Download, TLAPS

USE DownloadAssumption

\* One step of one download.
LoadStep(p) ==
  \/ Start(p) \/ LookAtTarget(p) \/ CreatePart(p) \/ CreateFails(p)
  \/ WritePiece(p) \/ FinishStream(p) \/ StreamFails(p)
  \/ Link(p) \/ CheckName(p) \/ RenameToName(p) \/ RenameOver(p)
  \/ Clean(p) \/ Crash(p)

\* A name that looked free is one of them.
Numbered == \A p \in Loads : pc[p] = "rename" => number[p] <= MaxNumber

Streaming == {"stream", "link", "check", "rename", "place"}

\* Part files and final names are different names, and each download that goes
\* into the directory has a part file of its own.
LEMMA NamesApart ==
  /\ \A n \in 0..MaxNumber : Final(n) \in Finals
  /\ \A p \in Loads : PartOf(p) \in Parts
  /\ Finals \cap Parts = {} /\ NoName \notin Finals
  /\ Finals \subseteq Names /\ Parts \subseteq Names
  /\ \A n \in Names : n \in Finals \/ n \in Parts
  /\ \A p, q \in Loads : PartOf(p) = PartOf(q) => p = q \/ (way[p] # "into" /\ way[q] # "into")
<1>1. \A n : Final(n) = <<"final", n>>
  BY DEF Final
<1>2. \A n \in Finals : n[1] = "final"
  BY <1>1 DEF Finals
<1>3. \A n \in Parts : n[1] = "part"
  BY DEF Parts
<1>4. Finals \cap Parts = {} /\ NoName \notin Finals
  BY <1>2, <1>3 DEF NoName
<1>5. \A p \in Loads : PartOf(p) \in Parts
  BY DEF PartOf, Parts
<1>6. \A p, q \in Loads : PartOf(p) = PartOf(q) => p = q \/ (way[p] # "into" /\ way[q] # "into")
  BY DEF PartOf
<1> QED
  BY <1>4, <1>5, <1>6 DEF Finals, Names

(***************************************************************************)
(* Types.                                                                  *)
(***************************************************************************)
LEMMA Sets == Loads \subseteq Nodes /\ User \in Nodes /\ Empty \in [1..Pieces -> Nodes \cup {Nobody}]
  BY DEF Nodes, Empty

\* The step a download is at changes, if it does, to one of the steps.
Stepped(p) == UNCHANGED pc \/ \E s \in Steps : Goto(p, s)

LEMMA StepTyped ==
  ASSUME TypeOK, NEW p \in Loads, Stepped(p)
  PROVE  pc' \in [Loads -> Steps]
<1>1. ASSUME NEW s \in Steps, pc' = [pc EXCEPT ![p] = s] PROVE pc' \in [Loads -> Steps]
  BY <1>1 DEF TypeOK
<1> QED
  BY <1>1 DEF Stepped, Goto, TypeOK

LEMMA AllStepped == ASSUME NEW p \in Loads, LoadStep(p) PROVE Stepped(p)
<1>0. \A s : s \in {"look", "part", "stream", "link", "check", "rename", "place", "clean", "done",
                    "failed", "dead"} => s \in Steps
  BY DEF Steps
<1>1. CASE Start(p)
  <2>1. PICK w \in Ways[p] : Goto(p, IF w = "to" THEN "look" ELSE "part")
    BY <1>1 DEF Start
  <2> QED
    BY <2>1, <1>0, Zenon DEF Stepped
<1>2. CASE LookAtTarget(p)
  BY <1>2, <1>0, Zenon DEF LookAtTarget, Stepped
<1>3. CASE CreatePart(p) \/ CreateFails(p)
  BY <1>3, <1>0, Zenon DEF CreatePart, CreateFails, Stepped
<1>4. CASE WritePiece(p)
  BY <1>4, Zenon DEF WritePiece, Stepped
<1>5. CASE FinishStream(p) \/ StreamFails(p)
  BY <1>5, <1>0, Zenon DEF FinishStream, StreamFails, Stepped
<1>6. CASE Link(p) \/ CheckName(p)
  BY <1>6, <1>0, Zenon DEF Link, CheckName, Stepped
<1>7. CASE RenameToName(p) \/ RenameOver(p)
  BY <1>7, <1>0, Zenon DEF RenameToName, RenameOver, MovePart, Stepped
<1>8. CASE Clean(p) \/ Crash(p)
  BY <1>8, <1>0, Zenon DEF Clean, Crash, Stepped
<1> QED
  BY <1>1, <1>2, <1>3, <1>4, <1>5, <1>6, <1>7, <1>8, Zenon DEF LoadStep

LEMMA NameTyped ==
  ASSUME TypeOK, NEW n \in Names, NEW x \in Nodes \cup {Nobody}, Put(n, x)
  PROVE  names' \in [Names -> Nodes \cup {Nobody}]
  BY DEF TypeOK, Put

\* A download's step changes only what is its own, and well.
LEMMA TypedStep == ASSUME TypeOK, Numbered, NEW p \in Loads, LoadStep(p) PROVE TypeOK'
<1>0. pc' \in [Loads -> Steps]
  BY StepTyped, AllStepped
<1>p. PartOf(p) \in Names /\ p \in Nodes
  BY NamesApart, Sets
<1>1. CASE Start(p)
  <2>1. PICK w \in Ways[p] : way' = [way EXCEPT ![p] = w]
    BY <1>1 DEF Start
  <2>2. way' \in [Loads -> {"into", "to", "force"}]
    BY <2>1 DEF TypeOK
  <2> QED
    BY <1>0, <1>1, <2>2 DEF TypeOK, Start
<1>2. CASE LookAtTarget(p) \/ CreateFails(p) \/ FinishStream(p) \/ StreamFails(p) \/ Crash(p)
  BY <1>0, <1>2 DEF TypeOK, LookAtTarget, CreateFails, FinishStream, StreamFails, Crash
<1>3. CASE CreatePart(p)
  <2>3. CASE Free(PartOf(p))
    <3>1. names' \in [Names -> Nodes \cup {Nobody}]
      BY <1>3, <1>p, <2>3, NameTyped DEF CreatePart
    <3>2. file' \in [Loads -> Nodes \cup {Nobody}]
      BY <1>3, <1>p, <2>3 DEF CreatePart, TypeOK
    <3> QED
      BY <1>0, <1>3, <2>3, <3>1, <3>2 DEF CreatePart, TypeOK
  <2>4. CASE ~Free(PartOf(p))
    <3>1. names[PartOf(p)] \in Nodes
      BY <1>p, <2>4 DEF TypeOK, Free
    <3>2. file' = [file EXCEPT ![p] = names[PartOf(p)]]
      BY <1>3, <2>4 DEF CreatePart
    <3>3. file' \in [Loads -> Nodes \cup {Nobody}]
      BY <3>1, <3>2 DEF TypeOK
    <3>4. bytes' = [bytes EXCEPT ![names[PartOf(p)]] = Empty]
      BY <1>3, <2>4 DEF CreatePart
    <3>5. bytes' \in [Nodes -> [1..Pieces -> Nodes \cup {Nobody}]]
      BY <3>1, <3>4, Sets DEF TypeOK
    <3> QED
      BY <1>0, <1>3, <2>4, <3>3, <3>5 DEF CreatePart, TypeOK
  <2> QED
    BY <2>3, <2>4
<1>4. CASE WritePiece(p)
  <2>1. pos' \in [Loads -> 0..Pieces]
    BY <1>4 DEF WritePiece, TypeOK
  <2>2. bytes' \in [Nodes -> [1..Pieces -> Nodes \cup {Nobody}]]
    BY <1>4, <1>p DEF WritePiece, TypeOK
  <2> QED
    BY <1>0, <1>4, <2>1, <2>2 DEF WritePiece, TypeOK
<1>5. CASE Link(p)
  <2> DEFINE n == Final(number[p])
  <2>1. number[p] \in 0..(MaxNumber + 1)
    BY DEF TypeOK
  <2>2. number[p] <= MaxNumber => n \in Finals /\ n \in Names
    BY <2>1, NamesApart
  <2>3. file[p] \in Nodes \cup {Nobody}
    BY DEF TypeOK
  <2> HIDE DEF n
  <2>4. UNCHANGED <<names, result>> \/ (number[p] <= MaxNumber /\ Put(n, file[p]) /\ Reports(p, n))
    BY <1>5 DEF Link, n
  <2>5. names' \in [Names -> Nodes \cup {Nobody}]
    BY <2>2, <2>3, <2>4, NameTyped DEF TypeOK
  <2>6. result' \in [Loads -> Finals \cup {NoName}]
    BY <2>2, <2>4 DEF Reports, TypeOK
  <2>7. number' = number \/ (number[p] <= MaxNumber /\ number' = [number EXCEPT ![p] = @ + 1])
    BY <1>5 DEF Link
  <2>8. number[p] <= MaxNumber => number[p] + 1 \in 0..(MaxNumber + 1)
    BY <2>1
  <2>9. number' \in [Loads -> 0..(MaxNumber + 1)]
    <3>1. number \in [Loads -> 0..(MaxNumber + 1)]
      BY DEF TypeOK
    <3> QED
      BY ONLY <2>7, <2>8, <3>1
  <2> QED
    BY <1>0, <1>5, <2>5, <2>6, <2>9 DEF Link, TypeOK
<1>6. CASE CheckName(p)
  <2>1. number' = number \/ (number[p] <= MaxNumber /\ number' = [number EXCEPT ![p] = @ + 1])
    BY <1>6 DEF CheckName
  <2>2. number' \in [Loads -> 0..(MaxNumber + 1)]
    BY <2>1 DEF TypeOK
  <2> QED
    BY <1>0, <1>6, <2>2 DEF CheckName, TypeOK
<1>7. ASSUME NEW n \in Finals, MovePart(p, n)
      PROVE  /\ names' \in [Names -> Nodes \cup {Nobody}]
             /\ result' \in [Loads -> Finals \cup {NoName}]
  <2>1. \/ UNCHANGED <<names, result>>
        \/ /\ names' = [names EXCEPT ![n] = names[PartOf(p)], ![PartOf(p)] = Nobody]
           /\ result' = [result EXCEPT ![p] = n]
    BY <1>7 DEF MovePart, Reports
  <2>2. n \in Names /\ names[PartOf(p)] \in Nodes \cup {Nobody}
    BY <1>p, NamesApart DEF TypeOK
  <2>3. names' \in [Names -> Nodes \cup {Nobody}]
    BY <1>p, <2>1, <2>2 DEF TypeOK
  <2>4. result' \in [Loads -> Finals \cup {NoName}]
    BY <2>1 DEF TypeOK
  <2> QED
    BY <2>3, <2>4
<1>8. CASE RenameToName(p)
  <2>1. number[p] \in 0..MaxNumber
    BY <1>8 DEF RenameToName, TypeOK, Numbered
  <2>2. Final(number[p]) \in Finals
    BY <2>1, NamesApart
  <2> QED
    BY <1>0, <1>7, <1>8, <2>2 DEF RenameToName, TypeOK
<1>9. CASE RenameOver(p)
  <2>1. Final(0) \in Finals
    BY NamesApart
  <2> QED
    BY <1>0, <1>7, <1>9, <2>1 DEF RenameOver, TypeOK
<1>10. CASE Clean(p)
  <2>1. names' \in [Names -> Nodes \cup {Nobody}]
    BY <1>10, <1>p, NameTyped DEF Clean
  <2> QED
    BY <1>0, <1>10, <2>1 DEF Clean, TypeOK
<1> QED
  BY <1>1, <1>2, <1>3, <1>4, <1>5, <1>6, <1>8, <1>9, <1>10 DEF LoadStep

\* What a step of one download leaves to the others.
LEMMA OthersKeep ==
  ASSUME TypeOK, NEW p \in Loads, LoadStep(p), NEW q \in Loads \ {p}
  PROVE  /\ pc'[q] = pc[q] /\ way'[q] = way[q] /\ pos'[q] = pos[q]
         /\ file'[q] = file[q] /\ number'[q] = number[q] /\ result'[q] = result[q]
         /\ PartOf(q)' = PartOf(q)
<1>1. /\ pc'[q] = pc[q] /\ way'[q] = way[q] /\ pos'[q] = pos[q]
      /\ file'[q] = file[q] /\ number'[q] = number[q] /\ result'[q] = result[q]
  <2>1. CASE Start(p)
    BY <2>1 DEF Start, Goto, TypeOK
  <2>2. CASE LookAtTarget(p) \/ CreateFails(p) \/ FinishStream(p) \/ StreamFails(p) \/ Crash(p)
    BY <2>2 DEF LookAtTarget, CreateFails, FinishStream, StreamFails, Crash, Goto, TypeOK
  <2>3. CASE CreatePart(p) \/ WritePiece(p) \/ Clean(p)
    BY <2>3 DEF CreatePart, WritePiece, Clean, Goto, TypeOK
  <2>4. CASE Link(p)
    BY <2>4 DEF Link, Goto, Reports, TypeOK
  <2>5. CASE CheckName(p) \/ RenameToName(p) \/ RenameOver(p)
    BY <2>5 DEF CheckName, RenameToName, RenameOver, MovePart, Goto, Reports, TypeOK
  <2> QED
    BY <2>1, <2>2, <2>3, <2>4, <2>5 DEF LoadStep
<1> QED
  BY <1>1 DEF PartOf

LEMMA NumberedStep == ASSUME TypeOK, Numbered, NEW p \in Loads, LoadStep(p) PROVE Numbered'
<1>1. pc'[p] = "rename" => number'[p] <= MaxNumber
  <2>1. pc'[p] = "rename" => CheckName(p) /\ number' = number /\ number[p] <= MaxNumber
    BY DEF LoadStep, Start, LookAtTarget, CreatePart, CreateFails, WritePiece, FinishStream,
           StreamFails, Link, CheckName, RenameToName, RenameOver, MovePart, Clean, Crash, Goto, TypeOK
  <2> QED
    BY <2>1
<1> QED
  BY <1>1, OthersKeep DEF Numbered

Sound == TypeOK /\ Numbered

LEMMA SoundInit == Init => Sound
  BY DEF Sound, Init, TypeOK, Numbered, Nodes, Empty, Steps

\* A user saves and removes files under final names.
UserStep == \E n \in Finals : UserSaves(n) \/ UserRemoves(n)

LEMMA NextSteps == Next <=> UserStep \/ \E p \in Loads : LoadStep(p)
  BY DEF Next, UserStep, LoadStep

LEMMA SoundNext == Sound /\ [Next]_vars => Sound'
<1> SUFFICES ASSUME TypeOK, Numbered, [Next]_vars PROVE TypeOK' /\ Numbered'
  BY DEF Sound
<1>1. CASE UNCHANGED vars
  BY <1>1 DEF TypeOK, Numbered, vars
<1>2. ASSUME NEW n \in Finals, UserSaves(n) \/ UserRemoves(n) PROVE TypeOK' /\ Numbered'
  <2>1. names' \in [Names -> Nodes \cup {Nobody}]
    BY <1>2, NamesApart, NameTyped, Sets DEF UserSaves, UserRemoves
  <2> QED
    BY <1>2, <2>1 DEF TypeOK, Numbered, UserSaves, UserRemoves
<1> QED
  BY <1>1, <1>2, NextSteps, TypedStep, NumberedStep DEF UserStep

\* Every reachable state of the downloads is well formed.
THEOREM DownloadTyped == Spec => []TypeOK
<1>1. Sound => TypeOK
  BY DEF Sound
<1> QED
  BY SoundInit, SoundNext, <1>1, PTL DEF Spec

--------------------------------------------------------------------------------
(***************************************************************************)
(* What holds whether or not loads to one path overlap: part files have an *)
(* owner who still works or was killed, a name is looked at rather than    *)
(* linked only without hard links, and reported names stay taken.          *)
(***************************************************************************)
Owning == Streaming \cup {"clean", "dead"}

Linked == links => \A p \in Loads : pc[p] \notin {"check", "rename"}
Filed == \A p \in Loads : pc[p] \in Streaming => file[p] \in Loads
Partly == \A n \in Parts : names[n] # User
Worked == \A n \in Parts : names[n] # Nobody => \E p \in Loads : n = PartOf(p) /\ pc[p] \in Owning
Placed == \A p \in Loads : pc[p] = "place" => way[p] # "into"
Reported ==
  /\ \A p \in Loads : pc[p] = "off" => result[p] = NoName
  /\ touches = 0 => \A p \in Loads : result[p] # NoName => names[result[p]] # Nobody

Kept == Sound /\ Linked /\ Filed /\ Partly /\ Worked /\ Placed /\ Reported /\ OwnNames

LEMMA KeptInit == Init => Kept
<1> SUFFICES ASSUME Init PROVE Kept
  OBVIOUS
<1>1. Sound
  BY SoundInit
<1>2. Linked /\ Filed /\ Placed /\ Reported /\ OwnNames
  BY DEF Init, Linked, Placed, Filed, Reported, OwnNames, Streaming
<1>3. Partly /\ Worked
  BY NamesApart DEF Init, Partly, Worked
<1> QED
  BY <1>1, <1>2, <1>3 DEF Kept

\* How a step of a download changes the names: its part file comes or goes, a
\* file is linked to a free name, or the part file is renamed.
Creates(p) == pc[p] = "part" /\ Free(PartOf(p)) /\ Put(PartOf(p), p) /\ pc'[p] = "stream" /\ file'[p] = p
Links(p) ==
  /\ pc[p] = "link" /\ links /\ pc'[p] = "clean"
  /\ \E n \in Finals : Free(n) /\ Put(n, file[p]) /\ Reports(p, n)
Moves(p) ==
  /\ \/ pc[p] = "rename" /\ \E k \in 0..MaxNumber : MovePart(p, Final(k))
     \/ pc[p] = "place" /\ MovePart(p, Final(0))
  /\ ~Free(PartOf(p))
Cleans(p) == pc[p] = "clean" /\ Put(PartOf(p), Nobody) /\ UNCHANGED result

LEMMA NamesStep ==
  ASSUME Sound, NEW p \in Loads, LoadStep(p)
  PROVE  \/ UNCHANGED names /\ UNCHANGED result
         \/ Creates(p) /\ UNCHANGED result
         \/ Links(p)
         \/ Moves(p)
         \/ Cleans(p)
<1> USE DEF Sound
<1>1. CASE CreatePart(p)
  BY <1>1 DEF CreatePart, Creates, Goto, TypeOK
<1>2. CASE Link(p)
  <2>1. number[p] \in 0..(MaxNumber + 1)
    BY DEF TypeOK
  <2>2. number[p] <= MaxNumber => Final(number[p]) \in Finals
    BY <2>1, NamesApart
  <2> QED
    BY <1>2, <2>2 DEF Link, Links, Goto, TypeOK
<1>3. CASE RenameToName(p)
  <2>1. number[p] \in 0..MaxNumber
    BY <1>3 DEF RenameToName, TypeOK, Numbered
  <2> QED
    BY <1>3, <2>1 DEF RenameToName, MovePart, Moves
<1>4. CASE RenameOver(p)
  BY <1>4 DEF RenameOver, MovePart, Moves
<1>5. CASE Clean(p)
  BY <1>5 DEF Clean, Cleans
<1> QED
  BY <1>1, <1>2, <1>3, <1>4, <1>5
  DEF LoadStep, Start, LookAtTarget, CreateFails, WritePiece, FinishStream, StreamFails, CheckName, Crash

\* Where a download goes next.
LEMMA PcStep ==
  ASSUME TypeOK, Numbered, NEW p \in Loads, LoadStep(p)
  PROVE  /\ pc[p] \in Owning /\ pc'[p] \notin Owning => Free(PartOf(p))' /\ PartOf(p)' = PartOf(p)
         /\ pc'[p] \in {"check", "rename"} => (pc[p] = "link" /\ ~links) \/ pc[p] = "check"
         /\ pc'[p] \in Streaming => CreatePart(p) \/ (pc[p] \in Streaming /\ file' = file)
         /\ pc'[p] = "place" => way'[p] # "into" \/ pc[p] = "place"
         /\ pc'[p] # "off" /\ links' = links /\ touches' = touches
         /\ pc[p] # "off" => way' = way
<1> USE DEF TypeOK, Goto, Owning, Streaming
<1>1. CASE Start(p)
  BY <1>1 DEF Start
<1>2. CASE LookAtTarget(p) \/ CreateFails(p) \/ FinishStream(p) \/ StreamFails(p) \/ Crash(p)
  BY <1>2 DEF LookAtTarget, CreateFails, FinishStream, StreamFails, Crash
<1>3. CASE CreatePart(p) \/ WritePiece(p)
  BY <1>3 DEF CreatePart, WritePiece
<1>4. CASE Link(p) \/ CheckName(p)
  BY <1>4 DEF Link, CheckName
<1>5. CASE Clean(p)
  BY <1>5, NamesApart DEF Clean, Free, Put, PartOf
<1>6. ASSUME NEW n \in Finals, MovePart(p, n), way' = way
      PROVE  /\ PartOf(p)' = PartOf(p)
             /\ pc'[p] = "clean" \/ (pc'[p] = "done" /\ Free(PartOf(p))')
  <2>1. PartOf(p) \in Names /\ PartOf(p) # n
    BY NamesApart
  <2>2. PartOf(p)' = PartOf(p)
    BY <1>6 DEF PartOf
  <2>3. CASE Free(PartOf(p))
    BY <1>6, <2>2, <2>3 DEF MovePart
  <2>4. CASE ~Free(PartOf(p))
    <3>1. names'[PartOf(p)] = Nobody
      BY <1>6, <2>1, <2>4 DEF MovePart
    <3>2. pc'[p] \in {"clean", "done"}
      BY <1>6, <2>4 DEF MovePart
    <3> QED
      BY <2>2, <3>1, <3>2 DEF Free
  <2> QED
    BY <2>3, <2>4, <2>2
<1>7. CASE RenameToName(p)
  <2>1. MovePart(p, Final(number[p])) /\ way' = way /\ links' = links /\ touches' = touches
        /\ pc[p] = "rename"
    BY <1>7 DEF RenameToName
  <2>2. Final(number[p]) \in Finals \/ number[p] = MaxNumber + 1
    BY DEF Finals
  <2>3. pc'[p] = "clean" \/ pc'[p] = "done"
    BY <2>1 DEF MovePart
  <2>4. number[p] <= MaxNumber
    BY <2>1 DEF Numbered
  <2> QED
    BY <2>1, <2>2, <2>3, <2>4, <1>6
<1>8. CASE RenameOver(p)
  <2>1. Final(0) \in Finals
    BY NamesApart
  <2>2. pc'[p] = "clean" \/ pc'[p] = "done"
    BY <1>8 DEF RenameOver, MovePart
  <2> QED
    BY <1>8, <2>1, <2>2, <1>6 DEF RenameOver
<1> QED
  BY <1>1, <1>2, <1>3, <1>4, <1>5, <1>7, <1>8 DEF LoadStep

LEMMA KeptLoad == ASSUME Kept, NEW p \in Loads, LoadStep(p) PROVE Kept'
<1>1. TypeOK /\ Numbered
  BY DEF Kept, Sound
<1> DEFINE Other(q) == /\ pc'[q] = pc[q] /\ way'[q] = way[q] /\ file'[q] = file[q]
                       /\ result'[q] = result[q] /\ PartOf(q)' = PartOf(q)
<1>2. \A q \in Loads \ {p} : Other(q)
  BY <1>1, OthersKeep
<1> HIDE DEF Other
<1>3. Sound'
  BY <1>1, TypedStep, NumberedStep DEF Sound
<1>4. Linked'
  <2>1. ASSUME links, NEW q \in Loads PROVE pc'[q] \notin {"check", "rename"}
    BY <1>1, <1>2, <2>1, PcStep DEF Kept, Linked, Other
  <2> QED
    BY <2>1, <1>1, PcStep DEF Linked
<1>5. Filed'
  <2>1. CreatePart(p) => file'[p] \in Loads
    <3>1. PartOf(p) \in Parts /\ PartOf(p) \in Names
      BY NamesApart
    <3>2. ~Free(PartOf(p)) => names[PartOf(p)] \in Loads
      BY <1>1, <3>1 DEF Kept, Partly, TypeOK, Nodes, Free
    <3> QED
      BY <1>1, <3>2 DEF CreatePart, TypeOK
  <2>2. pc'[p] \in Streaming => file'[p] \in Loads
    BY <1>1, <2>1, PcStep DEF Kept, Filed
  <2> QED
    BY <1>2, <2>2 DEF Kept, Filed, Other
<1>6. ASSUME NEW n \in Parts, names'[n] # names[n]
      PROVE  n = PartOf(p) /\ (names'[n] = Nobody \/ (Creates(p) /\ names'[n] = p))
  <2>1. n \in Names /\ n \notin Finals
    BY NamesApart
  <2>2. CASE Creates(p)
    BY <1>1, <1>6, <2>1, <2>2 DEF Creates, Put, TypeOK
  <2>3. CASE Links(p)
    BY <1>1, <1>6, <2>1, <2>3 DEF Links, Put, TypeOK
  <2>4. CASE Moves(p)
    <3>1. \E m \in Finals : names' = [names EXCEPT ![m] = names[PartOf(p)], ![PartOf(p)] = Nobody]
      BY <2>4, NamesApart DEF Moves, MovePart
    <3>2. n # PartOf(p) => names'[n] = names[n]
      BY <1>1, <2>1, <3>1 DEF TypeOK
    <3>3. n = PartOf(p) => names'[n] = Nobody
      BY <1>1, <2>1, <3>1 DEF TypeOK
    <3>4. n = PartOf(p)
      BY <1>6, <3>2
    <3> QED
      BY <3>3, <3>4
  <2>5. CASE Cleans(p)
    <3>1. names' = [names EXCEPT ![PartOf(p)] = Nobody]
      BY <2>5 DEF Cleans, Put
    <3>2. n # PartOf(p) => names'[n] = names[n]
      BY <1>1, <2>1, <3>1 DEF TypeOK
    <3>3. n = PartOf(p) => names'[n] = Nobody
      BY <1>1, <2>1, <3>1 DEF TypeOK
    <3>4. n = PartOf(p)
      BY <1>6, <3>2
    <3> QED
      BY <3>3, <3>4
  <2> QED
    BY <1>3, <1>6, <2>2, <2>3, <2>4, <2>5, NamesStep DEF Kept
<1>7. Partly'
  BY <1>6 DEF Kept, Partly
<1>8. Worked'
  <2>1. ASSUME NEW n \in Parts, names'[n] # Nobody, names[n] # Nobody
        PROVE  \E q \in Loads : n = PartOf(q)' /\ pc'[q] \in Owning
    <3>1. PICK q \in Loads : n = PartOf(q) /\ pc[q] \in Owning
      BY <2>1 DEF Kept, Worked
    <3>2. CASE q # p
      BY <1>2, <3>1, <3>2 DEF Other
    <3>3. CASE q = p
      <4>1. PartOf(p)' = PartOf(p)
        BY <1>1, <3>1, <3>3, PcStep DEF PartOf, Owning, Streaming
      <4>2. pc'[p] \in Owning
        BY <1>1, <2>1, <3>1, <3>3, <4>1, PcStep DEF Free
      <4> QED
        BY <3>1, <3>3, <4>1, <4>2
    <3> QED
      BY <3>2, <3>3
  <2>2. ASSUME NEW n \in Parts, names'[n] # Nobody, names[n] = Nobody
        PROVE  \E q \in Loads : n = PartOf(q)' /\ pc'[q] \in Owning
    <3>1. n = PartOf(p) /\ pc[p] = "part" /\ pc'[p] = "stream"
      BY <1>6, <2>2 DEF Creates
    <3>2. PartOf(p)' = PartOf(p)
      BY <1>1, <3>1, PcStep DEF PartOf
    <3> QED
      BY <3>1, <3>2 DEF Owning, Streaming
  <2> QED
    BY <2>1, <2>2 DEF Worked
<1>9. Placed'
  <2>1. pc'[p] = "place" => way'[p] # "into"
    BY <1>1, PcStep DEF Kept, Placed
  <2> QED
    BY <1>2, <2>1 DEF Kept, Placed, Other
\* A final name that is taken stays taken, and what is reported is taken.
<1>10. \A n \in Finals : names[n] # Nobody => names'[n] # Nobody
  <2> SUFFICES ASSUME NEW n \in Finals, names[n] # Nobody PROVE names'[n] # Nobody
    OBVIOUS
  <2>1. n \in Names /\ n \notin Parts /\ PartOf(p) \in Parts
    BY NamesApart
  <2>2. CASE Creates(p)
    BY <1>1, <2>1, <2>2 DEF Creates, Put, TypeOK
  <2>3. CASE Links(p)
    BY <1>1, <2>1, <2>3 DEF Links, Put, Free, TypeOK
  <2>4. CASE Moves(p)
    <3>1. PICK m \in Finals : names' = [names EXCEPT ![m] = names[PartOf(p)], ![PartOf(p)] = Nobody]
      BY <2>4, NamesApart DEF Moves, MovePart
    <3>2. names[PartOf(p)] # Nobody
      BY <2>4 DEF Moves, Free
    <3> QED
      BY <1>1, <2>1, <3>1, <3>2 DEF TypeOK
  <2>5. CASE Cleans(p)
    BY <1>1, <2>1, <2>5 DEF Cleans, Put, TypeOK
  <2> QED
    BY <2>2, <2>3, <2>4, <2>5, NamesStep DEF Kept
<1>11. result' = result \/ (pc[p] # "off" /\ \E n \in Finals : Reports(p, n) /\ names'[n] # Nobody)
  <2>1. CASE Links(p)
    <3>1. file[p] \in Loads
      BY <2>1 DEF Kept, Filed, Links, Streaming
    <3> QED
      BY <1>1, <2>1, <3>1, NamesApart DEF Links, Put, TypeOK
  <2>2. CASE Moves(p)
    <3>1. PICK m \in Finals : /\ names' = [names EXCEPT ![m] = names[PartOf(p)], ![PartOf(p)] = Nobody]
                             /\ Reports(p, m)
      BY <2>2, NamesApart DEF Moves, MovePart
    <3>2. names[PartOf(p)] # Nobody /\ pc[p] # "off"
      BY <2>2 DEF Moves, Free
    <3>3. m \in Names /\ m # PartOf(p)
      BY NamesApart
    <3>4. names'[m] # Nobody
      BY <1>1, <3>1, <3>2, <3>3 DEF TypeOK
    <3> QED
      BY <3>1, <3>2, <3>4
  <2> QED
    BY <2>1, <2>2, NamesStep DEF Kept, Cleans
<1>12. Reported'
  <2>1. \A q \in Loads : pc'[q] = "off" => result'[q] = NoName
    BY <1>1, <1>2, PcStep DEF Kept, Reported, Other
  <2>2. ASSUME touches = 0, NEW q \in Loads, result'[q] # NoName PROVE names'[result'[q]] # Nobody
    <3>1. CASE result'[q] = result[q]
      <4>1. result[q] \in Finals /\ names[result[q]] # Nobody
        BY <1>1, <2>2, <3>1 DEF Kept, Reported, TypeOK
      <4> QED
        BY <1>10, <3>1, <4>1
    <3>2. CASE result'[q] # result[q]
      BY <1>1, <1>2, <1>11, <3>2 DEF Other, Reports, TypeOK
    <3> QED
      BY <3>1, <3>2
  <2>3. touches' = touches
    BY <1>1, PcStep
  <2> QED
    BY <2>1, <2>2, <2>3 DEF Reported
<1>13. OwnNames'
  <2> SUFFICES ASSUME touches = 0, links, NEW a \in Loads, NEW b \in Loads, a # b,
                      way'[a] = "into", way'[b] = "into", result'[a] # NoName
               PROVE  result'[a] # result'[b]
    BY <1>1, PcStep DEF OwnNames
  <2>1. CASE result' = result
    <3>1. result[a] # NoName /\ pc[a] # "off"
      BY <2>1 DEF Kept, Reported
    <3>2. CASE pc[b] = "off"
      BY <2>1, <3>1, <3>2 DEF Kept, Reported
    <3>3. CASE pc[b] # "off"
      <4>1. way[a] = "into" /\ way[b] = "into"
        BY <1>1, <1>2, <3>1, <3>3, PcStep DEF Other
      <4> QED
        BY <2>1, <3>1, <4>1 DEF Kept, OwnNames
    <3> QED
      BY <3>2, <3>3
  <2>2. CASE result' # result
    <3>1. pc[p] # "off" /\ way' = way
      BY <1>1, <1>11, <2>2, PcStep
    <3>2. CASE Links(p)
      <4>1. PICK n \in Finals : Free(n) /\ Reports(p, n)
        BY <3>2 DEF Links
      <4>2. \A q \in Loads : result[q] # n
        BY <4>1, NamesApart DEF Kept, Reported, Free
      <4>3. result' = [result EXCEPT ![p] = n]
        BY <4>1 DEF Reports
      <4>4. way[a] = "into" /\ way[b] = "into"
        BY <3>1
      <4> QED
        BY <1>1, <4>2, <4>3, <4>4 DEF Kept, OwnNames, TypeOK
    <3>3. CASE Moves(p)
      <4>1. way[p] # "into"
        BY <3>3 DEF Moves, Kept, Placed, Linked
      <4>2. a # p /\ b # p
        BY <3>1, <4>1
      <4> QED
        BY <1>2, <3>1, <4>2 DEF Kept, OwnNames, Other
    <3> QED
      BY <2>2, <3>2, <3>3, NamesStep DEF Kept, Cleans
  <2> QED
    BY <2>1, <2>2
<1> QED
  BY <1>3, <1>4, <1>5, <1>7, <1>8, <1>9, <1>12, <1>13 DEF Kept

LEMMA KeptNext == Kept /\ [Next]_vars => Kept'
<1> SUFFICES ASSUME Kept, [Next]_vars PROVE Kept'
  OBVIOUS
<1>1. CASE UNCHANGED vars
  <2>1. \A p : PartOf(p)' = PartOf(p)
    BY <1>1 DEF vars, PartOf
  <2> QED
    BY <1>1, <2>1 DEF vars, Kept, Sound, TypeOK, Numbered, Linked, Filed, Partly, Worked, Placed, Reported, OwnNames
<1>2. CASE UserStep
  <2>1. PICK n \in Finals : UserSaves(n) \/ UserRemoves(n)
    BY <1>2 DEF UserStep
  <2>2. Sound'
    BY SoundNext DEF Kept
  <2>3. \A m \in Parts : names'[m] = names[m]
    BY <2>1, NamesApart DEF UserSaves, UserRemoves, Put, Kept, Sound, TypeOK
  <2>4. \A p : PartOf(p)' = PartOf(p)
    BY <2>1 DEF UserSaves, UserRemoves, PartOf
  <2>5. touches' # 0
    BY <2>1 DEF UserSaves, UserRemoves, Kept, Sound, TypeOK
  <2>6. pc' = pc /\ way' = way /\ file' = file /\ result' = result /\ links' = links
    BY <2>1 DEF UserSaves, UserRemoves
  <2>7. Linked' /\ Filed' /\ Placed' /\ Reported' /\ OwnNames'
    BY <2>5, <2>6 DEF Kept, Linked, Filed, Placed, Reported, OwnNames
  <2>8. Partly' /\ Worked'
    BY <2>3, <2>4, <2>6 DEF Kept, Partly, Worked
  <2> QED
    BY <2>2, <2>7, <2>8 DEF Kept
<1> QED
  BY <1>1, <1>2, KeptLoad, NextSteps

\* A part file in the directory belongs to a download that works on it or was
\* killed: one that returned, with a file or with an error, left none.
THEOREM DownloadPartsOwned == Spec => []PartsOwned
<1>1. Kept => PartsOwned
  BY DEF Kept, Worked, PartsOwned, Owning, Streaming
<1> QED
  BY KeptInit, KeptNext, <1>1, PTL DEF Spec

\* Where there are hard links, no two downloads into the directory report one
\* name.
THEOREM DownloadOwnNames == Spec => []OwnNames
<1>1. Kept => OwnNames
  BY DEF Kept
<1> QED
  BY KeptInit, KeptNext, <1>1, PTL DEF Spec

\* Where there are hard links, the file under a name is replaced only by the
\* rename over the path that `load` was given.
LEMMA Replaces ==
  ASSUME Kept, [Next]_vars, NEW n \in Finals, links, names[n] # Nobody, names'[n] \notin {names[n], Nobody}
  PROVE  \E p \in Loads : pc[p] = "place" /\ pc'[p] # "place"
<1>1. TypeOK /\ n \in Names /\ n \notin Parts
  BY NamesApart DEF Kept, Sound
<1>2. ~UserStep
  <2> SUFFICES ASSUME NEW m \in Finals, UserSaves(m) \/ UserRemoves(m) PROVE FALSE
    BY DEF UserStep
  <2> QED
    BY <1>1 DEF UserSaves, UserRemoves, Put, Free, TypeOK
<1>3. PICK p \in Loads : LoadStep(p)
  BY <1>2, NextSteps DEF vars
<1>4. PartOf(p) # n
  BY <1>1, NamesApart
<1>5. ~Creates(p) /\ ~Links(p) /\ ~Cleans(p)
  BY <1>1, <1>4 DEF Creates, Links, Cleans, Put, Free, TypeOK
<1>6. Moves(p)
  BY <1>3, <1>5, NamesStep DEF Kept
<1>7. pc[p] = "place" /\ MovePart(p, Final(0))
  BY <1>6 DEF Moves, Kept, Linked
<1> QED
  BY <1>1, <1>7 DEF MovePart, Goto, TypeOK

\* With hard links, a name that is taken keeps its file, for any number of
\* downloads, whoever fails or is killed.
THEOREM DownloadReplacesNothing == Spec => NothingReplaced
<1>1. Kept /\ [Next]_vars => [\A n \in Finals :
         links /\ names[n] # Nobody /\ names'[n] \notin {names[n], Nobody}
           => \E p \in Loads : pc[p] = "place" /\ pc'[p] # "place"]_vars
  BY Replaces
<1> QED
  BY KeptInit, KeptNext, <1>1, PTL DEF Spec, NothingReplaced

--------------------------------------------------------------------------------
(***************************************************************************)
(* Where no two loads to one path overlap, a file under a final name is    *)
(* whole.  It is enough that the file a download writes is in its own part *)
(* file and nowhere else, until every piece of it is that download's.      *)
(***************************************************************************)
Own(p) == <<"part", p>>
Shared == <<"part", Nobody>>
Early == {"off", "look", "part"}

\* No two loads to the path work at one time.
Alone ==
  \A p, q \in Loads :
    p # q /\ way[p] # "into" /\ way[q] # "into" => pc[p] \notin Working \/ pc[q] \notin Working

\* The part files of the directory hold their download's file; the one beside
\* the path holds a file of some load to it, which no final name has.
Apart ==
  /\ \A p \in Loads : names[Own(p)] \in {Nobody, p} /\ (names[Own(p)] = p => way[p] = "into")
  /\ names[Shared] # Nobody =>
       way[names[Shared]] # "into" /\ \A n \in Finals : names[n] # names[Shared]

\* What each download knows of the file it writes.
Mine(p) ==
  /\ pc[p] \in Early => pos[p] = 0 /\ \A n \in Names : names[n] # p
  /\ pc[p] \in {"off", "link", "check", "rename"} => way[p] = "into"
  /\ pc[p] \in {"look", "place"} => way[p] # "into"
  /\ pc[p] \in Streaming => names[PartOf(p)] = file[p] /\ \A k \in 1..pos[p] : bytes[file[p]][k] = p
  /\ pc[p] \in Streaming \ {"stream"} => pos[p] = Pieces
  /\ pc[p] = "stream" => \A n \in Finals : names[n] # file[p]

Whole == Kept /\ Alone /\ Apart /\ (\A p \in Loads : Mine(p)) /\ FinalsWhole

LEMMA PartsAre ==
  /\ \A p \in Loads : PartOf(p) = IF way[p] = "into" THEN Own(p) ELSE Shared
  /\ \A p, q \in Loads : Own(p) = Own(q) => p = q
  /\ \A p \in Loads : Own(p) # Shared /\ Own(p) \in Parts
  /\ Shared \in Parts /\ \A n \in Parts : n = Shared \/ \E p \in Loads : n = Own(p)
  BY DEF PartOf, Own, Shared, Parts

LEMMA WholeInit == Init => Whole
<1> SUFFICES ASSUME Init PROVE Whole
  OBVIOUS
<1>1. Kept
  BY KeptInit
<1>2. \A n \in Names : names[n] = Nobody
  BY DEF Init
<1>3. Alone /\ FinalsWhole
  BY <1>2, NamesApart DEF Init, Alone, FinalsWhole
<1>4. Apart
  BY <1>2, NamesApart, PartsAre DEF Apart
<1>5. \A p \in Loads : Mine(p)
  BY <1>2 DEF Init, Mine, Early, Streaming
<1> QED
  BY <1>1, <1>3, <1>4, <1>5 DEF Whole

\* Two downloads that write hold two files, under two part names.
LEMMA Distinct ==
  ASSUME Whole, NEW p \in Loads, NEW q \in Loads, p # q, pc[p] \in Working, pc[q] \in Working
  PROVE  /\ PartOf(p) # PartOf(q)
         /\ pc[p] \in Streaming /\ pc[q] \in Streaming => file[p] # file[q]
<1>1. PartOf(p) # PartOf(q)
  BY NamesApart DEF Whole, Alone
<1>2. ASSUME NEW x \in Loads, pc[x] \in Streaming
      PROVE  IF way[x] = "into" THEN file[x] = x ELSE way[file[x]] # "into"
  <2>1. names[PartOf(x)] = file[x] /\ file[x] \in Loads
    BY <1>2 DEF Whole, Mine, Kept, Filed
  <2> QED
    BY <2>1, PartsAre DEF Whole, Apart
<1> QED
  BY <1>1, <1>2 DEF Whole, Alone

\* What a step of a download does to the names and to what files hold.
LEMMA Effect ==
  ASSUME Whole, NEW p \in Loads, LoadStep(p)
  PROVE  /\ UNCHANGED names \/ pc[p] \in Working
         /\ \A n \in Parts \ {PartOf(p)} : names'[n] = names[n]
         /\ names'[PartOf(p)] = names[PartOf(p)] \/ names'[PartOf(p)] = Nobody \/ Creates(p)
         /\ Creates(p) => names'[PartOf(p)] = p
         /\ pc'[p] \in Streaming /\ ~Creates(p) => names'[PartOf(p)] = names[PartOf(p)]
         /\ \A n \in Finals :
              \/ names'[n] = names[n]
              \/ names'[n] = file[p] /\ pc[p] \in Streaming \ {"stream"} /\ pc'[p] \notin Streaming
                 /\ (way[p] # "into" => names'[Shared] = Nobody)
<1>1. TypeOK /\ Numbered /\ PartOf(p) \in Names /\ PartOf(p) \in Parts
  BY NamesApart DEF Whole, Kept, Sound
<1>2. CASE UNCHANGED names
  BY <1>1, <1>2 DEF Creates, Put, Free, TypeOK
<1>3. CASE Creates(p)
  <2>1. names' = [names EXCEPT ![PartOf(p)] = p]
    BY <1>3 DEF Creates, Put
  <2>2. \A n \in Names \ {PartOf(p)} : names'[n] = names[n]
    BY <1>1, <2>1 DEF TypeOK
  <2>3. names'[PartOf(p)] = p
    BY <1>1, <2>1 DEF TypeOK
  <2> QED
    BY <1>1, <1>3, <2>2, <2>3, NamesApart DEF Creates, Working, Steps
<1>4. CASE Links(p)
  <2>1. PICK m \in Finals : names' = [names EXCEPT ![m] = file[p]]
    BY <1>4 DEF Links, Put
  <2>2. \A n \in Names \ {m} : names'[n] = names[n]
    BY <1>1, <2>1 DEF TypeOK
  <2>3. names'[m] = file[p]
    BY <1>1, <2>1, NamesApart DEF TypeOK
  <2>4. pc[p] = "link" /\ pc'[p] = "clean" /\ way[p] = "into"
    BY <1>4 DEF Links, Whole, Mine
  <2>5. \A n \in Parts : names'[n] = names[n]
    BY <2>2, NamesApart
  <2> QED
    BY <1>1, <2>2, <2>3, <2>4, <2>5, NamesApart DEF Creates, Working, Steps, Streaming
<1>5. CASE Moves(p)
  <2>1. PICK m \in Finals : /\ names' = [names EXCEPT ![m] = names[PartOf(p)], ![PartOf(p)] = Nobody]
                           /\ Goto(p, IF way[p] = "into" THEN "clean" ELSE "done")
    BY <1>5, NamesApart DEF Moves, MovePart
  <2>2. pc[p] \in {"rename", "place"} /\ pc'[p] \in {"clean", "done"}
    BY <1>1, <1>5, <2>1 DEF Moves, Goto, TypeOK
  <2>3. names[PartOf(p)] = file[p]
    BY <2>2 DEF Whole, Mine, Streaming
  <2>4. m # PartOf(p) /\ m \in Names
    BY <1>1, NamesApart
  <2>5. names'[m] = file[p] /\ names'[PartOf(p)] = Nobody
    BY <1>1, <2>1, <2>3, <2>4 DEF TypeOK
  <2>6. \A n \in Names \ {m, PartOf(p)} : names'[n] = names[n]
    BY <1>1, <2>1 DEF TypeOK
  <2>7. way[p] # "into" => names'[Shared] = Nobody
    BY <2>5, PartsAre
  <2>8. ~Creates(p)
    BY <2>2 DEF Creates
  <2> QED
    BY <1>1, <2>2, <2>5, <2>6, <2>7, <2>8, NamesApart DEF Working, Steps, Streaming
<1>6. CASE Cleans(p)
  <2>1. names' = [names EXCEPT ![PartOf(p)] = Nobody] /\ pc[p] = "clean"
    BY <1>6 DEF Cleans, Put
  <2>2. \A n \in Names \ {PartOf(p)} : names'[n] = names[n]
    BY <1>1, <2>1 DEF TypeOK
  <2>3. names'[PartOf(p)] = Nobody
    BY <1>1, <2>1 DEF TypeOK
  <2>4. pc'[p] \notin Streaming /\ ~Creates(p)
    BY <1>1, <2>1, PcStep DEF CreatePart, Creates, Streaming
  <2> QED
    BY <1>1, <2>1, <2>2, <2>3, <2>4, NamesApart DEF Working, Steps
<1> QED
  BY <1>2, <1>3, <1>4, <1>5, <1>6, NamesStep DEF Whole, Kept

LEMMA BytesEffect ==
  ASSUME Whole, NEW p \in Loads, LoadStep(p)
  PROVE  /\ \A x \in Nodes :
              \/ bytes'[x] = bytes[x]
              \/ WritePiece(p) /\ x = file[p]
              \/ CreatePart(p) /\ way[p] # "into" /\ x = names[Shared]
         /\ WritePiece(p) => \A k \in 1..pos'[p] : bytes'[file[p]][k] = p
<1>1. TypeOK
  BY DEF Whole, Kept, Sound
<1>2. CASE WritePiece(p)
  <2>1. /\ pos[p] \in 0..Pieces /\ pos[p] < Pieces /\ pos'[p] = pos[p] + 1
        /\ bytes' = [bytes EXCEPT ![file[p]] = [bytes[file[p]] EXCEPT ![pos'[p]] = p]]
    BY <1>1, <1>2 DEF WritePiece, TypeOK
  <2>2. file[p] \in Nodes /\ \A k \in 1..pos[p] : bytes[file[p]][k] = p
    BY <1>2, Sets DEF WritePiece, Whole, Kept, Filed, Mine, Streaming
  <2>3. \A x \in Nodes : x # file[p] => bytes'[x] = bytes[x]
    BY <1>1, <2>1, <2>2 DEF TypeOK
  <2>4. \A k \in 1..pos'[p] : bytes'[file[p]][k] = p
    BY <1>1, <2>1, <2>2 DEF TypeOK
  <2> QED
    BY <1>2, <2>3, <2>4
<1>3. CASE CreatePart(p)
  <2>1. pc[p] = "part" /\ PartOf(p) \in Names
    BY <1>3, NamesApart DEF CreatePart
  <2>2. CASE Free(PartOf(p))
    BY <1>3, <2>1, <2>2 DEF CreatePart, WritePiece
  <2>3. CASE ~Free(PartOf(p))
    <3>1. way[p] # "into" /\ PartOf(p) = Shared
      BY <2>1, <2>3, PartsAre DEF Whole, Apart, Mine, Early, Free
    <3>2. bytes' = [bytes EXCEPT ![names[Shared]] = Empty]
      BY <1>3, <2>3, <3>1 DEF CreatePart
    <3> QED
      BY <1>1, <1>3, <2>1, <3>1, <3>2 DEF TypeOK, WritePiece
  <2> QED
    BY <2>2, <2>3
<1>4. CASE bytes' = bytes /\ ~WritePiece(p)
  BY <1>4
<1> QED
  BY <1>2, <1>3, <1>4
  DEF LoadStep, Start, LookAtTarget, CreateFails, FinishStream, StreamFails, Link, CheckName,
      RenameToName, RenameOver, Clean, Crash

\* No step of a download disturbs the file that another one writes.
LEMMA OtherMine ==
  ASSUME Whole, NEW p \in Loads, LoadStep(p), NEW q \in Loads \ {p}
  PROVE  Mine(q)'
<1>1. TypeOK
  BY DEF Whole, Kept, Sound
<1>2. /\ pc'[q] = pc[q] /\ way'[q] = way[q] /\ pos'[q] = pos[q] /\ file'[q] = file[q]
      /\ PartOf(q)' = PartOf(q)
  BY <1>1, OthersKeep DEF Whole, Kept, Sound
<1>3. Mine(q)
  BY DEF Whole
<1>4. PartOf(p) \in Parts /\ PartOf(q) \in Parts /\ PartOf(p) \in Names
  BY NamesApart
<1>5. ASSUME pc[q] \in Early, NEW n \in Names, names'[n] = q PROVE FALSE
  <2>1. \A m \in Names : names[m] # q
    BY <1>3, <1>5 DEF Mine
  <2>2. CASE n \in Finals
    <3>1. names'[n] = file[p] /\ pc[p] \in Streaming
      BY <1>5, <2>1, <2>2, Effect
    <3>2. names[PartOf(p)] = file[p]
      BY <3>1 DEF Whole, Mine
    <3> QED
      BY <1>4, <1>5, <2>1, <3>1, <3>2
  <2>3. CASE n \in Parts
    <3>1. n = PartOf(p) \/ names'[n] = names[n]
      BY <2>3, Effect
    <3>2. names'[PartOf(p)] # q
      BY <1>4, <2>1, Effect
    <3> QED
      BY <1>5, <2>1, <3>1, <3>2
  <2> QED
    BY <2>2, <2>3, NamesApart
<1>6. ASSUME pc[q] \in Streaming
      PROVE  names'[PartOf(q)] = file[q] /\ \A k \in 1..pos[q] : bytes'[file[q]][k] = q
  <2>1. pc[q] \in Working
    BY <1>6 DEF Streaming, Working, Steps
  <2>2. names'[PartOf(q)] = names[PartOf(q)]
    BY <1>4, <2>1, Distinct, Effect
  <2>3. file[q] \in Nodes /\ names[PartOf(q)] = file[q] /\ file[q] # Nobody
    BY <1>6, <1>3, Sets DEF Whole, Kept, Filed, Mine
  <2>4. ~(WritePiece(p) /\ file[q] = file[p])
    BY <1>6, <2>1, Distinct DEF WritePiece, Streaming, Working, Steps
  <2>5. ~(CreatePart(p) /\ way[p] # "into" /\ file[q] = names[Shared])
    <3> SUFFICES ASSUME CreatePart(p), way[p] # "into", file[q] = names[Shared] PROVE FALSE
      OBVIOUS
    <3>1. pc[p] \in Working
      BY DEF CreatePart, Working, Steps
    <3>2. PartOf(q) # Shared
      BY <2>1, <3>1, Distinct, PartsAre
    <3>3. way[q] = "into" /\ file[q] = q
      BY <2>3, <3>2, PartsAre DEF Whole, Apart
    <3> QED
      BY <2>3, <3>3 DEF Whole, Apart
  <2>6. bytes'[file[q]] = bytes[file[q]]
    BY <2>3, <2>4, <2>5, BytesEffect
  <2> QED
    BY <1>3, <1>6, <2>2, <2>3, <2>6 DEF Mine
<1>7. ASSUME pc[q] = "stream", NEW n \in Finals PROVE names'[n] # file[q]
  <2>1. CASE names'[n] = names[n]
    BY <1>3, <1>7, <2>1 DEF Mine
  <2>2. CASE names'[n] # names[n]
    <3>1. names'[n] = file[p] /\ pc[p] \in Streaming
      BY <2>2, Effect
    <3> QED
      BY <1>7, <3>1, Distinct DEF Streaming, Working, Steps
  <2> QED
    BY <2>1, <2>2
<1> QED
  BY <1>2, <1>3, <1>5, <1>6, <1>7 DEF Mine

\* A download knows at every step what it must of the file it writes.
LEMMA OwnMine == ASSUME Whole, NEW p \in Loads, LoadStep(p) PROVE Mine(p)'
<1>1. TypeOK /\ Numbered
  BY DEF Whole, Kept, Sound
<1>2. Mine(p)
  BY DEF Whole
<1>3. CASE pc'[p] \in {"clean", "done", "failed", "dead"}
  BY <1>3 DEF Mine, Early, Streaming
<1>4. CASE Start(p)
  <2>1. pc[p] = "off" /\ names' = names /\ pos' = pos
    BY <1>4 DEF Start
  <2>2. pc'[p] \in {"look", "part"} /\ (pc'[p] = "look" => way'[p] # "into")
    BY <1>1, <1>4 DEF Start, Goto, TypeOK
  <2> QED
    BY <1>2, <2>1, <2>2 DEF Mine, Early, Streaming
<1>5. CASE LookAtTarget(p)
  <2>1. pc[p] = "look" /\ names' = names /\ pos' = pos /\ pc'[p] \in {"part", "failed"}
    BY <1>1, <1>5 DEF LookAtTarget, Goto, TypeOK
  <2> QED
    BY <1>2, <2>1 DEF Mine, Early, Streaming
<1>6. CASE CreatePart(p)
  <2>1. /\ pc[p] = "part" /\ pc'[p] = "stream" /\ pos'[p] = 0 /\ PartOf(p)' = PartOf(p)
        /\ \A n \in Names : names[n] # p
    BY <1>1, <1>2, <1>6 DEF CreatePart, Goto, TypeOK, Mine, Early, PartOf
  <2>2. PartOf(p) \in Names /\ Finals \subseteq Names /\ PartOf(p) \notin Finals
    BY NamesApart
  <2>3. CASE Free(PartOf(p))
    <3>1. names' = [names EXCEPT ![PartOf(p)] = p] /\ file'[p] = p
      BY <1>1, <1>6, <2>3 DEF CreatePart, Put, TypeOK
    <3>2. names'[PartOf(p)] = p /\ \A n \in Finals : names'[n] # p
      BY <1>1, <2>1, <2>2, <3>1 DEF TypeOK
    <3> QED
      BY <2>1, <3>1, <3>2 DEF Mine, Early, Streaming
  <2>4. CASE ~Free(PartOf(p))
    <3>1. names' = names /\ file'[p] = names[PartOf(p)]
      BY <1>1, <1>6, <2>4 DEF CreatePart, TypeOK
    <3>2. PartOf(p) = Shared
      BY <2>1, <2>2, <2>4, PartsAre DEF Whole, Apart, Free
    <3>3. \A n \in Finals : names[n] # names[Shared]
      BY <2>4, <3>2 DEF Whole, Apart, Free
    <3> QED
      BY <2>1, <3>1, <3>2, <3>3 DEF Mine, Early, Streaming
  <2> QED
    BY <2>3, <2>4
<1>7. CASE WritePiece(p)
  <2>1. /\ pc[p] = "stream" /\ pc' = pc /\ file' = file /\ names' = names /\ PartOf(p)' = PartOf(p)
    BY <1>7 DEF WritePiece, PartOf
  <2>2. \A k \in 1..pos'[p] : bytes'[file[p]][k] = p
    BY <1>7, BytesEffect
  <2> QED
    BY <1>2, <2>1, <2>2 DEF Mine, Early, Streaming
<1>8. CASE FinishStream(p)
  <2>1. /\ pc[p] = "stream" /\ UNCHANGED <<file, names, way, pos, bytes>> /\ PartOf(p)' = PartOf(p)
        /\ pos[p] = Pieces /\ pc'[p] = IF way[p] = "into" THEN "link" ELSE "place"
    BY <1>1, <1>8 DEF FinishStream, Goto, TypeOK, PartOf
  <2> QED
    BY <1>2, <2>1 DEF Mine, Early, Streaming
<1>9. CASE (Link(p) \/ CheckName(p)) /\ pc'[p] \in {"link", "check", "rename"}
  <2>1. /\ pc[p] \in {"link", "check"} /\ UNCHANGED <<file, way, pos, bytes>>
        /\ PartOf(p)' = PartOf(p)
    BY <1>9 DEF Link, CheckName, PartOf
  <2>2. names' = names
    BY <1>1, <1>9 DEF Link, CheckName, Goto, TypeOK
  <2> QED
    BY <1>2, <1>9, <2>1, <2>2 DEF Mine, Early, Streaming
<1>10. Link(p) \/ CheckName(p) => pc'[p] \in {"link", "check", "rename", "clean"}
  BY <1>1 DEF Link, CheckName, Goto, TypeOK
<1>11. CreateFails(p) \/ StreamFails(p) \/ RenameToName(p) \/ RenameOver(p) \/ Clean(p) \/ Crash(p)
         => pc'[p] \in {"clean", "done", "failed", "dead"}
  BY <1>1 DEF CreateFails, StreamFails, RenameToName, RenameOver, MovePart, Clean, Crash, Goto, TypeOK
<1> QED
  BY <1>3, <1>4, <1>5, <1>6, <1>7, <1>8, <1>9, <1>10, <1>11 DEF LoadStep

LEMMA WholeLoad == ASSUME ~Overlap, Whole, NEW p \in Loads, LoadStep(p) PROVE Whole'
<1>1. TypeOK /\ Numbered /\ Mine(p)
  BY DEF Whole, Kept, Sound
<1>2. \A q \in Loads : Mine(q)'
  BY OtherMine, OwnMine
<1>3. Kept'
  BY KeptLoad DEF Whole
<1>4. \A q \in Loads \ {p} : pc'[q] = pc[q] /\ way'[q] = way[q]
  BY <1>1, OthersKeep
<1>5. Alone'
  <2>1. CASE Start(p)
    <3>1. PICK w \in Ways[p] : /\ w # "into" => \A q \in Loads : way[q] = "into" \/ pc[q] \notin Working
                              /\ way' = [way EXCEPT ![p] = w]
      BY <2>1 DEF Start
    <3>2. way'[p] = w
      BY <1>1, <3>1 DEF TypeOK
    <3> QED
      BY <1>4, <3>1, <3>2 DEF Whole, Alone
  <2>2. CASE ~Start(p)
    <3>1. pc[p] \in Working
      BY <2>2 DEF LoadStep, LookAtTarget, CreatePart, CreateFails, WritePiece, FinishStream, StreamFails,
             Link, CheckName, RenameToName, RenameOver, Clean, Crash, Working, Steps
    <3>2. way' = way
      BY <1>1, <3>1, PcStep DEF Working
    <3> QED
      BY <1>4, <3>1, <3>2 DEF Whole, Alone
  <2> QED
    BY <2>1, <2>2
<1>6. \A q \in Loads : way'[q] = way[q] \/ (names' = names /\ \A n \in Names : names[n] # q)
  <2>1. pc[p] # "off" => way' = way
    BY <1>1, PcStep
  <2>2. pc[p] = "off" => names' = names
    BY Effect DEF Working
  <2>3. pc[p] = "off" => \A n \in Names : names[n] # p
    BY <1>1 DEF Mine, Early
  <2> QED
    BY <1>4, <2>1, <2>2, <2>3
<1>7. ASSUME NEW n \in Finals
      PROVE  names'[n] = names[n] \/ (names'[n] = file[p] /\ \A k \in 1..Pieces : bytes'[file[p]][k] = p)
  <2> SUFFICES ASSUME names'[n] # names[n]
               PROVE  names'[n] = file[p] /\ \A k \in 1..Pieces : bytes'[file[p]][k] = p
    OBVIOUS
  <2>1. names'[n] = file[p] /\ pc[p] \in Streaming \ {"stream"}
    BY Effect
  <2>2. \A k \in 1..Pieces : bytes[file[p]][k] = p
    BY <1>1, <2>1 DEF Mine
  <2>3. file[p] \in Nodes
    BY <2>1, Sets DEF Whole, Kept, Filed
  <2>4. bytes'[file[p]] = bytes[file[p]]
    BY <2>1, <2>3, BytesEffect DEF WritePiece, CreatePart, Streaming
  <2> QED
    BY <2>1, <2>2, <2>4
<1>8. FinalsWhole'
  <2> SUFFICES ASSUME NEW n \in Finals, names'[n] \in Loads
               PROVE  \E q \in Loads : bytes'[names'[n]] = [k \in 1..Pieces |-> q]
    BY DEF FinalsWhole
  <2>1. bytes'[names'[n]] \in [1..Pieces -> Nodes \cup {Nobody}]
    BY <1>3, Sets DEF Kept, Sound, TypeOK
  <2>2. CASE names'[n] = names[n]
    <3>1. ~(WritePiece(p) /\ names[n] = file[p])
      BY <1>1 DEF Mine, WritePiece
    <3>2. ~(CreatePart(p) /\ way[p] # "into" /\ names[n] = names[Shared])
      <4>1. names[n] # Nobody
        BY <2>2
      <4> QED
        BY <4>1 DEF Whole, Apart
    <3>3. bytes'[names[n]] = bytes[names[n]]
      BY <2>2, <3>1, <3>2, Sets, BytesEffect
    <3> QED
      BY <2>2, <3>3 DEF Whole, FinalsWhole
  <2>3. CASE names'[n] # names[n]
    <3>1. names'[n] = file[p] /\ \A k \in 1..Pieces : bytes'[file[p]][k] = p
      BY <1>7, <2>3
    <3>2. \A k \in 1..Pieces : bytes'[names'[n]][k] = p
      BY <3>1
    <3>3. bytes'[names'[n]] = [k \in 1..Pieces |-> p]
      BY <2>1, <3>2
    <3> QED
      BY <3>3
  <2> QED
    BY <2>2, <2>3
<1>9. Apart'
  <2>1. ASSUME NEW q \in Loads
        PROVE  names'[Own(q)] \in {Nobody, q} /\ (names'[Own(q)] = q => way'[q] = "into")
    <3>1. Own(q) \in Parts /\ Own(q) \in Names
      BY PartsAre, NamesApart
    <3>2. CASE names'[Own(q)] = names[Own(q)]
      BY <1>6, <3>1, <3>2 DEF Whole, Apart
    <3>3. CASE names'[Own(q)] # names[Own(q)]
      <4>1. Own(q) = PartOf(p)
        BY <3>1, <3>3, Effect
      <4>2. q = p /\ way[p] = "into"
        BY <4>1, PartsAre
      <4>3. names'[Own(q)] = Nobody \/ (names'[Own(q)] = p /\ pc[p] = "part")
        BY <3>3, <4>1, Effect DEF Creates
      <4>4. pc[p] = "part" => way' = way
        BY <1>1, PcStep
      <4> QED
        BY <4>2, <4>3, <4>4
    <3> QED
      BY <3>2, <3>3
  <2>2. ASSUME names'[Shared] # Nobody
        PROVE  way'[names'[Shared]] # "into" /\ \A n \in Finals : names'[n] # names'[Shared]
    <3>1. Shared \in Parts /\ Shared \in Names
      BY PartsAre, NamesApart
    <3>2. CASE names'[Shared] = names[Shared]
      <4>1. names[Shared] \in Loads
        BY <1>1, <2>2, <3>1, <3>2 DEF Whole, Kept, Partly, TypeOK, Nodes
      <4>2. way'[names[Shared]] # "into"
        BY <1>6, <2>2, <3>1, <3>2, <4>1 DEF Whole, Apart
      <4>3. ASSUME NEW n \in Finals, names'[n] = names[Shared] PROVE FALSE
        <5>1. names'[n] # names[n]
          BY <2>2, <3>2, <4>3 DEF Whole, Apart
        <5>2. names'[n] = file[p] /\ pc[p] \in Streaming /\ way[p] = "into"
          BY <2>2, <5>1, Effect
        <5>3. names[Own(p)] = file[p] /\ file[p] \in Loads
          BY <1>1, <5>2, PartsAre DEF Mine, Whole, Kept, Filed
        <5>4. file[p] = p
          BY <5>3 DEF Whole, Apart
        <5> QED
          BY <2>2, <3>2, <4>3, <5>2, <5>4 DEF Whole, Apart
      <4> QED
        BY <3>2, <4>2, <4>3
    <3>3. CASE names'[Shared] # names[Shared]
      <4>1. Shared = PartOf(p) /\ Creates(p)
        BY <2>2, <3>1, <3>3, Effect
      <4>2. names'[Shared] = p /\ pc[p] = "part"
        BY <4>1, Effect DEF Creates
      <4>3. way[p] # "into" /\ way' = way
        BY <1>1, <4>1, <4>2, PartsAre, PcStep
      <4>4. \A n \in Finals : names'[n] = names[n] /\ names[n] # p
        BY <1>1, <4>2, Effect, NamesApart DEF Mine, Early, Streaming
      <4> QED
        BY <4>2, <4>3, <4>4
    <3> QED
      BY <3>2, <3>3
  <2> QED
    BY <2>1, <2>2 DEF Apart, Own, Shared
<1> QED
  BY <1>2, <1>3, <1>5, <1>8, <1>9 DEF Whole

LEMMA WholeNext == ASSUME ~Overlap, Whole, [Next]_vars PROVE Whole'
<1>1. TypeOK /\ Kept'
  BY KeptNext DEF Whole, Kept, Sound
<1>2. CASE UNCHANGED vars
  <2>1. \A p : PartOf(p)' = PartOf(p)
    BY <1>2 DEF vars, PartOf
  <2> QED
    BY <1>1, <1>2, <2>1 DEF vars, Whole, Alone, Apart, Mine, FinalsWhole, Own, Shared
<1>3. CASE UserStep
  <2>1. PICK n \in Finals : UserSaves(n) \/ UserRemoves(n)
    BY <1>3 DEF UserStep
  <2>2. UNCHANGED <<bytes, pc, way, pos, file>>
    BY <2>1 DEF UserSaves, UserRemoves
  <2>3. \A m \in Parts : names'[m] = names[m] /\ m \in Names
    BY <1>1, <2>1, NamesApart DEF UserSaves, UserRemoves, Put, TypeOK
  <2>4. \A m \in Names : names'[m] \in {names[m], User, Nobody}
    BY <1>1, <2>1, NamesApart DEF UserSaves, UserRemoves, Put, TypeOK
  <2>5. \A p : PartOf(p)' = PartOf(p)
    BY <2>2 DEF PartOf
  <2>6. Alone'
    BY <2>2 DEF Whole, Alone
  <2>7. FinalsWhole'
    BY <2>2, <2>4, NamesApart DEF Whole, FinalsWhole
  <2>8. Apart'
    <3>1. \A p \in Loads : names'[Own(p)] = names[Own(p)]
      BY <2>3, PartsAre
    <3>2. names'[Shared] = names[Shared] /\ names[Shared] # User
      BY <2>3, PartsAre DEF Whole, Kept, Partly
    <3>3. names[Shared] # Nobody => \A m \in Finals : names'[m] # names[Shared]
      BY <2>4, <3>2, NamesApart DEF Whole, Apart
    <3> QED
      BY <2>2, <3>1, <3>2, <3>3 DEF Whole, Apart, Own, Shared
  <2>9. ASSUME NEW p \in Loads PROVE Mine(p)'
    <3>1. Mine(p) /\ names'[PartOf(p)] = names[PartOf(p)]
      BY <2>3, NamesApart DEF Whole
    <3>2. \A m \in Names : names[m] # p => names'[m] # p
      BY <2>4
    <3>3. pc[p] = "stream" => file[p] \in Loads
      BY DEF Whole, Kept, Filed, Streaming
    <3>4. pc[p] = "stream" => \A m \in Finals : names'[m] # file[p]
      BY <2>4, <3>1, <3>3, NamesApart DEF Mine
    <3> QED
      BY <2>2, <2>5, <3>1, <3>2, <3>4 DEF Mine
  <2> QED
    BY <1>1, <2>6, <2>7, <2>8, <2>9 DEF Whole
<1> QED
  BY <1>2, <1>3, WholeLoad, NextSteps

\* If no two loads to one path overlap, whatever a download put under a final
\* name is one item's from the first piece to the last, for any number of
\* downloads into the directory beside them, and whichever of them are killed.
THEOREM DownloadFinalsWhole == ASSUME ~Overlap PROVE Spec => []FinalsWhole
<1>1. Whole /\ [Next]_vars => Whole'
  BY WholeNext
<1>2. Whole => FinalsWhole
  BY DEF Whole
<1> QED
  BY WholeInit, <1>1, <1>2, PTL DEF Spec
================================================================================
