------------------------ MODULE EncryptionChangeProofs ------------------------
(***************************************************************************)
(* Theorems about EncryptionChange and EncryptCommand, for every set of    *)
(* administrators, devices, items and keys.                                *)
(***************************************************************************)
EXTENDS EncryptCommand, TLAPS

\* What a command about to take the lock holds: a kind of change and a header
\* to put in place.  TypeOK is not inductive without it, as the journal is
\* written from both.
Prepared ==
  \A a \in Admins : pc[a] = "publish" => job[a].kind \in Kinds /\ job[a].hdr \in Headers

Typed == TypeOK /\ Prepared

LEMMA InitTyped == ChangeInit => Typed
<1> SUFFICES ASSUME ChangeInit PROVE Typed
  OBVIOUS
<1> USE DEF ChangeInit
<1>1. agreed \in Headers \cup {NoHeader} /\ used \in SUBSET Keys
  BY DEF Headers
<1>2. dir \in [Folders -> {"absent", "folder", "file"}]
  BY DEF Folders
<1>3. held \in [Folders -> SUBSET Copies]
  <2>1. ASSUME NEW k \in Keys \cup {NoKey} PROVE {Whole(i, k) : i \in kept} \subseteq Copies
    <3>1. \A i \in Items : Whole(i, k) \in Copies
      BY Zenon DEF Copies, Whole
    <3>2. kept \subseteq Items
      OBVIOUS
    <3>3. QED
      BY <3>1, <3>2
  <2>2. CASE held = [f \in Folders |-> IF f = "items" THEN {Whole(i, NoKey) : i \in kept} ELSE {}]
    BY <2>1, <2>2
  <2>3. CASE /\ agreed \in Headers
             /\ held = [f \in Folders |->
                  IF f = "v2/items" THEN {Whole(i, agreed.key) : i \in kept} ELSE {}]
    <3>1. agreed.key \in Keys
      BY <2>3 DEF Headers
    <3>2. QED
      BY <2>1, <2>3, <3>1
  <2>4. QED
    BY <2>2, <2>3
<1>4. LayoutTypeOK
  BY <1>1, <1>2, <1>3 DEF LayoutTypeOK, Plans, Places
<1>5. NoJob \in Jobs
  BY DEF NoJob, Jobs, Folders, Kinds
<1>6. QED
  BY <1>1, <1>4, <1>5, MaxFaultsAssumption DEF Typed, TypeOK, Prepared, Steps

--------------------------------------------------------------------------------
(***************************************************************************)
(* The steps whose data needs an argument.                                 *)
(***************************************************************************)
LEMMA InspectTyped == ASSUME Typed, NEW a \in Admins, NEW kind \in Kinds, Inspect(a, kind) PROVE Typed'
<1> USE DEF Typed, TypeOK, Goto
<1>1. PICK k \in Keys, w \in Words :
        /\ used' = used \cup {k}
        /\ job' = [job EXCEPT ![a] =
             [NoJob EXCEPT !.kind = kind, !.hdr = [key |-> k, words |-> w],
                           !.old = head["encryption"], !.mode = "run"]]
  <2>1. kind = "words" => head["encryption"] \in Headers
    BY DEF Inspect, Admits, Classify, LayoutTypeOK, Places, Kinds, HeaderChanges,
         Rewrites
  <2>2. kind = "words" => head["encryption"].key \in Keys
    BY <2>1 DEF Headers
  <2>3. QED
    BY <2>2 DEF Inspect
<1>2. [key |-> k, words |-> w] \in Headers /\ head["encryption"] \in Headers \cup {NoHeader}
  BY DEF Headers, LayoutTypeOK, Places
<1>3. job' \in [Admins -> Jobs]
  BY <1>1, <1>2 DEF NoJob, Jobs, Folders
<1>4. job'[a].kind \in Kinds /\ job'[a].hdr \in Headers
  BY <1>1, <1>2 DEF NoJob
<1>5. Prepared'
  BY <1>1, <1>4 DEF Prepared, Inspect
<1>6. QED
  BY <1>1, <1>3, <1>5 DEF Inspect, LayoutTypeOK, layoutVars, Steps

LEMMA PublishTyped == ASSUME Typed, NEW a \in Admins, Publish(a) PROVE Typed'
<1> USE DEF Typed, TypeOK, Goto, Quiet
<1>1. job[a].kind \in Kinds /\ job[a].hdr \in Headers /\ job[a].old \in Headers \cup {NoHeader}
  BY DEF Publish, Prepared, Jobs
<1>2. plan' \in Plans
  BY <1>1 DEF Publish, Plans, Headers
<1>3. head' \in [Places -> Headers \cup {NoHeader}]
  BY <1>1 DEF Publish, LayoutTypeOK, Places
<1>4. LayoutTypeOK'
  BY <1>2, <1>3 DEF Publish, LayoutTypeOK
<1>5. QED
  BY <1>4 DEF Publish, Prepared, FirstStep, Steps

LEMMA FoldNextTyped ==
  ASSUME Typed, NEW a \in Admins, NEW folding \in Steps, NEW done \in Steps \ {"publish"},
         folding # "publish", FoldNext(a, folding, done)
  PROVE  Typed'
<1> USE DEF Typed, TypeOK, Goto, Quiet
<1> DEFINE from == job[a].from
           to   == job[a].to
<1>1. from \in Folders /\ to \in Folders /\ job[a].todo \in SUBSET Copies
  BY DEF Jobs
<1>2. CASE RemoveTree(from) /\ Goto(a, done) /\ UNCHANGED job
  BY <1>1, <1>2 DEF FoldNext, RemoveTree, LayoutTypeOK, Prepared
<1>3. ASSUME NEW c \in job[a].todo \cap held[from],
             held' = [held EXCEPT ![from] = @ \ {c},
                ![to] = IF \E d \in @ : SameId(c, d) THEN @ ELSE @ \cup {c}],
             job' = [job EXCEPT ![a].todo = @ \ {c}],
             UNCHANGED <<pc, dir>>
      PROVE  Typed'
  <2>1. held' \in [Folders -> SUBSET Copies]
    BY <1>1, <1>3 DEF LayoutTypeOK
  <2>2. job' \in [Admins -> Jobs]
    BY <1>3, SMTT(30) DEF Jobs
  <2>3. Prepared'
    BY <1>3 DEF Prepared, FoldNext
  <2>4. QED
    BY <1>3, <2>1, <2>2, <2>3 DEF FoldNext, LayoutTypeOK
<1>4. QED
  BY <1>2, <1>3 DEF FoldNext

\* What moving a folder into another leaves, whichever way it goes.
LEMMA FoldTyped ==
  ASSUME Typed, NEW a \in Admins, NEW from \in Folders, NEW to \in Folders,
         NEW folding, NEW done, Fold(a, from, to, folding, done)
  PROVE  /\ dir' \in [Folders -> {"absent", "folder", "file"}]
         /\ held' \in [Folders -> SUBSET Copies]
         /\ job' \in [Admins -> Jobs]
<1> USE DEF Typed, TypeOK
<1>1. CASE Rename(from, to) /\ UNCHANGED job
  BY <1>1 DEF Rename, LayoutTypeOK
<1>2. CASE /\ job' = [job EXCEPT ![a] = [@ EXCEPT !.from = from, !.to = to, !.todo = held[from]]]
           /\ SameTree
  <2> DEFINE j == [job[a] EXCEPT !.from = from, !.to = to, !.todo = held[from]]
  <2>1. job[a] \in Jobs /\ held[from] \in SUBSET Copies
    BY DEF LayoutTypeOK
  <2>2. j \in Jobs
    BY <2>1 DEF Jobs
  <2>3. job' = [job EXCEPT ![a] = j]
    BY <1>2
  <2>4. QED
    BY <1>2, <2>2, <2>3 DEF SameTree, LayoutTypeOK
<1>3. QED
  BY <1>1, <1>2 DEF Fold

LEMMA MoveHeaderTyped ==
  ASSUME LayoutTypeOK, NEW p \in Places, NEW q \in Places, MoveHeader(p, q)
  PROVE  head' \in [Places -> Headers \cup {NoHeader}]
BY DEF LayoutTypeOK, MoveHeader

LEMMA CopyTyped == ASSUME Typed, NEW a \in Admins, Copy(a) PROVE Typed'
<1> USE DEF Typed, TypeOK, Goto, Quiet
<1>1. \A c \in held["source"] : Whole(c.item, job[a].hdr.key) \in Copies
  BY DEF LayoutTypeOK, Folders, Whole, Copies, Jobs, Headers, NoHeader
<1>2. held' \in [Folders -> SUBSET Copies]
  BY <1>1 DEF Copy, LayoutTypeOK, Folders, SameTree
<1>3. dir' \in [Folders -> {"absent", "folder", "file"}]
  BY DEF Copy, LayoutTypeOK, Folders, SameTree
<1>4. QED
  BY <1>2, <1>3 DEF Copy, LayoutTypeOK, Prepared, Steps

LEMMA FinishTyped == ASSUME Typed, NEW a \in Admins, Finish(a) PROVE Typed'
<1> USE DEF Typed, TypeOK, Goto, Quiet
<1>1. /\ plan.kind \in Kinds
      /\ Unfinished \in Headers \cup {NoHeader}
      /\ head["old-header"] \in Headers \cup {NoHeader}
  BY DEF Finish, Finishable, Unfinished, LayoutTypeOK, Plans, Places
<1> DEFINE j == [job[a] EXCEPT !.kind = plan.kind, !.hdr = Unfinished, !.old = head["old-header"]]
<1>2. job' \in [Admins -> Jobs]
  <2>1. job[a] \in Jobs
    OBVIOUS
  <2>2. j \in Jobs
    BY <1>1, <2>1 DEF Jobs
  <2>3. job' = [job EXCEPT ![a] = j]
    BY DEF Finish
  <2>4. QED
    BY <2>2, <2>3
<1>3. QED
  BY <1>2 DEF Finish, FirstStep, LayoutTypeOK, layoutVars, Prepared, Steps

LEMMA CrashRemovingTyped == ASSUME Typed, NEW a \in Admins, CrashRemoving(a), Fault PROVE Typed'
<1> USE DEF Typed, TypeOK, Goto, Fault
<1>1. ASSUME NEW f \in Folders, RemoveSome(f) PROVE held' \in [Folders -> SUBSET Copies]
  <2>1. \A c \in Copies : Torn(c) \in Copies
    BY DEF Copies, Torn
  <2>2. QED
    BY <1>1, <2>1 DEF RemoveSome, LayoutTypeOK
<1>2. held' \in [Folders -> SUBSET Copies]
  BY <1>1 DEF CrashRemoving, Folders
<1>3. LayoutTypeOK'
  BY <1>2 DEF CrashRemoving, RemoveSome, LayoutTypeOK
<1>4. job' \in [Admins -> Jobs] /\ Prepared'
  BY DEF CrashRemoving, Prepared, NoJob, Jobs, Folders
<1>5. QED
  BY <1>3, <1>4, MaxFaultsAssumption DEF CrashRemoving, Steps

LEMMA FoldStepTyped == ASSUME Typed, NEW a \in Admins, FoldStep(a) PROVE Typed'
BY FoldNextTyped DEF FoldStep, Steps

--------------------------------------------------------------------------------
(***************************************************************************)
(* Every step of a command, every start of one, and every fault.           *)
(***************************************************************************)
LEMMA StepTyped == ASSUME Typed, NEW a \in Admins, Step(a) PROVE Typed'
<1> USE DEF Typed, TypeOK, Goto, Quiet
<1>1. CASE Publish(a)
  BY <1>1, PublishTyped
<1>2. CASE PublishRefused(a)
  BY <1>2 DEF PublishRefused, NoJob, layoutVars, LayoutTypeOK, Prepared, Steps,
       Folders, Jobs
<1>3. CASE FoldStep(a)
  BY <1>3, FoldStepTyped
<1>4. CASE ClearItems(a)
  <2> DEFINE again   == pc[a] = "reclear"
             done    == IF again THEN "restop" ELSE "stop"
             folding == IF again THEN "reclear-fold" ELSE "clear-fold"
  <2>1. CASE Fold(a, "items", "plain/items", folding, done)
    <3>1. /\ dir' \in [Folders -> {"absent", "folder", "file"}]
          /\ held' \in [Folders -> SUBSET Copies]
          /\ job' \in [Admins -> Jobs]
      BY <2>1, FoldTyped DEF Folders
    <3>2. UNCHANGED <<lock, plan, recovery, head, kept, agreed, used, faults>>
      BY <1>4 DEF ClearItems
    <3>3. pc' = [pc EXCEPT ![a] = done] \/ pc' = [pc EXCEPT ![a] = folding]
      BY <2>1 DEF Fold
    <3>4. pc' \in [Admins -> Steps] /\ \A b \in Admins : pc'[b] = "publish" => b # a /\ pc[b] = "publish"
      BY <3>3 DEF Steps
    <3>5. \A b \in Admins : b # a => job'[b] = job[b]
      BY <2>1 DEF Fold
    <3>6. QED
      BY <3>1, <3>2, <3>4, <3>5 DEF LayoutTypeOK, Prepared
  <2>2. CASE ~Fold(a, "items", "plain/items", folding, done)
    BY <1>4, <2>2 DEF ClearItems, RemoveTree, SameTree, LayoutTypeOK, Prepared,
         Steps, Folders
  <2>3. QED
    BY <2>1, <2>2
<1>5. CASE WriteStopFile(a)
  <2>1. dir' \in [Folders -> {"absent", "folder", "file"}]
    BY <1>5 DEF WriteStopFile, StopStep, RestopStep, LayoutTypeOK, Folders
  <2>2. pc' \in [Admins -> Steps] /\ Prepared'
    BY <1>5 DEF WriteStopFile, StopStep, RestopStep, Prepared, Steps
  <2>3. QED
    BY <1>5, <2>1, <2>2 DEF WriteStopFile, StopStep, RestopStep, LayoutTypeOK
<1>6. CASE MoveSource(a)
  BY <1>6 DEF MoveSource, SourceItems, Rename, MakeFolder, SameTree, LayoutTypeOK,
       Prepared, Steps, Folders
<1>7. CASE FoldIntoSource(a)
  <2>1. /\ dir' \in [Folders -> {"absent", "folder", "file"}]
        /\ held' \in [Folders -> SUBSET Copies]
        /\ job' \in [Admins -> Jobs]
    BY <1>7, FoldTyped DEF FoldIntoSource, Folders
  <2>2. pc' = [pc EXCEPT ![a] = "source-restop"] \/ pc' = [pc EXCEPT ![a] = "source-fold"]
    BY <1>7 DEF FoldIntoSource, Fold
  <2>3. pc' \in [Admins -> Steps] /\ \A b \in Admins : pc'[b] = "publish" => b # a /\ pc[b] = "publish"
    BY <2>2 DEF Steps
  <2>4. \A b \in Admins : b # a => job'[b] = job[b]
    BY <1>7 DEF FoldIntoSource, Fold
  <2>5. UNCHANGED <<lock, plan, recovery, head, kept, agreed, used, faults>>
    BY <1>7 DEF FoldIntoSource
  <2>6. QED
    BY <2>1, <2>3, <2>4, <2>5 DEF LayoutTypeOK, Prepared
<1>8. CASE Copy(a)
  BY <1>8, CopyTyped
<1>9. CASE Verify(a)
  BY <1>9 DEF Verify, layoutVars, LayoutTypeOK, Prepared, Steps, Folders
<1>10. CASE Install(a)
  <2>1. head' \in [Places -> Headers \cup {NoHeader}]
    BY <1>10, MoveHeaderTyped DEF Install, LayoutTypeOK, Places
  <2>2. QED
    BY <1>10, <2>1 DEF Install, AfterSwap, LayoutTypeOK, Prepared, Steps
<1>11. CASE Swap(a)
  <2>1. head' \in [Places -> Headers \cup {NoHeader}]
    BY <1>11, MoveHeaderTyped DEF Swap, LayoutTypeOK, Places
  <2>2. QED
    BY <1>11, <2>1 DEF Swap, AfterSwap, LayoutTypeOK, Prepared, Steps
<1>12. CASE CleanSource(a)
  BY <1>12 DEF CleanSource, RemoveTree, LayoutTypeOK, Prepared, Steps, Folders
<1>13. CASE Release(a)
  BY <1>13, ZenonT(40) DEF Release, NoJob, RemoveTree, LayoutTypeOK, Prepared, Steps, Folders,
       Jobs, Places
<1>14. CASE Finish(a)
  BY <1>14, FinishTyped
<1>15. CASE Undo(a)
  <2>1. LayoutTypeOK'
    BY <1>15 DEF LayoutTypeOK, Undo, layoutVars
  <2>2. job' \in [Admins -> Jobs]
    BY <1>15, SMTT(30) DEF LayoutTypeOK, Plans, NoPlan, Jobs, Folders, Undo, layoutVars
  <2>3. QED
    BY <1>15, <2>1, <2>2, MaxFaultsAssumption DEF Steps, Prepared, Undo, layoutVars
<1>16. CASE Unstage(a)
  BY <1>16 DEF Unstage, RemoveTree, SameTree, LayoutTypeOK, Prepared, Steps, Folders
<1>17. CASE RemoveStopFile(a)
  BY <1>17 DEF RemoveStopFile, LayoutTypeOK, Prepared, Steps, Folders
<1>18. CASE RestoreSource(a)
  <2>1. CASE Fold(a, "source", "items", "unsource-fold", "release")
    <3>1. /\ dir' \in [Folders -> {"absent", "folder", "file"}]
          /\ held' \in [Folders -> SUBSET Copies]
          /\ job' \in [Admins -> Jobs]
      BY <2>1, FoldTyped DEF Folders
    <3>2. pc' \in [Admins -> Steps] /\ pc'[a] # "publish" /\ \A b \in Admins \ {a} : pc'[b] = pc[b]
      BY <2>1 DEF Fold, Steps
    <3>3. \A b \in Admins \ {a} : job'[b] = job[b]
      BY <2>1 DEF Fold
    <3>4. QED
      BY <1>18, <3>1, <3>2, <3>3 DEF RestoreSource, LayoutTypeOK, Prepared
  <2>2. CASE ~Fold(a, "source", "items", "unsource-fold", "release")
    BY <1>18, <2>2 DEF RestoreSource, Rename, SameTree, LayoutTypeOK, Prepared,
         Steps, Folders
  <2>3. QED
    BY <2>1, <2>2
<1>19. CASE RestoreHead(a)
  <2>1. head' \in [Places -> Headers \cup {NoHeader}]
    BY <1>19, MoveHeaderTyped DEF RestoreHead, LayoutTypeOK, Places
  <2>2. QED
    BY <1>19, <2>1 DEF RestoreHead, LayoutTypeOK, Prepared, Steps
<1>20. CASE RevertNew(a)
  <2>1. head' \in [Places -> Headers \cup {NoHeader}]
    BY <1>20, MoveHeaderTyped DEF RevertNew, LayoutTypeOK, Places
  <2>2. QED
    BY <1>20, <2>1 DEF RevertNew, LayoutTypeOK, Prepared, Steps
<1>21. CASE RevertOld(a)
  <2>1. head' \in [Places -> Headers \cup {NoHeader}]
    BY <1>21, MoveHeaderTyped DEF RevertOld, LayoutTypeOK, Places
  <2>2. QED
    BY <1>21, <2>1 DEF RevertOld, LayoutTypeOK, Prepared, Steps
<1>22. CASE RevertWords(a)
  <2>1. head' \in [Places -> Headers \cup {NoHeader}]
    BY <1>22, MoveHeaderTyped DEF RevertWords, LayoutTypeOK, Places
  <2>2. QED
    BY <1>22, <2>1 DEF RevertWords, LayoutTypeOK, Prepared, Steps
<1>23. CASE RestorePlain(a)
  <2>1. CASE Fold(a, "plain/items", "items", "rev-fold", "release")
    <3>1. /\ dir' \in [Folders -> {"absent", "folder", "file"}]
          /\ held' \in [Folders -> SUBSET Copies]
          /\ job' \in [Admins -> Jobs]
      BY <2>1, FoldTyped DEF Folders
    <3>2. pc' = [pc EXCEPT ![a] = "release"] \/ pc' = [pc EXCEPT ![a] = "rev-fold"]
      BY <2>1 DEF Fold
    <3>3. pc' \in [Admins -> Steps] /\ \A b \in Admins : pc'[b] = "publish" => b # a /\ pc[b] = "publish"
      BY <3>2 DEF Steps
    <3>4. \A b \in Admins : b # a => job'[b] = job[b]
      BY <2>1 DEF Fold
    <3>5. UNCHANGED <<lock, plan, recovery, head, kept, agreed, used, faults>>
      BY <1>23 DEF RestorePlain
    <3>6. QED
      BY <3>1, <3>3, <3>4, <3>5 DEF LayoutTypeOK, Prepared
  <2>2. CASE ~Fold(a, "plain/items", "items", "rev-fold", "release")
    BY <1>23, <2>2 DEF RestorePlain, SameTree, LayoutTypeOK, Prepared, Steps
  <2>3. QED
    BY <2>1, <2>2
<1>24. CASE Refused(a)
  BY <1>24 DEF Refused, GiveUp, NoJob, LayoutTypeOK, Prepared, Steps, Folders, Jobs
<1>25. QED
  BY <1>1, <1>2, <1>3, <1>4, <1>5, <1>6, <1>7, <1>8, <1>9, <1>10, <1>11, <1>12,
       <1>13, <1>14, <1>15, <1>16, <1>17, <1>18, <1>19, <1>20, <1>21, <1>22, <1>23, <1>24
       DEF Step

LEMMA StartTyped == ASSUME Typed, NEW a \in Admins, Start(a) PROVE Typed'
<1> USE DEF Typed, TypeOK, Goto, Quiet
<1>1. ASSUME NEW kind \in Kinds, Inspect(a, kind) PROVE Typed'
  BY <1>1, InspectTyped
<1>2. ASSUME NEW mode \in Recoveries, ClaimRecovery(a, mode) PROVE Typed'
  <2>1. mode \in {"finish", "undo"}
    BY OfferedAssumption
  <2>2. QED
    BY <1>2, <2>1 DEF ClaimRecovery, NoJob, LayoutTypeOK, Steps, Jobs, Prepared, Folders
<1>3. CASE TakeOverRecovery(a)
  BY <1>3 DEF TakeOverRecovery, LayoutTypeOK, Prepared
<1>4. QED
  BY <1>1, <1>2, <1>3 DEF Start

LEMMA FaultTyped == ASSUME Typed, NEW a \in Admins, Faults(a) PROVE Typed'
<1> USE DEF Typed, TypeOK, Goto, Quiet
<1>1. Fault
  BY DEF Faults
<1>2. CASE Fail(a)
  <2>1. LayoutTypeOK'
    BY <1>2 DEF LayoutTypeOK, Fail, GiveUp, NoJob
  <2>2. job' \in [Admins -> Jobs]
    BY <1>2 DEF LayoutTypeOK, Plans, NoPlan, Jobs, Folders, Fail, GiveUp, NoJob
  <2>3. QED
    BY <1>2, <1>1, <2>1, <2>2, MaxFaultsAssumption DEF Steps, Prepared, Fail, GiveUp,
         NoJob, Fault
<1>3. CASE Crash(a)
  BY <1>3, <1>1, MaxFaultsAssumption DEF Crash, NoJob, layoutVars, Fault, LayoutTypeOK,
       Prepared, Steps, Folders, Jobs
<1>4. CASE CrashRemoving(a)
  BY <1>4, <1>1, CrashRemovingTyped
<1>5. CASE CrashReleasing(a)
  <2>1. LayoutTypeOK'
    BY <1>5 DEF LayoutTypeOK, Places, CrashReleasing, NoJob
  <2>2. job' \in [Admins -> Jobs]
    BY <1>5 DEF LayoutTypeOK, Plans, NoPlan, Jobs, Folders, CrashReleasing, NoJob
  <2>3. QED
    BY <1>5, <1>1, <2>1, <2>2, MaxFaultsAssumption DEF Steps, Prepared, CrashReleasing,
         NoJob, Fault
<1>6. QED
  BY <1>2, <1>3, <1>4, <1>5 DEF Faults

LEMMA LateTyped == ASSUME Typed, LateDevice PROVE Typed'
<1> USE DEF Typed, TypeOK, Quiet
<1>1. \A i \in LateItems : Whole(i, NoKey) \in Copies
  BY LateItemsAssumption DEF Whole, Copies
<1>2. held' \in [Folders -> SUBSET Copies] /\ dir' \in [Folders -> {"absent", "folder", "file"}]
  BY <1>1 DEF LateDevice, MakeFolder, LayoutTypeOK, Folders
<1>3. QED
  BY <1>2 DEF LateDevice, LayoutTypeOK, Prepared

LEMMA NextTyped == Typed /\ [ChangeNext]_changeVars => Typed'
<1> SUFFICES ASSUME Typed, [ChangeNext]_changeVars PROVE Typed'
  OBVIOUS
<1>1. CASE UNCHANGED changeVars
  BY <1>1 DEF Typed, TypeOK, LayoutTypeOK, Prepared, changeVars, layoutVars, adminVars
<1>2. CASE ChangeNext
  BY <1>2, StepTyped, StartTyped, FaultTyped, LateTyped DEF ChangeNext
<1>3. QED
  BY <1>1, <1>2

\* Every state a command can reach is well formed: no step writes a journal
\* without a kind and a key, a copy under what is no key, or a header where
\* none goes, however commands overlap and wherever they are cut short.
THEOREM ChangeTyped == ChangeSpec => []TypeOK
<1>1. ChangeInit => Typed
  BY InitTyped
<1>2. Typed /\ [ChangeNext]_changeVars => Typed'
  BY NextTyped
<1>3. Typed => TypeOK
  BY DEF Typed
<1>4. QED
  BY <1>1, <1>2, <1>3, PTL DEF ChangeSpec

--------------------------------------------------------------------------------
(***************************************************************************)
(* One change at a time.  The lock is the mutual exclusion: a command past *)
(* `publish` holds it, and only that command gives it up.                  *)
(***************************************************************************)
Locked == \A a \in Admins : Working(a) => lock

Exclusive == pc \in [Admins -> Steps] /\ Locked /\ OneChange

\* A command that works keeps the others out whatever it does next, as long as
\* it leaves the lock.
LEMMA WorkingExclusive ==
  ASSUME Exclusive, NEW a \in Admins, Working(a), lock' = lock,
         pc' \in [Admins -> Steps], \A b \in Admins \ {a} : pc'[b] = pc[b]
  PROVE  Exclusive'
BY DEF Exclusive, Locked, OneChange, Working

LEMMA StepExclusive ==
  ASSUME Typed, Typed', Exclusive, NEW a \in Admins, Step(a)
  PROVE  Exclusive'
<1> USE DEF Goto
<1>1. pc' \in [Admins -> Steps] /\ \A b \in Admins \ {a} : pc'[b] = pc[b]
  <2>1. pc \in [Admins -> Steps] /\ pc' \in [Admins -> Steps]
    BY DEF Typed, TypeOK
  <2>2. UNCHANGED pc \/ \E s : pc' = [pc EXCEPT ![a] = s]
    BY Zenon DEF Step, GiveUp, Fold, FoldNext, StopStep, RestopStep, CleanSource,
         ClearItems, Copy, Finish, FoldIntoSource, FoldStep, Install, MoveSource,
         Publish, PublishRefused, Refused, Release, RemoveStopFile, RestoreHead,
         RestorePlain, RestoreSource, RevertNew, RevertOld, RevertWords, Swap, Undo,
         Unstage, Verify, WriteStopFile
  <2>3. QED
    BY <2>1, <2>2
<1>2. CASE Publish(a)
  BY <1>1, <1>2 DEF Publish, Exclusive, Locked, OneChange, Working
<1>3. CASE PublishRefused(a)
  BY <1>1, <1>3 DEF PublishRefused, layoutVars, Exclusive, Locked, OneChange, Working
<1>4. CASE Release(a)
  BY <1>1, <1>4 DEF Release, Exclusive, Locked, OneChange, Working
<1>5. CASE ~Publish(a) /\ ~PublishRefused(a) /\ ~Release(a)
  <2>1. Working(a) /\ lock' = lock
    BY <1>5, Zenon DEF Step, Working, GiveUp, Fold, FoldNext, StopStep, RestopStep,
         layoutVars, CleanSource, ClearItems, Copy, Finish, FoldIntoSource, FoldStep,
         Install, MoveSource, Publish, PublishRefused, Refused, Release, RemoveStopFile,
         RestoreHead, RestorePlain, RestoreSource, RevertNew, RevertOld, RevertWords,
         Swap, Undo, Unstage, Verify, WriteStopFile
  <2>2. QED
    BY <1>1, <2>1, WorkingExclusive
<1>6. QED
  BY <1>2, <1>3, <1>4, <1>5

LEMMA StartExclusive ==
  ASSUME Typed, Exclusive, NEW a \in Admins, Start(a), ~OverlapRecovery \/ Recoveries = {}
  PROVE  Exclusive'
<1>1. ASSUME NEW kind \in Kinds, Inspect(a, kind) PROVE Exclusive'
  BY <1>1 DEF Inspect, MayChange, Goto, layoutVars, Exclusive, Locked, OneChange,
       Working, Steps
<1>2. ASSUME NEW mode \in Recoveries, ClaimRecovery(a, mode) PROVE Exclusive'
  <2>1. Alone /\ lock' /\ mode \in {"finish", "undo"} /\ pc' = [pc EXCEPT ![a] = mode]
    BY <1>2, OfferedAssumption DEF ClaimRecovery, MayRecover, Goto
  <2>2. QED
    BY <2>1 DEF Alone, Exclusive, Locked, OneChange, Working, Steps
<1>3. CASE TakeOverRecovery(a)
  BY <1>3 DEF TakeOverRecovery, Exclusive, Locked, OneChange, Working
<1>4. QED
  BY <1>1, <1>2, <1>3 DEF Start

LEMMA FaultExclusive == ASSUME Exclusive, NEW a \in Admins, Faults(a) PROVE Exclusive'
<1>1. pc' = [pc EXCEPT ![a] = "idle"] /\ lock' = lock
  BY DEF Faults, Fail, Crash, CrashRemoving, CrashReleasing, GiveUp, Goto, layoutVars
<1>2. QED
  BY <1>1 DEF Exclusive, Locked, OneChange, Working, Steps

\* At most one command is ever past taking the lock (journal.rs `publish`,
\* `claim_recovery`), even when changes start while others run, provided no
\* recovery is started beside another command.
THEOREM ChangesExclude ==
  ASSUME ~OverlapRecovery \/ Recoveries = {}
  PROVE  ChangeSpec => []OneChange
<1> DEFINE Inv == Typed /\ Exclusive
<1>1. ChangeInit => Inv
  <2>1. ChangeInit => Exclusive
    BY DEF ChangeInit, Exclusive, Locked, OneChange, Working, Steps
  <2>2. QED
    BY <2>1, InitTyped
<1>2. Inv /\ [ChangeNext]_changeVars => Inv'
  <2> SUFFICES ASSUME Inv, [ChangeNext]_changeVars PROVE Inv'
    OBVIOUS
  <2>1. Typed'
    BY NextTyped
  <2>2. CASE UNCHANGED changeVars
    BY <2>1, <2>2 DEF changeVars, layoutVars, adminVars, Exclusive, Locked,
         OneChange, Working
  <2>3. CASE ChangeNext
    <3>1. CASE LateDevice
      BY <2>1, <3>1 DEF LateDevice, Exclusive, Locked, OneChange, Working
    <3>2. QED
      BY <2>1, <2>3, <3>1, StepExclusive, StartExclusive, FaultExclusive DEF ChangeNext
  <2>4. QED
    BY <2>2, <2>3
<1>3. Inv => OneChange
  BY DEF Exclusive
<1>4. QED
  BY <1>1, <1>2, <1>3, PTL DEF ChangeSpec

--------------------------------------------------------------------------------
(***************************************************************************)
(* What becomes of the items.  The tree of an open store is at rest; under *)
(* the lock its journal says what to expect in it, and a command knows     *)
(* more at each of its steps.  All of it is said of a set S of items that  *)
(* are to stay, and up to a set L of items and keys of which a folder may  *)
(* hold sealed copies that are out of place: what devices on their way     *)
(* left there, and nothing while no device writes.                         *)
(***************************************************************************)
Stored(i, f)    == Whole(i, NoKey) \in held[f]
PlainCopies(f)  == \A c \in held[f] : c = Whole(c.item, NoKey)
SealedCopies(L, f, k) == \A c \in held[f] : c.key = k \/ <<c.item, c.key>> \in L

\* Every item of S is in a folder under a key, or was set aside by a fresh start.
Keeps(S, f, k) == \A i \in S : Whole(i, k) \in held[f] \/ Stored(i, "plain/items")

Shut == dir["items"] = "file"

\* Only folders hold copies, only `items/` may be a stop file, and the folders
\* that plaintext devices may store in hold nothing but whole plaintext.
TreeSound ==
  /\ \A f \in Folders : dir[f] # "folder" => held[f] = {}
  /\ \A f \in Folders \ {"items"} : dir[f] # "file"
  /\ PlainCopies("items") /\ PlainCopies("plain/items")

\* A store between changes.
PlainRest(S) ==
  /\ ~Shut /\ dir["source"] = "absent" /\ held["v2/items"] = {}
  /\ \A i \in S : Stored(i, "items")
SealedRest(S, L, k) ==
  /\ Shut /\ dir["source"] = "absent"
  /\ SealedCopies(L, "v2/items", k) /\ Keeps(S, "v2/items", k)
AtRest(S, L) ==
  IF head["encryption"] = NoHeader THEN PlainRest(S) ELSE SealedRest(S, L, head["encryption"].key)

\* A header that is in a place is one for a key.
Opens(p, k) == head[p] # NoHeader => head[p].key = k

\* What a journal of each kind stands for, at whatever step its command stopped.
WordsGoing(S, L) ==
  /\ SealedRest(S, L, plan.to)
  /\ \A p \in Places : Opens(p, plan.to)
  /\ \E p \in Places : head[p] # NoHeader

SetUpGoing(S) ==
  /\ dir["source"] = "absent" /\ held["v2/items"] = {}
  /\ \A i \in S : Stored(i, "items") \/ Stored(i, "plain/items")
  /\ head["previous"] = NoHeader /\ head["old-header"] = NoHeader
  /\ Opens("header", plan.to) /\ Opens("encryption", plan.to)
  /\ head["encryption"] # NoHeader => head["header"] = NoHeader /\ Shut

\* A re-encryption past its swap: every kept item has a copy under the new key.
Committed(S, L) ==
  /\ head["header"] = NoHeader /\ head["encryption"].key = plan.to
  /\ Shut /\ SealedCopies(L, "v2/items", plan.to) /\ Keeps(S, "v2/items", plan.to)

MigrateOpen(S, L) ==
  /\ head["encryption"] = NoHeader /\ Opens("header", plan.to)
  /\ SealedCopies(L, "v2/items", plan.to) /\ PlainCopies("source")
  /\ \A i \in S : Stored(i, "items") \/ Stored(i, "source")
MigrateGoing(S, L) ==
  /\ head["previous"] = NoHeader /\ head["old-header"] = NoHeader
  /\ MigrateOpen(S, L) \/ Committed(S, L)

\* The old header is in place, or set aside for the swap.
OldHeader == IF head["encryption"] # NoHeader THEN head["encryption"] ELSE head["previous"]
RotateOpen(S, L) ==
  /\ Shut /\ Opens("header", plan.to)
  /\ OldHeader # NoHeader /\ OldHeader.key # plan.to
  /\ \A p \in {"encryption", "previous", "old-header"} : Opens(p, OldHeader.key)
  /\ dir["source"] = "absent" =>
       SealedCopies(L, "v2/items", OldHeader.key) /\ Keeps(S, "v2/items", OldHeader.key)
  /\ dir["source"] # "absent" =>
       /\ SealedCopies(L, "v2/items", plan.to)
       /\ SealedCopies(L, "source", OldHeader.key) /\ Keeps(S, "source", OldHeader.key)
RotateGoing(S, L) == RotateOpen(S, L) \/ Committed(S, L)

Under(S, L) ==
  /\ plan.kind = "words" => WordsGoing(S, L)
  /\ plan.kind \in {"set-up", "fresh-start"} => SetUpGoing(S)
  /\ plan.kind = "migrate" => MigrateGoing(S, L)
  /\ plan.kind = "rotate" => RotateGoing(S, L)

JournalSound(S, L) ==
  /\ ~lock => plan = NoPlan /\ ~recovery /\ \A p \in InLock : head[p] = NoHeader
  /\ plan = NoPlan => AtRest(S, L)
  /\ plan # NoPlan => Under(S, L)

HeadersMade == \A p \in Places : head[p].key \in used \cup {NoKey}

StoreSound(S, L) == TreeSound /\ JournalSound(S, L) /\ HeadersMade

(***************************************************************************)
(* What a command knows at its next step.                                  *)
(***************************************************************************)
Shutting  == {"clear", "clear-fold", "stop", "reclear", "reclear-fold", "restop"}
Moving    == {"source", "source-stop", "resource", "source-fold", "source-restop"}
Forward   == Shutting \cup Moving \cup {"copy", "verify", "install", "swap", "clean"}
Reverting == {"rev-new", "rev-old", "rev-words", "rev-stop", "rev-plain", "rev-fold"}
Unstaging == {"unstage", "unstop", "unsource", "unsource-fold", "unhead"}
Backward  == Reverting \cup Unstaging

\* The kinds of change an open store admits, as far as its header goes.
Fits(kind) == kind \in {"words", "rotate"} <=> head["encryption"] # NoHeader

\* About to take the lock: the store has the header it was inspected with.
Ready(a) ==
  pc[a] = "publish" =>
    /\ ~lock /\ Fits(job[a].kind)
    /\ job[a].old = head["encryption"] /\ job[a].mode = "run" /\ job[a].hdr.key \in used
    /\ job[a].kind = "words" => job[a].hdr.key = head["encryption"].key
    /\ job[a].kind = "rotate" => job[a].hdr.key # head["encryption"].key

\* Carrying a change out.
Going(S, L, a) ==
  pc[a] \in Forward =>
    /\ plan # NoPlan /\ job[a].kind = plan.kind /\ job[a].hdr.key = plan.to
    /\ job[a].mode \in {"run", "finish"}
    /\ pc[a] \in Shutting => plan.kind \in {"set-up", "fresh-start"}
    /\ pc[a] \in Moving => plan.kind \in Rewrites
    /\ pc[a] \in Moving \ {"source"} => plan.kind = "migrate" /\ dir["source"] = "folder"
    /\ pc[a] = "resource" => dir["items"] = "folder"
    /\ pc[a] \in Moving \cup {"copy", "verify"} => head["header"] # NoHeader
    /\ pc[a] \in {"copy", "verify"} => plan.kind \in Rewrites /\ Shut /\ dir["source"] = "folder"
    /\ pc[a] \in Shutting \cup {"install", "swap"} =>
         head["header"] # NoHeader \/ head["encryption"] # NoHeader
    /\ pc[a] \in {"install", "swap"} =>
         /\ Shut
         /\ plan.kind \in Rewrites =>
              head["header"] # NoHeader /\ Keeps(S, "v2/items", plan.to) /\ dir["source"] = "folder"
    /\ pc[a] = "clean" => plan.kind \in Rewrites /\ Committed(S, L)

\* Undoing one.
Undoing(a) ==
  pc[a] \in Backward =>
    /\ plan # NoPlan /\ job[a].kind = plan.kind /\ job[a].mode = "undo"
    /\ pc[a] \in Reverting => plan.kind \in HeaderChanges
    /\ pc[a] = "rev-words" => plan.kind = "words"
    /\ pc[a] \in {"rev-stop", "rev-plain", "rev-fold"} => plan.kind # "words"
    /\ pc[a] \in Reverting \ {"rev-new"} /\ plan.kind # "words" => head["encryption"] = NoHeader
    /\ pc[a] \in {"rev-plain", "rev-fold"} => ~Shut
    /\ pc[a] \in Unstaging => plan.kind \in Rewrites /\ ~Swapped
    /\ pc[a] \in {"unstop", "unsource-fold"} => plan.kind = "migrate"
    /\ pc[a] \in {"unstop", "unsource", "unsource-fold"} /\ plan.kind = "migrate" =>
         held["v2/items"] = {}
    /\ pc[a] \in {"unsource", "unsource-fold"} /\ plan.kind = "migrate" => ~Shut
    /\ pc[a] = "unsource" /\ plan.kind = "rotate" => dir["source"] # "absent"
    /\ pc[a] = "unhead" => plan.kind = "rotate" /\ dir["source"] = "absent"

\* Moving one folder into another: what is kept is there already, or listed and
\* still to be moved.
Moves(S, a, from, to) ==
  /\ job[a].from = from /\ job[a].to = to /\ dir[to] = "folder" /\ dir[from] = "folder"
  /\ \A i \in S : Stored(i, to) \/ (Stored(i, from) /\ Whole(i, NoKey) \in job[a].todo)

Folding(S, a) ==
  /\ pc[a] \in {"clear-fold", "reclear-fold"} => Moves(S, a, "items", "plain/items")
  /\ pc[a] = "source-fold" => Moves(S, a, "items", "source")
  /\ pc[a] = "unsource-fold" => Moves(S, a, "source", "items")
  /\ pc[a] = "rev-fold" => Moves(S, a, "plain/items", "items")

\* About to drop the lock: the tree is at rest, under the header reported.
Ending(S, L, a) ==
  pc[a] = "release" =>
    /\ AtRest(S, L)
    /\ \/ job[a].mode = "undo"
       \/ /\ job[a].mode \in {"run", "finish"}
          /\ head["encryption"] # NoHeader /\ head["encryption"].key = job[a].hdr.key
          /\ plan # NoPlan /\ job[a].hdr.key = plan.to

Knows(S, L, a) ==
  /\ Working(a) => lock
  /\ pc[a] \in {"finish", "undo"} => job[a].mode = pc[a]
  /\ Ready(a) /\ Going(S, L, a) /\ Undoing(a) /\ Folding(S, a) /\ Ending(S, L, a)

Solo == \A a, b \in Admins : pc[a] # "idle" /\ pc[b] # "idle" => a = b

KeptInv(S, L) == Typed /\ StoreSound(S, L) /\ Solo /\ \A a \in Admins : Knows(S, L, a)
--------------------------------------------------------------------------------
LEMMA Shapes ==
  ASSUME Typed
  PROVE  /\ \A p \in Places : /\ head[p] \in Headers \cup {NoHeader}
                              /\ head[p].key \in Keys \cup {NoKey}
                              /\ head[p] = NoHeader <=> head[p].key = NoKey
         /\ plan # NoPlan => plan.kind \in Kinds /\ plan.to \in Keys
         /\ head \in [Places -> Headers \cup {NoHeader}]
         /\ dir \in [Folders -> {"absent", "folder", "file"}]
         /\ held \in [Folders -> SUBSET Copies]
         /\ NoHeader.key = NoKey /\ NoKey \notin Keys
         /\ \A h \in Headers : h.key \in Keys /\ h # NoHeader
<1>1. \A h \in Headers : h.key \in Keys
  BY DEF Headers
<1>2. NoHeader.key = NoKey
  BY DEF NoHeader
<1>3. plan # NoPlan => plan.kind \in Kinds /\ plan.to \in Keys
  BY DEF Typed, TypeOK, LayoutTypeOK, Plans
<1>4. head \in [Places -> Headers \cup {NoHeader}]
  BY DEF Typed, TypeOK, LayoutTypeOK
<1>5. QED
  BY <1>1, <1>2, <1>3, <1>4, NoKeyAssumption DEF Typed, TypeOK, LayoutTypeOK

\* A step that changes nothing in the tree leaves it sound.
LEMMA TreeStays ==
  ASSUME NEW S, NEW L, UNCHANGED <<plan, head, dir, held, kept>>
  PROVE  /\ TreeSound' = TreeSound /\ AtRest(S, L)' = AtRest(S, L)
         /\ Under(S, L)' = Under(S, L) /\ Committed(S, L)' = Committed(S, L)
         /\ Swapped' = Swapped /\ Shut' = Shut
BY DEF TreeSound, AtRest, Under, Committed, Swapped, Shut, Keeps, PlainCopies, PlainRest,
   SealedRest, Stored, SealedCopies, WordsGoing, SetUpGoing, MigrateGoing, MigrateOpen,
   RotateGoing, RotateOpen, OldHeader, Opens
LEMMA PublishKeeps ==
  ASSUME NEW S, NEW L, KeptInv(S, L), NEW a \in Admins, Publish(a)
  PROVE  StoreSound(S, L)' /\ Knows(S, L, a)'
<1> USE Shapes DEF KeptInv
<1>1. /\ Ready(a) /\ ~lock /\ plan = NoPlan /\ AtRest(S, L)
      /\ \A p \in InLock : head[p] = NoHeader
  BY DEF Publish, Knows, StoreSound, JournalSound
<1> PICK kind \in Kinds : kind = job[a].kind
  BY DEF Publish, Typed, Prepared
<1> PICK h \in Headers : h = job[a].hdr
  BY DEF Publish, Typed, Prepared
<1>2. /\ lock' /\ plan' = [kind |-> kind, to |-> h.key]
      /\ UNCHANGED <<recovery, dir, held, kept, used, job>>
      /\ pc' = [pc EXCEPT ![a] = FirstStep(kind)]
  BY DEF Publish, Goto, Quiet
<1>3. /\ head'["header"] = h /\ head'["old-header"] = head["encryption"]
      /\ head'["encryption"] = head["encryption"] /\ head'["previous"] = NoHeader
  BY <1>1 DEF Publish, Ready, Places, InLock
<1>4. plan' # NoPlan /\ plan'.kind = kind /\ plan'.to = h.key
  BY <1>2 DEF NoPlan, Kinds, HeaderChanges, Rewrites
<1>5. TreeSound'
  BY <1>2 DEF StoreSound, TreeSound, PlainCopies
<1>6. HeadersMade'
  BY <1>1, <1>2, <1>3 DEF StoreSound, HeadersMade, Ready, Publish, Places
<1>7. Under(S, L)'
  <2>1. CASE kind = "words"
    <3>1. head["encryption"] # NoHeader /\ h.key = head["encryption"].key
      BY <1>1, <2>1 DEF Ready, Publish, Fits
    <3>2. SealedRest(S, L, h.key)
      BY <1>1, <3>1 DEF AtRest
    <3>3. WordsGoing(S, L)'
      BY <1>2, <1>3, <1>4, <3>1, <3>2 DEF WordsGoing, SealedRest, Opens, Places, Shut,
         SealedCopies, Keeps, Stored
    <3>4. QED
      BY <1>4, <2>1, <3>3 DEF Under
  <2>2. CASE kind = "rotate"
    <3>1. head["encryption"] # NoHeader /\ h.key # head["encryption"].key
      BY <1>1, <2>2 DEF Ready, Publish, Fits
    <3>2. SealedRest(S, L, head["encryption"].key)
      BY <1>1, <3>1 DEF AtRest
    <3>3. RotateOpen(S, L)'
      BY <1>2, <1>3, <1>4, <3>1, <3>2 DEF RotateOpen, OldHeader, SealedRest, Opens, Shut,
         SealedCopies, Keeps, Stored
    <3>4. QED
      BY <1>4, <2>2, <3>3 DEF Under, RotateGoing
  <2>3. CASE kind \in {"set-up", "fresh-start", "migrate"}
    <3>1. head["encryption"] = NoHeader
      BY <1>1, <2>3 DEF Ready, Publish, Fits
    <3>2. PlainRest(S)
      BY <1>1, <3>1 DEF AtRest
    <3>3. SetUpGoing(S)'
      BY <1>2, <1>3, <1>4, <3>1, <3>2 DEF SetUpGoing, PlainRest, Opens, Stored
    <3>4. held["source"] = {}
      BY <3>2 DEF PlainRest, StoreSound, TreeSound, Folders
    <3>5. MigrateGoing(S, L)'
      BY <1>2, <1>3, <1>4, <3>1, <3>2, <3>4 DEF MigrateGoing, MigrateOpen, PlainRest, Opens, Stored,
         SealedCopies, PlainCopies
    <3>6. QED
      BY <1>4, <2>3, <3>3, <3>5 DEF Under
  <2>4. QED
    BY <2>1, <2>2, <2>3 DEF Kinds, HeaderChanges, Rewrites
<1>8. Knows(S, L, a)'
  <2>1. pc'[a] = FirstStep(kind)
    BY <1>2 DEF Typed, TypeOK
  <2>2. kind = "words" => Shut'
    BY <1>4, <1>7 DEF Under, WordsGoing, SealedRest
  <2>3. job'[a].mode = "run"
    BY <1>1, <1>2 DEF Ready, Publish
  <2>4. QED
    BY <1>2, <1>3, <1>4, <2>1, <2>2, <2>3 DEF Knows, Ready, Going, Undoing, Folding, Ending, FirstStep,
       Forward, Backward, Shutting, Moving, Reverting, Unstaging, Kinds, HeaderChanges, Rewrites
<1>9. QED
  BY <1>2, <1>4, <1>5, <1>6, <1>7, <1>8 DEF StoreSound, JournalSound

LEMMA SwapKeeps ==
  ASSUME NEW S, NEW L, KeptInv(S, L), NEW a \in Admins, Swap(a)
  PROVE  StoreSound(S, L)' /\ Knows(S, L, a)'
<1> USE Shapes DEF KeptInv
<1>1. Going(S, L, a) /\ pc[a] = "swap" /\ plan # NoPlan /\ Under(S, L) /\ job[a].kind = plan.kind /\ lock
  BY DEF Swap, Knows, Going, Forward, StoreSound, JournalSound, Working
<1>2. /\ UNCHANGED <<lock, plan, recovery, dir, held, kept, job, used>>
      /\ pc' = [pc EXCEPT ![a] = AfterSwap(plan.kind)]
  BY <1>1 DEF Swap, Goto, Quiet
<1>3. /\ head["encryption"] = NoHeader /\ head["header"] # NoHeader
      /\ head'["header"] = NoHeader /\ head'["old-header"] = head["old-header"]
      /\ head'["encryption"] = head["header"] /\ head'["previous"] = head["previous"]
  BY DEF Swap, MoveHeader, Places
<1>4. TreeSound'
  BY <1>2 DEF StoreSound, TreeSound, PlainCopies
<1>5. HeadersMade'
  BY <1>2, <1>3 DEF StoreSound, HeadersMade, Places
<1>6. head["header"].key = plan.to /\ Shut
  BY <1>1, <1>3 DEF Going, Forward, Under, WordsGoing, SetUpGoing, MigrateGoing, MigrateOpen, RotateGoing, RotateOpen,
     Committed, Opens, Kinds, HeaderChanges, Rewrites, Places
<1>7. CASE plan.kind \in Rewrites
  <2>1. Keeps(S, "v2/items", plan.to) /\ dir["source"] = "folder"
    BY <1>1, <1>7 DEF Going, Forward
  <2>2. SealedCopies(L, "v2/items", plan.to)
    BY <1>1, <1>3, <1>7, <2>1 DEF Under, MigrateGoing, MigrateOpen, RotateGoing, RotateOpen, Committed, Rewrites
  <2>3. Committed(S, L)'
    BY <1>2, <1>3, <1>6, <2>1, <2>2 DEF Committed, Shut, SealedCopies, Keeps, Stored
  <2>4. Under(S, L)'
    BY <1>1, <1>2, <1>3, <1>7, <2>3 DEF Under, MigrateGoing, RotateGoing, Rewrites
  <2>5. Knows(S, L, a)'
    BY <1>1, <1>2, <1>7, <2>3 DEF Knows, Ready, Going, Undoing, Folding, Ending, AfterSwap,
       Forward, Backward, Shutting, Moving, Reverting, Unstaging, Typed, TypeOK
  <2>6. QED
    BY <1>1, <1>2, <1>4, <1>5, <2>4, <2>5 DEF StoreSound, JournalSound
<1>8. CASE plan.kind \notin Rewrites
  <2>1. Under(S, L)'
    BY <1>1, <1>2, <1>3, <1>6, <1>8 DEF Under, WordsGoing, SetUpGoing, Rewrites, SealedRest, Opens, Places, Shut,
         SealedCopies, Keeps, Stored
  <2>2. AtRest(S, L)'
    BY <1>1, <1>2, <1>3, <1>6, <1>8 DEF AtRest, Under, WordsGoing, SetUpGoing, Rewrites, HeaderChanges, Kinds, SealedRest, Opens, Places, Shut,
         SealedCopies, Keeps, Stored, StoreSound, TreeSound, Folders
  <2>3. Knows(S, L, a)'
    BY <1>1, <1>2, <1>3, <1>6, <1>8, <2>2 DEF Knows, Ready, Going, Undoing, Folding, Ending, AfterSwap,
       Forward, Backward, Shutting, Moving, Reverting, Unstaging, Typed, TypeOK
  <2>6. QED
    BY <1>1, <1>2, <1>4, <1>5, <2>1, <2>3 DEF StoreSound, JournalSound
<1>9. QED
  BY <1>7, <1>8
LEMMA InstallKeeps ==
  ASSUME NEW S, NEW L, KeptInv(S, L), NEW a \in Admins, Install(a)
  PROVE  StoreSound(S, L)' /\ Knows(S, L, a)'
<1> USE Shapes DEF KeptInv
<1>1. Going(S, L, a) /\ pc[a] = "install" /\ plan # NoPlan /\ Under(S, L) /\ job[a].kind = plan.kind /\ lock
  BY DEF Install, Knows, Going, Forward, StoreSound, JournalSound, Working
<1>2. UNCHANGED <<lock, plan, recovery, dir, held, kept, job, used>>
  BY DEF Install, Quiet
<1>3. TreeSound'
  BY <1>2 DEF StoreSound, TreeSound, PlainCopies
<1>4. CASE head["header"] = NoHeader
  <2>1. head' = head /\ pc' = [pc EXCEPT ![a] = AfterSwap(plan.kind)]
    BY <1>1, <1>4 DEF Install, MoveHeader, Goto
  <2>2. plan.kind \notin Rewrites /\ head["encryption"] # NoHeader
    BY <1>1, <1>4 DEF Going, Forward
  <2>3. AtRest(S, L) /\ head["encryption"].key = plan.to
    BY <1>1, <2>2 DEF AtRest, Under, WordsGoing, SetUpGoing, Rewrites, HeaderChanges, Kinds, SealedRest, Opens,
       Places, Shut, SealedCopies, Keeps, Stored, StoreSound, TreeSound, Folders
  <2>6. AtRest(S, L)' /\ pc' = [pc EXCEPT ![a] = "release"] /\ head'["encryption"] = head["encryption"]
    BY <1>2, <2>1, <2>2, <2>3, TreeStays DEF AfterSwap
  <2>4. Knows(S, L, a)'
    BY <1>1, <1>2, <2>2, <2>3, <2>6 DEF Knows, Ready, Going, Undoing, Folding, Ending, AfterSwap,
       Forward, Backward, Shutting, Moving, Reverting, Unstaging, Typed, TypeOK
  <2>5. QED
    BY <1>1, <1>2, <1>3, <2>1, <2>4, TreeStays DEF StoreSound, JournalSound, HeadersMade
<1>5. CASE head["header"] # NoHeader
  <2>1. /\ pc' = [pc EXCEPT ![a] = "swap"]
        /\ \/ head' = head
           \/ /\ head["encryption"] # NoHeader /\ head["previous"] = NoHeader
              /\ head'["encryption"] = NoHeader /\ head'["previous"] = head["encryption"]
              /\ head'["header"] = head["header"] /\ head'["old-header"] = head["old-header"]
    BY <1>5 DEF Install, MoveHeader, Goto, Places
  <2>2. HeadersMade'
    BY <1>2, <2>1 DEF StoreSound, HeadersMade, Places
  <2>3. Under(S, L)'
    <3>1. CASE head' = head
      BY <1>1, <1>2, <3>1, TreeStays
    <3>2. CASE head' # head
      BY <1>1, <1>2, <1>5, <2>1, <3>2 DEF Under, WordsGoing, SetUpGoing, MigrateGoing, MigrateOpen, RotateGoing,
         RotateOpen, OldHeader, Committed, SealedRest, Opens, Places, Shut, SealedCopies, Keeps, Stored, PlainCopies
    <3>3. QED
      BY <3>1, <3>2
  <2>4. Knows(S, L, a)'
    BY <1>1, <1>2, <1>5, <2>1 DEF Knows, Ready, Going, Undoing, Folding, Ending, Keeps, Stored, Shut,
       Forward, Backward, Shutting, Moving, Reverting, Unstaging, Typed, TypeOK
  <2>5. QED
    BY <1>1, <1>2, <1>3, <2>2, <2>3, <2>4 DEF StoreSound, JournalSound
<1>6. QED
  BY <1>4, <1>5

\* Steps that only look.
LEMMA VerifyKeeps ==
  ASSUME NEW S, NEW L, KeptInv(S, L), NEW a \in Admins, Verify(a)
  PROVE  StoreSound(S, L)' /\ Knows(S, L, a)'
<1> USE Shapes DEF KeptInv
<1>1. /\ Going(S, L, a) /\ pc[a] = "verify" /\ plan # NoPlan /\ Under(S, L) /\ lock
      /\ plan.kind \in Rewrites /\ Shut /\ dir["source"] = "folder" /\ head["header"] # NoHeader
      /\ job[a].hdr.key = plan.to
  BY DEF Verify, Knows, Going, Forward, StoreSound, JournalSound, Working
<1>2. /\ UNCHANGED <<lock, plan, recovery, head, dir, held, kept, job, used>>
      /\ pc' = [pc EXCEPT ![a] = "install"]
  BY DEF Verify, Quiet, Goto, layoutVars
<1>3. Keeps(S, "v2/items", plan.to)
  <2>1. \A c \in held["source"] : Whole(c.item, plan.to) \in held["v2/items"]
    BY <1>1 DEF Verify, Verified
  <2>2. \A i, k : Whole(i, k).item = i
    BY DEF Whole
  <2>3. CASE plan.kind = "migrate"
    <3>1. held["items"] = {} /\ \A i \in S : Stored(i, "items") \/ Stored(i, "source")
      BY <1>1, <2>3 DEF Under, MigrateGoing, MigrateOpen, Committed, StoreSound, TreeSound, Folders, Shut
    <3>2. QED
      BY <2>1, <2>2, <3>1 DEF Keeps, Stored
  <2>4. CASE plan.kind = "rotate"
    <3>1. Keeps(S, "source", OldHeader.key)
      BY <1>1, <2>4 DEF Under, RotateGoing, RotateOpen, Committed
    <3>2. QED
      BY <2>1, <2>2, <3>1 DEF Keeps
  <2>5. QED
    BY <1>1, <2>3, <2>4 DEF Rewrites
<1>4. Knows(S, L, a)'
  BY <1>1, <1>2, <1>3 DEF Knows, Ready, Going, Undoing, Folding, Ending, Keeps, Stored, Shut,
     Forward, Backward, Shutting, Moving, Reverting, Unstaging, Typed, TypeOK
<1>5. QED
  BY <1>1, <1>2, <1>4, TreeStays DEF StoreSound, JournalSound, HeadersMade

LEMMA FinishKeeps ==
  ASSUME NEW S, NEW L, KeptInv(S, L), NEW a \in Admins, Finish(a)
  PROVE  StoreSound(S, L)' /\ Knows(S, L, a)'
<1> USE Shapes DEF KeptInv
<1>1. plan # NoPlan /\ Under(S, L) /\ lock /\ pc[a] = "finish" /\ job[a].mode = "finish" /\ Finishable
  BY DEF Finish, Finishable, Knows, StoreSound, JournalSound, Working
<1>2. /\ UNCHANGED <<lock, plan, recovery, head, dir, held, kept, used>>
      /\ job'[a].kind = plan.kind /\ job'[a].hdr = Unfinished /\ job'[a].mode = "finish"
      /\ pc' = [pc EXCEPT ![a] = IF plan.kind \in Rewrites /\ Swapped THEN "clean" ELSE FirstStep(plan.kind)]
  BY <1>1 DEF Finish, Quiet, Goto, layoutVars, Typed, TypeOK, Jobs
<1>3. head["encryption"].key = plan.to => head["encryption"] # NoHeader
  BY <1>1 DEF Places
<1>4. Unfinished.key = plan.to
  BY <1>1, <1>3 DEF Finishable, Unfinished, Swapped, Under, MigrateGoing, MigrateOpen, RotateGoing, RotateOpen,
     Committed, Kinds, Rewrites, Opens
<1>5. plan.kind \in Rewrites /\ Swapped => Committed(S, L)
  BY <1>1, <1>3 DEF Swapped, Under, MigrateGoing, MigrateOpen, RotateGoing, RotateOpen, Rewrites, OldHeader
<1>6. plan.kind \in Rewrites /\ ~Swapped => head["header"] # NoHeader
  BY <1>1 DEF Finishable
<1>7. plan.kind = "words" => Shut
  BY <1>1 DEF Under, WordsGoing, SealedRest
<1>8. head["header"] # NoHeader \/ head["encryption"] # NoHeader
  BY <1>1 DEF Finishable, Unfinished
<1>9. Knows(S, L, a)'
  <2>1. CASE plan.kind \in Rewrites /\ Swapped
    <3>1. Committed(S, L)'
      BY <1>2, <1>5, <2>1, TreeStays
    <3>2. QED
      BY <1>1, <1>2, <1>4, <2>1, <3>1 DEF Knows, Ready, Going, Undoing, Folding, Ending,
     Forward, Backward, Shutting, Moving, Reverting, Unstaging, Typed, TypeOK
  <2>2. CASE ~(plan.kind \in Rewrites /\ Swapped)
    BY <1>1, <1>2, <1>4, <1>6, <1>7, <1>8, <2>2 DEF Knows, Ready, Going, Undoing, Folding, Ending, FirstStep,
     Forward, Backward, Shutting, Moving, Reverting, Unstaging, Typed, TypeOK, Shut, Rewrites, Kinds, HeaderChanges
  <2>3. QED
    BY <2>1, <2>2
<1>10. QED
  BY <1>1, <1>2, <1>9, TreeStays DEF StoreSound, JournalSound, HeadersMade

LEMMA UndoKeeps ==
  ASSUME NEW S, NEW L, KeptInv(S, L), NEW a \in Admins, Undo(a)
  PROVE  StoreSound(S, L)' /\ Knows(S, L, a)'
<1> USE Shapes DEF KeptInv
<1>1. lock /\ pc[a] = "undo" /\ job[a].mode = "undo" /\ Undoable
  BY DEF Undo, Knows, Working
<1>2. /\ UNCHANGED <<lock, plan, recovery, head, dir, held, kept, used>>
      /\ job'[a].kind = plan.kind /\ job'[a].mode = "undo"
      /\ pc' = [pc EXCEPT ![a] = IF plan = NoPlan THEN "release"
             ELSE IF plan.kind \in Rewrites THEN "unstage" ELSE "rev-new"]
  BY <1>1 DEF Undo, Quiet, Goto, layoutVars, Typed, TypeOK, Jobs
<1>3. plan = NoPlan => AtRest(S, L)
  BY DEF StoreSound, JournalSound
<1>4. Knows(S, L, a)'
  BY <1>1, <1>2, <1>3, TreeStays DEF Knows, Ready, Going, Undoing, Folding, Ending, Undoable, Kinds,
     Forward, Backward, Shutting, Moving, Reverting, Unstaging, Typed, TypeOK
<1>5. QED
  BY <1>1, <1>2, <1>4, TreeStays DEF StoreSound, JournalSound, HeadersMade

LEMMA CleanKeeps ==
  ASSUME NEW S, NEW L, KeptInv(S, L), NEW a \in Admins, CleanSource(a)
  PROVE  StoreSound(S, L)' /\ Knows(S, L, a)'
<1> USE Shapes DEF KeptInv
<1>1. /\ Going(S, L, a) /\ pc[a] = "clean" /\ plan # NoPlan /\ Under(S, L) /\ lock
      /\ plan.kind \in Rewrites /\ Committed(S, L) /\ job[a].hdr.key = plan.to /\ job[a].mode \in {"run", "finish"}
  BY DEF CleanSource, Knows, Going, Forward, StoreSound, JournalSound, Working
<1>2. /\ UNCHANGED <<lock, plan, recovery, head, kept, job, used>>
      /\ pc' = [pc EXCEPT ![a] = "release"]
      /\ dir' = [dir EXCEPT !["source"] = "absent"] /\ held' = [held EXCEPT !["source"] = {}]
  BY DEF CleanSource, Quiet, Goto, RemoveTree
<1>3. TreeSound'
  BY <1>2 DEF StoreSound, TreeSound, PlainCopies, Folders
<1>4. Committed(S, L)' /\ dir'["source"] = "absent"
  BY <1>1, <1>2 DEF Committed, Shut, SealedCopies, Keeps, Stored, Folders
<1>5. head["encryption"] # NoHeader
  BY <1>1 DEF Committed, Places
<1>6. AtRest(S, L)'
  BY <1>2, <1>4, <1>5 DEF AtRest, Committed, SealedRest
<1>7. Under(S, L)'
  BY <1>1, <1>2, <1>4 DEF Under, MigrateGoing, RotateGoing, Rewrites
<1>8. Knows(S, L, a)'
  BY <1>1, <1>2, <1>4, <1>5, <1>6 DEF Knows, Ready, Going, Undoing, Folding, Ending, Committed,
     Forward, Backward, Shutting, Moving, Reverting, Unstaging, Typed, TypeOK
<1>9. QED
  BY <1>1, <1>2, <1>3, <1>7, <1>8 DEF StoreSound, JournalSound, HeadersMade

LEMMA ReleaseKeeps ==
  ASSUME NEW S, NEW L, KeptInv(S, L), NEW a \in Admins, Release(a)
  PROVE  StoreSound(S, L)' /\ Knows(S, L, a)'
<1> USE Shapes DEF KeptInv
<1>1. AtRest(S, L) /\ pc[a] = "release"
  BY DEF Release, Knows, Ending
<1>2. /\ ~lock' /\ plan' = NoPlan /\ ~recovery' /\ UNCHANGED <<kept, used>>
      /\ pc' = [pc EXCEPT ![a] = "idle"]
      /\ head'["encryption"] = head["encryption"] /\ \A p \in InLock : head'[p] = NoHeader
      /\ dir' = [dir EXCEPT !["source"] = "absent"] /\ held' = [held EXCEPT !["source"] = {}]
  BY DEF Release, Goto, RemoveTree, Places, InLock
<1>3. TreeSound'
  BY <1>2 DEF StoreSound, TreeSound, PlainCopies, Folders
<1>4. AtRest(S, L)'
  BY <1>1, <1>2 DEF AtRest, PlainRest, SealedRest, Shut, SealedCopies, Keeps, Stored, Folders
<1>5. HeadersMade'
  BY <1>2 DEF StoreSound, HeadersMade, Places, InLock
<1>6. Knows(S, L, a)'
  BY <1>1, <1>2 DEF Knows, Ready, Going, Undoing, Folding, Ending, Working,
     Forward, Backward, Shutting, Moving, Reverting, Unstaging, Typed, TypeOK
<1>7. QED
  BY <1>2, <1>3, <1>4, <1>5, <1>6 DEF StoreSound, JournalSound
--------------------------------------------------------------------------------
(***************************************************************************)
(* Moving one folder into another.                                         *)
(***************************************************************************)
\* One entry moved.
LEMMA FoldEntry ==
  ASSUME NEW S, Typed, NEW a \in Admins, NEW from \in Folders, NEW to \in Folders, from # to,
         Moves(S, a, from, to), PlainCopies(from), PlainCopies(to),
         NEW c \in job[a].todo \cap held[from],
         held' = [held EXCEPT ![from] = @ \ {c},
                ![to] = IF \E d \in @ : SameId(c, d) THEN @ ELSE @ \cup {c}],
         job' = [job EXCEPT ![a].todo = @ \ {c}],
         UNCHANGED <<dir, kept>>
  PROVE  /\ Moves(S, a, from, to)' /\ PlainCopies(from)' /\ PlainCopies(to)'
         /\ \A f \in Folders \ {from, to} : held'[f] = held[f]
         /\ job'[a].kind = job[a].kind /\ job'[a].hdr = job[a].hdr /\ job'[a].mode = job[a].mode
<1> USE Shapes
<1>1. /\ held'[from] = held[from] \ {c} /\ held[to] \subseteq held'[to]
      /\ held'[to] \subseteq held[to] \cup {c}
      /\ \A f \in Folders \ {from, to} : held'[f] = held[f]
  OBVIOUS
<1>2. c = Whole(c.item, NoKey)
  BY DEF PlainCopies
<1>3. c \in held'[to]
  <2>1. ASSUME NEW d \in held[to], SameId(c, d) PROVE d = c
    BY <1>2, <2>1 DEF PlainCopies, SameId
  <2>2. QED
    BY <2>1
<1>4. /\ job'[a].todo = job[a].todo \ {c} /\ job'[a].from = job[a].from /\ job'[a].to = job[a].to
      /\ job'[a].kind = job[a].kind /\ job'[a].hdr = job[a].hdr /\ job'[a].mode = job[a].mode
  BY DEF Typed, TypeOK, Jobs
<1>5. PlainCopies(from)' /\ PlainCopies(to)'
  BY <1>1, <1>2 DEF PlainCopies
<1>6. Moves(S, a, from, to)'
  BY <1>1, <1>3, <1>4 DEF Moves, Stored
<1>7. QED
  BY <1>1, <1>4, <1>5, <1>6

\* Everything listed was moved: the rest of the folder goes.
LEMMA FoldDone ==
  ASSUME NEW S, Typed, NEW a \in Admins, NEW from \in Folders, NEW to \in Folders, from # to,
         Moves(S, a, from, to), job[a].todo \cap held[from] = {}, RemoveTree(from), kept' = kept
  PROVE  /\ \A f \in Folders \ {from} : held'[f] = held[f] /\ dir'[f] = dir[f]
         /\ held'[from] = {} /\ dir'[from] = "absent" /\ dir[to] = "folder"
         /\ \A i \in S : Stored(i, to)
BY Shapes DEF Moves, RemoveTree, Stored

\* The folder was renamed, or listed to be moved entry by entry.
LEMMA FoldBegins ==
  ASSUME Typed, NEW a \in Admins, NEW from \in Folders, NEW to \in Folders, from # to,
         NEW folding, NEW done, Fold(a, from, to, folding, done), dir[from] = "folder"
  PROVE  \/ /\ \A f \in Folders \ {from, to} : held'[f] = held[f] /\ dir'[f] = dir[f]
            /\ held'[from] = {} /\ dir'[from] = "absent" /\ dir[to] = "absent"
            /\ held'[to] = held[from] /\ dir'[to] = "folder"
            /\ pc' = [pc EXCEPT ![a] = done] /\ job' = job
         \/ /\ dir' = dir /\ held' = held /\ dir[to] = "folder"
            /\ pc' = [pc EXCEPT ![a] = folding]
            /\ job'[a].from = from /\ job'[a].to = to /\ job'[a].todo = held[from]
            /\ job'[a].kind = job[a].kind /\ job'[a].hdr = job[a].hdr /\ job'[a].mode = job[a].mode
<1>1. CASE dir[to] = "absent" /\ Rename(from, to) /\ Goto(a, done) /\ UNCHANGED job
  BY <1>1, Shapes DEF Rename, Goto
<1>2. CASE /\ dir[to] = "folder"
           /\ job' = [job EXCEPT ![a] = [@ EXCEPT !.from = from, !.to = to, !.todo = held[from]]]
           /\ Goto(a, folding) /\ SameTree
  <2> PICK j : j = [job[a] EXCEPT !.from = from, !.to = to, !.todo = held[from]]
    OBVIOUS
  <2>1. /\ j.from = from /\ j.to = to /\ j.todo = held[from]
        /\ j.kind = job[a].kind /\ j.hdr = job[a].hdr /\ j.mode = job[a].mode
    BY DEF Typed, TypeOK, Jobs
  <2>2. job'[a] = j
    BY <1>2 DEF Typed, TypeOK
  <2>3. QED
    BY <1>2, <2>1, <2>2 DEF SameTree, Goto
<1>3. QED
  BY <1>1, <1>2 DEF Fold

LEMMA ClearFoldKeeps ==
  ASSUME NEW S, NEW L, KeptInv(S, L), NEW a \in Admins,
         FoldNext(a, "clear-fold", "stop") \/ FoldNext(a, "reclear-fold", "restop")
  PROVE  StoreSound(S, L)' /\ Knows(S, L, a)'
<1> USE Shapes DEF KeptInv
<1>1. /\ pc[a] \in {"clear-fold", "reclear-fold"} /\ Going(S, L, a) /\ plan # NoPlan /\ Under(S, L) /\ lock
      /\ plan.kind \in {"set-up", "fresh-start"} /\ Moves(S, a, "items", "plain/items")
      /\ head["header"] # NoHeader \/ head["encryption"] # NoHeader
      /\ plan.kind = job[a].kind /\ job[a].hdr.key = plan.to /\ job[a].mode \in {"run", "finish"}
  BY DEF FoldNext, Knows, Going, Forward, Shutting, Folding, StoreSound, JournalSound, Working
<1>2. /\ UNCHANGED <<lock, plan, recovery, head, kept, used>>
      /\ job[a].from = "items" /\ job[a].to = "plain/items"
  BY <1>1 DEF FoldNext, Quiet, Moves
<1>3. SetUpGoing(S)
  BY <1>1 DEF Under
<1>4. CASE pc' = pc
  <2>1. PICK c \in job[a].todo \cap held["items"] :
             /\ held' = [held EXCEPT !["items"] = @ \ {c},
                  !["plain/items"] = IF \E d \in @ : SameId(c, d) THEN @ ELSE @ \cup {c}]
             /\ job' = [job EXCEPT ![a].todo = @ \ {c}]
             /\ UNCHANGED dir
    BY <1>1, <1>2, <1>4, SMTT(30) DEF FoldNext, Goto, Typed, TypeOK
  <2>2. /\ Moves(S, a, "items", "plain/items")' /\ PlainCopies("items")' /\ PlainCopies("plain/items")'
        /\ \A f \in Folders \ {"items", "plain/items"} : held'[f] = held[f]
        /\ job'[a].kind = job[a].kind /\ job'[a].hdr = job[a].hdr /\ job'[a].mode = job[a].mode
    BY <1>1, <1>2, <2>1, FoldEntry DEF Folders, StoreSound, TreeSound
  <2>3. TreeSound'
    BY <2>1, <2>2 DEF TreeSound, StoreSound, Moves, Folders
  <2>4. SetUpGoing(S)'
    BY <1>2, <1>3, <2>1, <2>2 DEF SetUpGoing, Moves, Stored, Folders, Shut, Opens
  <2>5. Knows(S, L, a)'
    BY <1>1, <1>2, <1>4, <2>1, <2>2 DEF Knows, Ready, Going, Undoing, Folding, Ending,
       Forward, Backward, Shutting, Moving, Reverting, Unstaging
  <2>6. QED
    BY <1>1, <1>2, <2>3, <2>4, <2>5 DEF StoreSound, JournalSound, HeadersMade, Under
<1>5. CASE pc' # pc
  <2>1. /\ job[a].todo \cap held["items"] = {} /\ RemoveTree("items") /\ job' = job
        /\ pc' = [pc EXCEPT ![a] = "stop"] \/ pc' = [pc EXCEPT ![a] = "restop"]
    BY <1>1, <1>2, <1>5 DEF FoldNext, Goto
  <2>2. /\ \A f \in Folders \ {"items"} : held'[f] = held[f] /\ dir'[f] = dir[f]
        /\ held'["items"] = {} /\ dir'["items"] = "absent" /\ dir["plain/items"] = "folder"
        /\ \A i \in S : Stored(i, "plain/items")
    BY <1>1, <1>2, <2>1, FoldDone DEF Folders
  <2>3. TreeSound'
    BY <2>2 DEF TreeSound, StoreSound, Folders, PlainCopies
  <2>4. SetUpGoing(S)'
    BY <1>1, <1>2, <1>3, <2>2 DEF SetUpGoing, Stored, Folders, Shut, Opens, Moves
  <2>5. Knows(S, L, a)'
    BY <1>1, <1>2, <2>1 DEF Knows, Ready, Going, Undoing, Folding, Ending,
       Forward, Backward, Shutting, Moving, Reverting, Unstaging, Typed, TypeOK
  <2>6. QED
    BY <1>1, <1>2, <2>3, <2>4, <2>5 DEF StoreSound, JournalSound, HeadersMade, Under
<1>6. QED
  BY <1>4, <1>5

LEMMA SourceFoldKeeps ==
  ASSUME NEW S, NEW L, KeptInv(S, L), NEW a \in Admins, FoldNext(a, "source-fold", "source-restop")
  PROVE  StoreSound(S, L)' /\ Knows(S, L, a)'
<1> USE Shapes DEF KeptInv
<1>1. /\ pc[a] = "source-fold" /\ Going(S, L, a) /\ plan # NoPlan /\ Under(S, L) /\ lock
      /\ plan.kind = "migrate" /\ Moves(S, a, "items", "source") /\ head["header"] # NoHeader
      /\ plan.kind = job[a].kind /\ job[a].hdr.key = plan.to /\ job[a].mode \in {"run", "finish"}
  BY DEF FoldNext, Knows, Going, Forward, Moving, Folding, StoreSound, JournalSound, Working
<1>2. /\ UNCHANGED <<lock, plan, recovery, head, kept, used>>
      /\ job[a].from = "items" /\ job[a].to = "source"
  BY <1>1 DEF FoldNext, Quiet, Moves
<1>3. MigrateGoing(S, L) /\ MigrateOpen(S, L)
  BY <1>1 DEF Under, MigrateGoing, Committed
<1>4. CASE pc' = pc
  <2>1. PICK c \in job[a].todo \cap held["items"] :
             /\ held' = [held EXCEPT !["items"] = @ \ {c},
                  !["source"] = IF \E d \in @ : SameId(c, d) THEN @ ELSE @ \cup {c}]
             /\ job' = [job EXCEPT ![a].todo = @ \ {c}]
             /\ UNCHANGED dir
    BY <1>1, <1>2, <1>4, SMTT(30) DEF FoldNext, Goto, Typed, TypeOK
  <2>2. /\ Moves(S, a, "items", "source")' /\ PlainCopies("items")' /\ PlainCopies("source")'
        /\ \A f \in Folders \ {"items", "source"} : held'[f] = held[f]
        /\ job'[a].kind = job[a].kind /\ job'[a].hdr = job[a].hdr /\ job'[a].mode = job[a].mode
    <3>1. PlainCopies("items") /\ PlainCopies("source")
      BY <1>3 DEF StoreSound, TreeSound, MigrateOpen
    <3>2. QED
      BY <1>1, <1>2, <2>1, <3>1, FoldEntry DEF Folders
  <2>3. TreeSound'
    BY <2>1, <2>2 DEF TreeSound, StoreSound, Moves, Folders, PlainCopies
  <2>4. MigrateGoing(S, L)'
    BY <1>2, <1>3, <2>1, <2>2 DEF MigrateGoing, MigrateOpen, Moves, Stored, Folders, Opens, SealedCopies
  <2>5. Knows(S, L, a)'
    BY <1>1, <1>2, <1>4, <2>1, <2>2 DEF Knows, Ready, Going, Undoing, Folding, Ending,
       Forward, Backward, Shutting, Moving, Reverting, Unstaging
  <2>6. QED
    BY <1>1, <1>2, <2>3, <2>4, <2>5 DEF StoreSound, JournalSound, HeadersMade, Under
<1>5. CASE pc' # pc
  <2>1. /\ job[a].todo \cap held["items"] = {} /\ RemoveTree("items") /\ job' = job
        /\ pc' = [pc EXCEPT ![a] = "source-restop"]
    BY <1>1, <1>2, <1>5 DEF FoldNext, Goto
  <2>2. /\ \A f \in Folders \ {"items"} : held'[f] = held[f] /\ dir'[f] = dir[f]
        /\ held'["items"] = {} /\ dir'["items"] = "absent" /\ dir["source"] = "folder"
        /\ \A i \in S : Stored(i, "source")
    BY <1>1, <1>2, <2>1, FoldDone DEF Folders
  <2>3. TreeSound'
    BY <2>2 DEF TreeSound, StoreSound, Folders, PlainCopies
  <2>4. MigrateGoing(S, L)'
    BY <1>1, <1>2, <1>3, <2>2 DEF MigrateGoing, MigrateOpen, Stored, Folders, Opens, SealedCopies, PlainCopies
  <2>5. Knows(S, L, a)'
    BY <1>1, <1>2, <2>1, <2>2 DEF Knows, Ready, Going, Undoing, Folding, Ending, Folders,
       Forward, Backward, Shutting, Moving, Reverting, Unstaging, Typed, TypeOK
  <2>6. QED
    BY <1>1, <1>2, <2>3, <2>4, <2>5 DEF StoreSound, JournalSound, HeadersMade, Under
<1>6. QED
  BY <1>4, <1>5

LEMMA UnsourceFoldKeeps ==
  ASSUME NEW S, NEW L, KeptInv(S, L), NEW a \in Admins, FoldNext(a, "unsource-fold", "release")
  PROVE  StoreSound(S, L)' /\ Knows(S, L, a)'
<1> USE Shapes DEF KeptInv
<1>1. /\ pc[a] = "unsource-fold" /\ Undoing(a) /\ plan # NoPlan /\ Under(S, L) /\ lock
      /\ plan.kind = "migrate" /\ Moves(S, a, "source", "items") /\ ~Swapped /\ ~Shut
      /\ held["v2/items"] = {} /\ plan.kind = job[a].kind /\ job[a].mode = "undo"
  BY DEF FoldNext, Knows, Undoing, Backward, Unstaging, Folding, StoreSound, JournalSound, Working
<1>2. /\ UNCHANGED <<lock, plan, recovery, head, kept, used>>
      /\ job[a].from = "source" /\ job[a].to = "items"
  BY <1>1 DEF FoldNext, Quiet, Moves
<1>3. MigrateGoing(S, L) /\ MigrateOpen(S, L)
  BY <1>1 DEF Under, MigrateGoing, Committed, Swapped
<1>4. CASE pc' = pc
  <2>1. PICK c \in job[a].todo \cap held["source"] :
             /\ held' = [held EXCEPT !["source"] = @ \ {c},
                  !["items"] = IF \E d \in @ : SameId(c, d) THEN @ ELSE @ \cup {c}]
             /\ job' = [job EXCEPT ![a].todo = @ \ {c}]
             /\ UNCHANGED dir
    BY <1>1, <1>2, <1>4, SMTT(30) DEF FoldNext, Goto, Typed, TypeOK
  <2>2. /\ Moves(S, a, "source", "items")' /\ PlainCopies("items")' /\ PlainCopies("source")'
        /\ \A f \in Folders \ {"items", "source"} : held'[f] = held[f]
        /\ job'[a].kind = job[a].kind /\ job'[a].hdr = job[a].hdr /\ job'[a].mode = job[a].mode
    BY <1>1, <1>2, <1>3, <2>1, FoldEntry, ZenonT(40) DEF Folders, StoreSound, TreeSound, MigrateOpen
  <2>3. TreeSound'
    BY <2>1, <2>2 DEF TreeSound, StoreSound, Moves, Folders, PlainCopies
  <2>4. MigrateGoing(S, L)'
    BY <1>2, <1>3, <2>1, <2>2 DEF MigrateGoing, MigrateOpen, Moves, Stored, Folders, Opens, SealedCopies
  <2>5. Knows(S, L, a)'
    BY <1>1, <1>2, <1>4, <2>1, <2>2 DEF Knows, Ready, Going, Undoing, Folding, Ending, Swapped, Shut, Folders,
       Forward, Backward, Shutting, Moving, Reverting, Unstaging
  <2>6. QED
    BY <1>1, <1>2, <2>3, <2>4, <2>5 DEF StoreSound, JournalSound, HeadersMade, Under
<1>5. CASE pc' # pc
  <2>1. /\ job[a].todo \cap held["source"] = {} /\ RemoveTree("source") /\ job' = job
        /\ pc' = [pc EXCEPT ![a] = "release"]
    BY <1>1, <1>2, <1>5 DEF FoldNext, Goto
  <2>2. /\ \A f \in Folders \ {"source"} : held'[f] = held[f] /\ dir'[f] = dir[f]
        /\ held'["source"] = {} /\ dir'["source"] = "absent" /\ dir["items"] = "folder"
        /\ \A i \in S : Stored(i, "items")
    BY <1>1, <1>2, <2>1, FoldDone DEF Folders
  <2>3. TreeSound'
    BY <2>2 DEF TreeSound, StoreSound, Folders, PlainCopies
  <2>4. MigrateGoing(S, L)' /\ PlainRest(S)' /\ AtRest(S, L)'
    BY <1>1, <1>2, <1>3, <2>2 DEF MigrateGoing, MigrateOpen, Stored, Folders, Opens, SealedCopies, PlainCopies,
       PlainRest, AtRest, Shut
  <2>5. Knows(S, L, a)'
    BY <1>1, <1>2, <2>1, <2>2, <2>4 DEF Knows, Ready, Going, Undoing, Folding, Ending,
       Forward, Backward, Shutting, Moving, Reverting, Unstaging, Typed, TypeOK
  <2>6. QED
    BY <1>1, <1>2, <2>3, <2>4, <2>5 DEF StoreSound, JournalSound, HeadersMade, Under
<1>6. QED
  BY <1>4, <1>5

LEMMA RevFoldKeeps ==
  ASSUME NEW S, NEW L, KeptInv(S, L), NEW a \in Admins, FoldNext(a, "rev-fold", "release")
  PROVE  StoreSound(S, L)' /\ Knows(S, L, a)'
<1> USE Shapes DEF KeptInv
<1>1. /\ pc[a] = "rev-fold" /\ Undoing(a) /\ plan # NoPlan /\ Under(S, L) /\ lock
      /\ plan.kind \in {"set-up", "fresh-start"} /\ Moves(S, a, "plain/items", "items") /\ ~Shut
      /\ head["encryption"] = NoHeader /\ plan.kind = job[a].kind /\ job[a].mode = "undo"
  BY DEF FoldNext, Knows, Undoing, Backward, Reverting, Folding, StoreSound, JournalSound, Working, HeaderChanges
<1>2. /\ UNCHANGED <<lock, plan, recovery, head, kept, used>>
      /\ job[a].from = "plain/items" /\ job[a].to = "items"
  BY <1>1 DEF FoldNext, Quiet, Moves
<1>3. SetUpGoing(S)
  BY <1>1 DEF Under
<1>4. CASE pc' = pc
  <2>1. PICK c \in job[a].todo \cap held["plain/items"] :
             /\ held' = [held EXCEPT !["plain/items"] = @ \ {c},
                  !["items"] = IF \E d \in @ : SameId(c, d) THEN @ ELSE @ \cup {c}]
             /\ job' = [job EXCEPT ![a].todo = @ \ {c}]
             /\ UNCHANGED dir
    BY <1>1, <1>2, <1>4, SMTT(30) DEF FoldNext, Goto, Typed, TypeOK
  <2>2. /\ Moves(S, a, "plain/items", "items")' /\ PlainCopies("items")' /\ PlainCopies("plain/items")'
        /\ \A f \in Folders \ {"items", "plain/items"} : held'[f] = held[f]
        /\ job'[a].kind = job[a].kind /\ job'[a].hdr = job[a].hdr /\ job'[a].mode = job[a].mode
    BY <1>1, <1>2, <2>1, FoldEntry, ZenonT(40) DEF Folders, StoreSound, TreeSound
  <2>3. TreeSound'
    BY <2>1, <2>2 DEF TreeSound, StoreSound, Moves, Folders, PlainCopies
  <2>4. SetUpGoing(S)'
    BY <1>1, <1>2, <1>3, <2>1, <2>2 DEF SetUpGoing, Moves, Stored, Folders, Opens
  <2>5. Knows(S, L, a)'
    BY <1>1, <1>2, <1>4, <2>1, <2>2 DEF Knows, Ready, Going, Undoing, Folding, Ending, Shut,
       Forward, Backward, Shutting, Moving, Reverting, Unstaging
  <2>6. QED
    BY <1>1, <1>2, <2>3, <2>4, <2>5 DEF StoreSound, JournalSound, HeadersMade, Under
<1>5. CASE pc' # pc
  <2>1. /\ job[a].todo \cap held["plain/items"] = {} /\ RemoveTree("plain/items") /\ job' = job
        /\ pc' = [pc EXCEPT ![a] = "release"]
    BY <1>1, <1>2, <1>5 DEF FoldNext, Goto
  <2>2. /\ \A f \in Folders \ {"plain/items"} : held'[f] = held[f] /\ dir'[f] = dir[f]
        /\ held'["plain/items"] = {} /\ dir'["plain/items"] = "absent" /\ dir["items"] = "folder"
        /\ \A i \in S : Stored(i, "items")
    BY <1>1, <1>2, <2>1, FoldDone DEF Folders
  <2>3. TreeSound'
    BY <2>2 DEF TreeSound, StoreSound, Folders, PlainCopies
  <2>4. SetUpGoing(S)' /\ PlainRest(S)' /\ AtRest(S, L)'
    BY <1>1, <1>2, <1>3, <2>2 DEF SetUpGoing, Stored, Folders, Opens, PlainRest, AtRest, Shut
  <2>5. Knows(S, L, a)'
    BY <1>1, <1>2, <2>1, <2>2, <2>4 DEF Knows, Ready, Going, Undoing, Folding, Ending,
       Forward, Backward, Shutting, Moving, Reverting, Unstaging, Typed, TypeOK
  <2>6. QED
    BY <1>1, <1>2, <2>3, <2>4, <2>5 DEF StoreSound, JournalSound, HeadersMade, Under
<1>6. QED
  BY <1>4, <1>5

--------------------------------------------------------------------------------
(***************************************************************************)
(* The steps of a change.                                                  *)
(***************************************************************************)
LEMMA ClearItemsKeeps ==
  ASSUME NEW S, NEW L, KeptInv(S, L), NEW a \in Admins, ClearItems(a)
  PROVE  StoreSound(S, L)' /\ Knows(S, L, a)'
<1> USE Shapes DEF KeptInv
<1>1. /\ pc[a] \in {"clear", "reclear"} /\ plan # NoPlan /\ Under(S, L) /\ lock
      /\ plan.kind \in {"set-up", "fresh-start"} /\ SetUpGoing(S)
      /\ head["header"] # NoHeader \/ head["encryption"] # NoHeader
      /\ plan.kind = job[a].kind /\ job[a].hdr.key = plan.to /\ job[a].mode \in {"run", "finish"}
  BY DEF ClearItems, Knows, Going, Forward, Shutting, StoreSound, JournalSound, Working, Under
<1>2. UNCHANGED <<lock, plan, recovery, head, kept, used>>
  BY DEF ClearItems, Quiet
<1>3. PICK done \in {"stop", "restop"}, folding \in {"clear-fold", "reclear-fold"} :
        \/ /\ dir["items"] # "folder"
           /\ Goto(a, done) /\ SameTree /\ UNCHANGED job
        \/ /\ dir["items"] = "folder" /\ held["items"] = {}
           /\ RemoveTree("items") /\ Goto(a, done) /\ UNCHANGED job
        \/ /\ dir["items"] = "folder" /\ held["items"] # {}
           /\ Fold(a, "items", "plain/items", folding, done)
  BY DEF ClearItems
<1>4. CASE dir["items"] # "folder"
  <2>1. UNCHANGED <<dir, held, job>> /\ pc' = [pc EXCEPT ![a] = done]
    BY <1>3, <1>4 DEF Goto, SameTree
  <2>2. Knows(S, L, a)'
    BY <1>1, <1>2, <2>1 DEF Knows, Ready, Going, Undoing, Folding, Ending,
       Forward, Backward, Shutting, Moving, Reverting, Unstaging, Typed, TypeOK
  <2>3. QED
    BY <1>1, <1>2, <2>1, <2>2, TreeStays DEF StoreSound, JournalSound, HeadersMade
<1>5. CASE dir["items"] = "folder" /\ held["items"] = {}
  <2>1. /\ dir' = [dir EXCEPT !["items"] = "absent"] /\ held' = [held EXCEPT !["items"] = {}]
        /\ job' = job /\ pc' = [pc EXCEPT ![a] = done]
    BY <1>3, <1>5 DEF Goto, RemoveTree
  <2>2. TreeSound'
    BY <2>1 DEF TreeSound, StoreSound, Folders, PlainCopies
  <2>3. SetUpGoing(S)'
    BY <1>1, <1>2, <1>5, <2>1 DEF SetUpGoing, Stored, Folders, Shut, Opens
  <2>4. Knows(S, L, a)'
    BY <1>1, <1>2, <2>1 DEF Knows, Ready, Going, Undoing, Folding, Ending,
       Forward, Backward, Shutting, Moving, Reverting, Unstaging, Typed, TypeOK
  <2>5. QED
    BY <1>1, <1>2, <2>2, <2>3, <2>4 DEF StoreSound, JournalSound, HeadersMade, Under
<1>6. CASE dir["items"] = "folder" /\ held["items"] # {}
  <2>1. Fold(a, "items", "plain/items", folding, done)
    BY <1>3, <1>6
  <2>2. CASE /\ \A f \in Folders \ {"items", "plain/items"} : held'[f] = held[f] /\ dir'[f] = dir[f]
             /\ held'["items"] = {} /\ dir'["items"] = "absent" /\ dir["plain/items"] = "absent"
             /\ held'["plain/items"] = held["items"] /\ dir'["plain/items"] = "folder"
             /\ pc' = [pc EXCEPT ![a] = done] /\ job' = job
    <3>1. held["plain/items"] = {}
      BY <2>2 DEF StoreSound, TreeSound, Folders
    <3>2. TreeSound'
      BY <2>2 DEF TreeSound, StoreSound, Folders, PlainCopies
    <3>3. SetUpGoing(S)'
      BY <1>1, <1>2, <1>6, <2>2, <3>1 DEF SetUpGoing, Stored, Folders, Shut, Opens
    <3>4. Knows(S, L, a)'
      BY <1>1, <1>2, <2>2 DEF Knows, Ready, Going, Undoing, Folding, Ending,
         Forward, Backward, Shutting, Moving, Reverting, Unstaging, Typed, TypeOK
    <3>5. QED
      BY <1>1, <1>2, <3>2, <3>3, <3>4 DEF StoreSound, JournalSound, HeadersMade, Under
  <2>3. CASE /\ dir' = dir /\ held' = held /\ dir["plain/items"] = "folder"
             /\ pc' = [pc EXCEPT ![a] = folding]
             /\ job'[a].from = "items" /\ job'[a].to = "plain/items" /\ job'[a].todo = held["items"]
             /\ job'[a].kind = job[a].kind /\ job'[a].hdr = job[a].hdr /\ job'[a].mode = job[a].mode
    <3>1. Moves(S, a, "items", "plain/items")'
      BY <1>1, <1>2, <1>6, <2>3 DEF Moves, SetUpGoing, Stored
    <3>2. Knows(S, L, a)'
      BY <1>1, <1>2, <2>3, <3>1 DEF Knows, Ready, Going, Undoing, Folding, Ending,
         Forward, Backward, Shutting, Moving, Reverting, Unstaging, Typed, TypeOK
    <3>3. UNCHANGED <<plan, head, dir, held, kept>>
      BY <1>2, <2>3
    <3>4. TreeSound' = TreeSound /\ Under(S, L)' = Under(S, L)
      BY <3>3, TreeStays, Zenon
    <3>5. QED
      BY <1>1, <1>2, <3>2, <3>4 DEF StoreSound, JournalSound, HeadersMade
  <2>4. QED
    BY <1>6, <2>1, <2>2, <2>3, FoldBegins DEF Folders
<1>7. QED
  BY <1>4, <1>5, <1>6

LEMMA WriteStopKeeps ==
  ASSUME NEW S, NEW L, KeptInv(S, L), NEW a \in Admins, WriteStopFile(a)
  PROVE  StoreSound(S, L)' /\ Knows(S, L, a)'
<1> USE Shapes DEF KeptInv
<1>1. /\ pc[a] \in {"stop", "source-stop", "restop", "source-restop"} /\ plan # NoPlan /\ Under(S, L) /\ lock
      /\ UNCHANGED <<lock, plan, recovery, head, held, kept, used, job>>
  BY DEF WriteStopFile, StopStep, RestopStep, Quiet, Knows, Going, Forward, Shutting, Moving, StoreSound,
     JournalSound, Working
<1>2. Going(S, L, a) /\ plan.kind = job[a].kind /\ job[a].hdr.key = plan.to /\ job[a].mode \in {"run", "finish"}
  BY <1>1 DEF Knows, Going, Forward, Shutting, Moving
<1>3. CASE dir["items"] = "folder"
  <2>1. /\ UNCHANGED dir
        /\ \/ pc[a] = "stop" /\ pc' = [pc EXCEPT ![a] = "reclear"]
           \/ pc[a] = "source-stop" /\ pc' = [pc EXCEPT ![a] = "resource"]
    BY <1>3 DEF WriteStopFile, StopStep, RestopStep, Goto
  <2>2. Knows(S, L, a)'
    BY <1>1, <1>2, <1>3, <2>1 DEF Knows, Ready, Going, Undoing, Folding, Ending,
       Forward, Backward, Shutting, Moving, Reverting, Unstaging, Typed, TypeOK
  <2>3. QED
    BY <1>1, <1>2, <2>1, <2>2, TreeStays DEF StoreSound, JournalSound, HeadersMade
<1>4. CASE dir["items"] # "folder"
  <2>1. /\ dir' = [dir EXCEPT !["items"] = "file"]
        /\ \/ pc[a] \in {"stop", "restop"} /\ pc' = [pc EXCEPT ![a] = "install"]
           \/ pc[a] \in {"source-stop", "source-restop"} /\ pc' = [pc EXCEPT ![a] = "copy"]
    BY <1>4 DEF WriteStopFile, StopStep, RestopStep, Goto
  <2>2. held["items"] = {} /\ Shut'
    BY <1>4, <2>1 DEF StoreSound, TreeSound, Folders, Shut
  <2>3. TreeSound'
    BY <1>1, <2>1, <2>2 DEF TreeSound, StoreSound, Folders, PlainCopies
  <2>4. Committed(S, L) => Committed(S, L)'
    BY <1>1, <2>2 DEF Committed, Keeps, Stored, SealedCopies
  <2>5. Under(S, L)'
    <3>1. CASE pc[a] \in {"stop", "restop"}
      <4>1. SetUpGoing(S) /\ plan.kind \in {"set-up", "fresh-start"}
        BY <1>1, <1>2, <3>1 DEF Under, Going, Forward, Shutting
      <4>2. SetUpGoing(S)'
        BY <1>1, <2>1, <2>2, <4>1 DEF SetUpGoing, Stored, Folders, Opens
      <4>3. QED
        BY <1>1, <4>1, <4>2 DEF Under
    <3>2. CASE pc[a] \in {"source-stop", "source-restop"}
      <4>1. MigrateGoing(S, L) /\ plan.kind = "migrate"
        BY <1>1, <1>2, <3>2 DEF Under, Going, Forward, Moving
      <4>2. MigrateOpen(S, L) => MigrateOpen(S, L)'
        BY <1>1, <2>1 DEF MigrateOpen, Stored, Opens, SealedCopies, PlainCopies
      <4>3. QED
        BY <1>1, <2>4, <4>1, <4>2, <3>2 DEF Under, MigrateGoing
    <3>3. QED
      BY <1>1, <3>1, <3>2
  <2>6. Knows(S, L, a)'
    BY <1>1, <1>2, <2>1, <2>2 DEF Knows, Ready, Going, Undoing, Folding, Ending, Folders, Rewrites,
       Forward, Backward, Shutting, Moving, Reverting, Unstaging, Typed, TypeOK
  <2>7. QED
    BY <1>1, <1>2, <2>3, <2>5, <2>6 DEF StoreSound, JournalSound, HeadersMade
<1>5. QED
  BY <1>3, <1>4

LEMMA MoveSourceKeeps ==
  ASSUME NEW S, NEW L, KeptInv(S, L), NEW a \in Admins, MoveSource(a)
  PROVE  StoreSound(S, L)' /\ Knows(S, L, a)'
<1> USE Shapes DEF KeptInv
<1>1. /\ pc[a] = "source" /\ plan # NoPlan /\ Under(S, L) /\ lock /\ plan.kind \in Rewrites
      /\ head["header"] # NoHeader
      /\ plan.kind = job[a].kind /\ job[a].hdr.key = plan.to /\ job[a].mode \in {"run", "finish"}
  BY DEF MoveSource, Knows, Going, Forward, Moving, StoreSound, JournalSound, Working
<1>2. /\ UNCHANGED <<lock, plan, recovery, head, kept, used, job>>
      /\ pc' = [pc EXCEPT ![a] = IF plan.kind = "migrate" THEN "source-stop" ELSE "copy"]
  BY <1>1 DEF MoveSource, Quiet, Goto
<1>3. PICK original \in {"items", "v2/items"} : original = SourceItems(plan.kind)
  BY DEF SourceItems
<1>4. dir["source"] # "file" /\ dir["v2/items"] # "file" /\ (dir["source"] = "absent" => held["source"] = {})
  BY DEF StoreSound, TreeSound, Folders
\* The tree, when the source is not there yet.
<1>5. /\ dir["source"] # "absent" => UNCHANGED <<dir, held>>
      /\ dir["source"] = "absent" /\ dir[original] = "folder" =>
           /\ dir' = [dir EXCEPT !["source"] = "folder", ![original] = "absent"]
           /\ held' = [held EXCEPT !["source"] = held[original], ![original] = {}]
      /\ dir["source"] = "absent" /\ dir[original] # "folder" =>
           dir' = [dir EXCEPT !["source"] = "folder"] /\ held' = held
  BY <1>1, <1>3 DEF MoveSource, SameTree, Rename, MakeFolder
<1>6. dir'["source"] = "folder"
  BY <1>4, <1>5 DEF Folders
<1>7. TreeSound'
  BY <1>3, <1>4, <1>5 DEF TreeSound, StoreSound, Folders, PlainCopies
<1>8. CASE plan.kind = "migrate"
  <2>1. MigrateGoing(S, L) /\ MigrateOpen(S, L) /\ original = "items"
    BY <1>1, <1>3, <1>8 DEF Under, MigrateGoing, Committed, SourceItems
  <2>2. dir["items"] # "folder" => held["items"] = {}
    BY DEF StoreSound, TreeSound, Folders
  <2>3. PlainCopies("items")
    BY DEF StoreSound, TreeSound
  <2>4. MigrateGoing(S, L)'
    BY <1>2, <1>4, <1>5, <2>1, <2>2, <2>3 DEF MigrateGoing, MigrateOpen, Stored, Opens, SealedCopies, PlainCopies, Folders
  <2>5. Knows(S, L, a)'
    BY <1>1, <1>2, <1>6, <1>8 DEF Knows, Ready, Going, Undoing, Folding, Ending, Rewrites,
       Forward, Backward, Shutting, Moving, Reverting, Unstaging, Typed, TypeOK
  <2>6. QED
    BY <1>1, <1>2, <1>7, <1>8, <2>4, <2>5 DEF StoreSound, JournalSound, HeadersMade, Under
<1>9. CASE plan.kind = "rotate"
  <2>1. RotateOpen(S, L) /\ original = "v2/items"
    BY <1>1, <1>3, <1>9 DEF Under, RotateGoing, Committed, SourceItems
  <2>2. dir["v2/items"] # "folder" => held["v2/items"] = {}
    BY DEF StoreSound, TreeSound, Folders
  <2>3. CASE dir["source"] # "absent"
    <3>1. TreeSound' /\ Under(S, L)' /\ dir' = dir
      BY <1>1, <1>2, <1>5, <2>3, TreeStays DEF StoreSound
    <3>2. StoreSound(S, L)'
      BY <1>1, <1>2, <3>1 DEF StoreSound, JournalSound, HeadersMade
    <3>3. QED
      BY <1>1, <1>2, <1>6, <1>9, <2>1, <3>1, <3>2 DEF Shut, RotateOpen, Knows, Ready, Going, Undoing, Folding, Ending,
       Forward, Backward, Shutting, Moving, Reverting, Unstaging, Typed, TypeOK
  <2>4. CASE dir["source"] = "absent"
    <3>1. /\ held'["source"] = held["v2/items"] /\ held'["v2/items"] = {}
          /\ held'["plain/items"] = held["plain/items"] /\ dir'["items"] = dir["items"]
      BY <1>4, <1>5, <2>1, <2>2, <2>4 DEF Folders
    <3>2. RotateOpen(S, L)'
      BY <1>2, <1>6, <2>1, <2>4, <3>1 DEF RotateOpen, OldHeader, Opens, Shut, SealedCopies, Keeps, Stored
    <3>3. Knows(S, L, a)'
      BY <1>1, <1>2, <1>6, <1>9, <3>2 DEF RotateOpen, Knows, Ready, Going, Undoing, Folding, Ending,
         Forward, Backward, Shutting, Moving, Reverting, Unstaging, Typed, TypeOK
    <3>4. QED
      BY <1>1, <1>2, <1>7, <1>9, <3>2, <3>3 DEF StoreSound, JournalSound, HeadersMade, Under, RotateGoing
  <2>5. QED
    BY <2>3, <2>4
<1>10. QED
  BY <1>1, <1>8, <1>9 DEF Rewrites

LEMMA FoldIntoSourceKeeps ==
  ASSUME NEW S, NEW L, KeptInv(S, L), NEW a \in Admins, FoldIntoSource(a)
  PROVE  StoreSound(S, L)' /\ Knows(S, L, a)'
<1> USE Shapes DEF KeptInv
<1>1. /\ pc[a] = "resource" /\ plan # NoPlan /\ Under(S, L) /\ lock /\ plan.kind = "migrate"
      /\ head["header"] # NoHeader /\ dir["source"] = "folder" /\ dir["items"] = "folder"
      /\ plan.kind = job[a].kind /\ job[a].hdr.key = plan.to /\ job[a].mode \in {"run", "finish"}
  BY DEF FoldIntoSource, Knows, Going, Forward, Moving, StoreSound, JournalSound, Working
<1>2. UNCHANGED <<lock, plan, recovery, head, kept, used>>
  BY DEF FoldIntoSource, Quiet
<1>3. MigrateGoing(S, L) /\ MigrateOpen(S, L)
  BY <1>1 DEF Under, MigrateGoing, Committed
<1>4. /\ dir' = dir /\ held' = held
      /\ pc' = [pc EXCEPT ![a] = "source-fold"]
      /\ job'[a].from = "items" /\ job'[a].to = "source" /\ job'[a].todo = held["items"]
      /\ job'[a].kind = job[a].kind /\ job'[a].hdr = job[a].hdr /\ job'[a].mode = job[a].mode
  BY <1>1, FoldBegins DEF FoldIntoSource, Folders
<1>5. Moves(S, a, "items", "source")'
  BY <1>1, <1>2, <1>3, <1>4 DEF Moves, MigrateOpen, Stored
<1>6. Knows(S, L, a)'
  BY <1>1, <1>2, <1>4, <1>5 DEF Knows, Ready, Going, Undoing, Folding, Ending, Rewrites,
     Forward, Backward, Shutting, Moving, Reverting, Unstaging, Typed, TypeOK
<1>7. QED
  BY <1>1, <1>2, <1>4, <1>6, TreeStays DEF StoreSound, JournalSound, HeadersMade

LEMMA CopyKeeps ==
  ASSUME NEW S, NEW L, KeptInv(S, L), NEW a \in Admins, Copy(a)
  PROVE  StoreSound(S, L)' /\ Knows(S, L, a)'
<1> USE Shapes DEF KeptInv
<1>1. /\ pc[a] = "copy" /\ plan # NoPlan /\ Under(S, L) /\ lock /\ plan.kind \in Rewrites
      /\ head["header"] # NoHeader /\ dir["source"] = "folder" /\ Shut
      /\ plan.kind = job[a].kind /\ job[a].hdr.key = plan.to /\ job[a].mode \in {"run", "finish"}
  BY DEF Copy, Knows, Going, Forward, StoreSound, JournalSound, Working
<1>2. UNCHANGED <<lock, plan, recovery, head, kept, used, job>>
  BY DEF Copy, Quiet
<1>3. CASE pc' = pc
  <2>1. PICK c \in held["source"] :
          /\ held' = [held EXCEPT !["v2/items"] = @ \cup {Whole(c.item, plan.to)}]
          /\ dir' = [dir EXCEPT !["v2/items"] = "folder"]
    BY <1>1, <1>3 DEF Copy, Goto, Typed, TypeOK
  <2>2. /\ \A f \in Folders \ {"v2/items"} : held'[f] = held[f] /\ dir'[f] = dir[f]
        /\ dir'["v2/items"] = "folder" /\ held["v2/items"] \subseteq held'["v2/items"]
        /\ SealedCopies(L, "v2/items", plan.to) => SealedCopies(L, "v2/items", plan.to)'
    BY <1>2, <2>1 DEF Folders, SealedCopies, Whole
  <2>3. TreeSound'
    BY <2>2 DEF TreeSound, StoreSound, Folders, PlainCopies
  <2>4. Under(S, L)'
    <3>1. CASE plan.kind = "migrate"
      <4>1. MigrateGoing(S, L) /\ MigrateOpen(S, L)
        BY <1>1, <3>1 DEF Under, MigrateGoing, Committed
      <4>2. MigrateGoing(S, L)'
        BY <1>2, <2>2, <4>1 DEF MigrateGoing, MigrateOpen, Stored, Opens, PlainCopies, Folders
      <4>3. QED
        BY <1>2, <3>1, <4>2 DEF Under
    <3>2. CASE plan.kind = "rotate"
      <4>1. RotateOpen(S, L)
        BY <1>1, <3>2 DEF Under, RotateGoing, Committed
      <4>2. OldHeader' = OldHeader
        BY <1>2 DEF OldHeader
      <4>3. SealedCopies(L, "source", OldHeader.key)' /\ Keeps(S, "source", OldHeader.key)'
        BY <1>1, <1>2, <2>2, <4>1, <4>2 DEF RotateOpen, SealedCopies, Keeps, Stored, Folders
      <4>4. RotateOpen(S, L)'
        BY <1>1, <1>2, <2>2, <4>1, <4>2, <4>3 DEF RotateOpen, Opens, Shut, Folders
      <4>5. QED
        BY <1>2, <3>2, <4>4 DEF Under, RotateGoing
    <3>3. QED
      BY <1>1, <3>1, <3>2 DEF Rewrites
  <2>5. Knows(S, L, a)'
    BY <1>1, <1>2, <1>3, <2>2 DEF Knows, Ready, Going, Undoing, Folding, Ending, Shut, Folders,
       Forward, Backward, Shutting, Moving, Reverting, Unstaging, Typed, TypeOK
  <2>6. QED
    BY <1>1, <1>2, <2>3, <2>4, <2>5 DEF StoreSound, JournalSound, HeadersMade
<1>4. CASE pc' # pc
  <2>1. UNCHANGED <<dir, held>> /\ pc' = [pc EXCEPT ![a] = "verify"]
    BY <1>4 DEF Copy, Goto, SameTree
  <2>2. Knows(S, L, a)'
    BY <1>1, <1>2, <2>1 DEF Knows, Ready, Going, Undoing, Folding, Ending, Shut,
       Forward, Backward, Shutting, Moving, Reverting, Unstaging, Typed, TypeOK
  <2>3. QED
    BY <1>1, <1>2, <2>1, <2>2, TreeStays DEF StoreSound, JournalSound, HeadersMade
<1>5. QED
  BY <1>3, <1>4

--------------------------------------------------------------------------------
(***************************************************************************)
(* The steps of an undo.                                                   *)
(***************************************************************************)
LEMMA UnstageKeeps ==
  ASSUME NEW S, NEW L, KeptInv(S, L), NEW a \in Admins, Unstage(a)
  PROVE  StoreSound(S, L)' /\ Knows(S, L, a)'
<1> USE Shapes DEF KeptInv
<1>1. /\ pc[a] = "unstage" /\ plan # NoPlan /\ Under(S, L) /\ lock /\ plan.kind \in Rewrites
      /\ ~Swapped /\ plan.kind = job[a].kind /\ job[a].mode = "undo"
  BY DEF Unstage, Knows, Undoing, Backward, Unstaging, StoreSound, JournalSound, Working
<1>2. UNCHANGED <<lock, plan, recovery, head, kept, used, job>> /\ Swapped' = Swapped
  BY DEF Unstage, Quiet, Swapped
<1>3. ~Committed(S, L)
  BY <1>1 DEF Committed, Swapped
<1>4. ASSUME RemoveTree("v2/items"), plan.kind = "migrate" \/ dir["source"] # "absent"
      PROVE  /\ TreeSound' /\ Under(S, L)' /\ held'["v2/items"] = {}
             /\ \A f \in Folders \ {"v2/items"} : dir'[f] = dir[f] /\ held'[f] = held[f]
  <2>1. /\ dir'["v2/items"] = "absent" /\ held'["v2/items"] = {}
        /\ \A f \in Folders \ {"v2/items"} : dir'[f] = dir[f] /\ held'[f] = held[f]
    BY <1>4 DEF RemoveTree, Folders
  <2>2. TreeSound'
    BY <2>1 DEF StoreSound, TreeSound, Folders, PlainCopies
  <2>3. CASE plan.kind = "migrate"
    <3>1. MigrateGoing(S, L) /\ MigrateOpen(S, L)
      BY <1>1, <1>3, <2>3 DEF Under, MigrateGoing
    <3>2. MigrateGoing(S, L)'
      BY <1>2, <2>1, <3>1 DEF MigrateGoing, MigrateOpen, Opens, SealedCopies, PlainCopies, Stored, Folders
    <3>3. QED
      BY <1>2, <2>1, <2>2, <2>3, <3>2 DEF Under
  <2>4. CASE plan.kind = "rotate"
    <3>1. RotateOpen(S, L) /\ dir["source"] # "absent"
      BY <1>1, <1>3, <1>4, <2>4 DEF Under, RotateGoing
    <3>2. RotateOpen(S, L)'
      BY <1>2, <2>1, <3>1 DEF RotateOpen, OldHeader, Opens, SealedCopies, Keeps, Stored, Shut, Folders
    <3>3. QED
      BY <1>2, <2>1, <2>2, <2>4, <3>2 DEF Under, RotateGoing
  <2>5. QED
    BY <1>1, <2>3, <2>4 DEF Rewrites
<1>5. CASE plan.kind = "migrate"
  <2>1. RemoveTree("v2/items") /\ pc' = [pc EXCEPT ![a] = "unstop"]
    BY <1>1, <1>5 DEF Unstage, Goto
  <2>2. Knows(S, L, a)'
    BY <1>1, <1>2, <1>4, <1>5, <2>1 DEF Knows, Ready, Going, Undoing, Folding, Ending,
       Forward, Backward, Shutting, Moving, Reverting, Unstaging, Typed, TypeOK
  <2>3. QED
    BY <1>1, <1>2, <1>4, <1>5, <2>1, <2>2 DEF StoreSound, JournalSound, HeadersMade
<1>6. CASE plan.kind = "rotate" /\ dir["source"] # "absent"
  <2>1. RemoveTree("v2/items") /\ pc' = [pc EXCEPT ![a] = "unsource"]
    BY <1>1, <1>6 DEF Unstage, Goto
  <2>2. dir'["source"] # "absent"
    BY <1>4, <1>6, <2>1 DEF Folders
  <2>3. Knows(S, L, a)'
    BY <1>1, <1>2, <1>6, <2>1, <2>2 DEF Knows, Ready, Going, Undoing, Folding, Ending,
       Forward, Backward, Shutting, Moving, Reverting, Unstaging, Typed, TypeOK
  <2>4. QED
    BY <1>1, <1>2, <1>4, <1>6, <2>1, <2>3 DEF StoreSound, JournalSound, HeadersMade
<1>7. CASE plan.kind = "rotate" /\ dir["source"] = "absent"
  <2>1. UNCHANGED <<dir, held>> /\ pc' = [pc EXCEPT ![a] = "unhead"]
    BY <1>1, <1>7 DEF Unstage, Goto, SameTree
  <2>2. Knows(S, L, a)'
    BY <1>1, <1>2, <1>7, <2>1 DEF Knows, Ready, Going, Undoing, Folding, Ending,
       Forward, Backward, Shutting, Moving, Reverting, Unstaging, Typed, TypeOK
  <2>3. QED
    BY <1>1, <1>2, <2>1, <2>2, TreeStays DEF StoreSound, JournalSound, HeadersMade
<1>8. QED
  BY <1>1, <1>5, <1>6, <1>7 DEF Rewrites

LEMMA RemoveStopKeeps ==
  ASSUME NEW S, NEW L, KeptInv(S, L), NEW a \in Admins, RemoveStopFile(a)
  PROVE  StoreSound(S, L)' /\ Knows(S, L, a)'
<1> USE Shapes DEF KeptInv
<1>1. /\ pc[a] \in {"unstop", "rev-stop"} /\ plan # NoPlan /\ Under(S, L) /\ lock /\ Undoing(a)
      /\ plan.kind = job[a].kind /\ job[a].mode = "undo"
  BY DEF RemoveStopFile, Knows, Undoing, Backward, Unstaging, Reverting, StoreSound, JournalSound, Working
<1>2. /\ UNCHANGED <<lock, plan, recovery, head, held, kept, used, job>> /\ Swapped' = Swapped
      /\ pc' = [pc EXCEPT ![a] = IF pc[a] = "unstop" THEN "unsource" ELSE "rev-plain"]
  BY DEF RemoveStopFile, Quiet, Swapped, Goto
<1>3. /\ \A f \in Folders \ {"items"} : dir'[f] = dir[f]
      /\ dir'["items"] # "file" /\ (dir["items"] # "file" => dir'["items"] = dir["items"])
      /\ dir'["items"] \in {"absent", dir["items"]} /\ ~Shut'
  BY DEF RemoveStopFile, Folders, Shut
<1>4. dir["items"] = "file" => held["items"] = {}
  BY DEF StoreSound, TreeSound, Folders
<1>5. TreeSound'
  BY <1>2, <1>3, <1>4 DEF StoreSound, TreeSound, Folders, PlainCopies
<1>6. CASE pc[a] = "unstop"
  <2>1. plan.kind = "migrate" /\ ~Swapped /\ held["v2/items"] = {}
    BY <1>1, <1>6 DEF Undoing, Backward, Unstaging
  <2>2. MigrateGoing(S, L) /\ MigrateOpen(S, L)
    BY <1>1, <2>1 DEF Under, MigrateGoing, Committed, Swapped
  <2>3. MigrateGoing(S, L)'
    BY <1>2, <2>2 DEF MigrateGoing, MigrateOpen, Opens, SealedCopies, PlainCopies, Stored
  <2>4. Knows(S, L, a)'
    BY <1>1, <1>2, <1>3, <1>6, <2>1 DEF Knows, Ready, Going, Undoing, Folding, Ending, Rewrites,
       Forward, Backward, Shutting, Moving, Reverting, Unstaging, Typed, TypeOK
  <2>5. QED
    BY <1>1, <1>2, <1>5, <2>1, <2>3, <2>4 DEF StoreSound, JournalSound, HeadersMade, Under
<1>7. CASE pc[a] = "rev-stop"
  <2>1. plan.kind \in {"set-up", "fresh-start"} /\ head["encryption"] = NoHeader
    BY <1>1, <1>7 DEF Undoing, Backward, Reverting, HeaderChanges
  <2>2. SetUpGoing(S)
    BY <1>1, <2>1 DEF Under
  <2>3. SetUpGoing(S)'
    BY <1>2, <1>3, <2>1, <2>2 DEF SetUpGoing, Opens, Stored, Folders
  <2>4. Knows(S, L, a)'
    BY <1>1, <1>2, <1>3, <1>7, <2>1 DEF Knows, Ready, Going, Undoing, Folding, Ending, HeaderChanges,
       Forward, Backward, Shutting, Moving, Reverting, Unstaging, Typed, TypeOK
  <2>5. QED
    BY <1>1, <1>2, <1>5, <2>1, <2>3, <2>4 DEF StoreSound, JournalSound, HeadersMade, Under
<1>8. QED
  BY <1>1, <1>6, <1>7

LEMMA RestoreSourceKeeps ==
  ASSUME NEW S, NEW L, KeptInv(S, L), NEW a \in Admins, RestoreSource(a)
  PROVE  StoreSound(S, L)' /\ Knows(S, L, a)'
<1> USE Shapes DEF KeptInv
<1>1. /\ pc[a] = "unsource" /\ plan # NoPlan /\ Under(S, L) /\ lock /\ plan.kind \in Rewrites /\ Undoing(a)
      /\ ~Swapped /\ plan.kind = job[a].kind /\ job[a].mode = "undo"
  BY DEF RestoreSource, Knows, Undoing, Backward, Unstaging, StoreSound, JournalSound, Working
<1>2. UNCHANGED <<lock, plan, recovery, head, kept, used>> /\ Swapped' = Swapped
  BY DEF RestoreSource, Quiet, Swapped
<1>3. ~Committed(S, L)
  BY <1>1 DEF Committed, Swapped
<1>4. CASE plan.kind = "rotate"
  <2>1. Rename("source", "v2/items") /\ pc' = [pc EXCEPT ![a] = "unhead"] /\ UNCHANGED job
    BY <1>1, <1>4 DEF RestoreSource, Goto
  <2>2. /\ \A f \in Folders \ {"source", "v2/items"} : dir'[f] = dir[f] /\ held'[f] = held[f]
        /\ dir'["source"] = "absent" /\ held'["source"] = {}
        /\ dir'["v2/items"] = dir["source"] /\ held'["v2/items"] = held["source"]
    BY <2>1 DEF Rename, Folders
  <2>3. TreeSound'
    BY <2>2 DEF StoreSound, TreeSound, Folders, PlainCopies
  <2>4. RotateOpen(S, L) /\ dir["source"] # "absent"
    BY <1>1, <1>3, <1>4 DEF Under, RotateGoing, Undoing, Backward, Unstaging
  <2>5. RotateOpen(S, L)'
    BY <1>2, <2>2, <2>4 DEF RotateOpen, OldHeader, Opens, SealedCopies, Keeps, Stored, Shut, Folders
  <2>6. Knows(S, L, a)'
    BY <1>1, <1>2, <1>4, <2>1, <2>2 DEF Knows, Ready, Going, Undoing, Folding, Ending,
       Forward, Backward, Shutting, Moving, Reverting, Unstaging, Typed, TypeOK
  <2>7. QED
    BY <1>1, <1>2, <1>4, <2>3, <2>5, <2>6 DEF StoreSound, JournalSound, HeadersMade, Under, RotateGoing
<1>5. CASE plan.kind = "migrate"
  <2>1. MigrateGoing(S, L) /\ MigrateOpen(S, L) /\ held["v2/items"] = {} /\ ~Shut
    BY <1>1, <1>3, <1>5 DEF Under, MigrateGoing, Undoing, Backward, Unstaging
  <2>2. CASE dir["source"] = "absent"
    <3>1. UNCHANGED <<dir, held, job>> /\ pc' = [pc EXCEPT ![a] = "release"]
      BY <1>1, <1>5, <2>2 DEF RestoreSource, Goto, SameTree
    <3>2. held["source"] = {}
      BY <2>2 DEF StoreSound, TreeSound, Folders
    <3>3. AtRest(S, L)
      BY <2>1, <2>2, <3>2 DEF AtRest, PlainRest, MigrateOpen, Stored
    <3>4. Knows(S, L, a)'
      BY <1>1, <1>2, <3>1, <3>3, TreeStays DEF Knows, Ready, Going, Undoing, Folding, Ending,
         Forward, Backward, Shutting, Moving, Reverting, Unstaging, Typed, TypeOK
    <3>5. QED
      BY <1>1, <1>2, <3>1, <3>4, TreeStays DEF StoreSound, JournalSound, HeadersMade
  <2>3. CASE dir["source"] # "absent"
    <3>1. dir["source"] = "folder"
      BY <2>3 DEF StoreSound, TreeSound, Folders
    <3>2. Fold(a, "source", "items", "unsource-fold", "release")
      BY <1>1, <1>5, <2>3 DEF RestoreSource
    <3>3. CASE /\ \A f \in Folders \ {"source", "items"} : held'[f] = held[f] /\ dir'[f] = dir[f]
               /\ held'["source"] = {} /\ dir'["source"] = "absent" /\ dir["items"] = "absent"
               /\ held'["items"] = held["source"] /\ dir'["items"] = "folder"
               /\ pc' = [pc EXCEPT ![a] = "release"] /\ job' = job
      <4>1. held["items"] = {}
        BY <3>3 DEF StoreSound, TreeSound, Folders
      <4>2. TreeSound'
        BY <2>1, <3>3 DEF TreeSound, StoreSound, Folders, PlainCopies, MigrateOpen
      <4>3. MigrateGoing(S, L)'
        BY <1>2, <2>1, <3>3, <4>1 DEF MigrateGoing, MigrateOpen, Stored, Folders, Opens, SealedCopies, PlainCopies
      <4>4. AtRest(S, L)'
        BY <1>2, <2>1, <3>3, <4>1 DEF AtRest, PlainRest, MigrateOpen, Stored, Folders, Shut
      <4>5. Knows(S, L, a)'
        BY <1>1, <1>2, <3>3, <4>4 DEF Knows, Ready, Going, Undoing, Folding, Ending,
           Forward, Backward, Shutting, Moving, Reverting, Unstaging, Typed, TypeOK
      <4>6. QED
        BY <1>1, <1>2, <1>5, <4>2, <4>3, <4>5 DEF StoreSound, JournalSound, HeadersMade, Under
    <3>4. CASE /\ dir' = dir /\ held' = held /\ dir["items"] = "folder"
               /\ pc' = [pc EXCEPT ![a] = "unsource-fold"]
               /\ job'[a].from = "source" /\ job'[a].to = "items" /\ job'[a].todo = held["source"]
               /\ job'[a].kind = job[a].kind /\ job'[a].hdr = job[a].hdr /\ job'[a].mode = job[a].mode
      <4>1. Moves(S, a, "source", "items")'
        BY <1>2, <2>1, <3>1, <3>4 DEF Moves, MigrateOpen, Stored
      <4>2. Knows(S, L, a)'
        BY <1>1, <1>2, <1>5, <2>1, <3>4, <4>1, TreeStays DEF Knows, Ready, Going, Undoing, Folding, Ending,
           Forward, Backward, Shutting, Moving, Reverting, Unstaging, Typed, TypeOK
      <4>3. QED
        BY <1>1, <1>2, <3>4, <4>2, TreeStays DEF StoreSound, JournalSound, HeadersMade
    <3>5. QED
      BY <3>1, <3>2, <3>3, <3>4, FoldBegins DEF Folders
  <2>4. QED
    BY <2>2, <2>3
<1>6. QED
  BY <1>1, <1>4, <1>5 DEF Rewrites

LEMMA RestoreHeadKeeps ==
  ASSUME NEW S, NEW L, KeptInv(S, L), NEW a \in Admins, RestoreHead(a)
  PROVE  StoreSound(S, L)' /\ Knows(S, L, a)'
<1> USE Shapes DEF KeptInv
<1>1. /\ pc[a] = "unhead" /\ plan # NoPlan /\ Under(S, L) /\ lock /\ plan.kind = "rotate"
      /\ ~Swapped /\ plan.kind = job[a].kind /\ job[a].mode = "undo" /\ dir["source"] = "absent"
  BY DEF RestoreHead, Knows, Undoing, Backward, Unstaging, StoreSound, JournalSound, Working
<1>2. /\ UNCHANGED <<lock, plan, recovery, dir, held, kept, used, job>>
      /\ pc' = [pc EXCEPT ![a] = "release"]
  BY DEF RestoreHead, Quiet, Goto
<1>3. RotateOpen(S, L)
  BY <1>1 DEF Under, RotateGoing, Committed, Swapped
<1>4. \/ head["encryption"] # NoHeader /\ head' = head
      \/ /\ head["encryption"] = NoHeader /\ head["previous"] # NoHeader
         /\ head'["encryption"] = head["previous"] /\ head'["previous"] = NoHeader
         /\ head'["header"] = head["header"] /\ head'["old-header"] = head["old-header"]
  BY <1>3 DEF RestoreHead, MoveHeader, Places, RotateOpen, OldHeader
<1>5. RotateOpen(S, L)'
  BY <1>1, <1>2, <1>3, <1>4 DEF RotateOpen, OldHeader, Opens, SealedCopies, Keeps, Stored, Shut
<1>6. AtRest(S, L)'
  BY <1>1, <1>2, <1>3, <1>4, <1>5 DEF RotateOpen, OldHeader, AtRest, SealedRest, Shut
<1>7. TreeSound' /\ HeadersMade'
  BY <1>2, <1>4 DEF StoreSound, TreeSound, PlainCopies, HeadersMade, Places
<1>8. Knows(S, L, a)'
  BY <1>1, <1>2, <1>6 DEF Knows, Ready, Going, Undoing, Folding, Ending,
     Forward, Backward, Shutting, Moving, Reverting, Unstaging, Typed, TypeOK
<1>9. QED
  BY <1>1, <1>2, <1>5, <1>7, <1>8 DEF StoreSound, JournalSound, Under, RotateGoing

LEMMA RevertNewKeeps ==
  ASSUME NEW S, NEW L, KeptInv(S, L), NEW a \in Admins, RevertNew(a)
  PROVE  StoreSound(S, L)' /\ Knows(S, L, a)'
<1> USE Shapes DEF KeptInv
<1>1. /\ pc[a] = "rev-new" /\ plan # NoPlan /\ Under(S, L) /\ lock /\ plan.kind \in HeaderChanges
      /\ plan.kind = job[a].kind /\ job[a].mode = "undo"
  BY DEF RevertNew, Knows, Undoing, Backward, Reverting, StoreSound, JournalSound, Working
<1>2. /\ UNCHANGED <<lock, plan, recovery, dir, held, kept, used, job>>
      /\ pc' = [pc EXCEPT ![a] = "rev-old"]
  BY DEF RevertNew, Quiet, Goto
<1>3. \/ (head["header"] # NoHeader \/ head["encryption"] = NoHeader) /\ head' = head
      \/ /\ head["header"] = NoHeader /\ head["encryption"] # NoHeader
         /\ head'["encryption"] = NoHeader /\ head'["header"] = head["encryption"]
         /\ head'["previous"] = head["previous"] /\ head'["old-header"] = head["old-header"]
  BY DEF RevertNew, MoveHeader, Places
<1>4. TreeSound' /\ HeadersMade'
  BY <1>2, <1>3 DEF StoreSound, TreeSound, PlainCopies, HeadersMade, Places
<1>5. WordsGoing(S, L) => WordsGoing(S, L)'
  BY <1>2, <1>3 DEF WordsGoing, Opens, Places, SealedRest, Shut, SealedCopies, Keeps, Stored
<1>6. SetUpGoing(S) => SetUpGoing(S)' /\ head'["encryption"] = NoHeader
  BY <1>2, <1>3 DEF SetUpGoing, Opens, Stored
<1>7. Under(S, L)' /\ (plan.kind # "words" => head'["encryption"] = NoHeader)
  BY <1>1, <1>2, <1>5, <1>6 DEF Under, HeaderChanges
<1>8. Knows(S, L, a)'
  BY <1>1, <1>2, <1>7 DEF Knows, Ready, Going, Undoing, Folding, Ending,
     Forward, Backward, Shutting, Moving, Reverting, Unstaging, Typed, TypeOK
<1>9. QED
  BY <1>1, <1>2, <1>4, <1>7, <1>8 DEF StoreSound, JournalSound

LEMMA RevertOldKeeps ==
  ASSUME NEW S, NEW L, KeptInv(S, L), NEW a \in Admins, RevertOld(a)
  PROVE  StoreSound(S, L)' /\ Knows(S, L, a)'
<1> USE Shapes DEF KeptInv
<1>1. /\ pc[a] = "rev-old" /\ plan # NoPlan /\ Under(S, L) /\ lock /\ plan.kind \in HeaderChanges
      /\ plan.kind # "words" => head["encryption"] = NoHeader
      /\ plan.kind = job[a].kind /\ job[a].mode = "undo"
  BY DEF RevertOld, Knows, Undoing, Backward, Reverting, StoreSound, JournalSound, Working
<1>2. /\ UNCHANGED <<lock, plan, recovery, dir, held, kept, used, job>>
      /\ pc' = [pc EXCEPT ![a] = IF plan.kind = "words" THEN "rev-words" ELSE "rev-stop"]
  BY <1>1 DEF RevertOld, Quiet, Goto
<1>3. \/ (head["encryption"] # NoHeader \/ head["previous"] = NoHeader) /\ head' = head
      \/ /\ head["encryption"] = NoHeader /\ head["previous"] # NoHeader
         /\ head'["encryption"] = head["previous"] /\ head'["previous"] = NoHeader
         /\ head'["header"] = head["header"] /\ head'["old-header"] = head["old-header"]
  BY DEF RevertOld, MoveHeader, Places
<1>4. TreeSound' /\ HeadersMade'
  BY <1>2, <1>3 DEF StoreSound, TreeSound, PlainCopies, HeadersMade, Places
<1>5. WordsGoing(S, L) => WordsGoing(S, L)'
  BY <1>2, <1>3 DEF WordsGoing, Opens, Places, SealedRest, Shut, SealedCopies, Keeps, Stored
<1>6. SetUpGoing(S) => SetUpGoing(S)' /\ head' = head
  BY <1>2, <1>3 DEF SetUpGoing, Opens, Stored, Shut
<1>7. Under(S, L)' /\ (plan.kind # "words" => head' = head)
  BY <1>1, <1>2, <1>5, <1>6 DEF Under, HeaderChanges
<1>8. Knows(S, L, a)'
  BY <1>1, <1>2, <1>7 DEF Knows, Ready, Going, Undoing, Folding, Ending,
     Forward, Backward, Shutting, Moving, Reverting, Unstaging, Typed, TypeOK
<1>9. QED
  BY <1>1, <1>2, <1>4, <1>7, <1>8 DEF StoreSound, JournalSound

LEMMA RevertWordsKeeps ==
  ASSUME NEW S, NEW L, KeptInv(S, L), NEW a \in Admins, RevertWords(a)
  PROVE  StoreSound(S, L)' /\ Knows(S, L, a)'
<1> USE Shapes DEF KeptInv
<1>1. /\ pc[a] = "rev-words" /\ plan # NoPlan /\ WordsGoing(S, L) /\ lock /\ plan.kind = "words"
      /\ plan.kind = job[a].kind /\ job[a].mode = "undo"
  BY DEF RevertWords, Knows, Undoing, Backward, Reverting, StoreSound, JournalSound, Working, Under
<1>2. /\ UNCHANGED <<lock, plan, recovery, dir, held, kept, used, job>>
      /\ pc' = [pc EXCEPT ![a] = "release"]
  BY <1>1 DEF RevertWords, Quiet, Goto
<1>3. /\ head'["encryption"] # NoHeader
      /\ \/ head' = head
         \/ /\ head'["encryption"] = head["old-header"] /\ head'["old-header"] = NoHeader
            /\ head'["header"] = head["header"] /\ head'["previous"] = head["previous"]
  BY DEF RevertWords, MoveHeader, Places
<1>4. TreeSound' /\ HeadersMade'
  BY <1>2, <1>3 DEF StoreSound, TreeSound, PlainCopies, HeadersMade, Places
<1>5. WordsGoing(S, L)'
  BY <1>1, <1>2, <1>3 DEF WordsGoing, Opens, Places, SealedRest, Shut, SealedCopies, Keeps, Stored
<1>6. AtRest(S, L)'
  BY <1>2, <1>3, <1>5 DEF AtRest, WordsGoing, Opens, Places
<1>7. Knows(S, L, a)'
  BY <1>1, <1>2, <1>6 DEF Knows, Ready, Going, Undoing, Folding, Ending,
     Forward, Backward, Shutting, Moving, Reverting, Unstaging, Typed, TypeOK
<1>8. QED
  BY <1>1, <1>2, <1>4, <1>5, <1>7 DEF StoreSound, JournalSound, Under

LEMMA RestorePlainKeeps ==
  ASSUME NEW S, NEW L, KeptInv(S, L), NEW a \in Admins, RestorePlain(a)
  PROVE  StoreSound(S, L)' /\ Knows(S, L, a)'
<1> USE Shapes DEF KeptInv
<1>1. /\ pc[a] = "rev-plain" /\ plan # NoPlan /\ Under(S, L) /\ lock /\ plan.kind \in {"set-up", "fresh-start"}
      /\ head["encryption"] = NoHeader /\ ~Shut /\ plan.kind = job[a].kind /\ job[a].mode = "undo"
  BY DEF RestorePlain, Knows, Undoing, Backward, Reverting, StoreSound, JournalSound, Working, HeaderChanges
<1>2. UNCHANGED <<lock, plan, recovery, head, kept, used>>
  BY DEF RestorePlain, Quiet
<1>3. SetUpGoing(S)
  BY <1>1 DEF Under
<1>4. CASE dir["plain/items"] = "absent"
  <2>1. UNCHANGED <<dir, held, job>> /\ pc' = [pc EXCEPT ![a] = "release"]
    BY <1>4 DEF RestorePlain, Goto, SameTree
  <2>2. held["plain/items"] = {}
    BY <1>4 DEF StoreSound, TreeSound, Folders
  <2>3. AtRest(S, L)
    BY <1>1, <1>3, <2>2 DEF AtRest, PlainRest, SetUpGoing, Stored
  <2>4. Knows(S, L, a)'
    BY <1>1, <1>2, <2>1, <2>3, TreeStays DEF Knows, Ready, Going, Undoing, Folding, Ending,
       Forward, Backward, Shutting, Moving, Reverting, Unstaging, Typed, TypeOK
  <2>5. QED
    BY <1>1, <1>2, <2>1, <2>4, TreeStays DEF StoreSound, JournalSound, HeadersMade
<1>5. CASE dir["plain/items"] # "absent"
  <2>1. dir["plain/items"] = "folder"
    BY <1>5 DEF StoreSound, TreeSound, Folders
  <2>2. Fold(a, "plain/items", "items", "rev-fold", "release")
    BY <1>5 DEF RestorePlain
  <2>3. CASE /\ \A f \in Folders \ {"plain/items", "items"} : held'[f] = held[f] /\ dir'[f] = dir[f]
             /\ held'["plain/items"] = {} /\ dir'["plain/items"] = "absent" /\ dir["items"] = "absent"
             /\ held'["items"] = held["plain/items"] /\ dir'["items"] = "folder"
             /\ pc' = [pc EXCEPT ![a] = "release"] /\ job' = job
    <3>1. held["items"] = {}
      BY <2>3 DEF StoreSound, TreeSound, Folders
    <3>2. TreeSound'
      BY <2>3 DEF TreeSound, StoreSound, Folders, PlainCopies
    <3>3. SetUpGoing(S)' /\ AtRest(S, L)'
      BY <1>1, <1>2, <1>3, <2>3, <3>1 DEF SetUpGoing, AtRest, PlainRest, Stored, Folders, Opens, Shut
    <3>4. Knows(S, L, a)'
      BY <1>1, <1>2, <2>3, <3>3 DEF Knows, Ready, Going, Undoing, Folding, Ending,
         Forward, Backward, Shutting, Moving, Reverting, Unstaging, Typed, TypeOK
    <3>5. QED
      BY <1>1, <1>2, <3>2, <3>3, <3>4 DEF StoreSound, JournalSound, HeadersMade, Under
  <2>4. CASE /\ dir' = dir /\ held' = held /\ dir["items"] = "folder"
             /\ pc' = [pc EXCEPT ![a] = "rev-fold"]
             /\ job'[a].from = "plain/items" /\ job'[a].to = "items" /\ job'[a].todo = held["plain/items"]
             /\ job'[a].kind = job[a].kind /\ job'[a].hdr = job[a].hdr /\ job'[a].mode = job[a].mode
    <3>1. Moves(S, a, "plain/items", "items")'
      BY <1>2, <1>3, <2>1, <2>4 DEF Moves, SetUpGoing, Stored
    <3>2. Knows(S, L, a)'
      BY <1>1, <1>2, <2>4, <3>1, TreeStays DEF Knows, Ready, Going, Undoing, Folding, Ending, HeaderChanges,
         Forward, Backward, Shutting, Moving, Reverting, Unstaging, Typed, TypeOK
    <3>3. UNCHANGED <<plan, head, dir, held, kept>>
      BY <1>2, <2>4
    <3>4. TreeSound' = TreeSound /\ Under(S, L)' = Under(S, L)
      BY <3>3, TreeStays, Zenon
    <3>5. QED
      BY <1>1, <1>2, <3>2, <3>4 DEF StoreSound, JournalSound, HeadersMade
  <2>5. QED
    BY <2>1, <2>2, <2>3, <2>4, FoldBegins DEF Folders
<1>6. QED
  BY <1>4, <1>5

--------------------------------------------------------------------------------
(***************************************************************************)
(* Commands that end early, commands that begin, and late devices.         *)
(***************************************************************************)
LEMMA StopKeeps ==
  ASSUME NEW S, NEW L, KeptInv(S, L), NEW a \in Admins, pc' = [pc EXCEPT ![a] = "idle"], recovery' \in {recovery, FALSE},
         UNCHANGED <<lock, plan, head, dir, held, kept, used>>
  PROVE  StoreSound(S, L)' /\ Knows(S, L, a)'
<1> USE Shapes DEF KeptInv
<1>1. Knows(S, L, a)'
  BY DEF Knows, Ready, Going, Undoing, Folding, Ending, Working,
     Forward, Backward, Shutting, Moving, Reverting, Unstaging, Typed, TypeOK
<1>2. ~lock' => ~recovery'
  BY DEF StoreSound, JournalSound
<1>3. TreeSound' /\ HeadersMade' /\ (plan' = NoPlan => AtRest(S, L)') /\ (plan' # NoPlan => Under(S, L)')
  BY TreeStays DEF StoreSound, JournalSound, HeadersMade
<1>4. ~lock' => plan' = NoPlan /\ \A p \in InLock : head'[p] = NoHeader
  BY DEF StoreSound, JournalSound
<1>5. QED
  BY <1>1, <1>2, <1>3, <1>4 DEF StoreSound, JournalSound

LEMMA CrashRemovingKeeps ==
  ASSUME NEW S, NEW L, KeptInv(S, L), NEW a \in Admins, CrashRemoving(a), used' = used
  PROVE  StoreSound(S, L)' /\ Knows(S, L, a)'
<1> USE Shapes DEF KeptInv
<1>1. UNCHANGED <<lock, plan, recovery, head, dir, kept>> /\ pc' = [pc EXCEPT ![a] = "idle"]
  BY DEF CrashRemoving, Goto, RemoveSome
<1>2. Knows(S, L, a)'
  BY <1>1 DEF Knows, Ready, Going, Undoing, Folding, Ending, Working,
     Forward, Backward, Shutting, Moving, Reverting, Unstaging, Typed, TypeOK
<1>3. CASE pc[a] = "clean" /\ RemoveSome("source")
  <2>1. \A f \in Folders \ {"source"} : held'[f] = held[f]
    BY <1>3 DEF RemoveSome
  <2>2. dir["source"] = "folder"
    BY <1>3 DEF RemoveSome
  <2>3. Committed(S, L) /\ plan # NoPlan /\ plan.kind \in Rewrites /\ Under(S, L) /\ lock
    BY <1>3 DEF Knows, Going, Forward, StoreSound, JournalSound, Working
  <2>4. TreeSound'
    BY <1>1, <2>1, <2>2 DEF StoreSound, TreeSound, PlainCopies, Folders
  <2>5. Committed(S, L)'
    BY <1>1, <2>1, <2>3 DEF Committed, Shut, SealedCopies, Keeps, Stored, Folders
  <2>6. Under(S, L)'
    BY <1>1, <2>3, <2>5 DEF Under, MigrateGoing, RotateGoing, Rewrites
  <2>7. QED
    BY <1>1, <1>2, <2>3, <2>4, <2>6 DEF StoreSound, JournalSound, HeadersMade
<1>4. CASE /\ pc[a] = "unstage" /\ RemoveSome("v2/items")
           /\ job[a].kind = "migrate" \/ dir["source"] # "absent"
  <2>1. \A f \in Folders \ {"v2/items"} : held'[f] = held[f]
    BY <1>4 DEF RemoveSome
  <2>2. dir["v2/items"] = "folder"
    BY <1>4 DEF RemoveSome
  <2>3. ASSUME NEW k, SealedCopies(L, "v2/items", k) PROVE SealedCopies(L, "v2/items", k)'
    <3>1. \A c \in Copies : Torn(c).item = c.item /\ Torn(c).key = c.key
      BY DEF Torn, Copies
    <3>2. \A c \in held'["v2/items"] : \E d \in held["v2/items"] : c.item = d.item /\ c.key = d.key
      BY <1>4, <3>1 DEF RemoveSome, Folders
    <3>3. QED
      BY <2>3, <3>2 DEF SealedCopies
  <2>4. /\ plan # NoPlan /\ plan.kind \in Rewrites /\ Under(S, L) /\ lock /\ ~Swapped
        /\ plan.kind = "migrate" \/ dir["source"] # "absent"
    BY <1>4 DEF Knows, Undoing, Backward, Unstaging, StoreSound, JournalSound, Working
  <2>5. TreeSound'
    BY <1>1, <2>1, <2>2 DEF StoreSound, TreeSound, PlainCopies, Folders
  <2>6. CASE plan.kind = "migrate"
    <3>1. MigrateGoing(S, L) /\ MigrateOpen(S, L)
      BY <2>4, <2>6 DEF Under, MigrateGoing, Committed, Swapped
    <3>2. PICK k : k = plan.to
      OBVIOUS
    <3>6. SealedCopies(L, "v2/items", plan.to)'
      BY <1>1, <2>3, <3>1, <3>2 DEF MigrateOpen, SealedCopies
    <3>3. MigrateGoing(S, L)'
      BY <1>1, <2>1, <3>1, <3>6 DEF MigrateGoing, MigrateOpen, Opens, PlainCopies, Stored, SealedCopies, Folders
    <3>4. QED
      BY <1>1, <1>2, <2>4, <2>5, <2>6, <3>3 DEF StoreSound, JournalSound, HeadersMade, Under
  <2>7. CASE plan.kind = "rotate"
    <3>1. RotateOpen(S, L) /\ dir["source"] # "absent"
      BY <2>4, <2>7 DEF Under, RotateGoing, Committed, Swapped
    <3>2. PICK k : k = plan.to
      OBVIOUS
    <3>6. SealedCopies(L, "v2/items", plan.to)'
      BY <1>1, <2>3, <3>1, <3>2 DEF RotateOpen, SealedCopies
    <3>3. RotateOpen(S, L)'
      BY <1>1, <2>1, <3>1, <3>6 DEF RotateOpen, OldHeader, Opens, Keeps, Stored, SealedCopies, Folders, Shut
    <3>4. QED
      BY <1>1, <1>2, <2>4, <2>5, <2>7, <3>3 DEF StoreSound, JournalSound, HeadersMade, Under, RotateGoing
  <2>8. QED
    BY <2>4, <2>6, <2>7 DEF Rewrites
<1>5. QED
  BY <1>3, <1>4 DEF CrashRemoving

LEMMA CrashReleasingKeeps ==
  ASSUME NEW S, NEW L, KeptInv(S, L), NEW a \in Admins, CrashReleasing(a), used' = used
  PROVE  StoreSound(S, L)' /\ Knows(S, L, a)'
<1> USE Shapes DEF KeptInv
<1>1. /\ UNCHANGED <<lock, dir, held, kept>> /\ pc' = [pc EXCEPT ![a] = "idle"]
      /\ plan' \in {plan, NoPlan} /\ pc[a] = "release" /\ lock /\ AtRest(S, L)
  BY DEF CrashReleasing, Goto, Knows, Ending, Working
<1>2. /\ head'["encryption"] = head["encryption"]
      /\ \A p \in InLock : head'[p] = head[p] \/ head'[p] = NoHeader
  BY DEF CrashReleasing, InLock, Places
<1>3. Knows(S, L, a)'
  BY <1>1 DEF Knows, Ready, Going, Undoing, Folding, Ending, Working,
     Forward, Backward, Shutting, Moving, Reverting, Unstaging, Typed, TypeOK
<1>4. TreeSound' /\ HeadersMade' /\ AtRest(S, L)'
  BY <1>1, <1>2 DEF StoreSound, TreeSound, PlainCopies, HeadersMade, Places, InLock, AtRest, PlainRest,
     SealedRest, Shut, SealedCopies, Keeps, Stored
<1>5. ASSUME plan' # NoPlan PROVE Under(S, L)'
  <2>1. plan' = plan /\ Under(S, L)
    BY <1>1, <1>5 DEF StoreSound, JournalSound
  <2>2. Shut => head["encryption"] # NoHeader
    BY <1>1 DEF AtRest, PlainRest
  <2>3. WordsGoing(S, L) => WordsGoing(S, L)'
    BY <1>1, <1>2, <2>1, <2>2 DEF WordsGoing, Opens, Places, InLock, SealedRest, Shut, SealedCopies, Keeps, Stored
  <2>4. SetUpGoing(S) => SetUpGoing(S)'
    BY <1>1, <1>2, <2>1 DEF SetUpGoing, Opens, Places, InLock, Shut, Stored
  <2>5. Committed(S, L) => Committed(S, L)'
    BY <1>1, <1>2, <2>1 DEF Committed, InLock, Shut, SealedCopies, Keeps, Stored
  <2>6. MigrateGoing(S, L) => MigrateGoing(S, L)'
    BY <1>1, <1>2, <2>1, <2>5 DEF MigrateGoing, MigrateOpen, Opens, InLock, SealedCopies, PlainCopies, Stored
  <2>7. RotateOpen(S, L) => RotateOpen(S, L)'
    BY <1>1, <1>2, <2>1, <2>2 DEF RotateOpen, OldHeader, Opens, InLock, SealedCopies, Keeps, Stored, Shut
  <2>8. QED
    BY <2>1, <2>3, <2>4, <2>5, <2>6, <2>7 DEF Under, RotateGoing
<1>6. QED
  BY <1>1, <1>3, <1>4, <1>5 DEF StoreSound, JournalSound

LEMMA InspectKeeps ==
  ASSUME NEW S, NEW L, KeptInv(S, L), NEW a \in Admins, NEW kind \in Kinds, Inspect(a, kind)
  PROVE  StoreSound(S, L)' /\ Knows(S, L, a)'
<1> USE Shapes DEF KeptInv
<1>1. PICK k \in IF kind = "words" THEN {head["encryption"].key} ELSE Keys \ used, w \in Words :
        /\ used' = used \cup {k}
        /\ job' = [job EXCEPT ![a] =
             [NoJob EXCEPT !.kind = kind, !.hdr = [key |-> k, words |-> w],
                           !.old = head["encryption"], !.mode = "run"]]
  BY DEF Inspect
<1>2. UNCHANGED <<lock, plan, recovery, head, dir, held, kept>> /\ pc' = [pc EXCEPT ![a] = "publish"]
  BY DEF Inspect, Goto, layoutVars
<1>3. /\ job'[a].kind = kind /\ job'[a].hdr.key = k /\ job'[a].old = head["encryption"] /\ job'[a].mode = "run"
  BY <1>1 DEF NoJob, Typed, TypeOK
<1>4. ~lock
  BY DEF Inspect, Admits, Classify, Kinds, HeaderChanges, Rewrites
<1>5. kind = "rotate" => k # head["encryption"].key
  <2>1. head["encryption"].key \in used \cup {NoKey}
    BY DEF StoreSound, HeadersMade, Places
  <2>2. kind = "rotate" => k \in Keys \ used
    BY <1>1
  <2>3. QED
    BY <2>1, <2>2
<1>6. Fits(kind)'
  BY <1>2 DEF Inspect, Admits, Classify, Fits, Kinds, HeaderChanges, Rewrites
<1>7. Knows(S, L, a)'
  BY <1>1, <1>2, <1>3, <1>4, <1>5, <1>6 DEF Knows, Ready, Going, Undoing, Folding, Ending, Working,
     Forward, Backward, Shutting, Moving, Reverting, Unstaging, Typed, TypeOK
<1>8. QED
  BY <1>1, <1>2, <1>7, TreeStays DEF StoreSound, JournalSound, HeadersMade

LEMMA ClaimKeeps ==
  ASSUME NEW S, NEW L, KeptInv(S, L), NEW a \in Admins, NEW mode \in {"finish", "undo"}, ClaimRecovery(a, mode)
  PROVE  StoreSound(S, L)' /\ Knows(S, L, a)'
<1> USE Shapes DEF KeptInv
<1>1. /\ UNCHANGED <<lock, plan, head, dir, held, kept, used>> /\ lock
      /\ pc' = [pc EXCEPT ![a] = mode] /\ job'[a].mode = mode
  BY DEF ClaimRecovery, Goto, Quiet, NoJob, Typed, TypeOK
<1>2. Knows(S, L, a)'
  BY <1>1 DEF Knows, Ready, Going, Undoing, Folding, Ending, Working,
     Forward, Backward, Shutting, Moving, Reverting, Unstaging, Typed, TypeOK
<1>3. QED
  BY <1>1, <1>2, TreeStays DEF StoreSound, JournalSound, HeadersMade

\* Taking a claim over changes nothing but the claim.
LEMMA TakeOverKeeps ==
  ASSUME NEW S, NEW L, KeptInv(S, L), NEW a \in Admins, TakeOverRecovery(a)
  PROVE  StoreSound(S, L)' /\ Knows(S, L, a)'
<1> USE Shapes DEF KeptInv
<1>1. /\ UNCHANGED <<lock, plan, head, dir, held, kept, pc, job, used>> /\ recovery' = FALSE
      /\ pc[a] = "idle"
  BY DEF TakeOverRecovery, MayRecover, Quiet
<1>2. Knows(S, L, a)'
  BY <1>1 DEF Knows, Ready, Going, Undoing, Folding, Ending, Working,
     Forward, Backward, Shutting, Moving, Reverting, Unstaging
<1>3. QED
  BY <1>1, <1>2, TreeStays DEF StoreSound, JournalSound, HeadersMade

\* Every step a running command takes.
LEMMA StepKeeps ==
  ASSUME NEW S, NEW L, KeptInv(S, L), NEW a \in Admins, Step(a)
  PROVE  StoreSound(S, L)' /\ Knows(S, L, a)'
<1>1. CASE Publish(a)
  BY <1>1, PublishKeeps
<1>2. CASE PublishRefused(a) \/ Refused(a)
  <2>1. /\ pc' = [pc EXCEPT ![a] = "idle"] /\ recovery' \in {recovery, FALSE}
        /\ UNCHANGED <<lock, plan, head, dir, held, kept, used>>
    BY <1>2 DEF PublishRefused, Refused, GiveUp, Goto, Quiet, layoutVars
  <2>2. QED
    BY <2>1, StopKeeps
<1>3. CASE ClearItems(a)
  BY <1>3, ClearItemsKeeps
<1>4. CASE FoldStep(a)
  BY <1>4, ClearFoldKeeps, SourceFoldKeeps, UnsourceFoldKeeps, RevFoldKeeps DEF FoldStep
<1>5. CASE WriteStopFile(a)
  BY <1>5, WriteStopKeeps
<1>6. CASE MoveSource(a)
  BY <1>6, MoveSourceKeeps
<1>7. CASE FoldIntoSource(a)
  BY <1>7, FoldIntoSourceKeeps
<1>8. CASE Copy(a)
  BY <1>8, CopyKeeps
<1>9. CASE Verify(a)
  BY <1>9, VerifyKeeps
<1>10. CASE Install(a)
  BY <1>10, InstallKeeps
<1>11. CASE Swap(a)
  BY <1>11, SwapKeeps
<1>12. CASE CleanSource(a)
  BY <1>12, CleanKeeps
<1>13. CASE Release(a)
  BY <1>13, ReleaseKeeps
<1>14. CASE Finish(a)
  BY <1>14, FinishKeeps
<1>15. CASE Undo(a)
  BY <1>15, UndoKeeps
<1>16. CASE Unstage(a)
  BY <1>16, UnstageKeeps
<1>17. CASE RemoveStopFile(a)
  BY <1>17, RemoveStopKeeps
<1>18. CASE RestoreSource(a)
  BY <1>18, RestoreSourceKeeps
<1>19. CASE RestoreHead(a)
  BY <1>19, RestoreHeadKeeps
<1>20. CASE RevertNew(a) \/ RevertOld(a) \/ RevertWords(a) \/ RestorePlain(a)
  BY <1>20, RevertNewKeeps, RevertOldKeeps, RevertWordsKeeps, RestorePlainKeeps
<1>21. QED
  BY <1>1, <1>2, <1>3, <1>4, <1>5, <1>6, <1>7, <1>8, <1>9, <1>10, <1>11, <1>12, <1>13, <1>14,
     <1>15, <1>16, <1>17, <1>18, <1>19, <1>20 DEF Step

LEMMA StartKeeps ==
  ASSUME NEW S, NEW L, KeptInv(S, L), NEW a \in Admins, Start(a)
  PROVE  StoreSound(S, L)' /\ Knows(S, L, a)'
BY InspectKeeps, ClaimKeeps, TakeOverKeeps, OfferedAssumption DEF Start

LEMMA FaultKeeps ==
  ASSUME NEW S, NEW L, KeptInv(S, L), NEW a \in Admins, Faults(a)
  PROVE  StoreSound(S, L)' /\ Knows(S, L, a)'
<1>1. UNCHANGED used
  BY DEF Faults, Fault
<1>2. CASE Fail(a) \/ Crash(a)
  <2>1. /\ pc' = [pc EXCEPT ![a] = "idle"] /\ recovery' \in {recovery, FALSE}
        /\ UNCHANGED <<lock, plan, head, dir, held, kept>>
    BY <1>2 DEF Fail, Crash, GiveUp, Goto, layoutVars
  <2>2. QED
    BY <1>1, <2>1, StopKeeps
<1>3. CASE CrashRemoving(a) \/ CrashReleasing(a)
  BY <1>1, <1>3, CrashRemovingKeeps, CrashReleasingKeeps
<1>4. QED
  BY <1>2, <1>3 DEF Faults

\* A late device only adds to a folder `items/`, makes one where there is
\* nothing, or takes back an item nobody was told is kept.
LEMMA LateEffect ==
  ASSUME NEW S, NEW L, KeptInv(S, L), LateDevice, S \cap LateItems \subseteq kept
  PROVE  /\ UNCHANGED <<lock, plan, recovery, head, kept, pc, job, used>> /\ lock
         /\ \A f \in Folders \ {"items"} : held'[f] = held[f] /\ dir'[f] = dir[f]
         /\ ~Shut /\ dir'["items"] = "folder"
         /\ PlainCopies("items")'
         /\ \A i \in S : Stored(i, "items") => Stored(i, "items")'
<1> USE Shapes DEF KeptInv
<1>1. UNCHANGED <<lock, plan, recovery, head, kept, pc, job, used>> /\ lock
  BY DEF LateDevice, Quiet
<1>2. CASE dir["items"] = "absent" /\ MakeFolder("items")
  BY <1>1, <1>2 DEF MakeFolder, Folders, Shut, PlainCopies, Stored, StoreSound, TreeSound
<1>3. CASE /\ dir["items"] = "folder" /\ dir' = dir
           /\ \E i \in LateItems :
                \/ held' = [held EXCEPT !["items"] = @ \cup {Whole(i, NoKey)}]
                \/ i \notin kept /\ held' = [held EXCEPT !["items"] = @ \ {Whole(i, NoKey)}]
  <2>1. PICK i \in LateItems :
          \/ held' = [held EXCEPT !["items"] = held["items"] \cup {Whole(i, NoKey)}]
          \/ i \notin kept /\ held' = [held EXCEPT !["items"] = held["items"] \ {Whole(i, NoKey)}]
    BY <1>3
  <2>2. Whole(i, NoKey).item = i /\ Whole(i, NoKey) = Whole(Whole(i, NoKey).item, NoKey)
    BY DEF Whole
  <2>3. PlainCopies("items")
    BY DEF StoreSound, TreeSound
  <2>4. /\ \A f \in Folders \ {"items"} : held'[f] = held[f]
        /\ \/ held'["items"] = held["items"] \cup {Whole(i, NoKey)}
           \/ i \notin kept /\ held'["items"] = held["items"] \ {Whole(i, NoKey)}
    BY <2>1 DEF Folders
  <2>5. PlainCopies("items")'
    BY <2>2, <2>3, <2>4 DEF PlainCopies
  <2>6. ASSUME NEW j \in S, Stored(j, "items") PROVE Stored(j, "items")'
    <3>1. i \notin kept => Whole(j, NoKey) # Whole(i, NoKey)
      BY DEF Whole
    <3>2. QED
      BY <2>4, <2>6, <3>1 DEF Stored
  <2>7. QED
    BY <1>1, <1>3, <2>4, <2>5, <2>6 DEF Shut
<1>4. QED
  BY <1>2, <1>3 DEF LateDevice

\* Whatever changes `items/` while it is no stop file leaves the rest as it was,
\* as long as the folder keeps what is to stay and holds plaintext.
LEMMA ItemsTouched ==
  ASSUME NEW S, NEW L, KeptInv(S, L),
         UNCHANGED <<lock, plan, recovery, head, pc, job, used>>,
         \A f \in Folders \ {"items"} : held'[f] = held[f] /\ dir'[f] = dir[f],
         ~Shut, dir'["items"] = "folder", PlainCopies("items")',
         \A i \in S : Stored(i, "items") => Stored(i, "items")'
  PROVE  StoreSound(S, L)' /\ \A a \in Admins : Knows(S, L, a)'
<1> USE Shapes DEF KeptInv
<1>1. /\ UNCHANGED <<lock, plan, recovery, head, pc, job, used>>
      /\ \A f \in Folders \ {"items"} : held'[f] = held[f] /\ dir'[f] = dir[f]
      /\ ~Shut /\ dir'["items"] = "folder"
      /\ PlainCopies("items")'
      /\ \A i \in S : Stored(i, "items") => Stored(i, "items")'
  OBVIOUS
<1>2. TreeSound' /\ HeadersMade'
  BY <1>1 DEF StoreSound, TreeSound, PlainCopies, HeadersMade, Folders
<1>3. AtRest(S, L) => AtRest(S, L)'
  BY <1>1 DEF AtRest, PlainRest, SealedRest, Shut, Folders
<1>4. Under(S, L) => Under(S, L)'
  <2>1. WordsGoing(S, L) => WordsGoing(S, L)'
    BY <1>1 DEF WordsGoing, SealedRest, Shut
  <2>2. SetUpGoing(S) => SetUpGoing(S)'
    BY <1>1 DEF SetUpGoing, Opens, Stored, Shut, Folders
  <2>3. ~Committed(S, L)
    BY <1>1 DEF Committed
  <2>4. MigrateGoing(S, L) => MigrateGoing(S, L)'
    BY <1>1, <2>3 DEF MigrateGoing, MigrateOpen, Opens, SealedCopies, PlainCopies, Stored, Folders
  <2>5. RotateGoing(S, L) => RotateGoing(S, L)'
    BY <1>1, <2>3 DEF RotateGoing, RotateOpen, Shut
  <2>6. QED
    BY <1>1, <2>1, <2>2, <2>4, <2>5 DEF Under
<1>5. JournalSound(S, L)'
  BY <1>1, <1>3, <1>4 DEF StoreSound, JournalSound
<1>6. ASSUME NEW a \in Admins PROVE Knows(S, L, a)'
  <2>1. Ready(a)' /\ (Working(a) => lock)' /\ (pc[a] \in {"finish", "undo"} => job[a].mode = pc[a])'
    BY <1>1 DEF Knows, Ready, Fits, Working
  <2>2. Going(S, L, a)'
    BY <1>1 DEF Knows, Going, Committed, Shut, Folders, Keeps, Stored
  <2>3. Undoing(a)'
    BY <1>1 DEF Knows, Undoing, Swapped, Shut, Folders
  <2>4. Folding(S, a)'
    BY <1>1 DEF Knows, Folding, Moves, Stored, Folders
  <2>5. Ending(S, L, a)'
    BY <1>1, <1>3 DEF Knows, Ending
  <2>6. QED
    BY <2>1, <2>2, <2>3, <2>4, <2>5 DEF Knows
<1>7. QED
  BY <1>2, <1>5, <1>6 DEF StoreSound

LEMMA LateKeeps ==
  ASSUME NEW S, NEW L, KeptInv(S, L), LateDevice, S \cap LateItems \subseteq kept
  PROVE  StoreSound(S, L)' /\ \A a \in Admins : Knows(S, L, a)'
<1>1. /\ UNCHANGED <<lock, plan, recovery, head, pc, job, used>>
      /\ \A f \in Folders \ {"items"} : held'[f] = held[f] /\ dir'[f] = dir[f]
      /\ ~Shut /\ dir'["items"] = "folder" /\ PlainCopies("items")'
      /\ \A i \in S : Stored(i, "items") => Stored(i, "items")'
  BY LateEffect
<1>2. QED
  BY <1>1, ItemsTouched

\* Commands take turns: whoever acts, the others are idle, and know nothing.
TurnsTaken == ~OverlapChanges /\ ~OverlapRecovery

LEMMA OneActs ==
  ASSUME NEW S, NEW L, KeptInv(S, L), TurnsTaken, NEW a \in Admins, Start(a) \/ Step(a) \/ Faults(a)
  PROVE  /\ \A b \in Admins \ {a} : pc[b] = "idle"
         /\ \A b \in Admins \ {a} : pc'[b] = "idle"
<1> USE DEF KeptInv, Typed, TypeOK
<1>1. CASE Start(a)
  <2>1. Alone
    BY <1>1 DEF Start, Inspect, ClaimRecovery, TakeOverRecovery, MayChange, MayRecover, TurnsTaken
  <2>2. \A b \in Admins \ {a} : pc'[b] = pc[b]
    <3>1. pc' = pc \/ \E s : pc' = [pc EXCEPT ![a] = s]
      BY <1>1, Zenon DEF Start, Inspect, ClaimRecovery, TakeOverRecovery, Goto
    <3>2. QED
      BY <3>1
  <2>3. QED
    BY <2>1, <2>2 DEF Alone
<1>2. CASE Step(a)
  <2>1. pc[a] # "idle"
    BY <1>2, Zenon DEF Step, Publish, PublishRefused, ClearItems, FoldStep, FoldNext, WriteStopFile, StopStep, RestopStep,
       MoveSource, FoldIntoSource, Copy, Verify, Install, Swap, CleanSource, Release, Finish, Undo,
       Unstage, RemoveStopFile, RestoreSource, RestoreHead, RevertNew, RevertOld, RevertWords,
       RestorePlain, Refused
  <2>2. \A b \in Admins \ {a} : pc'[b] = pc[b]
    <3>1. CASE ClearItems(a) \/ FoldIntoSource(a) \/ RestoreSource(a) \/ RestorePlain(a)
      BY <3>1, SMTT(30) DEF ClearItems, FoldIntoSource, RestoreSource, RestorePlain, Fold, Goto
    <3>2. CASE FoldStep(a)
      BY <3>2 DEF FoldStep, FoldNext, Goto
    <3>3. CASE ~(ClearItems(a) \/ FoldIntoSource(a) \/ RestoreSource(a) \/ RestorePlain(a) \/ FoldStep(a))
      BY <1>2, <3>3 DEF Step, Publish, PublishRefused, WriteStopFile, StopStep, RestopStep, MoveSource, Copy,
         Verify, Install, Swap, CleanSource, Release, Finish, Undo, Unstage, RemoveStopFile,
         RestoreHead, RevertNew, RevertOld, RevertWords, Refused, GiveUp, Goto
    <3>4. QED
      BY <3>1, <3>2, <3>3
  <2>3. \A b \in Admins \ {a} : pc[b] = "idle"
    BY <2>1 DEF Solo
  <2>4. QED
    BY <2>2, <2>3
<1>3. CASE Faults(a)
  <2>1. pc[a] # "idle" /\ \A b \in Admins \ {a} : pc'[b] = pc[b]
    BY <1>3 DEF Faults, Fail, Crash, CrashRemoving, CrashReleasing, GiveUp, Goto
  <2>2. QED
    BY <2>1 DEF Solo
<1>4. QED
  BY <1>1, <1>2, <1>3

LEMMA IdleKnows == ASSUME NEW S, NEW L, NEW b \in Admins, pc[b] = "idle" PROVE Knows(S, L, b)
BY DEF Knows, Ready, Going, Undoing, Folding, Ending, Working,
   Forward, Backward, Shutting, Moving, Reverting, Unstaging

LEMMA NextKeeps ==
  ASSUME NEW S, NEW L, KeptInv(S, L), TurnsTaken, [ChangeNext]_changeVars, S \cap LateItems \subseteq kept
  PROVE  KeptInv(S, L)'
<1>1. Typed'
  BY NextTyped DEF KeptInv
<1>2. ASSUME NEW a \in Admins, Start(a) \/ Step(a) \/ Faults(a) PROVE KeptInv(S, L)'
  <2>1. StoreSound(S, L)' /\ Knows(S, L, a)'
    BY <1>2, StartKeeps, StepKeeps, FaultKeeps
  <2>2. \A b \in Admins \ {a} : pc'[b] = "idle"
    BY <1>2, OneActs
  <2>3. ASSUME NEW b \in Admins \ {a} PROVE Knows(S, L, b)'
    BY <2>2 DEF Knows, Ready, Going, Undoing, Folding, Ending, Working,
       Forward, Backward, Shutting, Moving, Reverting, Unstaging
  <2>4. Solo'
    BY <2>2 DEF Solo
  <2>5. QED
    BY <1>1, <2>1, <2>3, <2>4 DEF KeptInv
<1>3. CASE LateDevice
  <2>1. pc' = pc
    BY <1>3 DEF LateDevice
  <2>2. QED
    BY <1>1, <1>3, <2>1, LateKeeps DEF KeptInv, Solo
<1>4. CASE UNCHANGED changeVars
  <2>1. UNCHANGED <<lock, plan, recovery, head, dir, held, kept, pc, job, used>>
    BY <1>4 DEF changeVars, layoutVars, adminVars
  <2>2. StoreSound(S, L)'
    BY <2>1, TreeStays DEF KeptInv, StoreSound, JournalSound, HeadersMade
  <2>3. ASSUME NEW a \in Admins PROVE Knows(S, L, a)'
    BY <2>1, TreeStays DEF KeptInv, Knows, Working, Ready, Going, Undoing, Folding, Ending, Moves,
       Fits, Keeps, Stored
  <2>4. QED
    BY <1>1, <2>1, <2>2, <2>3 DEF KeptInv, Solo
<1>5. QED
  BY <1>2, <1>3, <1>4 DEF ChangeNext

LEMMA InitKeeps ==
  ASSUME NEW S, NEW L, S \subseteq kept, ChangeInit
  PROVE  KeptInv(S, L)
<1>1. Typed
  BY InitTyped
<1> USE <1>1, Shapes
<1>2. /\ lock = FALSE /\ plan = NoPlan /\ recovery = FALSE /\ \A p \in InLock : head[p] = NoHeader
      /\ head["encryption"] = agreed /\ \A a \in Admins : pc[a] = "idle"
  BY DEF ChangeInit, InLock, Places
<1>3. \A i, k : Whole(i, k).item = i /\ Whole(i, k).key = k
  BY DEF Whole
<1>4. CASE agreed = NoHeader
  <2>1. /\ dir["items"] \in {"absent", "folder"}
        /\ kept # {} => dir["items"] = "folder"
        /\ held["items"] = {Whole(i, NoKey) : i \in kept}
        /\ \A f \in Folders \ {"items"} : dir[f] = "absent" /\ held[f] = {}
    BY <1>4 DEF ChangeInit, Folders, Headers
  <2>2. TreeSound
    BY <1>3, <2>1 DEF TreeSound, PlainCopies, Folders
  <2>3. PlainRest(S)
    BY <2>1 DEF PlainRest, Shut, Stored, Folders
  <2>4. HeadersMade
    BY <1>2, <1>4 DEF HeadersMade, Places, InLock
  <2>5. QED
    BY <1>2, <1>4, <2>2, <2>3, <2>4, IdleKnows DEF KeptInv, StoreSound, JournalSound, AtRest, Solo
<1>5. CASE agreed # NoHeader
  <2>1. /\ used = {agreed.key} /\ dir["items"] = "file" /\ dir["v2/items"] = "folder"
        /\ held["v2/items"] = {Whole(i, agreed.key) : i \in kept}
        /\ \A f \in Folders \ {"items", "v2/items"} : dir[f] = "absent"
        /\ \A f \in Folders \ {"v2/items"} : held[f] = {}
    BY <1>5 DEF ChangeInit, Folders
  <2>2. TreeSound
    BY <2>1 DEF TreeSound, PlainCopies, Folders
  <2>3. SealedRest(S, L, agreed.key)
    BY <1>3, <2>1 DEF SealedRest, Shut, SealedCopies, Keeps, Stored, Folders
  <2>4. HeadersMade
    BY <1>2, <2>1 DEF HeadersMade, Places, InLock
  <2>5. QED
    BY <1>2, <1>5, <2>2, <2>3, <2>4, IdleKnows DEF KeptInv, StoreSound, JournalSound, AtRest, Solo
<1>6. QED
  BY <1>4, <1>5

--------------------------------------------------------------------------------
(***************************************************************************)
(* What the invariant says of the properties.                              *)
(***************************************************************************)
LEMMA KeptOpenable ==
  ASSUME NEW S, NEW L, KeptInv(S, L), NEW i \in S, NEW f \in Folders, NEW p \in Places,
         Whole(i, head[p].key) \in held[f] \/ Stored(i, f)
  PROVE  \E g \in Folders : \E c \in held[g] : c.item = i /\ Openable(c)
<1>1. \A k : Whole(i, k).item = i /\ Whole(i, k).key = k /\ Whole(i, k).whole = TRUE
  BY DEF Whole
<1>2. QED
  BY <1>1 DEF Openable, Stored

LEMMA KeptNothingLost ==
  ASSUME NEW S, NEW L, KeptInv(S, L), kept \subseteq S
  PROVE  NothingLost
<1> SUFFICES ASSUME NEW i \in S
             PROVE  \E f \in Folders : \E c \in held[f] : c.item = i /\ Openable(c)
  BY DEF NothingLost
<1> USE Shapes DEF KeptInv
<1>1. SUFFICES \E f \in Folders : (\E p \in Places : Whole(i, head[p].key) \in held[f]) \/ Stored(i, f)
  <2>1. "header" \in Places
    BY DEF Places
  <2>2. QED
    BY <1>1, <2>1, KeptOpenable
<1> USE DEF Folders, Places
<1>2. AtRest(S, L) => \E f \in Folders : (\E p \in Places : Whole(i, head[p].key) \in held[f]) \/ Stored(i, f)
  BY DEF AtRest, PlainRest, SealedRest, Keeps
<1>3. Committed(S, L) => \E f \in Folders : (\E p \in Places : Whole(i, head[p].key) \in held[f]) \/ Stored(i, f)
  BY DEF Committed, Keeps
<1>4. CASE plan = NoPlan
  BY <1>2, <1>4 DEF StoreSound, JournalSound
<1>5. CASE plan # NoPlan
  <2>1. Under(S, L) /\ plan.kind \in Kinds
    BY <1>5 DEF StoreSound, JournalSound
  <2>2. CASE plan.kind = "words"
    BY <1>5, <2>1, <2>2 DEF Under, WordsGoing, SealedRest, Keeps, Opens
  <2>3. CASE plan.kind \in {"set-up", "fresh-start"}
    BY <2>1, <2>3 DEF Under, SetUpGoing
  <2>4. CASE plan.kind = "migrate"
    BY <1>3, <2>1, <2>4 DEF Under, MigrateGoing, MigrateOpen
  <2>5. CASE plan.kind = "rotate"
    <3>1. CASE RotateOpen(S, L)
      BY <3>1 DEF RotateOpen, OldHeader, Keeps
    <3>2. QED
      BY <1>3, <2>1, <2>5, <3>1 DEF Under, RotateGoing
  <2>6. QED
    BY <2>1, <2>2, <2>3, <2>4, <2>5 DEF Kinds, HeaderChanges, Rewrites
<1>6. QED
  BY <1>4, <1>5

LEMMA KeptOpens ==
  ASSUME NEW S, NEW L, KeptInv(S, L), kept \subseteq S
  PROVE  UnlockedOpens
<1> SUFFICES ASSUME ~lock
             PROVE  /\ Classify \in {"plain", "encrypted"}
                    /\ \A i \in S :
                         \/ Whole(i, head["encryption"].key) \in held[ItemsOf(head["encryption"].key)]
                         \/ Classify = "encrypted" /\ Whole(i, NoKey) \in held["plain/items"]
  BY DEF UnlockedOpens
<1> USE Shapes DEF KeptInv
<1>1. AtRest(S, L)
  BY DEF StoreSound, JournalSound
<1>2. CASE head["encryption"] = NoHeader
  <2>1. PlainRest(S) /\ Classify = "plain"
    BY <1>1, <1>2 DEF AtRest, Classify, PlainRest, Shut
  <2>2. QED
    BY <1>2, <2>1 DEF PlainRest, Stored, ItemsOf
<1>3. CASE head["encryption"] # NoHeader
  <2>1. SealedRest(S, L, head["encryption"].key) /\ Classify = "encrypted"
    BY <1>1, <1>3 DEF AtRest, Classify, SealedRest, Shut
  <2>2. head["encryption"].key # NoKey
    BY <1>3 DEF Places
  <2>3. QED
    BY <2>1, <2>2 DEF SealedRest, Keeps, Stored, ItemsOf
<1>4. QED
  BY <1>2, <1>3

\* What is out of place in an open store is in L.
LEMMA KeptSealed ==
  ASSUME NEW S, NEW L, KeptInv(S, L), ~lock
  PROVE  /\ dir["source"] = "absent"
         /\ SealedCopies(L, "v2/items", head["encryption"].key)
         /\ Classify = "encrypted" => held["items"] = {}
<1> USE Shapes DEF KeptInv
<1>1. AtRest(S, L)
  BY DEF StoreSound, JournalSound
<1>2. CASE head["encryption"] = NoHeader
  BY <1>1, <1>2 DEF AtRest, PlainRest, SealedCopies, Classify
<1>3. CASE head["encryption"] # NoHeader
  <2>1. SealedRest(S, L, head["encryption"].key)
    BY <1>1, <1>3 DEF AtRest
  <2>2. held["items"] = {}
    BY <2>1 DEF StoreSound, TreeSound, SealedRest, Shut, Folders
  <2>3. QED
    BY <2>1, <2>2 DEF SealedRest
<1>4. QED
  BY <1>2, <1>3

\* No administrator tells a device anything.
LEMMA NextFrame == ASSUME [ChangeNext]_changeVars PROVE kept' = kept
<1>1. ASSUME NEW a \in Admins, Start(a) PROVE kept' = kept
  BY <1>1 DEF Start, Inspect, ClaimRecovery, TakeOverRecovery, layoutVars
<1>2. ASSUME NEW a \in Admins, Faults(a) PROVE kept' = kept
  BY <1>2 DEF Faults, Fail, Crash, CrashRemoving, CrashReleasing, GiveUp, layoutVars
<1>3. ASSUME NEW a \in Admins, Step(a) PROVE kept' = kept
  BY <1>3 DEF Step, Publish, PublishRefused, ClearItems, FoldStep, FoldNext, WriteStopFile, StopStep,
     RestopStep, MoveSource, FoldIntoSource, Copy, Verify, Install, Swap, CleanSource, Release, Finish,
     Undo, Unstage, RemoveStopFile, RestoreSource, RestoreHead, RevertNew, RevertOld, RevertWords,
     RestorePlain, Refused, GiveUp, layoutVars
<1>4. CASE LateDevice \/ UNCHANGED changeVars
  BY <1>4 DEF LateDevice, changeVars, layoutVars
<1>5. QED
  BY <1>1, <1>2, <1>3, <1>4 DEF ChangeNext

\* While only administrators write, what is to stay is what is kept, and
\* nothing is out of place.
LEMMA KeptStays ==
  ASSUME TurnsTaken, KeptInv(kept, {}), [ChangeNext]_changeVars
  PROVE  KeptInv(kept, {})'
<1>1. kept' = kept
  BY NextFrame
<1>2. \A S : KeptInv(S, {}) /\ S \cap LateItems \subseteq kept => KeptInv(S, {})'
  BY NextKeeps
<1>3. \A S : S = kept => KeptInv(S, {})'
  BY <1>2
<1>4. QED
  BY <1>1, <1>3

LEMMA KeptInit == ChangeInit => KeptInv(kept, {})
<1> SUFFICES ASSUME ChangeInit PROVE KeptInv(kept, {})
  OBVIOUS
<1>1. \A S : S \subseteq kept => KeptInv(S, {})
  BY InitKeeps
<1>2. QED
  BY <1>1

LEMMA KeptGives ==
  ASSUME KeptInv(kept, {})
  PROVE  NothingLost /\ UnlockedOpens /\ UnlockedSealed
<1>1. \A S : S = kept /\ KeptInv(S, {}) => NothingLost /\ UnlockedOpens
  BY KeptNothingLost, KeptOpens
<1>2. \A S : KeptInv(S, {}) /\ ~lock =>
        /\ dir["source"] = "absent"
        /\ SealedCopies({}, "v2/items", head["encryption"].key)
        /\ Classify = "encrypted" => held["items"] = {}
  BY KeptSealed
<1>3. QED
  BY <1>1, <1>2 DEF UnlockedSealed, SealedCopies

\* Where administrators take turns, no item devices were told the store keeps
\* is lost at any step, whatever stops or fails: it is somewhere in the tree,
\* whole, plaintext or under a key a header in the tree wraps.
THEOREM ChangeLosesNothing == ASSUME TurnsTaken PROVE ChangeSpec => []NothingLost
<1>1. KeptInv(kept, {}) /\ [ChangeNext]_changeVars => KeptInv(kept, {})'
  BY KeptStays
<1>2. KeptInv(kept, {}) => NothingLost
  BY KeptGives
<1>3. QED
  BY <1>1, <1>2, KeptInit, PTL DEF ChangeSpec

\* And whenever the lock is gone the store is plain or encrypted, never in
\* pieces: every kept item is where a client that opens it looks.
THEOREM ChangeLeavesOpen == ASSUME TurnsTaken PROVE ChangeSpec => []UnlockedOpens
<1>1. KeptInv(kept, {}) /\ [ChangeNext]_changeVars => KeptInv(kept, {})'
  BY KeptStays
<1>2. KeptInv(kept, {}) => UnlockedOpens
  BY KeptGives
<1>3. QED
  BY <1>1, <1>2, KeptInit, PTL DEF ChangeSpec

\* Nor does it then hold a copy under another key than its header's, or the
\* source of a re-encryption.
THEOREM ChangeLeavesSealed == ASSUME TurnsTaken PROVE ChangeSpec => []UnlockedSealed
<1>1. KeptInv(kept, {}) /\ [ChangeNext]_changeVars => KeptInv(kept, {})'
  BY KeptStays
<1>2. KeptInv(kept, {}) => UnlockedSealed
  BY KeptGives
<1>3. QED
  BY <1>1, <1>2, KeptInit, PTL DEF ChangeSpec

--------------------------------------------------------------------------------
(***************************************************************************)
(* Which header the store has, as long as a lock is never left in pieces.  *)
(* `Unfinished` is the new one under the lock; the one agreed on is in its *)
(* place until it is set aside for the swap.                               *)
(***************************************************************************)
HeadSound ==
  /\ ~lock => head["encryption"] = agreed
  /\ lock =>
       /\ plan # NoPlan /\ Unfinished.key = plan.to
       /\ plan.kind = "words" => agreed # NoHeader
       /\ head["header"] = NoHeader => head["previous"] = agreed
       /\ head["header"] # NoHeader =>
            \/ head["encryption"] = agreed /\ head["previous"] = NoHeader
            \/ head["encryption"] = NoHeader /\ head["previous"] = agreed

\* A command that goes forward reports the new header, one that goes back has
\* put the agreed one in its place before it ends.
KnowsHead(a) ==
  /\ pc[a] \in Forward \cup {"release"} /\ job[a].mode # "undo" => job[a].hdr = Unfinished
  /\ pc[a] \in {"clean", "release"} /\ job[a].mode # "undo" => head["header"] = NoHeader
  /\ pc[a] = "release" /\ job[a].mode = "undo" => head["encryption"] = agreed
  /\ pc[a] = "rev-old" => head["header"] # NoHeader
  /\ pc[a] \in Reverting \ {"rev-new", "rev-old"} => head["encryption"] = agreed

HeadInv(S, L) == KeptInv(S, L) /\ HeadSound /\ \A a \in Admins : KnowsHead(a)

\* The steps that move a header, or take or drop the lock.
HeadStep(a) ==
  \/ Publish(a) \/ Install(a) \/ Swap(a) \/ Release(a)
  \/ RestoreHead(a) \/ RevertNew(a) \/ RevertOld(a) \/ RevertWords(a)

\* What the moving of a folder does to the command itself.
LEMMA FoldProgress ==
  ASSUME Typed, NEW a \in Admins, NEW from, NEW to, NEW folding, NEW done,
         Fold(a, from, to, folding, done)
  PROVE  /\ pc'[a] \in {folding, done}
         /\ job'[a].hdr = job[a].hdr /\ job'[a].mode = job[a].mode /\ job'[a].kind = job[a].kind
<1>1. pc \in [Admins -> Steps] /\ job \in [Admins -> Jobs]
  BY DEF Typed, TypeOK
<1>2. /\ pc'[a] \in {folding, done}
      /\ \/ job' = job
         \/ job' = [job EXCEPT ![a] = [job[a] EXCEPT !.from = from, !.to = to, !.todo = held[from]]]
  BY <1>1 DEF Fold, Goto
<1>3. QED
  BY <1>1, <1>2 DEF Jobs

LEMMA FoldNextProgress ==
  ASSUME Typed, NEW a \in Admins, NEW folding, NEW done, FoldNext(a, folding, done)
  PROVE  /\ UNCHANGED <<lock, plan, head, agreed>>
         /\ pc[a] = folding /\ pc'[a] \in {folding, done}
         /\ job'[a].hdr = job[a].hdr /\ job'[a].mode = job[a].mode /\ job'[a].kind = job[a].kind
<1>1. pc \in [Admins -> Steps] /\ job \in [Admins -> Jobs]
  BY DEF Typed, TypeOK
<1>2. /\ UNCHANGED <<lock, plan, head, agreed>> /\ pc[a] = folding /\ pc'[a] \in {folding, done}
      /\ \/ job' = job
         \/ \E c : job' = [job EXCEPT ![a].todo = @ \ {c}]
  BY <1>1 DEF FoldNext, Goto, Quiet
<1>3. CASE job' = job
  BY <1>2, <1>3
<1>4. ASSUME NEW c, job' = [job EXCEPT ![a].todo = @ \ {c}]
      PROVE  job'[a].hdr = job[a].hdr /\ job'[a].mode = job[a].mode /\ job'[a].kind = job[a].kind
  BY <1>1, <1>4 DEF Jobs
<1>5. QED
  BY <1>2, <1>3, <1>4

\* Every other step leaves the headers alone; what of the command's progress
\* bears on them.
LEMMA OtherSteps ==
  ASSUME Typed, NEW a \in Admins, Step(a), ~HeadStep(a)
  PROVE  /\ UNCHANGED <<lock, plan, head, agreed>>
         /\ \/ pc'[a] = "idle"
            \/ pc[a] = "finish" /\ pc'[a] \in Forward /\ job'[a].hdr = Unfinished
               /\ (pc'[a] = "clean" => Swapped)
            \/ pc[a] = "undo" /\ (pc'[a] = "release" => plan = NoPlan)
               /\ pc'[a] \in {"release", "unstage", "rev-new"} /\ job'[a].mode = job[a].mode
            \/ pc[a] \in Forward /\ pc'[a] \in (Forward \ {"clean"}) \cup {"release"}
               /\ (pc'[a] = "release" => pc[a] = "clean")
               /\ job'[a].hdr = job[a].hdr /\ job'[a].mode = job[a].mode
            \/ pc[a] \in Unstaging /\ pc'[a] \in Unstaging \cup {"release"}
               /\ (pc'[a] = "release" => job[a].kind = "migrate" \/ pc[a] = "unsource-fold")
               /\ job'[a].mode = job[a].mode
            \/ pc[a] \in {"rev-stop", "rev-plain", "rev-fold"}
               /\ pc'[a] \in {"rev-plain", "rev-fold", "release"}
               /\ job'[a].mode = job[a].mode
<1> USE DEF Typed, TypeOK, Goto, Quiet, Forward, Shutting, Moving, Unstaging
<1>1. CASE PublishRefused(a) \/ Refused(a)
  BY <1>1 DEF PublishRefused, Refused, GiveUp, layoutVars
<1>2. CASE ClearItems(a)
  <2>1. /\ UNCHANGED <<lock, plan, head, agreed>> /\ pc[a] \in {"clear", "reclear"}
        /\ \/ pc'[a] \in {"stop", "restop"} /\ job' = job
           \/ \E folding \in {"clear-fold", "reclear-fold"}, done \in {"stop", "restop"} :
                Fold(a, "items", "plain/items", folding, done)
    BY <1>2 DEF ClearItems
  <2>2. QED
    BY <2>1, FoldProgress
<1>3. CASE FoldStep(a)
  BY <1>3, FoldNextProgress DEF FoldStep
<1>4. CASE WriteStopFile(a)
  BY <1>4 DEF WriteStopFile, StopStep, RestopStep
<1>5. CASE MoveSource(a) \/ FoldIntoSource(a)
  <2>1. CASE MoveSource(a)
    BY <2>1 DEF MoveSource
  <2>2. CASE FoldIntoSource(a)
    <3>1. /\ UNCHANGED <<lock, plan, head, agreed>> /\ pc[a] = "resource"
          /\ Fold(a, "items", "source", "source-fold", "source-restop")
      BY <2>2 DEF FoldIntoSource
    <3>2. QED
      BY <3>1, FoldProgress
  <2>3. QED
    BY <1>5, <2>1, <2>2
<1>6. CASE Copy(a) \/ Verify(a) \/ CleanSource(a)
  BY <1>6 DEF Copy, Verify, CleanSource, layoutVars
<1>7. CASE Finish(a)
  <2>1. job'[a].hdr = Unfinished
    BY <1>7 DEF Finish
  <2>2. QED
    BY <1>7, <2>1 DEF Finish, FirstStep, layoutVars
<1>8. CASE Undo(a)
  BY <1>8 DEF Undo, layoutVars
<1>9. CASE Unstage(a) \/ RemoveStopFile(a)
  BY <1>9 DEF Unstage, RemoveStopFile
<1>10. CASE RestoreSource(a) \/ RestorePlain(a)
  <2>1. /\ UNCHANGED <<lock, plan, head, agreed>>
        /\ \/ pc[a] = "unsource" /\ pc'[a] = "unhead" /\ job' = job
           \/ pc[a] = "unsource" /\ pc'[a] = "release" /\ job' = job /\ job[a].kind = "migrate"
           \/ /\ pc[a] = "unsource" /\ job[a].kind = "migrate"
              /\ Fold(a, "source", "items", "unsource-fold", "release")
           \/ pc[a] = "rev-plain" /\ pc'[a] = "release" /\ job' = job
           \/ pc[a] = "rev-plain" /\ Fold(a, "plain/items", "items", "rev-fold", "release")
    BY <1>10 DEF RestoreSource, RestorePlain
  <2>2. QED
    BY <2>1, FoldProgress
<1>11. QED
  BY <1>1, <1>2, <1>3, <1>4, <1>5, <1>6, <1>7, <1>8, <1>9, <1>10 DEF Step, HeadStep

\* What a command that ends early leaves: the headers, and nothing to know.
LEMMA StopHead ==
  ASSUME NEW S, NEW L, HeadInv(S, L), NEW a \in Admins, pc' = [pc EXCEPT ![a] = "idle"],
         UNCHANGED <<lock, plan, head, agreed>>
  PROVE  HeadSound' /\ KnowsHead(a)'
BY DEF HeadInv, KeptInv, Typed, TypeOK, HeadSound, KnowsHead, Unfinished, Forward, Reverting, Shutting, Moving

LEMMA OtherHead ==
  ASSUME NEW S, NEW L, HeadInv(S, L), NEW a \in Admins, Step(a), ~HeadStep(a)
  PROVE  HeadSound' /\ KnowsHead(a)'
<1> USE Shapes DEF HeadInv, KeptInv
<1>1. UNCHANGED <<lock, plan, head, agreed>>
  BY OtherSteps
<1>2. HeadSound' /\ Unfinished' = Unfinished
  BY <1>1 DEF HeadSound, Unfinished
<1>3. CASE pc'[a] = "idle"
  BY <1>2, <1>3 DEF KnowsHead, Forward, Reverting, Shutting, Moving
<1>4. CASE /\ pc[a] = "finish" /\ pc'[a] \in Forward /\ job'[a].hdr = Unfinished
           /\ pc'[a] = "clean" => Swapped
  BY <1>1, <1>2, <1>4 DEF KnowsHead, Forward, Reverting, Shutting, Moving, Swapped
<1>5. CASE /\ pc[a] = "undo" /\ pc'[a] \in {"release", "unstage", "rev-new"}
           /\ pc'[a] = "release" => plan = NoPlan
           /\ job'[a].mode = job[a].mode
  <2>1. lock
    BY <1>5 DEF Knows, Working
  <2>2. pc'[a] # "release"
    BY <1>5, <2>1 DEF HeadSound
  <2>3. QED
    BY <1>2, <1>5, <2>2 DEF KnowsHead, Forward, Reverting, Shutting, Moving
<1>6. CASE /\ pc[a] \in Forward /\ pc'[a] \in (Forward \ {"clean"}) \cup {"release"}
           /\ pc'[a] = "release" => pc[a] = "clean"
           /\ job'[a].hdr = job[a].hdr /\ job'[a].mode = job[a].mode
  <2>1. job[a].mode # "undo"
    BY <1>6 DEF Knows, Going
  <2>2. QED
    BY <1>1, <1>2, <1>6, <2>1 DEF KnowsHead, Forward, Reverting, Shutting, Moving
<1>7. CASE /\ pc[a] \in Unstaging /\ pc'[a] \in Unstaging \cup {"release"}
           /\ pc'[a] = "release" => job[a].kind = "migrate" \/ pc[a] = "unsource-fold"
           /\ job'[a].mode = job[a].mode
  <2>1. job[a].mode = "undo" /\ plan # NoPlan /\ ~Swapped /\ job[a].kind = plan.kind /\ lock
    BY <1>7 DEF Knows, Undoing, Backward, Unstaging, Working
  <2>2. ASSUME pc'[a] = "release" PROVE head["encryption"] = agreed
    <3>1. plan.kind = "migrate"
      BY <1>7, <2>1, <2>2 DEF Knows, Undoing, Backward, Unstaging
    <3>2. MigrateGoing(S, L)
      BY <2>1, <3>1 DEF StoreSound, JournalSound, Under
    <3>3. head["previous"] = NoHeader /\ head["encryption"] = NoHeader
      BY <2>1, <3>2 DEF MigrateGoing, MigrateOpen, Committed, Swapped
    <3>4. head["header"] # NoHeader
      BY <2>1, <3>3 DEF HeadSound, Unfinished, Places
    <3>5. QED
      BY <2>1, <3>3, <3>4 DEF HeadSound
  <2>3. QED
    BY <1>1, <1>2, <1>7, <2>1, <2>2 DEF KnowsHead, Forward, Reverting, Shutting, Moving, Unstaging
<1>8. CASE /\ pc[a] \in {"rev-stop", "rev-plain", "rev-fold"}
           /\ pc'[a] \in {"rev-plain", "rev-fold", "release"}
           /\ job'[a].mode = job[a].mode
  <2>1. job[a].mode = "undo" /\ head["encryption"] = agreed
    BY <1>8 DEF Knows, KnowsHead, Undoing, Backward, Reverting
  <2>2. QED
    BY <1>1, <1>2, <1>8, <2>1 DEF KnowsHead, Forward, Reverting, Shutting, Moving
<1>9. QED
  BY <1>2, <1>3, <1>4, <1>5, <1>6, <1>7, <1>8, OtherSteps

LEMMA PublishHead ==
  ASSUME NEW S, NEW L, HeadInv(S, L), NEW a \in Admins, Publish(a)
  PROVE  HeadSound' /\ KnowsHead(a)'
<1> USE Shapes DEF HeadInv, KeptInv
<1>1. /\ pc[a] = "publish" /\ ~lock /\ head["encryption"] = agreed /\ head["previous"] = NoHeader
      /\ job[a].kind \in Kinds /\ job[a].hdr \in Headers /\ job[a].mode = "run"
  BY DEF Publish, HeadSound, StoreSound, JournalSound, InLock, Typed, Prepared, Knows, Ready
<1>2. /\ lock' /\ plan'.kind = job[a].kind /\ plan'.to = job[a].hdr.key /\ UNCHANGED <<agreed, job>>
      /\ head'["encryption"] = head["encryption"] /\ head'["previous"] = head["previous"]
      /\ head'["header"] = job[a].hdr
      /\ pc'[a] \in {"install", "source", "clear"}
  BY DEF Publish, FirstStep, Goto, Quiet, Places, Typed, TypeOK
<1>3. plan'.kind = "words" => agreed # NoHeader
  BY <1>1, <1>2 DEF Knows, Ready, Fits
<1>4. plan' # NoPlan /\ Unfinished' = job[a].hdr
  BY <1>1, <1>2 DEF NoPlan, Kinds, HeaderChanges, Rewrites, Unfinished
<1>5. QED
  BY <1>1, <1>2, <1>3, <1>4 DEF HeadSound, KnowsHead, Forward, Reverting, Shutting, Moving

LEMMA CommitHead ==
  ASSUME NEW S, NEW L, HeadInv(S, L), NEW a \in Admins, Install(a) \/ Swap(a)
  PROVE  HeadSound' /\ KnowsHead(a)'
<1> USE Shapes DEF HeadInv, KeptInv
<1>1. /\ pc[a] \in {"install", "swap"} /\ lock /\ job[a].mode # "undo" /\ job[a].hdr = Unfinished
      /\ plan # NoPlan
  BY DEF Install, Swap, Knows, Going, Working, Forward, KnowsHead
<1>2. UNCHANGED <<lock, plan, agreed, job>> /\ pc'[a] \in {"swap", "clean", "release"}
  BY DEF Install, Swap, AfterSwap, Goto, Quiet, Typed, TypeOK
<1>3. \/ head' = head /\ (pc'[a] # "swap" => head["header"] = NoHeader)
      \/ /\ head["header"] # NoHeader /\ head["encryption"] # NoHeader /\ head["previous"] = NoHeader
         /\ head'["encryption"] = NoHeader /\ head'["previous"] = head["encryption"]
         /\ head'["header"] = head["header"] /\ pc'[a] = "swap"
      \/ /\ head["header"] # NoHeader /\ head["encryption"] = NoHeader
         /\ head'["encryption"] = head["header"] /\ head'["previous"] = head["previous"]
         /\ head'["header"] = NoHeader
  BY DEF Install, Swap, MoveHeader, Places, Goto, Typed, TypeOK
<1>4. HeadSound' /\ Unfinished' = Unfinished
  BY <1>1, <1>2, <1>3 DEF HeadSound, Unfinished
<1>5. QED
  BY <1>1, <1>2, <1>3, <1>4 DEF KnowsHead, Forward, Reverting, Shutting, Moving

LEMMA ReleaseHead ==
  ASSUME NEW S, NEW L, HeadInv(S, L), NEW a \in Admins, Release(a)
  PROVE  HeadSound' /\ KnowsHead(a)'
<1> USE Shapes DEF HeadInv, KeptInv
<1>1. /\ lock' = FALSE /\ head'["encryption"] = head["encryption"]
      /\ agreed' = IF job[a].mode = "undo" THEN agreed ELSE job[a].hdr
      /\ pc'[a] = "idle" /\ pc[a] = "release"
  BY DEF Release, Places, InLock, Goto, Typed, TypeOK
<1>2. head["encryption"] = agreed'
  BY <1>1 DEF KnowsHead, Unfinished
<1>3. QED
  BY <1>1, <1>2 DEF HeadSound, KnowsHead, Forward, Reverting, Shutting, Moving

LEMMA RestoreHeadHead ==
  ASSUME NEW S, NEW L, HeadInv(S, L), NEW a \in Admins, RestoreHead(a)
  PROVE  HeadSound' /\ KnowsHead(a)'
<1> USE Shapes DEF HeadInv, KeptInv
<1>1. /\ pc[a] = "unhead" /\ plan # NoPlan /\ lock /\ plan.kind = "rotate" /\ ~Swapped
      /\ job[a].mode = "undo" /\ job[a].kind = "rotate"
  BY DEF RestoreHead, Knows, Undoing, Backward, Unstaging, Working
<1>2. UNCHANGED <<lock, plan, agreed, job>> /\ pc'[a] = "release"
  BY DEF RestoreHead, Goto, Quiet, Typed, TypeOK
<1>3. head["header"] # NoHeader /\ RotateOpen(S, L)
  BY <1>1 DEF HeadSound, Unfinished, Swapped, StoreSound, JournalSound, Under, RotateGoing, Committed
<1>4. \/ head["encryption"] # NoHeader /\ head' = head
      \/ /\ head["encryption"] = NoHeader /\ head["previous"] # NoHeader
         /\ head'["encryption"] = head["previous"] /\ head'["previous"] = NoHeader
         /\ head'["header"] = head["header"]
  BY <1>3 DEF RestoreHead, MoveHeader, Places, RotateOpen, OldHeader
<1>5. HeadSound' /\ head'["encryption"] = agreed
  BY <1>1, <1>2, <1>3, <1>4 DEF HeadSound, Unfinished
<1>6. QED
  BY <1>1, <1>2, <1>5 DEF KnowsHead, Forward, Reverting, Shutting, Moving

LEMMA RevertHead ==
  ASSUME NEW S, NEW L, HeadInv(S, L), NEW a \in Admins, RevertNew(a) \/ RevertOld(a) \/ RevertWords(a)
  PROVE  HeadSound' /\ KnowsHead(a)'
<1> USE Shapes DEF HeadInv, KeptInv
<1>1. /\ pc[a] \in {"rev-new", "rev-old", "rev-words"} /\ plan # NoPlan /\ lock
      /\ job[a].mode = "undo" /\ job[a].kind = plan.kind /\ plan.kind \in HeaderChanges
      /\ pc[a] = "rev-words" => plan.kind = "words"
  BY DEF RevertNew, RevertOld, RevertWords, Knows, Undoing, Backward, Reverting, Working
<1>2. UNCHANGED <<lock, plan, agreed, job>>
  BY DEF RevertNew, RevertOld, RevertWords, Quiet
<1>3. CASE RevertNew(a)
  <2>1. /\ pc'[a] = "rev-old"
        /\ \/ (head["header"] # NoHeader \/ head["encryption"] = NoHeader) /\ head' = head
           \/ /\ head["header"] = NoHeader /\ head["encryption"] # NoHeader
              /\ head'["encryption"] = NoHeader /\ head'["header"] = head["encryption"]
              /\ head'["previous"] = head["previous"]
    BY <1>3 DEF RevertNew, MoveHeader, Places, Goto, Typed, TypeOK
  <2>2. HeadSound' /\ head'["header"] # NoHeader
    BY <1>1, <1>2, <2>1 DEF HeadSound, Unfinished
  <2>3. QED
    BY <1>1, <1>2, <2>1, <2>2 DEF KnowsHead, Forward, Reverting, Shutting, Moving
<1>4. CASE RevertOld(a)
  <2>1. /\ pc[a] = "rev-old" /\ pc'[a] \in {"rev-words", "rev-stop"}
        /\ \/ (head["encryption"] # NoHeader \/ head["previous"] = NoHeader) /\ head' = head
           \/ /\ head["encryption"] = NoHeader /\ head["previous"] # NoHeader
              /\ head'["encryption"] = head["previous"] /\ head'["previous"] = NoHeader
              /\ head'["header"] = head["header"]
    BY <1>4 DEF RevertOld, MoveHeader, Places, Goto, Typed, TypeOK
  <2>2. head["header"] # NoHeader
    BY <2>1 DEF KnowsHead
  <2>3. HeadSound' /\ head'["encryption"] = agreed
    BY <1>1, <1>2, <2>1, <2>2 DEF HeadSound, Unfinished
  <2>4. QED
    BY <1>1, <1>2, <2>1, <2>3 DEF KnowsHead, Forward, Reverting, Shutting, Moving
<1>5. CASE RevertWords(a)
  <2>1. /\ pc[a] = "rev-words" /\ pc'[a] = "release" /\ head["encryption"] = agreed
        /\ head["encryption"] # NoHeader => head' = head
    BY <1>5 DEF RevertWords, Goto, Typed, TypeOK, KnowsHead, Reverting
  <2>2. head["encryption"] # NoHeader
    BY <1>1, <2>1 DEF HeadSound
  <2>3. QED
    BY <1>1, <1>2, <2>1, <2>2 DEF HeadSound, Unfinished, KnowsHead, Forward, Reverting, Shutting, Moving
<1>6. QED
  BY <1>3, <1>4, <1>5

--------------------------------------------------------------------------------
LEMMA NextHead ==
  ASSUME NEW S, NEW L, TurnsTaken, ~PartialRelease, S \cap LateItems \subseteq kept,
         HeadInv(S, L), [ChangeNext]_changeVars
  PROVE  HeadInv(S, L)'
<1>1. KeptInv(S, L)'
  BY NextKeeps DEF HeadInv
<1>2. ASSUME NEW a \in Admins, Start(a) \/ Step(a) \/ Faults(a), HeadSound' /\ KnowsHead(a)' PROVE HeadInv(S, L)'
  <2>1. \A b \in Admins \ {a} : pc'[b] = "idle"
    BY <1>2, OneActs DEF HeadInv
  <2>2. ASSUME NEW b \in Admins \ {a} PROVE KnowsHead(b)'
    BY <2>1 DEF KnowsHead, Forward, Reverting, Shutting, Moving
  <2>3. QED
    BY <1>1, <1>2, <2>2 DEF HeadInv
<1>3. ASSUME NEW a \in Admins, Step(a) PROVE HeadInv(S, L)'
  BY <1>2, <1>3, OtherHead, PublishHead, CommitHead, ReleaseHead, RestoreHeadHead, RevertHead DEF HeadStep
<1>4. ASSUME NEW a \in Admins, Start(a) PROVE HeadInv(S, L)'
  <2>1. UNCHANGED <<lock, plan, head, agreed>> /\ pc'[a] \in {"publish", "finish", "undo", "idle"}
    <3>1. CASE \E kind \in Kinds : Inspect(a, kind)
      BY <3>1 DEF Inspect, Goto, layoutVars, HeadInv, KeptInv, Typed, TypeOK
    <3>2. CASE \E mode \in Recoveries : ClaimRecovery(a, mode)
      BY <3>2, OfferedAssumption DEF ClaimRecovery, Goto, Quiet, HeadInv, KeptInv, Typed, TypeOK
    <3>3. CASE TakeOverRecovery(a)
      BY <3>3 DEF TakeOverRecovery, MayRecover, Quiet
    <3>4. QED
      BY <1>4, <3>1, <3>2, <3>3 DEF Start
  <2>2. HeadSound' /\ KnowsHead(a)'
    BY <2>1 DEF HeadInv, HeadSound, KnowsHead, Unfinished, Forward, Reverting, Shutting, Moving
  <2>3. QED
    BY <1>2, <1>4, <2>2
<1>5. ASSUME NEW a \in Admins, Faults(a) PROVE HeadInv(S, L)'
  <2>1. pc' = [pc EXCEPT ![a] = "idle"] /\ UNCHANGED <<lock, plan, head, agreed>>
    BY <1>5 DEF Faults, Fault, Fail, Crash, CrashRemoving, CrashReleasing, GiveUp, Goto, layoutVars
  <2>2. QED
    BY <1>2, <1>5, <2>1, StopHead
<1>6. CASE LateDevice \/ UNCHANGED changeVars
  <2>1. UNCHANGED <<lock, plan, head, agreed, pc, job>>
    BY <1>6 DEF LateDevice, Quiet, changeVars, layoutVars, adminVars
  <2>2. HeadSound' /\ \A a \in Admins : KnowsHead(a)'
    BY <2>1 DEF HeadInv, HeadSound, KnowsHead, Unfinished
  <2>3. QED
    BY <1>1, <2>2 DEF HeadInv
<1>7. QED
  BY <1>3, <1>4, <1>5, <1>6 DEF ChangeNext

\* Where administrators take turns and the lock goes in one step, the header of
\* an open store is the one the last command that succeeded reported, words
\* included: an undo brings back exactly the one before the change.
THEOREM ChangeKeepsHeader ==
  ASSUME TurnsTaken, ~PartialRelease
  PROVE  ChangeSpec => []UnlockedHeader
<1>1. ChangeInit => HeadInv({}, {})
  BY InitKeeps DEF ChangeInit, HeadInv, HeadSound, KnowsHead, Forward, Reverting, Shutting, Moving, Places
<1>2. HeadInv({}, {}) /\ [ChangeNext]_changeVars => HeadInv({}, {})'
  BY NextHead
<1>3. HeadInv({}, {}) => UnlockedHeader
  BY DEF HeadInv, HeadSound, UnlockedHeader
<1>4. QED
  BY <1>1, <1>2, <1>3, PTL DEF ChangeSpec

--------------------------------------------------------------------------------
(***************************************************************************)
(* How a change moves the journal and the headers, whatever stops it.      *)
(***************************************************************************)
LEMMA HeadEffects ==
  ASSUME NEW S, NEW L, KeptInv(S, L), NEW a \in Admins, Start(a) \/ Step(a) \/ Faults(a)
  PROVE  \/ UNCHANGED <<lock, plan, head>>
         \/ Publish(a) \/ Install(a) \/ Swap(a) \/ Release(a) \/ RestoreHead(a)
         \/ RevertNew(a) \/ RevertOld(a) \/ RevertWords(a) \/ CrashReleasing(a)
<1>1. CASE Start(a)
  BY <1>1 DEF Start, Inspect, ClaimRecovery, TakeOverRecovery, layoutVars
<1>2. CASE Step(a)
  BY <1>2, OtherSteps DEF HeadStep, KeptInv
<1>3. CASE Faults(a)
  BY <1>3 DEF Faults, Fail, Crash, CrashRemoving, GiveUp, layoutVars
<1>4. QED
  BY <1>1, <1>2, <1>3

OldPlaces == {"encryption", "previous", "old-header"}

\* A change that takes the lock, one that swaps its header in, one that drops
\* the lock or stops while it does, and what else is done to the headers: they
\* are set aside and put back.
LEMMA HeadMoves ==
  ASSUME NEW S, NEW L, KeptInv(S, L), NEW a \in Admins, Start(a) \/ Step(a) \/ Faults(a)
  PROVE  \/ /\ Publish(a) /\ ~lock /\ lock' /\ plan = NoPlan /\ Fits(job[a].kind)
            /\ job[a].kind \in Kinds /\ plan' # NoPlan
            /\ plan'.kind = job[a].kind /\ plan'.to = job[a].hdr.key
            /\ head'["header"] = job[a].hdr /\ head'["old-header"] = head["encryption"]
            /\ head'["encryption"] = head["encryption"]
            /\ head["previous"] = NoHeader /\ head'["previous"] = NoHeader
         \/ /\ Swap(a) /\ lock /\ lock' /\ plan # NoPlan /\ plan' = plan
            /\ head["header"] # NoHeader /\ head'["encryption"] = head["header"]
            /\ head'["header"] = NoHeader
            /\ head'["previous"] = head["previous"] /\ head'["old-header"] = head["old-header"]
         \/ /\ Release(a) \/ CrashReleasing(a)
            /\ AtRest(S, L) /\ plan' \in {plan, NoPlan} /\ lock
            /\ head'["encryption"] = head["encryption"]
            /\ \A p \in InLock : head'[p] \in {NoHeader, head[p]}
         \/ /\ UNCHANGED <<lock, plan>>
            /\ plan = NoPlan => head' = head
            /\ head'["header"] \in {NoHeader, head["header"], head["encryption"]}
            /\ \A p \in OldPlaces : head'[p] = NoHeader \/ \E q \in OldPlaces : head'[p] = head[q]
<1> USE Shapes DEF KeptInv, OldPlaces
<1>1. CASE Publish(a)
  <2>1. /\ ~lock /\ plan = NoPlan /\ Fits(job[a].kind) /\ job[a].old = head["encryption"]
        /\ head["previous"] = NoHeader /\ job[a].kind \in Kinds
    BY <1>1 DEF Publish, Knows, Ready, StoreSound, JournalSound, InLock, Typed, Prepared
  <2>2. /\ plan'.kind = job[a].kind /\ plan'.to = job[a].hdr.key /\ lock'
        /\ head'["encryption"] = head["encryption"] /\ head'["previous"] = head["previous"]
        /\ head'["old-header"] = job[a].old /\ head'["header"] = job[a].hdr
    BY <1>1 DEF Publish, Places
  <2>3. plan' # NoPlan
    BY <2>1, <2>2 DEF NoPlan, Kinds, HeaderChanges, Rewrites
  <2>4. QED
    BY <1>1, <2>1, <2>2, <2>3
<1>2. CASE Swap(a)
  BY <1>2 DEF Swap, MoveHeader, Places, Knows, Going, Forward, Working
<1>3. CASE Release(a) \/ CrashReleasing(a)
  <2>1. AtRest(S, L) /\ lock
    BY <1>3 DEF Release, CrashReleasing, Knows, Ending, Working
  <2>2. CASE Release(a)
    BY <2>1, <2>2 DEF Release, InLock, Places
  <2>3. CASE CrashReleasing(a)
    <3>1. PICK lost \in SUBSET InLock : head' = [p \in Places |-> IF p \in lost THEN NoHeader ELSE head[p]]
      BY <2>3 DEF CrashReleasing
    <3>2. head'["encryption"] = head["encryption"] /\ \A p \in InLock : head'[p] \in {NoHeader, head[p]}
      BY <3>1 DEF InLock, Places
    <3>3. plan' \in {plan, NoPlan}
      BY <2>3 DEF CrashReleasing
    <3>4. QED
      BY <2>1, <2>3, <3>2, <3>3
  <2>4. QED
    BY <1>3, <2>2, <2>3
<1>4. CASE Install(a) \/ RestoreHead(a) \/ RevertNew(a) \/ RevertOld(a) \/ RevertWords(a)
  <2>1. plan # NoPlan
    BY <1>4 DEF Install, RestoreHead, RevertNew, RevertOld, RevertWords, Knows, Going, Undoing,
       Forward, Backward, Reverting, Unstaging
  <2>2. CASE Install(a)
    BY <2>1, <2>2 DEF Install, MoveHeader, Places
  <2>3. CASE RestoreHead(a)
    BY <2>1, <2>3 DEF RestoreHead, MoveHeader, Places
  <2>4. CASE RevertNew(a) \/ RevertOld(a) \/ RevertWords(a)
    BY <2>1, <2>4 DEF RevertNew, RevertOld, RevertWords, MoveHeader, Places
  <2>5. QED
    BY <1>4, <2>2, <2>3, <2>4
<1>5. CASE UNCHANGED <<lock, plan, head>>
  BY <1>5
<1>6. QED
  BY <1>1, <1>2, <1>3, <1>4, <1>5, HeadEffects

\* No header has a key that none had, but the one a change starts with.
LEMMA KeysCome ==
  ASSUME NEW S, NEW L, KeptInv(S, L), NEW a \in Admins, Start(a) \/ Step(a) \/ Faults(a),
         NEW p \in Places
  PROVE  \/ head'[p].key = NoKey
         \/ \E q \in Places : head'[p].key = head[q].key
         \/ Publish(a) /\ head'[p].key = job[a].hdr.key
<1> USE Shapes DEF Places, InLock, OldPlaces
<1>1. QED
  BY HeadMoves DEF KeptInv

\* An encrypted store stays one: no change back to plaintext starts, and none
\* that is undone takes the header away.
Encrypted ==
  /\ plan.kind \notin {"set-up", "fresh-start", "migrate"}
  /\ plan = NoPlan => head["encryption"] # NoHeader

LEMMA EncryptedStays ==
  ASSUME NEW S, NEW L, KeptInv(S, L), Encrypted, NEW a \in Admins, Start(a) \/ Step(a) \/ Faults(a)
  PROVE  Encrypted'
<1> USE Shapes DEF KeptInv, Encrypted
<1>1. ASSUME AtRest(S, L), plan # NoPlan PROVE head["encryption"] # NoHeader
  <2>1. plan.kind \in {"words", "rotate"}
    BY <1>1 DEF Kinds, HeaderChanges, Rewrites
  <2>2. Shut
    BY <1>1, <2>1 DEF StoreSound, JournalSound, Under, WordsGoing, SealedRest, RotateGoing, RotateOpen, Committed
  <2>3. QED
    BY <1>1, <2>2 DEF AtRest, PlainRest
<1>2. NoPlan.kind \notin {"set-up", "fresh-start", "migrate"}
  BY DEF NoPlan
<1>3. ASSUME plan = NoPlan, Fits(job[a].kind), plan'.kind = job[a].kind, job[a].kind \in Kinds, plan' # NoPlan
      PROVE  Encrypted'
  BY <1>3 DEF Fits
<1>4. QED
  BY <1>1, <1>2, <1>3, HeadMoves

\* The header in place is final while a lock holds no journal any more, and
\* once a rotation has swapped it: no recovery takes it away again.
Settled(S, L) == lock /\ (plan = NoPlan \/ (plan.kind = "rotate" /\ Committed(S, L)))

\* A settled header stays, until the lock goes and after.
LEMMA SettledStays ==
  ASSUME NEW S, NEW L, KeptInv(S, L), KeptInv(S, L)', Settled(S, L), NEW a \in Admins, Start(a) \/ Step(a) \/ Faults(a)
  PROVE  head'["encryption"] = head["encryption"] /\ (lock' => Settled(S, L)')
<1> USE Shapes DEF KeptInv
<1>1. lock /\ (plan # NoPlan => plan.kind = "rotate" /\ Committed(S, L) /\ head["header"] = NoHeader)
  BY DEF Settled, Committed
<1>2. /\ head'["encryption"] = head["encryption"]
      /\ lock' => plan' \in {plan, NoPlan}
  <2>1. CASE UNCHANGED <<lock, plan, head>>
    BY <2>1
  <2>2. ~Publish(a)
    BY <1>1 DEF Publish
  <2>3. CASE Install(a)
    <3>1. plan # NoPlan
      BY <2>3 DEF Install, Knows, Going, Forward
    <3>2. QED
      BY <1>1, <2>3, <3>1 DEF Install
  <2>4. ~Swap(a)
    <3>1. SUFFICES ASSUME Swap(a) PROVE FALSE
      OBVIOUS
    <3>2. plan # NoPlan /\ head["header"] # NoHeader
      BY <3>1 DEF Swap, MoveHeader, Knows, Going, Forward
    <3>3. QED
      BY <1>1, <3>2
  <2>5. CASE Release(a)
    BY <2>5 DEF Release, InLock, Places
  <2>6. CASE CrashReleasing(a)
    BY <2>6 DEF CrashReleasing, InLock, Places
  <2>7. ~RestoreHead(a)
    BY <1>1 DEF RestoreHead, Knows, Undoing, Backward, Unstaging, Swapped, Committed
  <2>8. ~RevertNew(a) /\ ~RevertOld(a) /\ ~RevertWords(a)
    BY <1>1 DEF RevertNew, RevertOld, RevertWords, Knows, Undoing, Backward, Reverting, HeaderChanges
  <2>9. QED
    BY <2>1, <2>2, <2>3, <2>4, <2>5, <2>6, <2>7, <2>8, HeadEffects
<1>3. ASSUME lock', plan' # NoPlan PROVE plan'.kind = "rotate" /\ Committed(S, L)'
  <2>1. plan' = plan /\ plan.kind = "rotate" /\ head["encryption"].key = plan.to
    BY <1>1, <1>2, <1>3 DEF Committed
  <2>2. plan'.kind = "rotate" /\ head'["encryption"].key = plan'.to
    BY <1>2, <2>1
  <2>3. RotateGoing(S, L)' /\ head'["encryption"] # NoHeader
    <3>1. head["encryption"] # NoHeader
      BY <1>1, <1>3, <2>1 DEF Places
    <3>2. QED
      BY <1>2, <1>3, <2>2, <3>1 DEF StoreSound, JournalSound, Under
  <2>4. ~RotateOpen(S, L)'
    BY <2>2, <2>3 DEF RotateOpen, OldHeader
  <2>5. QED
    BY <2>2, <2>3, <2>4 DEF RotateGoing
<1>4. QED
  BY <1>2, <1>3 DEF Settled

--------------------------------------------------------------------------------
(***************************************************************************)
(* The keys devices save.                                                  *)
(***************************************************************************)
Lasting == lasted \cup {NoKey} \cup (IF Settled({}, {}) THEN {head["encryption"].key} ELSE {})

KeysSound ==
  /\ ~lock => head["encryption"].key \in lasted \cup {NoKey}
  /\ plan.kind = "words" => plan.to \in lasted
  /\ plan.kind = "rotate" /\ ~Committed({}, {}) =>
       \A p \in {"encryption", "previous", "old-header"} : head[p].key \in lasted \cup {NoKey}
  /\ joining # {} => Encrypted
  /\ \A d \in Devices : keyFile[d] \in Lasting /\ saving[d] \in Lasting

CommandInv == CommandTypeOK /\ KeptInv({}, {}) /\ KeysSound

\* A step of the command is one of the change, or changes nothing it looks at.
LEMMA CommandSteps ==
  ASSUME CommandNext
  PROVE  \/ ChangeNext
         \/ UNCHANGED changeVars
         \/ UNCHANGED <<layoutVars, pc, job>> /\ Fault
<1>1. ASSUME NEW a \in Admins,
             (\E kind \in Kinds : Encrypt(a, kind)) \/ Recover(a) \/ Proceed(a) \/ StopsShort(a)
      PROVE  Start(a) \/ Step(a) \/ Faults(a)
  BY <1>1 DEF Encrypt, Recover, Proceed, StopsShort, Start
<1>2. ASSUME NEW d \in Devices, LookAtStore(d) \/ ReadHeader(d) \/ SaveKey(d) PROVE UNCHANGED changeVars
  BY <1>2 DEF LookAtStore, ReadHeader, SaveKey
<1>3. ASSUME NEW d \in Devices, SaveFails(d) PROVE UNCHANGED <<layoutVars, pc, job>> /\ Fault
  BY <1>3 DEF SaveFails
<1>4. QED
  BY <1>1, <1>2, <1>3 DEF CommandNext, ChangeNext

LEMMA CommandKeeps ==
  ASSUME NEW S, NEW L, TurnsTaken, S \cap LateItems \subseteq kept, KeptInv(S, L), [CommandNext]_commandVars
  PROVE  KeptInv(S, L)' /\ kept' = kept
<1>1. CASE ChangeNext \/ UNCHANGED changeVars
  BY <1>1, NextKeeps, NextFrame DEF changeVars, layoutVars
<1>2. CASE UNCHANGED <<layoutVars, pc, job>> /\ Fault
  <2>1. /\ UNCHANGED <<lock, plan, recovery, head, dir, held, kept, pc, job, used, agreed>>
        /\ faults' = faults + 1 /\ faults < MaxFaults
    BY <1>2 DEF Fault, layoutVars
  <2>2. Typed'
    BY <2>1, MaxFaultsAssumption DEF KeptInv, Typed, TypeOK, LayoutTypeOK, Prepared
  <2>3. StoreSound(S, L)'
    BY <2>1, TreeStays DEF KeptInv, StoreSound, JournalSound, HeadersMade
  <2>4. ASSUME NEW a \in Admins PROVE Knows(S, L, a)'
    BY <2>1, TreeStays DEF KeptInv, Knows, Working, Ready, Going, Undoing, Folding, Ending, Moves,
       Fits, Keeps, Stored
  <2>5. QED
    BY <2>1, <2>2, <2>3, <2>4 DEF KeptInv, Solo
<1>3. UNCHANGED commandVars => UNCHANGED changeVars
  BY DEF commandVars
<1>4. QED
  BY <1>1, <1>2, <1>3, CommandSteps

\* The claims about the journal after a step.
LEMMA StepKeys ==
  ASSUME KeptInv({}, {}), KeysSound, KeptInv({}, {})', NEW a \in Admins, Start(a) \/ Step(a) \/ Faults(a),
         lasted' = IF lock' THEN lasted ELSE lasted \cup ({head'["encryption"].key} \ {NoKey})
  PROVE  /\ plan'.kind = "words" => plan'.to \in lasted'
         /\ plan'.kind = "rotate" /\ ~Committed({}, {})' =>
              \A p \in {"encryption", "previous", "old-header"} : head'[p].key \in lasted' \cup {NoKey}
         /\ joining # {} => Encrypted'
<1> USE Shapes DEF KeptInv
<1>1. lasted \subseteq lasted' /\ (joining # {} => Encrypted')
  BY EncryptedStays DEF KeysSound
<1>2. CASE /\ Publish(a) /\ ~lock /\ plan = NoPlan /\ Fits(job[a].kind)
           /\ plan'.kind = job[a].kind /\ plan'.to = job[a].hdr.key
           /\ head'["encryption"] = head["encryption"] /\ head'["previous"] = NoHeader
           /\ head'["old-header"] = head["encryption"]
  <2>1. head["encryption"].key \in lasted \cup {NoKey}
    BY <1>2 DEF KeysSound
  <2>2. job[a].kind = "words" => head["encryption"] # NoHeader /\ job[a].hdr.key = head["encryption"].key
    BY <1>2 DEF Fits, Publish, Knows, Ready
  <2>3. head["encryption"] # NoHeader => head["encryption"].key \in lasted
    BY <2>1 DEF Places
  <2>4. QED
    BY <1>1, <1>2, <2>1, <2>2, <2>3
<1>3. CASE /\ plan' = plan
           /\ \A p \in OldPlaces : \/ head'[p] = NoHeader
                                  \/ \E q \in OldPlaces : head'[p] = head[q]
  <2>1. Settled({}, {}) => Committed({}, {})' \/ plan = NoPlan
    BY <1>3, SettledStays DEF Settled, StoreSound, JournalSound
  <2>2. plan.kind = "rotate" => lock /\ plan # NoPlan
    BY DEF StoreSound, JournalSound, NoPlan
  <2>3. plan'.kind = "rotate" /\ ~Committed({}, {})' => ~Committed({}, {})
    BY <1>3, <2>1, <2>2 DEF Settled
  <2>4. plan'.kind = "rotate" /\ ~Committed({}, {})' => \A p \in OldPlaces : head'[p].key \in lasted' \cup {NoKey}
    BY <1>1, <1>3, <2>3 DEF KeysSound, OldPlaces
  <2>5. QED
    BY <1>1, <1>3, <2>4 DEF KeysSound, OldPlaces
<1>4. CASE /\ plan # NoPlan /\ plan' = plan /\ head["header"] # NoHeader
           /\ head'["encryption"] = head["header"]
  <2>1. plan.kind = "rotate" => Committed({}, {})'
    <3>1. SUFFICES ASSUME plan.kind = "rotate" PROVE Committed({}, {})'
      OBVIOUS
    <3>2. RotateGoing({}, {}) /\ RotateGoing({}, {})'
      BY <1>4, <3>1 DEF StoreSound, JournalSound, Under
    <3>3. head'["encryption"].key = plan'.to /\ head'["encryption"] # NoHeader
      BY <1>4, <3>2 DEF RotateGoing, RotateOpen, Committed, Opens
    <3>4. QED
      BY <3>2, <3>3 DEF RotateGoing, RotateOpen, OldHeader
  <2>2. QED
    BY <1>1, <1>4, <2>1 DEF KeysSound
<1>5. CASE /\ AtRest({}, {}) /\ plan' \in {plan, NoPlan}
           /\ head'["encryption"] = head["encryption"]
           /\ \A p \in InLock : head'[p] \in {NoHeader, head[p]}
  <2>1. CASE plan' = plan
    BY <1>3, <1>5, <2>1 DEF InLock, OldPlaces
  <2>2. CASE plan' = NoPlan
    BY <1>1, <2>2 DEF NoPlan
  <2>3. QED
    BY <1>5, <2>1, <2>2
<1>6. QED
  BY <1>2, <1>3, <1>4, <1>5, HeadMoves

\* What lasts goes on lasting.
LEMMA StepLasting ==
  ASSUME KeptInv({}, {}), KeptInv({}, {})', NEW a \in Admins, Start(a) \/ Step(a) \/ Faults(a),
         lasted' = IF lock' THEN lasted ELSE lasted \cup ({head'["encryption"].key} \ {NoKey})
  PROVE  Lasting \subseteq Lasting'
<1>1. CASE ~Settled({}, {})
  BY <1>1 DEF Lasting
<1>2. CASE Settled({}, {})
  <2>1. head'["encryption"] = head["encryption"] /\ (lock' => Settled({}, {})')
    BY <1>2, SettledStays
  <2>2. QED
    BY <1>2, <2>1 DEF Lasting
<1>3. QED
  BY <1>1, <1>2

\* A change that ends and gives its key ends with that key's header in place.
LEMMA GivenKey ==
  ASSUME KeptInv({}, {}), NEW a \in Admins, Step(a), KeepsKey(a),
         lasted' = IF lock' THEN lasted ELSE lasted \cup ({head'["encryption"].key} \ {NoKey})
  PROVE  job[a].hdr.key \in lasted'
<1> USE Shapes DEF KeptInv
<1>1. pc[a] = "release" /\ job[a].mode # "undo"
  BY DEF KeepsKey
<1>2. Release(a)
  BY <1>1 DEF Step, Publish, PublishRefused, ClearItems, FoldStep, FoldNext, WriteStopFile, StopStep, RestopStep,
     MoveSource, FoldIntoSource, Copy, Verify, Install, Swap, CleanSource, Finish, Undo, Unstage,
     RemoveStopFile, RestoreSource, RestoreHead, RevertNew, RevertOld, RevertWords, RestorePlain, Refused
<1>3. /\ ~lock' /\ head'["encryption"] = head["encryption"]
      /\ head["encryption"] # NoHeader /\ head["encryption"].key = job[a].hdr.key
  BY <1>1, <1>2 DEF Release, InLock, Places, Knows, Ending
<1>4. QED
  BY <1>3 DEF Places

LEMMA CommandTyped ==
  ASSUME CommandInv, CommandNext, KeptInv({}, {})'
  PROVE  CommandTypeOK'
<1> USE DEF CommandInv, CommandTypeOK
<1>1. TypeOK'
  BY DEF KeptInv, Typed
<1>2. head["encryption"].key \in Keys \cup {NoKey} /\ head'["encryption"].key \in Keys \cup {NoKey}
  BY <1>1 DEF TypeOK, LayoutTypeOK, Places, Headers, NoHeader
<1>3. \A a \in Admins : job[a].hdr.key \in Keys \cup {NoKey}
  BY DEF TypeOK, Jobs, Headers, NoHeader
<1>4. lasted' \in SUBSET Keys
  BY <1>2 DEF CommandNext
<1>5. keyFile' \in [Devices -> Keys \cup {NoKey}] /\ saving' \in [Devices -> Keys \cup {NoKey}]
      /\ joining' \in SUBSET Devices
  BY <1>2, <1>3, DevicesAssumption DEF CommandNext, Encrypt, Recover, Proceed, StopsShort, LookAtStore, ReadHeader,
     SaveKey, SaveFails, deviceVars
<1>6. QED
  BY <1>1, <1>4, <1>5

\* The key a device that joins reads lasts.
LEMMA JoinedKey ==
  ASSUME KeptInv({}, {}), KeysSound, joining # {}
  PROVE  head["encryption"].key \in Lasting
<1> USE Shapes DEF KeptInv
<1>1. CASE ~lock \/ plan = NoPlan
  BY <1>1 DEF KeysSound, Encrypted, Lasting, Settled
<1>2. CASE lock /\ plan # NoPlan
  <2>1. plan.kind \in {"words", "rotate"} /\ Under({}, {})
    BY <1>2 DEF KeysSound, Encrypted, StoreSound, JournalSound, Kinds, HeaderChanges, Rewrites
  <2>2. CASE plan.kind = "words"
    BY <2>1, <2>2 DEF KeysSound, Encrypted, Lasting, Under, WordsGoing, Opens, Places
  <2>3. CASE plan.kind = "rotate"
    BY <1>2, <2>3 DEF KeysSound, Encrypted, Lasting, Settled
  <2>4. QED
    BY <2>1, <2>2, <2>3
<1>3. QED
  BY <1>1, <1>2

\* A step beside the commands: headers, journal and lock stay as they are.
LEMMA BesideKeys ==
  ASSUME KeptInv({}, {}), KeysSound, lock' = lock, plan' = plan, head' = head, lasted' = lasted,
         Committed({}, {}) => Committed({}, {})',
         \A d \in Devices : keyFile'[d] \in Lasting /\ saving'[d] \in Lasting,
         joining' # {} => joining # {} \/ (~lock /\ head["encryption"] # NoHeader)
  PROVE  KeysSound'
<1>1. Lasting \subseteq Lasting'
  BY DEF Lasting, Settled
<1>2. ~lock => plan = NoPlan /\ plan.kind \notin {"set-up", "fresh-start", "migrate"}
  BY DEF KeptInv, StoreSound, JournalSound, NoPlan
<1>3. QED
  BY <1>1, <1>2 DEF KeysSound, Encrypted

LEMMA CommandInvNext ==
  ASSUME TurnsTaken
  PROVE  CommandInv /\ [CommandNext]_commandVars => CommandInv'
<1> SUFFICES ASSUME CommandInv, [CommandNext]_commandVars PROVE CommandInv'
  OBVIOUS
<1> USE DEF CommandInv
<1>1. KeptInv({}, {})'
  BY CommandKeeps
<1>2. CASE UNCHANGED commandVars
  <2>1. UNCHANGED <<lock, plan, recovery, head, dir, held, kept, pc, job, used, agreed, faults,
                    keyFile, saving, joining, lasted>>
    BY <1>2 DEF commandVars, changeVars, layoutVars, adminVars, deviceVars
  <2>2. KeysSound'
    BY <2>1, TreeStays DEF KeysSound, Encrypted, Lasting, Settled
  <2>3. CommandTypeOK'
    BY <2>1 DEF CommandTypeOK, TypeOK, LayoutTypeOK
  <2>4. QED
    BY <1>1, <2>2, <2>3
<1>3. CASE CommandNext
  <2>1. CommandTypeOK' /\ lasted' = IF lock' THEN lasted ELSE lasted \cup ({head'["encryption"].key} \ {NoKey})
    BY <1>1, <1>3, CommandTyped DEF CommandNext
  <2> USE DEF CommandTypeOK
  <2>2. ~lock' => head'["encryption"].key \in lasted' \cup {NoKey}
    BY <2>1
  <2>3. ASSUME NEW a \in Admins, Start(a) \/ Step(a) \/ Faults(a), joining' = joining,
               \A d \in Devices : keyFile'[d] \in Lasting' /\ saving'[d] \in Lasting'
        PROVE  KeysSound'
    BY <1>1, <2>1, <2>2, <2>3, StepKeys DEF KeysSound, Encrypted
  <2>4. ASSUME NEW a \in Admins, (\E kind \in Kinds : Encrypt(a, kind)) \/ Recover(a) \/ Proceed(a) \/ StopsShort(a)
        PROVE  KeysSound'
    <3>1. Start(a) \/ Step(a) \/ Faults(a)
      BY <2>4 DEF Encrypt, Recover, Proceed, StopsShort, Start
    <3>2. Lasting \subseteq Lasting'
      BY <1>1, <2>1, <3>1, StepLasting
    <3>3. /\ UNCHANGED <<keyFile, joining>>
          /\ \/ saving' = saving
             \/ Step(a) /\ KeepsKey(a) /\ saving' = [saving EXCEPT ![a] = job[a].hdr.key]
      BY <2>4 DEF Encrypt, Recover, Proceed, StopsShort, deviceVars
    <3>4. CASE saving' = saving
      BY <2>3, <3>1, <3>2, <3>3, <3>4 DEF KeysSound, Encrypted
    <3>5. CASE Step(a) /\ KeepsKey(a) /\ saving' = [saving EXCEPT ![a] = job[a].hdr.key]
      <4>1. job[a].hdr.key \in Lasting'
        BY <2>1, <3>5, GivenKey DEF Lasting
      <4>2. QED
        BY <2>3, <3>1, <3>2, <3>3, <3>5, <4>1 DEF KeysSound, Encrypted
    <3>6. QED
      BY <3>3, <3>4, <3>5
  <2>5. ASSUME NEW d \in Devices, LookAtStore(d) \/ ReadHeader(d) \/ SaveKey(d) \/ SaveFails(d)
        PROVE  KeysSound'
    <3>1. UNCHANGED <<lock, plan, head, dir, held, kept>>
      BY <2>5 DEF LookAtStore, ReadHeader, SaveKey, SaveFails, changeVars, layoutVars
    <3>2. Committed({}, {})' = Committed({}, {}) /\ UNCHANGED lasted
      <4>1. ~lock => head["encryption"].key \in lasted \cup {NoKey}
        BY DEF KeysSound, Encrypted
      <4>2. QED
        BY <2>1, <3>1, <4>1, TreeStays
    <3>3. \A e \in Devices : keyFile'[e] \in Lasting /\ saving'[e] \in Lasting
      <4>1. d \in joining => head["encryption"].key \in Lasting
        BY JoinedKey
      <4>2. NoKey \in Lasting
        BY DEF Lasting
      <4>3. QED
        BY <2>5, <4>1, <4>2 DEF LookAtStore, ReadHeader, SaveKey, SaveFails, KeysSound
    <3>4. joining' # {} => joining # {} \/ (~lock /\ head["encryption"] # NoHeader)
      BY <2>5 DEF LookAtStore, ReadHeader, SaveKey, SaveFails, FindsEncrypted, Classify
    <3>5. QED
      BY <3>1, <3>2, <3>3, <3>4, BesideKeys
  <2>6. ASSUME LateDevice, UNCHANGED deviceVars PROVE KeysSound'
    <3>1. UNCHANGED <<lock, plan, head, keyFile, saving, joining>> /\ lock /\ ~Shut
      BY <2>6, LateEffect DEF deviceVars
    <3>2. UNCHANGED lasted /\ ~Committed({}, {})
      BY <2>1, <3>1 DEF Committed
    <3>3. QED
      BY <3>1, <3>2, BesideKeys DEF KeysSound, Encrypted
  <2>7. QED
    BY <1>1, <1>3, <2>1, <2>4, <2>5, <2>6 DEF CommandNext
<1>4. QED
  BY <1>2, <1>3

LEMMA CommandInvInit == CommandInit => CommandInv
<1> SUFFICES ASSUME CommandInit PROVE CommandInv
  OBVIOUS
<1>1. KeptInv({}, {})
  BY InitKeeps DEF CommandInit
<1> USE Shapes DEF KeptInv
<1>2. /\ ~lock /\ plan = NoPlan /\ head["encryption"] = agreed /\ agreed \in Headers \cup {NoHeader}
  BY <1>1 DEF CommandInit, ChangeInit, Places, Typed, TypeOK
<1>3. agreed.key \in Keys \cup {NoKey} /\ lasted = {agreed.key} \ {NoKey}
  BY <1>2 DEF CommandInit, Headers, NoHeader
<1>4. CommandTypeOK
  BY <1>1, <1>3, Zenon DEF CommandInit, CommandTypeOK, Typed
<1>5. KeysSound
  BY <1>2, <1>3 DEF CommandInit, KeysSound, Lasting, Settled, NoPlan
<1>6. QED
  BY <1>1, <1>4, <1>5 DEF CommandInv

\* Where administrators take turns, a key file holds none but a key the store
\* had while it was open, whichever devices join while a change runs, and
\* however changes are cut short, finished and undone.
THEOREM CommandKeysLast == ASSUME TurnsTaken PROVE CommandSpec => []KeysLast
<1>1. CommandInv /\ [CommandNext]_commandVars => CommandInv'
  BY CommandInvNext
<1>2. CommandInv => KeysLast
  BY DEF CommandInv, KeysSound, KeysLast, Lasting, Settled
<1>3. QED
  BY <1>1, <1>2, CommandInvInit, PTL DEF CommandSpec

\* With the commands around the changes, whose devices join and save keys at
\* any step of a change, the store keeps everything too.
THEOREM CommandKeepsStore ==
  ASSUME TurnsTaken
  PROVE  CommandSpec => [](NothingLost /\ UnlockedOpens /\ UnlockedSealed)
<1>1. KeptInv(kept, {}) /\ [CommandNext]_commandVars => KeptInv(kept, {})'
  <2> SUFFICES ASSUME KeptInv(kept, {}), [CommandNext]_commandVars PROVE KeptInv(kept, {})'
    OBVIOUS
  <2>1. \A S : S = kept => KeptInv(S, {})' /\ kept' = kept
    BY CommandKeeps
  <2>2. QED
    BY <2>1
<1>2. CommandInit => KeptInv(kept, {})
  BY KeptInit DEF CommandInit
<1>3. KeptInv(kept, {}) => NothingLost /\ UnlockedOpens /\ UnlockedSealed
  BY KeptGives
<1>4. QED
  BY <1>1, <1>2, <1>3, PTL DEF CommandSpec
================================================================================
