------------------------------- MODULE DropProofs -------------------------------
(***************************************************************************)
(* What `serve` removes from the drop folder is stored, for any number of  *)
(* files and versions, and however often the store fails, hangs or denies  *)
(* the device, the uploader is stopped or killed, and the user saves,      *)
(* removes or locks files.                                                 *)
(***************************************************************************)
EXTENDS DropFolder, TLAPS

\* The version of a file in the folder is one that serve need not store.
Spared(n, versions) == folder[n] = 0 \/ <<n, folder[n]>> \in versions

\* Between opening a file and finishing it, what is in the folder is what was
\* opened, is gone, or was saved while serve had the file in hand; once it was
\* sent, what is in the folder is stored or was saved meanwhile.
FileInHand ==
  /\ upc \in {"open", "put", "finish"} => job \in Paths
  /\ upc = "put" => Spared(job, touched \cup {<<job, fd>>})
  /\ upc = "finish" => Spared(job, touched \cup stored)

DropInv ==
  /\ folder \in [Paths -> Nat] /\ saved \in [Paths -> Nat]
  /\ FileInHand
  /\ RemovedIsStored

LEMMA DropInvInit == Init => DropInv
BY DEF Init, UploaderInit, DropInv, FileInHand, RemovedIsStored

\* A step that ends the uploader's work on a file, or does not begin it, and
\* removes nothing.
LEMMA NoFileInHand ==
  ASSUME DropInv, UNCHANGED <<folder, saved, unsent>>, touched' = touched,
         upc' \notin {"open", "put", "finish"} \/ (upc' = "open" /\ job' \in Paths)
  PROVE  DropInv'
BY DEF DropInv, FileInHand, RemovedIsStored

\* A step that leaves the uploader where it is, and the versions of its files.
LEMMA SameUploader ==
  ASSUME DropInv, UNCHANGED <<folder, saved, unsent, touched, upc, job, fd, stored>>
  PROVE  DropInv'
BY DEF DropInv, FileInHand, RemovedIsStored, Spared

\* The uploader.
LEMMA UploaderInv ==
  ASSUME DropInv, UploaderStep \/ StoreHangs \/ Abandon \/ End \/ Kill \/ Restart
  PROVE  DropInv'
<1> USE DEF UGoto
<1>1. CASE Take
  <2>1. upc' \in {"open", "find"} /\ (upc' = "open" => job' \in Paths)
    BY <1>1 DEF Take
  <2> QED
    BY <1>1, <2>1, NoFileInHand DEF Take
<1>2. CASE OpenFile
  <2>1. CASE folder[job] = 0 \/ job \in locked
    BY <1>2, <2>1, NoFileInHand DEF OpenFile, Skip, Finished
  <2>2. CASE ~(folder[job] = 0 \/ job \in locked)
    <3>1. /\ UNCHANGED <<folder, saved, unsent, touched, stored, job>>
          /\ fd' = folder[job] /\ upc' = "put" /\ upc = "open"
      BY <1>2, <2>2 DEF OpenFile
    <3>2. job \in Paths
      BY <3>1 DEF DropInv, FileInHand
    <3>3. FileInHand'
      BY <3>1, <3>2 DEF FileInHand, Spared
    <3> QED
      BY <3>1, <3>3 DEF DropInv, RemovedIsStored
  <2> QED
    BY <2>1, <2>2
<1>3. CASE PutFile
  <2>1. /\ UNCHANGED <<folder, saved, unsent, touched, job, fd>>
        /\ upc' = "finish" /\ upc = "put"
    BY <1>3 DEF PutFile
  <2>2. PICK v : stored' = stored \cup {v} /\ (v = <<job, fd>> \/ v = <<job, folder[job]>>)
    BY <1>3 DEF PutFile, Read
  <2>3. job \in Paths /\ Spared(job, touched \cup {<<job, fd>>})
    BY <2>1 DEF DropInv, FileInHand
  <2>4. folder[job] = 0 \/ <<job, folder[job]>> \in touched \cup stored'
    BY <2>2, <2>3 DEF Spared
  <2>5. FileInHand'
    BY <2>1, <2>3, <2>4 DEF FileInHand, Spared
  <2> QED
    BY <2>1, <2>5 DEF DropInv, RemovedIsStored
<1>4. CASE FinishFile
  <2>1. /\ UNCHANGED <<saved, touched, stored>> /\ upc' = "ready" /\ upc = "finish"
        /\ \/ UNCHANGED <<folder, unsent>>
           \/ /\ folder[job] # 0 /\ folder' = [folder EXCEPT ![job] = 0]
              /\ unsent' = unsent \cup ({<<job, folder[job]>>} \ stored)
    BY <1>4 DEF FinishFile, Finished
  <2>2. FileInHand'
    BY <2>1 DEF FileInHand
  <2>3. folder' \in [Paths -> Nat]
    BY <2>1 DEF DropInv
  <2>4. Spared(job, touched \cup stored)
    BY <2>1 DEF DropInv, FileInHand
  <2>5. unsent' \subseteq touched'
    BY <2>1, <2>4 DEF DropInv, RemovedIsStored, Spared
  <2> QED
    BY <2>1, <2>2, <2>3, <2>5 DEF DropInv, RemovedIsStored
<1>5. CASE ReadFails
  BY <1>5, NoFileInHand DEF ReadFails, Skip, Finished
<1>6. CASE FindText
  <2>1. upc' \in {"ready", "put-text"}
    BY <1>6 DEF FindText, Finished
  <2> QED
    BY <1>6, <2>1, NoFileInHand DEF FindText
<1>7. CASE PutText
  BY <1>7, NoFileInHand DEF PutText, Finished
<1>8. CASE StoreFails
  <2>1. upc' \in {"backoff", "off"}
    BY <1>8 DEF StoreFails
  <2> QED
    BY <1>8, <2>1, NoFileInHand DEF StoreFails
<1>9. CASE Backoff
  BY <1>9, NoFileInHand DEF Backoff
<1>10. CASE Reopen
  <2>1. upc' \in {"off", "find"} \/ (upc' = "open" /\ job \in Paths)
    BY <1>10 DEF Reopen
  <2>2. job' = job /\ UNCHANGED <<folder, saved, unsent, touched>>
    BY <1>10 DEF Reopen
  <2> QED
    BY <2>1, <2>2, NoFileInHand
<1>11. CASE StoreHangs
  BY <1>11, NoFileInHand DEF StoreHangs
<1>12. CASE Abandon
  BY <1>12, NoFileInHand DEF Abandon, Finished
<1>13. CASE End
  BY <1>13, NoFileInHand DEF End
<1>14. CASE Kill
  BY <1>14, NoFileInHand DEF Kill
<1>15. CASE Restart
  BY <1>15, NoFileInHand DEF Restart
<1> QED
  BY <1>1, <1>2, <1>3, <1>4, <1>5, <1>6, <1>7, <1>8, <1>9, <1>10, <1>11, <1>12, <1>13, <1>14, <1>15
     DEF UploaderStep

\* A file saved while the uploader has it counts as saved in hand, and one
\* that is removed need not be stored.
LEMMA SaveInv == ASSUME DropInv, NEW n \in Paths, Save(n) PROVE DropInv'
<1>1. /\ saved' = [saved EXCEPT ![n] = @ + 1]
      /\ folder' = [folder EXCEPT ![n] = saved'[n]]
      /\ touched \subseteq touched' /\ (job = n => <<n, saved'[n]>> \in touched')
      /\ UNCHANGED <<unsent, upc, job, fd, stored>>
  BY DEF Save, SameRest, InHand
<1>2. saved' \in [Paths -> Nat] /\ folder' \in [Paths -> Nat]
  BY <1>1 DEF DropInv
<1>3. \A m \in Paths : folder'[m] = IF m = n THEN saved'[n] ELSE folder[m]
  BY <1>1 DEF DropInv
<1>4. ASSUME job \in Paths, NEW more, Spared(job, touched \cup more)
      PROVE  folder'[job] = 0 \/ <<job, folder'[job]>> \in touched' \cup more
  BY <1>1, <1>3, <1>4 DEF Spared
<1>5. FileInHand'
  <2>1. upc \in {"open", "put", "finish"} => job \in Paths
    BY DEF DropInv, FileInHand
  <2>2. ASSUME upc = "put" PROVE Spared(job, touched \cup {<<job, fd>>})'
    <3>1. Spared(job, touched \cup {<<job, fd>>})
      BY <2>2 DEF DropInv, FileInHand
    <3> QED
      BY <1>1, <1>4, <2>1, <2>2, <3>1 DEF Spared
  <2>3. ASSUME upc = "finish" PROVE Spared(job, touched \cup stored)'
    <3>1. Spared(job, touched \cup stored)
      BY <2>3 DEF DropInv, FileInHand
    <3> QED
      BY <1>1, <1>4, <2>1, <2>3, <3>1 DEF Spared
  <2> QED
    BY <1>1, <2>1, <2>2, <2>3 DEF FileInHand
<1>6. RemovedIsStored'
  BY <1>1 DEF DropInv, RemovedIsStored
<1> QED
  BY <1>2, <1>5, <1>6 DEF DropInv

LEMMA RemoveInv == ASSUME DropInv, NEW n \in Paths, Remove(n) PROVE DropInv'
<1>1. folder' = [folder EXCEPT ![n] = 0] /\ UNCHANGED <<saved, touched, unsent, upc, job, fd, stored>>
  BY DEF Remove, SameRest
<1>2. folder' \in [Paths -> Nat] /\ \A m \in Paths : folder'[m] \in {0, folder[m]}
  BY <1>1 DEF DropInv
<1>3. FileInHand'
  BY <1>1, <1>2 DEF DropInv, FileInHand, Spared
<1> QED
  BY <1>1, <1>2, <1>3 DEF DropInv, RemovedIsStored

LEMMA DropInvNext == DropInv /\ [Next]_vars => DropInv'
<1> SUFFICES ASSUME DropInv, [Next]_vars PROVE DropInv'
  OBVIOUS
<1>1. ASSUME NEW n \in Paths, Save(n) \/ Remove(n) PROVE DropInv'
  BY <1>1, SaveInv, RemoveInv
<1>2. ASSUME NEW n \in Paths, Permit(n) PROVE DropInv'
  BY <1>2, SameUploader DEF Permit, SameRest
<1>3. ASSUME NEW t \in Texts, CopyText(t) PROVE DropInv'
  BY <1>3, SameUploader DEF CopyText
<1>4. CASE AskStop
  BY <1>4, SameUploader DEF AskStop, SameRest
<1>5. CASE Restart \/ Kill \/ ((UploaderStep \/ StoreHangs \/ Abandon \/ End) /\ UNCHANGED watcherVars)
  BY <1>5, UploaderInv
<1>6. CASE WatcherStep \/ Settle
  BY <1>6, SameUploader DEF WatcherStep, Scan, Offer, Wake, MarkSkipped, Settle, uploaderVars
<1>7. CASE UNCHANGED vars
  BY <1>7, SameUploader DEF vars, uploaderVars
<1> QED
  BY <1>1, <1>2, <1>3, <1>4, <1>5, <1>6, <1>7 DEF Next

\* Whatever fails, stops or is tried again, what serve removed from the drop
\* folder is stored, unless it was saved while serve had the file in hand
\* (upload.rs `send_file`, `finish_file`).
THEOREM DropRemovesOnlyStored == Spec => []RemovedIsStored
<1>1. DropInv => RemovedIsStored
  BY DEF DropInv
<1> QED
  BY <1>1, DropInvInit, DropInvNext, PTL DEF Spec
================================================================================
