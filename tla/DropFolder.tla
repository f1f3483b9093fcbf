------------------------------- MODULE DropFolder -------------------------------
(***************************************************************************)
(* The drop folder: a watcher scans it, offers every file that stopped     *)
(* changing to the uploader, and does not offer it again while it stays.   *)
(***************************************************************************)
EXTENDS Uploader

VARIABLES
  dpc,       \* the watcher's next step
  seen,      \* the version of each candidate; 0 when the file is none
  aged,      \* the candidates seen long enough ago
  flight,    \* the version each file in flight had when it was offered; 0 for none
  skipped,   \* the files in flight that the uploader skipped
  offering   \* the files the watcher is about to queue

watcherVars == <<dpc, seen, aged, flight, skipped, offering>>
vars == <<uploaderVars, touched, events, watcherVars>>

DropTypeOK ==
  /\ UploaderTypeOK
  /\ dpc \in {"scan", "offer", "wait"}
  /\ seen \in [Paths -> 0..MaxVersion] /\ aged \in SUBSET Paths
  /\ flight \in [Paths -> 0..MaxVersion] /\ skipped \in SUBSET Paths
  /\ offering \in SUBSET Paths

\* The file was offered, and the watcher does not know it as skipped.
InHand(n) == (flight[n] # 0 /\ n \notin skipped) \/ job = n
SameRest == UNCHANGED <<jobs, job, upc, fd, delay, skips, stored, unsent>>

(***************************************************************************)
(* The user.                                                               *)
(***************************************************************************)
Save(n) ==
  /\ Event /\ saved[n] < MaxVersion
  /\ saved' = [saved EXCEPT ![n] = @ + 1]
  /\ folder' = [folder EXCEPT ![n] = saved'[n]]
  /\ touched' = IF InHand(n) THEN touched \cup {<<n, saved'[n]>>} ELSE touched
  /\ UNCHANGED <<locked, stop, watcherVars>> /\ SameRest

Remove(n) ==
  /\ Event /\ folder[n] # 0
  /\ folder' = [folder EXCEPT ![n] = 0]
  /\ UNCHANGED <<saved, locked, stop, touched, watcherVars>> /\ SameRest

\* Permissions change neither the size nor the time of a file.
Permit(n) ==
  /\ Event /\ folder[n] # 0
  /\ locked' = IF n \in locked THEN locked \ {n} ELSE locked \cup {n}
  /\ UNCHANGED <<folder, saved, stop, touched, watcherVars>> /\ SameRest

CopyText(t) ==
  /\ Event /\ Len(jobs) < QueueDepth
  /\ jobs' = Append(jobs, t)
  /\ UNCHANGED <<folder, saved, locked, stop, touched, watcherVars, job, upc, fd, delay, skips, stored, unsent>>

AskStop ==
  /\ Event /\ ~stop
  /\ stop' = TRUE
  /\ UNCHANGED <<folder, saved, locked, touched, watcherVars>> /\ SameRest

(***************************************************************************)
(* The watcher.                                                            *)
(***************************************************************************)
Present == {n \in Paths : folder[n] # 0}

\* Two scans far enough apart saw the same file.
Settled(n) == seen[n] = folder[n] /\ n \in aged

\* Mutant: a file in flight stays there.
InFlightForGood(n) == flight[n] # 0

\* A file in flight is left alone, unless it was skipped and changed since.
InFlight(n) == n \in Present /\ flight[n] # 0 /\ ~(n \in skipped /\ flight[n] # folder[n])

Scan ==
  /\ dpc = "scan" /\ upc # "off"
  /\ LET candidates == {n \in Present : ~InFlight(n)}
         ready == {n \in candidates : Settled(n)}
     IN /\ flight' = [n \in Paths |-> IF n \in ready THEN folder[n] ELSE IF InFlight(n) THEN flight[n] ELSE 0]
        /\ skipped' = {n \in skipped : InFlight(n)}
        /\ seen' = [n \in Paths |-> IF n \in candidates \ ready THEN folder[n]
                                    ELSE IF n \in Present \ ready THEN seen[n] ELSE 0]
        /\ aged' = {n \in aged : seen'[n] # 0 /\ seen'[n] = seen[n]}
        /\ offering' = ready
        /\ dpc' = IF ready = {} THEN "wait" ELSE "offer"
  /\ UNCHANGED <<uploaderVars, touched, events>>

\* The files that became ready are queued in path order, each once there is room.
Offer ==
  /\ dpc = "offer" /\ upc # "off" /\ Len(jobs) < QueueDepth
  /\ LET n == CHOOSE m \in offering : \A k \in offering : m <= k IN
     /\ jobs' = Append(jobs, n)
     /\ offering' = offering \ {n}
  /\ dpc' = IF offering' = {} THEN "wait" ELSE "offer"
  /\ UNCHANGED <<folder, saved, locked, job, upc, fd, delay, skips, stored, stop, unsent, touched, events, seen, aged, flight, skipped>>

\* An event of the folder, or a timer, is the reason for the next scan.
Wake ==
  /\ dpc = "wait" /\ upc # "off"
  /\ dpc' = "scan"
  /\ UNCHANGED <<uploaderVars, touched, events, seen, aged, flight, skipped, offering>>

\* The uploader skipped a file.
MarkSkipped ==
  /\ dpc = "wait" /\ upc # "off" /\ skips # <<>>
  /\ skips' = Tail(skips)
  /\ skipped' = IF flight[Head(skips)] # 0 THEN skipped \cup {Head(skips)} ELSE skipped
  /\ dpc' = "scan"
  /\ UNCHANGED <<folder, saved, locked, jobs, job, upc, fd, delay, stored, stop, unsent, touched, events, seen, aged, flight, offering>>

\* A candidate has stayed as it is for the time a file must be stable.
Settle ==
  /\ upc # "off"
  /\ aged' = {n \in Paths : seen[n] # 0} /\ aged' # aged
  /\ UNCHANGED <<uploaderVars, touched, events, dpc, seen, flight, skipped, offering>>

WatcherStep == Scan \/ Offer \/ Wake \/ MarkSkipped

\* Serve starts again, and knows nothing of what it did before.
Restart ==
  /\ upc = "off"
  /\ jobs' = <<>> /\ job' = NoJob /\ upc' = "ready" /\ fd' = 0 /\ delay' = 0 /\ skips' = <<>>
  /\ stop' = FALSE
  /\ dpc' = "scan" /\ seen' = [n \in Paths |-> 0] /\ aged' = {}
  /\ flight' = [n \in Paths |-> 0] /\ skipped' = {} /\ offering' = {}
  /\ UNCHANGED <<folder, saved, locked, stored, unsent, touched, events>>

Kill ==
  /\ upc # "off" /\ Event
  /\ upc' = "off"
  /\ UNCHANGED <<folder, saved, locked, jobs, job, fd, delay, skips, stored, stop, unsent, touched, watcherVars>>

Init ==
  /\ UploaderInit
  /\ dpc = "scan" /\ seen = [n \in Paths |-> 0] /\ aged = {}
  /\ flight = [n \in Paths |-> 0] /\ skipped = {} /\ offering = {}

Next ==
  \/ \E n \in Paths : Save(n) \/ Remove(n) \/ Permit(n)
  \/ \E t \in Texts : CopyText(t)
  \/ AskStop \/ Restart \/ Kill
  \/ (UploaderStep \/ StoreHangs \/ Abandon \/ End) /\ UNCHANGED watcherVars
  \/ WatcherStep \/ Settle

Spec == Init /\ [][Next]_vars

\* The tasks run, time passes, and the main loop, which picks at random among
\* what is ready, takes notice of a stop sooner or later.
FairSpec ==
  /\ Spec
  /\ WF_vars(UploaderStep /\ UNCHANGED watcherVars) /\ WF_vars(Settle)
  /\ WF_vars(Scan \/ Offer \/ Wake) /\ SF_vars(MarkSkipped)
  /\ SF_vars(Abandon /\ UNCHANGED watcherVars) /\ SF_vars(End /\ UNCHANGED watcherVars)

--------------------------------------------------------------------------------
\* What serve removed from the drop folder is in the store, unless it was saved
\* while serve had the file in hand; whatever failed, stopped or was tried
\* again (upload.rs `send_file`, `finish_file`).
RemovedIsStored == unsent \subseteq touched

\* The same for every version of every file.
RemovedIsStoredEver == unsent = {}

\* The file is as it was when serve skipped it.
Skipped(n) == n \in skipped /\ flight[n] = folder[n]

\* Serve gets to the end of its work again and again: each version of a file
\* is stored, or was skipped as it is and waits for a change, or was saved
\* while serve had the file in hand (upload.rs `handle_with_retries`,
\* drop_watcher.rs `observe`).
SendsAll ==
  []<>( \/ upc \in {"off", "hung"}
        \/ \A n \in Present : Skipped(n) \/ <<n, folder[n]>> \in stored \cup touched )

\* The same for every version of every file.
SendsAllEver ==
  []<>( \/ upc \in {"off", "hung"}
        \/ \A n \in Present : Skipped(n) \/ <<n, folder[n]>> \in stored )

\* A skipped file is sent once the reason for skipping it is gone.
SendsRepaired ==
  []<>( \/ upc \in {"off", "hung"}
        \/ \A n \in Present \ locked : <<n, folder[n]>> \in stored \cup touched )

\* A stop request ends serve, whatever it is doing.
Stops == stop ~> upc = "off"
================================================================================
