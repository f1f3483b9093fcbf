-------------------------------- MODULE Uploader --------------------------------
(***************************************************************************)
(* The uploader of `serve`: it takes one job after the other, sends a text *)
(* or a file of the drop folder, retries with a fresh connection while the *)
(* store fails, and moves or deletes a file it sent.  The user goes on     *)
(* saving, removing and locking files meanwhile, and a stop request may    *)
(* come at any point.                                                      *)
(***************************************************************************)
EXTENDS Naturals, Sequences, FiniteSets

CONSTANTS Paths,       \* the names of files in the drop folder, numbers in path order
          Texts,       \* texts from the clipboard
          MaxVersion,  \* bound on how often each file is saved
          QueueDepth,  \* room in the queue of jobs
          MaxDelay,    \* the longest back-off, as a number of doublings
          MaxEvents,   \* bound on what users, the store and the network do
          NoJob

ASSUME UploaderAssumption ==
  /\ Paths \in SUBSET (Nat \ {0}) /\ Paths \cap Texts = {} /\ NoJob \notin Paths \cup Texts
  /\ MaxVersion \in Nat /\ QueueDepth \in Nat \ {0} /\ MaxDelay \in Nat /\ MaxEvents \in Nat

VARIABLES
  folder,    \* the version of each file in the drop folder; 0 when it is not there
  saved,     \* how often each file was saved
  locked,    \* the files the device may not read
  jobs,      \* the queue
  job, upc,  \* the uploader's job and its next step
  fd,        \* the version it opened
  delay,     \* the back-off it waits for next
  skips,     \* the skipped files it told the drop watcher of
  stored,    \* what the store holds
  stop,      \* whether serve was asked to stop
  touched,   \* versions saved while serve had the file in hand (observer)
  unsent,    \* versions serve removed that were not stored (observer)
  events

uploaderVars == <<folder, saved, locked, jobs, job, upc, fd, delay, skips, stored, stop, unsent>>

UploaderSteps == {"ready", "open", "put", "finish", "find", "put-text", "hung", "backoff", "reopen", "off"}
Attempt == {"open", "put", "finish", "find", "put-text", "hung"}
Versions == Paths \X (1..MaxVersion)

UploaderTypeOK ==
  /\ folder \in [Paths -> 0..MaxVersion] /\ saved \in [Paths -> 0..MaxVersion]
  /\ locked \in SUBSET Paths
  /\ jobs \in Seq(Paths \cup Texts) /\ Len(jobs) <= QueueDepth
  /\ job \in Paths \cup Texts \cup {NoJob} /\ upc \in UploaderSteps
  /\ fd \in 0..MaxVersion /\ delay \in 0..MaxDelay
  /\ skips \in Seq(Paths) /\ stored \in SUBSET (Versions \cup Texts)
  /\ stop \in BOOLEAN /\ touched \in SUBSET Versions /\ unsent \in SUBSET Versions
  /\ events \in 0..MaxEvents

UploaderInit ==
  /\ folder = [n \in Paths |-> 0] /\ saved = [n \in Paths |-> 0] /\ locked = {}
  /\ jobs = <<>> /\ job = NoJob /\ upc = "ready" /\ fd = 0 /\ delay = 0
  /\ skips = <<>> /\ stored = {} /\ stop = FALSE /\ touched = {} /\ unsent = {} /\ events = 0

Event == events < MaxEvents /\ events' = events + 1
UGoto(step) == upc' = step
\* The uploader is done with its job.
Finished == job' = NoJob /\ fd' = 0 /\ delay' = 0 /\ UGoto("ready")

\* The main loop takes the next job.
Take ==
  /\ upc = "ready" /\ jobs # <<>>
  /\ job' = Head(jobs) /\ jobs' = Tail(jobs)
  /\ UGoto(IF Head(jobs) \in Paths THEN "open" ELSE "find")
  /\ UNCHANGED <<folder, saved, locked, fd, delay, skips, stored, stop, touched, unsent, events>>

\* A job that cannot be done for a local reason is given up, and the drop
\* watcher is told.
Skip == skips' = Append(skips, job) /\ Finished

\* Mutant: the file is removed before it is sent.
FinishFirst ==
  /\ upc = "open"
  /\ folder[job] # 0 /\ job \notin locked
  /\ fd' = folder[job] /\ UGoto("put")
  /\ folder' = [folder EXCEPT ![job] = 0]
  /\ unsent' = unsent \cup ({<<job, folder[job]>>} \ stored)
  /\ UNCHANGED <<saved, locked, jobs, job, delay, skips, stored, stop, touched, events>>

OpenFile ==
  /\ upc = "open"
  /\ IF folder[job] = 0 \/ job \in locked
     THEN Skip
     ELSE fd' = folder[job] /\ UGoto("put") /\ UNCHANGED <<job, delay, skips>>
  /\ UNCHANGED <<folder, saved, locked, jobs, stored, stop, touched, unsent, events>>

\* What the upload read: the file it opened, or what was written into it since.
Read == {<<job, fd>>} \cup {<<job, folder[job]>> : n \in {m \in {job} : folder[m] # 0}}

PutFile ==
  /\ upc = "put"
  /\ \E v \in Read : stored' = stored \cup {v}
  /\ UGoto("finish")
  /\ UNCHANGED <<folder, saved, locked, jobs, job, fd, delay, skips, stop, touched, unsent, events>>

\* Reading the file failed part-way.
ReadFails ==
  /\ upc = "put" /\ Event
  /\ Skip
  /\ UNCHANGED <<folder, saved, locked, jobs, stored, stop, touched, unsent>>

\* A sent file moves to `sent/` under a free name, or is deleted.  When that
\* fails the file stays; it counts as sent all the same.
FinishFile ==
  /\ upc = "finish"
  /\ \/ /\ folder[job] # 0
        /\ folder' = [folder EXCEPT ![job] = 0]
        /\ unsent' = unsent \cup ({<<job, folder[job]>>} \ stored)
        /\ UNCHANGED events
     \/ folder[job] = 0 /\ UNCHANGED <<folder, unsent, events>>
     \/ folder[job] # 0 /\ Event /\ UNCHANGED <<folder, unsent>>
  /\ Finished
  /\ UNCHANGED <<saved, locked, jobs, skips, stored, stop, touched>>

\* Text that is stored already is not sent again.
FindText ==
  /\ upc = "find"
  /\ IF job \in stored THEN Finished ELSE UGoto("put-text") /\ UNCHANGED <<job, fd, delay>>
  /\ UNCHANGED <<folder, saved, locked, jobs, skips, stored, stop, touched, unsent, events>>

PutText ==
  /\ upc = "put-text"
  /\ stored' = stored \cup {job}
  /\ Finished
  /\ UNCHANGED <<folder, saved, locked, jobs, skips, stop, touched, unsent, events>>

\* Mutant: a job whose upload failed is given up.
GiveUp ==
  /\ upc \in {"put", "find", "put-text"} /\ Event
  /\ Finished
  /\ UNCHANGED <<folder, saved, locked, jobs, skips, stored, stop, touched, unsent>>

\* The store fails before or after it has the content, or denies the device.
StoreFails ==
  /\ upc \in {"put", "find", "put-text"} /\ Event
  /\ \/ UNCHANGED stored
     \/ upc = "put" /\ stored' = stored \cup {<<job, fd>>}
     \/ upc = "put-text" /\ stored' = stored \cup {job}
  /\ UGoto("backoff") \/ UGoto("off")
  /\ UNCHANGED <<folder, saved, locked, jobs, job, fd, delay, skips, stop, touched, unsent>>

\* The store does not answer, for as long as it likes.
StoreHangs ==
  /\ upc \in {"put", "find", "put-text"} /\ Event
  /\ UGoto("hung")
  /\ UNCHANGED <<folder, saved, locked, jobs, job, fd, delay, skips, stored, stop, touched, unsent>>

\* 1, 2, 4, .. seconds, the last one for as long as it takes.
NextDelay == IF delay < MaxDelay THEN delay + 1 ELSE delay

\* It waits, and opens the store anew.
Backoff ==
  /\ upc = "backoff"
  /\ delay' = NextDelay
  /\ UGoto("reopen")
  /\ UNCHANGED <<folder, saved, locked, jobs, job, fd, skips, stored, stop, touched, unsent, events>>

\* Whether that succeeds or not, the job is tried again from its start, unless
\* the server denies the device.
Reopen ==
  /\ upc = "reopen"
  /\ \/ UGoto(IF job \in Paths THEN "open" ELSE "find") /\ UNCHANGED events
     \/ Event /\ UGoto("off")
  /\ fd' = 0
  /\ UNCHANGED <<folder, saved, locked, jobs, job, delay, skips, stored, stop, touched, unsent>>

\* Mutant: only a job that waits is abandoned.
AbandonWaiting ==
  /\ stop /\ upc = "backoff"
  /\ Finished
  /\ UNCHANGED <<folder, saved, locked, jobs, skips, stored, stop, touched, unsent, events>>

\* A stop request ends the attempt under way, or the wait for the next.
Abandon ==
  /\ stop /\ upc \in Attempt \cup {"backoff"}
  /\ Finished
  /\ UNCHANGED <<folder, saved, locked, jobs, skips, stored, stop, touched, unsent, events>>

\* Between jobs it ends serve.
End ==
  /\ stop /\ upc = "ready"
  /\ UGoto("off")
  /\ UNCHANGED <<folder, saved, locked, jobs, job, fd, delay, skips, stored, stop, touched, unsent, events>>

UploaderStep ==
  \/ Take \/ OpenFile \/ PutFile \/ ReadFails \/ FinishFile \/ FindText \/ PutText
  \/ StoreFails \/ Backoff \/ Reopen
================================================================================
