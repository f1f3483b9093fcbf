------------------------------- MODULE DaemonLock -------------------------------
(***************************************************************************)
(* The pid file that lets one `serve` run at a time: a process opens the   *)
(* file, locks what it opened, writes its pid, and removes the file before *)
(* it unlocks it.  `--status` and `--stop` open and lock it for a moment.  *)
(***************************************************************************)
EXTENDS Naturals

CONSTANTS Serves,   \* processes that run `serve`, each once
          Callers,  \* `serve --status` and `serve --stop`
          MaxFiles, \* bound on the pid files made
          MaxAsks,  \* bound on the questions of each caller
          Straggles, \* whether a pid file may be removed between a process's open and its lock
          NoFile, Nobody

ASSUME DaemonLockAssumption ==
  /\ MaxFiles \in Nat /\ MaxAsks \in Nat /\ Straggles \in BOOLEAN
  /\ Serves \cap Callers = {} /\ Nobody \notin Serves \cup Callers
  /\ NoFile \notin 1..MaxFiles

VARIABLES
  entry,      \* the file under the pid file's name
  text,       \* what each file says: a pid, and whether it is ready
  holder,     \* who locked each file
  spc,        \* what each `serve` does next
  fd,         \* the file each process opened
  cpc,        \* what each caller does next
  job,        \* its question: status or stop, and whom it signalled
  asks,
  signalled,  \* the `serve`s that were told to stop
  idle        \* whether nothing served at a moment of the question (observer)

lockVars == <<entry, text, holder, spc, fd, cpc, job, asks, signalled, idle>>

Files == 1..MaxFiles
Procs == Serves \cup Callers
Texts == [pid : Serves \cup {Nobody}, ready : BOOLEAN]
Blank == [pid |-> Nobody, ready |-> FALSE]
NoJob == [kind |-> "none", pid |-> Nobody]

LockTypeOK ==
  /\ entry \in Files \cup {NoFile}
  /\ text \in [Files -> Texts]
  /\ holder \in [Files -> Procs \cup {Nobody}]
  /\ spc \in [Serves -> {"off", "opened", "locked", "starting", "ready", "leaving", "gone"}]
  /\ fd \in [Procs -> Files \cup {NoFile}]
  /\ cpc \in [Callers -> {"idle", "ask", "opened", "reading", "not-running", "stopped"}]
  /\ job \in [Callers -> [kind : {"none", "status", "stop", "stopping"}, pid : Serves \cup {Nobody}]]
  /\ asks \in [Callers -> 0..MaxAsks]
  /\ signalled \in SUBSET Serves /\ idle \in [Callers -> BOOLEAN]

LockInit ==
  /\ entry = NoFile /\ text = [f \in Files |-> Blank] /\ holder = [f \in Files |-> Nobody]
  /\ spc = [p \in Serves |-> "off"] /\ fd = [p \in Procs |-> NoFile]
  /\ cpc = [c \in Callers |-> "idle"] /\ job = [c \in Callers |-> NoJob]
  /\ asks = [c \in Callers |-> 0]
  /\ signalled = {} /\ idle = [c \in Callers |-> TRUE]

Serving == {p \in Serves : spc[p] \in {"locked", "starting", "ready"}}
ToServe(p, s) == spc' = [spc EXCEPT ![p] = s]
Made == {f \in Files : text[f] # Blank \/ holder[f] # Nobody \/ entry = f \/ \E p \in Procs : fd[p] = f}
Unlocked(p) == [f \in Files |-> IF holder[f] = p THEN Nobody ELSE holder[f]]

(***************************************************************************)
(* `serve`.                                                                *)
(***************************************************************************)
Open(p) ==
  /\ spc[p] = "off" /\ ToServe(p, "opened")
  /\ IF entry # NoFile THEN fd' = [fd EXCEPT ![p] = entry] /\ UNCHANGED entry
     ELSE \E f \in Files \ Made : \* a new file
            /\ \A g \in Files \ Made : f <= g
            /\ entry' = f /\ fd' = [fd EXCEPT ![p] = f]
  /\ UNCHANGED <<text, holder, cpc, job, asks, signalled>>

\* Mutant: a file that names no process counts as left behind.
LockBlank(p) ==
  /\ spc[p] = "opened"
  /\ IF holder[fd[p]] = Nobody \/ text[fd[p]].pid = Nobody
     THEN holder' = [holder EXCEPT ![fd[p]] = p] /\ ToServe(p, "locked") /\ UNCHANGED fd
     ELSE fd' = [fd EXCEPT ![p] = NoFile] /\ ToServe(p, "gone") /\ UNCHANGED holder
  /\ UNCHANGED <<entry, text, cpc, job, asks, signalled>>

\* Whoever finds the file locked is refused.
Lock(p) ==
  /\ spc[p] = "opened"
  /\ IF holder[fd[p]] = Nobody
     THEN holder' = [holder EXCEPT ![fd[p]] = p] /\ ToServe(p, "locked") /\ UNCHANGED fd
     ELSE fd' = [fd EXCEPT ![p] = NoFile] /\ ToServe(p, "gone") /\ UNCHANGED holder
  /\ UNCHANGED <<entry, text, cpc, job, asks, signalled>>

Write(p, s, t) ==
  /\ ToServe(p, s) /\ text' = [text EXCEPT ![fd[p]] = t]
  /\ UNCHANGED <<entry, holder, fd, cpc, job, asks, signalled>>

\* What the file said before is replaced.
Record(p) == spc[p] = "locked" /\ Write(p, "starting", [pid |-> p, ready |-> FALSE])
MarkReady(p) == spc[p] = "starting" /\ Write(p, "ready", [text[fd[p]] EXCEPT !.ready = TRUE])

Unraced == Straggles \/ \A p \in Serves : spc[p] = "opened" => fd[p] # entry

\* Start-up fails, or `serve` is told to stop: the file is removed first,
Unlink(p) ==
  /\ spc[p] \in {"starting", "ready"}
  /\ Unraced
  /\ ToServe(p, "leaving") /\ entry' = NoFile
  /\ UNCHANGED <<text, holder, fd, cpc, job, asks, signalled>>

\* and its lock ends with the process.
Close(p) ==
  /\ spc[p] = "leaving"
  /\ ToServe(p, "gone") /\ holder' = Unlocked(p) /\ fd' = [fd EXCEPT ![p] = NoFile]
  /\ UNCHANGED <<entry, text, cpc, job, asks, signalled>>

\* A killed process leaves its file behind.
Kill(p) ==
  /\ spc[p] \notin {"off", "gone"}
  /\ ToServe(p, "gone") /\ holder' = Unlocked(p) /\ fd' = [fd EXCEPT ![p] = NoFile]
  /\ UNCHANGED <<entry, text, cpc, job, asks, signalled>>

(***************************************************************************)
(* `--status` and `--stop`.                                                *)
(***************************************************************************)
ToCall(c, s, j) == cpc' = [cpc EXCEPT ![c] = s] /\ job' = [job EXCEPT ![c] = j]

Ask(c) ==
  /\ cpc[c] = "idle" /\ asks[c] < MaxAsks
  /\ asks' = [asks EXCEPT ![c] = @ + 1]
  /\ \E kind \in {"status", "stop"} : ToCall(c, "ask", [NoJob EXCEPT !.kind = kind])
  /\ UNCHANGED <<entry, text, holder, spc, fd, signalled>>

NotRunning(c) == ToCall(c, IF job[c].kind = "stopping" THEN "stopped" ELSE "not-running", job[c])

StatusOpen(c) ==
  /\ cpc[c] = "ask"
  /\ IF entry = NoFile THEN NotRunning(c) /\ UNCHANGED fd
     ELSE ToCall(c, "opened", job[c]) /\ fd' = [fd EXCEPT ![c] = entry]
  /\ UNCHANGED <<entry, text, holder, spc, asks, signalled>>

\* Mutant: a file that names no process is answered as not running.
StatusRead(c) ==
  /\ cpc[c] = "opened"
  /\ IF text[fd[c]].pid = Nobody THEN NotRunning(c) ELSE ToCall(c, "reading", job[c])
  /\ UNCHANGED <<entry, text, holder, spc, fd, asks, signalled>>

\* It holds the lock until it has answered.
StatusLock(c) ==
  /\ cpc[c] = "opened"
  /\ IF holder[fd[c]] = Nobody
     THEN NotRunning(c) /\ holder' = [holder EXCEPT ![fd[c]] = c]
     ELSE ToCall(c, "reading", job[c]) /\ UNCHANGED holder
  /\ UNCHANGED <<entry, text, spc, fd, asks, signalled>>

\* The pid is read from the file there is by now.
ReadState(c) ==
  /\ cpc[c] = "reading"
  /\ fd' = [fd EXCEPT ![c] = NoFile]
  /\ LET pid == IF entry = NoFile THEN Nobody ELSE text[entry].pid IN
     CASE job[c].kind = "stopping" -> ToCall(c, "ask", job[c]) /\ UNCHANGED signalled
       [] job[c].kind = "stop" /\ pid # Nobody /\ spc[pid] # "gone" ->
            ToCall(c, "ask", [kind |-> "stopping", pid |-> pid]) /\ signalled' = signalled \cup {pid}
       [] OTHER -> ToCall(c, "idle", NoJob) /\ UNCHANGED signalled
  /\ UNCHANGED <<entry, text, holder, spc, asks>>

\* It answers and ends; a `--stop` that waited too long ends too.
Answer(c) ==
  /\ cpc[c] \in {"not-running", "stopped"} \/ (cpc[c] = "ask" /\ job[c].kind = "stopping")
  /\ ToCall(c, "idle", NoJob)
  /\ holder' = Unlocked(c) /\ fd' = [fd EXCEPT ![c] = NoFile]
  /\ UNCHANGED <<entry, text, spc, asks, signalled>>

\* Whether nothing served since the question, or since the signal, was made.
Watch ==
  idle' = [c \in Callers |->
             IF cpc'[c] = "idle" THEN TRUE
             ELSE Serving' = {} \/ (cpc[c] # "idle" /\ job'[c].kind = job[c].kind /\ idle[c])]

ServeStep(p) == Open(p) \/ Lock(p) \/ Record(p) \/ MarkReady(p) \/ Unlink(p) \/ Close(p) \/ Kill(p)
CallerStep(c) == Ask(c) \/ StatusOpen(c) \/ StatusLock(c) \/ ReadState(c) \/ Answer(c)
LockNext == ((\E p \in Serves : ServeStep(p)) \/ \E c \in Callers : CallerStep(c)) /\ Watch
LockSpec == LockInit /\ [][LockNext]_lockVars
--------------------------------------------------------------------------------
\* One `serve` runs at a time (daemon.rs `PidLock`), as long as no pid file is
\* removed between the moments another process opens it and locks it.
OneServe == \A p, q \in Serving : p = q

\* Who is told that nothing runs asked while nothing ran for a moment, and who
\* is told that `serve` stopped waited until it had (daemon.rs `status`,
\* commands/serve.rs `stop`).
AnswersTrue ==
  \A c \in Callers :
    /\ cpc[c] \in {"not-running", "stopped"} => idle[c]
    /\ cpc[c] = "stopped" => spc[job[c].pid] \in {"leaving", "gone"}
================================================================================
