------------------------------ MODULE DeviceProofs ------------------------------
(***************************************************************************)
(* What a device keeps, for any number of `serve` processes, callers,      *)
(* commands, pid files and items: one `serve` runs at a time, its pid file *)
(* tells who asks the truth, and its list cache hides nothing and lists no *)
(* ghosts.                                                                 *)
(***************************************************************************)
EXTENDS Device, TLAPS

(***************************************************************************)
(* The pid file: whoever serves holds the lock of the file that is under   *)
(* its name, and whoever has opened a file has opened that one.            *)
(***************************************************************************)
Held(p) == fd[p] \in Files /\ fd[p] = entry /\ holder[fd[p]] = p

Inv ==
  /\ entry \in Files \cup {NoFile}
  /\ fd \in [Procs -> Files \cup {NoFile}]
  /\ holder \in [Files -> Procs \cup {Nobody}]
  /\ spc \in [Serves -> {"off", "opened", "locked", "starting", "ready", "leaving", "gone"}]
  /\ \A p \in Serving : Held(p)
  /\ \A p \in Serves : spc[p] = "opened" => fd[p] \in Files /\ fd[p] = entry

USE DaemonLockAssumption DEF Procs, Files

\* The first state is one of them: nothing is opened or locked.
LEMMA InvInit == LockInit => Inv
  BY DEF LockInit, Inv, Serving

\* Only the file under the name is opened, and a new one only when there is none.
LEMMA InvOpen == ASSUME Inv, NEW p \in Serves, Open(p) PROVE Inv'
  BY DEF Inv, Open, ToServe, Serving, Held, Made

\* Who finds it unlocked is the only one to serve.
LEMMA InvLock == ASSUME Inv, NEW p \in Serves, Lock(p) PROVE Inv'
  BY DEF Inv, Lock, ToServe, Serving, Held

\* What the file says does not matter to the lock.
LEMMA InvWrite == ASSUME Inv, NEW p \in Serves, Record(p) \/ MarkReady(p) PROVE Inv'
  BY DEF Inv, Record, MarkReady, Write, ToServe, Serving, Held

\* Whoever removes the file served, so nobody else did, and nobody has opened it.
LEMMA InvUnlink == ASSUME Inv, ~Straggles, NEW p \in Serves, Unlink(p) PROVE Inv'
<1>1. Held(p)
  BY DEF Inv, Unlink, Serving
<1>2. \A q \in Serves : spc[q] # "opened"
  BY DEF Inv, Unlink, Unraced
<1>3. \A q \in Serving : q = p
  BY <1>1 DEF Inv, Held
<1> QED
  BY <1>1, <1>2, <1>3 DEF Inv, Unlink, ToServe, Serving, Held

\* A process that ends unlocks only what it held.
LEMMA InvEnd == ASSUME Inv, NEW p \in Serves, Close(p) \/ Kill(p) PROVE Inv'
  BY DEF Inv, Close, Kill, ToServe, Unlocked, Serving, Held

\* Callers lock only what nobody holds, and unlock only what they hold.
LEMMA InvCaller == ASSUME Inv, NEW c \in Callers, CallerStep(c) PROVE Inv'
<1>1. CASE Ask(c)
  BY <1>1 DEF Inv, Ask, Serving, Held
<1>2. CASE StatusOpen(c)
  BY <1>2 DEF Inv, StatusOpen, Serving, Held
<1>3. CASE StatusLock(c)
  <2>1. entry' = entry /\ spc' = spc /\ fd' = fd
    BY <1>3, Zenon DEF StatusLock
  <2>2. \A f \in Files : holder[f] # Nobody => holder'[f] = holder[f]
    BY <1>3 DEF StatusLock, Inv
  <2>3. holder' \in [Files -> Procs \cup {Nobody}]
    BY <1>3 DEF StatusLock, Inv, Procs
  <2> QED
    BY <2>1, <2>2, <2>3 DEF Inv, Serving, Held
<1>4. CASE ReadState(c)
  BY <1>4 DEF Inv, ReadState, Serving, Held
<1>5. CASE Answer(c)
  BY <1>5 DEF Inv, Answer, Unlocked, Serving, Held
<1> QED
  BY <1>1, <1>2, <1>3, <1>4, <1>5 DEF CallerStep

\* At most one process is between taking the lock and removing the pid file
\* (daemon.rs `PidLock`), as long as no pid file is removed between the moments
\* another process opens it and locks it.
THEOREM ServesExclude == ASSUME ~Straggles PROVE LockSpec => []OneServe
<1>1. Inv /\ [LockNext]_lockVars => Inv'
  <2> SUFFICES ASSUME Inv, [LockNext]_lockVars PROVE Inv'
    OBVIOUS
  <2>1. CASE UNCHANGED lockVars
    BY <2>1 DEF Inv, lockVars, Serving, Held
  <2>2. CASE LockNext
    BY <2>2, InvOpen, InvLock, InvWrite, InvUnlink, InvEnd, InvCaller DEF LockNext, ServeStep
  <2> QED
    BY <2>1, <2>2
<1>2. Inv => OneServe
  BY DEF Inv, OneServe, Held
<1> QED
  BY InvInit, <1>1, <1>2, PTL DEF LockSpec

--------------------------------------------------------------------------------
(***************************************************************************)
(* What `--status` and `--stop` answer.  A caller that has opened the pid  *)
(* file and saw no moment without a `serve` opened the file of the one     *)
(* that serves, and a pid is read only of a process that recorded it.      *)
(***************************************************************************)
Past == {"starting", "ready", "leaving", "gone"}
Gone == {"leaving", "gone"}

Asked ==
  /\ cpc \in [Callers -> {"idle", "ask", "opened", "reading", "not-running", "stopped"}]
  /\ job \in [Callers -> [kind : {"none", "status", "stop", "stopping"}, pid : Serves \cup {Nobody}]]
  /\ idle \in [Callers -> BOOLEAN]
  /\ text \in [Files -> Texts]
  /\ \A f \in Files : text[f].pid \in Serves => spc[text[f].pid] \in Past
  /\ \A c \in Callers :
       /\ cpc[c] = "opened" =>
            fd[c] \in Files /\ (idle[c] \/ \E p \in Serving : fd[p] = fd[c])
       /\ cpc[c] \in {"not-running", "stopped"} => idle[c]
       /\ cpc[c] = "stopped" => job[c].kind = "stopping"
       /\ cpc[c] # "idle" /\ job[c].kind = "stopping" =>
            job[c].pid \in Serves /\ spc[job[c].pid] \in (IF idle[c] THEN Gone ELSE Past)

LEMMA AskedInit == LockInit => Asked
  BY DEF LockInit, Asked, Texts, Blank, NoJob

\* What a process does lets a caller see a moment without a `serve`, if any.
LEMMA AskedServe ==
  ASSUME Inv, Inv', Asked, NEW p \in Serves, ServeStep(p), Watch
  PROVE  Asked'
<1> USE DEF Past, Gone
<1>1. /\ UNCHANGED <<cpc, job>>
      /\ \A c \in Callers : fd'[c] = fd[c]
      /\ \A q \in Serves : q # p => fd'[q] = fd[q] /\ spc'[q] = spc[q]
      /\ spc[p] \in Past => spc'[p] \in Past
      /\ spc[p] \in Gone => spc'[p] \in Gone
  BY DEF Inv, ServeStep, Open, Lock, Record, MarkReady, Write, Unlink, Close, Kill, ToServe
<1>2. /\ text' \in [Files -> Texts]
      /\ \A f \in Files : text'[f].pid \in Serves => spc'[text'[f].pid] \in Past
  <2>1. CASE Record(p)
    <3>1. fd[p] \in Files /\ spc'[p] = "starting"
      BY <2>1 DEF Inv, Record, Write, ToServe, Serving, Held
    <3>2. text' = [text EXCEPT ![fd[p]] = [pid |-> p, ready |-> FALSE]]
      BY <2>1 DEF Record, Write
    <3>3. [pid |-> p, ready |-> FALSE] \in Texts
      BY DEF Texts
    <3>4. text' \in [Files -> Texts]
      BY <3>1, <3>2, <3>3 DEF Asked
    <3>5. \A f \in Files : text'[f].pid \in Serves => spc'[text'[f].pid] \in Past
      <4> SUFFICES ASSUME NEW f \in Files, text'[f].pid \in Serves PROVE spc'[text'[f].pid] \in Past
        OBVIOUS
      <4>1. CASE f = fd[p]
        BY <3>1, <3>2, <4>1 DEF Asked
      <4>2. CASE f # fd[p]
        <5>1. text'[f] = text[f]
          BY <3>2, <4>2 DEF Asked
        <5> QED
          BY <5>1, <1>1 DEF Asked
      <4> QED
        BY <4>1, <4>2
    <3> QED
      BY <3>4, <3>5
  <2>2. CASE MarkReady(p)
    <3>1. spc[p] = "starting" /\ spc' = [spc EXCEPT ![p] = "ready"] /\ fd[p] \in Files
      BY <2>2 DEF Inv, MarkReady, Write, ToServe, Serving, Held
    <3>2. text' = [text EXCEPT ![fd[p]] = [text[fd[p]] EXCEPT !.ready = TRUE]]
      BY <2>2 DEF MarkReady, Write
    <3>3. \A t \in Texts : [t EXCEPT !.ready = TRUE] \in Texts /\ [t EXCEPT !.ready = TRUE].pid = t.pid
      BY DEF Texts
    <3>4. \A f \in Files : text[f] \in Texts /\ text'[f] \in Texts /\ text'[f].pid = text[f].pid
      BY <3>1, <3>2, <3>3 DEF Asked
    <3>5. text' \in [Files -> Texts]
      BY <3>1, <3>2, <3>3 DEF Asked
    <3>6. \A f \in Files : text'[f].pid \in Serves => spc'[text'[f].pid] \in Past
      BY <1>1, <3>4 DEF Asked
    <3> QED
      BY <3>5, <3>6
  <2>3. CASE UNCHANGED text
    BY <2>3, <1>1 DEF Asked, Texts
  <2> QED
    BY <2>1, <2>2, <2>3 DEF ServeStep, Open, Lock, Unlink, Close, Kill
<1>3. idle' \in [Callers -> BOOLEAN]
  BY DEF Watch, Asked
<1>4. ASSUME NEW c \in Callers, cpc[c] # "idle"
      PROVE  idle'[c] = (Serving' = {} \/ idle[c])
  BY <1>1, <1>4 DEF Watch, Asked
<1>5. ASSUME NEW c \in Callers, cpc[c] = "opened"
      PROVE  fd[c] \in Files /\ (idle'[c] \/ \E q \in Serving' : fd'[q] = fd'[c])
  <2>1. CASE idle[c]
    BY <1>4, <1>5, <2>1 DEF Asked
  <2>2. CASE ~idle[c]
    <3>1. PICK q \in Serving : fd[q] = fd[c]
      BY <1>5, <2>2 DEF Asked
    <3>2. CASE q \in Serving'
      <4>1. spc[q] \in {"locked", "starting", "ready"} /\ spc'[q] \in {"locked", "starting", "ready"}
        BY <3>2 DEF Serving, Inv
      <4>2. fd'[q] = fd[q]
        <5>1. CASE q # p
          BY <1>1, <5>1 DEF Serving
        <5>2. CASE q = p
          <6>1. ~Open(p) /\ ~Lock(p)
            BY <4>1, <5>2 DEF Open, Lock
          <6>2. ~Close(p) /\ ~Kill(p)
            BY <4>1, <5>2 DEF Close, Kill, ToServe, Inv, Serving
          <6> QED
            BY <5>2, <6>1, <6>2 DEF ServeStep, Record, MarkReady, Write, Unlink
        <5> QED
          BY <5>1, <5>2
      <4> QED
        BY <1>1, <1>5, <3>1, <3>2, <4>2 DEF Asked
    <3>3. CASE q \notin Serving'
      <4>1. q = p
        BY <1>1, <3>3 DEF Serving
      <4>2. \A r \in Serving : r = p
        BY <4>1, <3>1 DEF Inv, Held
      <4>3. Serving' = {}
        BY <1>1, <3>3, <4>1, <4>2 DEF Serving
      <4> QED
        BY <1>4, <1>5, <4>3 DEF Asked
    <3> QED
      BY <3>2, <3>3
  <2> QED
    BY <2>1, <2>2
<1>6. ASSUME NEW c \in Callers, cpc[c] # "idle", job[c].kind = "stopping"
      PROVE  job[c].pid \in Serves /\ spc'[job[c].pid] \in (IF idle'[c] THEN Gone ELSE Past)
  <2>1. job[c].pid \in Serves /\ spc'[job[c].pid] \in Past
    BY <1>1, <1>6 DEF Asked
  <2>2. CASE idle[c]
    BY <1>1, <1>4, <1>6, <2>1, <2>2 DEF Asked
  <2>3. CASE ~idle[c]
    BY <1>4, <1>6, <2>1, <2>3 DEF Serving, Inv
  <2> QED
    BY <2>2, <2>3 DEF Asked
<1> QED
  BY <1>1, <1>2, <1>3, <1>4, <1>5, <1>6 DEF Asked

\* A caller answers "not running" when it finds no file, or an unlocked one.
LEMMA AskedCaller ==
  ASSUME Inv, Inv', Asked, NEW c \in Callers, CallerStep(c), Watch
  PROVE  Asked'
<1> USE DEF Past, Gone
<1>1. /\ UNCHANGED <<spc, text>> /\ Serving' = Serving
      /\ \A d \in Callers : d # c => cpc'[d] = cpc[d] /\ job'[d] = job[d]
      /\ \A d \in Callers : d # c => fd'[d] = fd[d]
      /\ \A p \in Serves : fd'[p] = fd[p]
  BY DEF Inv, Asked, CallerStep, Ask, StatusOpen, StatusLock, ReadState, Answer, ToCall, NotRunning, Serving
<1>2. idle' \in [Callers -> BOOLEAN]
  BY DEF Watch, Asked
<1>3. /\ cpc' \in [Callers -> {"idle", "ask", "opened", "reading", "not-running", "stopped"}]
      /\ job' \in [Callers -> [kind : {"none", "status", "stop", "stopping"}, pid : Serves \cup {Nobody}]]
  <2>1. CASE ReadState(c)
    <3>1. (IF entry = NoFile THEN Nobody ELSE text[entry].pid) \in Serves \cup {Nobody}
      <4>1. CASE entry \in Files
        <5>1. text[entry] \in Texts
          BY <4>1 DEF Asked
        <5> QED
          BY <5>1 DEF Texts
      <4> QED
        BY <4>1 DEF Inv
    <3> DEFINE pid == IF entry = NoFile THEN Nobody ELSE text[entry].pid
               Kinds == [kind : {"none", "status", "stop", "stopping"}, pid : Serves \cup {Nobody}]
    <3>2. job[c] \in Kinds /\ NoJob \in Kinds /\ [kind |-> "stopping", pid |-> pid] \in Kinds
      BY <3>1 DEF Asked, NoJob
    <3>3. \E s \in {"ask", "idle"} : \E j \in Kinds : ToCall(c, s, j)
      <4>1. ToCall(c, "ask", job[c]) \/ ToCall(c, "ask", [kind |-> "stopping", pid |-> pid]) \/ ToCall(c, "idle", NoJob)
        <5> HIDE DEF pid, Kinds
        <5>1. ReadState(c) => (CASE job[c].kind = "stopping" -> ToCall(c, "ask", job[c])
                                 [] job[c].kind = "stop" /\ pid # Nobody /\ spc[pid] # "gone" ->
                                      ToCall(c, "ask", [kind |-> "stopping", pid |-> pid])
                                 [] OTHER -> ToCall(c, "idle", NoJob))
          BY DEF ReadState, pid
        <5> QED
          BY <2>1, <5>1
      <4> QED
        BY <3>2, <4>1
    <3> QED
      BY <3>3 DEF Asked, ToCall
  <2>2. CASE Ask(c) \/ StatusOpen(c) \/ StatusLock(c) \/ Answer(c)
    BY <2>2 DEF Asked, Ask, StatusOpen, StatusLock, Answer, ToCall, NotRunning, NoJob
  <2> QED
    BY <2>1, <2>2 DEF CallerStep
<1>4. ASSUME NEW d \in Callers, cpc'[d] # "idle"
      PROVE  idle'[d] = (Serving' = {} \/ (cpc[d] # "idle" /\ job'[d].kind = job[d].kind /\ idle[d]))
  BY <1>4 DEF Watch, Asked
<1>5. ASSUME NEW d \in Callers
      PROVE  /\ cpc'[d] = "opened" =>
                  fd'[d] \in Files /\ (idle'[d] \/ \E p \in Serving' : fd'[p] = fd'[d])
             /\ cpc'[d] \in {"not-running", "stopped"} => idle'[d]
             /\ cpc'[d] = "stopped" => job'[d].kind = "stopping"
             /\ cpc'[d] # "idle" /\ job'[d].kind = "stopping" =>
                  job'[d].pid \in Serves /\ spc'[job'[d].pid] \in (IF idle'[d] THEN Gone ELSE Past)
  <2>0. Serving \subseteq Serves /\ \A p \in Serving : fd'[p] = fd[p]
    BY <1>1 DEF Serving
  <2>1. CASE d # c
    <3>1. cpc'[d] = cpc[d] /\ job'[d] = job[d] /\ fd'[d] = fd[d]
      BY <2>1, <1>1
    <3>2. cpc[d] # "idle" => idle'[d] = (Serving = {} \/ idle[d])
      BY <3>1, <1>1, <1>4
    <3>3. cpc[d] = "opened" => fd[d] \in Files /\ (idle[d] \/ \E p \in Serving : fd'[p] = fd[d])
      BY <2>0 DEF Asked
    <3>4. cpc[d] # "idle" /\ job[d].kind = "stopping" =>
            /\ job[d].pid \in Serves /\ spc[job[d].pid] \in (IF idle[d] THEN Gone ELSE Past)
            /\ Serving = {} => spc[job[d].pid] \in Gone
      BY DEF Asked, Serving
    <3> QED
      BY <3>1, <3>2, <3>3, <3>4, <1>1 DEF Asked
  <2>2. CASE d = c /\ Ask(c)
    BY <2>0, <2>2, <1>1, <1>4 DEF Ask, ToCall, NoJob, Asked
  <2>3. CASE d = c /\ StatusOpen(c)
    <3>1. CASE entry = NoFile
      <4>1. Serving = {}
        BY <3>1 DEF Inv, Held
      <4> QED
        <5>1. /\ job'[c] = job[c] /\ cpc'[c] \in {"not-running", "stopped"} /\ cpc[c] = "ask"
              /\ cpc'[c] = "stopped" => job[c].kind = "stopping"
          BY <2>3, <3>1 DEF StatusOpen, NotRunning, ToCall, Asked
        <5>2. idle'[c]
          BY <4>1, <5>1, <1>1, <1>4
        <5>3. job[c].kind = "stopping" => job[c].pid \in Serves /\ spc[job[c].pid] \in Gone
          BY <4>1, <5>1 DEF Asked, Serving
        <5> QED
          BY <5>1, <5>2, <5>3, <1>1, <2>3
    <3>2. CASE entry # NoFile
      <4>1. cpc'[c] = "opened" /\ job'[c] = job[c] /\ fd'[c] = entry /\ entry \in Files /\ cpc[c] = "ask"
        BY <2>3, <3>2 DEF StatusOpen, ToCall, Asked, Inv
      <4>2. Serving = {} \/ \E p \in Serving : fd'[p] = entry
        BY <2>0 DEF Inv, Held
      <4>3. job[c].kind = "stopping" =>
              job[c].pid \in Serves /\ spc[job[c].pid] \in (IF idle[c] THEN Gone ELSE Past)
        BY <4>1 DEF Asked
      <4>4. Serving = {} /\ job[c].kind = "stopping" => spc[job[c].pid] \in Gone
        BY <4>3 DEF Serving, Inv
      <4> QED
        BY <4>1, <4>2, <4>3, <4>4, <1>1, <1>2, <1>4, <2>3 DEF Asked
    <3> QED
      BY <3>1, <3>2
  <2>4. CASE d = c /\ StatusLock(c)
    <3>1. CASE holder[fd[c]] = Nobody
      <4>1. idle[c]
        BY <2>4, <3>1 DEF StatusLock, Asked, Inv, Held, Serving
      <4> QED
        BY <4>1, <2>4, <3>1, <1>1, <1>4 DEF StatusLock, NotRunning, ToCall, Asked
    <3>2. CASE holder[fd[c]] # Nobody
      <4>1. cpc'[c] = "reading" /\ job'[c] = job[c] /\ cpc[c] = "opened"
        BY <2>4, <3>2 DEF StatusLock, ToCall, Asked
      <4>2. job[c].kind = "stopping" =>
              job[c].pid \in Serves /\ spc[job[c].pid] \in (IF idle[c] THEN Gone ELSE Past)
        BY <4>1 DEF Asked
      <4>3. Serving = {} /\ job[c].kind = "stopping" => spc[job[c].pid] \in Gone
        BY <4>2 DEF Serving, Inv
      <4> QED
        BY <4>1, <4>2, <4>3, <1>1, <1>2, <1>4, <2>4
    <3> QED
      BY <3>1, <3>2
  <2>5. CASE d = c /\ ReadState(c)
    <3> DEFINE pid == IF entry = NoFile THEN Nobody ELSE text[entry].pid
    <3>1. CASE job[c].kind = "stopping"
      <4>1. cpc'[c] = "ask" /\ job'[c] = job[c] /\ cpc[c] = "reading"
        BY <2>5, <3>1 DEF ReadState, ToCall, Asked
      <4>2. job[c].pid \in Serves /\ spc[job[c].pid] \in (IF idle[c] THEN Gone ELSE Past)
        BY <3>1, <4>1 DEF Asked
      <4>3. Serving = {} => spc[job[c].pid] \in Gone
        BY <4>2 DEF Serving, Inv
      <4> QED
        BY <4>1, <4>2, <4>3, <1>1, <1>2, <1>4, <2>5
    <3>2. CASE job[c].kind = "stop" /\ pid # Nobody /\ spc[pid] # "gone"
      <4>1. cpc'[c] = "ask" /\ job'[c] = [kind |-> "stopping", pid |-> pid]
        BY <2>5, <3>2 DEF ReadState, ToCall, Asked
      <4>2. entry \in Files /\ pid \in Serves /\ spc[pid] \in Past
        BY <3>2 DEF Asked, Inv, Texts
      <4>3. idle'[c] = (Serving' = {})
        BY <4>1, <3>2, <1>4
      <4>4. Serving = {} => spc[pid] \in Gone
        BY <4>2 DEF Serving
      <4> QED
        <5>1. idle'[c] = (Serving = {})
          BY <4>3, <1>1
        <5>2. spc'[pid] \in (IF idle'[c] THEN Gone ELSE Past)
          <6>1. CASE Serving = {}
            BY <4>4, <5>1, <6>1, <1>1
          <6>2. CASE Serving # {}
            BY <4>2, <5>1, <6>2, <1>1
          <6> QED
            BY <6>1, <6>2
        <5>3. job'[c].pid = pid
          BY <4>1
        <5> QED
          BY <4>1, <4>2, <5>2, <5>3, <2>5
    <3>3. CASE ~(job[c].kind = "stopping") /\ ~(job[c].kind = "stop" /\ pid # Nobody /\ spc[pid] # "gone")
      <4>1. cpc'[c] = "idle"
        BY <2>5, <3>3 DEF ReadState, ToCall, NoJob, Asked
      <4> QED
        BY <4>1, <2>5
    <3> QED
      BY <3>1, <3>2, <3>3
  <2>6. CASE d = c /\ Answer(c)
    BY <2>6 DEF Answer, ToCall, Asked
  <2> QED
    BY <2>1, <2>2, <2>3, <2>4, <2>5, <2>6 DEF CallerStep
<1>6. \A f \in Files : text'[f].pid \in Serves => spc'[text'[f].pid] \in Past
  BY <1>1 DEF Asked
<1> QED
  BY <1>1, <1>2, <1>3, <1>5, <1>6 DEF Asked

\* Whoever is told that nothing runs asked while nothing ran for a moment, and
\* whoever is told that `serve` stopped waited until it had (daemon.rs
\* `status`, commands/serve.rs `stop`).
THEOREM AnswersHold == ASSUME ~Straggles PROVE LockSpec => []AnswersTrue
<1> DEFINE Both == Inv /\ Asked
<1>1. LockInit => Both
  BY InvInit, AskedInit
<1>2. Both /\ [LockNext]_lockVars => Both'
  <2> SUFFICES ASSUME Inv, Asked, [LockNext]_lockVars PROVE Inv' /\ Asked'
    OBVIOUS
  <2>1. CASE UNCHANGED lockVars
    BY <2>1 DEF Inv, Asked, lockVars, Serving, Held
  <2>2. CASE LockNext
    <3>1. Inv'
      BY <2>2, InvOpen, InvLock, InvWrite, InvUnlink, InvEnd, InvCaller DEF LockNext, ServeStep
    <3> QED
      BY <2>2, <3>1, AskedServe, AskedCaller DEF LockNext
  <2> QED
    BY <2>1, <2>2
<1>3. Both => AnswersTrue
  BY DEF Asked, AnswersTrue, Past, Gone
<1> QED
  BY <1>1, <1>2, <1>3, PTL DEF LockSpec

--------------------------------------------------------------------------------
(***************************************************************************)
(* The list cache: what is read and written is true of the time it was     *)
(* asked for.                                                              *)
(***************************************************************************)
CacheFiles == [store : Nat, checked : Nat, items : SUBSET Items]
Reads == [step : {"idle", "asked", "listed"}, at : Nat, store : Nat \cup {NoKey},
          base : CacheFiles \cup {NoCache}, ids : SUBSET Items]
Changes == [step : {"idle", "removing", "changed", "loaded"}, left : SUBSET Items,
            put : SUBSET Items, del : SUBSET Items, store : Nat \cup {NoKey},
            base : CacheFiles \cup {NoCache}]

StoreTyped ==
  /\ items \subseteq Items /\ key \in Nat /\ devKey \in Nat
  /\ born \in [Items -> Nat] /\ gone \in [Items -> Nat] /\ now \in Nat \ {0}
  /\ own \subseteq Items

CacheTyped ==
  /\ file \in CacheFiles \cup {NoCache}
  /\ mem \in [Serves -> CacheFiles \cup {NoCache}]
  /\ rd \in [Readers -> Reads] /\ chg \in [Cmds -> Changes]

\* A list of the store with key s, checked at time t, that says what is true:
\* it misses nothing stored before, and what it lists and is not stored any
\* more was deleted since, or was stored by this device.
TrueOf(s, t, S) ==
  /\ s <= key /\ t <= now
  /\ s = key => /\ \A i \in items : born[i] < t => i \in S
                /\ \A i \in S : i \in items \/ gone[i] >= t \/ i \in own

FileTrue == file # NoCache => TrueOf(file.store, file.checked, file.items)

\* What is being read: a list is true of the time it was asked for.
ReadTrue(r, x) ==
  /\ x.at <= now
  /\ r \in Cmds /\ x.step = "asked" => x.store \in Nat /\ x.store <= key
  /\ x.step = "listed" => x.store \in Nat /\ TrueOf(x.store, x.at, x.ids)

\* What a command changed: the cache it is about to write differs from a true
\* one only by what this device stored and what does not come back.
ChangeTrue(x) ==
  /\ x.put \subseteq own
  /\ \A i \in x.del : i \notin items /\ born[i] # 0
  /\ x.step = "loaded" => x.base \in CacheFiles /\ TrueOf(x.base.store, x.base.checked, x.base.items)

CacheInv ==
  /\ StoreTyped /\ CacheTyped
  /\ devKey <= key /\ (\A i \in items : born[i] # 0)
  /\ FileTrue
  /\ \A r \in Readers : ReadTrue(r, rd[r])
  /\ \A c \in Cmds : ChangeTrue(chg[c])

\* What every step does to the store: time and the key only grow, what was
\* stored once is not stored again, and what goes is marked with the time.
StoreMove ==
  /\ key <= key' /\ now <= now' /\ own \subseteq own'
  /\ \A i \in Items : born[i] # 0 => born'[i] = born[i]
  /\ \A i \in items' : born'[i] # 0
  /\ \A i \in items' : i \in items \/ (born[i] = 0 /\ born'[i] = now)
  /\ key' = key => \A i \in Items : i \in items' \/ gone'[i] = IF i \in items THEN now ELSE gone[i]

\* A true list stays true.
LEMMA TrueStays ==
  ASSUME CacheInv, StoreTyped', StoreMove,
         NEW s \in Nat, NEW t \in Nat, NEW S \in SUBSET Items, TrueOf(s, t, S)
  PROVE  TrueOf(s, t, S)'
<1>1. /\ key \in Nat /\ key' \in Nat /\ now \in Nat /\ now' \in Nat
      /\ key <= key' /\ now <= now' /\ s <= key /\ t <= now
  BY DEF CacheInv, StoreTyped, StoreMove, TrueOf
<1>2. s <= key' /\ t <= now' /\ (s = key' => s = key /\ key' = key)
  BY <1>1
<1>3. ASSUME s = key', NEW i \in items', born'[i] < t PROVE i \in S
  <2>1. i \in items
    <3> SUFFICES ASSUME i \notin items PROVE FALSE
      OBVIOUS
    <3>1. born'[i] = now
      BY DEF StoreMove
    <3> QED
      BY <1>1, <1>3, <3>1
  <2>2. born[i] # 0 /\ i \in Items
    BY <2>1 DEF CacheInv, StoreTyped
  <2>3. born[i] < t
    BY <1>3, <2>2 DEF StoreMove
  <2> QED
    BY <1>2, <1>3, <2>1, <2>3 DEF TrueOf
<1>4. ASSUME s = key', NEW i \in S PROVE i \in items' \/ gone'[i] >= t \/ i \in own'
  <2> SUFFICES ASSUME i \notin items' PROVE gone'[i] >= t \/ i \in own'
    OBVIOUS
  <2>1. i \in items \/ gone[i] >= t \/ i \in own
    BY <1>2, <1>4 DEF TrueOf
  <2>2. gone'[i] = IF i \in items THEN now ELSE gone[i]
    BY <1>2, <1>4 DEF StoreMove
  <2> QED
    BY <1>1, <2>1, <2>2 DEF StoreMove
<1> QED
  BY <1>2, <1>3, <1>4 DEF TrueOf

LEMMA ReadStays ==
  ASSUME CacheInv, StoreTyped', StoreMove, NEW r, NEW x \in Reads, ReadTrue(r, x)
  PROVE  ReadTrue(r, x)'
<1>1. x.at \in Nat /\ x.ids \in SUBSET Items
  BY DEF Reads
<1>2. x.at <= now /\ now <= now' /\ now \in Nat /\ now' \in Nat /\ key <= key' /\ key \in Nat /\ key' \in Nat
  BY DEF ReadTrue, CacheInv, StoreTyped, StoreMove
<1>3. x.at <= now'
  BY <1>1, <1>2
<1>4. ASSUME r \in Cmds, x.step = "asked" PROVE x.store \in Nat /\ x.store <= key'
  <2>1. x.store \in Nat /\ x.store <= key
    BY <1>4 DEF ReadTrue
  <2> QED
    BY <1>2, <2>1
<1>5. ASSUME x.step = "listed" PROVE x.store \in Nat /\ TrueOf(x.store, x.at, x.ids)'
  BY <1>1, <1>5, TrueStays DEF ReadTrue
<1> QED
  BY <1>3, <1>4, <1>5 DEF ReadTrue

LEMMA ChangeStays ==
  ASSUME CacheInv, StoreTyped', StoreMove, NEW x \in Changes, ChangeTrue(x)
  PROVE  ChangeTrue(x)'
<1>1. x.put \subseteq own'
  BY DEF ChangeTrue, StoreMove
<1>2. ASSUME NEW i \in x.del PROVE i \notin items' /\ born'[i] # 0
  <2>1. i \in Items /\ i \notin items /\ born[i] # 0
    BY DEF Changes, ChangeTrue
  <2> QED
    BY <2>1 DEF StoreMove
<1>3. ASSUME x.step = "loaded"
      PROVE  x.base \in CacheFiles /\ TrueOf(x.base.store, x.base.checked, x.base.items)'
  <2>1. x.base \in CacheFiles /\ TrueOf(x.base.store, x.base.checked, x.base.items)
    BY <1>3 DEF ChangeTrue
  <2>2. x.base.store \in Nat /\ x.base.checked \in Nat /\ x.base.items \in SUBSET Items
    BY <2>1 DEF CacheFiles
  <2> QED
    BY <2>1, <2>2, TrueStays
<1> QED
  BY <1>1, <1>2, <1>3 DEF ChangeTrue

\* What a step has to show: that what it wrote is true.
LEMMA CacheMove ==
  ASSUME CacheInv, StoreTyped', CacheTyped', StoreMove, devKey' <= key',
         file' = file \/ FileTrue',
         \A r \in Readers : rd'[r] = rd[r] \/ ReadTrue(r, rd[r])',
         \A c \in Cmds : chg'[c] = chg[c] \/ ChangeTrue(chg[c])'
  PROVE  CacheInv'
<1>1. FileTrue'
  <2> SUFFICES ASSUME file' = file, file # NoCache
               PROVE  TrueOf(file.store, file.checked, file.items)'
    BY DEF FileTrue
  <2> PICK f : f = file
    OBVIOUS
  <2>1. f \in CacheFiles /\ TrueOf(f.store, f.checked, f.items)
    BY DEF CacheInv, CacheTyped, FileTrue
  <2>2. f.store \in Nat /\ f.checked \in Nat /\ f.items \in SUBSET Items
    BY <2>1 DEF CacheFiles
  <2>3. TrueOf(f.store, f.checked, f.items)'
    BY <2>1, <2>2, TrueStays
  <2> QED
    BY <2>3 DEF TrueOf
<1>2. ASSUME NEW r \in Readers PROVE ReadTrue(r, rd[r])'
  <2> SUFFICES ASSUME rd'[r] = rd[r] PROVE ReadTrue(r, rd[r])'
    OBVIOUS
  <2> PICK x : x = rd[r]
    OBVIOUS
  <2>1. x \in Reads /\ ReadTrue(r, x)
    BY DEF CacheInv, CacheTyped
  <2>2. ReadTrue(r, x)'
    BY <2>1, ReadStays
  <2> QED
    BY <2>2 DEF ReadTrue, TrueOf
<1>3. ASSUME NEW c \in Cmds PROVE ChangeTrue(chg[c])'
  <2> SUFFICES ASSUME chg'[c] = chg[c] PROVE ChangeTrue(chg[c])'
    OBVIOUS
  <2> PICK x : x = chg[c]
    OBVIOUS
  <2>1. x \in Changes /\ ChangeTrue(x)
    BY DEF CacheInv, CacheTyped
  <2>2. ChangeTrue(x)'
    BY <2>1, ChangeStays
  <2> QED
    BY <2>2 DEF ChangeTrue, TrueOf
<1>4. \A i \in items' : born'[i] # 0
  BY DEF StoreMove
<1> QED
  BY <1>1, <1>2, <1>3, <1>4 DEF CacheInv

\* Most steps leave the store, and what this device stored, alone.
LEMMA SameStore ==
  ASSUME CacheInv, UNCHANGED <<storeVars, now, own, devKey>>
  PROVE  StoreTyped' /\ StoreMove /\ devKey' <= key'
<1>1. UNCHANGED <<items, key, born, gone, now, own, devKey>>
  BY DEF storeVars
<1>2. StoreTyped'
  BY <1>1 DEF CacheInv, StoreTyped
<1>3. key <= key' /\ now <= now'
  BY <1>1 DEF CacheInv, StoreTyped
<1>4. StoreMove
  BY <1>1, <1>3 DEF CacheInv, StoreMove
<1> QED
  BY <1>1, <1>2, <1>4 DEF CacheInv

--------------------------------------------------------------------------------
(***************************************************************************)
(* The store.                                                              *)
(***************************************************************************)
\* An item is stored, for the first time or as the item it is already.
LEMMA StoreMoves ==
  ASSUME CacheInv, NEW i \in items \cup NextMade, Store(i), UNCHANGED <<now, devKey>>,
         own' \in {own, own \cup {i}}
  PROVE  StoreTyped' /\ StoreMove /\ devKey' <= key'
<1>1. StoreTyped /\ devKey <= key /\ \A j \in items : born[j] # 0
  BY DEF CacheInv
<1>2. /\ items' = items \cup {i} /\ born' = [born EXCEPT ![i] = IF @ = 0 THEN now ELSE @]
      /\ key' = key /\ gone' = gone
  BY DEF Store
<1>3. i \in Items /\ (i \in items \/ born[i] = 0)
  BY <1>1 DEF StoreTyped, NextMade, Unborn
<1>4. \A j \in Items : born'[j] = IF j = i /\ born[j] = 0 THEN now ELSE born[j]
  BY <1>1, <1>2, <1>3 DEF StoreTyped
<1>5. born' \in [Items -> Nat]
  BY <1>1, <1>2, <1>3 DEF StoreTyped
<1>6. StoreTyped'
  BY <1>1, <1>2, <1>3, <1>5 DEF StoreTyped
<1>7. key <= key' /\ now <= now'
  BY <1>1, <1>2 DEF StoreTyped
<1>8. \A j \in items' : born'[j] # 0 /\ (j \in items \/ (born[j] = 0 /\ born'[j] = now))
  BY <1>1, <1>2, <1>3, <1>4 DEF StoreTyped
<1>9. \A j \in Items : j \in items' \/ gone'[j] = IF j \in items THEN now ELSE gone[j]
  BY <1>2
<1>10. StoreMove
  BY <1>4, <1>7, <1>8, <1>9 DEF StoreMove
<1> QED
  BY <1>1, <1>2, <1>6, <1>10

LEMMA RemoveMoves ==
  ASSUME CacheInv, NEW S \in SUBSET items, Remove(S), UNCHANGED <<now, devKey, own>>
  PROVE  StoreTyped' /\ StoreMove /\ devKey' <= key'
<1>1. StoreTyped /\ devKey <= key /\ \A j \in items : born[j] # 0
  BY DEF CacheInv
<1>2. /\ items' = items \ S /\ gone' = [i \in Items |-> IF i \in S THEN now ELSE gone[i]]
      /\ key' = key /\ born' = born
  BY DEF Remove
<1>3. StoreTyped'
  BY <1>1, <1>2 DEF StoreTyped
<1>4. key <= key' /\ now <= now'
  BY <1>1, <1>2 DEF StoreTyped
<1>5. \A j \in Items : j \in items' \/ gone'[j] = IF j \in items THEN now ELSE gone[j]
  BY <1>2
<1>6. StoreMove
  BY <1>1, <1>2, <1>4, <1>5 DEF StoreMove
<1> QED
  BY <1>1, <1>2, <1>3, <1>6

LEMMA TickInv == ASSUME CacheInv, Tick \/ Join PROVE CacheInv'
<1>1. StoreTyped /\ devKey <= key /\ \A j \in items : born[j] # 0
  BY DEF CacheInv
<1>2. /\ UNCHANGED <<items, key, born, gone, own, file, mem, rd, chg>>
      /\ \/ now' = now + 1 /\ devKey' = devKey
         \/ now' = now /\ devKey' = key
  BY DEF Tick, Join, storeVars
<1>3. StoreTyped' /\ devKey' <= key' /\ key <= key' /\ now <= now'
  BY <1>1, <1>2 DEF StoreTyped
<1>4. StoreMove
  BY <1>1, <1>2, <1>3 DEF StoreMove
<1>5. CacheTyped'
  BY <1>2 DEF CacheInv, CacheTyped
<1> QED
  BY <1>2, <1>3, <1>4, <1>5, CacheMove

LEMMA OtherDeviceInv == ASSUME CacheInv, OtherDevice PROVE CacheInv'
<1>1. StoreTyped /\ devKey <= key /\ \A j \in items : born[j] # 0
  BY DEF CacheInv
<1>2. UNCHANGED <<now, devKey, file, mem, rd, chg, own>>
  BY DEF OtherDevice
<1>3. StoreTyped' /\ StoreMove /\ devKey' <= key'
  <2>1. ASSUME NEW i \in NextMade, Store(i) PROVE StoreTyped' /\ StoreMove /\ devKey' <= key'
    BY <1>2, <2>1, StoreMoves
  <2>2. ASSUME NEW i \in items, Remove({i}) PROVE StoreTyped' /\ StoreMove /\ devKey' <= key'
    BY <1>2, <2>2, RemoveMoves
  <2>3. ASSUME key' = key + 1, items' = {}, born' = born,
               gone' = [i \in Items |-> IF i \in items THEN now ELSE gone[i]]
        PROVE  StoreTyped' /\ StoreMove /\ devKey' <= key'
    <3>1. StoreTyped' /\ devKey' <= key' /\ key <= key' /\ now <= now' /\ key' # key
      BY <1>1, <1>2, <2>3 DEF StoreTyped
    <3>2. StoreMove
      BY <1>2, <2>3, <3>1 DEF StoreMove
    <3> QED
      BY <3>1, <3>2
  <2> QED
    BY <2>1, <2>2, <2>3 DEF OtherDevice
<1>4. CacheTyped'
  BY <1>2 DEF CacheInv, CacheTyped
<1> QED
  BY <1>2, <1>3, <1>4, CacheMove

--------------------------------------------------------------------------------
(***************************************************************************)
(* Reading, and refreshing.                                                *)
(***************************************************************************)
\* A reader takes its next step, and writes no cache.
LEMMA ReaderMove ==
  ASSUME CacheInv, UNCHANGED <<storeVars, now, own, devKey, file, chg>>,
         mem' \in [Serves -> CacheFiles \cup {NoCache}],
         NEW r \in Readers, NEW x \in Reads, ReadTrue(r, x), rd' = [rd EXCEPT ![r] = x]
  PROVE  CacheInv'
<1>1. StoreTyped' /\ StoreMove /\ devKey' <= key'
  BY SameStore
<1>2. CacheTyped'
  BY DEF CacheInv, CacheTyped
<1>3. \A q \in Readers : rd'[q] = IF q = r THEN x ELSE rd[q]
  BY DEF CacheInv, CacheTyped
<1>4. ReadTrue(r, x)'
  BY DEF ReadTrue, TrueOf, storeVars
<1>5. ASSUME NEW q \in Readers PROVE rd'[q] = rd[q] \/ ReadTrue(q, rd[q])'
  <2>1. CASE q = r
    <3>1. rd'[q] = x
      BY <1>3, <2>1
    <3> QED
      BY <1>4, <2>1, <3>1 DEF ReadTrue, TrueOf
  <2>2. CASE q # r
    BY <1>3, <2>2
  <2> QED
    BY <2>1, <2>2
<1> QED
  BY <1>1, <1>2, <1>5, CacheMove

\* A reader that reads nothing.
LEMMA IdleReads ==
  ASSUME StoreTyped, NEW r
  PROVE  NoRead \in Reads /\ ReadTrue(r, NoRead)
BY DEF StoreTyped, NoRead, Reads, ReadTrue

\* A refresh, or a command, asks for the list.
LEMMA RefreshAskInv == ASSUME CacheInv, NEW p \in Serves, RefreshAsk(p) PROVE CacheInv'
<1>1. StoreTyped /\ p \in Readers /\ p \notin Cmds /\ mem \in [Serves -> CacheFiles \cup {NoCache}]
  BY ListCacheAssumption DEF CacheInv, CacheTyped, Readers
<1> PICK x : x = [NoRead EXCEPT !.step = "asked", !.at = now]
  OBVIOUS
<1>2. x \in Reads /\ x.step = "asked" /\ x.at = now
  BY <1>1 DEF NoRead, Reads, StoreTyped
<1>3. ReadTrue(p, x)
  BY <1>1, <1>2 DEF ReadTrue, StoreTyped
<1>4. rd' = [rd EXCEPT ![p] = x] /\ UNCHANGED <<storeVars, now, own, devKey, file, chg, mem>>
  BY DEF RefreshAsk
<1> QED
  BY <1>1, <1>2, <1>3, <1>4, ReaderMove

LEMMA ReadAskInv == ASSUME CacheInv, NEW c \in Cmds, ReadAsk(c) PROVE CacheInv'
<1>1. StoreTyped /\ devKey <= key /\ c \in Readers /\ mem \in [Serves -> CacheFiles \cup {NoCache}]
  BY DEF CacheInv, CacheTyped, Readers
<1> PICK x : x = [NoRead EXCEPT !.step = "asked", !.at = now, !.store = devKey]
  OBVIOUS
<1>2. x \in Reads /\ x.step = "asked" /\ x.at = now /\ x.store = devKey
  BY <1>1 DEF NoRead, Reads, StoreTyped
<1>3. ReadTrue(c, x)
  BY <1>1, <1>2 DEF ReadTrue, StoreTyped
<1>4. rd' = [rd EXCEPT ![c] = x] /\ UNCHANGED <<storeVars, now, own, devKey, file, chg, mem>>
  BY DEF ReadAsk
<1> QED
  BY <1>1, <1>2, <1>3, <1>4, ReaderMove

\* What the store lists now is true of any time up to now.
LEMMA ListTrue ==
  ASSUME StoreTyped, NEW s \in Nat, s <= key, NEW t \in Nat, t <= now
  PROVE  TrueOf(s, t, items)
BY DEF StoreTyped, TrueOf

LEMMA RefreshListInv == ASSUME CacheInv, NEW p \in Serves, RefreshList(p) PROVE CacheInv'
<1>1. /\ StoreTyped /\ mem \in [Serves -> CacheFiles \cup {NoCache}]
      /\ rd[p] \in Reads /\ ReadTrue(p, rd[p]) /\ p \in Readers
  BY DEF CacheInv, CacheTyped, Readers
<1> PICK k : k = IF conn[p] = NoKey THEN devKey ELSE conn[p]
  OBVIOUS
<1> PICK base : base = IF mem[p] # NoCache /\ mem[p].store = k THEN mem[p] ELSE NoCache
  OBVIOUS
<1>2. /\ UNCHANGED <<storeVars, now, own, devKey, file, chg>>
      /\ mem' = [mem EXCEPT ![p] = base]
      /\ \/ rd' = [rd EXCEPT ![p] = NoRead]
         \/ k = key /\ rd' = [rd EXCEPT ![p] = [@ EXCEPT !.step = "listed", !.store = k, !.base = base, !.ids = items]]
  BY DEF RefreshList, GiveUp
<1>3. base \in CacheFiles \cup {NoCache}
  BY <1>1
<1>4. mem' \in [Serves -> CacheFiles \cup {NoCache}]
  BY <1>1, <1>2, <1>3
<1>5. CASE rd' = [rd EXCEPT ![p] = NoRead]
  BY <1>1, <1>2, <1>4, <1>5, IdleReads, ReaderMove
<1>6. CASE k = key /\ rd' = [rd EXCEPT ![p] = [@ EXCEPT !.step = "listed", !.store = k, !.base = base, !.ids = items]]
  <2> PICK x : x = [rd[p] EXCEPT !.step = "listed", !.store = k, !.base = base, !.ids = items]
    OBVIOUS
  <2>1. k \in Nat /\ items \in SUBSET Items
    BY <1>1, <1>6 DEF StoreTyped
  <2>2. x \in Reads /\ x.at = rd[p].at /\ x.store = k /\ x.ids = items /\ x.step = "listed"
    BY <1>1, <1>3, <2>1 DEF Reads
  <2>3. rd[p].at \in Nat /\ rd[p].at <= now /\ k <= key
    BY <1>1, <1>6 DEF Reads, ReadTrue, StoreTyped
  <2>4. ReadTrue(p, x)
    BY <1>1, <2>1, <2>2, <2>3, ListTrue DEF ReadTrue
  <2>5. rd' = [rd EXCEPT ![p] = x]
    BY <1>6
  <2> QED
    BY <1>1, <1>2, <1>4, <2>2, <2>4, <2>5, ReaderMove
<1> QED
  BY <1>2, <1>5, <1>6

LEMMA ReadListInv == ASSUME CacheInv, NEW c \in Cmds, ReadList(c) PROVE CacheInv'
<1>1. /\ StoreTyped /\ mem \in [Serves -> CacheFiles \cup {NoCache}] /\ file \in CacheFiles \cup {NoCache}
      /\ rd[c] \in Reads /\ ReadTrue(c, rd[c]) /\ c \in Readers
  BY DEF CacheInv, CacheTyped, Readers
<1>2. UNCHANGED <<storeVars, now, own, devKey, file, chg, mem>> /\ rd[c].step = "asked"
  BY DEF ReadList
<1>3. CASE devKey # key
  <2>1. rd' = [rd EXCEPT ![c] = NoRead]
    BY <1>3 DEF ReadList
  <2> QED
    BY <1>1, <1>2, <2>1, IdleReads, ReaderMove
<1>4. CASE devKey = key
  <2>1. PICK base \in {NoCache, Saved(rd[c].store)} :
          rd' = [rd EXCEPT ![c] = [@ EXCEPT !.step = "listed", !.base = base, !.ids = items]]
    BY <1>4 DEF ReadList
  <2> PICK x : x = [rd[c] EXCEPT !.step = "listed", !.base = base, !.ids = items]
    OBVIOUS
  <2>2. base \in CacheFiles \cup {NoCache} /\ items \in SUBSET Items
    BY <1>1 DEF Saved, StoreTyped
  <2>3. x \in Reads /\ x.at = rd[c].at /\ x.store = rd[c].store /\ x.ids = items /\ x.step = "listed"
    BY <1>1, <2>2 DEF Reads
  <2>4. rd[c].at \in Nat /\ rd[c].at <= now /\ rd[c].store \in Nat /\ rd[c].store <= key
    BY <1>1, <1>2 DEF Reads, ReadTrue
  <2>5. ReadTrue(c, x)
    BY <1>1, <2>3, <2>4, ListTrue DEF ReadTrue
  <2>6. rd' = [rd EXCEPT ![c] = x]
    BY <2>1
  <2> QED
    BY <1>1, <1>2, <2>3, <2>5, <2>6, ReaderMove
<1> QED
  BY <1>3, <1>4

\* What is written of a list: ids that left meanwhile may be missing.
LEMMA ListingsTrue ==
  ASSUME StoreTyped, NEW r, NEW x \in Reads, rd[r] = x, x.step = "listed", ReadTrue(r, x), NEW cache \in Listings(r)
  PROVE  /\ cache \in CacheFiles
         /\ TrueOf(cache.store, cache.checked, cache.items)
<1>1. x.store \in Nat /\ x.at \in Nat /\ x.ids \in SUBSET Items /\ TrueOf(x.store, x.at, x.ids)
  BY DEF Reads, ReadTrue
<1>2. PICK got \in SUBSET x.ids :
        /\ x.ids \cap items \subseteq got
        /\ cache = [store |-> x.store, checked |-> x.at, items |-> got]
  BY DEF Listings
<1>3. cache.store = x.store /\ cache.checked = x.at /\ cache.items = got /\ cache \in CacheFiles
  BY <1>1, <1>2 DEF CacheFiles
<1>4. TrueOf(x.store, x.at, got)
  BY <1>1, <1>2 DEF TrueOf
<1> QED
  BY <1>3, <1>4

\* A list that was read is written, or not, and the reader is done.
LEMMA DoneInv ==
  ASSUME CacheInv, NEW r \in Readers, rd[r].step = "listed", NEW cache \in Listings(r),
         file' \in {cache, file}, UNCHANGED <<storeVars, now, own, devKey, chg>>,
         mem' \in [Serves -> CacheFiles \cup {NoCache, cache}], rd' = [rd EXCEPT ![r] = NoRead]
  PROVE  CacheInv'
<1>1. StoreTyped /\ rd[r] \in Reads /\ ReadTrue(r, rd[r])
  BY DEF CacheInv, CacheTyped
<1>2. cache \in CacheFiles /\ TrueOf(cache.store, cache.checked, cache.items)
  BY <1>1, ListingsTrue
<1>3. StoreTyped' /\ StoreMove /\ devKey' <= key'
  BY SameStore
<1>4. NoRead \in Reads /\ ReadTrue(r, NoRead)
  BY <1>1, IdleReads
<1>5. CacheTyped'
  BY <1>2, <1>4 DEF CacheInv, CacheTyped
<1>6. file' = file \/ FileTrue'
  <2>1. TrueOf(cache.store, cache.checked, cache.items)'
    BY <1>2 DEF TrueOf, storeVars
  <2>2. CASE file' = cache
    BY <2>1, <2>2 DEF FileTrue, TrueOf
  <2> QED
    BY <2>2
<1>7. ReadTrue(r, NoRead)'
  BY <1>4 DEF ReadTrue, NoRead
<1>8. ASSUME NEW q \in Readers PROVE rd'[q] = rd[q] \/ ReadTrue(q, rd[q])'
  <2>1. rd'[q] = IF q = r THEN NoRead ELSE rd[q]
    BY DEF CacheInv, CacheTyped
  <2>2. CASE q = r
    BY <1>7, <2>1, <2>2 DEF ReadTrue, NoRead
  <2> QED
    BY <2>1, <2>2
<1> QED
  BY <1>3, <1>5, <1>6, <1>8, CacheMove

LEMMA RefreshDoneInv == ASSUME CacheInv, NEW p \in Serves, RefreshDone(p) PROVE CacheInv'
<1>1. p \in Readers /\ mem \in [Serves -> CacheFiles \cup {NoCache}]
  BY DEF Readers, CacheInv, CacheTyped
<1>2. PICK cache \in Listings(p) : mem' = [mem EXCEPT ![p] = cache] /\ SaveCache(cache)
  BY DEF RefreshDone
<1>3. /\ rd[p].step = "listed" /\ rd' = [rd EXCEPT ![p] = NoRead]
      /\ UNCHANGED <<storeVars, now, own, devKey, chg>>
  BY DEF RefreshDone
<1>4. file' \in {cache, file}
  BY <1>2 DEF SaveCache
<1>5. mem' \in [Serves -> CacheFiles \cup {NoCache, cache}]
  BY <1>1, <1>2
<1> QED
  BY <1>1, <1>3, <1>4, <1>5, DoneInv

LEMMA ReadDoneInv == ASSUME CacheInv, NEW c \in Cmds, ReadDone(c) PROVE CacheInv'
<1>1. c \in Readers /\ mem \in [Serves -> CacheFiles \cup {NoCache}]
  BY DEF Readers, CacheInv, CacheTyped
<1>2. PICK cache \in Listings(c) : file' = cache
  BY DEF ReadDone
<1>3. /\ rd[c].step = "listed" /\ rd' = [rd EXCEPT ![c] = NoRead]
      /\ UNCHANGED <<storeVars, now, own, devKey, chg, mem>>
  BY DEF ReadDone
<1>4. mem' \in [Serves -> CacheFiles \cup {NoCache, cache}]
  BY <1>1, <1>3
<1> QED
  BY <1>1, <1>2, <1>3, <1>4, DoneInv

\* A reader gives up, stops or is killed; `serve` starts with what is saved.
LEMMA StopsInv ==
  ASSUME CacheInv, UNCHANGED <<storeVars, now, own, devKey, file, chg>>, NEW r \in Readers,
         rd' \in {rd, [rd EXCEPT ![r] = NoRead]},
         mem' = mem \/ (r \in Serves /\ \E k : mem' = [mem EXCEPT ![r] = Saved(k)])
           \/ (r \in Serves /\ mem' = [mem EXCEPT ![r] = NoCache])
  PROVE  CacheInv'
<1>1. /\ StoreTyped /\ mem \in [Serves -> CacheFiles \cup {NoCache}] /\ file \in CacheFiles \cup {NoCache}
      /\ rd \in [Readers -> Reads] /\ \A q \in Readers : ReadTrue(q, rd[q])
  BY DEF CacheInv, CacheTyped
<1>2. mem' \in [Serves -> CacheFiles \cup {NoCache}]
  BY <1>1 DEF Saved
<1>3. CASE rd' = rd
  <2>1. rd' = [rd EXCEPT ![r] = rd[r]]
    BY <1>1, <1>3
  <2> QED
    BY <1>1, <1>2, <2>1, ReaderMove
<1>4. CASE rd' = [rd EXCEPT ![r] = NoRead]
  BY <1>1, <1>2, <1>4, IdleReads, ReaderMove
<1> QED
  BY <1>3, <1>4

--------------------------------------------------------------------------------
(***************************************************************************)
(* Commands that change the store.                                         *)
(***************************************************************************)
\* A command takes its next step, and writes no cache.
LEMMA CommandMove ==
  ASSUME CacheInv, UNCHANGED <<file, mem, rd>>, StoreTyped', StoreMove, devKey' <= key',
         NEW c \in Cmds, NEW x \in Changes, ChangeTrue(x)', chg' = [chg EXCEPT ![c] = x]
  PROVE  CacheInv'
<1>1. CacheTyped'
  BY DEF CacheInv, CacheTyped
<1>2. \A d \in Cmds : chg'[d] = IF d = c THEN x ELSE chg[d]
  BY DEF CacheInv, CacheTyped
<1>3. ASSUME NEW d \in Cmds PROVE chg'[d] = chg[d] \/ ChangeTrue(chg[d])'
  <2>1. CASE d = c
    <3>1. chg'[d] = x
      BY <1>2, <2>1
    <3> QED
      BY <3>1 DEF ChangeTrue, TrueOf
  <2>2. CASE d # c
    BY <1>2, <2>2
  <2> QED
    BY <2>1, <2>2
<1> QED
  BY <1>1, <1>3, CacheMove

LEMMA NoChangeTrue == NoChange \in Changes /\ ChangeTrue(NoChange)'
BY DEF NoChange, Changes, ChangeTrue

LEMMA SendInv == ASSUME CacheInv, NEW c \in Cmds, Send(c) PROVE CacheInv'
<1>1. UNCHANGED <<now, devKey, file, mem, rd>>
  BY DEF Send
<1>2. PICK i \in items \cup NextMade :
        /\ chg' = [chg EXCEPT ![c] = [NoChange EXCEPT !.step = "changed", !.put = {i}, !.store = devKey]]
        /\ Store(i) /\ own' = own \cup {i}
  BY DEF Send, Begin
<1>3. i \in Items /\ devKey \in Nat /\ own \subseteq Items
  BY DEF CacheInv, StoreTyped, NextMade, Unborn
<1>4. StoreTyped' /\ StoreMove /\ devKey' <= key'
  BY <1>1, <1>2, StoreMoves
<1> PICK x : x = [NoChange EXCEPT !.step = "changed", !.put = {i}, !.store = devKey]
  OBVIOUS
<1>5. x \in Changes /\ x.put = {i} /\ x.del = {} /\ x.step = "changed"
  BY <1>3 DEF NoChange, Changes
<1>6. ChangeTrue(x)'
  BY <1>2, <1>5 DEF ChangeTrue
<1> QED
  BY <1>1, <1>2, <1>4, <1>5, <1>6, CommandMove

LEMMA DeleteInv == ASSUME CacheInv, NEW c \in Cmds, Delete(c) PROVE CacheInv'
<1>1. UNCHANGED <<storeVars, now, own, devKey, file, mem, rd>>
  BY DEF Delete
<1>2. PICK S : /\ S \subseteq items
               /\ chg' = [chg EXCEPT ![c] = [NoChange EXCEPT !.step = "removing", !.left = S, !.store = devKey]]
  BY DEF Delete, Begin, Select
<1>3. S \in SUBSET Items /\ devKey \in Nat
  BY <1>2 DEF CacheInv, StoreTyped
<1>4. StoreTyped' /\ StoreMove /\ devKey' <= key'
  BY <1>1, SameStore
<1> PICK x : x = [NoChange EXCEPT !.step = "removing", !.left = S, !.store = devKey]
  OBVIOUS
<1>5. x \in Changes /\ x.put = {} /\ x.del = {} /\ x.step = "removing"
  BY <1>3 DEF NoChange, Changes
<1>6. ChangeTrue(x)'
  BY <1>5 DEF ChangeTrue
<1> QED
  BY <1>1, <1>2, <1>4, <1>5, <1>6, CommandMove

\* What is deleted does not come back, so the cache may drop it whenever the
\* command gets to it.
LEMMA DeleteNextInv == ASSUME CacheInv, NEW c \in Cmds, DeleteNext(c) PROVE CacheInv'
<1>1. UNCHANGED <<now, own, devKey, file, mem, rd>> /\ chg[c].step = "removing"
  BY DEF DeleteNext
<1> PICK y : y = chg[c]
  OBVIOUS
<1>2. PICK i \in chg[c].left :
        IF i \in items /\ chg[c].store = key
        THEN /\ Remove({i})
             /\ chg' = [chg EXCEPT ![c] = [chg[c] EXCEPT !.del = @ \cup {i}, !.left = @ \ {i},
                          !.step = IF chg[c].left = {i} THEN "changed" ELSE "removing"]]
        ELSE /\ chg' = [chg EXCEPT ![c] = [@ EXCEPT !.left = {}, !.step = "changed"]]
             /\ UNCHANGED storeVars
  BY DEF DeleteNext
<1>3. y \in Changes /\ ChangeTrue(y) /\ i \in Items
  BY DEF CacheInv, CacheTyped, Changes
<1>4. CASE i \in items /\ chg[c].store = key
  <2> PICK next : next = IF chg[c].left = {i} THEN "changed" ELSE "removing"
    OBVIOUS
  <2> PICK x : x = [chg[c] EXCEPT !.del = @ \cup {i}, !.left = @ \ {i}, !.step = next]
    OBVIOUS
  <2>1. Remove({i}) /\ chg' = [chg EXCEPT ![c] = x]
    BY <1>2, <1>4
  <2>2. next \in {"changed", "removing"}
    OBVIOUS
  <2>3. StoreTyped' /\ StoreMove /\ devKey' <= key'
    BY <1>1, <1>4, <2>1, RemoveMoves
  <2>4. x \in Changes /\ x.put = y.put /\ x.del = y.del \cup {i} /\ x.step # "loaded"
    BY <1>3, <2>2 DEF Changes
  <2>5. items' = items \ {i} /\ born' = born /\ own' = own
    BY <1>1, <2>1 DEF Remove
  <2>6. born[i] # 0
    BY <1>4 DEF CacheInv
  <2>7. ChangeTrue(x)'
    BY <1>3, <2>4, <2>5, <2>6 DEF ChangeTrue
  <2> QED
    BY <1>1, <2>1, <2>3, <2>4, <2>7, CommandMove
<1>5. CASE ~(i \in items /\ chg[c].store = key)
  <2> PICK x : x = [y EXCEPT !.left = {}, !.step = "changed"]
    OBVIOUS
  <2>1. UNCHANGED storeVars /\ chg' = [chg EXCEPT ![c] = x]
    BY <1>2, <1>5
  <2>2. StoreTyped' /\ StoreMove /\ devKey' <= key'
    BY <1>1, <2>1, SameStore
  <2>3. x \in Changes /\ x.put = y.put /\ x.del = y.del /\ x.step # "loaded"
    BY <1>3 DEF Changes
  <2>4. ChangeTrue(x)'
    BY <1>1, <1>3, <2>1, <2>3 DEF ChangeTrue, storeVars
  <2> QED
    BY <1>1, <2>1, <2>2, <2>3, <2>4, CommandMove
<1> QED
  BY <1>4, <1>5

\* What a command loads to change it is the saved cache, which is true.
LEMMA FollowLoadInv == ASSUME CacheInv, NEW c \in Cmds, FollowLoad(c) PROVE CacheInv'
<1>1. UNCHANGED <<storeVars, now, own, devKey, file, mem, rd>>
  BY DEF FollowLoad
<1>2. StoreTyped' /\ StoreMove /\ devKey' <= key'
  BY <1>1, SameStore
<1> PICK y : y = chg[c]
  OBVIOUS
<1> PICK base : base = Saved(y.store)
  OBVIOUS
<1>3. y \in Changes /\ ChangeTrue(y)
  BY DEF CacheInv, CacheTyped
<1>4. \/ chg' = [chg EXCEPT ![c] = NoChange]
      \/ base # NoCache /\ chg' = [chg EXCEPT ![c] = [y EXCEPT !.step = "loaded", !.base = base]]
  BY DEF FollowLoad
<1>5. CASE chg' = [chg EXCEPT ![c] = NoChange]
  BY <1>1, <1>2, <1>5, NoChangeTrue, CommandMove
<1>6. CASE base # NoCache /\ chg' = [chg EXCEPT ![c] = [y EXCEPT !.step = "loaded", !.base = base]]
  <2> PICK x : x = [y EXCEPT !.step = "loaded", !.base = base]
    OBVIOUS
  <2>1. base \in CacheFiles /\ TrueOf(base.store, base.checked, base.items)
    BY <1>6 DEF CacheInv, CacheTyped, FileTrue, Saved
  <2>2. x \in Changes /\ x.put = y.put /\ x.del = y.del /\ x.base = base
    BY <1>3, <2>1 DEF Changes
  <2>3. ChangeTrue(x)'
    BY <1>1, <1>3, <2>1, <2>2 DEF ChangeTrue, TrueOf, storeVars
  <2>4. chg' = [chg EXCEPT ![c] = x]
    BY <1>6
  <2> QED
    BY <1>1, <1>2, <2>2, <2>3, <2>4, CommandMove
<1> QED
  BY <1>4, <1>5, <1>6

\* A true cache with this device's own changes applied is true.
LEMMA AppliedTrue ==
  ASSUME StoreTyped, NEW x \in Changes, ChangeTrue(x), x.step = "loaded", own \subseteq Items
  PROVE  /\ Applied(x) \in CacheFiles
         /\ TrueOf(Applied(x).store, Applied(x).checked, Applied(x).items)
<1> PICK b : b = x.base
  OBVIOUS
<1> PICK f : f = Applied(x)
  OBVIOUS
<1>1. b \in CacheFiles /\ TrueOf(b.store, b.checked, b.items)
  BY DEF ChangeTrue
<1>2. f = [b EXCEPT !.items = (@ \cup x.put) \ x.del] /\ x.put \in SUBSET Items
  BY DEF Applied, Changes
<1>3. f \in CacheFiles /\ f.store = b.store /\ f.checked = b.checked /\ f.items = (b.items \cup x.put) \ x.del
  BY <1>1, <1>2 DEF CacheFiles
<1>4. x.put \subseteq own /\ \A i \in x.del : i \notin items
  BY DEF ChangeTrue
<1>5. TrueOf(b.store, b.checked, f.items)
  BY <1>1, <1>3, <1>4 DEF TrueOf
<1> QED
  BY <1>3, <1>5

LEMMA FollowSaveInv == ASSUME CacheInv, NEW c \in Cmds, FollowSave(c) PROVE CacheInv'
<1>1. UNCHANGED <<storeVars, now, own, devKey, mem, rd>> /\ chg[c].step = "loaded"
  BY DEF FollowSave
<1> PICK f : f = Applied(chg[c])
  OBVIOUS
<1>2. file' = f /\ chg' = [chg EXCEPT ![c] = NoChange]
  BY DEF FollowSave
<1>3. StoreTyped' /\ StoreMove /\ devKey' <= key'
  BY <1>1, SameStore
<1>4. f \in CacheFiles /\ TrueOf(f.store, f.checked, f.items)
  BY <1>1, AppliedTrue DEF CacheInv, CacheTyped, StoreTyped
<1>5. FileTrue'
  <2>1. TrueOf(f.store, f.checked, f.items)'
    BY <1>1, <1>4 DEF TrueOf, storeVars
  <2> QED
    BY <1>2, <2>1 DEF FileTrue, TrueOf
<1>6. CacheTyped'
  BY <1>1, <1>2, <1>4, NoChangeTrue DEF CacheInv, CacheTyped
<1>7. ASSUME NEW d \in Cmds PROVE chg'[d] = chg[d] \/ ChangeTrue(chg[d])'
  <2>1. chg'[d] = IF d = c THEN NoChange ELSE chg[d]
    BY <1>2 DEF CacheInv, CacheTyped
  <2> QED
    BY <2>1 DEF NoChange, ChangeTrue
<1> QED
  BY <1>1, <1>3, <1>5, <1>6, <1>7, CacheMove

LEMMA CommandStopsInv == ASSUME CacheInv, NEW c \in Cmds, CommandStops(c) PROVE CacheInv'
<1>1. UNCHANGED <<storeVars, now, own, devKey, file, mem>>
  BY DEF CommandStops
<1>2. rd' = [rd EXCEPT ![c] = NoRead] /\ chg' = [chg EXCEPT ![c] = NoChange]
  BY DEF CommandStops
<1>3. StoreTyped' /\ StoreMove /\ devKey' <= key'
  BY <1>1, SameStore
<1>4. NoRead \in Reads /\ NoChange \in Changes
  BY NoChangeTrue, IdleReads DEF CacheInv
<1>5. CacheTyped'
  BY <1>1, <1>2, <1>4 DEF CacheInv, CacheTyped
<1>6. ASSUME NEW d \in Cmds PROVE chg'[d] = chg[d] \/ ChangeTrue(chg[d])'
  <2>1. chg'[d] = IF d = c THEN NoChange ELSE chg[d]
    BY <1>2 DEF CacheInv, CacheTyped
  <2> QED
    BY <2>1 DEF NoChange, ChangeTrue
<1>7. ASSUME NEW q \in Readers PROVE rd'[q] = rd[q] \/ ReadTrue(q, rd[q])'
  <2>1. rd'[q] = IF q = c THEN NoRead ELSE rd[q]
    BY <1>2 DEF CacheInv, CacheTyped
  <2>2. now' \in Nat /\ 0 <= now'
    BY <1>3 DEF StoreTyped
  <2> QED
    BY <2>1, <2>2 DEF NoRead, ReadTrue
<1> QED
  BY <1>1, <1>3, <1>5, <1>6, <1>7, CacheMove

LEMMA CommandInv == ASSUME CacheInv, NEW c \in Cmds, Command(c) PROVE CacheInv'
BY ReadAskInv, ReadListInv, ReadDoneInv, SendInv, DeleteInv, DeleteNextInv, FollowLoadInv,
   FollowSaveInv, CommandStopsInv DEF Command

--------------------------------------------------------------------------------
(***************************************************************************)
(* The device.                                                             *)
(***************************************************************************)
LEMMA CacheInvInit == CacheInit => CacheInv
<1> SUFFICES ASSUME CacheInit PROVE CacheInv
  OBVIOUS
<1>1. StoreTyped /\ devKey <= key /\ items = {}
  BY DEF CacheInit, StoreTyped
<1>2. NoRead \in Reads /\ \A r \in Readers : ReadTrue(r, NoRead)
  BY <1>1, IdleReads
<1>3. NoChange \in Changes /\ ChangeTrue(NoChange)
  BY DEF NoChange, Changes, ChangeTrue
<1>4. CacheTyped
  BY <1>2, <1>3 DEF CacheInit, CacheTyped
<1>5. FileTrue
  BY DEF CacheInit, FileTrue
<1> QED
  BY <1>1, <1>2, <1>3, <1>4, <1>5 DEF CacheInit, CacheInv

LEMMA SameCache == ASSUME CacheInv, UNCHANGED cacheVars PROVE CacheInv'
<1>1. UNCHANGED <<storeVars, now, own, devKey, file, mem, rd, chg>>
  BY DEF cacheVars, storeVars
<1>2. CacheTyped'
  BY <1>1 DEF CacheInv, CacheTyped
<1> QED
  BY <1>1, <1>2, SameStore, CacheMove

LEMMA CacheInvNext == CacheInv /\ [Next]_vars => CacheInv'
<1> SUFFICES ASSUME CacheInv, [Next]_vars PROVE CacheInv'
  OBVIOUS
<1>1. ASSUME NEW p \in Serves, RefreshStart(p) \/ RefreshStops(p) \/ RefreshFails(p) \/ Crash(p)
      PROVE  CacheInv'
  <2>1. p \in Readers
    BY DEF Readers
  <2>2. UNCHANGED <<storeVars, now, own, devKey, file, chg>>
    BY <1>1 DEF RefreshStart, RefreshStops, RefreshFails, Crash
  <2>3. rd' \in {rd, [rd EXCEPT ![p] = NoRead]}
    BY <1>1 DEF RefreshStart, RefreshStops, RefreshFails, Crash, GiveUp
  <2>4. \/ mem' = mem \/ mem' = [mem EXCEPT ![p] = Saved(devKey)]
        \/ mem' = [mem EXCEPT ![p] = NoCache]
    BY <1>1 DEF RefreshStart, RefreshStops, RefreshFails, Crash
  <2> QED
    BY <2>1, <2>2, <2>3, <2>4, StopsInv
<1>2. CASE LockStep
  <2>1. UNCHANGED cacheVars \/ \E p \in Serves : RefreshStart(p) \/ RefreshStops(p) \/ Crash(p)
    BY <1>2 DEF LockStep, Ready, Stop
  <2> QED
    BY <1>1, <2>1, SameCache
<1>3. CASE CacheStep
  <2>1. ASSUME NEW p \in Serves, RefreshStep(p) PROVE CacheInv'
    BY <1>1, <2>1, RefreshAskInv, RefreshListInv, RefreshDoneInv DEF RefreshStep
  <2> QED
    BY <1>3, <2>1, CommandInv, TickInv, OtherDeviceInv DEF CacheStep
<1>4. CASE UNCHANGED vars
  BY <1>4, SameCache DEF vars
<1> QED
  BY <1>2, <1>3, <1>4 DEF Next

LEMMA CacheInvAlways == Spec => []CacheInv
<1>1. Init => CacheInv
  BY CacheInvInit DEF Init
<1> QED
  BY <1>1, CacheInvNext, PTL DEF Spec

\* Whoever wrote the cache last, and from whatever it had loaded: the cache of
\* the store's present key lists everything that was stored before it was
\* checked and is still there (cache.rs `refresh`; list_cache.rs `apply`).
THEOREM CacheHidesNothing == Spec => []NothingHidden
<1>1. CacheInv => NothingHidden
  BY DEF CacheInv, FileTrue, TrueOf, NothingHidden, OfThisStore
<1> QED
  BY <1>1, CacheInvAlways, PTL

\* It lists nothing that was deleted before it was checked, but for what this
\* device stored itself (cache.rs `refresh`, `apply_put`).
THEOREM CacheListsNoGhosts == Spec => []NoGhosts
<1>1. CacheInv => NoGhosts
  BY DEF CacheInv, FileTrue, TrueOf, NoGhosts, OfThisStore
<1> QED
  BY <1>1, CacheInvAlways, PTL

\* The pid file of a device works as it does alone: every step of the device
\* is one of the pid file's, or leaves it be (commands/serve.rs, daemon.rs).
THEOREM DeviceRunsLock == Spec => LockSpec
<1>1. Init => LockInit
  BY DEF Init
<1>2. [Next]_vars => [LockNext]_lockVars
  <2>1. LockStep => LockNext
    BY DEF LockStep, LockNext, ServeStep, StartUp, Ready, Stop, Crash
  <2>2. CacheStep \/ UNCHANGED vars => UNCHANGED lockVars
    BY DEF CacheStep, vars
  <2> QED
    BY <2>1, <2>2 DEF Next
<1> QED
  BY <1>1, <1>2, PTL DEF Spec, LockSpec

\* So a device runs one `serve` at a time and answers the truth about it, as
\* long as no pid file is removed between another's open and lock of it.
THEOREM DeviceExcludes ==
  ASSUME ~Straggles
  PROVE  Spec => [](OneServe /\ AnswersTrue)
<1> QED
  BY DeviceRunsLock, ServesExclude, AnswersHold, PTL
================================================================================
