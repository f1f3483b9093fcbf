----------------------------- MODULE HttpsDevices -----------------------------
(***************************************************************************)
(* Devices of a passalong-server workspace: administrators who set up,     *)
(* start afresh, change the words, migrate, rotate, and finish or undo a   *)
(* re-encryption another one began; and writers who store and delete       *)
(* items.  A request may be served without its answer arriving, never, or  *)
(* late; it is repeated a number of times.                                 *)
(***************************************************************************)
EXTENDS Workspace

CONSTANTS Deletes,   \* what writers delete
          MaxEvents, \* bound on what goes wrong, and on tries to finish a re-encryption
          NoReq

ASSUME DevicesAssumption == Deletes \subseteq Contents /\ MaxEvents \in Nat

VARIABLES
  pc, job,      \* each administrator's next step, and what its command holds
  off,          \* administrators that are gone for good
  nextKey,      \* the next data key to be made
  wpc, wkey,    \* each writer's next step, and the key it opened the workspace with
  wreq, puts,   \* its request, and how many uploads it began
  late,         \* requests still on their way
  told,         \* contents a writer was told are stored (observer)
  events

vars == <<ws, pc, job, off, nextKey, wpc, wkey, wreq, puts, late, told, events>>
adminVars == <<pc, job, off, nextKey>>
writerVars == <<wpc, wkey, wreq, puts, told>>

NoJob == [mode |-> "none", req |-> NoReq, old |-> 0, key |-> 0,
          items |-> {}, left |-> {}, again |-> FALSE]

TypeOK ==
  /\ WorkspaceTypeOK
  /\ pc \in [Admins -> {"idle", "ask", "list", "copy", "verify"}]
  /\ \A d \in Admins :
       /\ job[d].mode \in {"none", "change", "rewrite", "abort"}
       /\ job[d].old \in KeyIds /\ job[d].key \in KeyIds
       /\ job[d].items \in SUBSET Contents /\ job[d].left \in SUBSET job[d].items
  /\ off \in SUBSET Admins /\ nextKey \in 1..(MaxKey + 1)
  /\ wpc \in [Writers -> {"idle", "ask", "settle"}] /\ wkey \in [Writers -> KeyIds]
  /\ puts \in [Writers -> 0..MaxPuts] /\ told \in SUBSET Contents /\ events \in 0..MaxEvents

Init ==
  /\ WorkspaceInit
  /\ pc = [d \in Admins |-> "idle"] /\ job = [d \in Admins |-> NoJob]
  /\ off = {} /\ nextKey = 1
  /\ wpc = [c \in Writers |-> "idle"] /\ wkey = [c \in Writers |-> 0]
  /\ wreq = [c \in Writers |-> NoReq] /\ puts = [c \in Writers |-> 0]
  /\ late = {} /\ told = {} /\ events = 0

Event == events < MaxEvents /\ events' = events + 1

(***************************************************************************)
(* Administrators.                                                         *)
(***************************************************************************)
Set(d, step, j) == pc' = [pc EXCEPT ![d] = step] /\ job' = [job EXCEPT ![d] = j]
Ask(d, j, r) == Set(d, "ask", [j EXCEPT !.req = r])
Fail(d) == Set(d, "idle", NoJob)
Idle(d) == pc[d] = "idle" /\ d \notin off

\* Every change makes a data key of its own.
NewKey == nextKey <= MaxKey /\ nextKey' = nextKey + 1

SetUp(d) ==
  /\ Idle(d) /\ ~Rewriting /\ ws.key = 0 /\ ws.items = {}
  /\ NewKey
  /\ Ask(d, [NoJob EXCEPT !.mode = "change"], [op |-> "enable", expect |-> 0, key |-> nextKey])
  /\ UNCHANGED <<ws, off, writerVars, late, events>>

FreshStart(d) ==
  /\ Idle(d) /\ ~Rewriting /\ ws.key = 0
  /\ NewKey
  /\ Ask(d, [NoJob EXCEPT !.mode = "change"], [op |-> "fresh", expect |-> 0, key |-> nextKey])
  /\ UNCHANGED <<ws, off, writerVars, late, events>>

\* The words change for the key the old ones opened.
Replace(k) == [op |-> "replace", expect |-> k, key |-> k]

ChangeWords(d) ==
  /\ Idle(d) /\ ~Rewriting /\ ws.key # 0 /\ ws.header = ws.key
  /\ Ask(d, [NoJob EXCEPT !.mode = "change"], Replace(ws.key))
  /\ UNCHANGED <<ws, off, nextKey, writerVars, late, events>>

BeginRequest(d, old, k) == [op |-> "begin", who |-> d, expect |-> old, key |-> k]

\* A migration starts from a plaintext workspace, a rotation from one that is
\* under the device's key.
Rewrite(d) ==
  /\ Idle(d) /\ ~Rewriting
  /\ NewKey
  /\ Ask(d, [NoJob EXCEPT !.mode = "rewrite", !.old = ws.key, !.key = nextKey],
         BeginRequest(d, ws.key, nextKey))
  /\ UNCHANGED <<ws, off, writerVars, late, events>>

\* Mutant: a re-encryption is never taken over.
HoldOwn(d) == [op |-> "heartbeat", who |-> d]

\* The holder renews its lease, another device takes over one that has ended.
Hold(d) == [op |-> IF Holds(d) THEN "heartbeat" ELSE "take-over", who |-> d]

Resume(d) ==
  /\ Idle(d) /\ Rewriting /\ Event
  /\ Ask(d, [NoJob EXCEPT !.mode = "rewrite", !.old = ws.key, !.key = ws.session.to], Hold(d))
  /\ UNCHANGED <<ws, off, nextKey, writerVars, late>>

AbortRewrite(d) ==
  /\ Idle(d) /\ Rewriting
  /\ Ask(d, [NoJob EXCEPT !.mode = "abort", !.key = ws.session.to], Hold(d))
  /\ UNCHANGED <<ws, off, nextKey, writerVars, late, events>>

\* Mutant: what is sent again names the key the workspace is under by now.
RetryRefreshed(d) ==
  /\ UNCHANGED pc
  /\ job' = IF job[d].req.op = "replace" THEN [job EXCEPT ![d].req.expect = ws.key] ELSE job

\* The same request is sent again.
Retry(d) == UNCHANGED <<pc, job>>

\* A begin whose key an abort ended is made once more, under another key.
BeginAgain(d) ==
  /\ NewKey
  /\ Ask(d, [job[d] EXCEPT !.key = nextKey, !.again = TRUE], BeginRequest(d, job[d].old, nextKey))

\* When every item is copied, every copy is verified.
NextCopy(d, j) ==
  IF j.left = {} THEN Set(d, "verify", [j EXCEPT !.left = j.items]) ELSE Set(d, "copy", j)

Proceed(d) ==
  LET j == job[d] IN
  CASE j.req.op \in {"begin", "heartbeat", "take-over"} /\ j.mode = "rewrite" -> Set(d, "list", [j EXCEPT !.req = NoReq])
    [] j.req.op \in {"heartbeat", "take-over"} /\ j.mode = "abort" ->
         Ask(d, j, [op |-> "abort", who |-> d, key |-> j.key])
    [] j.req.op = "stage" -> NextCopy(d, [j EXCEPT !.req = NoReq])
    [] OTHER -> Fail(d)

Answered(d) ==
  /\ pc[d] = "ask"
  /\ \E a \in Replies(job[d].req) :
       /\ Serve(job[d].req, a)
       /\ \/ a = "ok" /\ Proceed(d) /\ UNCHANGED nextKey
          \/ a = "ended" /\ ~job[d].again /\ BeginAgain(d)
          \/ /\ a # "ok" /\ (a = "ended" => job[d].again \/ nextKey > MaxKey)
             /\ Fail(d) /\ UNCHANGED nextKey
  /\ UNCHANGED <<off, writerVars, late, events>>

\* No answer arrives; the server may serve the request yet.
TimedOut(d) ==
  /\ pc[d] = "ask" /\ Event
  /\ late' = late \cup {job[d].req}
  /\ Retry(d) \/ Fail(d)
  /\ UNCHANGED <<ws, off, nextKey, writerVars>>

Oldest(cs) == CHOOSE c \in cs : \A b \in cs : c <= b

\* The items to re-encrypt.
List(d) ==
  /\ pc[d] = "list"
  /\ NextCopy(d, [job[d] EXCEPT !.items = Held(ws.items), !.left = Held(ws.items)])
  /\ UNCHANGED <<ws, off, nextKey, writerVars, late, events>>

Readable(c, k) == \E i \in ws.items : i.content = c /\ i.key = k
\* The staged generation is its holder's to read.
Staged(d, c) == Holds(d) /\ \E i \in ws.session.staged : i.content = c
StagedWhole(d, c) == Holds(d) /\ Copy(c, job[d].key, TRUE) \in ws.session.staged

\* Mutant: only what this run staged is verified.
VerifyStaged(d, c) == NextCopy(d, [job[d] EXCEPT !.left = @ \ {c}, !.items = @ \ {c}])

\* A copy that is there is not made again.
SkipStaged(d, c) == NextCopy(d, [job[d] EXCEPT !.left = @ \ {c}])

CopyItem(d) ==
  /\ pc[d] = "copy"
  /\ LET c == Oldest(job[d].left) IN
     \/ (~Readable(c, job[d].old) \/ ~Holds(d)) /\ Fail(d) /\ UNCHANGED events
     \/ Readable(c, job[d].old) /\ Staged(d, c) /\ SkipStaged(d, c) /\ UNCHANGED events
     \/ \* It is sealed and sent, and may be damaged on its way.
        /\ Readable(c, job[d].old) /\ Holds(d) /\ ~Staged(d, c)
        /\ \E whole \in BOOLEAN :
             /\ IF whole THEN UNCHANGED events ELSE Event
             /\ Ask(d, [job[d] EXCEPT !.left = @ \ {c}],
                    [op |-> "stage", who |-> d, key |-> job[d].key, content |-> c, whole |-> whole])
  /\ UNCHANGED <<ws, off, nextKey, writerVars, late>>

\* Every copy is read back before the new key takes over.
Verify(d) ==
  /\ pc[d] = "verify"
  /\ IF job[d].left = {} THEN Ask(d, job[d], [op |-> "commit", who |-> d, key |-> job[d].key])
     ELSE LET c == Oldest(job[d].left) IN
          IF StagedWhole(d, c) THEN Set(d, "verify", [job[d] EXCEPT !.left = @ \ {c}]) ELSE Fail(d)
  /\ UNCHANGED <<ws, off, nextKey, writerVars, late, events>>

Drives(d) == pc[d] # "idle" /\ job[d].mode = "rewrite"

\* A background task renews the lease while the re-encryption runs.
KeepLease(d) ==
  /\ Drives(d) /\ Holds(d) /\ ~ws.session.live
  /\ ws' = [ws EXCEPT !.session.live = TRUE]
  /\ UNCHANGED <<adminVars, writerVars, late, events>>

\* A lease ends when its holder stopped, or its renewals do not get through.
Lapse ==
  /\ Rewriting /\ ws.session.live
  /\ IF pc[ws.session.holder] # "idle" THEN Event ELSE UNCHANGED events
  /\ ws' = [ws EXCEPT !.session.live = FALSE]
  /\ UNCHANGED <<adminVars, writerVars, late>>

\* The command is stopped; the device may never come back.
Crash(d) ==
  /\ pc[d] # "idle" /\ Event
  /\ Fail(d)
  /\ off' \in {off, off \cup {d}} /\ off' # Admins
  /\ UNCHANGED <<ws, nextKey, writerVars, late>>

AdminStep(d) == Answered(d) \/ List(d) \/ CopyItem(d) \/ Verify(d)

(***************************************************************************)
(* Writers.                                                                *)
(***************************************************************************)
WSet(c, step, r) == wpc' = [wpc EXCEPT ![c] = step] /\ wreq' = [wreq EXCEPT ![c] = r]
WAsk(c, r) == WSet(c, "ask", r)
WDone(c) == WSet(c, "idle", NoReq)
Tell(k) == told' = told \cup {k}

OpenWorkspace(c) ==
  /\ wpc[c] = "idle" /\ ~Rewriting /\ wkey[c] # ws.key
  /\ wkey' = [wkey EXCEPT ![c] = ws.key]
  /\ UNCHANGED <<ws, adminVars, wpc, wreq, puts, late, told, events>>

\* Mutant: an item names the key the workspace is under, not its own.
ExpectCurrent(c) == ws.key

\* Every write names the key the device expects.
Expected(c) == wkey[c]

Put(c, k) ==
  /\ wpc[c] = "idle" /\ puts[c] < MaxPuts
  /\ puts' = [puts EXCEPT ![c] = @ + 1]
  /\ WAsk(c, [op |-> "begin-upload", id |-> <<c, puts'[c]>>, content |-> k, key |-> wkey[c],
              expect |-> Expected(c)])
  /\ UNCHANGED <<ws, adminVars, wkey, late, told, events>>

Delete(c, k) ==
  /\ wpc[c] = "idle" /\ k \in Deletes \ ws.deleted
  /\ WAsk(c, [op |-> "delete", content |-> k, expect |-> Expected(c)])
  /\ UNCHANGED <<ws, adminVars, wkey, puts, late, told, events>>

WRetry == UNCHANGED <<wpc, wreq>>

WAnswered(c) ==
  /\ wpc[c] = "ask"
  /\ LET r == wreq[c] IN \E a \in Replies(r) :
       /\ Serve(r, a)
       /\ \/ a = "ok" /\ r.op = "begin-upload" /\ WAsk(c, [r EXCEPT !.op = "commit-upload"]) /\ UNCHANGED told
          \/ (a = "present" \/ (a = "ok" /\ r.op = "commit-upload")) /\ WDone(c) /\ Tell(r.content)
          \/ a = "not-found" /\ r.op = "commit-upload" /\ WSet(c, "settle", r) /\ UNCHANGED told
          \/ a \in {"rewriting", "mismatch"} /\ WDone(c) /\ UNCHANGED told
          \/ r.op = "delete" /\ a \in {"ok", "not-found"} /\ WDone(c) /\ UNCHANGED told
  /\ UNCHANGED <<adminVars, wkey, puts, late, events>>

\* Mutant: the server no longer knows the upload, so it was stored.
SettleTrusting(c) ==
  /\ wpc[c] = "settle"
  /\ WDone(c) /\ Tell(wreq[c].content)
  /\ UNCHANGED <<ws, adminVars, wkey, puts, late, events>>

\* The server no longer knows the upload: the item is there or it is not.  It
\* is not under this id when another device stored the same content first.
Settle(c) ==
  /\ wpc[c] = "settle"
  /\ WDone(c)
  /\ \/ wreq[c].content \in Held(ws.items) /\ Tell(wreq[c].content)
     \/ UNCHANGED told
  /\ UNCHANGED <<ws, adminVars, wkey, puts, late, events>>

WTimedOut(c) ==
  /\ wpc[c] = "ask" /\ Event
  /\ late' = IF wreq[c].op = "begin-upload" THEN late ELSE late \cup {wreq[c]}
  /\ WRetry \/ WDone(c)
  /\ UNCHANGED <<ws, adminVars, wkey, puts, told>>

\* A request arrives whose answer nobody waits for.
Deliver ==
  /\ \E r \in late : (\E a \in Replies(r) : Serve(r, a)) /\ late' = late \ {r}
  /\ UNCHANGED <<adminVars, writerVars, events>>

Next ==
  \/ \E d \in Admins :
       \/ SetUp(d) \/ FreshStart(d) \/ ChangeWords(d) \/ Rewrite(d) \/ Resume(d) \/ AbortRewrite(d)
       \/ AdminStep(d) \/ TimedOut(d) \/ KeepLease(d) \/ Crash(d)
  \/ \E c \in Writers :
       \/ OpenWorkspace(c) \/ \E k \in Contents : Put(c, k) \/ Delete(c, k)
       \/ WAnswered(c) \/ Settle(c) \/ WTimedOut(c)
  \/ Lapse \/ Deliver

Spec == Init /\ [][Next]_vars

\* Commands run on, leases run out, and whoever sees a re-encryption left open
\* undoes it sooner or later.
FairSpec ==
  /\ Spec /\ WF_vars(Lapse)
  /\ \A d \in Admins : WF_vars(AdminStep(d)) /\ SF_vars(AbortRewrite(d))

--------------------------------------------------------------------------------
\* What a writer was told is stored is in the workspace, or among the items a
\* fresh start set aside, unless it was deleted: answers that are lost, late
\* or doubled, and re-encryptions cut short or taken over, lose nothing
\* (store.rs `send_and_commit`, `settle`; admin.rs `drive`).
NothingLost == told \subseteq Held(ws.items) \cup Held(ws.plain) \cup ws.deleted

\* Every item is under the key the workspace names, so every device with that
\* key reads all of them (store.rs `expected`; admin.rs `rewrite`).
OneKey == \A i \in ws.items : i.key = ws.key

\* The header opens to that key, whichever changes raced (admin.rs
\* `change_words`, `rewrite`).
HeaderOpens == ws.header = ws.key

\* No damaged copy takes an item's place: what is committed was read back,
\* by the device that committed it (admin_trait.rs `run_rewrite`).
CopiesWhole == \A i \in ws.items : i.whole

\* A re-encryption ends, also when the device that began it never comes back
\* (admin.rs `hold`, `abort_rewrite`).
RewriteEnds == Rewriting ~> ~Rewriting
================================================================================
