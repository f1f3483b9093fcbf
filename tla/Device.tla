--------------------------------- MODULE Device ---------------------------------
(***************************************************************************)
(* A device: `serve` processes of which the pid file lets one run, the     *)
(* list cache that one refreshes once it is ready, and commands.           *)
(***************************************************************************)
EXTENDS ListCache

vars == <<cacheVars, lockVars>>

TypeOK == CacheTypeOK /\ LockTypeOK

Init == CacheInit /\ LockInit

\* `serve` starts up: the refresh loop begins once it is ready.
StartUp(p) == Open(p) \/ Lock(p) \/ Record(p)

Ready(p) == MarkReady(p) /\ RefreshStart(p)

\* It stops, or is killed: what it was refreshing is lost.
Stop(p) == (Unlink(p) /\ RefreshStops(p)) \/ (Close(p) /\ UNCHANGED cacheVars)

Crash(p) ==
  /\ Kill(p) /\ Event
  /\ rd' = [rd EXCEPT ![p] = NoRead] /\ conn' = [conn EXCEPT ![p] = NoKey]
  /\ mem' = [mem EXCEPT ![p] = NoCache]
  /\ UNCHANGED <<storeVars, now, devKey, file, chg, own>>

RefreshStep(p) ==
  spc[p] = "ready" /\ (RefreshAsk(p) \/ RefreshList(p) \/ RefreshDone(p) \/ RefreshFails(p))

LockStep ==
  /\ \/ \E p \in Serves : (StartUp(p) /\ UNCHANGED cacheVars) \/ Ready(p) \/ Stop(p) \/ Crash(p)
     \/ \E c \in Callers : CallerStep(c) /\ UNCHANGED cacheVars
  /\ Watch

CacheStep ==
  /\ \/ \E p \in Serves : RefreshStep(p)
     \/ \E c \in Cmds : Command(c)
     \/ Tick \/ OtherDevice \/ Join
  /\ UNCHANGED lockVars

Next == LockStep \/ CacheStep

Spec == Init /\ [][Next]_vars
================================================================================
