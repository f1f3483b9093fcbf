-------------------------------- MODULE ListCache --------------------------------
(***************************************************************************)
(* The list cache of one device: a copy of the store's list that `serve`   *)
(* refreshes, `list` prints without connecting, and commands that change   *)
(* or read the store bring up to date.  Every writer replaces the whole    *)
(* file.  Listings are whole: a listing that a re-encryption leaves empty  *)
(* is the subject of PullMode.                                             *)
(***************************************************************************)
EXTENDS DaemonLock, FiniteSets

CONSTANTS Items,     \* item ids, numbered in the order they are made
          Cmds,      \* other commands of the device
          MaxTime,   \* bound on the clock
          MaxKey,    \* bound on the changes of the store's key
          MaxEvents, \* bound on commands, and on what goes wrong
          Keep, OlderThan, \* the rules of a `prune`
          NoRule, NoCache, NoKey

ASSUME ListCacheAssumption ==
  /\ Items \subseteq Nat \ {0} /\ MaxTime \in Nat /\ MaxKey \in Nat /\ MaxEvents \in Nat
  /\ Keep \in Nat /\ OlderThan \in Nat /\ (Serves \cup Callers) \cap Cmds = {}

VARIABLES
  items, key,   \* what the store holds, and its key
  born, gone,   \* when each item was stored and deleted; 0 before (observers)
  now,
  devKey,       \* the key in the device's key file
  file,         \* the cache file
  mem, conn,    \* the cache each `serve` holds, and the key of its connection
  rd,           \* what each reader is refreshing
  chg,          \* what each command changed and has not applied to the cache
  own,          \* items commands of this device stored (observer)
  events

cacheVars == <<items, key, born, gone, now, devKey, file, mem, conn, rd, chg, own, events>>
storeVars == <<items, key, born, gone>>

Readers == Serves \cup Cmds
Keys == 0..MaxKey
Caches == [store : Keys, checked : 1..MaxTime, items : SUBSET Items]
NoRead == [step |-> "idle", at |-> 0, store |-> NoKey, base |-> NoCache, ids |-> {}]
NoChange == [step |-> "idle", left |-> {}, put |-> {}, del |-> {}, store |-> NoKey, base |-> NoCache]

CacheTypeOK ==
  /\ items \in SUBSET Items /\ key \in Keys /\ devKey \in 0..key
  /\ born \in [Items -> 0..MaxTime] /\ gone \in [Items -> 0..MaxTime] /\ now \in 1..MaxTime
  /\ file \in Caches \cup {NoCache}
  /\ mem \in [Serves -> Caches \cup {NoCache}] /\ conn \in [Serves -> Keys \cup {NoKey}]
  /\ \A r \in Readers :
       /\ rd[r].step \in {"idle", "asked", "listed"} /\ rd[r].at \in 0..now
       /\ rd[r].store \in Keys \cup {NoKey} /\ rd[r].base \in Caches \cup {NoCache}
       /\ rd[r].ids \in SUBSET Items
  /\ \A c \in Cmds :
       /\ chg[c].step \in {"idle", "removing", "changed", "loaded"}
       /\ chg[c].left \cup chg[c].put \cup chg[c].del \subseteq Items
       /\ chg[c].store \in Keys \cup {NoKey} /\ chg[c].base \in Caches \cup {NoCache}
  /\ own \in SUBSET Items /\ events \in 0..MaxEvents

CacheInit ==
  /\ items = {} /\ key = 0 /\ devKey = 0 /\ now = 1
  /\ born = [i \in Items |-> 0] /\ gone = [i \in Items |-> 0]
  /\ file = NoCache /\ own = {} /\ events = 0
  /\ mem = [p \in Serves |-> NoCache] /\ conn = [p \in Serves |-> NoKey]
  /\ rd = [r \in Readers |-> NoRead] /\ chg = [c \in Cmds |-> NoChange]

Event == events < MaxEvents /\ events' = events + 1

(***************************************************************************)
(* The store, and the clock.                                               *)
(***************************************************************************)
Unborn == {i \in Items : born[i] = 0}
\* Items are numbered as they are made.
NextMade == {i \in Unborn : \A j \in Unborn : i <= j}

Store(i) == /\ items' = items \cup {i} /\ born' = [born EXCEPT ![i] = IF @ = 0 THEN now ELSE @]
            /\ UNCHANGED <<key, gone>>
Remove(S) == /\ items' = items \ S /\ gone' = [i \in Items |-> IF i \in S THEN now ELSE gone[i]]
             /\ UNCHANGED <<key, born>>

Tick == /\ now < MaxTime /\ now' = now + 1
        /\ UNCHANGED <<storeVars, devKey, file, mem, conn, rd, chg, own, events>>

\* Another device stores or deletes an item, or starts afresh with a new key.
OtherDevice ==
  /\ Event
  /\ \/ \E i \in NextMade : Store(i)
     \/ \E i \in items : Remove({i})
     \/ /\ key < MaxKey /\ key' = key + 1
        /\ items' = {} /\ gone' = [i \in Items |-> IF i \in items THEN now ELSE gone[i]]
        /\ UNCHANGED born
  /\ UNCHANGED <<now, devKey, file, mem, conn, rd, chg, own>>

Join == /\ devKey # key /\ devKey' = key
        /\ UNCHANGED <<storeVars, now, file, mem, conn, rd, chg, own, events>>

(***************************************************************************)
(* The cache.                                                              *)
(***************************************************************************)
\* The saved cache of the store as it is read with this key.
Saved(k) == IF file # NoCache /\ file.store = k THEN file ELSE NoCache

\* Mutant: the list is dated when it is written.
ListingsDatedNow(r) ==
  {[store |-> rd[r].store, checked |-> now, items |-> rd[r].ids \cap items]}

\* Mutant: items that left the store stay in the cache.
ListingsKept(r) ==
  {[store |-> rd[r].store, checked |-> rd[r].at,
    items |-> rd[r].ids \cup (IF rd[r].base = NoCache THEN {} ELSE rd[r].base.items)]}

\* A list and the time it was asked for; ids that left meanwhile may be missed.
Listings(r) ==
  LET known == IF rd[r].base = NoCache THEN {} ELSE rd[r].base.items \cap rd[r].ids IN
  {[store |-> rd[r].store, checked |-> rd[r].at, items |-> got] :
     got \in {S \in SUBSET rd[r].ids : known \cup (rd[r].ids \cap items) \subseteq S}}

\* It may fail to be written.
SaveCache(cache) ==
  \/ file' = cache /\ UNCHANGED events
  \/ UNCHANGED file /\ Event

(***************************************************************************)
(* `serve`'s refresh loop.                                                 *)
(***************************************************************************)
RefreshStart(p) ==
  /\ mem' = [mem EXCEPT ![p] = Saved(devKey)] /\ conn' = [conn EXCEPT ![p] = NoKey]
  /\ UNCHANGED <<storeVars, now, devKey, file, rd, chg, own, events>>

RefreshAsk(p) ==
  /\ rd[p].step = "idle"
  /\ rd' = [rd EXCEPT ![p] = [NoRead EXCEPT !.step = "asked", !.at = now]]
  /\ UNCHANGED <<storeVars, now, devKey, file, mem, conn, chg, own, events>>

\* The refresh fails: the connection is dropped, the cache stays.
GiveUp(p) == rd' = [rd EXCEPT ![p] = NoRead] /\ conn' = [conn EXCEPT ![p] = NoKey]

\* A connection is opened with the device's key when there is none; a cache
\* of another key than the connection's is dropped.
RefreshList(p) ==
  /\ rd[p].step = "asked"
  /\ LET k == IF conn[p] = NoKey THEN devKey ELSE conn[p]
         base == IF mem[p] # NoCache /\ mem[p].store = k THEN mem[p] ELSE NoCache IN
     \/ k # key /\ GiveUp(p) /\ mem' = [mem EXCEPT ![p] = base]
     \/ /\ k = key /\ mem' = [mem EXCEPT ![p] = base] /\ conn' = [conn EXCEPT ![p] = k]
        /\ rd' = [rd EXCEPT ![p] = [@ EXCEPT !.step = "listed", !.store = k, !.base = base, !.ids = items]]
  /\ UNCHANGED <<storeVars, now, devKey, file, chg, own, events>>

RefreshDone(p) ==
  /\ rd[p].step = "listed"
  /\ \E cache \in Listings(p) : mem' = [mem EXCEPT ![p] = cache] /\ SaveCache(cache)
  /\ rd' = [rd EXCEPT ![p] = NoRead]
  /\ UNCHANGED <<storeVars, now, devKey, conn, chg, own>>

RefreshFails(p) ==
  /\ rd[p].step # "idle" /\ Event
  /\ GiveUp(p)
  /\ UNCHANGED <<storeVars, now, devKey, file, mem, chg, own>>

\* `serve` is stopped, or killed, at any step.
RefreshStops(p) ==
  /\ mem' = [mem EXCEPT ![p] = NoCache] /\ GiveUp(p)
  /\ UNCHANGED <<storeVars, now, devKey, file, chg, own, events>>

(***************************************************************************)
(* Commands.                                                               *)
(***************************************************************************)
Free(c) == rd[c].step = "idle" /\ chg[c].step = "idle"

\* `list` and `choose` without a usable cache, and `load`, `cat` and `get`
\* after their output.
ReadAsk(c) ==
  /\ Free(c) /\ Event
  /\ rd' = [rd EXCEPT ![c] = [NoRead EXCEPT !.step = "asked", !.at = now, !.store = devKey]]
  /\ UNCHANGED <<storeVars, now, devKey, file, mem, conn, chg, own>>

ReadList(c) ==
  /\ rd[c].step = "asked"
  /\ IF devKey # key THEN rd' = [rd EXCEPT ![c] = NoRead]
     ELSE \E base \in {NoCache, Saved(rd[c].store)} :
            rd' = [rd EXCEPT ![c] = [@ EXCEPT !.step = "listed", !.base = base, !.ids = items]]
  /\ UNCHANGED <<storeVars, now, devKey, file, mem, conn, chg, own, events>>

ReadDone(c) ==
  /\ rd[c].step = "listed"
  /\ \E cache \in Listings(c) : file' = cache
  /\ rd' = [rd EXCEPT ![c] = NoRead]
  /\ UNCHANGED <<storeVars, now, devKey, mem, conn, chg, own, events>>

Begin(c, change) == Free(c) /\ Event /\ devKey = key /\ chg' = [chg EXCEPT ![c] = change]

\* `file` and `clipboard`; content that is stored already is answered too.
Send(c) ==
  /\ \E i \in items \cup NextMade :
       /\ Begin(c, [NoChange EXCEPT !.step = "changed", !.put = {i}, !.store = devKey])
       /\ Store(i) /\ own' = own \cup {i}
  /\ UNCHANGED <<now, devKey, file, mem, conn, rd>>

\* What `prune` deletes of a list: what no rule it was given protects.
Select(S, keep, age) ==
  {i \in S : /\ keep = NoRule \/ Cardinality({j \in S : j > i}) >= keep
             /\ age = NoRule \/ born[i] + age < now}

\* `delete` names an item, `prune` selects by number, by age or by both.
Delete(c) ==
  /\ \E S \in {{i} : i \in items}
        \cup {Select(items, Keep, NoRule), Select(items, NoRule, OlderThan), Select(items, Keep, OlderThan)} :
       /\ S # {}
       /\ Begin(c, [NoChange EXCEPT !.step = "removing", !.left = S, !.store = devKey])
  /\ UNCHANGED <<storeVars, now, devKey, file, mem, conn, rd, own>>

\* One item after the other, newest first; the first failure ends it.
DeleteNext(c) ==
  /\ chg[c].step = "removing"
  /\ \E i \in chg[c].left :
     /\ \A j \in chg[c].left : i >= j
     /\ IF i \in items /\ chg[c].store = key
        THEN /\ Remove({i})
             /\ chg' = [chg EXCEPT ![c] = [chg[c] EXCEPT !.del = @ \cup {i}, !.left = @ \ {i},
                          !.step = IF chg[c].left = {i} THEN "changed" ELSE "removing"]]
        ELSE /\ chg' = [chg EXCEPT ![c] = [@ EXCEPT !.left = {}, !.step = "changed"]]
             /\ UNCHANGED storeVars
  /\ UNCHANGED <<now, devKey, file, mem, conn, rd, own, events>>

\* The command's own changes are applied to the saved cache, if there is one.
FollowLoad(c) ==
  /\ chg[c].step = "changed"
  /\ LET base == Saved(chg[c].store) IN
     chg' = [chg EXCEPT ![c] =
               IF base = NoCache \/ @.put \cup @.del = {} THEN NoChange
               ELSE [@ EXCEPT !.step = "loaded", !.base = base]]
  /\ UNCHANGED <<storeVars, now, devKey, file, mem, conn, rd, own, events>>

\* The time it was checked stays.
Applied(change) == [change.base EXCEPT !.items = (@ \cup change.put) \ change.del]

FollowSave(c) ==
  /\ chg[c].step = "loaded"
  /\ file' = Applied(chg[c])
  /\ chg' = [chg EXCEPT ![c] = NoChange]
  /\ UNCHANGED <<storeVars, now, devKey, mem, conn, rd, own, events>>

CommandStops(c) ==
  /\ ~Free(c) /\ Event
  /\ rd' = [rd EXCEPT ![c] = NoRead] /\ chg' = [chg EXCEPT ![c] = NoChange]
  /\ UNCHANGED <<storeVars, now, devKey, file, mem, conn, own>>

Command(c) ==
  \/ ReadAsk(c) \/ ReadList(c) \/ ReadDone(c) \/ Send(c) \/ Delete(c) \/ DeleteNext(c)
  \/ FollowLoad(c) \/ FollowSave(c) \/ CommandStops(c)

--------------------------------------------------------------------------------
OfThisStore == file # NoCache /\ file.store = key

\* The cache lists everything that was stored before it was last checked and
\* is stored now, whoever wrote it last and from whatever it had loaded
\* (cache.rs `refresh`; list_cache.rs `apply`).
NothingHidden == OfThisStore => \A i \in items : born[i] < file.checked => i \in file.items

\* It lists nothing that was deleted before it was checked, but for what this
\* device stored: `apply` may add that to a cache checked after another device
\* deleted it (cache.rs `refresh`, `apply_put`).
NoGhosts ==
  OfThisStore => \A i \in file.items \ items : gone[i] >= file.checked \/ i \in own
================================================================================
