----------------------------- MODULE FsStoreProofs -----------------------------
(***************************************************************************)
(* Theorems about FsStore, for every choice of its constants.              *)
(***************************************************************************)
EXTENDS FsStore, TLAPS

(***************************************************************************)
(* What an operation knows at each of its steps.                           *)
(***************************************************************************)
Staging == {"open", "look", "match", "check", "publish", "exists"}

Knows(o) ==
  /\ o.at \in PutSteps \cup {"probe", "erase", "scrub"} => o.token \in Tokens
  /\ o.at = "probe" => o.key = Nothing
  /\ o.at \in Staging => o.key \in ContentKeys /\ o.answer = Nothing
  /\ o.at = "match" => o.left \subseteq {i \in Ids : i[2] = o.key}
  /\ o.at \in {"check", "publish", "exists"} => o.id \in Ids /\ o.id[2] = o.key
  /\ o.at \in {"bury", "erase", "content"} => o.id \in Ids
  /\ o.at = "bury" => o.answer = Nothing

Typed == TypeOK /\ \A c \in Clients : Knows(op[c])

LEMMA IdleKnows == Idle \in Ops /\ Knows(Idle)
BY DEF Idle, Ops, Knows, Steps, PutSteps, Staging

\* One client moves to a step it has what it needs for.
LEMMA SetKeeps ==
  ASSUME Typed, NEW c \in Clients, NEW o \in Ops, Knows(o), Set(c, o)
  PROVE  op' \in [Clients -> Ops] /\ \A d \in Clients : Knows(op'[d])
BY DEF Typed, TypeOK, Set

\* An id is a time and a key.
LEMMA IdParts ==
  /\ \A i \in Ids : i[2] \in ContentKeys
  /\ \A t \in Times, k \in ContentKeys : <<t, k>> \in Ids /\ <<t, k>>[2] = k
BY DEF Ids

\* A put stays well formed from one step to the next.
LEMMA PutTyped ==
  ASSUME Typed, NEW c \in Clients, PutStep(c)
  PROVE  Typed'
<1> USE DEF Typed, TypeOK
<1>k. op[c] \in Ops /\ Knows(op[c])
  OBVIOUS
<1>1. CASE OpenContent(c)
  <2> DEFINE o == [op[c] EXCEPT !.at = "look"]
  <2>1. o \in Ops /\ Knows(o)
    BY <1>1, <1>k DEF OpenContent, Ops, Knows, Steps, PutSteps, Staging
  <2>2. Set(c, o)
    BY <1>1 DEF OpenContent, Goto
  <2> HIDE DEF o
  <2> QED BY <1>1, <2>1, <2>2, SetKeeps DEF OpenContent, CreateFile, Parts
<1>2. CASE Look(c)
  <2> DEFINE o == [op[c] EXCEPT !.at = "match", !.left = OfKey(op[c].key)]
  <2>1. o \in Ops /\ Knows(o)
    BY <1>2, <1>k DEF Look, Ops, Knows, Steps, PutSteps, Staging, OfKey, Published
  <2>2. Set(c, o)
    BY <1>2 DEF Look
  <2> HIDE DEF o
  <2> QED BY <1>2, <2>1, <2>2, SetKeeps DEF Look
<1>3. CASE Match(c)
  <2>1. PICK i \in op[c].left : Set(c, IF i \in Readable
           THEN [op[c] EXCEPT !.at = "clear", !.answer = "existing", !.id = i, !.left = {}]
           ELSE [op[c] EXCEPT !.left = @ \ {i}])
    BY <1>3 DEF Match
  <2> DEFINE o == IF i \in Readable
           THEN [op[c] EXCEPT !.at = "clear", !.answer = "existing", !.id = i, !.left = {}]
           ELSE [op[c] EXCEPT !.left = @ \ {i}]
  <2>2. o \in Ops /\ Knows(o)
    BY <1>3, <1>k, ZenonT(60) DEF Match, Ops, Knows, Steps, PutSteps, Staging, Readable, Answers
  <2> HIDE DEF o
  <2> QED BY <1>3, <2>1, <2>2, SetKeeps DEF Match, o
<1>4. ASSUME NEW time \in Times, WriteMeta(c, time) PROVE Typed'
  <2> DEFINE o == [op[c] EXCEPT !.at = "check", !.id = <<time, op[c].key>>]
  <2>1. o \in Ops /\ Knows(o)
    BY <1>4, <1>k, IdParts DEF WriteMeta, Ops, Knows, Steps, PutSteps, Staging
  <2>2. Set(c, o)
    BY <1>4 DEF WriteMeta
  <2> HIDE DEF o
  <2> QED BY <1>4, <2>1, <2>2, SetKeeps DEF WriteMeta, CreateFile, Parts
<1>5. CASE Unstaged(c)
  <2> DEFINE o == [op[c] EXCEPT !.at = "clear", !.answer = "failed"]
  <2>1. o \in Ops /\ Knows(o)
    BY <1>5, <1>k DEF Unstaged, Ops, Knows, Steps, PutSteps, Staging, Answers
  <2>2. Set(c, o)
    BY <1>5 DEF Unstaged, Answer
  <2> HIDE DEF o
  <2> QED BY <1>5, <2>1, <2>2, SetKeeps DEF Unstaged
<1>6. CASE CheckTarget(c)
  <2> DEFINE o == [op[c] EXCEPT !.at = IF op[c].id \in Published THEN "exists" ELSE "publish"]
  <2>1. o \in Ops /\ Knows(o)
    BY <1>6, <1>k DEF CheckTarget, Ops, Knows, Steps, PutSteps, Staging
  <2>2. Set(c, o)
    BY <1>6 DEF CheckTarget, Goto
  <2> HIDE DEF o
  <2> QED BY <1>6, <2>1, <2>2, SetKeeps DEF CheckTarget
<1>7. CASE Publish(c)
  <2> DEFINE o == [op[c] EXCEPT !.at = "clear", !.answer = "created"]
  <2>1. o \in Ops /\ Knows(o) /\ op[c].token \in Tokens
    BY <1>7, <1>k DEF Publish, Ops, Knows, Steps, PutSteps, Staging, Answers
  <2>2. Set(c, o)
    BY <1>7 DEF Publish, Answer
  <2> HIDE DEF o
  <2> QED BY <1>7, <2>1, <2>2, SetKeeps DEF Publish
<1>8. CASE PublishRefused(c)
  <2> DEFINE o == [op[c] EXCEPT !.at = "clear", !.answer = "failed"]
  <2>1. o \in Ops /\ Knows(o)
    BY <1>8, <1>k DEF PublishRefused, Ops, Knows, Steps, PutSteps, Staging, Answers
  <2>2. Set(c, o)
    BY <1>8 DEF PublishRefused, Answer
  <2> HIDE DEF o
  <2> QED BY <1>8, <2>1, <2>2, SetKeeps DEF PublishRefused
<1>9. CASE AnswerExisting(c)
  <2> DEFINE o == [op[c] EXCEPT !.at = "clear",
                     !.answer = IF op[c].id \in Readable THEN "existing" ELSE "failed"]
  <2>1. o \in Ops /\ Knows(o)
    BY <1>9, <1>k, ZenonT(60) DEF AnswerExisting, Ops, Knows, Steps, PutSteps, Staging, Answers
  <2>2. Set(c, o)
    BY <1>9 DEF AnswerExisting, Answer
  <2> HIDE DEF o
  <2> QED BY <1>9, <2>1, <2>2, SetKeeps DEF AnswerExisting
<1>10. CASE Clear(c)
  BY <1>10, IdleKnows, SetKeeps DEF Clear, RemoveTree, RemoveOne
<1> QED
  BY <1>1, <1>2, <1>3, <1>4, <1>5, <1>6, <1>7, <1>8, <1>9, <1>10 DEF PutStep

\* So does every other operation that goes on.
LEMMA WorkTyped ==
  ASSUME Typed, NEW c \in Clients, Work(c)
  PROVE  Typed'
<1> USE DEF Typed, TypeOK
<1>k. op[c] \in Ops /\ Knows(op[c])
  OBVIOUS
<1>1. CASE PutStep(c)
  BY <1>1, PutTyped
<1>2. ASSUME NEW t \in Tokens, Bury(c, t) PROVE Typed'
  <2> DEFINE o == [op[c] EXCEPT !.at = "erase", !.token = t, !.answer = "removed"]
             n(d) == [op[d] EXCEPT !.owed = @ \ {op[c].id}]
  <2>1. o \in Ops /\ Knows(o) /\ op[c].id \in Ids
    BY <1>2, <1>k DEF Bury, Ops, Knows, Steps, PutSteps, Staging, Answers
  <2>2. \A d \in Clients : n(d) \in Ops /\ Knows(n(d))
    BY <1>k DEF Ops, Knows, Steps, PutSteps, Staging
  <2>3. op' = [d \in Clients |-> IF d = c THEN o ELSE n(d)]
    BY <1>2 DEF Bury
  <2> HIDE DEF o, n
  <2>4. op' \in [Clients -> Ops] /\ \A d \in Clients : Knows(op'[d])
    BY <2>1, <2>2, <2>3
  <2>5. items' \in [Ids -> SUBSET Parts] /\ tmp' \in [Tokens -> SUBSET Parts]
    BY <1>2, <2>1 DEF Bury
  <2>6. stale' \in SUBSET Tokens
    BY <1>2 DEF Bury
  <2> QED BY <2>4, <2>5, <2>6
<1>3. ASSUME NEW t \in Tokens, Sweep(c, t) PROVE Typed'
  <2> DEFINE o == IF t \in stale /\ tmp[t] # {}
              THEN [op[c] EXCEPT !.left = @ \ {t}, !.at = "scrub", !.token = t]
              ELSE [op[c] EXCEPT !.left = @ \ {t}]
  <2>1. o \in Ops /\ Knows(o)
    BY <1>3, <1>k, ZenonT(60) DEF Sweep, Ops, Knows, Steps, PutSteps, Staging
  <2>2. Set(c, o)
    BY <1>3 DEF Sweep
  <2> HIDE DEF o
  <2> QED BY <1>3, <2>1, <2>2, SetKeeps DEF Sweep
<1>4. CASE BuryMissing(c)
  BY <1>4, IdleKnows, SetKeeps DEF BuryMissing, End
<1>10. CASE Return(c)
  BY <1>10, IdleKnows, SetKeeps DEF Return, End
<1>11. CASE Stop(c)
  BY <1>11, IdleKnows, SetKeeps DEF Stop, End
<1>5. CASE Erase(c)
  BY <1>5, IdleKnows, SetKeeps DEF Erase, RemoveTree, RemoveOne
<1>6. CASE ReadNext(c)
  <2>1. PICK i \in op[c].left :
          Set(c, [op[c] EXCEPT !.left = @ \ {i}, !.got = @ \cup ({i} \cap Readable)])
    BY <1>6 DEF ReadNext
  <2> DEFINE o == [op[c] EXCEPT !.left = @ \ {i}, !.got = @ \cup ({i} \cap Readable)]
  <2>2. o \in Ops /\ Knows(o)
    BY <1>6, <1>k DEF ReadNext, Ops, Knows, Steps, PutSteps, Staging, Readable
  <2> HIDE DEF o
  <2> QED BY <1>6, <2>1, <2>2, SetKeeps DEF ReadNext, o
<1>7. CASE ReadContent(c)
  <2> DEFINE o == [op[c] EXCEPT !.at = "return",
                !.answer = IF "content" \in items[op[c].id] THEN "found" ELSE "corrupt"]
  <2>1. o \in Ops /\ Knows(o)
    BY <1>7, <1>k, ZenonT(60) DEF ReadContent, Ops, Knows, Steps, PutSteps, Staging, Answers
  <2>2. Set(c, o)
    BY <1>7 DEF ReadContent, Answer
  <2> HIDE DEF o
  <2> QED BY <1>7, <2>1, <2>2, SetKeeps DEF ReadContent
<1>8. CASE WriteProbe(c)
  <2> DEFINE o == [op[c] EXCEPT !.at = "clear", !.answer = "done"]
  <2>1. o \in Ops /\ Knows(o)
    BY <1>8, <1>k DEF WriteProbe, Ops, Knows, Steps, PutSteps, Staging, Answers
  <2>2. Set(c, o)
    BY <1>8 DEF WriteProbe, Answer
  <2> HIDE DEF o
  <2> QED BY <1>8, <2>1, <2>2, SetKeeps DEF WriteProbe, CreateFile, Parts
<1>9. CASE Scrub(c)
  <2> DEFINE o == [op[c] EXCEPT !.at = "sweep", !.token = Nothing]
  <2>1. o \in Ops /\ Knows(o)
    BY <1>9, <1>k DEF Scrub, Ops, Knows, Steps, PutSteps, Staging
  <2> HIDE DEF o
  <2> QED BY <1>9, <2>1, SetKeeps DEF Scrub, RemoveTree, RemoveOne, o
<1> QED
  BY <1>1, <1>2, <1>3, <1>4, <1>5, <1>6, <1>7, <1>8, <1>9, <1>10, <1>11 DEF Work

\* And every operation that begins.
LEMMA BeginTyped ==
  ASSUME Typed, NEW c \in Clients,
         \/ \E k \in ContentKeys, t \in Tokens : BeginPut(c, k, t)
         \/ \E i \in Ids : BeginDelete(c, i) \/ BeginGet(c, i)
         \/ \E t \in Tokens : BeginProbe(c, t)
         \/ BeginList(c) \/ BeginClean(c)
  PROVE  Typed'
<1> USE DEF Typed, TypeOK
<1>1. ASSUME NEW k \in ContentKeys, NEW t \in Tokens, BeginPut(c, k, t) PROVE Typed'
  <2> DEFINE o == [Idle EXCEPT !.at = "open", !.key = k, !.token = t, !.owed = OfKey(k)]
  <2>1. o \in Ops /\ Knows(o)
    BY DEF Idle, Ops, Knows, Steps, PutSteps, Staging, OfKey, Published
  <2> HIDE DEF o
  <2> QED BY <1>1, <2>1, SetKeeps DEF BeginPut, MakeStaging, Parts, o
<1>2. ASSUME NEW i \in Ids, BeginDelete(c, i) PROVE Typed'
  <2> DEFINE o == [Idle EXCEPT !.at = "bury", !.id = i]
  <2>1. o \in Ops /\ Knows(o)
    BY DEF Idle, Ops, Knows, Steps, PutSteps, Staging
  <2> HIDE DEF o
  <2> QED BY <1>2, <2>1, SetKeeps DEF BeginDelete, o
<1>3. ASSUME NEW i \in Ids, BeginGet(c, i) PROVE Typed'
  <2> DEFINE o == [Idle EXCEPT !.at = "content", !.id = i]
  <2>1. o \in Ops /\ Knows(o)
    BY DEF Idle, Ops, Knows, Steps, PutSteps, Staging
  <2> HIDE DEF o
  <2> QED BY <1>3, <2>1, SetKeeps DEF BeginGet, o
<1>4. ASSUME NEW t \in Tokens, BeginProbe(c, t) PROVE Typed'
  <2> DEFINE o == [Idle EXCEPT !.at = "probe", !.token = t]
  <2>1. o \in Ops /\ Knows(o)
    BY DEF Idle, Ops, Knows, Steps, PutSteps, Staging
  <2> HIDE DEF o
  <2> QED BY <1>4, <2>1, SetKeeps DEF BeginProbe, MakeStaging, Parts, o
<1>5. CASE BeginList(c)
  <2> DEFINE o == [Idle EXCEPT !.at = "read", !.left = Published, !.owed = Published]
  <2>1. o \in Ops /\ Knows(o)
    BY DEF Idle, Ops, Knows, Steps, PutSteps, Staging, Published
  <2> HIDE DEF o
  <2> QED BY <1>5, <2>1, SetKeeps DEF BeginList, o
<1>6. CASE BeginClean(c)
  <2> DEFINE o == [Idle EXCEPT !.at = "sweep", !.left = {t \in Tokens : tmp[t] # {}}]
  <2>1. o \in Ops /\ Knows(o)
    BY DEF Idle, Ops, Knows, Steps, PutSteps, Staging
  <2> HIDE DEF o
  <2> QED BY <1>6, <2>1, SetKeeps DEF BeginClean, o
<1> QED
  BY <1>1, <1>2, <1>3, <1>4, <1>5, <1>6

LEMMA NextTyped ==
  ASSUME Typed, [Next]_vars
  PROVE  Typed'
<1>1. CASE \E t \in Tokens : Age(t)
  BY <1>1 DEF Age, Typed, TypeOK
<1>2. CASE UNCHANGED vars
  BY <1>2 DEF vars, Typed, TypeOK, Knows
<1> QED
  BY <1>1, <1>2, WorkTyped, BeginTyped DEF Next

LEMMA InitTyped == Init => Typed
BY IdleKnows DEF Init, Typed, TypeOK

LEMMA TypedInvariant == Spec => []Typed
<1>1. Typed /\ [Next]_vars => Typed'
  BY NextTyped
<1> QED
  BY InitTyped, <1>1, PTL DEF Spec

\* Every reachable state of the store is well formed, whatever its clients do.
THEOREM StoreTyped == Spec => []TypeOK
<1>1. Typed => TypeOK
  BY DEF Typed
<1> QED
  BY TypedInvariant, <1>1, PTL

-----------------------------------------------------------------------------
(***************************************************************************)
(* Items are whole.  An upload owns its staging folder: no other client    *)
(* uses the token, the folder is never stale, and so it holds what the     *)
(* upload wrote until the rename.                                          *)
(***************************************************************************)
AtWork == PutSteps \cup {"probe"}

Apart == \A c, d \in Clients :
  c # d /\ op[c].at \in AtWork => op[d].token # op[c].token

Timely == \A c \in Clients : op[c].at \in AtWork => op[c].token \notin stale

Staged(o, folder) ==
  /\ o.at = "open" => folder = {"dir"}
  /\ o.at \in {"look", "match"} => folder = {"dir", "content"}
  /\ o.at \in {"check", "publish", "exists"} => folder = Parts

Owned == Apart /\ Timely /\ \A c \in Clients : Staged(op[c], tmp[op[c].token])

\* The folders the other uploads stage in, and the tokens any other client has.
Theirs(c) == {op[d].token : d \in {e \in Clients \ {c} : op[e].at \in AtWork}}
Taken(c)  == {op[d].token : d \in Clients \ {c}}

\* A step of one client that touches no folder of another upload, and makes none
\* of its own stale, leaves every upload with its folder.
LEMMA OthersKeep ==
  ASSUME Typed, Owned, NEW c \in Clients, NEW o \in Ops, Set(c, o),
         o.token \notin Theirs(c),
         o.at \in AtWork => o.token \notin Taken(c) /\ o.token \notin stale',
         \A t \in Theirs(c) : tmp'[t] = tmp[t],
         stale' \subseteq stale,
         Staged(o, tmp'[o.token])
  PROVE  Owned'
<1>1. op' = [op EXCEPT ![c] = o] /\ op \in [Clients -> Ops]
  BY DEF Set, Typed, TypeOK
<1>2. Apart'
  BY <1>1 DEF Apart, Owned, Theirs, Taken
<1>3. Timely'
  BY <1>1 DEF Timely, Owned
<1>4. \A d \in Clients : Staged(op'[d], tmp'[op'[d].token])
  <2> SUFFICES ASSUME NEW d \in Clients PROVE Staged(op'[d], tmp'[op'[d].token])
    OBVIOUS
  <2>1. CASE d = c
    BY <1>1, <2>1 DEF Staged
  <2>2. CASE d # c /\ op[d].at \in AtWork
    <3>1. tmp'[op[d].token] = tmp[op[d].token]
      BY <2>2 DEF Theirs
    <3> QED BY <1>1, <2>2, <3>1 DEF Staged, Owned
  <2>3. CASE d # c /\ op[d].at \notin AtWork
    BY <1>1, <2>3 DEF Staged, AtWork, PutSteps
  <2> QED BY <2>1, <2>2, <2>3
<1> QED
  BY <1>2, <1>3, <1>4 DEF Owned

\* An upload's folder is not another's, and is nobody's else.
LEMMA OwnFolder ==
  ASSUME Typed, Owned, NEW c \in Clients
  PROVE  /\ op[c].token \notin Theirs(c)
         /\ op[c].at \in AtWork =>
              op[c].token \in Tokens /\ op[c].token \notin Taken(c) /\ op[c].token \notin stale
         /\ Nothing \notin Theirs(c)
BY NothingAssumption DEF Typed, TypeOK, Knows, Owned, Apart, Timely, Theirs, Taken, AtWork

LEMMA FreshFolder ==
  ASSUME Typed, NEW c \in Clients, NEW t \in Tokens, Fresh(t)
  PROVE  t \notin Theirs(c) /\ t \notin Taken(c)
BY DEF Fresh, Theirs, Taken

LEMMA IdleOwned ==
  ASSUME Typed, Owned, NEW c \in Clients, Set(c, Idle), stale' = stale,
         \A t \in Theirs(c) : tmp'[t] = tmp[t]
  PROVE  Owned'
BY OthersKeep, OwnFolder, IdleKnows DEF Idle, AtWork, PutSteps, Staged

\* Removing something from its own folder, or ending.
LEMMA RemoveOwned ==
  ASSUME Typed, Owned, NEW c \in Clients, NEW o \in Ops,
         op[c].at \in {"clear", "erase", "scrub"}, RemoveTree(c, o),
         o.token = Nothing, o.at \notin AtWork
  PROVE  Owned'
<1>1. op[c] \in Ops /\ op[c].token \in Tokens /\ tmp \in [Tokens -> SUBSET Parts]
  BY DEF Typed, TypeOK, Knows, PutSteps
<1>2. \A t \in Theirs(c) : tmp'[t] = tmp[t]
  BY <1>1, OwnFolder DEF RemoveTree, RemoveOne, Theirs, Typed, Knows, AtWork
<1>3. CASE HasStaging(c)
  <2>1. Set(c, op[c])
    BY <1>3 DEF RemoveTree, Set, Typed, TypeOK
  <2>2. Staged(op[c], tmp'[op[c].token])
    BY <1>3 DEF Staged, RemoveTree
  <2> QED BY <1>1, <1>2, <2>1, <2>2, OthersKeep, OwnFolder, <1>3 DEF RemoveTree
<1>4. CASE ~HasStaging(c)
  <2>1. Set(c, o) /\ stale' = stale
    BY <1>4 DEF RemoveTree
  <2>2. Staged(o, tmp'[o.token])
    BY DEF Staged, AtWork, PutSteps
  <2> QED BY <1>2, <2>1, <2>2, OthersKeep, OwnFolder
<1> QED BY <1>3, <1>4

\* The steps of an upload leave the folders of the others alone.
LEMMA PutOwned ==
  ASSUME Typed, Owned, NEW c \in Clients, PutStep(c)
  PROVE  Owned'
<1>k. op[c] \in Ops /\ Knows(op[c]) /\ Staged(op[c], tmp[op[c].token]) /\ tmp \in [Tokens -> SUBSET Parts]
  BY DEF Typed, TypeOK, Owned
<1>o. /\ op[c].token \notin Theirs(c)
      /\ op[c].at \in AtWork => op[c].token \in Tokens /\ op[c].token \notin Taken(c) /\ op[c].token \notin stale
  BY OwnFolder
<1>1. CASE OpenContent(c)
  <2> DEFINE o == [op[c] EXCEPT !.at = "look"]
  <2>1. Set(c, o) /\ o \in Ops /\ o.token = op[c].token
    BY <1>1, <1>k DEF OpenContent, Goto, Answer, Ops, Steps, PutSteps, Answers, Knows, Staging
  <2>2. Staged(o, tmp'[o.token]) /\ op[c].at \in AtWork
    BY <1>1, <1>k, <1>o, <2>1 DEF OpenContent, Staged, CreateFile, AtWork, PutSteps, Parts, Ops
  <2>3. (\A t \in Theirs(c) : tmp'[t] = tmp[t]) /\ stale' \subseteq stale
    BY <1>1, <1>k, <1>o DEF OpenContent, CreateFile
  <2> HIDE DEF o
  <2> QED BY <2>1, <2>2, <2>3, <1>o, OthersKeep
<1>2. CASE Look(c)
  <2> DEFINE o == [op[c] EXCEPT !.at = "match", !.left = OfKey(op[c].key)]
  <2>1. Set(c, o) /\ o \in Ops /\ o.token = op[c].token
    BY <1>2, <1>k DEF Look, Goto, Answer, Ops, Steps, PutSteps, Answers, Knows, Staging, OfKey, Published
  <2>2. Staged(o, tmp'[o.token]) /\ op[c].at \in AtWork
    BY <1>2, <1>k DEF Look, Staged, CreateFile, AtWork, PutSteps, Parts
  <2>3. (\A t \in Theirs(c) : tmp'[t] = tmp[t]) /\ stale' \subseteq stale
    BY <1>2, <1>k, <1>o DEF Look, CreateFile
  <2> HIDE DEF o
  <2> QED BY <2>1, <2>2, <2>3, <1>o, OthersKeep
<1>3. CASE Match(c)
  <2>1. PICK i \in op[c].left : Set(c, IF i \in Readable
           THEN [op[c] EXCEPT !.at = "clear", !.answer = "existing", !.id = i, !.left = {}]
           ELSE [op[c] EXCEPT !.left = @ \ {i}])
    BY <1>3 DEF Match
  <2> DEFINE o == IF i \in Readable
           THEN [op[c] EXCEPT !.at = "clear", !.answer = "existing", !.id = i, !.left = {}]
           ELSE [op[c] EXCEPT !.left = @ \ {i}]
  <2>2. o \in Ops /\ o.token = op[c].token
    BY <1>3, <1>k DEF Match, Ops, Steps, PutSteps, Answers, Readable
  <2>3. Staged(o, tmp'[o.token]) /\ op[c].at \in AtWork
    BY <1>3, <1>k DEF Match, Staged, AtWork, PutSteps
  <2>4. Set(c, o) /\ tmp' = tmp /\ stale' = stale
    BY <1>3, <2>1 DEF Match
  <2> HIDE DEF o
  <2> QED BY <2>2, <2>3, <2>4, <1>o, OthersKeep
<1>4. ASSUME NEW time \in Times, WriteMeta(c, time) PROVE Owned'
  <2> DEFINE o == [op[c] EXCEPT !.at = "check", !.id = <<time, op[c].key>>]
  <2>1. Set(c, o) /\ o \in Ops /\ o.token = op[c].token
    BY <1>4, <1>k, ZenonT(60) DEF WriteMeta, Goto, Answer, Ops, Steps, PutSteps, Answers, Knows, Staging, Ids
  <2>2. Staged(o, tmp'[o.token]) /\ op[c].at \in AtWork
    BY <1>4, <1>k, <1>o, <2>1 DEF WriteMeta, Staged, CreateFile, AtWork, PutSteps, Parts, Ops
  <2>3. (\A t \in Theirs(c) : tmp'[t] = tmp[t]) /\ stale' \subseteq stale
    BY <1>4, <1>k, <1>o DEF WriteMeta, CreateFile
  <2> HIDE DEF o
  <2> QED BY <2>1, <2>2, <2>3, <1>o, OthersKeep
<1>5. CASE Unstaged(c)
  <2> DEFINE o == [op[c] EXCEPT !.at = "clear", !.answer = "failed"]
  <2>1. Set(c, o) /\ o \in Ops /\ o.token = op[c].token
    BY <1>5, <1>k DEF Unstaged, Goto, Answer, Ops, Steps, PutSteps, Answers, Knows, Staging
  <2>2. Staged(o, tmp'[o.token]) /\ op[c].at \in AtWork
    BY <1>5, <1>k DEF Unstaged, Staged, CreateFile, AtWork, PutSteps, Parts
  <2>3. (\A t \in Theirs(c) : tmp'[t] = tmp[t]) /\ stale' \subseteq stale
    BY <1>5, <1>k, <1>o DEF Unstaged, CreateFile
  <2> HIDE DEF o
  <2> QED BY <2>1, <2>2, <2>3, <1>o, OthersKeep
<1>6. CASE CheckTarget(c)
  <2> DEFINE o == [op[c] EXCEPT !.at = IF op[c].id \in Published THEN "exists" ELSE "publish"]
  <2>1. Set(c, o) /\ o \in Ops /\ o.token = op[c].token
    BY <1>6, <1>k DEF CheckTarget, Goto, Answer, Ops, Steps, PutSteps, Answers, Knows, Staging
  <2>2. Staged(o, tmp'[o.token]) /\ op[c].at \in AtWork
    BY <1>6, <1>k DEF CheckTarget, Staged, CreateFile, AtWork, PutSteps, Parts
  <2>3. (\A t \in Theirs(c) : tmp'[t] = tmp[t]) /\ stale' \subseteq stale
    BY <1>6, <1>k, <1>o DEF CheckTarget, CreateFile
  <2> HIDE DEF o
  <2> QED BY <2>1, <2>2, <2>3, <1>o, OthersKeep
<1>7. CASE Publish(c)
  <2> DEFINE o == [op[c] EXCEPT !.at = "clear", !.answer = "created"]
  <2>1. Set(c, o) /\ o \in Ops /\ o.token = op[c].token
    BY <1>7, <1>k DEF Publish, Goto, Answer, Ops, Steps, PutSteps, Answers, Knows, Staging
  <2>2. Staged(o, tmp'[o.token]) /\ op[c].at \in AtWork
    BY <1>7, <1>k DEF Publish, Staged, CreateFile, AtWork, PutSteps, Parts
  <2>3. (\A t \in Theirs(c) : tmp'[t] = tmp[t]) /\ stale' \subseteq stale
    BY <1>7, <1>k, <1>o DEF Publish, CreateFile
  <2> HIDE DEF o
  <2> QED BY <2>1, <2>2, <2>3, <1>o, OthersKeep
<1>8. CASE PublishRefused(c)
  <2> DEFINE o == [op[c] EXCEPT !.at = "clear", !.answer = "failed"]
  <2>1. Set(c, o) /\ o \in Ops /\ o.token = op[c].token
    BY <1>8, <1>k DEF PublishRefused, Goto, Answer, Ops, Steps, PutSteps, Answers, Knows, Staging
  <2>2. Staged(o, tmp'[o.token]) /\ op[c].at \in AtWork
    BY <1>8, <1>k DEF PublishRefused, Staged, CreateFile, AtWork, PutSteps, Parts
  <2>3. (\A t \in Theirs(c) : tmp'[t] = tmp[t]) /\ stale' \subseteq stale
    BY <1>8, <1>k, <1>o DEF PublishRefused, CreateFile
  <2> HIDE DEF o
  <2> QED BY <2>1, <2>2, <2>3, <1>o, OthersKeep
<1>9. CASE AnswerExisting(c)
  <2> DEFINE o == [op[c] EXCEPT !.at = "clear",
                     !.answer = IF op[c].id \in Readable THEN "existing" ELSE "failed"]
  <2>1. Set(c, o) /\ o \in Ops /\ o.token = op[c].token
    BY <1>9, <1>k, ZenonT(60) DEF AnswerExisting, Goto, Answer, Ops, Steps, PutSteps, Answers, Knows, Staging
  <2>2. Staged(o, tmp'[o.token]) /\ op[c].at \in AtWork
    BY <1>9, <1>k DEF AnswerExisting, Staged, CreateFile, AtWork, PutSteps, Parts
  <2>3. (\A t \in Theirs(c) : tmp'[t] = tmp[t]) /\ stale' \subseteq stale
    BY <1>9, <1>k, <1>o DEF AnswerExisting, CreateFile
  <2> HIDE DEF o
  <2> QED BY <2>1, <2>2, <2>3, <1>o, OthersKeep
<1>10. CASE Clear(c)
  BY <1>10, IdleKnows, RemoveOwned DEF Clear, Idle, AtWork, PutSteps
<1> QED
  BY <1>1, <1>2, <1>3, <1>4, <1>5, <1>6, <1>7, <1>8, <1>9, <1>10 DEF PutStep

\* A deletion uses a token nobody has.
LEMMA BuryOwned ==
  ASSUME Typed, Owned, NEW c \in Clients, NEW t \in Tokens, Bury(c, t)
  PROVE  Owned'
<1>1. \A d \in Clients : op[d] \in Ops /\ Staged(op[d], tmp[op[d].token])
  BY DEF Typed, TypeOK, Owned
<1>2. \A d \in Clients : d # c =>
        op'[d].at = op[d].at /\ op'[d].token = op[d].token /\ op[d].token # t
  BY <1>1 DEF Bury, Ops, Fresh
<1>3. op'[c].at = "erase" /\ op'[c].token = t
  BY <1>1 DEF Bury, Ops
<1>4. \A u \in Tokens : u # t => tmp'[u] = tmp[u] /\ (u \in stale' => u \in stale)
  BY DEF Bury, Typed, TypeOK
<1>5. Apart'
  BY <1>2, <1>3 DEF Apart, Owned, AtWork, PutSteps
<1>6. Timely'
  BY <1>2, <1>3, <1>4 DEF Timely, Owned, AtWork, PutSteps, Typed, Knows
<1>7. \A d \in Clients : Staged(op'[d], tmp'[op'[d].token])
  BY <1>1, <1>2, <1>3, <1>4 DEF Staged, Typed, Knows, PutSteps
<1> QED
  BY <1>5, <1>6, <1>7 DEF Owned

LEMMA WorkOwned ==
  ASSUME Typed, Owned, NEW c \in Clients, Work(c)
  PROVE  Owned'
<1>k. op[c] \in Ops /\ Knows(op[c]) /\ Staged(op[c], tmp[op[c].token]) /\ tmp \in [Tokens -> SUBSET Parts]
  BY DEF Typed, TypeOK, Owned
<1>o. /\ op[c].token \notin Theirs(c)
      /\ op[c].at \in AtWork => op[c].token \in Tokens /\ op[c].token \notin Taken(c) /\ op[c].token \notin stale
  BY OwnFolder
<1>1. CASE PutStep(c)
  BY <1>1, PutOwned
<1>2. ASSUME NEW t \in Tokens, Bury(c, t) PROVE Owned'
  BY <1>2, BuryOwned
<1>3. ASSUME NEW t \in Tokens, Sweep(c, t) PROVE Owned'
  <2> DEFINE o == IF t \in stale /\ tmp[t] # {}
              THEN [op[c] EXCEPT !.left = @ \ {t}, !.at = "scrub", !.token = t]
              ELSE [op[c] EXCEPT !.left = @ \ {t}]
  <2>1. Set(c, o) /\ o \in Ops
    BY <1>3, <1>k DEF Sweep, Ops, Steps
  <2>2. o.at \in {"sweep", "scrub"} /\ (o.token = op[c].token \/ (o.token = t /\ t \in stale))
    BY <1>3, <1>k DEF Sweep, Ops
  <2>3. o.token \notin Theirs(c)
    BY <2>2, <1>o DEF Theirs, Owned, Timely
  <2>4. Staged(o, tmp'[o.token]) /\ o.at \notin AtWork
    BY <2>2 DEF Staged, AtWork, PutSteps
  <2> HIDE DEF o
  <2> QED BY <1>3, <2>1, <2>3, <2>4, OthersKeep DEF Sweep
<1>4. CASE BuryMissing(c) \/ Return(c) \/ Stop(c)
  BY <1>4, IdleOwned DEF BuryMissing, Return, Stop, End
<1>5. CASE Erase(c)
  BY <1>5, IdleKnows, RemoveOwned DEF Erase, Idle, AtWork, PutSteps
<1>6. CASE ReadNext(c)
  <2>1. PICK i \in op[c].left :
          Set(c, [op[c] EXCEPT !.left = @ \ {i}, !.got = @ \cup ({i} \cap Readable)])
    BY <1>6 DEF ReadNext
  <2> DEFINE o == [op[c] EXCEPT !.left = @ \ {i}, !.got = @ \cup ({i} \cap Readable)]
  <2>2. o \in Ops /\ o.token = op[c].token /\ o.at = "read"
    BY <1>6, <1>k DEF ReadNext, Ops, Readable
  <2>3. Staged(o, tmp'[o.token]) /\ o.at \notin AtWork
    BY <2>2 DEF Staged, AtWork, PutSteps
  <2> HIDE DEF o
  <2> QED BY <1>6, <2>1, <2>2, <2>3, <1>o, OthersKeep DEF ReadNext, o
<1>7. CASE ReadContent(c)
  <2> DEFINE o == [op[c] EXCEPT !.at = "return",
                !.answer = IF "content" \in items[op[c].id] THEN "found" ELSE "corrupt"]
  <2>1. Set(c, o) /\ o \in Ops /\ o.token = op[c].token /\ o.at = "return"
    BY <1>7, <1>k, ZenonT(60) DEF ReadContent, Answer, Ops, Steps, Answers
  <2>2. Staged(o, tmp'[o.token]) /\ o.at \notin AtWork
    BY <2>1 DEF Staged, AtWork, PutSteps
  <2> HIDE DEF o
  <2> QED BY <1>7, <2>1, <2>2, <1>o, OthersKeep DEF ReadContent
<1>8. CASE WriteProbe(c)
  <2> DEFINE o == [op[c] EXCEPT !.at = "clear", !.answer = "done"]
  <2>1. Set(c, o) /\ o \in Ops /\ o.token = op[c].token
    BY <1>8, <1>k DEF WriteProbe, Answer, Ops, Steps, PutSteps, Answers
  <2>2. Staged(o, tmp'[o.token]) /\ op[c].at \in AtWork
    BY <1>8, <1>k DEF WriteProbe, Staged, AtWork, Ops
  <2>3. (\A t \in Theirs(c) : tmp'[t] = tmp[t]) /\ stale' \subseteq stale
    BY <1>8, <1>k, <1>o DEF WriteProbe, CreateFile
  <2> HIDE DEF o
  <2> QED BY <2>1, <2>2, <2>3, <1>o, OthersKeep
<1>9. CASE Scrub(c)
  <2> DEFINE o == [op[c] EXCEPT !.at = "sweep", !.token = Nothing]
  <2>1. o \in Ops /\ o.token = Nothing /\ o.at \notin AtWork
    BY <1>k, ZenonT(60) DEF Ops, Steps, AtWork, PutSteps
  <2> HIDE DEF o
  <2> QED BY <1>9, <2>1, RemoveOwned DEF Scrub, o
<1> QED
  BY <1>1, <1>2, <1>3, <1>4, <1>5, <1>6, <1>7, <1>8, <1>9 DEF Work

LEMMA BeginOwned ==
  ASSUME Typed, Owned, NEW c \in Clients,
         \/ \E k \in ContentKeys, t \in Tokens : BeginPut(c, k, t)
         \/ \E i \in Ids : BeginDelete(c, i) \/ BeginGet(c, i)
         \/ \E t \in Tokens : BeginProbe(c, t)
         \/ BeginList(c) \/ BeginClean(c)
  PROVE  Owned'
<1>t. Theirs(c) \subseteq Tokens
  BY DEF Theirs, AtWork, Typed, Knows
<1>1. ASSUME NEW k \in ContentKeys, NEW t \in Tokens, BeginPut(c, k, t) PROVE Owned'
  <2> DEFINE o == [Idle EXCEPT !.at = "open", !.key = k, !.token = t, !.owed = OfKey(k)]
  <2>1. Set(c, o) /\ o \in Ops /\ o.token = t
    BY <1>1 DEF BeginPut, Idle, Ops, Steps, PutSteps, OfKey, Published
  <2>2. Staged(o, tmp'[o.token]) /\ t \notin stale' /\ stale' \subseteq stale
    BY <1>1, <2>1 DEF BeginPut, MakeStaging, Staged, Idle, Typed, TypeOK
  <2>3. t \notin Theirs(c) /\ t \notin Taken(c)
    BY <1>1, FreshFolder DEF BeginPut
  <2>4. \A u \in Theirs(c) : tmp'[u] = tmp[u]
    BY <1>1, <2>3, <1>t DEF BeginPut, MakeStaging, Typed, TypeOK
  <2> HIDE DEF o
  <2> QED BY <2>1, <2>2, <2>3, <2>4, OthersKeep
<1>2. ASSUME NEW i \in Ids, BeginDelete(c, i) PROVE Owned'
  <2> DEFINE o == [Idle EXCEPT !.at = "bury", !.id = i]
  <2>1. Set(c, o) /\ o \in Ops /\ o.token = Nothing /\ o.at \notin AtWork
    BY <1>2 DEF BeginDelete, Idle, Ops, Steps, AtWork, PutSteps, Published
  <2>2. Staged(o, tmp'[o.token])
    BY <2>1 DEF Staged, AtWork, PutSteps
  <2> HIDE DEF o
  <2> QED BY <1>2, <2>1, <2>2, OwnFolder, OthersKeep DEF BeginDelete
<1>3. ASSUME NEW i \in Ids, BeginGet(c, i) PROVE Owned'
  <2> DEFINE o == [Idle EXCEPT !.at = "content", !.id = i]
  <2>1. Set(c, o) /\ o \in Ops /\ o.token = Nothing /\ o.at \notin AtWork
    BY <1>3 DEF BeginGet, Idle, Ops, Steps, AtWork, PutSteps, Published
  <2>2. Staged(o, tmp'[o.token])
    BY <2>1 DEF Staged, AtWork, PutSteps
  <2> HIDE DEF o
  <2> QED BY <1>3, <2>1, <2>2, OwnFolder, OthersKeep DEF BeginGet
<1>4. ASSUME NEW t \in Tokens, BeginProbe(c, t) PROVE Owned'
  <2> DEFINE o == [Idle EXCEPT !.at = "probe", !.token = t]
  <2>1. Set(c, o) /\ o \in Ops /\ o.token = t
    BY <1>4 DEF BeginProbe, Idle, Ops, Steps, PutSteps, OfKey, Published
  <2>2. Staged(o, tmp'[o.token]) /\ t \notin stale' /\ stale' \subseteq stale
    BY <1>4, <2>1 DEF BeginProbe, MakeStaging, Staged, Idle, Typed, TypeOK
  <2>3. t \notin Theirs(c) /\ t \notin Taken(c)
    BY <1>4, FreshFolder DEF BeginProbe
  <2>4. \A u \in Theirs(c) : tmp'[u] = tmp[u]
    BY <1>4, <2>3, <1>t DEF BeginProbe, MakeStaging, Typed, TypeOK
  <2> HIDE DEF o
  <2> QED BY <2>1, <2>2, <2>3, <2>4, OthersKeep
<1>5. CASE BeginList(c)
  <2> DEFINE o == [Idle EXCEPT !.at = "read", !.left = Published, !.owed = Published]
  <2>1. Set(c, o) /\ o \in Ops /\ o.token = Nothing /\ o.at \notin AtWork
    BY <1>5 DEF BeginList, Idle, Ops, Steps, AtWork, PutSteps, Published
  <2>2. Staged(o, tmp'[o.token])
    BY <2>1 DEF Staged, AtWork, PutSteps
  <2> HIDE DEF o
  <2> QED BY <1>5, <2>1, <2>2, OwnFolder, OthersKeep DEF BeginList
<1>6. CASE BeginClean(c)
  <2> DEFINE o == [Idle EXCEPT !.at = "sweep", !.left = {t \in Tokens : tmp[t] # {}}]
  <2>1. Set(c, o) /\ o \in Ops /\ o.token = Nothing /\ o.at \notin AtWork
    BY <1>6 DEF BeginClean, Idle, Ops, Steps, AtWork, PutSteps, Published
  <2>2. Staged(o, tmp'[o.token])
    BY <2>1 DEF Staged, AtWork, PutSteps
  <2> HIDE DEF o
  <2> QED BY <1>6, <2>1, <2>2, OwnFolder, OthersKeep DEF BeginClean
<1> QED
  BY <1>1, <1>2, <1>3, <1>4, <1>5, <1>6

\* While uploads are punctual, time makes none of their folders stale.
LEMMA AgeOwned ==
  ASSUME Punctual, Owned, NEW t \in Tokens, Age(t)
  PROVE  Owned'
<1>1. \A c \in Clients : op[c].at \in AtWork => op[c].token # t
  BY DEF Age, Live, AtWork
<1> QED
  BY <1>1 DEF Age, Owned, Apart, Timely, Staged

LEMMA NextOwned ==
  ASSUME Punctual, Typed, Owned, [Next]_vars
  PROVE  Owned'
<1>1. CASE UNCHANGED vars
  BY <1>1 DEF vars, Owned, Apart, Timely, Staged
<1> QED
  BY <1>1, WorkOwned, BeginOwned, AgeOwned DEF Next

\* A folder reaches items/ only by the rename of a finished upload, and leaves
\* it as a whole.
LEMMA NextWhole ==
  ASSUME Typed, Owned, WholeItems, [Next]_vars
  PROVE  WholeItems'
<1>1. ASSUME NEW c \in Clients, Publish(c) PROVE WholeItems'
  <2>1. tmp[op[c].token] = Parts
    BY <1>1 DEF Publish, Owned, Staged
  <2> QED BY <1>1, <2>1 DEF Publish, WholeItems, Typed, TypeOK
<1>2. ASSUME NEW c \in Clients, NEW t \in Tokens, Bury(c, t) PROVE WholeItems'
  <2>1. items' = [items EXCEPT ![op[c].id] = {}]
    BY <1>2 DEF Bury
  <2>2. items \in [Ids -> SUBSET Parts]
    BY Zenon DEF Typed, TypeOK
  <2> QED BY <2>1, <2>2 DEF WholeItems
<1>3. ASSUME NEW c \in Clients, Work(c), ~Publish(c), \A t \in Tokens : ~Bury(c, t)
      PROVE  items' = items
  BY <1>3, ZenonT(60) DEF Work, PutStep, OpenContent, Look, Match, WriteMeta, Unstaged, CheckTarget,
     PublishRefused, AnswerExisting, Clear, Sweep, BuryMissing, Erase, ReadNext, ReadContent,
     WriteProbe, Scrub, Return, Stop, RemoveTree
<1>4. ASSUME WholeItems, items' = items PROVE WholeItems'
  BY ONLY <1>4, Zenon DEF WholeItems
<1>5. ASSUME NEW c \in Clients, ~Work(c),
             \/ \E k \in ContentKeys, t \in Tokens : BeginPut(c, k, t)
             \/ \E i \in Ids : BeginDelete(c, i) \/ BeginGet(c, i)
             \/ \E t \in Tokens : BeginProbe(c, t)
             \/ BeginList(c) \/ BeginClean(c)
      PROVE  items' = items
  BY <1>5 DEF BeginPut, BeginDelete, BeginGet, BeginProbe, BeginList, BeginClean
<1>6. (UNCHANGED vars \/ \E t \in Tokens : Age(t)) => items' = items
  BY DEF vars, Age
<1> QED
  BY <1>1, <1>2, <1>3, <1>4, <1>5, <1>6 DEF Next

\* As long as every upload is over before its folder looks stale to anybody,
\* items/ never holds a part of an item.
THEOREM StoreWhole ==
  ASSUME Punctual
  PROVE  Spec => []WholeItems
<1> DEFINE Inv == Typed /\ Owned /\ WholeItems
<1>1. Init => Inv
  <2>1. Init => Owned /\ WholeItems
    BY DEF Init, Idle, Owned, Apart, Timely, Staged, AtWork, PutSteps, WholeItems
  <2> QED BY <2>1, InitTyped
<1>2. Inv /\ [Next]_vars => Inv'
  BY NextTyped, NextOwned, NextWhole
<1>3. Inv => WholeItems
  OBVIOUS
<1> HIDE DEF Inv
<1> QED BY <1>1, <1>2, <1>3, PTL DEF Spec

\* Under the same condition no clean-up takes the folder from under an upload.
THEOREM StoreKeepsFolders ==
  ASSUME Punctual
  PROVE  Spec => []UploadsKeepFolder
<1> DEFINE Inv == Typed /\ Owned
<1>1. Init => Inv
  <2>1. Init => Owned
    BY DEF Init, Idle, Owned, Apart, Timely, Staged, AtWork, PutSteps
  <2> QED BY <2>1, InitTyped
<1>2. Inv /\ [Next]_vars => Inv'
  BY NextTyped, NextOwned
<1>3. Inv => UploadsKeepFolder
  BY DEF Owned, Staged, UploadsKeepFolder, HasStaging, PutSteps, Parts
<1> HIDE DEF Inv
<1> QED BY <1>1, <1>2, <1>3, PTL DEF Spec

-----------------------------------------------------------------------------
(***************************************************************************)
(* Puts overlook nothing and listings are complete.  What an operation     *)
(* owes is in the store, and in the list it still works through or in what *)
(* it has; as items are whole, what is in the store can be read.           *)
(***************************************************************************)
Owes(o, there) ==
  /\ o.at \in {"open", "look"} => o.owed \subseteq {i \in there : i[2] = o.key}
  /\ o.at = "match" => o.owed \subseteq o.left \cap there
  /\ o.at \in {"check", "publish"} => o.owed = {}
  /\ o.at = "read" => o.owed \subseteq (o.left \cup o.got) \cap there

Reckoned == \A c \in Clients : Owes(op[c], Published)

\* A step of one client after which no item is missing that was there.
LEMMA ReckonedKeep ==
  ASSUME Typed, Reckoned, NEW c \in Clients, NEW o, Set(c, o),
         Published \subseteq Published', Owes(o, Published')
  PROVE  Reckoned'
<1>1. op' = [op EXCEPT ![c] = o] /\ op \in [Clients -> Ops]
  BY DEF Set, Typed, TypeOK
<1>2. \A d \in Clients : Owes(op'[d], Published')
  BY <1>1 DEF Reckoned, Owes
<1> QED
  BY <1>2 DEF Reckoned

LEMMA SamePublished == items' = items => Published' = Published
BY DEF Published

LEMMA WholeReadable == WholeItems => Readable = Published
BY DEF WholeItems, Readable, Published, Parts

LEMMA PutReckoned ==
  ASSUME Typed, Reckoned, WholeItems, NEW c \in Clients, PutStep(c)
  PROVE  Reckoned'
<1>k. op[c] \in Ops /\ Knows(op[c]) /\ Owes(op[c], Published) /\ items \in [Ids -> SUBSET Parts]
  BY DEF Typed, TypeOK, Reckoned
<1>w. Readable = Published
  BY WholeReadable
<1>1. CASE OpenContent(c)
  <2> DEFINE o == [op[c] EXCEPT !.at = "look"]
  <2>1. Set(c, o) /\ Owes(o, Published) /\ Published' = Published
    BY <1>1, <1>k, SamePublished DEF OpenContent, Goto, Answer, Owes, Ops
  <2> HIDE DEF o
  <2> QED BY <2>1, ReckonedKeep
<1>2. CASE Look(c)
  <2> DEFINE o == [op[c] EXCEPT !.at = "match", !.left = OfKey(op[c].key)]
  <2>1. Set(c, o) /\ Owes(o, Published) /\ Published' = Published
    BY <1>2, <1>k, SamePublished DEF Look, Goto, Answer, Owes, Ops, OfKey
  <2> HIDE DEF o
  <2> QED BY <2>1, ReckonedKeep
<1>3. CASE Match(c)
  <2>1. PICK i \in op[c].left : Set(c, IF i \in Readable
           THEN [op[c] EXCEPT !.at = "clear", !.answer = "existing", !.id = i, !.left = {}]
           ELSE [op[c] EXCEPT !.left = @ \ {i}])
    BY <1>3 DEF Match
  <2> DEFINE o == IF i \in Readable
           THEN [op[c] EXCEPT !.at = "clear", !.answer = "existing", !.id = i, !.left = {}]
           ELSE [op[c] EXCEPT !.left = @ \ {i}]
  <2>2. Owes(o, Published)
    BY <1>3, <1>k, <1>w DEF Match, Owes, Ops
  <2>3. Set(c, o) /\ Published' = Published
    BY <1>3, <2>1, SamePublished DEF Match
  <2> HIDE DEF o
  <2> QED BY <2>2, <2>3, ReckonedKeep
<1>4. ASSUME NEW time \in Times, WriteMeta(c, time) PROVE Reckoned'
  <2> DEFINE o == [op[c] EXCEPT !.at = "check", !.id = <<time, op[c].key>>]
  <2>1. Set(c, o) /\ Owes(o, Published) /\ Published' = Published
    BY <1>4, <1>k, SamePublished DEF WriteMeta, Goto, Answer, Owes, Ops
  <2> HIDE DEF o
  <2> QED BY <2>1, ReckonedKeep
<1>5. CASE Unstaged(c)
  <2> DEFINE o == [op[c] EXCEPT !.at = "clear", !.answer = "failed"]
  <2>1. Set(c, o) /\ Owes(o, Published) /\ Published' = Published
    BY <1>5, <1>k, SamePublished DEF Unstaged, Goto, Answer, Owes, Ops
  <2> HIDE DEF o
  <2> QED BY <2>1, ReckonedKeep
<1>6. CASE CheckTarget(c)
  <2> DEFINE o == [op[c] EXCEPT !.at = IF op[c].id \in Published THEN "exists" ELSE "publish"]
  <2>1. Set(c, o) /\ Owes(o, Published) /\ Published' = Published
    BY <1>6, <1>k, SamePublished DEF CheckTarget, Goto, Answer, Owes, Ops
  <2> HIDE DEF o
  <2> QED BY <2>1, ReckonedKeep
<1>7. CASE Publish(c)
  <2> DEFINE o == [op[c] EXCEPT !.at = "clear", !.answer = "created"]
  <2>1. Set(c, o) /\ Owes(o, Published')
    BY <1>7, <1>k DEF Publish, Answer, Owes, Ops
  <2>2. Published \subseteq Published'
    BY <1>7, <1>k DEF Publish, Published, HasStaging
  <2> HIDE DEF o
  <2> QED BY <2>1, <2>2, ReckonedKeep
<1>8. CASE PublishRefused(c)
  <2> DEFINE o == [op[c] EXCEPT !.at = "clear", !.answer = "failed"]
  <2>1. Set(c, o) /\ Owes(o, Published) /\ Published' = Published
    BY <1>8, <1>k, SamePublished DEF PublishRefused, Goto, Answer, Owes, Ops
  <2> HIDE DEF o
  <2> QED BY <2>1, ReckonedKeep
<1>9. CASE AnswerExisting(c)
  <2> DEFINE o == [op[c] EXCEPT !.at = "clear",
                     !.answer = IF op[c].id \in Readable THEN "existing" ELSE "failed"]
  <2>1. Set(c, o) /\ Owes(o, Published) /\ Published' = Published
    BY <1>9, <1>k, SamePublished DEF AnswerExisting, Goto, Answer, Owes, Ops
  <2> HIDE DEF o
  <2> QED BY <2>1, ReckonedKeep
<1>10. CASE Clear(c)
  <2>1. Published' = Published
    BY <1>10, SamePublished DEF Clear, RemoveTree
  <2>2. Set(c, Idle) \/ UNCHANGED op
    BY <1>10 DEF Clear, RemoveTree
  <2>3. Owes(Idle, Published')
    BY DEF Owes, Idle
  <2>4. CASE UNCHANGED op
    BY <2>1, <2>4 DEF Reckoned
  <2> QED BY <2>1, <2>2, <2>3, <2>4, ReckonedKeep
<1> QED
  BY <1>1, <1>2, <1>3, <1>4, <1>5, <1>6, <1>7, <1>8, <1>9, <1>10 DEF PutStep

LEMMA WorkReckoned ==
  ASSUME Typed, Reckoned, WholeItems, NEW c \in Clients, Work(c)
  PROVE  Reckoned'
<1>k. op[c] \in Ops /\ Knows(op[c]) /\ Owes(op[c], Published) /\ items \in [Ids -> SUBSET Parts]
  BY DEF Typed, TypeOK, Reckoned
<1>w. Readable = Published
  BY WholeReadable
<1>i. \A there : Owes(Idle, there)
  BY DEF Owes, Idle
<1>1. CASE PutStep(c)
  BY <1>1, PutReckoned
<1>2. ASSUME NEW t \in Tokens, Bury(c, t) PROVE Reckoned'
  <2>1. Published' = Published \ {op[c].id}
    BY <1>2, <1>k DEF Bury, Published
  <2>2. Owes(op'[c], Published')
    BY <1>2, <1>k DEF Bury, Owes, Ops
  <2>3. \A d \in Clients : d # c => Owes(op'[d], Published')
    <3> SUFFICES ASSUME NEW d \in Clients, d # c PROVE Owes(op'[d], Published')
      OBVIOUS
    <3>1. op'[d] = [op[d] EXCEPT !.owed = @ \ {op[c].id}] /\ op[d] \in Ops
      BY <1>2 DEF Bury, Typed, TypeOK
    <3>2. Owes(op[d], Published)
      BY DEF Reckoned
    <3> QED BY <2>1, <3>1, <3>2 DEF Owes, Ops
  <2> QED BY <2>2, <2>3 DEF Reckoned
<1>3. ASSUME NEW t \in Tokens, Sweep(c, t) PROVE Reckoned'
  <2> DEFINE o == IF t \in stale /\ tmp[t] # {}
              THEN [op[c] EXCEPT !.left = @ \ {t}, !.at = "scrub", !.token = t]
              ELSE [op[c] EXCEPT !.left = @ \ {t}]
  <2>1. Set(c, o) /\ Owes(o, Published) /\ Published' = Published
    BY <1>3, <1>k, SamePublished DEF Sweep, Owes, Ops
  <2> HIDE DEF o
  <2> QED BY <2>1, ReckonedKeep
<1>4. CASE BuryMissing(c) \/ Return(c) \/ Stop(c)
  <2>1. Set(c, Idle) /\ Published' = Published
    BY <1>4, SamePublished DEF BuryMissing, Return, Stop, End
  <2> QED BY <2>1, <1>i, ReckonedKeep
<1>5. CASE Erase(c)
  <2>1. Published' = Published /\ (Set(c, Idle) \/ UNCHANGED op)
    BY <1>5, SamePublished DEF Erase, RemoveTree
  <2> QED BY <2>1, <1>i, ReckonedKeep DEF Reckoned
<1>6. CASE ReadNext(c)
  <2>1. PICK i \in op[c].left :
          Set(c, [op[c] EXCEPT !.left = @ \ {i}, !.got = @ \cup ({i} \cap Readable)])
    BY <1>6 DEF ReadNext
  <2> DEFINE o == [op[c] EXCEPT !.left = @ \ {i}, !.got = @ \cup ({i} \cap Readable)]
  <2>2. Owes(o, Published)
    BY <1>6, <1>k, <1>w DEF ReadNext, Owes, Ops
  <2>3. Set(c, o) /\ Published' = Published
    BY <1>6, <2>1, SamePublished DEF ReadNext
  <2> HIDE DEF o
  <2> QED BY <2>2, <2>3, ReckonedKeep
<1>7. CASE ReadContent(c)
  <2> DEFINE o == [op[c] EXCEPT !.at = "return",
                !.answer = IF "content" \in items[op[c].id] THEN "found" ELSE "corrupt"]
  <2>1. Set(c, o) /\ Owes(o, Published) /\ Published' = Published
    BY <1>7, <1>k, SamePublished DEF ReadContent, Answer, Owes, Ops
  <2> HIDE DEF o
  <2> QED BY <2>1, ReckonedKeep
<1>8. CASE WriteProbe(c)
  <2> DEFINE o == [op[c] EXCEPT !.at = "clear", !.answer = "done"]
  <2>1. Set(c, o) /\ Owes(o, Published) /\ Published' = Published
    BY <1>8, <1>k, SamePublished DEF WriteProbe, Answer, Owes, Ops
  <2> HIDE DEF o
  <2> QED BY <2>1, ReckonedKeep
<1>9. CASE Scrub(c)
  <2> DEFINE o == [op[c] EXCEPT !.at = "sweep", !.token = Nothing]
  <2>1. Published' = Published /\ (Set(c, o) \/ UNCHANGED op)
    BY <1>9, SamePublished DEF Scrub, RemoveTree
  <2>2. Owes(o, Published)
    BY <1>k DEF Owes, Ops
  <2> HIDE DEF o
  <2> QED BY <2>1, <2>2, ReckonedKeep DEF Reckoned
<1> QED
  BY <1>1, <1>2, <1>3, <1>4, <1>5, <1>6, <1>7, <1>8, <1>9 DEF Work

LEMMA BeginReckoned ==
  ASSUME Typed, Reckoned, NEW c \in Clients,
         \/ \E k \in ContentKeys, t \in Tokens : BeginPut(c, k, t)
         \/ \E i \in Ids : BeginDelete(c, i) \/ BeginGet(c, i)
         \/ \E t \in Tokens : BeginProbe(c, t)
         \/ BeginList(c) \/ BeginClean(c)
  PROVE  Reckoned'
<1>1. ASSUME NEW k \in ContentKeys, NEW t \in Tokens, BeginPut(c, k, t) PROVE Reckoned'
  <2> DEFINE o == [Idle EXCEPT !.at = "open", !.key = k, !.token = t, !.owed = OfKey(k)]
  <2>1. Set(c, o) /\ Owes(o, Published) /\ Published' = Published
    BY <1>1, SamePublished DEF BeginPut, Idle, Owes, OfKey
  <2> HIDE DEF o
  <2> QED BY <2>1, ReckonedKeep
<1>2. ASSUME NEW i \in Ids, BeginDelete(c, i) PROVE Reckoned'
  <2> DEFINE o == [Idle EXCEPT !.at = "bury", !.id = i]
  <2>1. Set(c, o) /\ Owes(o, Published) /\ Published' = Published
    BY <1>2, SamePublished DEF BeginDelete, Idle, Owes
  <2> HIDE DEF o
  <2> QED BY <2>1, ReckonedKeep
<1>3. ASSUME NEW i \in Ids, BeginGet(c, i) PROVE Reckoned'
  <2> DEFINE o == [Idle EXCEPT !.at = "content", !.id = i]
  <2>1. Set(c, o) /\ Owes(o, Published) /\ Published' = Published
    BY <1>3, SamePublished DEF BeginGet, Idle, Owes
  <2> HIDE DEF o
  <2> QED BY <2>1, ReckonedKeep
<1>4. ASSUME NEW t \in Tokens, BeginProbe(c, t) PROVE Reckoned'
  <2> DEFINE o == [Idle EXCEPT !.at = "probe", !.token = t]
  <2>1. Set(c, o) /\ Owes(o, Published) /\ Published' = Published
    BY <1>4, SamePublished DEF BeginProbe, Idle, Owes
  <2> HIDE DEF o
  <2> QED BY <2>1, ReckonedKeep
<1>5. CASE BeginList(c)
  <2> DEFINE o == [Idle EXCEPT !.at = "read", !.left = Published, !.owed = Published]
  <2>1. Set(c, o) /\ Owes(o, Published) /\ Published' = Published
    BY <1>5, SamePublished DEF BeginList, Idle, Owes
  <2> HIDE DEF o
  <2> QED BY <2>1, ReckonedKeep
<1>6. CASE BeginClean(c)
  <2> DEFINE o == [Idle EXCEPT !.at = "sweep", !.left = {t \in Tokens : tmp[t] # {}}]
  <2>1. Set(c, o) /\ Owes(o, Published) /\ Published' = Published
    BY <1>6, SamePublished DEF BeginClean, Idle, Owes
  <2> HIDE DEF o
  <2> QED BY <2>1, ReckonedKeep
<1> QED
  BY <1>1, <1>2, <1>3, <1>4, <1>5, <1>6

LEMMA NextReckoned ==
  ASSUME Typed, Reckoned, WholeItems, [Next]_vars
  PROVE  Reckoned'
<1>1. CASE UNCHANGED vars \/ \E t \in Tokens : Age(t)
  BY <1>1, SamePublished DEF vars, Age, Reckoned
<1> QED
  BY <1>1, WorkReckoned, BeginReckoned DEF Next

\* A put that goes on to publish overlooked no item with its content that stayed
\* in the store, and a listing has every item that stayed.
THEOREM StoreAccounts ==
  ASSUME Punctual
  PROVE  Spec => [](Deduplicates /\ ListsAll)
<1>1. Init => Reckoned
  BY DEF Init, Idle, Reckoned, Owes
<1>2. Typed /\ WholeItems /\ Reckoned /\ [Next]_vars => Reckoned'
  BY NextReckoned
<1>3. Reckoned => Deduplicates /\ ListsAll
  BY DEF Reckoned, Owes, Deduplicates, ListsAll
<1> QED BY <1>1, <1>2, <1>3, TypedInvariant, StoreWhole, PTL DEF Spec

-----------------------------------------------------------------------------
(***************************************************************************)
(* The store implements ItemStore.  A step changes the call of one client  *)
(* at most; the renames are the moments at which puts and deletes happen.  *)
(***************************************************************************)
Quiet == UNCHANGED <<Published, Calls>>
AbstractStep == Abstract!ItemNext \/ Quiet

LEMMA SetCall ==
  ASSUME Typed, NEW c \in Clients, NEW o, Set(c, o)
  PROVE  Calls' = [Calls EXCEPT ![c] = CallOf(o)] /\ Calls[c] = CallOf(op[c])
<1>1. op' = [op EXCEPT ![c] = o] /\ op \in [Clients -> Ops]
  BY DEF Set, Typed, TypeOK
<1>2. Calls' = [d \in Clients |-> CallOf(op'[d])]
  BY DEF Calls, CallOf
<1> QED BY <1>1, <1>2 DEF Calls

\* A step that leaves items/ and the call as it is, as its caller sees it.
LEMMA QuietStep ==
  ASSUME Typed, NEW c \in Clients, NEW o, Set(c, o), items' = items, CallOf(o) = CallOf(op[c])
  PROVE  Quiet
BY SetCall, SamePublished, ZenonT(60) DEF Calls, Quiet

\* A step by which the call ends, or by which it has failed.
LEMMA EndStep ==
  ASSUME Typed, NEW c \in Clients, Set(c, Idle), items' = items
  PROVE  AbstractStep
<1>1. CallOf(Idle) = Abstract!None
  BY DEF CallOf, Idle, PutSteps, Abstract!None
<1>2. CASE CallOf(op[c]) = Abstract!None
  BY <1>1, <1>2, QuietStep DEF AbstractStep
<1>3. CASE CallOf(op[c]) # Abstract!None
  <2>1. Abstract!Done(c)
    BY <1>1, <1>3, SetCall, SamePublished DEF Abstract!Done, Calls
  <2> QED BY <2>1 DEF AbstractStep, Abstract!ItemNext
<1> QED BY <1>2, <1>3

LEMMA FailStep ==
  ASSUME Typed, NEW c \in Clients, op[c].at \in Staging, items' = items,
         Set(c, [op[c] EXCEPT !.at = "clear", !.answer = "failed"])
  PROVE  AbstractStep
<1>1. op[c] \in Ops /\ Knows(op[c])
  BY DEF Typed, TypeOK
<1>2. Calls[c] = [op |-> "put", about |-> op[c].key, answer |-> Nothing]
  BY <1>1, NothingAssumption DEF Calls, CallOf, Knows, Staging, PutSteps
<1>3. CallOf([op[c] EXCEPT !.at = "clear", !.answer = "failed"])
        = [op |-> "put", about |-> op[c].key, answer |-> "failed"]
  BY <1>1, NothingAssumption DEF CallOf, Knows, Staging, PutSteps, Ops
<1>4. Abstract!Fail(c)
  BY <1>2, <1>3, SetCall, SamePublished DEF Abstract!Fail, Abstract!Answered, Calls
<1> QED BY <1>4 DEF AbstractStep, Abstract!ItemNext

LEMMA AnswerCall ==
  ASSUME Typed, NEW c \in Clients, NEW p, NEW a, NEW w,
         Calls[c] = [op |-> p, about |-> a, answer |-> Nothing],
         Calls' = [Calls EXCEPT ![c] = [op |-> p, about |-> a, answer |-> w]]
  PROVE  Abstract!Answered(c, w)
<1>1. [Calls[c] EXCEPT !.answer = w] = [op |-> p, about |-> a, answer |-> w]
  OBVIOUS
<1>2. Calls' = [Calls EXCEPT ![c] = [Calls[c] EXCEPT !.answer = w]]
  BY <1>1
<1> QED BY <1>2 DEF Abstract!Answered

\* A put answered with an item that can be read finds it.
LEMMA FindStep ==
  ASSUME Typed, NEW c \in Clients, op[c].at \in Staging, items' = items,
         NEW i \in Readable, i[2] = op[c].key, NEW o \in Ops, Set(c, o),
         o.at = "clear", o.key = op[c].key, o.answer = "existing"
  PROVE  AbstractStep
<1>1. op[c] \in Ops /\ Knows(op[c])
  BY DEF Typed, TypeOK
<1>2. Calls[c] = [op |-> "put", about |-> op[c].key, answer |-> Nothing]
  BY <1>1, NothingAssumption DEF Calls, CallOf, Knows, Staging, PutSteps
<1>3. CallOf(o) = [op |-> "put", about |-> op[c].key, answer |-> "existing"]
  BY <1>1, NothingAssumption DEF CallOf, Knows, Staging, PutSteps
<1>4. i \in Published
  BY DEF Published, Readable
<1>5. Abstract!Find(c)
  BY <1>2, <1>3, <1>4, SetCall, SamePublished
     DEF Abstract!Find, Abstract!Waits, Abstract!Answered, Calls
<1> QED BY <1>5 DEF AbstractStep, Abstract!ItemNext

LEMMA PublishStep ==
  ASSUME Typed, NEW c \in Clients, Publish(c)
  PROVE  AbstractStep
<1> DEFINE o == [op[c] EXCEPT !.at = "clear", !.answer = "created"]
<1>1. op[c] \in Ops /\ Knows(op[c]) /\ op[c].at = "publish" /\ items \in [Ids -> SUBSET Parts]
  BY DEF Typed, TypeOK, Publish
<1>2. Calls[c] = [op |-> "put", about |-> op[c].key, answer |-> Nothing]
  BY <1>1, NothingAssumption DEF Calls, CallOf, Knows, Staging, PutSteps
<1>3. CallOf(o) = [op |-> "put", about |-> op[c].key, answer |-> "created"]
  BY <1>1, NothingAssumption DEF CallOf, Knows, Staging, PutSteps, Ops
<1>4. Set(c, o)
  BY DEF Publish, Answer
<1>5. /\ op[c].id \in Ids \ Published
      /\ op[c].id[2] = op[c].key
      /\ Published' = Published \cup {op[c].id}
  BY <1>1 DEF Publish, Published, HasStaging, Knows
<1> HIDE DEF o
<1>6. Calls' = [Calls EXCEPT ![c] = [op |-> "put", about |-> op[c].key, answer |-> "created"]]
  BY <1>3, <1>4, SetCall
<1>7. Abstract!Create(c)
  <2>1. Abstract!Answered(c, "created")
    BY <1>2, <1>6, AnswerCall
  <2> QED BY <1>2, <1>5, <2>1 DEF Abstract!Create, Abstract!Waits, Abstract!Ids, Ids
<1> QED BY <1>7 DEF AbstractStep, Abstract!ItemNext

LEMMA BuryStep ==
  ASSUME Typed, NEW c \in Clients, NEW t \in Tokens, Bury(c, t)
  PROVE  AbstractStep
<1>1. op[c] \in Ops /\ Knows(op[c]) /\ op[c].at = "bury" /\ items \in [Ids -> SUBSET Parts]
  BY DEF Typed, TypeOK, Bury
<1>2. Calls[c] = [op |-> "delete", about |-> op[c].id, answer |-> Nothing]
  BY <1>1 DEF Calls, CallOf, Knows, PutSteps
<1>3. \A d \in Clients : CallOf(op'[d]) =
        IF d = c THEN [op |-> "delete", about |-> op[c].id, answer |-> "removed"] ELSE CallOf(op[d])
  <2>1. CallOf(op'[c]) = [op |-> "delete", about |-> op[c].id, answer |-> "removed"]
    BY <1>1 DEF Bury, CallOf, PutSteps, Ops
  <2>2. ASSUME NEW d \in Clients, d # c PROVE CallOf(op'[d]) = CallOf(op[d])
    BY <2>2 DEF Bury, CallOf, Ops, Typed, TypeOK
  <2> QED BY <2>1, <2>2
<1>4. Calls' = [Calls EXCEPT ![c] = [op |-> "delete", about |-> op[c].id, answer |-> "removed"]]
  <2>1. Calls' = [d \in Clients |-> CallOf(op'[d])]
    BY DEF Calls, CallOf
  <2> QED BY <2>1, <1>3 DEF Calls
<1>5. op[c].id \in Published /\ Published' = Published \ {op[c].id}
  BY <1>1 DEF Bury, Published
<1>6. Abstract!Remove(c)
  <2>1. Abstract!Answered(c, "removed")
    BY <1>2, <1>4, AnswerCall
  <2> QED BY <1>2, <1>5, <2>1 DEF Abstract!Remove, Abstract!Waits
<1> QED BY <1>6 DEF AbstractStep, Abstract!ItemNext

LEMMA QuietTree ==
  ASSUME Typed, NEW c \in Clients, RemoveTree(c, Idle)
  PROVE  AbstractStep
<1>1. CASE Set(c, Idle) /\ items' = items
  BY <1>1, EndStep
<1>2. CASE UNCHANGED op /\ items' = items
  BY <1>2, SamePublished DEF AbstractStep, Quiet, Calls, CallOf
<1> QED BY <1>1, <1>2 DEF RemoveTree

LEMMA PutMaps ==
  ASSUME Typed, NEW c \in Clients, PutStep(c)
  PROVE  AbstractStep
<1>k. op[c] \in Ops /\ Knows(op[c])
  BY DEF Typed, TypeOK
<1>1. CASE OpenContent(c)
  <2> DEFINE o == [op[c] EXCEPT !.at = "look"]
  <2>1. Set(c, o) /\ items' = items
    BY <1>1 DEF OpenContent, Goto, Answer
  <2>2. CallOf(o) = CallOf(op[c])
    BY <1>1, <1>k, NothingAssumption DEF OpenContent, CallOf, Knows, Ops, PutSteps, Staging
  <2> HIDE DEF o
  <2> QED BY <2>1, <2>2, QuietStep DEF AbstractStep
<1>2. CASE Look(c)
  <2> DEFINE o == [op[c] EXCEPT !.at = "match", !.left = OfKey(op[c].key)]
  <2>1. Set(c, o) /\ items' = items
    BY <1>2 DEF Look, Goto, Answer
  <2>2. CallOf(o) = CallOf(op[c])
    BY <1>2, <1>k, NothingAssumption DEF Look, CallOf, Knows, Ops, PutSteps, Staging
  <2> HIDE DEF o
  <2> QED BY <2>1, <2>2, QuietStep DEF AbstractStep
<1>3. CASE Match(c)
  <2>1. PICK i \in op[c].left : Set(c, IF i \in Readable
           THEN [op[c] EXCEPT !.at = "clear", !.answer = "existing", !.id = i, !.left = {}]
           ELSE [op[c] EXCEPT !.left = @ \ {i}])
    BY <1>3 DEF Match
  <2>2. items' = items /\ op[c].at = "match" /\ i[2] = op[c].key
    BY <1>3, <1>k DEF Match, Knows
  <2>3. CASE i \in Readable
    <3> DEFINE o == [op[c] EXCEPT !.at = "clear", !.answer = "existing", !.id = i, !.left = {}]
    <3>1. o \in Ops /\ o.at = "clear" /\ o.key = op[c].key /\ o.answer = "existing" /\ Set(c, o)
      BY <1>k, <2>1, <2>3 DEF Ops, Steps, PutSteps, Answers, Readable
    <3> HIDE DEF o
    <3> QED BY <2>2, <2>3, <3>1, FindStep DEF Staging
  <2>4. CASE i \notin Readable
    <3> DEFINE o == [op[c] EXCEPT !.left = @ \ {i}]
    <3>1. Set(c, o)
      BY <2>1, <2>4
    <3>2. CallOf(o) = CallOf(op[c])
      BY <1>k DEF CallOf, Ops
    <3> HIDE DEF o
    <3> QED BY <2>2, <3>1, <3>2, QuietStep DEF AbstractStep
  <2> QED BY <2>3, <2>4
<1>4. ASSUME NEW time \in Times, WriteMeta(c, time) PROVE AbstractStep
  <2> DEFINE o == [op[c] EXCEPT !.at = "check", !.id = <<time, op[c].key>>]
  <2>1. Set(c, o) /\ items' = items
    BY <1>4 DEF WriteMeta, Goto, Answer
  <2>2. CallOf(o) = CallOf(op[c])
    BY <1>4, <1>k, NothingAssumption DEF WriteMeta, CallOf, Knows, Ops, PutSteps, Staging
  <2> HIDE DEF o
  <2> QED BY <2>1, <2>2, QuietStep DEF AbstractStep
<1>5. CASE Unstaged(c)
  <2> DEFINE o == [op[c] EXCEPT !.at = "clear", !.answer = "failed"]
  <2>1. Set(c, o) /\ items' = items
    BY <1>5 DEF Unstaged, Answer
  <2>2. CASE op[c].at \in Staging
    BY <2>1, <2>2, FailStep
  <2>3. CASE op[c].at = "probe"
    <3>1. CallOf(o) = CallOf(op[c])
      BY <1>k, <2>3 DEF CallOf, Knows, Ops, PutSteps
    <3> HIDE DEF o
    <3> QED BY <2>1, <3>1, QuietStep DEF AbstractStep
  <2> QED BY <1>5, <2>2, <2>3 DEF Unstaged, Staging
<1>6. CASE CheckTarget(c)
  <2> DEFINE o == [op[c] EXCEPT !.at = IF op[c].id \in Published THEN "exists" ELSE "publish"]
  <2>1. Set(c, o) /\ items' = items
    BY <1>6 DEF CheckTarget, Goto, Answer
  <2>2. CallOf(o) = CallOf(op[c])
    BY <1>6, <1>k, NothingAssumption DEF CheckTarget, CallOf, Knows, Ops, PutSteps, Staging
  <2> HIDE DEF o
  <2> QED BY <2>1, <2>2, QuietStep DEF AbstractStep
<1>7. CASE Publish(c)
  BY <1>7, PublishStep
<1>8. CASE PublishRefused(c)
  BY <1>8, FailStep DEF PublishRefused, Answer, Staging
<1>9. CASE AnswerExisting(c)
  <2>1. CASE op[c].id \in Readable
    <3> DEFINE o == [op[c] EXCEPT !.at = "clear", !.answer = "existing"]
    <3>1. o \in Ops /\ o.at = "clear" /\ o.key = op[c].key /\ o.answer = "existing" /\ Set(c, o)
      BY <1>9, <1>k, <2>1 DEF AnswerExisting, Answer, Ops, Steps, PutSteps, Answers
    <3>2. items' = items /\ op[c].at \in Staging /\ op[c].id[2] = op[c].key
      BY <1>9, <1>k DEF AnswerExisting, Knows, Staging
    <3> HIDE DEF o
    <3> QED BY <2>1, <3>1, <3>2, FindStep
  <2>2. CASE op[c].id \notin Readable
    BY <1>9, <2>2, FailStep DEF AnswerExisting, Answer, Staging
  <2> QED BY <2>1, <2>2
<1>10. CASE Clear(c)
  BY <1>10, QuietTree DEF Clear
<1> QED
  BY <1>1, <1>2, <1>3, <1>4, <1>5, <1>6, <1>7, <1>8, <1>9, <1>10 DEF PutStep

LEMMA WorkMaps ==
  ASSUME Typed, NEW c \in Clients, Work(c)
  PROVE  AbstractStep
<1>k. op[c] \in Ops /\ Knows(op[c])
  BY DEF Typed, TypeOK
<1>1. CASE PutStep(c)
  BY <1>1, PutMaps
<1>2. ASSUME NEW t \in Tokens, Bury(c, t) PROVE AbstractStep
  BY <1>2, BuryStep
<1>3. ASSUME NEW t \in Tokens, Sweep(c, t) PROVE AbstractStep
  <2> DEFINE o == IF t \in stale /\ tmp[t] # {}
              THEN [op[c] EXCEPT !.left = @ \ {t}, !.at = "scrub", !.token = t]
              ELSE [op[c] EXCEPT !.left = @ \ {t}]
  <2>1. Set(c, o) /\ items' = items
    BY <1>3 DEF Sweep, Goto, Answer
  <2>2. CallOf(o) = CallOf(op[c])
    BY <1>3, <1>k, NothingAssumption DEF Sweep, CallOf, Knows, Ops, PutSteps, Staging
  <2> HIDE DEF o
  <2> QED BY <2>1, <2>2, QuietStep DEF AbstractStep
<1>4. CASE BuryMissing(c) \/ Return(c) \/ Stop(c)
  BY <1>4, EndStep DEF BuryMissing, Return, Stop, End
<1>5. CASE Erase(c)
  BY <1>5, QuietTree DEF Erase
<1>6. CASE ReadNext(c)
  <2>1. PICK i \in op[c].left :
          Set(c, [op[c] EXCEPT !.left = @ \ {i}, !.got = @ \cup ({i} \cap Readable)])
    BY <1>6 DEF ReadNext
  <2> DEFINE o == [op[c] EXCEPT !.left = @ \ {i}, !.got = @ \cup ({i} \cap Readable)]
  <2>2. CallOf(o) = CallOf(op[c]) /\ Set(c, o) /\ items' = items
    BY <1>6, <1>k, <2>1 DEF ReadNext, CallOf, Ops
  <2> HIDE DEF o
  <2> QED BY <2>2, QuietStep DEF AbstractStep
<1>7. CASE ReadContent(c)
  <2> DEFINE o == [op[c] EXCEPT !.at = "return",
                !.answer = IF "content" \in items[op[c].id] THEN "found" ELSE "corrupt"]
  <2>1. Set(c, o) /\ items' = items
    BY <1>7 DEF ReadContent, Goto, Answer
  <2>2. CallOf(o) = CallOf(op[c])
    BY <1>7, <1>k, NothingAssumption DEF ReadContent, CallOf, Knows, Ops, PutSteps, Staging
  <2> HIDE DEF o
  <2> QED BY <2>1, <2>2, QuietStep DEF AbstractStep
<1>8. CASE WriteProbe(c)
  <2> DEFINE o == [op[c] EXCEPT !.at = "clear", !.answer = "done"]
  <2>1. Set(c, o) /\ items' = items
    BY <1>8 DEF WriteProbe, Goto, Answer
  <2>2. CallOf(o) = CallOf(op[c])
    BY <1>8, <1>k, NothingAssumption DEF WriteProbe, CallOf, Knows, Ops, PutSteps, Staging
  <2> HIDE DEF o
  <2> QED BY <2>1, <2>2, QuietStep DEF AbstractStep
<1>9. CASE Scrub(c)
  <2> DEFINE o == [op[c] EXCEPT !.at = "sweep", !.token = Nothing]
  <2>1. CASE Set(c, o) /\ items' = items
    <3>1. CallOf(o) = CallOf(op[c])
      BY <1>9, <1>k DEF Scrub, CallOf, Ops, PutSteps
    <3> HIDE DEF o
    <3> QED BY <2>1, <3>1, QuietStep DEF AbstractStep
  <2>2. CASE UNCHANGED op /\ items' = items
    BY <2>2, SamePublished DEF AbstractStep, Quiet, Calls, CallOf
  <2> QED BY <1>9, <2>1, <2>2 DEF Scrub, RemoveTree
<1> QED
  BY <1>1, <1>2, <1>3, <1>4, <1>5, <1>6, <1>7, <1>8, <1>9 DEF Work

LEMMA BeginMaps ==
  ASSUME Typed, NEW c \in Clients,
         \/ \E k \in ContentKeys, t \in Tokens : BeginPut(c, k, t)
         \/ \E i \in Ids : BeginDelete(c, i) \/ BeginGet(c, i)
         \/ \E t \in Tokens : BeginProbe(c, t)
         \/ BeginList(c) \/ BeginClean(c)
  PROVE  AbstractStep
<1>1. ASSUME NEW k \in ContentKeys, NEW t \in Tokens, BeginPut(c, k, t) PROVE AbstractStep
  <2> DEFINE o == [Idle EXCEPT !.at = "open", !.key = k, !.token = t, !.owed = OfKey(k)]
  <2>1. Set(c, o) /\ items' = items /\ CallOf(op[c]) = Abstract!None
    BY <1>1 DEF BeginPut, Start, CallOf, PutSteps, Abstract!None
  <2>2. CallOf(o) = Abstract!Call("put", k)
    BY NothingAssumption DEF CallOf, Idle, PutSteps, Abstract!Call
  <2> HIDE DEF o
  <2>3. Abstract!AskPut(c, k)
    BY <2>1, <2>2, SetCall, SamePublished DEF Abstract!AskPut
  <2> QED BY <2>3 DEF AbstractStep, Abstract!ItemNext
<1>2. ASSUME NEW i \in Ids, BeginDelete(c, i) PROVE AbstractStep
  <2> DEFINE o == [Idle EXCEPT !.at = "bury", !.id = i]
  <2>1. Set(c, o) /\ items' = items /\ CallOf(op[c]) = Abstract!None
    BY <1>2 DEF BeginDelete, Start, CallOf, PutSteps, Abstract!None
  <2>2. CallOf(o) = Abstract!Call("delete", i)
    BY DEF CallOf, Idle, PutSteps, Abstract!Call
  <2> HIDE DEF o
  <2>3. Abstract!AskDelete(c, i)
    BY <2>1, <2>2, SetCall, SamePublished DEF Abstract!AskDelete
  <2> QED BY <2>3 DEF AbstractStep, Abstract!ItemNext, Abstract!Ids, Ids
<1>3. ASSUME NEW i \in Ids, BeginGet(c, i) PROVE AbstractStep
  <2> DEFINE o == [Idle EXCEPT !.at = "content", !.id = i]
  <2>1. Set(c, o) /\ items' = items
    BY <1>3 DEF BeginGet, Goto, Answer
  <2>2. CallOf(o) = CallOf(op[c])
    BY <1>3 DEF BeginGet, CallOf, Knows, Ops, PutSteps, Staging, Idle, Start
  <2> HIDE DEF o
  <2> QED BY <2>1, <2>2, QuietStep DEF AbstractStep
<1>4. ASSUME NEW t \in Tokens, BeginProbe(c, t) PROVE AbstractStep
  <2> DEFINE o == [Idle EXCEPT !.at = "probe", !.token = t]
  <2>1. Set(c, o) /\ items' = items
    BY <1>4 DEF BeginProbe, Goto, Answer
  <2>2. CallOf(o) = CallOf(op[c])
    BY <1>4 DEF BeginProbe, CallOf, Knows, Ops, PutSteps, Staging, Idle, Start
  <2> HIDE DEF o
  <2> QED BY <2>1, <2>2, QuietStep DEF AbstractStep
<1>5. CASE BeginList(c)
  <2> DEFINE o == [Idle EXCEPT !.at = "read", !.left = Published, !.owed = Published]
  <2>1. Set(c, o) /\ items' = items
    BY <1>5 DEF BeginList, Goto, Answer
  <2>2. CallOf(o) = CallOf(op[c])
    BY <1>5 DEF BeginList, CallOf, Knows, Ops, PutSteps, Staging, Idle, Start
  <2> HIDE DEF o
  <2> QED BY <2>1, <2>2, QuietStep DEF AbstractStep
<1>6. CASE BeginClean(c)
  <2> DEFINE o == [Idle EXCEPT !.at = "sweep", !.left = {t \in Tokens : tmp[t] # {}}]
  <2>1. Set(c, o) /\ items' = items
    BY <1>6 DEF BeginClean, Goto, Answer
  <2>2. CallOf(o) = CallOf(op[c])
    BY <1>6 DEF BeginClean, CallOf, Knows, Ops, PutSteps, Staging, Idle, Start
  <2> HIDE DEF o
  <2> QED BY <2>1, <2>2, QuietStep DEF AbstractStep
<1> QED
  BY <1>1, <1>2, <1>3, <1>4, <1>5, <1>6

LEMMA NextMaps ==
  ASSUME Typed, [Next]_vars
  PROVE  [Abstract!ItemNext]_<<Published, Calls>>
<1>1. CASE UNCHANGED vars \/ \E t \in Tokens : Age(t)
  BY <1>1, SamePublished DEF vars, Age, Calls, CallOf
<1>2. CASE \E c \in Clients :
             \/ Work(c)
             \/ \E k \in ContentKeys, t \in Tokens : BeginPut(c, k, t)
             \/ \E i \in Ids : BeginDelete(c, i) \/ BeginGet(c, i)
             \/ \E t \in Tokens : BeginProbe(c, t)
             \/ BeginList(c) \/ BeginClean(c)
  BY <1>2, WorkMaps, BeginMaps DEF AbstractStep, Quiet
<1> QED
  BY <1>1, <1>2 DEF Next

\* Whatever its clients do and wherever they stop, the store behaves as
\* ItemStore promises: every put and delete takes effect at one moment.
THEOREM StoreImplements == Spec => ImplementsItemStore
<1>1. Init => Abstract!ItemInit
  BY DEF Init, Idle, Abstract!ItemInit, Abstract!None, Published, Calls, CallOf, PutSteps
<1>2. Typed /\ [Next]_vars => [Abstract!ItemNext]_<<Published, Calls>>
  BY NextMaps
<1> QED
  BY <1>1, <1>2, TypedInvariant, PTL DEF Spec, ImplementsItemStore, Abstract!ItemSpec

===============================================================================
