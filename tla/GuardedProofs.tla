------------------------------ MODULE GuardedProofs ------------------------------
(***************************************************************************)
(* Devices beside the changes, for any number of them, of items and keys:  *)
(* what administrators know of the store (EncryptionChangeProofs) holds    *)
(* while devices send and delete, up to what a send on its way may leave   *)
(* out of place, and what devices were told of their items is true.        *)
(***************************************************************************)
EXTENDS GuardedStore, EncryptionChangeProofs

Ids == Items \X (Keys \cup {NoKey})
Id(d) == <<d.item, d.key>>

(***************************************************************************)
(* What a device does to the tree.                                         *)
(***************************************************************************)
\* An item is where a store between changes keeps it, or one whose words change.
Settles(i) ==
  \/ /\ plan = NoPlan
     /\ Whole(i, head["encryption"].key) \in held[ItemsOf(head["encryption"].key)]
  \/ /\ plan # NoPlan /\ plan.kind = "words"
     /\ Whole(i, plan.to) \in held["v2/items"]

\* The key of the copies in `v2/items/` that count.
InPlace ==
  IF plan = NoPlan THEN head["encryption"].key
  ELSE IF plan.kind = "rotate" /\ dir["source"] = "absent" THEN OldHeader.key ELSE plan.to

\* The two folders devices write change; what is to stay does, and what may be
\* out of place is told anew: T for S, M for L.
LEMMA Touched ==
  ASSUME NEW S, NEW T, NEW L, NEW M, NEW q, q = InPlace, KeptInv(S, L), Typed',
         UNCHANGED <<lock, plan, recovery, head, pc, job, used>>,
         \A f \in {"source", "plain/items"} : held'[f] = held[f] /\ dir'[f] = dir[f],
         Shut' = Shut, dir["items"] = "folder" => dir'["items"] = "folder",
         dir'["v2/items"] # "file",
         \A f \in {"items", "v2/items"} : dir'[f] # "folder" => held'[f] = {},
         PlainCopies("items")',
         \A i \in T : i \in S \/ Settles(i)',
         \A i \in T \cap S : Stored(i, "items") => Stored(i, "items")',
         \A i \in T \cap S : Whole(i, q) \in held["v2/items"] => Whole(i, q) \in held'["v2/items"],
         \A d \in held'["v2/items"] : \/ d \in held["v2/items"] /\ Id(d) \notin L
                                      \/ Id(d) \in M
                                      \/ ~lock /\ d.key = head["encryption"].key,
         plan.kind = "rotate" /\ OldHeader.key # plan.to =>
           \A d \in held["source"] : Id(d) \in L => Id(d) \in M \/ d.key = OldHeader.key,
         held["v2/items"] = {} /\ held'["v2/items"] # {} => Encrypted
  PROVE  KeptInv(T, M)'
<1> USE Shapes DEF KeptInv, Id
<1> DEFINE V == "v2/items"
<1>1. TreeSound' /\ HeadersMade'
  BY DEF StoreSound, TreeSound, PlainCopies, HeadersMade, Folders
<1>2. \A i \in T : Stored(i, "plain/items") => Stored(i, "plain/items")'
  BY DEF Stored
<1>3. ASSUME NEW k, SealedCopies(L, V, k), lock \/ k = head["encryption"].key PROVE SealedCopies(M, V, k)'
  BY <1>3 DEF SealedCopies
<1>4. ASSUME NEW k, k = q, Keeps(S, V, k), \A i \in T : i \notin S => Whole(i, k) \in held'[V] PROVE Keeps(T, V, k)'
  BY <1>2, <1>4 DEF Keeps, Stored
<1>5. lock \/ plan = NoPlan
  BY DEF StoreSound, JournalSound
<1>5a. plan # NoPlan /\ Committed(S, L) => q = plan.to
  BY DEF InPlace, OldHeader, Committed
<1>5b. plan # NoPlan /\ plan.kind = "words" => q = plan.to
  BY DEF InPlace
<1>5c. AtRest(S, L) /\ head["encryption"] # NoHeader => q = head["encryption"].key
  <2> SUFFICES ASSUME AtRest(S, L), head["encryption"] # NoHeader, plan # NoPlan PROVE q = head["encryption"].key
    BY DEF InPlace
  <2>1. Under(S, L)
    BY DEF StoreSound, JournalSound
  <2>2. CASE plan.kind = "words"
    BY <1>5b, <2>1, <2>2 DEF Under, WordsGoing, Opens, Places
  <2>3. CASE plan.kind \in {"set-up", "fresh-start"}
    BY <2>1, <2>3 DEF Under, SetUpGoing, Opens, InPlace
  <2>4. CASE plan.kind = "migrate"
    BY <1>5a, <2>1, <2>4 DEF Under, MigrateGoing, MigrateOpen, Committed
  <2>5. CASE plan.kind = "rotate"
    BY <2>5 DEF AtRest, SealedRest, InPlace, OldHeader
  <2>6. QED
    BY <2>2, <2>3, <2>4, <2>5 DEF Kinds, HeaderChanges, Rewrites
<1>6. ASSUME AtRest(S, L), plan = NoPlan \/ T \subseteq S \/ plan.kind = "words" PROVE AtRest(T, M)'
  <2>1. CASE head["encryption"] = NoHeader
    <3>1. PlainRest(S)
      BY <1>6, <2>1 DEF AtRest
    <3>2. held'[V] = {}
      <4>1. SUFFICES ASSUME held'[V] # {} PROVE FALSE
        OBVIOUS
      <4>2. Encrypted /\ plan # NoPlan
        BY <2>1, <3>1, <4>1 DEF PlainRest, Encrypted
      <4>3. plan.kind \in {"words", "rotate"}
        BY <4>2 DEF Encrypted, Kinds, HeaderChanges, Rewrites
      <4>4. Shut
        BY <4>2, <4>3 DEF StoreSound, JournalSound, Under, WordsGoing, SealedRest, RotateGoing, RotateOpen, Committed
      <4>5. QED
        BY <3>1, <4>4 DEF PlainRest
    <3>3. \A i \in T : Stored(i, "items")'
      <4>1. ASSUME NEW i \in T, i \notin S PROVE Stored(i, "items")'
        <5>1. plan # NoPlan /\ plan.kind = "words" => Shut
          BY DEF StoreSound, JournalSound, Under, WordsGoing, SealedRest
        <5>2. QED
          BY <1>6, <2>1, <3>1, <4>1, <5>1 DEF Settles, Stored, ItemsOf, PlainRest
      <4>2. QED
        BY <3>1, <4>1 DEF PlainRest
    <3>4. QED
      BY <2>1, <3>1, <3>2, <3>3 DEF AtRest, PlainRest, Shut
  <2>2. CASE head["encryption"] # NoHeader
    <3>1. PICK k : k = head["encryption"].key
      OBVIOUS
    <3>2. SealedRest(S, L, k) /\ k # NoKey
      BY <1>6, <2>2, <3>1 DEF AtRest, Places
    <3>3. \A i \in T : i \notin S => Whole(i, k) \in held'[V]
      <4>1. plan # NoPlan /\ plan.kind = "words" => plan.to = k
        BY <2>2, <3>1 DEF StoreSound, JournalSound, Under, WordsGoing, Opens, Places
      <4>2. QED
        BY <2>2, <3>1, <3>2, <4>1 DEF Settles, ItemsOf
    <3>4. SealedCopies(M, V, k)' /\ Keeps(T, V, k)'
      BY <1>3, <1>4, <1>6, <1>5c, <2>2, <3>1, <3>2, <3>3 DEF SealedRest
    <3>5. SealedRest(T, M, k)'
      BY <3>2, <3>4 DEF SealedRest
    <3>6. QED
      BY <2>2, <3>1, <3>5 DEF AtRest
  <2>3. QED
    BY <2>1, <2>2
<1>7. plan = NoPlan \/ plan.kind = "words" \/ T \subseteq S
  BY DEF Settles
<1>8. AtRest(S, L) => AtRest(T, M)'
  BY <1>6, <1>7
<1>9. \A i \in T : i \in S /\ Stored(i, "items") => Stored(i, "items")'
  OBVIOUS
<1>10. ASSUME plan # NoPlan, plan.kind \in {"set-up", "fresh-start", "migrate"}, held[V] = {} PROVE held'[V] = {}
  BY <1>10 DEF Encrypted
<1>11. ASSUME Committed(S, L), plan # NoPlan, plan.kind # "words" PROVE Committed(T, M)'
  <2>1. SealedCopies(M, V, plan.to)'
    BY <1>3, <1>5, <1>11 DEF Committed
  <2>2. Keeps(T, V, plan.to)'
    BY <1>4, <1>7, <1>11, <1>5a DEF Committed
  <2>3. QED
    BY <1>11, <2>1, <2>2 DEF Committed
<1>12. ASSUME plan # NoPlan, lock PROVE Under(T, M)'
  <2>1. ASSUME plan.kind = "words" PROVE WordsGoing(T, M)'
    <3>1. SealedRest(S, L, plan.to) /\ WordsGoing(S, L)
      BY <1>12, <2>1 DEF StoreSound, JournalSound, Under, WordsGoing
    <3>2. \A i \in T : i \notin S => Whole(i, plan.to) \in held'[V]
      BY <1>12 DEF Settles
    <3>3. SealedCopies(M, V, plan.to)' /\ Keeps(T, V, plan.to)'
      BY <1>3, <1>4, <1>12, <1>5b, <2>1, <3>1, <3>2 DEF SealedRest
    <3>4. SealedRest(T, M, plan.to)'
      BY <3>1, <3>3 DEF SealedRest
    <3>5. QED
      BY <3>1, <3>4 DEF WordsGoing, Opens
  <2>2. ASSUME plan.kind \in {"set-up", "fresh-start"} PROVE SetUpGoing(T)'
    <3>1. SetUpGoing(S) /\ T \subseteq S
      BY <1>7, <1>12, <2>2 DEF StoreSound, JournalSound, Under
    <3>2. \A i \in T : Stored(i, "items")' \/ Stored(i, "plain/items")'
      BY <1>2, <1>9, <3>1 DEF SetUpGoing
    <3>3. held'[V] = {}
      BY <1>10, <1>12, <2>2, <3>1 DEF SetUpGoing
    <3>4. QED
      BY <3>1, <3>2, <3>3 DEF SetUpGoing, Opens
  <2>3. ASSUME plan.kind = "migrate" PROVE MigrateGoing(T, M)'
    <3>1. MigrateGoing(S, L) /\ T \subseteq S
      BY <1>7, <1>12, <2>3 DEF StoreSound, JournalSound, Under
    <3>2. ASSUME MigrateOpen(S, L) PROVE MigrateOpen(T, M)'
      <4>1. SealedCopies(M, V, plan.to)'
        BY <1>3, <1>12, <3>2 DEF MigrateOpen
      <4>2. \A i \in T : Stored(i, "items")' \/ Stored(i, "source")'
        BY <1>9, <3>1, <3>2 DEF MigrateOpen, Stored
      <4>3. QED
        BY <3>2, <4>1, <4>2 DEF MigrateOpen, Opens, PlainCopies
    <3>3. QED
      BY <1>11, <1>12, <2>3, <3>1, <3>2 DEF MigrateGoing
  <2>4. ASSUME plan.kind = "rotate" PROVE RotateGoing(T, M)'
    <3>1. RotateGoing(S, L) /\ T \subseteq S
      BY <1>7, <1>12, <2>4 DEF StoreSound, JournalSound, Under
    <3>2. ASSUME RotateOpen(S, L) PROVE RotateOpen(T, M)'
      <4>1. OldHeader' = OldHeader
        BY DEF OldHeader
      <4>2. ASSUME dir["source"] = "absent"
            PROVE  SealedCopies(M, V, OldHeader.key)' /\ Keeps(T, V, OldHeader.key)'
        <5>1. SealedCopies(L, V, OldHeader.key) /\ Keeps(S, V, OldHeader.key)
          BY <3>2, <4>2 DEF RotateOpen
        <5>2. \A k : k = OldHeader.key => SealedCopies(M, V, k)' /\ Keeps(T, V, k)'
          <6>1. q = OldHeader.key
            BY <1>12, <2>4, <4>2 DEF InPlace
          <6>2. QED
            BY <1>3, <1>4, <1>12, <3>1, <5>1, <6>1
        <5>3. QED
          BY <4>1, <5>2 DEF SealedCopies, Keeps
      <4>3. ASSUME dir["source"] # "absent"
            PROVE  /\ SealedCopies(M, V, plan.to)'
                   /\ SealedCopies(M, "source", OldHeader.key)' /\ Keeps(T, "source", OldHeader.key)'
        <5>1. SealedCopies(L, V, plan.to) /\ SealedCopies(L, "source", OldHeader.key) /\ Keeps(S, "source", OldHeader.key)
              /\ OldHeader.key # plan.to
          BY <3>2, <4>3 DEF RotateOpen
        <5>2. SealedCopies(M, V, plan.to)'
          BY <1>3, <1>12, <5>1
        <5>3. SealedCopies(M, "source", OldHeader.key)'
          BY <2>4, <4>1, <5>1 DEF SealedCopies
        <5>4. Keeps(T, "source", OldHeader.key)'
          BY <1>2, <3>1, <4>1, <5>1 DEF Keeps, Stored
        <5>5. QED
          BY <5>2, <5>3, <5>4
      <4>4. QED
        BY <3>2, <4>1, <4>2, <4>3 DEF RotateOpen, Opens
    <3>3. QED
      BY <1>11, <1>12, <2>4, <3>1, <3>2 DEF RotateGoing
  <2>5. QED
    BY <2>1, <2>2, <2>3, <2>4 DEF Under
<1>13. StoreSound(T, M)'
  BY <1>1, <1>5, <1>8, <1>12 DEF StoreSound, JournalSound
<1>14. ASSUME NEW a \in Admins PROVE Knows(T, M, a)'
  <2>1. Ready(a)' /\ (Working(a) => lock)' /\ (pc[a] \in {"finish", "undo"} => job[a].mode = pc[a])'
    BY DEF Knows, Ready, Fits, Working
  <2>2. Going(T, M, a)'
    <3>1. ASSUME pc[a] \in {"install", "swap"}, plan.kind \in Rewrites, plan # NoPlan
          PROVE  Keeps(T, V, plan.to)'
      <4>1. Keeps(S, V, plan.to) /\ T \subseteq S
        BY <1>7, <3>1 DEF Knows, Going, Forward, Rewrites
      <4>2. q = plan.to
        BY <3>1 DEF Knows, Going, Forward, InPlace
      <4>3. QED
        BY <1>4, <4>1, <4>2
    <3>2. ASSUME pc[a] = "clean", plan # NoPlan PROVE Committed(T, M)'
      BY <1>11, <3>2 DEF Knows, Going, Forward, Rewrites
    <3>3. QED
      BY <3>1, <3>2 DEF Knows, Going
  <2>3. Undoing(a)'
    <3>1. plan # NoPlan /\ plan.kind = "migrate" /\ held[V] = {} => held'[V] = {}
      BY <1>10
    <3>2. Swapped' = Swapped
      BY DEF Swapped
    <3>3. QED
      BY <3>1, <3>2 DEF Knows, Undoing, Backward, Unstaging
  <2>4. Folding(T, a)'
    <3>1. pc[a] \in {"clear-fold", "reclear-fold", "source-fold", "unsource-fold", "rev-fold"} => T \subseteq S
      <4>1. pc[a] \in {"clear-fold", "reclear-fold", "source-fold"} => plan # NoPlan /\ plan.kind # "words"
        BY DEF Knows, Going, Forward, Shutting, Moving, Rewrites
      <4>2. pc[a] \in {"unsource-fold", "rev-fold"} => plan # NoPlan /\ plan.kind # "words"
        BY DEF Knows, Undoing, Backward, Reverting, Unstaging
      <4>3. QED
        BY <1>7, <4>1, <4>2
    <3>2. \A from, to \in {"items", "plain/items", "source"} : T \subseteq S /\ Moves(S, a, from, to) => Moves(T, a, from, to)'
      BY <1>9 DEF Moves, Stored
    <3>3. QED
      BY <3>1, <3>2 DEF Knows, Folding
  <2>5. Ending(T, M, a)'
    BY <1>8 DEF Knows, Ending
  <2>6. QED
    BY <2>1, <2>2, <2>3, <2>4, <2>5 DEF Knows
<1>15. QED
  BY <1>13, <1>14 DEF Solo

(***************************************************************************)
(* What a device's step changes, and that it leaves the store well formed. *)
(***************************************************************************)
\* The item of a device that is idle is of no matter.
ClientsTyped ==
  /\ cpc \in [Clients -> ClientSteps]
  /\ citem \in [Clients -> Items \cup {CHOOSE i \in Items : TRUE}]
  /\ \A c \in Clients : cpc[c] # "idle" => citem[c] \in Items
  /\ ckey \in [Clients -> Keys \cup {NoKey}]
  /\ gone \in SUBSET Items
  /\ overtaken \in SUBSET (Items \X Keys)

\* Each device sends what it may send and deletes what may be deleted, and
\* looks for the stop file only where the store is in plaintext.
Putting == {"put-lock", "put-head", "put-stop", "put-folder", "put-find", "put-publish",
            "again-lock", "again-head", "again-stop", "retract"}
Errands ==
  \A c \in Clients :
    /\ cpc[c] \in Putting => citem[c] \in Sends[c]
    /\ cpc[c] \in ClientSteps \ (Putting \cup {"idle"}) => citem[c] \in Deletes
    /\ cpc[c] \in {"put-stop", "again-stop", "del-stop"} => ckey[c] = NoKey

LEMMA ClientFrame ==
  ASSUME ClientsTyped, NEW c \in Clients, ClientNext(c)
  PROVE  /\ UNCHANGED <<lock, plan, recovery, head, pc, job, agreed, used, faults>>
         /\ \A d \in Clients \ {c} : cpc'[d] = cpc[d] /\ citem'[d] = citem[d] /\ ckey'[d] = ckey[d]
<1> USE DEF ClientsTyped, CGoto
<1>1. CASE Join(c) \/ ClientStops(c) \/ \E i \in Items : StartPut(c, i) \/ StartDelete(c, i)
  BY <1>1 DEF Join, StartPut, StartDelete, ClientStops, layoutVars, adminVars
<1>2. CASE CheckBefore(c)
  BY <1>2 DEF CheckBefore, CheckKey, layoutVars, adminVars
<1>3. CASE MakeItems(c) \/ FindExisting(c) \/ PublishItem(c) \/ Retract(c) \/ DeleteItem(c)
  BY <1>3 DEF MakeItems, FindExisting, PublishItem, Retract, DeleteItem, adminVars
<1>4. CASE CheckAgain(c)
  BY <1>4 DEF CheckAgain, CheckKey, adminVars
<1>5. QED
  BY <1>1, <1>2, <1>3, <1>4 DEF ClientNext, ClientStep

LEMMA ClientErrands ==
  ASSUME ClientsTyped, Errands, NEW c \in Clients, ClientNext(c)
  PROVE  cpc' \in [Clients -> ClientSteps] /\ citem' \in [Clients -> Items \cup {CHOOSE i \in Items : TRUE}]
         /\ (\A d \in Clients : cpc'[d] # "idle" => citem'[d] \in Items)
         /\ (ckey' = ckey \/ ckey' = [ckey EXCEPT ![c] = head["encryption"].key]) /\ Errands'
<1> USE DEF ClientsTyped, CGoto, ClientSteps, Errands, Putting
<1>1. CASE Join(c)
  BY <1>1 DEF Join
<1>2. CASE ClientStops(c)
  BY <1>2 DEF ClientStops
<1>3. CASE \E i \in Items : StartPut(c, i) \/ StartDelete(c, i)
  BY <1>3 DEF StartPut, StartDelete
<1>4. CASE CheckBefore(c)
  BY <1>4 DEF CheckBefore, CheckKey
<1>5. CASE MakeItems(c) \/ FindExisting(c) \/ PublishItem(c) \/ Retract(c) \/ DeleteItem(c)
  BY <1>5 DEF MakeItems, FindExisting, PublishItem, Retract, DeleteItem
<1>6. CASE CheckAgain(c)
  BY <1>6 DEF CheckAgain, CheckKey
<1>7. QED
  BY <1>1, <1>2, <1>3, <1>4, <1>5, <1>6 DEF ClientNext, ClientStep

\* A device makes its folder, publishes its item there, takes it away, or
\* leaves the tree as it is.
LEMMA ClientTree ==
  ASSUME ClientsTyped, TypeOK, NEW c \in Clients, ClientNext(c)
  PROVE  \/ UNCHANGED <<dir, held>>
         \/ cpc[c] = "put-folder" /\ dir[MyFolder(c)] # "file" /\ MakeFolder(MyFolder(c))
         \/ /\ cpc[c] = "put-publish" /\ cpc'[c] = "again-lock" /\ ~Present(c)
            /\ dir[MyFolder(c)] = "folder" /\ dir' = dir
            /\ held' = [held EXCEPT ![MyFolder(c)] = @ \cup {MyCopy(c)}]
            /\ gone' = gone \ {citem[c]} /\ kept' = kept
         \/ /\ cpc[c] \in {"retract", "del-rename"} /\ dir' = dir /\ cpc'[c] = "idle"
            /\ cpc[c] = "del-rename" => Present(c) /\ kept' = kept \ {citem[c]} /\ gone' = gone \cup {citem[c]}
            /\ cpc[c] = "retract" => kept' = kept /\ gone' = gone
            /\ held' = [held EXCEPT ![MyFolder(c)] = {d \in @ : ~SameId(d, MyCopy(c))}]
<1> USE DEF ClientsTyped, CGoto
<1>1. CASE Join(c) \/ ClientStops(c) \/ (\E i \in Items : StartPut(c, i) \/ StartDelete(c, i)) \/ CheckBefore(c)
  BY <1>1 DEF Join, StartPut, StartDelete, ClientStops, CheckBefore, layoutVars
<1>2. CASE MakeItems(c)
  BY <1>2 DEF MakeItems, SameTree
<1>3. CASE FindExisting(c) \/ CheckAgain(c)
  BY <1>3 DEF FindExisting, CheckAgain
<1>4. CASE PublishItem(c)
  BY <1>4 DEF PublishItem
<1>5. CASE Retract(c) \/ DeleteItem(c)
  BY <1>5 DEF Retract, DeleteItem
<1>6. QED
  BY <1>1, <1>2, <1>3, <1>4, <1>5 DEF ClientNext, ClientStep

\* What devices were told changes with what they are told.
LEMMA ClientTold ==
  ASSUME ClientsTyped, NEW c \in Clients, ClientNext(c)
  PROVE  /\ \/ gone' = gone
            \/ gone' = gone \ {citem[c]} /\ cpc[c] \in {"put-find", "put-publish"}
            \/ /\ cpc[c] = "del-rename" /\ Present(c) /\ gone' = gone \cup {citem[c]}
               /\ held' = [held EXCEPT ![MyFolder(c)] = {d \in @ : ~SameId(d, MyCopy(c))}]
         /\ \/ kept' = kept
            \/ kept' = kept \ {citem[c]} /\ cpc[c] = "del-rename" /\ Present(c)
            \/ kept' = kept \cup ({citem[c]} \ gone) /\ cpc[c] \in {"again-head", "again-stop"}
            \/ kept' = kept \cup {citem[c]} /\ cpc[c] \in {"put-find", "put-publish"} /\ Present(c)
<1> USE DEF ClientsTyped, CGoto
<1>1. CASE Join(c) \/ ClientStops(c) \/ (\E i \in Items : StartPut(c, i) \/ StartDelete(c, i)) \/ CheckBefore(c)
  <2>1. gone' = gone /\ kept' = kept
    BY <1>1 DEF Join, StartPut, StartDelete, ClientStops, CheckBefore, layoutVars
  <2>2. QED
    BY <2>1
<1>2. CASE MakeItems(c) \/ Retract(c)
  BY <1>2 DEF MakeItems, Retract
<1>3. CASE FindExisting(c) \/ PublishItem(c)
  BY <1>3 DEF FindExisting, PublishItem, Told
<1>4. CASE DeleteItem(c)
  BY <1>4 DEF DeleteItem
<1>5. CASE CheckAgain(c)
  <2>1. gone' = gone /\ kept' = IF cpc'[c] = "idle" THEN kept \cup ({citem[c]} \ gone) ELSE kept
    BY <1>5 DEF CheckAgain
  <2>2. cpc'[c] = "idle" => cpc[c] \in {"again-head", "again-stop"}
    BY <1>5 DEF CheckAgain, CheckKey
  <2>3. QED
    BY <2>1, <2>2
<1>6. QED
  BY <1>1, <1>2, <1>3, <1>4, <1>5 DEF ClientNext, ClientStep

LEMMA ClientTyped ==
  ASSUME Typed, ClientsTyped, Errands, NEW c \in Clients, ClientNext(c), overtaken' = overtaken
  PROVE  Typed' /\ ClientsTyped' /\ Errands'
<1> USE DEF Typed, TypeOK, LayoutTypeOK
<1>1. UNCHANGED <<lock, plan, recovery, head, pc, job, agreed, used, faults>>
  BY ClientFrame
<1>2. head["encryption"].key \in Keys \cup {NoKey}
  BY Shapes DEF Places
<1>3. ckey' \in [Clients -> Keys \cup {NoKey}]
  BY <1>2, ClientErrands DEF ClientsTyped
<1>4. cpc[c] # "idle" => citem[c] \in Items
  BY DEF ClientsTyped
<1>5. kept' \in SUBSET Items
  BY <1>4, ClientTold
<1>6. gone' \in SUBSET Items
  BY <1>4, ClientTold DEF ClientsTyped
<1>7. ClientsTyped' /\ Errands'
  BY <1>3, <1>6, ClientErrands DEF ClientsTyped
<1>8. cpc[c] # "idle" => MyCopy(c) \in Copies
  BY <1>4 DEF ClientsTyped, MyCopy, Whole, Copies
<1>9. MyFolder(c) \in {"items", "v2/items"}
  BY DEF MyFolder, ItemsOf
<1>10. dir' \in [Folders -> {"absent", "folder", "file"}] /\ held' \in [Folders -> SUBSET Copies]
  BY <1>8, <1>9, ClientTree DEF MakeFolder, Folders
<1>11. QED
  BY <1>1, <1>5, <1>7, <1>10 DEF Prepared

\* What administrators know goes on holding at a device's step, when what may
\* be out of place afterwards includes what it publishes under a key that is
\* not the store's, and what it takes away was not to stay.
LEMMA ClientKeeps ==
  ASSUME NEW S, NEW T, NEW L, NEW M, KeptInv(S, L), ClientsTyped, NEW c \in Clients, ClientNext(c), Typed',
         ckey[c] # NoKey => Encrypted,
         \A i \in T : i \in S \/ Settles(i)',
         cpc[c] \in {"retract", "del-rename"} => held' = held \/ citem[c] \notin T \/ ckey[c] \notin {NoKey, InPlace},
         cpc[c] = "put-publish" /\ cpc'[c] = "again-lock" /\ ckey[c] # NoKey =>
           <<citem[c], ckey[c]>> \in M \/ (~lock /\ ckey[c] = head["encryption"].key),
         \A d \in held["v2/items"] \cap held'["v2/items"] :
           Id(d) \in L => Id(d) \in M \/ (~lock /\ d.key = head["encryption"].key),
         plan.kind = "rotate" /\ OldHeader.key # plan.to =>
           \A d \in held["source"] : Id(d) \in L => Id(d) \in M \/ d.key = OldHeader.key
  PROVE  KeptInv(T, M)'
<1> USE Shapes DEF KeptInv, Id
<1> DEFINE f == MyFolder(c)
           V == "v2/items"
<1>1. UNCHANGED <<lock, plan, recovery, head, pc, job, used>>
  BY ClientFrame
<1>2. f = IF ckey[c] = NoKey THEN "items" ELSE V
  BY DEF MyFolder, ItemsOf
<1>3. TreeSound
  BY DEF StoreSound
<1>4. /\ MyCopy(c).item = citem[c] /\ MyCopy(c).key = ckey[c] /\ MyCopy(c) = Whole(citem[c], ckey[c])
      /\ \A i, k : Whole(i, k).item = i /\ Whole(i, k).key = k
  BY DEF MyCopy, Whole
<1> DEFINE Goal ==
  /\ \A g \in {"source", "plain/items"} : held'[g] = held[g] /\ dir'[g] = dir[g]
  /\ Shut' = Shut /\ (dir["items"] = "folder" => dir'["items"] = "folder")
  /\ dir'[V] # "file"
  /\ \A g \in {"items", V} : dir'[g] # "folder" => held'[g] = {}
  /\ PlainCopies("items")'
  /\ \A i \in T \cap S : Stored(i, "items") => Stored(i, "items")'
  /\ \A i \in T \cap S : Whole(i, InPlace) \in held[V] => Whole(i, InPlace) \in held'[V]
  /\ \A d \in held'[V] : \/ d \in held[V] /\ Id(d) \notin L
                         \/ Id(d) \in M
                         \/ ~lock /\ d.key = head["encryption"].key
  /\ held[V] = {} /\ held'[V] # {} => Encrypted
<1>5. ASSUME UNCHANGED <<dir, held>> PROVE Goal
  BY <1>3, <1>5 DEF TreeSound, Folders, Shut, PlainCopies, Stored
<1>6. ASSUME cpc[c] = "put-folder", dir[f] # "file", MakeFolder(f) PROVE Goal
  <2>1. /\ held' = held /\ dir'[f] = "folder" /\ f \in {"items", V}
        /\ \A g \in Folders \ {f} : dir'[g] = dir[g]
    BY <1>2, <1>6 DEF MakeFolder, Folders
  <2>2. Shut' = Shut /\ dir'[V] # "file" /\ (dir["items"] = "folder" => dir'["items"] = "folder")
    BY <1>2, <1>3, <1>6, <2>1 DEF TreeSound, Folders, Shut
  <2>3. QED
    BY <1>3, <2>1, <2>2 DEF TreeSound, Folders, PlainCopies, Stored
<1>7. ASSUME cpc[c] = "put-publish", cpc'[c] = "again-lock", dir[f] = "folder", dir' = dir,
             held' = [held EXCEPT ![f] = @ \cup {MyCopy(c)}]
      PROVE  Goal
  <2>1. /\ held'[f] = held[f] \cup {MyCopy(c)} /\ f \in {"items", V}
        /\ \A g \in Folders \ {f} : held'[g] = held[g]
    BY <1>2, <1>7 DEF Folders
  <2>2. PlainCopies("items")'
    BY <1>2, <1>3, <1>4, <2>1 DEF TreeSound, PlainCopies, Folders
  <2>3. \A d \in held'[V] : \/ d \in held[V] /\ Id(d) \notin L
                            \/ Id(d) \in M
                            \/ ~lock /\ d.key = head["encryption"].key
    BY <1>2, <1>4, <1>7, <2>1 DEF Folders
  <2>4. \A g \in {"items", V} : dir'[g] # "folder" => held'[g] = {}
    BY <1>3, <1>7, <2>1 DEF TreeSound, Folders
  <2>5. held[V] = {} /\ held'[V] # {} => Encrypted
    BY <1>2, <2>1 DEF Folders
  <2>6. QED
    BY <1>3, <1>7, <2>1, <2>2, <2>3, <2>4, <2>5 DEF TreeSound, Folders, Shut, Stored
<1>8. ASSUME cpc[c] \in {"retract", "del-rename"}, dir' = dir,
             held' = [held EXCEPT ![f] = {d \in @ : ~SameId(d, MyCopy(c))}]
      PROVE  Goal
  <2>1. /\ held'[f] = {d \in held[f] : ~SameId(d, MyCopy(c))} /\ f \in {"items", V}
        /\ \A g \in Folders \ {f} : held'[g] = held[g]
    BY <1>2, <1>8 DEF Folders
  <2>2. PlainCopies("items")'
    BY <1>2, <1>3, <2>1 DEF TreeSound, PlainCopies, Folders
  <2>3. \A d \in held'[V] : \/ d \in held[V] /\ Id(d) \notin L
                            \/ Id(d) \in M
                            \/ ~lock /\ d.key = head["encryption"].key
    BY <1>2, <2>1 DEF Folders
  <2>4. ASSUME NEW i \in T \cap S, NEW k, NEW g \in {"items", V}, Whole(i, k) \in held[g], g = V => k = InPlace
        PROVE  Whole(i, k) \in held'[g]
    <3>1. SameId(Whole(i, k), MyCopy(c)) => i = citem[c] /\ k = ckey[c]
      BY <1>4 DEF SameId
    <3>2. g # f => held'[g] = held[g]
      BY <2>1 DEF Folders
    <3>3. QED
      BY <1>2, <1>8, <2>1, <2>4, <3>1, <3>2
  <2>5. \A g \in {"items", V} : dir'[g] # "folder" => held'[g] = {}
    BY <1>3, <1>8, <2>1 DEF TreeSound, Folders
  <2>6. QED
    BY <1>3, <1>8, <2>1, <2>2, <2>3, <2>4, <2>5 DEF TreeSound, Folders, Shut, Stored
<1>9. Goal
  BY <1>5, <1>6, <1>7, <1>8, ClientTree DEF Typed
<1>10. QED
  BY <1>1, <1>9, Touched

--------------------------------------------------------------------------------
(***************************************************************************)
(* The keys devices hold.  None is the one a change brings in: its key is  *)
(* new, and no device joins while the lock is there.                       *)
(***************************************************************************)
KeysHeld ==
  \A c \in Clients :
    /\ ckey[c] \in used \cup {NoKey}
    /\ \A a \in Admins : pc[a] = "publish" /\ job[a].kind # "words" => ckey[c] # job[a].hdr.key
    /\ plan # NoPlan /\ plan.kind # "words" => ckey[c] # plan.to
    /\ ckey[c] # NoKey => Encrypted

\* Only a command that inspects the store is about to take the lock next.
LEMMA ComesToPublish ==
  ASSUME Typed, NEW a \in Admins, Start(a) \/ Step(a) \/ Faults(a), pc'[a] = "publish"
  PROVE  \/ \E kind \in Kinds : Inspect(a, kind)
         \/ pc[a] = "publish" /\ job' = job /\ used' = used
<1> USE DEF Goto, Typed, TypeOK
<1>1. CASE Start(a)
  BY <1>1, OfferedAssumption DEF Start, ClaimRecovery, TakeOverRecovery, Quiet
<1>2. CASE Faults(a)
  BY <1>2 DEF Faults, Fail, Crash, CrashRemoving, CrashReleasing, GiveUp
<1>3. CASE Step(a)
  <2>1. ~FoldStep(a)
    BY DEF FoldStep, FoldNext
  <2>2. ~Publish(a) /\ ~Finish(a)
    BY DEF Publish, Finish, FirstStep
  <2>3. ~ClearItems(a) /\ ~FoldIntoSource(a) /\ ~RestoreSource(a) /\ ~RestorePlain(a)
    BY SMTT(30) DEF ClearItems, FoldIntoSource, RestoreSource, RestorePlain, Fold
  <2>4. ~Install(a) /\ ~Swap(a) /\ ~MoveSource(a) /\ ~Copy(a) /\ ~WriteStopFile(a)
    BY DEF Install, Swap, AfterSwap, MoveSource, Copy, WriteStopFile, StopStep, RestopStep
  <2>5. QED
    BY <1>3, <2>1, <2>2, <2>3, <2>4 DEF Step, PublishRefused, Verify, CleanSource, Release, Undo,
       Unstage, RemoveStopFile, RestoreHead, RevertNew, RevertOld, RevertWords, Refused, GiveUp
<1>4. QED
  BY <1>1, <1>2, <1>3

LEMMA UsedGrows ==
  ASSUME NEW a \in Admins, Start(a) \/ Step(a) \/ Faults(a)
  PROVE  used \subseteq used'
<1>1. CASE Start(a)
  BY <1>1 DEF Start, Inspect, ClaimRecovery, TakeOverRecovery, Quiet
<1>2. CASE Faults(a)
  BY <1>2 DEF Faults, Fault
<1>3. CASE Step(a)
  BY <1>3 DEF Step, Publish, PublishRefused, ClearItems, FoldStep, FoldNext, WriteStopFile, StopStep, RestopStep,
     MoveSource, FoldIntoSource, Copy, Verify, Install, Swap, CleanSource, Release, Finish, Undo, Unstage,
     RemoveStopFile, RestoreSource, RestoreHead, RevertNew, RevertOld, RevertWords, RestorePlain, Refused, Quiet
<1>4. QED
  BY <1>1, <1>2, <1>3

LEMMA AdminKeysHeld ==
  ASSUME NEW S, NEW L, KeptInv(S, L), Typed', TurnsTaken, KeysHeld, ckey' = ckey, ClientsTyped,
         NEW a \in Admins, Start(a) \/ Step(a) \/ Faults(a)
  PROVE  KeysHeld'
<1> USE Shapes DEF KeptInv
<1> SUFFICES ASSUME NEW c \in Clients
             PROVE  /\ ckey[c] \in used' \cup {NoKey}
                    /\ \A b \in Admins : pc'[b] = "publish" /\ job'[b].kind # "words" => ckey[c] # job'[b].hdr.key
                    /\ plan' # NoPlan /\ plan'.kind # "words" => ckey[c] # plan'.to
                    /\ ckey[c] # NoKey => Encrypted'
  BY DEF KeysHeld
<1>1. ckey[c] \in used' \cup {NoKey} /\ (ckey[c] # NoKey => Encrypted')
  BY UsedGrows, EncryptedStays DEF KeysHeld
<1>2. ASSUME NEW b \in Admins, pc'[b] = "publish", job'[b].kind # "words" PROVE ckey[c] # job'[b].hdr.key
  <2>1. b = a
    BY <1>2, OneActs
  <2>2. CASE pc[a] = "publish" /\ job' = job
    BY <1>2, <2>1, <2>2 DEF KeysHeld
  <2>3. ASSUME NEW kind \in Kinds, Inspect(a, kind) PROVE ckey[c] # job'[b].hdr.key
    <3>1. PICK k \in (IF kind = "words" THEN {head["encryption"].key} ELSE Keys \ used), w \in Words :
            job' = [job EXCEPT ![a] =
              [NoJob EXCEPT !.kind = kind, !.hdr = [key |-> k, words |-> w],
                            !.old = head["encryption"], !.mode = "run"]]
      BY <2>3 DEF Inspect
    <3>2. job'[b].kind = kind /\ job'[b].hdr.key = k
      BY <2>1, <3>1 DEF NoJob, Typed, TypeOK
    <3>3. k \in Keys \ used
      BY <1>2, <3>1, <3>2
    <3>4. QED
      BY <3>2, <3>3 DEF KeysHeld
  <2>4. QED
    BY <1>2, <2>1, <2>2, <2>3, ComesToPublish
<1>3. plan' # NoPlan /\ plan'.kind # "words" => ckey[c] # plan'.to
  <2>1. pc[a] = "publish" /\ job[a].kind # "words" => ckey[c] # job[a].hdr.key
    BY DEF KeysHeld
  <2>2. plan # NoPlan /\ plan.kind # "words" => ckey[c] # plan.to
    BY DEF KeysHeld
  <2>3. QED
    BY <2>1, <2>2, HeadMoves DEF Publish
<1>4. QED
  BY <1>1, <1>2, <1>3

LEMMA ClientKeysHeld ==
  ASSUME NEW S, NEW L, KeptInv(S, L), KeysHeld, ClientsTyped, Errands, NEW c \in Clients, ClientNext(c)
  PROVE  KeysHeld'
<1> USE Shapes DEF KeptInv
<1>1. UNCHANGED <<lock, plan, head, pc, job, used>> /\ \A d \in Clients \ {c} : ckey'[d] = ckey[d]
  BY ClientFrame
<1>2. Encrypted' = Encrypted
  BY <1>1 DEF Encrypted
<1>3. CASE Join(c)
  <2>1. ~lock /\ head["encryption"] # NoHeader /\ ckey'[c] = head["encryption"].key
    BY <1>3 DEF Join, Classify, ClientsTyped
  <2>2. plan = NoPlan /\ head["encryption"].key \in used
    BY <2>1 DEF StoreSound, JournalSound, HeadersMade, Places
  <2>3. Encrypted
    BY <2>1, <2>2 DEF Encrypted, NoPlan
  <2>4. \A a \in Admins : pc[a] = "publish" /\ job[a].kind # "words" => head["encryption"].key # job[a].hdr.key
    BY <2>1 DEF Knows, Ready, Fits, Typed, Prepared, Kinds, HeaderChanges, Rewrites
  <2>5. QED
    BY <1>1, <1>2, <2>1, <2>2, <2>3, <2>4 DEF KeysHeld
<1>4. CASE ckey' = ckey
  BY <1>1, <1>2, <1>4 DEF KeysHeld
<1>5. Join(c) \/ ckey' = ckey
  BY DEF ClientNext, ClientStep, StartPut, StartDelete, ClientStops, CheckBefore, MakeItems, FindExisting,
     PublishItem, CheckAgain, Retract, DeleteItem
<1>6. QED
  BY <1>3, <1>4, <1>5

\* What is said of the devices beside the store.
Beside == ClientsTyped /\ Errands /\ KeysHeld

LEMMA BesideInit == Init => Beside
<1> SUFFICES ASSUME Init PROVE Beside
  OBVIOUS
<1>1. Typed
  BY InitTyped DEF Init
<1> USE <1>1, Shapes
<1>2. /\ plan = NoPlan /\ pc = [a \in Admins |-> "idle"] /\ head["encryption"] = agreed
      /\ head["encryption"].key \in used \cup {NoKey}
  BY DEF Init, ChangeInit, Places
<1>3. head["encryption"].key \in Keys \cup {NoKey}
  BY DEF Places
<1>4. ClientsTyped
  <2>1. kept \subseteq Items /\ (CHOOSE i \in Items : TRUE) \in Items \cup {CHOOSE i \in Items : TRUE}
    BY DEF Typed, TypeOK, LayoutTypeOK
  <2>2. QED
    BY <1>3, <2>1 DEF Init, ClientsTyped, ClientSteps
<1>5. Errands
  BY DEF Init, Errands, Putting
<1>6. KeysHeld
  <2>1. head["encryption"].key # NoKey => Encrypted
    BY <1>2 DEF Encrypted, NoPlan, Places
  <2>2. QED
    BY <1>2, <2>1 DEF Init, KeysHeld
<1>7. QED
  BY <1>4, <1>5, <1>6 DEF Beside

LEMMA BesideAdmin ==
  ASSUME NEW S, NEW L, KeptInv(S, L), Typed', TurnsTaken, Beside, ChangeNext, Watch, UNCHANGED clientVars
  PROVE  Beside'
<1> USE DEF Beside
<1>1. cpc' = cpc /\ citem' = citem /\ ckey' = ckey /\ gone' = gone
  BY DEF clientVars
<1>2. ClientsTyped'
  <2>1. \A d \in Clients : Outdated(d) => <<citem[d], ckey[d]>> \in Items \X Keys
    BY DEF Outdated, Sending, ClientsTyped
  <2>2. overtaken' \in SUBSET (Items \X Keys)
    BY <2>1 DEF Watch, ClientsTyped
  <2>3. QED
    BY <1>1, <2>2 DEF ClientsTyped
<1>3. Errands'
  BY <1>1 DEF Errands
<1>4. ASSUME NEW a \in Admins, Start(a) \/ Step(a) \/ Faults(a) PROVE KeysHeld'
  BY <1>1, <1>4, AdminKeysHeld
<1>5. ASSUME LateDevice PROVE KeysHeld'
  BY <1>1, <1>5 DEF LateDevice, Quiet, KeysHeld, Encrypted
<1>6. QED
  BY <1>2, <1>3, <1>4, <1>5 DEF ChangeNext

LEMMA BesideClient ==
  ASSUME NEW S, NEW L, KeptInv(S, L), Beside, NEW c \in Clients, ClientNext(c), overtaken' = overtaken
  PROVE  Typed' /\ Beside'
<1>1. Typed
  BY DEF KeptInv
<1>2. Typed' /\ ClientsTyped' /\ Errands'
  BY <1>1, ClientTyped DEF Beside
<1>3. KeysHeld'
  BY ClientKeysHeld DEF Beside
<1>4. QED
  BY <1>2, <1>3 DEF Beside

LEMMA BesideSame == ASSUME Beside, UNCHANGED vars PROVE Beside' /\ [ChangeNext]_changeVars
<1>1. UNCHANGED <<cpc, citem, ckey, gone, overtaken, plan, head, used, pc, job>> /\ UNCHANGED changeVars
  BY DEF vars, changeVars, clientVars, layoutVars, adminVars
<1>2. QED
  BY <1>1 DEF Beside, ClientsTyped, Errands, KeysHeld, Encrypted

--------------------------------------------------------------------------------
(***************************************************************************)
(* The header, with devices at work.                                       *)
(***************************************************************************)
LEMMA HeaderBeside ==
  ASSUME TurnsTaken, ~PartialRelease, Beside, HeadInv({}, Ids), [Next]_vars
  PROVE  Beside' /\ HeadInv({}, Ids)'
<1> USE DEF HeadInv
<1>1. CASE UNCHANGED vars
  BY <1>1, BesideSame, NextHead
<1>2. CASE ChangeNext /\ Watch /\ UNCHANGED clientVars
  <2>1. HeadInv({}, Ids)'
    BY <1>2, NextHead
  <2>2. QED
    BY <1>2, <2>1, BesideAdmin DEF KeptInv
<1>3. ASSUME NEW c \in Clients, ClientNext(c), overtaken' = overtaken PROVE Beside' /\ HeadInv({}, Ids)'
  <2>1. Typed' /\ Beside'
    BY <1>3, BesideClient
  <2>2. UNCHANGED <<lock, plan, recovery, head, pc, job, agreed, used, faults>>
    BY <1>3, ClientFrame DEF Beside
  <2>3. \A f \in Folders : \A d \in held[f] : Id(d) \in Ids
    BY DEF KeptInv, Typed, TypeOK, LayoutTypeOK, Copies, Ids, Id
  <2>4. cpc[c] # "idle" => <<citem[c], ckey[c]>> \in Ids
    BY DEF Beside, ClientsTyped, Ids
  <2>5. KeptInv({}, Ids)'
    <3>1. "v2/items" \in Folders /\ "source" \in Folders
      BY DEF Folders
    <3>2. ClientsTyped /\ (ckey[c] # NoKey => Encrypted)
      BY DEF Beside, KeysHeld
    <3>3. QED
      BY <1>3, <2>1, <2>3, <2>4, <3>1, <3>2, ClientKeeps
  <2>6. HeadSound' /\ \A a \in Admins : KnowsHead(a)'
    BY <2>2 DEF HeadSound, KnowsHead, Unfinished
  <2>7. QED
    BY <2>1, <2>5, <2>6
<1>4. QED
  BY <1>1, <1>2, <1>3 DEF Next

\* However devices send and delete beside the changes, the header of an open
\* store is the one the last command that succeeded reported: no item on its
\* way misleads a recovery about the header to put in place.
THEOREM GuardedKeepsHeader ==
  ASSUME TurnsTaken, ~PartialRelease
  PROVE  Spec => []UnlockedHeader
<1>1. Init => Beside /\ HeadInv({}, Ids)
  BY BesideInit, InitKeeps DEF Init, ChangeInit, HeadInv, HeadSound, KnowsHead, Forward, Reverting, Shutting, Moving, Places
<1>2. Beside /\ HeadInv({}, Ids) /\ [Next]_vars => (Beside /\ HeadInv({}, Ids))'
  BY HeaderBeside
<1>3. HeadInv({}, Ids) => UnlockedHeader
  BY DEF HeadInv, HeadSound, UnlockedHeader
<1>4. QED
  BY <1>1, <1>2, <1>3, PTL DEF Spec

--------------------------------------------------------------------------------
(***************************************************************************)
(* What is out of place while devices send.  A send that looked before a   *)
(* change and published under it takes its item back; what was on its way  *)
(* when the next change began may stay.                                    *)
(***************************************************************************)
\* A send of c that has published under a key of its own and that its second
\* check may yet, or will, make take it back.
Late(c) ==
  /\ ckey[c] # NoKey
  /\ \/ cpc[c] \in {"again-lock", "retract"}
     \/ cpc[c] = "again-head" /\ \A p \in Places : head[p].key # ckey[c]

Leftover == overtaken \cup {<<citem[c], ckey[c]>> : c \in {d \in Clients : Late(d)}}

\* A send that passed its check did so under the key a rotation replaces, or
\* was on its way before that rotation.
Current ==
  plan.kind = "rotate" /\ OldHeader.key # plan.to =>
    \A c \in Clients : cpc[c] \in Sending /\ ckey[c] # NoKey =>
      ckey[c] = OldHeader.key \/ <<citem[c], ckey[c]>> \in overtaken

\* More may be out of place than is.
LEMMA KeptWider ==
  ASSUME NEW S, NEW L, NEW M, L \subseteq M, KeptInv(S, L)'
  PROVE  KeptInv(S, M)'
<1> USE DEF KeptInv
<1>1. \A f, k : SealedCopies(L, f, k)' => SealedCopies(M, f, k)'
  BY DEF SealedCopies
<1>2. \A k : SealedRest(S, L, k)' => SealedRest(S, M, k)'
  BY <1>1 DEF SealedRest
<1>3. AtRest(S, L)' => AtRest(S, M)'
  BY <1>1 DEF AtRest, SealedRest, SealedCopies
<1>4. Committed(S, L)' => Committed(S, M)'
  BY <1>1 DEF Committed, SealedCopies
<1>5. Under(S, L)' => Under(S, M)'
  BY <1>1, <1>4 DEF Under, WordsGoing, SealedRest, MigrateGoing, MigrateOpen, RotateGoing, RotateOpen, SealedCopies
<1>6. StoreSound(S, M)'
  BY <1>3, <1>5 DEF StoreSound, JournalSound
<1>7. ASSUME NEW a \in Admins PROVE Knows(S, M, a)'
  BY <1>3, <1>4 DEF Knows, Going, Ending
<1>8. QED
  BY <1>6, <1>7

\* The header a rotation set out from stays the old one until its swap.
LEMMA OldHeaderStays ==
  ASSUME NEW S, NEW L, KeptInv(S, L), KeptInv(S, L)', NEW a \in Admins, Start(a) \/ Step(a) \/ Faults(a),
         plan'.kind = "rotate", OldHeader'.key # plan'.to
  PROVE  \/ plan.kind = "rotate" /\ OldHeader.key # plan.to /\ OldHeader'.key = OldHeader.key
         \/ ~lock /\ lock' /\ head["encryption"] # NoHeader /\ OldHeader' = head["encryption"]
<1> USE Shapes DEF KeptInv
<1>1. plan' # NoPlan /\ RotateOpen(S, L)'
  <2>1. plan' # NoPlan
    BY DEF NoPlan
  <2>2. RotateGoing(S, L)' /\ plan'.to # NoKey
    BY <2>1, NoKeyAssumption DEF StoreSound, JournalSound, Under, Typed, TypeOK, LayoutTypeOK, Plans
  <2>3. ~Committed(S, L)'
    BY <2>2 DEF Committed, OldHeader
  <2>4. QED
    BY <2>1, <2>2, <2>3 DEF RotateGoing
<1>2. ASSUME plan.kind = "rotate" PROVE lock /\ plan # NoPlan /\ RotateGoing(S, L)
  BY <1>2 DEF NoPlan, StoreSound, JournalSound, Under
<1>3. ASSUME plan.kind = "rotate", plan' = plan, Committed(S, L) PROVE FALSE
  <2>1. lock /\ Settled(S, L)
    BY <1>2, <1>3 DEF Settled
  <2>2. head'["encryption"] = head["encryption"] /\ head["encryption"].key = plan.to
    BY <1>3, <2>1, SettledStays DEF Committed
  <2>3. head'["encryption"] # NoHeader
    BY <1>2, <1>3, <2>2 DEF Places
  <2>4. QED
    BY <1>3, <2>2, <2>3 DEF OldHeader
<1>4. ASSUME plan.kind = "rotate", plan' = plan
      PROVE  /\ RotateOpen(S, L) /\ OldHeader.key # plan.to
             /\ \A p \in OldPlaces : head[p] # NoHeader => head[p].key = OldHeader.key
  BY <1>2, <1>3, <1>4 DEF RotateGoing, RotateOpen, Opens, OldPlaces
<1>5. OldHeader' # NoHeader /\ (OldHeader' = head'["encryption"] \/ OldHeader' = head'["previous"])
  BY <1>1 DEF RotateOpen, OldHeader
<1>6. CASE /\ plan' = plan
           /\ \A p \in OldPlaces : head'[p] = NoHeader \/ \E q \in OldPlaces : head'[p] = head[q]
  BY <1>4, <1>5, <1>6 DEF OldPlaces
<1>7. CASE /\ Publish(a) /\ ~lock /\ lock' /\ Fits(job[a].kind) /\ plan'.kind = job[a].kind
           /\ head'["encryption"] = head["encryption"]
  BY <1>7 DEF Fits, OldHeader
<1>8. CASE plan # NoPlan /\ plan' = plan /\ head["header"] # NoHeader /\ head'["encryption"] = head["header"]
  <2>1. RotateOpen(S, L)
    BY <1>4, <1>8
  <2>2. head'["encryption"] # NoHeader /\ head'["encryption"].key = plan'.to
    BY <1>8, <2>1 DEF RotateOpen, Opens
  <2>3. QED
    BY <2>2 DEF OldHeader
<1>9. CASE /\ AtRest(S, L) /\ plan' \in {plan, NoPlan} /\ head'["encryption"] = head["encryption"]
           /\ \A p \in InLock : head'[p] \in {NoHeader, head[p]}
  BY <1>1, <1>6, <1>9 DEF InLock, OldPlaces
<1>10. QED
  BY <1>6, <1>7, <1>8, <1>9, HeadMoves

LEMMA LateStep ==
  ASSUME ClientsTyped, Stoppable = {}, NEW c \in Clients, ClientNext(c), Late(c)
  PROVE  /\ citem'[c] = citem[c] /\ ckey'[c] = ckey[c]
         /\ \/ Late(c)'
            \/ cpc[c] = "again-lock" /\ ~lock /\ \E p \in Places : head[p].key = ckey[c]
            \/ cpc[c] = "retract" /\ Retract(c)
<1> USE DEF ClientsTyped, CGoto
<1>1. head' = head
  BY ClientFrame
<1>2. cpc[c] \in {"again-lock", "again-head", "retract"} /\ ckey[c] # NoKey
  BY DEF Late
<1>3. CASE Retract(c)
  BY <1>3 DEF Retract
<1>4. CASE CheckAgain(c)
  <2>1. citem' = citem /\ ckey' = ckey
    BY <1>4 DEF CheckAgain
  <2>2. CASE cpc[c] = "again-lock"
    <3>1. cpc'[c] = IF lock THEN "retract" ELSE "again-head"
      BY <1>4, <2>2 DEF CheckAgain, CheckKey
    <3>2. QED
      BY <1>1, <1>2, <2>1, <2>2, <3>1 DEF Late
  <2>3. CASE cpc[c] = "again-head"
    <3>1. head["encryption"].key # ckey[c]
      BY <2>3 DEF Late, Places
    <3>2. cpc'[c] = "retract"
      BY <1>4, <2>3, <3>1 DEF CheckAgain, CheckKey, HeaderStands
    <3>3. QED
      BY <1>2, <2>1, <3>2 DEF Late
  <2>4. QED
    BY <1>2, <1>4, <2>2, <2>3 DEF CheckAgain, CheckKey
<1>5. Retract(c) \/ CheckAgain(c)
  BY <1>2 DEF ClientNext, ClientStep, Join, StartPut, StartDelete, ClientStops, CheckBefore, CheckKey, MakeItems,
     FindExisting, PublishItem, DeleteItem
<1>6. QED
  BY <1>3, <1>4, <1>5

\* Only a send that passes its check comes to be on its way.
LEMMA SendingComes ==
  ASSUME ClientsTyped, Errands, NEW c \in Clients, ClientNext(c), cpc'[c] \in Sending, ckey'[c] # NoKey
  PROVE  /\ citem'[c] = citem[c] /\ ckey'[c] = ckey[c]
         /\ cpc[c] \in Sending \/ ckey[c] = head["encryption"].key
<1> USE DEF ClientsTyped, CGoto, Sending
<1>1. CASE Join(c) \/ ClientStops(c) \/ \E i \in Items : StartPut(c, i) \/ StartDelete(c, i)
  BY <1>1 DEF Join, ClientStops, StartPut, StartDelete
<1>2. CASE CheckBefore(c)
  BY <1>2 DEF CheckBefore, CheckKey, HeaderStands, Errands
<1>3. CASE MakeItems(c) \/ FindExisting(c) \/ PublishItem(c) \/ Retract(c) \/ DeleteItem(c)
  BY <1>3 DEF MakeItems, FindExisting, PublishItem, Retract, DeleteItem
<1>4. CASE CheckAgain(c)
  BY <1>4 DEF CheckAgain, CheckKey, Errands
<1>5. QED
  BY <1>1, <1>2, <1>3, <1>4 DEF ClientNext, ClientStep

LEMMA SealedAdmin ==
  ASSUME TurnsTaken, Beside, KeptInv({}, Leftover), Current, ChangeNext, Watch, UNCHANGED clientVars
  PROVE  KeptInv({}, Leftover)' /\ Current'
<1> USE DEF Beside
<1>1. cpc' = cpc /\ citem' = citem /\ ckey' = ckey /\ overtaken \subseteq overtaken'
  BY DEF clientVars, Watch
<1>2. PICK L : L = Leftover /\ KeptInv({}, L)
  OBVIOUS
<1>3. KeptInv({}, L)'
  BY <1>2, NextKeeps
<1>4. ASSUME LateDevice PROVE Current' /\ Leftover \subseteq Leftover'
  <2>1. UNCHANGED <<plan, head>>
    BY <1>4 DEF LateDevice
  <2>2. QED
    BY <1>1, <2>1 DEF Current, OldHeader, Leftover, Late
<1>5. ASSUME NEW a \in Admins, Start(a) \/ Step(a) \/ Faults(a) PROVE Current' /\ Leftover \subseteq Leftover'
  <2>1. ASSUME NEW c \in Clients, Late(c) PROVE Late(c)'
    <3>1. SUFFICES ASSUME cpc[c] = "again-head", NEW p \in Places PROVE head'[p].key # ckey[c]
      BY <1>1, <2>1 DEF Late
    <3>2. ckey[c] # NoKey /\ \A q \in Places : head[q].key # ckey[c]
      BY <2>1, <3>1 DEF Late
    <3>3. Publish(a) => job[a].hdr.key # ckey[c]
      <4>1. Publish(a) /\ job[a].kind = "words" => job[a].hdr.key = head["encryption"].key
        BY <1>2 DEF Publish, KeptInv, Knows, Ready
      <4>2. Publish(a) /\ job[a].kind # "words" => job[a].hdr.key # ckey[c]
        BY DEF Publish, KeysHeld
      <4>3. QED
        BY <3>2, <4>1, <4>2 DEF Places
    <3>4. QED
      BY <1>2, <1>5, <3>2, <3>3, KeysCome
  <2>2. ASSUME plan'.kind = "rotate", OldHeader'.key # plan'.to, NEW c \in Clients, cpc[c] \in Sending, ckey[c] # NoKey
        PROVE  ckey[c] = OldHeader'.key \/ <<citem[c], ckey[c]>> \in overtaken'
    <3>1. CASE plan.kind = "rotate" /\ OldHeader.key # plan.to /\ OldHeader'.key = OldHeader.key
      BY <1>1, <2>2, <3>1 DEF Current
    <3>2. CASE ~lock /\ lock' /\ head["encryption"] # NoHeader /\ OldHeader' = head["encryption"]
      BY <2>2, <3>2 DEF Watch, Outdated
    <3>3. QED
      BY <1>2, <1>3, <1>5, <2>2, <3>1, <3>2, OldHeaderStays
  <2>3. QED
    BY <1>1, <2>1, <2>2 DEF Current, Leftover
<1>6. Current' /\ L \subseteq Leftover'
  BY <1>2, <1>4, <1>5 DEF ChangeNext
<1>7. \A M : L \subseteq M => KeptInv({}, M)'
  BY <1>3, KeptWider
<1>8. QED
  BY <1>6, <1>7

LEMMA SealedClient ==
  ASSUME Stoppable = {}, Beside, KeptInv({}, Leftover), Current, NEW c \in Clients, ClientNext(c), overtaken' = overtaken
  PROVE  KeptInv({}, Leftover)' /\ Current'
<1> USE DEF Beside
<1>1. PICK L : L = Leftover /\ KeptInv({}, L)
  OBVIOUS
<1>2. PICK M : M = Leftover'
  OBVIOUS
<1>3. Typed'
  BY <1>1, BesideClient
<1>4. /\ UNCHANGED <<lock, plan, head>>
      /\ \A d \in Clients \ {c} : cpc'[d] = cpc[d] /\ citem'[d] = citem[d] /\ ckey'[d] = ckey[d]
  BY ClientFrame
<1>5. ASSUME NEW e \in Clients, Late(e), <<citem[e], ckey[e]>> \notin M
      PROVE  e = c /\ ~Late(c)'
  <2>1. Late(e)' => <<citem'[e], ckey'[e]>> \in M
    BY <1>2 DEF Leftover
  <2>2. e # c => Late(e)' /\ citem'[e] = citem[e] /\ ckey'[e] = ckey[e]
    BY <1>4, <1>5 DEF Late
  <2>3. e = c => citem'[e] = citem[e] /\ ckey'[e] = ckey[e]
    BY <1>5, LateStep
  <2>4. QED
    BY <1>5, <2>1, <2>2, <2>3
<1>6. ASSUME NEW x \in L, x \notin M
      PROVE  /\ x = <<citem[c], ckey[c]>> /\ ckey[c] # NoKey
             /\ \/ ~lock /\ ckey[c] = head["encryption"].key
                \/ cpc[c] = "retract" /\ Retract(c)
  <2>1. x \notin overtaken
    BY <1>2, <1>6 DEF Leftover
  <2>2. PICK e \in Clients : Late(e) /\ x = <<citem[e], ckey[e]>>
    BY <1>1, <1>6, <2>1 DEF Leftover
  <2>3. e = c /\ Late(c) /\ ~Late(c)' /\ ckey[c] # NoKey
    BY <1>5, <1>6, <2>2 DEF Late
  <2>4. ~lock /\ (\E p \in Places : head[p].key = ckey[c]) => ckey[c] = head["encryption"].key
    BY <1>1, <2>3, Shapes DEF KeptInv, StoreSound, JournalSound, InLock, Places
  <2>5. QED
    BY <2>2, <2>3, <2>4, LateStep
<1>7. cpc[c] = "put-publish" /\ cpc'[c] = "again-lock" /\ ckey[c] # NoKey => <<citem[c], ckey[c]>> \in M
  <2>1. cpc[c] = "put-publish" => (citem'[c] = citem[c] /\ ckey'[c] = ckey[c]) \/ cpc'[c] = "idle"
    BY DEF ClientNext, ClientStep, Join, StartPut, StartDelete, ClientStops, CheckBefore, CheckKey, MakeItems,
       FindExisting, PublishItem, CheckAgain, Retract, DeleteItem
  <2>2. QED
    BY <1>2, <2>1 DEF Leftover, Late
<1>8. ASSUME NEW d \in held["v2/items"] \cap held'["v2/items"], Id(d) \in L
      PROVE  Id(d) \in M \/ (~lock /\ d.key = head["encryption"].key)
  <2>1. ASSUME Id(d) \notin M, cpc[c] = "retract", Retract(c) PROVE FALSE
    <3>1. d.item = citem[c] /\ d.key = ckey[c] /\ ckey[c] # NoKey
      BY <1>6, <1>8, <2>1 DEF Id
    <3>2. held' = [held EXCEPT !["v2/items"] = {e \in held["v2/items"] : ~SameId(e, MyCopy(c))}]
      BY <2>1, <3>1 DEF Retract, MyFolder, ItemsOf
    <3>3. SameId(d, MyCopy(c))
      BY <3>1 DEF SameId, MyCopy, Whole
    <3>4. "v2/items" \in DOMAIN held
      BY <1>1 DEF KeptInv, Typed, TypeOK, LayoutTypeOK, Folders
    <3>5. QED
      BY <1>8, <3>2, <3>3, <3>4
  <2>2. QED
    BY <1>6, <1>8, <2>1 DEF Id
<1>9. ASSUME plan.kind = "rotate", OldHeader.key # plan.to, NEW d \in held["source"], Id(d) \in L
      PROVE  Id(d) \in M \/ d.key = OldHeader.key
  <2>1. lock
    BY <1>1, <1>9 DEF KeptInv, StoreSound, JournalSound, NoPlan
  <2>2. cpc[c] = "retract" /\ ckey[c] # NoKey => ckey[c] = OldHeader.key \/ <<citem[c], ckey[c]>> \in M
    BY <1>2, <1>9 DEF Current, Sending, Leftover
  <2>3. QED
    BY <1>6, <1>9, <2>1, <2>2 DEF Id
<1>10. KeptInv({}, M)'
  <2>1. ClientsTyped /\ (ckey[c] # NoKey => Encrypted)
    BY DEF KeysHeld
  <2>2. QED
    BY <1>1, <1>3, <1>7, <1>8, <1>9, <2>1, ClientKeeps
<1>11. Current'
  <2>1. SUFFICES ASSUME plan.kind = "rotate", OldHeader.key # plan.to, NEW d \in Clients, cpc'[d] \in Sending, ckey'[d] # NoKey
                 PROVE  ckey'[d] = OldHeader.key \/ <<citem'[d], ckey'[d]>> \in overtaken
    BY <1>4 DEF Current, OldHeader
  <2>2. CASE d # c
    BY <1>4, <2>1, <2>2 DEF Current
  <2>3. CASE d = c
    <3>1. head["encryption"].key # NoKey => OldHeader.key = head["encryption"].key
      BY <1>1, Shapes DEF OldHeader, KeptInv
    <3>2. QED
      BY <2>1, <2>3, <3>1, SendingComes DEF Current
  <2>4. QED
    BY <2>2, <2>3
<1>12. QED
  BY <1>2, <1>10, <1>11

\* Where administrators take turns and devices carry their sends to the end,
\* an open store holds, once no send is under way, nothing under another key
\* than its header's but what was overtaken by a change while it was sent under
\* the key before, and no plaintext where it is encrypted: however many devices
\* send, and whatever is cut short and recovered meanwhile.
THEOREM GuardedSettlesSealed ==
  ASSUME TurnsTaken, Stoppable = {}
  PROVE  Spec => []SettledSealed
<1> DEFINE Inv == Beside /\ KeptInv({}, Leftover) /\ Current
<1>1. Init => Inv
  <2> SUFFICES ASSUME Init PROVE Inv
    OBVIOUS
  <2>1. \A L : KeptInv({}, L)
    BY InitKeeps DEF Init
  <2>2. Current
    BY DEF Init, ChangeInit, Current, NoPlan
  <2>3. QED
    BY <2>1, <2>2, BesideInit
<1>2. Inv /\ [Next]_vars => Inv'
  <2> SUFFICES ASSUME Inv, [Next]_vars PROVE Inv'
    OBVIOUS
  <2>1. CASE UNCHANGED vars
    <3>1. Beside' /\ [ChangeNext]_changeVars
      BY <2>1, BesideSame
    <3>2. \A L : KeptInv({}, L) => KeptInv({}, L)'
      BY <3>1, NextKeeps
    <3>3. UNCHANGED <<cpc, citem, ckey, overtaken, plan, head>>
      BY <2>1 DEF vars, changeVars, layoutVars, clientVars
    <3>4. Leftover' = Leftover /\ Current'
      BY <3>3 DEF Leftover, Late, Current, OldHeader
    <3>5. QED
      BY <3>1, <3>2, <3>4
  <2>2. CASE ChangeNext /\ Watch /\ UNCHANGED clientVars
    <3>1. KeptInv({}, Leftover)' /\ Current'
      BY <2>2, SealedAdmin
    <3>2. \A L : L = Leftover => KeptInv({}, L)
      OBVIOUS
    <3>3. QED
      BY <2>2, <3>1, <3>2, BesideAdmin DEF KeptInv
  <2>3. ASSUME NEW c \in Clients, ClientNext(c), overtaken' = overtaken PROVE Inv'
    <3>1. \A L : L = Leftover => KeptInv({}, L)
      OBVIOUS
    <3>2. Beside'
      BY <2>3, <3>1, BesideClient
    <3>3. QED
      BY <2>3, <3>2, SealedClient
  <2>4. QED
    BY <2>1, <2>2, <2>3 DEF Next
<1>3. Inv => SettledSealed
  <2> SUFFICES ASSUME Inv, \A c \in Clients : cpc[c] = "idle", ~lock
               PROVE  /\ dir["source"] = "absent"
                      /\ \A d \in held["v2/items"] :
                           d.key = head["encryption"].key \/ <<d.item, d.key>> \in overtaken
                      /\ Classify = "encrypted" => held["items"] = {}
    BY DEF SettledSealed
  <2>1. Leftover = overtaken
    BY DEF Leftover, Late
  <2>2. PICK L : L = overtaken /\ KeptInv({}, L)
    BY <2>1
  <2>3. QED
    BY <2>2, KeptSealed DEF SealedCopies
<1>4. QED
  BY <1>1, <1>2, <1>3, PTL DEF Spec

--------------------------------------------------------------------------------
(***************************************************************************)
(* Which folders an item is in.  Nothing an administrator does brings one  *)
(* back that is in none; and an item nobody sends again is in one folder,  *)
(* or in the source of a re-encryption and, under the new key, staged.     *)
(***************************************************************************)
Where(i) == {f \in Folders : \E d \in held[f] : d.item = i}

Single(i) == (\E f \in Folders : Where(i) \subseteq {f}) \/ Where(i) \subseteq {"source", "v2/items"}

\* An item stays where it is, moves, or is copied out of a source.
Flows(i) ==
  \/ Where(i)' \subseteq Where(i)
  \/ \E f \in Where(i), g \in Folders :
       /\ Where(i)' \subseteq (Where(i) \ {f}) \cup {g}
       /\ f = "source" => "v2/items" \notin Where(i)
       /\ f = "v2/items" => "source" \notin Where(i)
  \/ "source" \in Where(i) /\ Where(i)' \subseteq Where(i) \cup {"v2/items"}

LEMMA RemoveFlows ==
  ASSUME Typed, NEW i, NEW f \in Folders, RemoveTree(f) \/ RemoveSome(f)
  PROVE  Flows(i)
<1>1. CASE RemoveTree(f)
  BY <1>1, Shapes DEF RemoveTree, Flows, Where
<1>2. CASE RemoveSome(f)
  <2>1. PICK rest \in SUBSET held[f] : \E torn \in SUBSET rest :
          held' = [held EXCEPT ![f] = (rest \ torn) \cup {Torn(c) : c \in torn}]
    BY <1>2 DEF RemoveSome
  <2>2. PICK torn \in SUBSET rest : held' = [held EXCEPT ![f] = (rest \ torn) \cup {Torn(c) : c \in torn}]
    BY <2>1
  <2>3. \A c \in held[f] : Torn(c).item = c.item
    BY Shapes DEF Torn, Copies
  <2>4. \A d \in held'[f] : \E c \in held[f] : c.item = d.item
    BY <2>2, <2>3, Shapes
  <2>5. \A g \in Folders \ {f} : held'[g] = held[g]
    BY <2>2, Shapes
  <2>6. QED
    BY <2>4, <2>5 DEF Flows, Where
<1>3. QED
  BY <1>1, <1>2

LEMMA RenameFlows ==
  ASSUME Typed, TreeSound, NEW i, NEW f \in Folders, NEW g \in Folders, f # g, Rename(f, g),
         f = "source" => held["v2/items"] = {}, f = "v2/items" => g = "source"
  PROVE  Flows(i)
<1>1. /\ held'[g] = held[f] /\ held'[f] = {} /\ held[g] = {}
      /\ \A h \in Folders \ {f, g} : held'[h] = held[h]
  BY Shapes DEF Rename, TreeSound
<1>2. CASE f \in Where(i)
  <2>1. Where(i)' \subseteq (Where(i) \ {f}) \cup {g}
    BY <1>1, <1>2 DEF Where
  <2>2. /\ f = "source" => "v2/items" \notin Where(i)
        /\ f = "v2/items" => "source" \notin Where(i)
    BY <1>1 DEF Where
  <2>3. QED
    BY <1>2, <2>1, <2>2 DEF Flows
<1>3. CASE f \notin Where(i)
  BY <1>1, <1>3 DEF Where, Flows
<1>4. QED
  BY <1>2, <1>3

LEMMA EntryFlows ==
  ASSUME Typed, NEW i, NEW f \in Folders \ {"v2/items"}, NEW g \in Folders, f # g, PlainCopies(f),
         f = "source" => held["v2/items"] = {}, NEW c \in held[f],
         held' = [held EXCEPT ![f] = @ \ {c}, ![g] = IF \E d \in @ : SameId(c, d) THEN @ ELSE @ \cup {c}]
  PROVE  Flows(i)
<1>1. /\ held'[f] = held[f] \ {c} /\ held'[g] \subseteq held[g] \cup {c}
      /\ \A h \in Folders \ {f, g} : held'[h] = held[h]
  BY Shapes
<1>2. CASE c.item # i
  BY <1>1, <1>2 DEF Where, Flows
<1>3. CASE c.item = i
  <2>1. \A d \in held[f] : d.item = i => d = c
    BY <1>3 DEF PlainCopies
  <2>2. f \in Where(i) /\ f \notin Where(i)'
    BY <1>1, <1>3, <2>1 DEF Where
  <2>3. Where(i)' \subseteq (Where(i) \ {f}) \cup {g}
    <3>1. \A h \in Folders \ {f, g} : h \in Where(i)' => h \in Where(i)
      BY <1>1 DEF Where
    <3>2. Where(i)' \subseteq Folders
      BY DEF Where
    <3>3. QED
      BY <2>2, <3>1, <3>2
  <2>4. f = "source" => "v2/items" \notin Where(i)
    BY DEF Where
  <2>5. QED
    BY <2>2, <2>3, <2>4 DEF Flows
<1>4. QED
  BY <1>2, <1>3

LEMMA FoldNextFlows ==
  ASSUME NEW S, NEW L, KeptInv(S, L), NEW i, NEW a \in Admins, FoldStep(a)
  PROVE  Flows(i)
<1> USE DEF KeptInv
<1> DEFINE from == job[a].from
           to   == job[a].to
<1>1. /\ from \in Folders \ {"v2/items"} /\ to \in Folders /\ from # to /\ PlainCopies(from)
      /\ from = "source" => held["v2/items"] = {}
  <2>1. pc[a] \in {"clear-fold", "reclear-fold", "source-fold", "rev-fold"} =>
          /\ from \in {"items", "plain/items"} /\ to \in Folders /\ from # to
    BY DEF Knows, Folding, Moves, Folders
  <2>2. ASSUME pc[a] = "unsource-fold"
        PROVE  from = "source" /\ to = "items" /\ held["v2/items"] = {} /\ PlainCopies("source")
    <3>1. /\ plan # NoPlan /\ plan.kind = "migrate" /\ ~Swapped /\ held["v2/items"] = {}
          /\ from = "source" /\ to = "items"
      BY <2>2 DEF Knows, Folding, Moves, Undoing, Backward, Unstaging
    <3>2. MigrateGoing(S, L) /\ ~Committed(S, L)
      BY <3>1 DEF StoreSound, JournalSound, Under, Committed, Swapped
    <3>3. QED
      BY <3>1, <3>2 DEF MigrateGoing, MigrateOpen
  <2>3. pc[a] \in {"clear-fold", "reclear-fold", "source-fold", "rev-fold", "unsource-fold"}
    BY DEF FoldStep, FoldNext
  <2>4. QED
    BY <2>1, <2>2, <2>3 DEF StoreSound, TreeSound, Folders
<1>2. ASSUME NEW folding, NEW done, FoldNext(a, folding, done) PROVE Flows(i)
  <2>1. CASE RemoveTree(from)
    BY <1>1, <2>1, RemoveFlows
  <2>2. ASSUME NEW c \in job[a].todo \cap held[from],
               held' = [held EXCEPT ![from] = @ \ {c}, ![to] = IF \E d \in @ : SameId(c, d) THEN @ ELSE @ \cup {c}]
        PROVE  Flows(i)
    BY <1>1, <2>2, EntryFlows
  <2>3. QED
    BY <1>2, <2>1, <2>2 DEF FoldNext
<1>3. QED
  BY <1>2 DEF FoldStep

LEMMA StepFlows ==
  ASSUME NEW S, NEW L, KeptInv(S, L), NEW i, NEW a \in Admins, Step(a)
  PROVE  Flows(i)
<1> USE DEF KeptInv
<1>1. TreeSound /\ Typed
  BY DEF StoreSound
<1>2. CASE held' = held
  BY <1>2 DEF Flows, Where
<1>3. \A f \in Folders : RemoveTree(f) => Flows(i)
  BY <1>1, RemoveFlows
<1>4. \A f, g \in Folders :
        f # g /\ Rename(f, g) /\ (f = "source" => held["v2/items"] = {}) /\ (f = "v2/items" => g = "source")
          => Flows(i)
  BY <1>1, RenameFlows
<1>5. ASSUME NEW f, NEW g, NEW folding, NEW done, Fold(a, f, g, folding, done)
      PROVE  Rename(f, g) \/ held' = held
  BY <1>5 DEF Fold, SameTree
<1>6. CASE ClearItems(a)
  <2>1. RemoveTree("items") \/ Rename("items", "plain/items") \/ held' = held
    BY <1>5, <1>6, Zenon DEF ClearItems, SameTree
  <2>2. QED
    BY <1>2, <1>3, <1>4, <2>1 DEF Folders
<1>7. CASE MoveSource(a)
  <2>1. Rename(SourceItems(job[a].kind), "source") \/ held' = held
    BY <1>7, Zenon DEF MoveSource, SameTree, MakeFolder
  <2>2. QED
    BY <1>2, <1>4, <2>1 DEF SourceItems, Folders
<1>8. CASE FoldIntoSource(a)
  <2>1. Rename("items", "source") \/ held' = held
    BY <1>5, <1>8 DEF FoldIntoSource
  <2>2. QED
    BY <1>2, <1>4, <2>1 DEF Folders
<1>9. CASE Copy(a)
  <2>1. ASSUME NEW c \in held["source"],
               held' = [held EXCEPT !["v2/items"] = @ \cup {Whole(c.item, job[a].hdr.key)}]
        PROVE  Flows(i)
    <3>1. /\ held'["v2/items"] = held["v2/items"] \cup {Whole(c.item, job[a].hdr.key)}
          /\ \A f \in Folders \ {"v2/items"} : held'[f] = held[f]
      BY <1>1, <2>1, Shapes DEF Folders
    <3>2. Whole(c.item, job[a].hdr.key).item = c.item
      BY DEF Whole
    <3>3. Where(i)' \subseteq Where(i) \cup (IF c.item = i THEN {"v2/items"} ELSE {})
      BY <3>1, <3>2 DEF Where
    <3>4. c.item = i => "source" \in Where(i)
      BY DEF Where, Folders
    <3>5. QED
      BY <3>3, <3>4 DEF Flows
  <2>2. QED
    BY <1>2, <1>9, <2>1 DEF Copy, SameTree
<1>10. CASE CleanSource(a) \/ Release(a)
  BY <1>3, <1>10 DEF CleanSource, Release, Folders
<1>11. CASE Unstage(a)
  <2>1. RemoveTree("v2/items") \/ held' = held
    BY <1>11 DEF Unstage, SameTree
  <2>2. QED
    BY <1>2, <1>3, <2>1 DEF Folders
<1>12. CASE RestoreSource(a)
  <2>1. CASE Rename("source", "v2/items")
    <3>1. held["v2/items"] = {}
      BY <1>1, <2>1 DEF Rename, TreeSound, Folders
    <3>2. QED
      BY <1>4, <2>1, <3>1 DEF Folders
  <2>2. CASE job[a].kind = "migrate" /\ Rename("source", "items")
    <3>1. held["v2/items"] = {}
      BY <1>12, <2>2 DEF RestoreSource, Knows, Undoing, Backward, Unstaging
    <3>2. QED
      BY <1>4, <2>2, <3>1 DEF Folders
  <2>3. Rename("source", "v2/items") \/ (job[a].kind = "migrate" /\ Rename("source", "items")) \/ held' = held
    BY <1>5, <1>12 DEF RestoreSource, SameTree
  <2>4. QED
    BY <1>2, <2>1, <2>2, <2>3
<1>13. CASE RestorePlain(a)
  <2>1. Rename("plain/items", "items") \/ held' = held
    BY <1>5, <1>13 DEF RestorePlain, SameTree
  <2>2. QED
    BY <1>2, <1>4, <2>1 DEF Folders
<1>14. CASE Publish(a) \/ PublishRefused(a) \/ WriteStopFile(a) \/ Verify(a) \/ Install(a) \/ Swap(a)
            \/ Finish(a) \/ Undo(a) \/ RemoveStopFile(a) \/ RestoreHead(a) \/ RevertNew(a) \/ RevertOld(a)
            \/ RevertWords(a) \/ Refused(a)
  <2>1. held' = held
    BY <1>14 DEF Publish, PublishRefused, WriteStopFile, StopStep, RestopStep, Verify, Install, Swap,
       Finish, Undo, RemoveStopFile, RestoreHead, RevertNew, RevertOld, RevertWords, Refused, GiveUp, layoutVars
  <2>2. QED
    BY <1>2, <2>1
<1>15. QED
  BY <1>6, <1>7, <1>8, <1>9, <1>10, <1>11, <1>12, <1>13, <1>14, FoldNextFlows DEF Step

LEMMA AdminFlows ==
  ASSUME NEW S, NEW L, KeptInv(S, L), NEW i, NEW a \in Admins, Start(a) \/ Step(a) \/ Faults(a)
  PROVE  Flows(i)
<1>1. CASE held' = held
  BY <1>1 DEF Flows, Where
<1>2. CASE Start(a)
  BY <1>1, <1>2 DEF Start, Inspect, ClaimRecovery, TakeOverRecovery, layoutVars
<1>3. CASE Faults(a)
  <2>1. CASE CrashRemoving(a)
    <3>1. RemoveSome("source") \/ RemoveSome("v2/items")
      BY <2>1 DEF CrashRemoving
    <3>2. QED
      BY <3>1, RemoveFlows DEF Folders, KeptInv
  <2>2. QED
    BY <1>1, <1>3, <2>1 DEF Faults, Fail, Crash, CrashReleasing, GiveUp, layoutVars
<1>4. QED
  BY <1>2, <1>3, StepFlows

(***************************************************************************)
(* What was deleted.                                                       *)
(***************************************************************************)
\* What no device deletes may be out of place, what one may delete never is.
Undeletable == (Items \ Deletes) \X (Keys \cup {NoKey})

\* What was deleted is nowhere, and what may be is in one folder.
GoneNowhere == (\A i \in gone : Where(i) = {}) /\ \A i \in Deletes : Single(i)

\* All sealed copies that are in place are under one key, the new one as long
\* as there is a source.
LEMMA OneSealed ==
  ASSUME NEW S, NEW L, KeptInv(S, L)
  PROVE  /\ \E k : SealedCopies(L, "v2/items", k)
         /\ held["source"] # {} =>
              plan # NoPlan /\ plan.kind \in Rewrites /\ SealedCopies(L, "v2/items", plan.to)
<1> USE Shapes DEF KeptInv
<1>1. dir["source"] = "absent" => held["source"] = {}
  BY DEF StoreSound, TreeSound, Folders
<1>2. ASSUME AtRest(S, L) PROVE dir["source"] = "absent" /\ \E k : SealedCopies(L, "v2/items", k)
  BY <1>2 DEF AtRest, PlainRest, SealedRest, SealedCopies
<1>3. ASSUME plan # NoPlan
      PROVE  /\ \E k : SealedCopies(L, "v2/items", k)
             /\ held["source"] # {} => plan.kind \in Rewrites /\ SealedCopies(L, "v2/items", plan.to)
  <2>1. Under(S, L) /\ plan.kind \in Kinds
    BY <1>3 DEF StoreSound, JournalSound
  <2>2. CASE plan.kind = "words"
    BY <1>1, <2>1, <2>2 DEF Under, WordsGoing, SealedRest
  <2>3. CASE plan.kind \in {"set-up", "fresh-start"}
    BY <1>1, <2>1, <2>3 DEF Under, SetUpGoing, SealedCopies
  <2>4. CASE plan.kind = "migrate"
    BY <2>1, <2>4 DEF Under, MigrateGoing, MigrateOpen, Committed, Rewrites
  <2>5. CASE plan.kind = "rotate"
    BY <1>1, <2>1, <2>5 DEF Under, RotateGoing, RotateOpen, Committed, Rewrites
  <2>6. QED
    BY <2>1, <2>2, <2>3, <2>4, <2>5 DEF Kinds, HeaderChanges, Rewrites
<1>4. QED
  BY <1>1, <1>2, <1>3 DEF StoreSound, JournalSound

\* What a device deletes is in no other folder, nor under another key in its own.
LEMMA DeletesAll ==
  ASSUME KeptInv({}, Undeletable), Beside, GoneNowhere, NEW c \in Clients, cpc[c] = "del-rename", Present(c),
         NEW i, i = citem[c],
         held' = [held EXCEPT ![MyFolder(c)] = {d \in @ : ~SameId(d, MyCopy(c))}]
  PROVE  Where(i)' = {}
<1> USE Shapes DEF KeptInv
<1> DEFINE f == MyFolder(c)
<1>1. i \in Deletes /\ i \in Items
  BY DEF Beside, Errands, Putting, ClientSteps, ClientsTyped
<1>2. f = IF ckey[c] = NoKey THEN "items" ELSE "v2/items"
  BY DEF MyFolder, ItemsOf
<1>3. PICK d0 \in held[f] : d0.item = i /\ d0.key = ckey[c]
  BY DEF Present, SameId, MyCopy, Whole
<1>4. \A d \in held'[f] : d \in held[f] /\ ~(d.item = i /\ d.key = ckey[c])
  BY <1>2 DEF SameId, MyCopy, Whole, Folders
<1>5. \A g \in Folders \ {f} : held'[g] = held[g]
  BY <1>2 DEF Folders
<1>6. PICK L : L = Undeletable /\ KeptInv({}, L)
  OBVIOUS
<1>7. \A k : <<i, k>> \notin L
  BY <1>1, <1>6 DEF Undeletable
<1>8. ASSUME NEW d \in held[f], d.item = i PROVE d.key = ckey[c]
  <2>1. CASE f = "items"
    BY <1>2, <1>8, <2>1 DEF StoreSound, TreeSound, PlainCopies, Whole
  <2>2. CASE f = "v2/items"
    <3>1. PICK k : SealedCopies(L, "v2/items", k)
      BY <1>6, OneSealed
    <3>2. QED
      BY <1>3, <1>7, <1>8, <2>2, <3>1 DEF SealedCopies
  <2>3. QED
    BY <1>2, <2>1, <2>2
<1>9. f \in Where(i) /\ Single(i)
  BY <1>1, <1>2, <1>3 DEF Where, GoneNowhere, Folders
<1>10. f = "v2/items" => "source" \notin Where(i)
  <2>1. SUFFICES ASSUME f = "v2/items", "source" \in Where(i) PROVE FALSE
    OBVIOUS
  <2>2. plan # NoPlan /\ plan.kind \in Rewrites /\ SealedCopies(L, "v2/items", plan.to)
    BY <1>6, <2>1, OneSealed DEF Where
  <2>3. ckey[c] = plan.to
    BY <1>3, <1>7, <2>1, <2>2 DEF SealedCopies
  <2>4. QED
    BY <2>2, <2>3 DEF Beside, KeysHeld, Rewrites
<1>11. Where(i) = {f}
  BY <1>2, <1>9, <1>10 DEF Single
<1>12. ASSUME NEW g \in Folders, NEW d \in held'[g], d.item = i PROVE FALSE
  BY <1>4, <1>5, <1>8, <1>11, <1>12 DEF Where
<1>13. QED
  BY <1>12 DEF Where

LEMMA GoneClient ==
  ASSUME \A c \in Clients : Sends[c] \cap Deletes = {},
         KeptInv({}, Undeletable), Beside, GoneNowhere, NEW c \in Clients, ClientNext(c), overtaken' = overtaken
  PROVE  Beside' /\ KeptInv({}, Undeletable)' /\ GoneNowhere'
<1>1. PICK L : L = Undeletable /\ KeptInv({}, L)
  OBVIOUS
<1>2. Typed' /\ Beside' /\ Typed
  BY <1>1, BesideClient DEF KeptInv
<1>3. cpc[c] \in Putting => citem[c] \in Items \ Deletes
  BY DEF Beside, Errands, ClientsTyped, Putting
<1>4. KeptInv({}, L)'
  <2>1. ClientsTyped /\ (ckey[c] # NoKey => Encrypted)
    BY DEF Beside, KeysHeld
  <2>2. cpc[c] = "put-publish" => <<citem[c], ckey[c]>> \in L
    BY <1>1, <1>3 DEF Undeletable, Putting, Beside, ClientsTyped
  <2>3. QED
    BY <1>1, <1>2, <2>1, <2>2, ClientKeeps
<1>5. cpc[c] # "idle" => citem[c] \in Items
  BY DEF Beside, ClientsTyped
<1>6. GoneNowhere'
  <2>1. CASE held' = held /\ gone' \subseteq gone
    BY <2>1 DEF GoneNowhere, Where, Single
  <2>2. CASE /\ cpc[c] = "put-publish"
             /\ held' = [held EXCEPT ![MyFolder(c)] = @ \cup {MyCopy(c)}]
             /\ gone' = gone \ {citem[c]}
    <3>1. MyCopy(c).item = citem[c] /\ citem[c] \notin Deletes
      BY <1>3, <2>2 DEF MyCopy, Whole, Putting
    <3>2. \A f \in Folders : held'[f] = held[f] \/ held'[f] = held[f] \cup {MyCopy(c)}
      BY <1>2, <2>2, Shapes
    <3>3. \A i : i # citem[c] => Where(i)' \subseteq Where(i)
      BY <3>1, <3>2 DEF Where
    <3>4. QED
      BY <2>2, <3>1, <3>3 DEF GoneNowhere, Single
  <2>3. CASE /\ held' = [held EXCEPT ![MyFolder(c)] = {d \in @ : ~SameId(d, MyCopy(c))}]
             /\ gone' = gone \/ (cpc[c] = "del-rename" /\ Present(c) /\ gone' = gone \cup {citem[c]})
    <3>1. \A f \in Folders : held'[f] \subseteq held[f]
      BY <1>2, <2>3, Shapes
    <3>2. \A i : Where(i)' \subseteq Where(i)
      BY <3>1 DEF Where
    <3>3. \A i : cpc[c] = "del-rename" /\ Present(c) /\ i = citem[c] => Where(i)' = {}
      BY <2>3, DeletesAll
    <3>4. QED
      BY <2>3, <3>2, <3>3 DEF GoneNowhere, Single
  <2>4. \/ gone' \subseteq gone
        \/ /\ cpc[c] = "del-rename" /\ Present(c) /\ gone' = gone \cup {citem[c]}
           /\ held' = [held EXCEPT ![MyFolder(c)] = {d \in @ : ~SameId(d, MyCopy(c))}]
    BY ClientTold DEF Beside
  <2>5. QED
    BY <1>2, <2>1, <2>2, <2>3, <2>4, ClientTree DEF Beside, Typed, MakeFolder
<1>7. QED
  BY <1>1, <1>2, <1>4, <1>6

LEMMA GoneAdmin ==
  ASSUME TurnsTaken, LateItems = {}, KeptInv({}, Undeletable), GoneNowhere, ChangeNext, UNCHANGED clientVars
  PROVE  KeptInv({}, Undeletable)' /\ GoneNowhere'
<1>1. KeptInv({}, Undeletable)'
  BY NextKeeps
<1>2. gone' = gone
  BY DEF clientVars
<1>3. ~LateDevice
  BY DEF LateDevice
<1>4. \A i : Flows(i)
  BY <1>3, AdminFlows DEF ChangeNext
<1>5. \A i : Where(i) = {} => Where(i)' = {}
  BY <1>4 DEF Flows
<1>6. ASSUME NEW i, Single(i) PROVE Single(i)'
  <2>1. CASE Where(i)' \subseteq Where(i)
    BY <1>6, <2>1 DEF Single
  <2>2. ASSUME NEW f \in Where(i), NEW g \in Folders, Where(i)' \subseteq (Where(i) \ {f}) \cup {g},
               f = "source" => "v2/items" \notin Where(i), f = "v2/items" => "source" \notin Where(i)
        PROVE  Single(i)'
    <3>1. CASE \E h \in Folders : Where(i) \subseteq {h}
      BY <2>2, <3>1 DEF Single
    <3>2. CASE Where(i) \subseteq {"source", "v2/items"}
      BY <2>2, <3>2 DEF Single, Folders
    <3>3. QED
      BY <1>6, <3>1, <3>2 DEF Single
  <2>3. CASE "source" \in Where(i) /\ Where(i)' \subseteq Where(i) \cup {"v2/items"}
    BY <1>6, <2>3 DEF Single
  <2>4. QED
    BY <1>4, <2>1, <2>2, <2>3 DEF Flows
<1>7. QED
  BY <1>1, <1>2, <1>5, <1>6 DEF GoneNowhere

\* An item devices deleted never comes back to an open store, whatever changes
\* run and are undone meanwhile, and whichever devices delete beside them, when
\* none sends it again.  (A second send of it may: a copy published late, under
\* the key before the change, is what a delete then finds and hides, while the
\* first one waits in the source of the change and is put back by its undo.)
THEOREM GuardedStaysGone ==
  ASSUME TurnsTaken, LateItems = {}, \A c \in Clients : Sends[c] \cap Deletes = {}
  PROVE  Spec => []GoneStaysGone
<1> DEFINE Inv == Beside /\ KeptInv({}, Undeletable) /\ GoneNowhere
<1>1. Init => Inv
  <2> SUFFICES ASSUME Init PROVE Inv
    OBVIOUS
  <2>1. KeptInv({}, Undeletable)
    BY InitKeeps DEF Init
  <2>2. \E k : \E f \in Folders : /\ held[f] = {Whole(i, k) : i \in kept}
                                   /\ \A g \in Folders \ {f} : held[g] = {}
    BY DEF Init, ChangeInit, Folders
  <2>3. \E f \in Folders : \A i : Where(i) \subseteq {f} /\ (i \notin kept => Where(i) = {})
    BY <2>2 DEF Where, Whole
  <2>4. QED
    BY <2>1, <2>3, BesideInit DEF Init, GoneNowhere, Single
<1>2. Inv /\ [Next]_vars => Inv'
  <2> SUFFICES ASSUME Inv, [Next]_vars PROVE Inv'
    OBVIOUS
  <2>1. CASE UNCHANGED vars
    <3>1. Beside' /\ [ChangeNext]_changeVars /\ held' = held /\ gone' = gone
      BY <2>1, BesideSame DEF vars, changeVars, layoutVars, clientVars
    <3>2. KeptInv({}, Undeletable)'
      BY <3>1, NextKeeps
    <3>3. QED
      BY <3>1, <3>2 DEF GoneNowhere, Where, Single
  <2>2. CASE ChangeNext /\ Watch /\ UNCHANGED clientVars
    <3>1. KeptInv({}, Undeletable)' /\ GoneNowhere'
      BY <2>2, GoneAdmin
    <3>2. QED
      BY <2>2, <3>1, BesideAdmin DEF KeptInv
  <2>3. ASSUME NEW c \in Clients, ClientNext(c), overtaken' = overtaken PROVE Inv'
    BY <2>3, GoneClient
  <2>4. QED
    BY <2>1, <2>2, <2>3 DEF Next
<1>3. Inv => GoneStaysGone
  BY DEF GoneNowhere, Where, GoneStaysGone, ItemsOf, Folders
<1>4. QED
  BY <1>1, <1>2, <1>3, PTL DEF Spec

--------------------------------------------------------------------------------
(***************************************************************************)
(* What devices were told is kept, while changes cut short are recovered   *)
(* by finishing them.  An item is to stay from when it is in place under   *)
(* the key the store has or is about to have: a send told that its item is *)
(* stored finds that it is, or was deleted, and a send whose key is out    *)
(* takes nothing away but its own.                                         *)
(***************************************************************************)
\* The key the store has, or has once the change under way is finished.
Target == IF plan # NoPlan THEN plan.to ELSE head["encryption"].key
Outrun(c) == ckey[c] # Target

\* No look at the header, or at the stop file, will let c pass any more.
Barred(c) == IF ckey[c] = NoKey THEN Shut ELSE \A p \in Places : head[p].key # ckey[c]

\* What c finds is to stay, and no copy of it under its key is out of place.
Found(S, L, c) ==
  /\ Present(c) => citem[c] \in S
  /\ ckey[c] # NoKey => <<citem[c], ckey[c]>> \notin L

\* What c may be told is kept is to stay, at whatever step c is, unless it was
\* deleted meanwhile.
Promised(S, L, c) ==
  /\ cpc[c] \in Putting => citem[c] \notin kept
  /\ cpc[c] \in {"put-head", "put-stop"} => Found(S, L, c) \/ Barred(c)
  /\ cpc[c] \in {"put-folder", "put-find", "put-publish"} => Found(S, L, c)
  /\ cpc[c] = "again-lock" => citem[c] \in S \cup gone \/ Outrun(c)
  /\ cpc[c] \in {"again-head", "again-stop"} => citem[c] \in S \cup gone \/ Barred(c)

Promises(S, L) ==
  /\ kept \subseteq S /\ S \subseteq Items /\ S \cap LateItems \subseteq kept
  /\ \A c \in Clients : Promised(S, L, c)

\* Sealed copies come whole and leave whole, as nothing is undone.
OnlyForward == \A a \in Admins : job[a].mode # "undo"
AllWhole    == \A d \in held["v2/items"] : d.whole

\* Each item has at most one device that sends it; any may delete it.
SendsApart ==
  \A c \in Clients : /\ Sends[c] \cap LateItems = {}
                     /\ \A d \in Clients \ {c} : Sends[c] \cap Sends[d] = {}

LEMMA GoesForward ==
  ASSUME Recoveries \subseteq {"finish"}, Typed, OnlyForward, NEW a \in Admins, Start(a) \/ Step(a) \/ Faults(a)
  PROVE  OnlyForward'
<1> USE DEF Typed, TypeOK, OnlyForward
<1>1. SUFFICES job'[a].mode # "undo" /\ \A b \in Admins \ {a} : job'[b] = job[b]
  OBVIOUS
<1>2. NoJob.mode # "undo"
  BY DEF NoJob
<1>3. CASE job' = job \/ job' = [job EXCEPT ![a] = NoJob]
  BY <1>2, <1>3
<1>4. CASE Start(a)
  <2>1. CASE TakeOverRecovery(a)
    BY <1>3, <2>1 DEF TakeOverRecovery
  <2>2. ASSUME NEW kind, Inspect(a, kind) PROVE job'[a].mode # "undo" /\ \A b \in Admins \ {a} : job'[b] = job[b]
    BY <2>2 DEF Inspect, NoJob
  <2>3. ASSUME NEW mode \in Recoveries, ClaimRecovery(a, mode)
        PROVE  job'[a].mode # "undo" /\ \A b \in Admins \ {a} : job'[b] = job[b]
    BY <2>3 DEF ClaimRecovery, NoJob
  <2>4. QED
    BY <1>4, <2>1, <2>2, <2>3 DEF Start
<1>5. CASE Faults(a)
  BY <1>3, <1>5 DEF Faults, Fail, Crash, CrashRemoving, CrashReleasing, GiveUp
<1>6. CASE Step(a)
  <2>1. ASSUME NEW f, NEW g, NEW folding, NEW done, Fold(a, f, g, folding, done)
        PROVE  job'[a].mode # "undo" /\ \A b \in Admins \ {a} : job'[b] = job[b]
    <3>1. job' = job \/ job' = [job EXCEPT ![a] = [job[a] EXCEPT !.from = f, !.to = g, !.todo = held[f]]]
      BY <2>1 DEF Fold
    <3>2. job'[a].mode = job[a].mode
      BY <2>1, FoldProgress
    <3>3. QED
      BY <3>1, <3>2
  <2>2. CASE FoldStep(a)
    <3>1. job'[a].mode = job[a].mode
      BY <2>2, FoldNextProgress DEF FoldStep
    <3>2. job' = job \/ \E c : job' = [job EXCEPT ![a].todo = @ \ {c}]
      BY <2>2 DEF FoldStep, FoldNext
    <3>3. QED
      BY <3>1, <3>2
  <2>3. CASE ClearItems(a) \/ FoldIntoSource(a) \/ RestoreSource(a) \/ RestorePlain(a)
    <3>1. job' = job \/ \E f, g, folding, done : Fold(a, f, g, folding, done)
      <4>1. CASE ClearItems(a)
        BY <4>1, Zenon DEF ClearItems
      <4>2. CASE FoldIntoSource(a) \/ RestoreSource(a) \/ RestorePlain(a)
        BY <4>2, Zenon DEF FoldIntoSource, RestoreSource, RestorePlain
      <4>3. QED
        BY <2>3, <4>1, <4>2
    <3>2. QED
      BY <1>3, <2>1, <3>1
  <2>4. CASE Finish(a) \/ Undo(a)
    <3>1. \/ job' = [job EXCEPT ![a] = [job[a] EXCEPT !.kind = plan.kind, !.hdr = Unfinished, !.old = head["old-header"]]]
          \/ job' = [job EXCEPT ![a] = [job[a] EXCEPT !.kind = plan.kind]]
      BY <2>4 DEF Finish, Undo
    <3>2. /\ \A b \in Admins \ {a} : job'[b] = job[b]
          /\ \/ job'[a] = [job[a] EXCEPT !.kind = plan.kind, !.hdr = Unfinished, !.old = head["old-header"]]
             \/ job'[a] = [job[a] EXCEPT !.kind = plan.kind]
      BY <3>1
    <3>3. job[a] \in Jobs /\ job[a].mode # "undo"
      OBVIOUS
    <3>4. job'[a].mode = job[a].mode
      BY <3>2, <3>3 DEF Jobs
    <3>5. QED
      BY <3>2, <3>3, <3>4
  <2>5. CASE ~(FoldStep(a) \/ ClearItems(a) \/ FoldIntoSource(a) \/ RestoreSource(a) \/ RestorePlain(a)
               \/ Finish(a) \/ Undo(a))
    <3>1. job' = job \/ job' = [job EXCEPT ![a] = NoJob]
      BY <1>6, <2>5 DEF Step, Publish, PublishRefused, WriteStopFile, StopStep, RestopStep, MoveSource, Copy,
         Verify, Install, Swap, CleanSource, Release, Unstage, RemoveStopFile, RestoreHead, RevertNew, RevertOld,
         RevertWords, Refused, GiveUp
    <3>2. QED
      BY <1>3, <3>1
  <2>6. QED
    BY <2>2, <2>3, <2>4, <2>5
<1>7. QED
  BY <1>4, <1>5, <1>6

\* Then no step of an undo is ever at hand.
LEMMA NoBackward ==
  ASSUME NEW S, NEW L, KeptInv(S, L), OnlyForward, NEW a \in Admins
  PROVE  pc[a] \notin Backward \cup {"undo"}
BY DEF KeptInv, Knows, Undoing, OnlyForward

\* Going forward takes items out of where devices keep them, never puts one
\* back, and the stop file stays; only the copies of a re-encryption come.
LEMMA ForwardTree ==
  ASSUME NEW S, NEW L, KeptInv(S, L), OnlyForward, NEW a \in Admins, Start(a) \/ Step(a) \/ Faults(a)
  PROVE  /\ Shut => Shut'
         /\ held'["items"] \subseteq held["items"]
         /\ \A d \in held'["v2/items"] :
              \/ d \in held["v2/items"]
              \/ plan # NoPlan /\ plan.kind \in Rewrites /\ d.key = plan.to /\ d.whole
<1> USE Shapes DEF KeptInv
<1> DEFINE Goal ==
  /\ Shut => Shut'
  /\ held'["items"] \subseteq held["items"]
  /\ \A d \in held'["v2/items"] :
       \/ d \in held["v2/items"]
       \/ plan # NoPlan /\ plan.kind \in Rewrites /\ d.key = plan.to /\ d.whole
<1>1. ASSUME held' = held, dir' = dir \/ dir' = [dir EXCEPT !["items"] = "file"] \/ dir' = [dir EXCEPT !["source"] = "folder"]
      PROVE  Goal
  BY <1>1 DEF Shut, Folders
<1>2. ASSUME NEW f \in Folders, f = "items" => ~Shut, RemoveTree(f) \/ (f = "source" /\ RemoveSome(f)) PROVE Goal
  BY <1>2 DEF RemoveTree, RemoveSome, Shut, Folders
<1>3. ASSUME NEW f \in Folders, NEW g \in {"source", "plain/items"}, f = "items" => ~Shut, Rename(f, g) PROVE Goal
  BY <1>3 DEF Rename, Shut, Folders
<1>4. pc[a] \notin Backward \cup {"undo"}
  BY NoBackward
<1>5. ASSUME NEW f, NEW g, NEW folding, NEW done, Fold(a, f, g, folding, done)
      PROVE  Rename(f, g) \/ (held' = held /\ dir' = dir)
  BY <1>5 DEF Fold, SameTree
<1>6. CASE ClearItems(a)
  <2>1. \/ dir["items"] = "folder" /\ (RemoveTree("items") \/ Rename("items", "plain/items"))
        \/ held' = held /\ dir' = dir
    BY <1>5, <1>6, Zenon DEF ClearItems, SameTree
  <2>2. QED
    BY <1>1, <1>2, <1>3, <2>1 DEF Folders, Shut
<1>7. CASE FoldStep(a)
  <2>1. PICK folding, done : FoldNext(a, folding, done) /\ folding \in {"clear-fold", "reclear-fold", "source-fold"}
    <3>1. pc[a] \notin {"unsource-fold", "rev-fold"}
      BY <1>4 DEF Backward, Unstaging, Reverting
    <3>2. ~FoldNext(a, "unsource-fold", "release") /\ ~FoldNext(a, "rev-fold", "release")
      BY <3>1 DEF FoldNext
    <3>3. QED
      BY <1>7, <3>2 DEF FoldStep
  <2> DEFINE from == job[a].from
             to   == job[a].to
  <2>2. /\ from = "items" /\ to \in {"plain/items", "source"} /\ dir["items"] = "folder"
    BY <2>1 DEF FoldNext, Knows, Folding, Moves
  <2>3. CASE RemoveTree(from)
    BY <1>2, <2>2, <2>3 DEF Folders, Shut
  <2>4. ASSUME NEW c, dir' = dir,
               held' = [held EXCEPT ![from] = @ \ {c}, ![to] = IF \E d \in @ : SameId(c, d) THEN @ ELSE @ \cup {c}]
        PROVE  Goal
    BY <2>2, <2>4 DEF Folders, Shut
  <2>5. QED
    <3>1. RemoveTree(from) \/ \E c : /\ dir' = dir
            /\ held' = [held EXCEPT ![from] = @ \ {c}, ![to] = IF \E d \in @ : SameId(c, d) THEN @ ELSE @ \cup {c}]
      BY <2>1, Zenon DEF FoldNext
    <3>2. QED
      BY <2>3, <2>4, <3>1
<1>8. CASE MoveSource(a)
  <2>1. CASE dir["source"] # "absent"
    BY <1>1, <1>8, <2>1 DEF MoveSource, SameTree
  <2>2. CASE dir["source"] = "absent" /\ dir[SourceItems(job[a].kind)] = "folder" /\ Rename(SourceItems(job[a].kind), "source")
    BY <1>3, <2>2 DEF SourceItems, Folders, Shut
  <2>3. CASE MakeFolder("source")
    BY <1>1, <2>3 DEF MakeFolder
  <2>4. QED
    BY <1>8, <2>1, <2>2, <2>3, Zenon DEF MoveSource
<1>9. CASE FoldIntoSource(a)
  <2>1. dir["items"] = "folder"
    BY <1>9 DEF FoldIntoSource, Knows, Going, Forward, Moving
  <2>2. Rename("items", "source") \/ (held' = held /\ dir' = dir)
    BY <1>5, <1>9 DEF FoldIntoSource
  <2>3. QED
    BY <1>1, <1>3, <2>1, <2>2 DEF Folders, Shut
<1>10. CASE Copy(a)
  <2>1. plan # NoPlan /\ job[a].hdr.key = plan.to /\ plan.kind \in Rewrites
    BY <1>10 DEF Copy, Knows, Going, Forward
  <2>2. \/ \E c : /\ held' = [held EXCEPT !["v2/items"] = @ \cup {Whole(c.item, job[a].hdr.key)}]
                  /\ dir' = [dir EXCEPT !["v2/items"] = "folder"]
        \/ held' = held /\ dir' = dir
    BY <1>10 DEF Copy, SameTree
  <2>3. QED
    BY <1>1, <2>1, <2>2 DEF Folders, Whole, Shut
<1>11. CASE CleanSource(a) \/ Release(a)
  BY <1>2, <1>11 DEF CleanSource, Release, Folders
<1>12. CASE WriteStopFile(a)
  BY <1>1, <1>12 DEF WriteStopFile, StopStep, RestopStep
<1>13. CASE CrashRemoving(a)
  BY <1>2, <1>4, <1>13 DEF CrashRemoving, Backward, Unstaging, Folders
<1>14. CASE Publish(a) \/ PublishRefused(a) \/ Verify(a) \/ Install(a) \/ Swap(a) \/ Finish(a) \/ Undo(a)
            \/ RestoreHead(a) \/ RevertNew(a) \/ RevertOld(a) \/ RevertWords(a) \/ Refused(a)
            \/ Start(a) \/ Fail(a) \/ Crash(a) \/ CrashReleasing(a)
  <2>1. held' = held /\ dir' = dir
    <3>1. CASE Start(a)
      BY <3>1, Zenon DEF Start, Inspect, ClaimRecovery, TakeOverRecovery, layoutVars
    <3>2. CASE Refused(a) \/ Fail(a) \/ Crash(a) \/ CrashReleasing(a)
      BY <3>2 DEF Refused, Fail, Crash, CrashReleasing, GiveUp, layoutVars
    <3>3. QED
      BY <1>14, <3>1, <3>2 DEF Publish, PublishRefused, Verify, Install, Swap, Finish, Undo, RestoreHead, RevertNew,
         RevertOld, RevertWords, layoutVars
  <2>2. QED
    BY <1>1, <2>1
<1>15. ~(Unstage(a) \/ RemoveStopFile(a) \/ RestoreSource(a) \/ RestorePlain(a))
  BY <1>4 DEF Unstage, RemoveStopFile, RestoreSource, RestorePlain, Backward, Unstaging, Reverting
<1>16. QED
  BY <1>6, <1>7, <1>8, <1>9, <1>10, <1>11, <1>12, <1>13, <1>14, <1>15 DEF Step, Faults

LEMMA OutrunStays ==
  ASSUME NEW S, NEW L, KeptInv(S, L), OnlyForward, KeysHeld, ckey' = ckey,
         NEW a \in Admins, Start(a) \/ Step(a) \/ Faults(a), NEW c \in Clients, Outrun(c)
  PROVE  Outrun(c)'
<1> USE DEF KeptInv, Outrun, Target
<1>1. CASE Publish(a) /\ plan = NoPlan /\ plan' # NoPlan /\ plan'.to = job[a].hdr.key
  <2>1. CASE job[a].kind = "words"
    BY <1>1, <2>1 DEF Publish, Knows, Ready
  <2>2. CASE job[a].kind # "words"
    BY <1>1, <2>2 DEF Publish, KeysHeld
  <2>3. QED
    BY <2>1, <2>2
<1>2. CASE plan # NoPlan /\ plan' = plan
  BY <1>2
<1>3. CASE /\ Release(a) \/ CrashReleasing(a)
           /\ plan' \in {plan, NoPlan} /\ head'["encryption"] = head["encryption"]
  <2>1. plan # NoPlan /\ head["encryption"].key = plan.to
    BY <1>3 DEF Release, CrashReleasing, Knows, Ending, OnlyForward
  <2>2. QED
    BY <1>3, <2>1
<1>4. CASE plan' = plan /\ (plan = NoPlan => head' = head)
  BY <1>4
<1>5. QED
  BY <1>1, <1>2, <1>3, <1>4, HeadMoves

LEMMA BarredStays ==
  ASSUME NEW S, NEW L, KeptInv(S, L), OnlyForward, KeysHeld, ckey' = ckey,
         NEW a \in Admins, Start(a) \/ Step(a) \/ Faults(a), NEW c \in Clients, Barred(c)
  PROVE  Barred(c)'
<1>1. CASE ckey[c] = NoKey
  BY <1>1, ForwardTree DEF Barred
<1>2. CASE ckey[c] # NoKey
  <2>1. \A q \in Places : head[q].key # ckey[c]
    BY <1>2 DEF Barred
  <2>2. Publish(a) => job[a].hdr.key # ckey[c]
    <3>1. Publish(a) /\ job[a].kind = "words" => job[a].hdr.key = head["encryption"].key
      BY DEF Publish, KeptInv, Knows, Ready
    <3>2. Publish(a) /\ job[a].kind # "words" => job[a].hdr.key # ckey[c]
      BY DEF Publish, KeysHeld
    <3>3. QED
      BY <2>1, <3>1, <3>2 DEF Places
  <2>3. \A p \in Places : head'[p].key # ckey[c]
    BY <1>2, <2>1, <2>2, KeysCome
  <2>4. QED
    BY <1>2, <2>3 DEF Barred
<1>3. QED
  BY <1>1, <1>2

\* In an open store the two are the same but for a key that comes back to be
\* refused: who does not hold the store's key is not let pass.
LEMMA OutrunBarred ==
  ASSUME NEW S, NEW L, KeptInv(S, L), ~lock, NEW c \in Clients
  PROVE  plan = NoPlan /\ (ckey[c] # head["encryption"].key => Barred(c))
<1> USE Shapes DEF KeptInv
<1>1. plan = NoPlan /\ AtRest(S, L) /\ \A p \in InLock : head[p] = NoHeader
  BY DEF StoreSound, JournalSound
<1>2. head["encryption"].key # NoKey => Shut
  BY <1>1 DEF AtRest, SealedRest, Places
<1>3. ckey[c] # NoKey /\ ckey[c] # head["encryption"].key => \A p \in Places : head[p].key # ckey[c]
  BY <1>1 DEF InLock, Places
<1>4. QED
  BY <1>1, <1>2, <1>3 DEF Barred

\* No administrator puts an item where a device finds it again.
LEMMA PresentStays ==
  ASSUME NEW S, NEW L, KeptInv(S, L), OnlyForward, KeysHeld, ckey' = ckey, citem' = citem,
         NEW a \in Admins, Start(a) \/ Step(a) \/ Faults(a), NEW c \in Clients, Present(c)'
  PROVE  Present(c)
<1>1. MyFolder(c)' = MyFolder(c) /\ MyCopy(c)' = MyCopy(c) /\ MyCopy(c).key = ckey[c]
  BY DEF MyFolder, MyCopy, Whole
<1>2. PICK d \in held'[MyFolder(c)] : SameId(d, MyCopy(c))
  BY <1>1 DEF Present, SameId
<1>3. d \in held[MyFolder(c)]
  <2>1. CASE MyFolder(c) = "items"
    BY <1>2, <2>1, ForwardTree
  <2>2. CASE MyFolder(c) = "v2/items"
    <3>1. ~(plan # NoPlan /\ plan.kind \in Rewrites /\ d.key = plan.to)
      BY <1>1, <1>2 DEF SameId, KeysHeld, Rewrites
    <3>2. QED
      BY <1>2, <2>2, <3>1, ForwardTree
  <2>3. QED
    BY <2>1, <2>2 DEF MyFolder, ItemsOf
<1>4. QED
  BY <1>2, <1>3 DEF Present

\* A device past its check stores nothing that another one sends.
LEMMA PresentLate ==
  ASSUME Typed, SendsApart, Errands, LateDevice, ckey' = ckey, citem' = citem,
         NEW c \in Clients, cpc[c] \in Putting, Present(c)'
  PROVE  Present(c)
<1> USE Shapes
<1>1. /\ MyFolder(c)' = MyFolder(c) /\ MyCopy(c)' = MyCopy(c) /\ MyCopy(c).item = citem[c]
      /\ MyFolder(c) \in {"items", "v2/items"}
  BY DEF MyFolder, ItemsOf, MyCopy, Whole
<1>2. PICK d \in held'[MyFolder(c)] : SameId(d, MyCopy(c))
  BY <1>1 DEF Present, SameId
<1>3. citem[c] \notin LateItems
  BY DEF Errands, SendsApart
<1>4. \/ held' = held
      \/ \E i \in LateItems : held' = [held EXCEPT !["items"] = @ \cup {Whole(i, NoKey)}]
      \/ \E i : held' = [held EXCEPT !["items"] = @ \ {Whole(i, NoKey)}]
  BY DEF LateDevice, MakeFolder
<1>5. \A i : Whole(i, NoKey).item = i
  BY DEF Whole
<1>6. d.item = citem[c]
  BY <1>1, <1>2 DEF SameId
<1>7. d \in held[MyFolder(c)]
  BY <1>1, <1>2, <1>3, <1>4, <1>5, <1>6 DEF Folders
<1>8. QED
  BY <1>2, <1>7 DEF Present

LEMMA PromisesAdmin ==
  ASSUME TurnsTaken, Recoveries \subseteq {"finish"}, SendsApart, ChangeNext, UNCHANGED clientVars,
         NEW S, NEW L, Beside, KeptInv(S, L), OnlyForward, AllWhole, Promises(S, L)
  PROVE  KeptInv(S, L)' /\ OnlyForward' /\ AllWhole' /\ Promises(S, L)'
<1>1. KeptInv(S, L)'
  BY NextKeeps DEF Promises
<1>2. kept' = kept /\ cpc' = cpc /\ citem' = citem /\ ckey' = ckey /\ gone' = gone
  BY NextFrame DEF clientVars
<1>3. ASSUME \A c \in Clients : /\ cpc[c] \in Putting => (Present(c)' => Present(c))
                                /\ Outrun(c) => Outrun(c)'
                                /\ Barred(c) => Barred(c)'
      PROVE  Promises(S, L)'
  <2>1. \A c \in Clients : Promised(S, L, c)'
    BY <1>2, <1>3 DEF Promises, Promised, Found, Putting
  <2>2. QED
    BY <1>2, <2>1 DEF Promises
<1>4. ASSUME NEW a \in Admins, Start(a) \/ Step(a) \/ Faults(a) PROVE OnlyForward' /\ AllWhole' /\ Promises(S, L)'
  <2>1. OnlyForward'
    BY <1>4, GoesForward DEF KeptInv
  <2>2. AllWhole'
    BY <1>4, ForwardTree DEF AllWhole
  <2>3. Promises(S, L)'
    BY <1>2, <1>3, <1>4, PresentStays, OutrunStays, BarredStays DEF Beside
  <2>4. QED
    BY <2>1, <2>2, <2>3
<1>5. CASE LateDevice
  <2>1. /\ UNCHANGED <<plan, head, job>> /\ ~Shut /\ held'["v2/items"] = held["v2/items"]
    <3>1. job' = job /\ UNCHANGED <<plan, head>> /\ ~Shut
      BY <1>5, LateEffect DEF Promises
    <3>2. held'["v2/items"] = held["v2/items"]
      BY <1>5, LateEffect DEF Promises, Folders
    <3>3. QED
      BY <3>1, <3>2
  <2>2. \A c \in Clients : (Outrun(c) => Outrun(c)') /\ (Barred(c) => Barred(c)')
    BY <1>2, <2>1 DEF Outrun, Target, Barred
  <2>3. ASSUME NEW c \in Clients, cpc[c] \in Putting, Present(c)' PROVE Present(c)
    <3>1. Typed /\ Errands
      BY DEF Beside, KeptInv
    <3>2. QED
      BY <1>2, <1>5, <2>3, <3>1, PresentLate
  <2>4. \A c \in Clients : cpc[c] \in Putting => (Present(c)' => Present(c))
    BY <2>3
  <2>5. Promises(S, L)'
    BY <1>3, <2>2, <2>4
  <2>6. QED
    BY <1>1, <2>1, <2>5 DEF OnlyForward, AllWhole
<1>6. QED
  BY <1>1, <1>4, <1>5 DEF ChangeNext

\* The copies in `v2/items/` are under one key, but for what is out of place;
\* while plaintext devices may still write, no device holds that key.
LEMMA OneKeyInPlace ==
  ASSUME NEW S, NEW L, KeptInv(S, L), KeysHeld
  PROVE  \A d \in held["v2/items"] :
           /\ d.key = InPlace \/ <<d.item, d.key>> \in L
           /\ ~Shut /\ d.key = InPlace => \A c \in Clients : ckey[c] # d.key
<1> USE Shapes DEF KeptInv
<1> SUFFICES ASSUME NEW d \in held["v2/items"]
             PROVE  /\ d.key = InPlace \/ <<d.item, d.key>> \in L
                    /\ ~Shut /\ d.key = InPlace => \A c \in Clients : ckey[c] # d.key
  OBVIOUS
<1>1. CASE plan = NoPlan
  <2>1. AtRest(S, L)
    BY <1>1 DEF StoreSound, JournalSound
  <2>2. SealedRest(S, L, head["encryption"].key)
    BY <2>1 DEF AtRest, PlainRest
  <2>3. QED
    BY <1>1, <2>2 DEF SealedRest, SealedCopies, InPlace
<1>2. CASE plan # NoPlan
  <2>1. Under(S, L) /\ plan.kind \in Kinds
    BY <1>2 DEF StoreSound, JournalSound
  <2>2. CASE plan.kind = "words"
    BY <1>2, <2>1, <2>2 DEF Under, WordsGoing, SealedRest, SealedCopies, InPlace
  <2>3. CASE plan.kind \in {"set-up", "fresh-start"}
    BY <2>1, <2>3 DEF Under, SetUpGoing
  <2>4. ASSUME Committed(S, L) PROVE Shut /\ SealedCopies(L, "v2/items", plan.to) /\ InPlace = plan.to
    BY <1>2, <2>4 DEF Committed, InPlace, OldHeader
  <2>5. CASE plan.kind = "migrate"
    <3>1. InPlace = plan.to /\ \A c \in Clients : ckey[c] # plan.to
      BY <1>2, <2>5 DEF InPlace, KeysHeld
    <3>2. SealedCopies(L, "v2/items", plan.to)
      BY <2>1, <2>4, <2>5 DEF Under, MigrateGoing, MigrateOpen
    <3>3. QED
      BY <3>1, <3>2 DEF SealedCopies
  <2>6. CASE plan.kind = "rotate"
    <3>1. ASSUME RotateOpen(S, L) PROVE Shut /\ SealedCopies(L, "v2/items", InPlace)
      BY <1>2, <2>6, <3>1 DEF RotateOpen, InPlace
    <3>2. Shut /\ SealedCopies(L, "v2/items", InPlace)
      BY <2>1, <2>4, <2>6, <3>1 DEF Under, RotateGoing
    <3>3. QED
      BY <3>2 DEF SealedCopies
  <2>7. QED
    BY <2>1, <2>2, <2>3, <2>5, <2>6 DEF Kinds, HeaderChanges, Rewrites
<1>3. QED
  BY <1>1, <1>2

\* A device that finds its item finds no copy of it once another has deleted
\* the one that counts.
LEMMA FoundDeleted ==
  ASSUME NEW S, NEW L, KeptInv(S, L), Beside, NEW c \in Clients, NEW e \in Clients \ {c}, Found(S, L, e),
         Present(c), citem[e] = citem[c], ckey[c] \in {NoKey, InPlace},
         UNCHANGED <<ckey[e], citem[e]>>,
         held' = [held EXCEPT ![MyFolder(c)] = {d \in @ : ~SameId(d, MyCopy(c))}]
  PROVE  ~Present(e)'
<1> USE Shapes DEF KeptInv
<1>1. SUFFICES ASSUME Present(e)' PROVE FALSE
  OBVIOUS
<1>2. /\ MyFolder(e)' = MyFolder(e) /\ MyCopy(e)' = MyCopy(e) /\ MyFolder(e) \in Folders /\ MyFolder(c) \in Folders
      /\ MyCopy(e).item = citem[c] /\ MyCopy(e).key = ckey[e] /\ MyCopy(c).item = citem[c] /\ MyCopy(c).key = ckey[c]
  BY DEF MyFolder, MyCopy, ItemsOf, Whole, Folders
<1>3. PICK d \in held'[MyFolder(e)] : SameId(d, MyCopy(e))
  BY <1>1, <1>2 DEF Present, SameId
<1>4. d \in held[MyFolder(e)] /\ d.item = citem[e] /\ d.key = ckey[e]
  BY <1>2, <1>3 DEF SameId
<1>5. PICK g \in held[MyFolder(c)] : g.key = ckey[c]
  BY <1>2 DEF Present, SameId
<1>6. ckey[e] # ckey[c]
  BY <1>2, <1>3 DEF MyFolder, SameId
<1>7. held["items"] # {} => ~Shut
  BY DEF StoreSound, TreeSound, Shut, Folders
<1>8. CASE ckey[e] # NoKey
  <2>1. d \in held["v2/items"] /\ <<d.item, d.key>> \notin L
    BY <1>4, <1>8 DEF Found, MyFolder, ItemsOf
  <2>2. ckey[c] = NoKey
    BY <1>4, <1>6, <2>1, OneKeyInPlace DEF Beside
  <2>3. ~Shut
    BY <1>5, <1>7, <2>2 DEF MyFolder, ItemsOf
  <2>4. QED
    BY <1>4, <2>1, <2>3, OneKeyInPlace DEF Beside
<1>9. CASE ckey[e] = NoKey
  <2>1. g \in held["v2/items"] /\ g.key = InPlace
    BY <1>5, <1>6, <1>9 DEF MyFolder, ItemsOf
  <2>2. ~Shut
    BY <1>4, <1>7, <1>9 DEF MyFolder, ItemsOf
  <2>3. QED
    BY <1>5, <2>1, <2>2, OneKeyInPlace DEF Beside
<1>10. QED
  BY <1>8, <1>9

\* The others' promises are as they were: no other device sends what c does,
\* and what c deletes they are not told is kept.
LEMMA PromisedOther ==
  ASSUME NEW S, NEW T, NEW L, NEW M, KeptInv(S, L), Beside, SendsApart,
         NEW c \in Clients, NEW e \in Clients \ {c}, ClientNext(c), Promised(S, L, e),
         S \ {citem[c]} \subseteq T, M \subseteq L \cup {<<citem[c], ckey[c]>>},
         cpc[c] \notin Putting =>
           /\ M = L
           /\ \/ S \subseteq T
              \/ cpc[c] = "del-rename" /\ held' # held /\ (ckey[c] \in {NoKey, InPlace} \/ citem[c] \in LateItems)
  PROVE  Promised(T, M, e)'
<1> USE Shapes DEF KeptInv
<1>1. UNCHANGED <<plan, head>> /\ cpc'[e] = cpc[e] /\ citem'[e] = citem[e] /\ ckey'[e] = ckey[e]
  BY ClientFrame DEF Beside
<1>2. cpc[e] \in Putting /\ cpc[c] \in Putting => citem[e] # citem[c]
  BY DEF Beside, Errands, SendsApart
<1>3. cpc[e] \in Putting => citem[e] \notin LateItems
  BY DEF Beside, Errands, SendsApart
<1>4. MyFolder(e)' = MyFolder(e) /\ MyCopy(e)' = MyCopy(e) /\ MyCopy(e).item = citem[e] /\ MyCopy(c).item = citem[c]
      /\ MyFolder(e) \in Folders /\ MyFolder(c) \in {"items", "v2/items"}
  BY <1>1 DEF MyFolder, MyCopy, ItemsOf, Whole, Folders
<1>5. /\ Shut' = Shut
      /\ \A f \in Folders : \A d \in held'[f] : d \in held[f] \/ (cpc[c] \in Putting /\ d = MyCopy(c))
  <2>1. CASE UNCHANGED <<dir, held>>
    BY <2>1 DEF Shut
  <2>2. CASE dir[MyFolder(c)] # "file" /\ MakeFolder(MyFolder(c))
    BY <1>4, <2>2 DEF MakeFolder, Shut, Folders
  <2>3. CASE cpc[c] = "put-publish" /\ dir' = dir /\ held' = [held EXCEPT ![MyFolder(c)] = @ \cup {MyCopy(c)}]
    BY <1>4, <2>3 DEF Shut, Folders, Putting
  <2>4. CASE dir' = dir /\ held' = [held EXCEPT ![MyFolder(c)] = {d \in @ : ~SameId(d, MyCopy(c))}]
    BY <1>4, <2>4 DEF Shut, Folders
  <2>5. QED
    BY <2>1, <2>2, <2>3, <2>4, ClientTree DEF Beside, Typed
<1>6. cpc[e] \in Putting /\ Present(e)' => Present(e)
  <2> SUFFICES ASSUME cpc[e] \in Putting, Present(e)' PROVE Present(e)
    OBVIOUS
  <2>1. PICK d \in held'[MyFolder(e)] : SameId(d, MyCopy(e))
    BY <1>4 DEF Present, SameId
  <2>2. d.item = citem[e]
    BY <1>4, <2>1 DEF SameId
  <2>3. d \in held[MyFolder(e)]
    BY <1>2, <1>4, <1>5, <2>1, <2>2
  <2>4. QED
    BY <2>1, <2>3 DEF Present
<1>7. cpc[e] \in Putting => /\ citem[e] \notin kept => citem[e] \notin kept'
                            /\ citem[e] \in gone => citem[e] \in gone'
                            /\ <<citem[e], ckey[e]>> \notin L => <<citem[e], ckey[e]>> \notin M
  BY <1>2, ClientTold DEF Beside, Putting
<1>8. (Outrun(e) => Outrun(e)') /\ (Barred(e) => Barred(e)')
  BY <1>1, <1>5 DEF Outrun, Target, Barred
<1>9. ASSUME cpc[e] \in Putting, citem[e] \in S => citem[e] \in T PROVE Promised(T, M, e)'
  <2>1. Found(S, L, e) => Found(T, M, e)'
    BY <1>1, <1>6, <1>7, <1>9 DEF Found
  <2>2. QED
    BY <1>1, <1>7, <1>8, <1>9, <2>1 DEF Promised
<1>10. ASSUME cpc[e] \in Putting, citem[e] = citem[c], cpc[c] = "del-rename", held' # held, ckey[c] \in {NoKey, InPlace}
       PROVE  Promised(T, M, e)'
  <2>1. /\ Present(c) /\ gone' = gone \cup {citem[c]}
        /\ held' = [held EXCEPT ![MyFolder(c)] = {d \in @ : ~SameId(d, MyCopy(c))}]
    <3>1. cpc[c] = "del-rename" => DeleteItem(c) \/ held' = held
      BY DEF ClientNext, ClientStep, Join, StartPut, StartDelete, ClientStops, CheckBefore, CheckKey, MakeItems,
         FindExisting, PublishItem, CheckAgain, Retract, layoutVars
    <3>2. QED
      BY <1>10, <3>1 DEF DeleteItem
  <2>2. Found(S, L, e) => Found(T, M, e)'
    BY <1>1, <1>7, <1>10, <2>1, FoundDeleted DEF Found
  <2>3. QED
    BY <1>1, <1>7, <1>8, <1>10, <2>1, <2>2 DEF Promised
<1>11. cpc[e] \notin Putting => Promised(T, M, e)'
  BY <1>1 DEF Promised, Putting
<1>12. QED
  BY <1>2, <1>3, <1>9, <1>10, <1>11

\* What there is to show when a device takes a step: T is to stay after it, and
\* M may be out of place.
LEMMA PromisesMove ==
  ASSUME SendsApart, NEW S, NEW T, NEW L, NEW M, KeptInv(S, L), Beside, AllWhole, Promises(S, L),
         NEW c \in Clients, ClientNext(c), overtaken' = overtaken,
         S \ {citem[c]} \subseteq T, T \subseteq Items,
         \A i \in T : i \in S \/ Settles(i)',
         cpc[c] \in {"retract", "del-rename"} => held' = held \/ citem[c] \notin T \/ ckey[c] \notin {NoKey, InPlace},
         kept' \subseteq T, T \cap LateItems \subseteq kept', Promised(T, M, c)',
         L \ {<<citem[c], ckey[c]>>} \subseteq M, M \subseteq L \cup {<<citem[c], ckey[c]>>},
         <<citem[c], ckey[c]>> \in L \ M => ~lock /\ ckey[c] = head["encryption"].key,
         cpc[c] = "put-publish" /\ cpc'[c] = "again-lock" /\ ckey[c] # NoKey => <<citem[c], ckey[c]>> \in M,
         cpc[c] \notin Putting =>
           /\ M = L
           /\ \/ S \subseteq T
              \/ cpc[c] = "del-rename" /\ held' # held /\ (ckey[c] \in {NoKey, InPlace} \/ citem[c] \in LateItems)
  PROVE  KeptInv(T, M)' /\ AllWhole' /\ Promises(T, M)'
<1> USE Shapes
<1>1. Typed /\ Typed' /\ Beside' /\ ClientsTyped
  BY BesideClient DEF KeptInv, Beside
<1>2. KeptInv(T, M)'
  <2>1. \A d \in held["v2/items"] : Id(d) \in L => Id(d) \in M \/ (~lock /\ d.key = head["encryption"].key)
    BY DEF Id
  <2>2. plan.kind = "rotate" => lock
    BY DEF KeptInv, StoreSound, JournalSound, NoPlan
  <2>3. \A d \in held["source"] : plan.kind = "rotate" /\ Id(d) \in L => Id(d) \in M
    BY <2>2 DEF Id
  <2>4. ckey[c] # NoKey => Encrypted
    BY DEF Beside, KeysHeld
  <2>5. QED
    BY <1>1, <2>1, <2>3, <2>4, ClientKeeps
<1>3. AllWhole'
  <2>1. MyCopy(c).whole /\ MyFolder(c) \in Folders /\ "v2/items" \in Folders
    BY DEF MyCopy, Whole, MyFolder, ItemsOf, Folders
  <2>2. \A d \in held'["v2/items"] : d \in held["v2/items"] \/ d = MyCopy(c)
    BY <1>1, <2>1, ClientTree DEF MakeFolder, Typed
  <2>3. QED
    BY <2>1, <2>2 DEF AllWhole
<1>4. \A e \in Clients \ {c} : Promised(T, M, e)'
  <2>1. \A e \in Clients : Promised(S, L, e)
    BY DEF Promises
  <2>2. QED
    BY <1>1, <2>1, PromisedOther
<1>5. QED
  BY <1>2, <1>3, <1>4 DEF Promises

\* A send that looks before a change begins finds its item already in place,
\* or does not pass its next look.
LEMMA FoundInPlace ==
  ASSUME NEW S, NEW L, KeptInv(S, L), Beside, AllWhole, NEW c \in Clients, Present(c), ckey[c] = head["encryption"].key
  PROVE  Whole(citem[c], head["encryption"].key) \in held[ItemsOf(head["encryption"].key)]
<1> USE Shapes DEF KeptInv
<1>1. PICK d \in held[MyFolder(c)] : SameId(d, MyCopy(c))
  BY DEF Present
<1>2. d.item = citem[c] /\ d.key = ckey[c]
  BY <1>1 DEF SameId, MyCopy, Whole
<1>3. MyFolder(c) = ItemsOf(head["encryption"].key) /\ MyFolder(c) \in Folders
  BY DEF MyFolder, ItemsOf, Folders
<1>4. CASE ckey[c] = NoKey
  <2>1. PlainCopies("items") /\ MyFolder(c) = "items"
    BY <1>4 DEF StoreSound, TreeSound, MyFolder, ItemsOf
  <2>2. d = Whole(d.item, NoKey)
    BY <1>1, <2>1 DEF PlainCopies
  <2>3. QED
    BY <1>1, <1>2, <1>3, <1>4, <2>2
<1>5. CASE ckey[c] # NoKey
  <2>1. d.whole
    BY <1>1, <1>5 DEF AllWhole, MyFolder, ItemsOf
  <2>2. d \in Copies
    BY <1>1, <1>3
  <2>3. d = Whole(d.item, d.key)
    BY <2>1, <2>2 DEF Copies, Whole
  <2>4. QED
    BY <1>1, <1>2, <1>3, <2>3
<1>6. QED
  BY <1>4, <1>5

\* What a send publishes under the key the store has or is to have is in place.
LEMMA PublishedInPlace ==
  ASSUME NEW S, NEW L, KeptInv(S, L), Beside, NEW c \in Clients, NEW i, i = citem[c], ~Outrun(c),
         UNCHANGED <<plan, head>>, held' = [held EXCEPT ![MyFolder(c)] = @ \cup {MyCopy(c)}]
  PROVE  Settles(i)'
<1> USE Shapes DEF KeptInv
<1>1. MyFolder(c) \in Folders /\ MyFolder(c) = ItemsOf(ckey[c]) /\ MyCopy(c) = Whole(citem[c], ckey[c])
  BY DEF MyFolder, MyCopy, ItemsOf, Folders
<1>2. MyCopy(c) \in held'[MyFolder(c)]
  BY <1>1
<1>3. CASE plan = NoPlan
  BY <1>1, <1>2, <1>3 DEF Outrun, Target, Settles
<1>4. CASE plan # NoPlan
  <2>1. ckey[c] = plan.to /\ plan.to # NoKey
    BY <1>4 DEF Outrun, Target
  <2>2. plan.kind = "words"
    BY <1>4, <2>1 DEF Beside, KeysHeld
  <2>3. MyFolder(c) = "v2/items"
    BY <1>1, <2>1 DEF ItemsOf
  <2>4. Whole(citem[c], plan.to) \in held'["v2/items"]
    BY <1>1, <1>2, <2>1, <2>3
  <2>5. QED
    BY <2>4, <1>4, <2>2 DEF Settles
<1>5. QED
  BY <1>3, <1>4

LEMMA PromisesClient ==
  ASSUME SendsApart, NEW S, NEW L, L \subseteq Ids, KeptInv(S, L), Beside, AllWhole, Promises(S, L),
         NEW c \in Clients, ClientNext(c), overtaken' = overtaken
  PROVE  AllWhole' /\ \E T \in SUBSET Items, M \in SUBSET Ids : KeptInv(T, M)' /\ Promises(T, M)'
<1> USE Shapes DEF CGoto
<1> DEFINE Mine == <<citem[c], ckey[c]>>
           Fine(T, M) ==
             /\ S \ {citem[c]} \subseteq T /\ \A i \in T : i \in S \/ Settles(i)'
             /\ cpc[c] \in {"retract", "del-rename"} => held' = held \/ citem[c] \notin T \/ ckey[c] \notin {NoKey, InPlace}
             /\ kept' \subseteq T /\ T \cap LateItems \subseteq kept' /\ Promised(T, M, c)'
             /\ L \ {Mine} \subseteq M /\ M \subseteq L \cup {Mine}
             /\ Mine \in L \ M => ~lock /\ ckey[c] = head["encryption"].key
             /\ cpc[c] = "put-publish" /\ cpc'[c] = "again-lock" /\ ckey[c] # NoKey => Mine \in M
             /\ cpc[c] \notin Putting =>
                  /\ M = L
                  /\ \/ S \subseteq T
                     \/ /\ cpc[c] = "del-rename" /\ held' # held
                        /\ ckey[c] \in {NoKey, InPlace} \/ citem[c] \in LateItems
           Done == \E T \in SUBSET Items, M \in SUBSET Ids : Fine(T, M)
<1>1. SUFFICES Done
  <2>1. PICK T \in SUBSET Items, M \in SUBSET Ids : Fine(T, M)
    BY <1>1
  <2>2. KeptInv(T, M)' /\ AllWhole' /\ Promises(T, M)'
    BY <2>1, PromisesMove
  <2>3. QED
    BY <2>2
<1>2. /\ kept \subseteq S /\ S \subseteq Items /\ S \cap LateItems \subseteq kept /\ Promised(S, L, c)
      /\ ClientsTyped /\ Errands /\ Typed
  BY DEF Promises, Beside, KeptInv
<1>3. ASSUME kept \subseteq kept', kept' \subseteq S, cpc[c] \in {"retract", "del-rename"} => held' = held,
             cpc[c] # "put-publish" \/ cpc'[c] # "again-lock", Promised(S, L, c)'
      PROVE  Done
  <2>1. Fine(S, L)
    BY <1>2, <1>3
  <2>2. QED
    BY <1>2, <2>1
<1>4. ASSUME cpc[c] \in Putting, kept' = kept, cpc[c] # "retract", citem'[c] = citem[c], ckey'[c] = ckey[c],
             NEW T, T = S \/ T = S \cup {citem[c]}, \A i \in T : i \in S \/ Settles(i)',
             NEW M, \/ M = L \cup {Mine}
                    \/ M = L \ {Mine} /\ ~lock /\ ckey[c] = head["encryption"].key /\ cpc[c] # "put-publish",
             Promised(T, M, c)'
      PROVE  Done
  <2>1. citem[c] \in Items /\ citem[c] \notin LateItems /\ Mine \in Ids
    BY <1>2, <1>4 DEF ClientsTyped, Errands, SendsApart, Putting, Ids
  <2>2. S \ {citem[c]} \subseteq T /\ kept' \subseteq T /\ T \cap LateItems \subseteq kept'
    BY <1>2, <1>4, <2>1
  <2>3. cpc[c] \notin {"retract", "del-rename"}
    BY <1>4 DEF Putting
  <2>4. L \ {Mine} \subseteq M /\ M \subseteq L \cup {Mine}
    BY <1>4
  <2>5. /\ Mine \in L \ M => ~lock /\ ckey[c] = head["encryption"].key
        /\ cpc[c] = "put-publish" => Mine \in M
    BY <1>4
  <2>6. Fine(T, M)
    BY <1>4, <2>2, <2>3, <2>4, <2>5
  <2>7. T \in SUBSET Items /\ M \in SUBSET Ids
    BY <1>2, <1>4, <2>1
  <2>8. QED
    BY <2>6, <2>7
<1> HIDE DEF Done
<1>5. ASSUME cpc'[c] \in ClientSteps \ Putting PROVE \A T, M : Promised(T, M, c)'
  BY <1>5 DEF Promised, Putting
<1>6. UNCHANGED <<plan, head>> /\ MyCopy(c).item = citem[c]
  BY <1>2, ClientFrame DEF MyCopy, Whole
<1>7. CASE Join(c) \/ ClientStops(c) \/ \E i \in Items : StartDelete(c, i)
  <2>1. held' = held /\ kept' = kept /\ cpc'[c] \in {"idle", "del-lock"}
    BY <1>2, <1>7 DEF Join, ClientStops, StartDelete, layoutVars, ClientsTyped
  <2>2. QED
    BY <1>2, <1>3, <1>5, <2>1 DEF ClientSteps, Putting
<1>8. ASSUME NEW i \in Items, StartPut(c, i) PROVE Done
  <2>1. held' = held /\ kept' = kept /\ cpc'[c] = "put-lock" /\ citem'[c] = i /\ i \notin kept
    BY <1>2, <1>8 DEF StartPut, layoutVars, ClientsTyped
  <2>2. Promised(S, L, c)'
    BY <2>1 DEF Promised
  <2>3. QED
    BY <1>2, <1>3, <2>1, <2>2
<1>9. CASE CheckBefore(c)
  <2>1. UNCHANGED <<held, kept, dir, lock, citem, ckey>> /\ cpc[c] \notin {"put-publish", "retract", "del-rename"}
    BY <1>9 DEF CheckBefore, CheckKey, layoutVars
  <2>2. Present(c)' = Present(c) /\ Barred(c)' = Barred(c) /\ Found(S, L, c)' = Found(S, L, c)
    BY <1>6, <2>1 DEF Present, MyFolder, MyCopy, Barred, Shut, Found
  <2>3. CASE cpc'[c] \in ClientSteps \ Putting
    BY <1>2, <1>3, <1>5, <2>1, <2>3
  <2>4. CASE cpc[c] = "put-lock" /\ cpc'[c] = "put-head"
    <3>1. ~lock /\ citem[c] \notin kept
      BY <1>2, <1>9, <2>4 DEF CheckBefore, CheckKey, ClientsTyped, Promised, Putting
    <3>2. plan = NoPlan /\ (ckey[c] # head["encryption"].key => Barred(c))
      BY <3>1, OutrunBarred
    <3>3. CASE ckey[c] = head["encryption"].key
      <4>1. PICK T : T = IF Present(c) THEN S \cup {citem[c]} ELSE S
        OBVIOUS
      <4>2. PICK M : M = L \ {Mine}
        OBVIOUS
      <4>3. Present(c) => Whole(citem[c], head["encryption"].key) \in held[ItemsOf(head["encryption"].key)]
        BY <3>3, FoundInPlace
      <4>4. Present(c) => \A i : i = citem[c] => Settles(i)'
        BY <1>6, <2>1, <3>2, <4>3 DEF Settles, ItemsOf
      <4>5. Promised(T, M, c)'
        BY <2>1, <2>2, <2>4, <3>1, <4>1, <4>2 DEF Promised, Found
      <4>6. (T = S \/ T = S \cup {citem[c]}) /\ \A i \in T : i \in S \/ Settles(i)'
        BY <4>1, <4>4
      <4>7. QED
        BY <1>4, <2>1, <2>4, <3>1, <3>3, <4>2, <4>5, <4>6 DEF Putting
    <3>4. CASE ckey[c] # head["encryption"].key
      <4>1. Promised(S, L, c)'
        BY <2>1, <2>2, <2>4, <3>1, <3>2, <3>4 DEF Promised
      <4>2. QED
        BY <1>2, <1>3, <2>1, <2>4, <4>1
    <3>5. QED
      BY <3>3, <3>4
  <2>5. CASE cpc[c] \in {"put-head", "put-stop"} /\ cpc'[c] \in {"put-stop", "put-folder"}
    <3>1. citem[c] \notin kept /\ (Found(S, L, c) \/ Barred(c))
      BY <1>2, <2>5 DEF Promised, Putting
    <3>2. cpc'[c] = "put-folder" => ~Barred(c)
      <4>1. CASE cpc[c] = "put-head"
        BY <1>2, <1>9, <2>5, <4>1 DEF CheckBefore, CheckKey, HeaderStands, ClientsTyped, Barred, Places
      <4>2. CASE cpc[c] = "put-stop"
        BY <1>2, <1>9, <2>5, <4>2 DEF CheckBefore, CheckKey, ClientsTyped, Barred, Shut, Errands
      <4>3. QED
        BY <2>5, <4>1, <4>2
    <3>3. Promised(S, L, c)'
      BY <2>1, <2>2, <2>5, <3>1, <3>2 DEF Promised
    <3>4. QED
      BY <1>2, <1>3, <2>1, <2>5, <3>3
  <2>6. QED
    BY <1>2, <1>9, <2>3, <2>4, <2>5 DEF CheckBefore, CheckKey, ClientsTyped, ClientSteps, Putting
<1>10. CASE MakeItems(c)
  <2>1. UNCHANGED <<held, kept, citem, ckey>> /\ cpc[c] = "put-folder" /\ cpc'[c] \in {"idle", "put-find"}
    BY <1>2, <1>10 DEF MakeItems, MakeFolder, SameTree, ClientsTyped
  <2>2. Present(c)' = Present(c) /\ Found(S, L, c)' = Found(S, L, c)
    BY <2>1 DEF Present, MyFolder, MyCopy, Found
  <2>3. Promised(S, L, c)'
    BY <1>2, <2>1, <2>2 DEF Promised, Putting
  <2>4. QED
    BY <1>2, <1>3, <2>1, <2>3
<1>11. CASE FindExisting(c) \/ (PublishItem(c) /\ cpc'[c] # "again-lock")
  <2>1. /\ UNCHANGED <<held, citem, ckey>> /\ cpc[c] \in {"put-find", "put-publish"}
        /\ \/ cpc'[c] = "idle" /\ kept' = kept
           \/ cpc'[c] = "idle" /\ kept' = kept \cup {citem[c]} /\ Present(c)
           \/ cpc'[c] = "put-publish" /\ kept' = kept /\ ~Present(c)
    BY <1>2, <1>11 DEF FindExisting, PublishItem, Told, ClientsTyped
  <2>2. Present(c)' = Present(c) /\ Found(S, L, c)' = Found(S, L, c)
    BY <2>1 DEF Present, MyFolder, MyCopy, Found
  <2>3. citem[c] \notin kept /\ Found(S, L, c) /\ (Present(c) => citem[c] \in S)
    BY <1>2, <2>1 DEF Promised, Found, Putting
  <2>4. Promised(S, L, c)'
    BY <2>1, <2>2, <2>3 DEF Promised, Putting
  <2>5. QED
    BY <1>2, <1>3, <2>1, <2>3, <2>4
<1>12. CASE PublishItem(c) /\ cpc'[c] = "again-lock"
  <2>1. /\ cpc[c] = "put-publish" /\ cpc'[c] = "again-lock" /\ UNCHANGED <<kept, citem, ckey>>
        /\ held' = [held EXCEPT ![MyFolder(c)] = @ \cup {MyCopy(c)}]
    BY <1>2, <1>12 DEF PublishItem, ClientsTyped
  <2>2. citem[c] \notin kept /\ Outrun(c)' = Outrun(c)
    BY <1>2, <1>6, <2>1 DEF Promised, Putting, Outrun, Target
  <2>3. PICK T : T = IF Outrun(c) THEN S ELSE S \cup {citem[c]}
    OBVIOUS
  <2>4. PICK M : M = L \cup {Mine}
    OBVIOUS
  <2>5. ~Outrun(c) => \A i : i = citem[c] => Settles(i)'
    BY <1>6, <2>1, PublishedInPlace
  <2>6. Promised(T, M, c)'
    BY <2>1, <2>2, <2>3 DEF Promised
  <2>7. (T = S \/ T = S \cup {citem[c]}) /\ \A i \in T : i \in S \/ Settles(i)'
    BY <2>3, <2>5
  <2>8. QED
    BY <1>4, <2>1, <2>4, <2>6, <2>7 DEF Putting
<1>13. CASE CheckAgain(c)
  <2>1. UNCHANGED <<held, dir, lock, citem, ckey, gone>>
    BY <1>13 DEF CheckAgain
  <2>2. Barred(c)' = Barred(c) /\ citem[c] \notin kept
        /\ cpc[c] \in {"again-lock", "again-head", "again-stop"}
    <3>1. cpc[c] \in {"again-lock", "again-head", "again-stop"}
      BY <1>13 DEF CheckAgain, CheckKey
    <3>2. QED
      BY <1>2, <1>6, <2>1, <3>1 DEF Barred, Shut, Promised, Putting
  <2>3. CASE cpc'[c] = "retract"
    <3>1. kept' = kept
      BY <1>13, <2>3 DEF CheckAgain
    <3>2. Promised(S, L, c)'
      BY <2>1, <2>2, <2>3, <3>1 DEF Promised
    <3>3. QED
      BY <1>2, <1>3, <2>1, <2>2, <3>1, <3>2
  <2>4. CASE cpc[c] = "again-lock" /\ cpc'[c] = "again-head"
    <3>1. ~lock /\ kept' = kept
      BY <1>2, <1>13, <2>4 DEF CheckAgain, CheckKey, ClientsTyped
    <3>2. citem[c] \in S \cup gone \/ Outrun(c)
      BY <1>2, <2>4 DEF Promised
    <3>3. plan = NoPlan /\ (ckey[c] # head["encryption"].key => Barred(c))
      BY <3>1, OutrunBarred
    <3>4. citem[c] \in S \cup gone \/ Barred(c)
      BY <3>2, <3>3 DEF Outrun, Target
    <3>5. Promised(S, L, c)'
      BY <2>1, <2>2, <2>4, <3>1, <3>4 DEF Promised
    <3>6. QED
      BY <1>2, <1>3, <2>1, <2>4, <3>1, <3>5
  <2>5. CASE cpc[c] = "again-head" /\ cpc'[c] = "again-stop"
    <3>1. kept' = kept /\ (citem[c] \in S \cup gone \/ Barred(c))
      BY <1>2, <1>13, <2>5 DEF CheckAgain, Promised
    <3>2. Promised(S, L, c)'
      BY <2>1, <2>2, <2>5, <3>1 DEF Promised
    <3>3. QED
      BY <1>2, <1>3, <2>1, <2>5, <3>1, <3>2
  <2>6. CASE cpc[c] \in {"again-head", "again-stop"} /\ cpc'[c] = "idle"
    <3>1. ~Barred(c)
      <4>1. CASE cpc[c] = "again-head"
        BY <1>2, <1>13, <2>6, <4>1 DEF CheckAgain, CheckKey, HeaderStands, ClientsTyped, Barred, Places
      <4>2. CASE cpc[c] = "again-stop"
        BY <1>2, <1>13, <2>6, <4>2 DEF CheckAgain, CheckKey, ClientsTyped, Barred, Shut, Errands
      <4>3. QED
        BY <2>6, <4>1, <4>2
    <3>2. citem[c] \in S \cup gone
      BY <1>2, <2>6, <3>1 DEF Promised
    <3>3. kept \subseteq kept' /\ kept' \subseteq S
      BY <1>2, <1>13, <3>2 DEF CheckAgain
    <3>4. QED
      BY <1>2, <1>3, <1>5, <2>1, <2>6, <3>3 DEF ClientSteps, Putting
  <2>7. QED
    BY <1>2, <1>13, <2>3, <2>4, <2>5, <2>6 DEF CheckAgain, CheckKey, ClientsTyped
<1>14. CASE Retract(c)
  <2>1. cpc[c] = "retract" /\ cpc'[c] = "idle" /\ kept' = kept /\ citem[c] \notin kept
    BY <1>2, <1>14 DEF Retract, ClientsTyped, Promised, Putting
  <2>2. PICK T : T = S \ {citem[c]}
    OBVIOUS
  <2>3. Promised(T, L, c)'
    BY <1>5, <2>1 DEF ClientSteps, Putting
  <2>4. Fine(T, L)
    BY <1>2, <2>1, <2>2, <2>3 DEF Putting
  <2>5. QED
    BY <1>2, <2>2, <2>4 DEF Done
<1>15. CASE DeleteItem(c)
  <2>1. cpc[c] = "del-rename" /\ cpc'[c] = "idle" /\ cpc[c] \notin Putting
    BY <1>2, <1>15 DEF DeleteItem, ClientsTyped, Putting
  <2>2. \A T, M : Promised(T, M, c)'
    BY <1>5, <2>1 DEF ClientSteps, Putting
  <2>3. CASE held' = held /\ kept' = kept
    BY <1>2, <1>3, <2>1, <2>2, <2>3
  <2>4. CASE kept' = kept \ {citem[c]} /\ Present(c)
    <3>1. held' # held
      <4>1. held'[MyFolder(c)] = {d \in held[MyFolder(c)] : ~SameId(d, MyCopy(c))}
        BY <1>2, <1>15, <2>4 DEF DeleteItem, MyFolder, ItemsOf, Folders
      <4>2. QED
        BY <2>4, <4>1 DEF Present
    <3>2. CASE ckey[c] \in {NoKey, InPlace} \/ citem[c] \in LateItems
      <4>1. PICK T : T = S \ {citem[c]}
        OBVIOUS
      <4>2. Fine(T, L)
        BY <1>2, <2>1, <2>2, <2>4, <3>1, <3>2, <4>1
      <4>3. QED
        BY <1>2, <4>1, <4>2 DEF Done
    <3>3. CASE ~(ckey[c] \in {NoKey, InPlace} \/ citem[c] \in LateItems)
      <4>1. Fine(S, L)
        BY <1>2, <2>1, <2>2, <2>4, <3>3
      <4>2. QED
        BY <1>2, <4>1 DEF Done
    <3>4. QED
      BY <3>2, <3>3
  <2>5. QED
    BY <1>15, <2>3, <2>4 DEF DeleteItem
<1>16. QED
  BY <1>7, <1>8, <1>9, <1>10, <1>11, <1>12, <1>13, <1>14, <1>15 DEF ClientNext, ClientStep

Safe ==
  /\ Beside /\ OnlyForward /\ AllWhole
  /\ \E S \in SUBSET Items, L \in SUBSET Ids : KeptInv(S, L) /\ Promises(S, L)

LEMMA SafeInit == Init => Safe
<1> SUFFICES ASSUME Init PROVE Safe
  OBVIOUS
<1>1. ChangeInit /\ cpc = [c \in Clients |-> "idle"]
  BY DEF Init
<1>2. Typed
  BY <1>1, InitTyped
<1>3. OnlyForward
  BY <1>1 DEF ChangeInit, OnlyForward, NoJob
<1>4. AllWhole
  BY <1>1 DEF ChangeInit, AllWhole, Whole, Folders
<1>5. PICK S : S = kept
  OBVIOUS
<1>6. KeptInv(S, {})
  BY <1>1, <1>5, InitKeeps
<1>7. S \in SUBSET Items
  BY <1>2, <1>5 DEF Typed, TypeOK, LayoutTypeOK
<1>8. \A c \in Clients : Promised(S, {}, c)
  BY <1>1 DEF Promised, Putting
<1>9. QED
  BY <1>3, <1>4, <1>5, <1>6, <1>7, <1>8, BesideInit DEF Safe, Promises

LEMMA SafeStep ==
  ASSUME TurnsTaken, Recoveries \subseteq {"finish"}, SendsApart, Safe, [Next]_vars
  PROVE  Safe'
<1> USE DEF Safe
<1>1. PICK S \in SUBSET Items, L \in SUBSET Ids : KeptInv(S, L) /\ Promises(S, L)
  OBVIOUS
<1>2. CASE UNCHANGED vars
  <2>1. Beside' /\ [ChangeNext]_changeVars
    BY <1>2, BesideSame
  <2>2. KeptInv(S, L)'
    BY <1>1, <2>1, NextKeeps DEF Promises
  <2>3. UNCHANGED <<kept, plan, head, dir, held, job, cpc, citem, ckey, gone>>
    BY <1>2 DEF vars, changeVars, clientVars, layoutVars, adminVars
  <2>4. \A c \in Clients : Promised(S, L, c)' = Promised(S, L, c)
    BY <2>3 DEF Promised, Found, Present, MyFolder, MyCopy, Outrun, Target, Barred, Shut
  <2>5. Promises(S, L)' /\ OnlyForward' /\ AllWhole'
    BY <1>1, <2>3, <2>4 DEF Promises, OnlyForward, AllWhole
  <2>6. QED
    BY <2>1, <2>2, <2>5
<1>3. CASE ChangeNext /\ Watch /\ UNCHANGED clientVars
  <2>1. KeptInv(S, L)' /\ OnlyForward' /\ AllWhole' /\ Promises(S, L)'
    BY <1>1, <1>3, PromisesAdmin
  <2>2. Beside'
    BY <1>1, <1>3, <2>1, BesideAdmin DEF KeptInv
  <2>3. QED
    BY <2>1, <2>2
<1>4. ASSUME NEW c \in Clients, ClientNext(c), overtaken' = overtaken PROVE Safe'
  <2>1. AllWhole' /\ \E T \in SUBSET Items, M \in SUBSET Ids : KeptInv(T, M)' /\ Promises(T, M)'
    BY <1>1, <1>4, PromisesClient
  <2>2. Beside'
    BY <1>1, <1>4, BesideClient
  <2>3. OnlyForward'
    BY <1>4, ClientFrame DEF OnlyForward, Beside
  <2>4. QED
    BY <2>1, <2>2, <2>3
<1>5. QED
  BY <1>2, <1>3, <1>4 DEF Next

\* While changes cut short are finished, not undone, and no two devices send
\* the same item (put), what a device was told is kept stays in the store under
\* a key that a header there opens until some device deletes it: through every
\* change and crash, and through sends that a change overtakes and that take
\* back what they stored.
THEOREM GuardedLosesNothing ==
  ASSUME TurnsTaken, Recoveries \subseteq {"finish"}, SendsApart
  PROVE  Spec => []NothingLost
<1>1. Init => Safe
  BY SafeInit
<1>2. Safe /\ [Next]_vars => Safe'
  BY SafeStep
<1>3. Safe => NothingLost
  BY KeptNothingLost DEF Safe, Promises
<1>4. QED
  BY <1>1, <1>2, <1>3, PTL DEF Spec

\* And when no change is under way, a device that opens the store finds it: the
\* store is plain or encrypted, never broken, and the item is where it looks.
THEOREM GuardedOpens ==
  ASSUME TurnsTaken, Recoveries \subseteq {"finish"}, SendsApart
  PROVE  Spec => []UnlockedOpens
<1>1. Init => Safe
  BY SafeInit
<1>2. Safe /\ [Next]_vars => Safe'
  BY SafeStep
<1>3. Safe => UnlockedOpens
  BY KeptOpens DEF Safe, Promises
<1>4. QED
  BY <1>1, <1>2, <1>3, PTL DEF Spec
================================================================================
