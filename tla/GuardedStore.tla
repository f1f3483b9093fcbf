------------------------------ MODULE GuardedStore ------------------------------
(***************************************************************************)
(* Devices that send and delete items while administrators change the      *)
(* encryption of the store.  A device checks the lock and the header       *)
(* before it writes, and a send checks them again once its item is         *)
(* published; when the encryption changed under it, it takes the item      *)
(* back.                                                                   *)
(***************************************************************************)
EXTENDS EncryptionChange

CONSTANTS Clients,
          Sends,     \* the items each client may send
          Deletes,   \* the items clients may delete
          Stoppable  \* the clients that may stop in the middle of an operation

ASSUME SendsAssumption ==
  Sends \in [Clients -> SUBSET Items] /\ Deletes \in SUBSET Items /\ Stoppable \subseteq Clients

VARIABLES
  cpc,    \* the next step of each client's operation
  citem,  \* the item it is about
  ckey,   \* the key the device holds; NoKey before it joins
  gone,   \* items devices deleted, and none published since (observer)
  overtaken \* sends on their way under an older key when a change began (observer)

clientVars == <<cpc, citem, ckey, gone>>
vars == <<changeVars, clientVars, overtaken>>

ClientSteps == {"idle",
  "put-lock", "put-head", "put-stop", "put-folder", "put-find", "put-publish",
  "again-lock", "again-head", "again-stop", "retract",
  "del-lock", "del-head", "del-stop", "del-rename"}

ClientTypeOK ==
  /\ TypeOK
  /\ cpc \in [Clients -> ClientSteps]
  /\ citem \in [Clients -> Items]
  /\ ckey \in [Clients -> Keys \cup {NoKey}]
  /\ gone \in SUBSET Items
  /\ overtaken \in SUBSET (Items \X Keys)

CGoto(c, step) == cpc' = [cpc EXCEPT ![c] = step]
MyFolder(c) == ItemsOf(ckey[c])
MyCopy(c)   == Whole(citem[c], ckey[c])
Present(c)  == \E d \in held[MyFolder(c)] : SameId(d, MyCopy(c))

\* The store's words give a device the key of an encrypted store.
Join(c) ==
  /\ cpc[c] = "idle"
  /\ Classify = "encrypted"
  /\ ckey' = [ckey EXCEPT ![c] = head["encryption"].key]
  /\ UNCHANGED <<layoutVars, adminVars, cpc, citem, gone>>

\* Sending what the store keeps already would only make a second item of it.
StartPut(c, i) ==
  /\ cpc[c] = "idle"
  /\ i \in Sends[c] \ kept
  /\ citem' = [citem EXCEPT ![c] = i]
  /\ CGoto(c, "put-lock")
  /\ UNCHANGED <<layoutVars, adminVars, ckey, gone>>

StartDelete(c, i) ==
  /\ cpc[c] = "idle"
  /\ i \in Deletes
  /\ citem' = [citem EXCEPT ![c] = i]
  /\ CGoto(c, "del-lock")
  /\ UNCHANGED <<layoutVars, adminVars, ckey, gone>>

(***************************************************************************)
(* The guard, `check_key`: the lock first, then the header, and for a      *)
(* plaintext store the stop file.  Each is a read of its own.              *)
(***************************************************************************)
\* Mutant: any header will do.
HeaderStandsAny(c) == (ckey[c] = NoKey) <=> (head["encryption"] = NoHeader)

HeaderStands(c) == head["encryption"].key = ckey[c]

\* One check: its reads, the step when all is well, and the one when it is not.
CheckKey(c, atLock, atHead, atStop, pass, fail) ==
  \/ /\ cpc[c] = atLock
     /\ CGoto(c, IF lock THEN fail ELSE atHead)
  \/ /\ cpc[c] = atHead
     /\ CGoto(c, IF ~HeaderStands(c) THEN fail ELSE IF ckey[c] = NoKey THEN atStop ELSE pass)
  \/ /\ cpc[c] = atStop
     /\ CGoto(c, IF dir["items"] = "file" THEN fail ELSE pass)

CheckBefore(c) ==
  /\ \/ CheckKey(c, "put-lock", "put-head", "put-stop", "put-folder", "idle")
     \/ CheckKey(c, "del-lock", "del-head", "del-stop", "del-rename", "idle")
  /\ UNCHANGED <<layoutVars, adminVars, citem, ckey, gone>>

(***************************************************************************)
(* A send.                                                                 *)
(***************************************************************************)
MakeItems(c) ==
  /\ cpc[c] = "put-folder"
  /\ IF dir[MyFolder(c)] = "file"
     THEN CGoto(c, "idle") /\ SameTree
     ELSE CGoto(c, "put-find") /\ MakeFolder(MyFolder(c))
  /\ UNCHANGED <<lock, plan, recovery, head, kept, adminVars, citem, ckey, gone>>

Told(c) == kept' = kept \cup {citem[c]} /\ gone' = gone \ {citem[c]}

\* Content that is stored already is not stored again; no check follows.
FindExisting(c) ==
  /\ cpc[c] = "put-find"
  /\ IF Present(c)
     THEN CGoto(c, "idle") /\ Told(c)
     ELSE CGoto(c, "put-publish") /\ UNCHANGED <<kept, gone>>
  /\ UNCHANGED <<lock, plan, recovery, head, dir, held, adminVars, citem, ckey>>

PublishItem(c) ==
  /\ cpc[c] = "put-publish"
  /\ \/ /\ dir[MyFolder(c)] # "folder"
        /\ CGoto(c, "idle") /\ UNCHANGED <<held, kept, gone>>
     \/ /\ dir[MyFolder(c)] = "folder" /\ Present(c)
        /\ CGoto(c, "idle") /\ Told(c) /\ UNCHANGED held
     \/ /\ dir[MyFolder(c)] = "folder" /\ ~Present(c)
        /\ held' = [held EXCEPT ![MyFolder(c)] = @ \cup {MyCopy(c)}]
        /\ gone' = gone \ {citem[c]}
        /\ CGoto(c, "again-lock") /\ UNCHANGED kept
  /\ UNCHANGED <<lock, plan, recovery, head, dir, adminVars, citem, ckey>>

\* Mutant: the send is acknowledged without a second look.
AcceptAtOnce(c) ==
  /\ cpc[c] = "again-lock"
  /\ CGoto(c, "idle")
  /\ kept' = kept \cup ({citem[c]} \ gone)
  /\ UNCHANGED <<lock, plan, recovery, head, dir, held, adminVars, citem, ckey, gone>>

CheckAgain(c) ==
  /\ CheckKey(c, "again-lock", "again-head", "again-stop", "idle", "retract")
  /\ kept' = IF cpc'[c] = "idle" THEN kept \cup ({citem[c]} \ gone) ELSE kept
  /\ UNCHANGED <<lock, plan, recovery, head, dir, held, adminVars, citem, ckey, gone>>

\* Mutant: the item stays.
RetractNothing(c) ==
  /\ cpc[c] = "retract"
  /\ CGoto(c, "idle")
  /\ UNCHANGED <<layoutVars, adminVars, citem, ckey, gone>>

\* An item a re-encryption took into its source is not there to take back.
Retract(c) ==
  /\ cpc[c] = "retract"
  /\ held' = [held EXCEPT ![MyFolder(c)] = {d \in @ : ~SameId(d, MyCopy(c))}]
  /\ CGoto(c, "idle")
  /\ UNCHANGED <<lock, plan, recovery, head, dir, kept, adminVars, citem, ckey, gone>>

\* Mutant: an item that is not there counts as deleted.
DeleteAbsent(c) ==
  /\ cpc[c] = "del-rename"
  /\ held' = [held EXCEPT ![MyFolder(c)] = {d \in @ : ~SameId(d, MyCopy(c))}]
  /\ kept' = kept \ {citem[c]}
  /\ gone' = gone \cup {citem[c]}
  /\ CGoto(c, "idle")
  /\ UNCHANGED <<lock, plan, recovery, head, dir, adminVars, citem, ckey>>

\* One rename out of the folder hides the item; an item that is not there,
\* or not under this device's key, is reported as not found.
DeleteItem(c) ==
  /\ cpc[c] = "del-rename"
  /\ IF Present(c)
     THEN /\ held' = [held EXCEPT ![MyFolder(c)] = {d \in @ : ~SameId(d, MyCopy(c))}]
          /\ kept' = kept \ {citem[c]}
          /\ gone' = gone \cup {citem[c]}
     ELSE UNCHANGED <<held, kept, gone>>
  /\ CGoto(c, "idle")
  /\ UNCHANGED <<lock, plan, recovery, head, dir, adminVars, citem, ckey>>

\* The client stops at whatever step it is; what it published stays.
ClientStops(c) ==
  /\ c \in Stoppable /\ cpc[c] # "idle"
  /\ CGoto(c, "idle")
  /\ UNCHANGED <<layoutVars, adminVars, citem, ckey, gone>>

--------------------------------------------------------------------------------
\* A send that has passed its check, under a key that is not the store's any
\* more: when the next change takes the lock, that change may carry its item along.
Sending == {"put-folder", "put-find", "put-publish", "again-lock", "again-head", "retract"}
Outdated(c) == cpc[c] \in Sending /\ ckey[c] \notin {NoKey, head["encryption"].key}

Watch ==
  overtaken' = overtaken \cup
    (IF lock' /\ ~lock THEN {<<citem[c], ckey[c]>> : c \in {d \in Clients : Outdated(d)}} ELSE {})

ClientStep(c) ==
  \/ CheckBefore(c) \/ MakeItems(c) \/ FindExisting(c) \/ PublishItem(c)
  \/ CheckAgain(c) \/ Retract(c) \/ DeleteItem(c)

ClientNext(c) ==
  \/ Join(c)
  \/ \E i \in Items : StartPut(c, i) \/ StartDelete(c, i)
  \/ ClientStep(c)
  \/ ClientStops(c)

Init ==
  /\ ChangeInit
  /\ cpc = [c \in Clients |-> "idle"]
  /\ citem = [c \in Clients |-> CHOOSE i \in Items : TRUE]
  /\ ckey = [c \in Clients |-> head["encryption"].key]
  /\ gone = Items \ kept
  /\ overtaken = {}

Next ==
  \/ ChangeNext /\ Watch /\ UNCHANGED clientVars
  \/ (\E c \in Clients : ClientNext(c)) /\ UNCHANGED overtaken

Spec == Init /\ [][Next]_vars

--------------------------------------------------------------------------------
\* An item devices deleted never comes back to a store that is open: no change
\* takes it along in a source, a fold or a restored folder (fs_store.rs
\* `delete`, rewrite.rs `run`, `undo_claimed`).
GoneStaysGone ==
  ~lock => \A i \in gone : ~ \E d \in held[ItemsOf(head["encryption"].key)] :
             d.item = i /\ d.key = head["encryption"].key

\* Once no send is under way, a store that is open holds no item under another
\* key than its header's: a send that raced a change found it at its last
\* check and took its item back (fs_store.rs `stage_and_publish`, `retract`).
\* What a send delayed over a whole rotation published is beyond that: the next
\* change may take it into its source before the send takes it back, and put it
\* back when it is undone.
SettledSealed ==
  (\A c \in Clients : cpc[c] = "idle") /\ ~lock =>
    /\ dir["source"] = "absent"
    /\ \A d \in held["v2/items"] :
         d.key = head["encryption"].key \/ <<d.item, d.key>> \in overtaken
    /\ Classify = "encrypted" => held["items"] = {}
================================================================================
