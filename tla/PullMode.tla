-------------------------------- MODULE PullMode --------------------------------
(***************************************************************************)
(* Pull mode beside the clipboard loop.  A poll is a sequence of calls to  *)
(* a store that other devices use meanwhile: items of skewed clocks arrive *)
(* in any order and in parts, go again, and a change of encryption may     *)
(* move the folder of items away between two calls and put it back.        *)
(***************************************************************************)
EXTENDS ClipboardLoop, FiniteSets

CONSTANTS Ids,          \* the items, oldest first: their ids in time order
          Content,      \* what each text or image item holds
          Foreign,      \* the items of other devices
          Files,        \* the items that are files
          InParts,      \* the items that come through a synced folder
          LastKey,      \* bound on the store's keys: 0, 1, .. LastKey
          MaxEvents     \* bound on events: copies by the user, deletions, failed
                        \* calls, changes of encryption, stops of serve and so on

ASSUME PullAssumption ==
  /\ Ids \in SUBSET Nat /\ Foreign \in SUBSET Ids /\ Files \in SUBSET Ids /\ InParts \in SUBSET Ids
  /\ Content \in [Ids \ Files -> Contents]
  /\ LastKey \in Nat /\ MaxEvents \in Nat

VARIABLES
  item,       \* the state of each item in the store
  key,        \* the store's key; a new key means new ids
  change,     \* a change of encryption: none, begun, or with the items moved away
  ppc,        \* the next call of the poll
  pkey,       \* the key of the store pull mode has open
  seen,       \* the ids pull mode has handled, as pairs of item and key
  seenKey,    \* the key `seen` is about
  listKey,    \* the key the listed ids are of
  unread,     \* unseen ids whose metadata is still to be read
  new,        \* items whose metadata was read
  delivered,  \* how often each item was applied (observer)
  known,      \* the items passed over for a newer one, or at hand when one
              \* was applied (observer)
  waived,     \* the items that were there when pull mode started, and the files
              \* this device had no place or name for, or failed to save (observer)
  blinked,    \* whether a poll met the moved folder (observer)
  events      \* how many events there were

storeVars == <<item, key, change>>
pollVars == <<pkey, seen, seenKey, listKey, unread, new>>
observers == <<delivered, known, waived, blinked>>
vars == <<clipboardVars, storeVars, ppc, pollVars, observers, events>>

\* "late": its content still arrives; "spoiled": its metadata opens, its
\* content never will; "damaged": neither will.
ItemStates == {"coming", "arriving", "late", "whole", "spoiled", "damaged", "gone"}
Stored == ItemStates \ {"coming", "gone"}
PollSteps == {"idle", "list", "meta", "apply", "save", "reopen", "ended", "off"}
StoreIds == Ids \X (0..LastKey)

PullTypeOK ==
  /\ ClipboardTypeOK
  /\ item \in [Ids -> ItemStates] /\ key \in 0..LastKey
  /\ change \in {"none", "begun", "moved"}
  /\ ppc \in PollSteps /\ pkey \in 0..LastKey
  /\ seen \in SUBSET StoreIds /\ seenKey \in 0..LastKey
  /\ listKey \in 0..LastKey /\ unread \in SUBSET Ids /\ new \in SUBSET Ids
  /\ delivered \in [Ids -> Nat] /\ known \in SUBSET Ids /\ waived \in SUBSET Ids
  /\ blinked \in BOOLEAN /\ events \in 0..MaxEvents

ForClipboard(i) == i \notin Files

\* What a directory listing of the items finds.
Listed == IF change = "moved" THEN {} ELSE {i \in Ids : item[i] \in Stored}
\* What the store pull mode has open makes of an item: a folder that is away
\* holds nothing, and what another key sealed does not open.
Readable(i) ==
  IF change = "moved" \/ listKey # key \/ item[i] \in {"coming", "gone"} THEN "missing"
  ELSE IF pkey # key THEN "other-key"
  ELSE item[i]

Event == events < MaxEvents /\ events' = events + 1
Goto(step) == ppc' = step
Handled(i) == seen' = seen \cup {<<i, listKey>>}

(***************************************************************************)
(* The store and the other devices.                                        *)
(***************************************************************************)
SameServe == UNCHANGED <<clipboardVars, ppc, pollVars, observers>>

\* An item comes with its metadata and content at once, or in parts through
\* a synced folder.
Arrive(i) ==
  /\ change # "moved"
  /\ \/ item[i] = "coming" /\ i \in InParts /\ item' = [item EXCEPT ![i] = "arriving"]
     \/ item[i] = "coming" /\ item' = [item EXCEPT ![i] = "whole"]
     \/ item[i] = "arriving" /\ item' = [item EXCEPT ![i] = "late"]
     \/ item[i] = "late" /\ item' = [item EXCEPT ![i] = "whole"]
  /\ UNCHANGED <<key, change, events>> /\ SameServe

\* What stays incomplete counts as damaged after a while.
Damage(i) ==
  /\ change # "moved" /\ Event
  /\ \/ item[i] = "arriving" /\ item' = [item EXCEPT ![i] = "damaged"]
     \/ item[i] = "late" /\ item' = [item EXCEPT ![i] = "spoiled"]
  /\ UNCHANGED <<key, change>> /\ SameServe

Delete(i) ==
  /\ change # "moved" /\ item[i] \in Stored /\ Event
  /\ item' = [item EXCEPT ![i] = "gone"]
  /\ UNCHANGED <<key, change>> /\ SameServe

BeginChange ==
  /\ change = "none" /\ key < LastKey /\ Event
  /\ change' = "begun"
  /\ UNCHANGED <<item, key>> /\ SameServe

MoveItems ==
  /\ change = "begun"
  /\ change' = "moved"
  /\ UNCHANGED <<item, key, events>> /\ SameServe

\* The change commits: every item has a new id under a new key.
CommitChange ==
  /\ change = "moved"
  /\ change' = "none" /\ key' = key + 1
  /\ UNCHANGED <<item, events>> /\ SameServe

\* The change is undone: the folder is back as it was.
UndoChange ==
  /\ change # "none"
  /\ change' = "none"
  /\ UNCHANGED <<item, key, events>> /\ SameServe

StoreNext ==
  \/ \E i \in Ids : Arrive(i) \/ Damage(i) \/ Delete(i)
  \/ BeginChange \/ MoveItems \/ CommitChange \/ UndoChange

(***************************************************************************)
(* A poll.  Any call may fail; the store is then opened again before the   *)
(* next poll.  A server that denies the device ends pull mode and serve.   *)
(***************************************************************************)
CallFails ==
  /\ ppc \in {"idle", "list", "meta", "apply", "save"} /\ Event
  /\ Goto("reopen") \/ Goto("ended")
  /\ unread' = {} /\ new' = {}
  /\ UNCHANGED <<clipboardVars, storeVars, pkey, seen, seenKey, listKey, observers>>

\* At every tick `list_ids` looks at the lock and the key first.
CheckKey ==
  /\ ppc = "idle"
  /\ Goto(IF change # "none" \/ pkey # key THEN "reopen" ELSE "list")
  /\ UNCHANGED <<clipboardVars, storeVars, pollVars, observers, events>>

\* Mutant: the ids of the new key count as unseen.
ListAfterChange ==
  /\ ppc = "list"
  /\ listKey' = key
  /\ blinked' = (blinked \/ change = "moved")
  /\ seenKey' = pkey
  /\ seen' = seen \cap (Listed \X {key})
  /\ unread' = {i \in Listed : <<i, key>> \notin seen}
  /\ new' = {}
  /\ Goto(IF unread' = {} THEN "idle" ELSE "meta")
  /\ UNCHANGED <<clipboardVars, storeVars, pkey, delivered, known, waived, events>>

\* A new key makes every id new: pull mode starts from what is there.  Ids
\* that left the store are forgotten.
List ==
  /\ ppc = "list"
  /\ listKey' = key
  /\ blinked' = (blinked \/ change = "moved")
  /\ IF pkey # seenKey
     THEN /\ seenKey' = pkey
          /\ seen' = Listed \X {key}
          /\ waived' = waived \cup Listed
          /\ Goto("idle")
          /\ UNCHANGED <<unread, new>>
     ELSE /\ seen' = seen \cap (Listed \X {key})
          /\ unread' = {i \in Listed : <<i, key>> \notin seen}
          /\ new' = {}
          /\ Goto(IF unread' = {} THEN "idle" ELSE "meta")
          /\ UNCHANGED <<seenKey, waived>>
  /\ UNCHANGED <<clipboardVars, storeVars, pkey, delivered, known, events>>

\* Metadata is read newest first.  What is gone or damaged is done with; what
\* is incomplete is read again at the next poll.
ReadMeta ==
  /\ ppc = "meta"
  /\ \E i \in unread :
     /\ \A j \in unread : j <= i
     /\ unread' = unread \ {i}
     /\ blinked' = (blinked \/ change = "moved")
     /\ \/ Readable(i) \in {"late", "whole", "spoiled"} /\ new' = new \cup {i} /\ UNCHANGED seen
        \/ Readable(i) \in {"missing", "damaged", "other-key"} /\ Handled(i) /\ UNCHANGED new
        \/ Readable(i) \in {"arriving", "other-key"} /\ UNCHANGED <<seen, new>>
  /\ Goto(IF unread' # {} THEN "meta" ELSE IF new' # {} THEN "apply" ELSE "idle")
  /\ UNCHANGED <<clipboardVars, storeVars, pkey, seenKey, listKey, delivered, known, waived, events>>

\* Of the texts and clipboard images of other devices only the newest is
\* applied: items are handled oldest first, so it is the newest of those left.
Chosen(i) == \A j \in new \cap Foreign : ForClipboard(j) => j <= i
Applies(i) == i \in Foreign /\ (ForClipboard(i) => Chosen(i))

\* Mutant: the newest item first.
NextNewest(i) == i \in new /\ \A j \in new : j <= i

\* The items that were read are handled oldest first.
NextItem(i) == i \in new /\ \A j \in new : i <= j

\* The poll is over with the last of them.
Leave(i) == new' = new \ {i} /\ Goto(IF new = {i} THEN "idle" ELSE "apply")

\* This device's own items and older clipboard items are done with.
PassOver ==
  /\ ppc = "apply"
  /\ \E i \in new :
     /\ NextItem(i) /\ ~Applies(i)
     /\ known' = IF i \in Foreign THEN known \cup {i} ELSE known
     /\ Handled(i) /\ Leave(i)
  /\ UNCHANGED <<clipboardVars, storeVars, pkey, seenKey, listKey, unread, delivered, waived, blinked, events>>

\* Mutant: content that does not open is done with, however young.
UnopenedDone(i) ==
  /\ blinked' = (blinked \/ change = "moved")
  /\ Readable(i) # "whole" /\ Handled(i)
  /\ Leave(i)
  /\ UNCHANGED <<writes, delivered, known, waived>>

\* The content of an item that is gone or damaged is done with; one that has
\* not come yet is fetched again at the next poll.
Unopened(i) ==
  /\ blinked' = (blinked \/ change = "moved")
  /\ \/ Readable(i) \in {"missing", "damaged", "spoiled", "other-key"} /\ Handled(i)
     \/ Readable(i) \in {"late", "arriving", "other-key"} /\ UNCHANGED seen
  /\ Leave(i)
  /\ UNCHANGED <<writes, delivered, known, waived>>

\* The content goes to the clipboard loop, once that has room for it, or is
\* skipped when it turns out to be no text or image.
Apply ==
  /\ ppc = "apply"
  /\ \E i \in new :
     /\ NextItem(i) /\ Applies(i) /\ ForClipboard(i)
     /\ \/ Unopened(i)
        \/ /\ Readable(i) = "whole"
           /\ Handled(i) /\ Leave(i)
           /\ UNCHANGED <<writes, delivered, known, waived, blinked>>
        \/ /\ Readable(i) = "whole" /\ Len(writes) < WriteDepth
           /\ writes' = Append(writes, Content[i])
           /\ delivered' = [delivered EXCEPT ![i] = @ + 1]
           /\ known' = known \cup new
           /\ Handled(i) /\ Leave(i)
           /\ UNCHANGED <<waived, blinked>>
  /\ UNCHANGED <<clip, lastText, lastImage, waiting, jobs, storeVars, pkey, seenKey, listKey, unread, events>>

\* A problem of this device's own: the file is skipped for good.
SkipFile(i) ==
  /\ waived' = waived \cup {i}
  /\ Handled(i) /\ Leave(i)
  /\ UNCHANGED <<delivered, known, blinked, writes>>

\* A file needs the download directory and a name that can be used.  Whether
\* it has them is this device's affair and left open.
FindTarget ==
  /\ ppc = "apply"
  /\ \E i \in new :
     /\ NextItem(i) /\ Applies(i) /\ ~ForClipboard(i)
     /\ \/ SkipFile(i)
        \/ Goto("save") /\ UNCHANGED <<seen, new, waived, delivered, known, blinked, writes>>
  /\ UNCHANGED <<clip, lastText, lastImage, waiting, jobs, storeVars, pkey, seenKey, listKey, unread, events>>

\* Its content is opened and written to the directory, which may be gone by
\* now.  A part file that cannot be made, written or renamed is no reason to
\* try again, even when the content was still to come.
Download ==
  /\ ppc = "save"
  /\ \E i \in new :
     /\ NextItem(i) /\ Applies(i) /\ ~ForClipboard(i)
     /\ \/ Unopened(i)
        \/ Readable(i) \in {"late", "whole", "spoiled"} /\ SkipFile(i)
        \/ /\ Readable(i) = "whole"
           /\ delivered' = [delivered EXCEPT ![i] = @ + 1]
           /\ Handled(i) /\ Leave(i)
           /\ UNCHANGED <<known, waived, blinked, writes>>
  /\ UNCHANGED <<clip, lastText, lastImage, waiting, jobs, storeVars, pkey, seenKey, listKey, unread, events>>

\* Mutant: pull mode keeps the store it has.
ReopenNever ==
  /\ ppc = "reopen" /\ Goto("idle")
  /\ UNCHANGED <<clipboardVars, storeVars, pkey, seen, seenKey, listKey, unread, new, observers, events>>

\* The store is opened with the key it has now; while a change is under way,
\* or when the call fails, pull mode keeps the one it has.
Reopen ==
  /\ ppc = "reopen"
  /\ \/ change = "none" /\ pkey' = key /\ Goto("idle") /\ UNCHANGED events
     \/ change # "none" /\ Goto("idle") /\ UNCHANGED <<pkey, events>>
     \/ Event /\ (Goto("idle") \/ Goto("ended")) /\ UNCHANGED pkey
  /\ UNCHANGED <<clipboardVars, storeVars, seen, seenKey, listKey, unread, new, observers>>

PollStep ==
  \/ CheckKey \/ List \/ ReadMeta
  \/ PassOver \/ Apply \/ FindTarget \/ Download \/ Reopen

\* Serve is stopped or killed, or ends because the server denied it.
Stop ==
  /\ ppc # "off" /\ Event
  /\ Goto("off")
  /\ UNCHANGED <<clipboardVars, storeVars, pollVars, observers>>

EndServe ==
  /\ ppc = "ended"
  /\ Goto("off")
  /\ UNCHANGED <<clipboardVars, storeVars, pollVars, observers, events>>

\* It starts again, and pull mode ignores what is stored by then.
Start ==
  /\ ppc = "off" /\ change = "none"
  /\ ClipboardRestart
  /\ pkey' = key /\ seenKey' = key /\ listKey' = key /\ seen' = Listed \X {key}
  /\ waived' = waived \cup Listed
  /\ unread' = {} /\ new' = {}
  /\ Goto("idle")
  /\ UNCHANGED <<storeVars, delivered, known, blinked, events>>

\* The clipboard loop, and the uploader that takes what it queued.
LoopStep ==
  /\ ppc # "off" /\ (Read \/ Queue \/ Write)
  /\ UNCHANGED <<storeVars, ppc, pollVars, observers, events>>

UploaderTakes ==
  /\ ppc # "off" /\ TakeJob
  /\ UNCHANGED <<storeVars, ppc, pollVars, observers, events>>

UserStep ==
  /\ Event
  /\ \E t \in Texts \cup {Nothing}, i \in Images \cup {Nothing} : Copy(t, i)
  /\ UNCHANGED <<storeVars, ppc, pollVars, observers>>

PullInit ==
  /\ ClipboardInit
  /\ item = [i \in Ids |-> "coming"] /\ key = 0 /\ change = "none"
  /\ ppc = "idle" /\ pkey = 0 /\ seenKey = 0 /\ listKey = 0
  /\ waived = {} /\ seen = {}
  /\ unread = {} /\ new = {}
  /\ delivered = [i \in Ids |-> 0] /\ known = {} /\ blinked = FALSE
  /\ events = 0

PullNext ==
  \/ StoreNext \/ PollStep \/ CallFails \/ Stop \/ EndServe \/ Start
  \/ LoopStep \/ UploaderTakes \/ UserStep

PullSpec == PullInit /\ [][PullNext]_vars

\* A poll goes on, the clipboard loop runs, and the uploader gets on with its
\* queue; the user and the store need not do anything.
FairPullSpec ==
  /\ PullSpec
  /\ WF_vars(PollStep) /\ WF_vars(LoopStep) /\ WF_vars(UploaderTakes)

--------------------------------------------------------------------------------
\* However items arrive, fail to read or go, and whatever call fails, no item
\* is applied twice, not even after a change of key gave all of them new ids
\* (pull.rs `poll`: "without repeating anything already done").
AppliedOnce == blinked \/ \A i \in Ids : delivered[i] <= 1

\* The same, even when a poll met the folder of items moved away.
AppliedOnceEver == \A i \in Ids : delivered[i] <= 1

\* A store that fails, an item that still arrives and a change of key never
\* make pull mode take a file as handled: a whole file of another device that
\* it will not look at again was downloaded, or was there when pull mode
\* started, or was skipped for a problem of this device's own, its directory,
\* the name or the saving (pull.rs `poll`, "Local problems are logged and the
\* item is skipped", "Items not yet handled stay unseen"; usage.md "retried at
\* the next check without skipping anything").
NothingSkipped ==
  blinked \/ \A i \in Foreign \cap Files :
    item[i] = "whole" /\ seenKey = key /\ <<i, key>> \in seen /\ i \notin waived => delivered[i] > 0

\* An item that goes to the clipboard after a newer one was neither passed
\* over for a newer one nor at hand when one was applied: what arrives late is
\* applied, what was passed over is not (pull.rs `poll`).
NeverBack ==
  [][\A i \in Ids : delivered'[i] > delivered[i] /\ ForClipboard(i)
       /\ (\E j \in Ids : j > i /\ ForClipboard(j) /\ delivered[j] > 0)
     => blinked \/ i \notin known]_vars

\* Pull mode catches up again and again: every item that is whole is dealt
\* with, unless a change of encryption is under way or serve ended.  So it and
\* the clipboard loop never wait for each other for good, and a store that was
\* replaced is opened again (pull.rs `pull_loop`).
CatchesUp ==
  []<>( \/ change # "none" \/ ppc \in {"ended", "off"}
        \/ \A i \in Ids : item[i] = "whole" => <<i, key>> \in seen )
================================================================================
