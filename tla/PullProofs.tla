------------------------------- MODULE PullProofs -------------------------------
(***************************************************************************)
(* What `serve` keeps in pull mode, for any number of items and keys: the  *)
(* clipboard loop sends nothing back, no item is applied twice, no file is *)
(* skipped for the store's sake, and the clipboard never goes back to an   *)
(* item passed over.                                                       *)
(***************************************************************************)
EXTENDS PullMode, TLAPS

(***************************************************************************)
(* The clipboard loop.                                                     *)
(***************************************************************************)
\* What the loop may queue: nothing that pull mode put on the clipboard.
Sendable == [what : Contents \cup {Nothing}, by : {"user", "before"}]

Clips == [text : Texts \cup {Nothing}, image : Images \cup {Nothing}, by : Origins]

\* What pull mode put there is what the watcher saw last.
Marked ==
  clip.by = "pull" =>
    clip.text \in {Nothing, lastText} /\ clip.image \in {Nothing, lastImage}

EchoInv ==
  /\ clip \in Clips /\ Marked
  /\ writes \in Seq(Contents) /\ waiting \in Sendable /\ jobs \in Seq(Sendable)

\* What the loop queues is sendable, so none of it came from pull mode.
LEMMA EchoMeans == EchoInv => NoEcho
<1> SUFFICES ASSUME EchoInv PROVE NoEcho
  OBVIOUS
<1>1. waiting.by # "pull"
  BY DEF EchoInv, Sendable
<1>2. ASSUME NEW n \in DOMAIN jobs PROVE jobs[n].by # "pull"
  <2>1. jobs[n] \in Sendable
    BY DEF EchoInv
  <2> QED
    BY <2>1 DEF Sendable
<1> QED
  BY <1>1, <1>2 DEF NoEcho

LEMMA EchoInit == ClipboardInit => EchoInv
<1> SUFFICES ASSUME ClipboardInit PROVE EchoInv
  OBVIOUS
<1>1. clip \in Clips /\ Marked
  BY DEF ClipboardInit, Clips, Marked, Clip, Origins
<1>2. waiting \in Sendable
  BY DEF ClipboardInit, NoJob, Sendable
<1> QED
  BY <1>1, <1>2 DEF ClipboardInit, EchoInv

\* What counts as the clipboard's content is on the clipboard.
LEMMA PayloadShown ==
  /\ Payload.text \in {Nothing, clip.text}
  /\ Payload.image \in {Nothing, clip.image}
BY DEF Payload

\* The loop queues what is new on the clipboard, and what pull mode wrote is
\* not new.
LEMMA ReadEcho == EchoInv /\ Read => EchoInv'
<1> SUFFICES ASSUME EchoInv, Read PROVE EchoInv'
  OBVIOUS
<1> PICK pt : pt = Payload.text
  OBVIOUS
<1> PICK pi : pi = Payload.image
  OBVIOUS
<1>1. pt \in {Nothing, clip.text} /\ pi \in {Nothing, clip.image}
  BY PayloadShown
<1>2. clip' = clip /\ writes' = writes /\ jobs' = jobs
  BY DEF Read
<1>3. clip.text \in Texts \cup {Nothing} /\ clip.image \in Images \cup {Nothing} /\ clip.by \in Origins
  BY DEF EchoInv, Clips
<1>4. CASE NewText
  <2>1. pt # Nothing /\ pt # lastText /\ lastText' = pt /\ lastImage' = lastImage
    BY <1>4 DEF Read, NewText
  <2>2. waiting' = IF pt \in Blank THEN NoJob ELSE [what |-> pt, by |-> clip.by]
    BY <1>4 DEF Read
  <2>3. clip.by # "pull"
    BY <1>1, <2>1 DEF EchoInv, Marked
  <2>4. clip.by \in {"user", "before"} /\ pt \in Contents
    BY <1>1, <1>3, <2>1, <2>3 DEF Origins, Contents
  <2>5. waiting' \in Sendable
    BY <2>2, <2>4 DEF Sendable, NoJob
  <2>6. Marked'
    BY <2>3, <1>2 DEF Marked
  <2> QED
    BY <1>2, <2>5, <2>6 DEF EchoInv
<1>5. CASE ~NewText
  <2>1. pi # Nothing /\ pi # lastImage /\ lastImage' = pi /\ lastText' = lastText
    BY <1>5 DEF Read, NewImage
  <2>2. waiting' = [what |-> pi, by |-> clip.by]
    BY <1>5 DEF Read
  <2>3. clip.by # "pull"
    BY <1>1, <2>1 DEF EchoInv, Marked
  <2>4. clip.by \in {"user", "before"} /\ pi \in Contents
    BY <1>1, <1>3, <2>1, <2>3 DEF Origins, Contents
  <2>5. waiting' \in Sendable
    BY <2>2, <2>4 DEF Sendable
  <2>6. Marked'
    BY <2>3, <1>2 DEF Marked
  <2> QED
    BY <1>2, <2>5, <2>6 DEF EchoInv
<1> QED
  BY <1>4, <1>5

\* What pull mode wants on the clipboard is marked as seen when it gets there.
LEMMA WriteEcho == EchoInv /\ Write => EchoInv'
<1> SUFFICES ASSUME EchoInv, Write PROVE EchoInv'
  OBVIOUS
<1> PICK c : c = Head(writes)
  OBVIOUS
<1>1. writes # <<>> /\ writes' = Tail(writes) /\ waiting' = waiting /\ jobs' = jobs
  BY DEF Write
<1>2. writes \in Seq(Contents)
  BY DEF EchoInv
<1>3. c \in Contents /\ writes' \in Seq(Contents)
  BY <1>1, <1>2
<1>4. CASE UNCHANGED <<clip, lastText, lastImage>>
  BY <1>1, <1>3, <1>4 DEF EchoInv, Marked
<1>5. CASE ~UNCHANGED <<clip, lastText, lastImage>>
  <2>1. /\ clip' = Holding(c, "pull")
        /\ lastText' = IF c \in Texts THEN c ELSE lastText
        /\ lastImage' = IF c \in Images THEN c ELSE lastImage
    BY <1>5 DEF Write
  <2>2. CASE c \in Texts
    <3>1. clip' = [text |-> c, image |-> Nothing, by |-> "pull"] /\ lastText' = c
      BY <2>1, <2>2 DEF Holding, Clip
    <3>2. clip' \in Clips /\ Marked'
      BY <3>1, <2>2 DEF Clips, Marked, Origins
    <3> QED
      BY <3>2, <1>1, <1>3 DEF EchoInv
  <2>3. CASE c \notin Texts
    <3>1. c \in Images
      BY <1>3, <2>3 DEF Contents
    <3>2. clip' = [text |-> Nothing, image |-> c, by |-> "pull"] /\ lastImage' = c
      BY <2>1, <2>3, <3>1 DEF Holding, Clip
    <3>3. clip' \in Clips /\ Marked'
      BY <3>1, <3>2 DEF Clips, Marked, Origins
    <3> QED
      BY <3>3, <1>1, <1>3 DEF EchoInv
  <2> QED
    BY <2>2, <2>3
<1> QED
  BY <1>4, <1>5

\* The other steps of the loop, the uploader, the user and a restart.
LEMMA QueueEcho == EchoInv /\ Queue => EchoInv'
<1> SUFFICES ASSUME EchoInv, Queue PROVE EchoInv'
  OBVIOUS
<1>1. /\ clip' = clip /\ lastText' = lastText /\ lastImage' = lastImage /\ writes' = writes
      /\ jobs' = Append(jobs, waiting) /\ waiting' = NoJob
  BY DEF Queue
<1>2. jobs' \in Seq(Sendable)
  BY <1>1 DEF EchoInv
<1>3. waiting' \in Sendable
  BY <1>1 DEF NoJob, Sendable
<1> QED
  BY <1>1, <1>2, <1>3 DEF EchoInv, Marked

LEMMA TakeJobEcho == EchoInv /\ TakeJob => EchoInv'
<1> SUFFICES ASSUME EchoInv, TakeJob PROVE EchoInv'
  OBVIOUS
<1>1. /\ clip' = clip /\ lastText' = lastText /\ lastImage' = lastImage /\ writes' = writes
      /\ jobs # <<>> /\ jobs' = Tail(jobs) /\ waiting' = waiting
  BY DEF TakeJob
<1>2. jobs' \in Seq(Sendable)
  BY <1>1 DEF EchoInv
<1> QED
  BY <1>1, <1>2 DEF EchoInv, Marked

LEMMA CopyEcho ==
  ASSUME EchoInv, NEW t \in Texts \cup {Nothing}, NEW i \in Images \cup {Nothing}, Copy(t, i)
  PROVE  EchoInv'
<1>1. /\ clip' = [text |-> t, image |-> i, by |-> "user"]
      /\ writes' = writes /\ waiting' = waiting /\ jobs' = jobs
  BY DEF Copy, Clip
<1>2. clip' \in Clips /\ Marked'
  BY <1>1 DEF Clips, Marked, Origins
<1> QED
  BY <1>1, <1>2 DEF EchoInv

LEMMA RestartEcho == EchoInv /\ ClipboardRestart => EchoInv'
<1> SUFFICES ASSUME EchoInv, ClipboardRestart PROVE EchoInv'
  OBVIOUS
<1>1. /\ clip' = [clip EXCEPT !.by = "before"]
      /\ writes' = <<>> /\ waiting' = NoJob /\ jobs' = <<>>
  BY DEF ClipboardRestart
<1>2. clip' \in Clips /\ clip'.by = "before"
  BY <1>1 DEF EchoInv, Clips, Origins
<1>3. Marked'
  BY <1>2 DEF Marked
<1>4. waiting' \in Sendable
  BY <1>1 DEF NoJob, Sendable
<1> QED
  BY <1>1, <1>2, <1>3, <1>4 DEF EchoInv

--------------------------------------------------------------------------------
(***************************************************************************)
(* The polls.                                                              *)
(***************************************************************************)
PollTyped ==
  /\ item \in [Ids -> ItemStates]
  /\ delivered \in [Ids -> Nat]
  /\ key \in Nat /\ pkey \in Nat /\ seenKey \in Nat /\ listKey \in Nat
  /\ unread \subseteq Ids /\ new \subseteq Ids
  /\ blinked \in BOOLEAN

\* The steps of a poll that has its list, and those with all metadata read.
Listing == {"meta", "apply", "save"}
Handling == {"apply", "save"}

\* The keys pull mode knows are keys the store has or had; while it goes
\* through a list, what is seen is about the key of the store it has open,
\* and the list is not older.
KeysKnown ==
  /\ pkey <= key /\ seenKey <= key /\ listKey <= key
  /\ ppc \in Listing => pkey = seenKey /\ pkey <= listKey
  /\ ppc \in Handling => unread = {}

\* What was listed had come.
ListedCame == \A i \in unread \cup new : item[i] # "coming"

\* An item of another device that pull mode applied or passed over.
Done(i) == delivered[i] > 0 \/ (i \in known /\ i \in Foreign /\ ForClipboard(i))

DoneCame == \A i \in Ids : Done(i) => item[i] # "coming"

\* Under the key that `seen` is about, what is done with is seen.
DoneIsSeen ==
  seenKey = key => \A i \in Ids : Done(i) => <<i, key>> \in seen \/ item[i] = "gone"

\* A list of the present key holds nothing that is done with.
ListIsFresh ==
  ppc \in Listing /\ pkey = key /\ listKey = key =>
    \A i \in unread \cup new : ~Done(i)

AppliedAtMostOnce == \A i \in Ids : delivered[i] <= 1

\* A file that is seen was downloaded, waived, or never can be.
Hopeless == {"damaged", "spoiled", "gone"}
FilesSeen ==
  seenKey = key =>
    \A i \in Foreign \cap Files :
      <<i, key>> \in seen => i \in waived \/ delivered[i] > 0 \/ item[i] \in Hopeless

Settled == DoneIsSeen /\ ListIsFresh /\ AppliedAtMostOnce /\ FilesSeen

PollInv == PollTyped /\ KeysKnown /\ ListedCame /\ DoneCame /\ (blinked \/ Settled)

PullIInv == EchoInv /\ PollInv

\* A step that touches neither the polls nor the store keeps all of it.
LEMMA SamePoll ==
  ASSUME PollInv, UNCHANGED <<storeVars, ppc, pollVars, observers>>
  PROVE  PollInv'
<1>1. UNCHANGED <<item, key, ppc, pkey, seen, seenKey, listKey, unread, new, delivered, known, waived, blinked>>
  BY DEF storeVars, pollVars, observers
<1> QED
  BY <1>1 DEF PollInv, PollTyped, KeysKnown, ListedCame, DoneCame, Settled, DoneIsSeen, ListIsFresh,
              AppliedAtMostOnce, FilesSeen, Done

--------------------------------------------------------------------------------
(***************************************************************************)
(* The store and the other devices.                                        *)
(***************************************************************************)
\* How items change: what came stays come, what is gone stays gone, and what
\* cannot be read stays so.
Matures ==
  \A i \in Ids :
    /\ item'[i] \in ItemStates
    /\ item[i] # "coming" => item'[i] # "coming"
    /\ item[i] = "gone" => item'[i] = "gone"
    /\ item[i] \in Hopeless => item'[i] \in Hopeless

\* When items mature, everything that is known of them stays true.
LEMMA MaturesKeeps ==
  ASSUME PollInv, Matures, item' \in [Ids -> ItemStates], key' = key,
         UNCHANGED <<ppc, pollVars, observers>>
  PROVE  PollInv'
<1>1. UNCHANGED <<key, ppc, pkey, seen, seenKey, listKey, unread, new, delivered, known, waived, blinked>>
  BY DEF pollVars, observers
<1>2. \A i \in Ids : Done(i)' <=> Done(i)
  BY <1>1 DEF Done
<1>3. PollTyped' /\ KeysKnown'
  BY <1>1 DEF PollInv, PollTyped, KeysKnown
<1>4. ListedCame'
  BY <1>1 DEF PollInv, PollTyped, ListedCame, Matures
<1>5. DoneCame'
  BY <1>2 DEF PollInv, DoneCame, Matures
<1>6. ASSUME Settled PROVE Settled'
  <2>1. DoneIsSeen'
    BY <1>1, <1>2, <1>6 DEF Settled, DoneIsSeen, Matures
  <2>2. ListIsFresh'
    BY <1>1, <1>2, <1>6 DEF Settled, ListIsFresh, PollInv, PollTyped
  <2>3. AppliedAtMostOnce'
    BY <1>1, <1>6 DEF Settled, AppliedAtMostOnce
  <2>4. FilesSeen'
    BY <1>1, <1>6, PullAssumption DEF Settled, FilesSeen, Matures
  <2> QED
    BY <2>1, <2>2, <2>3, <2>4 DEF Settled
<1> QED
  BY <1>1, <1>3, <1>4, <1>5, <1>6 DEF PollInv

\* One item arrives, is damaged or is deleted.
LEMMA ItemMatures ==
  ASSUME PollTyped, NEW i \in Ids, NEW to \in ItemStates, item' = [item EXCEPT ![i] = to],
         item[i] # "gone", to # "coming", item[i] \in Hopeless => to = "gone"
  PROVE  Matures /\ item' \in [Ids -> ItemStates]
<1>1. item' \in [Ids -> ItemStates]
  BY DEF PollTyped
<1>2. \A j \in Ids : item'[j] = IF j = i THEN to ELSE item[j]
  BY DEF PollTyped
<1>3. ASSUME NEW j \in Ids
      PROVE  /\ item'[j] \in ItemStates
             /\ item[j] # "coming" => item'[j] # "coming"
             /\ item[j] = "gone" => item'[j] = "gone"
             /\ item[j] \in Hopeless => item'[j] \in Hopeless
  <2>1. CASE j = i
    BY <1>1, <1>2, <2>1 DEF Hopeless
  <2>2. CASE j # i
    BY <1>1, <1>2, <2>2 DEF Hopeless
  <2> QED
    BY <2>1, <2>2
<1> QED
  BY <1>1, <1>3 DEF Matures

\* The store's steps keep it; a change of key makes what was seen, and what
\* was listed, of no account.
LEMMA StorePoll == PollInv /\ StoreNext => PollInv'
<1> SUFFICES ASSUME PollInv, StoreNext PROVE PollInv'
  OBVIOUS
<1> USE DEF SameServe
<1>1. PollTyped
  BY DEF PollInv
<1>2. ASSUME NEW i \in Ids, Arrive(i) PROVE PollInv'
  <2>1. /\ key' = key /\ UNCHANGED <<ppc, pollVars, observers>>
    BY <1>2 DEF Arrive
  <2>2. \E to \in {"arriving", "whole", "late"} : item' = [item EXCEPT ![i] = to] /\ item[i] \in {"coming", "arriving", "late"}
    BY <1>2 DEF Arrive
  <2>3. PICK to \in {"arriving", "whole", "late"} : item' = [item EXCEPT ![i] = to] /\ item[i] \in {"coming", "arriving", "late"}
    BY <2>2
  <2>4. to \in ItemStates /\ to # "coming" /\ item[i] # "gone" /\ item[i] \notin Hopeless
    BY <2>3 DEF ItemStates, Hopeless
  <2>5. Matures /\ item' \in [Ids -> ItemStates]
    BY <1>1, <2>3, <2>4, ItemMatures
  <2> QED
    BY <2>1, <2>5, MaturesKeeps
<1>3. ASSUME NEW i \in Ids, Damage(i) PROVE PollInv'
  <2>1. /\ key' = key /\ UNCHANGED <<ppc, pollVars, observers>>
    BY <1>3 DEF Damage
  <2>2. \E to \in {"damaged", "spoiled"} : item' = [item EXCEPT ![i] = to] /\ item[i] \in {"arriving", "late"}
    BY <1>3 DEF Damage
  <2>3. PICK to \in {"damaged", "spoiled"} : item' = [item EXCEPT ![i] = to] /\ item[i] \in {"arriving", "late"}
    BY <2>2
  <2>4. to \in ItemStates /\ to # "coming" /\ item[i] # "gone" /\ item[i] \notin Hopeless
    BY <2>3 DEF ItemStates, Hopeless
  <2>5. Matures /\ item' \in [Ids -> ItemStates]
    BY <1>1, <2>3, <2>4, ItemMatures
  <2> QED
    BY <2>1, <2>5, MaturesKeeps
<1>4. ASSUME NEW i \in Ids, Delete(i) PROVE PollInv'
  <2>1. /\ key' = key /\ UNCHANGED <<ppc, pollVars, observers>>
        /\ item' = [item EXCEPT ![i] = "gone"] /\ item[i] # "gone"
    BY <1>4 DEF Delete, Stored
  <2>2. "gone" \in ItemStates /\ "gone" # "coming"
    BY DEF ItemStates
  <2>3. Matures /\ item' \in [Ids -> ItemStates]
    BY <1>1, <2>1, <2>2, ItemMatures
  <2> QED
    BY <2>1, <2>3, MaturesKeeps
<1>5. ASSUME item' = item, key' = key, UNCHANGED <<ppc, pollVars, observers>> PROVE PollInv'
  <2>1. Matures /\ item' \in [Ids -> ItemStates]
    BY <1>1, <1>5 DEF PollTyped, Matures
  <2> QED
    BY <1>5, <2>1, MaturesKeeps
<1>6. CASE BeginChange \/ MoveItems \/ UndoChange
  BY <1>5, <1>6 DEF BeginChange, MoveItems, UndoChange
<1>7. CASE CommitChange
  <2>1. UNCHANGED <<item, ppc, pkey, seen, seenKey, listKey, unread, new, delivered, known, waived, blinked>>
    BY <1>7 DEF CommitChange, pollVars, observers
  <2>2. key' = key + 1
    BY <1>7 DEF CommitChange
  <2>3. PollTyped' /\ KeysKnown' /\ key' # seenKey /\ key' # pkey
    BY <2>1, <2>2 DEF PollInv, PollTyped, KeysKnown
  <2>4. ListedCame' /\ DoneCame'
    BY <2>1 DEF PollInv, ListedCame, DoneCame, Done
  <2>5. DoneIsSeen' /\ ListIsFresh' /\ FilesSeen'
    BY <2>1, <2>3 DEF DoneIsSeen, ListIsFresh, FilesSeen
  <2>6. blinked' = blinked /\ (AppliedAtMostOnce => AppliedAtMostOnce')
    BY <2>1 DEF AppliedAtMostOnce
  <2> QED
    BY <2>3, <2>4, <2>5, <2>6 DEF PollInv, Settled
<1> QED
  BY <1>2, <1>3, <1>4, <1>6, <1>7 DEF StoreNext

--------------------------------------------------------------------------------
(***************************************************************************)
(* A poll.                                                                 *)
(***************************************************************************)
\* A step between polls: nothing is listed afterwards, nothing else changes,
\* and the store pull mode has open is the one it had or the present one.
LEMMA BetweenPolls ==
  ASSUME PollInv, UNCHANGED <<storeVars, seen, seenKey, listKey, observers>>,
         ppc' \notin Listing, unread' \in {unread, {}}, new' \in {new, {}},
         pkey' \in {pkey, key}
  PROVE  PollInv'
<1>1. UNCHANGED <<item, key, seen, seenKey, listKey, delivered, known, waived, blinked>>
  BY DEF storeVars, observers
<1>2. PollTyped' /\ KeysKnown'
  BY <1>1 DEF PollInv, PollTyped, KeysKnown, Listing, Handling
<1>3. ListedCame'
  <2>1. unread' \cup new' \subseteq unread \cup new
    OBVIOUS
  <2> QED
    BY <1>1, <2>1 DEF PollInv, ListedCame
<1>4. DoneCame'
  BY <1>1 DEF PollInv, DoneCame, Done
<1>5. ASSUME Settled PROVE Settled'
  <2>1. DoneIsSeen' /\ AppliedAtMostOnce' /\ FilesSeen'
    BY <1>1, <1>5 DEF Settled, DoneIsSeen, AppliedAtMostOnce, FilesSeen, Done
  <2>2. ListIsFresh'
    BY DEF ListIsFresh
  <2> QED
    BY <2>1, <2>2 DEF Settled
<1> QED
  BY <1>1, <1>2, <1>3, <1>4, <1>5 DEF PollInv

LEMMA BetweenSteps == PollInv /\ (CallFails \/ CheckKey \/ Reopen \/ Stop \/ EndServe) => PollInv'
<1> SUFFICES ASSUME PollInv, CallFails \/ CheckKey \/ Reopen \/ Stop \/ EndServe PROVE PollInv'
  OBVIOUS
<1>1. CASE CallFails
  BY <1>1, BetweenPolls DEF CallFails, Goto, Listing
<1>2. CASE CheckKey
  BY <1>2, BetweenPolls DEF CheckKey, Goto, pollVars, Listing
<1>3. CASE Reopen
  BY <1>3, BetweenPolls DEF Reopen, Goto, Listing
<1>4. CASE Stop
  BY <1>4, BetweenPolls DEF Stop, Goto, pollVars, Listing
<1>5. CASE EndServe
  BY <1>5, BetweenPolls DEF EndServe, Goto, pollVars, Listing
<1> QED
  BY <1>1, <1>2, <1>3, <1>4, <1>5

\* Every item that came is listed, unless it is gone or the folder is away.
LEMMA ListedMeans ==
  ASSUME PollTyped
  PROVE  /\ Listed \subseteq Ids
         /\ \A i \in Listed : item[i] \notin {"coming", "gone"}
         /\ change # "moved" => \A i \in Ids : item[i] \notin {"coming", "gone"} => i \in Listed
BY DEF PollTyped, Listed, Stored

\* Pull mode starts from what is there: all of it is seen, and waived.
LEMMA StartOver ==
  ASSUME PollInv, UNCHANGED storeVars, pkey' \in Nat, pkey' <= key, seenKey' = pkey', listKey' = key,
         seen' = Listed \X {key}, waived' = waived \cup Listed,
         delivered' = delivered, known' = known, blinked' = (blinked \/ change = "moved"),
         ppc' \notin Listing, unread' \in {unread, {}}, new' \in {new, {}}
  PROVE  PollInv'
<1>1. item' = item /\ key' = key
  BY DEF storeVars
<1>2. PollTyped
  BY DEF PollInv
<1>3. PollTyped' /\ KeysKnown'
  BY <1>1 DEF PollInv, PollTyped, KeysKnown, Listing, Handling
<1>4. ListedCame'
  <2>1. unread' \cup new' \subseteq unread \cup new
    OBVIOUS
  <2> QED
    BY <1>1, <2>1 DEF PollInv, ListedCame
<1>5. \A i \in Ids : Done(i)' <=> Done(i)
  BY DEF Done
<1>6. DoneCame'
  BY <1>1, <1>5 DEF PollInv, DoneCame
<1>7. ASSUME Settled, change # "moved" PROVE Settled'
  <2>1. DoneIsSeen'
    <3> SUFFICES ASSUME NEW i \in Ids, Done(i)', item[i] # "gone"
                 PROVE  <<i, key>> \in seen'
      BY <1>1 DEF DoneIsSeen
    <3>1. item[i] # "coming"
      BY <1>5 DEF PollInv, DoneCame
    <3>2. i \in Listed
      BY <1>2, <1>7, <3>1, ListedMeans
    <3> QED
      BY <3>2
  <2>2. ListIsFresh'
    BY DEF ListIsFresh
  <2>3. AppliedAtMostOnce'
    BY <1>7 DEF Settled, AppliedAtMostOnce
  <2>4. FilesSeen'
    <3> SUFFICES ASSUME NEW i \in Foreign \cap Files, <<i, key>> \in seen'
                 PROVE  i \in waived'
      BY <1>1 DEF FilesSeen
    <3> QED
      OBVIOUS
  <2> QED
    BY <2>1, <2>2, <2>3, <2>4 DEF Settled
<1> QED
  BY <1>3, <1>4, <1>6, <1>7 DEF PollInv

LEMMA StartPoll == PollInv /\ Start => PollInv'
<1> SUFFICES ASSUME PollInv, Start PROVE PollInv'
  OBVIOUS
<1>1. /\ change = "none" /\ UNCHANGED <<storeVars, delivered, known, blinked>>
      /\ pkey' = key /\ seenKey' = key /\ listKey' = key /\ seen' = Listed \X {key}
      /\ waived' = waived \cup Listed /\ unread' = {} /\ new' = {} /\ ppc' = "idle"
  BY DEF Start, Goto
<1>2. key \in Nat /\ key <= key /\ blinked' = (blinked \/ change = "moved")
  <2>1. key \in Nat
    BY DEF PollInv, PollTyped
  <2>2. blinked' = blinked /\ change # "moved"
    BY <1>1
  <2>3. blinked' = (blinked \/ change = "moved")
    BY <2>2, Zenon DEF PollInv, PollTyped
  <2> QED
    BY <2>1, <2>3
<1> QED
  BY <1>1, <1>2, StartOver DEF Listing

\* A list under the key pull mode knows: what is new in it is not done with.
LEMMA ListPoll == PollInv /\ List => PollInv'
<1> SUFFICES ASSUME PollInv, List PROVE PollInv'
  OBVIOUS
<1>1. /\ ppc = "list" /\ listKey' = key /\ blinked' = (blinked \/ change = "moved")
      /\ UNCHANGED <<storeVars, pkey, delivered, known>>
  BY DEF List
<1>2. PollTyped /\ KeysKnown
  BY DEF PollInv
<1>3. item' = item /\ key' = key
  BY <1>1 DEF storeVars
<1>4. CASE pkey # seenKey
  <2>1. /\ seenKey' = pkey /\ seen' = Listed \X {key} /\ waived' = waived \cup Listed
        /\ ppc' = "idle" /\ unread' = unread /\ new' = new
    BY <1>4 DEF List, Goto
  <2>2. pkey' \in Nat /\ pkey' <= key /\ seenKey' = pkey'
    BY <1>1, <1>2, <2>1 DEF PollTyped, KeysKnown
  <2> QED
    BY <1>1, <2>1, <2>2, StartOver DEF Listing
<1>5. CASE pkey = seenKey
  <2>1. /\ seen' = seen \cap (Listed \X {key})
        /\ unread' = {i \in Listed : <<i, key>> \notin seen} /\ new' = {}
        /\ seenKey' = seenKey /\ waived' = waived /\ ppc' \in {"idle", "meta"}
    BY <1>5 DEF List, Goto
  <2>2. PollTyped' /\ KeysKnown'
    <3>1. unread' \subseteq Ids
      BY <1>2, <2>1, ListedMeans
    <3> QED
      BY <1>1, <1>2, <1>3, <1>5, <2>1, <3>1 DEF PollTyped, KeysKnown, Listing, Handling
  <2>3. ListedCame'
    BY <1>2, <1>3, <2>1, ListedMeans DEF ListedCame
  <2>4. \A i \in Ids : Done(i)' <=> Done(i)
    BY <1>1 DEF Done
  <2>5. DoneCame'
    BY <1>3, <2>4 DEF PollInv, DoneCame
  <2>6. ASSUME Settled, change # "moved" PROVE Settled'
    <3>1. DoneIsSeen'
      <4> SUFFICES ASSUME NEW i \in Ids, Done(i)', seenKey = key, item[i] # "gone"
                   PROVE  <<i, key>> \in seen'
        BY <1>3, <2>1 DEF DoneIsSeen
      <4>1. Done(i) /\ item[i] # "coming"
        BY <2>4 DEF PollInv, DoneCame
      <4>2. i \in Listed
        BY <1>2, <2>6, <4>1, ListedMeans
      <4>3. <<i, key>> \in seen
        BY <2>6, <4>1 DEF Settled, DoneIsSeen
      <4> QED
        BY <2>1, <4>2, <4>3
    <3>2. ListIsFresh'
      <4> SUFFICES ASSUME pkey = key, NEW i \in unread', Done(i)' PROVE FALSE
        BY <1>1, <1>3, <2>1 DEF ListIsFresh
      <4>1. i \in Ids /\ i \in Listed /\ <<i, key>> \notin seen /\ item[i] # "gone"
        BY <1>2, <2>1, ListedMeans
      <4>2. Done(i)
        BY <2>4, <4>1
      <4> QED
        BY <1>5, <2>6, <4>1, <4>2 DEF Settled, DoneIsSeen
    <3>3. AppliedAtMostOnce'
      BY <1>1, <2>6 DEF Settled, AppliedAtMostOnce
    <3>4. FilesSeen'
      BY <1>1, <1>3, <2>1, <2>6 DEF Settled, FilesSeen
    <3> QED
      BY <3>1, <3>2, <3>3, <3>4 DEF Settled
  <2> QED
    BY <1>1, <2>2, <2>3, <2>5, <2>6 DEF PollInv
<1> QED
  BY <1>4, <1>5

\* What the rest of a poll touches: items it read are handled, with the key
\* they were listed under, and some become done with.
Polls ==
  /\ UNCHANGED <<storeVars, pkey, seenKey, listKey>>
  /\ ppc \in Listing
  /\ unread' \subseteq unread /\ unread' \cup new' \subseteq unread \cup new
  /\ ppc' \in Handling => unread' = {}
  /\ delivered' \in [Ids -> Nat]
  /\ seen \subseteq seen' /\ waived \subseteq waived'
  /\ blinked' \in {blinked, blinked \/ change = "moved"}

\* What becomes done with is read, seen and left, and nothing is applied that
\* was applied before; a file is seen only when there is a reason.
DoneWell ==
  \A i \in Ids :
    /\ delivered'[i] = delivered[i] \/ (delivered[i] = 0 /\ delivered'[i] = 1)
    /\ Done(i)' => \/ Done(i)
                   \/ i \in unread \cup new /\ i \notin unread' \cup new' /\ <<i, listKey>> \in seen'
SeenWell ==
  \A i \in Foreign \cap Files :
    /\ <<i, key>> \in seen' => \/ <<i, key>> \in seen \/ listKey # key \/ pkey # key
                               \/ i \in waived' \/ delivered'[i] > 0 \/ item[i] \in Hopeless
    /\ delivered[i] > 0 => delivered'[i] > 0

\* Such a step keeps the invariant.
LEMMA PollsKeep ==
  ASSUME PollInv, Polls,
         \A i \in Ids : Done(i)' => Done(i) \/ i \in unread \cup new,
         ~blinked' => DoneWell /\ SeenWell
  PROVE  PollInv'
<1>1. UNCHANGED <<item, key, pkey, seenKey, listKey>>
  BY DEF Polls, storeVars
<1>2. PollTyped /\ KeysKnown
  BY DEF PollInv
<1>3. PollTyped' /\ KeysKnown'
  BY <1>1, <1>2 DEF PollTyped, KeysKnown, Polls
<1>4. ListedCame'
  BY <1>1 DEF PollInv, ListedCame, Polls
<1>5. DoneCame'
  BY <1>1 DEF PollInv, DoneCame, ListedCame
<1>6. ASSUME ~blinked' PROVE Settled'
  <2>1. DoneWell /\ SeenWell
    BY <1>6
  <2>2. ~blinked /\ Settled
    <3>1. ~blinked
      BY <1>6, Zenon DEF Polls
    <3> QED
      BY <3>1 DEF PollInv
  <2>3. seenKey <= listKey /\ listKey <= key /\ pkey = seenKey
    BY <1>2 DEF KeysKnown, Polls
  <2>4. DoneIsSeen'
    <3> SUFFICES ASSUME seenKey = key, NEW i \in Ids, Done(i)', item[i] # "gone"
                 PROVE  <<i, key>> \in seen'
      BY <1>1 DEF DoneIsSeen
    <3>1. listKey = key
      BY <1>2, <2>3 DEF PollTyped
    <3>2. CASE Done(i)
      BY <2>2, <3>2 DEF Settled, DoneIsSeen, Polls
    <3>3. CASE ~Done(i)
      BY <2>1, <3>1, <3>3 DEF DoneWell
    <3> QED
      BY <3>2, <3>3
  <2>5. ListIsFresh'
    <3> SUFFICES ASSUME pkey = key, listKey = key, NEW i \in unread' \cup new', Done(i)'
                 PROVE  FALSE
      BY <1>1 DEF ListIsFresh
    <3>1. i \in unread \cup new /\ i \in Ids
      BY <1>2 DEF Polls, PollTyped
    <3>2. ~Done(i)
      BY <2>2, <3>1 DEF Settled, ListIsFresh, Polls
    <3> QED
      BY <2>1, <3>1, <3>2 DEF DoneWell
  <2>6. AppliedAtMostOnce'
    <3> SUFFICES ASSUME NEW i \in Ids PROVE delivered'[i] <= 1
      BY DEF AppliedAtMostOnce
    <3>1. delivered[i] <= 1
      BY <2>2 DEF Settled, AppliedAtMostOnce
    <3>2. delivered'[i] = delivered[i] \/ delivered'[i] = 1
      BY <2>1 DEF DoneWell
    <3> QED
      BY <3>1, <3>2
  <2>7. FilesSeen'
    <3> SUFFICES ASSUME seenKey = key, NEW i \in Foreign \cap Files, <<i, key>> \in seen'
                 PROVE  i \in waived' \/ delivered'[i] > 0 \/ item[i] \in Hopeless
      BY <1>1 DEF FilesSeen
    <3>1. listKey = key /\ pkey = key
      BY <1>2, <2>3 DEF PollTyped
    <3>2. \/ <<i, key>> \in seen
          \/ i \in waived' \/ delivered'[i] > 0 \/ item[i] \in Hopeless
      BY <2>1, <3>1 DEF SeenWell
    <3>3. CASE <<i, key>> \in seen
      <4>1. i \in waived \/ delivered[i] > 0 \/ item[i] \in Hopeless
        BY <2>2, <3>3 DEF Settled, FilesSeen
      <4> QED
        BY <2>1, <4>1 DEF SeenWell, Polls
    <3> QED
      BY <3>2, <3>3
  <2> QED
    BY <2>4, <2>5, <2>6, <2>7 DEF Settled
<1> QED
  BY <1>3, <1>4, <1>5, <1>6 DEF PollInv

\* What cannot be read while no change is under way never will be.
LEMMA UnreadableMeans ==
  ASSUME PollTyped, NEW i \in Ids, change # "moved", listKey = key, pkey = key, item[i] # "coming",
         Readable(i) \in {"missing", "damaged", "spoiled", "other-key"}
  PROVE  item[i] \in Hopeless
BY DEF PollTyped, Readable, Hopeless, ItemStates

\* What reads whole is listed under the key of the store pull mode has open.
LEMMA WholeMeans ==
  ASSUME NEW i, Readable(i) = "whole"
  PROVE  listKey = key /\ pkey = key
BY DEF Readable

\* A step of a poll that handles, or puts off, one item without applying it.
LEMMA HandlesOne ==
  ASSUME PollInv, Polls, NEW i \in unread \cup new,
         seen' \in {seen, seen \cup {<<i, listKey>>}},
         delivered' = delivered,
         known' = known \/ (known' = known \cup {i} /\ i \notin unread' \cup new' /\ <<i, listKey>> \in seen'),
         ~blinked' =>
            \/ seen' = seen \/ i \notin Foreign \cap Files \/ i \in waived'
            \/ /\ change # "moved"
               /\ Readable(i) \in {"missing", "damaged", "spoiled", "other-key"}
  PROVE  PollInv'
<1>1. PollTyped /\ ListedCame /\ i \in Ids
  BY DEF PollInv, PollTyped
<1>2. item[i] # "coming"
  BY <1>1 DEF ListedCame
<1>3. \A j \in Ids : Done(j)' => Done(j) \/ j = i
  BY DEF Done
<1>4. DoneWell
  <2> SUFFICES ASSUME NEW j \in Ids, Done(j)', ~Done(j)
               PROVE  j = i /\ i \notin unread' \cup new' /\ <<i, listKey>> \in seen'
    BY DEF DoneWell
  <2>1. j = i
    BY <1>3
  <2>2. known' # known
    BY DEF Done
  <2> QED
    BY <2>1, <2>2
<1>5. ASSUME ~blinked' PROVE SeenWell
  <2>1. ASSUME NEW j \in Foreign \cap Files, <<j, key>> \in seen', <<j, key>> \notin seen,
               listKey = key, pkey = key
        PROVE  j \in waived' \/ item[j] \in Hopeless
    <3>1. j = i /\ seen' # seen
      BY <2>1
    <3>2. CASE i \in waived'
      BY <3>1, <3>2
    <3>3. CASE i \notin waived'
      <4>1. change # "moved" /\ Readable(i) \in {"missing", "damaged", "spoiled", "other-key"}
        BY <1>5, <2>1, <3>1, <3>3
      <4>2. item[i] \in Hopeless
        BY <1>1, <1>2, <2>1, <4>1, UnreadableMeans
      <4> QED
        BY <3>1, <4>2
    <3> QED
      BY <3>2, <3>3
  <2> QED
    BY <2>1 DEF SeenWell
<1> QED
  BY <1>3, <1>4, <1>5, PollsKeep

\* Once a poll met the moved folder, it is marked.
LEMMA BlinkedMeans ==
  ASSUME PollTyped, blinked' = (blinked \/ change = "moved")
  PROVE  /\ ~blinked' => change # "moved"
         /\ blinked' \in {blinked, blinked \/ change = "moved"}
BY DEF PollTyped

LEMMA ReadMetaPoll == PollInv /\ ReadMeta => PollInv'
<1> SUFFICES ASSUME PollInv, ReadMeta PROVE PollInv'
  OBVIOUS
<1>1. ppc = "meta" /\ UNCHANGED <<storeVars, pkey, seenKey, listKey, delivered, known, waived>>
  BY DEF ReadMeta
<1>2. PICK i \in unread :
        /\ unread' = unread \ {i} /\ blinked' = (blinked \/ change = "moved")
        /\ \/ Readable(i) \in {"late", "whole", "spoiled"} /\ new' = new \cup {i} /\ seen' = seen
           \/ /\ Readable(i) \in {"missing", "damaged", "other-key"}
              /\ seen' = seen \cup {<<i, listKey>>} /\ new' = new
           \/ seen' = seen /\ new' = new
  BY DEF ReadMeta, Handled
<1>3. PollTyped
  BY DEF PollInv
<1>4. ppc' \in Handling => unread' = {}
  BY DEF ReadMeta, Goto, Handling
<1>5. unread' \subseteq unread /\ unread' \cup new' \subseteq unread \cup new /\ i \in unread \cup new
  BY <1>2
<1>6. Polls
  <2>1. delivered' \in [Ids -> Nat]
    BY <1>1, <1>3 DEF PollTyped
  <2>2. seen \subseteq seen' /\ waived \subseteq waived'
    BY <1>1, <1>2
  <2>3. blinked' \in {blinked, blinked \/ change = "moved"}
    BY <1>2, <1>3, BlinkedMeans
  <2> QED
    BY <1>1, <1>4, <1>5, <2>1, <2>2, <2>3 DEF Polls, Listing
<1>7. seen' \in {seen, seen \cup {<<i, listKey>>}}
  BY <1>2
<1>8. ~blinked' => \/ seen' = seen
                   \/ change # "moved" /\ Readable(i) \in {"missing", "damaged", "spoiled", "other-key"}
  BY <1>2, <1>3, BlinkedMeans
<1> QED
  BY <1>1, <1>5, <1>6, <1>7, <1>8, HandlesOne

\* An item that leaves the poll.
LEMMA LeaveMeans ==
  ASSUME PollInv, NEW i \in new, Leave(i), ppc \in Handling, unread' = unread
  PROVE  /\ unread' = {} /\ new' = new \ {i} /\ i \notin unread' \cup new'
         /\ unread' \cup new' \subseteq unread \cup new
<1>1. unread = {}
  BY DEF PollInv, KeysKnown
<1> QED
  BY <1>1 DEF Leave

LEMMA PassOverPoll == PollInv /\ PassOver => PollInv'
<1> SUFFICES ASSUME PollInv, PassOver PROVE PollInv'
  OBVIOUS
<1>1. ppc = "apply" /\ UNCHANGED <<storeVars, pkey, seenKey, listKey, unread, delivered, waived, blinked>>
  BY DEF PassOver
<1>2. PICK i \in new :
        /\ ~Applies(i) /\ known' = IF i \in Foreign THEN known \cup {i} ELSE known
        /\ seen' = seen \cup {<<i, listKey>>} /\ Leave(i)
  BY DEF PassOver, Handled
<1>3. /\ unread' = {} /\ i \notin unread' \cup new'
      /\ unread' \cup new' \subseteq unread \cup new
  BY <1>1, <1>2, LeaveMeans DEF Handling
<1>4. PollTyped
  BY DEF PollInv
<1>5. Polls
  <2>1. delivered' \in [Ids -> Nat]
    BY <1>1, <1>4 DEF PollTyped
  <2> QED
    BY <1>1, <1>2, <1>3, <2>1 DEF Polls, Listing
<1>6. i \notin Foreign \cap Files
  BY <1>2 DEF Applies, ForClipboard
<1> QED
  BY <1>1, <1>2, <1>3, <1>5, <1>6, HandlesOne

\* An item whose content cannot be read leaves the poll.
LEMMA UnopenedPoll ==
  ASSUME PollInv, ppc \in Handling, NEW i \in new, Unopened(i),
         UNCHANGED <<storeVars, pkey, seenKey, listKey, unread>>
  PROVE  PollInv'
<1>1. /\ blinked' = (blinked \/ change = "moved") /\ Leave(i)
      /\ delivered' = delivered /\ known' = known /\ waived' = waived
      /\ \/ /\ Readable(i) \in {"missing", "damaged", "spoiled", "other-key"}
            /\ seen' = seen \cup {<<i, listKey>>}
         \/ seen' = seen
  BY DEF Unopened, Handled
<1>2. /\ unread' = {} /\ i \notin unread' \cup new'
      /\ unread' \cup new' \subseteq unread \cup new
  BY <1>1, LeaveMeans
<1>3. PollTyped
  BY DEF PollInv
<1>4. Polls
  <2>1. delivered' \in [Ids -> Nat]
    BY <1>1, <1>3 DEF PollTyped
  <2>2. seen \subseteq seen' /\ waived \subseteq waived'
    BY <1>1
  <2>3. blinked' \in {blinked, blinked \/ change = "moved"}
    BY <1>1, <1>3, BlinkedMeans
  <2> QED
    BY <1>2, <2>1, <2>2, <2>3 DEF Polls, Listing, Handling
<1>5. seen' \in {seen, seen \cup {<<i, listKey>>}}
  BY <1>1
<1>6. ~blinked' => \/ seen' = seen
                   \/ change # "moved" /\ Readable(i) \in {"missing", "damaged", "spoiled", "other-key"}
  BY <1>1, <1>3, BlinkedMeans
<1> QED
  BY <1>1, <1>4, <1>5, <1>6, HandlesOne

\* An item that is applied leaves the poll, and was not done with before.
LEMMA AppliesOne ==
  ASSUME PollInv, ppc \in Handling, NEW i \in new, Leave(i), Readable(i) = "whole",
         UNCHANGED <<storeVars, pkey, seenKey, listKey, unread, waived, blinked>>,
         seen' = seen \cup {<<i, listKey>>},
         delivered' = [delivered EXCEPT ![i] = @ + 1],
         \A j \in Ids : j \in known' /\ j \in Foreign /\ ForClipboard(j) => Done(j) \/ j = i
  PROVE  PollInv'
<1>1. PollTyped /\ i \in Ids
  BY DEF PollInv, PollTyped
<1>2. /\ unread' = {} /\ i \notin unread' \cup new'
      /\ unread' \cup new' \subseteq unread \cup new
  BY LeaveMeans
<1>3. listKey = key /\ pkey = key
  BY WholeMeans
<1>4. delivered' \in [Ids -> Nat] /\ \A j \in Ids : delivered'[j] = IF j = i THEN delivered[i] + 1 ELSE delivered[j]
  BY <1>1 DEF PollTyped
<1>5. Polls
  BY <1>2, <1>4 DEF Polls, Listing, Handling
<1>6. \A j \in Ids : Done(j)' => Done(j) \/ j = i
  BY <1>4 DEF Done
<1>7. ASSUME ~blinked' PROVE DoneWell /\ SeenWell
  <2>1. ~Done(i)
    BY <1>3, <1>7 DEF PollInv, Settled, ListIsFresh, Listing, Handling
  <2>2. delivered[i] = 0
    BY <1>1, <2>1 DEF Done, PollTyped
  <2>3. DoneWell
    BY <1>2, <1>4, <1>6, <2>2 DEF DoneWell
  <2>4. \A j \in Ids : delivered[j] \in Nat
    BY <1>1 DEF PollTyped
  <2>5. \A j \in Ids : delivered[j] > 0 => delivered'[j] > 0
    BY <1>4, <2>4
  <2>6. delivered'[i] > 0
    BY <1>4, <2>2
  <2>7. SeenWell
    BY <2>5, <2>6, PullAssumption DEF SeenWell
  <2> QED
    BY <2>3, <2>7
<1> QED
  BY <1>5, <1>6, <1>7, PollsKeep

\* An item that is done with unapplied: it is no file, or it is waived.
LEMMA SkipsOne ==
  ASSUME PollInv, ppc \in Handling, NEW i \in new, Leave(i), seen' = seen \cup {<<i, listKey>>},
         UNCHANGED <<storeVars, pkey, seenKey, listKey, unread, delivered, known, blinked>>,
         waived \subseteq waived', i \in waived' \/ i \notin Files
  PROVE  PollInv'
<1>1. /\ unread' = {} /\ unread' \cup new' \subseteq unread \cup new
  BY LeaveMeans
<1>2. delivered' \in [Ids -> Nat]
  BY DEF PollInv, PollTyped
<1>3. Polls
  BY <1>1, <1>2 DEF Polls, Listing, Handling
<1> QED
  BY <1>3, HandlesOne

\* Of the items that go to the clipboard, only the one applied is left.
LEMMA ChosenAlone ==
  ASSUME PollTyped, NEW i \in new, NextItem(i), Applies(i), ForClipboard(i),
         NEW j \in new, j \in Foreign, ForClipboard(j)
  PROVE  j = i
<1>1. i \in Nat /\ j \in Nat
  BY PullAssumption DEF PollTyped
<1>2. i <= j /\ j <= i
  BY DEF NextItem, Applies, Chosen
<1> QED
  BY <1>1, <1>2

LEMMA ApplyPoll == PollInv /\ Apply => PollInv'
<1> SUFFICES ASSUME PollInv, Apply PROVE PollInv'
  OBVIOUS
<1>1. ppc \in Handling /\ UNCHANGED <<storeVars, pkey, seenKey, listKey, unread>>
  BY DEF Apply, Handling
<1>2. PICK i \in new :
        /\ NextItem(i) /\ Applies(i) /\ ForClipboard(i)
        /\ \/ Unopened(i)
           \/ /\ seen' = seen \cup {<<i, listKey>>} /\ Leave(i)
              /\ UNCHANGED <<delivered, known, waived, blinked>>
           \/ /\ Readable(i) = "whole" /\ delivered' = [delivered EXCEPT ![i] = @ + 1]
              /\ known' = known \cup new /\ seen' = seen \cup {<<i, listKey>>} /\ Leave(i)
              /\ UNCHANGED <<waived, blinked>>
  BY DEF Apply, Handled
<1>3. CASE Unopened(i)
  BY <1>1, <1>3, UnopenedPoll
<1>4. CASE /\ seen' = seen \cup {<<i, listKey>>} /\ Leave(i)
           /\ UNCHANGED <<delivered, known, waived, blinked>>
  <2>1. i \notin Files
    BY <1>2 DEF ForClipboard
  <2> QED
    BY <1>1, <1>4, <2>1, SkipsOne
<1>5. CASE /\ Readable(i) = "whole" /\ delivered' = [delivered EXCEPT ![i] = @ + 1]
           /\ known' = known \cup new /\ seen' = seen \cup {<<i, listKey>>} /\ Leave(i)
           /\ UNCHANGED <<waived, blinked>>
  <2>1. PollTyped
    BY DEF PollInv
  <2>2. \A j \in Ids : j \in known' /\ j \in Foreign /\ ForClipboard(j) => Done(j) \/ j = i
    BY <1>2, <1>5, <2>1, ChosenAlone DEF Done
  <2> QED
    BY <1>1, <1>5, <2>2, AppliesOne
<1> QED
  BY <1>2, <1>3, <1>4, <1>5

\* A file has a place and a name, or is skipped.
LEMMA FindTargetPoll == PollInv /\ FindTarget => PollInv'
<1> SUFFICES ASSUME PollInv, FindTarget PROVE PollInv'
  OBVIOUS
<1>1. ppc = "apply" /\ UNCHANGED <<storeVars, pkey, seenKey, listKey, unread>>
  BY DEF FindTarget
<1>2. PICK i \in new :
        \/ SkipFile(i)
        \/ ppc' = "save" /\ UNCHANGED <<seen, new, waived, delivered, known, blinked>>
  BY DEF FindTarget, Goto
<1>3. CASE SkipFile(i)
  BY <1>1, <1>3, SkipsOne DEF SkipFile, Handled, Handling
<1>4. CASE ppc' = "save" /\ UNCHANGED <<seen, new, waived, delivered, known, blinked>>
  <2>1. unread = {} /\ delivered' \in [Ids -> Nat] /\ i \in unread \cup new
    BY <1>1, <1>4 DEF PollInv, PollTyped, KeysKnown, Handling
  <2>2. Polls
    BY <1>1, <1>4, <2>1 DEF Polls, Listing
  <2> QED
    BY <1>4, <2>1, <2>2, HandlesOne
<1> QED
  BY <1>2, <1>3, <1>4

LEMMA DownloadPoll == PollInv /\ Download => PollInv'
<1> SUFFICES ASSUME PollInv, Download PROVE PollInv'
  OBVIOUS
<1>1. ppc \in Handling /\ UNCHANGED <<storeVars, pkey, seenKey, listKey, unread>>
  BY DEF Download, Handling
<1>2. PICK i \in new :
        \/ Unopened(i)
        \/ SkipFile(i)
        \/ /\ Readable(i) = "whole" /\ delivered' = [delivered EXCEPT ![i] = @ + 1]
           /\ seen' = seen \cup {<<i, listKey>>} /\ Leave(i)
           /\ UNCHANGED <<known, waived, blinked>>
  BY DEF Download, Handled
<1>3. CASE Unopened(i)
  BY <1>1, <1>3, UnopenedPoll
<1>4. CASE SkipFile(i)
  BY <1>1, <1>4, SkipsOne DEF SkipFile, Handled
<1>5. CASE /\ Readable(i) = "whole" /\ delivered' = [delivered EXCEPT ![i] = @ + 1]
           /\ seen' = seen \cup {<<i, listKey>>} /\ Leave(i)
           /\ UNCHANGED <<known, waived, blinked>>
  <2>1. \A j \in Ids : j \in known' /\ j \in Foreign /\ ForClipboard(j) => Done(j) \/ j = i
    BY <1>5 DEF Done
  <2> QED
    BY <1>1, <1>5, <2>1, AppliesOne
<1> QED
  BY <1>2, <1>3, <1>4, <1>5

--------------------------------------------------------------------------------
(***************************************************************************)
(* The whole of pull mode.                                                 *)
(***************************************************************************)
LEMMA PullInvInit == PullInit => PullIInv
<1> SUFFICES ASSUME PullInit PROVE PullIInv
  OBVIOUS
<1>1. EchoInv
  BY EchoInit DEF PullInit
<1>2. /\ item = [i \in Ids |-> "coming"] /\ delivered = [i \in Ids |-> 0]
      /\ key = 0 /\ pkey = 0 /\ seenKey = 0 /\ listKey = 0 /\ ppc = "idle"
      /\ seen = {} /\ unread = {} /\ new = {} /\ known = {} /\ blinked = FALSE
  BY DEF PullInit
<1>3. PollTyped
  BY <1>2 DEF PollTyped, ItemStates
<1>4. KeysKnown /\ ListedCame
  BY <1>2 DEF KeysKnown, ListedCame
<1>5. \A i \in Ids : delivered[i] = 0 /\ ~Done(i)
  BY <1>2 DEF Done
<1>6. DoneCame
  BY <1>5 DEF DoneCame
<1>7. DoneIsSeen /\ ListIsFresh /\ AppliedAtMostOnce /\ FilesSeen
  BY <1>2, <1>5 DEF DoneIsSeen, ListIsFresh, AppliedAtMostOnce, FilesSeen
<1> QED
  BY <1>1, <1>3, <1>4, <1>6, <1>7 DEF PullIInv, PollInv, Settled

\* What pull mode hands to the clipboard loop is content.
LEMMA ApplyEcho == PollInv /\ EchoInv /\ (Apply \/ FindTarget \/ Download) => EchoInv'
<1> SUFFICES ASSUME PollInv, EchoInv, Apply \/ FindTarget \/ Download PROVE EchoInv'
  OBVIOUS
<1>1. UNCHANGED <<clip, lastText, lastImage, waiting, jobs>>
  BY DEF Apply, FindTarget, Download
<1>2. writes' = writes \/ \E i \in new : ForClipboard(i) /\ writes' = Append(writes, Content[i])
  BY DEF Apply, FindTarget, Download, Unopened, SkipFile
<1>3. \A i \in new : ForClipboard(i) => Content[i] \in Contents
  BY PullAssumption DEF PollInv, PollTyped, ForClipboard
<1>4. writes' \in Seq(Contents)
  BY <1>2, <1>3 DEF EchoInv
<1> QED
  BY <1>1, <1>4 DEF EchoInv, Marked

\* Every other step leaves the clipboard loop alone.
LEMMA SameEcho == EchoInv /\ UNCHANGED clipboardVars => EchoInv'
BY DEF EchoInv, Marked, clipboardVars

LEMMA PullInvNext == PullIInv /\ [PullNext]_vars => PullIInv'
<1> SUFFICES ASSUME EchoInv, PollInv, [PullNext]_vars PROVE EchoInv' /\ PollInv'
  BY DEF PullIInv
<1>1. CASE StoreNext
  <2>1. UNCHANGED clipboardVars
    BY <1>1 DEF StoreNext, SameServe, Arrive, Damage, Delete, BeginChange, MoveItems,
                CommitChange, UndoChange
  <2> QED
    BY <1>1, <2>1, SameEcho, StorePoll
<1>2. CASE PollStep
  <2>1. CASE CheckKey \/ Reopen
    <3>1. UNCHANGED clipboardVars
      BY <2>1 DEF CheckKey, Reopen
    <3> QED
      BY <2>1, <3>1, SameEcho, BetweenSteps
  <2>2. CASE List
    <3>1. UNCHANGED clipboardVars
      BY <2>2 DEF List
    <3> QED
      BY <2>2, <3>1, SameEcho, ListPoll
  <2>3. CASE ReadMeta
    <3>1. UNCHANGED clipboardVars
      BY <2>3 DEF ReadMeta
    <3> QED
      BY <2>3, <3>1, SameEcho, ReadMetaPoll
  <2>4. CASE PassOver
    <3>1. UNCHANGED clipboardVars
      BY <2>4 DEF PassOver
    <3> QED
      BY <2>4, <3>1, SameEcho, PassOverPoll
  <2>5. CASE Apply
    BY <2>5, ApplyEcho, ApplyPoll
  <2>6. CASE FindTarget
    BY <2>6, ApplyEcho, FindTargetPoll
  <2>7. CASE Download
    BY <2>7, ApplyEcho, DownloadPoll
  <2> QED
    BY <1>2, <2>1, <2>2, <2>3, <2>4, <2>5, <2>6, <2>7 DEF PollStep
<1>3. CASE CallFails \/ Stop \/ EndServe
  <2>1. UNCHANGED clipboardVars
    BY <1>3 DEF CallFails, Stop, EndServe
  <2> QED
    BY <1>3, <2>1, SameEcho, BetweenSteps
<1>4. CASE Start
  <2>1. ClipboardRestart
    BY <1>4 DEF Start
  <2> QED
    BY <1>4, <2>1, RestartEcho, StartPoll
<1>5. CASE LoopStep
  <2>1. (Read \/ Queue \/ Write) /\ UNCHANGED <<storeVars, ppc, pollVars, observers>>
    BY <1>5 DEF LoopStep
  <2> QED
    BY <2>1, ReadEcho, QueueEcho, WriteEcho, SamePoll
<1>6. CASE UploaderTakes
  <2>1. TakeJob /\ UNCHANGED <<storeVars, ppc, pollVars, observers>>
    BY <1>6 DEF UploaderTakes
  <2> QED
    BY <2>1, TakeJobEcho, SamePoll
<1>7. CASE UserStep
  <2>1. UNCHANGED <<storeVars, ppc, pollVars, observers>>
    BY <1>7 DEF UserStep
  <2>2. PICK t \in Texts \cup {Nothing}, i \in Images \cup {Nothing} : Copy(t, i)
    BY <1>7 DEF UserStep
  <2> QED
    BY <2>1, <2>2, CopyEcho, SamePoll
<1>8. CASE UNCHANGED vars
  <2>1. UNCHANGED clipboardVars /\ UNCHANGED <<storeVars, ppc, pollVars, observers>>
    BY <1>8 DEF vars
  <2> QED
    BY <2>1, SameEcho, SamePoll
<1> QED
  BY <1>1, <1>2, <1>3, <1>4, <1>5, <1>6, <1>7, <1>8 DEF PullNext

LEMMA PullInvAlways == PullSpec => []PullIInv
<1> QED
  BY PullInvInit, PullInvNext, PTL DEF PullSpec

\* Whatever arrives, changes or fails, and whatever the user copies: nothing
\* that pull mode put on the clipboard is queued to be sent (clipboard_watcher.rs
\* `mark_text`, `mark_image`; serve/mod.rs `clipboard_loop`).
THEOREM PullSendsNothingBack == PullSpec => []NoEcho
<1>1. PullIInv => NoEcho
  BY EchoMeans DEF PullIInv
<1> QED
  BY <1>1, PullInvAlways, PTL

\* No item is applied twice, though a change of key gives it a new id, unless
\* a poll met the folder of items moved away (pull.rs `poll`).
THEOREM PullAppliesOnce == PullSpec => []AppliedOnce
<1>1. PullIInv => AppliedOnce
  BY DEF PullIInv, PollInv, Settled, AppliedAtMostOnce, AppliedOnce
<1> QED
  BY <1>1, PullInvAlways, PTL

\* However many calls fail, however items arrive and however often the key
\* changes: a whole file of another device that pull mode takes as handled was
\* downloaded, or was there when pull mode started, or this device had no
\* directory or name for it or failed to save it (pull.rs `poll`, `download`,
\* `unopened`, `read_failed`).
THEOREM PullSkipsNothing == PullSpec => []NothingSkipped
<1>1. PullIInv => NothingSkipped
  <2> SUFFICES ASSUME Settled, NEW i \in Foreign \cap Files, item[i] = "whole", seenKey = key,
                      <<i, key>> \in seen, i \notin waived
               PROVE  delivered[i] > 0
    BY DEF PullIInv, PollInv, NothingSkipped
  <2> QED
    BY DEF Settled, FilesSeen, Hopeless
<1> QED
  BY <1>1, PullInvAlways, PTL

\* What a step applies is another device's, and was not done with before.
LEMMA AppliedWasNew ==
  ASSUME PullIInv, [PullNext]_vars, NEW i \in Ids, delivered'[i] > delivered[i]
  PROVE  i \in Foreign /\ (blinked \/ ~Done(i))
<1>1. PollInv /\ PollTyped
  BY DEF PullIInv, PollInv
<1>2. delivered' # delivered
  <2>1. delivered[i] \in Nat
    BY <1>1 DEF PollTyped
  <2> QED
    BY <2>1
<1>3. Apply \/ Download
  <2>1. ASSUME StoreNext PROVE delivered' = delivered
    BY <2>1 DEF StoreNext, SameServe, observers, Arrive, Damage, Delete, BeginChange, MoveItems,
                CommitChange, UndoChange
  <2>2. ASSUME CheckKey \/ List \/ ReadMeta \/ PassOver \/ FindTarget \/ Reopen
        PROVE  delivered' = delivered
    BY <2>2 DEF CheckKey, List, ReadMeta, PassOver, FindTarget, SkipFile, Reopen, observers
  <2>3. ASSUME CallFails \/ Stop \/ EndServe \/ Start \/ LoopStep \/ UploaderTakes \/ UserStep
        PROVE  delivered' = delivered
    BY <2>3 DEF CallFails, Stop, EndServe, Start, LoopStep, UploaderTakes, UserStep, observers
  <2>4. ASSUME UNCHANGED vars PROVE delivered' = delivered
    BY <2>4 DEF vars, observers
  <2> QED
    BY <1>2, <2>1, <2>2, <2>3, <2>4 DEF PullNext, PollStep
<1>4. PICK j \in new : /\ Readable(j) = "whole" /\ ppc \in Handling /\ j \in Foreign
                       /\ delivered' = [delivered EXCEPT ![j] = @ + 1]
  BY <1>2, <1>3 DEF Apply, Download, Unopened, SkipFile, Applies, Handling
<1>5. i = j
  <2>1. delivered[i] \in Nat /\ (i # j => delivered'[i] = delivered[i])
    BY <1>1, <1>4 DEF PollTyped
  <2> QED
    BY <2>1
<1>6. listKey = key /\ pkey = key
  BY <1>4, WholeMeans
<1>7. ASSUME ~blinked PROVE ~Done(j)
  BY <1>1, <1>4, <1>6, <1>7 DEF PollInv, Settled, ListIsFresh, Listing, Handling
<1> QED
  BY <1>4, <1>5, <1>7

\* The clipboard never goes back: an item of another device that was passed
\* over for a newer one, or was at hand when one was applied, is not applied
\* afterwards (pull.rs `poll`).
THEOREM PullNeverGoesBack == PullSpec => NeverBack
<1>1. PullIInv /\ [PullNext]_vars =>
        [\A i \in Ids : delivered'[i] > delivered[i] /\ ForClipboard(i)
             /\ (\E j \in Ids : j > i /\ ForClipboard(j) /\ delivered[j] > 0)
           => blinked \/ i \notin known]_vars
  <2> SUFFICES ASSUME PullIInv, [PullNext]_vars, NEW i \in Ids, delivered'[i] > delivered[i],
                      ForClipboard(i), ~blinked, i \in known
               PROVE  FALSE
    OBVIOUS
  <2>1. i \in Foreign /\ ~Done(i)
    BY AppliedWasNew
  <2> QED
    BY <2>1 DEF Done
<1> QED
  BY <1>1, PullInvAlways, PTL DEF PullSpec, NeverBack
================================================================================
