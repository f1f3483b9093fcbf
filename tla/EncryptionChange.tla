---------------------------- MODULE EncryptionChange ----------------------------
(***************************************************************************)
(* Changes to a store's encryption, as administrators run them on a        *)
(* filesystem store: setting up, a fresh start, new words, a migration, a  *)
(* key rotation, and the `finish` and `undo` that recover a change cut     *)
(* short.  Every remote effect is a step of its own, so a client may stop, *)
(* or an operation fail, between any two of them.                          *)
(*                                                                         *)
(* Administrators take turns, as the documentation asks, unless a switch   *)
(* says otherwise: with OverlapChanges a change may start while another    *)
(* command runs, with OverlapRecovery a recovery may.  PartialRelease lets *)
(* the removal of `.rewrite/`, which no filesystem does in one step, be    *)
(* cut short.                                                              *)
(***************************************************************************)
EXTENDS StoreLayout

CONSTANTS Admins, OverlapChanges, OverlapRecovery, PartialRelease,
          Offered,    \* the kinds of change administrators start
          LateItems,  \* what plaintext devices already past their check may store
          Recoveries, \* how they recover one cut short: "finish", "undo"
          MaxFaults   \* bound on crashes and failed operations

ASSUME SwitchAssumption ==
  OverlapChanges \in BOOLEAN /\ OverlapRecovery \in BOOLEAN /\ PartialRelease \in BOOLEAN
ASSUME OfferedAssumption == Offered \subseteq Kinds /\ Recoveries \subseteq {"finish", "undo"}
ASSUME LateItemsAssumption == LateItems \subseteq Items
ASSUME MaxFaultsAssumption == MaxFaults \in Nat

VARIABLES
  pc,      \* the next step of each administrator's command
  job,     \* what that command holds in memory
  agreed,  \* the header the last command that succeeded reported (observer)
  used,    \* data keys generated so far
  faults

adminVars  == <<pc, job, agreed, used, faults>>
changeVars == <<layoutVars, adminVars>>

NoJob == [kind |-> "none", hdr |-> NoHeader, old |-> NoHeader, mode |-> "none",
          from |-> "items", to |-> "items", todo |-> {}]

Steps == {"idle", "publish", "clear", "clear-fold", "stop", "reclear", "reclear-fold",
          "restop", "source", "source-stop", "resource", "source-fold", "source-restop",
          "copy", "verify", "install", "swap", "clean", "release",
          "finish", "undo", "unstage", "unstop", "unsource", "unsource-fold", "unhead",
          "rev-new", "rev-old", "rev-words", "rev-stop", "rev-plain", "rev-fold"}

Jobs == [kind : Kinds \cup {"none"}, hdr : Headers \cup {NoHeader}, old : Headers \cup {NoHeader},
         mode : {"none", "run", "finish", "undo"},
         from : Folders, to : Folders, todo : SUBSET Copies]

TypeOK ==
  /\ LayoutTypeOK
  /\ pc \in [Admins -> Steps]
  /\ job \in [Admins -> Jobs]
  /\ agreed \in Headers \cup {NoHeader}
  /\ used \in SUBSET Keys
  /\ faults \in 0..MaxFaults

\* Mutant: a rotation that takes the plaintext folder.
PlainItems(kind) == "items"

\* Where a kind of re-encryption takes its items from.
SourceItems(kind) == IF kind = "migrate" THEN "items" ELSE "v2/items"

Goto(a, step) == pc' = [pc EXCEPT ![a] = step]
Quiet == UNCHANGED <<agreed, used, faults>>
SameTree == UNCHANGED <<dir, held>>

Alone == \A b \in Admins : pc[b] = "idle"
\* A command that has taken the lock, or a recovery that has claimed it.
Working(a) == pc[a] \notin {"idle", "publish"}
MayChange(a)  == pc[a] = "idle" /\ (Alone \/ OverlapChanges)
MayRecover(a) == pc[a] = "idle" /\ (Alone \/ OverlapRecovery)

(***************************************************************************)
(* Starting a change: inspect the store, then wrap a key, then take the    *)
(* lock.  What was inspected is not looked at again under the lock.        *)
(***************************************************************************)
Admits(kind) ==
  CASE kind = "set-up"      -> Classify = "plain" /\ held["items"] = {}
    [] kind = "fresh-start" -> Classify = "plain"
    [] kind = "migrate"     -> Classify = "plain"
    [] OTHER                -> Classify = "encrypted"

Inspect(a, kind) ==
  /\ MayChange(a)
  /\ kind \in Offered
  /\ Admits(kind)
  /\ \E k \in (IF kind = "words" THEN {head["encryption"].key} ELSE Keys \ used), w \in Words :
       /\ used' = used \cup {k}
       /\ job' = [job EXCEPT ![a] =
            [NoJob EXCEPT !.kind = kind, !.hdr = [key |-> k, words |-> w],
                          !.old = head["encryption"], !.mode = "run"]]
  /\ Goto(a, "publish")
  /\ UNCHANGED <<layoutVars, agreed, faults>>

FirstStep(kind) == CASE kind = "words" -> "install"
                     [] kind \in Rewrites -> "source"
                     [] OTHER -> "clear"

\* Mutant: a journal written over the one in place.
PublishOver(a) ==
  /\ pc[a] = "publish"
  /\ lock' = TRUE
  /\ plan' = [kind |-> job[a].kind, to |-> job[a].hdr.key]
  /\ head' = [head EXCEPT !["header"] = job[a].hdr, !["old-header"] = job[a].old]
  /\ Goto(a, FirstStep(job[a].kind))
  /\ UNCHANGED <<recovery, dir, held, kept, job>> /\ Quiet

\* Mutant: the journal names the key that is replaced, not the new one.
PublishFrom(a) ==
  /\ pc[a] = "publish"
  /\ ~lock
  /\ lock' = TRUE
  /\ plan' = [kind |-> job[a].kind, to |-> job[a].old.key]
  /\ head' = [head EXCEPT !["header"] = job[a].hdr, !["old-header"] = job[a].old]
  /\ Goto(a, FirstStep(job[a].kind))
  /\ UNCHANGED <<recovery, dir, held, kept, job>> /\ Quiet

\* Journal and headers appear with the lock, in one rename; a lock that is
\* there refuses it.
Publish(a) ==
  /\ pc[a] = "publish"
  /\ ~lock
  /\ lock' = TRUE
  /\ plan' = [kind |-> job[a].kind, to |-> job[a].hdr.key]
  /\ head' = [head EXCEPT !["header"] = job[a].hdr, !["old-header"] = job[a].old]
  /\ Goto(a, FirstStep(job[a].kind))
  /\ UNCHANGED <<recovery, dir, held, kept, job>> /\ Quiet

PublishRefused(a) ==
  /\ pc[a] = "publish"
  /\ lock
  /\ Goto(a, "idle")
  /\ job' = [job EXCEPT ![a] = NoJob]
  /\ UNCHANGED layoutVars /\ Quiet

(***************************************************************************)
(* Moving one folder of items into another: a rename when the other is not *)
(* there, entry by entry from one listing otherwise.                       *)
(***************************************************************************)
Fold(a, from, to, folding, done) ==
  \/ /\ dir[to] = "absent"
     /\ Rename(from, to)
     /\ Goto(a, done)
     /\ UNCHANGED job
  \/ /\ dir[to] = "folder"
     /\ job' = [job EXCEPT ![a] = [@ EXCEPT !.from = from, !.to = to, !.todo = held[from]]]
     /\ Goto(a, folding)
     /\ SameTree

SameId(c, d) == c.item = d.item /\ c.key = d.key

FoldNext(a, folding, done) ==
  LET from == job[a].from
      to   == job[a].to
  IN
  /\ pc[a] = folding
  /\ \/ \E c \in job[a].todo \cap held[from] :
          /\ held' = [held EXCEPT ![from] = @ \ {c},
                ![to] = IF \E d \in @ : SameId(c, d) THEN @ ELSE @ \cup {c}]
          /\ job' = [job EXCEPT ![a].todo = @ \ {c}]
          /\ UNCHANGED <<pc, dir>>
     \/ /\ job[a].todo \cap held[from] = {}
        /\ RemoveTree(from)
        /\ Goto(a, done)
        /\ UNCHANGED job
  /\ UNCHANGED <<lock, plan, recovery, head, kept>> /\ Quiet

FoldStep(a) ==
  \/ FoldNext(a, "clear-fold", "stop")
  \/ FoldNext(a, "reclear-fold", "restop")
  \/ FoldNext(a, "source-fold", "source-restop")
  \/ FoldNext(a, "unsource-fold", "release")
  \/ FoldNext(a, "rev-fold", "release")

(***************************************************************************)
(* Shutting out clients before v0.2.0: `items/` makes way for a file.      *)
(***************************************************************************)
ClearItems(a) ==
  LET again   == pc[a] = "reclear"
      done    == IF again THEN "restop" ELSE "stop"
      folding == IF again THEN "reclear-fold" ELSE "clear-fold"
  IN
  /\ pc[a] \in {"clear", "reclear"}
  /\ \/ /\ dir["items"] # "folder"
        /\ Goto(a, done) /\ SameTree /\ UNCHANGED job
     \/ /\ dir["items"] = "folder" /\ held["items"] = {}
        /\ RemoveTree("items") /\ Goto(a, done) /\ UNCHANGED job
     \/ /\ dir["items"] = "folder" /\ held["items"] # {}
        /\ Fold(a, "items", "plain/items", folding, done)
  /\ UNCHANGED <<lock, plan, recovery, head, kept>> /\ Quiet

\* The first write of the stop file; a client that made `items/` again in
\* between sends the command round once more.
StopStep(a, at, again, done) ==
  /\ pc[a] = at
  /\ \/ /\ dir["items"] # "folder"
        /\ dir' = [dir EXCEPT !["items"] = "file"]
        /\ Goto(a, done)
     \/ /\ dir["items"] = "folder"
        /\ Goto(a, again)
        /\ UNCHANGED dir
  /\ UNCHANGED <<lock, plan, recovery, head, held, kept, job>> /\ Quiet

\* The second write of the stop file: a folder there now fails the command.
RestopStep(a, at, done) ==
  /\ pc[a] = at
  /\ dir["items"] # "folder"
  /\ dir' = [dir EXCEPT !["items"] = "file"]
  /\ Goto(a, done)
  /\ UNCHANGED <<lock, plan, recovery, head, held, kept, job>> /\ Quiet

WriteStopFile(a) ==
  \/ StopStep(a, "stop", "reclear", "install")
  \/ StopStep(a, "source-stop", "resource", "copy")
  \/ RestopStep(a, "restop", "install")
  \/ RestopStep(a, "source-restop", "copy")

(***************************************************************************)
(* Re-encryption: the source moves under the lock, every item is sealed    *)
(* under the new key into `v2/items/`, every copy is read back.            *)
(***************************************************************************)
MoveSource(a) ==
  LET original == SourceItems(job[a].kind) IN
  /\ pc[a] = "source"
  /\ \/ /\ dir["source"] # "absent"
        /\ SameTree
     \/ /\ dir["source"] = "absent"
        /\ IF dir[original] = "folder" THEN Rename(original, "source") ELSE MakeFolder("source")
  /\ Goto(a, IF job[a].kind = "migrate" THEN "source-stop" ELSE "copy")
  /\ UNCHANGED <<lock, plan, recovery, head, kept, job>> /\ Quiet

\* The stop file could not be written: what `items/` holds joins the source.
FoldIntoSource(a) ==
  /\ pc[a] = "resource"
  /\ Fold(a, "items", "source", "source-fold", "source-restop")
  /\ UNCHANGED <<lock, plan, recovery, head, kept>> /\ Quiet

OldKey(a) == IF job[a].kind = "migrate" THEN NoKey ELSE job[a].old.key

Staged(a, i) == \E c \in held["v2/items"] : c.item = i /\ c.key = job[a].hdr.key

\* One item: skipped when its copy has a `meta.json`, imported otherwise.  An
\* item the old key does not open, or without its content, stops the command.
Copy(a) ==
  /\ pc[a] = "copy"
  /\ \A c \in held["source"] : c.key = OldKey(a)
  /\ \/ \E c \in held["source"] :
          /\ ~Staged(a, c.item)
          /\ c.whole
          /\ held' = [held EXCEPT !["v2/items"] = @ \cup {Whole(c.item, job[a].hdr.key)}]
          /\ dir' = [dir EXCEPT !["v2/items"] = "folder"]
          /\ UNCHANGED pc
     \/ /\ \A c \in held["source"] : Staged(a, c.item)
        /\ Goto(a, "verify")
        /\ SameTree
  /\ UNCHANGED <<lock, plan, recovery, head, kept, job>> /\ Quiet

\* Mutant: a copy counts as soon as its `meta.json` is there.
AllStaged(a) == \A c \in held["source"] : Staged(a, c.item)

\* Every item of the source is read back from its copy.
Verified(a) == \A c \in held["source"] : Whole(c.item, job[a].hdr.key) \in held["v2/items"]

Verify(a) ==
  /\ pc[a] = "verify"
  /\ Verified(a)
  /\ Goto(a, "install")
  /\ UNCHANGED <<layoutVars, job>> /\ Quiet

(***************************************************************************)
(* The commit: the header in place moves into the lock, and the new one    *)
(* out of it.                                                              *)
(***************************************************************************)
AfterSwap(kind) == IF kind \in Rewrites THEN "clean" ELSE "release"

Install(a) ==
  /\ pc[a] = "install"
  /\ \/ /\ head["header"] = NoHeader
        /\ Goto(a, AfterSwap(job[a].kind))
        /\ UNCHANGED head
     \/ /\ head["header"] # NoHeader
        /\ head["encryption"] = NoHeader
        /\ Goto(a, "swap")
        /\ UNCHANGED head
     \/ /\ head["header"] # NoHeader
        /\ MoveHeader("encryption", "previous")
        /\ Goto(a, "swap")
  /\ UNCHANGED <<lock, plan, recovery, dir, held, kept, job>> /\ Quiet

Swap(a) ==
  /\ pc[a] = "swap"
  /\ MoveHeader("header", "encryption")
  /\ Goto(a, AfterSwap(job[a].kind))
  /\ UNCHANGED <<lock, plan, recovery, dir, held, kept, job>> /\ Quiet

CleanSource(a) ==
  /\ pc[a] = "clean"
  /\ RemoveTree("source")
  /\ Goto(a, "release")
  /\ UNCHANGED <<lock, plan, recovery, head, kept, job>> /\ Quiet

(***************************************************************************)
(* The end of every command that succeeds: the lock goes, with all in it.  *)
(***************************************************************************)
Release(a) ==
  /\ pc[a] = "release"
  /\ lock' = FALSE
  /\ plan' = NoPlan
  /\ recovery' = FALSE
  /\ head' = [p \in Places |-> IF p \in InLock THEN NoHeader ELSE head[p]]
  /\ RemoveTree("source")
  /\ agreed' = IF job[a].mode = "undo" THEN agreed ELSE job[a].hdr
  /\ job' = [job EXCEPT ![a] = NoJob]
  /\ Goto(a, "idle")
  /\ UNCHANGED <<kept, used, faults>>
(***************************************************************************)
(* Recovery.  A recovery claims the lock, then reads what is left of the   *)
(* change.  `finish` needs words only the administrator knows; refusing    *)
(* wrong ones changes nothing, so the model assumes right ones.            *)
(***************************************************************************)
ClaimRecovery(a, mode) ==
  /\ MayRecover(a)
  /\ lock /\ ~recovery
  /\ recovery' = TRUE
  /\ job' = [job EXCEPT ![a] = [NoJob EXCEPT !.mode = mode]]
  /\ Goto(a, mode)
  /\ UNCHANGED <<lock, plan, head, dir, held, kept>> /\ Quiet

\* The CLI takes over a recovery's claim once it is 10 minutes old.
TakeOverRecovery(a) ==
  /\ MayRecover(a)
  /\ lock /\ recovery
  /\ recovery' = FALSE
  /\ UNCHANGED <<lock, plan, head, dir, held, kept, pc, job>> /\ Quiet

\* A command that fails reports it; a recovery gives its claim up.
GiveUp(a) ==
  /\ Goto(a, "idle")
  /\ recovery' = IF job[a].mode = "run" THEN recovery ELSE FALSE
  /\ job' = [job EXCEPT ![a] = NoJob]
  /\ UNCHANGED <<lock, plan, head, dir, held, kept>>

\* The header whose key a `finish` completes the change with.
Unfinished == IF head["header"] # NoHeader THEN head["header"] ELSE head["encryption"]
Swapped == head["header"] = NoHeader /\ head["encryption"].key = plan.to

\* Mutant: a finish that needs the new header inside the lock.
FinishableOnce == plan # NoPlan /\ head["header"] # NoHeader

Finishable ==
  /\ plan # NoPlan
  /\ Unfinished # NoHeader
  /\ plan.kind \in HeaderChanges => Unfinished.key = plan.to
  /\ plan.kind \in Rewrites => head["header"] # NoHeader \/ Swapped
  /\ plan.kind = "rotate" /\ ~Swapped => head["old-header"] # NoHeader

Finish(a) ==
  /\ pc[a] = "finish"
  /\ Finishable
  /\ job' = [job EXCEPT ![a] =
       [@ EXCEPT !.kind = plan.kind, !.hdr = Unfinished, !.old = head["old-header"]]]
  /\ Goto(a, IF plan.kind \in Rewrites /\ Swapped THEN "clean" ELSE FirstStep(plan.kind))
  /\ UNCHANGED layoutVars /\ Quiet

\* Mutant: an undo that does not ask whether the new header is in place.
UndoableAlways == plan = NoPlan => dir["source"] = "absent" /\ \A p \in InLock : head[p] = NoHeader

\* A lock without a plan is released only when it holds nothing else.
Undoable ==
  IF plan = NoPlan
  THEN dir["source"] = "absent" /\ \A p \in InLock : head[p] = NoHeader
  ELSE plan.kind \in Rewrites => ~Swapped

Undo(a) ==
  /\ pc[a] = "undo"
  /\ Undoable
  /\ job' = [job EXCEPT ![a].kind = plan.kind]
  /\ Goto(a, IF plan = NoPlan THEN "release"
             ELSE IF plan.kind \in Rewrites THEN "unstage" ELSE "rev-new")
  /\ UNCHANGED layoutVars /\ Quiet

(***************************************************************************)
(* Undoing a re-encryption: what was staged goes, the source comes back.   *)
(***************************************************************************)
Unstage(a) ==
  /\ pc[a] = "unstage"
  /\ IF job[a].kind = "migrate"
     THEN RemoveTree("v2/items") /\ Goto(a, "unstop")
     ELSE IF dir["source"] # "absent"
          THEN RemoveTree("v2/items") /\ Goto(a, "unsource")
          ELSE SameTree /\ Goto(a, "unhead")
  /\ UNCHANGED <<lock, plan, recovery, head, kept, job>> /\ Quiet

\* Mutant: an undo that leaves the stop file.
KeepStopFile(a) ==
  /\ pc[a] \in {"unstop", "rev-stop"}
  /\ Goto(a, IF pc[a] = "unstop" THEN "unsource" ELSE "rev-plain")
  /\ UNCHANGED <<layoutVars, job>> /\ Quiet

RemoveStopFile(a) ==
  /\ pc[a] \in {"unstop", "rev-stop"}
  /\ dir' = [dir EXCEPT !["items"] = IF @ = "file" THEN "absent" ELSE @]
  /\ Goto(a, IF pc[a] = "unstop" THEN "unsource" ELSE "rev-plain")
  /\ UNCHANGED <<lock, plan, recovery, head, held, kept, job>> /\ Quiet

RestoreSource(a) ==
  /\ pc[a] = "unsource"
  /\ \/ /\ job[a].kind = "rotate"
        /\ Rename("source", "v2/items") /\ Goto(a, "unhead") /\ UNCHANGED job
     \/ /\ job[a].kind = "migrate" /\ dir["source"] # "absent"
        /\ Fold(a, "source", "items", "unsource-fold", "release")
     \/ /\ job[a].kind = "migrate" /\ dir["source"] = "absent"
        /\ Goto(a, "release") /\ SameTree /\ UNCHANGED job
  /\ UNCHANGED <<lock, plan, recovery, head, kept>> /\ Quiet

\* A swap cut short leaves no header: the old one comes back.
RestoreHead(a) ==
  /\ pc[a] = "unhead"
  /\ \/ head["encryption"] # NoHeader /\ UNCHANGED head
     \/ MoveHeader("previous", "encryption")
     \/ /\ head["encryption"] = NoHeader /\ head["previous"] = NoHeader
        /\ head["old-header"] # NoHeader
        /\ head' = [head EXCEPT !["encryption"] = head["old-header"]]
  /\ Goto(a, "release")
  /\ UNCHANGED <<lock, plan, recovery, dir, held, kept, job>> /\ Quiet

(***************************************************************************)
(* Undoing a header change.                                                *)
(***************************************************************************)
RevertNew(a) ==
  /\ pc[a] = "rev-new"
  /\ IF head["header"] = NoHeader /\ head["encryption"] # NoHeader
     THEN MoveHeader("encryption", "header") ELSE UNCHANGED head
  /\ Goto(a, "rev-old")
  /\ UNCHANGED <<lock, plan, recovery, dir, held, kept, job>> /\ Quiet

RevertOld(a) ==
  /\ pc[a] = "rev-old"
  /\ IF head["encryption"] = NoHeader /\ head["previous"] # NoHeader
     THEN MoveHeader("previous", "encryption") ELSE UNCHANGED head
  /\ Goto(a, IF job[a].kind = "words" THEN "rev-words" ELSE "rev-stop")
  /\ UNCHANGED <<lock, plan, recovery, dir, held, kept, job>> /\ Quiet

RevertWords(a) ==
  /\ pc[a] = "rev-words"
  /\ IF head["encryption"] = NoHeader
     THEN MoveHeader("old-header", "encryption") ELSE UNCHANGED head
  /\ Goto(a, "release")
  /\ UNCHANGED <<lock, plan, recovery, dir, held, kept, job>> /\ Quiet

RestorePlain(a) ==
  /\ pc[a] = "rev-plain"
  /\ IF dir["plain/items"] # "absent"
     THEN Fold(a, "plain/items", "items", "rev-fold", "release")
     ELSE Goto(a, "release") /\ SameTree /\ UNCHANGED job
  /\ UNCHANGED <<lock, plan, recovery, head, kept>> /\ Quiet

(***************************************************************************)
(* What goes wrong.                                                        *)
(***************************************************************************)
\* The refusals of the code itself: what a step finds stops the command.
Refused(a) ==
  /\ \/ pc[a] = "finish" /\ ~Finishable
     \/ pc[a] = "undo" /\ ~Undoable
     \/ pc[a] \in {"restop", "source-restop"} /\ dir["items"] = "folder"
     \/ /\ pc[a] = "copy"
        /\ \E c \in held["source"] : c.key # OldKey(a) \/ (~c.whole /\ ~Staged(a, c.item))
     \/ pc[a] = "verify" /\ ~Verified(a)
     \/ /\ pc[a] = "install"
        /\ \A p \in {"header", "encryption", "previous"} : head[p] # NoHeader
     \/ pc[a] = "swap" /\ (head["header"] = NoHeader \/ head["encryption"] # NoHeader)
     \/ pc[a] = "unsource" /\ job[a].kind = "rotate" /\ dir["v2/items"] # "absent"
     \/ /\ pc[a] = "unhead"
        /\ \A p \in {"encryption", "previous", "old-header"} : head[p] = NoHeader
     \/ /\ pc[a] = "rev-words"
        /\ \A p \in {"encryption", "old-header"} : head[p] = NoHeader
  /\ GiveUp(a)
  /\ Quiet

Fault == faults < MaxFaults /\ faults' = faults + 1 /\ UNCHANGED <<agreed, used>>

\* A remote operation fails, and the command with it.
Fail(a) == pc[a] # "idle" /\ GiveUp(a)

\* The client stops: what it held in memory is gone, a claim stays.
Crash(a) ==
  /\ pc[a] # "idle"
  /\ Goto(a, "idle")
  /\ job' = [job EXCEPT ![a] = NoJob]
  /\ UNCHANGED layoutVars

\* The client stops while it removes a folder of items.
CrashRemoving(a) ==
  /\ \/ pc[a] = "clean" /\ RemoveSome("source")
     \/ /\ pc[a] = "unstage"
        /\ job[a].kind = "migrate" \/ dir["source"] # "absent"
        /\ RemoveSome("v2/items")
  /\ Goto(a, "idle")
  /\ job' = [job EXCEPT ![a] = NoJob]
  /\ UNCHANGED <<lock, plan, recovery, head, kept>>

\* The client stops while it removes `.rewrite/`.
CrashReleasing(a) ==
  /\ PartialRelease
  /\ pc[a] = "release"
  /\ plan' \in {plan, NoPlan}
  /\ recovery' \in {recovery, FALSE}
  /\ \E gone \in SUBSET InLock :
       head' = [p \in Places |-> IF p \in gone THEN NoHeader ELSE head[p]]
  /\ Goto(a, "idle")
  /\ job' = [job EXCEPT ![a] = NoJob]
  /\ UNCHANGED <<lock, dir, held, kept>>

\* A plaintext device that looked before the lock was taken still makes its
\* folder, stores its item, and takes it back once it has looked again.  It
\* reports no item as stored.
LateDevice ==
  /\ lock
  /\ \/ LateItems # {} /\ dir["items"] = "absent" /\ MakeFolder("items")
     \/ /\ dir["items"] = "folder"
        /\ \E i \in LateItems :
             \/ /\ ~ \E c \in held["items"] : SameId(c, Whole(i, NoKey))
                /\ held' = [held EXCEPT !["items"] = @ \cup {Whole(i, NoKey)}]
             \/ i \notin kept /\ held' = [held EXCEPT !["items"] = @ \ {Whole(i, NoKey)}]
        /\ UNCHANGED dir
  /\ UNCHANGED <<lock, plan, recovery, head, kept, pc, job>> /\ Quiet

--------------------------------------------------------------------------------
Step(a) ==
  \/ Publish(a) \/ PublishRefused(a) \/ ClearItems(a) \/ FoldStep(a) \/ WriteStopFile(a)
  \/ MoveSource(a) \/ FoldIntoSource(a) \/ Copy(a) \/ Verify(a)
  \/ Install(a) \/ Swap(a) \/ CleanSource(a) \/ Release(a)
  \/ Finish(a) \/ Undo(a) \/ Unstage(a) \/ RemoveStopFile(a) \/ RestoreSource(a) \/ RestoreHead(a)
  \/ RevertNew(a) \/ RevertOld(a) \/ RevertWords(a) \/ RestorePlain(a)
  \/ Refused(a)

Start(a) ==
  \/ \E kind \in Kinds : Inspect(a, kind)
  \/ \E mode \in Recoveries : ClaimRecovery(a, mode)
  \/ TakeOverRecovery(a)

Faults(a) ==
  /\ Fail(a) \/ Crash(a) \/ CrashRemoving(a) \/ CrashReleasing(a)
  /\ Fault

ChangeNext ==
  \/ \E a \in Admins : Start(a) \/ Step(a) \/ Faults(a)
  \/ LateDevice

\* A plaintext store, or one encrypted under the first key generated.
ChangeInit ==
  /\ lock = FALSE /\ plan = NoPlan /\ recovery = FALSE
  /\ kept \in SUBSET Items
  /\ \/ /\ agreed = NoHeader
        /\ used = {}
        /\ \E d \in (IF kept = {} THEN {"absent", "folder"} ELSE {"folder"}) :
             dir = [f \in Folders |-> IF f = "items" THEN d ELSE "absent"]
        /\ held = [f \in Folders |-> IF f = "items" THEN {Whole(i, NoKey) : i \in kept} ELSE {}]
     \/ /\ agreed \in Headers
        /\ used = {agreed.key}
        /\ dir = [f \in Folders |-> CASE f = "items" -> "file" [] f = "v2/items" -> "folder" [] OTHER -> "absent"]
        /\ held = [f \in Folders |-> IF f = "v2/items" THEN {Whole(i, agreed.key) : i \in kept} ELSE {}]
  /\ head = [p \in Places |-> IF p = "encryption" THEN agreed ELSE NoHeader]
  /\ pc = [a \in Admins |-> "idle"]
  /\ job = [a \in Admins |-> NoJob]
  /\ faults = 0

ChangeSpec == ChangeInit /\ [][ChangeNext]_changeVars

(***************************************************************************)
(* An administrator carries a command through, and recovers a change that  *)
(* was cut short: with `undo`, or `finish` where that is refused.          *)
(***************************************************************************)
Fairness ==
  \A a \in Admins :
    /\ WF_changeVars(Step(a))
    /\ \A mode \in Recoveries : SF_changeVars(ClaimRecovery(a, mode))
    /\ SF_changeVars(TakeOverRecovery(a))

FairSpec == ChangeSpec /\ Fairness

--------------------------------------------------------------------------------
\* A copy someone can still open: plaintext, or sealed under a key some header
\* in the tree wraps.
Openable(c) == c.whole /\ (c.key = NoKey \/ \E p \in Places : head[p].key = c.key)

\* Whatever step a change stops or fails at, every item devices were told the
\* store keeps is still somewhere in the tree, whole, and under a key a header
\* in the tree wraps: the old copies go only after the new ones are verified
\* and the new header is in place (rewrite.rs `run`, `undo_claimed`, `cleanup`).
NothingLost ==
  \A i \in kept : \E f \in Folders : \E c \in held[f] : c.item = i /\ Openable(c)

\* A store without a lock is never left in pieces: it is plain or encrypted,
\* never broken, and every kept item is where a client that opens it looks, or
\* in `plain/items/` after a fresh start (admin.rs `classify`, `set_up` ...).
UnlockedOpens ==
  ~lock =>
    /\ Classify \in {"plain", "encrypted"}
    /\ \A i \in kept :
         \/ Whole(i, head["encryption"].key) \in held[ItemsOf(head["encryption"].key)]
         \/ Classify = "encrypted" /\ Whole(i, NoKey) \in held["plain/items"]

\* Once encrypted, the store holds nothing under another key than its header's,
\* and plaintext only where a fresh start keeps it: no copy of a migration's or
\* a rotation's source outlives the lock, nor staged copies an undone one.
UnlockedSealed ==
  ~lock =>
    /\ dir["source"] = "absent"
    /\ \A c \in held["v2/items"] : c.key = head["encryption"].key
    /\ Classify = "encrypted" => held["items"] = {}

\* When the lock is gone the header in place, words included, is the one the
\* last command that succeeded reported: a finished change's new one, and
\* after an undo exactly the one before the change.
UnlockedHeader == ~lock => head["encryption"] = agreed

\* One change runs at a time, recoveries included: `.rewrite/` appears in one
\* rename, which fails when it is there (journal.rs `publish`).
OneChange == \A a, b \in Admins : Working(a) /\ Working(b) => a = b

\* A change that takes the lock finds the store as it inspected it: a second
\* change, which would, fails (docs/architecture.md, "Changing a store").
SecondChangeFails ==
  [][\A a \in Admins : Publish(a) => head["encryption"] = job[a].old]_changeVars

\* A change cut short can always be brought to an end, by finishing or undoing
\* it, at whatever step it stopped.
Recovers == lock ~> ~lock
================================================================================
