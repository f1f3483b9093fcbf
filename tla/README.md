# passalong in TLA+

passalong shares text, images and files between devices through a store: a
folder on a local or synced disk, a folder on an SSH server, or a workspace of
an HTTPS server. This directory models the parts of it in which several
processes, crashes and retries meet, checks them with TLC and proves some of
the results with TLAPS. Paths below are relative to the repository.

## The system

| part | state | operations | interacts with | what is hard |
|---|---|---|---|---|
| item store (`store/fs_store.rs`) | item folders, `tmp/` staging | put, get, list, delete, clean_staging | every command, serve | two senders of one content, crash between staging and publishing, listings taken while folders move |
| encryption changes (`encryption/*`) | `encryption/`, `items/` or its stop file, `v2/items/`, `plain/items/`, `.rewrite/` | set-up, fresh start, change of words, migration, rotation, finish, undo | every client of the store, which checks the lock and the header | a stop at any step, two administrators, senders that race the change |
| HTTPS store (`passalong-https`) | a workspace and a rewrite session on the server, a device's key | upload, delete, set-up, fresh start, words, rewrite, resume, abort | the server (not in the repository) | a lease that ends, an answer that is lost, a request that comes late |
| serve: pull mode (`serve/pull.rs`) | ids it has handled, the store it opened | start, poll, apply, download, reopen | store, clipboard task | order, unreadable items, key change |
| serve: clipboard (`serve/clipboard_watcher.rs`, `serve/mod.rs`) | last text and image, three queues | read, queue, write | pull mode, uploader, the desktop | sending back what was pulled, queues that fill |
| serve: drop folder (`serve/drop_watcher.rs`, `serve/upload.rs`, `serve/retry.rs`) | candidates, files in flight, skips, the uploader's job | scan, offer, upload, retry, move or delete | store, the user's files | a file that changes, a retry after a success, a stop at any point |
| downloads (`download.rs`, `commands/load.rs`) | part file, final names | stream, check, link, rename, clean | the user's files, other downloads | names taken meanwhile, half files |
| pid file (`daemon.rs`, `commands/serve.rs`) | a file, its lock and its text | acquire, mark ready, remove, status, stop | serve | two starts, removal beside a start |
| list cache (`cache.rs`, `list_cache.rs`) | a file with the last listing, a copy in serve | refresh, read, apply, save | commands, serve, prune | an older list over a newer one |
| encryption commands (`commands/encrypt.rs`, `encryption/key_file.rs`) | the device's key file | set_up, change_words, rotate, recover, join, save_key_file | encryption changes | order of changing the store and saving its key, a device that joins beside a change |
| configuration, prompts, terminal | | | commands | |

Every change of encryption takes the lock `.rewrite/`, which is also its
journal. Clients do not take it: before they write they look whether it is
there and whether the header still names their key, and a send looks again once
its item is published. Correctness of the whole rests on the order of the
renames on one side and of the checks on the other; neither side can see the
other move.

What makes each part correct:

* changes: whatever is cut short, every item that was kept stays readable under
  a key some header wraps; an open store is never broken; one change at a time;
  every change can be ended;
* clients: what a device was told is stored is readable when the store is open;
  a deleted item does not come back; nothing stays sealed under an old key;
* item store: no half item is ever listed; a crash leaves only staging;
* workspace: what a device was told is stored stays, under the one key the header
  opens, whatever answers are lost; a re-encryption always ends;
* serve: each item reaches the clipboard at most once, none goes back or is sent
  back; each file that rests is sent, and only what was sent is moved or deleted;
  a stop request is always heard;
* pid file, cache, downloads: one `serve`; no list that hides what it claims to
  have seen; no half file under a final name and no file replaced.

## Modules

| module | models | code |
|---|---|---|
| `StoreLayout` | the folder tree and what a client makes of it; renames and removals | `encryption/admin.rs` `classify`, `fs/local.rs`, `sftp_fs.rs` |
| `EncryptionChange` | administrators, the five changes, finish and undo, faults | `encryption/{admin,journal,header_change,rewrite,admin_trait}.rs`, `commands/encrypt.rs` |
| `GuardedStore` | devices that send and delete beside `EncryptionChange` | `store/fs_store.rs`, `encryption/open.rs` |
| `EncryptCommand` | the command around a change: the key file read before it and saved after it, and devices that join | `commands/encrypt.rs`, `encryption/key_file.rs` |
| `FsStore` | clients that store, delete, list, read, probe and clean up in one store | `store/fs_store.rs`, `fs/local.rs`, `sftp_fs.rs` |
| `ItemStore` | what `FsStore` promises its callers: no code, an abstract specification | |
| `ClipboardLoop` | the clipboard task of serve and its queues | `serve/mod.rs` `clipboard_loop`, `serve/clipboard_watcher.rs`, `clipboard/mod.rs` |
| `PullMode` | polls beside `ClipboardLoop`, and a store other devices use and re-encrypt | `serve/pull.rs` |
| `Uploader` | the main loop of serve with its jobs, retries and back-off | `serve/upload.rs`, `serve/retry.rs`, `serve/mod.rs` |
| `DropFolder` | the watcher of the drop folder beside `Uploader`, and the user | `serve/drop_watcher.rs`, `serve/mod.rs` `drop_loop` |
| `Download` | downloads to one name and its variants | `download.rs`, `commands/load.rs` |
| `Workspace` | what the server answers and changes: external | |
| `HttpsDevices` | administrators and writers of a `Workspace` | `passalong-https/src/{admin,store,client,error,lib}.rs` |
| `DaemonLock` | the pid file, `serve`, `--status` and `--stop` | `daemon.rs`, `commands/serve.rs` |
| `ListCache` | the list cache and everything that writes it | `cache.rs`, `list_cache.rs`, `retention.rs`, `commands/prune.rs` |
| `Device` | `DaemonLock` and `ListCache` together | `commands/serve.rs` |
| `EncryptionChangeProofs`, `FsStoreProofs`, `GuardedProofs` (of `GuardedStore`), `DownloadProofs`, `HttpsProofs` (of `HttpsDevices`), `PullProofs` (of `PullMode`), `DropProofs` (of `DropFolder`), `DeviceProofs` (of `DaemonLock` and `Device`) | theorems about these modules | |
| `MC...` | constants for TLC | |

`GuardedStore` extends `EncryptionChange`, which extends `StoreLayout`.
`EncryptCommand` extends `EncryptionChange` too, and ties a device's key file to
the steps of its administrator.
`FsStore` stands beside them: there is no change of encryption in it, and a send
of `GuardedStore` is one publication where `FsStore` has every call of it.
`FsStore` implements `ItemStore` with the ids of the item folders as its items
and each client's operation, as its caller sees it, as its call.

`PullMode` extends `ClipboardLoop`: they meet in the queue `writes`, and both
steps of serve interleave with the store's. Its store is coarser than `FsStore`
(an item arrives whole or in parts, a change of encryption is three steps) as all
a poll sees of it is a listing and what opens. `DropFolder` extends `Uploader`:
they meet in `jobs` and `skips`. `HttpsDevices` extends `Workspace`. `Device`
extends `ListCache`, which extends `DaemonLock`, and ties them: a refresh begins
when `serve` is ready and is lost when it ends.

### State

`lock`, `plan` and `recovery` are `.rewrite/`, its `plan.json` and its
`recovery/`. `head` gives the header in each of the places one may be in:
`encryption/` and, under the lock, `header/`, `old-header/` and `previous/`.
`dir` and `held` are the item folders and the items in them. An item is a copy:
which item, under which key (`NoKey` is plaintext), and whether it is whole.
`source` stands for `.rewrite/source/items` of a migration and
`.rewrite/source/v2/items` of a rotation. A header is the key it wraps and the
words it wraps it with; that wrong words are refused and change nothing is
assumed, so `finish` is always given the right ones.

An administrator has `pc`, the next step of the command, and `job`, what the
command holds in memory: it is lost when the client stops. `LateItems` is what
plaintext devices may still store that passed their check before the change
began. Four variables only
observe: `kept` (the items devices were told are stored), `agreed` (the header
of the last command that reported success), `gone` (items deleted) and `overtaken`
(sends that are on their way under an older key when a change begins).

`EncryptCommand` adds `keyFile`, the key in each device's key file, `saving`, a key
a command was given and has not saved yet, and `joining`, devices between the look
at the store and the reading of its header. `lasted` observes the keys the store
had while it had no lock. A device's words are those it was given: new words are
typed back before a change begins (`confirm_new_words`), so some person knows them.
Saving writes a new file and renames it, so it happens or does not.

### Steps

A step is one remote effect with the reads that decide it; the reads of a
device's own check are steps of their own. Between two steps a client may stop
(`Crash`), its operation fail (`Fail`: the command ends, a recovery gives its
claim up), or another process move. Removals are not atomic: an item folder can
be left in pieces (`CrashRemoving`: an item gone, or left without its content),
and with `PartialRelease` so can `.rewrite/` (`CrashReleasing`).

| step | code |
|---|---|
| `Inspect`, `Publish`, `PublishRefused` | `inspect`, `new_key`, then `publish` (the rename of the staged journal) |
| `ClearItems`, `Fold*`, `WriteStopFile` | `stop_old_clients`, `clear_items`, `move_items_to_plain`, `write_stop_file`, `fold` |
| `MoveSource`, `Copy`, `Verify` | `run`, `run_rewrite`, `verify` |
| `Install`, `Swap`, `CleanSource`, `Release` | `install`, `cleanup`, `release_lock` |
| `ClaimRecovery`, `TakeOverRecovery`, `GiveUp` | `claim_recovery`, `recover` of the command line, `unclaim` |
| `Finish`, `Undo` | `finish_claimed`, `finish_change`, `undo_claimed`, `release_unstarted` |
| `Unstage`, `RemoveStopFile`, `RestoreSource`, `RestoreHead` | `undo_claimed` |
| `RevertNew`, `RevertOld`, `RevertWords`, `RestorePlain` | `revert`, `restore_items` |
| `Refused` | the error returns of all these |
| `CheckBefore`, `CheckAgain` | `check_key`, `check_plain` |
| `MakeItems`, `FindExisting`, `PublishItem`, `Retract` | `put`, `stage_and_publish`, `retract` |
| `DeleteItem` | `delete` |
| `ClientStops` | a device of `Stoppable` stops, or loses its connection, between two calls |
| `Encrypt`, `Recover`, `Proceed`, `StopsShort` | `run`, `set_up`, `change_words`, `rotate`, `recover` |
| `LookAtStore`, `ReadHeader` | `join` |
| `SaveKey`, `SaveFails` | `save_key_file`, `save_secret` |
| `LateDevice` | `put` of a plaintext device past `check_plain`: makes `items/`, publishes in it |

The documentation asks that one device at a time changes encryption. The
switches `OverlapChanges` and `OverlapRecovery` drop that rule, to show what the
lock itself excludes and what it does not.

### The item store

In `FsStore` an item is its id, the second it was dated and the key of its
content: identical contents have one key. `items` and `tmp` give what is in each
item folder and each staging folder: nothing, or the folder itself with its
content and metadata files. `op` is what a client is doing: its next call, the
item, the key and the folder it works on, what a loop has still to visit and what
a listing has read. `owed` only observes: the items an operation has to account
for, as they were there when it began and have not left since.

A step is one remote call. Any client may stop, or lose its answer, between two
of them (`Stop`). `stale` are the folders of `tmp/` last changed before a
clean-up's cutoff. Staleness is a choice rather than a clock, which covers slow
uploads, devices that sleep and clocks that differ; `Punctual` assumes that no
upload or probe at work lets its folder become stale. Ids are dated by any second of
`Times`, so clocks may differ and stand still.

| step | code |
|---|---|
| `BeginPut`, `OpenContent` | `put`, `write_content` |
| `Look`, `Match` | `find_by_content_key`: the names, then the metadata of each, oldest first |
| `WriteMeta`, `CheckTarget`, `Publish`, `PublishRefused`, `AnswerExisting` | `stage_and_publish`, `rename` of the backend |
| `Clear` | the removal of what is staged, on success and on error |
| `Unstaged` | the error when the staging folder has gone |
| `BeginDelete`, `Bury`, `BuryMissing`, `Erase` | `delete` |
| `BeginList`, `ReadNext` | `list_after` |
| `BeginGet`, `ReadContent` | `get` |
| `BeginProbe`, `WriteProbe` | `probe_write` |
| `BeginClean`, `Sweep`, `Scrub` | `clean_staging`, `clean_dir` |

A removal takes one file after the other and looks each time at what is left,
where the code lists the folder first: the code's removal may fail on a file
that came meanwhile, which is `Stop`.

### Serve: the clipboard and pull mode

`clip` is what the desktop holds and who put it there (an observation: the code
only compares digests). `lastText` and `lastImage` are the watcher's. `writes`
and `jobs` are the channels from pull mode and to the uploader; `waiting` is the
job the task is blocked on while `jobs` is full, when it neither reads nor writes.
`item` gives each item's state in the store, from `coming` to `gone`; `late` has
metadata and no content yet, `damaged` and `spoiled` never open. An id is an item
and a key, as a rotation renames every item. `seen`, `seenKey`, `unread` and `new`
are the poll's; `delivered`, `known`, `waived` and `blinked` only observe.

| step | code |
|---|---|
| `Read`, `Queue`, `Write` | a tick of `clipboard_loop`: `read_payload`, `observe`, `observe_image`; `jobs.send`; `write_clipboard`, `mark_text`, `mark_image` |
| `CheckKey`, `List`, `ReadMeta` | `poll`: `list_ids`, then `get_meta` of each unseen id, newest first |
| `PassOver`, `Apply` | `poll` and `apply`: oldest first; the newest clipboard item alone is applied |
| `FindTarget`, `Download` | `download`: first the directory and the name, then the content is opened and written |
| `Unopened` | `unopened`, `read_failed`: done with, or read again at the next poll |
| `CallFails`, `Reopen` | `pull_loop`: the store is opened anew, or the device is denied and serve ends |
| `Start`, `Stop`, `EndServe` | `Puller::start`, `run_with_ready` |

`SkipFile` is a problem of this device's own, which `download` logs and takes as
handled for good: no directory, no usable name, or a file that cannot be made,
written or renamed, be it that the directory went after it was looked at. When
that happens is left open. `NothingSkipped` is about the other reasons for taking
a file as handled: those of the store, of items that arrive in parts, and of keys.
A clipboard is there; without one, `apply` skips what it would write.

### Serve: the drop folder and the uploader

`folder` gives the version of each file; `job`, `upc`, `fd`, `delay` are the
uploader's, `seen`, `aged`, `flight`, `skipped`, `offering` the tracker's. A save
makes a new version of a file, in place or as a new file of its name: `Read` says
that an upload may read either what it opened or what is there now. `Settle` is
the passing of `file_stable_wait`; it may fall between any two steps. A stop
request is a flag that `handle_with_retries` selects on beside every attempt and
every wait (`Abandon`), and the main loop between jobs (`End`).

### Downloads

`names` maps final names and part files to files, `bytes` each file to whose
pieces it holds. A hard link takes a name only if it is free; a rename takes any.
`way` is how a download was started: into a directory (serve and the chooser), to
a path (`load`), or to a path by force.

### The server's workspace

Each request is one step of the server; what it answers is `Replies`, and
`Replays` are the requests that are answered alike when they come twice. A
request may be served unanswered, not at all, or late (`TimedOut`, `Deliver`),
and is then repeated or given up. `job` is an administrator's command; a
re-encryption copies what is left, skips what is staged, reads every copy back and
commits. `live` is the lease; `KeepLease` is the background task that renews it,
and a lease lapses when its holder stopped or its renewals do not get through.
The server is described in `docs/architecture.md`; its idempotent requests and
the session's rules are taken from what the client's code relies on.

### The pid file and the list cache

`entry` is the file the name `serve.pid` leads to; a file may be open, and locked,
under no name at all. `StatusLock` takes the lock like `acquire` does and keeps it
until it has answered. `idle` observes that nothing served at some moment of a
question. `Straggles` says whether a pid file may be removed between another
process's open and its lock.

`file` is the cache on disk, `mem` the copy of each `serve`, `rd` a refresh under
way: asked at a time, listed, saved. `chg` is a command that changed the store and
applies its change to the cache it loads. A listing finds every id there is when it
is taken; items that leave while metadata is read may be missed (`Listings`).

## What the runs show

| run | instance | result |
|---|---|---|
| `change_cut_anywhere` | 2 items, 3 keys, 2 words, 1 administrator, a second device that joins, 2 faults, removals cut short | `TypeOK`, `NothingLost`, `UnlockedOpens`, `UnlockedSealed`, `KeysLast` |
| `change_recovers` | 1 item, 2 keys, 2 administrators that overlap, 1 fault | `OneChange`, `Recovers` |
| `guarded_finish` | all five changes, finish only, 3 items, 2 devices that stop anywhere and of which one sends, 1 fault | `NothingLost`, `UnlockedOpens` |
| `guarded_undo` | the same with undo, 2 items and 3 keys that are alike, devices do not stop | `SettledSealed`, `GoneStaysGone`, `UnlockedHeader` |
| `store_shared` | 2 clients with every operation, 2 seconds, 1 content, 3 staging folders | all safety properties of `FsStore`, and `ImplementsItemStore` |
| `store_cleaned` | 2 clients, 2 staging folders, slow uploads, fair clean-ups | `LeftoversGo` |
| `serve_pull` | a text, a file and an image, 2 keys, queues of one, 2 events | `NoEcho`, `AppliedOnce`, `NothingSkipped`, `NeverBack`, `CatchesUp` |
| `serve_drop` | 2 files of 2 versions, 1 text, a queue of one, 5 events | `RemovedIsStored`, `SendsAll`, `Stops` |
| `downloads` | 3 downloads in any way, 2 names, 2 pieces, a user who acts twice | `FinalsWhole`, `PartsOwned`, `OwnNames`, `NothingReplaced` |
| `https` | 2 administrators, 1 writer, 1 content, 2 keys, 2 events | `NothingLost`, `OneKey`, `HeaderOpens`, `CopiesWhole`, `RewriteEnds` |
| `device` | 2 serves, 1 question, 1 command, 2 items, 2 moments, 2 keys, 2 events | `OneServe`, `AnswersTrue`, `NothingHidden`, `NoGhosts` |
| `two_serves` | 3 serves, no events, pid files removed at any moment | `OneServe` violated |

`two_serves` is a disagreement between the code and a comment in it: the drop of
the lock says that no other process uses the file, but one that opened it before
it was removed can lock it afterwards, while a later one makes a new file. It
takes three processes within one moment; `device` and the theorem about
`OneServe` assume it away (`Straggles = FALSE`).

**Known departures.** These hold of the code too. No run keeps them, but a
constant or a property of the modules shows each, and the runs above are cut so
that everything else is still checked:

* the removal of `.rewrite/` is not atomic, and what it may leave is not always
  recoverable: a header without a journal is refused by every command
  (`Recovers` with `PartialRelease`; architecture.md 261);
* a change reads the store before it has the lock and not again under it, so a
  second one may go on from a key the first replaced (`SecondChangeFails` with
  `OverlapChanges` and two words; architecture.md 237);
* the last check of a send cannot see a change that came and was undone, and a
  send that is answered with an item already there makes no last check
  (`UnlockedOpens` with undo, and with two senders of one item; architecture.md
  212-222);
* a device that stops between publishing an item and taking it back leaves it under
  the key before; nothing removes it, and later rotations are refused because of
  it (`SettledSealed` with devices in `Stoppable`);
* a send that is delayed over a whole rotation may publish under the key before
  it while the next rotation runs. Its copy is then moved with the others, `copy`
  cannot read it and refuses, and the undo puts it back with them, even after the
  device has looked for it to take it back (`SettledSealed` sets such sends apart
  in `overtaken`);
* two puts of one content at once may both store it, a second apart
  (`StoredOnce` with two seconds; README.md 36); that `Deduplicates` holds says that
  the search itself overlooks nothing;
* a poll that lists while a re-encryption has moved the items away forgets what it
  handled, and applies the newest item again when they are back after an undo
  (`AppliedOnceEver`; usage.md 575-579);
* a file that a device has no directory or usable name for, or cannot save when its
  disk is full, is never pulled later (`SkipFile`, recorded in `waived`; pull.rs 72);
* a version of a file saved while serve has the file in hand may be moved or
  deleted unsent (`RemovedIsStoredEver`, `SendsAllEver`), and a file skipped for
  its permissions is not looked at again when only those change
  (`SendsRepaired`; usage.md 538-540);
* a plain `load` looks for its target before it downloads and renames over it
  afterwards (`OnlyForceReplaces`; usage.md 360), and two loads to one path
  share a part file (`FinalsWhole` with `Overlap`);
* `--status` holds the lock for a moment, in which a start is refused, and between
  the lock and the writing of a pid the file names the process before
  (`StatusLock`, `Record`).

Assumed throughout, though the code does not enforce it: a recovery is taken over
ten minutes after it began whether or not it still works; the runs and
`ChangesExclude` let that happen only once its client has stopped. And a clean-up
judges a staging folder by its age alone, an hour, which writing a long file in it
does not renew; `Punctual` says that no upload takes that long. One more answer
shows in the model although nothing promises better: `get` calls an item corrupt
when it is deleted between its two reads (`ReadContent`).

**Bounds.** The keys are alike for a change, and so are the words, which the symmetry of
`change_cut_anywhere` uses. Two items let a fold, a copy or a removal stop half-way; three keys
allow two changes in a row from a plaintext store; two words tell a change of
words from a rotation. A crash and another one during the recovery are the
interesting faults, and four faults were tried once for `change_cut_anywhere`
without a difference. Two devices let one act while the other is between its
checks; a third item is there so that a copy can stop half-way beside one that is
sent and one that is deleted. In `guarded_undo` three keys let two changes of key
overtake one send. `CHECK_DEADLOCK FALSE` is set in the runs of changes and
guarded stores: a finite supply of keys, items and faults ends, and an idle store
is a proper end.

For the item store, two clients put every pair of operations side by side. Two
seconds give a content two ids, so that an older and a newer copy of it exist,
and one content is enough: folders of different contents never meet. Three
staging folders hold what two clients work on and one leftover. Clients and
folder names are interchangeable, which the symmetry uses in safety runs.

`MaxEvents` counts what users, the network and the store do to serve or to a
device, never its own steps. For `serve_pull` two of them are a change of key and a
restart, or a failed call and a copy by the user, and three items let one arrive
late between an older and a newer; queues of one are full at once. Five events
save a file twice, lock it, fail an upload and ask for a stop. Three downloads make
two meet at a name while a third takes the next; two pieces are a file half
written. One content is enough for the workspace, as the server treats items one
by one, and two keys are a migration and a rotation after it, or a change and its
late rival. Two moments tell an item of the second a list was asked for from one
before it. In the pid file's module two files let a name pass from one to the
next.

All these runs set `CHECK_DEADLOCK FALSE`: with their events spent and nothing
left to send, an idle device is a proper end.

**Fairness.** `Recovers` assumes that an administrator carries a command through
(weak fairness of its steps, which includes failing), and that a change cut
short is recovered again and again, with either answer (strong fairness, as each
attempt disables the next until it ends), taking over a recovery that stopped.
The code has no scheduler of its own: each of these is a person running
`encrypt --recover`. `CleaningSpec`, for `LeftoversGo`, assumes that an operation
does not hang for ever (it goes on or stops), that time passes over a folder
nobody touches, that somebody prunes again and again, and that not every
clean-up is cut short before it comes to a given folder or is through with it.

`FairPullSpec`, for `CatchesUp`, is weak fairness of the tasks: a poll goes on at
its interval, the clipboard task runs, the uploader takes its jobs. The tasks run
on tokio's scheduler, which runs what is ready; a blocked send is not ready, so
the model's step is not enabled either. `FairSpec` of `DropFolder` is the same
for the watcher and the uploader, with time passing (`Settle`), and strong
fairness where a `select!` chooses at random among what is ready: a stop request
and the uploader's report of a skip are picked up sooner or later although
something else may be ready each time. Nothing makes a hung store answer:
`SendsAll` waits for it, `Stops` does not. `RewriteEnds` assumes that commands run
on, that a lease runs out, and that whoever sees an open re-encryption undoes it
again and again (strong fairness: the holder's own steps disable it).

## What is proved

`EncryptionChangeProofs` proves of `EncryptionChange` and `EncryptCommand`, for every
choice of the constants:

* `ChangeTyped`: `TypeOK` is an invariant. It is not inductive: the journal is
  written from the kind and the header the command holds, so `Prepared` says
  that a command about to take the lock has both. One lemma holds for each step
  whose data needs an argument, the others follow from their definitions.
* `ChangesExclude`: `OneChange` is an invariant when recoveries are not started
  beside other commands (`~OverlapRecovery`) or not at all. Its inductive form
  adds `Locked`, that a command past taking the lock still has it: a step either
  leaves the lock to the one command that works, or is the step by which that
  command gives it up; taking it needs it free, which means that nobody works.
* `ChangeLosesNothing`, `ChangeLeavesOpen`, `ChangeLeavesSealed`: `NothingLost`,
  `UnlockedOpens` and `UnlockedSealed`, where administrators take turns
  (`TurnsTaken`: neither overlap), with late devices, failures at every step,
  removals cut short and recoveries of recoveries. The inductive form `KeptInv` has
  two halves. `StoreSound` speaks of the tree alone, as it must: a command may stop
  anywhere and leave nothing else. Without a journal the tree is at rest (`AtRest`);
  the journal of a header change stands for a store whose items are where they
  were or under `plain/items/` (`WordsGoing`, `SetUpGoing`); that of a re-encryption
  for one whose old header and old copies are all there (`MigrateOpen`,
  `RotateOpen`), until the new header is in place and every kept item has a copy
  under its key (`Committed`). `Knows` adds what the running command may count on
  at its next step (for instance, before `Swap`, that every kept item was copied). One lemma
  per action shows both halves kept; a second command never runs, so what others
  know is void.
* `ChangeKeepsHeader`: `UnlockedHeader`, when besides `.rewrite/` goes in one step
  (`~PartialRelease`; cut short, its removal may lose the journal of a change that
  went through, whose report nobody then makes). `HeadSound` follows the header
  agreed on through the places it is in: in its own, or set aside while the new
  one is inside the lock, and only set aside once the new one is out.
* `CommandKeysLast`: `KeysLast` of the command `encrypt` with its devices. A header is
  final (`Settled`) once a rotation has swapped it, or the journal is gone; what a
  device saved or is about to save is a key the store had while it was open, or
  that of a settled header (`Lasting`). No store that was found encrypted becomes
  plaintext while a device joins. `CommandKeepsStore` says the three properties of
  items above of the same specification.

`GuardedProofs` proves of `GuardedStore`, for any number of devices, administrators,
items and keys, where administrators take turns. The invariant `KeptInv(S, L)` above
says of the items in `S` that they are to stay and of the copies in `L` (an item and a
key) that they may be out of place; each theorem here keeps it with an `S` and an `L` of
its own, and with `Beside`: no device holds the key a change is bringing in, as that
key is new and nobody joins while the lock is there, and only what a device may send
or delete is sent or deleted.

* `GuardedKeepsHeader`: `UnlockedHeader`, with `~PartialRelease`. `HeadSound` is kept as
  before, since no device touches a header.
* `GuardedSettlesSealed`: `SettledSealed`, when devices do not stop half-way
  (`Stoppable = {}`; one that does leaves what it published). `L` is what sends may
  have left (`Leftover`): what was overtaken, and what a send has published and
  its last check may yet make it take back (`Late`). A send that
  passed its first look has the key that a rotation replaces, or was
  overtaken (`Current`), so a rotation moves nothing else into its source.
* `GuardedStaysGone`: `GoneStaysGone`, when nobody sends what one may delete and no
  device that passed its check before stores late (`LateItems = {}`). An item that is
  deleted is in no folder, and no administrator brings back what is in none (`Flows`);
  an item that may be deleted is in one folder, or in the source of a rewrite and
  staged under its new key (`Single`), so a delete hides all there is of it. With a
  second send it may not: a copy published late under the key before is what
  the delete finds, while the first waits in the source and the undo restores it.
* `GuardedLosesNothing` and `GuardedOpens`: `NothingLost` and `UnlockedOpens`, when changes
  cut short are finished (`Recoveries` has no `undo`) and each item has at most one
  device that sends it (`SendsApart`); any device may delete it, and stop anywhere.
  Some `S` and `L` keep `KeptInv` with `Promises`: what was told is in `S`, and so is what
  a device is about to be told. An item joins `S` when it is in place under the key
  the store has, or has once the change is finished (`Target`). A send whose key is
  another (`Outrun`) stays so until it looks, and then no look lets it pass
  (`Barred`): before it published it gives up, afterwards it takes back a copy
  that is in `L`. So a send only comes to its search when what it would find is
  to stay (`Found`). A rewrite that is undone breaks the second look, as the known
  departures say. So does a second device that sends the item: it finds the copy
  the first is about to take back, is told that it is stored, and makes no last look.

`FsStoreProofs` proves, for any number of clients, seconds, contents and folders:

* `StoreTyped`: `TypeOK`, strengthened by what an operation knows at each step
  (`Knows`: a put about to publish has an id of its key, and so on).
* `StoreWhole` and `StoreKeepsFolders`: `WholeItems` and `UploadsKeepFolder` when
  uploads are `Punctual`. The inductive form is `Owned`: a folder of `tmp/` that
  somebody works in has one worker (`Apart`), is not stale and in no clean-up's
  hands (`Timely`), and holds what its worker has put there so far (`Staged`).
  A clean-up only takes folders that were stale, and those are nobody's for good.
  `WholeItems` follows as what is published is staged in full.
* `StoreAccounts`: `Deduplicates` and `ListsAll`, also for punctual uploads.
  `Reckoned` says that every item owed is still to be visited or has been
  accounted for; a loop may pass over one only if it cannot be read, and as all
  items are whole that means it has left.
* `StoreImplements`: `ImplementsItemStore`, without the assumption. The types are
  all it needs: `Publish` is the abstract `Create` and `Bury` the abstract `Remove`,
  the steps that find an item are `Find`, and the others change nothing a caller
  sees.

`DownloadProofs` proves, for any number of downloads, names, pieces and acts of the
user:

* `DownloadTyped`: `TypeOK`, with `Numbered`: the name a download is about to rename
  to is within the bound.
* `DownloadPartsOwned`, `DownloadOwnNames`, `DownloadReplacesNothing`: `PartsOwned`,
  `OwnNames` and `NothingReplaced`. Their inductive form `Kept` says that the look
  before a rename is reached only without hard links, that a download that writes
  has a file, that the user owns no part file, and that a reported name is taken
  while nobody touches the directory.
* `DownloadFinalsWhole`: `FinalsWhole` with `~Overlap`. `Whole` adds that only one load
  to the path works (`Alone`), that the file of a part is under no final name
  (`Apart`), and that a download's file holds its own pieces up to where it is
  (`Mine`): all of them once the digest was right.

`DeviceProofs` proves of `DaemonLock`, for any number of serves, callers and files,
with `~Straggles`:

* `ServesExclude`: `OneServe`. Its inductive form says that a serve past `Lock`
  holds the lock of the file it opened, that this file has the name until it is
  removed, and that whoever has a file open has that one; a lock has one holder.
* `AnswersHold`: `AnswersTrue`. A caller that found no file, or got the lock, did so
  at a moment when nothing served, which the invariant above gives.

It carries them to a whole `Device`, and adds the list cache, for any
number of serves, questions, commands, items and moments:

* `DeviceRunsLock`: `Device` implements the specification of the pid file, as each
  of its steps is one of `DaemonLock`'s or leaves the pid file alone. So
  `DeviceExcludes`: `OneServe` and `AnswersTrue` hold of it with `~Straggles`.
* `CacheHidesNothing` and `CacheListsNoGhosts`: `NothingHidden` and `NoGhosts`, with
  no assumption on who writes. The inductive form says of every list that may
  reach the file (on disk, in a `serve`, in a refresh under way, in a command that
  has loaded it) what the property says of the file, relative to the moment that
  list claims; a list that is saved over another's is true of its own moment.

`HttpsProofs`, for any number of administrators, writers, contents, keys, uploads
and faults:

* `DevicesLoseNothing`, `DevicesShareOneKey`, `DevicesCommitWholeCopies`: `NothingLost`,
  `OneKey` with `HeaderOpens`, and `CopiesWhole`. The inductive form says of every request
  that is out, and of those that may still arrive late, what must hold for the
  server to serve it (`Sound`): a key is begun by one re-encryption only, so a
  request that was overtaken names a key that is past or undone, and is refused.
  A commit is only asked for when every item was copied and read back whole
  (`AllCopied`), and a writer's answer is only believed when what it sent is stored,
  set aside or deleted on purpose (`Kept`).

`PullProofs`, for any number of items and keys and any length of the queues:

* `PullSendsNothingBack`: `NoEcho`. What the clipboard holds from pull mode is marked
  as seen in the same step, so the loop may only queue what it finds from the
  user (`EchoInv`).
* `PullAppliesOnce`, `PullSkipsNothing`: `AppliedOnce` and `NothingSkipped`. Until a poll
  met the items moved away (`blinked`), an item done with is seen under the present
  key, or is being listed afresh after a change of key, when nothing is new
  (`Settled`); a file that is seen and whole was downloaded, was there at the start, or
  was skipped for this device's own problem (`FilesSeen`).
* `PullNeverGoesBack`: `NeverBack`, an action property: only the item read last is
  applied, and what was older or at hand then is known from there on.

`DropProofs`, for any number of files, versions and texts:

* `DropRemovesOnlyStored`: `RemovedIsStored`. Between opening a file and finishing it,
  what is in the folder is what was opened, is gone, or was saved meanwhile
  (`FileInHand`); once it was sent, it is stored or was saved meanwhile.

Constants are assumed to be what the modules' `ASSUME`s say: sets of the right
kind, bounds that are numbers, and names that stand for nothing (`NoSession`,
`NoKey`) outside the sets they are used beside. Where a theorem assumes more
(`~Straggles`, `Punctual`, `~Overlap`, `~OverlapRecovery`, `TurnsTaken`, `~PartialRelease`,
`Stoppable = {}`, `LateItems = {}`, `Recoveries \subseteq {"finish"}`, `SendsApart`) it says so. The
runs `guarded_finish` and `guarded_undo` are instances of what the theorems
about `GuardedStore` assume.

Only model-checked: liveness (`Recovers`, `LeftoversGo`, `CatchesUp`, `SendsAll`, `Stops`,
`RewriteEnds`), which the prover does not do. Every safety property that a passing run
checks is a theorem as well.

## Plan

1. done: `StoreLayout`, `EncryptionChange`, `GuardedStore`, the first theorems.
2. done: `FsStore`, `ItemStore` and their theorems.
3. done: `ClipboardLoop`, `PullMode`; `Uploader`, `DropFolder`; `Download`.
4. done: `Workspace`, `HttpsDevices`; `DaemonLock`, `ListCache`, `Device`.
5. done: `EncryptCommand`, devices that stop, the theorems about `Download`.
6. done: the theorems about `HttpsDevices`, `PullMode`, `DropFolder`, `ListCache` and
   `Device`.
7. done: the theorems about items, headers and saved keys of `EncryptionChange` and
   `EncryptCommand`.
8. done: the theorems about `GuardedStore`.
9. The table of `opening`, the resolution of ids, `restore_header`.

## Not modelled

Ciphers, key derivation, the formats of headers and items, TLS, SSH and the
desktop clipboard are I/O or arithmetic on bytes; a copy is sealed under a key or
is not. Terminal output, prompts and argument parsing carry no state. A synced
folder that merges two copies of the store, and a disk that loses acknowledged
writes, are excluded by the documentation. The pid file of Windows cannot be read
while it is locked, so there are a second file for its text and one to ask for a
stop: left out, as are launching in the background and installing a service. A
rotation that lists empty folders into the list cache, two devices that change the
words of a workspace at once (its server compares keys, not headers) and a
repeated `delete` that reports an item it deleted as missing are known and not in
the models. `restore_header` repairs stores left
by version 0.2.0: it starts from a broken store, which `UnlockedOpens` shows this
version never leaves behind. The staging of a journal is part of
`Publish`: a folder `.rewrite-...` that the end of another change, or `prune --plain`,
sweeps while its owner still writes is made again by `write_header_in` without its
plan, and then becomes a lock that `release_unstarted` refuses should its owner
stop. A sealed item whose files are still on their way
through a synced folder (`unreadable`, with its grace period) is left out of
`FsStore`, whose renames are atomic. The reads of one command's inspection are one step:
a change that is stale because of it is found all the same.
