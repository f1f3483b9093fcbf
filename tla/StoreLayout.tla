------------------------------ MODULE StoreLayout ------------------------------
(***************************************************************************)
(* The folder tree of one passalong store on a filesystem (local or SFTP), *)
(* as far as encryption goes: the item folders, the store header and what  *)
(* `.rewrite/`, which is both the lock and the journal of a change, holds. *)
(* The module declares the state and what may be asked of it; the modules  *)
(* that EXTEND it change it.                                               *)
(*                                                                         *)
(* The folder "source" stands for `.rewrite/source/items` of a migration   *)
(* and `.rewrite/source/v2/items` of a rotation.  A stored item is a copy: *)
(* which item, the key it is sealed under (NoKey for plaintext), and       *)
(* whether its folder is whole (a removal cut short leaves `meta.json`     *)
(* without the content).                                                   *)
(***************************************************************************)
EXTENDS Naturals, FiniteSets

CONSTANTS Items,      \* what devices share
          Keys,       \* data keys
          Words,      \* words a data key is wrapped with
          NoKey       \* not a key: the item is plaintext

ASSUME NoKeyAssumption == NoKey \notin Keys

VARIABLES
  lock,       \* whether `.rewrite/` exists
  plan,       \* `.rewrite/plan.json`
  recovery,   \* whether `.rewrite/recovery/` exists
  head,       \* the header in each place one may be in
  dir,        \* what each item folder is: absent, a folder, or a file
  held,       \* the copies in each item folder
  kept        \* items devices were told the store keeps (observer)

layoutVars == <<lock, plan, recovery, head, dir, held, kept>>

Folders == {"items", "v2/items", "source", "plain/items"}
Places  == {"encryption", "header", "old-header", "previous"}
InLock  == {"header", "old-header", "previous"}

HeaderChanges == {"set-up", "fresh-start", "words"}
Rewrites      == {"migrate", "rotate"}
Kinds         == HeaderChanges \cup Rewrites

Copies   == [item : Items, key : Keys \cup {NoKey}, whole : BOOLEAN]
Headers  == [key : Keys, words : Words]
NoHeader == [key |-> NoKey, words |-> NoKey]
NoPlan   == [kind |-> "none", to |-> NoKey]
Plans    == [kind : Kinds, to : Keys]

LayoutTypeOK ==
  /\ lock \in BOOLEAN
  /\ plan \in Plans \cup {NoPlan}
  /\ recovery \in BOOLEAN
  /\ head \in [Places -> Headers \cup {NoHeader}]
  /\ dir \in [Folders -> {"absent", "folder", "file"}]
  /\ held \in [Folders -> SUBSET Copies]
  /\ kept \in SUBSET Items

Whole(i, k) == [item |-> i, key |-> k, whole |-> TRUE]
Torn(c)     == [c EXCEPT !.whole = FALSE]

(***************************************************************************)
(* What a client makes of the root: `classify` and the opening table.      *)
(***************************************************************************)
Classify ==
  IF lock THEN "rewriting"
  ELSE IF head["encryption"] # NoHeader
       THEN IF dir["items"] = "folder" THEN "broken" ELSE "encrypted"
       ELSE IF dir["items"] = "file" THEN "broken" ELSE "plain"

\* Where a client with device key k (or NoKey) keeps its items.
ItemsOf(k) == IF k = NoKey THEN "items" ELSE "v2/items"

(***************************************************************************)
(* Filesystem operations, each atomic.  A rename never replaces anything.  *)
(***************************************************************************)
Rename(f, g) ==
  /\ dir[g] = "absent"
  /\ dir'  = [dir  EXCEPT ![g] = dir[f],  ![f] = "absent"]
  /\ held' = [held EXCEPT ![g] = held[f], ![f] = {}]

MoveHeader(p, q) ==
  /\ head[p] # NoHeader
  /\ head[q] = NoHeader
  /\ head' = [head EXCEPT ![q] = head[p], ![p] = NoHeader]

RemoveTree(f) ==
  /\ dir'  = [dir  EXCEPT ![f] = "absent"]
  /\ held' = [held EXCEPT ![f] = {}]

\* A removal of f cut short: some copies are gone, of others the content is.
RemoveSome(f) ==
  /\ dir[f] = "folder"
  /\ \E rest \in SUBSET held[f] : \E torn \in SUBSET rest :
       held' = [held EXCEPT ![f] = (rest \ torn) \cup {Torn(c) : c \in torn}]
  /\ UNCHANGED dir

MakeFolder(f) ==
  /\ dir' = [dir EXCEPT ![f] = "folder"]
  /\ UNCHANGED held
================================================================================
