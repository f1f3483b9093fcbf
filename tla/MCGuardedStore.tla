---------------------------- MODULE MCGuardedStore ----------------------------
(***************************************************************************)
(* Instances of GuardedStore for TLC.                                      *)
(***************************************************************************)
EXTENDS GuardedStore, TLC

CONSTANTS i1, i2, i3, k1, k2, k3, w1, a1, c1, c2

\* Keys are alike.
Alike == Permutations(Keys)

\* Each client sends an item of its own.
OwnItems == (c1 :> {i2}) @@ (c2 :> {i3})
\* One client sends.
OneSender == (c1 :> {i2}) @@ (c2 :> {})
\* Both clients may send the same item.
OneItem == [c \in Clients |-> {i2}]
================================================================================
