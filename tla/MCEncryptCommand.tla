---------------------------- MODULE MCEncryptCommand ----------------------------
(***************************************************************************)
(* Instances of EncryptCommand for TLC.                                    *)
(***************************************************************************)
EXTENDS EncryptCommand, TLC

CONSTANTS i1, i2, k1, k2, k3, w1, w2, a1, a2

\* Keys are alike, and so are words.
Alike == Permutations(Keys) \cup Permutations(Words)
================================================================================
