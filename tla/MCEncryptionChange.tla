-------------------------- MODULE MCEncryptionChange --------------------------
(***************************************************************************)
(* Instances of EncryptionChange for TLC.                                  *)
(***************************************************************************)
EXTENDS EncryptionChange, TLC

CONSTANTS i1, i2, k1, k2, k3, w1, w2, a1, a2
================================================================================
