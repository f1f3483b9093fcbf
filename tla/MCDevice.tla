-------------------------------- MODULE MCDevice --------------------------------
(***************************************************************************)
(* Instances of Device for TLC.                                            *)
(***************************************************************************)
EXTENDS Device, TLC

CONSTANTS p1, p2, p3, q1, c1

DeviceSymmetry == Permutations(Serves)
================================================================================
