------------------------------- MODULE MCDownload -------------------------------
(***************************************************************************)
(* Instances of Download for TLC.                                          *)
(***************************************************************************)
EXTENDS Download, TLC

CONSTANTS d1, d2, d3

\* Any download may be started in any way.
AnyWay == [p \in Loads |-> {"into", "to", "force"}]
Symmetric == Permutations(Loads)
================================================================================
