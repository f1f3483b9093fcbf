------------------------------- MODULE MCPullMode -------------------------------
(***************************************************************************)
(* Instances of PullMode for TLC.                                          *)
(***************************************************************************)
EXTENDS PullMode, TLC

CONSTANTS t1, t2, m1

\* A text, a file and an image, in the order of their ids.
TextAndImage == (1 :> t1) @@ (3 :> m1)
================================================================================
