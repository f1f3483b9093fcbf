------------------------------- MODULE MCFsStore -------------------------------
(***************************************************************************)
(* Instances of FsStore for TLC.                                           *)
(***************************************************************************)
EXTENDS FsStore, TLC

CONSTANTS c1, c2, t1, t2, t3

\* Folder names are random; so are the clients' roles.
Symmetric == Permutations(Tokens) \cup Permutations(Clients)
================================================================================
