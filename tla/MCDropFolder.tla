------------------------------ MODULE MCDropFolder ------------------------------
(***************************************************************************)
(* Instances of DropFolder for TLC.                                        *)
(***************************************************************************)
EXTENDS DropFolder

CONSTANTS t1
================================================================================
