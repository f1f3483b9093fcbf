----------------------------- MODULE MCHttpsDevices -----------------------------
(***************************************************************************)
(* Instances of HttpsDevices for TLC.                                      *)
(***************************************************************************)
EXTENDS HttpsDevices

CONSTANTS d1, d2, w1
================================================================================
