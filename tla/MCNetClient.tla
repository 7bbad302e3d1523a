---------------------------- MODULE MCNetClient ----------------------------
(***************************************************************************)
(* NetClient for TLC.                                                      *)
(***************************************************************************)
EXTENDS NetClient, TLC
=============================================================================
