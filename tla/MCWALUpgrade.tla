---------------------------- MODULE MCWALUpgrade ----------------------------
(***************************************************************************)
(* WALUpgrade for TLC.                                                     *)
(***************************************************************************)
EXTENDS WALUpgrade, TLC

CONSTANTS r1, r2

MCOriginal == <<r1, r2>>
=============================================================================
