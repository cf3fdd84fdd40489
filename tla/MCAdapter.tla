----------------------------- MODULE MCAdapter ------------------------------
(***************************************************************************)
(* TLC instances of TRLIotCoreAdapter: one door and one lift.              *)
(***************************************************************************)
EXTENDS TRLIotCoreAdapter

CONSTANTS door1, lift1

MCDoors == {door1}
MCLifts == {lift1}
=============================================================================
