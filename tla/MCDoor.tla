------------------------------- MODULE MCDoor -------------------------------
(***************************************************************************)
(* TLC instance of TRLDoorInterface: the four coils of a door.             *)
(***************************************************************************)
EXTENDS TRLDoorInterface

MCAddress == {DOOR_OPEN_STATE, DOOR_CLOSE_STATE, DOOR_ACTUATE, CHECK_COIL}
MCValue   == BOOLEAN
MCFunc    == {READ_COILS, WRITE_COIL}
=============================================================================
