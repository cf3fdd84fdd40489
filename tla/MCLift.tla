------------------------------- MODULE MCLift -------------------------------
(***************************************************************************)
(* TLC instances of TRLLiftInterface.                                      *)
(***************************************************************************)
EXTENDS TRLLiftInterface

\* A basement, no floor, a floor, and one that is 3 once it is 8 bits wide.
MCFloor   == {-1, 0, 3, 259}
MCNumber  == {0, 1}

\* The aliases of lift_config.yaml in their order: all but agvMode.
MCConfigured == <<"liftTask", "endLiftTask", "robotDestinationFloor",
                  "liftDestinationFloor", "liftCurrentFloor", "liftDoorState",
                  "fireAlarm", "turnKeyToManual", "randomCount">>

MCFlags   == {"liftTask", "endLiftTask", "fireAlarm"}
MCNumbers == {"liftCurrentFloor"}
=============================================================================
