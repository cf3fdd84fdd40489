-------------------------- MODULE TRLLiftInterface --------------------------
(***************************************************************************)
(* One lift (lift_controller/src/TRLLiftInterface.cpp): every operation is *)
(* a sequence of reads and writes of PLC variables through the             *)
(* m_adsinterface it owns, and the PLC program runs between any two of     *)
(* them.  The operations of one lift come one after the other: its caller  *)
(* serialises them.                                                        *)
(*                                                                         *)
(* The ADS client is seen as its callers see it (module AdsInterface has   *)
(* the inside): a write may be lost without being reported, a read gives   *)
(* the empty variant while m_device_state is off, and either call may      *)
(* throw or never return.  Variables that are only read and returned like  *)
(* others (liftMotionState) are one variable here.                         *)
(***************************************************************************)
EXTENDS Integers, Sequences

CONSTANTS
  Configured,   \* sequence of the aliases of lift_config.yaml the PLC has
  Floor,        \* floors CommandLift is called with
  NotANumber,   \* a floor string that stoi refuses
  Nothing,      \* the empty variant: it holds the bool false
  PlcFlag,      \* flags the PLC program itself changes
  PlcNumber,    \* numbers the PLC program itself changes
  Number,       \* the values the PLC program gives them
  NetworkFails, \* whether accesses to the PLC may fail
  MaxMoves      \* bound of the model on the PLC's moves during one operation

Flags   == {"liftTask", "endLiftTask", "fireAlarm", "turnKeyToManual", "agvMode"}
Numbers == {"robotDestinationFloor", "liftCurrentFloor", "liftDoorState",
            "randomCount"}
Aliases == Flags \union Numbers \union {"liftDestinationFloor"}

\* The variables CommandLift and EndLift write.
Commanded == {"liftTask", "endLiftTask", "robotDestinationFloor"}

First(n) == {Configured[i] : i \in 1 .. n}

ASSUME LiftAssumption ==
  /\ Configured \in Seq(Aliases)
  /\ PlcFlag \subseteq Flags /\ PlcNumber \subseteq Numbers
  /\ Floor \subseteq Int /\ Number \subseteq -128 .. 127
  /\ NetworkFails \in BOOLEAN /\ MaxMoves \in Nat
  /\ Nothing \notin BOOLEAN \union Int /\ NotANumber \notin Int

\* Every commanded variable is configured, and those that are read back before
\* the last one come before it.
ASSUME OrderAssumption ==
  /\ Commanded \union {"liftDestinationFloor"} \subseteq First(Len(Configured))
  /\ \A n \in 0 .. Len(Configured) :
       /\ "liftDestinationFloor" \in First(n) => "endLiftTask" \in First(n)
       /\ "endLiftTask" \in First(n) => "liftTask" \in First(n)

VARIABLES
  bound,          \* aliases BindPLCVar has mapped
  m_device_state, \* of the ADS client
  flags, numbers, \* the variables in the PLC
  lpc,            \* statement the lift is at; "new", then "ready" between them
  floor,          \* argument of CommandLift
  result,         \* last operation that returned, with its value
  moves,          \* PLC moves during the operation
  touched,        \* history: the PLC program changed a commanded variable
  failed          \* history: an access of the operation has failed

ads      == <<bound, m_device_state>>
plc      == <<flags, numbers>>
local    == <<floor, result, moves, touched>>
liftVars == <<ads, plc, lpc, local, failed>>

LiftInit ==
  /\ bound = {} /\ m_device_state = FALSE
  /\ flags \in [Flags -> BOOLEAN]
  /\ \A v \in Flags \ PlcFlag : ~flags[v]
  /\ numbers \in [Numbers -> Number]
  /\ \A v \in Numbers \ PlcNumber : numbers[v] = 0
  /\ lpc = "new" /\ floor = NotANumber
  /\ result = [call |-> "none", value |-> 0]
  /\ moves = 0 /\ touched = FALSE /\ failed = FALSE

(***************************************************************************)
(* Access to the PLC                                                       *)
(***************************************************************************)
\* lift_config.yaml binds both destination aliases to one PLC variable.
PlcVariable(a) == IF a = "liftDestinationFloor" THEN "robotDestinationFloor" ELSE a

Put(a, x) ==
  \/ a \in Flags /\ flags' = [flags EXCEPT ![a] = x] /\ UNCHANGED numbers
  \/ a \in Numbers /\ numbers' = [numbers EXCEPT ![a] = x] /\ UNCHANGED flags

Reachable(a) == a \in bound /\ m_device_state

\* AdsReadValue when it returns.
Read(a) ==
  IF ~Reachable(a) THEN Nothing
  ELSE IF a \in Flags THEN flags[a] ELSE numbers[PlcVariable(a)]

\* std::get<bool> accepts the empty variant; std::get of a number throws.
IsTrue(x) == x = TRUE

Return(c, x) ==
  /\ lpc' = "ready" /\ result' = [call |-> c, value |-> x]
  /\ UNCHANGED <<floor, moves, touched>>

Goto(step) == lpc' = step /\ UNCHANGED local

\* AdsWriteValue, whose result the lift ignores.  The write is lost when the
\* variable is not reachable.  A failing access may have reached the PLC; what
\* the client then tries may switch m_device_state off, throw or never return.
Write(a, x, next, call) ==
  \/ /\ Reachable(a) /\ Put(a, x)
     /\ Goto(next) /\ UNCHANGED <<ads, failed>>
  \/ /\ ~Reachable(a) /\ UNCHANGED plc
     /\ Goto(next) /\ UNCHANGED <<ads, failed>>
  \/ /\ NetworkFails /\ a \in bound /\ failed' = TRUE
     /\ \/ Reachable(a) /\ Put(a, x)
        \/ UNCHANGED plc
     /\ \/ Goto(next) /\ m_device_state' \in {m_device_state, FALSE}
        \/ Return(call, FALSE) /\ UNCHANGED m_device_state
        \/ Goto("stuck") /\ UNCHANGED m_device_state
     /\ UNCHANGED bound

Unchanged == UNCHANGED <<ads, plc, failed>>

\* The alias each reading statement reads.
ReadAt == [cmdCheck |-> "robotDestinationFloor", cmdTask |-> "liftTask",
           cmdEnd |-> "endLiftTask", cmdDest |-> "liftDestinationFloor",
           endTask |-> "liftTask", endEnd |-> "endLiftTask",
           fire |-> "fireAlarm", manual |-> "turnKeyToManual",
           agv |-> "agvMode", noAgv |-> "agvMode",
           currentFloor |-> "liftCurrentFloor",
           destinationFloor |-> "liftDestinationFloor",
           doorState |-> "liftDoorState",
           beat |-> "randomCount", beatAgain |-> "randomCount"]

At(step) == lpc = step

\* A read that fails waits for a lock its own thread holds.
ReadHangs ==
  /\ lpc \in DOMAIN ReadAt /\ NetworkFails /\ Reachable(ReadAt[lpc])
  /\ Goto("stuck") /\ Unchanged

Begin(step) ==
  /\ At("ready") /\ lpc' = step
  /\ moves' = 0 /\ touched' = FALSE /\ failed' = FALSE
  /\ UNCHANGED <<ads, plc, result>>

(***************************************************************************)
(* CommandLift                                                             *)
(***************************************************************************)
\* Mutant of Int8: the conversion is to an unsigned byte.
Int8_Unsigned(n) == n % 256

\* (int8_t) of an int.
Int8(n) == ((n + 128) % 256) - 128

CommandLift(f) == Begin("writeTask") /\ floor' = f

CommandTask == At("writeTask") /\ Write("liftTask", TRUE, "writeEnd", "CommandLift")
CommandEnd  == At("writeEnd") /\ Write("endLiftTask", FALSE, "writeFloor", "CommandLift")

\* stoi throws after the two flags have been written.
CommandFloor ==
  /\ At("writeFloor")
  /\ \/ floor = NotANumber /\ Return("CommandLift", FALSE) /\ Unchanged
     \/ /\ floor # NotANumber
        /\ Write("robotDestinationFloor", Int8(floor), "cmdCheck", "CommandLift")

\* Mutant of SameFloor: the destination is compared as the PLC stores it.
SameFloor_Int8(x) == x = Int8(floor)

\* The destination read back is compared with the number before its conversion.
SameFloor(x) == x = floor

CommandCheck ==
  /\ At("cmdCheck")
  /\ LET x == Read("robotDestinationFloor") IN
       IF x # Nothing /\ SameFloor(x) THEN Goto("cmdTask")
       ELSE Return("CommandLift", FALSE)
  /\ Unchanged

CommandReadTask ==
  /\ At("cmdTask")
  /\ IF IsTrue(Read("liftTask")) THEN Goto("cmdEnd") ELSE Return("CommandLift", FALSE)
  /\ Unchanged

CommandReadEnd ==
  /\ At("cmdEnd")
  /\ IF ~IsTrue(Read("endLiftTask")) THEN Goto("cmdDest") ELSE Return("CommandLift", FALSE)
  /\ Unchanged

\* A number read as text; "0" and a failed read are no floor.
FloorText(x) == IF x = Nothing THEN 0 ELSE x

CommandReturns ==
  /\ At("cmdDest")
  /\ Return("CommandLift", FloorText(Read("liftDestinationFloor")) # 0)
  /\ Unchanged

(***************************************************************************)
(* EndLift                                                                 *)
(***************************************************************************)
EndLift == Begin("clearTask") /\ UNCHANGED floor

EndTask == At("clearTask") /\ Write("liftTask", FALSE, "setEnd", "EndLift")
EndEnd  == At("setEnd") /\ Write("endLiftTask", TRUE, "endTask", "EndLift")

EndReadTask ==
  /\ At("endTask")
  /\ IF ~IsTrue(Read("liftTask")) THEN Goto("endEnd") ELSE Return("EndLift", FALSE)
  /\ Unchanged

\* Mutant of Ended: only the first of the two flags is looked at.
Ended_Ignored(x) == TRUE

\* The last condition of EndLift.
Ended(x) == IsTrue(x)

EndReturns ==
  /\ At("endEnd")
  /\ Return("EndLift", Ended(Read("endLiftTask")))
  /\ Unchanged

(***************************************************************************)
(* The queries                                                             *)
(***************************************************************************)
Query(step) == Begin(step) /\ UNCHANGED floor

CurrentMode == Query("fire")

ModeTest(step, alias, mode, next) ==
  /\ At(step)
  /\ IF IsTrue(Read(alias)) THEN Return("CurrentMode", mode) ELSE Goto(next)
  /\ Unchanged

ModeReturns ==
  /\ At("noAgv")
  /\ Return("CurrentMode", IF IsTrue(Read("agvMode")) THEN 0 ELSE 1)
  /\ Unchanged

ModeSteps == \/ ModeTest("fire", "fireAlarm", 3, "manual")
             \/ ModeTest("manual", "turnKeyToManual", 4, "agv")
             \/ ModeTest("agv", "agvMode", 2, "noAgv")
             \/ ModeReturns

\* CurrentFloor and DestinationFloor; no floor is published as "0".
FloorQuery     == Query("currentFloor") \/ Query("destinationFloor")
LiftDoorState  == Query("doorState")

NumberReturns ==
  /\ lpc \in {"currentFloor", "destinationFloor", "doorState"}
  /\ Return(lpc, FloorText(Read(ReadAt[lpc])))
  /\ Unchanged

(***************************************************************************)
(* HeartbeatConnection: current_time is not initialised when it is used.   *)
(***************************************************************************)
HeartbeatConnection == Query("beat")

HeartbeatReads ==
  /\ At("beat")
  /\ LET x == Read("randomCount") IN
     \/ x = Nothing /\ Return("HeartbeatConnection", FALSE)
     \/ x # Nothing /\ x <= 0 /\ Goto("beatWrite")
     \/ x # Nothing /\ x > 0 /\ \E r \in BOOLEAN : Return("HeartbeatConnection", r)
  /\ Unchanged

HeartbeatWrites ==
  At("beatWrite") /\ Write("randomCount", 1, "beatAgain", "HeartbeatConnection")

HeartbeatReturns ==
  /\ At("beatAgain")
  /\ Return("HeartbeatConnection", Read("randomCount") # Nothing)
  /\ Unchanged

(***************************************************************************)
(* Initialize and CheckConnection, seen from outside the ADS client.       *)
(***************************************************************************)
\* Variables are acquired and bound only while m_device_state is on, in the
\* order of the configuration; an exception leaves the others unbound.
Initialize ==
  /\ At("new") \/ At("ready")
  /\ \/ /\ bound' = IF m_device_state THEN First(Len(Configured)) ELSE bound
        /\ lpc' = "ready" /\ result' = [call |-> "Initialize", value |-> TRUE]
     \/ /\ NetworkFails
        /\ \E n \in 0 .. Len(Configured) :
             bound' = IF m_device_state THEN bound \union First(n) ELSE bound
        /\ \/ lpc' = "ready" /\ result' = [call |-> "Initialize", value |-> FALSE]
           \/ lpc' = "stuck" /\ UNCHANGED result
  /\ UNCHANGED <<m_device_state, plc, floor, moves, touched, failed>>

\* The PLC answers, or not: then the int that ConnectionCheck returns is not
\* initialised, or an exception leaves m_device_state as it is.
CheckConnection ==
  /\ At("ready")
  /\ \/ /\ m_device_state' = TRUE /\ lpc' = "ready"
        /\ result' = [call |-> "CheckConnection", value |-> TRUE]
     \/ /\ NetworkFails /\ m_device_state' = FALSE /\ lpc' = "ready"
        /\ \E r \in BOOLEAN : result' = [call |-> "CheckConnection", value |-> r]
     \/ /\ NetworkFails /\ UNCHANGED m_device_state /\ lpc' = "ready"
        /\ result' = [call |-> "CheckConnection", value |-> FALSE]
     \/ /\ NetworkFails /\ lpc' = "stuck"
        /\ UNCHANGED <<m_device_state, result>>
  /\ UNCHANGED <<bound, plc, floor, moves, touched, failed>>

\* The PLC program changes a variable.
PlcMoves ==
  /\ moves < MaxMoves
  /\ \E a \in PlcFlag \union PlcNumber :
       /\ \/ a \in PlcFlag /\ Put(a, ~flags[a])
          \/ \E x \in Number : a \in PlcNumber /\ x # numbers[a] /\ Put(a, x)
       /\ touched' = (touched \/ a \in Commanded)
  /\ moves' = moves + 1
  /\ UNCHANGED <<ads, lpc, floor, result, failed>>

LiftStep ==
  \/ CommandTask \/ CommandEnd \/ CommandFloor \/ CommandCheck
  \/ CommandReadTask \/ CommandReadEnd \/ CommandReturns
  \/ EndTask \/ EndEnd \/ EndReadTask \/ EndReturns
  \/ ModeSteps \/ NumberReturns
  \/ HeartbeatReads \/ HeartbeatWrites \/ HeartbeatReturns \/ ReadHangs

LiftNext ==
  \/ LiftStep \/ PlcMoves
  \/ \E f \in Floor \union {NotANumber} : CommandLift(f)
  \/ EndLift \/ CurrentMode \/ FloorQuery \/ LiftDoorState
  \/ HeartbeatConnection \/ Initialize \/ CheckConnection

LiftSpec == LiftInit /\ [][LiftNext]_liftVars

(***************************************************************************)
(* Properties                                                              *)
(***************************************************************************)
\* Types; the PLC's floor variable is 8 bits wide whatever CommandLift is given.
LiftTypeOK ==
  /\ bound \subseteq First(Len(Configured)) /\ m_device_state \in BOOLEAN
  /\ flags \in [Flags -> BOOLEAN] /\ numbers \in [Numbers -> -128 .. 127]
  /\ floor \in Floor \union {NotANumber}
  /\ moves \in 0 .. MaxMoves /\ touched \in BOOLEAN /\ failed \in BOOLEAN

Returned(c) == At("ready") /\ result.call = c

\* A CommandLift that returned true left the PLC with exactly the command,
\* whichever of its three writes failed and in whatever way: the unreported
\* failures of AdsWriteValue are all caught by what it reads back.
CommandIsTruthful ==
  Returned("CommandLift") /\ result.value /\ ~touched
    => /\ flags["liftTask"] /\ ~flags["endLiftTask"]
       /\ numbers["robotDestinationFloor"] = floor /\ floor # 0

\* The same for EndLift, although the empty variant of a failed read counts as
\* a liftTask that is off.
EndIsTruthful ==
  Returned("EndLift") /\ result.value /\ ~touched
    => ~flags["liftTask"] /\ flags["endLiftTask"]

\* The PLC has answered the operation and every variable is bound.
Healthy == ~failed /\ m_device_state /\ bound = First(Len(Configured))

\* When every access of the operation has worked and the PLC program has left
\* the commanded variables alone, a command for a floor that fits the PLC's
\* variable succeeds, and every EndLift does, whatever failed before.
ValidCommandSucceeds ==
  Healthy /\ ~touched
    => /\ Returned("CommandLift") /\ floor \in -128 .. 127 /\ floor # 0
            => result.value
       /\ Returned("EndLift") => result.value
=============================================================================
