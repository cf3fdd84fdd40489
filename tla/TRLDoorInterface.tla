-------------------------- MODULE TRLDoorInterface --------------------------
(***************************************************************************)
(* One door (door_controller/src/TRLDoorInterface.cpp): every operation is *)
(* a short sequence of Modbus calls on the m_mb object the door owns.  The *)
(* adapter serialises the operations of a door with its m_mutex, so one    *)
(* operation is in progress at a time; slave, network and door leaf move   *)
(* between any two of its steps.                                           *)
(***************************************************************************)
EXTENDS Modbus

CONSTANT Retries   \* config["retries"]

DOOR_OPEN_STATE  == 1
DOOR_CLOSE_STATE == 2
DOOR_ACTUATE     == 17
CHECK_COIL       == 9     \* the coil CheckConnection reads

CLOSED  == 0
MOVING  == 1
OPEN    == 2
OFFLINE == 3
UNKNOWN == 4

ASSUME DoorAssumption ==
  /\ Retries \in Nat
  /\ Value = BOOLEAN
  /\ Func = {READ_COILS, WRITE_COIL}
  /\ Address = {DOOR_OPEN_STATE, DOOR_CLOSE_STATE, DOOR_ACTUATE, CHECK_COIL}

VARIABLES
  dpc,        \* statement the door is at; "ready" between operations
  tries,      \* connection attempts left in Initialize
  state,      \* argument of ActuateDoor
  open_coil,  \* fully_open_coil of GetDoorState, once read
  result,     \* last operation that returned, with its value
  visited,    \* history: positions of the door leaf during the operation
  refused     \* history: the slave answered this operation with an exception

door     == <<dpc, tries, state, open_coil, result>>
doorVars == <<vars, door, visited, refused>>

DoorPc == {"new", "ready", "written", "readback", "openRead", "closeRead",
           "checked"}
Results == [call: {"none", "ActuateDoor", "CheckConnection"}, value: BOOLEAN]
           \union [call: {"GetDoorState"}, value: 0 .. 4]

\* Where the leaf is: both sensors off is in between.
Position(m) == IF m[DOOR_OPEN_STATE] THEN "open"
               ELSE IF m[DOOR_CLOSE_STATE] THEN "closed" ELSE "between"

DoorInit ==
  /\ Init
  /\ ~(mem[DOOR_OPEN_STATE] /\ mem[DOOR_CLOSE_STATE])
  /\ ~mem[CHECK_COIL]
  /\ dpc = "new" /\ tries = Retries
  /\ state = FALSE /\ open_coil = FALSE
  /\ result = [call |-> "none", value |-> FALSE]
  /\ visited = {} /\ refused = FALSE

At(step) == dpc = step /\ Idle
UnchangedHistory == UNCHANGED <<visited, refused>>

(***************************************************************************)
(* Initialize: a wrong configuration or no attempt left gives up.  The     *)
(* adapter ignores the result, so a door that never connected is used all  *)
(* the same.                                                               *)
(***************************************************************************)
\* The condition of the loop in Initialize.
AttemptLeft == tries > 0

InitializeConnects ==
  /\ At("new") /\ AttemptLeft
  /\ ConnectSucceeds
  /\ dpc' = "ready"
  /\ UNCHANGED <<tries, state, open_coil, result>> /\ UnchangedHistory

InitializeRetries ==
  /\ At("new") /\ AttemptLeft
  /\ ConnectFails
  /\ tries' = tries - 1
  /\ UNCHANGED <<dpc, state, open_coil, result>> /\ UnchangedHistory

InitializeGivesUp ==
  /\ At("new") /\ tries \in {0, Retries}
  /\ dpc' = "ready"
  /\ UNCHANGED <<vars, tries, state, open_coil, result>> /\ UnchangedHistory

\* A Modbus call for one coil, or the SIGPIPE it may run into.
DoorCall(f, a, v) == NotConnected(f, a, v) \/ Send(f, a, v) \/ SendKills

Return(c, x) ==
  /\ result' = [call |-> c, value |-> x]
  /\ dpc' = "ready" /\ open_coil' = FALSE
  /\ UNCHANGED <<vars, tries, state>> /\ UnchangedHistory

\* An operation begins; it is only begun when the bound of the model on the
\* number of requests leaves room for the two requests it may need.
Begin ==
  /\ m_msg_id < MaxCalls
  /\ visited' = {Position(mem)} /\ refused' = FALSE
  /\ UNCHANGED <<tries, open_coil, result>>

\* Mutant of Failed: the test is for another of the client's error codes.
Failed_OtherCode == ret = EX_BAD_DATA

\* The one return code of a Modbus call the door tests for.
Failed == ret = BAD_CON

(***************************************************************************)
(* ActuateDoor: write the coil, read it back.                              *)
(***************************************************************************)
ActuateDoor(s) ==
  /\ At("ready")
  /\ DoorCall(WRITE_COIL, DOOR_ACTUATE, s)
  /\ state' = s /\ dpc' = "written"
  /\ Begin

ActuateWriteFailed ==
  /\ At("written") /\ Failed
  /\ Return("ActuateDoor", FALSE)

ActuateReadBack ==
  /\ At("written") /\ ~Failed
  /\ DoorCall(READ_COILS, DOOR_ACTUATE, NoValue)
  /\ dpc' = "readback"
  /\ UNCHANGED <<tries, state, open_coil, result>> /\ UnchangedHistory

\* What ActuateDoor returns after the read.
ActuateResult == ~Failed /\ buffer = state

ActuateReturns ==
  /\ At("readback")
  /\ Return("ActuateDoor", ActuateResult)

(***************************************************************************)
(* GetDoorState: read the open sensor, then the closed sensor.             *)
(***************************************************************************)
GetDoorState ==
  /\ At("ready")
  /\ DoorCall(READ_COILS, DOOR_OPEN_STATE, NoValue)
  /\ dpc' = "openRead"
  /\ UNCHANGED state
  /\ Begin

StateReadFailed ==
  /\ At("openRead") /\ Failed
  /\ Return("GetDoorState", OFFLINE)

StateReadClose ==
  /\ At("openRead") /\ ~Failed
  /\ DoorCall(READ_COILS, DOOR_CLOSE_STATE, NoValue)
  /\ open_coil' = buffer
  /\ dpc' = "closeRead"
  /\ UNCHANGED <<tries, state, result>> /\ UnchangedHistory

\* The three branches of GetDoorState test one condition, so OPEN and CLOSED
\* are never returned.
StateOf(o, c) == IF ~o /\ c THEN MOVING ELSE UNKNOWN

StateReturns ==
  /\ At("closeRead")
  /\ Return("GetDoorState",
            IF Failed THEN OFFLINE ELSE StateOf(open_coil, buffer))

(***************************************************************************)
(* CheckConnection                                                         *)
(***************************************************************************)
CheckConnection ==
  /\ At("ready")
  /\ DoorCall(READ_COILS, CHECK_COIL, NoValue)
  /\ dpc' = "checked"
  /\ UNCHANGED state
  /\ Begin

CheckReturns ==
  /\ At("checked")
  /\ Return("CheckConnection", Failed)

\* ~TRLDoorInterface closes the connection.
Destroy ==
  /\ At("ready") /\ Close
  /\ UNCHANGED door /\ UnchangedHistory

(***************************************************************************)
(* Environment                                                             *)
(***************************************************************************)
DoorMoves ==
  /\ \E a \in {DOOR_OPEN_STATE, DOOR_CLOSE_STATE}, v \in Value : PlantMoves(a, v)
  /\ ~(mem'[DOOR_OPEN_STATE] /\ mem'[DOOR_CLOSE_STATE])
  /\ visited' = visited \union {Position(mem')}
  /\ UNCHANGED <<door, refused>>

SlaveAnswers ==
  /\ Serve
  /\ refused' = (refused \/ replies'[Len(replies')].exc)
  /\ UNCHANGED <<door, visited>>

ModbusReturns ==
  /\ ModbusReceive
  /\ UNCHANGED door /\ UnchangedHistory

ConnectionLost ==
  /\ PeerCloses \/ PeerResets
  /\ UNCHANGED door /\ UnchangedHistory

\* The statements of an operation in progress.
DoorStep ==
  \/ InitializeConnects \/ InitializeRetries \/ InitializeGivesUp
  \/ ActuateWriteFailed \/ ActuateReadBack \/ ActuateReturns
  \/ StateReadFailed \/ StateReadClose \/ StateReturns
  \/ CheckReturns

DoorNext ==
  \/ DoorStep \/ ModbusReturns
  \/ \E s \in BOOLEAN : ActuateDoor(s)
  \/ GetDoorState \/ CheckConnection \/ Destroy
  \/ DoorMoves \/ SlaveAnswers \/ ConnectionLost

\* The thread in an operation keeps running, and recv() has a timeout.
DoorFairness == WF_doorVars(DoorStep) /\ WF_doorVars(ModbusReturns)

DoorSpec == DoorInit /\ [][DoorNext]_doorVars /\ DoorFairness

(***************************************************************************)
(* Properties                                                              *)
(***************************************************************************)
\* Types of the door's own variables and of its Modbus object.
DoorTypeOK ==
  /\ TypeOK
  /\ dpc \in DoorPc /\ tries \in 0 .. Retries
  /\ state \in BOOLEAN /\ open_coil \in BOOLEAN /\ result \in Results
  /\ visited \subseteq {"open", "closed", "between"} /\ refused \in BOOLEAN

\* An operation has just returned and none has begun since.
Returned(c) == At("ready") /\ result.call = c

\* No reply of this operation was lost, late or an exception.
CleanCall == InStep /\ ~refused

\* Over a connection in step and without exceptions, ActuateDoor returns true
\* exactly because the slave's coil is in the commanded state, although the
\* write and the read back are two calls.
ActuateIsTruthful ==
  Returned("ActuateDoor") /\ CleanCall
    => result.value /\ mem[DOOR_ACTUATE] = state

\* The Modbus call the door waits for, or has just made.
CallInProgress ==
  /\ dpc = "new" => ~m_connected /\ result.call = "none"
  /\ pc = "waiting" => dpc \notin {"new", "ready"}
  /\ InStep =>
       /\ dpc = "written"   => op.func = WRITE_COIL /\ op.addr = DOOR_ACTUATE /\ op.val = state
       /\ dpc = "readback"  => op.func = READ_COILS /\ op.addr = DOOR_ACTUATE
       /\ dpc = "openRead"  => op.func = READ_COILS /\ op.addr = DOOR_OPEN_STATE
       /\ dpc = "closeRead" => op.func = READ_COILS /\ op.addr = DOOR_CLOSE_STATE
       /\ dpc = "checked"   => op.func = READ_COILS

\* The position in which a sensor is on.
SensorPosition(a) == IF a = DOOR_OPEN_STATE THEN "open" ELSE "closed"

\* Where the leaf is has been noted, and so has every value of the sensor that
\* is being read.
LeafSeen ==
  /\ InStep \/ dpc = "new" => ~(mem[DOOR_OPEN_STATE] /\ mem[DOOR_CLOSE_STATE])
  /\ InStep =>
       /\ dpc \notin {"new", "ready"} => Position(mem) \in visited
       /\ visited = {} => result.call = "none"
       /\ dpc \in {"openRead", "closeRead"}
            => \A v \in seen : \E p \in visited : v = (p = SensorPosition(op.addr))

\* Without exceptions every call succeeds, the coil keeps what was written to
\* it until it has been read back, and the open sensor's value is one it had.
CallsWork ==
  CleanCall =>
    /\ \A i \in 1 .. Len(replies) : ~replies[i].exc
    /\ dpc \notin {"new", "ready"} /\ Idle => Succeeded
    /\ dpc = "written" /\ (Idle \/ replies # <<>>) => mem[DOOR_ACTUATE] = state
    /\ dpc = "readback" => mem[DOOR_ACTUATE] = state /\ seen \subseteq {state}
    /\ dpc = "closeRead" => \E p \in visited : open_coil = (p = "open")

\* Over a connection in step and without exceptions, GetDoorState answers
\* MOVING only if the leaf was closed at some moment of the call, however the
\* leaf moves between the two reads; a leaf that is closed all along always
\* gives MOVING.
MovingMeansClosed ==
  Returned("GetDoorState") /\ CleanCall
    => /\ result.value = MOVING => "closed" \in visited
       /\ visited = {"closed"} => result.value = MOVING

\* The inductive invariant behind the two: together with StepInv it says what
\* each call of an operation contributes to its answer.
DoorInv == CallInProgress /\ LeafSeen /\ CallsWork
           /\ ActuateIsTruthful /\ MovingMeansClosed

\* A door whose Initialize failed is used by the adapter all the same
\* (TRLIotCoreAdapter.cpp:27): GetDoorState and ActuateDoor, the two the adapter
\* calls, then report the failure.  Nothing is claimed of CheckConnection, which
\* answers "1 if connection is alive" (TRLDoorInterface.hpp:74) for such a door:
\* TRLDoorInterface.cpp:117 tests the opposite.
UnconnectedIsReported ==
  ~m_connected => /\ Returned("GetDoorState") => result.value = OFFLINE
                  /\ Returned("ActuateDoor") => ~result.value

\* Every operation ends, with silent peers too, unless SIGPIPE ends the process.
OperationEnds == dpc # "ready" ~> (dpc = "ready" \/ pc = "killed")

\* TRLDoorInterface.hpp:68: "0 = closed, 1 = moving, 2 = open".  A leaf at rest
\* during the whole of a call without faults is reported as it is.
StateIsReported ==
  Returned("GetDoorState") /\ CleanCall
    => /\ visited = {"closed"} => result.value = CLOSED
       /\ visited = {"open"} => result.value = OPEN

=============================================================================
