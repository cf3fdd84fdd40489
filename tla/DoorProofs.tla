----------------------------- MODULE DoorProofs ------------------------------
(***************************************************************************)
(* Theorems about a door, for any number of attempts and of calls: its     *)
(* Modbus object behaves as class modbus does, so that what is proved of   *)
(* the client holds of it, and its answers are true of coil and leaf.      *)
(***************************************************************************)
EXTENDS TRLDoorInterface, ModbusProofs

LEMMA DoorConstants ==
  /\ Value = BOOLEAN /\ Func = {READ_COILS, WRITE_COIL}
  /\ {DOOR_OPEN_STATE, DOOR_CLOSE_STATE, DOOR_ACTUATE, CHECK_COIL} = Address
  /\ DOOR_OPEN_STATE # DOOR_CLOSE_STATE /\ DOOR_ACTUATE # DOOR_OPEN_STATE
  /\ DOOR_ACTUATE # DOOR_CLOSE_STATE
  /\ Retries \in Nat /\ NoValue \in BOOLEAN
  /\ READ_COILS \in Reads /\ WRITE_COIL \in Writes /\ WRITE_COIL # WRITE_REG
  /\ READ_COILS \notin Writes /\ WRITE_COIL \notin Reads
  /\ READ_INPUT_BITS \notin Func /\ BAD_CON # 0
BY DoorAssumption, DefaultsTyped DEF Reads, BitReads, Writes, READ_COILS,
   READ_INPUT_BITS, READ_REGS, READ_INPUT_REGS, WRITE_COIL, WRITE_REG, WRITE_COILS,
   WRITE_REGS, DOOR_OPEN_STATE, DOOR_CLOSE_STATE, DOOR_ACTUATE, BAD_CON

\* A Modbus call of the door is one of the client's.
LEMMA DoorCallIsCall ==
  ASSUME NEW f \in Func, NEW a \in Address, NEW v \in Operand(f), DoorCall(f, a, v)
  PROVE  Next
BY DEF DoorCall, Next, Call

LEMMA DoorOperands ==
  /\ \A s \in BOOLEAN : s \in Operand(WRITE_COIL)
  /\ NoValue \in Operand(READ_COILS)
BY DoorConstants DEF Operand

\* Every step of the door is a step of its Modbus object or leaves it alone.
LEMMA DoorStepIsModbusStep ==
  ASSUME [DoorNext]_doorVars
  PROVE  [Next]_vars
<1> USE DoorConstants, DoorOperands
<1>1. CASE UNCHANGED doorVars
  BY <1>1 DEF doorVars
<1>2. CASE InitializeConnects \/ InitializeRetries \/ Destroy
  BY <1>2 DEF InitializeConnects, InitializeRetries, Destroy, Next, ModbusConnect
<1>3. CASE \/ InitializeGivesUp \/ ActuateWriteFailed \/ ActuateReturns
           \/ StateReadFailed \/ StateReturns \/ CheckReturns
  BY <1>3 DEF InitializeGivesUp, ActuateWriteFailed, ActuateReturns,
              StateReadFailed, StateReturns, CheckReturns, Return
<1>4. ASSUME NEW s \in BOOLEAN, ActuateDoor(s) PROVE Next
  BY <1>4, DoorCallIsCall DEF ActuateDoor
<1>5. CASE GetDoorState \/ CheckConnection \/ ActuateReadBack \/ StateReadClose
  BY <1>5, DoorCallIsCall DEF GetDoorState, CheckConnection, ActuateReadBack,
                              StateReadClose
<1>6. CASE ModbusReturns \/ SlaveAnswers \/ ConnectionLost
  BY <1>6 DEF ModbusReturns, SlaveAnswers, ConnectionLost, Next, Environment
<1>7. CASE DoorMoves
  BY <1>7 DEF DoorMoves, Next, Environment
<1> QED  BY <1>1, <1>2, <1>3, <1>4, <1>5, <1>6, <1>7 DEF DoorNext, DoorStep

\* The door's Modbus object is an instance of the client of Modbus: it starts
\* like one and every step of the door is a step of it or a stutter.
THEOREM DoorUsesModbus == DoorSpec => Init /\ [][Next]_vars
<1>1. DoorInit => Init
  BY DEF DoorInit
<1> QED  BY <1>1, DoorStepIsModbusStep, PTL DEF DoorSpec

LEMMA DoorClient == DoorSpec => [](TypeOK /\ StepInv)
BY DoorUsesModbus, TypeAtStart, TypeStep, StepInvAtStart, StepInvStep, PTL

(***************************************************************************)
(* Types                                                                   *)
(***************************************************************************)
LEMMA ResultsTyped ==
  /\ \A x \in BOOLEAN : /\ [call |-> "none", value |-> x] \in Results
                        /\ [call |-> "ActuateDoor", value |-> x] \in Results
                        /\ [call |-> "CheckConnection", value |-> x] \in Results
  /\ \A x \in 0 .. 4 : [call |-> "GetDoorState", value |-> x] \in Results
BY DEF Results

LEMMA DoorTypeAtStart ==
  ASSUME DoorInit
  PROVE  DoorTypeOK
<1>1. TypeOK
  BY TypeAtStart DEF DoorInit
<1>2. result \in Results
  BY ResultsTyped DEF DoorInit
<1>3. tries \in 0 .. Retries
  BY DoorAssumption DEF DoorInit
<1>4. /\ dpc \in DoorPc /\ state \in BOOLEAN /\ open_coil \in BOOLEAN
      /\ visited = {} /\ refused \in BOOLEAN
  BY DEF DoorInit, DoorPc
<1> QED  BY <1>1, <1>2, <1>3, <1>4 DEF DoorTypeOK

LEMMA DoorTypeStep ==
  ASSUME DoorTypeOK, [DoorNext]_doorVars
  PROVE  DoorTypeOK'
<1> USE DoorConstants
<1>1. TypeOK'
  BY DoorStepIsModbusStep, TypeStep DEF DoorTypeOK
<1>2. buffer \in BOOLEAN /\ Failed \in BOOLEAN
  BY DEF DoorTypeOK, TypeOK, ClientTypeOK, Failed
<1>3. \A m : Position(m) \in {"open", "closed", "between"}
  BY DEF Position
<1> DEFINE Rest == /\ dpc \in DoorPc /\ tries \in 0 .. Retries
                   /\ state \in BOOLEAN /\ open_coil \in BOOLEAN
                   /\ result \in Results
                   /\ visited \subseteq {"open", "closed", "between"}
                   /\ refused \in BOOLEAN
<1>4. Rest
  BY DEF DoorTypeOK
<1>5. SUFFICES Rest'
  BY <1>1 DEF DoorTypeOK
<1>6. CASE UNCHANGED doorVars
  BY <1>4, <1>6 DEF doorVars, door
<1>7. CASE InitializeConnects \/ InitializeRetries \/ InitializeGivesUp \/ Destroy
  <2>1. dpc' \in DoorPc /\ UNCHANGED <<state, open_coil, result, visited, refused>>
    BY <1>4, <1>7 DEF InitializeConnects, InitializeRetries, InitializeGivesUp,
                      Destroy, DoorPc, UnchangedHistory, door
  <2>2. CASE InitializeRetries
    <3>1. tries > 0 /\ tries' = tries - 1
      BY <2>2 DEF InitializeRetries, AttemptLeft
    <3>2. tries' \in 0 .. Retries
      BY <1>4, <3>1, DoorAssumption
    <3> QED  BY <1>4, <2>1, <3>2
  <2>3. CASE InitializeConnects \/ InitializeGivesUp \/ Destroy
    <3>1. tries' = tries
      BY <2>3 DEF InitializeConnects, InitializeGivesUp, Destroy, door
    <3> QED  BY <1>4, <2>1, <3>1
  <2> QED  BY <1>7, <2>2, <2>3
<1>8. ASSUME NEW c, NEW x, [call |-> c, value |-> x] \in Results, Return(c, x)
      PROVE  Rest'
  BY <1>4, <1>8 DEF Return, UnchangedHistory, DoorPc
<1>9. CASE ActuateWriteFailed \/ ActuateReturns \/ CheckReturns
  <2>1. ActuateResult \in BOOLEAN
    BY <1>2 DEF ActuateResult
  <2> QED  BY <1>2, <1>8, <1>9, <2>1, ResultsTyped
             DEF ActuateWriteFailed, ActuateReturns, CheckReturns
<1>10. CASE StateReadFailed \/ StateReturns
  <2>1. /\ OFFLINE \in 0 .. 4
        /\ (IF Failed THEN OFFLINE ELSE StateOf(open_coil, buffer)) \in 0 .. 4
    BY DEF StateOf, OFFLINE, MOVING, UNKNOWN
  <2> QED  BY <1>8, <1>10, <2>1, ResultsTyped DEF StateReadFailed, StateReturns
<1>11. ASSUME NEW s \in BOOLEAN, ActuateDoor(s) PROVE Rest'
  BY <1>3, <1>4, <1>11 DEF ActuateDoor, Begin, DoorPc
<1>12. CASE GetDoorState \/ CheckConnection
  BY <1>3, <1>4, <1>12 DEF GetDoorState, CheckConnection, Begin, DoorPc
<1>13. CASE ActuateReadBack \/ StateReadClose
  BY <1>2, <1>4, <1>13 DEF ActuateReadBack, StateReadClose, UnchangedHistory, DoorPc
<1>14. CASE ModbusReturns \/ ConnectionLost
  BY <1>4, <1>14 DEF ModbusReturns, ConnectionLost, UnchangedHistory, door
<1>15. CASE SlaveAnswers
  <2>1. replies \in Seq(Reply)
    BY DEF DoorTypeOK, TypeOK, ChannelTypeOK
  <2>2. replies' \in Seq(Reply) /\ replies' # <<>>
    BY <1>1, <1>15, <2>1 DEF SlaveAnswers, Serve, TypeOK, ChannelTypeOK
  <2>3. Len(replies') \in 1 .. Len(replies')
    BY <2>2, EmptySeq
  <2>4. replies'[Len(replies')] \in Reply
    BY <2>2, <2>3, ElementOfSeq
  <2>5. replies'[Len(replies')].exc \in BOOLEAN
    BY <2>4 DEF Reply
  <2> QED  BY <1>4, <1>15, <2>5 DEF SlaveAnswers, door
<1>16. CASE DoorMoves
  BY <1>3, <1>4, <1>16 DEF DoorMoves, door
<1> QED  BY <1>6, <1>7, <1>8, <1>9, <1>10, <1>11, <1>12, <1>13, <1>14, <1>15, <1>16
            DEF DoorNext, DoorStep

\* The types of the door's state and of its Modbus object.
THEOREM DoorTyping == DoorSpec => []DoorTypeOK
BY DoorTypeAtStart, DoorTypeStep, PTL DEF DoorSpec

(***************************************************************************)
(* The answers of a door                                                   *)
(***************************************************************************)
LEMMA DoorInvAtStart ==
  ASSUME DoorInit
  PROVE  DoorInv
<1>1. ~InStep /\ pc = "idle" /\ dpc = "new" /\ ~m_connected /\ result.call = "none"
      /\ ~(mem[DOOR_OPEN_STATE] /\ mem[DOOR_CLOSE_STATE])
  BY DEF DoorInit, Init, InStep
<1> QED  BY <1>1 DEF DoorInv, CallInProgress, LeafSeen, CallsWork, CleanCall,
                     ActuateIsTruthful, MovingMeansClosed, Returned, At

\* What the parts of the invariant say of a state that is not in step.
LEMMA OutOfStep ==
  ASSUME ~InStep',
         dpc' = "new" => /\ ~m_connected' /\ result'.call = "none"
                         /\ ~(mem[DOOR_OPEN_STATE] /\ mem[DOOR_CLOSE_STATE])',
         pc' = "waiting" => dpc' \notin {"new", "ready"}
  PROVE  DoorInv'
BY DEF DoorInv, CallInProgress, LeafSeen, CallsWork, CleanCall, ActuateIsTruthful,
       MovingMeansClosed

\* A call of the door starts with nothing under way and one value seen.
LEMMA DoorCallStarts ==
  ASSUME StepInv, NEW f, NEW a, NEW v, DoorCall(f, a, v)
  PROVE  /\ Idle /\ UNCHANGED mem
         /\ \/ ~InStep'
            \/ /\ InStep /\ pc' = "waiting" /\ replies' = <<>>
               /\ op'.func = f /\ op'.addr = a /\ op'.val = v
               /\ seen' = {mem[a]}
<1>1. CASE NotConnected(f, a, v)
  <2>1. sock # "open" /\ sock' = sock
    BY <1>1 DEF NotConnected, StepInv, BeforeConnect, network
  <2> QED  BY <1>1, <2>1 DEF NotConnected, InStep
<1>2. CASE SendKills
  BY <1>2 DEF SendKills, network, InStep
<1>3. CASE Send(f, a, v)
  <2>1. Idle /\ mem' = mem /\ late' = late /\ pc' = "waiting" /\ replies' = replies
        /\ op' = [id |-> m_msg_id, func |-> f, addr |-> a, val |-> v]
        /\ seen' = {mem[a]} /\ (sock' = "open" => sock = "open")
    BY <1>3 DEF Send, AfterSend
  <2>2. InStep => replies = <<>>
    BY <2>1 DEF StepInv, OneFrame, Idle
  <2> QED  BY <2>1, <2>2 DEF InStep
<1> QED  BY <1>1, <1>2, <1>3 DEF DoorCall

\* The leaf is noted where it is when an operation begins.
LEMMA SensorTruth ==
  ASSUME ~(mem[DOOR_OPEN_STATE] /\ mem[DOOR_CLOSE_STATE]),
         mem[DOOR_OPEN_STATE] \in BOOLEAN, mem[DOOR_CLOSE_STATE] \in BOOLEAN
  PROVE  /\ mem[DOOR_OPEN_STATE] = (Position(mem) = SensorPosition(DOOR_OPEN_STATE))
         /\ mem[DOOR_CLOSE_STATE] = (Position(mem) = SensorPosition(DOOR_CLOSE_STATE))
BY DoorConstants DEF Position, SensorPosition

LEMMA SensorsTyped ==
  ASSUME DoorTypeOK
  PROVE  mem[DOOR_OPEN_STATE] \in BOOLEAN /\ mem[DOOR_CLOSE_STATE] \in BOOLEAN
BY DoorConstants DEF DoorTypeOK, TypeOK, HistoryTypeOK

LEMMA DoorInvBegin ==
  ASSUME DoorTypeOK, StepInv, DoorInv,
         (\E s \in BOOLEAN : ActuateDoor(s)) \/ GetDoorState \/ CheckConnection
  PROVE  DoorInv'
<1> USE DoorConstants
<1>1. /\ dpc = "ready" /\ dpc' \in {"written", "openRead", "checked"}
      /\ visited' = {Position(mem)} /\ refused' = FALSE
  BY DEF ActuateDoor, GetDoorState, CheckConnection, Begin, At
<1>2. PICK f, a, v :
        /\ DoorCall(f, a, v)
        /\ \/ /\ dpc' = "written" /\ f = WRITE_COIL /\ a = DOOR_ACTUATE /\ v = state'
           \/ dpc' = "openRead" /\ f = READ_COILS /\ a = DOOR_OPEN_STATE
           \/ dpc' = "checked" /\ f = READ_COILS
  BY DEF ActuateDoor, GetDoorState, CheckConnection
<1>3. CASE ~InStep'
  BY <1>1, <1>3, OutOfStep
<1>4. CASE InStep'
  <2>1. /\ InStep /\ pc' = "waiting" /\ replies' = <<>> /\ mem' = mem
        /\ op'.func = f /\ op'.addr = a /\ op'.val = v /\ seen' = {mem[a]}
    BY <1>2, <1>4, DoorCallStarts
  <2>2. /\ ~(mem[DOOR_OPEN_STATE] /\ mem[DOOR_CLOSE_STATE])
        /\ mem[DOOR_OPEN_STATE] = (Position(mem) = SensorPosition(DOOR_OPEN_STATE))
    BY <2>1, SensorTruth, SensorsTyped DEF DoorInv, LeafSeen
  <2>3. CallInProgress'
    BY <1>1, <1>2, <2>1 DEF CallInProgress
  <2>4. LeafSeen'
    BY <1>1, <1>2, <2>1, <2>2 DEF LeafSeen
  <2>5. ~Idle' /\ Len(replies') = 0
    BY <2>1, EmptySeq DEF Idle
  <2>6. CallsWork' /\ ActuateIsTruthful' /\ MovingMeansClosed'
    BY <1>1, <2>1, <2>5 DEF CallsWork, ActuateIsTruthful, MovingMeansClosed,
                            Returned, At
  <2> QED  BY <2>3, <2>4, <2>6 DEF DoorInv
<1> QED  BY <1>3, <1>4

\* A call that has returned on a clean connection succeeded, and a read filled
\* the buffer with a value of its own call.
LEMMA CleanReturn ==
  ASSUME StepInv, DoorInv, CleanCall, Idle, dpc \notin {"new", "ready"}
  PROVE  /\ ~Failed /\ (op.func = READ_COILS => buffer \in seen)
<1>1. Succeeded /\ InStep
  BY DEF DoorInv, CallsWork, CleanCall
<1> QED  BY <1>1, DoorConstants DEF Succeeded, Failed, StepInv, ReadIsCurrent

LEMMA DoorInvSecondCall ==
  ASSUME DoorTypeOK, StepInv, DoorInv, ActuateReadBack \/ StateReadClose
  PROVE  DoorInv'
<1> USE DoorConstants
<1>1. /\ Idle /\ UNCHANGED <<visited, refused, result, state>>
      /\ \/ /\ dpc = "written" /\ dpc' = "readback"
            /\ DoorCall(READ_COILS, DOOR_ACTUATE, NoValue)
         \/ /\ dpc = "openRead" /\ dpc' = "closeRead" /\ open_coil' = buffer
            /\ DoorCall(READ_COILS, DOOR_CLOSE_STATE, NoValue)
  BY DEF ActuateReadBack, StateReadClose, At, UnchangedHistory
<1>2. PICK a \in {DOOR_ACTUATE, DOOR_CLOSE_STATE} :
        /\ DoorCall(READ_COILS, a, NoValue)
        /\ \/ dpc = "written" /\ dpc' = "readback" /\ a = DOOR_ACTUATE
           \/ /\ dpc = "openRead" /\ dpc' = "closeRead" /\ open_coil' = buffer
              /\ a = DOOR_CLOSE_STATE
  BY <1>1
<1>3. CASE ~InStep'
  BY <1>2, <1>3, OutOfStep
<1>4. CASE InStep'
  <2>1. /\ InStep /\ pc' = "waiting" /\ replies' = <<>> /\ mem' = mem
        /\ op'.func = READ_COILS /\ op'.addr = a /\ seen' = {mem[a]}
    BY <1>2, <1>4, DoorCallStarts
  <2>2. /\ ~(mem[DOOR_OPEN_STATE] /\ mem[DOOR_CLOSE_STATE])
        /\ mem[DOOR_CLOSE_STATE] = (Position(mem) = SensorPosition(DOOR_CLOSE_STATE))
        /\ Position(mem) \in visited
    BY <1>2, <2>1, SensorTruth, SensorsTyped DEF DoorInv, LeafSeen
  <2>3. CallInProgress'
    BY <1>2, <2>1 DEF CallInProgress
  <2>4. LeafSeen'
    BY <1>1, <1>2, <2>1, <2>2 DEF LeafSeen
  <2>5. ~Idle' /\ Len(replies') = 0
    BY <2>1, EmptySeq DEF Idle
  <2>6. CallsWork'
    <3>1. ASSUME CleanCall', dpc' = "readback"
          PROVE  mem[DOOR_ACTUATE] = state /\ a = DOOR_ACTUATE
      BY <1>1, <1>2, <2>1, <3>1 DEF DoorInv, CallsWork, CleanCall
    <3>2. ASSUME CleanCall', dpc' = "closeRead"
          PROVE  \E p \in visited : buffer = (p = "open")
      <4>1. CleanCall /\ dpc = "openRead"
        BY <1>1, <1>2, <2>1, <3>2 DEF CleanCall
      <4>2. op.func = READ_COILS /\ op.addr = DOOR_OPEN_STATE
        BY <2>1, <4>1 DEF DoorInv, CallInProgress
      <4>3. buffer \in seen
        BY <1>1, <4>1, <4>2, CleanReturn
      <4> QED  BY <2>1, <4>1, <4>2, <4>3 DEF DoorInv, LeafSeen, SensorPosition
    <3> QED  BY <1>1, <1>2, <2>1, <2>5, <3>1, <3>2 DEF CallsWork
  <2>7. ActuateIsTruthful' /\ MovingMeansClosed'
    BY <2>5 DEF ActuateIsTruthful, MovingMeansClosed, Returned, At
  <2> QED  BY <2>3, <2>4, <2>6, <2>7 DEF DoorInv
<1> QED  BY <1>3, <1>4

\* An operation returns: on a clean connection its answer is the one that the
\* values read call for.
LEMMA DoorInvReturns ==
  ASSUME StepInv, DoorInv, DoorTypeOK,
         \/ ActuateWriteFailed \/ ActuateReturns
         \/ StateReadFailed \/ StateReturns \/ CheckReturns
  PROVE  DoorInv'
<1> USE DoorConstants
<1>1. /\ UNCHANGED <<vars, state, visited, refused>>
      /\ dpc' = "ready" /\ Idle /\ dpc \notin {"new", "ready"}
  BY DEF ActuateWriteFailed, ActuateReturns, StateReadFailed, StateReturns,
         CheckReturns, Return, At, UnchangedHistory
<1>2. pc' = pc /\ pc = "idle" /\ mem' = mem /\ replies' = replies
      /\ (InStep' <=> InStep) /\ (CleanCall' <=> CleanCall)
  BY <1>1 DEF vars, client, network, history, InStep, CleanCall, Idle
<1>3. CallInProgress'
  BY <1>1, <1>2 DEF CallInProgress
<1>4. LeafSeen'
  BY <1>1, <1>2 DEF DoorInv, LeafSeen
<1>5. CallsWork'
  BY <1>1, <1>2 DEF DoorInv, CallsWork
<1>6. ActuateIsTruthful'
  <2> SUFFICES ASSUME CleanCall, result'.call = "ActuateDoor"
               PROVE  result'.value /\ mem[DOOR_ACTUATE] = state
    BY <1>1, <1>2 DEF ActuateIsTruthful, Returned
  <2>1. ~Failed /\ InStep
    BY <1>1, CleanReturn DEF CleanCall
  <2>2. ActuateReturns
    BY <2>1 DEF ActuateWriteFailed, StateReadFailed, StateReturns, CheckReturns,
                Return
  <2>3. dpc = "readback" /\ result'.value = ActuateResult
    BY <2>2 DEF ActuateReturns, At, Return
  <2>4. mem[DOOR_ACTUATE] = state /\ seen \subseteq {state}
    BY <2>3 DEF DoorInv, CallsWork
  <2>5. buffer \in seen
    BY <1>1, <2>1, <2>3, CleanReturn DEF DoorInv, CallInProgress
  <2> QED  BY <2>1, <2>3, <2>4, <2>5 DEF ActuateResult
<1>7. MovingMeansClosed'
  <2> SUFFICES ASSUME CleanCall, result'.call = "GetDoorState"
               PROVE  /\ result'.value = MOVING => "closed" \in visited
                      /\ visited = {"closed"} => result'.value = MOVING
    BY <1>1, <1>2 DEF MovingMeansClosed, Returned
  <2>1. ~Failed /\ InStep
    BY <1>1, CleanReturn DEF CleanCall
  <2>2. StateReturns
    BY <2>1 DEF ActuateWriteFailed, StateReadFailed, ActuateReturns, CheckReturns,
                Return
  <2>3. dpc = "closeRead" /\ result'.value = StateOf(open_coil, buffer)
    BY <2>1, <2>2 DEF StateReturns, At, Return
  <2>4. op.func = READ_COILS /\ op.addr = DOOR_CLOSE_STATE
    BY <2>1, <2>3 DEF DoorInv, CallInProgress
  <2>5. \E p \in visited : buffer = (p = "closed")
    BY <1>1, <2>1, <2>3, <2>4, CleanReturn DEF DoorInv, LeafSeen, SensorPosition
  <2>6. \E p \in visited : open_coil = (p = "open")
    BY <2>3 DEF DoorInv, CallsWork
  <2>7. result'.value = MOVING <=> ~open_coil /\ buffer
    BY <2>3 DEF StateOf, MOVING, UNKNOWN
  <2>8. ASSUME buffer PROVE "closed" \in visited
    BY <2>5, <2>8
  <2>9. ASSUME visited = {"closed"} PROVE ~open_coil /\ buffer
    <3>1. buffer = ("closed" = "closed") /\ open_coil = ("closed" = "open")
      BY <2>5, <2>6, <2>9
    <3> QED  BY <3>1
  <2> QED  BY <2>7, <2>8, <2>9
<1> QED  BY <1>3, <1>4, <1>5, <1>6, <1>7 DEF DoorInv

\* A recv() that returns data on a clean connection makes the call succeed.
LEMMA DoorInvReceives ==
  ASSUME DoorTypeOK, StepInv, StepInv', DoorInv, ModbusReturns
  PROVE  DoorInv'
<1> USE DoorConstants
<1>1. /\ pc = "waiting" /\ pc' = "idle" /\ UNCHANGED <<door, visited, refused>>
      /\ UNCHANGED <<m_connected, m_msg_id, op, sock, mem, seen>>
  BY DEF ModbusReturns, UnchangedHistory, ModbusReceive, Receive, EndOfStream,
         ReceiveFails, Finish, network
<1>2. dpc' = dpc /\ dpc \notin {"new", "ready"} /\ state' = state
      /\ open_coil' = open_coil /\ result' = result
  BY <1>1 DEF DoorInv, CallInProgress, door
<1>3. CASE ~InStep'
  BY <1>1, <1>2, <1>3, OutOfStep
<1>4. CASE InStep'
  <2>1. InStep /\ Receive
    BY <1>4 DEF ModbusReturns, ModbusReceive, InStep, EndOfStream, ReceiveFails,
                Receive, network
  <2>2. CallInProgress'
    BY <1>1, <1>2, <2>1 DEF DoorInv, CallInProgress
  <2>3. LeafSeen'
    BY <1>1, <1>2, <2>1 DEF DoorInv, LeafSeen
  <2>4. replies' = <<>> /\ Len(replies') = 0
    BY <1>1, <1>4, EmptySeq DEF StepInv, OneFrame
  <2>5. Len(replies) \in Nat /\ Len(replies) > 0
    BY <2>1, LenProperties DEF Receive, DoorTypeOK, TypeOK, ChannelTypeOK
  <2>6. Len(replies) = 1 /\ replies # <<>>
    BY <1>1, <2>1, <2>5, EmptySeq DEF StepInv, OneFrame
  <2>7. ASSUME CleanCall' PROVE CleanCall /\ Succeeded'
    <3>1. CleanCall
      BY <1>1, <2>1, <2>7 DEF CleanCall
    <3>2. ~replies[1].exc
      BY <2>6, <3>1 DEF DoorInv, CallsWork
    <3>3. op.func \in Func /\ op.id # 0
      BY <1>1 DEF DoorTypeOK, TypeOK, ClientTypeOK, Request, StepInv, ValueSeen
    <3>4. err' = Recognised(replies[1], op.func) /\ ret' = 0
      <4>1. Finish(replies[1])
        BY <2>1 DEF Receive
      <4>2. op.func # READ_INPUT_BITS
        BY <3>3
      <4> QED  BY <4>1, <4>2 DEF Finish
    <3>5. ~Recognised(replies[1], op.func)
      BY <3>2 DEF Recognised
    <3>6. ~err'
      BY <3>4, <3>5
    <3> QED  BY <1>1, <3>1, <3>3, <3>4, <3>6 DEF Succeeded, Idle
  <2>8. CallsWork'
    BY <1>1, <1>2, <2>4, <2>6, <2>7 DEF DoorInv, CallsWork
  <2>9. ActuateIsTruthful' /\ MovingMeansClosed'
    BY <1>2 DEF ActuateIsTruthful, MovingMeansClosed, Returned, At
  <2> QED  BY <2>2, <2>3, <2>8, <2>9 DEF DoorInv
<1> QED  BY <1>3, <1>4

\* The slave carries out the one request under way: only a write of the coil
\* changes its memory.
LEMMA DoorInvServed ==
  ASSUME DoorTypeOK, StepInv, StepInv', DoorInv, SlaveAnswers
  PROVE  DoorInv'
<1> USE DoorConstants
<1>1. /\ UNCHANGED <<client, late, sock, door, visited>>
      /\ sock = "open" /\ requests # <<>> /\ seen' = seen \union {mem'[op.addr]}
  BY DEF SlaveAnswers, Serve
<1>2. /\ pc' = pc /\ op' = op /\ dpc' = dpc /\ state' = state /\ result' = result
      /\ open_coil' = open_coil /\ m_connected' = m_connected
      /\ (InStep' <=> InStep)
  BY <1>1 DEF client, door, InStep
<1>3. CASE ~InStep
  <2>1. dpc # "new"
    BY <1>1 DEF DoorInv, CallInProgress, StepInv, BeforeConnect
  <2> QED  BY <1>2, <1>3, <2>1, OutOfStep DEF DoorInv, CallInProgress
<1>4. CASE InStep
  <2>1. pc = "waiting" /\ requests = <<op>> /\ replies = <<>>
    BY <1>1, <1>4 DEF StepInv, OneFrame
  <2>2. dpc \notin {"new", "ready"}
    BY <2>1 DEF DoorInv, CallInProgress
  <2>3. Head(requests) = op
    BY <2>1
  <2>4. Len(replies') = 1
    BY <1>1, <1>2, <1>4, <2>1 DEF StepInv, OneFrame, Serve, SlaveAnswers
  <2>5. \/ mem' = mem /\ (op.func \in Writes => replies'[1].exc)
        \/ op.func \in Writes /\ mem' = [mem EXCEPT ![op.addr] = op.val]
    <3> DEFINE Answer(x, w) == [id |-> op.id, func |-> op.func, exc |-> x, val |-> w]
    <3>1. \/ replies' = Append(<<>>, Answer(TRUE, NoValue)) /\ mem' = mem
          \/ op.func \in Reads /\ mem' = mem
          \/ op.func \in Writes /\ mem' = [mem EXCEPT ![op.addr] = op.val]
      BY <2>1, <2>3 DEF SlaveAnswers, Serve
    <3>2. Append(<<>>, Answer(TRUE, NoValue))[1].exc
      OBVIOUS
    <3> QED  BY <3>1, <3>2, ReadOrWrite
  <2>6. op.func \in Writes => dpc = "written" /\ op.addr = DOOR_ACTUATE /\ op.val = state
    BY <1>4, <2>2 DEF DoorInv, CallInProgress, DoorTypeOK, DoorPc
  <2>7. /\ mem'[DOOR_OPEN_STATE] = mem[DOOR_OPEN_STATE]
        /\ mem'[DOOR_CLOSE_STATE] = mem[DOOR_CLOSE_STATE]
        /\ Position(mem') = Position(mem)
    <3>1. mem \in [Address -> Value]
      BY DEF DoorTypeOK, TypeOK, HistoryTypeOK
    <3>2. mem' = mem \/ mem' = [mem EXCEPT ![DOOR_ACTUATE] = op.val]
      BY <2>5, <2>6
    <3>3. /\ mem'[DOOR_OPEN_STATE] = mem[DOOR_OPEN_STATE]
          /\ mem'[DOOR_CLOSE_STATE] = mem[DOOR_CLOSE_STATE]
      BY <3>1, <3>2
    <3> QED  BY <3>3 DEF Position
  <2>8. /\ ~(mem[DOOR_OPEN_STATE] /\ mem[DOOR_CLOSE_STATE])
        /\ Position(mem) \in visited
        /\ mem[DOOR_OPEN_STATE] = (Position(mem) = SensorPosition(DOOR_OPEN_STATE))
        /\ mem[DOOR_CLOSE_STATE] = (Position(mem) = SensorPosition(DOOR_CLOSE_STATE))
    BY <1>4, <2>2, SensorTruth, SensorsTyped DEF DoorInv, LeafSeen
  <2>9. CallInProgress'
    BY <1>2 DEF DoorInv, CallInProgress
  <2>10. LeafSeen'
    <3>1. ASSUME dpc \in {"openRead", "closeRead"}
          PROVE  mem'[op.addr] = (Position(mem) = SensorPosition(op.addr))
      BY <1>4, <2>7, <2>8, <3>1 DEF DoorInv, CallInProgress
    <3>2. ASSUME dpc \in {"openRead", "closeRead"}, NEW v \in seen'
          PROVE  \E p \in visited : v = (p = SensorPosition(op.addr))
      BY <1>1, <1>4, <2>8, <3>1, <3>2 DEF DoorInv, LeafSeen
    <3> QED  BY <1>1, <1>2, <1>4, <2>7, <2>8, <3>2 DEF DoorInv, LeafSeen
  <2>11. ASSUME CleanCall' PROVE CleanCall /\ ~replies'[1].exc
    BY <1>2, <2>4, <2>11 DEF CleanCall, SlaveAnswers
  <2>12. CallsWork'
    <3>1. ASSUME CleanCall', dpc = "written" PROVE mem'[DOOR_ACTUATE] = state
      <4>1. op.func = WRITE_COIL /\ op.addr = DOOR_ACTUATE /\ op.val = state
        BY <1>4, <3>1 DEF DoorInv, CallInProgress
      <4>2. mem' = [mem EXCEPT ![DOOR_ACTUATE] = state]
        BY <2>5, <2>11, <3>1, <4>1
      <4> QED  BY <4>2 DEF DoorTypeOK, TypeOK, HistoryTypeOK
    <3>2. ASSUME CleanCall', dpc = "readback"
          PROVE  mem'[DOOR_ACTUATE] = state /\ seen' \subseteq {state}
      <4>1. op.func = READ_COILS /\ op.addr = DOOR_ACTUATE
        BY <1>4, <3>2 DEF DoorInv, CallInProgress
      <4>2. mem' = mem
        BY <2>5, <4>1
      <4>3. mem[DOOR_ACTUATE] = state /\ seen \subseteq {state}
        BY <2>11, <3>2 DEF DoorInv, CallsWork
      <4> QED  BY <1>1, <4>1, <4>2, <4>3
    <3>3. ASSUME CleanCall', dpc = "closeRead"
          PROVE  \E p \in visited : open_coil = (p = "open")
      BY <2>11, <3>3 DEF DoorInv, CallsWork
    <3> QED  BY <1>1, <1>2, <2>1, <2>4, <2>11, <3>1, <3>2, <3>3 DEF CallsWork, Idle
  <2>13. ActuateIsTruthful' /\ MovingMeansClosed'
    BY <1>2, <2>1 DEF ActuateIsTruthful, MovingMeansClosed, Returned, At, Idle
  <2> QED  BY <2>9, <2>10, <2>12, <2>13 DEF DoorInv
<1> QED  BY <1>3, <1>4

\* The leaf moves: its position and what its sensors show are noted.
LEMMA DoorInvMoves ==
  ASSUME DoorTypeOK, DoorTypeOK', StepInv, DoorInv, DoorMoves
  PROVE  DoorInv'
<1> USE DoorConstants
<1>1. PICK a \in {DOOR_OPEN_STATE, DOOR_CLOSE_STATE}, v \in Value : PlantMoves(a, v)
  BY DEF DoorMoves
<1>2. /\ UNCHANGED <<client, network, late, door, refused>>
      /\ mem' = [mem EXCEPT ![a] = v]
      /\ seen' = seen \union {mem'[op.addr]}
      /\ visited' = visited \union {Position(mem')}
      /\ ~(mem'[DOOR_OPEN_STATE] /\ mem'[DOOR_CLOSE_STATE])
  BY <1>1 DEF PlantMoves, DoorMoves
<1>3. /\ pc' = pc /\ op' = op /\ dpc' = dpc /\ state' = state /\ result' = result
      /\ open_coil' = open_coil /\ m_connected' = m_connected /\ replies' = replies
      /\ (InStep' <=> InStep) /\ (CleanCall' <=> CleanCall)
      /\ (Idle' <=> Idle) /\ (Succeeded' <=> Succeeded)
  BY <1>2 DEF client, network, door, InStep, CleanCall, Idle, Succeeded
<1>4. mem'[DOOR_ACTUATE] = mem[DOOR_ACTUATE]
  BY <1>2
<1>5. /\ mem'[DOOR_OPEN_STATE] = (Position(mem') = SensorPosition(DOOR_OPEN_STATE))
      /\ mem'[DOOR_CLOSE_STATE] = (Position(mem') = SensorPosition(DOOR_CLOSE_STATE))
  <2>1. mem'[DOOR_OPEN_STATE] \in BOOLEAN /\ mem'[DOOR_CLOSE_STATE] \in BOOLEAN
    BY DEF DoorTypeOK, TypeOK, HistoryTypeOK
  <2> QED  BY <1>2, <2>1 DEF Position, SensorPosition
<1>6. CallInProgress'
  BY <1>3 DEF DoorInv, CallInProgress
<1>7. LeafSeen'
  <2>1. ASSUME InStep, dpc \in {"openRead", "closeRead"}, NEW w \in seen'
        PROVE  \E p \in visited' : w = (p = SensorPosition(op.addr))
    <3>1. op.addr \in {DOOR_OPEN_STATE, DOOR_CLOSE_STATE}
      BY <2>1 DEF DoorInv, CallInProgress
    <3>2. CASE w \in seen
      BY <1>2, <2>1, <3>2 DEF DoorInv, LeafSeen
    <3>3. CASE w = mem'[op.addr]
      BY <1>2, <1>5, <3>1, <3>3
    <3> QED  BY <1>2, <2>1, <3>2, <3>3
  <2>2. /\ ~(mem'[DOOR_OPEN_STATE] /\ mem'[DOOR_CLOSE_STATE])
        /\ Position(mem') \in visited' /\ visited' # {}
    BY <1>2
  <2> QED  BY <1>3, <2>1, <2>2 DEF LeafSeen
<1>8. CallsWork'
  <2>1. ASSUME CleanCall, dpc = "readback"
        PROVE  mem'[DOOR_ACTUATE] = state /\ seen' \subseteq {state}
    <3>1. op.addr = DOOR_ACTUATE
      BY <2>1 DEF DoorInv, CallInProgress, CleanCall
    <3> QED  BY <1>2, <1>4, <2>1, <3>1 DEF DoorInv, CallsWork
  <2>2. ASSUME CleanCall, dpc = "closeRead"
        PROVE  \E p \in visited' : open_coil = (p = "open")
    BY <1>2, <2>2 DEF DoorInv, CallsWork
  <2> QED  BY <1>3, <1>4, <2>1, <2>2 DEF DoorInv, CallsWork
<1>9. ActuateIsTruthful'
  BY <1>3, <1>4 DEF DoorInv, ActuateIsTruthful, Returned, At
<1>10. MovingMeansClosed'
  <2>1. CleanCall /\ Returned("GetDoorState") => visited # {}
    BY DEF DoorInv, LeafSeen, CleanCall, Returned
  <2>2. visited # {} /\ visited' = {"closed"} => visited = {"closed"}
    BY <1>2
  <2> QED  BY <1>2, <1>3, <2>1, <2>2 DEF DoorInv, MovingMeansClosed, Returned, At
<1> QED  BY <1>6, <1>7, <1>8, <1>9, <1>10 DEF DoorInv

\* Connecting, giving up, closing and losing the connection.
LEMMA DoorInvConnection ==
  ASSUME DoorTypeOK, StepInv, DoorInv,
         \/ InitializeConnects \/ InitializeRetries \/ InitializeGivesUp
         \/ Destroy \/ ConnectionLost
  PROVE  DoorInv'
<1>1. CASE InitializeConnects
  <2>1. /\ dpc = "new" /\ dpc' = "ready" /\ pc = "idle" /\ pc' = pc /\ mem' = mem
        /\ result' = result /\ replies' = <<>> /\ result.call = "none"
    BY <1>1 DEF InitializeConnects, ConnectSucceeds, At, Idle, DoorInv, CallInProgress
  <2>2. Len(replies') = 0
    BY <2>1, EmptySeq
  <2> QED  BY <2>1, <2>2 DEF DoorInv, CallInProgress, LeafSeen, CallsWork,
                 ActuateIsTruthful, MovingMeansClosed, Returned
<1>2. CASE InitializeRetries
  <2>1. /\ dpc = "new" /\ dpc' = "new" /\ pc = "idle" /\ pc' = pc /\ mem' = mem
        /\ result' = result /\ m_connected' = m_connected /\ sock' = "none"
    BY <1>2 DEF InitializeRetries, ConnectFails, At, Idle, client
  <2> QED  BY <2>1, OutOfStep DEF DoorInv, CallInProgress, LeafSeen, InStep
<1>3. CASE InitializeGivesUp
  <2>1. dpc = "new" /\ dpc' = "ready" /\ pc = "idle" /\ pc' = pc /\ sock' = sock
    BY <1>3 DEF InitializeGivesUp, At, Idle, vars, client, network
  <2>2. sock # "open"
    BY <2>1 DEF DoorInv, CallInProgress, StepInv, BeforeConnect
  <2> QED  BY <2>1, <2>2, OutOfStep DEF InStep
<1>4. CASE Destroy
  <2>1. dpc' = "ready" /\ pc' = "destroyed" /\ sock' = "closed"
    BY <1>4 DEF Destroy, Close, At, door
  <2> QED  BY <2>1, OutOfStep DEF InStep
<1>5. CASE ConnectionLost
  <2>1. /\ dpc' = dpc /\ pc' = pc /\ mem' = mem /\ result' = result
        /\ m_connected' = m_connected /\ sock' # "open"
    BY <1>5 DEF ConnectionLost, PeerCloses, PeerResets, client, door
  <2> QED  BY <2>1, OutOfStep DEF DoorInv, CallInProgress, LeafSeen, InStep
<1> QED  BY <1>1, <1>2, <1>3, <1>4, <1>5

LEMMA DoorInvStep ==
  ASSUME DoorTypeOK, DoorTypeOK', StepInv, StepInv', DoorInv, [DoorNext]_doorVars
  PROVE  DoorInv'
<1>1. CASE UNCHANGED doorVars
  BY <1>1 DEF doorVars, vars, client, network, history, door, DoorInv,
     CallInProgress, LeafSeen, CallsWork, ActuateIsTruthful, MovingMeansClosed,
     Returned, At, Idle, InStep, CleanCall, Succeeded
<1> QED  BY <1>1, DoorInvBegin, DoorInvSecondCall, DoorInvReturns, DoorInvReceives,
            DoorInvServed, DoorInvMoves, DoorInvConnection DEF DoorNext, DoorStep

THEOREM DoorInvariance == DoorSpec => []DoorInv
BY DoorTyping, DoorClient, DoorInvAtStart, DoorInvStep, PTL DEF DoorSpec

\* Over a connection in step and without exceptions, ActuateDoor returns true,
\* and the slave's coil is in the commanded state when it does.
THEOREM ActuatesAreTruthful == DoorSpec => []ActuateIsTruthful
<1>1. DoorInv => ActuateIsTruthful
  BY DEF DoorInv
<1> QED  BY <1>1, DoorInvariance, PTL

\* Over such a connection MOVING is answered only of a leaf that was closed at
\* some moment of the call, and always of one that was closed all along.
THEOREM MovingDoorsWereClosed == DoorSpec => []MovingMeansClosed
<1>1. DoorInv => MovingMeansClosed
  BY DEF DoorInv
<1> QED  BY <1>1, DoorInvariance, PTL
\* What holds of a door that never connected: nothing is waited for, and the
\* first call of an operation in progress has failed.
Unreached ==
  ~m_connected =>
    /\ pc # "waiting" /\ dpc \notin {"readback", "closeRead"}
    /\ dpc \in {"written", "openRead"} => ret = BAD_CON
    /\ result.call = "GetDoorState" => result.value = OFFLINE
    /\ result.call = "ActuateDoor" => result.value = FALSE

\* A call of such a door.
LEMMA UnreachedCall ==
  ASSUME NEW f, NEW a, NEW v, DoorCall(f, a, v)
  PROVE  /\ m_connected' = m_connected
         /\ ~m_connected => ret' = BAD_CON /\ pc' = "idle"
BY DEF DoorCall, NotConnected, Send, SendKills, Idle

LEMMA UnreachedStep ==
  ASSUME Unreached, [DoorNext]_doorVars
  PROVE  Unreached'
<1> USE DEF Unreached
<1>1. CASE InitializeConnects
  BY <1>1 DEF InitializeConnects, ConnectSucceeds
<1>2. CASE InitializeRetries \/ InitializeGivesUp
  BY <1>2 DEF InitializeRetries, InitializeGivesUp, ConnectFails, client, vars, At
<1>3. ASSUME NEW s \in BOOLEAN, ActuateDoor(s) PROVE Unreached'
  BY <1>3, UnreachedCall DEF ActuateDoor, Begin
<1>4. CASE GetDoorState \/ CheckConnection
  BY <1>4, UnreachedCall DEF GetDoorState, CheckConnection, Begin
<1>5. CASE ActuateReadBack \/ StateReadClose
  BY <1>5, UnreachedCall DEF ActuateReadBack, StateReadClose, At, Failed
<1>6. CASE ActuateWriteFailed \/ ActuateReturns \/ StateReadFailed \/ StateReturns \/ CheckReturns
  BY <1>6 DEF ActuateWriteFailed, ActuateReturns, StateReadFailed, StateReturns, CheckReturns,
     Return, At, Idle, vars, client
<1>7. CASE Destroy
  BY <1>7 DEF Destroy, Close, door
<1>8. CASE DoorMoves \/ SlaveAnswers \/ ConnectionLost
  BY <1>8 DEF DoorMoves, PlantMoves, SlaveAnswers, Serve, ConnectionLost, PeerCloses, PeerResets,
     client, door
<1>9. CASE ModbusReturns
  <2>1. pc = "waiting" /\ m_connected' = m_connected
    BY <1>9 DEF ModbusReturns, ModbusReceive, Receive, Finish, EndOfStream, ReceiveFails
  <2> QED  BY <2>1
<1>10. CASE UNCHANGED doorVars
  BY <1>10 DEF doorVars, vars, client, door
<1> QED  BY <1>1, <1>2, <1>3, <1>4, <1>5, <1>6, <1>7, <1>8, <1>9, <1>10 DEF DoorNext, DoorStep

\* A door that never connected reports it by every operation, for any number of
\* attempts and operations.
THEOREM UnconnectedDoorsReport == DoorSpec => []UnconnectedIsReported
<1>1. DoorInit => Unreached
  BY DEF DoorInit, Init, Unreached
<1>2. Unreached => UnconnectedIsReported
  BY DEF Unreached, UnconnectedIsReported, Returned
<1> QED  BY <1>1, <1>2, UnreachedStep, PTL DEF DoorSpec
=============================================================================
