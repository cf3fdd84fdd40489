---------------------------- MODULE ModbusProofs ----------------------------
(***************************************************************************)
(* Proofs about Modbus, for any slave memory, any set of function codes    *)
(* and any number of calls.                                                *)
(***************************************************************************)
EXTENDS Modbus, SequenceTheorems, TLAPS

\* The default operand is a value and the initial request and reply are typed.
LEMMA DefaultsTyped ==
  NoValue \in Value /\ NoRequest \in Request
<1>1. NoValue \in Value
  BY ModbusAssumption DEF NoValue
<1>2. (CHOOSE f \in Func : TRUE) \in Func
  BY ModbusAssumption
<1>3. (CHOOSE a \in Address : TRUE) \in Address
  BY ModbusAssumption
<1>4. NoRequest \in Request
  BY <1>1, <1>2, <1>3 DEF NoRequest, Request
<1>5. QED  BY <1>1, <1>4

\* An operand is a value.
LEMMA OperandTyped ==
  ASSUME NEW f \in Func, NEW v \in Operand(f)
  PROVE  v \in Value
BY DefaultsTyped DEF Operand

\* No function code is both a read and a write.
LEMMA ReadOrWrite ==
  /\ Reads \cap Writes = {} /\ READ_INPUT_BITS \in Reads /\ WRITE_REG \in Writes
  /\ Func \subseteq Reads \union Writes
BY ModbusAssumption DEF Reads, BitReads, Writes, READ_COILS, READ_INPUT_BITS,
   READ_REGS, READ_INPUT_REGS, WRITE_COIL, WRITE_REG, WRITE_COILS, WRITE_REGS

\* Parsing a frame keeps the client's fields typed.
LEMMA FinishTyped ==
  ASSUME TypeOK, NEW r \in Reply, Finish(r)
  PROVE  /\ err' \in BOOLEAN /\ buffer' \in Value /\ ret' = 0 /\ pc' = "idle"
         /\ UNCHANGED <<m_connected, m_msg_id, op>>
<1>1. Decoded(r, op.func) \subseteq Value
  BY DEF Decoded, Reply
<1>2. Recognised(r, op.func) \in BOOLEAN
  BY DEF Recognised, Reply
<1>3. err' \in BOOLEAN /\ buffer' \in Value
  BY <1>1, <1>2, Zenon DEF Finish, TypeOK, ClientTypeOK
<1>4. QED  BY <1>3 DEF Finish

(***************************************************************************)
(* Types                                                                   *)
(***************************************************************************)
\* A call keeps the types.
LEMMA CallTyped ==
  ASSUME TypeOK, NEW f \in Func, NEW a \in Address, NEW v \in Operand(f),
         Call(f, a, v)
  PROVE  TypeOK'
<1> USE DEF TypeOK
<1>1. v \in Value
  BY OperandTyped
<1>2. mem[a] \in Value
  BY DEF HistoryTypeOK
<1>3. CASE NotConnected(f, a, v)
  <2>1. ClientTypeOK'
    BY <1>1, <1>3 DEF ClientTypeOK, NotConnected, SetBadCon, Request
  <2>2. ChannelTypeOK'
    BY <1>3 DEF ChannelTypeOK, NotConnected, network
  <2>3. HistoryTypeOK'
    BY <1>2, <1>3 DEF HistoryTypeOK, NotConnected
  <2>4. QED  BY <2>1, <2>2, <2>3
<1>4. CASE BadInput(f, a, v)
  <2>1. ClientTypeOK'
    BY <1>1, <1>4 DEF ClientTypeOK, BadInput, Request
  <2>2. ChannelTypeOK'
    BY <1>4 DEF ChannelTypeOK, BadInput, network
  <2>3. HistoryTypeOK'
    BY <1>2, <1>4 DEF HistoryTypeOK, BadInput
  <2>4. QED  BY <2>1, <2>2, <2>3
<1>5. CASE Send(f, a, v)
  <2>1. ClientTypeOK'
    BY <1>1, <1>5 DEF ClientTypeOK, Send, AfterSend, Request
  <2>2. [id |-> m_msg_id, func |-> f, addr |-> a, val |-> v] \in Request
    BY <1>1 DEF ClientTypeOK, Request
  <2>3. ChannelTypeOK'
    <3>1. op' \in Request /\ requests' \in {requests, Append(requests, op')}
      BY <1>5, <2>2 DEF Send
    <3>2. requests' \in Seq(Request)
      BY <3>1, AppendProperties DEF ChannelTypeOK
    <3>3. sock' \in {"open", "eof", "reset"} /\ UNCHANGED replies
      BY <1>5 DEF Send
    <3>4. QED  BY <3>2, <3>3 DEF ChannelTypeOK
  <2>4. HistoryTypeOK'
    BY <1>2, <1>5 DEF HistoryTypeOK, Send
  <2>5. QED  BY <2>1, <2>3, <2>4
<1>6. QED  BY <1>3, <1>4, <1>5 DEF Call

\* The return of recv() keeps the types.
LEMMA ReceiveTyped ==
  ASSUME TypeOK, ModbusReceive
  PROVE  TypeOK'
<1> USE DEF TypeOK
<1>1. CASE Receive
  <2>1. replies[1] \in Reply /\ replies' \in Seq(Reply)
    BY <1>1 DEF ChannelTypeOK, Receive, Remaining
  <2>2. /\ err' \in BOOLEAN /\ buffer' \in Value /\ ret' = 0 /\ pc' = "idle"
        /\ UNCHANGED <<m_connected, m_msg_id, op>>
    BY <1>1, <2>1, FinishTyped DEF Receive
  <2>3. ClientTypeOK'
    BY <2>2 DEF ClientTypeOK
  <2>4. ChannelTypeOK'
    BY <1>1, <2>1 DEF ChannelTypeOK, Receive
  <2>5. HistoryTypeOK'
    BY <1>1, <2>1, <2>2 DEF HistoryTypeOK, Receive, Reply
  <2>6. QED  BY <2>3, <2>4, <2>5
<1>2. CASE EndOfStream
  <2>1. PICK f \in Func, x \in BOOLEAN, v \in Value :
           Finish([id |-> 0, func |-> f, exc |-> x, val |-> v])
    BY <1>2 DEF EndOfStream
  <2>2. [id |-> 0, func |-> f, exc |-> x, val |-> v] \in Reply
    BY DEF Reply
  <2>3. /\ err' \in BOOLEAN /\ buffer' \in Value /\ ret' = 0 /\ pc' = "idle"
        /\ UNCHANGED <<m_connected, m_msg_id, op>>
    BY <2>1, <2>2, FinishTyped
  <2>4. ClientTypeOK'
    BY <2>3 DEF ClientTypeOK
  <2>5. ChannelTypeOK' /\ HistoryTypeOK'
    BY <1>2, <2>3 DEF ChannelTypeOK, HistoryTypeOK, EndOfStream, network
  <2>6. QED  BY <2>4, <2>5
<1>3. CASE ReceiveFails
  <2>1. ClientTypeOK'
    BY <1>3 DEF ClientTypeOK, ReceiveFails, SetBadCon
  <2>2. ChannelTypeOK' /\ HistoryTypeOK'
    BY <1>3 DEF ChannelTypeOK, HistoryTypeOK, ReceiveFails, network
  <2>3. QED  BY <2>1, <2>2
<1>4. QED  BY <1>1, <1>2, <1>3 DEF ModbusReceive

\* The slave's answer keeps the types.
LEMMA ServeTyped ==
  ASSUME TypeOK, Serve
  PROVE  TypeOK'
<1> USE DEF TypeOK
<1> DEFINE q == Head(requests)
           Answer(x, w) == [id |-> q.id, func |-> q.func, exc |-> x, val |-> w]
<1>1. q \in Request /\ Tail(requests) \in Seq(Request)
  BY DEF Serve, ChannelTypeOK
<1>2. q.id \in Nat /\ q.func \in Func /\ q.addr \in Address /\ q.val \in Value
  BY <1>1 DEF Request
<1>3. mem[q.addr] \in Value
  BY <1>2 DEF HistoryTypeOK
<1>4. \A x \in BOOLEAN, w \in Value : Answer(x, w) \in Reply
  BY <1>2 DEF Reply
<1>5. /\ Answer(TRUE, NoValue) \in Reply /\ Answer(FALSE, mem[q.addr]) \in Reply
      /\ Answer(FALSE, q.val) \in Reply
  BY <1>2, <1>3, <1>4, DefaultsTyped
<1>6. PICK r \in Reply : replies' = Append(replies, r)
  BY <1>5 DEF Serve
<1>7. replies' \in Seq(Reply)
  BY <1>6, AppendProperties DEF ChannelTypeOK
<1>8. ChannelTypeOK'
  BY <1>1, <1>7 DEF Serve, ChannelTypeOK
<1>9. mem' \in [Address -> Value] /\ executed' \subseteq Nat
  BY <1>2 DEF Serve, HistoryTypeOK
<1>10. mem'[op.addr] \in Value
  BY <1>9 DEF ClientTypeOK, Request
<1>11. HistoryTypeOK'
  BY <1>9, <1>10 DEF Serve, HistoryTypeOK
<1>12. ClientTypeOK'
  BY DEF Serve, client, ClientTypeOK
<1>13. QED  BY <1>8, <1>11, <1>12

LEMMA TypeAtStart ==
  ASSUME Init
  PROVE  TypeOK
<1> USE DEF TypeOK
<1>1. ClientTypeOK
  BY DefaultsTyped DEF Init, ClientTypeOK
<1>2. ChannelTypeOK
  BY DEF Init, ChannelTypeOK
<1>3. HistoryTypeOK
  BY DefaultsTyped DEF Init, HistoryTypeOK
<1>4. QED  BY <1>1, <1>2, <1>3

LEMMA TypeStep ==
  ASSUME TypeOK, [Next]_vars
  PROVE  TypeOK'
<1> USE DEF TypeOK
<1>1. CASE ConnectSucceeds
  <2>1. ClientTypeOK'
    BY <1>1 DEF ConnectSucceeds, ClientTypeOK
  <2>2. ChannelTypeOK'
    BY <1>1 DEF ConnectSucceeds, ChannelTypeOK
  <2>3. HistoryTypeOK'
    BY <1>1 DEF ConnectSucceeds, HistoryTypeOK
  <2>4. QED  BY <2>1, <2>2, <2>3
<1>2. CASE ConnectFails
  BY <1>2 DEF ConnectFails, client, history,
              ClientTypeOK, ChannelTypeOK, HistoryTypeOK
<1>3. CASE Close
  BY <1>3 DEF Close, history, ClientTypeOK, ChannelTypeOK, HistoryTypeOK
<1>4. CASE SendKills
  BY <1>4 DEF SendKills, network, history,
              ClientTypeOK, ChannelTypeOK, HistoryTypeOK
<1>5. ASSUME NEW f \in Func, NEW a \in Address, NEW v \in Operand(f),
             Call(f, a, v)
      PROVE  TypeOK'
  BY <1>5, CallTyped
<1>6. CASE ModbusReceive
  BY <1>6, ReceiveTyped
<1>7. CASE Serve
  BY <1>7, ServeTyped
<1>8. ASSUME NEW a \in Address, NEW v \in Value, PlantMoves(a, v)
      PROVE  TypeOK'
  <2>1. mem' \in [Address -> Value]
    BY <1>8 DEF PlantMoves, HistoryTypeOK
  <2>2. mem'[op.addr] \in Value
    BY <2>1 DEF ClientTypeOK, Request
  <2>3. HistoryTypeOK'
    BY <1>8, <2>1, <2>2 DEF PlantMoves, HistoryTypeOK
  <2>4. ClientTypeOK' /\ ChannelTypeOK'
    BY <1>8 DEF PlantMoves, client, network, ClientTypeOK, ChannelTypeOK
  <2>5. QED  BY <2>3, <2>4
<1>9. CASE PeerCloses
  <2>1. ChannelTypeOK'
    BY <1>9 DEF PeerCloses, ChannelTypeOK
  <2>2. ClientTypeOK' /\ HistoryTypeOK'
    BY <1>9 DEF PeerCloses, client, history, ClientTypeOK, HistoryTypeOK
  <2>3. QED  BY <2>1, <2>2
<1>10. CASE PeerResets
  <2>1. ChannelTypeOK'
    BY <1>10 DEF PeerResets, ChannelTypeOK
  <2>2. ClientTypeOK' /\ HistoryTypeOK'
    BY <1>10 DEF PeerResets, client, history, ClientTypeOK, HistoryTypeOK
  <2>3. QED  BY <2>1, <2>2
<1>11. CASE UNCHANGED vars
  BY <1>11 DEF vars, client, network, history,
               ClientTypeOK, ChannelTypeOK, HistoryTypeOK
<1>12. QED
  BY <1>1, <1>2, <1>3, <1>4, <1>5, <1>6, <1>7, <1>8, <1>9, <1>10, <1>11
     DEF Next, ModbusConnect, Environment

\* Type correctness of the client, the connection and the slave.
THEOREM Typing == Spec => []TypeOK
BY TypeAtStart, TypeStep, PTL DEF Spec

(***************************************************************************)
(* A connection in step                                                    *)
(***************************************************************************)
\* A call keeps the invariant: it starts with nothing under way.
LEMMA StepInvCall ==
  ASSUME TypeOK, StepInv, NEW f \in Func, NEW a \in Address,
         NEW v \in Operand(f), Call(f, a, v)
  PROVE  StepInv'
<1> USE DEF StepInv
<1>1. m_msg_id \in Nat /\ requests \in Seq(Request)
  BY DEF TypeOK, ClientTypeOK, ChannelTypeOK
<1>2. CASE NotConnected(f, a, v) \/ BadInput(f, a, v)
  <2>1. /\ op'.id = 0 /\ pc = "idle" /\ pc' = "idle"
        /\ UNCHANGED <<m_connected, m_msg_id, network, late>>
    BY <1>2 DEF NotConnected, BadInput, Idle
  <2>2. BeforeConnect' /\ ValueSeen' /\ PositiveId' /\ OneFrame'
    BY <2>1 DEF BeforeConnect, ValueSeen, PositiveId, OneFrame, InStep, network
  <2>3. ~Succeeded'
    BY <2>1 DEF Succeeded
  <2>4. QED  BY <2>2, <2>3 DEF ReadIsCurrent, WriteIsExecuted
<1>3. CASE Send(f, a, v)
  <2>1. /\ op' = [id |-> m_msg_id, func |-> f, addr |-> a, val |-> v]
        /\ pc = "idle" /\ pc' = "waiting" /\ m_connected /\ m_connected'
        /\ seen' = {mem[a]} /\ mem' = mem /\ late' = late /\ replies' = replies
    BY <1>3 DEF Send, AfterSend, Idle
  <2>2. m_msg_id # 0
    BY DEF PositiveId
  <2>3. BeforeConnect' /\ ValueSeen' /\ PositiveId'
    BY <1>1, <1>3, <2>1, <2>2 DEF BeforeConnect, ValueSeen, PositiveId, Send
  <2>4. ASSUME InStep'
        PROVE  requests' = <<op'>> /\ replies' = <<>>
    <3>1. sock = "open" /\ requests' = Append(requests, op')
      BY <1>3, <2>1, <2>4 DEF Send, InStep
    <3>2. requests = <<>> /\ replies = <<>>
      BY <2>1, <2>4, <3>1 DEF OneFrame, InStep
    <3>3. QED  BY <2>1, <3>1, <3>2
  <2>5. OneFrame'
    BY <2>1, <2>4 DEF OneFrame
  <2>6. ~Succeeded'
    BY <2>1 DEF Succeeded, Idle
  <2>7. QED  BY <2>3, <2>5, <2>6 DEF ReadIsCurrent, WriteIsExecuted
<1>4. QED  BY <1>2, <1>3 DEF Call

\* The return of recv() keeps the invariant: in step, the frame it returns is
\* the reply to the call in progress.
LEMMA StepInvReceive ==
  ASSUME TypeOK, StepInv, ModbusReceive
  PROVE  StepInv'
<1> USE DEF StepInv
<1>1. replies \in Seq(Reply) /\ op \in Request
  BY DEF TypeOK, ClientTypeOK, ChannelTypeOK
<1>2. /\ pc = "waiting" /\ pc' = "idle"
      /\ UNCHANGED <<m_connected, m_msg_id, op, sock, mem, seen, executed>>
  BY DEF ModbusReceive, Receive, EndOfStream, ReceiveFails, Finish, network
<1>3. BeforeConnect' /\ PositiveId' /\ ValueSeen'
  BY <1>2 DEF BeforeConnect, PositiveId, ValueSeen
<1>4. CASE Receive
  <2>1. UNCHANGED <<requests, late>> /\ Finish(replies[1])
    BY <1>4 DEF Receive
  <2>2. ASSUME InStep'
        PROVE  /\ requests = <<>> /\ replies' = <<>>
               /\ AnswersRequest(replies[1], op)
    <3>1. InStep
      BY <1>2, <2>1, <2>2 DEF InStep
    <3>2. PICK n \in 1 .. Len(replies) : replies' = SubSeq(replies, n + 1, Len(replies))
      BY <1>4 DEF Receive, Remaining
    <3>3. Len(replies) # 0
      BY <1>1, <3>2
    <3>4. requests = <<>> /\ Len(replies) = 1 /\ AnswersRequest(replies[1], op)
      BY <1>2, <3>1, <3>3 DEF OneFrame
    <3>5. n = 1 /\ replies' = SubSeq(replies, 2, 1)
      BY <3>2, <3>4
    <3>6. QED  BY <3>4, <3>5, SubSeqEmpty
  <2>3. OneFrame'
    BY <1>2, <2>1, <2>2 DEF OneFrame
  <2>4. ASSUME InStep', Succeeded', op'.func \in Reads
        PROVE  buffer' \in seen'
    <3>1. op.func \in Reads /\ op.func \notin Writes /\ ~err'
      BY <1>2, <2>4, ReadOrWrite DEF Succeeded
    <3>2. AnswersRequest(replies[1], op)
      BY <2>2, <2>4
    <3>3. HandledAs(op.func) = op.func
      BY <3>1, ReadOrWrite DEF HandledAs
    <3>4. Recognised(replies[1], op.func) <=> replies[1].exc
      BY <3>2, <3>3 DEF Recognised, AnswersRequest
    <3>5. ~replies[1].exc /\ buffer' \in Decoded(replies[1], op.func)
      BY <2>1, <3>1, <3>4 DEF Finish
    <3>6. buffer' = replies[1].val /\ replies[1].val \in seen
      BY <3>1, <3>2, <3>5 DEF Decoded, AnswersRequest
    <3>7. QED  BY <1>2, <3>6
  <2>5. ASSUME InStep', Succeeded', op'.func \in Writes \ {WRITE_REG}
        PROVE  op'.id \in executed'
    <3>1. op.func \in Writes /\ op.func # WRITE_REG /\ op.func \notin Reads /\ ~err'
      BY <1>2, <2>5, ReadOrWrite DEF Succeeded
    <3>2. AnswersRequest(replies[1], op)
      BY <2>2, <2>5
    <3>3. HandledAs(op.func) = op.func
      BY <3>1 DEF HandledAs
    <3>4. op.func # READ_INPUT_BITS
      BY <3>1, ReadOrWrite
    <3>5. ~replies[1].exc
      BY <1>1, <2>1, <3>1, <3>2, <3>3, <3>4
         DEF Finish, Recognised, AnswersRequest
    <3>6. QED  BY <1>2, <3>1, <3>2, <3>5 DEF AnswersRequest
  <2>6. QED  BY <1>3, <2>3, <2>4, <2>5 DEF ReadIsCurrent, WriteIsExecuted
<1>5. CASE EndOfStream \/ ReceiveFails
  <2>1. ~InStep'
    BY <1>5 DEF EndOfStream, ReceiveFails, InStep, network
  <2>2. QED  BY <1>3, <2>1 DEF OneFrame, ReadIsCurrent, WriteIsExecuted
<1>6. QED  BY <1>4, <1>5 DEF ModbusReceive

\* The slave keeps the invariant: in step, it answers the call in progress.
LEMMA StepInvServe ==
  ASSUME TypeOK, StepInv, Serve
  PROVE  StepInv'
<1> USE DEF StepInv
<1> DEFINE q == Head(requests)
<1>1. requests \in Seq(Request) /\ requests # <<>> /\ replies \in Seq(Reply)
      /\ mem \in [Address -> Value] /\ op \in Request
  BY DEF Serve, TypeOK, ClientTypeOK, ChannelTypeOK, HistoryTypeOK
<1>2. UNCHANGED client /\ UNCHANGED <<sock, late>>
      /\ seen' = seen \union {mem'[op.addr]}
      /\ executed \subseteq executed'
  BY DEF Serve
<1>3. BeforeConnect' /\ PositiveId' /\ ValueSeen'
  BY <1>2 DEF BeforeConnect, PositiveId, ValueSeen, client
<1>4. ReadIsCurrent' /\ WriteIsExecuted'
  BY <1>2 DEF ReadIsCurrent, WriteIsExecuted, InStep, Succeeded, Idle, client
<1>5. ASSUME InStep
      PROVE  /\ pc' = "waiting" /\ requests' = <<>> /\ Len(replies') = 1
             /\ AnswersRequest(replies[1], op)'
  <2>1. pc = "waiting" /\ requests = <<op>> /\ replies = <<>>
    BY <1>1, <1>5 DEF OneFrame
  <2>2. q = op /\ requests' = <<>> /\ pc' = "waiting" /\ op' = op
    BY <1>1, <1>2, <2>1 DEF Serve, client
  <2>3. q.func \in Reads \/ q.func \in Writes
    BY <2>2, <1>1, ReadOrWrite DEF Request
  <2> DEFINE Sent(r) ==
        /\ replies' = Append(replies, r) /\ r.id = q.id /\ r.func = q.func
        /\ ~r.exc => /\ q.func \in Reads => r.val = mem[q.addr]
                     /\ q.func \in Writes => q.id \in executed'
      refusal == [id |-> q.id, func |-> q.func, exc |-> TRUE, val |-> NoValue]
      data    == [id |-> q.id, func |-> q.func, exc |-> FALSE, val |-> mem[q.addr]]
      echo    == [id |-> q.id, func |-> q.func, exc |-> FALSE, val |-> q.val]
  <2>4. Sent(refusal) \/ Sent(data) \/ Sent(echo)
    <3>1. \/ replies' = Append(replies, refusal)
          \/ q.func \in Reads /\ replies' = Append(replies, data)
          \/ /\ q.func \in Writes /\ replies' = Append(replies, echo)
             /\ q.id \in executed'
      BY DEF Serve
    <3>2. /\ refusal.id = q.id /\ refusal.func = q.func /\ refusal.exc
          /\ data.id = q.id /\ data.func = q.func /\ data.val = mem[q.addr]
          /\ echo.id = q.id /\ echo.func = q.func
      OBVIOUS
    <3> HIDE DEF refusal, data, echo, q
    <3>3. QED  BY <3>1, <3>2, ReadOrWrite
  <2>5. PICK r : Sent(r)
    <3> HIDE DEF refusal, data, echo, Sent
    <3> QED  BY <2>4
  <2>6. Len(replies') = 1 /\ replies'[1] = r
    BY <2>1, <2>5
  <2>7. mem[op.addr] \in seen /\ r.id = op.id /\ r.func = op.func
    BY <2>1, <2>2, <2>5 DEF ValueSeen
  <2>8. AnswersRequest(replies[1], op)'
    BY <1>2, <2>2, <2>5, <2>6, <2>7 DEF AnswersRequest
  <2>9. QED  BY <2>2, <2>6, <2>8
<1>6. OneFrame'
  BY <1>2, <1>5 DEF OneFrame, InStep
<1>7. QED  BY <1>3, <1>4, <1>6

LEMMA StepInvAtStart ==
  ASSUME Init
  PROVE  StepInv
BY DEF Init, StepInv, BeforeConnect, PositiveId, ValueSeen, OneFrame, InStep,
       ReadIsCurrent, WriteIsExecuted, Succeeded, NoRequest

LEMMA StepInvStep ==
  ASSUME TypeOK, StepInv, [Next]_vars
  PROVE  StepInv'
<1> USE DEF StepInv
<1>1. CASE ConnectSucceeds
  <2>1. op.id = 0 /\ op' = op /\ pc' = "idle" /\ requests' = <<>> /\ replies' = <<>>
        /\ m_connected' = TRUE /\ m_msg_id' = m_msg_id
    BY <1>1 DEF ConnectSucceeds, BeforeConnect, Idle
  <2>2. QED  BY <2>1 DEF BeforeConnect, PositiveId, ValueSeen, OneFrame,
                 ReadIsCurrent, WriteIsExecuted, Succeeded
<1>2. CASE ConnectFails \/ Close \/ SendKills \/ PeerCloses \/ PeerResets
  <2>1. ~InStep' /\ sock' # "open"
    BY <1>2 DEF ConnectFails, Close, SendKills, PeerCloses, PeerResets, InStep,
                network
  <2>2. /\ UNCHANGED <<m_connected, m_msg_id, op, mem, seen>>
        /\ pc' \in {pc, "destroyed", "killed"}
    BY <1>2 DEF ConnectFails, Close, SendKills, PeerCloses, PeerResets,
                client, network, history
  <2>3. QED  BY <2>1, <2>2 DEF BeforeConnect, PositiveId, ValueSeen, OneFrame,
                 ReadIsCurrent, WriteIsExecuted
<1>3. ASSUME NEW f \in Func, NEW a \in Address, NEW v \in Operand(f),
             Call(f, a, v)
      PROVE  StepInv'
  BY <1>3, StepInvCall DEF StepInv
<1>4. CASE ModbusReceive
  BY <1>4, StepInvReceive DEF StepInv
<1>5. CASE Serve
  BY <1>5, StepInvServe DEF StepInv
<1>6. ASSUME NEW a \in Address, NEW v \in Value, PlantMoves(a, v)
      PROVE  StepInv'
  <2>1. /\ UNCHANGED client /\ UNCHANGED network /\ UNCHANGED <<late, executed>>
        /\ seen' = seen \union {mem'[op.addr]}
    BY <1>6 DEF PlantMoves
  <2>2. BeforeConnect' /\ PositiveId' /\ ValueSeen'
    BY <2>1 DEF BeforeConnect, PositiveId, ValueSeen, client, network
  <2>3. ReadIsCurrent' /\ WriteIsExecuted'
    BY <2>1 DEF ReadIsCurrent, WriteIsExecuted, InStep, Succeeded, Idle,
                client, network
  <2>4. OneFrame'
    BY <2>1 DEF OneFrame, InStep, AnswersRequest, client, network
  <2>5. QED  BY <2>2, <2>3, <2>4
<1>7. CASE UNCHANGED vars
  BY <1>7 DEF vars, client, network, history, BeforeConnect, PositiveId,
              ValueSeen, OneFrame, InStep, AnswersRequest, ReadIsCurrent,
              WriteIsExecuted, Succeeded, Idle
<1>8. QED
  BY <1>1, <1>2, <1>3, <1>4, <1>5, <1>6, <1>7
     DEF Next, ModbusConnect, Environment

\* A connection that has not lost step gives every read a value of its own call
\* and loses no acknowledged write: the invariant StepInv is inductive.
THEOREM StepInvariance == Spec => []StepInv
BY StepInvAtStart, StepInvStep, Typing, PTL DEF Spec

\* Over a connection in step a read returns a value of its own call.
THEOREM ReadsAreCurrent == Spec => []ReadIsCurrent
<1>1. StepInv => ReadIsCurrent
  BY DEF StepInv
<1>2. QED  BY <1>1, StepInvariance, PTL

\* Over a connection in step an acknowledged write has been executed.
THEOREM WritesAreExecuted == Spec => []WriteIsExecuted
<1>1. StepInv => WriteIsExecuted
  BY DEF StepInv
<1>2. QED  BY <1>1, StepInvariance, PTL

(***************************************************************************)
(* Order of the replies                                                    *)
(***************************************************************************)
\* The ids under way stay ordered, whatever is lost, late or thrown away.
LEMMA OrderStep ==
  ASSUME TypeOK, OrderInv, [Next]_vars
  PROVE  OrderInv'
<1> USE DEF OrderInv
<1>1. /\ requests \in Seq(Request) /\ replies \in Seq(Reply)
      /\ m_msg_id \in Nat /\ lastRead \in Nat
  BY DEF TypeOK, ClientTypeOK, ChannelTypeOK, HistoryTypeOK
<1>2. /\ \A i \in 1 .. Len(requests) : requests[i].id \in Nat
      /\ \A i \in 1 .. Len(replies) : replies[i].id \in Nat
  <2>1. \A i \in 1 .. Len(requests) : requests[i] \in Request
    BY <1>1
  <2>2. \A i \in 1 .. Len(replies) : replies[i] \in Reply
    BY <1>1
  <2>3. QED  BY <2>1, <2>2 DEF Request, Reply
<1>3. CASE UNCHANGED <<m_msg_id, lastRead, requests, replies>>
  BY <1>3
<1>4. CASE ConnectSucceeds
  BY <1>1, <1>4 DEF ConnectSucceeds
<1>5. ASSUME NEW f \in Func, NEW a \in Address, NEW v \in Operand(f),
             Call(f, a, v)
      PROVE  OrderInv'
  <2>1. CASE NotConnected(f, a, v) \/ BadInput(f, a, v)
    BY <2>1, <1>3 DEF NotConnected, BadInput, network
  <2>2. CASE Send(f, a, v)
    <3>1. /\ op'.id = m_msg_id /\ m_msg_id' = m_msg_id + 1
          /\ lastRead' = lastRead /\ replies' = replies
          /\ requests' \in {requests, Append(requests, op')}
      BY <2>2 DEF Send
    <3>2. op' \in Request
      BY <1>5, CallTyped DEF TypeOK, ClientTypeOK
    <3>3. \A n \in Nat : n < m_msg_id => n < m_msg_id'
      <4>1. m_msg_id \in Nat /\ m_msg_id' = m_msg_id + 1
        BY <1>1, <3>1
      <4>2. QED  BY <4>1
    <3>4. /\ lastRead' < m_msg_id'
          /\ \A i \in 1 .. Len(replies') :
               replies'[i].id > lastRead' /\ replies'[i].id < m_msg_id'
          /\ \A i, j \in 1 .. Len(replies') : i < j => replies'[i].id < replies'[j].id
      BY <1>1, <1>2, <3>1, <3>3
    <3>5. CASE requests' = requests
      <4>1. \A i \in 1 .. Len(requests) : requests[i].id < m_msg_id'
        BY <1>2, <3>3
      <4>2. QED  BY <3>1, <3>4, <3>5, <4>1
    <3>6. CASE requests' = Append(requests, op')
      <4>1. /\ Len(requests') = Len(requests) + 1
            /\ \A i \in 1 .. Len(requests) : requests'[i] = requests[i]
            /\ requests'[Len(requests) + 1] = op'
        BY <1>1, <3>2, <3>6, AppendProperties
      <4>2. \A i \in 1 .. Len(requests') :
               \/ i \in 1 .. Len(requests) /\ requests'[i] = requests[i]
               \/ i = Len(requests) + 1 /\ requests'[i].id = m_msg_id
        BY <1>1, <3>1, <4>1
      <4>3. Len(requests) \in Nat
        BY <1>1
      <4>4. \A i \in 1 .. Len(requests') :
               requests'[i].id > lastRead /\ requests'[i].id < m_msg_id'
        <5>1. ASSUME NEW i \in 1 .. Len(requests') PROVE requests'[i].id > lastRead
          BY <1>1, <1>2, <3>1, <4>2
        <5>2. ASSUME NEW i \in 1 .. Len(requests') PROVE requests'[i].id < m_msg_id'
          BY <1>1, <1>2, <3>1, <4>2
        <5>3. QED  BY <5>1, <5>2
      <4>5. \A i, j \in 1 .. Len(requests') : i < j => requests'[i].id < requests'[j].id
        BY <1>1, <3>1, <4>1, <4>2, <4>3
      <4>6. \A i \in 1 .. Len(replies), j \in 1 .. Len(requests') :
               replies[i].id < requests'[j].id
        BY <1>1, <3>1, <4>2
      <4>7. QED  BY <3>1, <3>4, <4>4, <4>5, <4>6
    <3>7. QED  BY <3>1, <3>5, <3>6
  <2>3. QED  BY <1>5, <2>1, <2>2 DEF Call
<1>6. CASE Receive
  <2>1. PICK n \in 1 .. Len(replies) : replies' = SubSeq(replies, n + 1, Len(replies))
    BY <1>6 DEF Receive, Remaining
  <2>2. /\ lastRead' = replies[1].id
        /\ UNCHANGED <<m_msg_id, requests>>
    BY <1>6 DEF Receive, Finish
  <2>3. Len(replies) \in Nat /\ n \in Nat
    BY <1>1
  <2>4. /\ Len(replies') = Len(replies) - n
        /\ \A i \in 1 .. Len(replies') : replies'[i] = replies[i + n]
    BY <1>1, <2>1, <2>3
  <2>5. \A i \in 1 .. Len(replies') : i + n \in 1 .. Len(replies) /\ 1 < i + n
    BY <2>3, <2>4
  <2>6. lastRead' \in Nat /\ lastRead' > lastRead /\ lastRead' < m_msg_id
    BY <1>2, <2>1, <2>2, <2>3
  <2>7. \A i \in 1 .. Len(replies') :
           replies'[i].id > lastRead' /\ replies'[i].id < m_msg_id
    <3>1. 1 \in 1 .. Len(replies)
      BY <2>1, <2>3
    <3>2. TAKE i \in 1 .. Len(replies')
    <3>3. i + n \in 1 .. Len(replies) /\ 1 < i + n /\ replies'[i] = replies[i + n]
      BY <2>4, <2>5
    <3>4. replies[1].id < replies[i + n].id /\ replies[i + n].id < m_msg_id
      BY <3>1, <3>3
    <3>5. QED  BY <1>2, <2>2, <3>1, <3>3, <3>4
  <2>8. \A i, j \in 1 .. Len(replies') : i < j => replies'[i].id < replies'[j].id
    <3>1. TAKE i, j \in 1 .. Len(replies')
    <3>2. HAVE i < j
    <3>3. i + n \in 1 .. Len(replies) /\ j + n \in 1 .. Len(replies) /\ i + n < j + n
      BY <2>3, <2>4, <2>5, <3>2
    <3>4. replies[i + n].id < replies[j + n].id
      BY <3>3
    <3>5. QED  BY <2>4, <3>4
  <2>9. \A i \in 1 .. Len(requests) : requests[i].id > lastRead'
    BY <1>2, <2>1, <2>2, <2>3
  <2>10. \A i \in 1 .. Len(replies'), j \in 1 .. Len(requests) :
            replies'[i].id < requests[j].id
    BY <2>4, <2>5
  <2>11. QED  BY <2>2, <2>6, <2>7, <2>8, <2>9, <2>10
<1>7. CASE Serve
  <2> DEFINE q == Head(requests)
  <2>1. q \in Request /\ requests # <<>> /\ q = requests[1]
    BY <1>1, <1>7 DEF Serve
  <2>2. UNCHANGED <<m_msg_id, lastRead>> /\ requests' = Tail(requests)
    BY <1>7 DEF Serve, client
  <2>3. /\ Len(requests') = Len(requests) - 1
        /\ \A i \in 1 .. Len(requests') : requests'[i] = requests[i + 1]
    BY <1>1, <2>1, <2>2, HeadTailProperties
  <2>4. replies' \in Seq(Reply)
    BY <1>7, ServeTyped DEF TypeOK, ChannelTypeOK
  <2>5. \E r : r.id = q.id /\ replies' = Append(replies, r)
    <3> DEFINE refusal == [id |-> q.id, func |-> q.func, exc |-> TRUE, val |-> NoValue]
               data == [id |-> q.id, func |-> q.func, exc |-> FALSE, val |-> mem[q.addr]]
               echo == [id |-> q.id, func |-> q.func, exc |-> FALSE, val |-> q.val]
    <3>1. replies' \in {Append(replies, refusal), Append(replies, data),
                        Append(replies, echo)}
      BY <1>7 DEF Serve
    <3>2. refusal.id = q.id /\ data.id = q.id /\ echo.id = q.id
      OBVIOUS
    <3> HIDE DEF refusal, data, echo, q
    <3>3. QED  BY <3>1, <3>2
  <2>6. PICK r : r.id = q.id /\ replies' = Append(replies, r)
    BY <2>5
  <2>7. /\ Len(replies') = Len(replies) + 1
        /\ \A i \in 1 .. Len(replies) : replies'[i] = replies[i]
        /\ replies'[Len(replies) + 1].id = requests[1].id
    BY <1>1, <2>1, <2>6
  <2>8. /\ Len(requests) \in Nat /\ Len(requests) > 0 /\ Len(replies) \in Nat
        /\ \A i \in 1 .. Len(requests') : i + 1 \in 1 .. Len(requests) /\ 1 < i + 1
        /\ 1 \in 1 .. Len(requests)
    BY <1>1, <2>1, <2>3
  <2>9. \A i \in 1 .. Len(replies') :
           \/ i \in 1 .. Len(replies) /\ replies'[i] = replies[i]
           \/ i = Len(replies) + 1 /\ replies'[i].id = requests[1].id
    BY <2>7, <2>8
  <2>10. \A i \in 1 .. Len(replies') :
            replies'[i].id > lastRead /\ replies'[i].id < m_msg_id
    BY <2>8, <2>9
  <2>11. \A i, j \in 1 .. Len(replies') : i < j => replies'[i].id < replies'[j].id
    BY <2>7, <2>8, <2>9
  <2>12. \A i \in 1 .. Len(requests') :
            requests'[i].id > lastRead /\ requests'[i].id < m_msg_id
    BY <2>3, <2>8
  <2>13. \A i, j \in 1 .. Len(requests') : i < j => requests'[i].id < requests'[j].id
    BY <2>3, <2>8
  <2>14. \A i \in 1 .. Len(replies'), j \in 1 .. Len(requests') :
            replies'[i].id < requests'[j].id
    BY <2>3, <2>8, <2>9
  <2>15. QED  BY <2>2, <2>10, <2>11, <2>12, <2>13, <2>14
<1>8. CASE PeerCloses
  BY <1>1, <1>8 DEF PeerCloses, client, history
<1>9. CASE PeerResets
  <2>1. PICK n \in 0 .. Len(replies) : replies' = SubSeq(replies, 1, n)
    BY <1>9 DEF PeerResets
  <2>2. requests' = <<>> /\ UNCHANGED <<m_msg_id, lastRead>>
    BY <1>9 DEF PeerResets, client, history
  <2>3. /\ Len(replies') = n /\ n \in Nat /\ Len(replies) \in Nat
        /\ \A i \in 1 .. n : replies'[i] = replies[i] /\ i \in 1 .. Len(replies)
    BY <1>1, <2>1
  <2>4. QED  BY <2>2, <2>3
<1>10. QED
  BY <1>3, <1>4, <1>5, <1>6, <1>7, <1>8, <1>9
     DEF Next, ModbusConnect, ModbusReceive, Environment, ConnectFails, Close,
         SendKills, EndOfStream, ReceiveFails, Finish, PlantMoves, vars, client,
         network, history

\* The order of the ids under way is invariant.
THEOREM OrderInvariance == Spec => []OrderInv
<1>1. Init => OrderInv
  BY DEF Init, OrderInv
<1>2. QED  BY <1>1, OrderStep, Typing, PTL DEF Spec

\* No reply is parsed twice, and replies are parsed in the order of their
\* requests, even when the client has lost step.
THEOREM RepliesAreInOrder == Spec => RepliesInOrder
<1>1. TypeOK /\ OrderInv => [Receive => lastRead' > lastRead]_vars
  <2>1. SUFFICES ASSUME TypeOK, OrderInv, Receive
                 PROVE  lastRead' > lastRead
    OBVIOUS
  <2>2. 1 \in 1 .. Len(replies) /\ lastRead' = replies[1].id
    BY <2>1 DEF Receive, TypeOK, ChannelTypeOK
  <2>3. QED  BY <2>1, <2>2 DEF OrderInv
<1>2. QED  BY <1>1, Typing, OrderInvariance, PTL DEF Spec, RepliesInOrder
=============================================================================
