------------------------------- MODULE Modbus -------------------------------
(***************************************************************************)
(* The Modbus/TCP client of door_controller/include/modbus.hpp: one object *)
(* of class modbus, the TCP connection it owns and, as the environment,    *)
(* the slave that answers it and the plant that moves the slave's memory.  *)
(*                                                                         *)
(* Every operation of the class sends one request and then blocks in one   *)
(* recv() with a 20 s SO_RCVTIMEO.  The transaction id of a reply is never *)
(* looked at: the bytes recv() returns are taken for the answer.           *)
(*                                                                         *)
(* Abstractions.  A transfer concerns one item at one address (an amount   *)
(* is either accepted or too large); all tables of the slave share one     *)
(* memory; a frame travels whole, but one recv() may return several frames *)
(* that have arrived (the client then parses the first of them).           *)
(***************************************************************************)
EXTENDS Integers, Sequences

CONSTANTS
  Address,   \* the slave's addresses
  Value,     \* the values of one item (BOOLEAN for coils)
  Func,      \* the function codes the client uses
  MaxCalls   \* bound of the model on m_msg_id, the number of requests sent

READ_COILS       == 1
READ_INPUT_BITS  == 2
READ_REGS        == 3
READ_INPUT_REGS  == 4
WRITE_COIL       == 5
WRITE_REG        == 6
WRITE_COILS      == 15
WRITE_REGS       == 16

BAD_CON     == -1
EX_BAD_DATA == 255

BitReads == {READ_COILS, READ_INPUT_BITS}
Reads    == BitReads \union {READ_REGS, READ_INPUT_REGS}
Writes   == {WRITE_COIL, WRITE_REG, WRITE_COILS, WRITE_REGS}

ASSUME ModbusAssumption ==
  /\ Func \subseteq Reads \union Writes
  /\ MaxCalls \in Nat
  /\ Func # {} /\ Address # {} /\ Value # {}

VARIABLES
  m_connected,  \* the flag ModbusConnect sets; nothing resets it
  err,          \* the public flag err
  m_msg_id,     \* id of the next request
  pc,           \* "idle", "waiting" in recv(), "destroyed" or "killed"
  op,           \* the request of the current or last call; id 0: none was sent
  ret,          \* what the last call returned
  buffer,       \* the caller's output variable
  sock,         \* "none", "open", "eof" (FIN seen), "reset" or "closed"
  requests,     \* frames on their way to the slave
  replies,      \* frames on their way to the client
  mem,          \* the slave's memory
  late,         \* history: a recv() of this connection has timed out
  lastRead,     \* history: greatest id of a reply the client has parsed
  executed,     \* history: ids of the writes the slave has carried out
  seen          \* history: values of mem[op.addr] during the current call

client  == <<m_connected, err, m_msg_id, pc, op, ret, buffer>>
network == <<sock, requests, replies>>
history == <<late, lastRead, executed, seen>>
vars    == <<client, network, mem, history>>

Request == [id: Nat, func: Func, addr: Address, val: Value]
Reply   == [id: Nat, func: Func, exc: BOOLEAN, val: Value]

\* The operand of a read and the payload of an exception are not looked at.
NoValue == CHOOSE v \in Value : TRUE
Operand(f) == IF f \in Writes THEN Value ELSE {NoValue}

NoRequest == [id |-> 0, func |-> CHOOSE f \in Func : TRUE,
              addr |-> CHOOSE a \in Address : TRUE, val |-> NoValue]


Idle == pc = "idle"

(***************************************************************************)
(* The client                                                              *)
(***************************************************************************)
Init ==
  /\ m_connected = FALSE /\ err = FALSE /\ m_msg_id = 1 /\ pc = "idle"
  /\ ret = 0 /\ buffer = NoValue /\ op = NoRequest
  /\ sock = "none" /\ requests = <<>> /\ replies = <<>>
  /\ mem \in [Address -> Value]
  /\ late = FALSE /\ lastRead = 0 /\ executed = {} /\ seen = {}

\* ModbusConnect.  Its only caller stops at the first success, so it is
\* called while no connection exists.
ConnectSucceeds ==
  /\ Idle /\ ~m_connected
  /\ m_connected' = TRUE
  /\ sock' = "open" /\ requests' = <<>> /\ replies' = <<>>
  /\ late' = FALSE
  /\ UNCHANGED <<err, m_msg_id, pc, op, ret, buffer, mem,
                 lastRead, executed, seen>>

ConnectFails ==
  /\ Idle /\ ~m_connected
  /\ sock' = "none"
  /\ UNCHANGED <<client, requests, replies, mem, history>>

\* ModbusClose, called by the owner's destructor: the object is gone after it.
Close ==
  /\ Idle
  /\ pc' = "destroyed" /\ sock' = "closed"
  /\ UNCHANGED <<m_connected, err, m_msg_id, op, ret, buffer,
                 requests, replies, mem, history>>

SetBadCon == err' = TRUE

\* An operation on an object that never connected.  ReadInputBits is the one
\* that does not record the error.
NotConnected(f, a, v) ==
  /\ Idle /\ ~m_connected
  /\ op' = [id |-> 0, func |-> f, addr |-> a, val |-> v]
  /\ IF f = READ_INPUT_BITS THEN UNCHANGED err ELSE SetBadCon
  /\ ret' = BAD_CON
  /\ seen' = {mem[a]}
  /\ UNCHANGED <<m_connected, m_msg_id, pc, buffer, network, mem,
                 late, lastRead, executed>>

\* The two bit reads refuse more than 2040 items before anything is sent.
BadInput(f, a, v) ==
  /\ Idle /\ m_connected /\ f \in BitReads
  /\ op' = [id |-> 0, func |-> f, addr |-> a, val |-> v]
  /\ err' = TRUE /\ ret' = EX_BAD_DATA
  /\ seen' = {mem[a]}
  /\ UNCHANGED <<m_connected, m_msg_id, pc, buffer, network, mem,
                 late, lastRead, executed>>

\* Mutant of AfterSend: a write does not wait for the slave's reply.
AfterSend_Pipelined(f) == IF f \in Writes THEN "idle" ELSE "waiting"

\* Once a request is on the wire the call blocks in recv().
AfterSend(f) == "waiting"

\* ModbusRead / ModbusWrite followed by ModbusSend, whose result is ignored.
\* A request sent to a peer that has closed provokes a reset.
Send(f, a, v) ==
  /\ Idle /\ m_connected /\ m_msg_id <= MaxCalls
  /\ LET request == [id |-> m_msg_id, func |-> f, addr |-> a, val |-> v]
     IN  /\ op' = request
         /\ \/ /\ sock = "open"
               /\ requests' = Append(requests, request)
               /\ UNCHANGED sock
            \/ /\ sock = "eof"
               /\ sock' \in {"eof", "reset"}
               /\ UNCHANGED requests
            \/ /\ sock = "reset"
               /\ UNCHANGED <<sock, requests>>
  /\ m_msg_id' = m_msg_id + 1
  /\ pc' = AfterSend(f)
  /\ seen' = {mem[a]}
  /\ UNCHANGED <<m_connected, err, ret, buffer, replies, mem,
                 late, lastRead, executed>>

\* send() on a connection that was reset raises SIGPIPE, which nothing
\* handles: the process ends.
SendKills ==
  /\ Idle /\ m_connected /\ sock = "reset"
  /\ pc' = "killed"
  /\ UNCHANGED <<m_connected, err, m_msg_id, op, ret, buffer,
                 network, mem, history>>

\* Mutant of HandledAs: every function is checked as another one.
HandledAs_Swapped(f) == IF f = WRITE_COIL THEN WRITE_REG ELSE f

\* The code ModbuserrorHandle is given: writing one register passes the code
\* of writing one coil.
HandledAs(f) == IF f = WRITE_REG THEN WRITE_COIL ELSE f

\* ModbuserrorHandle: an exception is a reply with the function code of the
\* call and the top bit set.  Any other frame clears err.
Recognised(r, f) == r.exc /\ r.func = HandledAs(f)

\* Mutant of Decoded: the bits of other coils in the byte are not masked.
Decoded_Unmasked(r, f) == {r.val, r.val + 2}

\* What a read can find in the frame it parses: the reply's data when the
\* frame is a normal reply to the same function, else whatever bytes are there.
Decoded(r, f) == IF r.func = f /\ ~r.exc THEN {r.val} ELSE Value

\* From the return of recv() to the return of the call.  The caller's output
\* variable is not initialised: a read that leaves it alone leaves any value.
Finish(r) ==
  /\ pc' = "idle" /\ ret' = 0
  /\ \/ /\ op.func \in Reads \ {READ_INPUT_BITS}
        /\ err' = Recognised(r, op.func)
        /\ IF err' THEN buffer' \in Value ELSE buffer' \in Decoded(r, op.func)
     \/ /\ op.func = READ_INPUT_BITS /\ err
        /\ buffer' \in Value /\ UNCHANGED err
     \/ /\ op.func = READ_INPUT_BITS /\ ~err
        /\ err' = Recognised(r, op.func)
        /\ buffer' \in Decoded(r, op.func)
     \/ /\ op.func \in Writes
        /\ err' = Recognised(r, op.func)
        /\ UNCHANGED buffer
  /\ UNCHANGED <<m_connected, m_msg_id, op>>

\* Mutant of Remaining: recv() leaves the bytes it returns in the queue.
Remaining_Peek(n) == replies

\* What is left in the queue when recv() has returned the first n frames.
Remaining(n) == SubSeq(replies, n + 1, Len(replies))

\* recv() returns the bytes that have arrived: n frames, of which the first
\* is parsed and the others are thrown away.
Receive ==
  /\ pc = "waiting"
  /\ \E n \in 1 .. Len(replies) : replies' = Remaining(n)
  /\ Finish(replies[1])
  /\ lastRead' = replies[1].id
  /\ UNCHANGED <<sock, requests, mem, late, executed, seen>>

\* recv() returns 0: the call goes on with a buffer nobody wrote.
EndOfStream ==
  /\ pc = "waiting" /\ sock \in {"eof", "reset"} /\ replies = <<>>
  /\ \E f \in Func, x \in BOOLEAN, v \in Value :
       Finish([id |-> 0, func |-> f, exc |-> x, val |-> v])
  /\ UNCHANGED <<network, mem, late, lastRead, executed, seen>>

\* Mutant of MayFail: no receive timeout is set on the socket.
MayFail_NoTimeout == sock = "reset"

\* recv() returns -1: the 20 s of SO_RCVTIMEO are over, or a pending reset.
MayFail == sock \in {"open", "reset"}

ReceiveFails ==
  /\ pc = "waiting" /\ MayFail
  /\ pc' = "idle" /\ ret' = BAD_CON /\ SetBadCon
  /\ late' = TRUE
  /\ UNCHANGED <<m_connected, m_msg_id, op, buffer, network, mem,
                 lastRead, executed, seen>>

(***************************************************************************)
(* The slave, the network and the plant                                    *)
(***************************************************************************)
\* The slave carries out the oldest request or refuses it with an exception.
Serve ==
  /\ sock = "open" /\ requests # <<>>
  /\ requests' = Tail(requests)
  /\ LET q == Head(requests)
         Answer(x, w) == [id |-> q.id, func |-> q.func, exc |-> x, val |-> w]
     IN  \/ /\ replies' = Append(replies, Answer(TRUE, NoValue))
            /\ UNCHANGED <<mem, executed>>
         \/ /\ q.func \in Reads
            /\ replies' = Append(replies, Answer(FALSE, mem[q.addr]))
            /\ UNCHANGED <<mem, executed>>
         \/ /\ q.func \in Writes
            /\ replies' = Append(replies, Answer(FALSE, q.val))
            /\ mem' = [mem EXCEPT ![q.addr] = q.val]
            /\ executed' = executed \union {q.id}
  /\ seen' = seen \union {mem'[op.addr]}
  /\ UNCHANGED <<client, sock, late, lastRead>>

\* Inputs of the slave follow the plant.
PlantMoves(a, v) ==
  /\ mem[a] # v
  /\ mem' = [mem EXCEPT ![a] = v]
  /\ seen' = seen \union {mem'[op.addr]}
  /\ UNCHANGED <<client, network, late, lastRead, executed>>

\* The slave closes the connection: what it has sent still arrives.
PeerCloses ==
  /\ sock = "open"
  /\ sock' = "eof" /\ requests' = <<>>
  /\ UNCHANGED <<client, replies, mem, history>>

\* A reset: what has not arrived is lost.
PeerResets ==
  /\ sock \in {"open", "eof"}
  /\ sock' = "reset" /\ requests' = <<>>
  /\ \E n \in 0 .. Len(replies) : replies' = SubSeq(replies, 1, n)
  /\ UNCHANGED <<client, mem, history>>

(***************************************************************************)
(* Specification                                                           *)
(***************************************************************************)
Call(f, a, v)  == NotConnected(f, a, v) \/ BadInput(f, a, v) \/ Send(f, a, v)
ModbusReceive  == Receive \/ EndOfStream \/ ReceiveFails
ModbusConnect  == ConnectSucceeds \/ ConnectFails
Environment    == \/ Serve \/ PeerCloses \/ PeerResets
                  \/ \E a \in Address, v \in Value : PlantMoves(a, v)

Next ==
  \/ ModbusConnect \/ Close \/ SendKills \/ ModbusReceive \/ Environment
  \/ \E f \in Func, a \in Address : \E v \in Operand(f) : Call(f, a, v)

\* recv() returns: it has a timeout of 20 seconds.
Fairness == WF_vars(ModbusReceive)

Spec == Init /\ [][Next]_vars /\ Fairness

(***************************************************************************)
(* Properties                                                              *)
(***************************************************************************)
\* The reply is to request q: a normal one carries a value the item had during
\* the call, or acknowledges a write that was executed.
AnswersRequest(r, q) ==
  /\ r.id = q.id /\ r.func = q.func
  /\ ~r.exc => /\ q.func \in Reads => r.val \in seen
               /\ q.func \in Writes => q.id \in executed
ClientTypeOK ==
  /\ m_connected \in BOOLEAN /\ err \in BOOLEAN /\ m_msg_id \in Nat
  /\ pc \in {"idle", "waiting", "destroyed", "killed"}
  /\ op \in Request /\ ret \in {0, BAD_CON, EX_BAD_DATA} /\ buffer \in Value

ChannelTypeOK ==
  /\ sock \in {"none", "open", "eof", "reset", "closed"}
  /\ requests \in Seq(Request) /\ replies \in Seq(Reply)

HistoryTypeOK ==
  /\ mem \in [Address -> Value]
  /\ late \in BOOLEAN /\ lastRead \in Nat
  /\ executed \subseteq Nat /\ seen \subseteq Value

\* Types of all variables (fields of class modbus, modbus.hpp:104-166).
TypeOK == ClientTypeOK /\ ChannelTypeOK /\ HistoryTypeOK

\* The last call went through: it sent a request, returned 0 and left err off.
Succeeded == Idle /\ op.id # 0 /\ ret = 0 /\ ~err

\* The client and the slave have not lost step on this connection.
InStep == sock = "open" /\ ~late

\* As long as no recv() has timed out, a successful read returns a value the
\* item had at some moment between the call and its return, however the plant
\* and the slave interleave with it.
ReadIsCurrent ==
  InStep /\ Succeeded /\ op.func \in Reads => buffer \in seen

\* As long as no recv() has timed out, a successful write has been carried out
\* by the slave.  Writing one register is left out: its exceptions are
\* handled as those of writing a coil (modbus.hpp:553).
WriteIsExecuted ==
  InStep /\ Succeeded /\ op.func \in Writes \ {WRITE_REG}
    => op.id \in executed

\* Even after timeouts no reply is parsed twice, and replies are parsed in the
\* order of their requests: each recv() that returns data parses a reply to a
\* later request than the one before.
RepliesInOrder == [][Receive => lastRead' > lastRead]_vars

\* recv() cannot block a call for ever (SO_RCVTIMEO, modbus.hpp:252-257), not
\* even when slave and network are silent.
CallReturns == pc = "waiting" ~> pc # "waiting"

\* Before it has connected, the client has sent nothing.
BeforeConnect == ~m_connected => op.id = 0 /\ pc # "waiting" /\ sock # "open"

PositiveId == m_msg_id > 0

\* While a call is in recv(), the item's present value has been seen.
ValueSeen == pc = "waiting" => op.id # 0 /\ mem[op.addr] \in seen

\* In step, exactly the frame of the call in progress is under way.
OneFrame ==
  InStep =>
    \/ pc # "waiting" /\ requests = <<>> /\ replies = <<>>
    \/ pc = "waiting" /\ requests = <<op>> /\ replies = <<>>
    \/ /\ pc = "waiting" /\ requests = <<>> /\ Len(replies) = 1
       /\ AnswersRequest(replies[1], op)

\* The inductive invariant behind ReadIsCurrent and WriteIsExecuted: one frame
\* at a time is what makes the unread transaction ids harmless
\* (modbus.hpp:390-391, the send and the recv of one call).
StepInv ==
  /\ BeforeConnect /\ PositiveId /\ ValueSeen /\ OneFrame
  /\ ReadIsCurrent /\ WriteIsExecuted

\* The inductive invariant behind RepliesInOrder: the replies under way, then
\* the requests under way, have increasing ids, all of them greater than the
\* last id parsed and smaller than the next one to send.
OrderInv ==
  /\ lastRead < m_msg_id
  /\ \A i \in 1 .. Len(replies) : replies[i].id > lastRead /\ replies[i].id < m_msg_id
  /\ \A i \in 1 .. Len(requests) : requests[i].id > lastRead /\ requests[i].id < m_msg_id
  /\ \A i, j \in 1 .. Len(replies) : i < j => replies[i].id < replies[j].id
  /\ \A i, j \in 1 .. Len(requests) : i < j => requests[i].id < requests[j].id
  /\ \A i \in 1 .. Len(replies), j \in 1 .. Len(requests) :
       replies[i].id < requests[j].id

\* What the comments of ReadCoils say with no condition on earlier calls: the
\* buffer stores data read from the coils at the given address.
BufferHoldsDataRead ==
  sock = "open" /\ Succeeded /\ op.func \in Reads => buffer \in seen

=============================================================================
