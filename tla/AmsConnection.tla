--------------------------- MODULE AmsConnection ----------------------------
(***************************************************************************)
(* The TCP connection of AdsLib/standalone/AmsConnection.cpp.  Threads     *)
(* that call AdsRequest meet one receiver thread at the slots of `queue`,  *)
(* one per local port; no lock covers a slot, its three atomics do.        *)
(*                                                                         *)
(* Abstractions.  The bytes from the device are units: one for the two     *)
(* headers of a frame, one for its result, one per part of its data, so    *)
(* that a deadline can pass inside the data.  A unit that is in `wire` may *)
(* still be on its way: reads are not fair.  A request is named by its     *)
(* invoke id; a slot starts with 0 there, where the code leaves the member *)
(* uninitialised until the first StoreId.                                  *)
(***************************************************************************)
EXTENDS Integers, Sequences

CONSTANTS
  Caller,       \* threads
  Port,         \* local AMS ports
  CallsOf,      \* the calls each thread makes: pairs of a port and a request
  NoCaller,     \* the request pointer of a free slot
  DataSize,     \* units of data a caller reads
  IdModulus,    \* 2^32, the range of an invoke id
  SizeModulus,  \* 2^64, the range of a size_t
  FirstId,      \* value of the counter when the model starts
  MaxCalls      \* bound of the model on calls and unasked-for frames

ASSUME ConnectionAssumption ==
  /\ NoCaller \notin Caller /\ Port # {}
  /\ DataSize \in Nat /\ MaxCalls \in Nat
  /\ SizeModulus \in Nat /\ DataSize + 1 < SizeModulus
  /\ IdModulus \in Nat /\ FirstId \in Nat
  /\ FirstId < IdModulus /\ MaxCalls + 1 < IdModulus

VARIABLES
  request,      \* slot: the caller whose AmsRequest is registered
  invokeId,     \* slot: the id waited for; 0: consumed
  errorCode,    \* slot: the result, or WAITING_FOR_RESPONSE (Unset)
  counter,      \* AmsConnection::invokeId
  pc,           \* statement of each caller
  port, ask, id,\* of the caller's request
  overdue,      \* the caller's deadline has passed
  buffer,       \* ids of the answers whose units lie in the caller's buffer
  result,       \* what the caller's AdsRequest is about to return
  last,         \* history: what the caller's last AdsRequest returned
  net,          \* "up", "closed" by the device, "shut" by the destructor
  wire,         \* units on their way to the receiver
  rx,           \* the receiver: statement, header read, request served,
                \* bytesLeft and the units of it read so far, answer to notify
  plc,          \* requests the device has not answered
  calls, others,\* counts, bounded
  reached,      \* history: ids of the requests the device was sent
  executed,     \* history: ids of those it has carried out
  aligned,      \* history: no read or junk has reached into the next frame
  killed,       \* the process has died, or what it does is undefined
  destroying    \* the destructor has been called

slots    == <<request, invokeId, errorCode>>
callerVars == <<pc, port, ask, id, overdue, buffer, result, last>>
counts   == <<counter, calls>>
device   == <<plc, others, executed>>
process  == <<killed, destroying>>
connVars == <<slots, counts, callerVars, net, wire, rx, device, reached, aligned, process>>

(***************************************************************************)
(* Requests of AdsLib/standalone/AdsLib.cpp: the command and the units of  *)
(* data there is room for.                                                 *)
(***************************************************************************)
AmsRequest(cmd, n) == [cmd |-> cmd, wants |-> n]

AdsSyncReadReqEx2                 == AmsRequest("read", DataSize)
AdsSyncReadDeviceInfoReqEx        == AmsRequest("readDeviceInfo", 1)
AdsSyncReadStateReqEx             == AmsRequest("readState", 1)
AdsSyncReadWriteReqEx2            == AmsRequest("readWrite", DataSize)
AdsSyncWriteReqEx                 == AmsRequest("write", 0)
AdsSyncWriteControlReqEx          == AmsRequest("writeControl", 0)
AdsSyncAddDeviceNotificationReqEx == AmsRequest("addNotification", 1)
DeleteNotification                == AmsRequest("deleteNotification", 0)

Requests == {AdsSyncReadReqEx2, AdsSyncReadDeviceInfoReqEx, AdsSyncReadStateReqEx,
             AdsSyncReadWriteReqEx2, AdsSyncWriteReqEx, AdsSyncWriteControlReqEx,
             AdsSyncAddDeviceNotificationReqEx, DeleteNotification}

ASSUME CallsOfAssumption == CallsOf \in [Caller -> SUBSET (Port \X Requests)]

(***************************************************************************)
(* Frames.  An error has no data; an answer may have less data than there  *)
(* is room for ("part"), more ("long"), or not even a whole result         *)
(* ("stub"); the result may say that the request failed ("failed").        *)
(***************************************************************************)
Good    == {"ok", "part", "long"}
Answers == Good \union {"error", "failed", "stub", "unknown"}
Others  == {"short", "notification"}

\* A device is free to answer with the number of WAITING_FOR_RESPONSE: in a
\* slot "reserved" is that number, the two names tell who has stored it.
DeviceCodes == {"error", "reserved"}
Unset       == {"waiting", "reserved"}

\* n is the data there is room for.
SizeOf(k, n) == CASE k = "ok" -> 1 + n
                  [] k = "part" /\ n > 0 -> n
                  [] k = "long" -> 2 + n
                  [] k = "stub" -> 0
                  [] OTHER -> 1

Header(k, i, p, n) == [kind |-> k, id |-> i, port |-> p, size |-> SizeOf(k, n)]
Units(h) == [n \in 1 .. 1 + h.size |-> [frame |-> h, at |-> n - 1]]

AnyPort  == CHOOSE p \in Port : TRUE
NoHeader == Header("short", 0, AnyPort, 0)

Receiver(at, h, c, left) ==
  [at |-> at, frame |-> h, who |-> c, left |-> left, got |-> 0, code |-> "none"]
NextFrame  == Receiver("header", NoHeader, NoCaller, 0)
Junk(left) == Receiver("junk", NoHeader, NoCaller, left)

ConnectionInit ==
  /\ request = [p \in Port |-> NoCaller]
  /\ invokeId = [p \in Port |-> 0]
  /\ errorCode = [p \in Port |-> "waiting"]
  /\ counter = FirstId
  /\ pc = [c \in Caller |-> "idle"]
  /\ port = [c \in Caller |-> AnyPort]
  /\ ask = [c \in Caller |-> DeleteNotification]
  /\ id = [c \in Caller |-> 0]
  /\ overdue = [c \in Caller |-> FALSE]
  /\ buffer = [c \in Caller |-> {}]
  /\ result = [c \in Caller |-> "none"]
  /\ last = [c \in Caller |-> "none"]
  /\ net = "up" /\ wire = <<>> /\ rx = NextFrame
  /\ plc = {} /\ calls = 0 /\ others = 0
  /\ reached = {} /\ executed = {}
  /\ aligned = TRUE /\ killed = FALSE /\ destroying = FALSE

Goto(c, at) == pc' = [pc EXCEPT ![c] = at]

\* A step of a caller that leaves the socket and the receiver alone.
Locally == UNCHANGED <<net, wire, rx, device, reached, aligned, process>>

(***************************************************************************)
(* AdsRequest.                                                             *)
(***************************************************************************)
\* Mutant of NextId: one fetch_add.
NextId_Once == counter

\* GetInvokeId: fetch_add until the value is not 0.
NextId == IF counter = 0 THEN 1 ELSE counter

\* The guards of the API and GetLocalAddress refuse a port that is not open, a
\* missing address or buffer; SetDeadline; the header of the frame takes an id.
Begin(c) ==
  /\ ~killed /\ ~destroying /\ pc[c] = "idle" /\ calls + others < MaxCalls
  /\ calls' = calls + 1
  /\ \/ /\ last' = [last EXCEPT ![c] = "invalid"]
        /\ UNCHANGED <<slots, counter, pc, port, ask, id, overdue, buffer, result>>
     \/ \E call \in CallsOf[c] :
          /\ port' = [port EXCEPT ![c] = call[1]]
          /\ ask' = [ask EXCEPT ![c] = call[2]]
          /\ id' = [id EXCEPT ![c] = NextId]
          /\ counter' = (NextId + 1) % IdModulus
          /\ Goto(c, "reserve")
          /\ UNCHANGED <<slots, overdue, buffer, result, last>>
  /\ Locally

Refuse(c) == result' = [result EXCEPT ![c] = "refused"]

\* Mutant of SlotFree: the request is stored without looking.
SlotFree_Any(p) == TRUE

\* The slot is taken by compare_exchange_strong.
SlotFree(p) == request[p] = NoCaller

\* The request and the buffer are gone with the call.
Return(c, how) ==
  /\ Goto(c, "idle")
  /\ last' = [last EXCEPT ![c] = how]
  /\ result' = [result EXCEPT ![c] = "none"]
  /\ port' = [port EXCEPT ![c] = AnyPort]
  /\ ask' = [ask EXCEPT ![c] = DeleteNotification]
  /\ id' = [id EXCEPT ![c] = 0]
  /\ overdue' = [overdue EXCEPT ![c] = FALSE]
  /\ buffer' = [buffer EXCEPT ![c] = {}]

Reserve(c) ==
  /\ ~killed /\ pc[c] = "reserve"
  /\ \/ /\ SlotFree(port[c])
        /\ request' = [request EXCEPT ![port[c]] = c]
        /\ Goto(c, "store")
        /\ UNCHANGED <<port, ask, id, overdue, buffer, result, last>>
     \/ /\ ~SlotFree(port[c])
        /\ Return(c, "refused")
        /\ UNCHANGED request
  /\ UNCHANGED <<invokeId, errorCode, counts>>
  /\ Locally

\* Mutant of IdFor: the last id that was handed out to any thread.
IdFor_Latest(c) == (counter + IdModulus - 1) % IdModulus

\* What Write stores in the slot: the id of the header it has made.
IdFor(c) == id[c]

StoreId(c) ==
  /\ ~killed /\ pc[c] = "store"
  /\ invokeId' = [invokeId EXCEPT ![port[c]] = IdFor(c)]
  /\ Goto(c, "write")
  /\ UNCHANGED <<request, errorCode, counts, port, ask, id, overdue, buffer, result, last>>
  /\ Locally

\* While the connection is up the whole frame is written.
WriteReaches(c) ==
  /\ ~killed /\ pc[c] = "write" /\ net = "up"
  /\ plc' = plc \union {[id |-> id[c], port |-> port[c], wants |-> ask[c].wants]}
  /\ reached' = reached \union {id[c]}
  /\ Goto(c, "wait")
  /\ UNCHANGED <<slots, counts, port, ask, id, overdue, buffer, result, last, net, wire,
                 rx, others, executed, aligned, process>>

\* Once the device has closed it the frame is lost or the write fails; the
\* slot is released with its id still in it.
WriteIsLost(c) ==
  /\ ~killed /\ pc[c] = "write" /\ net # "up"
  /\ \/ Goto(c, "wait") /\ UNCHANGED result
     \/ Goto(c, "release") /\ Refuse(c)
  /\ UNCHANGED <<slots, counts, port, ask, id, overdue, buffer, last>>
  /\ Locally

\* SIGPIPE is not ignored.
WriteKills(c) ==
  /\ ~killed /\ pc[c] = "write" /\ net = "closed"
  /\ killed' = TRUE
  /\ UNCHANGED <<slots, counts, callerVars, net, wire, rx, device, reached,
                 aligned, destroying>>

Write(c) == Reserve(c) \/ StoreId(c) \/ WriteReaches(c) \/ WriteIsLost(c) \/ WriteKills(c)

\* Nothing looks at the deadline before the request is written.
DeadlinePasses(c) ==
  /\ ~killed /\ pc[c] \in {"wait", "answered"} /\ ~overdue[c]
  /\ overdue' = [overdue EXCEPT ![c] = TRUE]
  /\ UNCHANGED <<slots, counts, pc, port, ask, id, buffer, result, last>>
  /\ Locally

\* invokeId.exchange(0): nobody has taken the answer yet, and nobody will.
Expired(c) ==
  /\ invokeId[port[c]] # 0
  /\ invokeId' = [invokeId EXCEPT ![port[c]] = 0]

\* Wait, up to the exchange.
WaitDeadline(c) ==
  /\ ~killed /\ pc[c] = "wait"
  /\ \/ /\ overdue[c] /\ Expired(c)
        /\ result' = [result EXCEPT ![c] = "timeout"]
        /\ Goto(c, "release")
     \/ /\ invokeId[port[c]] = 0
        /\ Goto(c, "answered")
        /\ UNCHANGED <<invokeId, result>>
  /\ UNCHANGED <<request, errorCode, counts, port, ask, id, overdue, buffer, last>>
  /\ Locally

\* Mutant of Served: the second wait ends at the deadline too.
Served_OrLate(c) == errorCode[port[c]] \notin Unset \/ overdue[c]

\* What the second wait waits for: it has no deadline.
Served(c) == errorCode[port[c]] \notin Unset

WaitServed(c) ==
  /\ ~killed /\ pc[c] = "answered" /\ Served(c)
  /\ result' = [result EXCEPT ![c] = errorCode[port[c]]]
  /\ Goto(c, "release")
  /\ UNCHANGED <<slots, counts, port, ask, id, overdue, buffer, last>>
  /\ Locally

\* Release clears the result before it gives the slot away.
ReleaseCode(c) ==
  /\ ~killed /\ pc[c] = "release"
  /\ errorCode' = [errorCode EXCEPT ![port[c]] = "waiting"]
  /\ Goto(c, "free")
  /\ UNCHANGED <<request, invokeId, counts, port, ask, id, overdue, buffer, result, last>>
  /\ Locally

ReleaseSlot(c) ==
  /\ ~killed /\ pc[c] = "free"
  /\ request' = [request EXCEPT ![port[c]] = NoCaller]
  /\ Return(c, result[c])
  /\ UNCHANGED <<invokeId, errorCode, counts>>
  /\ Locally

CallerStep(c) ==
  Write(c) \/ WaitDeadline(c) \/ WaitServed(c) \/ ReleaseCode(c) \/ ReleaseSlot(c)

(***************************************************************************)
(* The receiver.                                                           *)
(***************************************************************************)
ByReceiver == UNCHANGED <<request, counts, pc, port, ask, id, overdue, result, last,
                          net, device, reached, destroying>>

\* A header read where no frame begins is made of other bytes: it may be taken
\* for an answer with any id, without a result or with data, or for something
\* to skip.
Garbled == [kind : {"ok"}, id : {0} \union {id[c] : c \in Caller},
            port : Port, size : {0, 2}]
             \union {Header("notification", 0, AnyPort, 0)}

Headers(u) == IF u.at = 0 THEN {u.frame} ELSE Garbled

\* Mutant of Pending: the port alone decides.
Pending_ByPort(h) == request[h.port] # NoCaller

\* GetPending: compare_exchange_strong of the id with 0.
Pending(h) == invokeId[h.port] = h.id

\* Mutant of AtOnce: an unknown command is not reported.
AtOnce_Silent(h, c) == CASE h.kind = "unknown"        -> {"waiting"}
                         [] h.kind = "error"          -> DeviceCodes
                         [] h.size > 1 + ask[c].wants -> {"invalidSize"}
                         [] OTHER                     -> {"none"}

\* What ReceiveFrame, or Recv, may answer at once; "none" if it reads on.
AtOnce(h, c) == CASE h.kind = "unknown"        -> {"resInvalid"}
                  [] h.kind = "error"          -> DeviceCodes
                  [] h.size > 1 + ask[c].wants -> {"invalidSize"}
                  [] OTHER                     -> {"none"}

Serve(h, c, code) ==
  [Receiver(IF code = "none" THEN "result" ELSE "answer", h, c, h.size)
     EXCEPT !.code = code]

\* Recv: the headers, and the slot they name.
ReceiveHeader ==
  /\ ~killed /\ rx.at = "header" /\ wire # <<>>
  /\ wire' = Tail(wire)
  /\ \E h \in Headers(Head(wire)) :
       \/ /\ h.kind \in Others \/ ~Pending(h)
          /\ rx' = Junk(h.size)
          /\ UNCHANGED <<invokeId, killed>>
       \/ /\ h.kind \in Answers /\ Pending(h) /\ request[h.port] # NoCaller
          /\ invokeId' = [invokeId EXCEPT ![h.port] = 0]
          /\ \E code \in AtOnce(h, request[h.port]) : rx' = Serve(h, request[h.port], code)
          /\ UNCHANGED killed
       \/ \* the null request of a free slot is followed
          /\ h.kind \in Answers /\ Pending(h) /\ request[h.port] = NoCaller
          /\ killed' = TRUE
          /\ UNCHANGED <<invokeId, rx>>
  /\ UNCHANGED <<errorCode, buffer, aligned>> /\ ByReceiver

Notify(code) == errorCode' = [errorCode EXCEPT ![rx.frame.port] = code]

ServeAtOnce ==
  /\ ~killed /\ rx.at = "answer"
  /\ Notify(rx.code)
  /\ rx' = Junk(rx.left)
  /\ UNCHANGED <<invokeId, buffer, wire, aligned, killed>> /\ ByReceiver

\* bytesLeft is not compared with the size of a result: a shorter answer takes
\* it below 0, and the result is read out of the next frame.
ReceiveResult ==
  /\ ~killed /\ rx.at = "result" /\ wire # <<>>
  /\ wire' = Tail(wire)
  /\ rx' = [rx EXCEPT !.at = "data", !.left = (@ - 1) % SizeModulus]
  /\ aligned' = (aligned /\ rx.left > 0)
  /\ UNCHANGED <<invokeId, errorCode, buffer, killed>> /\ ByReceiver

\* Data goes straight to the buffer of the request.
ReceiveData ==
  /\ ~killed /\ rx.at = "data" /\ rx.got < rx.left /\ wire # <<>>
  /\ \/ /\ rx.got < ask[rx.who].wants
        /\ wire' = Tail(wire)
        /\ buffer' = [buffer EXCEPT ![rx.who] = @ \union {Head(wire).frame.id}]
        /\ rx' = [rx EXCEPT !.got = @ + 1]
        /\ UNCHANGED killed
     \/ \* recv() into the null buffer of a write fails and is called again, for ever
        /\ ask[rx.who].wants = 0 /\ pc[rx.who] # "idle"
        /\ rx' = [rx EXCEPT !.at = "spinning"]
        /\ UNCHANGED <<wire, buffer, killed>>
     \/ \* past the end of the buffer, or into one that is gone with its call
        /\ rx.got >= ask[rx.who].wants /\ (ask[rx.who].wants > 0 \/ pc[rx.who] = "idle")
        /\ killed' = TRUE
        /\ UNCHANGED <<wire, buffer, rx>>
  /\ UNCHANGED <<invokeId, errorCode, aligned>> /\ ByReceiver

\* header.result() of a whole answer.
Results(h) == IF h.kind \in Good THEN {"ok"} ELSE DeviceCodes

ReceiveDone ==
  /\ ~killed /\ rx.at = "data" /\ rx.got = rx.left
  /\ \E code \in Results(rx.frame) : Notify(code)
  /\ rx' = NextFrame
  /\ UNCHANGED <<invokeId, buffer, wire, aligned, killed>> /\ ByReceiver

\* TimeoutEx: what was read of the part is not taken off bytesLeft, so the
\* junk reaches into the next frame.
ReceiveTimesOut ==
  /\ ~killed /\ rx.at \in {"result", "data"} /\ overdue[rx.who]
  /\ \/ /\ \/ rx.at = "result"
           \/ rx.at = "data" /\ (rx.got < rx.left \/ rx.left = 0)
        /\ aligned' = (aligned /\ rx.got = 0)
        /\ UNCHANGED wire
     \/ \* the deadline passes inside the result
        /\ rx.at = "result" /\ wire # <<>>
        /\ aligned' = FALSE
        /\ wire' = Tail(wire)
  /\ Notify("timeout")
  /\ rx' = Junk(rx.left)
  /\ UNCHANGED <<invokeId, buffer, killed>> /\ ByReceiver

\* ReceiveJunk has no deadline.
ReceiveJunk ==
  /\ ~killed /\ rx.at = "junk"
  /\ \/ /\ rx.left = 0
        /\ rx' = NextFrame
        /\ UNCHANGED wire
     \/ /\ rx.left > 0 /\ wire # <<>>
        /\ wire' = Tail(wire)
        /\ rx' = [rx EXCEPT !.left = @ - 1]
  /\ UNCHANGED <<invokeId, errorCode, buffer, aligned, killed>> /\ ByReceiver

Reading == \/ rx.at \in {"header", "result"}
           \/ rx.at = "junk" /\ rx.left > 0
           \/ rx.at = "data" /\ rx.got < rx.left

\* The exception TryRecv catches; nobody is notified.
EndOfStream ==
  /\ ~killed /\ Reading /\ wire = <<>> /\ net # "up"
  /\ rx' = [rx EXCEPT !.at = "ended"]
  /\ UNCHANGED <<invokeId, errorCode, buffer, wire, aligned, killed>> /\ ByReceiver

Receives == ReceiveHeader \/ ReceiveResult \/ ReceiveData \/ ReceiveJunk
Proceeds == ServeAtOnce \/ ReceiveDone \/ ReceiveTimesOut \/ EndOfStream

(***************************************************************************)
(* The destructor.  The owner ends the calls first.                        *)
(***************************************************************************)
\* Mutant of ShutDown: the receiver is joined without a shutdown.
ShutDown_None == net

\* What the destructor makes of the socket before it joins the receiver.
ShutDown == "shut"

Shutdown ==
  /\ ~killed /\ ~destroying /\ \A c \in Caller : pc[c] = "idle"
  /\ destroying' = TRUE /\ net' = ShutDown
  /\ UNCHANGED <<slots, counts, callerVars, wire, rx, device, reached, aligned, killed>>

Joined == destroying /\ rx.at = "ended"

(***************************************************************************)
(* The device answers a request at most once, in any order, and may close  *)
(* the connection; what it has sent may be lost then.                      *)
(***************************************************************************)
ByDevice == UNCHANGED <<slots, counts, callerVars, rx, reached, aligned, process>>

Answer(r, k) ==
  /\ ~killed /\ net = "up" /\ r \in plc
  /\ wire' = wire \o Units(Header(k, r.id, r.port, r.wants))
  /\ plc' = plc \ {r}
  /\ executed' = IF k \in Good THEN executed \union {r.id} ELSE executed
  /\ UNCHANGED <<net, others>> /\ ByDevice

SendOther(k) ==
  /\ ~killed /\ net = "up" /\ calls + others < MaxCalls
  /\ others' = others + 1
  /\ wire' = wire \o Units(Header(k, 0, AnyPort, 0))
  /\ UNCHANGED <<net, plc, executed>> /\ ByDevice

DeviceCloses ==
  /\ ~killed /\ net = "up"
  /\ net' = "closed"
  /\ \E n \in 0 .. Len(wire) : wire' = SubSeq(wire, 1, n)
  /\ UNCHANGED device /\ ByDevice

Device ==
  \/ \E r \in plc, k \in Answers : Answer(r, k)
  \/ \E k \in Others : SendOther(k)
  \/ DeviceCloses

ConnectionNext ==
  \/ \E c \in Caller : Begin(c) \/ CallerStep(c) \/ DeadlinePasses(c)
  \/ Receives \/ Proceeds \/ Shutdown \/ Device

(***************************************************************************)
(* Threads that can run do run, deadlines pass, and recv() on a connection *)
(* that is closed or shut down returns.  Nothing makes the device send.    *)
(***************************************************************************)
ConnectionFairness ==
  /\ \A c \in Caller : WF_connVars(CallerStep(c)) /\ WF_connVars(DeadlinePasses(c))
  /\ WF_connVars(Proceeds \/ (net # "up" /\ Receives) \/ (rx.left = 0 /\ ReceiveJunk))

ConnectionSpec == ConnectionInit /\ [][ConnectionNext]_connVars /\ ConnectionFairness

(***************************************************************************)
(* Properties.                                                             *)
(***************************************************************************)
Statements == {"idle", "reserve", "store", "write", "wait", "answered", "release", "free"}
Codes == {"ok", "error", "resInvalid", "invalidSize", "timeout", "refused"}

\* The variables keep to their sets; a request has an id of 32 bits that is
\* not 0, the id of a slot nobody waits at, also after the counter has wrapped.
ConnTypeOK ==
  /\ request \in [Port -> Caller \union {NoCaller}]
  /\ invokeId \in [Port -> Nat]
  /\ errorCode \in [Port -> Codes \union Unset]
  /\ counter \in Nat /\ calls \in Nat
  /\ pc \in [Caller -> Statements] /\ port \in [Caller -> Port]
  /\ ask \in [Caller -> Requests]
  /\ \A c \in Caller : pc[c] # "idle" => id[c] \in 1 .. IdModulus - 1
  /\ overdue \in [Caller -> BOOLEAN]
  /\ result \in [Caller -> Codes \union {"none"}]
  /\ last \in [Caller -> Codes \union {"none", "invalid"}]
  /\ net \in {"up", "closed", "shut"}
  /\ rx.at \in {"header", "answer", "result", "data", "junk", "ended", "spinning"}

\* A call that returns success finds the answer of its own request in its
\* buffer, and only that, although answers come late, in any order and after
\* the slot has changed hands (GetPending, Wait and Release share the slot
\* through atomics only).
AnswerIsOwn ==
  aligned => \A c \in Caller : result[c] = "ok" => /\ buffer[c] \subseteq {id[c]}
                                                    /\ id[c] \in executed

\* "AmsConnection::recv() is currently processing a response and using the
\* user supplied buffer, we need to wait until that finished"
\* (AmsConnection.cpp:32): while the receiver holds a request, its caller is
\* in Wait and no deadline takes it out, and what is still to be read fits the
\* buffer.  It holds up to the first read that reaches into the next frame, and
\* claims nothing from there: an answer shorter than its result takes bytesLeft
\* below 0 (AmsConnection.cpp:246) and the buffer is overrun.
BufferHeldWhileUsed ==
  rx.at \in {"answer", "result", "data"} /\ aligned =>
    /\ pc[rx.who] \in {"wait", "answered"}
    /\ request[rx.frame.port] = rx.who /\ invokeId[rx.frame.port] = 0
    /\ rx.at = "data" => rx.left <= ask[rx.who].wants

\* An answer whose caller still waits for it is never thrown away as junk: at
\* the moment its header is read the slot holds its id (as long as no read has
\* reached into the next frame, and this one does not either).
WaitedForIsTaken ==
  [][\A c \in Caller :
       /\ pc[c] \in {"wait", "answered"} /\ aligned'
       /\ wire # <<>> /\ wire' = Tail(wire) /\ net' = net
       /\ Head(wire).at = 0 /\ Head(wire).frame.id = id[c]
       => rx'.at \in {"answer", "result"} /\ rx'.who = c]_connVars

\* The answer of c has come but will never be told: the receiver ended or spins
\* in the middle of it, or the device's code is taken for "no answer yet"
\* (AmsConnection.h:18).
Abandoned(c) ==
  /\ pc[c] = "answered" /\ ~Served(c)
  /\ rx.at \in {"ended", "spinning"} \/ errorCode[port[c]] = "reserved"

\* Every call returns, with a device that is silent, late or in error, unless
\* the process has died or overrun a buffer, or the call's own answer was lost
\* half way: its connection ended in the middle of it, it was shorter than its
\* result (and the call has no buffer), or its code is the reserved 0xFFFFFFFF.
CallReturns ==
  \A c \in Caller : pc[c] # "idle" ~> (pc[c] = "idle" \/ killed \/ Abandoned(c))

\* "wait for response or timeout and return received errorCode or
\* ADSERR_CLIENT_SYNCTIMEOUT" (AmsConnection.h:61): every call returns.
WaitReturns == \A c \in Caller : pc[c] # "idle" ~> (pc[c] = "idle" \/ killed)

\* Destruction ends: a receiver blocked in a read without deadline, even in
\* the junk of a frame that never comes, is woken by the shutdown; one that
\* spins because it has no buffer to read into is not.
DestructorEnds == destroying ~> (Joined \/ killed \/ rx.at = "spinning")

(***************************************************************************)
(* AdsRequest implements AdsCalls.                                         *)
(***************************************************************************)
OutcomeOf(code) == CASE code \in {"none", "ok", "timeout", "refused"} -> code
                     [] OTHER -> "error"

Promise == INSTANCE AdsCalls WITH
  Request   <- 1 .. IdModulus - 1,
  NoRequest <- 0,
  current   <- [c \in Caller |-> IF pc[c] = "idle" THEN 0 ELSE id[c]],
  outcome   <- [c \in Caller |-> OutcomeOf(last[c])]

\* Callers see slots, ids and the receiver only as AdsCalls: no call reports
\* success for a request the device has not carried out, and none is refused
\* after its request has reached the device.
KeepsPromise == Promise!CallsSpec
=============================================================================
