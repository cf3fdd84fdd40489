-------------------------- MODULE ConnectionProofs --------------------------
(***************************************************************************)
(* Proofs about AmsConnection for any number of threads, ports and calls   *)
(* below the range of the invoke ids: callers and receiver share a slot    *)
(* through atomics, and yet a caller that returns has nothing of anybody   *)
(* else, and the receiver writes into no buffer that is gone.              *)
(***************************************************************************)
EXTENDS AmsConnection, SequenceTheorems, TLAPS

Frame == [kind : Answers \union Others, id : Nat, port : Port, size : Nat]
Unit  == [frame : Frame, at : Nat]

Serving == rx.at \in {"answer", "result", "data"}

ReceiverTyping ==
  /\ rx \in [at : {"header", "answer", "result", "data", "junk", "ended", "spinning"},
             frame : Frame, who : Caller \union {NoCaller}, left : Nat, got : Nat,
             code : Codes \union {"none", "reserved"}]
  /\ rx.got <= rx.left
  /\ rx.at \notin {"ended", "data", "spinning"} => rx.got = 0
  /\ rx.at = "header" => rx.left = 0
  /\ rx.at = "answer" => rx.code \notin {"none", "ok", "refused"}
  /\ Serving => rx.who \in Caller

ConnTyping ==
  /\ request \in [Port -> Caller \union {NoCaller}]
  /\ invokeId \in [Port -> Nat]
  /\ errorCode \in [Port -> (Codes \ {"refused"}) \union Unset]
  /\ counter \in 0 .. IdModulus - 1 /\ calls \in Nat
  /\ pc \in [Caller -> Statements] /\ port \in [Caller -> Port]
  /\ ask \in [Caller -> Requests] /\ id \in [Caller -> Nat]
  /\ overdue \in [Caller -> BOOLEAN]
  /\ buffer \in [Caller -> SUBSET Nat]
  /\ result \in [Caller -> Codes \union {"none"}]
  /\ last \in [Caller -> Codes \union {"none", "invalid"}]
  /\ net \in {"up", "closed", "shut"}
  /\ wire \in Seq(Unit)
  /\ plc \subseteq [id : Nat, port : Port, wants : Nat]
  /\ calls + others <= MaxCalls /\ others \in Nat
  /\ aligned \in BOOLEAN
  /\ ReceiverTyping

\* Distance of an id from the first one, in the order they are handed out.
Distance(i) == IF i >= FirstId THEN i - FirstId ELSE i + IdModulus - FirstId

Handed(i) == i \in 1 .. IdModulus - 1 /\ Distance(i) < Distance(counter)

\* No id is handed out twice, although the counter wraps and leaves out 0.
IdsAreFresh ==
  /\ Distance(counter) <= calls + 1
  /\ Distance(counter) = calls + 1 => Distance(0) < Distance(counter)
  /\ \A c \in Caller : pc[c] # "idle" => Handed(id[c])
  /\ \A p \in Port : invokeId[p] # 0 => Handed(invokeId[p])
  /\ \A i \in reached : Handed(i)
  /\ executed \subseteq reached
  /\ \A c, d \in Caller : c # d /\ pc[c] # "idle" /\ pc[d] # "idle" => id[c] # id[d]
  /\ \A c \in Caller : pc[c] \in {"reserve", "store", "write"} => id[c] \notin reached

\* Who has a slot.
Holding(c) == pc[c] \in {"store", "write", "wait", "answered", "release", "free"}

SlotsAreHeld ==
  /\ \A p \in Port : request[p] # NoCaller =>
       Holding(request[p]) /\ port[request[p]] = p
  /\ \A c \in Caller : Holding(c) => request[port[c]] = c

\* An id in a slot that the device has been sent is the one of the caller that
\* waits there; ids of writes that failed may stay behind.
IdsAreWaitedFor ==
  /\ \A p \in Port, c \in Caller : pc[c] # "idle" /\ invokeId[p] = id[c] =>
       p = port[c] /\ pc[c] \notin {"reserve", "store"}
  /\ \A p \in Port : invokeId[p] \in reached =>
       /\ request[p] # NoCaller
       /\ pc[request[p]] = "wait" /\ invokeId[p] = id[request[p]]
  /\ \A c \in Caller : pc[c] = "answered" => invokeId[port[c]] = 0

\* An answer names a request that was sent, by its id and its port.
Names(i, p) ==
  i \in reached /\ \A c \in Caller : pc[c] # "idle" /\ id[c] = i => port[c] = p

AnswersRequest(f) ==
  IF f.kind \in Others THEN f.id = 0
  ELSE Names(f.id, f.port) /\ (f.kind \in Good => f.id \in executed)

AnswersAreAsked ==
  /\ \A r \in plc : Names(r.id, r.port) /\ r.id \notin executed
  /\ \A r, s \in plc : r.id = s.id => r = s
  /\ \A n \in 1 .. Len(wire) : AnswersRequest(wire[n].frame)

\* The units of a frame follow each other to its end while the connection is up.
Follows(u, v) ==
  IF u.at = u.frame.size THEN v.at = 0 ELSE v.frame = u.frame /\ v.at = u.at + 1

FramesAreWhole ==
  /\ \A n \in 1 .. Len(wire) - 1 : Follows(wire[n], wire[n + 1])
  /\ net = "up" /\ wire # <<>> => wire[Len(wire)].at = wire[Len(wire)].frame.size

\* The receiver stands in a frame where it believes it does.
InStep ==
  IF wire = <<>> THEN net # "up" \/ rx.left = rx.got
  ELSE IF rx.left = rx.got THEN wire[1].at = 0
  ELSE /\ wire[1].at = wire[1].frame.size + 1 - (rx.left - rx.got)
       /\ rx.left - rx.got <= wire[1].frame.size
       /\ Serving => wire[1].frame = rx.frame

\* The request that is served: its caller cannot leave Wait.
ServesWaiting ==
  Serving =>
    /\ pc[rx.who] \in {"wait", "answered"}
    /\ port[rx.who] = rx.frame.port /\ id[rx.who] = rx.frame.id
    /\ invokeId[rx.frame.port] = 0 /\ errorCode[rx.frame.port] = "waiting"
    /\ rx.frame.kind \in Answers /\ rx.frame.id \in reached
    /\ rx.frame.kind \in Good => rx.frame.id \in executed
    /\ rx.at = "result" => rx.left <= 1 + ask[rx.who].wants
    /\ rx.at = "data" => rx.left <= ask[rx.who].wants

\* What an answer may be: of a request the device has been sent, or carried out.
Earned(code, i) ==
  /\ code = "ok" => i \in executed
  /\ code \in {"error", "reserved", "resInvalid", "invalidSize"} => i \in reached

ResultsAreEarned ==
  /\ \A p \in Port : errorCode[p] # "waiting" =>
       /\ request[p] # NoCaller
       /\ pc[request[p]] \in {"wait", "answered", "release"}
       /\ invokeId[p] \notin reached
       /\ Earned(errorCode[p], id[request[p]])
  /\ \A c \in Caller : buffer[c] \subseteq {id[c]} /\ (pc[c] = "idle" => buffer[c] = {})
  /\ \A c \in Caller : Earned(result[c], id[c])

ResultsAreSet ==
  \A c \in Caller :
    /\ result[c] # "none" <=> pc[c] \in {"release", "free"}
    /\ result[c] = "refused" => id[c] \notin reached

ConnInv ==
  /\ ConnTyping /\ IdsAreFresh /\ SlotsAreHeld /\ IdsAreWaitedFor
  /\ AnswersAreAsked /\ FramesAreWhole /\ ResultsAreSet
  /\ aligned => InStep /\ ServesWaiting /\ ResultsAreEarned
-----------------------------------------------------------------------------
\* Frames and their units.
LEMMA HeaderTyping ==
  ASSUME NEW k \in Answers \union Others, NEW i \in Nat, NEW p \in Port, NEW n \in Nat
  PROVE  Header(k, i, p, n) \in Frame
<1>1. SizeOf(k, n) \in Nat
  BY DEF SizeOf
<1> QED
  BY <1>1 DEF Header, Frame

LEMMA AnyPortTyping == AnyPort \in Port
  BY ConnectionAssumption DEF AnyPort

LEMMA NoHeaderTyping == NoHeader \in Frame
  BY HeaderTyping, AnyPortTyping DEF NoHeader, Others

LEMMA UnitsTyping ==
  ASSUME NEW h \in Frame
  PROVE  /\ Units(h) \in Seq(Unit) /\ Len(Units(h)) = 1 + h.size
         /\ \A n \in 1 .. 1 + h.size : Units(h)[n] = [frame |-> h, at |-> n - 1]
<1>1. h.size \in Nat
  BY DEF Frame
<1>2. \A n \in 1 .. 1 + h.size : [frame |-> h, at |-> n - 1] \in Unit
  BY <1>1 DEF Unit
<1> QED
  BY <1>1, <1>2 DEF Units

LEMMA RequestsTyping ==
  /\ DeleteNotification \in Requests
  /\ \A r \in Requests : r.wants \in Nat /\ r.wants < SizeModulus
<1> USE ConnectionAssumption
<1>1. \A cmd, n : AmsRequest(cmd, n).wants = n
  BY DEF AmsRequest
<1> QED
  BY <1>1 DEF Requests, AdsSyncReadReqEx2, AdsSyncReadDeviceInfoReqEx,
    AdsSyncReadStateReqEx, AdsSyncReadWriteReqEx2, AdsSyncWriteReqEx,
    AdsSyncWriteControlReqEx, AdsSyncAddDeviceNotificationReqEx, DeleteNotification

\* The start of the connection.
LEMMA ConnectionStarts == ConnectionInit => ConnInv
<1> SUFFICES ASSUME ConnectionInit PROVE ConnInv
  OBVIOUS
<1> USE ConnectionAssumption, AnyPortTyping, NoHeaderTyping, RequestsTyping
    DEF ConnectionInit
<1>1. ReceiverTyping
  BY DEF ReceiverTyping, NextFrame, Receiver, Serving
<1>2. ConnTyping
  BY <1>1 DEF ConnTyping, Statements, Codes, Unset
<1>3. IdsAreFresh
  BY DEF IdsAreFresh, Distance
<1>4. SlotsAreHeld /\ IdsAreWaitedFor /\ ResultsAreSet
  BY DEF SlotsAreHeld, Holding, IdsAreWaitedFor, ResultsAreSet
<1>5. AnswersAreAsked /\ FramesAreWhole
  BY DEF AnswersAreAsked, FramesAreWhole
<1>6. InStep /\ ServesWaiting /\ ResultsAreEarned
  BY DEF InStep, ServesWaiting, Serving, ResultsAreEarned, Earned, NextFrame, Receiver
<1> QED
  BY <1>2, <1>3, <1>4, <1>5, <1>6 DEF ConnInv

-----------------------------------------------------------------------------
\* What depends on frames and on callers only by their requests.
LEMMA FramesStay ==
  ASSUME ConnInv, UNCHANGED <<net, wire>>
  PROVE  FramesAreWhole'
BY DEF ConnInv, FramesAreWhole, Follows

LEMMA StaysInStep ==
  ASSUME ConnInv, aligned, UNCHANGED <<net, wire, rx>>
  PROVE  InStep'
BY DEF ConnInv, InStep, Serving

\* A caller that goes on keeps the name of its request.
LEMMA NamesStay ==
  ASSUME ConnInv, UNCHANGED <<wire, plc, reached, executed>>,
         \A c \in Caller : pc'[c] # "idle" =>
           pc[c] # "idle" /\ id'[c] = id[c] /\ port'[c] = port[c]
  PROVE  AnswersAreAsked'
<1>1. ASSUME NEW i, NEW p, Names(i, p) PROVE Names(i, p)'
  BY <1>1 DEF Names
<1>2. ASSUME NEW f, AnswersRequest(f) PROVE AnswersRequest(f)'
  BY <1>1, <1>2 DEF AnswersRequest
<1> QED
  BY <1>1, <1>2 DEF ConnInv, AnswersAreAsked

LEMMA Wrap ==
  ASSUME NEW M \in Nat \ {0}, NEW n \in 0 .. M
  PROVE  n % M = IF n = M THEN 0 ELSE n
<1>1. n # M => n % M = n
  OBVIOUS
<1>2. M % M = 0
  OBVIOUS
<1> QED
  BY <1>1, <1>2

\* The id a new request gets.
LEMMA NextIdIsFresh ==
  ASSUME ConnTyping, IdsAreFresh, calls < MaxCalls, counter' = (NextId + 1) % IdModulus
  PROVE  /\ NextId \in 1 .. IdModulus - 1 /\ ~Handed(NextId)
         /\ counter' \in 0 .. IdModulus - 1
         /\ Distance(counter') <= calls + 2
         /\ Distance(counter') = calls + 2 => Distance(0) < Distance(counter')
         /\ Distance(NextId) < Distance(counter') /\ Distance(counter) <= Distance(counter')
<1> USE ConnectionAssumption DEF ConnTyping
<1>1. NextId \in 1 .. IdModulus - 1
  BY DEF NextId
<1>2. (NextId + 1) % IdModulus = IF NextId + 1 = IdModulus THEN 0 ELSE NextId + 1
  <2>1. NextId + 1 \in 0 .. IdModulus /\ IdModulus \in Nat \ {0}
    BY <1>1
  <2> HIDE DEF ConnTyping
  <2> QED
    BY <2>1, Wrap
<1>3. counter' = IF NextId + 1 = IdModulus THEN 0 ELSE NextId + 1
  BY <1>2
<1>4. counter \in 0 .. IdModulus - 1 /\ calls \in Nat /\ Distance(counter) \in Nat
  BY DEF Distance
<1> HIDE DEF ConnTyping
<1>5. /\ Distance(counter) <= calls + 1 /\ Distance(counter) <= MaxCalls
      /\ Distance(counter) = calls + 1 => Distance(0) < Distance(counter)
  BY <1>4 DEF IdsAreFresh
<1>6. Distance(NextId) >= Distance(counter)
  BY <1>4, <1>5 DEF Distance, NextId
<1>7. /\ Distance(counter') = Distance(NextId) + 1
      /\ Distance(counter') <= calls + 2
      /\ Distance(counter') = calls + 2 => Distance(0) < Distance(counter')
  BY <1>3, <1>4, <1>5 DEF Distance, NextId
<1>8. counter' \in 0 .. IdModulus - 1
  BY <1>1, <1>3
<1>9. Distance(NextId) \in Nat /\ Distance(counter) \in Nat
  BY <1>1, <1>4 DEF Distance
<1> QED
  BY <1>1, <1>6, <1>7, <1>8, <1>9 DEF Handed
-----------------------------------------------------------------------------
\* Parts of the invariant a step leaves alone; Unsent callers have an id the
\* device does not know.
Unsent == {"reserve", "store", "write"}

LEMMA FreshStays ==
  ASSUME ConnInv, UNCHANGED <<counter, calls, reached>>,
         executed' \subseteq executed \union reached,
         \A d \in Caller : pc'[d] # "idle" =>
           /\ pc[d] # "idle" /\ id'[d] = id[d]
           /\ pc'[d] \in Unsent => pc[d] \in Unsent,
         \A p \in Port : invokeId'[p] # 0 =>
           \/ invokeId'[p] = invokeId[p]
           \/ \E d \in Caller : pc[d] # "idle" /\ invokeId'[p] = id[d]
  PROVE  IdsAreFresh'
<1>1. IdsAreFresh
  BY DEF ConnInv
<1>2. \A i : Handed(i) => Handed(i)'
  BY DEF Handed, Distance
<1>3. /\ \A d \in Caller : pc'[d] # "idle" => Handed(id[d])'
      /\ \A p \in Port : invokeId'[p] # 0 => Handed(invokeId[p])'
      /\ \A i \in reached' : Handed(i)'
  BY <1>1, <1>2 DEF IdsAreFresh
<1>4. \A c, d \in Caller : c # d /\ pc'[c] # "idle" /\ pc'[d] # "idle" => id'[c] # id'[d]
  BY <1>1 DEF IdsAreFresh
<1>5. \A d \in Caller : pc'[d] \in {"reserve", "store", "write"} => id'[d] \notin reached'
  BY <1>1 DEF IdsAreFresh, Unsent
<1>6. /\ Distance(counter') <= calls' + 1
      /\ Distance(counter') = calls' + 1 => Distance(0) < Distance(counter')
      /\ executed' \subseteq reached'
  BY <1>1 DEF IdsAreFresh
<1> QED
  BY <1>3, <1>4, <1>5, <1>6 DEF IdsAreFresh, Distance

LEMMA NoSlotHasAnIdle ==
  ASSUME ConnInv
  PROVE  0 \notin reached /\ \A d \in Caller : pc[d] # "idle" => id[d] # 0
BY ConnectionAssumption DEF ConnInv, IdsAreFresh, Handed

LEMMA WaitedForStays ==
  ASSUME ConnInv, UNCHANGED reached,
         \A p \in Port : invokeId'[p] \in {0, invokeId[p]},
         \A d \in Caller : pc'[d] # "idle" =>
           /\ pc[d] # "idle" /\ id'[d] = id[d] /\ port'[d] = port[d]
           /\ pc'[d] \in {"reserve", "store"} => pc[d] \in {"reserve", "store"}
           /\ pc'[d] = "answered" => invokeId'[port[d]] = 0,
         \A p \in Port : invokeId'[p] # 0 /\ request[p] # NoCaller /\ pc[request[p]] = "wait"
           => request'[p] = request[p] /\ pc'[request[p]] = "wait"
  PROVE  IdsAreWaitedFor'
<1>1. IdsAreWaitedFor
  BY DEF ConnInv
<1>2. ASSUME NEW p \in Port, NEW d \in Caller, pc'[d] # "idle", invokeId'[p] = id'[d]
      PROVE  p = port'[d] /\ pc'[d] \notin {"reserve", "store"}
  BY <1>1, <1>2, NoSlotHasAnIdle DEF IdsAreWaitedFor
<1>3. ASSUME NEW p \in Port, invokeId'[p] \in reached'
      PROVE  /\ request'[p] # NoCaller
             /\ pc'[request'[p]] = "wait" /\ invokeId'[p] = id'[request'[p]]
  <2>1. invokeId'[p] = invokeId[p] /\ invokeId[p] \in reached /\ invokeId'[p] # 0
    BY <1>3, NoSlotHasAnIdle
  <2>2. /\ request[p] # NoCaller /\ pc[request[p]] = "wait"
        /\ invokeId[p] = id[request[p]]
    BY <1>1, <2>1 DEF IdsAreWaitedFor
  <2>3. request[p] \in Caller
    BY <2>2 DEF ConnInv, ConnTyping
  <2> QED
    BY <2>1, <2>2, <2>3
<1> QED
  BY <1>2, <1>3 DEF IdsAreWaitedFor

LEMMA SlotsStay ==
  ASSUME ConnInv, UNCHANGED request,
         \A d \in Caller : (Holding(d)' <=> Holding(d)) /\ (Holding(d) => port'[d] = port[d])
  PROVE  SlotsAreHeld'
BY DEF ConnInv, ConnTyping, SlotsAreHeld

LEMMA ServiceStays ==
  ASSUME ConnInv, aligned, UNCHANGED rx,
         reached \subseteq reached', executed \subseteq executed',
         Serving =>
           /\ pc'[rx.who] \in {"wait", "answered"} /\ port'[rx.who] = port[rx.who]
           /\ id'[rx.who] = id[rx.who] /\ ask'[rx.who] = ask[rx.who]
           /\ invokeId'[rx.frame.port] = 0 /\ errorCode'[rx.frame.port] = "waiting"
  PROVE  ServesWaiting'
<1>1. ServesWaiting /\ (Serving' <=> Serving)
  BY DEF ConnInv, Serving
<1> QED
  BY <1>1 DEF ServesWaiting

LEMMA EarnedStays ==
  ASSUME ConnInv, aligned, UNCHANGED reached, executed \subseteq executed',
         \A p \in Port : errorCode'[p] # "waiting" =>
           /\ errorCode'[p] = errorCode[p] /\ request'[p] = request[p]
           /\ invokeId'[p] \in {0, invokeId[p]}
           /\ request[p] \in Caller => /\ id'[request[p]] = id[request[p]]
                                       /\ pc'[request[p]] \in {"wait", "answered", "release"},
         \A d \in Caller : buffer'[d] = {} \/
           (buffer'[d] = buffer[d] /\ id'[d] = id[d] /\ pc'[d] # "idle"),
         \A d \in Caller : result'[d] = "none" \/ Earned(result'[d], id'[d])
  PROVE  ResultsAreEarned'
<1>1. ResultsAreEarned
  BY DEF ConnInv
<1>2. \A code, i : Earned(code, i) => Earned(code, i)'
  BY DEF Earned
<1>3. ASSUME NEW p \in Port, errorCode'[p] # "waiting"
      PROVE  /\ request'[p] # NoCaller
             /\ pc'[request'[p]] \in {"wait", "answered", "release"}
             /\ invokeId'[p] \notin reached'
             /\ Earned(errorCode[p], id[request[p]])'
  <2>1. /\ request[p] \in Caller /\ invokeId[p] \notin reached
        /\ Earned(errorCode[p], id[request[p]])
    BY <1>1, <1>3 DEF ResultsAreEarned, ConnInv, ConnTyping
  <2>2. request[p] # NoCaller
    BY <2>1, ConnectionAssumption
  <2> QED
    BY <1>2, <1>3, <2>1, <2>2, NoSlotHasAnIdle
<1>4. \A d \in Caller : buffer'[d] \subseteq {id'[d]} /\ (pc'[d] = "idle" => buffer'[d] = {})
  BY <1>1 DEF ResultsAreEarned
<1>5. \A d \in Caller : Earned(result[d], id[d])'
  BY <1>2 DEF Earned
<1> QED
  BY <1>3, <1>4, <1>5 DEF ResultsAreEarned
-----------------------------------------------------------------------------
\* The steps of AdsRequest.
LEMMA BeginKeeps ==
  ASSUME ConnInv, NEW c \in Caller, Begin(c)
  PROVE  ConnInv'
<1> USE ConnectionAssumption
<1>1. /\ pc[c] = "idle" /\ calls + others < MaxCalls /\ calls' = calls + 1
      /\ UNCHANGED <<slots, overdue, buffer, result>> /\ Locally
      /\ calls \in Nat /\ others \in Nat /\ calls < MaxCalls
  BY DEF Begin, slots, ConnInv, ConnTyping
<1>2. FramesAreWhole' /\ (aligned => InStep')
  BY <1>1, FramesStay, StaysInStep DEF Locally
<1>3. CASE /\ last' = [last EXCEPT ![c] = "invalid"]
           /\ UNCHANGED <<counter, pc, port, ask, id>>
  <2>1. ConnTyping'
    BY <1>1, <1>3
    DEF ConnInv, ConnTyping, ReceiverTyping, Serving, slots, Locally, device, process
  <2>2. IdsAreFresh'
    <3>1. \A i : Handed(i)' <=> Handed(i)
      BY <1>3 DEF Handed, Distance
    <3>2. Distance(counter)' = Distance(counter) /\ Distance(counter) \in Int
      BY <1>3 DEF Distance, ConnInv, ConnTyping
    <3>3. /\ Distance(counter)' <= calls' + 1
          /\ Distance(counter)' = calls' + 1 => Distance(0)' < Distance(counter)'
      BY <1>1, <3>2 DEF ConnInv, IdsAreFresh
    <3> QED
      BY <1>1, <1>3, <3>1, <3>3 DEF ConnInv, IdsAreFresh, slots, Locally, device
  <2>3. SlotsAreHeld' /\ IdsAreWaitedFor' /\ ResultsAreSet'
    BY <1>1, <1>3 DEF ConnInv, SlotsAreHeld, Holding, IdsAreWaitedFor, ResultsAreSet,
      slots, Locally, device
  <2>4. AnswersAreAsked'
    BY <1>1, <1>3 DEF ConnInv, AnswersAreAsked, AnswersRequest, Names, Locally, device
  <2>5. aligned => ServesWaiting' /\ ResultsAreEarned'
    BY <1>1, <1>3 DEF ConnInv, ServesWaiting, Serving, ResultsAreEarned, Earned, slots,
      Locally, device
  <2> QED
    BY <1>1, <1>2, <2>1, <2>2, <2>3, <2>4, <2>5 DEF ConnInv, Locally
<1>4. ASSUME NEW p \in Port, NEW r \in Requests, NEW n, n = NextId,
             /\ port' = [port EXCEPT ![c] = p]
             /\ ask' = [ask EXCEPT ![c] = r]
             /\ id' = [id EXCEPT ![c] = n]
             /\ counter' = (n + 1) % IdModulus
             /\ pc' = [pc EXCEPT ![c] = "reserve"]
             /\ UNCHANGED last
      PROVE  ConnInv'
  <2>1. /\ n \in 1 .. IdModulus - 1 /\ ~Handed(n)
        /\ counter' \in 0 .. IdModulus - 1
        /\ Distance(counter') <= calls + 2
        /\ Distance(counter') = calls + 2 => Distance(0) < Distance(counter')
        /\ Distance(n) < Distance(counter') /\ Distance(counter) <= Distance(counter')
    BY <1>1, <1>4, NextIdIsFresh DEF ConnInv
  <2>2. /\ \A d \in Caller \ {c} : /\ pc'[d] = pc[d] /\ id'[d] = id[d] /\ port'[d] = port[d]
                                   /\ ask'[d] = ask[d]
        /\ pc'[c] = "reserve" /\ id'[c] = n
    BY <1>4 DEF ConnInv, ConnTyping
  <2>3. /\ n \notin reached /\ \A q \in Port : invokeId[q] # n
        /\ \A d \in Caller : pc[d] # "idle" => id[d] # n
    BY <2>1 DEF ConnInv, IdsAreFresh
  <2>4. UNCHANGED <<request, invokeId, errorCode, buffer, result, overdue, wire, rx, net, plc,
                    executed, reached, aligned, others>>
    BY <1>1 DEF slots, Locally, device
  <2>5. ConnTyping'
    <3>1. /\ pc' \in [Caller -> Statements] /\ port' \in [Caller -> Port]
          /\ ask' \in [Caller -> Requests] /\ id' \in [Caller -> Nat]
      BY <1>4, <2>1 DEF ConnInv, ConnTyping, Statements
    <3>2. ReceiverTyping'
      BY <2>4 DEF ConnInv, ConnTyping, ReceiverTyping, Serving
    <3>3. /\ calls' \in Nat /\ calls' + others' <= MaxCalls
          /\ last' \in [Caller -> Codes \union {"none", "invalid"}]
      BY <1>1, <1>4, <2>4 DEF ConnInv, ConnTyping
    <3> QED
      BY <2>1, <2>4, <3>1, <3>2, <3>3 DEF ConnInv, ConnTyping
  <2>6. IdsAreFresh'
    <3>1. /\ Distance(counter)' \in Int /\ Distance(counter) \in Int
          /\ \A i \in 1 .. IdModulus - 1 : Distance(i) \in Int
      BY <2>1 DEF Distance, ConnInv, ConnTyping
    <3>2. Distance(counter)' = Distance(counter') /\ Distance(0)' = Distance(0)
      BY DEF Distance
    <3>3. \A i : Handed(i) => Handed(i)'
      BY <2>1, <3>1, <3>2 DEF Handed
    <3>4. Handed(n)'
      BY <2>1, <3>2 DEF Handed
    <3>5. /\ Distance(counter)' <= calls' + 1
          /\ Distance(counter)' = calls' + 1 => Distance(0)' < Distance(counter)'
      BY <1>1, <2>1, <3>2
    <3>6. \A d \in Caller : pc'[d] # "idle" => Handed(id[d])'
      BY <2>2, <3>3, <3>4 DEF ConnInv, IdsAreFresh
    <3>7. \A d, e \in Caller : d # e /\ pc'[d] # "idle" /\ pc'[e] # "idle" => id'[d] # id'[e]
      BY <2>2, <2>3 DEF ConnInv, IdsAreFresh
    <3>8. \A d \in Caller : pc'[d] \in {"reserve", "store", "write"} => id'[d] \notin reached'
      BY <2>2, <2>3, <2>4 DEF ConnInv, IdsAreFresh
    <3> QED
      BY <2>4, <3>3, <3>5, <3>6, <3>7, <3>8 DEF ConnInv, IdsAreFresh
  <2>7. SlotsAreHeld' /\ ResultsAreSet'
    <3>1. \A d \in Caller : (Holding(d)' <=> Holding(d)) /\ (Holding(d) => d # c)
      BY <1>1, <2>2 DEF Holding
    <3>2. SlotsAreHeld'
      BY <2>2, <2>4, <3>1, SlotsStay
    <3>3. ResultsAreSet'
      BY <1>1, <2>2, <2>4 DEF ConnInv, ResultsAreSet
    <3> QED
      BY <3>2, <3>3
  <2>8. IdsAreWaitedFor'
    <3>1. \A q \in Port, d \in Caller : pc'[d] # "idle" /\ invokeId'[q] = id'[d] =>
            q = port'[d] /\ pc'[d] \notin {"reserve", "store"}
      BY <2>2, <2>3, <2>4 DEF ConnInv, IdsAreWaitedFor
    <3>2. \A q \in Port : invokeId[q] \in reached => request[q] \in Caller \ {c}
      BY <1>1 DEF ConnInv, ConnTyping, IdsAreWaitedFor
    <3> QED
      BY <2>2, <2>4, <3>1, <3>2 DEF ConnInv, IdsAreWaitedFor
  <2>9. AnswersAreAsked'
    <3>1. ASSUME NEW i, NEW q, Names(i, q) PROVE Names(i, q)'
      BY <2>2, <2>3, <2>4, <3>1 DEF Names
    <3> QED
      BY <2>4, <3>1 DEF ConnInv, AnswersAreAsked, AnswersRequest
  <2>10. aligned => ServesWaiting'
    <3> SUFFICES ASSUME aligned, Serving PROVE ServesWaiting'
      BY <2>4 DEF ServesWaiting, Serving
    <3>1. rx.who # c /\ rx.who \in Caller
      BY <1>1 DEF ConnInv, ServesWaiting, ConnTyping, ReceiverTyping
    <3> QED
      BY <2>2, <2>4, <3>1, ServiceStays DEF ConnInv, ServesWaiting
  <2>11. aligned => ResultsAreEarned'
    <3> SUFFICES ASSUME aligned PROVE ResultsAreEarned'
      OBVIOUS
    <3>1. result[c] = "none" /\ buffer[c] = {}
      BY <1>1 DEF ConnInv, ResultsAreSet, ResultsAreEarned
    <3>2. \A q \in Port : errorCode[q] # "waiting" => request[q] # c
      BY <1>1 DEF ConnInv, ResultsAreEarned
    <3>3. \A q \in Port : errorCode[q] # "waiting" =>
            pc[request[q]] \in {"wait", "answered", "release"}
      BY DEF ConnInv, ResultsAreEarned
    <3>4. \A d \in Caller : buffer'[d] = {} \/
            (buffer'[d] = buffer[d] /\ id'[d] = id[d] /\ pc'[d] # "idle")
      BY <2>2, <2>4, <3>1 DEF ConnInv, ResultsAreEarned
    <3>5. \A d \in Caller : result'[d] = "none" \/ Earned(result'[d], id'[d])
      BY <2>2, <2>4, <3>1 DEF ConnInv, ResultsAreEarned
    <3> QED
      BY <2>2, <2>4, <3>2, <3>3, <3>4, <3>5, EarnedStays
  <2> QED
    BY <1>2, <2>4, <2>5, <2>6, <2>7, <2>8, <2>9, <2>10, <2>11 DEF ConnInv
<1> QED
  BY <1>3, <1>4, <1>1, CallsOfAssumption DEF Begin, Goto
\* Steps of one caller that leave the others, the receiver and the device alone.
GoesOn(c) ==
  /\ \A d \in Caller \ {c} :
       /\ pc'[d] = pc[d] /\ port'[d] = port[d] /\ ask'[d] = ask[d] /\ id'[d] = id[d]
       /\ buffer'[d] = buffer[d] /\ result'[d] = result[d]
  /\ pc'[c] # "idle" =>
       /\ pc[c] # "idle" /\ port'[c] = port[c] /\ ask'[c] = ask[c] /\ id'[c] = id[c]
       /\ buffer'[c] = buffer[c]
  /\ pc'[c] = "idle" => buffer'[c] = {} /\ result'[c] = "none"

LEMMA LocalStep ==
  ASSUME ConnInv, NEW c \in Caller, Locally, GoesOn(c), UNCHANGED counts,
         \A q \in Port : invokeId'[q] \in {0, invokeId[q]},
         \A q \in Port : errorCode'[q] \in {"waiting", errorCode[q]},
         pc'[c] \in Unsent => pc[c] \in Unsent,
         pc[c] \in {"wait", "answered"} /\ invokeId[port[c]] = 0
           /\ errorCode[port[c]] = "waiting" => pc'[c] \in {"wait", "answered"}
  PROVE  /\ UNCHANGED <<wire, rx, net, plc, others, reached, executed, aligned, killed>>
         /\ IdsAreFresh' /\ AnswersAreAsked' /\ FramesAreWhole'
         /\ aligned => InStep' /\ ServesWaiting'
<1>1. UNCHANGED <<wire, rx, net, plc, others, reached, executed, aligned, killed, counter, calls>>
  BY DEF Locally, device, counts, process
<1>2. \A d \in Caller : pc'[d] # "idle" =>
        /\ pc[d] # "idle" /\ id'[d] = id[d] /\ port'[d] = port[d]
        /\ pc'[d] \in Unsent => pc[d] \in Unsent
  BY DEF GoesOn
<1>3. IdsAreFresh'
  BY <1>1, <1>2, FreshStays
<1>4. AnswersAreAsked' /\ FramesAreWhole' /\ (aligned => InStep')
  BY <1>1, <1>2, NamesStay, FramesStay, StaysInStep
<1>5. ASSUME aligned PROVE ServesWaiting'
  <2>1. ASSUME Serving
        PROVE  /\ rx.who \in Caller /\ rx.frame.port \in Port
               /\ pc[rx.who] \in {"wait", "answered"} /\ port[rx.who] = rx.frame.port
               /\ invokeId[rx.frame.port] = 0 /\ errorCode[rx.frame.port] = "waiting"
    BY <1>5, <2>1 DEF ConnInv, ConnTyping, ReceiverTyping, ServesWaiting, Frame
  <2>2. ASSUME Serving
        PROVE  /\ pc'[rx.who] \in {"wait", "answered"} /\ port'[rx.who] = port[rx.who]
               /\ id'[rx.who] = id[rx.who] /\ ask'[rx.who] = ask[rx.who]
               /\ invokeId'[rx.frame.port] = 0 /\ errorCode'[rx.frame.port] = "waiting"
    BY <2>1, <2>2 DEF GoesOn
  <2> QED
    BY <1>1, <1>5, <2>2, ServiceStays
<1> QED
  BY <1>1, <1>3, <1>4, <1>5

LEMMA ReserveKeeps ==
  ASSUME ConnInv, NEW c \in Caller, Reserve(c)
  PROVE  ConnInv'
<1> USE ConnectionAssumption
<1>1. /\ pc[c] = "reserve" /\ UNCHANGED <<invokeId, errorCode, counts>> /\ Locally
  BY DEF Reserve
<1>2. /\ port[c] \in Port /\ id[c] # 0 /\ id[c] \notin reached
      /\ \A q \in Port : request[q] # c
  <2>1. port[c] \in Port /\ id[c] # 0 /\ id[c] \notin reached
    BY <1>1, NoSlotHasAnIdle DEF ConnInv, ConnTyping, IdsAreFresh
  <2>2. ~Holding(c) /\ c # NoCaller
    BY <1>1 DEF Holding
  <2>3. \A q \in Port : request[q] # c
    BY <2>2 DEF ConnInv, SlotsAreHeld
  <2> QED
    BY <2>1, <2>3
<1>3. CASE /\ request[port[c]] = NoCaller
           /\ request' = [request EXCEPT ![port[c]] = c]
           /\ Goto(c, "store") /\ UNCHANGED <<port, ask, id, overdue, buffer, result, last>>
  <2>1. pc' = [pc EXCEPT ![c] = "store"]
    BY <1>3 DEF Goto
  <2>2. GoesOn(c) /\ pc'[c] = "store" /\ \A d \in Caller \ {c} : pc'[d] = pc[d]
    BY <1>1, <1>3, <2>1 DEF GoesOn, ConnInv, ConnTyping
  <2>3. /\ UNCHANGED <<wire, rx, net, plc, others, reached, executed, aligned, killed>>
        /\ IdsAreFresh' /\ AnswersAreAsked' /\ FramesAreWhole'
        /\ aligned => InStep' /\ ServesWaiting'
    BY <1>1, <2>2, LocalStep DEF Unsent
  <2>4. ConnTyping'
    BY <1>1, <1>2, <1>3, <2>1, <2>3
    DEF ConnInv, ConnTyping, ReceiverTyping, Serving, counts, Statements
  <2>5. \A q \in Port : request'[q] = IF q = port[c] THEN c ELSE request[q]
    BY <1>2, <1>3 DEF ConnInv, ConnTyping
  <2>6. SlotsAreHeld'
    <3>1. \A d \in Caller \ {c} : Holding(d)' <=> Holding(d)
      BY <2>2 DEF Holding
    <3>2. Holding(c)' /\ ~Holding(c)
      BY <1>1, <2>2 DEF Holding
    <3>3. \A d \in Caller \ {c} : Holding(d) => port[d] # port[c]
      BY <1>3 DEF ConnInv, SlotsAreHeld
    <3>4. \A q \in Port : request'[q] # NoCaller => Holding(request[q])' /\ port'[request'[q]] = q
      BY <1>2, <1>3, <2>5, <3>1, <3>2 DEF ConnInv, ConnTyping, SlotsAreHeld
    <3>5. \A d \in Caller : Holding(d)' => request'[port'[d]] = d
      BY <1>2, <1>3, <2>5, <3>1, <3>3 DEF ConnInv, ConnTyping, SlotsAreHeld
    <3> QED
      BY <3>4, <3>5 DEF SlotsAreHeld
  <2>7. IdsAreWaitedFor'
    BY <1>1, <1>2, <1>3, <2>2, <2>3, <2>5, WaitedForStays DEF ConnInv, ConnTyping, IdsAreWaitedFor
  <2>8. ResultsAreSet'
    BY <1>1, <1>3, <2>2, <2>3 DEF ConnInv, ResultsAreSet
  <2>9. aligned => ResultsAreEarned'
    <3> SUFFICES ASSUME aligned PROVE ResultsAreEarned'
      OBVIOUS
    <3>1. \A q \in Port : errorCode[q] # "waiting" =>
            /\ q # port[c] /\ request[q] # c
            /\ pc[request[q]] \in {"wait", "answered", "release"}
      BY <1>2, <1>3 DEF ConnInv, ResultsAreEarned
    <3> QED
      BY <1>1, <1>3, <2>2, <2>3, <2>5, <3>1, EarnedStays DEF ConnInv, ResultsAreEarned
  <2> QED
    BY <2>3, <2>4, <2>6, <2>7, <2>8, <2>9 DEF ConnInv
<1>4. CASE Return(c, "refused") /\ UNCHANGED request
  <2>1. /\ pc' = [pc EXCEPT ![c] = "idle"] /\ result' = [result EXCEPT ![c] = "none"]
        /\ buffer' = [buffer EXCEPT ![c] = {}]
        /\ \A d \in Caller \ {c} : /\ pc'[d] = pc[d] /\ result'[d] = result[d]
                                   /\ id'[d] = id[d] /\ buffer'[d] = buffer[d]
        /\ pc'[c] = "idle" /\ result'[c] = "none" /\ buffer'[c] = {}
        /\ GoesOn(c)
    BY <1>4 DEF Return, Goto, GoesOn, ConnInv, ConnTyping
  <2>2. /\ UNCHANGED <<wire, rx, net, plc, others, reached, executed, aligned, killed>>
        /\ IdsAreFresh' /\ AnswersAreAsked' /\ FramesAreWhole'
        /\ aligned => InStep' /\ ServesWaiting'
    BY <1>1, <2>1, LocalStep DEF Unsent
  <2>3. ConnTyping'
    BY <1>1, <1>4, <2>1, <2>2, AnyPortTyping, RequestsTyping
    DEF Return, ConnInv, ConnTyping, ReceiverTyping, Serving, counts, Statements, Codes
  <2>4. SlotsAreHeld'
    <3>1. \A d \in Caller : (Holding(d)' <=> Holding(d)) /\ (Holding(d) => d # c)
      BY <1>1, <2>1 DEF Holding
    <3> QED
      BY <1>4, <2>1, <3>1, SlotsStay DEF GoesOn
  <2>5. IdsAreWaitedFor'
    <3>1. /\ UNCHANGED <<reached, invokeId, request>>
          /\ \A p \in Port : request[p] # c
      BY <1>1, <1>2, <1>4, <2>2
    <3>2. \A d \in Caller : pc'[d] # "idle" =>
            pc'[d] = pc[d] /\ id'[d] = id[d] /\ port'[d] = port[d]
      BY <2>1 DEF GoesOn
    <3>3. \A d \in Caller : pc'[d] = "answered" => invokeId'[port[d]] = 0
      BY <3>1, <3>2 DEF ConnInv, IdsAreWaitedFor
    <3>4. \A p \in Port : request[p] # NoCaller /\ pc[request[p]] = "wait" =>
            pc'[request[p]] = "wait"
      BY <2>1, <3>1 DEF ConnInv, ConnTyping
    <3> QED
      BY <3>1, <3>2, <3>3, <3>4, WaitedForStays
  <2>6. ResultsAreSet'
    BY <2>1, <2>2 DEF ConnInv, ResultsAreSet
  <2>7. aligned => ResultsAreEarned'
    <3> SUFFICES ASSUME aligned PROVE ResultsAreEarned'
      OBVIOUS
    <3>1. \A q \in Port : errorCode[q] # "waiting" =>
            request[q] # c /\ pc[request[q]] \in {"wait", "answered", "release"}
      BY <1>2 DEF ConnInv, ResultsAreEarned
    <3>2. \A d \in Caller : buffer'[d] = {} \/
            (buffer'[d] = buffer[d] /\ id'[d] = id[d] /\ pc'[d] # "idle")
      BY <2>1 DEF ConnInv, ResultsAreEarned
    <3>3. \A d \in Caller : result'[d] = "none" \/ Earned(result'[d], id'[d])
      BY <2>1 DEF ConnInv, ResultsAreEarned
    <3> QED
      BY <1>1, <1>4, <2>1, <2>2, <3>1, <3>2, <3>3, EarnedStays
  <2> QED
    BY <2>2, <2>3, <2>4, <2>5, <2>6, <2>7 DEF ConnInv
<1> QED
  BY <1>3, <1>4 DEF Reserve, SlotFree

LEMMA StoreIdKeeps ==
  ASSUME ConnInv, NEW c \in Caller, StoreId(c)
  PROVE  ConnInv'
<1> USE ConnectionAssumption
<1>1. /\ pc[c] = "store" /\ pc' = [pc EXCEPT ![c] = "write"]
      /\ invokeId' = [invokeId EXCEPT ![port[c]] = id[c]]
      /\ UNCHANGED <<request, errorCode, counter, calls, port, ask, id, overdue, buffer, result,
                     last, wire, rx, net, plc, others, reached, executed, aligned, killed>>
  BY DEF StoreId, Goto, IdFor, Locally, counts, device, process
<1>2. /\ \A d \in Caller \ {c} : pc'[d] = pc[d]
      /\ pc'[c] = "write"
      /\ \A q \in Port : invokeId'[q] = IF q = port[c] THEN id[c] ELSE invokeId[q]
      /\ port[c] \in Port /\ request[port[c]] = c
  BY <1>1 DEF ConnInv, ConnTyping, SlotsAreHeld, Holding
<1>3. id[c] \notin reached /\ id[c] # 0
  BY <1>1, NoSlotHasAnIdle DEF ConnInv, IdsAreFresh
<1>4. ConnTyping'
  BY <1>1 DEF ConnInv, ConnTyping, ReceiverTyping, Serving, Statements
<1>5. IdsAreFresh'
  BY <1>1, <1>2, FreshStays DEF Unsent
<1>6. SlotsAreHeld'
  <2>1. \A d \in Caller : Holding(d)' <=> Holding(d)
    BY <1>1, <1>2 DEF Holding
  <2> QED
    BY <1>1, <2>1, SlotsStay
<1>7. IdsAreWaitedFor'
  <2>1. \A q \in Port, d \in Caller : pc'[d] # "idle" /\ invokeId'[q] = id[d] =>
          q = port[d] /\ pc'[d] \notin {"reserve", "store"}
    BY <1>1, <1>2 DEF ConnInv, IdsAreWaitedFor, IdsAreFresh
  <2>2. \A q \in Port : invokeId'[q] \in reached => q # port[c] /\ request[q] \in Caller \ {c}
    BY <1>1, <1>2, <1>3 DEF ConnInv, ConnTyping, IdsAreWaitedFor
  <2>3. \A d \in Caller : pc'[d] = "answered" => invokeId'[port[d]] = 0
    BY <1>1, <1>2 DEF ConnInv, ConnTyping, IdsAreWaitedFor, SlotsAreHeld, Holding
  <2> QED
    BY <1>1, <1>2, <2>1, <2>2, <2>3 DEF ConnInv, IdsAreWaitedFor
<1>8. AnswersAreAsked' /\ FramesAreWhole' /\ (aligned => InStep')
  BY <1>1, <1>2, NamesStay, FramesStay, StaysInStep
<1>9. ResultsAreSet'
  BY <1>1, <1>2 DEF ConnInv, ResultsAreSet
<1>10. aligned => ServesWaiting'
  <2> SUFFICES ASSUME aligned PROVE ServesWaiting'
    OBVIOUS
  <2>1. Serving => /\ rx.who \in Caller /\ rx.who # c /\ rx.frame.port \in Port
                   /\ rx.frame.port # port[c]
    BY <1>1, <1>2 DEF ConnInv, ServesWaiting, ConnTyping, ReceiverTyping, SlotsAreHeld,
      Holding, Frame
  <2> QED
    BY <1>1, <1>2, <2>1, ServiceStays DEF ConnInv, ServesWaiting
<1>11. aligned => ResultsAreEarned'
  <2> SUFFICES ASSUME aligned PROVE ResultsAreEarned'
    OBVIOUS
  <2>1. \A q \in Port : errorCode[q] # "waiting" =>
          q # port[c] /\ pc[request[q]] \in {"wait", "answered", "release"}
    BY <1>1, <1>2 DEF ConnInv, ResultsAreEarned
  <2>2. \A d \in Caller : buffer[d] = {} \/ pc'[d] # "idle"
    BY <1>2 DEF ConnInv, ResultsAreEarned
  <2>3. \A d \in Caller : Earned(result[d], id[d])
    BY DEF ConnInv, ResultsAreEarned
  <2> QED
    BY <1>1, <1>2, <2>1, <2>2, <2>3, EarnedStays
<1> QED
  BY <1>1, <1>4, <1>5, <1>6, <1>7, <1>8, <1>9, <1>10, <1>11 DEF ConnInv

\* The device is sent the request: from here on its id may come back.
LEMMA WriteReachesKeeps ==
  ASSUME ConnInv, NEW c \in Caller, WriteReaches(c)
  PROVE  ConnInv'
<1> USE ConnectionAssumption
<1> DEFINE r == [id |-> id[c], port |-> port[c], wants |-> ask[c].wants]
<1>1. /\ pc[c] = "write" /\ pc' = [pc EXCEPT ![c] = "wait"]
      /\ plc' = plc \union {r} /\ reached' = reached \union {id[c]}
      /\ UNCHANGED <<request, invokeId, errorCode, counter, calls, port, ask, id, overdue, buffer,
                     result, last, wire, rx, net, others, executed, aligned, killed>>
  BY DEF WriteReaches, Goto, slots, counts, device, process
<1>2. /\ \A d \in Caller \ {c} : pc'[d] = pc[d]
      /\ pc'[c] = "wait" /\ port[c] \in Port /\ request[port[c]] = c
  BY <1>1 DEF ConnInv, ConnTyping, SlotsAreHeld, Holding
<1>3. /\ id[c] \notin reached /\ id[c] # 0
      /\ \A d \in Caller \ {c} : pc[d] # "idle" => id[d] # id[c]
  BY <1>1, NoSlotHasAnIdle DEF ConnInv, IdsAreFresh
<1>4. r \in [id : Nat, port : Port, wants : Nat]
  BY RequestsTyping DEF ConnInv, ConnTyping
<1>5. ConnTyping'
  BY <1>1, <1>4 DEF ConnInv, ConnTyping, ReceiverTyping, Serving, Statements
<1>6. IdsAreFresh'
  <2>1. \A i : Handed(i)' <=> Handed(i)
    BY <1>1 DEF Handed, Distance
  <2>2. UNCHANGED <<Distance(counter), Distance(0)>>
    BY <1>1 DEF Distance
  <2>3. \A d \in Caller : pc'[d] # "idle" => pc[d] # "idle"
    BY <1>1, <1>2
  <2>4. \A i \in reached' : Handed(i)'
    BY <1>1, <2>1 DEF ConnInv, IdsAreFresh
  <2>5. \A d \in Caller : pc'[d] \in {"reserve", "store", "write"} => id'[d] \notin reached'
    BY <1>1, <1>2, <1>3 DEF ConnInv, IdsAreFresh
  <2> QED
    BY <1>1, <2>1, <2>2, <2>3, <2>4, <2>5 DEF ConnInv, IdsAreFresh
<1>7. SlotsAreHeld'
  <2>1. \A d \in Caller : Holding(d)' <=> Holding(d)
    BY <1>1, <1>2 DEF Holding
  <2> QED
    BY <1>1, <2>1, SlotsStay
<1>8. IdsAreWaitedFor'
  <2>1. \A q \in Port : invokeId[q] = id[c] => q = port[c]
    BY <1>1 DEF ConnInv, IdsAreWaitedFor
  <2>2. \A q \in Port : invokeId[q] \in reached => request[q] \in Caller \ {c}
    BY <1>1 DEF ConnInv, ConnTyping, IdsAreWaitedFor
  <2> QED
    BY <1>1, <1>2, <2>1, <2>2 DEF ConnInv, IdsAreWaitedFor
<1>9. AnswersAreAsked'
  <2>1. ASSUME NEW i, NEW q, Names(i, q) PROVE Names(i, q)'
    BY <1>1, <1>2, <2>1 DEF Names
  <2>2. \A s : s = r => Names(s.id, s.port)' /\ s.id \notin executed
    BY <1>1, <1>2, <1>3 DEF Names, ConnInv, IdsAreFresh
  <2>3. \A s \in plc : s.id # r.id
    BY <1>3 DEF ConnInv, AnswersAreAsked, Names
  <2>4. \A f : AnswersRequest(f) => AnswersRequest(f)'
    BY <1>1, <2>1 DEF AnswersRequest
  <2> HIDE DEF r
  <2>5. ASSUME NEW s \in plc' PROVE Names(s.id, s.port)' /\ s.id \notin executed'
    <3>1. CASE s = r
      BY <1>1, <2>2, <3>1
    <3>2. CASE s \in plc
      BY <1>1, <2>1, <3>2 DEF ConnInv, AnswersAreAsked
    <3> QED
      BY <1>1, <3>1, <3>2
  <2>6. \A s, t \in plc' : s.id = t.id => s = t
    BY <1>1, <2>3 DEF ConnInv, AnswersAreAsked
  <2> QED
    BY <1>1, <2>4, <2>5, <2>6 DEF ConnInv, AnswersAreAsked
<1>10. FramesAreWhole' /\ (aligned => InStep')
  BY <1>1, FramesStay, StaysInStep
<1>11. ResultsAreSet'
  <2>1. \A d \in Caller : result[d] = "refused" => id[d] # id[c]
    BY <1>1, <1>3 DEF ConnInv, ResultsAreSet
  <2> QED
    BY <1>1, <1>2, <2>1 DEF ConnInv, ResultsAreSet
<1>12. aligned => ServesWaiting'
  BY <1>1, <1>2, ServiceStays DEF ConnInv, ServesWaiting, ConnTyping, ReceiverTyping
<1>13. aligned => ResultsAreEarned'
  <2> SUFFICES ASSUME aligned PROVE ResultsAreEarned'
    OBVIOUS
  <2>1. \A code, i : Earned(code, i) => Earned(code, i)'
    BY <1>1 DEF Earned
  <2>2. \A q \in Port : errorCode[q] # "waiting" =>
          /\ request[q] \in Caller \ {c} /\ invokeId[q] # id[c]
    <3>1. \A q \in Port : errorCode[q] # "waiting" => request[q] \in Caller \ {c}
      <4>1. ResultsAreEarned /\ request \in [Port -> Caller \union {NoCaller}]
        BY DEF ConnInv, ConnTyping
      <4> QED
        BY <1>1, <4>1 DEF ResultsAreEarned
    <3>2. \A q \in Port : invokeId[q] = id[c] => request[q] = c
      BY <1>1, <1>2 DEF ConnInv, IdsAreWaitedFor
    <3> QED
      BY <3>1, <3>2
  <2>3. \A d \in Caller : buffer[d] = {} \/ pc'[d] # "idle"
    BY <1>2 DEF ConnInv, ResultsAreEarned
  <2>4. \A q \in Port : errorCode[q] # "waiting" =>
          /\ request[q] # NoCaller /\ pc'[request[q]] \in {"wait", "answered", "release"}
          /\ invokeId[q] \notin reached' /\ Earned(errorCode[q], id[request[q]])'
    BY <1>1, <1>2, <2>1, <2>2 DEF ConnInv, ResultsAreEarned
  <2> QED
    BY <1>1, <1>2, <2>1, <2>3, <2>4 DEF ConnInv, ResultsAreEarned
<1> QED
  BY <1>1, <1>5, <1>6, <1>7, <1>8, <1>9, <1>10, <1>11, <1>12, <1>13 DEF ConnInv

\* A step in which a caller that holds a slot goes on holding it.
LEMMA HoldingStep ==
  ASSUME ConnInv, NEW c \in Caller, NEW at \in Statements, Holding(c),
         at \in {"wait", "answered", "release", "free"},
         Locally, UNCHANGED <<counts, request, port, ask, id, overdue, buffer, last>>,
         pc' = [pc EXCEPT ![c] = at],
         invokeId' \in [Port -> Nat], \A q \in Port : invokeId'[q] \in {0, invokeId[q]},
         errorCode' \in [Port -> (Codes \ {"refused"}) \union Unset],
         \A q \in Port : errorCode'[q] # errorCode[q] => errorCode'[q] = "waiting",
         result' \in [Caller -> Codes \union {"none"}],
         \A d \in Caller \ {c} : result'[d] = result[d],
         pc[c] = "wait" => at # "wait",
         at = "answered" => invokeId'[port[c]] = 0,
         pc[c] \in {"wait", "answered"} /\ invokeId[port[c]] = 0
           /\ errorCode[port[c]] = "waiting" => at \in {"wait", "answered"},
         at = "free" => errorCode'[port[c]] = "waiting",
         pc[c] = "wait" => invokeId'[port[c]] = 0,
         result'[c] # "none" <=> at \in {"release", "free"},
         result'[c] = "refused" => id[c] \notin reached,
         aligned => Earned(result'[c], id[c])
  PROVE  ConnInv'
<1> USE ConnectionAssumption
<1>1. /\ \A d \in Caller \ {c} : pc'[d] = pc[d]
      /\ pc'[c] = at /\ pc[c] # "idle" /\ at \notin Unsent /\ at # "idle"
      /\ request[port[c]] = c
  BY DEF ConnInv, ConnTyping, Holding, SlotsAreHeld, Unsent
<1>2. GoesOn(c)
  BY <1>1 DEF GoesOn
<1>3. /\ UNCHANGED <<wire, rx, net, plc, others, reached, executed, aligned, killed>>
      /\ IdsAreFresh' /\ AnswersAreAsked' /\ FramesAreWhole'
      /\ aligned => InStep' /\ ServesWaiting'
  <2>1. \A q \in Port : errorCode'[q] \in {"waiting", errorCode[q]}
    OBVIOUS
  <2> QED
    BY <1>1, <1>2, <2>1, LocalStep
<1>4. ConnTyping'
  BY <1>3 DEF ConnInv, ConnTyping, ReceiverTyping, Serving, counts
<1>5. SlotsAreHeld'
  <2>1. \A d \in Caller : Holding(d)' <=> Holding(d)
    BY <1>1 DEF Holding
  <2> QED
    BY <2>1, SlotsStay
<1>6. IdsAreWaitedFor'
  <2>1. \A d \in Caller : pc'[d] = "answered" => invokeId'[port[d]] = 0
    BY <1>1 DEF ConnInv, ConnTyping, IdsAreWaitedFor
  <2>2. \A q \in Port : invokeId'[q] # 0 /\ request[q] # NoCaller /\ pc[request[q]] = "wait"
          => pc'[request[q]] = "wait"
    BY <1>1 DEF ConnInv, ConnTyping, SlotsAreHeld
  <2> QED
    BY <1>1, <1>3, <2>1, <2>2, WaitedForStays
<1>7. ResultsAreSet'
  BY <1>1, <1>3 DEF ConnInv, ResultsAreSet
<1>8. aligned => ResultsAreEarned'
  <2> SUFFICES ASSUME aligned PROVE ResultsAreEarned'
    OBVIOUS
  <2>1. ASSUME NEW q \in Port, errorCode'[q] # "waiting"
        PROVE  /\ errorCode'[q] = errorCode[q]
               /\ request[q] \in Caller => pc'[request[q]] \in {"wait", "answered", "release"}
    <3>1. errorCode[q] = errorCode'[q] /\ pc[request[q]] \in {"wait", "answered", "release"}
      BY <2>1 DEF ConnInv, ResultsAreEarned
    <3>2. request[q] = c => q = port[c]
      BY DEF ConnInv, SlotsAreHeld
    <3> QED
      BY <1>1, <2>1, <3>1, <3>2
  <2>2. \A d \in Caller : buffer'[d] = {} \/ pc'[d] # "idle"
    BY <1>1 DEF ConnInv, ResultsAreEarned
  <2>3. \A d \in Caller : Earned(result'[d], id[d])
    BY DEF ConnInv, ResultsAreEarned
  <2> QED
    BY <1>3, <2>1, <2>2, <2>3, EarnedStays
<1> QED
  BY <1>3, <1>4, <1>5, <1>6, <1>7, <1>8 DEF ConnInv

LEMMA WriteIsLostKeeps ==
  ASSUME ConnInv, NEW c \in Caller, WriteIsLost(c)
  PROVE  ConnInv'
<1>1. /\ pc[c] = "write" /\ UNCHANGED <<request, invokeId, errorCode, counts, port, ask, id,
                                        overdue, buffer, last>>
      /\ Locally /\ Holding(c)
  BY DEF WriteIsLost, Holding, slots
<1>2. /\ invokeId \in [Port -> Nat]
      /\ errorCode \in [Port -> (Codes \ {"refused"}) \union Unset]
      /\ result \in [Caller -> Codes \union {"none"}] /\ result[c] = "none"
      /\ id[c] \notin reached
  BY <1>1 DEF ConnInv, ConnTyping, ResultsAreSet, IdsAreFresh
<1>3. CASE Goto(c, "wait") /\ UNCHANGED result
  BY <1>1, <1>2, <1>3, HoldingStep DEF Goto, Statements, Earned
<1>4. CASE Goto(c, "release") /\ Refuse(c)
  <2>1. /\ result' \in [Caller -> Codes \union {"none"}] /\ result'[c] = "refused"
        /\ \A d \in Caller \ {c} : result'[d] = result[d]
    BY <1>2, <1>4 DEF Refuse, Codes
  <2> QED
    BY <1>1, <1>2, <1>4, <2>1, HoldingStep DEF Goto, Statements, Earned
<1> QED
  BY <1>3, <1>4 DEF WriteIsLost

\* Wait: nobody else can have taken the answer, or somebody has.
LEMMA WaitDeadlineKeeps ==
  ASSUME ConnInv, NEW c \in Caller, WaitDeadline(c)
  PROVE  ConnInv'
<1>1. /\ pc[c] = "wait" /\ UNCHANGED <<request, errorCode, counts, port, ask, id, overdue,
                                       buffer, last>>
      /\ Locally /\ Holding(c)
  BY DEF WaitDeadline, Holding
<1>2. /\ invokeId \in [Port -> Nat]
      /\ errorCode \in [Port -> (Codes \ {"refused"}) \union Unset]
      /\ result \in [Caller -> Codes \union {"none"}] /\ result[c] = "none" /\ port[c] \in Port
  BY <1>1 DEF ConnInv, ConnTyping, ResultsAreSet
<1>3. CASE Expired(c) /\ Goto(c, "release") /\ result' = [result EXCEPT ![c] = "timeout"]
  <2>1. /\ result' \in [Caller -> Codes \union {"none"}] /\ result'[c] = "timeout"
        /\ \A d \in Caller \ {c} : result'[d] = result[d]
    BY <1>2, <1>3 DEF Codes
  <2>2. /\ invokeId' \in [Port -> Nat] /\ invokeId'[port[c]] = 0 /\ invokeId[port[c]] # 0
        /\ \A q \in Port : invokeId'[q] \in {0, invokeId[q]}
    BY <1>2, <1>3 DEF Expired
  <2> QED
    BY <1>1, <1>2, <1>3, <2>1, <2>2, HoldingStep DEF Goto, Statements, Earned
<1>4. CASE invokeId[port[c]] = 0 /\ Goto(c, "answered") /\ UNCHANGED <<invokeId, result>>
  BY <1>1, <1>2, <1>4, HoldingStep DEF Goto, Statements, Earned
<1> QED
  BY <1>3, <1>4 DEF WaitDeadline

LEMMA WaitServedKeeps ==
  ASSUME ConnInv, NEW c \in Caller, WaitServed(c)
  PROVE  ConnInv'
<1>1. /\ pc[c] = "answered" /\ pc' = [pc EXCEPT ![c] = "release"]
      /\ UNCHANGED <<request, invokeId, errorCode, counts, port, ask, id, overdue, buffer, last>>
      /\ Locally /\ Holding(c) /\ errorCode[port[c]] \notin Unset
      /\ result' = [result EXCEPT ![c] = errorCode[port[c]]]
  BY DEF WaitServed, Holding, Served, Goto, slots
<1>2. /\ invokeId \in [Port -> Nat]
      /\ errorCode \in [Port -> (Codes \ {"refused"}) \union Unset]
      /\ result \in [Caller -> Codes \union {"none"}] /\ port[c] \in Port
  BY DEF ConnInv, ConnTyping
<1>3. /\ result' \in [Caller -> Codes \union {"none"}] /\ result'[c] = errorCode[port[c]]
      /\ result'[c] \notin {"none", "refused"}
      /\ \A d \in Caller \ {c} : result'[d] = result[d]
  BY <1>1, <1>2 DEF Codes, Unset
<1>4. request[port[c]] = c
  BY <1>1 DEF ConnInv, SlotsAreHeld
<1>5. aligned => Earned(result'[c], id[c])
  BY <1>1, <1>2, <1>3, <1>4 DEF ConnInv, ResultsAreEarned, Unset
<1> QED
  BY <1>1, <1>2, <1>3, <1>5, HoldingStep DEF Statements, Unset

LEMMA ReleaseCodeKeeps ==
  ASSUME ConnInv, NEW c \in Caller, ReleaseCode(c)
  PROVE  ConnInv'
<1>1. /\ pc[c] = "release" /\ pc' = [pc EXCEPT ![c] = "free"]
      /\ UNCHANGED <<request, invokeId, counts, port, ask, id, overdue, buffer, result, last>>
      /\ errorCode' = [errorCode EXCEPT ![port[c]] = "waiting"]
      /\ Locally /\ Holding(c)
  BY DEF ReleaseCode, Holding, Goto
<1>2. /\ invokeId \in [Port -> Nat]
      /\ errorCode \in [Port -> (Codes \ {"refused"}) \union Unset]
      /\ result \in [Caller -> Codes \union {"none"}] /\ port[c] \in Port
      /\ result[c] # "none" /\ (result[c] = "refused" => id[c] \notin reached)
      /\ aligned => Earned(result[c], id[c])
  BY <1>1 DEF ConnInv, ConnTyping, ResultsAreSet, ResultsAreEarned
<1>3. /\ errorCode' \in [Port -> (Codes \ {"refused"}) \union Unset]
      /\ errorCode'[port[c]] = "waiting"
      /\ \A q \in Port : errorCode'[q] # errorCode[q] => errorCode'[q] = "waiting"
  BY <1>1, <1>2 DEF Unset
<1> QED
  BY <1>1, <1>2, <1>3, HoldingStep DEF Statements

\* The slot is given away; its result has been cleared before.
LEMMA ReleaseSlotKeeps ==
  ASSUME ConnInv, NEW c \in Caller, ReleaseSlot(c)
  PROVE  ConnInv'
<1> USE ConnectionAssumption
<1>1. /\ pc[c] = "free" /\ Return(c, result[c]) /\ Locally
      /\ request' = [request EXCEPT ![port[c]] = NoCaller]
      /\ UNCHANGED <<invokeId, errorCode, counts>>
  BY DEF ReleaseSlot
<1>2. /\ \A d \in Caller \ {c} : /\ pc'[d] = pc[d] /\ result'[d] = result[d]
                                 /\ port'[d] = port[d]
                                 /\ id'[d] = id[d] /\ buffer'[d] = buffer[d]
      /\ pc'[c] = "idle" /\ result'[c] = "none" /\ buffer'[c] = {}
      /\ GoesOn(c)
  BY <1>1 DEF Return, Goto, GoesOn, ConnInv, ConnTyping
<1>3. /\ UNCHANGED <<wire, rx, net, plc, others, reached, executed, aligned, killed>>
      /\ IdsAreFresh' /\ AnswersAreAsked' /\ FramesAreWhole'
      /\ aligned => InStep' /\ ServesWaiting'
  BY <1>1, <1>2, LocalStep DEF Unsent
<1>4. /\ port[c] \in Port /\ request[port[c]] = c /\ result[c] \in Codes \union {"none"}
      /\ \A q \in Port : request'[q] = IF q = port[c] THEN NoCaller ELSE request[q]
      /\ \A q \in Port : request[q] = c => q = port[c]
  BY <1>1 DEF ConnInv, ConnTyping, SlotsAreHeld, Holding
<1>5. ConnTyping'
  BY <1>1, <1>2, <1>3, <1>4, AnyPortTyping, RequestsTyping
  DEF Return, Goto, ConnInv, ConnTyping, ReceiverTyping, Serving, counts, Statements
<1>6. SlotsAreHeld'
  <2>1. \A d \in Caller \ {c} : Holding(d)' <=> Holding(d)
    BY <1>2 DEF Holding
  <2>2. ~Holding(c)'
    BY <1>2 DEF Holding
  <2>3. \A d \in Caller \ {c} : Holding(d) => port[d] # port[c]
    BY <1>4 DEF ConnInv, SlotsAreHeld
  <2>4. \A q \in Port : request'[q] # NoCaller => Holding(request[q])' /\ port'[request'[q]] = q
    BY <1>2, <1>4, <2>1 DEF ConnInv, ConnTyping, SlotsAreHeld
  <2>5. \A d \in Caller : Holding(d)' => request'[port'[d]] = d
    <3>1. \A d \in Caller : Holding(d)' => d # c /\ Holding(d)
      BY <2>1, <2>2
    <3>2. \A d \in Caller : Holding(d) => request[port[d]] = d /\ port[d] \in Port
      BY DEF ConnInv, ConnTyping, SlotsAreHeld
    <3> QED
      BY <1>2, <1>4, <2>3, <3>1, <3>2
  <2> QED
    BY <2>4, <2>5 DEF SlotsAreHeld
<1>7. IdsAreWaitedFor'
  <2>1. \A q \in Port : request[q] # NoCaller /\ pc[request[q]] = "wait" =>
          request'[q] = request[q] /\ pc'[request[q]] = "wait"
    BY <1>1, <1>2, <1>4 DEF ConnInv, ConnTyping
  <2>2. \A d \in Caller : pc'[d] # "idle" =>
          /\ pc[d] # "idle" /\ id'[d] = id[d] /\ port'[d] = port[d] /\ pc'[d] = pc[d]
          /\ pc'[d] = "answered" => invokeId'[port[d]] = 0
    BY <1>1, <1>2 DEF ConnInv, IdsAreWaitedFor
  <2> QED
    BY <1>1, <1>3, <2>1, <2>2, WaitedForStays
<1>8. ResultsAreSet'
  BY <1>2, <1>3 DEF ConnInv, ResultsAreSet
<1>9. aligned => ResultsAreEarned'
  <2> SUFFICES ASSUME aligned PROVE ResultsAreEarned'
    OBVIOUS
  <2>1. \A q \in Port : errorCode[q] # "waiting" =>
          /\ q # port[c] /\ request[q] # c
          /\ pc[request[q]] \in {"wait", "answered", "release"}
    BY <1>1, <1>4 DEF ConnInv, ResultsAreEarned
  <2>2. \A d \in Caller : buffer'[d] = {} \/
          (buffer'[d] = buffer[d] /\ id'[d] = id[d] /\ pc'[d] # "idle")
    BY <1>2 DEF ConnInv, ResultsAreEarned
  <2>3. \A d \in Caller : result'[d] = "none" \/ Earned(result'[d], id'[d])
    BY <1>2 DEF ConnInv, ResultsAreEarned
  <2> QED
    BY <1>1, <1>2, <1>3, <1>4, <2>1, <2>2, <2>3, EarnedStays
<1> QED
  BY <1>3, <1>5, <1>6, <1>7, <1>8, <1>9 DEF ConnInv

\* Steps that touch nothing the invariant is about, and the shutdown.
LEMMA IndifferentStep ==
  ASSUME ConnInv,
         UNCHANGED <<slots, counts, pc, port, ask, id, buffer, result, last, wire, rx, device,
                     reached, aligned>>,
         overdue' \in [Caller -> BOOLEAN], net' \in {net, "shut"}
  PROVE  ConnInv'
<1>1. ConnTyping'
  BY DEF ConnInv, ConnTyping, ReceiverTyping, Serving, slots, counts, device
<1>2. IdsAreFresh'
  BY FreshStays DEF slots, counts, device
<1>3. SlotsAreHeld' /\ IdsAreWaitedFor' /\ ResultsAreSet'
  BY DEF ConnInv, SlotsAreHeld, Holding, IdsAreWaitedFor, ResultsAreSet, slots
<1>4. AnswersAreAsked'
  BY NamesStay DEF device
<1>5. FramesAreWhole' /\ (aligned => InStep')
  BY DEF ConnInv, FramesAreWhole, Follows, InStep, Serving
<1>6. aligned => ServesWaiting' /\ ResultsAreEarned'
  BY DEF ConnInv, ServesWaiting, Serving, ResultsAreEarned, Earned, slots, device
<1> QED
  BY <1>1, <1>2, <1>3, <1>4, <1>5, <1>6 DEF ConnInv
-----------------------------------------------------------------------------
\* The steps of the receiver.
LEMMA HeadOfWire ==
  ASSUME ConnInv, wire # <<>>
  PROVE  /\ wire[1] \in Unit /\ Head(wire) = wire[1] /\ 1 \in 1 .. Len(wire)
         /\ wire[1].frame \in Frame /\ wire[1].at \in Nat
         /\ Tail(wire) \in Seq(Unit) /\ Len(Tail(wire)) = Len(wire) - 1
         /\ \A n \in 1 .. Len(wire) - 1 : Tail(wire)[n] = wire[n + 1]
<1>1. wire \in Seq(Unit)
  BY DEF ConnInv, ConnTyping
<1>2. Len(wire) > 0 /\ wire[1] \in Unit
  BY <1>1
<1> QED
  BY <1>1, <1>2 DEF Unit

LEMMA ReceiverStep ==
  ASSUME ConnInv, ByReceiver, \A q \in Port : invokeId'[q] \in {0, invokeId[q]},
         wire' = wire \/ (wire # <<>> /\ wire' = Tail(wire))
  PROVE  /\ IdsAreFresh' /\ SlotsAreHeld' /\ IdsAreWaitedFor'
         /\ AnswersAreAsked' /\ FramesAreWhole' /\ ResultsAreSet'
         /\ wire' \in Seq(Unit)
<1>1. UNCHANGED <<request, counter, calls, pc, port, ask, id, result, net, plc, others, executed,
                  reached>>
  BY DEF ByReceiver, counts, device
<1>2. IdsAreFresh'
  BY <1>1, FreshStays
<1>3. SlotsAreHeld'
  BY <1>1, SlotsStay DEF Holding
<1>4. IdsAreWaitedFor'
  <2>1. \A d \in Caller : pc'[d] = "answered" => invokeId'[port[d]] = 0
    BY <1>1 DEF ConnInv, ConnTyping, IdsAreWaitedFor
  <2> QED
    BY <1>1, <2>1, WaitedForStays
<1>5. ResultsAreSet'
  BY <1>1 DEF ConnInv, ResultsAreSet
<1>6. /\ wire' \in Seq(Unit) /\ Len(wire') \in {Len(wire), Len(wire) - 1} /\ Len(wire) \in Nat
      /\ \E k \in {0, 1} : /\ Len(wire') = Len(wire) - k
                           /\ \A n \in 1 .. Len(wire') : wire'[n] = wire[n + k]
  <2>1. CASE wire' = wire
    <3>1. wire \in Seq(Unit)
      BY DEF ConnInv, ConnTyping
    <3> QED
      BY <2>1, <3>1
  <2>2. CASE wire # <<>> /\ wire' = Tail(wire)
    <3>1. wire \in Seq(Unit)
      BY DEF ConnInv, ConnTyping
    <3>2. /\ Len(wire) \in Nat /\ Len(wire') = Len(wire) - 1 /\ wire' \in Seq(Unit)
          /\ \A n \in 1 .. Len(wire) - 1 : wire'[n] = wire[n + 1]
      <4>1. Len(wire) \in Nat
        BY <3>1
      <4> QED
        BY <2>2, <4>1, HeadOfWire
    <3> QED
      BY <3>2
  <2> QED
    BY <2>1, <2>2
<1>7. AnswersAreAsked'
  <2>1. \A i, q : Names(i, q) => Names(i, q)'
    BY <1>1 DEF Names
  <2>2. \A f : AnswersRequest(f) => AnswersRequest(f)'
    BY <1>1, <2>1 DEF AnswersRequest
  <2>3. \A n \in 1 .. Len(wire') : AnswersRequest(wire[n].frame)'
    BY <1>6, <2>2 DEF ConnInv, AnswersAreAsked
  <2> QED
    BY <1>1, <2>1, <2>3 DEF ConnInv, AnswersAreAsked
<1>8. FramesAreWhole'
  <2>1. PICK k \in {0, 1} : /\ Len(wire') = Len(wire) - k
                            /\ \A n \in 1 .. Len(wire') : wire'[n] = wire[n + k]
    BY <1>6
  <2>2. \A n \in 1 .. Len(wire') - 1 : Follows(wire'[n], wire'[n + 1])
    <3> SUFFICES ASSUME NEW n \in 1 .. Len(wire') - 1 PROVE Follows(wire'[n], wire'[n + 1])
      OBVIOUS
    <3>1. wire'[n] = wire[n + k] /\ wire'[n + 1] = wire[n + k + 1] /\ n + k \in 1 .. Len(wire) - 1
      BY <1>6, <2>1
    <3> QED
      BY <3>1 DEF ConnInv, FramesAreWhole
  <2>3. wire' # <<>> => /\ wire # <<>> /\ wire'[Len(wire')] = wire[Len(wire)]
    <3> SUFFICES ASSUME wire' # <<>>
                 PROVE  wire # <<>> /\ wire'[Len(wire')] = wire[Len(wire)]
      OBVIOUS
    <3>1. Len(wire') \in 1 .. Len(wire')
      BY <1>6
    <3> QED
      BY <1>6, <2>1, <3>1
  <2> QED
    BY <1>1, <2>2, <2>3 DEF ConnInv, FramesAreWhole, Follows
<1> QED
  BY <1>2, <1>3, <1>4, <1>5, <1>6, <1>7, <1>8

\* One unit of the frame the receiver is in has been taken.
LEMMA NextUnit ==
  ASSUME ConnInv, aligned, wire # <<>>, wire' = Tail(wire), UNCHANGED net,
         rx'.left \in Nat, rx'.got \in Nat,
         IF rx.left = rx.got THEN rx'.left - rx'.got = wire[1].frame.size
         ELSE rx.left - rx.got > 0 /\ rx'.left - rx'.got = rx.left - rx.got - 1,
         Serving' => rx'.frame = wire[1].frame
  PROVE  InStep'
<1>1. /\ wire[1].at \in Nat /\ wire[1].frame.size \in Nat
      /\ Len(wire) \in Nat \ {0} /\ Len(wire') = Len(wire) - 1
      /\ \A n \in 1 .. Len(wire) - 1 : wire'[n] = wire[n + 1]
      /\ wire' \in Seq(Unit) /\ rx.left \in Nat /\ rx.got \in Nat
  <2>1. rx.left \in Nat /\ rx.got \in Nat
    BY DEF ConnInv, ConnTyping, ReceiverTyping
  <2>2. wire \in Seq(Unit) /\ Len(wire) \in Nat
    BY DEF ConnInv, ConnTyping
  <2>3. Len(wire) # 0
    BY <2>2, EmptySeq
  <2>4. wire[1].frame.size \in Nat
    BY HeadOfWire DEF Frame
  <2> QED
    BY <2>1, <2>2, <2>3, <2>4, HeadOfWire
<1> DEFINE size == wire[1].frame.size
           left == rx'.left - rx'.got
<1>2. left \in 0 .. size /\ left = size - wire[1].at
  <2>1. CASE rx.left = rx.got
    <3>1. wire[1].at = 0
      BY <2>1 DEF ConnInv, InStep
    <3> QED
      BY <1>1, <2>1, <3>1
  <2>2. CASE rx.left # rx.got
    <3>1. /\ wire[1].at = size + 1 - (rx.left - rx.got)
          /\ rx.left - rx.got <= size
      BY <2>2 DEF ConnInv, InStep
    <3>2. rx.left - rx.got > 0 /\ left = rx.left - rx.got - 1
      BY <2>2
    <3> QED
      BY <1>1, <3>1, <3>2
  <2> QED
    BY <2>1, <2>2
<1>3. CASE wire' = <<>>
  <2>1. Len(wire) = 1
    <3>1. Len(wire') = 0
      BY <1>1, <1>3, EmptySeq
    <3> QED
      BY <1>1, <3>1
  <2>2. net = "up" => wire[1].at = size
    BY <2>1 DEF ConnInv, FramesAreWhole
  <2>3. net' = "up" => rx'.left = rx'.got
    BY <1>1, <1>2, <2>2
  <2> QED
    BY <1>3, <2>3 DEF InStep
<1>4. CASE wire' # <<>>
  <2>1. 1 \in 1 .. Len(wire) - 1 /\ wire'[1] = wire[2]
    BY <1>1, <1>4
  <2>2. IF wire[1].at = size THEN wire[2].at = 0
        ELSE wire[2].frame = wire[1].frame /\ wire[2].at = wire[1].at + 1
    BY <2>1 DEF ConnInv, FramesAreWhole, Follows
  <2>3. CASE left = 0
    <3>1. rx'.left = rx'.got /\ wire'[1].at = 0
      BY <1>1, <1>2, <2>1, <2>2, <2>3
    <3> QED
      BY <1>4, <3>1 DEF InStep
  <2>4. CASE left # 0
    <3>1. /\ rx'.left # rx'.got /\ wire'[1].frame = wire[1].frame
          /\ wire'[1].at = size + 1 - left
      <4>1. rx'.left # rx'.got
        BY <2>4
      <4>2. wire[1].at # size /\ size + 1 - left = wire[1].at + 1
        <5>1. PICK s \in Int, w \in Int, l \in Int : s = size /\ w = wire[1].at /\ l = left
          BY <1>1, <1>2
        <5>2. l = s - w /\ l # 0
          BY <1>2, <2>4, <5>1
        <5>3. w # s /\ s + 1 - l = w + 1
          BY ONLY <5>2
        <5> QED
          BY <5>1, <5>3
      <4> QED
        BY <2>1, <2>2, <4>1, <4>2
    <3>2. /\ wire'[1].at = wire'[1].frame.size + 1 - (rx'.left - rx'.got)
          /\ rx'.left - rx'.got <= wire'[1].frame.size
      <4>1. wire'[1].frame.size = size
        BY <3>1
      <4>2. left <= size
        BY <1>1, <1>2
      <4> QED
        BY <3>1, <4>1, <4>2
    <3>3. Serving' => wire'[1].frame = rx'.frame
      BY <3>1
    <3> QED
      BY <1>4, <3>1, <3>2, <3>3 DEF InStep
  <2> QED
    BY <2>3, <2>4
<1> QED
  BY <1>3, <1>4

\* What the receiver answers at once is no success.
LEMMA AtOnceIsAnError ==
  ASSUME NEW h, NEW c, NEW code \in AtOnce(h, c)
  PROVE  /\ code \in {"resInvalid", "error", "reserved", "invalidSize", "none"}
         /\ code = "none" => ~(h.size > 1 + ask[c].wants)
BY DEF AtOnce, DeviceCodes

LEMMA HeadersTyping ==
  ASSUME ConnInv, wire # <<>>, NEW h \in Headers(Head(wire))
  PROVE  h \in Frame /\ (wire[1].at = 0 => h = wire[1].frame)
<1>1. CASE wire[1].at = 0
  BY <1>1, HeadOfWire DEF Headers
<1>2. CASE wire[1].at # 0
  <2>1. h \in Garbled
    BY <1>2, HeadOfWire DEF Headers
  <2>2. {id[c] : c \in Caller} \subseteq Nat
    BY DEF ConnInv, ConnTyping
  <2>3. Header("notification", 0, AnyPort, 0) \in Frame
    BY HeaderTyping, AnyPortTyping DEF Others
  <2> QED
    BY <1>2, <2>1, <2>2, <2>3 DEF Garbled, Frame, Answers, Good
<1> QED
  BY <1>1, <1>2

\* A unit is read and nobody is notified.
LEMMA ReadStep ==
  ASSUME ConnInv, aligned, ByReceiver, UNCHANGED <<errorCode, aligned>>,
         \A q \in Port : invokeId'[q] \in {0, invokeId[q]},
         \A d \in Caller : buffer'[d] = buffer[d]
  PROVE  ResultsAreEarned'
<1>1. UNCHANGED <<request, pc, id, result, executed, reached>>
  BY DEF ByReceiver, counts, device
<1>2. \A q \in Port : errorCode[q] # "waiting" =>
        pc[request[q]] \in {"wait", "answered", "release"}
  BY DEF ConnInv, ResultsAreEarned
<1>3. \A d \in Caller : buffer[d] = {} \/ pc[d] # "idle"
  BY DEF ConnInv, ResultsAreEarned
<1>4. \A d \in Caller : Earned(result[d], id[d])
  BY DEF ConnInv, ResultsAreEarned
<1> QED
  BY <1>1, <1>2, <1>3, <1>4, EarnedStays

LEMMA ReceiveHeaderKeeps ==
  ASSUME ConnInv, ReceiveHeader
  PROVE  ConnInv'
<1> USE ConnectionAssumption
<1>1. /\ rx.at = "header" /\ wire # <<>> /\ wire' = Tail(wire)
      /\ UNCHANGED <<errorCode, buffer, aligned>> /\ ByReceiver
  BY DEF ReceiveHeader
<1>2. PICK h \in Headers(Head(wire)) :
       \/ /\ h.kind \in Others \/ ~Pending(h)
          /\ rx' = Junk(h.size)
          /\ UNCHANGED <<invokeId, killed>>
       \/ /\ h.kind \in Answers /\ Pending(h) /\ request[h.port] # NoCaller
          /\ invokeId' = [invokeId EXCEPT ![h.port] = 0]
          /\ \E code \in AtOnce(h, request[h.port]) : rx' = Serve(h, request[h.port], code)
          /\ UNCHANGED killed
       \/ /\ h.kind \in Answers /\ Pending(h) /\ request[h.port] = NoCaller
          /\ killed' = TRUE
          /\ UNCHANGED <<invokeId, rx>>
  BY DEF ReceiveHeader
<1>3. h \in Frame /\ (aligned => h = wire[1].frame)
  <2>1. aligned => wire[1].at = 0
    BY <1>1 DEF ConnInv, InStep, ConnTyping, ReceiverTyping
  <2> QED
    BY <1>1, <2>1, HeadersTyping
<1>4. h.kind \in Answers \union Others /\ h.port \in Port /\ h.size \in Nat
  BY <1>3 DEF Frame
<1>5. UNCHANGED <<request, counter, calls, pc, port, ask, id, result, net, plc, others, executed,
                  reached, overdue, last>>
  BY <1>1 DEF ByReceiver, counts, device
<1>6. invokeId' \in [Port -> Nat] /\ \A q \in Port : invokeId'[q] \in {0, invokeId[q]}
  <2>1. invokeId' = invokeId \/ invokeId' = [invokeId EXCEPT ![h.port] = 0]
    BY <1>2
  <2>2. invokeId \in [Port -> Nat]
    BY DEF ConnInv, ConnTyping
  <2>3. CASE invokeId' = invokeId
    BY <2>2, <2>3
  <2>4. CASE invokeId' = [invokeId EXCEPT ![h.port] = 0]
    BY <1>4, <2>2, <2>4
  <2> QED
    BY <2>1, <2>3, <2>4
<1>7. /\ IdsAreFresh' /\ SlotsAreHeld' /\ IdsAreWaitedFor'
      /\ AnswersAreAsked' /\ FramesAreWhole' /\ ResultsAreSet'
      /\ wire' \in Seq(Unit)
  BY <1>1, <1>6, ReceiverStep
<1>8. aligned => ResultsAreEarned'
  BY <1>1, <1>6, ReadStep
<1>9. CASE (h.kind \in Others \/ ~Pending(h)) /\ rx' = Junk(h.size)
  <2>1. /\ rx'.at = "junk" /\ rx'.left = h.size /\ rx'.got = 0
        /\ rx' = [at |-> "junk", frame |-> NoHeader, who |-> NoCaller, left |-> h.size, got |-> 0,
                  code |-> "none"]
    BY <1>9 DEF Junk, Receiver
  <2>2. ReceiverTyping'
    BY <1>4, <2>1, NoHeaderTyping DEF ReceiverTyping, Serving
  <2>3. ConnTyping'
    BY <1>1, <1>5, <1>6, <1>7, <2>2 DEF ConnInv, ConnTyping
  <2>4. ~Serving'
    BY <2>1 DEF Serving
  <2>5. aligned => InStep'
    <3>1. rx.left = rx.got
      BY <1>1 DEF ConnInv, ConnTyping, ReceiverTyping
    <3>2. aligned => rx'.left - rx'.got = wire[1].frame.size
      BY <1>3, <1>4, <2>1
    <3> QED
      BY <1>1, <1>4, <1>5, <2>1, <2>4, <3>1, <3>2, NextUnit
  <2> QED
    BY <1>1, <1>7, <1>8, <2>3, <2>4, <2>5 DEF ConnInv, ServesWaiting
<1>10. CASE /\ h.kind \in Answers /\ Pending(h) /\ request[h.port] # NoCaller
            /\ invokeId' = [invokeId EXCEPT ![h.port] = 0]
            /\ \E code \in AtOnce(h, request[h.port]) : rx' = Serve(h, request[h.port], code)
  <2> DEFINE c == request[h.port]
  <2>0. PICK code \in AtOnce(h, c) : rx' = Serve(h, c, code)
    BY <1>10
  <2>1. c \in Caller
    BY <1>4, <1>10 DEF ConnInv, ConnTyping
  <2>2. rx' = [at |-> IF code = "none" THEN "result" ELSE "answer", frame |-> h,
               who |-> c, left |-> h.size, got |-> 0, code |-> code]
    BY <2>0 DEF Serve, Receiver
  <2>3. ReceiverTyping'
    BY <1>3, <1>4, <2>1, <2>2, AtOnceIsAnError DEF ReceiverTyping, Serving, Codes
  <2>4. ConnTyping'
    BY <1>1, <1>5, <1>6, <1>7, <2>3 DEF ConnInv, ConnTyping
  <2>5. aligned => InStep'
    <3>1. rx.left = rx.got
      BY <1>1 DEF ConnInv, ConnTyping, ReceiverTyping
    <3>2. aligned => rx'.left - rx'.got = wire[1].frame.size /\ rx'.frame = wire[1].frame
      BY <1>3, <1>4, <2>2
    <3>3. rx'.left \in Nat /\ rx'.got \in Nat
      BY <1>4, <2>2
    <3> QED
      BY <1>1, <1>5, <3>1, <3>2, <3>3, NextUnit
  <2>6. ASSUME aligned PROVE ServesWaiting'
    <3>1. AnswersRequest(h)
      BY <1>1, <1>3, <2>6, HeadOfWire DEF ConnInv, AnswersAreAsked
    <3>2. /\ invokeId[h.port] = h.id /\ h.id \in reached
          /\ h.kind \in Good => h.id \in executed
      BY <1>10, <3>1 DEF Pending, AnswersRequest, Names, Answers, Others, Good
    <3>3. pc[c] = "wait" /\ id[c] = h.id /\ port[c] = h.port
      BY <1>4, <1>10, <3>2 DEF ConnInv, IdsAreWaitedFor, SlotsAreHeld
    <3>4. errorCode[h.port] = "waiting"
      BY <1>4, <2>6, <3>2 DEF ConnInv, ResultsAreEarned
    <3>5. invokeId'[h.port] = 0
      BY <1>4, <1>10 DEF ConnInv, ConnTyping
    <3>6. rx'.who = c /\ rx'.frame = h /\ rx'.left = h.size /\ rx'.at \in {"answer", "result"}
      BY <2>2
    <3>7. rx'.at = "result" => h.size <= 1 + ask[c].wants
      <4>1. rx'.at = "result" => code = "none"
        BY <2>2
      <4>2. ask[c].wants \in Nat
        BY <2>1, RequestsTyping DEF ConnInv, ConnTyping
      <4> QED
        BY <1>4, <4>1, <4>2, AtOnceIsAnError
    <3> HIDE DEF c
    <3> QED
      BY <1>1, <1>5, <1>10, <3>2, <3>3, <3>4, <3>5, <3>6, <3>7 DEF ServesWaiting
  <2> QED
    BY <1>1, <1>7, <1>8, <2>4, <2>5, <2>6 DEF ConnInv
<1>11. CASE /\ h.kind \in Answers /\ Pending(h) /\ request[h.port] = NoCaller
            /\ UNCHANGED <<invokeId, rx>>
  <2>1. ~aligned
    <3> SUFFICES ASSUME aligned PROVE FALSE
      OBVIOUS
    <3>1. AnswersRequest(h)
      BY <1>1, <1>3, HeadOfWire DEF ConnInv, AnswersAreAsked
    <3>2. invokeId[h.port] = h.id /\ h.id \in reached
      BY <1>11, <3>1 DEF Pending, AnswersRequest, Names, Answers, Others, Good
    <3> QED
      BY <1>4, <1>11, <3>2 DEF ConnInv, IdsAreWaitedFor
  <2>2. ConnTyping'
    BY <1>1, <1>5, <1>6, <1>7, <1>11 DEF ConnInv, ConnTyping, ReceiverTyping, Serving
  <2> QED
    BY <1>1, <1>7, <2>1, <2>2 DEF ConnInv
<1> QED
  BY <1>2, <1>9, <1>10, <1>11

\* The receiver hands a code to the request it serves.
LEMMA NotifyStep ==
  ASSUME ConnInv, ByReceiver, UNCHANGED <<invokeId, buffer>>, Serving,
         NEW code \in (Codes \ {"refused"}) \union {"reserved"}, Notify(code),
         wire' = wire \/ (wire # <<>> /\ wire' = Tail(wire)), aligned' => wire' = wire,
         ReceiverTyping', ~Serving', aligned' \in BOOLEAN, aligned' => aligned,
         aligned' => rx'.left - rx'.got = rx.left - rx.got,
         aligned => Earned(code, rx.frame.id)
  PROVE  ConnInv'
<1> USE ConnectionAssumption
<1>1. UNCHANGED <<request, counter, calls, pc, port, ask, id, result, net, plc, others, executed,
                  reached, overdue, last>>
  BY DEF ByReceiver, counts, device
<1>2. /\ IdsAreFresh' /\ SlotsAreHeld' /\ IdsAreWaitedFor'
      /\ AnswersAreAsked' /\ FramesAreWhole' /\ ResultsAreSet'
      /\ wire' \in Seq(Unit)
  BY ReceiverStep
<1>3. /\ rx.frame.port \in Port /\ rx.who \in Caller
      /\ errorCode \in [Port -> (Codes \ {"refused"}) \union Unset]
      /\ errorCode' = [errorCode EXCEPT ![rx.frame.port] = code]
      /\ rx.left \in Nat /\ rx.got \in Nat /\ rx'.left \in Nat /\ rx'.got \in Nat
  BY DEF ConnInv, ConnTyping, ReceiverTyping, Frame, Notify
<1>4. ConnTyping'
  <2>1. errorCode' \in [Port -> (Codes \ {"refused"}) \union Unset]
    BY <1>3 DEF Unset
  <2> QED
    BY <1>1, <1>2, <2>1 DEF ConnInv, ConnTyping
<1>5. aligned' => InStep'
  <2> SUFFICES ASSUME aligned' PROVE InStep'
    OBVIOUS
  <2>1. rx'.left - rx'.got = rx.left - rx.got /\ (rx'.left = rx'.got <=> rx.left = rx.got)
    BY <1>3
  <2>2. InStep
    BY DEF ConnInv
  <2> QED
    BY <1>1, <2>1, <2>2 DEF InStep
<1>6. aligned' => ResultsAreEarned'
  <2> SUFFICES ASSUME aligned' PROVE ResultsAreEarned'
    OBVIOUS
  <2>1. /\ pc[rx.who] \in {"wait", "answered"} /\ id[rx.who] = rx.frame.id
        /\ request[rx.frame.port] = rx.who /\ invokeId[rx.frame.port] = 0
    BY <1>3 DEF ConnInv, ServesWaiting, SlotsAreHeld, Holding
  <2>2. \A how, i : Earned(how, i)' <=> Earned(how, i)
    BY <1>1 DEF Earned
  <2>3. ResultsAreEarned /\ Earned(code, rx.frame.id) /\ 0 \notin reached
    BY NoSlotHasAnIdle DEF ConnInv
  <2>4. ASSUME NEW q \in Port, errorCode'[q] # "waiting"
        PROVE  /\ request[q] # NoCaller
               /\ pc[request[q]] \in {"wait", "answered", "release"}
               /\ invokeId[q] \notin reached
               /\ Earned(errorCode'[q], id[request[q]])
    <3>1. CASE q = rx.frame.port
      BY <1>3, <2>1, <2>3, <3>1
    <3>2. CASE q # rx.frame.port
      BY <1>3, <2>3, <2>4, <3>2 DEF ResultsAreEarned
    <3> QED
      BY <3>1, <3>2
  <2> QED
    BY <1>1, <2>2, <2>3, <2>4 DEF ResultsAreEarned
<1> QED
  BY <1>2, <1>4, <1>5, <1>6 DEF ConnInv, ServesWaiting

LEMMA JunkTyping ==
  ASSUME NEW n \in Nat
  PROVE  /\ rx' = Junk(n) => /\ ReceiverTyping' /\ ~Serving'
                             /\ rx'.left = n /\ rx'.got = 0 /\ rx'.at = "junk"
         /\ rx' = NextFrame => /\ ReceiverTyping' /\ ~Serving'
                               /\ rx'.left = 0 /\ rx'.got = 0
BY NoHeaderTyping DEF Junk, NextFrame, Receiver, ReceiverTyping, Serving

LEMMA ServeAtOnceKeeps ==
  ASSUME ConnInv, ServeAtOnce
  PROVE  ConnInv'
<1>1. /\ rx.at = "answer" /\ Notify(rx.code) /\ rx' = Junk(rx.left)
      /\ UNCHANGED <<invokeId, buffer, wire, aligned>> /\ ByReceiver /\ Serving
  BY DEF ServeAtOnce, Serving
<1>2. /\ rx.code \in (Codes \ {"refused"}) \union {"reserved"} /\ rx.code # "ok"
      /\ rx.left \in Nat /\ rx.got = 0 /\ aligned \in BOOLEAN
  BY <1>1 DEF ConnInv, ConnTyping, ReceiverTyping, Codes
<1>3. aligned => Earned(rx.code, rx.frame.id)
  BY <1>1, <1>2 DEF ConnInv, ServesWaiting, Earned
<1>4. ReceiverTyping' /\ ~Serving' /\ rx'.left = rx.left /\ rx'.got = 0
  BY <1>1, <1>2, JunkTyping
<1> QED
  BY <1>1, <1>2, <1>3, <1>4, NotifyStep

LEMMA ReceiveDoneKeeps ==
  ASSUME ConnInv, ReceiveDone
  PROVE  ConnInv'
<1>1. /\ rx.at = "data" /\ rx.got = rx.left /\ rx' = NextFrame
      /\ UNCHANGED <<invokeId, buffer, wire, aligned>> /\ ByReceiver /\ Serving
  BY DEF ReceiveDone, Serving
<1>2. PICK code \in Results(rx.frame) : Notify(code)
  BY DEF ReceiveDone
<1>3. rx.left \in Nat /\ aligned \in BOOLEAN
  BY DEF ConnInv, ConnTyping, ReceiverTyping
<1>4. code \in {"ok", "error", "reserved"} /\ (code = "ok" => rx.frame.kind \in Good)
  BY DEF Results, DeviceCodes
<1>5. aligned => Earned(code, rx.frame.id)
  BY <1>1, <1>4 DEF ConnInv, ServesWaiting, Earned
<1>6. ReceiverTyping' /\ ~Serving' /\ rx'.left = 0 /\ rx'.got = 0
  BY <1>1, JunkTyping
<1>7. rx'.left - rx'.got = rx.left - rx.got
  BY <1>1, <1>3, <1>6
<1>8. code \in (Codes \ {"refused"}) \union {"reserved"}
  BY <1>4 DEF Codes
<1> QED
  BY <1>1, <1>2, <1>3, <1>5, <1>6, <1>7, <1>8, NotifyStep

\* A part that was read and then timed out is what ends the agreement.
LEMMA ReceiveTimesOutKeeps ==
  ASSUME ConnInv, ReceiveTimesOut
  PROVE  ConnInv'
<1>1. /\ rx.at \in {"result", "data"} /\ Notify("timeout") /\ rx' = Junk(rx.left)
      /\ \/ aligned' = (aligned /\ rx.got = 0) /\ UNCHANGED wire
         \/ aligned' = FALSE /\ wire # <<>> /\ wire' = Tail(wire)
      /\ UNCHANGED <<invokeId, buffer>> /\ ByReceiver /\ Serving
  BY DEF ReceiveTimesOut, Serving
<1>2. rx.left \in Nat /\ rx.got \in Nat /\ aligned \in BOOLEAN
  BY DEF ConnInv, ConnTyping, ReceiverTyping
<1>3. Earned("timeout", rx.frame.id)
  BY DEF Earned
<1>4. ReceiverTyping' /\ ~Serving' /\ rx'.left = rx.left /\ rx'.got = 0
  BY <1>1, <1>2, JunkTyping
<1>5. aligned' => rx'.left - rx'.got = rx.left - rx.got
  BY <1>1, <1>2, <1>4
<1>6. aligned' \in BOOLEAN /\ (aligned' => aligned) /\ (aligned' => wire' = wire)
  BY <1>1, <1>2
<1>7. wire' = wire \/ (wire # <<>> /\ wire' = Tail(wire))
  BY <1>1
<1> QED
  BY <1>1, <1>3, <1>4, <1>5, <1>6, <1>7, NotifyStep DEF Codes

LEMMA Remainder ==
  ASSUME NEW M \in Nat \ {0}, NEW n \in Int
  PROVE  n % M \in Nat
OBVIOUS

\* The data of an answer goes to the caller that waits for it; bytesLeft only
\* goes below 0 where the result is read out of the next frame.
LEMMA PartStep ==
  ASSUME ConnInv, rx.at \in {"result", "data"}, wire # <<>>, wire' = Tail(wire),
         rx' = IF rx.at = "result"
               THEN [rx EXCEPT !.at = "data", !.left = (@ - 1) % SizeModulus]
               ELSE [rx EXCEPT !.got = @ + 1],
         rx.at = "data" => rx.got < rx.left,
         \/ buffer' = buffer
         \/ buffer' = [buffer EXCEPT ![rx.who] = @ \union {Head(wire).frame.id}],
         aligned' = (aligned /\ (rx.at = "result" => rx.left > 0)),
         UNCHANGED <<invokeId, errorCode>>, ByReceiver
  PROVE  ConnInv'
<1> USE ConnectionAssumption
<1>1. Serving /\ aligned' \in BOOLEAN /\ (aligned' => aligned)
  BY DEF ConnInv, ConnTyping, Serving
<1>2. /\ ReceiverTyping /\ rx.left \in Nat /\ rx.got \in Nat
      /\ rx.at = "result" => rx.got = 0
      /\ rx.who \in Caller
  BY <1>1 DEF ConnInv, ConnTyping, ReceiverTyping
<1>a. (rx.left - 1) % SizeModulus \in Nat
  BY <1>2, Remainder
<1>3. /\ rx'.frame = rx.frame /\ rx'.who = rx.who /\ rx'.at = "data"
      /\ rx'.left = IF rx.at = "result" THEN (rx.left - 1) % SizeModulus ELSE rx.left
      /\ rx'.got = IF rx.at = "result" THEN rx.got ELSE rx.got + 1
  BY <1>1, <1>2 DEF ReceiverTyping
<1>4. ReceiverTyping'
  <2>1. /\ rx'.left \in Nat /\ rx'.got \in Nat /\ rx'.got <= rx'.left
    <3>1. CASE rx.at = "result"
      BY <1>2, <1>a, <1>3, <3>1
    <3>2. CASE rx.at = "data"
      BY <1>2, <1>3, <3>2
    <3> QED
      BY <3>1, <3>2
  <2>2. rx' \in [at : {"header", "answer", "result", "data", "junk", "ended", "spinning"},
                 frame : Frame, who : Caller \union {NoCaller}, left : Nat, got : Nat,
                 code : Codes \union {"none", "reserved"}]
    <3>1. CASE rx.at = "result"
      <4>1. rx' = [rx EXCEPT !.at = "data", !.left = (rx.left - 1) % SizeModulus]
        BY <1>2, <3>1 DEF ReceiverTyping
      <4> QED
        BY <1>2, <1>a, <4>1 DEF ReceiverTyping
    <3>2. CASE rx.at = "data"
      <4>1. rx' = [rx EXCEPT !.got = rx.got + 1]
        BY <3>2
      <4>2. rx.got + 1 \in Nat
        BY <1>2
      <4> QED
        BY <1>2, <4>1, <4>2 DEF ReceiverTyping
    <3> QED
      BY <3>1, <3>2
  <2> QED
    BY <1>2, <1>3, <2>1, <2>2 DEF ReceiverTyping
<1>5. UNCHANGED <<request, counter, calls, pc, port, ask, id, result, net, plc, others, executed,
                  reached, overdue, last>>
  BY <1>1 DEF ByReceiver, counts, device
<1>6. /\ IdsAreFresh' /\ SlotsAreHeld' /\ IdsAreWaitedFor'
      /\ AnswersAreAsked' /\ FramesAreWhole' /\ ResultsAreSet'
      /\ wire' \in Seq(Unit)
  BY <1>1, ReceiverStep
<1>7. ConnTyping'
  <2>1. Head(wire).frame.id \in Nat
    BY <1>1, HeadOfWire DEF Frame
  <2>2. buffer \in [Caller -> SUBSET Nat]
    BY DEF ConnInv, ConnTyping
  <2>3. CASE buffer' = buffer
    BY <1>1, <1>4, <1>5, <1>6, <2>2, <2>3 DEF ConnInv, ConnTyping
  <2>4. CASE buffer' = [buffer EXCEPT ![rx.who] = @ \union {Head(wire).frame.id}]
    <3>1. buffer' \in [Caller -> SUBSET Nat]
      BY <1>2, <2>1, <2>2, <2>4
    <3> QED
      BY <1>1, <1>4, <1>5, <1>6, <3>1 DEF ConnInv, ConnTyping
  <2> QED
    BY <1>1, <2>3, <2>4
<1>8. ASSUME aligned' PROVE InStep' /\ ServesWaiting' /\ ResultsAreEarned'
  <2>1. InStep /\ ServesWaiting /\ ResultsAreEarned /\ aligned
    BY <1>1, <1>8 DEF ConnInv
  <2>2. rx.left # rx.got /\ rx.left - rx.got > 0 /\ wire[1].frame = rx.frame
    <3>1. rx.left > rx.got
      BY <1>2, <1>8
    <3> QED
      BY <1>1, <1>2, <2>1, <3>1 DEF InStep
  <2>a. /\ ask[rx.who].wants \in Nat /\ ask[rx.who].wants < SizeModulus
    BY <1>2, RequestsTyping DEF ConnInv, ConnTyping
  <2>b. rx.at = "result" => /\ rx'.left = rx.left - 1
                            /\ rx'.left <= ask[rx.who].wants
    <3> SUFFICES ASSUME rx.at = "result"
                 PROVE  rx'.left = rx.left - 1 /\ rx'.left <= ask[rx.who].wants
      OBVIOUS
    <3>0. rx.left > 0 /\ rx.left - 1 \in Nat
      <4>1. PICK k \in Nat : k = rx.left
        BY <1>2
      <4>2. k # 0
        BY <1>2, <2>2, <4>1
      <4>3. k > 0 /\ k - 1 \in Nat
        BY <4>2
      <4> QED
        BY <4>1, <4>3
    <3>1. PICK w \in Nat, l \in Nat : w = ask[rx.who].wants /\ l = rx.left - 1
      BY <2>a, <3>0
    <3>2. l <= w /\ w < SizeModulus
      BY <1>1, <1>2, <2>1, <2>a, <3>1 DEF ServesWaiting
    <3>3. l \in 0 .. SizeModulus /\ l # SizeModulus
      BY <3>2
    <3>4. l % SizeModulus = l
      BY <3>3, Wrap
    <3> QED
      BY <1>3, <3>1, <3>2, <3>4
  <2>3. InStep'
    <3>1. rx'.left \in Nat /\ rx'.got \in Nat /\ rx'.left - rx'.got = rx.left - rx.got - 1
      <4>1. CASE rx.at = "result"
        BY <1>2, <1>3, <1>a, <2>b, <4>1
      <4>2. CASE rx.at = "data"
        BY <1>2, <1>3, <4>2
      <4> QED
        BY <4>1, <4>2
    <3> QED
      BY <1>1, <1>3, <1>5, <1>8, <2>1, <2>2, <3>1, NextUnit
  <2>4. ServesWaiting'
    <3>2. rx'.left <= ask[rx.who].wants
      <4>1. CASE rx.at = "result"
        BY <2>b, <4>1
      <4>2. CASE rx.at = "data"
        BY <1>1, <1>3, <2>1, <4>2 DEF ServesWaiting
      <4> QED
        BY <4>1, <4>2
    <3> QED
      BY <1>1, <1>3, <1>5, <2>1, <3>2 DEF ServesWaiting
  <2>5. ResultsAreEarned'
    <3>1. \A how, i : Earned(how, i)' <=> Earned(how, i)
      BY <1>5 DEF Earned
    <3>2. Head(wire).frame.id = id[rx.who] /\ pc[rx.who] # "idle"
      BY <1>1, <2>1, <2>2, HeadOfWire DEF ServesWaiting
    <3>3. \A d \in Caller : buffer'[d] \subseteq {id[d]} /\ (pc[d] = "idle" => buffer'[d] = {})
      <4>1. \A d \in Caller : buffer[d] \subseteq {id[d]} /\ (pc[d] = "idle" => buffer[d] = {})
        BY <2>1 DEF ResultsAreEarned
      <4>2. buffer \in [Caller -> SUBSET Nat]
        BY DEF ConnInv, ConnTyping
      <4>3. CASE buffer' = [buffer EXCEPT ![rx.who] = @ \union {Head(wire).frame.id}]
        <5>1. \A d \in Caller : buffer'[d] = IF d = rx.who THEN buffer[d] \union {id[d]}
                                             ELSE buffer[d]
          BY <3>2, <4>2, <4>3
        <5> QED
          BY <3>2, <4>1, <5>1
      <4> QED
        BY <1>1, <4>1, <4>3
    <3> QED
      BY <1>1, <1>5, <2>1, <3>1, <3>3 DEF ResultsAreEarned
  <2> QED
    BY <2>3, <2>4, <2>5
<1> QED
  BY <1>1, <1>6, <1>7, <1>8 DEF ConnInv

LEMMA ReceiveJunkKeeps ==
  ASSUME ConnInv, ReceiveJunk
  PROVE  ConnInv'
<1>1. /\ rx.at = "junk" /\ UNCHANGED <<invokeId, errorCode, buffer, aligned>> /\ ByReceiver
      /\ \/ rx.left = 0 /\ rx' = NextFrame /\ UNCHANGED wire
         \/ /\ rx.left > 0 /\ wire # <<>> /\ wire' = Tail(wire)
            /\ rx' = [rx EXCEPT !.left = @ - 1]
  BY DEF ReceiveJunk
<1>2. ReceiverTyping /\ rx.left \in Nat /\ rx.got = 0
  BY <1>1 DEF ConnInv, ConnTyping, ReceiverTyping
<1>3. UNCHANGED <<request, counter, calls, pc, port, ask, id, result, net, plc, others, executed,
                  reached, overdue, last>>
  BY <1>1 DEF ByReceiver, counts, device
<1>4. /\ IdsAreFresh' /\ SlotsAreHeld' /\ IdsAreWaitedFor'
      /\ AnswersAreAsked' /\ FramesAreWhole' /\ ResultsAreSet'
      /\ wire' \in Seq(Unit)
  BY <1>1, ReceiverStep
<1>5. aligned => ResultsAreEarned'
  BY <1>1, ReadStep
<1>6. ReceiverTyping' /\ ~Serving' /\ (aligned => InStep')
  <2>1. CASE rx.left = 0 /\ rx' = NextFrame /\ UNCHANGED wire
    <3>1. ReceiverTyping' /\ ~Serving' /\ rx'.left = 0 /\ rx'.got = 0
      BY <2>1, JunkTyping
    <3> QED
      BY <1>2, <1>3, <2>1, <3>1 DEF ConnInv, InStep
  <2>2. CASE /\ rx.left > 0 /\ wire # <<>> /\ wire' = Tail(wire)
             /\ rx' = [rx EXCEPT !.left = @ - 1]
    <3>1. rx'.left = rx.left - 1 /\ rx'.left \in Nat /\ rx'.got = 0 /\ rx'.at = "junk"
      BY <1>1, <1>2, <2>2 DEF ReceiverTyping
    <3>2. ReceiverTyping' /\ ~Serving'
      <4>1. PICK k \in Nat : k = rx.left - 1
        BY <3>1
      <4>2. rx' = [rx EXCEPT !.left = k]
        BY <2>2, <4>1
      <4>3. rx' \in [at : {"header", "answer", "result", "data", "junk", "ended", "spinning"},
                     frame : Frame, who : Caller \union {NoCaller}, left : Nat, got : Nat,
                     code : Codes \union {"none", "reserved"}]
        BY <1>2, <4>1, <4>2 DEF ReceiverTyping
      <4>4. ~Serving'
        BY <3>1 DEF Serving
      <4>5. rx'.got <= rx'.left
        BY <3>1
      <4> QED
        BY <3>1, <4>3, <4>4, <4>5 DEF ReceiverTyping
    <3>3. rx.left # rx.got /\ rx.left - rx.got > 0 /\ rx'.left - rx'.got = rx.left - rx.got - 1
      BY <1>2, <2>2, <3>1
    <3> QED
      BY <1>1, <1>3, <2>2, <3>1, <3>2, <3>3, NextUnit
  <2> QED
    BY <1>1, <2>1, <2>2
<1>7. ConnTyping'
  BY <1>1, <1>3, <1>4, <1>6 DEF ConnInv, ConnTyping
<1> QED
  BY <1>1, <1>4, <1>5, <1>6, <1>7 DEF ConnInv, ServesWaiting

\* The receiver goes no further: it ends, or spins.
LEMMA ReceiverStops ==
  ASSUME ConnInv, NEW at \in {"ended", "spinning"}, rx' = [rx EXCEPT !.at = at],
         UNCHANGED <<invokeId, errorCode, buffer, wire, aligned>>, ByReceiver
  PROVE  ConnInv'
<1>2. UNCHANGED <<request, counter, calls, pc, port, ask, id, result, net, plc, others, executed,
                  reached, overdue, last>>
  BY DEF ByReceiver, counts, device
<1>3. /\ IdsAreFresh' /\ SlotsAreHeld' /\ IdsAreWaitedFor'
      /\ AnswersAreAsked' /\ FramesAreWhole' /\ ResultsAreSet'
      /\ wire' \in Seq(Unit)
  BY ConnectionAssumption, ReceiverStep
<1>4. aligned => ResultsAreEarned'
  BY ReadStep
<1>5. ReceiverTyping' /\ ~Serving' /\ (aligned => InStep')
  BY <1>2 DEF ConnInv, ConnTyping, ReceiverTyping, Serving, InStep
<1>6. ConnTyping'
  BY <1>2, <1>3, <1>5 DEF ConnInv, ConnTyping
<1> QED
  BY <1>3, <1>4, <1>5, <1>6 DEF ConnInv, ServesWaiting

LEMMA EndOfStreamKeeps ==
  ASSUME ConnInv, EndOfStream
  PROVE  ConnInv'
BY ReceiverStops DEF EndOfStream

LEMMA ReceivePartKeeps ==
  ASSUME ConnInv, ReceiveResult \/ ReceiveData
  PROVE  ConnInv'
<1>1. CASE ReceiveResult
  BY <1>1, PartStep DEF ReceiveResult
<1>2. CASE ReceiveData
  <2>1. /\ rx.at = "data" /\ rx.got < rx.left /\ wire # <<>>
        /\ UNCHANGED <<invokeId, errorCode, aligned>> /\ ByReceiver /\ aligned \in BOOLEAN
    BY <1>2 DEF ReceiveData, ConnInv, ConnTyping
  <2>2. CASE /\ wire' = Tail(wire) /\ rx' = [rx EXCEPT !.got = @ + 1]
             /\ buffer' = [buffer EXCEPT ![rx.who] = @ \union {Head(wire).frame.id}]
    BY <2>1, <2>2, PartStep
  <2>3. CASE rx' = [rx EXCEPT !.at = "spinning"] /\ UNCHANGED <<wire, buffer>>
    BY <2>1, <2>3, ReceiverStops
  <2>4. CASE UNCHANGED <<wire, buffer, rx>>
    <3>1. UNCHANGED <<slots, counts, pc, port, ask, id, buffer, result, last, wire, rx, device,
                      reached, aligned, overdue, net>>
      BY <2>1, <2>4 DEF ByReceiver, slots
    <3>2. overdue' \in [Caller -> BOOLEAN]
      BY <3>1 DEF ConnInv, ConnTyping
    <3> QED
      BY <3>1, <3>2, IndifferentStep
  <2> QED
    BY <1>2, <2>2, <2>3, <2>4 DEF ReceiveData
<1> QED
  BY <1>1, <1>2

-----------------------------------------------------------------------------
\* The steps of the device.
LEMMA DeviceStep ==
  ASSUME ConnInv, ByDevice, executed' \subseteq executed \union reached,
         executed \subseteq executed'
  PROVE  /\ IdsAreFresh' /\ SlotsAreHeld' /\ IdsAreWaitedFor' /\ ResultsAreSet'
         /\ aligned => ServesWaiting' /\ ResultsAreEarned'
<1>1. UNCHANGED <<request, invokeId, errorCode, counter, calls, pc, port, ask, id, overdue, buffer,
                  result, last, rx, reached, aligned>>
  BY DEF ByDevice, slots, counts, callerVars
<1>2. IdsAreFresh'
  BY <1>1, FreshStays
<1>3. SlotsAreHeld'
  BY <1>1, SlotsStay DEF Holding
<1>4. IdsAreWaitedFor'
  <2>1. \A d \in Caller : pc'[d] = "answered" => invokeId'[port[d]] = 0
    BY <1>1 DEF ConnInv, IdsAreWaitedFor
  <2> QED
    BY <1>1, <2>1, WaitedForStays
<1>5. ResultsAreSet'
  BY <1>1 DEF ConnInv, ResultsAreSet
<1>6. ASSUME aligned PROVE ServesWaiting'
  BY <1>1, <1>6, ServiceStays DEF ConnInv, ServesWaiting
<1>7. ASSUME aligned PROVE ResultsAreEarned'
  <2>1. \A how, i : Earned(how, i) => Earned(how, i)'
    BY <1>1 DEF Earned
  <2> QED
    BY <1>1, <1>7, <2>1 DEF ConnInv, ResultsAreEarned
<1> QED
  BY <1>2, <1>3, <1>4, <1>5, <1>6, <1>7

\* A whole frame is put behind what is on its way.
LEMMA AppendFrame ==
  ASSUME ConnInv, NEW h \in Frame, wire' = wire \o Units(h), net = "up", UNCHANGED <<net, rx>>
  PROVE  /\ wire' \in Seq(Unit) /\ FramesAreWhole'
         /\ \A n \in 1 .. Len(wire') : wire'[n].frame = h \/
              (n \in 1 .. Len(wire) /\ wire'[n] = wire[n])
         /\ aligned => InStep'
<1> DEFINE u == Units(h)
<1>1. /\ wire \in Seq(Unit) /\ u \in Seq(Unit)
      /\ Len(wire) \in Nat /\ h.size \in Nat /\ Len(u) = 1 + h.size
      /\ \A n \in 1 .. 1 + h.size : u[n] = [frame |-> h, at |-> n - 1]
  BY UnitsTyping DEF ConnInv, ConnTyping, Frame
<1> HIDE DEF u
<1>2. /\ wire' = wire \o u
  BY DEF u
<1>3. /\ wire' \in Seq(Unit) /\ Len(wire') = Len(wire) + 1 + h.size
      /\ \A n \in 1 .. Len(wire) : wire'[n] = wire[n]
      /\ \A n \in Len(wire) + 1 .. Len(wire') : wire'[n] = u[n - Len(wire)]
  <2>1. /\ wire \o u \in Seq(Unit) /\ Len(wire \o u) = Len(wire) + Len(u)
        /\ \A n \in 1 .. Len(wire) + Len(u) :
             (wire \o u)[n] = IF n <= Len(wire) THEN wire[n] ELSE u[n - Len(wire)]
    BY <1>1, ConcatProperties
  <2>2. /\ \A n \in 1 .. Len(wire) : n \in 1 .. Len(wire) + Len(u) /\ n <= Len(wire)
        /\ \A n \in Len(wire) + 1 .. Len(wire) + Len(u) :
             n \in 1 .. Len(wire) + Len(u) /\ ~(n <= Len(wire))
    BY <1>1
  <2>3. Len(wire) + Len(u) = Len(wire) + 1 + h.size
    <3>1. Len(u) = 1 + h.size /\ Len(wire) \in Nat /\ h.size \in Nat
      BY <1>1
    <3> QED
      BY <3>1
  <2> QED
    BY <1>2, <2>1, <2>2, <2>3
<1>4. \A n \in Len(wire) + 1 .. Len(wire') : wire'[n] = [frame |-> h, at |-> n - Len(wire) - 1]
  <2> SUFFICES ASSUME NEW n \in Len(wire) + 1 .. Len(wire')
               PROVE  wire'[n] = [frame |-> h, at |-> n - Len(wire) - 1]
    OBVIOUS
  <2>1. n - Len(wire) \in 1 .. 1 + h.size
    BY <1>1, <1>3
  <2> QED
    BY <1>1, <1>3, <2>1
<1>5. \A n \in 1 .. Len(wire') : wire'[n].frame = h \/ (n \in 1 .. Len(wire) /\ wire'[n] = wire[n])
  <2> SUFFICES ASSUME NEW n \in 1 .. Len(wire'), n \notin 1 .. Len(wire)
               PROVE  wire'[n].frame = h
    BY <1>3
  <2>1. n \in Len(wire) + 1 .. Len(wire')
    BY <1>1, <1>3
  <2>2. wire'[n] = [frame |-> h, at |-> n - Len(wire) - 1]
    BY <1>4, <2>1
  <2> QED
    BY <2>2
<1>6. FramesAreWhole'
  <2>1. ASSUME NEW n \in 1 .. Len(wire') - 1 PROVE Follows(wire'[n], wire'[n + 1])
    <3>1. CASE n < Len(wire)
      <4>1. n \in 1 .. Len(wire) - 1 /\ wire'[n] = wire[n] /\ wire'[n + 1] = wire[n + 1]
        BY <1>1, <1>3, <3>1
      <4> QED
        BY <4>1 DEF ConnInv, FramesAreWhole
    <3>2. CASE n = Len(wire)
      <4>1. /\ wire'[n] = wire[Len(wire)] /\ wire # <<>>
            /\ wire'[n + 1] = [frame |-> h, at |-> 0]
        <5>1. n \in 1 .. Len(wire) /\ n + 1 \in Len(wire) + 1 .. Len(wire')
              /\ n + 1 - Len(wire) - 1 = 0
          BY <1>1, <1>3, <3>2
        <5> QED
          BY <1>1, <1>3, <1>4, <3>2, <5>1
      <4>2. wire[Len(wire)].at = wire[Len(wire)].frame.size
        BY <4>1 DEF ConnInv, FramesAreWhole
      <4> QED
        BY <4>1, <4>2 DEF Follows
    <3>3. CASE n > Len(wire)
      <4>1. /\ wire'[n] = [frame |-> h, at |-> n - Len(wire) - 1]
            /\ wire'[n + 1] = [frame |-> h, at |-> n - Len(wire)]
        <5>1. /\ n \in Len(wire) + 1 .. Len(wire') /\ n + 1 \in Len(wire) + 1 .. Len(wire')
              /\ n + 1 - Len(wire) - 1 = n - Len(wire)
          BY <1>1, <1>3, <2>1, <3>3
        <5> QED
          BY <1>4, <5>1
      <4>2. n - Len(wire) - 1 # h.size /\ n - Len(wire) = (n - Len(wire) - 1) + 1
        BY <1>1, <1>3, <2>1, <3>3
      <4> QED
        BY <4>1, <4>2 DEF Follows
    <3> QED
      BY <1>1, <3>1, <3>2, <3>3
  <2>2. wire'[Len(wire')].at = h.size /\ wire'[Len(wire')].frame = h
    <3>1. Len(wire') \in Len(wire) + 1 .. Len(wire') /\ Len(wire') - Len(wire) - 1 = h.size
      BY <1>1, <1>3
    <3>2. wire'[Len(wire')] = [frame |-> h, at |-> Len(wire') - Len(wire) - 1]
      BY <1>4, <3>1
    <3> QED
      BY <3>1, <3>2
  <2> QED
    BY <2>1, <2>2 DEF FramesAreWhole, Follows
<1>7. ASSUME aligned PROVE InStep'
  <2>1. /\ InStep /\ wire' # <<>> /\ rx.left \in Nat /\ rx.got \in Nat
    BY <1>1, <1>3, <1>7 DEF ConnInv, ConnTyping, ReceiverTyping
  <2>2. CASE wire = <<>>
    <3>0. Len(wire) = 0
      BY <2>2, EmptySeq
    <3>1. 1 \in Len(wire) + 1 .. Len(wire') /\ 1 - Len(wire) - 1 = 0
      BY <1>1, <1>3, <3>0
    <3>2. wire'[1] = [frame |-> h, at |-> 1 - Len(wire) - 1]
      BY <1>4, <3>1
    <3>3. wire'[1].at = 0
      BY <3>1, <3>2
    <3> QED
      BY <2>1, <2>2, <3>3 DEF InStep
  <2>3. CASE wire # <<>>
    <3>1. wire'[1] = wire[1]
      BY <1>1, <1>3, <2>3
    <3> QED
      BY <2>1, <2>3, <3>1 DEF InStep, Serving
  <2> QED
    BY <2>2, <2>3
<1> QED
  BY <1>3, <1>5, <1>6, <1>7

LEMMA AnswerKeeps ==
  ASSUME ConnInv, NEW r \in plc, NEW k \in Answers, Answer(r, k)
  PROVE  ConnInv'
<1> DEFINE h == Header(k, r.id, r.port, r.wants)
<1>1. /\ net = "up" /\ wire' = wire \o Units(h) /\ plc' = plc \ {r}
      /\ executed' = IF k \in Good THEN executed \union {r.id} ELSE executed
      /\ UNCHANGED <<net, others>> /\ ByDevice
  BY DEF Answer
<1>2. /\ r \in [id : Nat, port : Port, wants : Nat] /\ Names(r.id, r.port)
      /\ r.id \in reached /\ r.id \notin executed
      /\ \A s \in plc : s.id = r.id => s = r
  BY DEF ConnInv, ConnTyping, AnswersAreAsked, Names
<1>3. h \in Frame /\ h.kind = k /\ h.id = r.id /\ h.port = r.port
  BY <1>2, HeaderTyping DEF Header
<1> HIDE DEF h
<1>4. UNCHANGED <<request, invokeId, errorCode, counter, calls, pc, port, ask, id, overdue, buffer,
                  result, last, rx, reached, aligned>>
  BY <1>1 DEF ByDevice, slots, counts, callerVars
<1>5. /\ executed \subseteq executed' /\ executed' \subseteq executed \union reached
      /\ \A i : i # r.id /\ i \notin executed => i \notin executed'
      /\ k \in Good => r.id \in executed'
  BY <1>1, <1>2
<1>6. /\ IdsAreFresh' /\ SlotsAreHeld' /\ IdsAreWaitedFor' /\ ResultsAreSet'
      /\ aligned => ServesWaiting' /\ ResultsAreEarned'
  BY <1>1, <1>5, DeviceStep
<1>7. /\ wire' \in Seq(Unit) /\ FramesAreWhole'
      /\ \A n \in 1 .. Len(wire') : wire'[n].frame = h \/
           (n \in 1 .. Len(wire) /\ wire'[n] = wire[n])
      /\ aligned => InStep'
  BY <1>1, <1>3, <1>4, AppendFrame
<1>8. ConnTyping'
  BY <1>1, <1>4, <1>7 DEF ConnInv, ConnTyping, ReceiverTyping, Serving
<1>9. AnswersAreAsked'
  <2>1. \A i, q : Names(i, q)' <=> Names(i, q)
    BY <1>4 DEF Names
  <2>2. \A f : AnswersRequest(f) => AnswersRequest(f)'
    BY <1>5, <2>1 DEF AnswersRequest
  <2>3. AnswersRequest(h)'
    BY <1>2, <1>3, <1>5, <2>1 DEF AnswersRequest, Answers, Others, Good
  <2>4. \A n \in 1 .. Len(wire') : AnswersRequest(wire[n].frame)'
    BY <1>7, <2>2, <2>3 DEF ConnInv, AnswersAreAsked
  <2>5. \A s \in plc' : Names(s.id, s.port)' /\ s.id \notin executed'
    BY <1>1, <1>2, <1>5, <2>1 DEF ConnInv, AnswersAreAsked
  <2>6. \A s, t \in plc' : s.id = t.id => s = t
    BY <1>1 DEF ConnInv, AnswersAreAsked
  <2> QED
    BY <2>4, <2>5, <2>6 DEF AnswersAreAsked, AnswersRequest
<1> QED
  BY <1>4, <1>6, <1>7, <1>8, <1>9 DEF ConnInv

LEMMA SendOtherKeeps ==
  ASSUME ConnInv, NEW k \in Others, SendOther(k)
  PROVE  ConnInv'
<1> DEFINE h == Header(k, 0, AnyPort, 0)
<1>1. /\ net = "up" /\ wire' = wire \o Units(h) /\ others' = others + 1
      /\ calls + others < MaxCalls /\ UNCHANGED <<net, plc, executed>> /\ ByDevice
  BY DEF SendOther
<1>2. h \in Frame /\ h.kind = k /\ h.id = 0
  BY HeaderTyping, AnyPortTyping DEF Header
<1> HIDE DEF h
<1>3. UNCHANGED <<request, invokeId, errorCode, counter, calls, pc, port, ask, id, overdue, buffer,
                  result, last, rx, reached, aligned>>
  BY <1>1 DEF ByDevice, slots, counts, callerVars
<1>4. /\ IdsAreFresh' /\ SlotsAreHeld' /\ IdsAreWaitedFor' /\ ResultsAreSet'
      /\ aligned => ServesWaiting' /\ ResultsAreEarned'
  BY <1>1, DeviceStep
<1>5. /\ wire' \in Seq(Unit) /\ FramesAreWhole'
      /\ \A n \in 1 .. Len(wire') : wire'[n].frame = h \/
           (n \in 1 .. Len(wire) /\ wire'[n] = wire[n])
      /\ aligned => InStep'
  BY <1>1, <1>2, <1>3, AppendFrame
<1>6. ConnTyping'
  <2>1. others' \in Nat /\ calls + others' <= MaxCalls
    BY <1>1, ConnectionAssumption DEF ConnInv, ConnTyping
  <2> QED
    BY <1>1, <1>3, <1>5, <2>1 DEF ConnInv, ConnTyping, ReceiverTyping, Serving
<1>7. AnswersAreAsked'
  <2>1. \A i, q : Names(i, q)' <=> Names(i, q)
    BY <1>3 DEF Names
  <2>2. \A f : AnswersRequest(f) => AnswersRequest(f)'
    BY <1>1, <2>1 DEF AnswersRequest
  <2>3. AnswersRequest(h)'
    BY <1>2 DEF AnswersRequest
  <2>4. \A n \in 1 .. Len(wire') : AnswersRequest(wire[n].frame)'
    BY <1>5, <2>2, <2>3 DEF ConnInv, AnswersAreAsked
  <2> QED
    BY <1>1, <2>1, <2>4 DEF ConnInv, AnswersAreAsked, AnswersRequest
<1> QED
  BY <1>3, <1>4, <1>5, <1>6, <1>7 DEF ConnInv

\* What was on its way may be lost from some unit on.
LEMMA DeviceClosesKeeps ==
  ASSUME ConnInv, DeviceCloses
  PROVE  ConnInv'
<1>1. net' = "closed" /\ UNCHANGED device /\ ByDevice
  BY DEF DeviceCloses
<1>2. PICK m \in 0 .. Len(wire) : wire' = SubSeq(wire, 1, m)
  BY DEF DeviceCloses
<1>3. /\ wire \in Seq(Unit) /\ Len(wire) \in Nat /\ m \in Nat /\ m <= Len(wire)
  BY DEF ConnInv, ConnTyping
<1>4. /\ wire' \in Seq(Unit) /\ Len(wire') = m
      /\ \A n \in 1 .. m : n \in 1 .. Len(wire) /\ wire'[n] = wire[n]
  BY <1>2, <1>3, SubSeqProperties
<1>5. UNCHANGED <<request, invokeId, errorCode, counter, calls, pc, port, ask, id, overdue, buffer,
                  result, last, rx, reached, aligned, plc, others, executed>>
  BY <1>1 DEF ByDevice, slots, counts, callerVars, device
<1>6. /\ IdsAreFresh' /\ SlotsAreHeld' /\ IdsAreWaitedFor' /\ ResultsAreSet'
      /\ aligned => ServesWaiting' /\ ResultsAreEarned'
  BY <1>1, <1>5, DeviceStep
<1>7. ConnTyping'
  BY <1>1, <1>4, <1>5 DEF ConnInv, ConnTyping, ReceiverTyping, Serving
<1>8. AnswersAreAsked'
  <2>1. \A i, q : Names(i, q)' <=> Names(i, q)
    BY <1>5 DEF Names
  <2>2. \A f : AnswersRequest(f) => AnswersRequest(f)'
    BY <1>5, <2>1 DEF AnswersRequest
  <2>3. \A n \in 1 .. Len(wire') : AnswersRequest(wire[n].frame)'
    BY <1>4, <2>2 DEF ConnInv, AnswersAreAsked
  <2> QED
    BY <1>5, <2>1, <2>3 DEF ConnInv, AnswersAreAsked, AnswersRequest
<1>9. FramesAreWhole'
  <2>1. ASSUME NEW n \in 1 .. m - 1 PROVE Follows(wire'[n], wire'[n + 1])
    <3>1. n \in 1 .. Len(wire) - 1 /\ wire'[n] = wire[n] /\ wire'[n + 1] = wire[n + 1]
      BY <1>3, <1>4
    <3> QED
      BY <3>1 DEF ConnInv, FramesAreWhole
  <2> QED
    BY <1>1, <1>4, <2>1 DEF FramesAreWhole, Follows
<1>10. ASSUME aligned PROVE InStep'
  <2>1. InStep
    BY <1>10 DEF ConnInv
  <2>2. CASE wire' = <<>>
    BY <1>1, <2>2 DEF InStep
  <2>3. CASE wire' # <<>>
    <3>1. 1 \in 1 .. m /\ wire # <<>> /\ wire'[1] = wire[1]
      BY <1>3, <1>4, <2>3
    <3> QED
      BY <1>5, <2>1, <2>3, <3>1 DEF InStep, Serving
  <2> QED
    BY <2>2, <2>3
<1> QED
  BY <1>5, <1>6, <1>7, <1>8, <1>9, <1>10 DEF ConnInv
-----------------------------------------------------------------------------
\* ConnInv is inductive.
LEMMA ConnectionKeeps ==
  ASSUME ConnInv, [ConnectionNext]_connVars
  PROVE  ConnInv'
<1>1. \A c \in Caller : Begin(c) => ConnInv'
  BY BeginKeeps
<1>2. \A c \in Caller : CallerStep(c) => ConnInv'
  <2>1. \A c \in Caller : Reserve(c) \/ StoreId(c) => ConnInv'
    BY ReserveKeeps, StoreIdKeeps
  <2>2. \A c \in Caller : WriteReaches(c) \/ WriteIsLost(c) => ConnInv'
    BY WriteReachesKeeps, WriteIsLostKeeps
  <2>3. \A c \in Caller : WriteKills(c) => ConnInv'
    <3> SUFFICES ASSUME NEW c \in Caller, WriteKills(c) PROVE ConnInv'
      OBVIOUS
    <3>1. overdue \in [Caller -> BOOLEAN]
      BY DEF ConnInv, ConnTyping
    <3> QED
      BY <3>1, IndifferentStep DEF WriteKills, callerVars
  <2>4. \A c \in Caller : WaitDeadline(c) \/ WaitServed(c) => ConnInv'
    BY WaitDeadlineKeeps, WaitServedKeeps
  <2>5. \A c \in Caller : ReleaseCode(c) \/ ReleaseSlot(c) => ConnInv'
    BY ReleaseCodeKeeps, ReleaseSlotKeeps
  <2> QED
    BY <2>1, <2>2, <2>3, <2>4, <2>5 DEF CallerStep, Write
<1>3. \A c \in Caller : DeadlinePasses(c) => ConnInv'
  <2> SUFFICES ASSUME NEW c \in Caller, DeadlinePasses(c) PROVE ConnInv'
    OBVIOUS
  <2>1. overdue' \in [Caller -> BOOLEAN]
    BY DEF DeadlinePasses, ConnInv, ConnTyping
  <2> QED
    BY <2>1, IndifferentStep DEF DeadlinePasses, Locally
<1>4. Receives => ConnInv'
  BY ReceiveHeaderKeeps, ReceivePartKeeps, ReceiveJunkKeeps DEF Receives
<1>5. Proceeds => ConnInv'
  BY ServeAtOnceKeeps, ReceiveDoneKeeps, ReceiveTimesOutKeeps, EndOfStreamKeeps DEF Proceeds
<1>6. Shutdown => ConnInv'
  <2>1. overdue \in [Caller -> BOOLEAN]
    BY DEF ConnInv, ConnTyping
  <2> QED
    BY <2>1, IndifferentStep DEF Shutdown, ShutDown, callerVars
<1>7. Device => ConnInv'
  BY AnswerKeeps, SendOtherKeeps, DeviceClosesKeeps DEF Device
<1>8. UNCHANGED connVars => ConnInv'
  <2>1. overdue \in [Caller -> BOOLEAN]
    BY DEF ConnInv, ConnTyping
  <2> QED
    BY <2>1, IndifferentStep DEF connVars, callerVars
<1> QED
  BY <1>1, <1>2, <1>3, <1>4, <1>5, <1>6, <1>7, <1>8 DEF ConnectionNext

\* The invariant of the connection: ids are handed out once, a slot is held by
\* one caller, an id the device has been sent stands only in the slot of the
\* caller that waits for it, and, unless junk was miscounted, the receiver is
\* where the frames are and serves a caller that waits.
THEOREM ConnectionInvariance == ConnectionSpec => []ConnInv
<1>1. ConnectionInit => ConnInv
  BY ConnectionStarts
<1>2. ConnInv /\ [ConnectionNext]_connVars => ConnInv'
  BY ConnectionKeeps
<1> QED
  BY <1>1, <1>2, PTL DEF ConnectionSpec

\* ConnTypeOK for any number of calls below 2^32: GetInvokeId gives every
\* request an id of its own, never 0, also after the counter has wrapped.
THEOREM IdsKeepTheirRange == ConnectionSpec => []ConnTypeOK
<1>1. ConnInv => ConnTypeOK
  BY DEF ConnInv, ConnTyping, ReceiverTyping, IdsAreFresh, Handed, ConnTypeOK, Codes
<1> QED
  BY <1>1, ConnectionInvariance, PTL

\* A call that returns success has the data of its own request in its buffer,
\* and no other, whoever held its slot before (GetPending, Wait, Release).
THEOREM AnswersAreOwn == ConnectionSpec => []AnswerIsOwn
<1>1. ConnInv => AnswerIsOwn
  BY DEF ConnInv, ResultsAreEarned, Earned, AnswerIsOwn
<1> QED
  BY <1>1, ConnectionInvariance, PTL

\* Up to the first read that reaches into the next frame the receiver writes only
\* into the buffer of a caller that cannot leave Wait before it has finished (the
\* comment of AmsConnection.cpp:32), and only as much as there is room for: the
\* test of AmsConnection.cpp:237 is enough for every answer that is as long as its
\* result at least.  A shorter one is where it ends: bytesLeft goes below 0.
THEOREM BuffersAreHeld == ConnectionSpec => []BufferHeldWhileUsed
<1>1. ConnInv => BufferHeldWhileUsed
  <2> SUFFICES ASSUME ConnInv, Serving, aligned PROVE BufferHeldWhileUsed
    BY DEF BufferHeldWhileUsed, Serving
  <2>1. ServesWaiting /\ rx.who \in Caller
    BY DEF ConnInv, ConnTyping, ReceiverTyping
  <2>2. request[rx.frame.port] = rx.who
    BY <2>1 DEF ServesWaiting, ConnInv, SlotsAreHeld, Holding
  <2> QED
    BY <2>1, <2>2 DEF ServesWaiting, BufferHeldWhileUsed
<1> QED
  BY <1>1, ConnectionInvariance, PTL
-----------------------------------------------------------------------------
\* A request is outstanding until the header of its answer has been read; its
\* id stands in the slot of its caller, if that has not given up.
OnWire(i) == \E n \in 1 .. Len(wire) : wire[n].at = 0 /\ wire[n].frame.id = i

Outstanding(i) == OnWire(i) \/ \E r \in plc : r.id = i

AnsweredOnce ==
  /\ \A r \in plc : ~OnWire(r.id)
  /\ \A m, n \in 1 .. Len(wire) :
       /\ wire[m].at = 0 /\ wire[n].at = 0
       /\ wire[m].frame.id = wire[n].frame.id /\ wire[n].frame.id # 0
       => m = n

StillDue(c) ==
  pc[c] = "write" \/ (pc[c] \in {"wait", "answered"} /\ Outstanding(id[c]))

SlotsAreDue ==
  aligned => \A c \in Caller : StillDue(c) => invokeId[port[c]] = id[c]

DueInv == AnsweredOnce /\ SlotsAreDue

\* A caller's slot is still due when it was before, or has just got its id.
LEMMA DueStays ==
  ASSUME ConnInv, DueInv, AnsweredOnce', aligned' => aligned,
         \A c \in Caller : aligned /\ pc'[c] \in {"write", "wait", "answered"} =>
           \/ invokeId'[port'[c]] = id'[c]
           \/ /\ id'[c] = id[c] /\ port'[c] = port[c]
              /\ pc[c] \in {"write", "wait", "answered"}
              /\ pc'[c] = "write" => pc[c] = "write"
              /\ Outstanding(id[c])' => Outstanding(id[c])
              /\ StillDue(c)' => invokeId'[port[c]] = invokeId[port[c]]
  PROVE  DueInv'
<1> SUFFICES ASSUME aligned, NEW c \in Caller, StillDue(c)'
             PROVE  invokeId'[port'[c]] = id'[c]
  BY DEF DueInv, SlotsAreDue
<1>1. pc'[c] \in {"write", "wait", "answered"}
  BY DEF StillDue
<1>2. CASE invokeId'[port'[c]] = id'[c]
  BY <1>2
<1>3. CASE /\ id'[c] = id[c] /\ port'[c] = port[c]
           /\ pc[c] \in {"write", "wait", "answered"}
           /\ pc'[c] = "write" => pc[c] = "write"
           /\ Outstanding(id[c])' => Outstanding(id[c])
           /\ StillDue(c)' => invokeId'[port[c]] = invokeId[port[c]]
  <2>1. StillDue(c)
    BY <1>3 DEF StillDue
  <2> QED
    BY <1>3, <2>1 DEF DueInv, SlotsAreDue
<1> QED
  BY <1>1, <1>2, <1>3

\* What is on its way becomes less.
LEMMA WireShrinks ==
  ASSUME ConnInv, AnsweredOnce, UNCHANGED plc,
         \/ wire' = wire
         \/ wire # <<>> /\ wire' = Tail(wire)
         \/ \E m \in 0 .. Len(wire) : wire' = SubSeq(wire, 1, m)
  PROVE  AnsweredOnce' /\ \A i : Outstanding(i)' => Outstanding(i)
<1>1. wire \in Seq(Unit) /\ Len(wire) \in Nat
  BY DEF ConnInv, ConnTyping
<1>2. PICK s \in {0, 1} : \A n \in 1 .. Len(wire') :
        n \in Int /\ n + s \in 1 .. Len(wire) /\ wire'[n] = wire[n + s]
  <2>1. CASE wire' = wire
    BY <1>1, <2>1
  <2>2. CASE wire # <<>> /\ wire' = Tail(wire)
    <3>1. /\ Len(wire') = Len(wire) - 1
          /\ \A n \in 1 .. Len(wire) - 1 : wire'[n] = wire[n + 1]
      BY <2>2, HeadOfWire
    <3>2. \A n \in 1 .. Len(wire') : n \in Int /\ n + 1 \in 1 .. Len(wire)
                                     /\ wire'[n] = wire[n + 1]
      BY <1>1, <3>1
    <3> QED
      BY <3>2
  <2>3. ASSUME NEW m \in 0 .. Len(wire), wire' = SubSeq(wire, 1, m)
        PROVE  \A n \in 1 .. Len(wire') :
                 n \in Int /\ n + 0 \in 1 .. Len(wire) /\ wire'[n] = wire[n + 0]
    BY <1>1, <2>3, SubSeqProperties
  <2> QED
    BY <2>1, <2>2, <2>3
<1>3. \A i : OnWire(i)' => OnWire(i)
  BY <1>2 DEF OnWire
<1>4. ASSUME NEW m \in 1 .. Len(wire'), NEW n \in 1 .. Len(wire'),
             wire'[m].at = 0, wire'[n].at = 0,
             wire'[m].frame.id = wire'[n].frame.id, wire'[n].frame.id # 0
      PROVE  m = n
  <2>1. m + s = n + s
    BY <1>2, <1>4 DEF AnsweredOnce
  <2> QED
    BY <1>2, <2>1
<1> QED
  BY <1>3, <1>4 DEF AnsweredOnce, Outstanding

\* An answer is put behind what is on its way; its header is its first unit.
LEMMA WireGrows ==
  ASSUME ConnInv, AnsweredOnce, NEW h \in Frame, wire' = wire \o Units(h),
         h.id # 0 => ~OnWire(h.id),
         plc' \subseteq plc, \A r \in plc' : r.id # h.id
  PROVE  /\ AnsweredOnce'
         /\ \A i : i # h.id => (OnWire(i)' <=> OnWire(i))
<1> DEFINE u == Units(h)
<1>1. /\ wire \in Seq(Unit) /\ u \in Seq(Unit)
      /\ Len(wire) \in Nat /\ h.size \in Nat /\ Len(u) = 1 + h.size
      /\ \A n \in 1 .. 1 + h.size : u[n] = [frame |-> h, at |-> n - 1]
  BY UnitsTyping DEF ConnInv, ConnTyping, Frame
<1> HIDE DEF u
<1>2. /\ Len(wire') = Len(wire) + 1 + h.size
      /\ \A n \in 1 .. Len(wire') :
           wire'[n] = IF n <= Len(wire) THEN wire[n] ELSE u[n - Len(wire)]
  <2>1. /\ Len(wire \o u) = Len(wire) + Len(u)
        /\ \A n \in 1 .. Len(wire) + Len(u) :
             (wire \o u)[n] = IF n <= Len(wire) THEN wire[n] ELSE u[n - Len(wire)]
    BY <1>1, ConcatProperties
  <2>2. wire' = wire \o u
    BY DEF u
  <2>3. Len(wire) + Len(u) = Len(wire) + 1 + h.size
    <3>1. Len(u) = 1 + h.size /\ Len(wire) \in Nat /\ h.size \in Nat
      BY <1>1
    <3> QED
      BY <3>1
  <2> QED
    BY <2>1, <2>2, <2>3
<1>3. ASSUME NEW n \in 1 .. Len(wire'), wire'[n].at = 0
      PROVE  \/ n \in 1 .. Len(wire) /\ wire'[n] = wire[n]
             \/ n = Len(wire) + 1 /\ wire'[n].frame.id = h.id
  <2>1. CASE n <= Len(wire)
    BY <1>1, <1>2, <2>1
  <2>2. CASE ~(n <= Len(wire))
    <3>1. n - Len(wire) \in 1 .. 1 + h.size
      BY <1>1, <1>2, <2>2
    <3>2. wire'[n] = [frame |-> h, at |-> n - Len(wire) - 1]
      BY <1>1, <1>2, <2>2, <3>1
    <3>3. n - Len(wire) - 1 = 0 /\ wire'[n].frame = h
      BY <1>3, <3>2
    <3>4. n = Len(wire) + 1
      BY <1>1, <3>3
    <3> QED
      BY <3>3, <3>4
  <2> QED
    BY <2>1, <2>2
<1>4. \A n \in 1 .. Len(wire) : n \in 1 .. Len(wire') /\ wire'[n] = wire[n]
  BY <1>1, <1>2
<1>5. \A i : i # h.id => (OnWire(i)' <=> OnWire(i))
  BY <1>3, <1>4 DEF OnWire
<1>6. \A r \in plc' : ~OnWire(r.id)'
  BY <1>5 DEF AnsweredOnce
<1>7. ASSUME NEW m \in 1 .. Len(wire'), NEW n \in 1 .. Len(wire'),
             wire'[m].at = 0, wire'[n].at = 0,
             wire'[m].frame.id = wire'[n].frame.id, wire'[n].frame.id # 0
      PROVE  m = n
  <2>1. CASE m = Len(wire) + 1 \/ n = Len(wire) + 1
    <3>1. \A k \in 1 .. Len(wire) : wire[k].at = 0 => wire[k].frame.id # h.id \/ h.id = 0
      BY DEF OnWire
    <3> QED
      BY <1>3, <1>7, <2>1, <3>1
  <2>2. CASE ~(m = Len(wire) + 1 \/ n = Len(wire) + 1)
    BY <1>3, <1>7, <2>2 DEF AnsweredOnce
  <2> QED
    BY <2>1, <2>2
<1> QED
  BY <1>5, <1>6, <1>7 DEF AnsweredOnce

\* Ids of requests the device was sent.
LEMMA WireIsSent ==
  ASSUME ConnInv
  PROVE  \A i : Outstanding(i) => i = 0 \/ i \in reached
<1>1. \A n \in 1 .. Len(wire) : wire[n].frame.id = 0 \/ wire[n].frame.id \in reached
  BY DEF ConnInv, AnswersAreAsked, AnswersRequest, Names
<1> QED
  BY <1>1 DEF Outstanding, OnWire, ConnInv, AnswersAreAsked, Names

\* A step of a caller that leaves what is on its way alone.
LEMMA CallerStaysDue ==
  ASSUME ConnInv, DueInv, NEW c \in Caller, UNCHANGED <<wire, plc, aligned>>,
         \A d \in Caller : d # c => /\ pc'[d] = pc[d] /\ id'[d] = id[d] /\ port'[d] = port[d],
         pc'[c] \in {"write", "wait", "answered"} =>
           \/ invokeId'[port'[c]] = id'[c]
           \/ /\ id'[c] = id[c] /\ port'[c] = port[c] /\ invokeId' = invokeId
              /\ pc[c] \in {"write", "wait", "answered"} /\ (pc'[c] = "write" => pc[c] = "write"),
         \/ invokeId' = invokeId
         \/ \E v : Holding(c) /\ invokeId' = [invokeId EXCEPT ![port[c]] = v]
  PROVE  DueInv'
<1>1. AnsweredOnce' /\ \A i : Outstanding(i)' => Outstanding(i)
  BY WireShrinks DEF DueInv
<1>2. ASSUME NEW d \in Caller, pc'[d] \in {"write", "wait", "answered"}, d # c
      PROVE  invokeId'[port[d]] = invokeId[port[d]]
  <2>1. Holding(d) /\ port[d] \in Port /\ invokeId \in [Port -> Nat]
    BY <1>2 DEF Holding, ConnInv, ConnTyping
  <2>2. Holding(c) => port[d] # port[c]
    BY <1>2, <2>1 DEF ConnInv, SlotsAreHeld
  <2> QED
    BY <2>1, <2>2
<1>3. ASSUME NEW d \in Caller, pc'[d] \in {"write", "wait", "answered"}
      PROVE  \/ invokeId'[port'[d]] = id'[d]
             \/ /\ id'[d] = id[d] /\ port'[d] = port[d]
                /\ pc[d] \in {"write", "wait", "answered"}
                /\ pc'[d] = "write" => pc[d] = "write"
                /\ Outstanding(id[d])' => Outstanding(id[d])
                /\ StillDue(d)' => invokeId'[port[d]] = invokeId[port[d]]
  <2>1. id'[d] = id[d] => (Outstanding(id[d])' => Outstanding(id[d]))
    <3>1. id'[d] = id[d] => (Outstanding(id[d])' <=> (\E i : i = id[d] /\ Outstanding(i)'))
      BY DEF Outstanding, OnWire
    <3> QED
      BY <1>1, <3>1
  <2> QED
    BY <1>2, <1>3, <2>1
<1> QED
  BY <1>1, <1>3, DueStays

-----------------------------------------------------------------------------
\* The steps of callers.
LEMMA CallersStayDue ==
  ASSUME ConnInv, DueInv, NEW c \in Caller, Begin(c) \/ CallerStep(c) \/ DeadlinePasses(c)
  PROVE  DueInv'
<1> USE DEF Goto, Locally, Return, slots, counts, callerVars, device
<1>1. /\ pc \in [Caller -> Statements] /\ port \in [Caller -> Port] /\ id \in [Caller -> Nat]
      /\ invokeId \in [Port -> Nat]
  BY DEF ConnInv, ConnTyping
<1>2. CASE Begin(c)
  BY <1>1, <1>2, CallerStaysDue DEF Begin
<1>3. CASE Reserve(c)
  BY <1>1, <1>3, CallerStaysDue DEF Reserve
<1>4. CASE StoreId(c)
  <2>1. Holding(c) /\ invokeId' = [invokeId EXCEPT ![port[c]] = id[c]]
    BY <1>4 DEF StoreId, IdFor, Holding
  <2>2. invokeId'[port'[c]] = id'[c]
    BY <1>1, <1>4, <2>1 DEF StoreId
  <2> QED
    BY <1>1, <1>4, <2>1, <2>2, CallerStaysDue DEF StoreId
<1>5. CASE WriteReaches(c)
  <2>1. /\ pc[c] = "write" /\ pc' = [pc EXCEPT ![c] = "wait"]
        /\ plc' = plc \union {[id |-> id[c], port |-> port[c], wants |-> ask[c].wants]}
        /\ UNCHANGED <<slots, port, id, wire, aligned>>
    BY <1>5 DEF WriteReaches
  <2>2. id[c] # 0 /\ id[c] \notin reached
    BY <2>1, NoSlotHasAnIdle DEF ConnInv, IdsAreFresh
  <2>3. ~Outstanding(id[c])
    BY <2>2, WireIsSent
  <2>4. AnsweredOnce'
    BY <2>1, <2>3 DEF DueInv, AnsweredOnce, OnWire, Outstanding
  <2>5. ASSUME aligned, NEW d \in Caller, StillDue(d)' PROVE invokeId[port[d]] = id[d]
    <3>1. CASE d = c
      BY <2>1, <2>5, <3>1 DEF DueInv, SlotsAreDue, StillDue
    <3>2. CASE d # c
      <4>1. pc'[d] = pc[d] /\ (pc[d] # "idle" => id[d] # id[c])
        BY <1>1, <2>1, <3>2 DEF ConnInv, IdsAreFresh
      <4>2. StillDue(d)
        BY <2>1, <2>5, <4>1 DEF StillDue, Outstanding, OnWire
      <4> QED
        BY <2>5, <4>2 DEF DueInv, SlotsAreDue
    <3> QED
      BY <3>1, <3>2
  <2> QED
    BY <2>1, <2>4, <2>5 DEF DueInv, SlotsAreDue
<1>6. CASE WriteIsLost(c)
  BY <1>1, <1>6, CallerStaysDue DEF WriteIsLost
<1>7. CASE WriteKills(c)
  BY <1>1, <1>7, CallerStaysDue DEF WriteKills, Statements
<1>8. CASE WaitDeadline(c)
  <2>1. CASE /\ invokeId' = [invokeId EXCEPT ![port[c]] = 0]
             /\ pc' = [pc EXCEPT ![c] = "release"]
    <3>1. Holding(c) /\ UNCHANGED <<wire, plc, aligned, id, port>>
      BY <1>8 DEF WaitDeadline, Holding
    <3>2. /\ \A d \in Caller : d # c => pc'[d] = pc[d]
          /\ pc'[c] = "release"
      BY <1>1, <2>1
    <3>3. \E v : Holding(c) /\ invokeId' = [invokeId EXCEPT ![port[c]] = v]
      BY <2>1, <3>1
    <3> QED
      BY <3>1, <3>2, <3>3, CallerStaysDue
  <2>2. CASE invokeId' = invokeId /\ pc' = [pc EXCEPT ![c] = "answered"]
    BY <1>1, <1>8, <2>2, CallerStaysDue DEF WaitDeadline
  <2> QED
    BY <1>8, <2>1, <2>2 DEF WaitDeadline, Expired
<1>9. CASE WaitServed(c)
  BY <1>1, <1>9, CallerStaysDue DEF WaitServed
<1>10. CASE ReleaseCode(c)
  BY <1>1, <1>10, CallerStaysDue DEF ReleaseCode
<1>11. CASE ReleaseSlot(c)
  BY <1>1, <1>11, CallerStaysDue DEF ReleaseSlot
<1>12. CASE DeadlinePasses(c)
  BY <1>1, <1>12, CallerStaysDue DEF DeadlinePasses
<1> QED
  BY <1>2, <1>3, <1>4, <1>5, <1>6, <1>7, <1>8, <1>9, <1>10, <1>11, <1>12
  DEF CallerStep, Write

\* Steps that leave the slots and the callers alone.
LEMMA OthersStayDue ==
  ASSUME ConnInv, DueInv, UNCHANGED <<invokeId, pc, port, id>>, AnsweredOnce',
         aligned' => aligned,
         \A i : i # 0 /\ Outstanding(i)' => Outstanding(i)
  PROVE  DueInv'
<1>1. ASSUME aligned, NEW d \in Caller, StillDue(d)' PROVE invokeId[port[d]] = id[d]
  <2>1. pc[d] # "idle"
    BY <1>1 DEF StillDue
  <2>2. id[d] # 0
    BY <2>1, NoSlotHasAnIdle
  <2>3. StillDue(d)
    <3>1. PICK i : i = id[d]
      OBVIOUS
    <3>2. Outstanding(i)' => Outstanding(i)
      BY <2>2, <3>1
    <3> QED
      BY <1>1, <3>1, <3>2 DEF StillDue, Outstanding, OnWire
  <2> QED
    BY <1>1, <2>3 DEF DueInv, SlotsAreDue
<1> QED
  BY <1>1 DEF DueInv, SlotsAreDue

\* Reading a header takes the answer of the slot whose id it clears.
LEMMA ReceiverStaysDue ==
  ASSUME ConnInv, DueInv, Receives \/ Proceeds
  PROVE  DueInv'
<1>1. /\ ByReceiver /\ UNCHANGED <<request, pc, port, id, plc>>
      /\ aligned' => aligned
      /\ wire' = wire \/ (wire # <<>> /\ wire' = Tail(wire))
  <2>1. ByReceiver
    BY DEF Receives, Proceeds, ReceiveHeader, ReceiveResult, ReceiveData, ReceiveJunk,
      ServeAtOnce, ReceiveDone, ReceiveTimesOut, EndOfStream
  <2>2. aligned' => aligned
    BY DEF Receives, Proceeds, ReceiveHeader, ReceiveResult, ReceiveData, ReceiveJunk,
      ServeAtOnce, ReceiveDone, ReceiveTimesOut, EndOfStream
  <2>3. wire' = wire \/ (wire # <<>> /\ wire' = Tail(wire))
    BY DEF Receives, Proceeds, ReceiveHeader, ReceiveResult, ReceiveData, ReceiveJunk,
      ServeAtOnce, ReceiveDone, ReceiveTimesOut, EndOfStream
  <2> QED
    BY <2>1, <2>2, <2>3 DEF ByReceiver, device
<1>2. AnsweredOnce' /\ \A i : Outstanding(i)' => Outstanding(i)
  BY <1>1, WireShrinks DEF DueInv
<1>3. CASE invokeId' = invokeId
  BY <1>1, <1>2, <1>3, OthersStayDue
<1>4. CASE invokeId' # invokeId
  <2>1. ReceiveHeader
    BY <1>4 DEF Receives, Proceeds, ReceiveResult, ReceiveData, ReceiveJunk,
      ServeAtOnce, ReceiveDone, ReceiveTimesOut, EndOfStream
  <2>2. PICK h \in Headers(Head(wire)) :
          /\ h.kind \in Answers /\ Pending(h)
          /\ invokeId' = [invokeId EXCEPT ![h.port] = 0]
    BY <1>4, <2>1 DEF ReceiveHeader
  <2>3. rx.at = "header" /\ wire # <<>> /\ wire' = Tail(wire) /\ aligned' = aligned
    BY <2>1 DEF ReceiveHeader
  <2>4. ASSUME aligned, NEW d \in Caller, StillDue(d)' PROVE invokeId'[port[d]] = id[d]
    <3>1. wire[1].at = 0 /\ h = wire[1].frame
      <4>1. wire[1].at = 0
        BY <2>3, <2>4 DEF ConnInv, InStep, ConnTyping, ReceiverTyping
      <4> QED
        BY <2>2, <2>3, <4>1, HeadersTyping
    <3>2. h.port \in Port /\ h.id \in reached /\ invokeId[h.port] = h.id /\ h.id # 0
      <4>1. AnswersRequest(h) /\ h \in Frame
        BY <2>3, <3>1, HeadOfWire DEF ConnInv, AnswersAreAsked
      <4> QED
        BY <2>2, <4>1, NoSlotHasAnIdle
        DEF AnswersRequest, Names, Answers, Others, Good, Frame, Pending
    <3>3. StillDue(d) /\ id[d] # 0
      <4>1. PICK i : i = id[d]
        OBVIOUS
      <4>2. Outstanding(i)' => Outstanding(i)
        BY <1>2
      <4>3. StillDue(d)
        BY <1>1, <2>4, <4>1, <4>2 DEF StillDue, Outstanding, OnWire
      <4> QED
        BY <4>3, NoSlotHasAnIdle DEF StillDue
    <3>4. invokeId[port[d]] = id[d]
      BY <2>4, <3>3 DEF DueInv, SlotsAreDue
    <3>5. port[d] # h.port
      <4> SUFFICES ASSUME port[d] = h.port PROVE FALSE
        OBVIOUS
      <4>1. id[d] = h.id
        BY <3>2, <3>4
      <4>2. pc[d] # "write"
        BY <3>2, <4>1 DEF ConnInv, IdsAreFresh
      <4>3. PICK i : i = id[d]
        OBVIOUS
      <4>4. Outstanding(i)'
        BY <1>1, <2>4, <4>2, <4>3 DEF StillDue, Outstanding, OnWire
      <4>5. \A r \in plc : r.id # h.id
        BY <2>3, <3>1, HeadOfWire DEF DueInv, AnsweredOnce, OnWire
      <4>6. PICK n \in 1 .. Len(wire') : wire'[n].at = 0 /\ wire'[n].frame.id = h.id
        BY <1>1, <4>1, <4>3, <4>4, <4>5 DEF Outstanding, OnWire
      <4>7. n + 1 \in 1 .. Len(wire) /\ wire[n + 1] = wire'[n] /\ n + 1 # 1 /\ 1 \in 1 .. Len(wire)
        <5>1. n \in 1 .. Len(wire) - 1 /\ Len(wire) \in Nat
          BY <2>3, HeadOfWire DEF ConnInv, ConnTyping
        <5>2. wire'[n] = wire[n + 1]
          BY <2>3, <5>1, HeadOfWire
        <5> QED
          BY <5>1, <5>2
      <4> QED
        BY <3>1, <3>2, <4>6, <4>7 DEF DueInv, AnsweredOnce
    <3> QED
      BY <2>2, <3>2, <3>4, <3>5 DEF ConnInv, ConnTyping
  <2> QED
    BY <1>1, <1>2, <2>3, <2>4 DEF DueInv, SlotsAreDue
<1> QED
  BY <1>3, <1>4

\* An answer takes the request from the device and puts its header on the wire.
LEMMA DeviceStaysDue ==
  ASSUME ConnInv, DueInv, Device
  PROVE  DueInv'
<1>1. UNCHANGED <<invokeId, pc, port, id, aligned>>
  BY DEF Device, Answer, SendOther, DeviceCloses, ByDevice, slots, callerVars
<1>2. ASSUME NEW r \in plc, NEW k \in Answers, Answer(r, k) PROVE DueInv'
  <2> DEFINE h == Header(k, r.id, r.port, r.wants)
  <2>1. /\ r \in [id : Nat, port : Port, wants : Nat] /\ r.id \in reached
        /\ \A s \in plc : s.id = r.id => s = r
    BY DEF ConnInv, ConnTyping, AnswersAreAsked, Names
  <2>2. h \in Frame /\ h.id = r.id
    BY <2>1, HeaderTyping DEF Header
  <2>3. wire' = wire \o Units(h) /\ plc' = plc \ {r}
    BY <1>2 DEF Answer
  <2> HIDE DEF h
  <2>4. /\ AnsweredOnce'
        /\ \A i : i # h.id => (OnWire(i)' <=> OnWire(i))
    BY <2>1, <2>2, <2>3, WireGrows DEF DueInv, AnsweredOnce
  <2>5. \A i : Outstanding(i)' => Outstanding(i)
    BY <2>2, <2>3, <2>4 DEF Outstanding
  <2> QED
    BY <1>1, <2>4, <2>5, OthersStayDue
<1>3. ASSUME NEW k \in Others, SendOther(k) PROVE DueInv'
  <2> DEFINE h == Header(k, 0, AnyPort, 0)
  <2>1. h \in Frame /\ h.id = 0
    BY HeaderTyping, AnyPortTyping DEF Header
  <2>2. wire' = wire \o Units(h) /\ plc' = plc
    BY <1>3 DEF SendOther
  <2>3. \A r \in plc : r.id # 0
    BY NoSlotHasAnIdle DEF ConnInv, AnswersAreAsked, Names
  <2> HIDE DEF h
  <2>4. /\ AnsweredOnce'
        /\ \A i : i # h.id => (OnWire(i)' <=> OnWire(i))
    BY <2>1, <2>2, <2>3, WireGrows DEF DueInv
  <2>5. \A i : i # 0 /\ Outstanding(i)' => Outstanding(i)
    BY <2>1, <2>2, <2>4 DEF Outstanding
  <2> QED
    BY <1>1, <2>4, <2>5, OthersStayDue
<1>4. CASE DeviceCloses
  <2>1. /\ UNCHANGED plc
        /\ \E m \in 0 .. Len(wire) : wire' = SubSeq(wire, 1, m)
    BY <1>4 DEF DeviceCloses, device
  <2>2. AnsweredOnce' /\ \A i : Outstanding(i)' => Outstanding(i)
    BY <2>1, WireShrinks DEF DueInv
  <2> QED
    BY <1>1, <2>2, OthersStayDue
<1> QED
  BY <1>2, <1>3, <1>4 DEF Device

\* While junk has been counted right, the id of a request whose answer has yet
\* to be read stands in the slot of its caller.
THEOREM RequestsStayDue == ConnectionSpec => []DueInv
<1>1. ConnectionInit => DueInv
  BY DEF ConnectionInit, DueInv, AnsweredOnce, SlotsAreDue, StillDue
<1>2. ConnInv /\ DueInv /\ [ConnectionNext]_connVars => DueInv'
  <2> SUFFICES ASSUME ConnInv, DueInv, [ConnectionNext]_connVars PROVE DueInv'
    OBVIOUS
  <2>1. ASSUME UNCHANGED <<invokeId, pc, port, id, wire, plc, aligned>> PROVE DueInv'
    <3>1. AnsweredOnce' /\ \A i : Outstanding(i)' => Outstanding(i)
      BY <2>1, WireShrinks DEF DueInv
    <3> QED
      BY <2>1, <3>1, OthersStayDue
  <2>2. CASE Shutdown \/ UNCHANGED connVars
    BY <2>1, <2>2 DEF Shutdown, connVars, slots, callerVars, device
  <2> QED
    BY <2>2, CallersStayDue, ReceiverStaysDue, DeviceStaysDue DEF ConnectionNext
<1> QED
  BY <1>1, <1>2, ConnectionInvariance, PTL DEF ConnectionSpec

\* The receiver takes every answer its caller still waits for: no slot has
\* another id, or none, when the header is read (GetPending, Wait, Write).
THEOREM WaitedForAreTaken == ConnectionSpec => WaitedForIsTaken
<1> DEFINE Taken(c) ==
      /\ pc[c] \in {"wait", "answered"} /\ aligned'
      /\ wire # <<>> /\ wire' = Tail(wire) /\ net' = net
      /\ Head(wire).at = 0 /\ Head(wire).frame.id = id[c]
      => rx'.at \in {"answer", "result"} /\ rx'.who = c
<1>1. ConnInv /\ DueInv /\ [ConnectionNext]_connVars
        => [\A c \in Caller : Taken(c)]_connVars
  <2> SUFFICES ASSUME ConnInv, DueInv, ConnectionNext, NEW c \in Caller,
                      pc[c] \in {"wait", "answered"}, aligned',
                      wire # <<>>, wire' = Tail(wire), net' = net,
                      Head(wire).at = 0, Head(wire).frame.id = id[c]
               PROVE  rx'.at \in {"answer", "result"} /\ rx'.who = c
    OBVIOUS
  <2> DEFINE f == wire[1].frame
  <2>1. /\ f \in Frame /\ wire[1].at = 0 /\ f.id = id[c] /\ Head(wire) = wire[1]
        /\ 1 \in 1 .. Len(wire)
    BY HeadOfWire
  <2>2. Len(wire) \in Nat /\ Len(wire') = Len(wire) - 1
    BY HeadOfWire DEF ConnInv, ConnTyping
  <2>a. aligned
    BY DEF ConnectionNext, Begin, CallerStep, DeadlinePasses, Write, Reserve, StoreId,
      WriteReaches, WriteIsLost, WriteKills, WaitDeadline, WaitServed, ReleaseCode, ReleaseSlot,
      Locally, Receives, Proceeds, ReceiveHeader, ReceiveResult, ReceiveData, ReceiveJunk,
      ServeAtOnce, ReceiveDone, ReceiveTimesOut, EndOfStream, Shutdown, Device, Answer,
      SendOther, DeviceCloses, ByDevice
  <2>3. rx.left = rx.got
    <3>1. rx.left \in Nat /\ rx.got \in Nat
      BY DEF ConnInv, ConnTyping, ReceiverTyping
    <3>2. f.size \in Nat
      BY <2>1 DEF Frame
    <3>3. rx.left # rx.got => /\ wire[1].at = f.size + 1 - (rx.left - rx.got)
                              /\ rx.left - rx.got <= f.size
      BY <2>a DEF ConnInv, InStep
    <3> HIDE DEF f
    <3> QED
      BY <2>1, <3>1, <3>2, <3>3
  <2>4. ReceiveHeader
    <3>1. wire' # wire
      <4>1. \A m, n : m \in Nat /\ n = m - 1 => n # m
        OBVIOUS
      <4>2. Len(wire') # Len(wire)
        BY <2>2, <4>1, Zenon
      <4> QED
        BY <4>2, Zenon
    <3>2. ~Device
      <4>1. ASSUME NEW h \in Frame, wire' = wire \o Units(h) PROVE FALSE
        <5>1. Len(wire') = Len(wire) + 1 + h.size
          BY <4>1, UnitsTyping, ConcatProperties DEF ConnInv, ConnTyping, Frame
        <5> QED
          BY <2>2, <5>1 DEF Frame
      <4>2. ASSUME NEW r \in plc, NEW k \in Answers, Answer(r, k) PROVE FALSE
        <5>1. Header(k, r.id, r.port, r.wants) \in Frame
          BY HeaderTyping DEF ConnInv, ConnTyping
        <5> QED
          BY <4>1, <4>2, <5>1 DEF Answer
      <4>3. ASSUME NEW k \in Others, SendOther(k) PROVE FALSE
        <5>1. Header(k, 0, AnyPort, 0) \in Frame
          BY HeaderTyping, AnyPortTyping
        <5> QED
          BY <4>1, <4>3, <5>1 DEF SendOther
      <4>4. ~DeviceCloses
        BY DEF DeviceCloses
      <4> QED
        BY <4>2, <4>3, <4>4 DEF Device
    <3>3. ~ReceiveResult /\ ~ReceiveData /\ ~ReceiveJunk
      <4>1. /\ rx.left \in Nat /\ rx.got \in Nat
            /\ rx.at \in {"result", "junk"} => rx.got = 0
        BY DEF ConnInv, ConnTyping, ReceiverTyping
      <4>2. /\ ~(rx.got < rx.left)
            /\ rx.at \in {"result", "junk"} => ~(rx.left > 0)
        BY <2>3, <4>1
      <4> QED
        BY <3>1, <4>2 DEF ReceiveResult, ReceiveData, ReceiveJunk
    <3>4. ~Proceeds /\ ~Shutdown
      BY <3>1 DEF Proceeds, ServeAtOnce, ReceiveDone, ReceiveTimesOut, EndOfStream, Shutdown
    <3>5. ASSUME NEW d \in Caller, Begin(d) \/ CallerStep(d) \/ DeadlinePasses(d) PROVE FALSE
      BY <3>1, <3>5 DEF Begin, CallerStep, DeadlinePasses, Write, Reserve, StoreId, WriteReaches,
        WriteIsLost, WriteKills, WaitDeadline, WaitServed, ReleaseCode, ReleaseSlot, Locally
    <3> QED
      BY <3>2, <3>3, <3>4, <3>5 DEF ConnectionNext, Receives
  <2>5. OnWire(id[c]) /\ id[c] # 0
    BY <2>1, NoSlotHasAnIdle DEF OnWire
  <2>6. invokeId[port[c]] = f.id
    BY <2>1, <2>5, <2>a DEF DueInv, SlotsAreDue, StillDue, Outstanding
  <2>7. f.kind \in Answers /\ f.port = port[c]
    <3>1. AnswersRequest(f)
      BY <2>1 DEF ConnInv, AnswersAreAsked
    <3> QED
      BY <2>1, <2>5, <3>1 DEF AnswersRequest, Names, Frame
  <2>8. request[f.port] = c /\ c # NoCaller
    BY <2>7, ConnectionAssumption DEF ConnInv, SlotsAreHeld, Holding
  <2>9. Headers(Head(wire)) = {f} /\ Pending(f) /\ f.kind \notin Others
    BY <2>1, <2>6, <2>7 DEF Headers, Pending, Answers, Others, Good
  <2>10. \E code \in AtOnce(f, c) : rx' = Serve(f, c, code)
    BY <2>4, <2>8, <2>9 DEF ReceiveHeader
  <2> QED
    BY <2>10 DEF Serve, Receiver
<1> QED
  BY <1>1, ConnectionInvariance, RequestsStayDue, PTL DEF ConnectionSpec, WaitedForIsTaken
-----------------------------------------------------------------------------
\* The promise: what callers see of the requests.
Current == [c \in Caller |-> IF pc[c] = "idle" THEN 0 ELSE id[c]]
Ended   == [c \in Caller |-> OutcomeOf(last[c])]

Seen == <<Current, reached, executed, Ended, aligned>>

LEMMA PromiseStutters ==
  ASSUME UNCHANGED <<reached, executed, last, aligned>>,
         \A c \in Caller : pc'[c] = "idle" <=> pc[c] = "idle",
         \A c \in Caller : pc[c] # "idle" => id'[c] = id[c]
  PROVE  UNCHANGED Seen
BY DEF Seen, Current, Ended

LEMMA CallerGoesOn ==
  ASSUME ConnInv, NEW c \in Caller, pc[c] # "idle", NEW at, at # "idle", Goto(c, at)
  PROVE  \A d \in Caller : pc'[d] = "idle" <=> pc[d] = "idle"
BY DEF Goto, ConnInv, ConnTyping

LEMMA SeenIsPromised ==
  /\ UNCHANGED Seen => UNCHANGED Promise!callsVars
  /\ UNCHANGED <<Current, executed, Ended, aligned>> /\ (\E c \in Caller :
       Current[c] # 0 /\ reached' = reached \union {Current[c]}) => Promise!CallsNext
  /\ UNCHANGED <<Current, reached, Ended, aligned>> /\ (\E i \in 1 .. IdModulus - 1 :
       i \in reached \ executed /\ executed' = executed \union {i}) => Promise!CallsNext
  /\ UNCHANGED <<Current, reached, executed, Ended>> /\ aligned' = FALSE => Promise!CallsNext
<1>1. UNCHANGED Seen => UNCHANGED Promise!callsVars
  BY DEF Seen, Promise!callsVars, Current, Ended
<1>2. ASSUME UNCHANGED <<Current, executed, Ended, aligned>>,
             NEW c \in Caller, Current[c] # 0, reached' = reached \union {Current[c]}
      PROVE  Promise!CallsNext
  <2>1. Promise!Reach(c)
    BY <1>2 DEF Promise!Reach, Current, Ended
  <2> QED
    BY <2>1 DEF Promise!CallsNext
<1>3. ASSUME UNCHANGED <<Current, reached, Ended, aligned>>,
             NEW i \in 1 .. IdModulus - 1, i \in reached \ executed,
             executed' = executed \union {i}
      PROVE  Promise!CallsNext
  <2>1. Promise!Execute(i)
    BY <1>3 DEF Promise!Execute, Current, Ended
  <2> QED
    BY <2>1 DEF Promise!CallsNext
<1>4. ASSUME UNCHANGED <<Current, reached, executed, Ended>>, aligned' = FALSE
      PROVE  Promise!CallsNext
  <2>1. Promise!Misalign
    BY <1>4 DEF Promise!Misalign, Current, Ended
  <2> QED
    BY <2>1 DEF Promise!CallsNext
<1> QED
  BY <1>1, <1>2, <1>3, <1>4

LEMMA BeginIsPromised ==
  ASSUME ConnInv, NEW c \in Caller, Begin(c)
  PROVE  Promise!CallsNext
<1> USE ConnectionAssumption
<1>1. /\ pc[c] = "idle" /\ calls + others < MaxCalls
      /\ UNCHANGED <<reached, executed, aligned>>
      /\ last \in [Caller -> Codes \union {"none", "invalid"}]
      /\ pc \in [Caller -> Statements] /\ id \in [Caller -> Nat]
  BY DEF Begin, Locally, device, ConnInv, ConnTyping
<1>2. CASE last' = [last EXCEPT ![c] = "invalid"] /\ UNCHANGED <<pc, id>>
  <2>1. Ended' = [Ended EXCEPT ![c] = "error"]
    BY <1>1, <1>2 DEF Ended, OutcomeOf
  <2>2. UNCHANGED Current /\ Current[c] = 0
    BY <1>1, <1>2 DEF Current
  <2>3. Promise!NotOpen(c)
    BY <1>1, <2>1, <2>2 DEF Promise!NotOpen, Current, Ended
  <2> QED
    BY <2>3 DEF Promise!CallsNext
<1>3. CASE /\ id' = [id EXCEPT ![c] = NextId] /\ counter' = (NextId + 1) % IdModulus
           /\ Goto(c, "reserve") /\ UNCHANGED last
  <2>1. calls < MaxCalls
    BY <1>1 DEF ConnInv, ConnTyping
  <2>2. NextId \in 1 .. IdModulus - 1 /\ ~Handed(NextId)
    BY <1>3, <2>1, NextIdIsFresh DEF ConnInv
  <2>3. NextId \notin reached /\ \A d \in Caller : pc[d] # "idle" => id[d] # NextId
    BY <2>2 DEF ConnInv, IdsAreFresh
  <2> PICK i \in 1 .. IdModulus - 1 : i = NextId
    BY <2>2
  <2>4. Current' = [Current EXCEPT ![c] = i] /\ Current[c] = 0
    BY <1>1, <1>3 DEF Current, Goto
  <2>5. \A d \in Caller : Current[d] # i
    <3>1. i # 0
      OBVIOUS
    <3> QED
      BY <2>3, <3>1 DEF Current
  <2>6. UNCHANGED Ended
    BY <1>3 DEF Ended
  <2>7. Promise!Call(c, i)
    BY <1>1, <2>3, <2>4, <2>5, <2>6 DEF Promise!Call, Current, Ended
  <2> QED
    BY <2>7 DEF Promise!CallsNext
<1> QED
  BY <1>2, <1>3 DEF Begin

\* A call ends as the promise allows.
LEMMA ReturnIsPromised ==
  ASSUME ConnInv, NEW c \in Caller, NEW how \in Codes, Return(c, how), pc[c] # "idle",
         UNCHANGED <<reached, executed, aligned>>,
         how = "refused" => id[c] \notin reached, aligned => Earned(how, id[c])
  PROVE  Promise!CallsNext
<1>1. /\ last \in [Caller -> Codes \union {"none", "invalid"}]
      /\ pc \in [Caller -> Statements] /\ id \in [Caller -> Nat] /\ aligned \in BOOLEAN
      /\ id[c] # 0
  BY NoSlotHasAnIdle DEF ConnInv, ConnTyping
<1>2. Current' = [Current EXCEPT ![c] = 0] /\ Current[c] = id[c] /\ Current[c] # 0
  BY <1>1 DEF Current, Return, Goto
<1>3. Ended' = [Ended EXCEPT ![c] = OutcomeOf(how)]
  BY <1>1 DEF Ended, Return
<1>4. /\ OutcomeOf(how) \in Promise!Outcomes \ {"none"}
      /\ OutcomeOf(how) = "ok" => how = "ok" /\ (aligned => id[c] \in executed)
      /\ OutcomeOf(how) = "error" => (aligned => id[c] \in reached)
      /\ OutcomeOf(how) = "refused" => id[c] \notin reached
  BY DEF OutcomeOf, Codes, Promise!Outcomes, Earned
<1>5. Promise!MayEnd(c, OutcomeOf(how))
  BY <1>1, <1>2, <1>4 DEF Promise!MayEnd, Promise!Outcomes, Current
<1>6. Promise!End(c, OutcomeOf(how))
  BY <1>2, <1>3, <1>5 DEF Promise!End, Current, Ended
<1> QED
  BY <1>4, <1>6 DEF Promise!CallsNext

LEMMA CallerIsPromised ==
  ASSUME ConnInv, NEW c \in Caller, CallerStep(c)
  PROVE  Promise!CallsNext \/ UNCHANGED Promise!callsVars
<1>1. CASE Reserve(c)
  <2>1. pc[c] = "reserve" /\ UNCHANGED <<reached, executed, aligned>>
    BY <1>1 DEF Reserve, Locally, device
  <2>2. CASE Goto(c, "store") /\ UNCHANGED <<id, last>>
    BY <2>1, <2>2, CallerGoesOn, PromiseStutters, SeenIsPromised
  <2>3. CASE Return(c, "refused")
    <3>1. id[c] \notin reached
      BY <2>1 DEF ConnInv, IdsAreFresh
    <3> QED
      BY <2>1, <2>3, <3>1, ReturnIsPromised DEF Codes, Earned
  <2> QED
    BY <1>1, <2>2, <2>3 DEF Reserve
<1>2. CASE StoreId(c) \/ WriteIsLost(c) \/ WaitDeadline(c) \/ WaitServed(c) \/ ReleaseCode(c)
  <2>1. /\ pc[c] # "idle" /\ UNCHANGED <<reached, executed, aligned, id, last>>
        /\ \E at \in {"write", "wait", "release", "answered", "free"} : Goto(c, at)
    BY <1>2 DEF StoreId, WriteIsLost, WaitDeadline, WaitServed, ReleaseCode, Locally, device
  <2> QED
    BY <2>1, CallerGoesOn, PromiseStutters, SeenIsPromised
<1>3. CASE WriteReaches(c)
  <2>1. /\ pc[c] = "write" /\ Goto(c, "wait") /\ reached' = reached \union {id[c]}
        /\ UNCHANGED <<executed, aligned, id, last>>
    BY <1>3 DEF WriteReaches
  <2>2. \A d \in Caller : pc'[d] = "idle" <=> pc[d] = "idle"
    BY <2>1, CallerGoesOn
  <2>3. UNCHANGED <<Current, Ended>> /\ Current[c] = id[c] /\ Current[c] # 0
    BY <2>1, <2>2, NoSlotHasAnIdle DEF Current, Ended
  <2> QED
    BY <2>1, <2>3, SeenIsPromised
<1>4. CASE WriteKills(c)
  BY <1>4, PromiseStutters, SeenIsPromised DEF WriteKills, callerVars, device
<1>5. CASE ReleaseSlot(c)
  <2>1. /\ pc[c] = "free" /\ Return(c, result[c])
        /\ UNCHANGED <<reached, executed, aligned>>
    BY <1>5 DEF ReleaseSlot, Locally, device
  <2>2. /\ result[c] \in Codes /\ (result[c] = "refused" => id[c] \notin reached)
        /\ aligned => Earned(result[c], id[c])
    BY <2>1 DEF ConnInv, ConnTyping, ResultsAreSet, ResultsAreEarned
  <2> QED
    BY <2>1, <2>2, ReturnIsPromised
<1> QED
  BY <1>1, <1>2, <1>3, <1>4, <1>5 DEF CallerStep, Write

LEMMA ReceiverIsPromised ==
  ASSUME ConnInv, Receives \/ Proceeds
  PROVE  Promise!CallsNext \/ UNCHANGED Promise!callsVars
<1>1. UNCHANGED <<pc, id, last, reached, executed>>
  BY DEF Receives, Proceeds, ReceiveHeader, ReceiveResult, ReceiveData, ReceiveJunk, ServeAtOnce,
    ReceiveDone, ReceiveTimesOut, EndOfStream, ByReceiver, device
<1>2. aligned' = aligned \/ aligned' = FALSE
  <2>1. aligned \in BOOLEAN
    BY DEF ConnInv, ConnTyping
  <2> QED
    BY <2>1 DEF Receives, Proceeds, ReceiveHeader, ReceiveResult, ReceiveData, ReceiveJunk,
      ServeAtOnce, ReceiveDone, ReceiveTimesOut, EndOfStream
<1>3. UNCHANGED <<Current, Ended>>
  BY <1>1 DEF Current, Ended
<1>4. CASE aligned' = aligned
  BY <1>1, <1>4, PromiseStutters, SeenIsPromised
<1>5. CASE aligned' = FALSE
  BY <1>1, <1>3, <1>5, SeenIsPromised
<1> QED
  BY <1>2, <1>4, <1>5

LEMMA DeviceIsPromised ==
  ASSUME ConnInv, Device
  PROVE  Promise!CallsNext \/ UNCHANGED Promise!callsVars
<1>1. UNCHANGED <<pc, id, last, reached, aligned>>
  BY DEF Device, Answer, SendOther, DeviceCloses, ByDevice, callerVars
<1>2. UNCHANGED <<Current, Ended>>
  BY <1>1 DEF Current, Ended
<1>3. CASE executed' = executed
  BY <1>1, <1>3, PromiseStutters, SeenIsPromised
<1>4. ASSUME NEW r \in plc, executed' = executed \union {r.id} PROVE Promise!CallsNext
  <2>1. r.id \in reached \ executed
    BY DEF ConnInv, AnswersAreAsked, Names
  <2>2. r.id \in 1 .. IdModulus - 1
    BY <2>1 DEF ConnInv, IdsAreFresh, Handed
  <2> QED
    BY <1>1, <1>2, <1>4, <2>1, <2>2, SeenIsPromised
<1>5. \/ executed' = executed
      \/ \E r \in plc : executed' = executed \union {r.id}
  BY DEF Device, Answer, SendOther, DeviceCloses, device
<1> QED
  BY <1>3, <1>4, <1>5

LEMMA StepIsPromised ==
  ASSUME ConnInv, [ConnectionNext]_connVars
  PROVE  Promise!CallsNext \/ UNCHANGED Promise!callsVars
<1>1. \A c \in Caller : DeadlinePasses(c) => UNCHANGED Promise!callsVars
  BY PromiseStutters, SeenIsPromised DEF DeadlinePasses, Locally, device
<1>2. Shutdown => UNCHANGED Promise!callsVars
  BY PromiseStutters, SeenIsPromised DEF Shutdown, callerVars, device
<1>3. UNCHANGED connVars => UNCHANGED Promise!callsVars
  BY PromiseStutters, SeenIsPromised DEF connVars, callerVars, device
<1> QED
  BY <1>1, <1>2, <1>3, BeginIsPromised, CallerIsPromised, ReceiverIsPromised, DeviceIsPromised
  DEF ConnectionNext

\* AdsRequest, with its slots, ids, receiver and device, implements AdsCalls:
\* unless junk was miscounted, "ok" is only reported for a request the device
\* has carried out, an error only for one it was sent, and a refused one never
\* reaches it.
THEOREM PromiseIsKept == ConnectionSpec => KeepsPromise
<1>1. ConnectionInit => Promise!CallsInit
  BY DEF ConnectionInit, Promise!CallsInit, OutcomeOf
<1>2. ConnInv /\ [ConnectionNext]_connVars => [Promise!CallsNext]_(Promise!callsVars)
  BY StepIsPromised
<1> QED
  BY <1>1, <1>2, ConnectionInvariance, PTL DEF ConnectionSpec, KeepsPromise, Promise!CallsSpec
=============================================================================
