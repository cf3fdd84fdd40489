----------------------- MODULE NotificationDispatcher -----------------------
(***************************************************************************)
(* Device notifications: the receiver thread of a connection stores them   *)
(* in a ring buffer (AmsConnection::ReceiveNotification), the dispatcher's *)
(* thread takes them out and calls back (NotificationDispatcher::Run), and *)
(* a user thread makes and destroys AdsNotification objects.  Ring         *)
(* positions are shared without a lock, the map of handles under a mutex,  *)
(* a semaphore counts stored frames.                                       *)
(*                                                                         *)
(* Abstractions.  The ring holds units instead of bytes: the length stored *)
(* by the receiver, the header with the number of samples (of one stamp),  *)
(* per sample its handle and size, and its data.                           *)
(***************************************************************************)
EXTENDS Sequences, FiniteSets, RingBuffer

CONSTANTS
  Handle,       \* notification handles of the device
  SampleSize,   \* cbLength a notification is registered with
  Shape,        \* frames the device may send: sequences of [h, size]
  MaxFrames,    \* bound of the model on frames
  MaxRequests   \* bound of the model on constructions of AdsNotification

ASSUME DispatcherAssumption ==
  /\ SampleSize \in Nat \ {0} /\ MaxFrames \in Nat /\ MaxRequests \in Nat
  /\ \A s \in Shape : s \in Seq([h : Handle, size : Nat]) /\ Len(s) \in 1 .. 2

VARIABLES
  write, read, cells,  \* the ring
  sem,                 \* count of the semaphore
  stopExecution,
  exists,              \* the dispatcher is in dispatcherList
  notifications,       \* handles in the dispatcher's map
  subscribed,          \* handles the device sends samples for
  symbols,             \* notifications that hold a handle of their symbol
  rx,                  \* the receiver: statement, units not stored, load of read
  run,                 \* the dispatcher's thread: statement and locals
  user,                \* the user thread: statement and handle
  frames, serial, requests,  \* counts, bounded
  delivered,           \* history: the samples the last two callbacks were given
  late                 \* history: callbacks of a handle since it was erased

ring  == <<write, read, cells>>
registry == <<exists, notifications, subscribed, symbols>>
counts == <<frames, serial, requests>>
hist  == <<delivered, late>>
ntfVars == <<ring, sem, stopExecution, registry, rx, run, user, counts, hist>>

(***************************************************************************)
(* Units.                                                                  *)
(***************************************************************************)
Empty        == [kind |-> "empty"]
LengthOf(n)  == [kind |-> "length", n |-> n]
Samples(n)   == [kind |-> "samples", n |-> n]
Sample(h, size)   == [kind |-> "sample", h |-> h, size |-> size]
Data(h, s, k)     == [kind |-> "data", h |-> h, serial |-> s, k |-> k]

SampleUnits(h, size, s) == <<Sample(h, size)>> \o [k \in 1 .. size |-> Data(h, s, k)]

\* The units of a frame of at most two samples; s is the serial of its first.
Units(shape, s) ==
  <<Samples(Len(shape))>>
    \o SampleUnits(shape[1].h, shape[1].size, s)
    \o IF Len(shape) = 1 THEN <<>> ELSE SampleUnits(shape[2].h, shape[2].size, s + 1)

ReceiverIdle == [at |-> "idle", left |-> <<>>, load |-> 0]
RunIdle == [at |-> "acquire", full |-> 0, samples |-> 0, h |-> 0, size |-> 0,
            data |-> <<>>]

NtfInit ==
  /\ write = 0 /\ read = 0 /\ cells = [p \in Position |-> Empty]
  /\ sem = 0 /\ stopExecution = FALSE
  /\ exists = FALSE /\ notifications = {} /\ subscribed = {} /\ symbols = {}
  /\ rx = ReceiverIdle /\ run = RunIdle
  /\ user = [at |-> "idle", h |-> 0]
  /\ frames = 0 /\ serial = 0 /\ requests = 0
  /\ delivered = <<>> /\ late = [h \in Handle |-> 0]

(***************************************************************************)
(* ReceiveNotification.                                                    *)
(***************************************************************************)
ByReceiver == UNCHANGED <<read, stopExecution, registry, run, user, hist, requests>>

\* A frame for a dispatcher nobody has created is junk.
Arrive ==
  /\ rx.at = "idle" /\ ~stopExecution /\ frames < MaxFrames
  /\ \E shape \in {s \in Shape : \A i \in DOMAIN s : s[i].h \in subscribed} :
       /\ frames' = frames + 1 /\ serial' = serial + Len(shape)
       /\ rx' = IF exists
                THEN [at |-> "check", left |-> Units(shape, serial + 1), load |-> read]
                ELSE ReceiverIdle
  /\ UNCHANGED <<write, cells, sem>> /\ ByReceiver

\* bytesLeft + sizeof(bytesLeft) <= ring.BytesFree(): rx.load is its first load
\* of read.
Fits == Len(rx.left) + 1 <= FreeLoaded(write, rx.load, read)

\* What does not fit is read as junk.
Check ==
  /\ rx.at = "check"
  /\ rx' = IF Fits THEN [rx EXCEPT !.at = "length"] ELSE ReceiverIdle
  /\ UNCHANGED <<write, cells, sem, frames, serial>> /\ ByReceiver

\* n units from s are stored at `write`, which then moves.
Store(s, n) ==
  /\ cells' = [p \in Position |->
                 IF \E i \in 1 .. n : p = write + i - 1
                 THEN s[p - write + 1] ELSE cells[p]]
  /\ write' = Increment(write, n)

StoreLength ==
  /\ rx.at = "length"
  /\ Store(<<LengthOf(Len(rx.left))>>, 1)
  /\ rx' = [rx EXCEPT !.at = "load"]
  /\ UNCHANGED <<sem, frames, serial>> /\ ByReceiver

\* WriteChunk loads read twice, too.
LoadRead ==
  /\ rx.at = "load"
  /\ rx' = [rx EXCEPT !.at = "chunk", !.load = read]
  /\ UNCHANGED <<write, cells, sem, frames, serial>> /\ ByReceiver

\* Mutant of Chunk: the end of the array is forgotten.
Chunk_Free == FreeLoaded(write, rx.load, read)

Chunk == ChunkLoaded(write, rx.load, read)

\* The units stored next in one piece.
Piece == IF Len(rx.left) > Chunk THEN Chunk ELSE Len(rx.left)

StoreChunk ==
  /\ rx.at = "chunk" /\ Len(rx.left) > Chunk
  /\ Store(rx.left, Chunk)
  /\ rx' = [rx EXCEPT !.at = "load", !.left = SubSeq(@, Chunk + 1, Len(@))]
  /\ UNCHANGED <<sem, frames, serial>> /\ ByReceiver

StoreRest ==
  /\ rx.at = "chunk" /\ Len(rx.left) <= Chunk
  /\ Store(rx.left, Len(rx.left))
  /\ rx' = [rx EXCEPT !.at = "notify", !.left = <<>>]
  /\ UNCHANGED <<sem, frames, serial>> /\ ByReceiver

Notify ==
  /\ rx.at = "notify"
  /\ sem' = sem + 1
  /\ rx' = ReceiverIdle
  /\ UNCHANGED <<write, cells, frames, serial>> /\ ByReceiver

\* Receive throws: the receiver's thread ends, the frame is never announced.
ReceiveFails ==
  /\ rx.at = "chunk"
  /\ rx' = [rx EXCEPT !.at = "ended", !.left = <<>>]
  /\ UNCHANGED <<write, cells, sem, frames, serial>> /\ ByReceiver

ReceiverStep == Check \/ StoreLength \/ LoadRead \/ StoreChunk \/ StoreRest \/ Notify

(***************************************************************************)
(* NotificationDispatcher::Run.                                            *)
(***************************************************************************)
ByRun == UNCHANGED <<write, cells, stopExecution, registry, rx, user, counts>>

Number(u) == IF u.kind \in {"length", "samples"} THEN u.n ELSE 0

Reads(n) == read' = Increment(read, n)

Acquire ==
  /\ run.at = "acquire" /\ sem > 0
  /\ sem' = sem - 1
  /\ run' = [RunIdle EXCEPT !.at = IF stopExecution THEN "ended" ELSE "length"]
  /\ UNCHANGED <<read, hist>> /\ ByRun

ReadLength ==
  /\ run.at = "length" /\ Reads(1)
  /\ run' = [run EXCEPT !.at = "header", !.full = Number(cells[read])]
  /\ UNCHANGED <<sem, hist>> /\ ByRun

ReadHeader ==
  /\ run.at = "header" /\ Reads(1)
  /\ run' = [run EXCEPT !.at = "sample", !.samples = Number(cells[read]), !.full = @ - 1]
  /\ UNCHANGED <<sem, hist>> /\ ByRun

ReadSample ==
  /\ run.at = "sample" /\ run.samples > 0 /\ Reads(1)
  /\ run' = IF cells[read].kind = "sample"
            THEN [run EXCEPT !.at = "find", !.samples = @ - 1, !.full = @ - 1,
                             !.h = cells[read].h, !.size = cells[read].size]
            ELSE [run EXCEPT !.at = "garbage"]
  /\ UNCHANGED <<sem, hist>> /\ ByRun

Found(h) == h \in notifications

\* Find, under the dispatcher's mutex; the pointer outlives an Erase.
FindHandle ==
  /\ run.at = "find"
  /\ run' = [run EXCEPT !.at = IF ~Found(run.h) THEN "skip"
                               ELSE IF run.size # SampleSize THEN "cleanup" ELSE "data",
                        !.data = <<>>]
  /\ UNCHANGED <<read, sem, hist>> /\ ByRun

ReadData ==
  /\ run.at = "data" /\ Len(run.data) < SampleSize /\ Reads(1)
  /\ run' = [run EXCEPT !.data = Append(@, cells[read])]
  /\ UNCHANGED <<sem, hist>> /\ ByRun

\* Mutant of Taken: a delivered sample is not taken off fullLength.
Taken_Header == run.full

\* fullLength after a sample: cleanup skips what is left of the frame.
Taken == run.full - run.size

Callback ==
  /\ run.at = "data" /\ Len(run.data) = SampleSize
  /\ delivered' = Append(IF Len(delivered) = 2 THEN Tail(delivered) ELSE delivered,
                         [h |-> run.h, data |-> run.data])
  /\ late' = IF run.h \in notifications THEN late ELSE [late EXCEPT ![run.h] = @ + 1]
  /\ run' = [run EXCEPT !.at = "sample", !.full = Taken]
  /\ UNCHANGED <<read, sem>> /\ ByRun

SkipSample ==
  /\ run.at = "skip" /\ Reads(run.size)
  /\ run' = [run EXCEPT !.at = "sample", !.full = Taken]
  /\ UNCHANGED <<sem, hist>> /\ ByRun

FrameEnd ==
  \/ run.at = "cleanup"
  \/ run.at = "sample" /\ run.samples = 0

Cleanup ==
  /\ FrameEnd /\ Reads(run.full)
  /\ run' = RunIdle
  /\ UNCHANGED <<sem, hist>> /\ ByRun

RunStep == \/ Acquire \/ ReadLength \/ ReadHeader \/ ReadSample \/ FindHandle
           \/ ReadData \/ Callback \/ SkipSample \/ Cleanup

(***************************************************************************)
(* The user's thread: it makes and destroys AdsNotification objects        *)
(* (AdsNotificationOOI.h), each with a handle for its symbol and one for   *)
(* the notification.  Requests are answered, refused, or carried out       *)
(* without the answer being seen.                                          *)
(***************************************************************************)
ByUser == UNCHANGED <<ring, rx, run, frames, serial, delivered>>

UserAt(at, h) == user' = [at |-> at, h |-> h]
UserIdle == UserAt("idle", 0)

\* The handle of the symbol; without an answer the constructor throws and
\* nothing has changed here, though the device may keep a handle for nobody.
GetSymbolHandle(h) ==
  /\ user.at = "idle" /\ ~stopExecution /\ requests < MaxRequests
  /\ h \notin notifications
  /\ requests' = requests + 1
  /\ symbols' = symbols \union {h}
  /\ UserAt("add", h)
  /\ UNCHANGED <<sem, stopExecution, exists, notifications, subscribed, late>> /\ ByUser

\* AddNotification: the device sends samples before the client knows the
\* handle.  Without an answer the constructor throws, m_Symbol is destroyed.
AddNotification ==
  /\ user.at = "add"
  /\ \/ subscribed' = subscribed \union {user.h} /\ UserAt("dispatcher", user.h)
     \/ subscribed' \in {subscribed, subscribed \union {user.h}} /\ UserAt("symbol", user.h)
  /\ UNCHANGED <<sem, stopExecution, exists, notifications, symbols, late, requests>>
  /\ ByUser

\* CreateNotifyMapping: DispatcherListAdd, then Emplace; the port keeps the
\* handle, too.
DispatcherListAdd ==
  /\ user.at = "dispatcher"
  /\ exists' = TRUE
  /\ UserAt("emplace", user.h)
  /\ UNCHANGED <<sem, stopExecution, notifications, subscribed, symbols, late, requests>>
  /\ ByUser

Emplace ==
  /\ user.at = "emplace"
  /\ notifications' = notifications \union {user.h}
  /\ late' = [late EXCEPT ![user.h] = 0]
  /\ UserIdle
  /\ UNCHANGED <<sem, stopExecution, exists, subscribed, symbols, requests>> /\ ByUser

\* Mutant of Teardown: the members are declared the other way round.
Teardown_SymbolFirst == [first |-> "symbol", erase |-> "idle", symbol |-> "delete"]

\* The destructor of AdsNotification: m_Notification is destroyed before
\* m_Symbol.
Teardown == [first |-> "delete", erase |-> "symbol", symbol |-> "idle"]

Drop(h) ==
  /\ user.at = "idle" /\ ~stopExecution /\ h \in notifications
  /\ UserAt(Teardown.first, h)
  /\ UNCHANGED <<sem, stopExecution, registry, late, requests>> /\ ByUser

\* Erase, from DelNotification or Close: the device is asked first.
DeleteRemote ==
  /\ user.at = "delete"
  /\ subscribed' \in {subscribed, subscribed \ {user.h}}
  /\ UserAt("erase", user.h)
  /\ UNCHANGED <<sem, stopExecution, exists, notifications, symbols, late, requests>>
  /\ ByUser

EraseLocal ==
  /\ user.at = "erase"
  /\ notifications' = notifications \ {user.h}
  /\ UserAt(Teardown.erase, IF Teardown.erase = "idle" THEN 0 ELSE user.h)
  /\ UNCHANGED <<sem, stopExecution, exists, subscribed, symbols, late, requests>>
  /\ ByUser

\* DeleteSymbolHandle; its result is ignored.
DeleteSymbolHandle ==
  /\ user.at = "symbol"
  /\ symbols' = symbols \ {user.h}
  /\ UserAt(Teardown.symbol, IF Teardown.symbol = "idle" THEN 0 ELSE user.h)
  /\ UNCHANGED <<sem, stopExecution, exists, notifications, subscribed, late, requests>>
  /\ ByUser

\* Mutant of Woken: the destructor only sets the flag.
Woken_Flag == sem

\* What the destructor makes of the semaphore.
Woken == sem + 1

\* The destructor; the receiver has been joined before.
Destroy ==
  /\ user.at = "idle" /\ exists /\ ~stopExecution /\ rx.at \in {"idle", "ended"}
  /\ stopExecution' = TRUE /\ sem' = Woken
  /\ UNCHANGED <<registry, user, late, requests>> /\ ByUser

UserStep == \/ AddNotification \/ DispatcherListAdd \/ Emplace
            \/ DeleteRemote \/ EraseLocal \/ DeleteSymbolHandle

NtfNext ==
  \/ Arrive \/ ReceiverStep \/ ReceiveFails \/ RunStep \/ UserStep \/ Destroy
  \/ \E h \in Handle : GetSymbolHandle(h) \/ Drop(h)

(***************************************************************************)
(* The threads run and callbacks return.  Nothing makes the device send or *)
(* the user call: a read of a part of a frame has no deadline and is not   *)
(* fair, only the empty one that a full ring leads to returns by itself.   *)
(***************************************************************************)
Blocks == rx.at = "chunk" /\ Piece > 0

NtfFairness == WF_ntfVars(ReceiverStep /\ ~Blocks) /\ WF_ntfVars(RunStep)

NtfSpec == NtfInit /\ [][NtfNext]_ntfVars /\ NtfFairness

(***************************************************************************)
(* Properties.                                                             *)
(***************************************************************************)
\* The asserts of RingBuffer.h:37 and 53 hold and what is stored in one piece
\* ends inside the array, although each thread loads the pointer the other one
\* moves twice, without synchronisation.
RingAssertsHold ==
  /\ rx.at = "length" => 1 <= BytesFree(write, read)
  /\ rx.at = "chunk" => Piece <= BytesFree(write, read) /\ write + Piece <= dataSize
  /\ run.at = "skip" => run.size <= BytesAvailable(write, read)
  /\ FrameEnd => run.full \in 0 .. BytesAvailable(write, read)

\* The units between the two pointers, and those of a frame that has passed the
\* test for free space and are still to be stored.
Queue == [i \in 1 .. BytesAvailable(write, read) |-> cells[Increment(read, i - 1)]]
Coming ==
  CASE rx.at = "length" -> <<LengthOf(Len(rx.left))>> \o rx.left
    [] rx.at \in {"load", "chunk"} -> rx.left
    [] OTHER -> <<>>

Promised == INSTANCE FrameQueue
  WITH queue <- Queue, coming <- Coming, Capacity <- dataSize - 1

\* The two threads see a queue of frames: the receiver never touches a unit the
\* dispatcher has still to take, and no unit is lost, repeated or displaced when
\* a pointer goes round the end of the array, although no lock is held.
RingIsAQueue == Promised!QueueSpec

\* Each count of the semaphore is a whole frame: whenever the dispatcher may
\* go on it stands at the length of a frame, also after samples it skipped
\* and frames it left half way, and after as many frames the ring is empty.
FrameBoundary ==
  run.at = "acquire" /\ ~stopExecution =>
    /\ sem > 0 => cells[read].kind = "length"
    /\ sem = 0 /\ rx.at \in {"idle", "check", "length"} => read = write

\* A callback gets one sample of its own handle, whole, and samples arrive in
\* the order the device sent them, none twice.
DeliveredInOrder ==
  /\ \A i \in DOMAIN delivered : \A k \in 1 .. SampleSize :
       LET u == delivered[i].data[k] IN
       /\ u.kind = "data" /\ u.h = delivered[i].h /\ u.k = k
       /\ u.serial = delivered[i].data[1].serial
  /\ \A i, j \in DOMAIN delivered : i < j =>
       delivered[i].data[1].serial < delivered[j].data[1].serial

\* As long as an AdsNotification is there the device holds the handle of its
\* symbol; once its destructor has returned, at most the one callback runs whose
\* handle had been found before.
LifetimeIsKept ==
  /\ \A h \in notifications : h \in symbols
  /\ \A h \in Handle : late[h] <= 1

\* Neither end of the ring waits for the other one for ever.  The receiver spins
\* where the test for free space used a stale `read` and passed a frame for which
\* there is no room yet, but comes out of that to its next read of the socket; it
\* stores a frame to its end if the device does not stall in the middle of it (the
\* read has no deadline: AmsConnection.cpp:285, 290).  And every frame that was
\* announced is taken out to its end, even by the side of a receiver that is
\* stalled, unless the destructor ends the thread before.
RingIsDrained ==
  /\ rx.at # "idle" ~> (rx.at \in {"idle", "ended"} \/ Blocks)
  /\ WF_ntfVars(ReceiverStep /\ Blocks) => (rx.at # "idle" ~> rx.at \in {"idle", "ended"})
  /\ sem > 0 ~> (stopExecution \/ (sem = 0 /\ run.at = "acquire"))

\* The destructor's join returns: the dispatcher is woken although no frame
\* comes any more.
DispatcherEnds == stopExecution ~> run.at = "ended"
=============================================================================
