------------------------- MODULE NotificationProofs -------------------------
(***************************************************************************)
(* Proofs about NotificationDispatcher for any handles, any size of the    *)
(* ring, any frames of one or two samples, larger ones than the ring       *)
(* included, and any number of notifications: first the lifetime of a      *)
(* notification against the callbacks of the dispatcher's thread, then the *)
(* ring both threads share without a lock.                                 *)
(***************************************************************************)
EXTENDS NotificationDispatcher, SequenceTheorems, TLAPS

\* The dispatcher's thread has found h and not called it back.
InHand(h) == run.at = "data" /\ run.h = h

\* The user's thread is in the constructor of h, or past the erasure of h in
\* its destructor.
Constructs(h) == user.h = h /\ user.at \in {"add", "dispatcher", "emplace"}
Forgets(h)    == user.h = h /\ user.at = "symbol"

\* A handle that was erased has had one callback, or has one in hand, or none;
\* the object a registered handle belongs to has its symbol.
LifetimeInv ==
  /\ late \in [Handle -> Nat]
  /\ \A h \in Handle :
       /\ h \in notifications => late[h] = 0
       /\ late[h] <= 1
       /\ InHand(h) => h \in notifications \/ late[h] = 0
  /\ notifications \subseteq Handle \intersect symbols
  /\ user.at # "idle" => user.h \in Handle
  /\ \A h \in Handle : /\ Constructs(h) => h \in symbols /\ h \notin notifications
                       /\ Forgets(h) => h \notin notifications

-----------------------------------------------------------------------------
\* The receiver has no part in it.
LEMMA ReceiverKeeps ==
  ASSUME LifetimeInv, Arrive \/ ReceiverStep \/ ReceiveFails
  PROVE  LifetimeInv'
<1>1. ByReceiver
  BY DEF Arrive, ReceiverStep, ReceiveFails, Check, StoreLength, LoadRead, StoreChunk,
         StoreRest, Notify
<1> QED
  BY <1>1 DEF ByReceiver, LifetimeInv, InHand, Constructs, Forgets, registry, hist

\* The dispatcher takes a handle into its hand only while it is registered, and
\* lets go of it with its callback.
LEMMA RunKeeps ==
  ASSUME LifetimeInv, RunStep
  PROVE  LifetimeInv'
<1>1. UNCHANGED <<registry, user>>
  BY DEF RunStep, Acquire, ReadLength, ReadHeader, ReadSample, FindHandle, ReadData,
         Callback, SkipSample, Cleanup, ByRun
<1>2. CASE FindHandle
  <2>1. late' = late /\ run'.h = run.h /\ (run'.at = "data" => run.h \in notifications)
    <3>1. run' = [run EXCEPT !.at = IF ~Found(run.h) THEN "skip"
                                    ELSE IF run.size # SampleSize THEN "cleanup" ELSE "data",
                             !.data = <<>>]
      BY <1>2 DEF FindHandle
    <3> QED
      BY <1>2, <3>1 DEF FindHandle, Found, hist
  <2> QED
    BY <1>1, <2>1 DEF LifetimeInv, InHand, Constructs, Forgets, registry
<1>3. CASE Callback
  <2>1. /\ late' = (IF run.h \in notifications THEN late ELSE [late EXCEPT ![run.h] = @ + 1])
        /\ run.at = "data" /\ run' = [run EXCEPT !.at = "sample", !.full = Taken]
    BY <1>3 DEF Callback
  <2>2. \A h \in Handle : ~InHand(h)'
    BY <2>1 DEF InHand
  <2>3. /\ late' \in [Handle -> Nat]
        /\ \A h \in Handle : /\ h \in notifications => late'[h] = 0
                             /\ late'[h] <= 1
    <3>1. CASE run.h \in notifications
      BY <2>1, <3>1 DEF LifetimeInv
    <3>2. CASE run.h \notin notifications
      <4>1. run.h \in Handle => late[run.h] = 0
        BY <2>1, <3>2 DEF LifetimeInv, InHand
      <4>2. late' = [late EXCEPT ![run.h] = @ + 1]
        BY <2>1, <3>2
      <4>3. \A h \in Handle : late'[h] = IF h = run.h THEN 1 ELSE late[h]
        BY <4>1, <4>2 DEF LifetimeInv
      <4>4. late' \in [Handle -> Nat]
        <5>1. late' = [h \in Handle |-> late'[h]]
          BY <4>2 DEF LifetimeInv
        <5>2. \A h \in Handle : late'[h] \in Nat
          BY <4>3 DEF LifetimeInv
        <5> QED
          BY <5>1, <5>2
      <4> QED
        BY <3>2, <4>3, <4>4 DEF LifetimeInv
    <3> QED
      BY <3>1, <3>2
  <2> QED
    BY <1>1, <2>2, <2>3 DEF LifetimeInv, Constructs, Forgets, registry
<1>4. CASE ReadData
  <2>1. late' = late /\ run'.at = run.at /\ run'.h = run.h
    BY <1>4 DEF ReadData, hist
  <2> QED
    BY <1>1, <2>1 DEF LifetimeInv, InHand, Constructs, Forgets, registry
<1>5. CASE Acquire \/ ReadLength \/ ReadHeader \/ ReadSample \/ SkipSample \/ Cleanup
  <2>1. late' = late
    BY <1>5 DEF Acquire, ReadLength, ReadHeader, ReadSample, SkipSample, Cleanup, hist
  <2>2. run'.at # "data"
    <3>1. CASE Acquire
      BY <3>1 DEF Acquire, RunIdle
    <3>2. CASE ReadLength
      BY <3>2 DEF ReadLength
    <3>3. CASE ReadHeader
      BY <3>3 DEF ReadHeader
    <3>4. CASE ReadSample
      BY <3>4 DEF ReadSample
    <3>5. CASE SkipSample
      BY <3>5 DEF SkipSample
    <3>6. CASE Cleanup
      BY <3>6 DEF Cleanup, RunIdle
    <3> QED
      BY <1>5, <3>1, <3>2, <3>3, <3>4, <3>5, <3>6
  <2> QED
    BY <1>1, <2>1, <2>2 DEF LifetimeInv, InHand, Constructs, Forgets, registry
<1> QED
  BY <1>2, <1>3, <1>4, <1>5 DEF RunStep

\* The user's thread erases a handle before it gives the symbol back, and
\* registers it after it has one.
LEMMA UserKeeps ==
  ASSUME LifetimeInv,
         UserStep \/ Destroy \/ \E h \in Handle : GetSymbolHandle(h) \/ Drop(h)
  PROVE  LifetimeInv'
<1> USE DEF LifetimeInv, InHand, Constructs, Forgets, ByUser, UserAt, UserIdle, registry
<1>1. ASSUME NEW h \in Handle, GetSymbolHandle(h) PROVE LifetimeInv'
  BY <1>1 DEF GetSymbolHandle
<1>2. CASE AddNotification
  <2>1. /\ user.at = "add" /\ user'.h = user.h /\ user'.at \in {"dispatcher", "symbol"}
        /\ UNCHANGED <<notifications, symbols, late, run>>
    BY <1>2 DEF AddNotification
  <2> QED
    BY <2>1
<1>3. CASE DispatcherListAdd
  BY <1>3 DEF DispatcherListAdd
<1>4. CASE Emplace
  BY <1>4 DEF Emplace
<1>5. ASSUME NEW h \in Handle, Drop(h) PROVE LifetimeInv'
  BY <1>5 DEF Drop, Teardown
<1>6. CASE DeleteRemote
  BY <1>6 DEF DeleteRemote
<1>7. CASE EraseLocal
  BY <1>7 DEF EraseLocal, Teardown
<1>8. CASE DeleteSymbolHandle
  BY <1>8 DEF DeleteSymbolHandle, Teardown
<1>9. CASE Destroy
  BY <1>9 DEF Destroy
<1> QED
  BY <1>1, <1>2, <1>3, <1>4, <1>5, <1>6, <1>7, <1>8, <1>9 DEF UserStep

\* What the erasure of a handle leaves behind in the dispatcher's thread, as an
\* invariant.
THEOREM LifetimeInvariance == NtfSpec => []LifetimeInv
<1>1. NtfInit => LifetimeInv
  BY DEF NtfInit, LifetimeInv, InHand, Constructs, Forgets, RunIdle
<1>2. LifetimeInv /\ [NtfNext]_ntfVars => LifetimeInv'
  <2> SUFFICES ASSUME LifetimeInv, [NtfNext]_ntfVars PROVE LifetimeInv'
    OBVIOUS
  <2>1. CASE NtfNext
    BY <2>1, ReceiverKeeps, RunKeeps, UserKeeps DEF NtfNext
  <2>2. CASE UNCHANGED ntfVars
    BY <2>2 DEF ntfVars, LifetimeInv, InHand, Constructs, Forgets, registry, hist
  <2> QED
    BY <2>1, <2>2
<1> QED
  BY <1>1, <1>2, PTL DEF NtfSpec

\* As long as an AdsNotification is there the device holds the handle of its
\* symbol, and once its destructor has returned at most one callback runs.
THEOREM LifetimesAreKept == NtfSpec => []LifetimeIsKept
<1>1. LifetimeInv => LifetimeIsKept
  BY DEF LifetimeInv, LifetimeIsKept
<1> QED
  BY <1>1, LifetimeInvariance, PTL

-----------------------------------------------------------------------------
(***************************************************************************)
(* The ring.  Its cells are reused, so that a cell says nothing of the     *)
(* frame it belongs to.  Four values the code does not keep say it:        *)
(*   N        the frames stored and announced; the receiver is in frame    *)
(*            N + 1, or waits for it,                                      *)
(*   C        the frames the dispatcher's thread has taken, the one it is  *)
(*            in included,                                                 *)
(*   G[i]     frame i: its absolute position in the stream of all units    *)
(*            ever stored, its samples, and the serial of the first,       *)
(*   B        the position at which the lap of `read` begins.              *)
(* They exist in every reachable state (RingInv).  A position is a cell    *)
(* once B is taken off, so that what the two threads do in turns of the    *)
(* array becomes one stream of units.                                      *)
(***************************************************************************)
DataUnit == [kind : {"data"}, h : Handle, serial : Nat, k : Nat]
Unit == [kind : {"length", "samples"}, n : Nat] \union
        [kind : {"sample"}, h : Handle, size : Nat] \union DataUnit

\* The offset of sample j in a frame with its length; past the last sample, the end.
Onset(shape, j) ==
  2 + (IF j > 1 THEN 1 + shape[1].size ELSE 0) + (IF j > 2 THEN 1 + shape[2].size ELSE 0)
Extent(shape) == Onset(shape, Len(shape) + 1)
Stop(f) == f.start + Extent(f.shape)

\* The unit at offset k of frame f.
Word(f, k) == IF k = 0 THEN LengthOf(Extent(f.shape) - 1) ELSE Units(f.shape, f.serial)[k]

\* The positions of both pointers and of the value of `read` the receiver has
\* loaded, and the cell of a position.
ReadAt(B)  == B + read
WriteAt(B) == B + write + (IF write < read THEN dataSize ELSE 0)
LoadAt(B)  == B + rx.load - (IF rx.load > read THEN dataSize ELSE 0)
Cell(B, p) == IF p - B < dataSize THEN p - B ELSE p - B - dataSize

RxBusy == rx.at \in {"check", "length", "load", "chunk", "notify"}
RunAtSample == run.at \in {"find", "data", "skip", "cleanup"}
RunBusy == run.at \in {"length", "header", "sample", "find", "data", "skip", "cleanup"}

RxTyped ==
  rx \in [at : {"idle", "check", "length", "load", "chunk", "notify", "ended"},
          left : Seq(Unit), load : Position]

\* The dispatcher's thread never finds a unit it did not expect ("garbage").
RunTyped ==
  run \in [at : {"acquire", "length", "header", "sample", "find", "data", "skip",
                 "cleanup", "ended"},
           full : Int, samples : Nat, h : Handle \union {0}, size : Nat,
           data : Seq(DataUnit)]

RingTyped ==
  /\ write \in Position /\ read \in Position
  /\ sem \in Nat /\ serial \in Nat /\ stopExecution \in BOOLEAN
  /\ RxTyped /\ RunTyped
  /\ delivered \in Seq([h : Handle, data : Seq(DataUnit)])

\* The frames follow each other without a gap, with growing serials.
FramesInOrder(N, G) ==
  /\ \A i \in 1 .. N + 1 : G[i].start \in Nat
  /\ \A i \in 1 .. N :
       /\ G[i].shape \in Shape /\ G[i].serial \in Nat
       /\ G[i].serial + Len(G[i].shape) <= serial + 1
  /\ \A i \in 1 .. N : G[i + 1].start = Stop(G[i])
  /\ \A i, j \in 1 .. N + 1 : i < j => Stop(G[i]) <= G[j].start
  /\ \A i, j \in 1 .. N : i < j => G[i].serial + Len(G[i].shape) <= G[j].serial

\* Between the pointers stand the units of the frames.
Contents(B, N, G) ==
  \A i \in 1 .. N + 1 : \A k \in 0 .. Extent(G[i].shape) - 1 :
    LET p == G[i].start + k IN
    ReadAt(B) <= p /\ p < WriteAt(B) => cells[Cell(B, p)] = Word(G[i], k)

\* How far the receiver is in its frame.
Storing(B, N, G) ==
  LET f == G[N + 1] IN
  /\ RxBusy => /\ f.shape \in Shape /\ f.serial \in Nat
               /\ f.serial + Len(f.shape) = serial + 1
               /\ \A i \in 1 .. N : G[i].serial + Len(G[i].shape) <= f.serial
  /\ rx.at \in {"idle", "check", "length"} => WriteAt(B) = f.start
  /\ rx.at \in {"check", "length"} => rx.left = Units(f.shape, f.serial)
  /\ rx.at \in {"load", "chunk"} =>
       /\ f.start < WriteAt(B)
       /\ WriteAt(B) + Len(rx.left) = Stop(f)
       /\ \A k \in 1 .. Len(rx.left) : rx.left[k] = Word(f, WriteAt(B) - f.start + k - 1)
  /\ rx.at = "notify" => WriteAt(B) = Stop(f)
  /\ rx.at = "ended" => f.start <= WriteAt(B)

\* A frame that passed the test for free space either has room, or `read` went
\* round the end of the array between the two loads of the test.  Then it may have
\* no room, but it starts in the lap of `read`: no later load is past `read`, each
\* piece is bounded by what is free, and the receiver waits when nothing is.
Fitting(B, N, G) ==
  LET f == G[N + 1] IN
  /\ rx.at \in {"check", "chunk"} => WriteAt(B) < LoadAt(B) + dataSize
  /\ rx.at = "length" => WriteAt(B) + 1 < ReadAt(B) + dataSize
  /\ rx.at \in {"length", "load"} =>
       \/ Stop(f) < ReadAt(B) + dataSize
       \/ f.start < B + dataSize
  /\ rx.at = "chunk" =>
       \/ Stop(f) < LoadAt(B) + dataSize
       \/ rx.load <= read /\ f.start < B + dataSize

\* The sample of the frame the dispatcher's thread is at, or comes to next.
At(f) == Len(f.shape) - run.samples + (IF run.at = "sample" THEN 1 ELSE 0)

\* How far the dispatcher's thread is in its frame: fullLength is what is left.
Taking(B, N, C, G) ==
  LET f == G[C] IN
  /\ C \in 0 .. N
  /\ run.at = "acquire" => ReadAt(B) = G[C + 1].start
  /\ RunBusy => C >= 1
  /\ run.at = "length" => ReadAt(B) = f.start
  /\ run.at = "header" => ReadAt(B) = f.start + 1 /\ run.full = Extent(f.shape) - 1
  /\ run.at = "sample" =>
       /\ run.samples <= Len(f.shape)
       /\ ReadAt(B) = f.start + Onset(f.shape, At(f))
       /\ run.full = Stop(f) - ReadAt(B)
  /\ RunAtSample =>
       /\ run.samples < Len(f.shape)
       /\ ReadAt(B) = f.start + Onset(f.shape, At(f)) + 1
                        + (IF run.at = "data" THEN Len(run.data) ELSE 0)
       /\ run.full = Stop(f) - (f.start + Onset(f.shape, At(f)) + 1)
       /\ run.h = f.shape[At(f)].h /\ run.size = f.shape[At(f)].size
  /\ run.at = "data" =>
       /\ run.size = SampleSize /\ Len(run.data) <= SampleSize
       /\ \A k \in 1 .. Len(run.data) :
            run.data[k] = Data(run.h, f.serial + At(f) - 1, k)

\* The semaphore counts the frames that are complete and not taken.
Counted(N, C) ==
  ~stopExecution => sem + C = N

\* What the callbacks were given.
Delivered ==
  /\ Len(delivered) <= 2
  /\ \A m \in 1 .. Len(delivered) :
       /\ Len(delivered[m].data) = SampleSize
       /\ \A k \in 1 .. SampleSize :
            /\ delivered[m].data[k].h = delivered[m].h /\ delivered[m].data[k].k = k
            /\ delivered[m].data[k].serial = delivered[m].data[1].serial
  /\ \A m, n \in 1 .. Len(delivered) :
       m < n => delivered[m].data[1].serial < delivered[n].data[1].serial

\* The serial of the sample the dispatcher's thread is at.
Current(C, G) ==
  IF run.at \in {"length", "header"} THEN G[C].serial ELSE G[C].serial + At(G[C]) - 1

\* Every sample that can still be delivered is later than the one with serial q.
Behind(q, N, C, G) ==
  /\ q <= serial
  /\ \A i \in C + 1 .. N : q < G[i].serial
  /\ RxBusy => q < G[N + 1].serial
  /\ RunBusy => q < Current(C, G)

AllBehind(N, C, G) ==
  \A m \in 1 .. Len(delivered) : Behind(delivered[m].data[1].serial, N, C, G)

Rings(B, N, C, G) ==
  /\ RingTyped
  /\ FramesInOrder(N, G) /\ Contents(B, N, G) /\ Storing(B, N, G)
  /\ Fitting(B, N, G) /\ Taking(B, N, C, G) /\ Counted(N, C)
  /\ Delivered /\ AllBehind(N, C, G)

RingInv == \E B \in Int, N \in Nat, C \in Nat : \E G : Rings(B, N, C, G)

-----------------------------------------------------------------------------
(***************************************************************************)
(* The operators of the model.                                             *)
(***************************************************************************)
\* What a frame is made of: one or two samples, each where the one before it ends.
LEMMA ShapeFacts ==
  ASSUME NEW s \in Shape
  PROVE  /\ s \in Seq([h : Handle, size : Nat]) /\ Len(s) \in 1 .. 2
         /\ \A j \in 1 .. Len(s) : s[j].h \in Handle /\ s[j].size \in Nat
         /\ Extent(s) \in Nat /\ Extent(s) >= 3
         /\ \A j \in 1 .. Len(s) :
              /\ Onset(s, j) \in Nat /\ Onset(s, j) >= 2
              /\ Onset(s, j + 1) = Onset(s, j) + 1 + s[j].size
              /\ Onset(s, j + 1) <= Extent(s)
         /\ Onset(s, 1) = 2
<1>1. s \in Seq([h : Handle, size : Nat]) /\ Len(s) \in 1 .. 2
  BY DispatcherAssumption
<1>2. \A j \in 1 .. Len(s) : s[j] \in [h : Handle, size : Nat]
  BY <1>1, ElementOfSeq
<1>3. \A j \in 1 .. Len(s) : s[j].h \in Handle /\ s[j].size \in Nat
  BY <1>2
<1>4. CASE Len(s) = 1
  <2>1. s[1].size \in Nat
    BY <1>3, <1>4
  <2>2. /\ Onset(s, 1) = 2 /\ Onset(s, 1 + 1) = 3 + s[1].size
        /\ Extent(s) = 3 + s[1].size
    BY <1>4, <2>1 DEF Extent, Onset
  <2>3. \A j \in 1 .. Len(s) : j = 1
    BY <1>4
  <2> QED
    BY <1>1, <1>3, <2>1, <2>2, <2>3
<1>5. CASE Len(s) = 2
  <2>1. s[1].size \in Nat /\ s[2].size \in Nat
    BY <1>3, <1>5
  <2>2. /\ Onset(s, 1) = 2 /\ Onset(s, 1 + 1) = 3 + s[1].size
        /\ Onset(s, 2) = 3 + s[1].size /\ Onset(s, 2 + 1) = 4 + s[1].size + s[2].size
        /\ Extent(s) = 4 + s[1].size + s[2].size
    BY <1>5, <2>1 DEF Extent, Onset
  <2>3. \A j \in 1 .. Len(s) : j = 1 \/ j = 2
    BY <1>5
  <2>4. \A j \in 1 .. Len(s) :
          /\ Onset(s, j) \in Nat /\ Onset(s, j) >= 2
          /\ Onset(s, j + 1) = Onset(s, j) + 1 + s[j].size
          /\ Onset(s, j + 1) <= Extent(s)
    <3> SUFFICES ASSUME NEW j \in 1 .. Len(s)
                 PROVE  /\ Onset(s, j) \in Nat /\ Onset(s, j) >= 2
                        /\ Onset(s, j + 1) = Onset(s, j) + 1 + s[j].size
                        /\ Onset(s, j + 1) <= Extent(s)
      OBVIOUS
    <3>1. CASE j = 1
      BY <2>1, <2>2, <3>1
    <3>2. CASE j = 2
      BY <2>1, <2>2, <3>2
    <3> QED
      BY <2>3, <3>1, <3>2
  <2> QED
    <3>1. Extent(s) \in Nat /\ Extent(s) >= 3
      BY <2>1, <2>2
    <3>2. Onset(s, 1) = 2
      BY <2>2
    <3> QED
      BY <1>1, <1>3, <2>4, <3>1, <3>2, Zenon
<1> QED
  BY <1>1, <1>4, <1>5

\* The elements of two sequences joined.
LEMMA Joined ==
  ASSUME NEW S, NEW u \in Seq(S), NEW v \in Seq(S)
  PROVE  /\ u \o v \in Seq(S) /\ Len(u \o v) = Len(u) + Len(v)
         /\ \A k \in 1 .. Len(u) : (u \o v)[k] = u[k]
         /\ \A k \in 1 .. Len(v) : (u \o v)[Len(u) + k] = v[k]
<1>1. u \o v \in Seq(S) /\ Len(u \o v) = Len(u) + Len(v)
  BY ConcatProperties
<1>2. \A k \in 1 .. Len(u) + Len(v) :
        (u \o v)[k] = IF k <= Len(u) THEN u[k] ELSE v[k - Len(u)]
  BY ConcatProperties
<1>3. Len(u) \in Nat /\ Len(v) \in Nat
  OBVIOUS
<1>4. \A k \in 1 .. Len(u) : k \in 1 .. Len(u) + Len(v) /\ k <= Len(u)
  BY <1>3
<1>5. \A k \in 1 .. Len(v) : /\ Len(u) + k \in 1 .. Len(u) + Len(v)
                              /\ ~(Len(u) + k <= Len(u)) /\ (Len(u) + k) - Len(u) = k
  BY <1>3
<1> QED
  BY <1>1, <1>2, <1>4, <1>5

\* The units of one sample: its handle and size, then its data.
LEMMA SampleUnitsFacts ==
  ASSUME NEW h \in Handle, NEW size \in Nat, NEW n \in Nat
  PROVE  /\ SampleUnits(h, size, n) \in Seq(Unit)
         /\ Len(SampleUnits(h, size, n)) = size + 1
         /\ SampleUnits(h, size, n)[1] = Sample(h, size)
         /\ \A k \in 1 .. size : SampleUnits(h, size, n)[k + 1] = Data(h, n, k)
<1> DEFINE a == <<Sample(h, size)>>
           b == [k \in 1 .. size |-> Data(h, n, k)]
<1>1. a \in Seq(Unit) /\ Len(a) = 1 /\ a[1] = Sample(h, size)
  BY DEF Unit, Sample
<1>2. b \in Seq(Unit)
  <2>1. \A k \in 1 .. size : Data(h, n, k) \in Unit
    BY DEF Unit, DataUnit, Data
  <2> QED
    BY <2>1
<1>3. Len(b) = size
  BY <1>2
<1>4. \A k \in 1 .. size : b[k] = Data(h, n, k)
  OBVIOUS
<1>5. SampleUnits(h, size, n) = a \o b
  BY DEF SampleUnits
<1> HIDE DEF a, b
<1>6. /\ a \o b \in Seq(Unit) /\ Len(a \o b) = 1 + size
      /\ \A k \in 1 .. 1 : (a \o b)[k] = a[k]
      /\ \A k \in 1 .. size : (a \o b)[1 + k] = b[k]
  <2>1. /\ a \o b \in Seq(Unit) /\ Len(a \o b) = Len(a) + Len(b)
        /\ \A k \in 1 .. Len(a) : (a \o b)[k] = a[k]
        /\ \A k \in 1 .. Len(b) : (a \o b)[Len(a) + k] = b[k]
    BY <1>1, <1>2, Joined
  <2> QED
    BY <1>1, <1>3, <2>1
<1>7. (a \o b)[1] = a[1]
  BY <1>6
<1>8. \A k \in 1 .. size : 1 + k = k + 1
  OBVIOUS
<1> QED
  <2>1. SampleUnits(h, size, n)[1] = Sample(h, size)
    BY <1>1, <1>5, <1>7
  <2>2. \A k \in 1 .. size : SampleUnits(h, size, n)[k + 1] = Data(h, n, k)
    BY <1>4, <1>5, <1>6, <1>8
  <2>3. Len(SampleUnits(h, size, n)) = size + 1 /\ SampleUnits(h, size, n) \in Seq(Unit)
    BY <1>5, <1>6
  <2> QED
    BY <2>1, <2>2, <2>3

\* The units of a frame: the number of samples, then each sample where Onset puts it.
LEMMA UnitsFacts ==
  ASSUME NEW s \in Shape, NEW n \in Nat
  PROVE  /\ Units(s, n) \in Seq(Unit)
         /\ Len(Units(s, n)) = Extent(s) - 1
         /\ Units(s, n)[1] = Samples(Len(s))
         /\ \A j \in 1 .. Len(s) :
              /\ Units(s, n)[Onset(s, j)] = Sample(s[j].h, s[j].size)
              /\ \A k \in 1 .. s[j].size :
                   Units(s, n)[Onset(s, j) + k] = Data(s[j].h, n + j - 1, k)
<1> DEFINE a == <<Samples(Len(s))>>
           b == SampleUnits(s[1].h, s[1].size, n)
           c == SampleUnits(s[2].h, s[2].size, n + 1)
<1>1. Len(s) \in {1, 2}
  BY ShapeFacts
<1>2. a \in Seq(Unit) /\ Len(a) = 1 /\ a[1] = Samples(Len(s))
  BY <1>1 DEF Unit, Samples
<1>3. s[1].h \in Handle /\ s[1].size \in Nat
  BY <1>1, ShapeFacts
<1>4. /\ b \in Seq(Unit) /\ Len(b) = s[1].size + 1
      /\ b[1] = Sample(s[1].h, s[1].size)
      /\ \A k \in 1 .. s[1].size : b[k + 1] = Data(s[1].h, n, k)
  BY <1>3, SampleUnitsFacts, ZenonT(30)
<1>7. /\ a \o b \in Seq(Unit) /\ Len(a \o b) = s[1].size + 2
      /\ (a \o b)[1] = a[1]
      /\ \A k \in 1 .. s[1].size + 1 : (a \o b)[1 + k] = b[k]
  <2>1. s[1].size + 1 \in Nat /\ 1 + (s[1].size + 1) = s[1].size + 2 /\ 1 \in 1 .. 1
    BY <1>3
  <2> HIDE DEF a, b
  <2>2. /\ a \o b \in Seq(Unit) /\ Len(a \o b) = Len(a) + Len(b)
        /\ \A k \in 1 .. Len(a) : (a \o b)[k] = a[k]
        /\ \A k \in 1 .. Len(b) : (a \o b)[Len(a) + k] = b[k]
    <3>1. a \in Seq(Unit) /\ b \in Seq(Unit)
      BY <1>2, <1>4
    <3> QED
      BY <3>1, Joined
  <2> QED
    BY <1>2, <1>4, <2>1, <2>2
<1>5. CASE Len(s) = 1
  <2>1. Units(s, n) = a \o b \o <<>>
    BY <1>5 DEF Units
  <2> HIDE DEF a, b, c
  <2>2. a \o b \o <<>> = a \o b
    BY <1>2, <1>4
  <2>3. /\ a \o b \in Seq(Unit) /\ Len(a \o b) = s[1].size + 2
        /\ (a \o b)[1] = a[1]
        /\ \A k \in 1 .. s[1].size + 1 : (a \o b)[1 + k] = b[k]
    BY <1>7
  <2>4. (a \o b)[2] = Sample(s[1].h, s[1].size)
    BY <1>3, <1>4, <2>3
  <2>5. \A k \in 1 .. s[1].size : (a \o b)[2 + k] = Data(s[1].h, n, k)
    <3> SUFFICES ASSUME NEW k \in 1 .. s[1].size
                 PROVE  (a \o b)[2 + k] = Data(s[1].h, n, k)
      OBVIOUS
    <3>1. k + 1 \in 1 .. s[1].size + 1 /\ 1 + (k + 1) = 2 + k
      BY <1>3
    <3> QED
      BY <1>4, <2>3, <3>1
  <2>6. Onset(s, 1) = 2 /\ Extent(s) = s[1].size + 3
    BY <1>3, <1>5 DEF Onset, Extent
  <2>7. n + 1 - 1 = n
    OBVIOUS
  <2>8. \A j \in 1 .. Len(s) : j = 1
    BY <1>5
  <2>9. Len(Units(s, n)) = Extent(s) - 1
    BY <1>3, <2>1, <2>2, <2>3, <2>6
  <2>10. /\ Units(s, n)[Onset(s, 1)] = Sample(s[1].h, s[1].size)
         /\ \A k \in 1 .. s[1].size :
              Units(s, n)[Onset(s, 1) + k] = Data(s[1].h, n + 1 - 1, k)
    BY <2>1, <2>2, <2>4, <2>5, <2>6, <2>7
  <2> QED
    BY <1>2, <2>1, <2>2, <2>3, <2>8, <2>9, <2>10
<1>6. CASE Len(s) = 2
  <2>1. Units(s, n) = a \o b \o c
    BY <1>6 DEF Units
  <2>2. s[2].h \in Handle /\ s[2].size \in Nat
    BY <1>6, ShapeFacts
  <2>3. /\ c \in Seq(Unit) /\ Len(c) = s[2].size + 1
        /\ c[1] = Sample(s[2].h, s[2].size)
        /\ \A k \in 1 .. s[2].size : c[k + 1] = Data(s[2].h, n + 1, k)
    <3>1. n + 1 \in Nat
      OBVIOUS
    <3> QED
      <4>1. PICK h \in Handle, z \in Nat, q \in Nat :
              h = s[2].h /\ z = s[2].size /\ q = n + 1
        BY <2>2, <3>1
      <4>2. c = SampleUnits(h, z, q)
        BY <4>1
      <4> HIDE DEF c
      <4>3. /\ c \in Seq(Unit) /\ Len(c) = z + 1 /\ c[1] = Sample(h, z)
            /\ \A k \in 1 .. z : c[k + 1] = Data(h, q, k)
        BY <4>2, SampleUnitsFacts, Zenon
      <4> QED
        BY ONLY <4>1, <4>3
  <2> HIDE DEF a, b, c
  <2>4. /\ a \o b \in Seq(Unit) /\ Len(a \o b) = s[1].size + 2
        /\ (a \o b)[1] = a[1]
        /\ \A k \in 1 .. s[1].size + 1 : (a \o b)[1 + k] = b[k]
    BY <1>7
  <2> DEFINE d == a \o b
  <2>5. d \in Seq(Unit) /\ Len(d) = s[1].size + 2
    BY <2>4
  <2> HIDE DEF d
  <2>6. /\ d \o c \in Seq(Unit) /\ Len(d \o c) = s[1].size + s[2].size + 3
        /\ \A k \in 1 .. s[1].size + 2 : (d \o c)[k] = d[k]
        /\ \A k \in 1 .. s[2].size + 1 : (d \o c)[s[1].size + 2 + k] = c[k]
    <3>1. /\ s[1].size + 2 \in Nat /\ s[2].size + 1 \in Nat
          /\ (s[1].size + 2) + (s[2].size + 1) = s[1].size + s[2].size + 3
      BY <1>3, <2>2
    <3>2. /\ d \o c \in Seq(Unit) /\ Len(d \o c) = Len(d) + Len(c)
          /\ \A k \in 1 .. Len(d) : (d \o c)[k] = d[k]
          /\ \A k \in 1 .. Len(c) : (d \o c)[Len(d) + k] = c[k]
      <4>1. d \in Seq(Unit) /\ c \in Seq(Unit)
        BY <2>3, <2>5
      <4> QED
        BY <4>1, Joined
    <3> QED
      BY <2>3, <2>5, <3>1, <3>2
  <2>7. (d \o c)[1] = Samples(Len(s)) /\ (d \o c)[2] = Sample(s[1].h, s[1].size)
    <3>1. 1 \in 1 .. s[1].size + 2 /\ 2 \in 1 .. s[1].size + 2 /\ 1 \in 1 .. s[1].size + 1
      BY <1>3
    <3>2. d[1] = a[1] /\ d[2] = b[1]
      BY <2>4, <3>1 DEF d
    <3> QED
      BY <1>2, <1>4, <2>6, <3>1, <3>2
  <2>8. \A k \in 1 .. s[1].size : (d \o c)[2 + k] = Data(s[1].h, n, k)
    <3> SUFFICES ASSUME NEW k \in 1 .. s[1].size
                 PROVE  (d \o c)[2 + k] = Data(s[1].h, n, k)
      OBVIOUS
    <3>1. /\ k + 1 \in 1 .. s[1].size + 1 /\ 1 + (k + 1) = 2 + k
          /\ 2 + k \in 1 .. s[1].size + 2
      BY <1>3
    <3>2. d[2 + k] = b[k + 1]
      BY <2>4, <3>1 DEF d
    <3> QED
      BY <1>4, <2>6, <3>1, <3>2
  <2>9. (d \o c)[3 + s[1].size] = Sample(s[2].h, s[2].size)
    <3>1. 1 \in 1 .. s[2].size + 1 /\ s[1].size + 2 + 1 = 3 + s[1].size
      BY <1>3, <2>2
    <3> QED
      BY <2>3, <2>6, <3>1
  <2>10. \A k \in 1 .. s[2].size : (d \o c)[3 + s[1].size + k] = Data(s[2].h, n + 1, k)
    <3> SUFFICES ASSUME NEW k \in 1 .. s[2].size
                 PROVE  (d \o c)[3 + s[1].size + k] = Data(s[2].h, n + 1, k)
      OBVIOUS
    <3>1. /\ k + 1 \in 1 .. s[2].size + 1
          /\ s[1].size + 2 + (k + 1) = 3 + s[1].size + k
      BY <1>3, <2>2
    <3> QED
      BY <2>3, <2>6, <3>1
  <2>11. /\ Onset(s, 1) = 2 /\ Onset(s, 2) = 3 + s[1].size
         /\ Extent(s) = s[1].size + s[2].size + 4
    BY <1>3, <1>6, <2>2 DEF Onset, Extent
  <2>12. n + 1 - 1 = n /\ n + 2 - 1 = n + 1
    OBVIOUS
  <2>13. \A j \in 1 .. Len(s) : j = 1 \/ j = 2
    BY <1>6
  <2>14. Units(s, n) = d \o c
    BY <2>1 DEF d
  <2>15. Len(Units(s, n)) = Extent(s) - 1
    BY <1>3, <2>2, <2>6, <2>11, <2>14
  <2>16. /\ Units(s, n)[Onset(s, 1)] = Sample(s[1].h, s[1].size)
         /\ \A k \in 1 .. s[1].size :
              Units(s, n)[Onset(s, 1) + k] = Data(s[1].h, n + 1 - 1, k)
    BY <2>7, <2>8, <2>11, <2>12, <2>14
  <2>17. /\ Units(s, n)[Onset(s, 2)] = Sample(s[2].h, s[2].size)
         /\ \A k \in 1 .. s[2].size :
              Units(s, n)[Onset(s, 2) + k] = Data(s[2].h, n + 2 - 1, k)
    BY <2>9, <2>10, <2>11, <2>12, <2>14
  <2> QED
    BY <2>6, <2>7, <2>13, <2>14, <2>15, <2>16, <2>17
<1> QED
  BY <1>1, <1>5, <1>6

\* Increment past the end of the array comes back to its begin.
LEMMA WrapsOnce ==
  ASSUME NEW p \in Position, NEW n \in Nat, p + n < 2 * dataSize
  PROVE  Increment(p, n) = IF p + n < dataSize THEN p + n ELSE p + n - dataSize
<1>1. dataSize \in Nat /\ dataSize > 1
  BY RingAssumption
<1>2. p \in Nat
  BY <1>1 DEF Position
<1>3. CASE p + n < dataSize
  BY <1>1, <1>2, <1>3 DEF Increment
<1>4. CASE ~(p + n < dataSize)
  <2>1. PICK m \in 0 .. dataSize - 1 : p + n = m + dataSize
    <3>1. p + n - dataSize \in 0 .. dataSize - 1
      BY <1>1, <1>2, <1>4
    <3> QED
      BY <1>1, <1>2, <3>1
  <2>2. (m + dataSize) % dataSize = m
    BY <1>1
  <2> QED
    BY <1>1, <1>2, <1>4, <2>1, <2>2 DEF Increment
<1> QED
  BY <1>3, <1>4

\* BytesFree and BytesAvailable of RingBuffer.h are distances between the absolute
\* positions of the two pointers, and a pointer stands at the cell of its position.
LEMMA Measures ==
  ASSUME write \in Position, read \in Position, NEW B \in Int
  PROVE  /\ ReadAt(B) \in Int /\ WriteAt(B) \in Int
         /\ ReadAt(B) <= WriteAt(B) /\ WriteAt(B) < ReadAt(B) + dataSize
         /\ BytesFree(write, read) = dataSize - 1 - (WriteAt(B) - ReadAt(B))
         /\ BytesAvailable(write, read) = WriteAt(B) - ReadAt(B)
         /\ WriteAt(B) = ReadAt(B) => write = read
         /\ Cell(B, ReadAt(B)) = read
         /\ \A p \in Int : ReadAt(B) <= p /\ p < ReadAt(B) + dataSize => Cell(B, p) \in Position
<1>1. dataSize \in Nat /\ dataSize > 1
  BY RingAssumption
<1>2. write \in 0 .. dataSize - 1 /\ read \in 0 .. dataSize - 1
  BY DEF Position
<1>3. BytesFree(write, read) = dataSize - 1 - (WriteAt(B) - ReadAt(B))
  BY <1>1, <1>2 DEF BytesFree, FreeLoaded, AsSize, ReadAt, WriteAt
<1> QED
  BY <1>1, <1>2, <1>3 DEF BytesAvailable, ReadAt, WriteAt, Cell, Position

\* When the dispatcher's thread moves `read` by no more than what is available, its
\* absolute position grows by as much and no other position moves.
LEMMA ReadMoves ==
  ASSUME write \in Position, read \in Position, rx.load \in Position,
         NEW B \in Int, NEW n \in Nat, ReadAt(B) + n <= WriteAt(B),
         read' = Increment(read, n), write' = write, rx' = rx,
         NEW C, C = IF read + n < dataSize THEN B ELSE B + dataSize
  PROVE  /\ C \in Int /\ B <= C /\ read' \in Position
         /\ ReadAt(C)' = ReadAt(B) + n /\ WriteAt(C)' = WriteAt(B)
         /\ \A p \in Int : ReadAt(B) + n <= p /\ p < ReadAt(B) + dataSize
                             => Cell(C, p) = Cell(B, p)
         /\ WriteAt(B) < LoadAt(B) + dataSize => LoadAt(C)' = LoadAt(B)
         /\ \A p \in Int : /\ ReadAt(B) + n <= p /\ p < B + dataSize
                           => C = B /\ read <= read'
<1>1. dataSize \in Nat /\ dataSize > 1
  BY RingAssumption
<1>2. /\ write \in 0 .. dataSize - 1 /\ read \in 0 .. dataSize - 1
      /\ rx.load \in 0 .. dataSize - 1
  BY DEF Position
<1>3. n < dataSize
  BY <1>1, <1>2 DEF ReadAt, WriteAt
<1>4. read' = IF read + n < dataSize THEN read + n ELSE read + n - dataSize
  BY <1>1, <1>2, <1>3, WrapsOnce
<1>5. CASE read + n < dataSize
  <2>1. C = B /\ read' = read + n
    BY <1>4, <1>5
  <2>2. read' \in Position
    BY <1>1, <1>2, <1>5, <2>1 DEF Position
  <2>3. ReadAt(C)' = ReadAt(B) + n
    BY <1>2, <2>1 DEF ReadAt
  <2>4. WriteAt(C)' = WriteAt(B)
    BY <1>1, <1>2, <1>3, <2>1 DEF ReadAt, WriteAt
  <2>5. WriteAt(B) < LoadAt(B) + dataSize => LoadAt(C)' = LoadAt(B)
    BY <1>1, <1>2, <1>3, <2>1 DEF ReadAt, WriteAt, LoadAt
  <2> QED
    BY <1>2, <2>1, <2>2, <2>3, <2>4, <2>5
<1>6. CASE ~(read + n < dataSize)
  <2>1. C = B + dataSize /\ read' = read + n - dataSize
    BY <1>4, <1>6
  <2>2. read' \in Position
    BY <1>1, <1>2, <1>3, <1>6, <2>1 DEF Position
  <2>3. ReadAt(C)' = ReadAt(B) + n
    BY <1>1, <1>2, <2>1 DEF ReadAt
  <2>4. WriteAt(C)' = WriteAt(B)
    BY <1>1, <1>2, <1>3, <1>6, <2>1 DEF ReadAt, WriteAt
  <2>5. WriteAt(B) < LoadAt(B) + dataSize => LoadAt(C)' = LoadAt(B)
    BY <1>1, <1>2, <1>3, <1>6, <2>1 DEF ReadAt, WriteAt, LoadAt
  <2>6. \A p \in Int : ReadAt(B) + n <= p /\ p < ReadAt(B) + dataSize
                         => Cell(C, p) = Cell(B, p)
    BY <1>1, <1>2, <1>6, <2>1 DEF ReadAt, Cell
  <2>7. \A p \in Int : ~(ReadAt(B) + n <= p /\ p < B + dataSize)
    BY <1>1, <1>2, <1>6 DEF ReadAt
  <2> QED
    BY <1>1, <2>1, <2>2, <2>3, <2>4, <2>5, <2>6, <2>7
<1> QED
  BY <1>5, <1>6

\* When the receiver stores n units that fit, they stand at the positions they were
\* stored for, and what was there to be read is untouched.
LEMMA WriteMoves ==
  ASSUME write \in Position, read \in Position, NEW B \in Int,
         NEW s, NEW n \in Nat, n <= BytesFree(write, read), write + n <= dataSize,
         Store(s, n), read' = read
  PROVE  /\ write' \in Position
         /\ ReadAt(B)' = ReadAt(B) /\ WriteAt(B)' = WriteAt(B) + n
         /\ \A p \in Int : ReadAt(B) <= p /\ p < WriteAt(B)
                             => cells'[Cell(B, p)] = cells[Cell(B, p)]
         /\ \A k \in 1 .. n : cells'[Cell(B, WriteAt(B) + k - 1)] = s[k]
<1>1. dataSize \in Nat /\ dataSize > 1
  BY RingAssumption
<1>2. write \in 0 .. dataSize - 1 /\ read \in 0 .. dataSize - 1
  BY DEF Position
<1>3. n <= dataSize - 1 - (WriteAt(B) - ReadAt(B))
  BY Measures
<1>4. write' = IF write + n < dataSize THEN write + n ELSE write + n - dataSize
  <2>1. write + n < 2 * dataSize
    BY <1>1, <1>2
  <2> QED
    BY <2>1, WrapsOnce DEF Store
<1>5. write' \in Position /\ WriteAt(B)' = WriteAt(B) + n
  BY <1>1, <1>2, <1>3, <1>4 DEF WriteAt, ReadAt, Position
<1>6. \A q \in Position :
        cells'[q] = IF \E i \in 1 .. n : q = write + i - 1
                    THEN s[q - write + 1] ELSE cells[q]
  BY DEF Store
<1>7. \A p \in Int : ReadAt(B) <= p /\ p < WriteAt(B)
                       => cells'[Cell(B, p)] = cells[Cell(B, p)]
  <2> SUFFICES ASSUME NEW p \in Int, ReadAt(B) <= p, p < WriteAt(B)
               PROVE  cells'[Cell(B, p)] = cells[Cell(B, p)]
    OBVIOUS
  <2>1. Cell(B, p) \in Position
    BY <1>1, Measures
  <2>2. \A i \in 1 .. n : Cell(B, p) # write + i - 1
    BY <1>1, <1>2, <1>3 DEF Cell, WriteAt, ReadAt
  <2> QED
    BY <1>6, <2>1, <2>2
<1>8. \A k \in 1 .. n : cells'[Cell(B, WriteAt(B) + k - 1)] = s[k]
  <2> SUFFICES ASSUME NEW k \in 1 .. n
               PROVE  cells'[Cell(B, WriteAt(B) + k - 1)] = s[k]
    OBVIOUS
  <2>1. Cell(B, WriteAt(B) + k - 1) = write + k - 1
    BY <1>1, <1>2, <1>3 DEF Cell, WriteAt, ReadAt
  <2>2. write + k - 1 \in Position /\ (write + k - 1) - write + 1 = k
    BY <1>1, <1>2 DEF Position
  <2> QED
    BY <1>6, <2>1, <2>2
<1> QED
  BY <1>5, <1>7, <1>8 DEF ReadAt

-----------------------------------------------------------------------------
(***************************************************************************)
(* The ring as the two threads see it.                                     *)
(***************************************************************************)
\* The frames stored before the last one end where the last one starts, at or before
\* `write`.
LEMMA StartStored ==
  ASSUME NEW B \in Int, NEW N \in Nat, NEW G, RingTyped, FramesInOrder(N, G), Storing(B, N, G)
  PROVE  /\ G[N + 1].start \in Nat /\ G[N + 1].start <= WriteAt(B)
         /\ \A i \in 1 .. N : /\ Stop(G[i]) <= G[N + 1].start
                              /\ G[i].start \in Nat /\ G[i].shape \in Shape
                              /\ G[i].serial \in Nat
                              /\ G[i + 1].start = Stop(G[i])
<1>1. write \in Position /\ read \in Position
  BY DEF RingTyped, RxTyped
<1>2. WriteAt(B) \in Int
  BY <1>1, Measures
<1>3. G[N + 1].start \in Nat
  BY DEF FramesInOrder
<1>4. \A i \in 1 .. N : i \in 1 .. N + 1 /\ N + 1 \in 1 .. N + 1 /\ i < N + 1
  OBVIOUS
<1>5. rx.at \in {"idle", "check", "length", "load", "chunk", "notify", "ended"}
  BY DEF RingTyped, RxTyped
<1>6. G[N + 1].start <= WriteAt(B)
  <2>1. CASE rx.at = "notify"
    <3>1. G[N + 1].shape \in Shape /\ WriteAt(B) = Stop(G[N + 1])
      BY <2>1 DEF Storing, RxBusy
    <3>2. Extent(G[N + 1].shape) \in Nat
      BY <3>1, ShapeFacts
    <3> QED
      BY <1>2, <1>3, <3>1, <3>2 DEF Stop
  <2>2. CASE rx.at # "notify"
    BY <1>2, <1>3, <1>5, <2>2 DEF Storing
  <2> QED
    BY <2>1, <2>2
<1> QED
  BY <1>3, <1>4, <1>6 DEF FramesInOrder

\* What the dispatcher's thread reads where it stands in a complete frame is the unit
\* that frame has there.
LEMMA Reading ==
  ASSUME NEW B \in Int, NEW N \in Nat, NEW G,
         RingTyped, FramesInOrder(N, G), Contents(B, N, G), Storing(B, N, G),
         NEW i \in 1 .. N, NEW k \in 0 .. Extent(G[i].shape) - 1, ReadAt(B) = G[i].start + k
  PROVE  cells[read] = Word(G[i], k)
<1>1. write \in Position /\ read \in Position
  BY DEF RingTyped, RxTyped
<1>2. /\ Stop(G[i]) <= G[N + 1].start /\ G[i].start \in Nat /\ G[i].shape \in Shape
      /\ G[N + 1].start <= WriteAt(B) /\ G[N + 1].start \in Nat
  BY StartStored
<1>3. Extent(G[i].shape) \in Nat /\ WriteAt(B) \in Int
  BY <1>1, <1>2, ShapeFacts, Measures
<1>4. ReadAt(B) < WriteAt(B)
  BY <1>2, <1>3 DEF Stop
<1>5. i \in 1 .. N + 1 /\ ReadAt(B) <= ReadAt(B)
  BY <1>2
<1>6. Cell(B, ReadAt(B)) = read
  BY <1>1, Measures
<1> QED
  BY <1>4, <1>5, <1>6 DEF Contents

\* Moving `read` up to the frame under way gives up nothing that is still to be read
\* and takes back no room the receiver has been promised.
LEMMA ReaderKeeps ==
  ASSUME NEW B \in Int, NEW N \in Nat, NEW G, NEW n \in Nat,
         RingTyped, FramesInOrder(N, G), Contents(B, N, G), Storing(B, N, G),
         Fitting(B, N, G),
         ReadAt(B) + n <= G[N + 1].start,
         read' = Increment(read, n), UNCHANGED <<write, cells, rx, serial>>
  PROVE  \E D \in Int : /\ ReadAt(D)' = ReadAt(B) + n /\ read' \in Position
                        /\ FramesInOrder(N, G)' /\ Contents(D, N, G)'
                        /\ Storing(D, N, G)' /\ Fitting(D, N, G)'
<1>1. /\ write \in Position /\ read \in Position /\ rx.load \in Position
      /\ dataSize \in Nat
  BY RingAssumption DEF RingTyped, RxTyped
<1>2. ReadAt(B) + n <= WriteAt(B)
  <2>1. G[N + 1].start <= WriteAt(B) /\ G[N + 1].start \in Nat
    BY StartStored
  <2>2. ReadAt(B) \in Int /\ WriteAt(B) \in Int
    BY <1>1, Measures
  <2> QED
    BY <2>1, <2>2
<1>3. PICK D : D = IF read + n < dataSize THEN B ELSE B + dataSize
  OBVIOUS
<1>4. /\ D \in Int /\ B <= D /\ read' \in Position
      /\ ReadAt(D)' = ReadAt(B) + n /\ WriteAt(D)' = WriteAt(B)
      /\ \A p \in Int : ReadAt(B) + n <= p /\ p < ReadAt(B) + dataSize
                          => Cell(D, p) = Cell(B, p)
      /\ WriteAt(B) < LoadAt(B) + dataSize => LoadAt(D)' = LoadAt(B)
      /\ \A p \in Int : ReadAt(B) + n <= p /\ p < B + dataSize => D = B /\ read <= read'
  BY <1>1, <1>2, <1>3, ReadMoves
<1>5. /\ ReadAt(B) \in Int /\ WriteAt(B) \in Int /\ WriteAt(B) < ReadAt(B) + dataSize
      /\ G[N + 1].start \in Nat
  BY <1>1, StartStored, Measures
<1>6. FramesInOrder(N, G)'
  BY DEF FramesInOrder
<1>7. Storing(D, N, G)'
  BY <1>4 DEF Storing, RxBusy
<1>8. Contents(D, N, G)'
  <2> SUFFICES ASSUME NEW i \in 1 .. N + 1, NEW k \in 0 .. Extent(G[i].shape) - 1,
                      ReadAt(B) + n <= G[i].start + k, G[i].start + k < WriteAt(B)
               PROVE  cells[Cell(D, G[i].start + k)] = Word(G[i], k)
    BY <1>4 DEF Contents
  <2>1. G[i].start + k \in Int
    BY DEF FramesInOrder
  <2>2. ReadAt(B) <= G[i].start + k /\ G[i].start + k < ReadAt(B) + dataSize
    BY <1>1, <1>5, <2>1
  <2>3. Cell(D, G[i].start + k) = Cell(B, G[i].start + k)
    BY <1>4, <2>1, <2>2
  <2> QED
    BY <2>2, <2>3 DEF Contents
<1>9. Fitting(D, N, G)'
  <2>1. rx' = rx
    OBVIOUS
  <2>2. rx.at \in {"check", "chunk"} => WriteAt(B) < LoadAt(B) + dataSize
    BY DEF Fitting
  <2>3. rx.at \in {"check", "chunk"} => WriteAt(D)' < LoadAt(D)' + dataSize
    BY <1>4, <2>2
  <2>4. rx.at = "length" => WriteAt(D)' + 1 < ReadAt(D)' + dataSize
    BY <1>1, <1>4, <1>5 DEF Fitting
  <2>5. rx.at \in {"length", "load"} =>
          \/ Stop(G[N + 1]) < ReadAt(D)' + dataSize
          \/ G[N + 1].start < D + dataSize
    <3> SUFFICES ASSUME rx.at \in {"length", "load"}
                 PROVE  \/ Stop(G[N + 1]) < ReadAt(D)' + dataSize
                        \/ G[N + 1].start < D + dataSize
      OBVIOUS
    <3>1. \/ Stop(G[N + 1]) < ReadAt(B) + dataSize
          \/ G[N + 1].start < B + dataSize
      BY DEF Fitting
    <3>2. G[N + 1].shape \in Shape
      BY DEF Storing, RxBusy
    <3>3. Stop(G[N + 1]) \in Int
      BY <1>5, <3>2, ShapeFacts DEF Stop
    <3> QED
      BY <1>1, <1>4, <1>5, <3>1, <3>3
  <2>6. rx.at = "chunk" =>
          \/ Stop(G[N + 1]) < LoadAt(D)' + dataSize
          \/ rx.load <= read' /\ G[N + 1].start < D + dataSize
    <3> SUFFICES ASSUME rx.at = "chunk"
                 PROVE  \/ Stop(G[N + 1]) < LoadAt(D)' + dataSize
                        \/ rx.load <= read' /\ G[N + 1].start < D + dataSize
      OBVIOUS
    <3>1. \/ Stop(G[N + 1]) < LoadAt(B) + dataSize
          \/ rx.load <= read /\ G[N + 1].start < B + dataSize
      BY DEF Fitting
    <3>2. LoadAt(D)' = LoadAt(B)
      BY <1>4, <2>2
    <3>3. CASE rx.load <= read /\ G[N + 1].start < B + dataSize
      <4>1. D = B /\ read <= read'
        BY <1>4, <1>5, <3>3
      <4>2. rx.load \in Int /\ read \in Int /\ read' \in Int
        BY <1>1, <1>4 DEF Position
      <4> QED
        BY <3>3, <4>1, <4>2
    <3> QED
      BY <3>1, <3>2, <3>3
  <2> QED
    BY <2>1, <2>3, <2>4, <2>5, <2>6 DEF Fitting
<1> QED
  BY <1>4, <1>6, <1>7, <1>8, <1>9

\* A step of the dispatcher's thread that moves `read` by n: what each action owes.
LEMMA Advance ==
  ASSUME NEW B \in Int, NEW N \in Nat, NEW C, NEW E, NEW G, NEW n \in Nat,
         Rings(B, N, C, G), ReadAt(B) + n <= G[N + 1].start,
         read' = Increment(read, n),
         UNCHANGED <<write, cells, rx, serial, stopExecution>>,
         sem' \in Nat, RunTyped',
         delivered' \in Seq([h : Handle, data : Seq(DataUnit)]),
         \A D \in Int : ReadAt(D)' = ReadAt(B) + n => Taking(D, N, E, G)',
         Counted(N, E)', Delivered', AllBehind(N, E, G)'
  PROVE  \E D \in Int : Rings(D, N, E, G)'
<1>1. PICK D \in Int : /\ ReadAt(D)' = ReadAt(B) + n /\ read' \in Position
                       /\ FramesInOrder(N, G)' /\ Contents(D, N, G)'
                       /\ Storing(D, N, G)' /\ Fitting(D, N, G)'
  BY ReaderKeeps DEF Rings
<1>2. RingTyped'
  <2>1. RingTyped
    BY DEF Rings
  <2> QED
    BY <1>1, <2>1 DEF RingTyped, RxTyped
<1> QED
  BY <1>1, <1>2 DEF Rings

\* The frame the dispatcher's thread is in.
LEMMA InFrame ==
  ASSUME NEW B \in Int, NEW N \in Nat, NEW C, NEW G, Rings(B, N, C, G), RunBusy
  PROVE  /\ C \in 1 .. N
         /\ G[C].start \in Nat /\ G[C].shape \in Shape /\ G[C].serial \in Nat
         /\ Stop(G[C]) <= G[N + 1].start /\ G[N + 1].start \in Nat
         /\ G[C + 1].start = Stop(G[C]) /\ Stop(G[C]) = G[C].start + Extent(G[C].shape)
<1>1. C \in 1 .. N
  BY DEF Rings, Taking
<1> QED
  BY <1>1, StartStored DEF Rings, Stop

\* Where the dispatcher's thread is at a sample.
LEMMA InSample ==
  ASSUME NEW B \in Int, NEW N \in Nat, NEW C, NEW G, Rings(B, N, C, G),
         RunAtSample \/ (run.at = "sample" /\ run.samples > 0)
  PROVE  /\ At(G[C]) \in 1 .. Len(G[C].shape)
         /\ G[C].shape[At(G[C])].h \in Handle /\ G[C].shape[At(G[C])].size \in Nat
         /\ Onset(G[C].shape, At(G[C])) \in Nat /\ Onset(G[C].shape, At(G[C])) >= 2
         /\ Onset(G[C].shape, At(G[C]) + 1)
              = Onset(G[C].shape, At(G[C])) + 1 + G[C].shape[At(G[C])].size
         /\ Onset(G[C].shape, At(G[C])) + 1 + G[C].shape[At(G[C])].size
              <= Extent(G[C].shape)
         /\ Extent(G[C].shape) \in Nat
<1>1. RunBusy
  BY DEF RunBusy, RunAtSample
<1>2. G[C].shape \in Shape
  BY <1>1, InFrame
<1>3. Len(G[C].shape) \in 1 .. 2
  BY <1>2, ShapeFacts
<1>4. run.samples \in Nat
  BY DEF Rings, RingTyped, RunTyped
<1>5. At(G[C]) \in 1 .. Len(G[C].shape)
  <2>1. CASE RunAtSample
    BY <1>3, <1>4, <2>1 DEF Rings, Taking, At, RunAtSample
  <2>2. CASE run.at = "sample" /\ run.samples > 0
    BY <1>3, <1>4, <2>2 DEF Rings, Taking, At
  <2> QED
    BY <2>1, <2>2
<1> QED
  BY <1>2, <1>5, ShapeFacts

\* To move by nothing is to stay.
LEMMA Stays ==
  ASSUME read \in Position
  PROVE  Increment(read, 0) = read
<1>1. dataSize \in Nat /\ dataSize > 1 /\ read \in 0 .. dataSize - 1
  BY RingAssumption DEF Position
<1>2. read + 0 = read /\ read < dataSize /\ read + 0 < 2 * dataSize
  BY <1>1
<1> QED
  BY <1>2, WrapsOnce

\* Rings without its parts.
LEMMA RingsParts ==
  ASSUME NEW B \in Int, NEW N \in Nat, NEW C, NEW G, Rings(B, N, C, G)
  PROVE  /\ read \in Position /\ write \in Position /\ sem \in Nat /\ serial \in Nat
         /\ RunTyped /\ Delivered /\ AllBehind(N, C, G) /\ Counted(N, C)
         /\ Taking(B, N, C, G) /\ FramesInOrder(N, G)
         /\ delivered \in Seq([h : Handle, data : Seq(DataUnit)])
         /\ C \in 0 .. N /\ ReadAt(B) \in Int
BY Measures DEF Rings, RingTyped, Taking

-----------------------------------------------------------------------------
(***************************************************************************)
(* The dispatcher's thread.                                                *)
(***************************************************************************)
\* Acquire takes the next complete frame, and stands at its length.
LEMMA AcquireKeepsRing ==
  ASSUME NEW B \in Int, NEW N \in Nat, NEW C, NEW G, Rings(B, N, C, G), Acquire
  PROVE  \E D \in Int, E \in Nat : Rings(D, N, E, G)'
<1>1. /\ run.at = "acquire" /\ sem > 0 /\ sem' = sem - 1 /\ read' = read
      /\ UNCHANGED <<write, cells, rx, serial, stopExecution, delivered>>
      /\ run' = [RunIdle EXCEPT !.at = IF stopExecution THEN "ended" ELSE "length"]
  BY DEF Acquire, ByRun, counts, hist
<1>2. /\ read \in Position /\ sem \in Nat /\ C \in 0 .. N /\ ReadAt(B) \in Int
      /\ delivered \in Seq([h : Handle, data : Seq(DataUnit)])
      /\ Delivered /\ AllBehind(N, C, G)
  BY RingsParts
<1>3. /\ run'.at = (IF stopExecution THEN "ended" ELSE "length")
      /\ RunTyped'
  <2>1. <<>> \in Seq(DataUnit)
    BY EmptySeq
  <2>2. PICK a : a = IF stopExecution THEN "ended" ELSE "length"
    OBVIOUS
  <2>3. run' = [at |-> a, full |-> 0, samples |-> 0, h |-> 0, size |-> 0, data |-> <<>>]
    BY <1>1, <2>2 DEF RunIdle
  <2> QED
    BY <2>1, <2>2, <2>3 DEF RunTyped
<1>4. ReadAt(B) = G[C + 1].start
  BY <1>1 DEF Rings, Taking
<1>5. ReadAt(B) <= G[N + 1].start
  <2>1. CASE C = N
    BY <1>2, <1>4, <2>1
  <2>2. CASE C < N
    <3>1. C + 1 \in 1 .. N
      BY <1>2, <2>2
    <3>2. /\ Stop(G[C + 1]) <= G[N + 1].start /\ G[C + 1].start \in Nat
          /\ G[C + 1].shape \in Shape /\ G[N + 1].start \in Nat
      BY <3>1, StartStored DEF Rings
    <3>3. Extent(G[C + 1].shape) \in Nat
      BY <3>2, ShapeFacts
    <3> QED
      BY <1>4, <3>2, <3>3 DEF Stop
  <2> QED
    BY <1>2, <2>1, <2>2
<1>6. PICK E \in Nat : E = IF stopExecution THEN C ELSE C + 1
  BY <1>2
<1>7. E \in 0 .. N /\ Counted(N, E)'
  BY <1>1, <1>2, <1>6 DEF Rings, Counted
<1>8. ASSUME NEW D \in Int, ReadAt(D)' = ReadAt(B) PROVE Taking(D, N, E, G)'
  <2>1. CASE stopExecution
    BY <1>2, <1>3, <1>7, <2>1 DEF Taking, RunBusy, RunAtSample
  <2>2. CASE ~stopExecution
    BY <1>2, <1>3, <1>4, <1>6, <1>7, <1>8, <2>2 DEF Taking, RunBusy, RunAtSample
  <2> QED
    BY <2>1, <2>2
<1>9. AllBehind(N, E, G)'
  <2> SUFFICES ASSUME NEW m \in 1 .. Len(delivered)
               PROVE  Behind(delivered[m].data[1].serial, N, E, G)'
    BY <1>1 DEF AllBehind
  <2>1. Behind(delivered[m].data[1].serial, N, C, G)
    BY <1>2 DEF AllBehind
  <2> DEFINE q == delivered[m].data[1].serial
  <2>2. q' = q
    BY <1>1
  <2>3. q <= serial /\ (RxBusy' => q < G[N + 1].serial)
        /\ \A i \in C + 1 .. N : q < G[i].serial
    BY <1>1, <2>1 DEF Behind, RxBusy
  <2> HIDE DEF q
  <2>4. \A i \in E + 1 .. N : q < G[i].serial
    BY <1>2, <1>6, <2>3
  <2>5. RunBusy' => q < Current(E, G)'
    <3> SUFFICES ASSUME RunBusy' PROVE q < Current(E, G)'
      OBVIOUS
    <3>1. run'.at = "length" /\ E = C + 1
      BY <1>2, <1>3, <1>6 DEF RunBusy
    <3>2. Current(E, G)' = G[C + 1].serial
      BY <3>1 DEF Current
    <3>3. C + 1 \in C + 1 .. N
      BY <1>2, <1>7, <3>1
    <3> QED
      BY <2>3, <3>2, <3>3
  <2> QED
    BY <1>1, <2>2, <2>3, <2>4, <2>5 DEF Behind, q
<1>10. Delivered'
  BY <1>1, <1>2 DEF Delivered
<1>11. read' = Increment(read, 0) /\ ReadAt(B) + 0 = ReadAt(B) /\ sem' \in Nat
  BY <1>1, <1>2, Stays
<1>12. delivered' \in Seq([h : Handle, data : Seq(DataUnit)])
  BY <1>1, <1>2
<1>13. \E D \in Int : Rings(D, N, E, G)'
  BY <1>1, <1>3, <1>5, <1>7, <1>8, <1>9, <1>10, <1>11, <1>12, Advance
<1> QED
  BY <1>13

\* A step that delivers nothing and does not go back.
LEMMA StillBehind ==
  ASSUME NEW B \in Int, NEW N \in Nat, NEW C, NEW G, Rings(B, N, C, G), RunBusy,
         UNCHANGED <<delivered, serial, rx>>,
         RunBusy' => Current(C, G)' \in Int /\ Current(C, G)' >= Current(C, G)
  PROVE  Delivered' /\ AllBehind(N, C, G)'
<1>1. Delivered /\ AllBehind(N, C, G)
  BY RingsParts
<1>2. Delivered'
  BY <1>1 DEF Delivered
<1>3. ASSUME NEW m \in 1 .. Len(delivered)
      PROVE  Behind(delivered[m].data[1].serial, N, C, G)'
  <2> DEFINE q == delivered[m].data[1].serial
  <2>1. q' = q
    OBVIOUS
  <2>2. Behind(q, N, C, G)
    BY <1>1 DEF AllBehind
  <2>3. q \in Int
    <3>1. delivered \in Seq([h : Handle, data : Seq(DataUnit)])
      BY RingsParts
    <3>2. delivered[m] \in [h : Handle, data : Seq(DataUnit)]
      BY <3>1, ElementOfSeq
    <3>3. delivered[m].data \in Seq(DataUnit) /\ Len(delivered[m].data) = SampleSize
      BY <1>1, <3>2 DEF Delivered
    <3>4. 1 \in 1 .. Len(delivered[m].data)
      BY <3>3, DispatcherAssumption
    <3>5. delivered[m].data[1] \in DataUnit
      BY <3>3, <3>4, ElementOfSeq
    <3> QED
      BY <3>5 DEF DataUnit
  <2>4. Current(C, G) \in Int
    <3>1. C \in 1 .. N /\ G[C].serial \in Nat /\ G[C].shape \in Shape
      BY InFrame
    <3>2. Len(G[C].shape) \in 1 .. 2
      BY <3>1, ShapeFacts
    <3>3. run.samples \in Nat
      BY RingsParts DEF RunTyped
    <3>4. At(G[C]) \in Int
      BY <3>2, <3>3 DEF At
    <3> QED
      BY <3>1, <3>4 DEF Current
  <2> HIDE DEF q
  <2>5. q <= serial /\ (RxBusy' => q < G[N + 1].serial)
        /\ \A i \in C + 1 .. N : q < G[i].serial
    BY <2>2 DEF Behind, RxBusy
  <2>6. RunBusy' => q < Current(C, G)'
    BY <2>2, <2>3, <2>4 DEF Behind
  <2>7. Behind(q, N, C, G)'
    BY <2>1, <2>5, <2>6 DEF Behind
  <2> QED
    BY <2>7 DEF q
<1> QED
  BY <1>2, <1>3 DEF AllBehind

\* A step of the dispatcher's thread inside a frame: what each action owes.
LEMMA InsideFrame ==
  ASSUME NEW B \in Int, NEW N \in Nat, NEW C, NEW G, NEW n \in Nat,
         Rings(B, N, C, G), RunBusy, ByRun, UNCHANGED <<sem, hist>>,
         read' = Increment(read, n), ReadAt(B) + n <= Stop(G[C]),
         RunTyped', run'.at # "length",
         ASSUME NEW D \in Int, ReadAt(D)' = ReadAt(B) + n PROVE Taking(D, N, C, G)',
         RunBusy' => Current(C, G)' \in Int /\ Current(C, G)' >= Current(C, G)
  PROVE  \E D \in Int, E \in Nat : Rings(D, N, E, G)'
<1>1. UNCHANGED <<write, cells, rx, serial, stopExecution, delivered, sem>>
  BY DEF ByRun, counts, hist
<1>2. Delivered' /\ AllBehind(N, C, G)'
  BY <1>1, StillBehind
<1>3. ReadAt(B) + n <= G[N + 1].start
  <2>1. /\ Stop(G[C]) <= G[N + 1].start /\ G[N + 1].start \in Nat
        /\ G[C].start \in Nat /\ G[C].shape \in Shape
    BY InFrame
  <2>2. ReadAt(B) \in Int
    BY RingsParts
  <2>3. Extent(G[C].shape) \in Nat
    BY <2>1, ShapeFacts
  <2>4. Stop(G[C]) \in Int
    BY <2>1, <2>3 DEF Stop
  <2> QED
    BY <2>1, <2>2, <2>4
<1>4. /\ sem' \in Nat /\ delivered' \in Seq([h : Handle, data : Seq(DataUnit)])
      /\ C \in Nat
  <2>1. /\ sem \in Nat /\ delivered \in Seq([h : Handle, data : Seq(DataUnit)])
        /\ C \in 0 .. N
    BY RingsParts
  <2> QED
    BY <1>1, <2>1
<1>5. Counted(N, C)'
  BY <1>1, RingsParts DEF Counted
<1>6. \E D \in Int : Rings(D, N, C, G)'
  BY <1>1, <1>2, <1>3, <1>4, <1>5, Advance
<1> QED
  BY <1>4, <1>6

\* ReadLength finds the length of the frame.
LEMMA ReadLengthKeepsRing ==
  ASSUME NEW B \in Int, NEW N \in Nat, NEW C, NEW G, Rings(B, N, C, G), ReadLength
  PROVE  \E D \in Int, E \in Nat : Rings(D, N, E, G)'
<1>1. /\ run.at = "length" /\ read' = Increment(read, 1) /\ ByRun /\ UNCHANGED <<sem, hist>>
      /\ run' = [run EXCEPT !.at = "header", !.full = Number(cells[read])]
  BY DEF ReadLength, Reads
<1>2. RunBusy /\ RunTyped
  BY <1>1, RingsParts DEF RunBusy
<1>3. /\ C \in 1 .. N /\ G[C].start \in Nat /\ G[C].shape \in Shape /\ G[C].serial \in Nat
      /\ Stop(G[C]) = G[C].start + Extent(G[C].shape)
  BY <1>2, InFrame
<1>4. Extent(G[C].shape) \in Nat /\ Extent(G[C].shape) >= 3
  BY <1>3, ShapeFacts
<1>5. ReadAt(B) = G[C].start
  BY <1>1 DEF Rings, Taking
<1>6. cells[read] = Word(G[C], 0)
  <2>1. 0 \in 0 .. Extent(G[C].shape) - 1 /\ ReadAt(B) = G[C].start + 0
    BY <1>3, <1>4, <1>5
  <2> QED
    BY <1>3, <2>1, Reading DEF Rings
<1>7. Number(cells[read]) = Extent(G[C].shape) - 1
  BY <1>6 DEF Word, LengthOf, Number
<1>8. /\ run'.at = "header" /\ run'.full = Extent(G[C].shape) - 1
      /\ RunTyped'
  <2>1. run' = [run EXCEPT !.at = "header", !.full = Extent(G[C].shape) - 1]
    BY <1>1, <1>7
  <2>2. Extent(G[C].shape) - 1 \in Int
    BY <1>4
  <2> QED
    BY <1>2, <2>1, <2>2 DEF RunTyped
<1>9. ReadAt(B) + 1 <= Stop(G[C])
  BY <1>3, <1>4, <1>5
<1>10. ASSUME NEW D \in Int, ReadAt(D)' = ReadAt(B) + 1 PROVE Taking(D, N, C, G)'
  BY <1>3, <1>5, <1>8, <1>10 DEF Taking, RunBusy, RunAtSample
<1>11. Current(C, G)' \in Int /\ Current(C, G)' >= Current(C, G)
  BY <1>1, <1>3, <1>8 DEF Current
<1>12. run'.at # "length"
  BY <1>8
<1> QED
  BY <1>1, <1>2, <1>8, <1>9, <1>10, <1>11, <1>12, InsideFrame

\* ReadHeader finds the number of its samples.
LEMMA ReadHeaderKeepsRing ==
  ASSUME NEW B \in Int, NEW N \in Nat, NEW C, NEW G, Rings(B, N, C, G), ReadHeader
  PROVE  \E D \in Int, E \in Nat : Rings(D, N, E, G)'
<1>1. /\ run.at = "header" /\ read' = Increment(read, 1) /\ ByRun /\ UNCHANGED <<sem, hist>>
      /\ run' = [run EXCEPT !.at = "sample", !.samples = Number(cells[read]), !.full = @ - 1]
  BY DEF ReadHeader, Reads
<1>2. RunBusy /\ RunTyped
  BY <1>1, RingsParts DEF RunBusy
<1>3. /\ C \in 1 .. N /\ G[C].start \in Nat /\ G[C].shape \in Shape /\ G[C].serial \in Nat
      /\ Stop(G[C]) = G[C].start + Extent(G[C].shape)
  BY <1>2, InFrame
<1>4. /\ Extent(G[C].shape) \in Nat /\ Extent(G[C].shape) >= 3
      /\ Len(G[C].shape) \in 1 .. 2 /\ Onset(G[C].shape, 1) = 2
  BY <1>3, ShapeFacts
<1>5. ReadAt(B) = G[C].start + 1 /\ run.full = Extent(G[C].shape) - 1
  BY <1>1 DEF Rings, Taking
<1>6. cells[read] = Units(G[C].shape, G[C].serial)[1]
  <2>1. 1 \in 0 .. Extent(G[C].shape) - 1
    BY <1>4
  <2>2. cells[read] = Word(G[C], 1)
    BY <1>3, <1>5, <2>1, Reading DEF Rings
  <2> QED
    BY <2>2 DEF Word
<1>7. Number(cells[read]) = Len(G[C].shape)
  <2>1. cells[read] = Samples(Len(G[C].shape))
    BY <1>3, <1>6, UnitsFacts
  <2> QED
    BY <2>1 DEF Samples, Number
<1>8. /\ run'.at = "sample" /\ run'.full = Extent(G[C].shape) - 2
      /\ run'.samples = Len(G[C].shape) /\ RunTyped'
  <2>1. run' = [run EXCEPT !.at = "sample", !.samples = Len(G[C].shape), !.full = @ - 1]
    BY <1>1, <1>7
  <2>2. Len(G[C].shape) \in Nat /\ (Extent(G[C].shape) - 1) - 1 = Extent(G[C].shape) - 2
    BY <1>4
  <2>3. /\ run'.at = "sample" /\ run'.full = run.full - 1
        /\ run'.samples = Len(G[C].shape)
    BY <1>2, <2>1 DEF RunTyped
  <2>4. RunTyped'
    <3>1. run.full - 1 \in Int
      BY <1>2 DEF RunTyped
    <3>2. PICK m \in Nat : m = Len(G[C].shape)
      BY <2>2
    <3>3. run' = [run EXCEPT !.at = "sample", !.samples = m, !.full = run.full - 1]
      BY <2>1, <3>2
    <3> QED
      BY <1>2, <3>1, <3>3 DEF RunTyped
  <2> QED
    BY <1>5, <2>2, <2>3, <2>4
<1>9. ReadAt(B) + 1 <= Stop(G[C])
  BY <1>3, <1>4, <1>5
<1>10. At(G[C])' = 1
  BY <1>4, <1>8 DEF At
<1>11. ASSUME NEW D \in Int, ReadAt(D)' = ReadAt(B) + 1 PROVE Taking(D, N, C, G)'
  <2>1. ReadAt(D)' = G[C].start + 2 /\ run'.full = Stop(G[C]) - ReadAt(D)'
    <3>1. PICK a \in Nat, e \in Nat, z \in Int :
            a = G[C].start /\ e = Extent(G[C].shape) /\ z = Stop(G[C])
      BY <1>3, <1>4
    <3>2. z = a + e /\ ReadAt(D)' = (a + 1) + 1 /\ run'.full = e - 2
      BY <1>3, <1>5, <1>8, <1>11, <3>1
    <3>3. ReadAt(D)' = a + 2 /\ run'.full = z - (a + 2)
      BY ONLY <3>1, <3>2
    <3> QED
      BY ONLY <3>1, <3>3
  <2> QED
    BY <1>3, <1>4, <1>8, <1>10, <2>1 DEF Taking, RunBusy, RunAtSample
<1>12. Current(C, G)' \in Int /\ Current(C, G)' >= Current(C, G)
  BY <1>1, <1>3, <1>8, <1>10 DEF Current
<1>13. run'.at # "length"
  BY <1>8
<1> QED
  BY <1>1, <1>2, <1>8, <1>9, <1>11, <1>12, <1>13, InsideFrame

\* ReadSample finds a sample, never a unit of another kind.
LEMMA ReadSampleKeepsRing ==
  ASSUME NEW B \in Int, NEW N \in Nat, NEW C, NEW G, Rings(B, N, C, G), ReadSample
  PROVE  \E D \in Int, E \in Nat : Rings(D, N, E, G)'
<1>1. /\ run.at = "sample" /\ run.samples > 0
      /\ read' = Increment(read, 1) /\ ByRun /\ UNCHANGED <<sem, hist>>
      /\ run' = IF cells[read].kind = "sample"
                THEN [run EXCEPT !.at = "find", !.samples = @ - 1, !.full = @ - 1,
                                 !.h = cells[read].h, !.size = cells[read].size]
                ELSE [run EXCEPT !.at = "garbage"]
  BY DEF ReadSample, Reads
<1>2. RunBusy /\ RunTyped
  BY <1>1, RingsParts DEF RunBusy
<1>3. /\ C \in 1 .. N /\ G[C].start \in Nat /\ G[C].shape \in Shape /\ G[C].serial \in Nat
      /\ Stop(G[C]) = G[C].start + Extent(G[C].shape)
  BY <1>2, InFrame
<1>4. PICK j : j = At(G[C])
  OBVIOUS
<1>5. /\ j \in 1 .. Len(G[C].shape)
      /\ G[C].shape[j].h \in Handle /\ G[C].shape[j].size \in Nat
      /\ Onset(G[C].shape, j) \in Nat /\ Onset(G[C].shape, j) >= 2
      /\ Onset(G[C].shape, j) + 1 + G[C].shape[j].size <= Extent(G[C].shape)
      /\ Extent(G[C].shape) \in Nat
  BY <1>1, <1>4, InSample
<1>6. /\ ReadAt(B) = G[C].start + Onset(G[C].shape, j)
      /\ run.full = Stop(G[C]) - ReadAt(B) /\ run.samples <= Len(G[C].shape)
  BY <1>1, <1>4 DEF Rings, Taking
<1>7. cells[read] = Sample(G[C].shape[j].h, G[C].shape[j].size)
  <2>1. Onset(G[C].shape, j) \in 0 .. Extent(G[C].shape) - 1 /\ Onset(G[C].shape, j) # 0
    <3>1. PICK o \in Nat, e \in Nat, z \in Nat :
            o = Onset(G[C].shape, j) /\ e = Extent(G[C].shape) /\ z = G[C].shape[j].size
      BY <1>5
    <3>2. o >= 2 /\ o + 1 + z <= e
      BY <1>5, <3>1
    <3>3. o \in 0 .. e - 1 /\ o # 0
      BY ONLY <3>2
    <3> QED
      BY <3>1, <3>3
  <2>2. cells[read] = Word(G[C], Onset(G[C].shape, j))
    BY <1>3, <1>6, <2>1, Reading DEF Rings
  <2> QED
    BY <1>3, <1>5, <2>1, <2>2, UnitsFacts DEF Word
<1>8. run' = [run EXCEPT !.at = "find", !.samples = run.samples - 1, !.full = run.full - 1,
                         !.h = G[C].shape[j].h, !.size = G[C].shape[j].size]
  BY <1>1, <1>2, <1>7 DEF Sample, RunTyped
<1>9. /\ run'.at = "find" /\ run'.samples = run.samples - 1 /\ run'.full = run.full - 1
      /\ run'.h = G[C].shape[j].h /\ run'.size = G[C].shape[j].size
  BY <1>2, <1>8 DEF RunTyped
<1>10. RunTyped'
  <2>1. /\ run.samples - 1 \in Nat /\ run.full - 1 \in Int
    BY <1>1, <1>2 DEF RunTyped
  <2>2. PICK h \in Handle, z \in Nat : h = G[C].shape[j].h /\ z = G[C].shape[j].size
    BY <1>5
  <2>3. run' = [run EXCEPT !.at = "find", !.samples = run.samples - 1, !.full = run.full - 1,
                           !.h = h, !.size = z]
    BY <1>8, <2>2
  <2> QED
    BY <1>2, <2>1, <2>3 DEF RunTyped
<1>11. /\ Len(G[C].shape) \in 1 .. 2 /\ run.samples \in Nat /\ j = Len(G[C].shape) - run.samples + 1
  BY <1>1, <1>2, <1>3, <1>4, ShapeFacts DEF At, RunTyped
<1>12. At(G[C])' = j
  <2>1. PICK l \in Nat, s \in Nat : l = Len(G[C].shape) /\ s = run.samples
    BY <1>11
  <2>2. At(G[C])' = l - (s - 1) + 0
    BY <1>9, <2>1 DEF At
  <2>3. j = l - s + 1
    BY <1>11, <2>1
  <2> QED
    BY ONLY <2>2, <2>3
<1>13. ReadAt(B) + 1 <= Stop(G[C])
  <2>1. PICK z \in Nat, o \in Nat : z = G[C].shape[j].size /\ o = Onset(G[C].shape, j)
    BY <1>5
  <2>2. o + 1 + z <= Extent(G[C].shape) /\ Extent(G[C].shape) \in Nat
    BY <1>5, <2>1
  <2>3. ReadAt(B) = G[C].start + o
    BY <1>6, <2>1
  <2> QED
    BY <1>3, <2>2, <2>3
<1>14. ASSUME NEW D \in Int, ReadAt(D)' = ReadAt(B) + 1 PROVE Taking(D, N, C, G)'
  <2>1. /\ ReadAt(D)' = G[C].start + Onset(G[C].shape, j) + 1
        /\ run'.full = Stop(G[C]) - (G[C].start + Onset(G[C].shape, j) + 1)
    <3>1. PICK a \in Nat, o \in Nat, e \in Nat :
            a = G[C].start /\ o = Onset(G[C].shape, j) /\ e = Extent(G[C].shape)
      BY <1>3, <1>5
    <3>2. ReadAt(B) = a + o /\ run.full = a + e - (a + o) /\ Stop(G[C]) = a + e
      BY <1>3, <1>6, <3>1
    <3>3. ReadAt(D)' = a + o + 1
      BY <1>14, <3>2
    <3>4. run'.full = a + e - (a + o + 1)
      BY <1>9, <3>2
    <3> QED
      BY <3>1, <3>2, <3>3, <3>4
  <2>2. run'.samples < Len(G[C].shape)
    BY <1>6, <1>9, <1>11
  <2>3. /\ RunAtSample' /\ run'.at \notin {"acquire", "length", "header", "sample", "data"}
        /\ C >= 1 /\ C \in 0 .. N
    BY <1>3, <1>9 DEF RunAtSample
  <2>4. ReadAt(D)' = G[C].start + Onset(G[C].shape, j) + 1
                       + (IF run'.at = "data" THEN Len(run'.data) ELSE 0)
    <3>1. ReadAt(D)' = G[C].start + Onset(G[C].shape, j) + 1 + 0
      <4>1. PICK a \in Nat, o \in Nat : a = G[C].start /\ o = Onset(G[C].shape, j)
        BY <1>3, <1>5
      <4>2. ReadAt(D)' = a + o + 1
        BY <2>1, <4>1
      <4> QED
        BY ONLY <4>1, <4>2
    <3>2. run'.at # "data"
      BY <2>3
    <3> QED
      BY <3>1, <3>2
  <2> QED
    BY <1>9, <1>12, <2>1, <2>2, <2>3, <2>4 DEF Taking
<1>15. Current(C, G)' \in Int /\ Current(C, G)' >= Current(C, G)
  <2>1. Current(C, G) = G[C].serial + j - 1 /\ Current(C, G)' = G[C].serial + j - 1
    BY <1>1, <1>4, <1>9, <1>12 DEF Current
  <2>2. PICK q \in Nat : q = G[C].serial
    BY <1>3
  <2>3. j \in Int
    BY <1>11
  <2>4. Current(C, G) = q + j - 1 /\ Current(C, G)' = q + j - 1 /\ q + j - 1 \in Int
    BY <2>1, <2>2, <2>3
  <2> QED
    BY ONLY <2>3, <2>4
<1>16. run'.at # "length"
  BY <1>9
<1> QED
  BY <1>1, <1>2, <1>10, <1>13, <1>14, <1>15, <1>16, InsideFrame

\* FindHandle reads nothing.
LEMMA FindHandleKeepsRing ==
  ASSUME NEW B \in Int, NEW N \in Nat, NEW C, NEW G, Rings(B, N, C, G), FindHandle
  PROVE  \E D \in Int, E \in Nat : Rings(D, N, E, G)'
<1>1. PICK a : a = IF ~Found(run.h) THEN "skip"
                   ELSE IF run.size # SampleSize THEN "cleanup" ELSE "data"
  OBVIOUS
<1>2. /\ run.at = "find" /\ read' = read /\ ByRun /\ UNCHANGED <<sem, hist>>
      /\ run' = [run EXCEPT !.at = a, !.data = <<>>]
  BY <1>1 DEF FindHandle
<1>3. a \in {"skip", "cleanup", "data"} /\ (a = "data" => run.size = SampleSize)
  BY <1>1
<1>4. RunBusy /\ RunAtSample /\ RunTyped
  BY <1>2, RingsParts DEF RunBusy, RunAtSample
<1>5. /\ C \in 1 .. N /\ G[C].start \in Nat /\ G[C].shape \in Shape /\ G[C].serial \in Nat
      /\ Stop(G[C]) = G[C].start + Extent(G[C].shape)
  BY <1>4, InFrame
<1>6. PICK j : j = At(G[C])
  OBVIOUS
<1>7. /\ j \in 1 .. Len(G[C].shape)
      /\ G[C].shape[j].size \in Nat
      /\ Onset(G[C].shape, j) \in Nat
      /\ Onset(G[C].shape, j) + 1 + G[C].shape[j].size <= Extent(G[C].shape)
      /\ Extent(G[C].shape) \in Nat
  BY <1>4, <1>6, InSample
<1>8. /\ run.samples < Len(G[C].shape)
      /\ ReadAt(B) = G[C].start + Onset(G[C].shape, j) + 1 + 0
      /\ run.full = Stop(G[C]) - (G[C].start + Onset(G[C].shape, j) + 1)
      /\ run.h = G[C].shape[j].h /\ run.size = G[C].shape[j].size
  BY <1>2, <1>4, <1>6 DEF Rings, Taking
<1>9. /\ run'.at = a /\ run'.samples = run.samples /\ run'.full = run.full
      /\ run'.h = run.h /\ run'.size = run.size /\ run'.data = <<>>
  BY <1>2, <1>4 DEF RunTyped
<1>10. RunTyped' /\ Len(run'.data) = 0
  <2>1. <<>> \in Seq(DataUnit) /\ Len(<<>>) = 0
    BY EmptySeq
  <2> QED
    BY <1>2, <1>3, <1>4, <1>9, <2>1 DEF RunTyped
<1>11. At(G[C])' = j
  BY <1>2, <1>3, <1>6, <1>9 DEF At
<1>12. read' = Increment(read, 0)
  BY <1>2, Stays, RingsParts
<1>13. ReadAt(B) + 0 <= Stop(G[C])
  <2>1. PICK z \in Nat, o \in Nat : z = G[C].shape[j].size /\ o = Onset(G[C].shape, j)
    BY <1>7
  <2>2. o + 1 + z <= Extent(G[C].shape) /\ Extent(G[C].shape) \in Nat
    BY <1>7, <2>1
  <2>3. ReadAt(B) = G[C].start + o + 1
    BY <1>5, <1>8, <2>1
  <2> QED
    BY <1>5, <2>2, <2>3
<1>14. ASSUME NEW D \in Int, ReadAt(D)' = ReadAt(B) + 0 PROVE Taking(D, N, C, G)'
  <2>1. ReadAt(D)' = G[C].start + Onset(G[C].shape, j) + 1 + 0
    BY <1>5, <1>7, <1>8, <1>14
  <2>2. SampleSize \in Nat
    BY DispatcherAssumption
  <2>3. /\ RunAtSample' /\ run'.at \notin {"acquire", "length", "header", "sample"}
        /\ (run'.at = "data" => run'.size = SampleSize)
        /\ run'.at # "data" \/ Len(run'.data) = 0
    BY <1>3, <1>9, <1>10 DEF RunAtSample
  <2>4. ReadAt(D)' = G[C].start + Onset(G[C].shape, j) + 1
                       + (IF run'.at = "data" THEN Len(run'.data) ELSE 0)
    BY <2>1, <2>3
  <2>5. run'.at = "data" => /\ Len(run'.data) <= SampleSize
                            /\ \A k \in 1 .. Len(run'.data) : FALSE
    BY <2>2, <2>3
  <2> QED
    BY <1>5, <1>8, <1>9, <1>11, <2>3, <2>4, <2>5 DEF Taking
<1>15. Current(C, G)' \in Int /\ Current(C, G)' >= Current(C, G)
  <2>1. Current(C, G)' = G[C].serial + j - 1 /\ Current(C, G) = G[C].serial + j - 1
    BY <1>2, <1>3, <1>6, <1>9, <1>11 DEF Current
  <2>2. j \in Int
    BY <1>7
  <2> QED
    BY <1>5, <2>1, <2>2
<1>16. run'.at # "length" /\ 0 \in Nat
  BY <1>3, <1>9
<1> QED
  BY <1>2, <1>4, <1>10, <1>12, <1>13, <1>14, <1>15, <1>16, InsideFrame

\* ReadData finds the next unit of the data of the sample it is in.
LEMMA ReadDataKeepsRing ==
  ASSUME NEW B \in Int, NEW N \in Nat, NEW C, NEW G, Rings(B, N, C, G), ReadData
  PROVE  \E D \in Int, E \in Nat : Rings(D, N, E, G)'
<1>1. /\ run.at = "data" /\ Len(run.data) < SampleSize
      /\ read' = Increment(read, 1) /\ ByRun /\ UNCHANGED <<sem, hist>>
      /\ run' = [run EXCEPT !.data = Append(@, cells[read])]
  BY DEF ReadData, Reads
<1>2. RunBusy /\ RunAtSample /\ RunTyped
  BY <1>1, RingsParts DEF RunBusy, RunAtSample
<1>3. /\ C \in 1 .. N /\ G[C].start \in Nat /\ G[C].shape \in Shape /\ G[C].serial \in Nat
      /\ Stop(G[C]) = G[C].start + Extent(G[C].shape)
  BY <1>2, InFrame
<1>4. PICK j : j = At(G[C])
  OBVIOUS
<1>5. /\ j \in 1 .. Len(G[C].shape)
      /\ G[C].shape[j].h \in Handle /\ G[C].shape[j].size \in Nat
      /\ Onset(G[C].shape, j) \in Nat /\ Onset(G[C].shape, j) >= 2
      /\ Onset(G[C].shape, j) + 1 + G[C].shape[j].size <= Extent(G[C].shape)
      /\ Extent(G[C].shape) \in Nat
  BY <1>2, <1>4, InSample
<1>6. /\ run.samples < Len(G[C].shape)
      /\ ReadAt(B) = G[C].start + Onset(G[C].shape, j) + 1 + Len(run.data)
      /\ run.full = Stop(G[C]) - (G[C].start + Onset(G[C].shape, j) + 1)
      /\ run.h = G[C].shape[j].h /\ run.size = G[C].shape[j].size
      /\ run.size = SampleSize
      /\ \A k \in 1 .. Len(run.data) : run.data[k] = Data(run.h, G[C].serial + j - 1, k)
  BY <1>1, <1>2, <1>4 DEF Rings, Taking
<1>7. run.data \in Seq(DataUnit) /\ SampleSize \in Nat
  BY <1>2, DispatcherAssumption DEF RunTyped
<1>8. PICK m \in Nat : m = Len(run.data)
  BY <1>7
<1>9. PICK a \in Nat, e \in Nat, o \in Nat :
        a = G[C].start /\ e = Extent(G[C].shape) /\ o = Onset(G[C].shape, j)
  BY <1>3, <1>5
<1>10. /\ ReadAt(B) = a + o + 1 + m /\ m < SampleSize
       /\ o >= 2 /\ o + 1 + SampleSize <= e /\ Stop(G[C]) = a + e
  BY <1>1, <1>3, <1>5, <1>6, <1>8, <1>9
<1>11. cells[read] = Data(run.h, G[C].serial + j - 1, m + 1)
  <2>1. /\ o + (m + 1) \in 0 .. e - 1 /\ o + (m + 1) # 0
        /\ ReadAt(B) = a + (o + (m + 1))
    BY <1>7, <1>10
  <2>2. cells[read] = Word(G[C], o + (m + 1))
    BY <1>3, <1>9, <2>1, Reading DEF Rings
  <2>3. cells[read] = Units(G[C].shape, G[C].serial)[o + (m + 1)]
    BY <2>1, <2>2 DEF Word
  <2>4. m + 1 \in 1 .. G[C].shape[j].size
    <3>1. m + 1 \in 1 .. SampleSize
      BY ONLY <1>7, <1>10
    <3> QED
      BY <1>6, <3>1
  <2>5. Units(G[C].shape, G[C].serial)[Onset(G[C].shape, j) + (m + 1)]
          = Data(G[C].shape[j].h, G[C].serial + j - 1, m + 1)
    <3>1. PICK s \in Shape, q \in Nat : s = G[C].shape /\ q = G[C].serial
      BY <1>3
    <3>2. Units(s, q)[Onset(s, j) + (m + 1)] = Data(s[j].h, q + j - 1, m + 1)
      BY <1>5, <2>4, <3>1, UnitsFacts
    <3> QED
      BY <3>1, <3>2
  <2> QED
    BY <1>6, <1>9, <2>3, <2>5
<1>12. cells[read] \in DataUnit
  <2>1. G[C].serial + j - 1 \in Nat
    <3>1. PICK q \in Nat : q = G[C].serial
      BY <1>3
    <3>2. PICK l \in Nat : l = Len(G[C].shape)
      BY <1>3, DispatcherAssumption
    <3>3. j \in 1 .. l
      BY ONLY <1>5, <3>2
    <3>4. q + j - 1 \in Nat
      BY ONLY <3>3
    <3> QED
      BY ONLY <3>1, <3>4
  <2>2. PICK u \in Nat : u = G[C].serial + j - 1
    BY <2>1
  <2> QED
    BY <1>5, <1>6, <1>11, <2>2 DEF Data, DataUnit
<1>13. PICK d \in Seq(DataUnit) : d = Append(run.data, cells[read])
  BY <1>7, <1>12, AppendProperties
<1>14. /\ Len(d) = m + 1 /\ d[m + 1] = cells[read]
       /\ \A k \in 1 .. m : d[k] = run.data[k]
  BY <1>7, <1>8, <1>12, <1>13, AppendProperties
<1>15. /\ run'.at = "data" /\ run'.samples = run.samples /\ run'.full = run.full
       /\ run'.h = run.h /\ run'.size = run.size /\ run'.data = d /\ RunTyped'
  BY <1>1, <1>2, <1>13 DEF RunTyped
<1>16. At(G[C])' = j
  BY <1>1, <1>4, <1>15 DEF At
<1>17. ReadAt(B) + 1 <= Stop(G[C])
  BY <1>7, <1>10
<1>18. \A k \in 1 .. Len(d) : d[k] = Data(run.h, G[C].serial + j - 1, k)
  <2> SUFFICES ASSUME NEW k \in 1 .. Len(d) PROVE d[k] = Data(run.h, G[C].serial + j - 1, k)
    OBVIOUS
  <2>1. CASE k = m + 1
    BY <1>11, <1>14, <2>1
  <2>2. CASE k # m + 1
    <3>1. k \in 1 .. m
      BY <1>14, <2>2
    <3> QED
      BY <1>6, <1>8, <1>14, <3>1
  <2> QED
    BY <2>1, <2>2
<1>19. ASSUME NEW D \in Int, ReadAt(D)' = ReadAt(B) + 1 PROVE Taking(D, N, C, G)'
  <2>1. ReadAt(D)' = G[C].start + Onset(G[C].shape, j) + 1 + Len(d)
    <3>1. ReadAt(D)' = a + o + 1 + (m + 1)
      BY <1>10, <1>19
    <3> QED
      BY <1>9, <1>14, <3>1
  <2>2. /\ RunAtSample' /\ run'.at \notin {"acquire", "length", "header", "sample"}
        /\ run'.at = "data" /\ C >= 1 /\ C \in 0 .. N
    BY <1>3, <1>15 DEF RunAtSample
  <2>3. Len(d) <= SampleSize
    BY <1>7, <1>10, <1>14
  <2> QED
    BY <1>6, <1>15, <1>16, <1>18, <2>1, <2>2, <2>3 DEF Taking
<1>20. Current(C, G)' \in Int /\ Current(C, G)' >= Current(C, G)
  <2>1. Current(C, G)' = G[C].serial + j - 1 /\ Current(C, G) = G[C].serial + j - 1
    BY <1>1, <1>4, <1>15, <1>16 DEF Current
  <2>2. j \in Int
    BY <1>5
  <2> QED
    BY <1>3, <2>1, <2>2
<1>21. run'.at # "length"
  BY <1>15
<1> QED
  BY <1>1, <1>2, <1>15, <1>17, <1>19, <1>20, <1>21, InsideFrame

\* SkipSample leaves out the data of a sample nobody is registered for.
LEMMA SkipSampleKeepsRing ==
  ASSUME NEW B \in Int, NEW N \in Nat, NEW C, NEW G, Rings(B, N, C, G), SkipSample
  PROVE  \E D \in Int, E \in Nat : Rings(D, N, E, G)'
<1>1. /\ run.at = "skip" /\ read' = Increment(read, run.size)
      /\ ByRun /\ UNCHANGED <<sem, hist>>
      /\ run' = [run EXCEPT !.at = "sample", !.full = run.full - run.size]
  BY DEF SkipSample, Reads, Taken
<1>2. RunBusy /\ RunAtSample /\ RunTyped
  BY <1>1, RingsParts DEF RunBusy, RunAtSample
<1>3. /\ C \in 1 .. N /\ G[C].start \in Nat /\ G[C].shape \in Shape /\ G[C].serial \in Nat
      /\ Stop(G[C]) = G[C].start + Extent(G[C].shape)
  BY <1>2, InFrame
<1>4. PICK j : j = At(G[C])
  OBVIOUS
<1>5. /\ j \in 1 .. Len(G[C].shape) /\ G[C].shape[j].size \in Nat
      /\ Onset(G[C].shape, j) \in Nat
      /\ Onset(G[C].shape, j + 1) = Onset(G[C].shape, j) + 1 + G[C].shape[j].size
      /\ Onset(G[C].shape, j) + 1 + G[C].shape[j].size <= Extent(G[C].shape)
      /\ Extent(G[C].shape) \in Nat
  BY <1>2, <1>4, InSample
<1>6. /\ run.samples < Len(G[C].shape)
      /\ ReadAt(B) = G[C].start + Onset(G[C].shape, j) + 1 + 0
      /\ run.full = Stop(G[C]) - (G[C].start + Onset(G[C].shape, j) + 1)
      /\ run.size = G[C].shape[j].size
  BY <1>1, <1>2, <1>4 DEF Rings, Taking
<1>7. /\ run'.at = "sample" /\ run'.samples = run.samples /\ run'.full = run.full - run.size
      /\ RunTyped'
  <2>1. PICK x \in Int : x = run.full - run.size
    BY <1>2 DEF RunTyped
  <2>2. run' = [run EXCEPT !.at = "sample", !.full = x]
    BY <1>1, <2>1
  <2> QED
    BY <1>2, <2>1, <2>2 DEF RunTyped
<1>8. PICK a \in Nat, e \in Nat, o \in Nat, z \in Nat :
        /\ a = G[C].start /\ e = Extent(G[C].shape)
        /\ o = Onset(G[C].shape, j) /\ z = run.size
  BY <1>3, <1>5, <1>6
<1>9. /\ Onset(G[C].shape, j + 1) = o + 1 + z /\ o + 1 + z <= e
      /\ ReadAt(B) = a + o + 1 + 0 /\ run.full = Stop(G[C]) - (a + o + 1)
      /\ Stop(G[C]) = a + e
  BY <1>3, <1>5, <1>6, <1>8
<1>10. ReadAt(B) + run.size <= Stop(G[C]) /\ run.size \in Nat
  BY <1>8, <1>9
<1>11. At(G[C])' = j + 1
  <2>1. Len(G[C].shape) \in Nat /\ run.samples \in Nat
    <3>1. Len(G[C].shape) \in 1 .. 2
      BY <1>3, ShapeFacts
    <3> QED
      BY <1>2, <3>1 DEF RunTyped
  <2>2. j = Len(G[C].shape) - run.samples + 0
    BY <1>1, <1>4 DEF At
  <2>3. At(G[C])' = Len(G[C].shape) - run.samples + 1
    BY <1>7 DEF At
  <2> QED
    BY <2>1, <2>2, <2>3
<1>12. ASSUME NEW D \in Int, ReadAt(D)' = ReadAt(B) + run.size PROVE Taking(D, N, C, G)'
  <2>1. /\ ReadAt(D)' = G[C].start + Onset(G[C].shape, j + 1)
        /\ run'.full = Stop(G[C]) - ReadAt(D)'
    BY <1>7, <1>8, <1>9, <1>12
  <2>2. /\ ~RunAtSample' /\ run'.at \notin {"acquire", "length", "header", "data"}
        /\ C >= 1 /\ C \in 0 .. N
    BY <1>3, <1>7 DEF RunAtSample
  <2>3. run'.samples <= Len(G[C].shape)
    <3>1. Len(G[C].shape) \in 1 .. 2
      BY <1>3, ShapeFacts
    <3> QED
      BY <1>2, <1>6, <1>7, <3>1 DEF RunTyped
  <2> QED
    BY <1>11, <2>1, <2>2, <2>3 DEF Taking
<1>13. Current(C, G)' \in Int /\ Current(C, G)' >= Current(C, G)
  <2>1. Current(C, G)' = G[C].serial + (j + 1) - 1 /\ Current(C, G) = G[C].serial + j - 1
    BY <1>1, <1>4, <1>7, <1>11 DEF Current
  <2>2. j \in Int
    BY <1>5
  <2> QED
    BY <1>3, <2>1, <2>2
<1>14. run'.at # "length"
  BY <1>7
<1> QED
  BY <1>1, <1>2, <1>7, <1>10, <1>12, <1>13, <1>14, InsideFrame

\* At the end of a frame and where it is left half way, what fullLength says is left
\* is left.
LEMMA FrameLeft ==
  ASSUME NEW B \in Int, NEW N \in Nat, NEW C, NEW G, Rings(B, N, C, G), FrameEnd
  PROVE  ReadAt(B) + run.full = Stop(G[C]) /\ run.full \in Nat
<1>1. RunBusy
  BY DEF RunBusy, FrameEnd
<1>2. /\ G[C].start \in Nat /\ G[C].shape \in Shape
      /\ Stop(G[C]) = G[C].start + Extent(G[C].shape)
  BY <1>1, InFrame
<1>3. Extent(G[C].shape) \in Nat /\ Len(G[C].shape) \in 1 .. 2
  BY <1>2, ShapeFacts
<1>4. CASE run.at = "cleanup"
  <2>1. PICK j : j = At(G[C])
    OBVIOUS
  <2>2. /\ G[C].shape[j].size \in Nat /\ Onset(G[C].shape, j) \in Nat
        /\ Onset(G[C].shape, j) + 1 + G[C].shape[j].size <= Extent(G[C].shape)
    BY <1>4, <2>1, InSample DEF RunAtSample
  <2>3. /\ ReadAt(B) = G[C].start + Onset(G[C].shape, j) + 1 + 0
        /\ run.full = Stop(G[C]) - (G[C].start + Onset(G[C].shape, j) + 1)
    BY <1>4, <2>1 DEF Rings, Taking, RunAtSample
  <2>4. PICK o \in Nat, z \in Nat : o = Onset(G[C].shape, j) /\ z = G[C].shape[j].size
    BY <2>2
  <2>5. /\ ReadAt(B) = G[C].start + o + 1 + 0 /\ run.full = Stop(G[C]) - (G[C].start + o + 1)
        /\ o + 1 + z <= Extent(G[C].shape)
    BY <2>2, <2>3, <2>4
  <2> QED
    BY <1>2, <1>3, <2>5
<1>5. CASE run.at = "sample" /\ run.samples = 0
  <2>1. At(G[C]) = Len(G[C].shape) + 1
    BY <1>3, <1>5 DEF At
  <2>2. ReadAt(B) = G[C].start + Extent(G[C].shape) /\ run.full = Stop(G[C]) - ReadAt(B)
    BY <1>5, <2>1 DEF Rings, Taking, Extent
  <2> QED
    BY <1>2, <1>3, <2>2
<1> QED
  BY <1>4, <1>5 DEF FrameEnd

\* Cleanup takes out what is left of the frame, to its end.
LEMMA CleanupKeepsRing ==
  ASSUME NEW B \in Int, NEW N \in Nat, NEW C, NEW G, Rings(B, N, C, G), Cleanup
  PROVE  \E D \in Int, E \in Nat : Rings(D, N, E, G)'
<1>1. /\ FrameEnd /\ read' = Increment(read, run.full) /\ ByRun /\ UNCHANGED <<sem, hist>>
      /\ run' = RunIdle
  BY DEF Cleanup, Reads
<1>2. RunBusy /\ RunTyped
  BY <1>1, RingsParts DEF RunBusy, FrameEnd
<1>3. /\ C \in 1 .. N /\ G[C].start \in Nat /\ G[C].shape \in Shape /\ G[C].serial \in Nat
      /\ Stop(G[C]) = G[C].start + Extent(G[C].shape) /\ G[C + 1].start = Stop(G[C])
  BY <1>2, InFrame
<1>4. Extent(G[C].shape) \in Nat /\ Len(G[C].shape) \in 1 .. 2
  BY <1>3, ShapeFacts
<1>5. ReadAt(B) + run.full = Stop(G[C]) /\ run.full \in Nat
  BY <1>1, FrameLeft
<1>6. RunTyped' /\ run'.at = "acquire" /\ ~RunBusy'
  <2>1. <<>> \in Seq(DataUnit)
    BY EmptySeq
  <2> QED
    BY <1>1, <2>1 DEF RunIdle, RunTyped, RunBusy
<1>7. ASSUME NEW D \in Int, ReadAt(D)' = ReadAt(B) + run.full PROVE Taking(D, N, C, G)'
  BY <1>3, <1>5, <1>6, <1>7 DEF Taking, RunBusy, RunAtSample
<1>8. ReadAt(B) + run.full <= Stop(G[C])
  BY <1>3, <1>4, <1>5
<1> QED
  BY <1>1, <1>2, <1>5, <1>6, <1>7, <1>8, InsideFrame

\* The samples given to callbacks are typed.
LEMMA DeliveredTyped ==
  ASSUME delivered \in Seq([h : Handle, data : Seq(DataUnit)]), Delivered,
         NEW m \in 1 .. Len(delivered)
  PROVE  /\ delivered[m] \in [h : Handle, data : Seq(DataUnit)]
         /\ delivered[m].data[1].serial \in Nat
<1>1. delivered[m] \in [h : Handle, data : Seq(DataUnit)]
  BY ElementOfSeq
<1>2. delivered[m].data \in Seq(DataUnit) /\ Len(delivered[m].data) = SampleSize
  BY <1>1 DEF Delivered
<1>3. 1 \in 1 .. Len(delivered[m].data)
  BY <1>2, DispatcherAssumption
<1>4. delivered[m].data[1] \in DataUnit
  BY <1>2, <1>3, ElementOfSeq
<1> QED
  BY <1>1, <1>4 DEF DataUnit

\* The two deliveries kept are the last one before and the new one.
LEMMA LastTwo ==
  ASSUME delivered \in Seq([h : Handle, data : Seq(DataUnit)]), Len(delivered) <= 2,
         NEW x \in [h : Handle, data : Seq(DataUnit)],
         delivered' = Append(IF Len(delivered) = 2 THEN Tail(delivered) ELSE delivered, x)
  PROVE  /\ delivered' \in Seq([h : Handle, data : Seq(DataUnit)])
         /\ Len(delivered') \in 1 .. 2 /\ delivered'[Len(delivered')] = x
         /\ \A m \in 1 .. Len(delivered') :
              m # Len(delivered') => /\ m = 1 /\ Len(delivered) \in 1 .. 2
                                     /\ delivered'[m] = delivered[Len(delivered)]
<1> DEFINE S == [h : Handle, data : Seq(DataUnit)]
<1>1. PICK t : t = IF Len(delivered) = 2 THEN Tail(delivered) ELSE delivered
  OBVIOUS
<1>2. Len(delivered) \in Nat
  OBVIOUS
<1>3. /\ t \in Seq(S) /\ Len(t) \in 0 .. 1
      /\ Len(t) = 1 => Len(delivered) \in 1 .. 2 /\ t[1] = delivered[Len(delivered)]
  <2>1. CASE Len(delivered) = 2
    <3>1. delivered # <<>>
      BY <2>1
    <3> HIDE DEF S
    <3>2. delivered \in Seq(S)
      BY DEF S
    <3>3. /\ Tail(delivered) \in Seq(S) /\ Len(Tail(delivered)) = Len(delivered) - 1
          /\ \A i \in 1 .. Len(Tail(delivered)) : Tail(delivered)[i] = delivered[i + 1]
      BY <3>1, <3>2, HeadTailProperties
    <3>4. t = Tail(delivered) /\ Len(t) = 1
      BY <1>1, <2>1, <3>3
    <3>5. t[1] = delivered[2]
      <4>1. 1 \in 1 .. 1 /\ 1 + 1 = 2
        OBVIOUS
      <4>2. Tail(delivered)[1] = delivered[1 + 1]
        BY <3>3, <3>4, <4>1
      <4> QED
        BY <3>4, <4>1, <4>2
    <3>6. t \in Seq(S)
      BY <3>3, <3>4
    <3>7. Len(t) \in 0 .. 1 /\ Len(delivered) \in 1 .. 2
      BY <2>1, <3>4
    <3> QED
      BY <2>1, <3>5, <3>6, <3>7
  <2>2. CASE Len(delivered) # 2
    <3>1. t = delivered
      BY <1>1, <2>2
    <3>3. Len(delivered) \in 0 .. 1
      <4>1. \A n \in Nat : n <= 2 /\ n # 2 => n \in 0 .. 1
        OBVIOUS
      <4> QED
        BY <1>2, <2>2, <4>1
    <3>2. Len(t) = 1 => Len(delivered) \in 1 .. 2 /\ t[1] = delivered[Len(delivered)]
      BY <3>1, <3>3
    <3> QED
      BY <3>1, <3>2, <3>3
  <2> QED
    BY <2>1, <2>2
<1> HIDE DEF S
<1>4. x \in S
  BY DEF S
<1>5. delivered' = Append(t, x)
  BY <1>1
<1>6. /\ Append(t, x) \in Seq(S) /\ Len(Append(t, x)) = Len(t) + 1
      /\ \A i \in 1 .. Len(t) : Append(t, x)[i] = t[i]
      /\ Append(t, x)[Len(t) + 1] = x
  BY <1>3, <1>4, AppendProperties
<1>7. \A m \in 1 .. Len(t) + 1 : m # Len(t) + 1 => m = 1 /\ Len(t) = 1
  BY <1>3
<1>8. Len(t) + 1 \in 1 .. 2
  BY <1>3
<1>9. /\ delivered' \in Seq(S) /\ Len(delivered') = Len(t) + 1
      /\ \A i \in 1 .. Len(t) : delivered'[i] = t[i]
      /\ delivered'[Len(t) + 1] = x
  BY <1>5, <1>6
<1>10. Len(delivered') \in 1 .. 2 /\ delivered'[Len(delivered')] = x
  BY <1>8, <1>9
<1>11. \A m \in 1 .. Len(delivered') :
         m # Len(delivered') => /\ m = 1 /\ Len(delivered) \in 1 .. 2
                                /\ delivered'[m] = delivered[Len(delivered)]
  BY <1>3, <1>7, <1>9
<1> QED
  BY <1>9, <1>10, <1>11 DEF S

\* Callback delivers the sample in hand: whole, and later than the last one.
LEMMA CallbackKeepsRing ==
  ASSUME NEW B \in Int, NEW N \in Nat, NEW C, NEW G, Rings(B, N, C, G), Callback
  PROVE  \E D \in Int, E \in Nat : Rings(D, N, E, G)'
<1>1. /\ run.at = "data" /\ Len(run.data) = SampleSize
      /\ delivered' = Append(IF Len(delivered) = 2 THEN Tail(delivered) ELSE delivered,
                             [h |-> run.h, data |-> run.data])
      /\ run' = [run EXCEPT !.at = "sample", !.full = run.full - run.size]
      /\ read' = read /\ sem' = sem
      /\ UNCHANGED <<write, cells, rx, serial, stopExecution>>
  BY DEF Callback, ByRun, counts, Taken
<1>2. RunBusy /\ RunAtSample /\ RunTyped
  BY <1>1, RingsParts DEF RunBusy, RunAtSample
<1>3. /\ C \in 1 .. N /\ G[C].start \in Nat /\ G[C].shape \in Shape /\ G[C].serial \in Nat
      /\ Stop(G[C]) = G[C].start + Extent(G[C].shape)
      /\ Stop(G[C]) <= G[N + 1].start /\ G[N + 1].start \in Nat
  BY <1>2, InFrame
<1>4. PICK j : j = At(G[C])
  OBVIOUS
<1>5. /\ j \in 1 .. Len(G[C].shape) /\ G[C].shape[j].h \in Handle
      /\ Onset(G[C].shape, j) \in Nat
      /\ Onset(G[C].shape, j + 1) = Onset(G[C].shape, j) + 1 + G[C].shape[j].size
      /\ Onset(G[C].shape, j) + 1 + G[C].shape[j].size <= Extent(G[C].shape)
      /\ Extent(G[C].shape) \in Nat
  BY <1>2, <1>4, InSample
<1>6. /\ run.samples < Len(G[C].shape)
      /\ ReadAt(B) = G[C].start + Onset(G[C].shape, j) + 1 + SampleSize
      /\ run.full = Stop(G[C]) - (G[C].start + Onset(G[C].shape, j) + 1)
      /\ run.h = G[C].shape[j].h
      /\ run.size = SampleSize /\ G[C].shape[j].size = SampleSize
      /\ \A k \in 1 .. SampleSize : run.data[k] = Data(run.h, G[C].serial + j - 1, k)
  BY <1>1, <1>2, <1>4 DEF Rings, Taking
<1>7. SampleSize \in Nat /\ SampleSize > 0
  BY DispatcherAssumption
<1>8. /\ run'.at = "sample" /\ run'.samples = run.samples /\ run'.full = run.full - run.size
      /\ RunTyped'
  <2>1. PICK x \in Int : x = run.full - run.size
    BY <1>2 DEF RunTyped
  <2>2. run' = [run EXCEPT !.at = "sample", !.full = x]
    BY <1>1, <2>1
  <2> QED
    BY <1>2, <2>1, <2>2 DEF RunTyped
<1>9. PICK a \in Nat, e \in Nat, o \in Nat, l \in Nat :
        /\ a = G[C].start /\ e = Extent(G[C].shape)
        /\ o = Onset(G[C].shape, j) /\ l = Len(G[C].shape)
  <2>1. Len(G[C].shape) \in 1 .. 2
    BY <1>3, ShapeFacts
  <2> QED
    <3>1. PICK l \in 1 .. 2 : l = Len(G[C].shape)
      BY <2>1, Zenon
    <3>2. PICK a \in Nat : a = G[C].start
      BY <1>3
    <3>3. PICK e \in Nat, o \in Nat : e = Extent(G[C].shape) /\ o = Onset(G[C].shape, j)
      BY <1>5
    <3> QED
      BY <3>1, <3>2, <3>3
<1>10. /\ Onset(G[C].shape, j + 1) = o + 1 + SampleSize /\ o + 1 + SampleSize <= e
       /\ ReadAt(B) = a + o + 1 + SampleSize /\ run.full = Stop(G[C]) - (a + o + 1)
       /\ Stop(G[C]) = a + e /\ j \in 1 .. l
  BY <1>3, <1>5, <1>6, <1>9
<1>11. ReadAt(B) + 0 <= G[N + 1].start
  BY <1>3, <1>7, <1>10
<1>12. At(G[C])' = j + 1
  <2>1. run.samples \in Nat
    BY <1>2 DEF RunTyped
  <2>2. j = l - run.samples + 0
    BY <1>1, <1>4, <1>9 DEF At
  <2>3. At(G[C])' = l - run.samples + 1
    BY <1>8, <1>9 DEF At
  <2> QED
    BY <2>1, <2>2, <2>3
<1>13. ASSUME NEW D \in Int, ReadAt(D)' = ReadAt(B) + 0 PROVE Taking(D, N, C, G)'
  <2>1. /\ ReadAt(D)' = G[C].start + Onset(G[C].shape, j + 1)
        /\ run'.full = Stop(G[C]) - ReadAt(D)'
    <3>1. ReadAt(D)' = a + (o + 1 + SampleSize)
      BY <1>7, <1>10, <1>13
    <3>2. run'.full = (a + e) - (a + o + 1) - SampleSize
      BY <1>6, <1>8, <1>10
    <3>3. run'.full = Stop(G[C]) - ReadAt(D)'
      BY <1>7, <1>10, <3>1, <3>2
    <3> QED
      BY <1>9, <1>10, <3>1, <3>3
  <2>2. /\ ~RunAtSample' /\ run'.at \notin {"acquire", "length", "header", "data"}
        /\ C >= 1 /\ C \in 0 .. N
    BY <1>3, <1>8 DEF RunAtSample
  <2>3. run'.samples <= Len(G[C].shape)
    <3>1. PICK s \in Nat : s = run.samples
      BY <1>2 DEF RunTyped
    <3>2. s <= l
      BY <1>6, <1>9, <3>1
    <3> QED
      BY <1>8, <1>9, <3>1, <3>2
  <2> QED
    BY <1>12, <2>1, <2>2, <2>3 DEF Taking
<1>14. PICK q \in Nat : q = G[C].serial + j - 1
  <2>1. G[C].serial + j - 1 \in Nat
    BY <1>3, <1>10
  <2> QED
    BY <2>1
<1>15. /\ delivered \in Seq([h : Handle, data : Seq(DataUnit)])
       /\ Delivered /\ AllBehind(N, C, G)
  BY RingsParts
<1>16. PICK x : x = [h |-> run.h, data |-> run.data]
  OBVIOUS
<1>17. /\ x \in [h : Handle, data : Seq(DataUnit)]
       /\ x.h = run.h /\ x.data = run.data
  BY <1>2, <1>5, <1>6, <1>16 DEF RunTyped
<1>18. /\ delivered' \in Seq([h : Handle, data : Seq(DataUnit)])
       /\ Len(delivered') \in 1 .. 2 /\ delivered'[Len(delivered')] = x
       /\ \A m \in 1 .. Len(delivered') :
            m # Len(delivered') => /\ m = 1 /\ Len(delivered) \in 1 .. 2
                                   /\ delivered'[m] = delivered[Len(delivered)]
  <2>1. delivered' = Append(IF Len(delivered) = 2 THEN Tail(delivered) ELSE delivered, x)
    BY <1>1, <1>16
  <2>2. Len(delivered) <= 2
    BY <1>15 DEF Delivered
  <2> QED
    BY <1>15, <1>17, <2>1, <2>2, LastTwo
<1>19. /\ Len(x.data) = SampleSize
       /\ \A k \in 1 .. SampleSize : x.data[k].h = x.h /\ x.data[k].k = k /\ x.data[k].serial = q
  <2>1. \A k \in 1 .. SampleSize : x.data[k] = Data(x.h, q, k)
    BY <1>6, <1>14, <1>17
  <2>2. \A k \in 1 .. SampleSize :
          Data(x.h, q, k).h = x.h /\ Data(x.h, q, k).k = k /\ Data(x.h, q, k).serial = q
    BY DEF Data
  <2> QED
    BY <1>1, <1>17, <2>1, <2>2
<1>20. x.data[1].serial = q
  BY <1>7, <1>19
\* The one delivered before is older.
<1>21. Len(delivered) \in 1 .. 2 =>
         LET p == delivered[Len(delivered)].data[1].serial IN p \in Nat /\ p < q
  <2> SUFFICES ASSUME Len(delivered) \in 1 .. 2
               PROVE  /\ delivered[Len(delivered)].data[1].serial \in Nat
                      /\ delivered[Len(delivered)].data[1].serial < q
    OBVIOUS
  <2>1. Len(delivered) \in 1 .. Len(delivered)
    OBVIOUS
  <2>2. delivered[Len(delivered)].data[1].serial \in Nat
    BY <1>15, <2>1, DeliveredTyped
  <2>3. Behind(delivered[Len(delivered)].data[1].serial, N, C, G)
    BY <1>15, <2>1 DEF AllBehind
  <2>4. Current(C, G) = q
    BY <1>1, <1>4, <1>14 DEF Current
  <2> QED
    BY <1>2, <2>2, <2>3, <2>4 DEF Behind
<1>22. Delivered'
  <2>1. ASSUME NEW m \in 1 .. Len(delivered')
        PROVE  /\ Len(delivered'[m].data) = SampleSize
               /\ \A k \in 1 .. SampleSize :
                    /\ delivered'[m].data[k].h = delivered'[m].h
                    /\ delivered'[m].data[k].k = k
                    /\ delivered'[m].data[k].serial = delivered'[m].data[1].serial
    <3>1. CASE m = Len(delivered')
      BY <1>18, <1>19, <1>20, <3>1
    <3>2. CASE m # Len(delivered')
      <4>1. Len(delivered) \in 1 .. 2 /\ delivered'[m] = delivered[Len(delivered)]
        BY <1>18, <3>2
      <4>2. Len(delivered) \in 1 .. 2
        BY <4>1
      <4>3. Len(delivered) \in 1 .. Len(delivered)
        BY <4>2
      <4> QED
        BY <1>15, <4>1, <4>3 DEF Delivered
    <3> QED
      BY <3>1, <3>2
  <2>2. ASSUME NEW m \in 1 .. Len(delivered'), NEW n \in 1 .. Len(delivered'), m < n
        PROVE  delivered'[m].data[1].serial < delivered'[n].data[1].serial
    <3>1. m # Len(delivered') /\ n = Len(delivered')
      BY <1>18, <2>2
    <3>2. Len(delivered) \in 1 .. 2 /\ delivered'[m] = delivered[Len(delivered)]
      BY <1>18, <3>1
    <3>3. delivered'[n] = x
      BY <1>18, <3>1
    <3> QED
      BY <1>20, <1>21, <3>2, <3>3
  <2>3. Len(delivered') <= 2
    BY <1>18
  <2> QED
    BY <2>1, <2>2, <2>3 DEF Delivered
\* What comes is younger than the one delivered now, and than the one before.
<1>23. Behind(q, N, C, G)'
  <2>1. /\ G[C].serial + l <= serial + 1
        /\ \A i \in C + 1 .. N : G[C].serial + l <= G[i].serial /\ G[i].serial \in Nat
        /\ serial \in Nat
    <3>1. \A i \in C + 1 .. N : C \in 1 .. N /\ i \in 1 .. N /\ C < i
      BY <1>3
    <3> QED
      BY <1>3, <1>9, <3>1, RingsParts DEF FramesInOrder
  <2>2. RxBusy => /\ G[C].serial + l <= G[N + 1].serial /\ G[N + 1].serial \in Nat
    BY <1>3, <1>9 DEF Rings, Storing
  <2>3. RxBusy' = RxBusy
    BY <1>1 DEF RxBusy
  <2>4. Current(C, G)' = G[C].serial + (j + 1) - 1
    BY <1>8, <1>12 DEF Current
  <2>5. q <= serial /\ \A i \in C + 1 .. N : q < G[i].serial
    BY <1>3, <1>10, <1>14, <2>1
  <2>6. RxBusy => q < G[N + 1].serial
    BY <1>3, <1>10, <1>14, <2>2
  <2>7. q < Current(C, G)'
    BY <1>3, <1>10, <1>14, <2>4
  <2> QED
    BY <1>1, <2>3, <2>5, <2>6, <2>7 DEF Behind
<1>24. AllBehind(N, C, G)'
  <2> SUFFICES ASSUME NEW m \in 1 .. Len(delivered')
               PROVE  Behind(delivered[m].data[1].serial, N, C, G)'
    BY DEF AllBehind
  <2>1. CASE m = Len(delivered')
    <3>1. delivered'[m].data[1].serial = q
      BY <1>18, <1>20, <2>1
    <3> QED
      BY <1>23, <3>1 DEF Behind
  <2>2. CASE m # Len(delivered')
    <3>1. Len(delivered) \in 1 .. 2 /\ delivered'[m] = delivered[Len(delivered)]
      BY <1>18, <2>2
    <3>2. PICK p \in Nat : p = delivered[Len(delivered)].data[1].serial /\ p < q
      BY <1>21, <3>1
    <3>3. Behind(p, N, C, G)
      <4>1. Len(delivered) \in 1 .. 2
        BY <3>1
      <4>2. Len(delivered) \in 1 .. Len(delivered)
        <5>1. \A i \in 1 .. 2 : i \in 1 .. i
          OBVIOUS
        <5> QED
          BY <4>1, <5>1
      <4> QED
        BY <1>15, <3>2, <4>2 DEF AllBehind
    <3>4. Current(C, G)' = q + 1
      <4>1. Current(C, G)' = G[C].serial + (j + 1) - 1
        BY <1>8, <1>12 DEF Current
      <4>2. j \in Int /\ G[C].serial \in Int
        BY <1>3, <1>10
      <4> QED
        BY <1>14, <4>1, <4>2
    <3>5. Behind(p, N, C, G)'
      <4>1. RxBusy' = RxBusy
        BY <1>1 DEF RxBusy
      <4> QED
        <5>1. p < q + 1 /\ p <= serial'
          <6>1. p <= serial /\ serial' = serial
            BY <1>1, <3>3 DEF Behind
          <6>2. p < q + 1
            BY <1>20, <3>2
          <6> QED
            BY <6>1, <6>2
        <5>2. p < Current(C, G)'
          BY <3>4, <5>1
        <5> QED
          BY <3>3, <4>1, <5>1, <5>2 DEF Behind
    <3>6. delivered'[m].data[1].serial = p
      BY <3>1, <3>2
    <3> QED
      BY <3>5, <3>6 DEF Behind
  <2> QED
    BY <2>1, <2>2
<1>25. read' = Increment(read, 0) /\ sem' \in Nat /\ C \in Nat
  <2>1. read \in Position /\ sem \in Nat
    BY RingsParts
  <2>2. Increment(read, 0) = read
    BY <2>1, Stays
  <2> QED
    BY <1>1, <1>3, <2>1, <2>2
<1>26. Counted(N, C)'
  BY <1>1, RingsParts DEF Counted
<1>27. \E D \in Int : Rings(D, N, C, G)'
  BY <1>1, <1>8, <1>11, <1>13, <1>18, <1>22, <1>24, <1>25, <1>26, Advance
<1> QED
  BY <1>25, <1>27

-----------------------------------------------------------------------------
(***************************************************************************)
(* The receiver.                                                           *)
(***************************************************************************)
\* A frame that passed the test for free space has room, or `read` went round
\* the end of the array between its two loads: then the frame begins in the lap
\* of `read`, with room for its length at least.
LEMMA PassedTest ==
  ASSUME write \in Position, read \in Position, rx.load \in Position, NEW B \in Int,
         WriteAt(B) < LoadAt(B) + dataSize,
         NEW n \in Nat, n <= FreeLoaded(write, rx.load, read), n >= 1
  PROVE  /\ WriteAt(B) + 1 < ReadAt(B) + dataSize
         /\ WriteAt(B) + n < ReadAt(B) + dataSize \/ WriteAt(B) < B + dataSize
<1>1. dataSize \in Nat /\ dataSize > 1
  BY RingAssumption
<1>2. /\ write \in 0 .. dataSize - 1 /\ read \in 0 .. dataSize - 1
      /\ rx.load \in 0 .. dataSize - 1
  BY DEF Position
<1>3. CASE write < rx.load
  BY <1>1, <1>2, <1>3 DEF FreeLoaded, AsSize, WriteAt, ReadAt, LoadAt
<1>4. CASE ~(write < rx.load)
  BY <1>1, <1>2, <1>4 DEF FreeLoaded, WriteAt, ReadAt, LoadAt
<1> QED
  BY <1>3, <1>4

\* A value of `read` the receiver has loaded is one `read` had before.
LEMMA LoadBehind ==
  ASSUME read \in Position, rx.load \in Position, NEW B \in Int
  PROVE  LoadAt(B) \in Int /\ LoadAt(B) <= ReadAt(B)
BY RingAssumption DEF Position, LoadAt, ReadAt

\* What is stored in one piece, for a frame of which n units are left.
LEMMA ChunkFits ==
  ASSUME write \in Position, read \in Position, rx.load \in Position, NEW B \in Int,
         WriteAt(B) < LoadAt(B) + dataSize, NEW n \in Nat,
         WriteAt(B) + n < LoadAt(B) + dataSize \/ rx.load <= read
  PROVE  /\ ChunkLoaded(write, rx.load, read) \in Nat
         /\ \A m \in 0 .. n : m <= ChunkLoaded(write, rx.load, read) =>
               m <= BytesFree(write, read) /\ write + m <= dataSize
<1>1. dataSize \in Nat /\ dataSize > 1
  BY RingAssumption
<1>2. /\ write \in 0 .. dataSize - 1 /\ read \in 0 .. dataSize - 1
      /\ rx.load \in 0 .. dataSize - 1 /\ SIZE_MODULUS \in Nat /\ SIZE_MODULUS > 2 * dataSize
  BY RingAssumption DEF Position
<1>3. BytesFree(write, read) = dataSize - 1 - (WriteAt(B) - ReadAt(B))
  BY Measures
<1>4. ChunkLoaded(write, rx.load, read) \in Nat
  BY <1>1, <1>2 DEF ChunkLoaded, AsSize
<1>5. CASE write < rx.load /\ read > write
  BY <1>1, <1>2, <1>3, <1>4, <1>5 DEF ChunkLoaded, AsSize, WriteAt, ReadAt, LoadAt
<1>6. CASE write < rx.load /\ read <= write
  BY <1>1, <1>2, <1>3, <1>4, <1>6 DEF WriteAt, ReadAt, LoadAt
<1>7. CASE ~(write < rx.load)
  <2>1. read <= write
    BY <1>1, <1>2, <1>7 DEF WriteAt, LoadAt
  <2>2. BytesFree(write, read) = dataSize - 1 - (write - read)
    BY <1>2, <1>3, <2>1 DEF WriteAt, ReadAt
  <2>3. ChunkLoaded(write, rx.load, read) = dataSize - write - (IF read = 0 THEN 1 ELSE 0)
    BY <1>7 DEF ChunkLoaded
  <2>4. CASE read = 0
    BY <1>1, <1>2, <1>4, <2>2, <2>3, <2>4
  <2>5. CASE read # 0
    BY <1>1, <1>2, <1>4, <2>2, <2>3, <2>5
  <2> QED
    BY <2>4, <2>5
<1>8. read > write \/ read <= write
  BY <1>2
<1> QED
  BY <1>5, <1>6, <1>7, <1>8

\* The dispatcher's thread has no part in a step of the receiver.
LEMMA ReaderUntouched ==
  ASSUME NEW B \in Int, NEW N \in Nat, NEW C, NEW G, Rings(B, N, C, G),
         NEW M \in {N, N + 1}, NEW H,
         \A i \in 1 .. N : H[i] = G[i], H[N + 1].start = G[N + 1].start,
         read' = read, ByReceiver
  PROVE  ReadAt(B)' = ReadAt(B) /\ Taking(B, M, C, H)' /\ Delivered'
<1>1. run' = run /\ delivered' = delivered /\ C \in 0 .. N
  BY DEF ByReceiver, hist, Rings, Taking
<1>2. ReadAt(B)' = ReadAt(B)
  BY DEF ReadAt
<1>3. Taking(B, N, C, G) /\ Delivered
  BY DEF Rings
<1>4. H[C + 1].start = G[C + 1].start
  BY <1>1
<1>5. RunBusy => H[C] = G[C]
  BY <1>1, <1>3 DEF Taking
<1>6. C \in 0 .. M
  BY <1>1
<1>7. Taking(B, M, C, H)'
  <2>1. CASE RunBusy
    <3>1. H[C] = G[C]
      BY <1>5, <2>1
    <3> QED
      BY <1>1, <1>2, <1>3, <1>4, <1>6, <3>1 DEF Taking, RunBusy, RunAtSample, At
  <2>2. CASE ~RunBusy
    BY <1>1, <1>2, <1>3, <1>4, <1>6, <2>2 DEF Taking, RunBusy, RunAtSample
  <2> QED
    BY <2>1, <2>2
<1>8. Delivered'
  BY <1>1, <1>3 DEF Delivered
<1> QED
  BY <1>2, <1>7, <1>8

\* Nor do its deliveries change.
LEMMA StillAhead ==
  ASSUME NEW B \in Int, NEW N \in Nat, NEW C, NEW G, Rings(B, N, C, G),
         NEW M \in {N, N + 1}, NEW H, \A i \in 1 .. N : H[i] = G[i],
         ByReceiver, serial' \in Nat, serial <= serial',
         M = N + 1 => RxBusy /\ H[N + 1] = G[N + 1],
         RxBusy' => \/ RxBusy /\ M = N /\ H[N + 1] = G[N + 1]
                    \/ H[M + 1].serial \in Nat /\ H[M + 1].serial > serial
  PROVE  AllBehind(M, C, H)'
<1>1. /\ run' = run /\ delivered' = delivered /\ C \in 0 .. N /\ serial \in Nat
      /\ delivered \in Seq([h : Handle, data : Seq(DataUnit)])
      /\ Delivered /\ AllBehind(N, C, G)
  BY RingsParts DEF ByReceiver, hist
<1>2. RunBusy => C \in 1 .. N
  BY InFrame
<1> SUFFICES ASSUME NEW m \in 1 .. Len(delivered)
             PROVE  Behind(delivered[m].data[1].serial, M, C, H)'
  BY <1>1 DEF AllBehind
<1>3. PICK q \in Nat : q = delivered[m].data[1].serial
  BY <1>1, DeliveredTyped
<1>4. Behind(q, N, C, G)
  BY <1>1, <1>3 DEF AllBehind
<1>5. q <= serial'
  BY <1>1, <1>4 DEF Behind
<1>6. \A i \in C + 1 .. M : q < H[i].serial
  <2> SUFFICES ASSUME NEW i \in C + 1 .. M PROVE q < H[i].serial
    OBVIOUS
  <2>1. CASE i \in C + 1 .. N
    BY <1>1, <1>4, <2>1 DEF Behind
  <2>2. CASE i \notin C + 1 .. N
    <3>1. i = N + 1 /\ M = N + 1
      BY <1>1, <2>2
    <3> QED
      BY <1>4, <3>1 DEF Behind
  <2> QED
    BY <2>1, <2>2
<1>7. RxBusy' => q < H[M + 1].serial
  <2>1. RxBusy /\ M = N /\ H[N + 1] = G[N + 1] => q < H[M + 1].serial
    BY <1>4 DEF Behind
  <2>2. H[M + 1].serial \in Nat /\ H[M + 1].serial > serial => q < H[M + 1].serial
    BY <1>1, <1>4 DEF Behind
  <2> QED
    BY <2>1, <2>2
<1>8. RunBusy' => q < Current(C, H)'
  <2>1. RunBusy => H[C] = G[C]
    BY <1>2
  <2>2. RunBusy' = RunBusy
    BY <1>1 DEF RunBusy
  <2>3. RunBusy => Current(C, H)' = Current(C, G)
    BY <1>1, <2>1 DEF Current, At
  <2> QED
    BY <1>4, <2>2, <2>3 DEF Behind
<1>9. Behind(q, M, C, H)'
  BY <1>5, <1>6, <1>7, <1>8 DEF Behind
<1> QED
  BY <1>1, <1>3, <1>9 DEF Behind

\* A step of the receiver within a frame: what each action owes.
LEMMA SameFrame ==
  ASSUME NEW B \in Int, NEW N \in Nat, NEW C, NEW G, Rings(B, N, C, G),
         ByReceiver, UNCHANGED <<sem, frames, serial>>, RxBusy' => RxBusy,
         write' \in Position, RxTyped',
         Contents(B, N, G)', Storing(B, N, G)', Fitting(B, N, G)'
  PROVE  Rings(B, N, C, G)'
<1>1. /\ read' = read /\ stopExecution' = stopExecution /\ delivered' = delivered
      /\ run' = run
  BY DEF ByReceiver, hist
<1>2. Taking(B, N, C, G)' /\ Delivered'
  <2>1. N \in {N, N + 1} /\ \A i \in 1 .. N : G[i] = G[i]
    OBVIOUS
  <2> QED
    BY <1>1, <2>1, ReaderUntouched
<1>3. /\ serial \in Nat /\ Counted(N, C) /\ FramesInOrder(N, G) /\ RingTyped
  BY RingsParts DEF Rings
<1>4. AllBehind(N, C, G)'
  <2>1. /\ N \in {N, N + 1} /\ N # N + 1 /\ serial' \in Nat /\ serial <= serial'
        /\ \A i \in 1 .. N : G[i] = G[i]
    BY <1>3
  <2> QED
    BY <2>1, StillAhead
<1>5. RingTyped'
  BY <1>1, <1>3 DEF RingTyped, RunTyped
<1>6. Counted(N, C)' /\ FramesInOrder(N, G)'
  BY <1>1, <1>3 DEF Counted, FramesInOrder
<1> QED
  BY <1>2, <1>4, <1>5, <1>6 DEF Rings

\* The frame the receiver is in.
LEMMA Incoming ==
  ASSUME NEW B \in Int, NEW N \in Nat, NEW C, NEW G, Rings(B, N, C, G), RxBusy
  PROVE  /\ G[N + 1].shape \in Shape /\ G[N + 1].serial \in Nat /\ G[N + 1].start \in Nat
         /\ Extent(G[N + 1].shape) \in Nat /\ Extent(G[N + 1].shape) >= 3
         /\ Stop(G[N + 1]) = G[N + 1].start + Extent(G[N + 1].shape)
<1>1. G[N + 1].shape \in Shape /\ G[N + 1].serial \in Nat
  BY DEF Rings, Storing
<1>2. G[N + 1].start \in Nat
  BY StartStored DEF Rings
<1>3. Extent(G[N + 1].shape) \in Nat /\ Extent(G[N + 1].shape) >= 3
  BY <1>1, ShapeFacts
<1> QED
  BY <1>1, <1>2, <1>3 DEF Stop

\* The dispatcher's thread is not past the frames that are complete.
LEMMA NotPast ==
  ASSUME NEW B \in Int, NEW N \in Nat, NEW C, NEW G, Rings(B, N, C, G)
  PROVE  /\ WriteAt(B) \in Int /\ ReadAt(B) \in Int /\ LoadAt(B) \in Int
         /\ ReadAt(B) <= WriteAt(B) /\ WriteAt(B) < ReadAt(B) + dataSize
         /\ LoadAt(B) <= ReadAt(B)
         /\ write \in Position /\ read \in Position /\ rx.load \in Position
         /\ G[N + 1].start \in Nat /\ G[N + 1].start <= WriteAt(B)
         /\ dataSize \in Nat
<1>1. write \in Position /\ read \in Position /\ rx.load \in Position
  BY DEF Rings, RingTyped, RxTyped
<1>2. G[N + 1].start \in Nat /\ G[N + 1].start <= WriteAt(B)
  BY StartStored DEF Rings
<1>3. LoadAt(B) \in Int /\ LoadAt(B) <= ReadAt(B)
  BY <1>1, LoadBehind
<1>4. /\ WriteAt(B) \in Int /\ ReadAt(B) \in Int
      /\ ReadAt(B) <= WriteAt(B) /\ WriteAt(B) < ReadAt(B) + dataSize
  BY <1>1, Measures
<1> QED
  BY <1>1, <1>2, <1>3, <1>4, RingAssumption

\* Check passes a frame only if it has room or starts in the lap of `read`.
LEMMA CheckKeepsRing ==
  ASSUME NEW B \in Int, NEW N \in Nat, NEW C, NEW G, Rings(B, N, C, G), Check
  PROVE  Rings(B, N, C, G)'
<1>1. /\ rx.at = "check" /\ UNCHANGED <<write, cells, sem, frames, serial>> /\ ByReceiver
      /\ rx' = IF Fits THEN [rx EXCEPT !.at = "length"] ELSE ReceiverIdle
  BY DEF Check
<1>2. RxBusy /\ RxTyped /\ read' = read
  BY <1>1 DEF RxBusy, Rings, RingTyped, ByReceiver
<1>3. ReadAt(B)' = ReadAt(B) /\ WriteAt(B)' = WriteAt(B)
  BY <1>1, <1>2 DEF ReadAt, WriteAt
<1>4. Contents(B, N, G)'
  BY <1>1, <1>3 DEF Rings, Contents
<1>5. write' \in Position
  BY <1>1, NotPast
<1>6. CASE ~Fits
  <2>1. rx' = ReceiverIdle /\ rx'.at = "idle" /\ RxTyped'
    <3>1. <<>> \in Seq(Unit) /\ 0 \in Position
      BY EmptySeq, RingAssumption DEF Position
    <3> QED
      BY <1>1, <1>6, <3>1 DEF ReceiverIdle, RxTyped
  <2>2. Storing(B, N, G)'
    BY <1>1, <1>3, <2>1 DEF Rings, Storing, RxBusy
  <2>3. Fitting(B, N, G)'
    BY <2>1 DEF Fitting
  <2> QED
    BY <1>1, <1>2, <1>4, <1>5, <2>1, <2>2, <2>3, SameFrame
<1>7. CASE Fits
  <2>1. rx' = [rx EXCEPT !.at = "length"]
    BY <1>1, <1>7
  <2>2. rx'.at = "length" /\ rx'.left = rx.left /\ rx'.load = rx.load /\ RxTyped'
    BY <1>2, <2>1 DEF RxTyped
  <2>3. Storing(B, N, G)'
    <3>1. RxBusy'
      BY <2>2 DEF RxBusy
    <3> QED
      BY <1>1, <1>2, <1>3, <2>2, <3>1 DEF Rings, Storing
  <2>4. /\ G[N + 1].shape \in Shape /\ G[N + 1].serial \in Nat /\ G[N + 1].start \in Nat
        /\ Extent(G[N + 1].shape) \in Nat /\ Extent(G[N + 1].shape) >= 3
        /\ Stop(G[N + 1]) = G[N + 1].start + Extent(G[N + 1].shape)
    BY <1>2, Incoming
  <2>5. /\ rx.left = Units(G[N + 1].shape, G[N + 1].serial) /\ WriteAt(B) = G[N + 1].start
        /\ WriteAt(B) < LoadAt(B) + dataSize
    BY <1>1 DEF Rings, Storing, Fitting
  <2>6. Len(rx.left) + 1 = Extent(G[N + 1].shape)
    <3>1. Len(Units(G[N + 1].shape, G[N + 1].serial)) = Extent(G[N + 1].shape) - 1
      BY <2>4, UnitsFacts
    <3> QED
      BY <2>4, <2>5, <3>1
  <2>7. Extent(G[N + 1].shape) <= FreeLoaded(write, rx.load, read)
    BY <1>7, <2>6 DEF Fits
  <2>8. /\ WriteAt(B) + 1 < ReadAt(B) + dataSize
        /\ \/ WriteAt(B) + Extent(G[N + 1].shape) < ReadAt(B) + dataSize
           \/ WriteAt(B) < B + dataSize
    <3>1. write \in Position /\ read \in Position /\ rx.load \in Position
      BY NotPast
    <3>2. Extent(G[N + 1].shape) >= 1
      BY <2>4
    <3> QED
      BY <2>4, <2>5, <2>7, <3>1, <3>2, PassedTest
  <2>9. Fitting(B, N, G)'
    BY <1>3, <2>2, <2>4, <2>5, <2>8 DEF Fitting
  <2> QED
    BY <1>1, <1>2, <1>4, <1>5, <2>2, <2>3, <2>9, SameFrame
<1> QED
  BY <1>6, <1>7

\* LoadRead loads `read` as it is.
LEMMA LoadReadKeepsRing ==
  ASSUME NEW B \in Int, NEW N \in Nat, NEW C, NEW G, Rings(B, N, C, G), LoadRead
  PROVE  Rings(B, N, C, G)'
<1>1. /\ rx.at = "load" /\ UNCHANGED <<write, cells, sem, frames, serial>> /\ ByReceiver
      /\ rx' = [rx EXCEPT !.at = "chunk", !.load = read]
  BY DEF LoadRead
<1>2. RxBusy /\ RxTyped /\ read' = read
  BY <1>1 DEF RxBusy, Rings, RingTyped, ByReceiver
<1>3. ReadAt(B)' = ReadAt(B) /\ WriteAt(B)' = WriteAt(B)
  BY <1>1, <1>2 DEF ReadAt, WriteAt
<1>4. Contents(B, N, G)'
  BY <1>1, <1>3 DEF Rings, Contents
<1>5. /\ write' \in Position /\ read \in Position /\ ReadAt(B) \in Int
      /\ WriteAt(B) < ReadAt(B) + dataSize
  BY <1>1, NotPast
<1>6. rx'.at = "chunk" /\ rx'.left = rx.left /\ rx'.load = read /\ RxTyped'
  BY <1>1, <1>2, <1>5 DEF RxTyped
<1>7. LoadAt(B)' = ReadAt(B)
  <2>1. ~(read > read) /\ read \in Int
    BY <1>5, RingAssumption DEF Position
  <2> QED
    BY <1>2, <1>6, <2>1 DEF LoadAt, ReadAt
<1>8. Storing(B, N, G)'
  <2>1. RxBusy'
    BY <1>6 DEF RxBusy
  <2> QED
    BY <1>1, <1>2, <1>3, <1>6, <2>1 DEF Rings, Storing
<1>9. Fitting(B, N, G)'
  <2>1. rx'.load <= read'
    BY <1>2, <1>5, <1>6, RingAssumption DEF Position
  <2>2. \/ Stop(G[N + 1]) < ReadAt(B) + dataSize
        \/ G[N + 1].start < B + dataSize
    BY <1>1 DEF Rings, Fitting
  <2> QED
    BY <1>3, <1>5, <1>6, <1>7, <2>1, <2>2 DEF Fitting
<1> QED
  BY <1>1, <1>2, <1>4, <1>5, <1>6, <1>8, <1>9, SameFrame

\* ReceiveFails leaves part of a frame that nobody will take out.
LEMMA ReceiveFailsKeepsRing ==
  ASSUME NEW B \in Int, NEW N \in Nat, NEW C, NEW G, Rings(B, N, C, G), ReceiveFails
  PROVE  Rings(B, N, C, G)'
<1>1. /\ rx.at = "chunk" /\ UNCHANGED <<write, cells, sem, frames, serial>> /\ ByReceiver
      /\ rx' = [rx EXCEPT !.at = "ended", !.left = <<>>]
  BY DEF ReceiveFails
<1>2. RxBusy /\ RxTyped /\ read' = read
  BY <1>1 DEF RxBusy, Rings, RingTyped, ByReceiver
<1>3. ReadAt(B)' = ReadAt(B) /\ WriteAt(B)' = WriteAt(B)
  BY <1>1, <1>2 DEF ReadAt, WriteAt
<1>4. Contents(B, N, G)'
  BY <1>1, <1>3 DEF Rings, Contents
<1>5. /\ write' \in Position /\ G[N + 1].start <= WriteAt(B)
  BY <1>1, NotPast
<1>6. rx'.at = "ended" /\ RxTyped'
  <2>1. <<>> \in Seq(Unit)
    BY EmptySeq
  <2> QED
    BY <1>1, <1>2, <2>1 DEF RxTyped
<1>7. Storing(B, N, G)' /\ Fitting(B, N, G)'
  BY <1>3, <1>5, <1>6 DEF Storing, Fitting, RxBusy
<1> QED
  BY <1>1, <1>2, <1>4, <1>5, <1>6, <1>7, SameFrame

\* Units of the frame under way are stored where the frame has them.
LEMMA Stored ==
  ASSUME NEW B \in Int, NEW N \in Nat, NEW C, NEW G, Rings(B, N, C, G),
         NEW s, NEW n \in Nat, Store(s, n), read' = read,
         n <= BytesFree(write, read), write + n <= dataSize,
         \A k \in 1 .. n : s[k] = Word(G[N + 1], WriteAt(B) - G[N + 1].start + k - 1)
  PROVE  /\ write' \in Position
         /\ ReadAt(B)' = ReadAt(B) /\ WriteAt(B)' = WriteAt(B) + n
         /\ Contents(B, N, G)'
<1>1. /\ WriteAt(B) \in Int /\ ReadAt(B) \in Int
      /\ write \in Position /\ read \in Position
      /\ G[N + 1].start \in Nat /\ G[N + 1].start <= WriteAt(B)
  BY NotPast
<1>2. /\ write' \in Position
      /\ ReadAt(B)' = ReadAt(B) /\ WriteAt(B)' = WriteAt(B) + n
      /\ \A p \in Int : ReadAt(B) <= p /\ p < WriteAt(B)
                          => cells'[Cell(B, p)] = cells[Cell(B, p)]
      /\ \A k \in 1 .. n : cells'[Cell(B, WriteAt(B) + k - 1)] = s[k]
  <2>1. write \in Position /\ read \in Position
    BY NotPast
  <2> QED
    BY <2>1, WriteMoves
<1>3. Contents(B, N, G)'
  <2> SUFFICES ASSUME NEW i \in 1 .. N + 1, NEW k \in 0 .. Extent(G[i].shape) - 1,
                      ReadAt(B) <= G[i].start + k, G[i].start + k < WriteAt(B) + n
               PROVE  cells'[Cell(B, G[i].start + k)] = Word(G[i], k)
    BY <1>2 DEF Contents
  <2>1. G[i].start \in Nat
    BY DEF Rings, FramesInOrder
  <2>2. CASE G[i].start + k < WriteAt(B)
    <3>1. cells'[Cell(B, G[i].start + k)] = cells[Cell(B, G[i].start + k)]
      BY <1>2, <2>1, <2>2
    <3> QED
      BY <2>2, <3>1 DEF Rings, Contents
  <2>3. CASE ~(G[i].start + k < WriteAt(B))
    <3>1. i = N + 1
      <4> SUFFICES ASSUME i # N + 1 PROVE FALSE
        OBVIOUS
      <4>1. i \in 1 .. N
        OBVIOUS
      <4>2. Stop(G[i]) <= G[N + 1].start /\ G[i].shape \in Shape
        BY <4>1, StartStored DEF Rings
      <4>3. Extent(G[i].shape) \in Nat
        BY <4>2, ShapeFacts
      <4>4. G[i].start + k < Stop(G[i]) /\ Stop(G[i]) \in Int
        BY <2>1, <4>3 DEF Stop
      <4> QED
        BY <1>1, <2>1, <2>3, <4>2, <4>4
    <3>2. PICK m \in 1 .. n : m = G[N + 1].start + k - WriteAt(B) + 1
      BY <1>1, <2>1, <2>3, <3>1
    <3>3. /\ G[N + 1].start + k = WriteAt(B) + m - 1
          /\ WriteAt(B) - G[N + 1].start + m - 1 = k
      BY <1>1, <3>2
    <3>4. cells'[Cell(B, WriteAt(B) + m - 1)] = s[m]
      BY <1>2
    <3> QED
      BY <3>1, <3>3, <3>4
  <2> QED
    BY <2>2, <2>3
<1> QED
  BY <1>2, <1>3

\* StoreLength stores the length of the frame where the last one ends.
LEMMA StoreLengthKeepsRing ==
  ASSUME NEW B \in Int, NEW N \in Nat, NEW C, NEW G, Rings(B, N, C, G), StoreLength
  PROVE  Rings(B, N, C, G)'
<1>1. /\ rx.at = "length" /\ UNCHANGED <<sem, frames, serial>> /\ ByReceiver
      /\ Store(<<LengthOf(Len(rx.left))>>, 1)
      /\ rx' = [rx EXCEPT !.at = "load"]
  BY DEF StoreLength
<1>2. RxBusy /\ RxTyped /\ read' = read
  BY <1>1 DEF RxBusy, Rings, RingTyped, ByReceiver
<1>3. /\ G[N + 1].shape \in Shape /\ G[N + 1].serial \in Nat /\ G[N + 1].start \in Nat
      /\ Extent(G[N + 1].shape) \in Nat /\ Extent(G[N + 1].shape) >= 3
      /\ Stop(G[N + 1]) = G[N + 1].start + Extent(G[N + 1].shape)
  BY <1>2, Incoming
<1>4. /\ rx.left = Units(G[N + 1].shape, G[N + 1].serial) /\ WriteAt(B) = G[N + 1].start
      /\ WriteAt(B) + 1 < ReadAt(B) + dataSize
      /\ \/ Stop(G[N + 1]) < ReadAt(B) + dataSize
         \/ G[N + 1].start < B + dataSize
  BY <1>1 DEF Rings, Storing, Fitting
<1>5. Len(rx.left) = Extent(G[N + 1].shape) - 1
  BY <1>3, <1>4, UnitsFacts
<1>6. /\ WriteAt(B) \in Int /\ ReadAt(B) \in Int
      /\ write \in Position /\ read \in Position /\ dataSize \in Nat
  BY NotPast
<1>7. 1 <= BytesFree(write, read)
  <2>1. BytesFree(write, read) = dataSize - 1 - (WriteAt(B) - ReadAt(B))
    BY <1>6, Measures
  <2> QED
    BY <1>4, <1>6, <2>1
<1>8. write + 1 <= dataSize /\ 1 \in Nat
  BY <1>6 DEF Position
<1>9. PICK s : s = <<LengthOf(Len(rx.left))>>
  OBVIOUS
<1>10. \A k \in 1 .. 1 : s[k] = Word(G[N + 1], WriteAt(B) - G[N + 1].start + k - 1)
  <2>1. s[1] = LengthOf(Extent(G[N + 1].shape) - 1)
    BY <1>5, <1>9
  <2>2. \A k \in 1 .. 1 : k = 1 /\ WriteAt(B) - G[N + 1].start + k - 1 = 0
    BY <1>4, <1>6
  <2> QED
    BY <2>1, <2>2 DEF Word
<1>11. /\ write' \in Position
       /\ ReadAt(B)' = ReadAt(B) /\ WriteAt(B)' = WriteAt(B) + 1
       /\ Contents(B, N, G)'
  BY <1>1, <1>2, <1>7, <1>8, <1>9, <1>10, Stored
<1>12. rx'.at = "load" /\ rx'.left = rx.left /\ rx'.load = rx.load /\ RxTyped'
  BY <1>1, <1>2 DEF RxTyped
<1>13. \A k \in 1 .. Len(rx.left) :
         rx.left[k] = Word(G[N + 1], (WriteAt(B) + 1) - G[N + 1].start + k - 1)
  <2>1. \A k \in 1 .. Len(rx.left) :
          k # 0 /\ (WriteAt(B) + 1) - G[N + 1].start + k - 1 = k
    <3>1. PICK w \in Int : w = WriteAt(B)
      BY <1>3, <1>4, <1>5, <1>6
    <3>2. G[N + 1].start = w
      BY <1>3, <1>4, <1>5, <1>6, <3>1
    <3>3. \A k \in 1 .. Len(rx.left) : k # 0 /\ (w + 1) - w + k - 1 = k
      OBVIOUS
    <3> QED
      BY <3>1, <3>2, <3>3
  <2> QED
    BY <1>4, <2>1 DEF Word
<1>14. Storing(B, N, G)'
  <2>1. /\ G[N + 1].start < WriteAt(B)'
        /\ WriteAt(B)' + Len(rx.left) = Stop(G[N + 1])
    BY <1>3, <1>4, <1>5, <1>11
  <2>2. RxBusy' /\ serial' = serial
    BY <1>1, <1>12 DEF RxBusy
  <2>3. /\ G[N + 1].serial + Len(G[N + 1].shape) = serial + 1
        /\ \A i \in 1 .. N : G[i].serial + Len(G[i].shape) <= G[N + 1].serial
    BY <1>2 DEF Rings, Storing
  <2> QED
    BY <1>3, <1>11, <1>12, <1>13, <2>1, <2>2, <2>3 DEF Storing
<1>15. Fitting(B, N, G)'
  BY <1>4, <1>11, <1>12 DEF Fitting
<1> QED
  BY <1>1, <1>2, <1>11, <1>12, <1>14, <1>15, SameFrame

\* The piece the receiver stores next is a number of cells, all of them free and inside
\* the array, although BytesFree was computed from two loads of `read`.
LEMMA PieceFits ==
  ASSUME NEW B \in Int, NEW N \in Nat, NEW C, NEW G, Rings(B, N, C, G), rx.at = "chunk"
  PROVE  /\ Chunk \in Nat /\ Len(rx.left) \in Nat /\ Piece \in Nat
         /\ Piece <= BytesFree(write, read) /\ write + Piece <= dataSize
<1>1. write \in Position /\ read \in Position /\ rx.load \in Position
  BY NotPast
<1>2. PICK n \in Nat : n = Len(rx.left)
  BY DEF Rings, RingTyped, RxTyped
<1>3. /\ WriteAt(B) < LoadAt(B) + dataSize
      /\ WriteAt(B) + n < LoadAt(B) + dataSize \/ rx.load <= read
  BY <1>2 DEF Rings, Fitting, Storing
<1>4. /\ Chunk \in Nat
      /\ \A m \in 0 .. n : m <= Chunk => m <= BytesFree(write, read) /\ write + m <= dataSize
  BY <1>1, <1>3, ChunkFits DEF Chunk
<1>5. Piece \in 0 .. n /\ Piece <= Chunk
  BY <1>2, <1>4 DEF Piece
<1> QED
  BY <1>2, <1>4, <1>5

\* StoreChunk stores the next units of the frame, as many as fit in one piece.
LEMMA StoreChunkKeepsRing ==
  ASSUME NEW B \in Int, NEW N \in Nat, NEW C, NEW G, Rings(B, N, C, G), StoreChunk
  PROVE  Rings(B, N, C, G)'
<1>1. PICK n : n = Chunk
  OBVIOUS
<1>2. /\ rx.at = "chunk" /\ Len(rx.left) > n
      /\ UNCHANGED <<sem, frames, serial>> /\ ByReceiver
      /\ Store(rx.left, n)
      /\ rx' = [rx EXCEPT !.at = "load", !.left = SubSeq(rx.left, n + 1, Len(rx.left))]
  BY <1>1 DEF StoreChunk
<1>3. RxBusy /\ RxTyped /\ read' = read /\ rx.left \in Seq(Unit)
  BY <1>2 DEF RxBusy, Rings, RingTyped, ByReceiver, RxTyped
<1>4. /\ G[N + 1].shape \in Shape /\ G[N + 1].serial \in Nat /\ G[N + 1].start \in Nat
      /\ Extent(G[N + 1].shape) \in Nat
      /\ Stop(G[N + 1]) = G[N + 1].start + Extent(G[N + 1].shape)
  BY <1>3, Incoming
<1>5. /\ G[N + 1].start < WriteAt(B)
      /\ WriteAt(B) + Len(rx.left) = Stop(G[N + 1])
      /\ \A k \in 1 .. Len(rx.left) :
           rx.left[k] = Word(G[N + 1], WriteAt(B) - G[N + 1].start + k - 1)
  BY <1>2 DEF Rings, Storing
<1>6. PICK l \in Nat : l = Len(rx.left)
  BY <1>3
<1>7. n \in Nat /\ n < l /\ n <= BytesFree(write, read) /\ write + n <= dataSize
  <2>1. /\ Chunk \in Nat /\ Piece <= BytesFree(write, read) /\ write + Piece <= dataSize
    BY <1>2, PieceFits
  <2>2. n < l
    BY <1>1, <1>2, <1>6, <2>1
  <2>3. Piece = n
    BY <1>1, <1>2 DEF Piece
  <2> QED
    BY <1>1, <2>1, <2>2, <2>3
<1>8. \A k \in 1 .. n : rx.left[k] = Word(G[N + 1], WriteAt(B) - G[N + 1].start + k - 1)
  <2>1. \A k \in 1 .. n : k \in 1 .. l
    BY <1>7
  <2> QED
    BY <1>5, <1>6, <2>1
<1>9. /\ write' \in Position
      /\ ReadAt(B)' = ReadAt(B) /\ WriteAt(B)' = WriteAt(B) + n
      /\ Contents(B, N, G)'
  <2>1. PICK s : s = rx.left
    OBVIOUS
  <2>2. /\ Store(s, n)
        /\ \A k \in 1 .. n : s[k] = Word(G[N + 1], WriteAt(B) - G[N + 1].start + k - 1)
    BY <1>2, <1>8, <2>1
  <2> QED
    BY <1>3, <1>7, <2>2, Stored
<1>10. PICK t : t = SubSeq(rx.left, n + 1, Len(rx.left))
  OBVIOUS
<1>11. /\ t \in Seq(Unit) /\ Len(t) = l - n
       /\ \A k \in 1 .. l - n : t[k] = rx.left[n + k]
  <2>1. \A i \in n + 1 .. l : rx.left[i] \in Unit
    <3>1. \A i \in n + 1 .. l : i \in 1 .. l
      BY <1>7
    <3> QED
      BY <1>3, <1>6, <3>1, ElementOfSeq
  <2>2. n + 1 \in Int /\ l \in Int
    BY <1>7
  <2>3. t = SubSeq(rx.left, n + 1, l)
    BY <1>6, <1>10
  <2>4. /\ SubSeq(rx.left, n + 1, l) \in Seq(Unit)
        /\ Len(SubSeq(rx.left, n + 1, l)) = IF n + 1 <= l THEN l - (n + 1) + 1 ELSE 0
        /\ \A i \in 1 .. l - (n + 1) + 1 :
             SubSeq(rx.left, n + 1, l)[i] = rx.left[(n + 1) + i - 1]
    BY <2>1, <2>2, SubSeqProperties
  <2>5. n + 1 <= l /\ l - (n + 1) + 1 = l - n
    BY <1>7
  <2>6. \A i \in 1 .. l - n : (n + 1) + i - 1 = n + i
    BY <1>7
  <2> QED
    BY <2>3, <2>4, <2>5, <2>6
<1>12. rx'.at = "load" /\ rx'.left = t /\ rx'.load = rx.load /\ RxTyped'
  BY <1>2, <1>3, <1>10, <1>11 DEF RxTyped
<1>13. PICK w \in Int : w = WriteAt(B)
  BY NotPast
<1>14. \A k \in 1 .. Len(t) : t[k] = Word(G[N + 1], (w + n) - G[N + 1].start + k - 1)
  <2> SUFFICES ASSUME NEW k \in 1 .. l - n
               PROVE  t[k] = Word(G[N + 1], (w + n) - G[N + 1].start + k - 1)
    BY <1>11
  <2>1. /\ n + k \in 1 .. l
        /\ (w + n) - G[N + 1].start + k - 1 = w - G[N + 1].start + (n + k) - 1
    BY <1>4, <1>7
  <2>2. rx.left[n + k] = Word(G[N + 1], w - G[N + 1].start + (n + k) - 1)
    BY <1>5, <1>6, <1>13, <2>1
  <2> QED
    BY <1>11, <2>1, <2>2
<1>15. Storing(B, N, G)'
  <2>1. /\ G[N + 1].start < WriteAt(B)'
        /\ WriteAt(B)' + Len(t) = Stop(G[N + 1])
    <3>1. PICK a \in Int : a = G[N + 1].start
      BY <1>4
    <3>2. PICK e \in Int : e = Stop(G[N + 1])
      <4>1. Stop(G[N + 1]) \in Int
        BY <1>4
      <4> QED
        BY <4>1
    <3>3. a < w /\ w + l = e
      BY <1>5, <1>6, <1>13, <3>1, <3>2
    <3>4. WriteAt(B)' = w + n
      BY <1>9, <1>13
    <3>5. a < w + n /\ (w + n) + (l - n) = e
      BY <1>7, <3>3
    <3> QED
      BY <1>11, <3>1, <3>2, <3>4, <3>5
  <2>2. RxBusy' /\ serial' = serial
    BY <1>2, <1>12 DEF RxBusy
  <2>3. /\ G[N + 1].serial + Len(G[N + 1].shape) = serial + 1
        /\ \A i \in 1 .. N : G[i].serial + Len(G[i].shape) <= G[N + 1].serial
    BY <1>3 DEF Rings, Storing
  <2>4. \A k \in 1 .. Len(t) : t[k] = Word(G[N + 1], WriteAt(B)' - G[N + 1].start + k - 1)
    BY <1>9, <1>13, <1>14
  <2> QED
    BY <1>4, <1>12, <2>1, <2>2, <2>3, <2>4 DEF Storing
<1>16. Fitting(B, N, G)'
  <2>1. /\ LoadAt(B) \in Int /\ ReadAt(B) \in Int /\ LoadAt(B) <= ReadAt(B) /\ dataSize \in Nat
    BY NotPast
  <2>2. \/ Stop(G[N + 1]) < LoadAt(B) + dataSize
        \/ G[N + 1].start < B + dataSize
    BY <1>2 DEF Rings, Fitting
  <2>3. \/ Stop(G[N + 1]) < ReadAt(B) + dataSize
        \/ G[N + 1].start < B + dataSize
    BY <1>4, <2>1, <2>2
  <2> QED
    BY <1>9, <1>12, <2>3 DEF Fitting
<1> QED
  BY <1>2, <1>3, <1>9, <1>12, <1>15, <1>16, SameFrame

\* StoreRest stores the frame to its end.
LEMMA StoreRestKeepsRing ==
  ASSUME NEW B \in Int, NEW N \in Nat, NEW C, NEW G, Rings(B, N, C, G), StoreRest
  PROVE  Rings(B, N, C, G)'
<1>1. PICK n : n = Len(rx.left)
  OBVIOUS
<1>2. /\ rx.at = "chunk" /\ n <= Chunk
      /\ UNCHANGED <<sem, frames, serial>> /\ ByReceiver
      /\ Store(rx.left, n)
      /\ rx' = [rx EXCEPT !.at = "notify", !.left = <<>>]
  BY <1>1 DEF StoreRest
<1>3. RxBusy /\ RxTyped /\ read' = read
  BY <1>2 DEF RxBusy, Rings, RingTyped, ByReceiver
<1>4. n \in Nat /\ n <= BytesFree(write, read) /\ write + n <= dataSize
  <2>1. /\ Chunk \in Nat /\ Len(rx.left) \in Nat
        /\ Piece <= BytesFree(write, read) /\ write + Piece <= dataSize
    BY <1>2, PieceFits
  <2>2. Piece = n
    BY <1>1, <1>2, <2>1 DEF Piece
  <2> QED
    BY <1>1, <2>1, <2>2
<1>5. /\ WriteAt(B) + n = Stop(G[N + 1])
      /\ \A k \in 1 .. n : rx.left[k] = Word(G[N + 1], WriteAt(B) - G[N + 1].start + k - 1)
  BY <1>1, <1>2 DEF Rings, Storing
<1>6. /\ write' \in Position
      /\ ReadAt(B)' = ReadAt(B) /\ WriteAt(B)' = WriteAt(B) + n
      /\ Contents(B, N, G)'
  <2>1. PICK s : s = rx.left
    OBVIOUS
  <2>2. /\ Store(s, n)
        /\ \A k \in 1 .. n : s[k] = Word(G[N + 1], WriteAt(B) - G[N + 1].start + k - 1)
    BY <1>2, <1>5, <2>1
  <2> QED
    BY <1>3, <1>4, <2>2, Stored
<1>7. rx'.at = "notify" /\ RxTyped'
  <2>1. <<>> \in Seq(Unit)
    BY EmptySeq
  <2> QED
    BY <1>2, <1>3, <2>1 DEF RxTyped
<1>8. Storing(B, N, G)'
  <2>1. RxBusy' /\ serial' = serial
    BY <1>2, <1>7 DEF RxBusy
  <2>2. /\ G[N + 1].shape \in Shape /\ G[N + 1].serial \in Nat
        /\ G[N + 1].serial + Len(G[N + 1].shape) = serial + 1
        /\ \A i \in 1 .. N : G[i].serial + Len(G[i].shape) <= G[N + 1].serial
    BY <1>3 DEF Rings, Storing
  <2> QED
    BY <1>5, <1>6, <1>7, <2>1, <2>2 DEF Storing
<1>9. Fitting(B, N, G)'
  BY <1>7 DEF Fitting
<1> QED
  BY <1>2, <1>3, <1>6, <1>7, <1>8, <1>9, SameFrame

\* A frame arrives: it starts where the last one ends, with the next serials.
LEMMA ArriveKeepsRing ==
  ASSUME NEW B \in Int, NEW N \in Nat, NEW C, NEW G, Rings(B, N, C, G), Arrive
  PROVE  \E H : Rings(B, N, C, H)'
<1>1. PICK shape \in Shape :
        /\ rx.at = "idle" /\ serial' = serial + Len(shape)
        /\ rx' = IF exists
                 THEN [at |-> "check", left |-> Units(shape, serial + 1), load |-> read]
                 ELSE ReceiverIdle
        /\ UNCHANGED <<write, cells, sem>> /\ ByReceiver
  BY DEF Arrive
<1>2. /\ read' = read /\ stopExecution' = stopExecution /\ delivered' = delivered
      /\ run' = run
  BY <1>1 DEF ByReceiver, hist
<1>3. /\ RingTyped /\ FramesInOrder(N, G) /\ Contents(B, N, G) /\ Storing(B, N, G)
      /\ Counted(N, C) /\ C \in 0 .. N /\ serial \in Nat
  BY RingsParts DEF Rings
<1>4. /\ WriteAt(B) \in Int /\ ReadAt(B) \in Int /\ WriteAt(B) < ReadAt(B) + dataSize
      /\ read \in Position /\ write \in Position /\ dataSize \in Nat
      /\ G[N + 1].start \in Nat
  BY NotPast
<1>5. Len(shape) \in 1 .. 2 /\ Extent(shape) \in Nat
  BY ShapeFacts
<1>6. /\ serial' \in Nat /\ serial < serial' /\ serial <= serial'
      /\ serial' + 1 = serial + 1 + Len(shape)
  <2>1. PICK l \in 1 .. 2 : l = Len(shape)
    BY <1>5
  <2>2. serial' = serial + l
    BY <1>1, <2>1
  <2>3. serial \in Nat
    BY <1>3
  <2>4. /\ serial' \in Nat /\ serial < serial' /\ serial <= serial'
        /\ serial' + 1 = serial + 1 + l
    BY ONLY <2>2, <2>3
  <2> QED
    BY ONLY <2>1, <2>4
<1>7. /\ ReadAt(B)' = ReadAt(B) /\ WriteAt(B)' = WriteAt(B)
      /\ WriteAt(B) = G[N + 1].start
  BY <1>1, <1>2, <1>3 DEF ReadAt, WriteAt, Storing
<1>8. CASE ~exists
  <2>1. rx' = ReceiverIdle /\ rx'.at = "idle" /\ RxTyped' /\ ~RxBusy'
    <3>1. <<>> \in Seq(Unit) /\ 0 \in Position
      BY EmptySeq, RingAssumption DEF Position
    <3> QED
      BY <1>1, <1>8, <3>1 DEF ReceiverIdle, RxTyped, RxBusy
  <2>2. Taking(B, N, C, G)' /\ Delivered'
    <3>1. N \in {N, N + 1} /\ \A i \in 1 .. N : G[i] = G[i]
      OBVIOUS
    <3> QED
      BY <1>1, <1>2, <3>1, ReaderUntouched
  <2>3. AllBehind(N, C, G)'
    <3>1. N \in {N, N + 1} /\ N # N + 1 /\ \A i \in 1 .. N : G[i] = G[i]
      OBVIOUS
    <3> QED
      BY <1>1, <1>6, <2>1, <3>1, StillAhead
  <2>4. RingTyped'
    BY <1>1, <1>2, <1>3, <1>6, <2>1 DEF RingTyped, RunTyped
  <2>5. FramesInOrder(N, G)'
    <3>1. \A i \in 1 .. N : G[i].serial + Len(G[i].shape) <= serial' + 1
      <4> SUFFICES ASSUME NEW i \in 1 .. N
                   PROVE  G[i].serial + Len(G[i].shape) <= serial' + 1
        OBVIOUS
      <4>1. G[i].shape \in Shape /\ G[i].serial \in Nat
            /\ G[i].serial + Len(G[i].shape) <= serial + 1
        BY <1>3 DEF FramesInOrder
      <4>2. Len(G[i].shape) \in 1 .. 2
        BY <4>1, ShapeFacts
      <4> QED
        BY <1>3, <1>6, <4>1, <4>2
    <3> QED
      BY <1>3, <3>1 DEF FramesInOrder
  <2>6. Contents(B, N, G)'
    BY <1>1, <1>3, <1>7 DEF Contents
  <2>7. Storing(B, N, G)' /\ Fitting(B, N, G)'
    BY <1>7, <2>1 DEF Storing, Fitting
  <2>8. Counted(N, C)'
    BY <1>1, <1>2, <1>3 DEF Counted
  <2>9. Rings(B, N, C, G)'
    BY <2>2, <2>3, <2>4, <2>5, <2>6, <2>7, <2>8 DEF Rings
  <2> QED
    BY <2>9
<1>9. CASE exists
  <2>1. PICK f : f = [start |-> G[N + 1].start, shape |-> shape, serial |-> serial + 1]
    OBVIOUS
  <2>2. f.start = G[N + 1].start /\ f.shape = shape /\ f.serial = serial + 1
    BY <2>1
  <2>3. PICK H : H = [i \in Nat |-> IF i = N + 1 THEN f ELSE G[i]]
    OBVIOUS
  <2>4. H[N + 1] = f /\ \A i \in 1 .. N : H[i] = G[i]
    <3>1. N + 1 \in Nat /\ \A i \in 1 .. N : i \in Nat /\ i # N + 1
      OBVIOUS
    <3> QED
      BY <2>3, <3>1
  <2>5. /\ rx'.at = "check" /\ rx'.left = Units(shape, serial + 1) /\ rx'.load = read
        /\ RxTyped' /\ RxBusy'
    <3>1. Units(shape, serial + 1) \in Seq(Unit)
      <4>1. serial + 1 \in Nat
        BY <1>3
      <4> QED
        BY <4>1, UnitsFacts
    <3>2. rx' = [at |-> "check", left |-> Units(shape, serial + 1), load |-> read]
      BY <1>1, <1>9
    <3> QED
      BY <1>4, <3>1, <3>2 DEF RxTyped, RxBusy
  <2>6. Taking(B, N, C, H)' /\ Delivered'
    <3>1. N \in {N, N + 1} /\ H[N + 1].start = G[N + 1].start
      BY <2>2, <2>4
    <3> QED
      BY <1>1, <1>2, <2>4, <3>1, ReaderUntouched
  <2>7. AllBehind(N, C, H)'
    <3>1. N \in {N, N + 1} /\ N # N + 1
      OBVIOUS
    <3>2. H[N + 1].serial \in Nat /\ H[N + 1].serial > serial
      BY <1>3, <2>2, <2>4
    <3> QED
      BY <1>1, <1>6, <2>4, <3>1, <3>2, StillAhead
  <2>8. RingTyped'
    BY <1>1, <1>2, <1>3, <1>6, <2>5 DEF RingTyped, RunTyped
  <2>9. FramesInOrder(N, H)'
    <3>1. \A i \in 1 .. N + 1 : H[i].start = G[i].start
      <4>1. \A i \in 1 .. N + 1 : i = N + 1 \/ i \in 1 .. N
        OBVIOUS
      <4> QED
        BY <2>2, <2>4, <4>1
    <3>2. \A i \in 1 .. N : G[i].serial + Len(G[i].shape) <= serial' + 1
      <4> SUFFICES ASSUME NEW i \in 1 .. N
                   PROVE  G[i].serial + Len(G[i].shape) <= serial' + 1
        OBVIOUS
      <4>1. G[i].shape \in Shape /\ G[i].serial \in Nat
            /\ G[i].serial + Len(G[i].shape) <= serial + 1
        BY <1>3 DEF FramesInOrder
      <4>2. Len(G[i].shape) \in 1 .. 2
        BY <4>1, ShapeFacts
      <4> QED
        BY <1>3, <1>6, <4>1, <4>2
    <3>3. \A i \in 1 .. N : i \in 1 .. N + 1 /\ i + 1 \in 1 .. N + 1
      OBVIOUS
    <3>4. \A i, j \in 1 .. N + 1 : i < j => Stop(H[i]) <= H[j].start
      <4> SUFFICES ASSUME NEW i \in 1 .. N + 1, NEW j \in 1 .. N + 1, i < j
                   PROVE  Stop(H[i]) <= H[j].start
        OBVIOUS
      <4>1. i \in 1 .. N
        OBVIOUS
      <4>2. H[i] = G[i] /\ H[j].start = G[j].start
        BY <2>4, <3>1, <4>1
      <4>3. Stop(G[i]) <= G[j].start
        BY <1>3 DEF FramesInOrder
      <4> QED
        BY <4>2, <4>3
    <3>5. \A i \in 1 .. N : H[i + 1].start = Stop(H[i])
      <4> SUFFICES ASSUME NEW i \in 1 .. N PROVE H[i + 1].start = Stop(H[i])
        OBVIOUS
      <4>1. H[i] = G[i] /\ H[i + 1].start = G[i + 1].start
        BY <2>4, <3>1, <3>3
      <4>2. G[i + 1].start = Stop(G[i])
        BY <1>3 DEF FramesInOrder
      <4> QED
        BY <4>1, <4>2
    <3>6. \A i \in 1 .. N : /\ H[i].shape \in Shape /\ H[i].serial \in Nat
                            /\ H[i].serial + Len(H[i].shape) <= serial' + 1
      BY <1>3, <2>4, <3>2 DEF FramesInOrder
    <3>7. \A i, j \in 1 .. N : i < j => H[i].serial + Len(H[i].shape) <= H[j].serial
      BY <1>3, <2>4 DEF FramesInOrder
    <3>8. \A i \in 1 .. N + 1 : H[i].start \in Nat
      BY <1>3, <3>1 DEF FramesInOrder
    <3> QED
      BY <3>4, <3>5, <3>6, <3>7, <3>8 DEF FramesInOrder
  <2>10. Contents(B, N, H)'
    <3> SUFFICES ASSUME NEW i \in 1 .. N + 1, NEW k \in 0 .. Extent(H[i].shape) - 1,
                        ReadAt(B) <= H[i].start + k, H[i].start + k < WriteAt(B)
                 PROVE  cells[Cell(B, H[i].start + k)] = Word(H[i], k)
      BY <1>1, <1>7 DEF Contents
    <3>1. i # N + 1
      <4>1. k >= 0 /\ k \in Int
        BY <1>5, <2>2, <2>4
      <4> QED
        BY <1>4, <1>7, <2>2, <2>4, <4>1
    <3>2. i \in 1 .. N
      BY <3>1
    <3>3. H[i] = G[i]
      BY <2>4, <3>2
    <3> QED
      BY <1>3, <3>3 DEF Contents
  <2>11. Storing(B, N, H)'
    <3>1. f.shape \in Shape /\ f.serial \in Nat /\ f.serial + Len(f.shape) = serial' + 1
      BY <1>3, <1>6, <2>2
    <3>2. \A i \in 1 .. N : H[i].serial + Len(H[i].shape) <= f.serial
      BY <1>3, <2>2, <2>4 DEF FramesInOrder
    <3>3. WriteAt(B)' = f.start
      BY <1>7, <2>2
    <3>4. rx'.left = Units(f.shape, f.serial)
      BY <2>2, <2>5
    <3> QED
      BY <2>4, <2>5, <3>1, <3>2, <3>3, <3>4 DEF Storing
  <2>12. Fitting(B, N, H)'
    <3>1. LoadAt(B)' = ReadAt(B)
      <4>1. ~(read > read) /\ read \in Int
        BY <1>4, RingAssumption DEF Position
      <4> QED
        BY <1>2, <2>5, <4>1 DEF LoadAt, ReadAt
    <3> QED
      BY <1>4, <1>7, <2>5, <3>1 DEF Fitting
  <2>13. Counted(N, C)'
    BY <1>1, <1>2, <1>3 DEF Counted
  <2>14. Rings(B, N, C, H)'
    BY <2>6, <2>7, <2>8, <2>9, <2>10, <2>11, <2>12, <2>13 DEF Rings
  <2> QED
    BY <2>14
<1> QED
  BY <1>8, <1>9

\* A frame that has been stored to its end is one more complete frame, and the
\* next one will begin where it ends.
LEMMA NotifyKeepsRing ==
  ASSUME NEW B \in Int, NEW N \in Nat, NEW C, NEW G, Rings(B, N, C, G), Notify
  PROVE  \E H : Rings(B, N + 1, C, H)'
<1>1. /\ rx.at = "notify" /\ sem' = sem + 1 /\ rx' = ReceiverIdle
      /\ UNCHANGED <<write, cells, frames, serial>> /\ ByReceiver
  BY DEF Notify
<1>2. /\ read' = read /\ stopExecution' = stopExecution /\ delivered' = delivered
      /\ run' = run
  BY <1>1 DEF ByReceiver, hist
<1>3. /\ RingTyped /\ FramesInOrder(N, G) /\ Contents(B, N, G) /\ Storing(B, N, G)
      /\ Counted(N, C) /\ C \in 0 .. N /\ serial \in Nat /\ sem \in Nat
  BY RingsParts DEF Rings
<1>4. /\ WriteAt(B) \in Int /\ ReadAt(B) \in Int /\ RxBusy
  BY <1>1, NotPast DEF RxBusy
<1>5. /\ G[N + 1].shape \in Shape /\ G[N + 1].serial \in Nat /\ G[N + 1].start \in Nat
      /\ Extent(G[N + 1].shape) \in Nat
      /\ Stop(G[N + 1]) = G[N + 1].start + Extent(G[N + 1].shape)
  BY <1>4, Incoming
<1>6. /\ ReadAt(B)' = ReadAt(B) /\ WriteAt(B)' = WriteAt(B)
      /\ WriteAt(B) = Stop(G[N + 1])
  BY <1>1, <1>2, <1>3 DEF ReadAt, WriteAt, Storing
<1>7. /\ G[N + 1].serial + Len(G[N + 1].shape) = serial + 1
      /\ \A i \in 1 .. N : G[i].serial + Len(G[i].shape) <= G[N + 1].serial
  BY <1>3, <1>4 DEF Storing
<1>8. PICK f : f = [start |-> Stop(G[N + 1]), shape |-> <<>>, serial |-> 0]
  OBVIOUS
<1>9. f.start = Stop(G[N + 1]) /\ f.shape = <<>>
  BY <1>8
<1>10. PICK M \in Nat : M = N + 1
  OBVIOUS
<1>11. PICK H : H = [i \in Nat |-> IF i = M + 1 THEN f ELSE G[i]]
  OBVIOUS
<1>12. H[M + 1] = f /\ \A i \in 1 .. M : H[i] = G[i]
  <2>1. M + 1 \in Nat /\ \A i \in 1 .. M : i \in Nat /\ i # M + 1
    OBVIOUS
  <2> QED
    BY <1>11, <2>1
<1>13. /\ M \in {N, N + 1} /\ M \in 1 .. M /\ H[N + 1] = G[N + 1]
       /\ \A i \in 1 .. N : i \in 1 .. M /\ H[i] = G[i]
  <2>1. M \in 1 .. M /\ \A i \in 1 .. N : i \in 1 .. M
    BY <1>10
  <2> QED
    BY <1>10, <1>12, <2>1
<1>14. rx'.at = "idle" /\ RxTyped' /\ ~RxBusy'
  <2>1. <<>> \in Seq(Unit) /\ 0 \in Position
    BY EmptySeq, RingAssumption DEF Position
  <2> QED
    BY <1>1, <2>1 DEF ReceiverIdle, RxTyped, RxBusy
<1>15. Taking(B, M, C, H)' /\ Delivered'
  BY <1>1, <1>2, <1>13, ReaderUntouched
<1>16. AllBehind(M, C, H)'
  <2>1. serial' \in Nat /\ serial <= serial'
    BY <1>1, <1>3
  <2> QED
    BY <1>1, <1>4, <1>13, <1>14, <2>1, StillAhead
<1>17. RingTyped'
  <2>1. sem' \in Nat
    BY <1>1, <1>3
  <2> QED
    BY <1>1, <1>2, <1>3, <1>14, <2>1 DEF RingTyped, RunTyped
<1>18. \A i, j \in 1 .. N + 1 : i < j => Stop(G[i]) <= G[j].start
  BY <1>3 DEF FramesInOrder
<1>19. FramesInOrder(M, H)'
  <2>1. \A i \in 1 .. M : /\ G[i].shape \in Shape /\ G[i].serial \in Nat
                          /\ G[i].serial + Len(G[i].shape) <= serial + 1
    <3> SUFFICES ASSUME NEW i \in 1 .. M
                 PROVE  /\ G[i].shape \in Shape /\ G[i].serial \in Nat
                        /\ G[i].serial + Len(G[i].shape) <= serial + 1
      OBVIOUS
    <3>1. CASE i \in 1 .. N
      BY <1>3, <3>1 DEF FramesInOrder
    <3>2. CASE i \notin 1 .. N
      <4>1. i = N + 1
        BY <1>10, <3>2
      <4>2. /\ G[N + 1].shape \in Shape /\ G[N + 1].serial \in Nat
            /\ G[N + 1].serial + Len(G[N + 1].shape) <= serial + 1
        BY <1>3, <1>5, <1>7
      <4> QED
        BY <4>1, <4>2
    <3> QED
      BY <3>1, <3>2
  <2>2. \A i \in 1 .. M + 1 : H[i].start \in Nat
    <3> SUFFICES ASSUME NEW i \in 1 .. M + 1 PROVE H[i].start \in Nat
      OBVIOUS
    <3>1. CASE i = M + 1
      BY <1>5, <1>9, <1>12, <3>1
    <3>2. CASE i # M + 1
      <4>1. i \in 1 .. M /\ i \in 1 .. N + 1
        BY <1>10, <3>2
      <4> QED
        BY <1>3, <1>12, <4>1 DEF FramesInOrder
    <3> QED
      BY <3>1, <3>2
  <2>3. \A i \in 1 .. M : H[i + 1].start = Stop(H[i])
    <3> SUFFICES ASSUME NEW i \in 1 .. M PROVE H[i + 1].start = Stop(H[i])
      OBVIOUS
    <3>1. H[i] = G[i]
      BY <1>12
    <3>2. CASE i = M
      BY <1>9, <1>10, <1>12, <3>1, <3>2
    <3>3. CASE i # M
      <4>1. i \in 1 .. N /\ i + 1 \in 1 .. M
        BY <1>10, <3>3
      <4>2. G[i + 1].start = Stop(G[i])
        BY <1>3, <4>1 DEF FramesInOrder
      <4>3. H[i + 1] = G[i + 1]
        BY <1>12, <4>1
      <4> QED
        BY <3>1, <4>2, <4>3
    <3> QED
      BY <3>2, <3>3
  <2>4. \A i, j \in 1 .. M + 1 : i < j => Stop(H[i]) <= H[j].start
    <3> SUFFICES ASSUME NEW i \in 1 .. M + 1, NEW j \in 1 .. M + 1, i < j
                 PROVE  Stop(H[i]) <= H[j].start
      OBVIOUS
    <3>1. i \in 1 .. M /\ i \in 1 .. N + 1
      BY <1>10
    <3>2. H[i] = G[i]
      BY <1>12, <3>1
    <3>3. CASE j \in 1 .. M
      <4>1. H[j] = G[j] /\ j \in 1 .. N + 1
        BY <1>10, <1>12, <3>3
      <4> QED
        BY <1>18, <3>1, <3>2, <4>1
    <3>4. CASE j \notin 1 .. M
      <4>1. H[j].start = Stop(G[N + 1])
        <5>1. j = M + 1
          BY <3>4
        <5> QED
          BY <1>9, <1>12, <5>1
      <4>2. Stop(G[i]) <= Stop(G[N + 1])
        <5>1. CASE i = N + 1
          BY <1>5, <5>1
        <5>2. CASE i # N + 1
          <6>1. Stop(G[i]) <= G[N + 1].start
            BY <1>18, <3>1, <5>2
          <6>2. i \in 1 .. N
            BY <3>1, <5>2
          <6>3. G[i].shape \in Shape /\ G[i].start \in Nat
            BY <1>3, <3>1, <6>2 DEF FramesInOrder
          <6>4. Extent(G[i].shape) \in Nat
            BY <6>3, ShapeFacts
          <6>5. Stop(G[i]) \in Nat
            BY <6>3, <6>4 DEF Stop
          <6> QED
            BY <1>5, <6>1, <6>5
        <5> QED
          BY <5>1, <5>2
      <4> QED
        BY <3>2, <4>1, <4>2
    <3> QED
      BY <3>3, <3>4
  <2>5. \A i, j \in 1 .. M : i < j => G[i].serial + Len(G[i].shape) <= G[j].serial
    <3> SUFFICES ASSUME NEW i \in 1 .. M, NEW j \in 1 .. M, i < j
                 PROVE  G[i].serial + Len(G[i].shape) <= G[j].serial
      OBVIOUS
    <3>1. i \in 1 .. N
      BY <1>10
    <3>2. CASE j \in 1 .. N
      BY <1>3, <3>1, <3>2 DEF FramesInOrder
    <3>3. CASE j \notin 1 .. N
      <4>1. j = N + 1
        BY <1>10, <3>3
      <4> QED
        BY <1>7, <3>1, <4>1
    <3> QED
      BY <3>2, <3>3
  <2> QED
    BY <1>1, <1>12, <2>1, <2>2, <2>3, <2>4, <2>5 DEF FramesInOrder
<1>20. Contents(B, M, H)'
  <2> SUFFICES ASSUME NEW i \in 1 .. M + 1, NEW k \in 0 .. Extent(H[i].shape) - 1,
                      ReadAt(B) <= H[i].start + k, H[i].start + k < WriteAt(B)
               PROVE  cells[Cell(B, H[i].start + k)] = Word(H[i], k)
    BY <1>1, <1>6 DEF Contents
  <2>1. i # M + 1
    <3>1. k >= 0 /\ k \in Int
      OBVIOUS
    <3> QED
      BY <1>4, <1>6, <1>9, <1>12, <3>1
  <2>2. i \in 1 .. M /\ i \in 1 .. N + 1
    BY <1>10, <2>1
  <2>3. H[i] = G[i]
    BY <1>12, <2>2
  <2> QED
    BY <1>3, <2>2, <2>3 DEF Contents
<1>21. Storing(B, M, H)' /\ Fitting(B, M, H)'
  BY <1>6, <1>9, <1>12, <1>14 DEF Storing, Fitting
<1>22. Counted(M, C)'
  BY <1>1, <1>2, <1>3, <1>10 DEF Counted
<1>23. Rings(B, M, C, H)'
  BY <1>15, <1>16, <1>17, <1>19, <1>20, <1>21, <1>22 DEF Rings
<1> QED
  BY <1>10, <1>23

-----------------------------------------------------------------------------
(***************************************************************************)
(* The user's thread, the initial state and the theorems.                  *)
(***************************************************************************)
\* The user's thread has no part in the ring: it may stop the dispatcher's thread,
\* and the semaphore counts frames only until then.
LEMMA RingUntouched ==
  ASSUME NEW B \in Int, NEW N \in Nat, NEW C, NEW G, Rings(B, N, C, G),
         UNCHANGED <<ring, rx, run, serial, delivered>>,
         sem' \in Nat, stopExecution' \in BOOLEAN,
         ~stopExecution' => ~stopExecution /\ sem' = sem
  PROVE  Rings(B, N, C, G)'
<1>1. UNCHANGED <<write, read, cells>>
  BY DEF ring
<1>2. RingTyped'
  BY <1>1 DEF Rings, RingTyped, RxTyped, RunTyped
<1>3. FramesInOrder(N, G)' /\ Contents(B, N, G)'
  BY <1>1 DEF Rings, FramesInOrder, Contents, ReadAt, WriteAt
<1>4. Storing(B, N, G)' /\ Fitting(B, N, G)'
  BY <1>1 DEF Rings, Storing, Fitting, ReadAt, WriteAt, LoadAt, RxBusy
<1>5. Taking(B, N, C, G)'
  BY <1>1 DEF Rings, Taking, ReadAt, RunBusy, RunAtSample, At
<1>6. Counted(N, C)'
  BY DEF Rings, Counted
<1>7. Delivered' /\ AllBehind(N, C, G)'
  BY DEF Rings, Delivered, AllBehind, Behind, Current, At, RxBusy, RunBusy
<1> QED
  BY <1>2, <1>3, <1>4, <1>5, <1>6, <1>7 DEF Rings

\* No operation of the user's thread touches the ring; the destructor's post to the
\* semaphore counts no frame, and it sets stopExecution.
LEMMA UserKeepsRing ==
  ASSUME NEW B \in Int, NEW N \in Nat, NEW C, NEW G, Rings(B, N, C, G),
         UserStep \/ Destroy \/ \E h \in Handle : GetSymbolHandle(h) \/ Drop(h)
  PROVE  Rings(B, N, C, G)'
<1>1. sem \in Nat /\ stopExecution \in BOOLEAN
  BY DEF Rings, RingTyped
<1>2. UNCHANGED <<ring, rx, run, serial, delivered>>
  BY DEF UserStep, AddNotification, DispatcherListAdd, Emplace, DeleteRemote, EraseLocal,
         DeleteSymbolHandle, Destroy, GetSymbolHandle, Drop, ByUser
<1>3. CASE Destroy
  <2>1. stopExecution' = TRUE /\ sem' = sem + 1
    BY <1>3 DEF Destroy, Woken
  <2> QED
    BY <1>1, <1>2, <2>1, RingUntouched
<1>4. CASE ~Destroy
  <2>1. UNCHANGED <<sem, stopExecution>>
    BY <1>4 DEF UserStep, AddNotification, DispatcherListAdd, Emplace, DeleteRemote,
         EraseLocal, DeleteSymbolHandle, GetSymbolHandle, Drop
  <2> QED
    BY <1>1, <1>2, <2>1, RingUntouched
<1> QED
  BY <1>3, <1>4

\* At first there is no frame and both pointers stand at the begin.
LEMMA RingBegins ==
  ASSUME NtfInit
  PROVE  \E G : Rings(0, 0, 0, G)
<1>1. PICK f : f = [start |-> 0, shape |-> <<>>, serial |-> 0]
  OBVIOUS
<1>2. PICK G : G = [i \in Nat |-> f]
  OBVIOUS
<1>3. G[1].start = 0 /\ G[0 + 1].start = 0
  BY <1>1, <1>2
<1>4. 0 \in Position /\ dataSize \in Nat /\ dataSize > 1
  BY RingAssumption DEF Position
<1>5. /\ write = 0 /\ read = 0 /\ sem = 0 /\ serial = 0 /\ stopExecution = FALSE
      /\ rx = [at |-> "idle", left |-> <<>>, load |-> 0]
      /\ run = [at |-> "acquire", full |-> 0, samples |-> 0, h |-> 0, size |-> 0,
                data |-> <<>>]
      /\ delivered = <<>> /\ Len(delivered) = 0
  BY DEF NtfInit, ReceiverIdle, RunIdle
<1>6. RingTyped
  <2>1. /\ <<>> \in Seq(Unit) /\ <<>> \in Seq(DataUnit)
        /\ <<>> \in Seq([h : Handle, data : Seq(DataUnit)])
    BY EmptySeq
  <2>2. RxTyped /\ RunTyped
    BY <1>4, <1>5, <2>1 DEF RxTyped, RunTyped
  <2> QED
    BY <1>4, <1>5, <2>1, <2>2 DEF RingTyped
<1>7. ReadAt(0) = 0 /\ WriteAt(0) = 0
  BY <1>5 DEF ReadAt, WriteAt
<1>8. FramesInOrder(0, G)
  <2>1. \A i \in 1 .. 0 + 1 : i = 1
    OBVIOUS
  <2>2. \A i \in 1 .. 0 : FALSE
    OBVIOUS
  <2> QED
    BY <1>3, <2>1, <2>2 DEF FramesInOrder
<1>9. Contents(0, 0, G)
  <2> SUFFICES ASSUME NEW i \in 1 .. 0 + 1, NEW k \in 0 .. Extent(G[i].shape) - 1,
                      G[i].start + k < 0
               PROVE  FALSE
    BY <1>7 DEF Contents
  <2>1. i = 1 /\ k >= 0 /\ k \in Int
    OBVIOUS
  <2> QED
    BY <1>3, <2>1
<1>10. Storing(0, 0, G) /\ Fitting(0, 0, G)
  BY <1>3, <1>5, <1>7 DEF Storing, Fitting, RxBusy
<1>11. Taking(0, 0, 0, G)
  BY <1>3, <1>5, <1>7 DEF Taking, RunBusy, RunAtSample
<1>12. Counted(0, 0)
  BY <1>5 DEF Counted
<1>13. Delivered /\ AllBehind(0, 0, G)
  <2>1. \A m \in 1 .. Len(delivered) : FALSE
    BY <1>5
  <2>2. Len(delivered) <= 2
    BY <1>5
  <2> QED
    BY <2>1, <2>2 DEF Delivered, AllBehind
<1> QED
  BY <1>6, <1>8, <1>9, <1>10, <1>11, <1>12, <1>13 DEF Rings

\* Every step of NotificationDispatcher::Run keeps the ring.
LEMMA RunKeepsRing ==
  ASSUME NEW B \in Int, NEW N \in Nat, NEW C, NEW G, Rings(B, N, C, G), RunStep
  PROVE  \E D \in Int, E \in Nat : Rings(D, N, E, G)'
<1>1. CASE Acquire
  BY <1>1, AcquireKeepsRing
<1>2. CASE ReadLength
  BY <1>2, ReadLengthKeepsRing
<1>3. CASE ReadHeader
  BY <1>3, ReadHeaderKeepsRing
<1>4. CASE ReadSample
  BY <1>4, ReadSampleKeepsRing
<1>5. CASE FindHandle
  BY <1>5, FindHandleKeepsRing
<1>6. CASE ReadData
  BY <1>6, ReadDataKeepsRing
<1>7. CASE Callback
  BY <1>7, CallbackKeepsRing
<1>8. CASE SkipSample
  BY <1>8, SkipSampleKeepsRing
<1>9. CASE Cleanup
  BY <1>9, CleanupKeepsRing
<1> QED
  BY <1>1, <1>2, <1>3, <1>4, <1>5, <1>6, <1>7, <1>8, <1>9 DEF RunStep

\* Every step of AmsConnection::ReceiveNotification keeps the ring.
LEMMA ReceiverKeepsRing ==
  ASSUME NEW B \in Int, NEW N \in Nat, NEW C, NEW G, Rings(B, N, C, G),
         Arrive \/ ReceiverStep \/ ReceiveFails
  PROVE  \E M \in Nat : \E H : Rings(B, M, C, H)'
<1>1. CASE Arrive
  <2>1. \E H : Rings(B, N, C, H)'
    BY <1>1, ArriveKeepsRing
  <2> QED
    BY <2>1
<1>2. CASE Notify
  <2>1. \E H : Rings(B, N + 1, C, H)'
    BY <1>2, NotifyKeepsRing
  <2>2. PICK M \in Nat : M = N + 1
    OBVIOUS
  <2>3. \E H : Rings(B, M, C, H)'
    BY <2>1, <2>2
  <2> QED
    BY <2>3
<1>3. ASSUME Check \/ StoreLength \/ LoadRead \/ StoreChunk \/ StoreRest \/ ReceiveFails
      PROVE  Rings(B, N, C, G)'
  <2>1. CASE Check
    BY <2>1, CheckKeepsRing
  <2>2. CASE StoreLength
    BY <2>2, StoreLengthKeepsRing
  <2>3. CASE LoadRead
    BY <2>3, LoadReadKeepsRing
  <2>4. CASE StoreChunk
    BY <2>4, StoreChunkKeepsRing
  <2>5. CASE StoreRest
    BY <2>5, StoreRestKeepsRing
  <2>6. CASE ReceiveFails
    BY <2>6, ReceiveFailsKeepsRing
  <2> QED
    BY <1>3, <2>1, <2>2, <2>3, <2>4, <2>5, <2>6
<1> QED
  BY <1>1, <1>2, <1>3 DEF ReceiverStep

\* The ring is a queue of frames at every moment: the dispatcher's thread reads what
\* the receiver stored, frame by frame, whatever value of `read` the receiver's test for
\* free space had loaded.  No frame size and no interleaving is excluded.
THEOREM RingInvariance == NtfSpec => []RingInv
<1>1. NtfInit => RingInv
  <2> SUFFICES ASSUME NtfInit PROVE RingInv
    OBVIOUS
  <2>1. \E G : Rings(0, 0, 0, G)
    BY RingBegins
  <2> QED
    BY <2>1 DEF RingInv
<1>2. RingInv /\ [NtfNext]_ntfVars => RingInv'
  <2> SUFFICES ASSUME RingInv, [NtfNext]_ntfVars PROVE RingInv'
    OBVIOUS
  <2>1. PICK B \in Int, N \in Nat, C \in Nat : \E G : Rings(B, N, C, G)
    BY DEF RingInv
  <2>2. PICK G : Rings(B, N, C, G)
    BY <2>1
  <2>3. CASE RunStep
    <3>1. \E D \in Int, E \in Nat : Rings(D, N, E, G)'
      BY <2>2, <2>3, RunKeepsRing
    <3> QED
      BY <3>1 DEF RingInv
  <2>4. CASE Arrive \/ ReceiverStep \/ ReceiveFails
    <3>1. \E M \in Nat : \E H : Rings(B, M, C, H)'
      BY <2>2, <2>4, ReceiverKeepsRing
    <3> QED
      BY <3>1 DEF RingInv
  <2>5. CASE UserStep \/ Destroy \/ \E h \in Handle : GetSymbolHandle(h) \/ Drop(h)
    <3>1. Rings(B, N, C, G)'
      BY <2>2, <2>5, UserKeepsRing
    <3> QED
      BY <3>1 DEF RingInv
  <2>6. CASE UNCHANGED ntfVars
    <3>1. UNCHANGED <<ring, rx, run, serial, delivered>> /\ UNCHANGED <<sem, stopExecution>>
      BY <2>6 DEF ntfVars, counts, hist
    <3>2. sem \in Nat /\ stopExecution \in BOOLEAN
      BY <2>2 DEF Rings, RingTyped
    <3>3. Rings(B, N, C, G)'
      BY <2>2, <3>1, <3>2, RingUntouched
    <3> QED
      BY <3>3 DEF RingInv
  <2> QED
    BY <2>3, <2>4, <2>5, <2>6 DEF NtfNext
<1> QED
  BY <1>1, <1>2, PTL DEF NtfSpec

\* What every state of the ring owes the asserts.
LEMMA RingMeetsAsserts ==
  ASSUME NEW B \in Int, NEW N \in Nat, NEW C, NEW G, Rings(B, N, C, G)
  PROVE  RingAssertsHold
<1>1. /\ WriteAt(B) \in Int /\ ReadAt(B) \in Int /\ dataSize \in Nat
      /\ write \in Position /\ read \in Position
      /\ G[N + 1].start \in Nat /\ G[N + 1].start <= WriteAt(B)
  BY NotPast
<1>2. /\ BytesFree(write, read) = dataSize - 1 - (WriteAt(B) - ReadAt(B))
      /\ BytesAvailable(write, read) = WriteAt(B) - ReadAt(B)
  BY <1>1, Measures
<1>3. rx.at = "length" => 1 <= BytesFree(write, read)
  <2>1. rx.at = "length" => WriteAt(B) + 1 < ReadAt(B) + dataSize
    BY DEF Rings, Fitting
  <2> QED
    BY <1>1, <1>2, <2>1
<1>4. rx.at = "chunk" => Piece <= BytesFree(write, read) /\ write + Piece <= dataSize
  BY PieceFits
<1>5. run.at = "skip" => run.size <= BytesAvailable(write, read)
  <2> SUFFICES ASSUME run.at = "skip" PROVE run.size <= BytesAvailable(write, read)
    OBVIOUS
  <2>1. RunBusy /\ RunAtSample
    BY DEF RunBusy, RunAtSample
  <2>2. /\ G[C].start \in Nat /\ Stop(G[C]) <= G[N + 1].start
        /\ Stop(G[C]) = G[C].start + Extent(G[C].shape)
    BY <2>1, InFrame
  <2>3. PICK j : j = At(G[C])
    OBVIOUS
  <2>4. /\ G[C].shape[j].size \in Nat /\ Onset(G[C].shape, j) \in Nat
        /\ Extent(G[C].shape) \in Nat
        /\ Onset(G[C].shape, j) + 1 + G[C].shape[j].size <= Extent(G[C].shape)
    BY <2>1, <2>3, InSample
  <2>5. /\ ReadAt(B) = G[C].start + Onset(G[C].shape, j) + 1 + 0
        /\ run.size = G[C].shape[j].size
    BY <2>1, <2>3 DEF Rings, Taking
  <2>6. PICK o \in Nat, z \in Nat, e \in Nat, a \in Nat :
          /\ o = Onset(G[C].shape, j) /\ z = G[C].shape[j].size
          /\ e = Extent(G[C].shape) /\ a = G[C].start
    BY <2>2, <2>4
  <2>7. /\ ReadAt(B) = a + o + 1 + 0 /\ run.size = z /\ o + 1 + z <= e
        /\ a + e <= G[N + 1].start
    BY <2>2, <2>4, <2>5, <2>6
  <2>8. run.size <= WriteAt(B) - ReadAt(B)
    BY <1>1, <2>7
  <2> QED
    BY <1>2, <2>8
<1>6. FrameEnd => run.full \in 0 .. BytesAvailable(write, read)
  <2> SUFFICES ASSUME FrameEnd PROVE run.full \in 0 .. BytesAvailable(write, read)
    OBVIOUS
  <2>1. RunBusy
    BY DEF RunBusy, FrameEnd
  <2>2. /\ G[C].start \in Nat /\ Stop(G[C]) <= G[N + 1].start
    BY <2>1, InFrame
  <2>3. ReadAt(B) + run.full = Stop(G[C]) /\ run.full \in Nat
    BY FrameLeft
  <2>4. run.full <= WriteAt(B) - ReadAt(B)
    BY <1>1, <2>2, <2>3
  <2> QED
    BY <1>1, <1>2, <2>3, <2>4
<1> QED
  BY <1>3, <1>4, <1>5, <1>6 DEF RingAssertsHold

\* The asserts of RingBuffer.h:37 and 53 hold and every piece that is stored fits before
\* the end of the array, although the receiver may have passed a frame that has no room yet.
THEOREM RingAssertsAlwaysHold == NtfSpec => []RingAssertsHold
<1>1. RingInv => RingAssertsHold
  BY RingMeetsAsserts DEF RingInv
<1> QED
  BY <1>1, RingInvariance, PTL

\* Whenever the dispatcher's thread may go on it stands at the length of a frame, also
\* after a frame it left half way; after the last announced frame the ring is empty.
THEOREM FramesAreWhole == NtfSpec => []FrameBoundary
<1>1. RingInv => FrameBoundary
  <2> SUFFICES ASSUME NEW B \in Int, NEW N \in Nat, NEW C \in Nat, NEW G,
                      Rings(B, N, C, G), run.at = "acquire", ~stopExecution
               PROVE  /\ sem > 0 => cells[read].kind = "length"
                      /\ sem = 0 /\ rx.at \in {"idle", "check", "length"} => read = write
    BY DEF RingInv, FrameBoundary
  <2>1. /\ sem \in Nat /\ C \in 0 .. N /\ sem + C = N
        /\ ReadAt(B) = G[C + 1].start
    BY RingsParts DEF Counted, Taking
  <2>2. ASSUME sem > 0 PROVE cells[read].kind = "length"
    <3>1. PICK i \in 1 .. N : i = C + 1
      BY <2>1, <2>2
    <3>2. G[i].start \in Nat /\ G[i].shape \in Shape
      BY StartStored DEF Rings
    <3>3. Extent(G[i].shape) \in Nat /\ Extent(G[i].shape) >= 3
      BY <3>2, ShapeFacts
    <3>4. 0 \in 0 .. Extent(G[i].shape) - 1 /\ ReadAt(B) = G[i].start + 0
      BY <2>1, <3>1, <3>2, <3>3
    <3>5. cells[read] = Word(G[i], 0)
      BY <3>4, Reading DEF Rings
    <3> QED
      BY <3>5 DEF Word, LengthOf
  <2>3. ASSUME sem = 0, rx.at \in {"idle", "check", "length"} PROVE read = write
    <3>1. C = N
      BY <2>1, <2>3
    <3>2. WriteAt(B) = G[N + 1].start
      BY <2>3 DEF Rings, Storing
    <3>3. WriteAt(B) = ReadAt(B)
      BY <2>1, <3>1, <3>2
    <3>4. write \in Position /\ read \in Position
      BY NotPast
    <3> QED
      BY <3>3, <3>4, Measures
  <2> QED
    BY <2>2, <2>3
<1> QED
  BY <1>1, RingInvariance, PTL

\* A callback gets one whole sample of its own handle, later than the one before.
THEOREM DeliveriesAreInOrder == NtfSpec => []DeliveredInOrder
<1>1. RingInv => DeliveredInOrder
  <2> SUFFICES ASSUME NEW B \in Int, NEW N \in Nat, NEW C \in Nat, NEW G, Rings(B, N, C, G)
               PROVE  DeliveredInOrder
    BY DEF RingInv
  <2>1. delivered \in Seq([h : Handle, data : Seq(DataUnit)]) /\ Delivered
    BY RingsParts
  <2>2. DOMAIN delivered = 1 .. Len(delivered)
    BY <2>1
  <2>3. ASSUME NEW i \in DOMAIN delivered, NEW k \in 1 .. SampleSize
        PROVE  LET u == delivered[i].data[k] IN
               /\ u.kind = "data" /\ u.h = delivered[i].h /\ u.k = k
               /\ u.serial = delivered[i].data[1].serial
    <3>1. i \in 1 .. Len(delivered)
      BY <2>2
    <3>2. delivered[i] \in [h : Handle, data : Seq(DataUnit)]
      BY <2>1, <3>1, DeliveredTyped
    <3>3. /\ delivered[i].data \in Seq(DataUnit) /\ Len(delivered[i].data) = SampleSize
          /\ delivered[i].data[k].h = delivered[i].h /\ delivered[i].data[k].k = k
          /\ delivered[i].data[k].serial = delivered[i].data[1].serial
      BY <2>1, <3>1, <3>2 DEF Delivered
    <3>4. delivered[i].data[k] \in DataUnit
      BY <3>3, ElementOfSeq
    <3> QED
      BY <3>3, <3>4 DEF DataUnit
  <2>4. \A i, j \in DOMAIN delivered : i < j =>
          delivered[i].data[1].serial < delivered[j].data[1].serial
    BY <2>1, <2>2 DEF Delivered
  <2> QED
    BY <2>3, <2>4 DEF DeliveredInOrder
<1> QED
  BY <1>1, RingInvariance, PTL

-----------------------------------------------------------------------------
(***************************************************************************)
(* The ring implements a queue of frames (FrameQueue).                     *)
(***************************************************************************)
\* BytesAvailable is the distance from `read` to `write` in the direction both move.
LEMMA Available ==
  ASSUME NEW w \in Position, NEW r \in Position
  PROVE  /\ BytesAvailable(w, r) = w - r + (IF w < r THEN dataSize ELSE 0)
         /\ BytesAvailable(w, r) \in 0 .. dataSize - 1
         /\ BytesFree(w, r) = dataSize - 1 - BytesAvailable(w, r)
<1>1. dataSize \in Nat /\ dataSize > 1
  BY RingAssumption
<1>2. w \in 0 .. dataSize - 1 /\ r \in 0 .. dataSize - 1
  BY DEF Position
<1>3. BytesFree(w, r) = dataSize - 1 - (w - r + (IF w < r THEN dataSize ELSE 0))
  BY <1>1, <1>2 DEF BytesFree, FreeLoaded, AsSize
<1> QED
  BY <1>1, <1>2, <1>3 DEF BytesAvailable

\* A sequence written as a function of its indices.
LEMMA IndexedSeq ==
  ASSUME NEW n \in Nat, NEW S, NEW e \in [1 .. n -> S]
  PROVE  e \in Seq(S) /\ Len(e) = n
<1>1. e \in Seq(S)
  BY SeqDef
<1>2. DOMAIN e = 1 .. n /\ DOMAIN e = 1 .. Len(e) /\ Len(e) \in Nat
  BY <1>1, LenProperties
<1> QED
  BY <1>1, <1>2

\* A piece of such a sequence.
LEMMA PieceOfSeq ==
  ASSUME NEW n \in Nat, NEW S, NEW e \in [1 .. n -> S],
         NEW a \in 0 .. n, NEW b \in 0 .. n - a,
         NEW d \in [1 .. b -> S], \A i \in 1 .. b : d[i] = e[a + i]
  PROVE  SubSeq(e, a + 1, a + b) = d
<1>1. PICK l \in Int, u \in Int : l = a + 1 /\ u = a + b
  OBVIOUS
<1>2. PICK p : p = SubSeq(e, l, u)
  OBVIOUS
<1>3. \A i \in l .. u : e[i] \in S
  BY <1>1
<1>4. /\ p \in Seq(S)
      /\ Len(p) = IF l <= u THEN u - l + 1 ELSE 0
      /\ \A i \in 1 .. u - l + 1 : p[i] = e[l + i - 1]
  <2>1. /\ SubSeq(e, l, u) \in Seq(S)
        /\ Len(SubSeq(e, l, u)) = IF l <= u THEN u - l + 1 ELSE 0
        /\ \A i \in 1 .. u - l + 1 : SubSeq(e, l, u)[i] = e[l + i - 1]
    BY ONLY <1>1, <1>3, SubSeqProperties
  <2> QED
    BY ONLY <1>2, <2>1
<1>5. u - l + 1 = b /\ (l <= u <=> b # 0)
  BY <1>1
<1>6. Len(p) = b
  BY <1>4, <1>5
<1>7. \A i \in 1 .. b : p[i] = d[i]
  <2> SUFFICES ASSUME NEW i \in 1 .. b PROVE p[i] = d[i]
    OBVIOUS
  <2>1. l + i - 1 = a + i /\ i \in 1 .. u - l + 1
    BY <1>1, <1>5
  <2>2. p[i] = e[l + i - 1]
    BY ONLY <1>4, <2>1
  <2>3. d[i] = e[a + i]
    OBVIOUS
  <2> QED
    BY ONLY <2>1, <2>2, <2>3
<1>8. p \in [1 .. b -> S]
  BY <1>4, <1>6, LenProperties
<1>9. p = d
  BY <1>7, <1>8
<1> QED
  BY <1>1, <1>2, <1>9

\* Two moves of a pointer are one.
LEMMA MovesAdd ==
  ASSUME NEW p \in Position, NEW m \in Nat, NEW n \in Nat, m + n < dataSize
  PROVE  Increment(p, m) \in Position /\ Increment(Increment(p, m), n) = Increment(p, m + n)
<1>1. dataSize \in Nat /\ dataSize > 1 /\ p \in 0 .. dataSize - 1
  BY RingAssumption DEF Position
<1>2. Increment(p, m) = IF p + m < dataSize THEN p + m ELSE p + m - dataSize
  BY <1>1, WrapsOnce
<1>3. Increment(p, m + n)
        = IF p + (m + n) < dataSize THEN p + (m + n) ELSE p + (m + n) - dataSize
  BY <1>1, WrapsOnce
<1>4. PICK q \in 0 .. dataSize - 1 : q = Increment(p, m)
  BY <1>1, <1>2
<1>5. Increment(q, n) = IF q + n < dataSize THEN q + n ELSE q + n - dataSize
  BY <1>1, <1>4, WrapsOnce DEF Position
<1> QED
  BY <1>1, <1>2, <1>3, <1>4, <1>5 DEF Position

\* Storing n units leaves what can be read as it is and adds them behind.
LEMMA StoreAdds ==
  ASSUME write \in Position, read \in Position,
         NEW s, NEW n \in Nat, n <= BytesFree(write, read), write + n <= dataSize,
         Store(s, n), read' = read,
         NEW a \in 0 .. dataSize - 1, a = BytesAvailable(write, read)
  PROVE  /\ a + n <= dataSize - 1 /\ BytesAvailable(write', read') = a + n
         /\ \A i \in 1 .. a : cells'[Increment(read, i - 1)] = cells[Increment(read, i - 1)]
         /\ \A k \in 1 .. n : cells'[Increment(read, (a + k) - 1)] = s[k]
<1>1. /\ write' \in Position
      /\ WriteAt(0)' = WriteAt(0) + n
      /\ \A p \in Int : ReadAt(0) <= p /\ p < WriteAt(0)
                          => cells'[Cell(0, p)] = cells[Cell(0, p)]
      /\ \A k \in 1 .. n : cells'[Cell(0, WriteAt(0) + k - 1)] = s[k]
  BY WriteMoves
<1>2. dataSize \in Nat /\ dataSize > 1 /\ read \in 0 .. dataSize - 1
  BY RingAssumption DEF Position
<1>3. /\ a + n <= dataSize - 1 /\ BytesAvailable(write', read') = a + n
      /\ WriteAt(0) = read + a
  <2>1. /\ BytesFree(write, read) = dataSize - 1 - a
        /\ a = write - read + (IF write < read THEN dataSize ELSE 0)
    BY Available
  <2>2. BytesAvailable(write', read')
          = write' - read + (IF write' < read THEN dataSize ELSE 0)
    <3>1. BytesAvailable(write', read)
            = write' - read + (IF write' < read THEN dataSize ELSE 0)
      BY <1>1, Available
    <3> QED
      BY <3>1
  <2>3. /\ write \in 0 .. dataSize - 1 /\ write' \in 0 .. dataSize - 1
    BY <1>1 DEF Position
  <2>4. WriteAt(0) = read + a
    BY <1>2, <2>1, <2>3 DEF WriteAt
  <2>5. write' + (IF write' < read THEN dataSize ELSE 0) = read + a + n
    BY <1>1, <1>2, <2>3, <2>4 DEF WriteAt
  <2>6. BytesAvailable(write', read') = a + n
    BY <1>2, <2>2, <2>3, <2>5
  <2> QED
    BY <1>2, <2>1, <2>4, <2>6
<1>4. \A i \in 1 .. a + n : Increment(read, i - 1) = Cell(0, read + i - 1)
  <2> SUFFICES ASSUME NEW i \in 1 .. a + n
               PROVE  Increment(read, i - 1) = Cell(0, read + i - 1)
    OBVIOUS
  <2>1. i - 1 \in Nat /\ read + (i - 1) < 2 * dataSize
    BY <1>2, <1>3
  <2>2. Increment(read, i - 1)
          = IF read + (i - 1) < dataSize THEN read + (i - 1) ELSE read + (i - 1) - dataSize
    BY <2>1, WrapsOnce
  <2> QED
    BY <1>2, <2>1, <2>2 DEF Cell
<1>5. \A i \in 1 .. a : cells'[Increment(read, i - 1)] = cells[Increment(read, i - 1)]
  <2> SUFFICES ASSUME NEW i \in 1 .. a
               PROVE  cells'[Increment(read, i - 1)] = cells[Increment(read, i - 1)]
    OBVIOUS
  <2>1. /\ read + i - 1 \in Int /\ ReadAt(0) <= read + i - 1
        /\ read + i - 1 < WriteAt(0)
    BY <1>2, <1>3 DEF ReadAt
  <2>2. i \in 1 .. a + n
    OBVIOUS
  <2> QED
    BY <1>1, <1>4, <2>1, <2>2
<1>6. \A k \in 1 .. n : cells'[Increment(read, (a + k) - 1)] = s[k]
  <2> SUFFICES ASSUME NEW k \in 1 .. n
               PROVE  cells'[Increment(read, (a + k) - 1)] = s[k]
    OBVIOUS
  <2>1. a + k \in 1 .. a + n /\ read + (a + k) - 1 = (read + a) + k - 1
    BY <1>2
  <2>2. cells'[Cell(0, WriteAt(0) + k - 1)] = s[k]
    BY <1>1
  <2> QED
    BY <1>3, <1>4, <2>1, <2>2
<1> QED
  BY <1>3, <1>5, <1>6

\* What is stored of a sequence t is put behind what waits.
LEMMA StoreIsPut ==
  ASSUME write \in Position, read \in Position,
         NEW s, NEW n \in Nat, n <= BytesFree(write, read), write + n <= dataSize,
         Store(s, n), read' = read,
         NEW t, \A k \in 1 .. n : s[k] = t[k]
  PROVE  /\ n = 0 => Queue' = Queue
         /\ Len(Queue) + n <= dataSize - 1 /\ Queue' = Queue \o SubSeq(t, 1, n)
<1>1. PICK a \in 0 .. dataSize - 1 : a = BytesAvailable(write, read)
  BY Available
<1>2. /\ a + n <= dataSize - 1 /\ BytesAvailable(write', read') = a + n
      /\ \A i \in 1 .. a : cells'[Increment(read, i - 1)] = cells[Increment(read, i - 1)]
      /\ \A k \in 1 .. n : cells'[Increment(read, (a + k) - 1)] = s[k]
  BY <1>1, StoreAdds
<1>3. PICK d : d = [i \in 1 .. a |-> cells[Increment(read, i - 1)]]
  OBVIOUS
<1>4. PICK e : e = [i \in 1 .. a + n |-> cells'[Increment(read, i - 1)]]
  OBVIOUS
<1>5. Queue = d /\ Queue' = e
  BY <1>1, <1>2, <1>3, <1>4 DEF Queue
<1>6. PICK S : d \in [1 .. a -> S] /\ e \in [1 .. a + n -> S]
  <2>1. PICK S : S = {d[i] : i \in 1 .. a} \union {e[i] : i \in 1 .. a + n}
    OBVIOUS
  <2>2. \A i \in 1 .. a : d[i] \in S
    BY ONLY <2>1
  <2>3. \A i \in 1 .. a + n : e[i] \in S
    BY ONLY <2>1
  <2>4. d \in [1 .. a -> S]
    BY ONLY <1>3, <2>2
  <2>5. e \in [1 .. a + n -> S]
    BY ONLY <1>4, <2>3
  <2> QED
    BY ONLY <2>4, <2>5
<1>7. \A i \in 1 .. a : e[i] = d[i]
  <2>1. \A i \in 1 .. a : i \in 1 .. a + n
    OBVIOUS
  <2> QED
    BY <1>2, <1>3, <1>4, <2>1
<1>8. \A k \in 1 .. n : e[a + k] = t[k]
  <2>1. \A k \in 1 .. n : a + k \in 1 .. a + n
    OBVIOUS
  <2> QED
    BY <1>2, <1>4, <2>1
<1>9. Len(d) = a /\ e = d \o SubSeq(t, 1, n)
  <2>1. a \in Nat
    OBVIOUS
  <2>2. Len(d) = a
    BY ONLY <1>6, <2>1, IndexedSeq
  <2>3. e = d \o SubSeq(t, 1, n)
    <3>1. d \in Seq(S) /\ Len(d) = a
      BY ONLY <1>6, <2>1, IndexedSeq
    <3>2. PICK p : p = SubSeq(t, 1, n)
      OBVIOUS
    <3>3. p \in Seq(S) /\ Len(p) = n /\ \A k \in 1 .. n : p[k] = t[k]
      <4>1. \A k \in 1 .. n : t[k] \in S
        <5>1. \A k \in 1 .. n : a + k \in 1 .. a + n
          OBVIOUS
        <5> QED
          BY <1>6, <1>8, <5>1
      <4>2. 1 \in Int /\ n \in Int
        OBVIOUS
      <4>3. /\ SubSeq(t, 1, n) \in Seq(S)
            /\ Len(SubSeq(t, 1, n)) = IF 1 <= n THEN n - 1 + 1 ELSE 0
            /\ \A k \in 1 .. n - 1 + 1 : SubSeq(t, 1, n)[k] = t[1 + k - 1]
        BY ONLY <4>1, <4>2, SubSeqProperties
      <4>4. /\ p \in Seq(S) /\ Len(p) = IF 1 <= n THEN n - 1 + 1 ELSE 0
            /\ \A k \in 1 .. n - 1 + 1 : p[k] = t[1 + k - 1]
        BY ONLY <3>2, <4>3
      <4>5. n - 1 + 1 = n /\ (IF 1 <= n THEN n - 1 + 1 ELSE 0) = n
        OBVIOUS
      <4>6. \A k \in 1 .. n : 1 + k - 1 = k
        OBVIOUS
      <4> QED
        BY ONLY <4>4, <4>5, <4>6
    <3>4. PICK q : q = d \o p
      OBVIOUS
    <3>5. /\ q \in Seq(S) /\ Len(q) = a + n
          /\ \A i \in 1 .. a : q[i] = d[i]
          /\ \A k \in 1 .. n : q[a + k] = p[k]
      <4>1. /\ d \o p \in Seq(S) /\ Len(d \o p) = Len(d) + Len(p)
            /\ \A i \in 1 .. Len(d) : (d \o p)[i] = d[i]
            /\ \A k \in 1 .. Len(p) : (d \o p)[Len(d) + k] = p[k]
        <5>1. d \in Seq(S) /\ p \in Seq(S)
          BY <3>1, <3>3
        <5> QED
          BY ONLY <5>1, Joined
      <4> QED
        BY ONLY <3>1, <3>3, <3>4, <4>1
    <3>6. q \in [1 .. a + n -> S]
      BY <3>5, LenProperties
    <3>7. \A i \in 1 .. a + n : e[i] = q[i]
      <4> SUFFICES ASSUME NEW i \in 1 .. a + n PROVE e[i] = q[i]
        OBVIOUS
      <4>1. CASE i \in 1 .. a
        BY <1>7, <3>5, <4>1
      <4>2. CASE i \notin 1 .. a
        <5>1. PICK k \in 1 .. n : i = a + k
          <6>1. i - a \in 1 .. n /\ i = a + (i - a)
            BY <4>2
          <6> QED
            BY <6>1
        <5> QED
          BY <1>8, <3>3, <3>5, <5>1
      <4> QED
        BY <4>1, <4>2
    <3>8. e = q
      BY <1>6, <3>6, <3>7
    <3> QED
      BY ONLY <3>2, <3>4, <3>8
  <2> QED
    BY <2>2, <2>3
<1>10. n = 0 => e = d
  <2> SUFFICES ASSUME n = 0 PROVE e = d
    OBVIOUS
  <2>1. a + n = a
    OBVIOUS
  <2> QED
    BY <1>6, <1>7, <2>1
<1> QED
  BY <1>2, <1>5, <1>9, <1>10

\* What is read leaves from the front.
LEMMA ReadIsTake ==
  ASSUME write \in Position, read \in Position,
         NEW n \in Nat, n <= BytesAvailable(write, read),
         read' = Increment(read, n), UNCHANGED <<write, cells, rx>>
  PROVE  Promised!QueueNext \/ UNCHANGED Promised!queueVars
<1>1. dataSize \in Nat /\ dataSize > 1 /\ read \in 0 .. dataSize - 1
  BY RingAssumption DEF Position
<1>2. PICK a \in 0 .. dataSize - 1 : a = BytesAvailable(write, read)
  BY Available
<1>3. PICK b \in 0 .. a : b = a - n
  BY <1>2
<1>4. /\ read' \in Position
      /\ read' = IF read + n < dataSize THEN read + n ELSE read + n - dataSize
  <2>1. read + n < 2 * dataSize
    BY <1>1, <1>2
  <2>2. read' = IF read + n < dataSize THEN read + n ELSE read + n - dataSize
    BY <2>1, WrapsOnce
  <2> QED
    BY <1>1, <1>2, <2>2 DEF Position
<1>5. BytesAvailable(write', read') = b
  <2>1. a = write - read + (IF write < read THEN dataSize ELSE 0)
    BY <1>2, Available
  <2>2. BytesAvailable(write, read')
          = write - read' + (IF write < read' THEN dataSize ELSE 0)
    BY <1>4, Available
  <2>3. write \in 0 .. dataSize - 1 /\ read' \in 0 .. dataSize - 1
    BY <1>4 DEF Position
  <2>4. n <= a
    BY <1>2
  <2> QED
    BY <1>1, <1>3, <1>4, <2>1, <2>2, <2>3, <2>4
<1>6. \A i \in 1 .. b : Increment(read', i - 1) = Increment(read, (n + i) - 1)
  <2> SUFFICES ASSUME NEW i \in 1 .. b
               PROVE  Increment(read', i - 1) = Increment(read, (n + i) - 1)
    OBVIOUS
  <2>1. i - 1 \in Nat /\ n + (i - 1) < dataSize /\ n + (i - 1) = (n + i) - 1
    BY <1>1, <1>2, <1>3
  <2> QED
    BY <2>1, MovesAdd
<1>7. PICK d : d = [i \in 1 .. a |-> cells[Increment(read, i - 1)]]
  OBVIOUS
<1>8. PICK e : e = [i \in 1 .. b |-> cells[Increment(read', i - 1)]]
  OBVIOUS
<1>9. Queue = d /\ Queue' = e /\ Coming' = Coming
  BY <1>2, <1>5, <1>7, <1>8 DEF Queue, Coming
<1>10. \A i \in 1 .. b : n + i \in 1 .. a /\ e[i] = d[n + i]
  <2>1. \A i \in 1 .. b : n + i \in 1 .. a
    BY <1>3
  <2> QED
    BY <1>6, <1>7, <1>8, <2>1
<1>11. PICK S : d \in [1 .. a -> S] /\ e \in [1 .. b -> S]
  <2>1. PICK S : S = {d[i] : i \in 1 .. a}
    OBVIOUS
  <2>2. \A i \in 1 .. a : d[i] \in S
    BY ONLY <2>1
  <2>3. \A i \in 1 .. b : e[i] \in S
    BY ONLY <1>10, <2>2
  <2>4. d \in [1 .. a -> S] /\ e \in [1 .. b -> S]
    BY ONLY <1>7, <1>8, <2>2, <2>3
  <2> QED
    BY <2>4
<1>12. Len(d) = a /\ SubSeq(d, n + 1, n + b) = e
  <2>1. a \in Nat /\ n \in 0 .. a /\ b \in 0 .. a - n
    BY <1>2, <1>3
  <2> QED
    BY <1>10, <1>11, <2>1, IndexedSeq, PieceOfSeq
<1>13. n + b = a /\ (n = 0 \/ n \in 1 .. a)
  BY <1>2, <1>3
<1>14. CASE n = 0
  <2>1. e = d
    <3>1. b = a /\ \A i \in 1 .. b : n + i = i
      BY <1>13, <1>14
    <3> QED
      BY <1>10, <1>11, <3>1
  <2> QED
    BY <1>9, <2>1 DEF Promised!queueVars
<1>15. CASE n \in 1 .. a
  <2>1. Queue' = SubSeq(Queue, n + 1, Len(Queue)) /\ n \in 1 .. Len(Queue)
    BY <1>9, <1>12, <1>13, <1>15
  <2> QED
    BY <1>9, <2>1 DEF Promised!QueueNext, Promised!Take
<1> QED
  BY <1>13, <1>14, <1>15

\* An element put before a sequence.
LEMMA Headed ==
  ASSUME NEW S, NEW x \in S, NEW v \in Seq(S)
  PROVE  /\ Len(<<x>> \o v) = Len(v) + 1 /\ (<<x>> \o v)[1] = x
         /\ SubSeq(<<x>> \o v, 2, Len(v) + 1) = v
<1>1. PICK u : u = <<x>>
  OBVIOUS
<1>2. u \in Seq(S) /\ Len(u) = 1 /\ u[1] = x
  BY <1>1
<1>3. PICK l \in Nat : l = Len(v)
  BY LenProperties
<1>4. PICK c : c = u \o v
  OBVIOUS
<1>5. /\ c \in Seq(S) /\ Len(c) = 1 + l /\ c[1] = x
      /\ \A k \in 1 .. l : c[1 + k] = v[k]
  <2>1. /\ u \o v \in Seq(S) /\ Len(u \o v) = Len(u) + Len(v)
        /\ \A k \in 1 .. Len(u) : (u \o v)[k] = u[k]
        /\ \A k \in 1 .. Len(v) : (u \o v)[Len(u) + k] = v[k]
    BY <1>2, Joined
  <2>2. 1 \in 1 .. 1
    OBVIOUS
  <2> QED
    BY <1>2, <1>3, <1>4, <2>1, <2>2
<1>6. c \in [1 .. 1 + l -> S] /\ v \in [1 .. l -> S]
  BY <1>3, <1>5, LenProperties
<1>7. SubSeq(c, 1 + 1, 1 + l) = v
  <2>1. 1 + l \in Nat /\ 1 \in 0 .. 1 + l /\ l \in 0 .. (1 + l) - 1
    OBVIOUS
  <2>2. \A k \in 1 .. l : v[k] = c[1 + k]
    BY <1>5
  <2> QED
    BY <1>6, <2>1, <2>2, PieceOfSeq
<1> QED
  BY <1>1, <1>3, <1>4, <1>5, <1>7

\* A step of the receiver that stores nothing.
LEMMA ReceiverStores ==
  ASSUME RxTyped, UNCHANGED <<write, read, cells>>,
         Arrive \/ Check \/ LoadRead \/ Notify \/ ReceiveFails
  PROVE  Promised!QueueNext \/ UNCHANGED Promised!queueVars
<1>1. Queue' = Queue
  BY DEF Queue
<1>2. rx.left \in Seq(Unit)
  BY DEF RxTyped
<1>3. CASE Arrive
  <2>1. rx.at = "idle" /\ rx'.at \in {"idle", "check"}
    BY <1>3 DEF Arrive, ReceiverIdle
  <2>2. Coming = <<>> /\ Coming' = <<>>
    BY <2>1 DEF Coming
  <2> QED
    BY <1>1, <2>2 DEF Promised!queueVars
<1>4. CASE Check
  <2>1. rx.at = "check" /\ Coming = <<>>
    BY <1>4 DEF Check, Coming
  <2>2. CASE Fits
    <3>1. rx'.at = "length" /\ rx'.left = rx.left
      BY <1>4, <2>2 DEF Check, RxTyped
    <3>2. PICK l \in Nat : l = Len(rx.left)
      BY <1>2, LenProperties
    <3>3. Coming' = <<LengthOf(l)>> \o rx.left
      BY <3>1, <3>2 DEF Coming
    <3>4. Len(<<LengthOf(l)>> \o rx.left) = l + 1
      <4>1. LengthOf(l) \in Unit
        BY DEF LengthOf, Unit
      <4> QED
        BY <1>2, <3>2, <4>1, Headed
    <3>5. Coming' # <<>>
      BY <3>3, <3>4
    <3> QED
      BY <1>1, <2>1, <3>5 DEF Promised!QueueNext, Promised!Begin
  <2>3. CASE ~Fits
    <3>1. rx'.at = "idle"
      BY <1>4, <2>3 DEF Check, ReceiverIdle
    <3>2. Coming' = <<>>
      BY <3>1 DEF Coming
    <3> QED
      BY <1>1, <2>1, <3>2 DEF Promised!queueVars
  <2> QED
    BY <2>2, <2>3
<1>5. CASE LoadRead
  <2>1. rx.at = "load" /\ rx'.at = "chunk" /\ rx'.left = rx.left
    BY <1>5 DEF LoadRead, RxTyped
  <2>2. Coming' = Coming
    BY <2>1 DEF Coming
  <2> QED
    BY <1>1, <2>2 DEF Promised!queueVars
<1>6. CASE Notify
  <2>1. rx.at = "notify" /\ rx'.at = "idle"
    BY <1>6 DEF Notify, ReceiverIdle
  <2>2. Coming = <<>> /\ Coming' = <<>>
    BY <2>1 DEF Coming
  <2> QED
    BY <1>1, <2>2 DEF Promised!queueVars
<1>7. CASE ReceiveFails
  <2>1. rx'.at = "ended"
    BY <1>7 DEF ReceiveFails, RxTyped
  <2>2. Coming' = <<>>
    BY <2>1 DEF Coming
  <2> QED
    BY <1>1, <2>2 DEF Promised!queueVars, Promised!QueueNext, Promised!GiveUp
<1> QED
  BY <1>3, <1>4, <1>5, <1>6, <1>7

\* The receiver puts the units of its frame, one behind the other.
LEMMA ReceiverPuts ==
  ASSUME NEW B \in Int, NEW N \in Nat, NEW C, NEW G, Rings(B, N, C, G),
         Arrive \/ ReceiverStep \/ ReceiveFails
  PROVE  Promised!QueueNext \/ UNCHANGED Promised!queueVars
<1>1. /\ write \in Position /\ read \in Position /\ dataSize \in Nat
      /\ RxTyped /\ rx.left \in Seq(Unit)
  BY NotPast DEF Rings, RingTyped, RxTyped
<1>2. ByReceiver /\ read' = read
  BY DEF Arrive, ReceiverStep, ReceiveFails, Check, StoreLength, LoadRead, StoreChunk,
         StoreRest, Notify, ByReceiver
<1>3. PICK l \in Nat : l = Len(rx.left)
  BY <1>1, LenProperties
<1>4. CASE Arrive \/ Check \/ LoadRead \/ Notify \/ ReceiveFails
  <2>1. UNCHANGED <<write, read, cells>>
    BY <1>2, <1>4 DEF Arrive, Check, LoadRead, Notify, ReceiveFails
  <2> QED
    BY <1>1, <1>4, <2>1, ReceiverStores
<1>5. CASE StoreLength
  <2>1. /\ rx.at = "length" /\ Store(<<LengthOf(l)>>, 1)
        /\ rx'.at = "load" /\ rx'.left = rx.left
    BY <1>1, <1>3, <1>5 DEF StoreLength, RxTyped
  <2>2. PICK c : c = <<LengthOf(l)>> \o rx.left
    OBVIOUS
  <2>3. Coming = c /\ Coming' = rx.left
    BY <1>3, <2>1, <2>2 DEF Coming
  <2>4. Len(c) = l + 1 /\ c[1] = LengthOf(l) /\ SubSeq(c, 2, l + 1) = rx.left
    <3>1. LengthOf(l) \in Unit
      BY DEF LengthOf, Unit
    <3> QED
      BY <1>1, <1>3, <2>2, <3>1, Headed
  <2>5. 1 <= BytesFree(write, read)
    <3>1. /\ WriteAt(B) + 1 < ReadAt(B) + dataSize
          /\ BytesFree(write, read) = dataSize - 1 - (WriteAt(B) - ReadAt(B))
          /\ WriteAt(B) \in Int /\ ReadAt(B) \in Int
      BY <1>1, <2>1, Measures DEF Rings, Fitting
    <3> QED
      BY <1>1, <3>1
  <2>6. write + 1 <= dataSize
    BY <1>1 DEF Position
  <2>7. PICK s : s = <<LengthOf(l)>>
    OBVIOUS
  <2>8. Store(s, 1) /\ \A k \in 1 .. 1 : s[k] = c[k]
    <3>1. s[1] = c[1] /\ \A k \in 1 .. 1 : k = 1
      BY <2>4, <2>7
    <3> QED
      BY <2>1, <2>7, <3>1
  <2>9. Len(Queue) + 1 <= dataSize - 1 /\ Queue' = Queue \o SubSeq(c, 1, 1)
    BY <1>1, <1>2, <2>5, <2>6, <2>8, StoreIsPut
  <2>10. 1 \in 1 .. Len(c) /\ Coming' = SubSeq(c, 1 + 1, Len(c))
    BY <1>3, <2>3, <2>4
  <2> QED
    BY <2>3, <2>9, <2>10 DEF Promised!QueueNext, Promised!Put
<1>6. CASE StoreChunk \/ StoreRest
  <2>1. rx.at = "chunk" /\ Coming = rx.left
    BY <1>6 DEF StoreChunk, StoreRest, Coming
  <2>2. /\ Chunk \in Nat /\ Piece <= BytesFree(write, read) /\ write + Piece <= dataSize
    BY <2>1, PieceFits
  <2>3. PICK n \in 0 .. l : n = Piece
    BY <1>3, <2>2 DEF Piece
  <2>4. PICK s : s = rx.left
    OBVIOUS
  <2>5. Store(s, n) /\ Coming' = SubSeq(s, n + 1, l)
    <3>1. CASE StoreChunk
      <4>1. n = Chunk
        BY <2>3, <3>1 DEF StoreChunk, Piece
      <4>2. /\ Store(s, n) /\ rx'.at = "load"
            /\ rx'.left = SubSeq(s, n + 1, l)
        BY <1>1, <1>3, <2>4, <3>1, <4>1 DEF StoreChunk, RxTyped
      <4> QED
        BY <4>2 DEF Coming
    <3>2. CASE StoreRest
      <4>1. n = l
        BY <1>3, <2>2, <2>3, <3>2 DEF StoreRest, Piece
      <4>2. Store(s, n) /\ rx'.at = "notify"
        BY <1>1, <1>3, <2>4, <3>2, <4>1 DEF StoreRest, RxTyped
      <4>3. SubSeq(s, n + 1, l) = <<>>
        <5>1. n + 1 \in Int /\ l \in Int /\ l < n + 1
          BY <4>1
        <5> QED
          BY <5>1, SubSeqEmpty
      <4>4. Coming' = <<>>
        BY <4>2 DEF Coming
      <4> QED
        BY <4>2, <4>3, <4>4
    <3> QED
      BY <1>6, <3>1, <3>2
  <2>6. /\ n = 0 => Queue' = Queue
        /\ Len(Queue) + n <= dataSize - 1 /\ Queue' = Queue \o SubSeq(s, 1, n)
    <3>1. /\ n \in Nat /\ n <= BytesFree(write, read) /\ write + n <= dataSize
          /\ \A k \in 1 .. n : s[k] = s[k]
      BY <2>2, <2>3
    <3> QED
      BY <1>1, <1>2, <2>5, <3>1, StoreIsPut
  <2>7. CASE n = 0
    <3>1. SubSeq(s, 0 + 1, 0 + l) = s
      <4>1. s \in [1 .. l -> Unit]
        BY <1>1, <1>3, <2>4, LenProperties
      <4>2. 0 \in 0 .. l /\ l \in 0 .. l - 0 /\ \A k \in 1 .. l : s[k] = s[0 + k]
        OBVIOUS
      <4> QED
        BY <4>1, <4>2, PieceOfSeq
    <3>2. Coming' = Coming
      BY <2>1, <2>4, <2>5, <2>7, <3>1
    <3> QED
      BY <2>6, <2>7, <3>2 DEF Promised!queueVars
  <2>8. CASE n # 0
    <3>1. n \in 1 .. Len(s) /\ Coming' = SubSeq(s, n + 1, Len(s)) /\ Coming = s
      BY <1>3, <2>1, <2>4, <2>5, <2>8
    <3> QED
      BY <2>6, <3>1 DEF Promised!QueueNext, Promised!Put
  <2> QED
    BY <2>7, <2>8
<1> QED
  BY <1>4, <1>5, <1>6 DEF ReceiverStep

\* A step that moves neither pointer, nor the receiver, leaves the queue alone.
LEMMA QueueStays ==
  ASSUME UNCHANGED <<ring, rx>>
  PROVE  UNCHANGED Promised!queueVars
BY DEF ring, Queue, Coming, Promised!queueVars

\* The dispatcher's thread takes units.
LEMMA DispatcherTakes ==
  ASSUME NEW B \in Int, NEW N \in Nat, NEW C, NEW G, Rings(B, N, C, G), RunStep
  PROVE  Promised!QueueNext \/ UNCHANGED Promised!queueVars
<1>1. /\ write \in Position /\ read \in Position
      /\ ReadAt(B) \in Int /\ WriteAt(B) \in Int
      /\ G[N + 1].start \in Nat /\ G[N + 1].start <= WriteAt(B)
  BY NotPast
<1>2. BytesAvailable(write, read) = WriteAt(B) - ReadAt(B)
  BY <1>1, Measures
<1>3. UNCHANGED <<write, cells, rx>>
  BY DEF RunStep, Acquire, ReadLength, ReadHeader, ReadSample, FindHandle, ReadData,
         Callback, SkipSample, Cleanup, ByRun
<1>4. CASE Acquire \/ FindHandle \/ Callback
  <2>1. UNCHANGED <<ring, rx>>
    BY <1>3, <1>4 DEF Acquire, FindHandle, Callback, ring
  <2> QED
    BY <2>1, QueueStays
<1>5. ASSUME RunBusy, ReadAt(B) + 1 <= Stop(G[C]), read' = Increment(read, 1)
      PROVE  Promised!QueueNext \/ UNCHANGED Promised!queueVars
  <2>1. Stop(G[C]) <= G[N + 1].start
    BY <1>5, InFrame
  <2>2. Stop(G[C]) \in Int
    <3>1. /\ G[C].start \in Nat /\ G[C].shape \in Shape
          /\ Stop(G[C]) = G[C].start + Extent(G[C].shape)
      BY <1>5, InFrame
    <3>2. Extent(G[C].shape) \in Nat
      BY <3>1, ShapeFacts
    <3> QED
      BY <3>1, <3>2
  <2>3. 1 \in Nat /\ 1 <= BytesAvailable(write, read)
    BY <1>1, <1>2, <1>5, <2>1, <2>2
  <2> QED
    BY <1>1, <1>3, <1>5, <2>3, ReadIsTake
<1>6. CASE ReadLength \/ ReadHeader
  <2>1. run.at \in {"length", "header"} /\ read' = Increment(read, 1)
    BY <1>6 DEF ReadLength, ReadHeader, Reads
  <2>2. RunBusy
    BY <2>1 DEF RunBusy
  <2>3. /\ G[C].start \in Nat /\ G[C].shape \in Shape
        /\ Stop(G[C]) = G[C].start + Extent(G[C].shape)
    BY <2>2, InFrame
  <2>4. Extent(G[C].shape) \in Nat /\ Extent(G[C].shape) >= 3
    BY <2>3, ShapeFacts
  <2>5. ReadAt(B) = G[C].start \/ ReadAt(B) = G[C].start + 1
    BY <2>1 DEF Rings, Taking
  <2>6. ReadAt(B) + 1 <= Stop(G[C])
    BY <2>3, <2>4, <2>5
  <2> QED
    BY <1>5, <2>1, <2>2, <2>6
<1>7. CASE ReadSample \/ ReadData
  <2>1. /\ read' = Increment(read, 1)
        /\ \/ run.at = "sample" /\ run.samples > 0
           \/ run.at = "data" /\ Len(run.data) < SampleSize
    BY <1>7 DEF ReadSample, ReadData, Reads
  <2>2. RunBusy /\ (RunAtSample \/ (run.at = "sample" /\ run.samples > 0))
    BY <2>1 DEF RunBusy, RunAtSample
  <2>3. G[C].start \in Nat /\ Stop(G[C]) = G[C].start + Extent(G[C].shape)
    BY <2>2, InFrame
  <2>4. PICK a \in Nat, e \in Nat : a = G[C].start /\ e = Extent(G[C].shape)
    BY <2>2, <2>3, InSample
  <2>5. PICK j : j = At(G[C])
    OBVIOUS
  <2>6. PICK o \in Nat, z \in Nat : /\ o = Onset(G[C].shape, j) /\ z = G[C].shape[j].size
                                    /\ o + 1 + z <= e
    BY <2>2, <2>4, <2>5, InSample
  <2>7. ReadAt(B) + 1 <= a + e
    <3>1. CASE run.at = "sample"
      <4>1. ReadAt(B) = a + o
        BY <2>4, <2>5, <2>6, <3>1 DEF Rings, Taking
      <4> QED
        BY <2>4, <2>6, <4>1
    <3>2. CASE run.at = "data"
      <4>1. /\ ReadAt(B) = a + o + 1 + Len(run.data)
            /\ run.size = SampleSize /\ run.size = z
        BY <2>4, <2>5, <2>6, <3>2 DEF Rings, Taking, RunAtSample
      <4>2. run.data \in Seq(DataUnit)
        BY RingsParts DEF RunTyped
      <4>3. PICK l \in Nat : l = Len(run.data)
        BY <4>2, LenProperties
      <4>4. l < z
        BY <2>1, <3>2, <4>1, <4>3
      <4> QED
        <5>1. PICK r \in Int : r = ReadAt(B)
          BY <1>1
        <5>2. r = a + o + 1 + l /\ o + 1 + z <= e
          BY <2>6, <4>1, <4>3, <5>1
        <5>3. r + 1 <= a + e
          BY <4>4, <5>2
        <5> QED
          BY <5>1, <5>3
    <3> QED
      BY <2>1, <3>1, <3>2
  <2> QED
    BY <1>5, <2>1, <2>2, <2>3, <2>4, <2>7
<1>8. CASE SkipSample
  <2>1. run.at = "skip" /\ read' = Increment(read, run.size)
    BY <1>8 DEF SkipSample, Reads
  <2>2. RingAssertsHold
    BY RingMeetsAsserts
  <2>3. run.size \in Nat /\ run.size <= BytesAvailable(write, read)
    BY <2>1, <2>2, RingsParts DEF RingAssertsHold, RunTyped
  <2> QED
    BY <1>1, <1>3, <2>1, <2>3, ReadIsTake
<1>9. CASE Cleanup
  <2>1. FrameEnd /\ read' = Increment(read, run.full)
    BY <1>9 DEF Cleanup, Reads
  <2>2. RingAssertsHold
    BY RingMeetsAsserts
  <2>3. BytesAvailable(write, read) \in Nat
    BY <1>1, Available, RingAssumption
  <2>4. run.full \in Nat /\ run.full <= BytesAvailable(write, read)
    BY <2>1, <2>2, <2>3 DEF RingAssertsHold
  <2> QED
    BY <1>1, <1>3, <2>1, <2>4, ReadIsTake
<1> QED
  BY <1>4, <1>6, <1>7, <1>8, <1>9 DEF RunStep

\* The ring the two threads share without a lock implements a queue of frames: units
\* leave it in the order they came, none is lost, repeated, displaced or overwritten, for
\* every size of the ring and every frame, also one let pass with a stale `read`.
THEOREM RingQueues == NtfSpec => RingIsAQueue
<1>1. NtfInit => Promised!QueueInit
  <2> SUFFICES ASSUME NtfInit PROVE Queue = <<>> /\ Coming = <<>>
    BY DEF Promised!QueueInit
  <2>1. write = 0 /\ read = 0 /\ 0 \in Position
    BY RingAssumption DEF NtfInit, Position
  <2>2. BytesAvailable(write, read) = 0
    BY <2>1, Available
  <2>3. Queue = [i \in 1 .. 0 |-> cells[Increment(read, i - 1)]]
    BY <2>2 DEF Queue
  <2>4. Coming = <<>>
    BY DEF NtfInit, ReceiverIdle, Coming
  <2> QED
    BY <2>3, <2>4
<1>2. RingInv /\ [NtfNext]_ntfVars => [Promised!QueueNext]_(Promised!queueVars)
  <2> SUFFICES ASSUME RingInv, [NtfNext]_ntfVars
               PROVE  Promised!QueueNext \/ UNCHANGED Promised!queueVars
    OBVIOUS
  <2>1. PICK B \in Int, N \in Nat, C \in Nat : \E G : Rings(B, N, C, G)
    BY DEF RingInv
  <2>2. PICK G : Rings(B, N, C, G)
    BY <2>1
  <2>3. CASE RunStep
    BY <2>2, <2>3, DispatcherTakes
  <2>4. CASE Arrive \/ ReceiverStep \/ ReceiveFails
    BY <2>2, <2>4, ReceiverPuts
  <2>5. CASE UserStep \/ Destroy \/ \E h \in Handle : GetSymbolHandle(h) \/ Drop(h)
    <3>1. UNCHANGED <<ring, rx>>
      BY <2>5 DEF UserStep, AddNotification, DispatcherListAdd, Emplace, DeleteRemote,
                  EraseLocal, DeleteSymbolHandle, Destroy, GetSymbolHandle, Drop, ByUser
    <3> QED
      BY <3>1, QueueStays
  <2>6. CASE UNCHANGED ntfVars
    BY <2>6, QueueStays DEF ntfVars
  <2> QED
    BY <2>3, <2>4, <2>5, <2>6 DEF NtfNext
<1> QED
  BY <1>1, <1>2, RingInvariance, PTL DEF NtfSpec, RingIsAQueue, Promised!QueueSpec
=============================================================================
