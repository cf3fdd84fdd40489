---------------------------- MODULE AdapterProofs ----------------------------
(***************************************************************************)
(* Theorems about the adapter: the two threads never use a device at the   *)
(* same time, a publication is one snapshot, and redelivered commands do   *)
(* not undo later ones, for any devices and any number of commands,        *)
(* interruptions and ticks of the clock.                                   *)
(***************************************************************************)
EXTENDS TRLIotCoreAdapter, SequenceTheorems, TLAPS

\* Without fairness, which no safety property needs.
SafeSpec == AdapterInit /\ [][AdapterNext]_adapterVars

LEMMA Constants ==
  /\ Main # Mqtt /\ Main \in Threads /\ Mqtt \in Threads
  /\ Main # "free" /\ Mqtt # "free"
  /\ MaxSent \in Nat /\ MaxInterrupts \in Nat /\ MaxTime \in Nat
  /\ NoDevice \notin Device /\ Lift \subseteq Device
BY AdapterAssumption DEF Main, Mqtt, Threads, Device

(***************************************************************************)
(* Types                                                                   *)
(***************************************************************************)
LEMMA TypeInit == AdapterInit => AdapterTypeOK
<1> SUFFICES ASSUME AdapterInit PROVE AdapterTypeOK
  OBVIOUS
<1>1. queue \in Seq(Command) /\ Len(queue) = 0
  BY EmptySeq DEF AdapterInit
<1>2. /\ message \in IF InCallback THEN Command ELSE {NoMessage}
      /\ mpc \in {"initialize", "loop", "lock", "publish", "sleep", "exited"}
      /\ cpc \in {"idle", "connected", "lock", "check", "command", "return"}
      /\ link \in {"none", "connecting", "up", "down", "failed"}
  BY DEF AdapterInit, InCallback
<1>3. /\ m_mutex \in Threads \union {"free"} /\ todo \subseteq Device
      /\ m_mutex = Main <=> mpc = "publish"
      /\ m_mutex = Mqtt <=> cpc \in {"check", "command"}
  BY Constants DEF AdapterInit
<1>4. /\ using \in [Threads -> Device \union {NoDevice}]
      /\ m_session_id \in [Lift -> 0 .. MaxSent]
      /\ effect \in [Device -> 0 .. MaxSent] /\ wanted \in [Device -> 0 .. MaxSent]
      /\ published \in [Device -> [effect: 0 .. MaxSent, session: 0 .. MaxSent]]
  BY Constants DEF AdapterInit, None
<1>5. /\ given \in 0 .. Len(queue) /\ handled \in 0 .. given
      /\ m_connected \in BOOLEAN /\ stop \in BOOLEAN /\ subscribed \in BOOLEAN
      /\ sent \in 0 .. MaxSent
      /\ time \in 0 .. MaxTime /\ interrupts \in 0 .. MaxInterrupts
  <2>1. Len(queue) = 0 /\ given = 0 /\ handled = 0 /\ sent = 0 /\ time = 0
        /\ interrupts = 0
    BY <1>1 DEF AdapterInit
  <2>2. m_connected \in BOOLEAN /\ stop \in BOOLEAN /\ subscribed \in BOOLEAN
    BY DEF AdapterInit
  <2> QED  BY <2>1, <2>2, Constants
<1> QED  BY <1>1, <1>2, <1>3, <1>4, <1>5 DEF AdapterTypeOK

LEMMA TypeMain == AdapterTypeOK /\ MainStep => AdapterTypeOK'
<1> SUFFICES ASSUME AdapterTypeOK, MainStep PROVE AdapterTypeOK'
  OBVIOUS
<1> USE Constants DEF AdapterTypeOK, InCallback, state, broker
<1>1. CASE Initialize
  BY <1>1 DEF Initialize
<1>2. CASE Loop
  BY <1>2 DEF Loop
<1>3. CASE PublishBegins
  BY <1>3 DEF PublishBegins, PublishLock
<1>4. CASE PublishQueries
  BY <1>4 DEF PublishQueries, NextDevices
<1>5. CASE PublishDevice
  <2>1. Snapshot(using[Main]) \in [effect: 0 .. MaxSent, session: 0 .. MaxSent]
    BY <1>5 DEF PublishDevice, Snapshot
  <2> QED
    BY <1>5, <2>1 DEF PublishDevice
<1>6. CASE PublishEnds
  BY <1>6 DEF PublishEnds
<1>7. CASE Wake
  BY <1>7 DEF Wake
<1> QED  BY <1>1, <1>2, <1>3, <1>4, <1>5, <1>6, <1>7 DEF MainStep

LEMMA TypeCallback ==
  AdapterTypeOK /\ (Deliver \/ CommandLock \/ CallbackStep) => AdapterTypeOK'
<1> SUFFICES ASSUME AdapterTypeOK, Deliver \/ CommandLock \/ CallbackStep
             PROVE  AdapterTypeOK'
  OBVIOUS
<1> USE Constants DEF AdapterTypeOK, InCallback, state, broker
<1>1. CASE Deliver
  BY <1>1 DEF Deliver
<1>2. CASE CommandLock
  BY <1>2 DEF CommandLock
<1>3. CASE ConnectionCompletes
  BY <1>3 DEF ConnectionCompletes
<1>4. CASE Check
  <2>1. message.id \in 0 .. MaxSent /\ message.device \in Device
    BY <1>4 DEF Check, Command
  <2>2. m_session_id' \in [Lift -> 0 .. MaxSent]
    BY <1>4, <2>1 DEF Check
  <2>3. \/ cpc' = "command" /\ UNCHANGED m_mutex /\ using' = [using EXCEPT ![Mqtt] = message.device]
        \/ cpc' = "return" /\ m_mutex' = "free" /\ UNCHANGED using
    BY <1>4 DEF Check, Released
  <2>4. using' \in [Threads -> Device \union {NoDevice}]
    BY <2>1, <2>3
  <2>5. cpc = "check" /\ UNCHANGED <<mpc, message, todo, m_connected, stop, effect,
                                    published, broker, time, wanted>>
    BY <1>4 DEF Check
  <2> QED  BY <2>2, <2>3, <2>4, <2>5
<1>5. CASE CommandReturns
  <2>1. message.id \in 0 .. MaxSent /\ message.device \in Device
    BY <1>5 DEF CommandReturns, Command
  <2>2. effect' \in [Device -> 0 .. MaxSent]
    BY <1>5, <2>1 DEF CommandReturns
  <2>3. using' \in [Threads -> Device \union {NoDevice}]
    BY <1>5 DEF CommandReturns
  <2> QED  BY <1>5, <2>2, <2>3 DEF CommandReturns, Released
<1>6. CASE Acknowledge
  BY <1>6 DEF Acknowledge
<1> QED  BY <1>1, <1>2, <1>3, <1>4, <1>5, <1>6 DEF CallbackStep

\* What a command is when it is sent.
LEMMA SendsCommand ==
  ASSUME AdapterTypeOK, SendCommand
  PROVE  \E m \in Command :
           /\ m.id = sent + 1 /\ queue' = Append(queue, m)
           /\ \/ /\ m.complete /\ m.known /\ Due(m)
                 /\ wanted' = [wanted EXCEPT ![m.device] = m.id]
              \/ wanted' = wanted
<1>1. PICK d \in Device, t \in 0 .. MaxTime, c \in BOOLEAN, k \in BOOLEAN :
        LET m == [id |-> sent + 1, device |-> d, time |-> t, complete |-> c,
                  known |-> k]
        IN  /\ queue' = Append(queue, m)
            /\ wanted' = IF c /\ k /\ t <= time THEN [wanted EXCEPT ![d] = m.id]
                         ELSE wanted
  BY DEF SendCommand
<1> DEFINE m == [id |-> sent + 1, device |-> d, time |-> t, complete |-> c,
                 known |-> k]
<1>2. sent + 1 \in 1 .. MaxSent
  BY Constants DEF SendCommand, AdapterTypeOK
<1>3. m \in Command
  BY <1>2 DEF Command
<1>4. /\ m.id = sent + 1 /\ m.complete = c /\ m.known = k /\ m.device = d
      /\ Due(m) <=> t <= time
  BY DEF Due
<1>5. /\ queue' = Append(queue, m)
      /\ wanted' = IF c /\ k /\ t <= time THEN [wanted EXCEPT ![d] = m.id] ELSE wanted
  BY <1>1
<1> QED  BY <1>3, <1>4, <1>5

LEMMA TypeNetwork ==
  AdapterTypeOK /\ (\/ Interrupted \/ ConnectionFails \/ CreateSubscribers
                    \/ SendCommand \/ BrokerForgets \/ LinkDrops
                    \/ LinkResumes \/ Tick) => AdapterTypeOK'
<1> SUFFICES ASSUME AdapterTypeOK,
                    \/ Interrupted \/ ConnectionFails \/ CreateSubscribers
                    \/ SendCommand \/ BrokerForgets \/ LinkDrops
                    \/ LinkResumes \/ Tick
             PROVE  AdapterTypeOK'
  OBVIOUS
<1> USE Constants DEF AdapterTypeOK, InCallback, threads, state, broker
<1>1. CASE Interrupted
  BY <1>1 DEF Interrupted
<1>2. CASE ConnectionFails
  BY <1>2 DEF ConnectionFails
<1>3. CASE CreateSubscribers
  BY <1>3 DEF CreateSubscribers
<1>4. CASE SendCommand
  <2>1. PICK m \in Command : /\ queue' = Append(queue, m)
                             /\ \/ wanted' = [wanted EXCEPT ![m.device] = m.id]
                                \/ wanted' = wanted
    BY <1>4, SendsCommand
  <2>2. m.device \in Device /\ m.id \in 0 .. MaxSent
    BY DEF Command
  <2>3. wanted' \in [Device -> 0 .. MaxSent]
    BY <2>1, <2>2
  <2>4. queue' \in Seq(Command) /\ Len(queue') = Len(queue) + 1
    BY <2>1, AppendProperties
  <2>5. sent' \in 0 .. MaxSent
    BY <1>4 DEF SendCommand
  <2>6. UNCHANGED <<threads, state, link, subscribed, given, handled, interrupts, time>>
    BY <1>4 DEF SendCommand
  <2>7. given <= Len(queue')
    BY <2>4
  <2> QED  BY <2>3, <2>4, <2>5, <2>6, <2>7
<1>5. CASE BrokerForgets
  <2>1. Len(queue) \in Nat /\ queue # <<>>
    BY <1>5, LenProperties, EmptySeq DEF BrokerForgets
  <2>2. Tail(queue) \in Seq(Command) /\ Len(Tail(queue)) = Len(queue) - 1
    BY <2>1, HeadTailProperties
  <2> QED  BY <1>5, <2>1, <2>2 DEF BrokerForgets
<1>6. CASE LinkDrops
  BY <1>6 DEF LinkDrops
<1>7. CASE LinkResumes
  BY <1>7 DEF LinkResumes
<1>8. CASE Tick
  BY <1>8 DEF Tick
<1> QED  BY <1>1, <1>2, <1>3, <1>4, <1>5, <1>6, <1>7, <1>8

LEMMA TypeStep == AdapterTypeOK /\ [AdapterNext]_adapterVars => AdapterTypeOK'
<1>1. AdapterTypeOK /\ AdapterNext => AdapterTypeOK'
  BY TypeMain, TypeCallback, TypeNetwork DEF AdapterNext
<1>2. AdapterTypeOK /\ UNCHANGED adapterVars => AdapterTypeOK'
  BY DEF AdapterTypeOK, InCallback, adapterVars, threads, state, broker
<1> QED  BY <1>1, <1>2

\* The types of the adapter's state, and m_mutex is owned exactly inside the
\* blocks of its lock_guards.
THEOREM AdapterTyping == AdapterSpec => []AdapterTypeOK
<1>1. AdapterSpec => SafeSpec
  BY DEF AdapterSpec, SafeSpec
<1>2. SafeSpec => []AdapterTypeOK
  BY TypeInit, TypeStep, PTL DEF SafeSpec
<1> QED  BY <1>1, <1>2, PTL

(***************************************************************************)
(* Mutual exclusion                                                        *)
(***************************************************************************)
LEMMA UseInit == AdapterInit => UseInv
BY Constants DEF AdapterInit, UseInv

LEMMA UseStep == AdapterTypeOK /\ UseInv /\ [AdapterNext]_adapterVars => UseInv'
<1> SUFFICES ASSUME AdapterTypeOK, UseInv, [AdapterNext]_adapterVars
             PROVE  UseInv'
  OBVIOUS
<1> USE Constants DEF UseInv, threads
<1>1. /\ m_mutex = Main <=> mpc = "publish"
      /\ m_mutex = Mqtt <=> cpc \in {"check", "command"}
      /\ using \in [Threads -> Device \union {NoDevice}]
  BY DEF AdapterTypeOK
<1>2. CASE MainStep
  BY <1>1, <1>2 DEF MainStep, Initialize, Loop, PublishBegins, PublishLock,
                    PublishQueries, PublishDevice, PublishEnds, Wake
<1>3. CASE Check
  <2>1. \/ cpc' = "command" /\ UNCHANGED m_mutex /\ using' = [using EXCEPT ![Mqtt] = message.device]
        \/ cpc' = "return" /\ m_mutex' = "free" /\ UNCHANGED using
    BY <1>3 DEF Check, Released
  <2>2. cpc = "check"
    BY <1>3 DEF Check
  <2> QED  BY <1>1, <2>1, <2>2
<1>4. CASE CommandReturns
  BY <1>1, <1>4 DEF CommandReturns, Released
<1>5. CASE Deliver \/ CommandLock \/ ConnectionCompletes \/ Acknowledge
  BY <1>1, <1>5 DEF Deliver, CommandLock, ConnectionCompletes, Acknowledge
<1>6. CASE \/ Interrupted \/ ConnectionFails \/ CreateSubscribers \/ SendCommand
           \/ BrokerForgets \/ LinkDrops \/ LinkResumes \/ Tick
  BY <1>1, <1>6 DEF Interrupted, ConnectionFails, CreateSubscribers, SendCommand,
                    BrokerForgets, LinkDrops, LinkResumes, Tick
<1>7. CASE UNCHANGED adapterVars
  BY <1>7 DEF adapterVars
<1> QED  BY <1>2, <1>3, <1>4, <1>5, <1>6, <1>7 DEF AdapterNext, CallbackStep

LEMMA SafeUse == SafeSpec => [](AdapterTypeOK /\ UseInv)
BY TypeInit, TypeStep, UseInit, UseStep, PTL DEF SafeSpec

\* A thread has a call in progress only while it holds m_mutex.
THEOREM UseInvariance == AdapterSpec => []UseInv
<1>1. AdapterSpec => SafeSpec
  BY DEF AdapterSpec, SafeSpec
<1> QED  BY <1>1, SafeUse, PTL

\* The main thread and the event loop thread never have calls in progress on
\* one device: m_mutex, held for the whole of PublishState and of a callback,
\* has one owner.
THEOREM DevicesAreUsedByOne == AdapterSpec => []DeviceUsedByOne
<1>1. UseInv => DeviceUsedByOne
  BY Constants DEF UseInv, DeviceUsedByOne
<1> QED  BY <1>1, UseInvariance, PTL

\* No command takes effect and no session changes while PublishState runs.
THEOREM SnapshotsAreStable == AdapterSpec => SnapshotIsStable
<1>1. ASSUME AdapterTypeOK, AdapterNext, mpc = "publish"
      PROVE  UNCHANGED <<effect, m_session_id>>
  <2>1. cpc \notin {"check", "command"}
    BY <1>1, Constants DEF AdapterTypeOK
  <2>2. ~Check /\ ~CommandReturns
    BY <2>1 DEF Check, CommandReturns
  <2>3. CASE MainStep
    BY <1>1, <2>3 DEF MainStep, Initialize, Loop, PublishBegins, PublishQueries,
                      PublishDevice, PublishEnds, Wake, state
  <2>4. CASE Deliver \/ CommandLock \/ CallbackStep
    BY <2>2, <2>4 DEF Deliver, CommandLock, CallbackStep, ConnectionCompletes,
                      Acknowledge, state
  <2>5. CASE \/ Interrupted \/ ConnectionFails \/ CreateSubscribers \/ SendCommand
             \/ BrokerForgets \/ LinkDrops \/ LinkResumes \/ Tick
    BY <2>5 DEF Interrupted, ConnectionFails, CreateSubscribers, SendCommand,
                BrokerForgets, LinkDrops, LinkResumes, Tick, state
  <2> QED  BY <1>1, <2>3, <2>4, <2>5 DEF AdapterNext
<1>2. AdapterTypeOK /\ [AdapterNext]_adapterVars
        => [mpc = "publish" /\ mpc' = "publish"
              => UNCHANGED <<effect, m_session_id>>]_adapterVars
  BY <1>1
<1> QED  BY <1>2, AdapterTyping, PTL DEF AdapterSpec, SnapshotIsStable

(***************************************************************************)
(* Delivery of the commands                                                *)
(***************************************************************************)
LEMMA DeliveryInit == AdapterInit => DeliveryInv
<1> SUFFICES ASSUME AdapterInit PROVE DeliveryInv
  OBVIOUS
<1>1. queue = <<>> /\ Len(queue) = 0 /\ sent = 0 /\ given = 0 /\ cpc = "idle"
      /\ link = "none"
  BY EmptySeq DEF AdapterInit
<1>2. \A d \in Device : effect[d] = 0 /\ wanted[d] = 0
  BY DEF AdapterInit, None
<1>3. LinkUsed /\ HeldInOrder /\ CallbackHeld
  BY <1>1 DEF LinkUsed, HeldInOrder, CallbackHeld, InCallback
<1>4. WantedHeld /\ DoneOrToDo
  BY <1>1, <1>2 DEF WantedHeld, DoneOrToDo
<1> QED  BY <1>3, <1>4 DEF DeliveryInv

\* What the type invariant says of the numbers and of the queue.
LEMMA Numbers ==
  ASSUME AdapterTypeOK
  PROVE  /\ Len(queue) \in Nat /\ given \in Nat /\ handled \in Nat /\ sent \in Nat
         /\ given <= Len(queue) /\ handled <= given /\ time \in Nat
         /\ Forgotten \in Int /\ Passed \in Int
         /\ \A d \in Device : effect[d] \in Nat /\ wanted[d] \in Nat
         /\ \A i \in 1 .. Len(queue) : queue[i] \in Command
<1>1. queue \in Seq(Command)
  BY DEF AdapterTypeOK
<1>2. Len(queue) \in Nat
  BY <1>1, LenProperties
<1>3. \A i \in 1 .. Len(queue) : queue[i] \in Command
  BY <1>1, ElementOfSeq
<1>4. given \in Nat /\ handled \in Nat /\ given <= Len(queue) /\ handled <= given
  BY <1>2 DEF AdapterTypeOK
<1>5. sent \in Nat /\ time \in Nat
  BY Constants DEF AdapterTypeOK
<1>6. Forgotten \in Int /\ Passed \in Int
  BY <1>2, <1>4, <1>5 DEF Forgotten, Passed
<1>7. \A d \in Device : effect[d] \in Nat /\ wanted[d] \in Nat
  BY Constants DEF AdapterTypeOK
<1> QED  BY <1>2, <1>3, <1>4, <1>5, <1>6, <1>7

LEMMA Commands ==
  ASSUME NEW m \in Command
  PROVE  /\ m.id \in Nat \ {0} /\ m.time \in Nat /\ m.device \in Device
         /\ m.complete \in BOOLEAN /\ m.known \in BOOLEAN
BY Constants DEF Command

\* Steps that change neither the broker nor the callback keep the invariant.
LEMMA DeliveryElsewhere ==
  ASSUME AdapterTypeOK, DeliveryInv,
         UNCHANGED <<cpc, message, effect, subscribed, sent, queue, given,
                     handled, wanted>>,
         \/ UNCHANGED <<mpc, link>>
         \/ mpc' # "initialize" /\ UNCHANGED link
         \/ /\ cpc \in {"idle", "connected"} /\ mpc' # "initialize"
            /\ link # "up" /\ link' # "up",
         time' \in Nat /\ time' >= time
  PROVE  DeliveryInv'
<1>0. given' = given /\ Forgotten' = Forgotten /\ InCallback' = InCallback
  BY DEF Forgotten, InCallback
<1>1. LinkUsed'
  BY DEF DeliveryInv, LinkUsed
<1>2. HeldInOrder'
  BY <1>0 DEF DeliveryInv, HeldInOrder
<1>3. CallbackHeld'
  BY <1>0 DEF DeliveryInv, CallbackHeld, InCallback
<1>4. \A i \in 1 .. Len(queue) : queue[i].time \in Nat
  BY Numbers, Commands
<1>5. WantedHeld'
  BY <1>4, Numbers DEF DeliveryInv, WantedHeld, Due
<1>6. Passed' = Passed
  BY <1>0 DEF Passed, DeliveryInv, LinkUsed
<1>7. DoneOrToDo'
  BY <1>6 DEF DeliveryInv, DoneOrToDo
<1> QED  BY <1>1, <1>2, <1>3, <1>5, <1>7 DEF DeliveryInv

LEMMA DeliveryMain == AdapterTypeOK /\ DeliveryInv /\ MainStep => DeliveryInv'
<1> SUFFICES ASSUME AdapterTypeOK, DeliveryInv, MainStep PROVE DeliveryInv'
  OBVIOUS
<1>1. /\ UNCHANGED <<cpc, message, effect, subscribed, sent, queue, given,
                     handled, wanted>>
      /\ time' \in Nat /\ time' >= time
  BY Numbers DEF MainStep, Initialize, Loop, PublishBegins, PublishQueries,
                 PublishDevice, PublishEnds, Wake, state, broker
<1>2. CASE Initialize
  <2>1. link = "none" /\ link' # "up" /\ mpc' # "initialize"
    BY <1>2 DEF DeliveryInv, LinkUsed, Initialize
  <2>2. cpc \in {"idle", "connected"}
    BY <2>1 DEF DeliveryInv, CallbackHeld, InCallback, AdapterTypeOK
  <2> QED  BY <1>1, <2>1, <2>2, DeliveryElsewhere
<1>3. CASE ~Initialize
  <2>1. mpc' # "initialize" /\ UNCHANGED link
    BY <1>3 DEF MainStep, Loop, PublishBegins, PublishQueries, PublishDevice,
                PublishEnds, Wake, broker
  <2> QED  BY <1>1, <2>1, DeliveryElsewhere
<1> QED  BY <1>2, <1>3

LEMMA DeliveryIdle ==
  AdapterTypeOK /\ DeliveryInv /\ (Interrupted \/ ConnectionFails \/ Tick)
    => DeliveryInv'
<1> SUFFICES ASSUME AdapterTypeOK, DeliveryInv,
                    Interrupted \/ ConnectionFails \/ Tick
             PROVE  DeliveryInv'
  OBVIOUS
<1>1. /\ UNCHANGED <<cpc, message, effect, subscribed, sent, queue, given,
                     handled, wanted>>
      /\ time' \in Nat /\ time' >= time
  BY Numbers DEF Interrupted, ConnectionFails, Tick, threads, state, broker
<1>2. CASE Interrupted \/ Tick
  <2>1. UNCHANGED <<mpc, link>>
    BY <1>2 DEF Interrupted, Tick, threads, broker
  <2> QED  BY <1>1, <2>1, DeliveryElsewhere
<1>3. CASE ConnectionFails
  <2>1. cpc = "idle" /\ link = "connecting" /\ link' = "failed" /\ mpc' = mpc
    BY <1>3 DEF ConnectionFails, threads
  <2>2. mpc # "initialize"
    BY <2>1 DEF DeliveryInv, LinkUsed
  <2> QED  BY <1>1, <2>1, <2>2, DeliveryElsewhere
<1> QED  BY <1>2, <1>3

\* The callback goes on without an effect.
LEMMA DeliveryCallback ==
  ASSUME AdapterTypeOK, DeliveryInv,
         UNCHANGED <<mpc, effect, link, sent, queue, given, handled, wanted, time>>,
         \/ cpc = "connected" /\ cpc' = "idle"
         \/ /\ cpc \in {"lock", "check"} /\ cpc' \in {"check", "command"}
            /\ message' = message
         \/ /\ cpc \in {"lock", "check", "command"} /\ cpc' = "return"
            /\ message' = message
            /\ ~(message.complete /\ message.known /\ Due(message))
  PROVE  DeliveryInv'
<1>1. Forgotten' = Forgotten
  BY DEF Forgotten
<1>2. LinkUsed' /\ HeldInOrder' /\ WantedHeld'
  BY <1>1 DEF DeliveryInv, LinkUsed, HeldInOrder, WantedHeld, Due
<1>3. CallbackHeld'
  BY <1>1 DEF DeliveryInv, CallbackHeld, InCallback
<1>4. SUFFICES ASSUME NEW d \in Device PROVE (effect[d] >= wanted[d] \/ wanted[d] > Passed)'
  BY <1>2, <1>3 DEF DeliveryInv, DoneOrToDo
<1>5. effect[d] >= wanted[d] \/ wanted[d] > Passed
  BY DEF DeliveryInv, DoneOrToDo
<1>6. CASE cpc' # "return" \/ link # "up"
  <2>1. Passed' = Passed
    BY <1>1, <1>6 DEF Passed
  <2> QED  BY <1>5, <2>1
<1>7. CASE cpc' = "return" /\ link = "up"
  <2>1. message = queue[given] /\ given \in 1 .. Len(queue)
    BY <1>7, Numbers DEF DeliveryInv, CallbackHeld, InCallback
  <2>2. queue[given].id = Forgotten + given
    BY <2>1 DEF DeliveryInv, HeldInOrder
  <2>3. wanted[d] # Forgotten + given
    BY <1>7, <2>1, <2>2 DEF DeliveryInv, WantedHeld
  <2>4. Passed = Forgotten + (given - 1) /\ Passed' = Forgotten + given
    BY <1>1, <1>7 DEF Passed
  <2> QED  BY <1>5, <2>3, <2>4, Numbers
<1> QED  BY <1>6, <1>7

LEMMA DeliveryChecked ==
  AdapterTypeOK /\ DeliveryInv /\ (CommandLock \/ Check \/ ConnectionCompletes)
    => DeliveryInv'
<1> SUFFICES ASSUME AdapterTypeOK, DeliveryInv,
                    CommandLock \/ Check \/ ConnectionCompletes
             PROVE  DeliveryInv'
  OBVIOUS
<1>1. UNCHANGED <<mpc, effect, link, sent, queue, given, handled, wanted, time>>
  BY DEF CommandLock, Check, ConnectionCompletes, state, broker
<1>2. CASE CommandLock
  BY <1>1, <1>2, DeliveryCallback DEF CommandLock
<1>3. CASE ConnectionCompletes
  BY <1>1, <1>3, DeliveryCallback DEF ConnectionCompletes
<1>4. CASE Check
  <2>1. cpc = "check" /\ message' = message
    BY <1>4 DEF Check
  <2>2. \/ cpc' = "command"
        \/ /\ cpc' = "return"
           /\ ~(message.complete /\ message.known /\ Due(message))
    BY <1>4 DEF Check
  <2> QED  BY <1>1, <2>1, <2>2, DeliveryCallback
<1> QED  BY <1>2, <1>3, <1>4

\* A command has its effect: it is the last one of its device, or the last one
\* is still to come on this connection or on the next.
LEMMA DeliveryEffect == AdapterTypeOK /\ DeliveryInv /\ CommandReturns => DeliveryInv'
<1> SUFFICES ASSUME AdapterTypeOK, DeliveryInv, CommandReturns PROVE DeliveryInv'
  OBVIOUS
<1>1. /\ cpc = "command" /\ cpc' = "return" /\ message' = message
      /\ effect' = [effect EXCEPT ![message.device] = message.id]
      /\ UNCHANGED <<mpc, link, sent, queue, given, handled, wanted, time>>
  BY DEF CommandReturns, broker
<1>2. message \in Command /\ message.id \in Nat
  BY <1>1, Commands DEF AdapterTypeOK, InCallback
<1>3. Forgotten' = Forgotten
  BY <1>1 DEF Forgotten
<1>4. LinkUsed' /\ HeldInOrder' /\ WantedHeld'
  BY <1>1, <1>3 DEF DeliveryInv, LinkUsed, HeldInOrder, WantedHeld, Due
<1>5. CallbackHeld'
  BY <1>1, <1>3 DEF DeliveryInv, CallbackHeld, InCallback
<1>6. SUFFICES ASSUME NEW d \in Device
               PROVE  (effect[d] >= wanted[d] \/ wanted[d] > Passed)'
  BY <1>4, <1>5 DEF DeliveryInv, DoneOrToDo
<1>7. effect[d] >= wanted[d] \/ wanted[d] > Passed
  BY DEF DeliveryInv, DoneOrToDo
<1>8. effect'[d] = IF d = message.device THEN message.id ELSE effect[d]
  BY <1>1 DEF AdapterTypeOK
<1>9. CASE link = "up"
  <2>1. message = queue[given] /\ given \in 1 .. Len(queue)
    BY <1>1, <1>9, Numbers DEF DeliveryInv, CallbackHeld, InCallback
  <2>2. message.id = Forgotten + given
    BY <2>1 DEF DeliveryInv, HeldInOrder
  <2>3. Passed = Forgotten + (given - 1) /\ Passed' = Forgotten + given
    BY <1>1, <1>3, <1>9 DEF Passed
  <2>4. CASE d = message.device
    BY <1>1, <1>8, <2>2, <2>3, <2>4, Numbers
  <2>5. CASE d # message.device
    <3>1. wanted[d] # Forgotten + given
      BY <2>1, <2>2, <2>5 DEF DeliveryInv, WantedHeld
    <3> QED  BY <1>1, <1>7, <1>8, <2>3, <2>5, <3>1, Numbers
  <2> QED  BY <2>4, <2>5
<1>10. CASE link # "up"
  <2>1. message.id > Forgotten
    BY <1>1, <1>10 DEF DeliveryInv, CallbackHeld, InCallback
  <2>2. given = 0
    BY <1>10, Numbers DEF DeliveryInv, LinkUsed
  <2>3. Passed = Forgotten /\ Passed' = Forgotten
    BY <1>1, <1>3, <1>10, <2>2, Numbers DEF Passed
  <2> QED  BY <1>1, <1>2, <1>7, <1>8, <2>1, <2>3, Numbers
<1> QED  BY <1>9, <1>10

\* A command is given to the callback, or the callback is done with it.
LEMMA DeliveryGiven ==
  AdapterTypeOK /\ DeliveryInv /\ (Deliver \/ Acknowledge) => DeliveryInv'
<1> SUFFICES ASSUME AdapterTypeOK, DeliveryInv, Deliver \/ Acknowledge
             PROVE  DeliveryInv'
  OBVIOUS
<1>1. UNCHANGED <<mpc, effect, link, sent, queue, wanted, time>>
  BY DEF Deliver, Acknowledge, state
<1>2. Forgotten' = Forgotten
  BY <1>1 DEF Forgotten
<1>3. HeldInOrder' /\ WantedHeld'
  BY <1>1, <1>2 DEF DeliveryInv, HeldInOrder, WantedHeld, Due
<1>4. CASE Deliver
  <2>1. /\ cpc = "idle" /\ cpc' = "lock" /\ link = "up" /\ handled' = handled
        /\ given' = given + 1 /\ message' = queue[given + 1]
    BY <1>4 DEF Deliver
  <2>2. LinkUsed'
    BY <1>1, <2>1 DEF DeliveryInv, LinkUsed
  <2>3. CallbackHeld'
    BY <1>1, <2>1, Numbers DEF CallbackHeld
  <2>4. Passed = Forgotten + given /\ Passed' = Forgotten + ((given + 1) - 1)
    BY <1>1, <1>2, <2>1 DEF Passed
  <2>5. Passed' = Passed
    BY <2>4, Numbers
  <2>6. DoneOrToDo'
    BY <1>1, <2>5 DEF DeliveryInv, DoneOrToDo
  <2> QED  BY <1>3, <2>2, <2>3, <2>6 DEF DeliveryInv
<1>5. CASE Acknowledge
  <2>1. cpc = "return" /\ cpc' = "idle" /\ given' = given
    BY <1>5 DEF Acknowledge
  <2>2. LinkUsed' /\ CallbackHeld'
    BY <1>1, <2>1 DEF DeliveryInv, LinkUsed, CallbackHeld, InCallback
  <2>3. Passed' = Passed
    BY <1>1, <1>2, <2>1 DEF Passed
  <2>4. DoneOrToDo'
    BY <1>1, <2>3 DEF DeliveryInv, DoneOrToDo
  <2> QED  BY <1>3, <2>2, <2>4 DEF DeliveryInv
<1> QED  BY <1>4, <1>5

\* A new command is the last of the queue.
LEMMA DeliverySent == AdapterTypeOK /\ DeliveryInv /\ SendCommand => DeliveryInv'
<1> SUFFICES ASSUME AdapterTypeOK, DeliveryInv, SendCommand PROVE DeliveryInv'
  OBVIOUS
<1>1. /\ UNCHANGED <<mpc, cpc, message, effect, link, given, handled, time>>
      /\ sent' = sent + 1
  BY DEF SendCommand, threads, state
<1>2. PICK m \in Command :
        /\ m.id = sent + 1 /\ queue' = Append(queue, m)
        /\ \/ /\ m.complete /\ m.known /\ Due(m)
              /\ wanted' = [wanted EXCEPT ![m.device] = m.id]
           \/ wanted' = wanted
  BY SendsCommand
<1>3. /\ Len(queue') = Len(queue) + 1 /\ queue'[Len(queue) + 1] = m
      /\ \A i \in 1 .. Len(queue) : queue'[i] = queue[i]
  BY <1>2, AppendProperties DEF AdapterTypeOK
<1>4. Forgotten' = Forgotten /\ sent = Forgotten + Len(queue)
  BY <1>1, <1>3, Numbers DEF Forgotten
<1>5. LinkUsed'
  BY <1>1 DEF DeliveryInv, LinkUsed
<1>6. HeldInOrder'
  <2> SUFFICES ASSUME NEW i \in 1 .. Len(queue') PROVE queue'[i].id = Forgotten' + i
    BY DEF HeldInOrder
  <2>1. CASE i \in 1 .. Len(queue)
    BY <1>3, <1>4, <2>1 DEF DeliveryInv, HeldInOrder
  <2>2. CASE i = Len(queue) + 1
    BY <1>2, <1>3, <1>4, <2>2, Numbers
  <2> QED  BY <1>3, <2>1, <2>2, Numbers
<1>7. CallbackHeld'
  BY <1>1, <1>3, <1>4, Numbers DEF DeliveryInv, CallbackHeld, InCallback
<1>8. Passed' = Passed /\ Passed <= sent
  BY <1>1, <1>4, Numbers DEF Passed
<1>9. \A d \in Device : \/ wanted'[d] = wanted[d]
                        \/ /\ d = m.device /\ wanted'[d] = sent + 1
                           /\ m.complete /\ m.known /\ Due(m)
  BY <1>2 DEF AdapterTypeOK
<1>10. WantedHeld'
  <2> SUFFICES ASSUME NEW d \in Device
               PROVE  /\ wanted'[d] <= sent'
                      /\ \A i \in 1 .. Len(queue') : queue'[i].id = wanted'[d]
                           => /\ queue'[i].device = d /\ queue'[i].complete
                              /\ queue'[i].known /\ queue'[i].time <= time'
    BY DEF WantedHeld, Due
  <2>1. wanted[d] <= sent /\ wanted'[d] <= sent'
    BY <1>1, <1>9, Numbers DEF DeliveryInv, WantedHeld
  <2> SUFFICES ASSUME NEW i \in 1 .. Len(queue'), queue'[i].id = wanted'[d]
               PROVE  /\ queue'[i].device = d /\ queue'[i].complete
                      /\ queue'[i].known /\ queue'[i].time <= time'
    BY <2>1
  <2>2. queue'[i].id = Forgotten + i
    BY <1>4, <1>6 DEF HeldInOrder
  <2>3. CASE i \in 1 .. Len(queue)
    <3>1. queue'[i].id <= sent
      BY <1>4, <2>2, <2>3, Numbers
    <3>2. wanted'[d] # sent + 1
      BY <3>1, Numbers
    <3>3. wanted'[d] = wanted[d]
      BY <1>9, <3>2
    <3> QED  BY <1>1, <1>3, <2>3, <3>3 DEF DeliveryInv, WantedHeld, Due
  <2>4. CASE i = Len(queue) + 1
    <3>1. wanted'[d] = sent + 1
      BY <1>4, <2>2, <2>4, Numbers
    <3>2. d = m.device /\ m.complete /\ m.known /\ Due(m)
      BY <1>9, <2>1, <3>1, Numbers
    <3> QED  BY <1>1, <1>3, <2>4, <3>2 DEF Due
  <2> QED  BY <1>3, <2>3, <2>4, Numbers
<1>11. DoneOrToDo'
  BY <1>1, <1>8, <1>9, Numbers DEF DeliveryInv, DoneOrToDo
<1> QED  BY <1>5, <1>6, <1>7, <1>10, <1>11 DEF DeliveryInv

\* The broker forgets the oldest command, which was acknowledged.
LEMMA DeliveryForgotten == AdapterTypeOK /\ DeliveryInv /\ BrokerForgets => DeliveryInv'
<1> SUFFICES ASSUME AdapterTypeOK, DeliveryInv, BrokerForgets PROVE DeliveryInv'
  OBVIOUS
<1>1. /\ UNCHANGED <<mpc, cpc, message, effect, link, sent, wanted, time>>
      /\ link = "up" /\ handled > 0 /\ queue' = Tail(queue)
      /\ given' = given - 1 /\ handled' = handled - 1
  BY DEF BrokerForgets, threads, state
<1>2. queue # <<>>
  BY <1>1, Numbers, EmptySeq
<1>3. /\ Len(queue') = Len(queue) - 1
      /\ \A i \in 1 .. Len(queue') : queue'[i] = queue[i + 1]
  BY <1>1, <1>2, HeadTailProperties DEF AdapterTypeOK
<1>4. \A i \in 1 .. Len(queue') : i + 1 \in 1 .. Len(queue)
  BY <1>3, Numbers
<1>5. Forgotten' = Forgotten + 1
  BY <1>1, <1>3, Numbers DEF Forgotten
<1>6. LinkUsed'
  BY <1>1 DEF DeliveryInv, LinkUsed
<1>7. HeldInOrder'
  <2> SUFFICES ASSUME NEW i \in 1 .. Len(queue')
               PROVE  queue'[i].id = Forgotten' + i
    BY DEF HeldInOrder
  <2>1. queue'[i] = queue[i + 1] /\ i + 1 \in 1 .. Len(queue)
    BY <1>3, <1>4
  <2>2. queue[i + 1].id = Forgotten + (i + 1)
    BY <2>1 DEF DeliveryInv, HeldInOrder
  <2> QED  BY <1>5, <2>1, <2>2, Numbers
<1>8. CallbackHeld'
  <2> SUFFICES ASSUME InCallback PROVE handled' < given' /\ message = queue'[given']
    BY <1>1 DEF CallbackHeld, InCallback
  <2>1. handled < given /\ message = queue[given]
    BY <1>1 DEF DeliveryInv, CallbackHeld
  <2>2. given - 1 \in 1 .. Len(queue') /\ given = (given - 1) + 1
    BY <1>1, <1>3, <2>1, Numbers
  <2> QED  BY <1>1, <1>3, <2>1, <2>2, Numbers
<1>9. WantedHeld'
  BY <1>1, <1>3, <1>4 DEF DeliveryInv, WantedHeld, Due
<1>10. Passed' = Passed
  <2>1. CASE cpc \in {"lock", "check", "command"}
    <3>1. Passed = Forgotten + (given - 1)
      BY <1>1, <2>1 DEF Passed
    <3>2. Passed' = (Forgotten + 1) + ((given - 1) - 1)
      BY <1>1, <1>5, <2>1 DEF Passed
    <3> QED  BY <3>1, <3>2, Numbers
  <2>2. CASE cpc \notin {"lock", "check", "command"}
    <3>1. Passed = Forgotten + given
      BY <2>2 DEF Passed
    <3>2. Passed' = (Forgotten + 1) + (given - 1)
      BY <1>1, <1>5, <2>2 DEF Passed
    <3> QED  BY <3>1, <3>2, Numbers
  <2> QED  BY <2>1, <2>2
<1>11. DoneOrToDo'
  BY <1>1, <1>10 DEF DeliveryInv, DoneOrToDo
<1> QED  BY <1>6, <1>7, <1>8, <1>9, <1>11 DEF DeliveryInv

\* The connection comes up, is lost or comes back.
LEMMA DeliveryLink ==
  AdapterTypeOK /\ DeliveryInv /\ (CreateSubscribers \/ LinkDrops \/ LinkResumes)
    => DeliveryInv'
<1> SUFFICES ASSUME AdapterTypeOK, DeliveryInv,
                    CreateSubscribers \/ LinkDrops \/ LinkResumes
             PROVE  DeliveryInv'
  OBVIOUS
<1>1. UNCHANGED <<mpc, message, effect, sent, queue, wanted, time>>
  BY DEF CreateSubscribers, LinkDrops, LinkResumes, threads, state
<1>2. Forgotten' = Forgotten
  BY <1>1 DEF Forgotten
<1>3. HeldInOrder' /\ WantedHeld'
  BY <1>1, <1>2 DEF DeliveryInv, HeldInOrder, WantedHeld, Due
<1>4. CASE CreateSubscribers \/ LinkResumes
  <2>1. /\ cpc = "idle" /\ cpc' \in {"idle", "connected"} /\ given' = given
        /\ link \in {"connecting", "down"} /\ link' = "up"
    BY <1>4 DEF CreateSubscribers, LinkResumes, threads
  <2>2. LinkUsed' /\ CallbackHeld'
    BY <1>1, <2>1 DEF DeliveryInv, LinkUsed, CallbackHeld, InCallback
  <2>3. Passed' = Passed
    BY <1>1, <1>2, <2>1 DEF Passed
  <2>4. DoneOrToDo'
    BY <1>1, <2>3 DEF DeliveryInv, DoneOrToDo
  <2> QED  BY <1>3, <2>2, <2>4 DEF DeliveryInv
<1>5. CASE LinkDrops
  <2>1. /\ cpc' = cpc /\ link = "up" /\ link' = "down" /\ given' = 0
    BY <1>5 DEF LinkDrops, threads
  <2>2. LinkUsed'
    BY <1>1, <2>1 DEF DeliveryInv, LinkUsed
  <2>3. CallbackHeld'
    <3> SUFFICES ASSUME InCallback PROVE message.id > Forgotten
      BY <1>1, <1>2, <2>1 DEF CallbackHeld, InCallback
    <3>1. handled < given /\ message = queue[given]
      BY <2>1 DEF DeliveryInv, CallbackHeld
    <3>2. given \in 1 .. Len(queue)
      BY <3>1, Numbers
    <3>3. message.id = Forgotten + given
      BY <3>1, <3>2 DEF DeliveryInv, HeldInOrder
    <3> QED  BY <3>2, <3>3, Numbers
  <2>4. Passed' = Forgotten
    BY <1>2, <2>1, Numbers DEF Passed
  <2>5. Passed >= Forgotten
    <3>1. CASE cpc \in {"lock", "check", "command"}
      <4>1. handled < given
        BY <2>1, <3>1 DEF DeliveryInv, CallbackHeld, InCallback
      <4> QED  BY <2>1, <3>1, <4>1, Numbers DEF Passed
    <3>2. CASE cpc \notin {"lock", "check", "command"}
      BY <3>2, Numbers DEF Passed
    <3> QED  BY <3>1, <3>2
  <2>6. DoneOrToDo'
    BY <1>1, <2>4, <2>5, Numbers DEF DeliveryInv, DoneOrToDo
  <2> QED  BY <1>3, <2>2, <2>3, <2>6 DEF DeliveryInv
<1> QED  BY <1>4, <1>5

LEMMA DeliveryStep ==
  AdapterTypeOK /\ DeliveryInv /\ [AdapterNext]_adapterVars => DeliveryInv'
<1> SUFFICES ASSUME AdapterTypeOK, DeliveryInv, [AdapterNext]_adapterVars
             PROVE  DeliveryInv'
  OBVIOUS
<1>1. CASE AdapterNext
  BY <1>1, DeliveryMain, DeliveryIdle, DeliveryChecked, DeliveryEffect,
     DeliveryGiven, DeliverySent, DeliveryForgotten, DeliveryLink
     DEF AdapterNext, CallbackStep
<1>2. CASE UNCHANGED adapterVars
  BY <1>2, Numbers, DeliveryElsewhere DEF adapterVars, threads, state, broker
<1> QED  BY <1>1, <1>2

\* The broker holds every command that is not done, in order, and the command
\* that has to be done comes after every one that may undo it.
THEOREM DeliveryInvariance == AdapterSpec => []DeliveryInv
BY TypeInit, TypeStep, DeliveryInit, DeliveryStep, PTL DEF AdapterSpec

\* When the broker has nothing left and the callback has returned, the latest
\* command that had to be done on a device is in effect, or a later one is,
\* however often interruptions made the adapter execute older ones again.
THEOREM LastCommandsWin == AdapterSpec => []LastCommandWins
<1>1. AdapterTypeOK /\ DeliveryInv => LastCommandWins
  <2> SUFFICES ASSUME AdapterTypeOK, DeliveryInv, queue = <<>>, cpc = "idle",
                      NEW d \in Device
               PROVE  effect[d] >= wanted[d]
    BY DEF LastCommandWins
  <2>1. Len(queue) = 0 /\ given = 0
    BY EmptySeq, Numbers
  <2>2. Passed = sent
    BY <2>1, Numbers DEF Passed, Forgotten
  <2>3. wanted[d] <= sent
    BY DEF DeliveryInv, WantedHeld
  <2> QED  BY <2>2, <2>3, Numbers DEF DeliveryInv, DoneOrToDo
<1> QED  BY <1>1, AdapterTyping, DeliveryInvariance, PTL
=============================================================================
