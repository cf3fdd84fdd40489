-------------------------- MODULE TRLIotCoreAdapter -------------------------
(***************************************************************************)
(* The adapter process (aws_iot_adapter/src/TRLIotCoreAdapter.cpp and      *)
(* main.cpp).  Its main thread publishes the state of every device once a  *)
(* second; the event loop thread of the MQTT client runs the callbacks:    *)
(* connection completed, door command, lift command.  m_mutex keeps the    *)
(* two threads apart.                                                      *)
(*                                                                         *)
(* A device is used through calls that take time; what a call does on the  *)
(* wire is modelled in TRLDoorInterface and TRLLiftInterface, whose one    *)
(* operation at a time is what DeviceUsedByOne guarantees here.  Commands  *)
(* come from an MQTT broker with a persistent session (cleanSession false, *)
(* QoS at least once): it keeps a command until it is acknowledged and     *)
(* sends it again after an interruption.                                   *)
(***************************************************************************)
EXTENDS Integers, Sequences

CONSTANTS
  Door, Lift,     \* names in doors_config.yaml and lift_config.yaml
  NoDevice,       \* no call in progress
  MaxSent,        \* bound of the model on the commands sent
  MaxInterrupts,  \* bound of the model on the interruptions of the connection
  MaxTime         \* bound of the model on the clock

Device == Door \union Lift

ASSUME AdapterAssumption ==
  /\ NoDevice \notin Device /\ Door \intersect Lift = {}
  /\ MaxSent \in Nat /\ MaxInterrupts \in Nat /\ MaxTime \in Nat

Main == "main"
Mqtt == "mqtt"
Threads == {Main, Mqtt}

\* A command: complete if all the fields are there and well-formed; known if
\* its mode or request type is one the adapter acts on.
Command == [id: 1 .. MaxSent, device: Device, time: 0 .. MaxTime,
            complete: BOOLEAN, known: BOOLEAN]

VARIABLES
  mpc,         \* statement of the main thread
  cpc,         \* statement of the event loop thread
  message,     \* command the callback is about
  m_mutex,     \* its owner, or "free"
  m_connected,
  stop,        \* set by SIGINT
  link,        \* MQTT connection: "none", "connecting", "up", "down", "failed"
  subscribed,  \* the broker knows the subscriptions
  todo,        \* devices PublishState has left
  using,       \* device each thread has a call in progress on
  m_session_id, \* id of the command whose session the lift has; 0: none
  effect,      \* id of the last command carried out on each device
  published,   \* effect and session when the device was last published
  time,        \* the clock
  sent,        \* number of commands sent
  queue,       \* commands the broker holds, oldest first
  given,       \* how many of them it has sent on this connection
  handled,     \* how many of those the client has acknowledged
  interrupts,  \* interruptions so far
  wanted       \* history: last command sent to each device that has to be done

threads == <<mpc, cpc, message, m_mutex, todo, using>>
state   == <<m_connected, stop, m_session_id, effect, published>>
broker  == <<link, subscribed, sent, queue, given, handled, interrupts>>
adapterVars == <<threads, state, broker, time, wanted>>

None == [d \in Device |-> 0]
NoMessage == [id |-> 0]

AdapterInit ==
  /\ mpc = "initialize" /\ cpc = "idle" /\ message = NoMessage
  /\ m_mutex = "free" /\ m_connected = FALSE /\ stop = FALSE
  /\ link = "none" /\ subscribed = FALSE
  /\ todo = {} /\ using = [t \in Threads |-> NoDevice]
  /\ m_session_id = [l \in Lift |-> 0] /\ effect = None
  /\ published = [d \in Device |-> [effect |-> 0, session |-> 0]]
  /\ time = 0 /\ sent = 0 /\ queue = <<>> /\ given = 0 /\ handled = 0
  /\ interrupts = 0 /\ wanted = None

Running == mpc # "exited"

(***************************************************************************)
(* The main thread                                                         *)
(***************************************************************************)
\* Initialize fails on a missing field or file or when Connect cannot even
\* start; a door or a lift that fails to initialise does not matter.
Initialize ==
  /\ mpc = "initialize"
  /\ \/ mpc' = "loop" /\ link' = "connecting"
     \/ mpc' = "exited" /\ UNCHANGED link
  /\ UNCHANGED <<cpc, message, m_mutex, todo, using, state, subscribed, sent,
                 queue, given, handled, interrupts, time, wanted>>

\* exit(-1) ends the process without leaving main: no destructor runs.
Loop ==
  /\ mpc = "loop"
  /\ mpc' = IF stop THEN "exited" ELSE IF m_connected THEN "lock" ELSE "sleep"
  /\ UNCHANGED <<cpc, message, m_mutex, todo, using, state, broker, time, wanted>>

\* Mutant of PublishLock: PublishState runs without the lock.
PublishLock_None == UNCHANGED m_mutex

\* The lock_guard of PublishState.
PublishLock == m_mutex = "free" /\ m_mutex' = Main

PublishBegins ==
  /\ mpc = "lock" /\ PublishLock
  /\ mpc' = "publish" /\ todo' = Device
  /\ UNCHANGED <<cpc, message, using, state, broker, time, wanted>>

\* Doors are published before lifts.
NextDevices == IF todo \intersect Door # {} THEN todo \intersect Door ELSE todo

PublishQueries ==
  /\ mpc = "publish" /\ using[Main] = NoDevice
  /\ \E d \in NextDevices : using' = [using EXCEPT ![Main] = d]
  /\ UNCHANGED <<mpc, cpc, message, m_mutex, todo, state, broker, time, wanted>>

\* Mutant of Snapshot: session_id is forgotten.
Snapshot_NoSession(d) == [effect |-> effect[d], session |-> published[d].session]

\* What is published of a device.
Snapshot(d) == [effect |-> effect[d], session |-> IF d \in Lift THEN m_session_id[d] ELSE 0]

PublishDevice ==
  /\ mpc = "publish" /\ using[Main] # NoDevice
  /\ published' = [published EXCEPT ![using[Main]] = Snapshot(using[Main])]
  /\ todo' = todo \ {using[Main]}
  /\ using' = [using EXCEPT ![Main] = NoDevice]
  /\ UNCHANGED <<mpc, cpc, message, m_mutex, m_connected, stop, m_session_id,
                 effect, broker, time, wanted>>

PublishEnds ==
  /\ mpc = "publish" /\ using[Main] = NoDevice /\ todo = {}
  /\ mpc' = "sleep" /\ m_mutex' = "free"
  /\ UNCHANGED <<cpc, message, todo, using, state, broker, time, wanted>>

Wake ==
  /\ mpc = "sleep" /\ mpc' = "loop"
  /\ UNCHANGED <<cpc, message, m_mutex, todo, using, state, broker, time, wanted>>

MainStep == \/ Initialize \/ Loop \/ PublishBegins \/ PublishQueries
            \/ PublishDevice \/ PublishEnds \/ Wake

\* SIGINT.
Interrupted ==
  /\ Running /\ ~stop /\ stop' = TRUE
  /\ UNCHANGED <<threads, m_connected, m_session_id, effect, published, broker,
                 time, wanted>>

(***************************************************************************)
(* The event loop thread                                                   *)
(***************************************************************************)
\* onConnectionCompleted: a connection that fails is not tried again.
ConnectionFails ==
  /\ Running /\ cpc = "idle" /\ link = "connecting"
  /\ link' = "failed"
  /\ UNCHANGED <<threads, state, subscribed, sent, queue, given, handled,
                 interrupts, time, wanted>>

CreateSubscribers ==
  /\ Running /\ cpc = "idle" /\ link = "connecting"
  /\ cpc' = "connected"
  /\ link' = "up" /\ subscribed' = TRUE
  /\ UNCHANGED <<mpc, message, m_mutex, todo, using, state, sent, queue, given,
                 handled, interrupts, time, wanted>>

ConnectionCompletes ==
  /\ Running /\ cpc = "connected"
  /\ cpc' = "idle" /\ m_connected' = TRUE
  /\ UNCHANGED <<mpc, message, m_mutex, todo, using, stop, m_session_id, effect,
                 published, broker, time, wanted>>

\* The broker hands the next command to the callback of its topic.
Deliver ==
  /\ Running /\ cpc = "idle" /\ link = "up" /\ given < Len(queue)
  /\ given' = given + 1 /\ message' = queue[given + 1]
  /\ cpc' = "lock"
  /\ UNCHANGED <<mpc, m_mutex, todo, using, state, link, subscribed, sent, queue,
                 handled, interrupts, time, wanted>>

CommandLock ==
  /\ Running /\ cpc = "lock" /\ m_mutex = "free"
  /\ m_mutex' = Mqtt /\ cpc' = "check"
  /\ UNCHANGED <<mpc, message, todo, using, state, broker, time, wanted>>

\* Mutant of Due: the comparison of the times is the other way round.
Due_Reversed(m) == m.time > time

\* Commands dated in the future are passed over.
Due(m) == m.time <= time

\* Mutant of Released: the early return for missing fields keeps the lock.
Released_NotEarly == IF message.complete THEN "free" ELSE m_mutex

\* The lock_guard of the callbacks releases m_mutex on every path.
Released == "free"

\* LiftCommandReceiveCallback sets the session before it looks at the request
\* type; a mode or a type it does not know does nothing more.
Check ==
  /\ Running /\ cpc = "check"
  /\ LET m == message
         accepted == m.complete /\ Due(m)
     IN  /\ m_session_id' = [l \in Lift |-> IF accepted /\ l = m.device
                                            THEN m.id ELSE m_session_id[l]]
         /\ \/ /\ accepted /\ m.known
               /\ using' = [using EXCEPT ![Mqtt] = m.device]
               /\ cpc' = "command" /\ UNCHANGED m_mutex
            \/ /\ ~(accepted /\ m.known)
               /\ cpc' = "return" /\ m_mutex' = Released
               /\ UNCHANGED using
  /\ UNCHANGED <<mpc, message, todo, m_connected, stop, effect, published,
                 broker, time, wanted>>

\* ActuateDoor, CommandLift or EndLift returns; its result is ignored.
CommandReturns ==
  /\ Running /\ cpc = "command"
  /\ effect' = [effect EXCEPT ![message.device] = message.id]
  /\ using' = [using EXCEPT ![Mqtt] = NoDevice]
  /\ cpc' = "return" /\ m_mutex' = Released
  /\ UNCHANGED <<mpc, message, todo, m_connected, stop, m_session_id, published,
                 broker, time, wanted>>

\* The callback has returned: the client acknowledges the command, unless the
\* connection it came on is gone.
Acknowledge ==
  /\ Running /\ cpc = "return"
  /\ cpc' = "idle" /\ message' = NoMessage
  /\ handled' = IF given > handled /\ link = "up" THEN handled + 1 ELSE handled
  /\ UNCHANGED <<mpc, m_mutex, todo, using, state, link, subscribed, sent, queue,
                 given, interrupts, time, wanted>>

CallbackStep == \/ ConnectionCompletes \/ Check \/ CommandReturns \/ Acknowledge

(***************************************************************************)
(* Broker, network and clock                                               *)
(***************************************************************************)
SendCommand ==
  /\ Running /\ subscribed /\ sent < MaxSent
  /\ \E d \in Device, t \in 0 .. MaxTime, c \in BOOLEAN, k \in BOOLEAN :
       LET m == [id |-> sent + 1, device |-> d, time |-> t, complete |-> c,
                 known |-> k]
       IN  /\ queue' = Append(queue, m)
           /\ wanted' = IF c /\ k /\ t <= time THEN [wanted EXCEPT ![d] = m.id]
                        ELSE wanted
  /\ sent' = sent + 1
  /\ UNCHANGED <<threads, state, link, subscribed, given, handled, interrupts, time>>

\* An acknowledgement reaches the broker.
BrokerForgets ==
  /\ link = "up" /\ handled > 0
  /\ queue' = Tail(queue) /\ given' = given - 1 /\ handled' = handled - 1
  /\ UNCHANGED <<threads, state, link, subscribed, sent, interrupts, time, wanted>>

\* Acknowledgements under way are lost.
LinkDrops ==
  /\ link = "up" /\ interrupts < MaxInterrupts
  /\ link' = "down" /\ given' = 0 /\ handled' = 0
  /\ interrupts' = interrupts + 1
  /\ UNCHANGED <<threads, state, subscribed, sent, queue, time, wanted>>

\* The client reconnects by itself, from its event loop thread; the callbacks
\* onInterrupted and onResumed only log.
LinkResumes ==
  /\ Running /\ link = "down" /\ cpc = "idle"
  /\ link' = "up"
  /\ UNCHANGED <<threads, state, subscribed, sent, queue, given, handled,
                 interrupts, time, wanted>>

Tick ==
  /\ time < MaxTime /\ time' = time + 1
  /\ UNCHANGED <<threads, state, broker, wanted>>

AdapterNext ==
  \/ MainStep \/ Interrupted \/ ConnectionFails \/ CreateSubscribers
  \/ Deliver \/ CommandLock \/ CallbackStep
  \/ SendCommand \/ BrokerForgets \/ LinkDrops \/ LinkResumes \/ Tick

\* Threads keep running and calls return (TRLDoorInterface, OperationEnds; the
\* adapter binds no lift variable, so a lift call reaches no PLC).  The main
\* thread sleeps outside the lock, so a callback that waits for it gets it.
\* The client library reconnects and the broker delivers.
AdapterFairness ==
  /\ WF_adapterVars(MainStep) /\ WF_adapterVars(CallbackStep)
  /\ SF_adapterVars(CommandLock)
  /\ WF_adapterVars(Deliver) /\ WF_adapterVars(BrokerForgets)
  /\ WF_adapterVars(LinkResumes)

AdapterSpec == AdapterInit /\ [][AdapterNext]_adapterVars /\ AdapterFairness

(***************************************************************************)
(* Properties                                                              *)
(***************************************************************************)
\* The event loop thread is in the callback of a command.
InCallback == cpc \in {"lock", "check", "command", "return"}

\* Types of the adapter's fields, its threads and the broker; m_mutex is held
\* exactly inside the blocks of its lock_guards, whichever way they are left.
AdapterTypeOK ==
  /\ mpc \in {"initialize", "loop", "lock", "publish", "sleep", "exited"}
  /\ cpc \in {"idle", "connected", "lock", "check", "command", "return"}
  /\ message \in IF InCallback THEN Command ELSE {NoMessage}
  /\ m_mutex \in Threads \union {"free"} /\ todo \subseteq Device
  /\ m_mutex = Main <=> mpc = "publish"
  /\ m_mutex = Mqtt <=> cpc \in {"check", "command"}
  /\ using \in [Threads -> Device \union {NoDevice}]
  /\ m_connected \in BOOLEAN /\ stop \in BOOLEAN /\ subscribed \in BOOLEAN
  /\ m_session_id \in [Lift -> 0 .. MaxSent]
  /\ effect \in [Device -> 0 .. MaxSent] /\ wanted \in [Device -> 0 .. MaxSent]
  /\ published \in [Device -> [effect: 0 .. MaxSent, session: 0 .. MaxSent]]
  /\ link \in {"none", "connecting", "up", "down", "failed"}
  /\ queue \in Seq(Command) /\ sent \in 0 .. MaxSent
  /\ given \in 0 .. Len(queue) /\ handled \in 0 .. given
  /\ time \in 0 .. MaxTime /\ interrupts \in 0 .. MaxInterrupts

\* "mutex to ensure thread safety for simultaneous subscribing and publishing"
\* (TRLIotCoreAdapter.hpp:134): no two calls are in progress on one device.
DeviceUsedByOne == \A d \in Device : ~(using[Main] = d /\ using[Mqtt] = d)

\* A thread has a call in progress only while it holds m_mutex: the main thread
\* inside PublishState, the event loop thread inside the callback, on the device
\* the command is for.
UseInv ==
  /\ using[Main] # NoDevice => m_mutex = Main
  /\ using[Mqtt] # NoDevice => m_mutex = Mqtt /\ cpc = "command"

\* What PublishState publishes of all the devices is one state: from its first
\* query to its last message no command takes effect and no session changes.
SnapshotIsStable ==
  [][mpc = "publish" /\ mpc' = "publish"
       => UNCHANGED <<effect, m_session_id>>]_adapterVars

\* Commands are executed again after a lost acknowledgement, without a look at
\* the dup flag; an older command that is executed again is never the last one:
\* when the broker has nothing left, the latest command that had to be done is
\* the one in effect, or a later one that was dated in the future when sent.
LastCommandWins ==
  queue = <<>> /\ cpc = "idle" /\ subscribed
    => \A d \in Device : effect[d] >= wanted[d]

\* How many commands the broker has forgotten, and the last one the client is
\* through with on this connection.
Forgotten == sent - Len(queue)
Passed == Forgotten + IF link = "up" /\ cpc \in {"lock", "check", "command"}
                      THEN given - 1 ELSE given

\* A command is given only on a connection that is up.
LinkUsed == /\ mpc = "initialize" => link = "none"
            /\ given > 0 => link = "up"

\* The broker holds every command after the ones it has forgotten, in order.
HeldInOrder == \A i \in 1 .. Len(queue) : queue[i].id = Forgotten + i

\* The command in the callback is the last one given on this connection, or one
\* of a connection that is lost, which the broker still holds.
CallbackHeld ==
  InCallback => \/ link = "up" /\ handled < given /\ message = queue[given]
                \/ link = "down" /\ message.id > Forgotten

\* The broker holds the command that has to be done as it was sent.
WantedHeld ==
  \A d \in Device : /\ wanted[d] <= sent
                    /\ \A i \in 1 .. Len(queue) : queue[i].id = wanted[d]
                         => /\ queue[i].device = d /\ queue[i].complete
                            /\ queue[i].known /\ Due(queue[i])

\* It is in effect, or a later one is, or it is still to be delivered.
DoneOrToDo == \A d \in Device : effect[d] >= wanted[d] \/ wanted[d] > Passed

\* Why an old command that is executed again does no harm: whatever effect a
\* redelivery puts back, the command that has to be done comes again after it.
DeliveryInv == LinkUsed /\ HeldInOrder /\ CallbackHeld /\ WantedHeld /\ DoneOrToDo

\* Every command that was accepted by the broker and has to be done is carried
\* out, whatever interruptions and redeliveries come in between, or a later one
\* is, or the process ends.
CommandsAreDone ==
  \A d \in Device : \A i \in 1 .. MaxSent :
    wanted[d] = i ~> (effect[d] >= i \/ ~Running)

\* The published state catches up: the effect a command has left on a device and the
\* session the lift has by then (which a command may set without an effect:
\* TRLIotCoreAdapter.cpp:357) get published, unless the process is told to stop or
\* they are superseded before; then what superseded them does.
StateIsPublished ==
  \A d \in Device :
    []<>(stop \/ /\ published[d].effect = effect[d]
                 /\ d \in Lift => published[d].session = m_session_id[d])
=============================================================================
