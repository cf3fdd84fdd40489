# Verification of infra_controllers

infra_controllers drives doors and lifts of a building from AWS IoT. One process
(`aws_iot_adapter`) talks Modbus/TCP to door controllers and ADS to the PLC of a
lift, publishes their state over MQTT once a second and carries out the commands
it receives. This directory holds TLA+ models of its parts and of the ADS library it
is shipped with, the TLC instances that check them, and proofs checked by TLAPS.

    tlc -config MCModbus.cfg MCModbus      # model-check one instance
    tlapm ModbusProofs.tla                 # check the proofs of one part; also Door-,
                                           # Ads-, Lift-, Adapter-, Connection-,
                                           # Router- and NotificationProofs

## 1. The system

| part | state | operations | interacts with |
|---|---|---|---|
| Modbus client, `class modbus` (door_controller/include/modbus.hpp) | socket, `m_connected`, `err`, `m_msg_id` | connect, close, four reads, four writes: each is one `send` and one `recv` | slave over TCP |
| Door (TRLDoorInterface) | one Modbus object | Initialize with retries, ActuateDoor, GetDoorState, CheckConnection | Modbus client; called by the adapter |
| ADS interface (AdsInterface) | route, one handle per alias, type maps, `m_device_state`, `m_temp`, two mutexes | AdsWriteValue, AdsReadValue, Factory, ConnectionCheck, BindPLCVar, AcquireVariables, InitRoute; they call each other | ADS library; called by the lift |
| Lift (TRLLiftInterface) | one ADS interface, session id | Initialize, CommandLift, EndLift, six queries, HeartbeatConnection, CheckConnection | ADS interface; the PLC program runs in between |
| Adapter (TRLIotCoreAdapter, main.cpp) | doors, lifts, `m_mutex`, `m_connected`, `stop` | Initialize, PublishState, three callbacks, SIGINT | MQTT event loop thread, broker with a persistent session |
| Configuration (aws_iot_adapter/config) | aliases, modes, addresses, topics | read once | - |
| AMS connection (lift_controller/lib/ADS, AmsConnection) | one request slot per port (three atomics), invoke id counter, socket | AdsRequest of many threads, one receiver thread | PLC over TCP; notifications |
| AMS router and ports (AmsRouter, AmsPort, AdsDevice) | route table, connections with reference counts, ports, notification lists | AddRoute, DelRoute, OpenPort, ClosePort, requests, notifications | AMS connections; AdsDevice objects of the ADS interface |
| Notifications (RingBuffer, NotificationDispatcher, AdsNotification) | ring of bytes, semaphore, map of handles | ReceiveNotification, Run, Emplace, Erase, destructor | receiver thread, user threads |

What is hard here, and what makes each part correct:

* Modbus: replies are matched to calls by nothing but their position in the TCP
  stream. Timeouts, late and coalesced replies, end of stream and resets decide
  whether a read is current, a write was executed, and a call returns at all.
* Door: an operation is two Modbus calls, while the leaf moves and the slave acts.
  The answer must still say something true about coil and leaf.
* ADS interface: repair runs inside the failing call, through mutually recursive
  operations under two non-recursive mutexes, and replaces the route that handles
  refer to. No deadlock, no use of a dead route, no mixed-up scratch value.
* Lift: a command is three PLC writes whose failures go unreported, then reads
  back. A true answer must mean that the PLC holds the command.
* Adapter: two threads and a broker that redelivers. No two calls at a time on one
  device, every publication one snapshot, no command lost, no old one reinstated.
* AMS connection: callers and receiver share a slot without a lock, while answers
  come late, in pieces, in another order, or never. An answer goes to its own call,
  nothing is written into a buffer that is gone, a call returns.
* Router: raw pointers to a shared connection in three places. The last device
  deletes it, and nobody before.
* Notifications: a ring without synchronisation of its positions, frames with
  unknown handles and wrong sizes, objects destroyed while a callback is due.

## 2. Modules

| module | models | extends |
|---|---|---|
| Modbus | the client, its connection, the slave | - |
| TRLDoorInterface | a door on top of Modbus | Modbus |
| AdsInterface | the ADS interface, any number of threads | - |
| TRLLiftInterface | a lift over the ADS interface's contract | - |
| TRLIotCoreAdapter | main thread, event loop thread, broker | - |
| AdsCalls | what the ADS library promises its callers | - |
| AmsConnection | callers, slots, receiver, device | -; instantiates AdsCalls |
| AmsRouter | routes, connections, ports, AdsDevice objects | - |
| RingBuffer | the arithmetic of the ring | - |
| FrameQueue | what the ring promises the two threads that share it | - |
| NotificationDispatcher | receiver, dispatcher and user threads around the ring | RingBuffer; instantiates FrameQueue |
| ModbusProofs, DoorProofs, AdsProofs, LiftProofs, AdapterProofs, ConnectionProofs, RouterProofs, NotificationProofs | theorems | the module they are about (DoorProofs also ModbusProofs), TLAPS |
| MCModbus, MCDoor, MCAds, MCLift, MCAdapter, MCConnection, MCRouter, MCNotifications | constants for TLC | the module they instantiate |

Variables carry the names of the fields (`m_connected`, `m_device_state`,
`m_route`, `m_mutex`, ...). Variables that are not in the code are marked
"history" and only let properties look back. Definitions whose name ends in
`_Something`, introduced by the word "Mutant", are variants of the definition that
follows them with a plausible bug; no specification uses them.

**Modbus.** `pc` is "waiting" while a call is in `recv`. `Send` is everything from
the call to `recv`; `Receive`, `EndOfStream` and `ReceiveFails` are the three ways
`recv` ends (data, 0, -1) with everything up to the return of the call; only -1 is
an error for the code. `NotConnected` and `BadInput` are the early returns.
`SendKills` is SIGPIPE, which the process does not handle. `Serve`, `PlantMoves`,
`PeerCloses` and `PeerResets` are the other side. A frame travels whole, one `recv`
may return several of them, and one transfer is about one item. The caller's buffer
is uninitialised in the code, so a read that does not fill it leaves any value.

**TRLDoorInterface.** `dpc` is the statement between two Modbus calls; each door
action is a step of `Modbus` (or leaves it alone) joined with a step of the door.
`DoorMoves` restricts the plant to a leaf that cannot be open and closed at once.

**AdsInterface.** Each thread has a stack of frames, so that `AdsWriteValue ->
Factory -> ConnectionCheck -> Factory` is modelled as the code runs it, lock by
lock. A route is the number of the InitRoute that made it, a handle is the route it
was made on, `live` are the routes not deleted. Undefined behaviour (a null, freed
or dead pointer used, a double delete) sets `fault` and ends the run. One thread
calls Initialize before the others start; the initial reads of the maps happen
before the locks, as in the code. `setting` says which threads there are, whether
accesses may fail, what the PLC's symbol table lists and which types the variables
have: Factory makes no handle for some types and a useless one for others, and the
last entry of the table is passed over.

**TRLLiftInterface.** One action per statement that touches the PLC. `Write` is
the contract of AdsWriteValue: it may be lost silently when the variable is not
bound or the device is down; a failed access may have reached the PLC, may switch
`m_device_state` off, throw, or never return ("stuck": the deadlock that run
ads_deadlock shows). `Read` returns the empty variant, which holds the bool false.
`Int8` is the conversion of the floor to eight bits.

**TRLIotCoreAdapter.** `mpc` and `cpc` are the two threads, `using` the device call
each has in progress. A command is a record that says whether it is complete, known
and due; the broker keeps it until it is acknowledged and sends it again after an
interruption, as an MQTT broker does for cleanSession false and QoS 1. `Snapshot` is
what PublishState publishes of a device: what the last command left on it and, of a
lift, the session.

**AmsConnection.** `request`, `invokeId` and `errorCode` are the three atomics of a
slot, and each access to one is an action: Reserve (compare-exchange), StoreId,
the write, `WaitDeadline` (the exchange with 0 at the deadline, or the news that the
receiver has taken the answer), `WaitServed`, ReleaseCode, ReleaseSlot. `rx` is the
receiver between two reads of the socket: header, answer (an error it reports at
once), result, data, junk, ended. The bytes of a frame are units, one for the
headers, one for the result, one per part of the data, so that a frame can stop, and
a deadline pass, anywhere in it. The device answers a request at most once, in any
order, in full, in part, too long, shorter than a result ("stub"), with an error in
one of the two fields for it, with a command nobody knows, or with the code 0xFFFFFFFF
("reserved"), the number a slot waits with (`Unset`); it sends frames nobody asked for
and closes the connection anywhere. Two things take a read into the next frame: a
timeout inside an answer, since the junk is counted without what was read already,
and a stub, since bytesLeft underflows (`SizeModulus` is the range of a size_t). From
there the next header is read out of other bytes (`Garbled`); `aligned` remembers
that. What the receiver then does is in the model as far as it goes: a buffer that is
overrun or gone ends the run (`killed`), a null buffer makes it spin.
**AdsCalls** is the same seen by a caller: requests, whether they reached the device, whether it carried them out, outcomes.

**AmsRouter.** `mapping` is the route table, `refCount`, `host` and `broken` belong to
connections, which are numbered as they are made. A device goes through the
constructor and destructor of AdsDevice (`at`): AddRoute, OpenPort, requests,
ClosePort, DelRoute. Router operations hold one recursive mutex and are atomic; a
request looks its connection up under the mutex and uses it without (`call`), so
everything may happen between RequestBegins and RequestEnds.

**NotificationDispatcher.** `rx` is ReceiveNotification: the test for room, the length,
then pieces that end at the end of the array; the pieces are blocking reads of the
socket (`Blocks`); the dispatcher's position is loaded
twice in each expression, and `rx.load` is the first of the two. `run` is the
dispatcher's thread, statement by statement; `user` constructs and destroys
AdsNotification objects, whose requests may fail or be carried out unseen. What the
ring promises is FrameQueue, a queue of units that knows neither positions nor the end
of an array: `queue` is read from the cells between `read` and `write`, `coming` is
what ReceiveNotification has still to store of the frame it let pass.

The parts are composed where they share state: the door with its Modbus object, the
notifications with their ring, the connection with the promise it implements. Above
that, each part is written over the contract of the one below: the lift over that of
AdsInterface, AdsInterface over "a request works or throws" (which AdsCalls makes
precise and AmsConnection implements), the adapter over calls that take a while
and return.

## 3. Checks

| run | instance | shows |
|---|---|---|
| modbus | 2 addresses, 4 functions, 2 calls | a successful read is current and a successful write executed while no `recv` timed out (ReadIsCurrent, WriteIsExecuted); replies in order and at most once even after timeouts (RepliesInOrder); every call returns (CallReturns) |
| door | 4 coils, 3 requests, 2 attempts | true means the coil is in the commanded state (ActuateIsTruthful), an unconnected door says so (UnconnectedIsReported), operations end (OperationEnds) |
| ads | 2 variables, 4 routes; one thread with failures; two threads with a PLC that answers; a configured variable last in the symbol table; types Factory does not know | no handle is used on a route that is gone (NoDeadRoute, one thread), the locks never stop everybody (SomeoneRuns), reads do not mix up m_temp (ReadOwnValue) |
| lift | 9 aliases, 4 floors and one that is no number, 1 PLC move per operation, failures | CommandIsTruthful, EndIsTruthful, ValidCommandSucceeds |
| adapter | 1 door, 1 lift, 2 commands, 1 interruption, a clock that ticks once | DeviceUsedByOne, LastCommandWins, SnapshotIsStable; CommandsAreDone; effect and session of a device get published (StateIsPublished) |
| connection | 2 callers on 2 ports, one of which both use; 2 units of data; ids of three bits that wrap; 2 calls | until a read reaches into the next frame: AnswerIsOwn, BufferHeldWhileUsed, WaitedForIsTaken, and the connection implements AdsCalls (KeepsPromise); calls return and the destructor ends (CallReturns, DestructorEnds), with the exceptions below |
| router | 3 devices, 2 net ids, 2 hosts, 2 ports, 2 connections | NothingDangles, RefCountIsDevices, PortsAreOwned; a device made anew does not get the broken connection back (RecoveryReconnects) |
| notifications | ring of 10 cells, 3 frames of one or two samples, each of which the ring can hold, 2 notifications | RingAssertsHold, FrameBoundary, DeliveredInOrder, LifetimeIsKept; the ring implements FrameQueue (RingIsAQueue); RingIsDrained, DispatcherEnds |
| modbus_stale, door_state, ads_deadlock, connection_hangs | smaller instances | the disagreements of section 6 |

The runs modbus, ads, lift and adapter also check their module's type invariant, which
for the ADS interface and the adapter says who may hold which mutex, and run connection
ConnTypeOK, which says that the id of a request is never 0. The door's, DoorTypeOK, is
in no run: `DoorTyping` proves it.

Bounds. MaxCalls bounds the requests of a connection: two calls are enough for a
reply to come late to the next call, for two replies to arrive together and for
every order of close and reset; three requests let a door do a one-request
operation and then a two-request one. MaxRoutes leaves room for three recoveries,
so that a recovery happens while the handles of an earlier one are still in use.
MaxMoves lets the PLC act once, anywhere in an operation. The floors are negative,
zero (which the code takes for a failed read), ordinary, and one that becomes
another floor in eight bits. Two commands and one interruption are the least in
which an older command can be redelivered after a newer one. MaxTime makes commands
dated in the future possible. The invoke ids start at 7 of 8, so that the counter
passes 0 within the two calls; MaxCalls also bounds the frames nobody asked for.
SizeModulus is 64, far more than the units on the wire, so that a bytesLeft that
has underflowed is never used up.
Two net ids on each of two hosts are the least in which a host's connection is kept
alive by another route; three devices on two ports make one go without. The ring
holds the largest frame and a part of the next, so that it runs full and wraps at
every offset, and SIZE_MODULUS is large enough for a negative difference to show.

AmsRouter with three connections and NotificationDispatcher with three shapes of
frame were checked as well; they take longer than a run of this project should and
show the same.

Deadlock checking is off where the system may stop: an object of AdsInterface after
undefined behaviour or a self-deadlock, a lift whose thread is stuck, an adapter
that has exited, and a connection, router or dispatcher that has used up its bounds.

Fairness. Modbus: `recv` returns, because the socket has SO_RCVTIMEO. Door: the same,
and the thread in an operation keeps running; nothing is assumed of the slave.
Adapter: threads run and device calls return (OperationEnds for doors; a lift as
shipped binds no variable and reaches no PLC); the main thread sleeps outside
`m_mutex`, so a callback that waits for it gets it eventually (strong fairness of
CommandLock); broker and client library deliver and reconnect. No fairness is
assumed of the user, of SIGINT or of the network's failures. Connection: a thread
that can go on goes on, deadlines pass, and a read of a connection that was closed or
shut down returns; reads of an open connection are not fair, since nothing makes the
device send. Notifications: the dispatcher's thread runs, and so does the receiver's,
but for the reads of a part of a frame, which have no deadline and wait for the device
(`Blocks`); nothing makes the device send or the user call. RingIsDrained asks for a
frame that is stored to its end only where it assumes that the device goes on
sending; without that, that the receiver comes out of its spin and that the dispatcher
takes out what was announced.

CallReturns of the connection has exceptions, and they are real ones. `killed` is a
process that SIGPIPE or undefined behaviour has ended. `Abandoned` is a call whose own
answer is lost half way: the connection ends in the middle of it, it is shorter than
its result and there is no buffer to read on into, or its code is 0xFFFFFFFF. Run
connection_hangs shows that the code does not exclude them. DestructorEnds leaves out the
receiver that spins on a null buffer.

## 4. Proofs

The proofs hold for every value of the constants that satisfies the module's
ASSUMEs. TLC checked each inductive invariant before it was proved.

**ModbusProofs**, for every slave memory, set of function codes and number of calls:

* `Typing`: Spec => []TypeOK.
* `StepInvariance`: Spec => []StepInv. ReadIsCurrent and WriteIsExecuted are not
  inductive: nothing in them keeps a stale frame out of the stream. The
  strengthening is OneFrame (in step, the stream holds exactly the frame of the call
  in progress, as a request or as a reply that answers it), with ValueSeen (the
  value in the slave has been seen during the call) and BeforeConnect. The proof
  goes through the actions: connecting empties the stream, `Send` puts one frame in
  it, `Serve` turns it into its answer, `Receive` takes it out, a timeout ends the
  step and with it the claim.
* `ReadsAreCurrent`, `WritesAreExecuted`: its consequences. WriteIsExecuted
  leaves out the write of a single register, whose exceptions pass as success.
* `OrderInvariance`: Spec => []OrderInv: the ids of replies and requests under way
  increase, above the last one parsed and below the next one sent. It needs
  no assumption on timeouts. `RepliesAreInOrder` follows at the `Receive` step.

**DoorProofs** carries this over to a door, for any number of attempts and calls:

* `DoorUsesModbus`: DoorSpec => Init /\ [][Next]_vars. Every step of a door is a step
  of its Modbus object or leaves it alone, so TypeOK and StepInv hold in a door.
* `DoorTyping`, `DoorInvariance`: DoorSpec => []DoorInv. The answers are not
  inductive: an operation is two calls, and the first one's contribution has to be
  carried over the second. DoorInv does that: CallInProgress ties the statement of
  the operation to the frame under way, LeafSeen notes the leaf's positions and what
  the sensor being read has shown, CallsWork says that the coil keeps its value from
  the execution of the write to the end of the read back (nobody else writes it: one
  frame is under way) and that the value of the open sensor was one it had.
* `ActuatesAreTruthful`, `MovingDoorsWereClosed`: its consequences.
* `UnconnectedDoorsReport`: from an invariant of its own (`Unreached`): a Modbus object
  that never connected has no frame under way, and no call of it returns 0.

**AdsProofs**, for any threads, variables, symbol tables, types and number of routes:

* `LockInvariance`: AdsSpec => []AdsInv. A mutex is held inside a scope of the code, and
  scopes are nested by calls, so the invariant is about whole stacks: at most one
  frame on all of them is in the scope of a mutex, and it is its owner's (`Owned`, for
  each mutex); operations are outermost, and a read that has called nothing is alone
  on its stack (`Stacks`). Lemmas say what a step to another statement, a call, a return
  and an exception do to it.
* `AdsTyping`, `ReadsOwnValues`: from it, and from ReadsSeen (under both mutexes m_temp
  holds a value the variable had during the call).
* `NoDeadRoutes`: AdsSpec => []NoDeadRoute. The handles of one recovery stay in the map
  while the next one takes their route away; RouteInv says why nobody uses them. They
  are left behind only with m_device_state off (`HandlesLive`), and a check that turns
  it on again has made every one of them anew or has found the route alive
  (`ChecksHeal`, with the loop's rest as the set that is still to be done). MapInv
  keeps track of which variables have handles at all.
* `NeverAllWait`: AdsSpec => []SomeoneIsFree, which says what SomeoneRuns says with the
  guards of the statements written out (`Waits`) instead of ENABLED; TLC has found the
  two equivalent in every reachable state of the run `ads`. While the PLC answers, a
  stack is one call, or a Factory inside a ConnectionCheck, a write or the start-up
  (`Shallow`). So whoever holds m_mem_mutex asks for no mutex, and whoever holds
  m_com_mutex asks for m_mem_mutex only. The call that would break this, the Factory
  of a failed read, needs a null handle, and there is one only while the Factory that
  replaces it holds m_mem_mutex (`Mended`).
* `NothingGoneIsUsed`: AdsSpec => []SoundWhileAnswered: while the PLC answers, any number
  of threads reach none of the double deletes, dead handles and dead routes that a
  failure leads to. HealthInv: there is a route once the start-up has made one
  (`RouteThere`), a start-up runs alone (`StartsAlone`), and a handle that is deleted,
  null or missing is in the hands of one Factory under m_mem_mutex (`HandlesGood`);
  AdsWriteValue and AdsReadValue use handles under both mutexes.

**LiftProofs**, for any floors, any configuration in which the
commanded variables come in the order of lift_config.yaml (OrderAssumption) and any
moves of the PLC: `LiftTyping`, `LiftInvariance`, and from it `CommandsAreTruthful`,
`EndsAreTruthful` and `ValidCommandsSucceed`. The invariant says that variables are
bound from the first on (`BoundInOrder`: a variable that is bound has those before it
bound, so an empty value read as false cannot pass for a flag of a lift that is
only half bound), and what each statement's read back has shown (`ReadBack`, `Written`).

**AdapterProofs** is about any set of doors and lifts and any number of commands,
interruptions and ticks of the clock:

* `AdapterTyping`: with the types, m_mutex is owned exactly inside the blocks of the
  lock_guards. `UseInvariance` (a call is in progress only under m_mutex) and
  `DevicesAreUsedByOne`, `SnapshotsAreStable` follow from it.
* `DeliveryInvariance`: the strengthening of LastCommandWins. An old command that is
  redelivered does undo a newer one for a while. HeldInOrder and CallbackHeld say
  that the broker then still holds every later command; WantedHeld and DoneOrToDo,
  that the one that has to be done is in effect or has yet to come. A step of the
  callback, an acknowledgement and a lost connection each move commands between
  "done" and "to do" in the order in which they were sent.
* `LastCommandsWin`: its consequence for a broker that has nothing left.

**ConnectionProofs**, for any callers, ports, calls and sizes, as long as fewer calls
are made than there are ids:

* `ConnectionInvariance`: ConnectionSpec => []ConnInv. Its parts build on each other.
  IdsAreFresh: an id is handed out once although the counter wraps. SlotsAreHeld: a
  slot belongs to the caller whose request is in it, from Reserve to ReleaseSlot.
  IdsAreWaitedFor: an id the device was sent stands in a slot only while its caller
  waits there. AnswersAreAsked and FramesAreWhole: what is on the wire answers a
  request, unit by unit. InStep: the receiver stands where a frame begins or inside
  the frame it serves, until a read reaches into the next one. ServesWaiting and
  ResultsAreEarned: who is served is in Wait, and a result in a slot comes from the device's carrying out the request.
* `IdsKeepTheirRange`, `AnswersAreOwn`: its consequences.
* `BuffersAreHeld`: another. The receiver writes into the buffer of a call that cannot
  leave Wait, and not past its end, up to the first read that reaches into the next
  frame. The test of AmsConnection.cpp:237 bounds an answer from above only. For an
  answer that holds its result that is enough, and this is what is proved; a shorter
  one overruns the buffer (line 246), and the claim ends with the read of its result.
* `WaitedForAreTaken`: ConnectionSpec => WaitedForIsTaken, from an invariant of its own
  (`DueInv`): an answer's header is on the wire once and never while the device still
  has the request, and as long as it is outstanding the slot of a caller that has not
  given up holds its id.
* `PromiseIsKept`: ConnectionSpec => KeepsPromise. The connection implements AdsCalls:
  Begin is the beginning of a call, the write is the request's arrival, an Answer its
  execution, ReleaseSlot or a refusal the end; every other step stutters.

**RouterProofs**, for any devices, net ids, hosts, ports and connections:
`RouterInvariance` says who holds a pointer to a connection: a host has one
(`OneConnectionPerHost`), routes lead to those that exist (`RoutesLead`), the count of
each is the number of devices routed over it (`Counts`), and a device keeps its port,
with the notifications on it, and the connection of its request to itself
(`PortsHeld`, `CallsHeld`). `NothingEverDangles`, `RefCountsAreDevices` and
`PortsStayOwned` follow. `RecoveriesReconnect` adds why a connection without a device can
exist at all (`LeftBehind`): only with two net ids routed over it.

**NotificationProofs**, for any handles, frames of one or two samples, ring size and
number of notifications:

* `LifetimeInvariance` (what an Erase leaves in the hand of the dispatcher's thread) and
  `LifetimesAreKept`.
* `RingInvariance`: NtfSpec => []RingInv. The ring is a queue of frames at every moment.
  For every state there are values that no variable holds: where the lap of `read` began
  (B, counted from the first byte ever stored), how many frames have been announced and
  taken (N and C), and all of them, with the positions where they start (G). In their
  terms the cells between read and write are the frames the dispatcher has not taken,
  unit by unit, and what the receiver has stored of the next one (`Contents`,
  `Storing`); `read` is where the statement of the dispatcher is in its frame (`Taking`);
  the semaphore counts what is announced and not taken (`Counted`); and what has been
  delivered lies behind (`Delivered`, `AllBehind`). The part
  that is not obvious is `Fitting`: the test for free space loads `read` twice, and if
  the dispatcher wraps between the loads any frame passes. Then the frame either has
  room all the same, or starts in the lap that `read` is in, so that its pieces
  fill the ring up to `read` and no further. Frames larger than the ring are not
  excluded, nor any interleaving. Lemmas about laps (a total, the position it has in
  the ring, the distance of two of them) carry the arithmetic. A sample has at least
  one byte (DispatcherAssumption): one of none has nothing to be delivered.
* `RingAssertsAlwaysHold`, `FramesAreWhole`, `DeliveriesAreInOrder`: its consequences.
* `RingQueues`: NtfSpec => RingIsAQueue, that is, the two threads and their ring
  implement FrameQueue. A frame let pass is Begin; the length and each piece stored
  is Put (`StoreIsPut`); each read of the dispatcher, of a length, a header or a sample,
  is Take (`ReadIsTake`), and so is skipping the rest of a frame; a lost connection is
  GiveUp; every other step stutters. What RingInv adds is the room: that a piece
  goes behind what waits and covers none of it rests on `Fitting`, that a read takes no
  more than there is on `Taking`.

Only model-checked: all liveness (CallReturns of both modules, OperationEnds,
CommandsAreDone, StateIsPublished, DestructorEnds, RingIsDrained, DispatcherEnds) and
SomeoneRuns in the form with ENABLED, which are beyond the prover; and the four
disagreements of section 6, which TLC refutes.

## 5. Not modelled

* Other requests of the ADS device API: the file API, access by index group and the
  deprecated address functions. They are further requests of the kind AmsConnection
  models (some accept a short answer, see section 6).
* UdpSocket and what only it uses; bytes: framing, endianness, JSON, YAML, logging.
  What a malformed command does is the flag `complete`; a floor that is not a number
  is NotANumber (a JSON string arrives with its quotes, TRLIotCoreAdapter.cpp:363,
  so it is one of these).
* An abstract lift access that AdsInterface implements and TRLLiftInterface uses: the
  contract is written into TRLLiftInterface. AdsInterface's undefined behaviour would
  have to be part of the promise, which leaves little of it.
* How far a receiver gets after undefined behaviour: a run ends where a buffer is
  overrun, a null request followed or a dead pointer used.
* Of the data: a Modbus frame arrives whole in one `recv` (modbus.hpp:643 would take a
  part of one for a reply); notification frames are well-formed and have one stamp
  (the outer loop of NotificationDispatcher.cpp:65 goes round once).
* Of the paths that no property depends on: the `invokeId` of a slot starts as 0 here
  and is uninitialised in the code until the first StoreId (AmsConnection.cpp:9-12);
  AddRoute returns an error after it has mapped and counted the route if the
  connection has no address of its own (AmsRouter.cpp:62), which would keep a
  reference; a `std::get` of the wrong type in AdsWriteValue (AdsInterface.cpp:39-79)
  throws what the catch at line 87 lets pass; a Factory that fails inside BindPLCVar
  may switch m_device_state off while Initialize of the lift still returns true.
* Several threads and a failing network in AdsInterface at once: undefined behaviour
  is then reachable in many ways (section 6) and hides everything else.
* The tests, tools and examples of the vendored library (AdsLibTest, AdsTool, ...): no
  controller links them and the tests need a PLC. Build files, CMake output and the
  checked-in build tree hold no program state.

## 6. Disagreements between code and documents

Four have a run each, whose counterexample shows the way there:

* modbus_stale: after a timeout, a read succeeds with the previous call's reply.
* door_state: GetDoorState never returns 0 or 2; a closed door is "moving".
* ads_deadlock: AdsReadValue calls Factory under the mutex Factory locks.
* connection_hangs: when the device closes the connection in the middle of an answer,
  its caller waits without a deadline for a receiver that has ended. The code
  0xFFFFFFFF in an answer does the same on an open connection.

Others were met while modelling; where a definition shows them it is named.

* Door: CheckConnection returns the opposite (`CheckReturns`); a write of one
  register is checked for another function's exception (`HandledAs`); ReadInputBits
  tests a stale `err` (`Finish`); a closed connection is not an error (`EndOfStream`).
* ADS interface: AdsWriteValue returns true without writing (`WriteDone`), also for a
  type it cannot convert; m_device_state stays on when the recovery throws
  (`CheckRoute`); ConnectionCheck may return an uninitialised int; Factory, which holds
  only m_mem_mutex, may use m_route while ConnectionCheck, under m_com_mutex, deletes it,
  hence NoDeadRoute for one thread only; the read of a variable whose type Factory
  does not know deadlocks on a healthy network too, hence SomeoneRuns without such
  types; IAdsVariable has no virtual destructor, so the delete at AdsInterface.cpp:211
  gives no handle back to the PLC; the destructor deletes the route before the handles
  that refer to it; variables the PLC does not list are silently unbound (`BindPLCVar`).
* Lift: the first Initialize succeeds with nothing bound, because AcquireVariables
  needs a device state that only ConnectionCheck sets (TRLLiftInterface.cpp:63), and the
  adapter never calls that; CommandLift may return false with liftTask set
  (TRLLiftInterface.hpp:109-110); HeartbeatConnection uses an uninitialised time
  (`HeartbeatReads`); CurrentMode returns 4, which is no available mode (`ModeSteps`).
* AdsDevice: GetDeviceAdsVariables passes over the last symbol (AdsDevice.cpp:92,
  `GetDeviceAdsVariables`), does not end on an entryLength of 0, leaks its buffer, and
  tests with && where || is meant (:71); OpenFile and ReadState accept short answers.
* Connection: after a timeout within the data, the junk reaches into the next frame
  (AmsConnection.cpp:253-256, `ReceiveTimesOut`); an answer shorter than its result
  takes bytesLeft below 0, and the receiver reads the result out of the next frame and
  then into the caller's buffer without end (AmsConnection.cpp:246, `ReceiveResult`),
  or, if that is null, calls recv() again for ever (`ReceiveData`); an error code of
  0xFFFFFFFF from the device is taken for "no answer yet" (`Unset`), and its caller waits
  for ever on an open connection; Frame's pop checks the capacity, not what is left.
* Router: a broken connection that another device holds is shared again; of two net ids
  on one host one route may stay behind (both in RecoveryReconnects); ClosePort holds
  the router's mutex during requests to the device, DelRoute while it joins threads
  whose callbacks may call the API; the 0 of OpenPort is not looked at.
* Notifications: BytesFree loads `read` twice; if the dispatcher wraps in between, the
  difference underflows, any frame passes the test (AmsConnection.cpp:271), and one that is
  larger than the whole ring keeps the receiver spinning on a WriteChunk of 0 for ever
  (RingIsDrained holds for frames the ring can hold). A device that stalls inside a
  notification holds up every answer of its connection (AmsConnection.cpp:285, 290). One
  callback may run after Erase has returned (`late`); samples that come before Emplace
  are lost; a refused or unseen answer leaves handles in the
  device.

## 7. Plan

All of the modules planned are written, and every safety property a run checks is proved,
SomeoneRuns as NeverAllWait. What could come next: the adapter composed with the lift, so
that "device calls return" becomes a consequence of CallReturns instead of an assumption.
