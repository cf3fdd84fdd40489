---------------------------- MODULE AdsInterface ----------------------------
(***************************************************************************)
(* The ADS client of lift_controller/src/AdsInterface.cpp: one object that *)
(* keeps a route to the PLC and one handle per bound variable, and repairs *)
(* both when communication fails.  Its operations call each other (write,  *)
(* Factory, ConnectionCheck, Factory, ...), so every thread has a call     *)
(* stack; the locks are the two non-recursive std::mutex of the object.    *)
(*                                                                         *)
(* Abstractions.  A route (AdsDevice) is the number of the InitRoute that  *)
(* made it; a handle (IAdsVariable) is the route it was made on.  Every    *)
(* call to the PLC works or throws, as the network likes.                  *)
(* AdsReadVariables and UpdateMemory are AdsReadValue for one variable     *)
(* after the other.                                                        *)
(***************************************************************************)
EXTENDS Integers, Sequences, FiniteSets

CONSTANTS
  Thread,       \* threads that use the object
  Alias,        \* variables of the configuration
  Val,          \* values of a PLC variable
  OtherSymbol,  \* a symbol of the PLC that is not configured
  NoThread,     \* owner of a free mutex
  Setting,      \* what may be the case: the threads that use the object,
                \* whether calls to the PLC may throw, the PLC's symbol table
                \* and the types of the variables
  MaxRoutes     \* bound of the model on the routes made

ASSUME AdsAssumption ==
  /\ NoThread \notin Thread /\ Alias # {}
  /\ \A s \in Setting : /\ s.users \subseteq Thread /\ IsFiniteSet(s.users)
                         /\ s.fails \in BOOLEAN
                         /\ s.symbols \in Seq(Alias \union {OtherSymbol})
                         /\ s.types \in [Alias -> {"number", "time", "other"}]
  /\ MaxRoutes \in Nat \ {0}

\* Values of a handle that are not routes.
Absent == -3   \* no entry in m_route_mapping
Null   == -2   \* an entry that holds a null pointer
Freed  == -1   \* an entry that holds a deleted pointer

VARIABLES
  m_device_state, \* last known validity state of the values
  known,          \* the configured variables m_variable_ads holds
  mapped,         \* keys of m_variable_mapping and m_alias_map
  handle,         \* m_route_mapping
  m_route,        \* the current route; 0: the pointer was never set
  live,           \* routes that have been made and not deleted
  routes,         \* number of routes made
  m_temp,         \* the object's scratch value for reads
  com, mem,       \* owners of m_com_mutex and m_mem_mutex
  stack,          \* call stack of each thread, innermost call first
  plc,            \* the variables in the PLC
  initialized,    \* the owner's Initialize has been called
  setting,        \* which of Setting is the case
  fault,          \* why the object has no future: undefined behaviour, or
                  \* its destruction
  done,           \* history: outcome of the last call of each thread
  threw,          \* history: InitRoute has thrown
  seen            \* history: values the variable of a thread's call has had

object == <<m_device_state, known, mapped, handle, m_route, live, routes, m_temp>>
locks  == <<com, mem>>
hist   == <<done, threw, seen>>
adsVars == <<object, locks, stack, plc, initialized, setting, fault, hist>>

Calls == {"none", "write", "read", "check", "initialize"}
NoCall == [call |-> "none", ok |-> TRUE]

AdsInit ==
  /\ m_device_state = FALSE /\ known = {} /\ mapped = {}
  /\ handle = [v \in Alias |-> Absent]
  /\ m_route = 0 /\ live = {} /\ routes = 0
  /\ m_temp \in Val
  /\ com = NoThread /\ mem = NoThread
  /\ stack = [t \in Thread |-> <<>>]
  /\ plc \in [Alias -> Val]
  /\ initialized = FALSE /\ setting \in Setting /\ fault = "none"
  /\ done = [t \in Thread |-> NoCall] /\ threw = FALSE
  /\ seen = [t \in Thread |-> {}]

(***************************************************************************)
(* Call stacks.  A frame is a statement to run next, the variable the call *)
(* is about, the names a loop has left, and a Boolean local.               *)
(***************************************************************************)
Frame(at, v, rest, flag) == [at |-> at, var |-> v, rest |-> rest, flag |-> flag]

At(t, at)      == fault = "none" /\ stack[t] # <<>> /\ Head(stack[t]).at = at
Local(t)       == Head(stack[t])
Goto(t, f)     == stack' = [stack EXCEPT ![t] = <<f>> \o Tail(@)]
CallFrom(t, f, g) == stack' = [stack EXCEPT ![t] = <<g, f>> \o Tail(@)]
Return(t)      == stack' = [stack EXCEPT ![t] = Tail(@)]
Finished(t, r) == /\ stack' = [stack EXCEPT ![t] = <<>>]
                  /\ done' = [done EXCEPT ![t] = r]
Outcome(c, ok) == [call |-> c, ok |-> ok]

\* Undefined behaviour ends the run; the state it leaves does not matter.
Crash(kind) ==
  /\ fault' = kind
  /\ UNCHANGED <<object, locks, stack, plc, initialized, hist>>

\* Mutant of Unwind: the mutexes are unlocked by hand at the end.
Unwind_Manual(t) == Finished(t, Outcome("none", FALSE)) /\ UNCHANGED <<com, mem>>

\* An exception no frame catches: every lock_guard on the way is released.
Unwind(t) ==
  /\ Finished(t, Outcome("none", FALSE))
  /\ com' = IF com = t THEN NoThread ELSE com
  /\ mem' = IF mem = t THEN NoThread ELSE mem

Works == TRUE             \* a call to the PLC that is answered
Fails == setting.fails    \* one that throws

RouteUsable == m_route \in live

(***************************************************************************)
(* Factory: delete the variable's handle, get a new one from the PLC.      *)
(***************************************************************************)
FactoryFrame(v) == Frame("factory.lock", v, {}, FALSE)

\* ConnectionCheck saves m_device_state before it takes its lock.
CheckFrame == Frame("check.lock", CHOOSE v \in Alias : TRUE, {}, m_device_state)

\* std::scoped_lock of both mutexes takes both or none.
Both(t) == com = NoThread /\ mem = NoThread /\ com' = t /\ mem' = t

\* Mutant of FactoryLockTaken: Factory locks what reads and writes lock.
FactoryLockTaken_Both(t) == Both(t)

\* Factory locks the memory only.
FactoryLockTaken(t) == mem = NoThread /\ mem' = t /\ UNCHANGED com

FactoryLock(t) ==
  /\ At(t, "factory.lock") /\ FactoryLockTaken(t)
  /\ Goto(t, [Local(t) EXCEPT !.at = "factory.delete"])
  /\ UNCHANGED <<object, plc, initialized, fault, hist>>

FactoryDelete(t) ==
  /\ At(t, "factory.delete")
  /\ LET v == Local(t).var IN
     \/ handle[v] = Freed /\ Crash("doubleFree")
     \/ /\ handle[v] # Freed
        /\ handle' = [handle EXCEPT ![v] = IF @ > 0 THEN Freed ELSE Null]
        /\ Goto(t, [Local(t) EXCEPT !.at = "factory.create"])
        /\ UNCHANGED <<m_device_state, known, mapped, m_route, live, routes,
                       m_temp, locks, plc, initialized, fault, hist>>

\* Types of which Factory makes no AdsVariable: all but the numbers, BOOL and
\* the ones of dates and times.
Unsupported(v) == setting.types[v] = "other"

\* The types of times are not converted: their variables have type -1.
ConvertTypeFromString(v) == IF setting.types[v] = "number" THEN 0 ELSE -1

\* The constructor of AdsVariable keeps the route and gets a handle from it.
GetHandle(v) == handle' = [handle EXCEPT ![v] = m_route]

\* A failure is followed by a ConnectionCheck, still under m_mem_mutex.
FactoryCreate(t) ==
  /\ At(t, "factory.create")
  /\ LET v == Local(t).var IN
     \/ /\ Unsupported(v)
        /\ mem' = NoThread /\ Return(t)
        /\ UNCHANGED <<object, com, plc, initialized, fault, hist>>
     \/ ~Unsupported(v) /\ ~RouteUsable /\ Crash("deadRoute")
     \/ /\ ~Unsupported(v) /\ RouteUsable /\ Works
        /\ GetHandle(v)
        /\ mem' = NoThread /\ Return(t)
        /\ UNCHANGED <<m_device_state, known, mapped, m_route, live, routes,
                       m_temp, com, plc, initialized, fault, hist>>
     \/ /\ ~Unsupported(v) /\ RouteUsable /\ Fails
        /\ CallFrom(t, [Local(t) EXCEPT !.at = "factory.end"], CheckFrame)
        /\ UNCHANGED <<object, locks, plc, initialized, fault, hist>>

FactoryEnd(t) ==
  /\ At(t, "factory.end")
  /\ mem' = NoThread /\ Return(t)
  /\ UNCHANGED <<object, com, plc, initialized, fault, hist>>

Factory(t) == FactoryLock(t) \/ FactoryDelete(t) \/ FactoryCreate(t) \/ FactoryEnd(t)

(***************************************************************************)
(* ConnectionCheck.  temp_state is read before the lock is taken.          *)
(***************************************************************************)
CheckLock(t) ==
  /\ At(t, "check.lock") /\ com = NoThread
  /\ com' = t
  /\ Goto(t, [Local(t) EXCEPT !.at = "check.state"])
  /\ UNCHANGED <<object, mem, plc, initialized, fault, hist>>

CheckState(t) ==
  /\ At(t, "check.state")
  /\ \/ ~RouteUsable /\ Crash("deadRoute")
     \/ /\ RouteUsable /\ Works
        /\ Goto(t, [Local(t) EXCEPT !.at = IF Local(t).flag THEN "check.end"
                                           ELSE "check.acquire", !.flag = TRUE])
        /\ UNCHANGED <<object, locks, plc, initialized, fault, hist>>
     \/ /\ RouteUsable /\ Fails
        /\ live' = live \ {m_route}
        /\ Goto(t, [Local(t) EXCEPT !.at = "check.route", !.flag = FALSE])
        /\ UNCHANGED <<m_device_state, known, mapped, handle, m_route, routes,
                       m_temp, locks, plc, initialized, fault, hist>>

\* InitRoute, or the exception of its AdsDevice constructor.
NewRoute ==
  /\ routes' = routes + 1 /\ m_route' = routes + 1
  /\ live' = live \union {routes + 1}

CheckRoute(t) ==
  /\ At(t, "check.route")
  /\ \/ /\ Works /\ NewRoute
        /\ Goto(t, [Local(t) EXCEPT !.at = "check.end"])
        /\ UNCHANGED <<m_device_state, known, mapped, handle, m_temp, locks, plc,
                       initialized, fault, hist>>
     \/ /\ Fails /\ Unwind(t)
        /\ threw' = TRUE
        /\ UNCHANGED <<object, plc, initialized, fault, seen>>

\* AdsDevice::GetDeviceAdsVariables lists the entries of the symbol table that
\* end before its end: the last one is passed over.
GetDeviceAdsVariables ==
  {setting.symbols[i] : i \in 1 .. Len(setting.symbols) - 1} \ {OtherSymbol}

\* AcquireVariables: nothing unless m_device_state is already set.
Acquire(t, next) ==
  \/ /\ ~m_device_state
     /\ Goto(t, next)
     /\ UNCHANGED <<object, locks, plc, initialized, fault, hist>>
  \/ /\ m_device_state /\ ~RouteUsable /\ Crash("deadRoute")
  \/ /\ m_device_state /\ RouteUsable /\ Works
     /\ known' = GetDeviceAdsVariables
     /\ Goto(t, next)
     /\ UNCHANGED <<m_device_state, mapped, handle, m_route, live, routes,
                    m_temp, locks, plc, initialized, fault, hist>>
  \/ /\ m_device_state /\ RouteUsable /\ Fails
     /\ Unwind(t)
     /\ UNCHANGED <<object, plc, initialized, fault, threw, seen>>

CheckAcquire(t) ==
  /\ At(t, "check.acquire")
  /\ Acquire(t, [Local(t) EXCEPT !.at = "check.loop", !.rest = mapped])

\* Mutant of Rebound: the handles are not created again.
Rebound_None(t) == {}

\* The variables whose handle ConnectionCheck still has to create again.
Rebound(t) == Local(t).rest

CheckLoop(t) ==
  /\ At(t, "check.loop")
  /\ \/ /\ Rebound(t) = {}
        /\ Goto(t, [Local(t) EXCEPT !.at = "check.end"])
     \/ \E v \in Rebound(t) :
          CallFrom(t, [Local(t) EXCEPT !.rest = @ \ {v}], FactoryFrame(v))
  /\ UNCHANGED <<object, locks, plc, initialized, fault, hist>>

CheckEnd(t) ==
  /\ At(t, "check.end")
  /\ m_device_state' = Local(t).flag
  /\ com' = NoThread
  /\ \/ /\ Len(stack[t]) > 1 /\ Return(t)
        /\ UNCHANGED done
     \/ /\ Len(stack[t]) = 1
        /\ Finished(t, Outcome("check", Local(t).flag))
  /\ UNCHANGED <<known, mapped, handle, m_route, live, routes, m_temp, mem, plc,
                 initialized, fault, threw, seen>>

ConnectionCheck(t) ==
  \/ CheckLock(t) \/ CheckState(t) \/ CheckRoute(t) \/ CheckAcquire(t)
  \/ CheckLoop(t) \/ CheckEnd(t)

(***************************************************************************)
(* AdsWriteValue                                                           *)
(***************************************************************************)
\* An operation begins when the owner has called Initialize; the bound of the
\* model leaves room for the routes one operation may make.
Begins(t) ==
  /\ fault = "none" /\ t \in setting.users /\ stack[t] = <<>> /\ initialized
  /\ routes < MaxRoutes
  /\ \A u \in Thread : stack[u] # <<>> =>
       \A i \in 1 .. Len(stack[u]) :
         stack[u][i].at \notin {"init.route", "init.acquire", "init.bind"}

\* The variable, m_device_state and the handle map are looked at before a lock
\* is taken.  Without device state the handle is created again and nothing is
\* written.
BeginWrite(t, v) ==
  /\ Begins(t)
  /\ \/ /\ v \notin mapped
        /\ done' = [done EXCEPT ![t] = Outcome("write", FALSE)]
        /\ UNCHANGED stack
     \/ /\ v \in mapped /\ m_device_state
        /\ stack' = [stack EXCEPT ![t] = <<Frame("write.lock", v, {}, FALSE)>>]
        /\ UNCHANGED done
     \/ /\ v \in mapped /\ ~m_device_state
        /\ stack' = [stack EXCEPT ![t] =
                       <<FactoryFrame(v), Frame("write.done", v, {}, FALSE)>>]
        /\ UNCHANGED done
  /\ UNCHANGED <<object, locks, plc, initialized, fault, threw, seen>>

WriteLock(t) ==
  /\ At(t, "write.lock") /\ Both(t)
  /\ Goto(t, [Local(t) EXCEPT !.at = "write.access"])
  /\ UNCHANGED <<object, plc, initialized, fault, hist>>

\* What becomes of an access through handle h.
Access(h) == IF h = Freed THEN "freedHandle"
             ELSE IF h = Null THEN "nullHandle"
             ELSE IF h \in live THEN "valid" ELSE "deadRoute"

\* A variable the PLC changes is seen by the calls about it.
Observe == seen' = [t \in Thread |->
             IF stack'[t] = <<>> THEN {}
             ELSE seen[t] \union {plc'[stack'[t][Len(stack'[t])].var]}]

\* A write that throws may have reached the PLC; then, or if the variable has
\* no type, the locks are released and the handle is created again.
WriteAccess(t, x) ==
  /\ At(t, "write.access")
  /\ LET v == Local(t).var IN
     \/ /\ ConvertTypeFromString(v) = -1
        /\ com' = NoThread /\ mem' = NoThread
        /\ CallFrom(t, [Local(t) EXCEPT !.at = "write.done"], FactoryFrame(v))
        /\ UNCHANGED <<object, plc, initialized, fault, hist>>
     \/ /\ ConvertTypeFromString(v) # -1 /\ Access(handle[v]) # "valid"
        /\ Crash(Access(handle[v]))
     \/ /\ ConvertTypeFromString(v) # -1 /\ Access(handle[v]) = "valid"
        /\ com' = NoThread /\ mem' = NoThread
        /\ \/ /\ Works
              /\ plc' = [plc EXCEPT ![v] = x]
              /\ Finished(t, Outcome("write", TRUE))
           \/ /\ Fails
              /\ plc' \in {plc, [plc EXCEPT ![v] = x]}
              /\ CallFrom(t, [Local(t) EXCEPT !.at = "write.done"], FactoryFrame(v))
              /\ UNCHANGED done
        /\ Observe
        /\ UNCHANGED <<object, initialized, fault, threw>>

\* Whatever happened, a mapped variable gives true.
WriteDone(t) ==
  /\ At(t, "write.done")
  /\ Finished(t, Outcome("write", TRUE))
  /\ UNCHANGED <<object, locks, plc, initialized, fault, threw, seen>>

AdsWriteValue(t) ==
  WriteLock(t) \/ WriteDone(t) \/ \E x \in Val : WriteAccess(t, x)

(***************************************************************************)
(* AdsReadValue                                                            *)
(***************************************************************************)
\* Mutant of ReadLockTaken: reads share m_temp without a lock.
ReadLockTaken_None(t) == UNCHANGED locks

\* AdsReadValue holds both mutexes up to its end.
ReadLockTaken(t) == Both(t)

BeginRead(t, v) ==
  /\ Begins(t)
  /\ \/ /\ handle[v] = Absent
        /\ done' = [done EXCEPT ![t] = Outcome("read", FALSE)]
        /\ UNCHANGED <<stack, seen>>
     \/ /\ handle[v] # Absent
        /\ stack' = [stack EXCEPT ![t] = <<Frame("read.lock", v, {}, FALSE)>>]
        /\ seen' = [seen EXCEPT ![t] = {plc[v]}]
        /\ UNCHANGED done
  /\ UNCHANGED <<object, locks, plc, initialized, fault, threw>>

ReadLock(t) ==
  /\ At(t, "read.lock") /\ ReadLockTaken(t)
  /\ Goto(t, [Local(t) EXCEPT !.at = "read.access"])
  /\ UNCHANGED <<object, plc, initialized, fault, hist>>

ReadReturns(t, r) ==
  /\ Finished(t, r)
  /\ com' = IF com = t THEN NoThread ELSE com
  /\ mem' = IF mem = t THEN NoThread ELSE mem

\* A read that throws calls Factory while it holds the lock Factory needs.
ReadAccess(t) ==
  /\ At(t, "read.access")
  /\ LET v == Local(t).var IN
     \/ /\ ~m_device_state
        /\ ReadReturns(t, Outcome("read", FALSE))
        /\ UNCHANGED <<object, plc, initialized, fault, threw, seen>>
     \/ /\ m_device_state /\ Access(handle[v]) \in {"freedHandle", "deadRoute"}
        /\ Crash(Access(handle[v]))
     \/ /\ m_device_state /\ Access(handle[v]) = "valid" /\ Works
        /\ m_temp' = plc[v]
        /\ Goto(t, [Local(t) EXCEPT !.at = "read.convert"])
        /\ UNCHANGED <<m_device_state, known, mapped, handle, m_route, live, routes,
                       locks, plc, initialized, fault, hist>>
     \/ /\ m_device_state
        /\ \/ Access(handle[v]) = "nullHandle"
           \/ Access(handle[v]) = "valid" /\ Fails
        /\ CallFrom(t, [Local(t) EXCEPT !.at = "read.failed"], FactoryFrame(v))
        /\ UNCHANGED <<object, locks, plc, initialized, fault, hist>>

\* A value without a type gives an empty result.
ReadConvert(t) ==
  /\ At(t, "read.convert")
  /\ ReadReturns(t, Outcome("read", ConvertTypeFromString(Local(t).var) # -1))
  /\ UNCHANGED <<object, plc, initialized, fault, threw, seen>>

AdsReadValue(t) == ReadLock(t) \/ ReadAccess(t) \/ ReadConvert(t)

BeginCheck(t) ==
  /\ Begins(t)
  /\ stack' = [stack EXCEPT ![t] = <<CheckFrame>>]
  /\ UNCHANGED <<object, locks, plc, initialized, fault, hist>>

(***************************************************************************)
(* The start-up sequence TRLLiftInterface::Initialize runs on the object:  *)
(* InitRoute, AcquireVariables, BindPLCVar.  No other thread uses the      *)
(* object meanwhile.  A second start-up leaves the old route alive.        *)
(***************************************************************************)
BeginInitialize(t) ==
  /\ fault = "none" /\ t \in setting.users /\ \A u \in Thread : stack[u] = <<>>
  /\ routes < MaxRoutes
  /\ initialized' = TRUE
  /\ stack' = [stack EXCEPT ![t] =
                 <<Frame("init.route", CHOOSE v \in Alias : TRUE, {}, FALSE)>>]
  /\ UNCHANGED <<object, locks, plc, fault, hist>>

InitializeRoute(t) ==
  /\ At(t, "init.route")
  /\ \/ /\ Works /\ NewRoute
        /\ Goto(t, [Local(t) EXCEPT !.at = "init.acquire"])
        /\ UNCHANGED <<m_device_state, known, mapped, handle, m_temp, locks, plc,
                       initialized, fault, hist>>
     \/ /\ Fails
        /\ Finished(t, Outcome("initialize", FALSE))
        /\ threw' = TRUE
        /\ UNCHANGED <<object, locks, plc, initialized, fault, seen>>

InitializeAcquire(t) ==
  /\ At(t, "init.acquire")
  /\ Acquire(t, [Local(t) EXCEPT !.at = "init.bind", !.rest = Alias])

\* BindPLCVar: the variables the PLC is known to offer are mapped and get a
\* handle; the others are passed over.
BindPLCVar(t) ==
  /\ At(t, "init.bind")
  /\ \/ \E v \in Local(t).rest \intersect known :
          /\ mapped' = mapped \union {v}
          /\ CallFrom(t, [Local(t) EXCEPT !.rest = @ \ {v}], FactoryFrame(v))
          /\ UNCHANGED done
     \/ /\ Local(t).rest \intersect known = {}
        /\ Finished(t, Outcome("initialize", TRUE))
        /\ UNCHANGED mapped
  /\ UNCHANGED <<m_device_state, known, handle, m_route, live, routes, m_temp,
                 locks, plc, initialized, fault, threw, seen>>

Initialize(t) == InitializeRoute(t) \/ InitializeAcquire(t) \/ BindPLCVar(t)

\* The destructor deletes the route, then every handle; it may meet one that
\* is deleted already.
Destroy ==
  /\ fault = "none" /\ initialized /\ \A t \in Thread : stack[t] = <<>>
  /\ fault' = IF (m_route # 0 /\ ~RouteUsable) \/ \E v \in Alias : handle[v] = Freed
              THEN "doubleFree" ELSE "destroyed"
  /\ UNCHANGED <<object, locks, stack, plc, initialized, hist>>

\* The PLC program changes its variables.
PlcMoves(v, x) ==
  /\ fault = "none" /\ plc[v] # x
  /\ plc' = [plc EXCEPT ![v] = x]
  /\ UNCHANGED <<object, locks, stack, initialized, fault, done, threw>>
  /\ Observe

Step(t) ==
  \/ Factory(t) \/ ConnectionCheck(t) \/ AdsWriteValue(t) \/ AdsReadValue(t)
  \/ Initialize(t)

AdsNext ==
  /\ UNCHANGED setting
  /\ \/ \E t \in Thread : Step(t) \/ BeginCheck(t) \/ BeginInitialize(t)
     \/ \E t \in Thread, v \in Alias : BeginWrite(t, v) \/ BeginRead(t, v)
     \/ Destroy
     \/ \E v \in Alias, x \in Val : PlcMoves(v, x)

AdsSpec == AdsInit /\ [][AdsNext]_adsVars

(***************************************************************************)
(* Properties                                                              *)
(***************************************************************************)
Places == {"factory.lock", "factory.delete", "factory.create", "factory.end",
           "check.lock", "check.state", "check.route", "check.acquire",
           "check.loop", "check.end", "write.lock", "write.access", "write.done",
           "read.lock", "read.access", "read.convert", "read.failed",
           "init.route", "init.acquire", "init.bind"}
Frames == [at: Places, var: Alias, rest: SUBSET Alias, flag: BOOLEAN]

\* Types of the object's fields, the call stacks and the histories; a mutex is
\* only ever held by a thread that is in an operation, on every path out of the
\* nested calls.
AdsTypeOK ==
  /\ m_device_state \in BOOLEAN /\ mapped \subseteq known /\ known \subseteq Alias
  /\ handle \in [Alias -> {Absent, Null, Freed} \union 1 .. routes]
  /\ routes \in Nat /\ m_route \in 0 .. routes /\ live \subseteq 1 .. routes
  /\ m_temp \in Val
  /\ com \in Thread \union {NoThread} /\ mem \in Thread \union {NoThread}
  /\ \A t \in Thread : com = t \/ mem = t => stack[t] # <<>>
  /\ \A t \in Thread : \A i \in 1 .. Len(stack[t]) : stack[t][i] \in Frames
  /\ plc \in [Alias -> Val] /\ initialized \in BOOLEAN /\ setting \in Setting
  /\ fault \in {"none", "doubleFree", "deadRoute", "freedHandle", "nullHandle",
               "destroyed"}
  /\ threw \in BOOLEAN /\ seen \in [Thread -> SUBSET Val]
  /\ done \in [Thread -> [call: Calls, ok: BOOLEAN]]

\* The recovery of ConnectionCheck replaces the route under handles that refer
\* to it; with one thread no handle is used on a route that is gone, through
\* any sequence of failures, recoveries and start-ups, unless InitRoute threw.
NoDeadRoute == fault = "deadRoute" /\ Cardinality(setting.users) = 1 => threw

\* Reads of several threads share m_temp, yet each returns a value its own
\* variable had during the call.
ReadOwnValue ==
  \A t \in Thread : At(t, "read.convert") => m_temp \in seen[t]

\* Some thread that is in an operation can take a step: the two mutexes, and
\* the operations that call each other while they hold them, never stop
\* everyone as long as the PLC answers and the variables are of types Factory
\* knows.
SomeoneRuns ==
  /\ fault = "none" /\ ~setting.fails /\ \A v \in Alias : ~Unsupported(v)
  /\ (\E t \in Thread : stack[t] # <<>>)
  => \E t \in Thread : ENABLED Step(t)

\* AdsInterface.hpp:82, "(re)-create an IADS variable": the Factory call of a
\* failed read gets its mutex some time; it never waits for a lock its own
\* thread holds.
FactoryCanRun == \A t \in Thread : At(t, "factory.lock") => mem # t
=============================================================================
