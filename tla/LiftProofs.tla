----------------------------- MODULE LiftProofs -----------------------------
(***************************************************************************)
(* Proofs about TRLLiftInterface for every configuration in which the      *)
(* commanded variables come in the order of lift_config.yaml, every set of *)
(* floors and any number of moves of the PLC.                              *)
(***************************************************************************)
EXTENDS TRLLiftInterface, TLAPS

\* Variables are bound from the first on.
BoundInOrder == \E n \in 0 .. Len(Configured) : bound = First(n)

\* What the statements of a command or an end have read back so far.
Task        == flags["liftTask"]
End         == flags["endLiftTask"]
Destination == numbers["robotDestinationFloor"]

\* A statement after a read that was let pass still has m_device_state as that
\* read found it; a flag that counts as off is off if its variable is bound.
ReadBack ==
  ~touched =>
    /\ At("cmdTask") => m_device_state /\ Destination = floor
    /\ At("cmdEnd") => m_device_state /\ Destination = floor /\ Task
    /\ At("cmdDest") => /\ m_device_state /\ Destination = floor /\ Task
                        /\ "endLiftTask" \in bound => ~End
    /\ At("endEnd") => (m_device_state /\ "liftTask" \in bound => ~Task)
    /\ Returned("CommandLift") /\ result.value => Task /\ ~End /\ Destination = floor /\ floor # 0
    /\ Returned("EndLift") /\ result.value => ~Task /\ End

\* What the writes that have been made are worth if none of them was lost.
Written ==
  Healthy /\ ~touched =>
    /\ At("writeEnd") => Task
    /\ At("writeFloor") => Task /\ ~End
    /\ lpc \in {"cmdCheck", "cmdTask", "cmdEnd", "cmdDest"} =>
         Task /\ ~End /\ floor \in Int /\ Destination = Int8(floor)
    /\ At("setEnd") => ~Task
    /\ lpc \in {"endTask", "endEnd"} => ~Task /\ End
    /\ Returned("CommandLift") /\ floor \in -128 .. 127 /\ floor # 0 => result.value
    /\ Returned("EndLift") => result.value

LiftInv == LiftTypeOK /\ BoundInOrder /\ ReadBack /\ Written

-----------------------------------------------------------------------------
\* The conversion to eight bits.
LEMMA Int8IsAByte ==
  ASSUME NEW n \in Int
  PROVE  /\ Int8(n) \in -128 .. 127
         /\ n \in -128 .. 127 => Int8(n) = n
BY DEF Int8

\* The empty variant is no value of a variable.
LEMMA NothingIsNoValue ==
  /\ \A n \in Int : n # Nothing /\ n # NotANumber
  /\ TRUE # Nothing /\ FALSE # Nothing
BY LiftAssumption

\* The start of a lift.
LEMMA LiftStarts == LiftInit => LiftInv
<1> SUFFICES ASSUME LiftInit PROVE LiftInv
  OBVIOUS
<1> USE LiftAssumption DEF LiftInit
<1>1. bound = First(0) /\ Len(Configured) \in Nat
  BY DEF First
<1>2. LiftTypeOK
  <2>1. numbers \in [Numbers -> -128 .. 127]
    OBVIOUS
  <2>2. floor \in Floor \union {NotANumber}
    OBVIOUS
  <2>5. bound \subseteq First(Len(Configured))
    OBVIOUS
  <2>3. moves \in 0 .. MaxMoves
    OBVIOUS
  <2>6. touched \in BOOLEAN /\ failed \in BOOLEAN
    OBVIOUS
  <2>4. flags \in [Flags -> BOOLEAN] /\ m_device_state \in BOOLEAN
    OBVIOUS
  <2> QED
    BY <2>1, <2>2, <2>3, <2>4, <2>5, <2>6 DEF LiftTypeOK
<1> QED
  BY <1>1, <1>2 DEF LiftInv, BoundInOrder, ReadBack, Written, At, Returned

-----------------------------------------------------------------------------
\* A write to the PLC keeps the types.
LEMMA WriteTyped ==
  ASSUME LiftTypeOK, NEW a \in Flags \union Numbers, NEW x, NEW next, NEW call,
         a \in Flags => x \in BOOLEAN, a \in Numbers => x \in -128 .. 127,
         Write(a, x, next, call)
  PROVE  LiftTypeOK'
<1>1. /\ flags' \in [Flags -> BOOLEAN] /\ numbers' \in [Numbers -> -128 .. 127]
      /\ m_device_state' \in BOOLEAN /\ failed' \in BOOLEAN
  <2>1. m_device_state' \in BOOLEAN /\ failed' \in BOOLEAN
    BY DEF Write, LiftTypeOK, ads
  <2>2. Put(a, x) \/ UNCHANGED plc
    BY DEF Write
  <2>3. flags' \in [Flags -> BOOLEAN] /\ numbers' \in [Numbers -> -128 .. 127]
    <3>1. CASE Put(a, x)
      BY <3>1 DEF Put, LiftTypeOK
    <3>2. CASE UNCHANGED plc
      BY <3>2 DEF plc, LiftTypeOK
    <3> QED
      BY <2>2, <3>1, <3>2
  <2> QED
    BY <2>1, <2>3
<1>2. UNCHANGED <<bound, floor, moves, touched>>
  BY DEF Write, Goto, Return, local, ads
<1> QED
  BY <1>1, <1>2 DEF LiftTypeOK

\* A statement that only reads changes nothing but where the lift stands.
LEMMA ReadTyped ==
  ASSUME LiftInv, Unchanged, UNCHANGED <<floor, moves, touched>>
  PROVE  LiftTypeOK' /\ BoundInOrder' /\ (Healthy' <=> Healthy)
BY DEF LiftInv, LiftTypeOK, BoundInOrder, Unchanged, ads, plc, Healthy

\* What the client gives for a variable of the PLC.
LEMMA ReadGives ==
  ASSUME LiftTypeOK
  PROVE  /\ \A a \in Flags : IsTrue(Read(a)) <=> Reachable(a) /\ flags[a]
         /\ \A a \in Flags : Read(a) \in BOOLEAN \union {Nothing}
         /\ \A a \in Numbers :
              Read(a) = IF Reachable(a) THEN numbers[a] ELSE Nothing
         /\ Read("liftDestinationFloor") =
              IF Reachable("liftDestinationFloor") THEN Destination ELSE Nothing
         /\ Destination \in -128 .. 127 /\ Task \in BOOLEAN /\ End \in BOOLEAN
<1> USE LiftAssumption DEF LiftTypeOK
<1>1. \A a \in Flags : flags[a] \in BOOLEAN
  OBVIOUS
<1>2. ASSUME NEW a \in Flags
      PROVE  Read(a) = IF Reachable(a) THEN flags[a] ELSE Nothing
  BY DEF Read
<1>3. ASSUME NEW a \in Numbers
      PROVE  Read(a) = IF Reachable(a) THEN numbers[a] ELSE Nothing
  BY DEF Read, PlcVariable, Flags, Numbers
<1>4. Read("liftDestinationFloor") =
        IF Reachable("liftDestinationFloor") THEN Destination ELSE Nothing
  BY DEF Read, PlcVariable, Flags, Destination
<1>5. Destination \in -128 .. 127 /\ Task \in BOOLEAN /\ End \in BOOLEAN
  BY DEF Destination, Task, End, Flags, Numbers
<1>6. ASSUME NEW a \in Flags
      PROVE  IsTrue(Read(a)) <=> Reachable(a) /\ flags[a]
  BY <1>1, <1>2 DEF IsTrue
<1> QED
  BY <1>1, <1>2, <1>3, <1>4, <1>5, <1>6

\* In a healthy lift every commanded variable can be reached, and a variable
\* comes with those that are configured before it.
LEMMA BoundTogether ==
  ASSUME LiftInv
  PROVE  /\ Healthy => \A a \in Commanded \union {"liftDestinationFloor"} : Reachable(a)
         /\ "liftDestinationFloor" \in bound => "endLiftTask" \in bound
         /\ "endLiftTask" \in bound => "liftTask" \in bound
BY OrderAssumption DEF LiftInv, BoundInOrder, Healthy, Reachable

-----------------------------------------------------------------------------
\* The statements of CommandLift that read back.
LEMMA CommandReadsKeep ==
  ASSUME LiftInv, CommandCheck \/ CommandReadTask \/ CommandReadEnd \/ CommandReturns
  PROVE  LiftInv'
<1> USE LiftAssumption
<1>1. Unchanged /\ UNCHANGED <<floor, moves, touched>>
  BY DEF CommandCheck, CommandReadTask, CommandReadEnd, CommandReturns, Goto, Return, local
<1>2. LiftTypeOK' /\ BoundInOrder' /\ (Healthy' <=> Healthy)
  BY <1>1, ReadTyped
<1>3. UNCHANGED <<m_device_state, bound, Task, End, Destination, touched, floor>>
  BY <1>1 DEF Unchanged, ads, plc, Task, End, Destination
<1>4. LiftTypeOK
  BY DEF LiftInv
<1>5. ReadBack /\ Written
  BY DEF LiftInv
<1>6. floor \in Floor \union {NotANumber} /\ Floor \subseteq Int
  BY <1>4 DEF LiftTypeOK
<1>7. CASE CommandCheck
  <2> DEFINE x == Read("robotDestinationFloor")
  <2>0. /\ x = IF Reachable("robotDestinationFloor") THEN Destination ELSE Nothing
        /\ Healthy => Reachable("robotDestinationFloor")
        /\ Destination \in -128 .. 127
    BY <1>4, ReadGives, BoundTogether DEF Commanded, Numbers, Destination
  <2>3. IF x # Nothing /\ x = floor THEN lpc' = "cmdTask" ELSE lpc' = "ready"
    BY <1>7 DEF CommandCheck, Goto, Return, SameFloor
  <2>1. /\ At("cmdTask")' => m_device_state /\ Destination = floor
        /\ Healthy /\ floor \in Int /\ Destination = Int8(floor) /\ floor \in -128 .. 127
             => At("cmdTask")'
    <3> HIDE DEF x
    <3>1. ASSUME lpc' = "cmdTask" PROVE m_device_state /\ Destination = floor
      BY <2>0, <2>3, <3>1 DEF Reachable
    <3>2. ASSUME Healthy, floor \in Int, Destination = Int8(floor), floor \in -128 .. 127
          PROVE  lpc' = "cmdTask"
      <4>1. Destination = floor
        BY <3>2, Int8IsAByte
      <4>2. x = Destination /\ Destination \in Int
        BY <2>0, <3>2
      <4>3. x # Nothing
        BY <4>2, NothingIsNoValue
      <4> QED
        BY <2>0, <2>3, <3>2, <4>1, <4>2, <4>3
    <3> QED
      BY <3>1, <3>2 DEF At
  <2>2. \/ At("cmdTask")'
        \/ At("ready")' /\ result' = [call |-> "CommandLift", value |-> FALSE]
    BY <1>7 DEF CommandCheck, At, Goto, Return
  <2> QED
    BY <1>2, <1>3, <1>5, <1>6, <1>7, <2>1, <2>2
    DEF LiftInv, ReadBack, Written, CommandCheck, At, Returned
<1>8. CASE CommandReadTask
  <2>1. /\ At("cmdEnd")' => m_device_state /\ Task
        /\ Healthy /\ Task => At("cmdEnd")'
    BY <1>4, <1>8, ReadGives, BoundTogether
    DEF CommandReadTask, At, Goto, Return, Commanded, Flags, Reachable, Task
  <2>2. \/ At("cmdEnd")'
        \/ At("ready")' /\ result' = [call |-> "CommandLift", value |-> FALSE]
    BY <1>8 DEF CommandReadTask, At, Goto, Return
  <2> QED
    BY <1>2, <1>3, <1>5, <1>8, <2>1, <2>2
    DEF LiftInv, ReadBack, Written, CommandReadTask, At, Returned
<1>9. CASE CommandReadEnd
  <2>1. /\ At("cmdDest")' /\ m_device_state /\ "endLiftTask" \in bound => ~End
        /\ Healthy /\ ~End => At("cmdDest")'
    BY <1>4, <1>9, ReadGives, BoundTogether
    DEF CommandReadEnd, At, Goto, Return, Commanded, Flags, Reachable, End
  <2>2. \/ At("cmdDest")'
        \/ At("ready")' /\ result' = [call |-> "CommandLift", value |-> FALSE]
    BY <1>9 DEF CommandReadEnd, At, Goto, Return
  <2> QED
    BY <1>2, <1>3, <1>5, <1>9, <2>1, <2>2
    DEF LiftInv, ReadBack, Written, CommandReadEnd, At, Returned
<1>10. CASE CommandReturns
  <2> DEFINE x == Read("liftDestinationFloor")
  <2>1. /\ FloorText(x) # 0 => Reachable("liftDestinationFloor") /\ Destination # 0
        /\ Healthy /\ Destination # 0 => FloorText(x) # 0
    BY <1>4, ReadGives, BoundTogether, NothingIsNoValue DEF FloorText
  <2>2. At("ready")' /\ result' = [call |-> "CommandLift", value |-> FloorText(x) # 0]
    BY <1>10 DEF CommandReturns, At, Return
  <2>3. /\ result'.call = "CommandLift"
        /\ result'.value <=> FloorText(x) # 0
    BY <2>2
  <2>4. ASSUME ~touched, result'.value
        PROVE  Task /\ ~End /\ Destination = floor /\ floor # 0
    <3>1. Reachable("liftDestinationFloor") /\ Destination # 0
      BY <2>1, <2>3, <2>4
    <3> QED
      BY <1>5, <1>10, <2>4, <3>1, BoundTogether DEF ReadBack, CommandReturns, At, Reachable
  <2>5. ASSUME Healthy, ~touched, floor \in -128 .. 127, floor # 0
        PROVE  result'.value
    <3>1. Destination = Int8(floor)
      BY <1>5, <1>10, <2>5 DEF Written, CommandReturns, At
    <3> QED
      BY <2>1, <2>3, <2>5, <3>1, Int8IsAByte
  <2>6. ReadBack'
    <3> HIDE DEF x
    <3> QED
      BY <1>3, <2>2, <2>3, <2>4 DEF ReadBack, At, Returned
  <2>7. Written'
    <3> HIDE DEF x
    <3> QED
      BY <1>2, <1>3, <2>2, <2>3, <2>5 DEF Written, At, Returned
  <2> QED
    BY <1>2, <2>6, <2>7 DEF LiftInv
<1> QED
  BY <1>7, <1>8, <1>9, <1>10

\* The statements of EndLift that read back.
LEMMA EndReadsKeep ==
  ASSUME LiftInv, EndReadTask \/ EndReturns
  PROVE  LiftInv'
<1> USE LiftAssumption
<1>1. Unchanged /\ UNCHANGED <<floor, moves, touched>>
  BY DEF EndReadTask, EndReturns, Goto, Return, local
<1>2. LiftTypeOK' /\ BoundInOrder' /\ (Healthy' <=> Healthy)
  BY <1>1, ReadTyped
<1>3. UNCHANGED <<m_device_state, bound, Task, End, Destination, touched, floor>>
  BY <1>1 DEF Unchanged, ads, plc, Task, End, Destination
<1>4. LiftTypeOK /\ ReadBack /\ Written
  BY DEF LiftInv
<1>5. CASE EndReadTask
  <2>1. /\ At("endEnd")' /\ m_device_state /\ "liftTask" \in bound => ~Task
        /\ Healthy /\ ~Task => At("endEnd")'
    BY <1>4, <1>5, ReadGives, BoundTogether
    DEF EndReadTask, At, Goto, Return, Commanded, Flags, Reachable, Task
  <2>2. \/ At("endEnd")'
        \/ At("ready")' /\ result' = [call |-> "EndLift", value |-> FALSE]
    BY <1>5 DEF EndReadTask, At, Goto, Return
  <2> QED
    BY <1>2, <1>3, <1>4, <1>5, <2>1, <2>2
    DEF LiftInv, ReadBack, Written, EndReadTask, At, Returned
<1>6. CASE EndReturns
  <2>1. At("ready")' /\ result' = [call |-> "EndLift", value |-> Ended(Read("endLiftTask"))]
    BY <1>6 DEF EndReturns, At, Return
  <2>2. /\ result'.call = "EndLift"
        /\ result'.value <=> Reachable("endLiftTask") /\ End
    BY <1>4, <2>1, ReadGives DEF Ended, Flags, End
  <2>3. ASSUME ~touched, result'.value PROVE ~Task /\ End
    BY <1>4, <1>6, <2>2, <2>3, BoundTogether DEF ReadBack, EndReturns, At, Reachable
  <2>4. ASSUME Healthy, ~touched PROVE result'.value
    BY <1>4, <1>6, <2>2, <2>4, BoundTogether DEF Written, EndReturns, At, Commanded
  <2>5. ReadBack'
    BY <1>3, <2>1, <2>2, <2>3 DEF ReadBack, At, Returned
  <2>6. Written'
    BY <1>2, <1>3, <2>1, <2>2, <2>4 DEF Written, At, Returned
  <2> QED
    BY <1>2, <2>5, <2>6 DEF LiftInv
<1> QED
  BY <1>5, <1>6

\* The statements of the queries, and a read that hangs.
LEMMA QueriesKeep ==
  ASSUME LiftInv, ModeSteps \/ NumberReturns \/ HeartbeatReads \/ HeartbeatReturns \/ ReadHangs
  PROVE  LiftInv'
<1>1. Unchanged /\ UNCHANGED <<floor, moves, touched>>
  BY DEF ModeSteps, ModeTest, ModeReturns, NumberReturns, HeartbeatReads, HeartbeatReturns,
    ReadHangs, Goto, Return, local
<1>2. LiftTypeOK' /\ BoundInOrder' /\ (Healthy' <=> Healthy)
  BY <1>1, ReadTyped
<1>3. \/ lpc' \in {"manual", "agv", "noAgv", "beatWrite", "stuck"}
      \/ lpc' = "ready" /\ result'.call \in {"CurrentMode", "currentFloor", "destinationFloor",
                                             "doorState", "HeartbeatConnection"}
  BY DEF ModeSteps, ModeTest, ModeReturns, NumberReturns, HeartbeatReads, HeartbeatReturns,
    ReadHangs, Goto, Return
<1> QED
  BY <1>2, <1>3 DEF LiftInv, ReadBack, Written, At, Returned

-----------------------------------------------------------------------------
\* A write: where it leads and what it leaves in the PLC.
LEMMA WriteDoes ==
  ASSUME LiftInv, NEW a \in Flags \union Numbers, NEW x, NEW next, NEW call,
         a \in Flags => x \in BOOLEAN, a \in Numbers => x \in -128 .. 127,
         Write(a, x, next, call)
  PROVE  /\ LiftTypeOK' /\ BoundInOrder'
         /\ UNCHANGED <<touched, floor>>
         /\ \/ lpc' = next
            \/ lpc' = "ready" /\ result'.call = call /\ ~result'.value /\ ~Healthy'
            \/ lpc' = "stuck"
         /\ Healthy' => Healthy
         /\ Healthy' /\ a \in Commanded =>
              /\ a \in Flags => flags' = [flags EXCEPT ![a] = x] /\ UNCHANGED numbers
              /\ a \in Numbers => numbers' = [numbers EXCEPT ![a] = x] /\ UNCHANGED flags
<1> USE DEF LiftInv
<1>1. LiftTypeOK'
  BY WriteTyped
<1>2. BoundInOrder' /\ UNCHANGED <<touched, floor, bound>>
  BY DEF BoundInOrder, Write, Goto, Return, local, ads
<1>3. \/ lpc' = next
      \/ lpc' = "ready" /\ result'.call = call /\ ~result'.value /\ ~Healthy'
      \/ lpc' = "stuck"
  <2>1. \/ lpc' = next
        \/ lpc' = "ready" /\ result' = [call |-> call, value |-> FALSE] /\ failed' = TRUE
        \/ lpc' = "stuck"
    BY DEF Write, Goto, Return
  <2>2. failed' = TRUE => ~Healthy'
    BY DEF Healthy
  <2> QED
    BY <2>1, <2>2
<1>4. Healthy' => ~failed' /\ m_device_state' /\ bound' = First(Len(Configured))
  BY DEF Healthy
<1>5. ASSUME Healthy' PROVE Healthy
  BY <1>2, <1>4, <1>5 DEF Write, ads, Healthy, LiftTypeOK
<1>6. ASSUME Healthy', a \in Commanded PROVE Reachable(a) /\ Put(a, x)
  BY <1>4, <1>5, <1>6, BoundTogether DEF Write
<1>7. Flags \intersect Numbers = {}
  BY DEF Flags, Numbers
<1> QED
  BY <1>1, <1>2, <1>3, <1>5, <1>6, <1>7 DEF Put

\* The three writes of CommandLift.
LEMMA CommandWritesKeep ==
  ASSUME LiftInv, CommandTask \/ CommandEnd \/ CommandFloor
  PROVE  LiftInv'
<1> USE DEF At
<1>0. LiftTypeOK /\ ReadBack /\ Written
  BY DEF LiftInv
<1>1. floor \in Floor \union {NotANumber} /\ Floor \subseteq Int
  BY <1>0, LiftAssumption DEF LiftTypeOK
<1>2. CASE CommandTask
  <2>1. lpc = "writeTask" /\ Write("liftTask", TRUE, "writeEnd", "CommandLift")
    BY <1>2 DEF CommandTask
  <2>2. /\ LiftTypeOK' /\ BoundInOrder'
        /\ \/ lpc' = "writeEnd"
           \/ lpc' = "ready" /\ result'.call = "CommandLift" /\ ~result'.value /\ ~Healthy'
           \/ lpc' = "stuck"
        /\ Healthy' => flags' = [flags EXCEPT !["liftTask"] = TRUE]
    BY <2>1, WriteDoes DEF Flags, Numbers, Commanded
  <2>3. Healthy' => Task'
    BY <1>0, <2>2 DEF Task, LiftTypeOK, Flags
  <2> QED
    BY <2>2, <2>3 DEF LiftInv, ReadBack, Written, Returned
<1>3. CASE CommandEnd
  <2>1. lpc = "writeEnd" /\ Write("endLiftTask", FALSE, "writeFloor", "CommandLift")
    BY <1>3 DEF CommandEnd
  <2>2. /\ LiftTypeOK' /\ BoundInOrder' /\ UNCHANGED touched
        /\ \/ lpc' = "writeFloor"
           \/ lpc' = "ready" /\ result'.call = "CommandLift" /\ ~result'.value /\ ~Healthy'
           \/ lpc' = "stuck"
        /\ Healthy' => Healthy /\ flags' = [flags EXCEPT !["endLiftTask"] = FALSE]
    BY <2>1, WriteDoes DEF Flags, Numbers, Commanded
  <2>3. Healthy' /\ ~touched' => Task' /\ ~End'
    BY <1>0, <2>1, <2>2 DEF Written, Task, End, LiftTypeOK, Flags
  <2> QED
    BY <2>2, <2>3 DEF LiftInv, ReadBack, Written, Returned
<1>4. CASE CommandFloor /\ floor # NotANumber
  <2>1. /\ lpc = "writeFloor"
        /\ Write("robotDestinationFloor", Int8(floor), "cmdCheck", "CommandLift")
    BY <1>4 DEF CommandFloor
  <2>2. Int8(floor) \in -128 .. 127 /\ floor \in Int
    BY <1>1, <1>4, Int8IsAByte
  <2> QED
    <3>1. /\ LiftTypeOK' /\ BoundInOrder' /\ UNCHANGED <<touched, floor>>
          /\ \/ lpc' = "cmdCheck"
             \/ lpc' = "ready" /\ result'.call = "CommandLift" /\ ~result'.value /\ ~Healthy'
             \/ lpc' = "stuck"
          /\ Healthy' => /\ Healthy /\ UNCHANGED flags
                         /\ numbers' = [numbers EXCEPT !["robotDestinationFloor"] = Int8(floor)]
      BY <2>1, <2>2, WriteDoes DEF Flags, Numbers, Commanded
    <3>2. Healthy' /\ ~touched' => Task' /\ ~End' /\ Destination' = Int8(floor)
      BY <1>0, <2>1, <3>1 DEF Written, Task, End, Destination, LiftTypeOK, Numbers
    <3> QED
      BY <2>2, <3>1, <3>2 DEF LiftInv, ReadBack, Written, Returned
<1>5. CASE CommandFloor /\ floor = NotANumber
  <2>1. /\ lpc' = "ready" /\ result' = [call |-> "CommandLift", value |-> FALSE]
        /\ Unchanged /\ UNCHANGED <<floor, moves, touched>>
    BY <1>5 DEF CommandFloor, Return
  <2>2. LiftTypeOK' /\ BoundInOrder' /\ (Healthy' <=> Healthy)
    BY <2>1, ReadTyped
  <2>3. floor' \notin -128 .. 127
    BY <1>5, <2>1, NothingIsNoValue
  <2> QED
    BY <2>1, <2>2, <2>3 DEF LiftInv, ReadBack, Written, Returned
<1> QED
  BY <1>2, <1>3, <1>4, <1>5
\* The two writes of EndLift, and the one of the heartbeat.
LEMMA EndWritesKeep ==
  ASSUME LiftInv, EndTask \/ EndEnd
  PROVE  LiftInv'
<1> USE DEF At
<1>0. LiftTypeOK /\ Written
  BY DEF LiftInv
<1>1. CASE EndTask
  <2>1. lpc = "clearTask" /\ Write("liftTask", FALSE, "setEnd", "EndLift")
    BY <1>1 DEF EndTask
  <2>2. /\ LiftTypeOK' /\ BoundInOrder'
        /\ \/ lpc' = "setEnd"
           \/ lpc' = "ready" /\ result'.call = "EndLift" /\ ~result'.value /\ ~Healthy'
           \/ lpc' = "stuck"
        /\ Healthy' => flags' = [flags EXCEPT !["liftTask"] = FALSE]
    BY <2>1, WriteDoes DEF Flags, Numbers, Commanded
  <2>3. Healthy' => ~Task'
    BY <1>0, <2>2 DEF Task, LiftTypeOK, Flags
  <2> QED
    BY <2>2, <2>3 DEF LiftInv, ReadBack, Written, Returned
<1>2. CASE EndEnd
  <2>1. lpc = "setEnd" /\ Write("endLiftTask", TRUE, "endTask", "EndLift")
    BY <1>2 DEF EndEnd
  <2>2. /\ LiftTypeOK' /\ BoundInOrder' /\ UNCHANGED touched
        /\ \/ lpc' = "endTask"
           \/ lpc' = "ready" /\ result'.call = "EndLift" /\ ~result'.value /\ ~Healthy'
           \/ lpc' = "stuck"
        /\ Healthy' => Healthy /\ flags' = [flags EXCEPT !["endLiftTask"] = TRUE]
    BY <2>1, WriteDoes DEF Flags, Numbers, Commanded
  <2>3. Healthy' /\ ~touched' => ~Task' /\ End'
    BY <1>0, <2>1, <2>2 DEF Written, Task, End, LiftTypeOK, Flags
  <2> QED
    BY <2>2, <2>3 DEF LiftInv, ReadBack, Written, Returned
<1> QED
  BY <1>1, <1>2

LEMMA HeartbeatWriteKeeps ==
  ASSUME LiftInv, HeartbeatWrites
  PROVE  LiftInv'
<1>1. Write("randomCount", 1, "beatAgain", "HeartbeatConnection")
  BY DEF HeartbeatWrites
<1>2. /\ LiftTypeOK' /\ BoundInOrder'
      /\ \/ lpc' = "beatAgain"
         \/ lpc' = "ready" /\ result'.call = "HeartbeatConnection"
         \/ lpc' = "stuck"
  BY <1>1, WriteDoes DEF Flags, Numbers
<1> QED
  BY <1>2 DEF LiftInv, ReadBack, Written, At, Returned

-----------------------------------------------------------------------------
\* The start of an operation.
LEMMA BeginKeeps ==
  ASSUME LiftInv,
         \/ \E f \in Floor \union {NotANumber} : CommandLift(f)
         \/ EndLift \/ CurrentMode \/ FloorQuery \/ LiftDoorState \/ HeartbeatConnection
  PROVE  LiftInv'
<1>1. /\ lpc' \in {"writeTask", "clearTask", "fire", "currentFloor", "destinationFloor",
                   "doorState", "beat"}
      /\ floor' \in Floor \union {NotANumber}
      /\ UNCHANGED <<bound, m_device_state, flags, numbers>>
      /\ moves' = 0 /\ touched' = FALSE /\ failed' = FALSE
  BY DEF LiftInv, LiftTypeOK, CommandLift, EndLift, CurrentMode, FloorQuery, LiftDoorState,
    HeartbeatConnection, Query, Begin, ads, plc
<1>2. moves' \in 0 .. MaxMoves
  BY <1>1, LiftAssumption
<1>3. LiftTypeOK' /\ BoundInOrder'
  BY <1>1, <1>2 DEF LiftInv, LiftTypeOK, BoundInOrder
<1> QED
  BY <1>1, <1>3 DEF LiftInv, ReadBack, Written, At, Returned

\* The variables bound by one more binding are again the first ones.
LEMMA BindingInOrder ==
  ASSUME LiftInv, NEW n \in 0 .. Len(Configured)
  PROVE  /\ \E m \in 0 .. Len(Configured) : bound \union First(n) = First(m)
         /\ First(n) \subseteq First(Len(Configured))
<1>1. PICK k \in 0 .. Len(Configured) : bound = First(k)
  BY DEF LiftInv, BoundInOrder
<1>2. Len(Configured) \in Nat
  BY LiftAssumption
<1>3. \A i, j \in 0 .. Len(Configured) : i <= j => First(i) \subseteq First(j)
  BY <1>2 DEF First
<1> QED
  BY <1>1, <1>2, <1>3

\* Initialize and CheckConnection change what can be reached, and return.
LEMMA ConnectKeeps ==
  ASSUME LiftInv, Initialize \/ CheckConnection
  PROVE  LiftInv'
<1>1. Len(Configured) \in 0 .. Len(Configured)
  BY LiftAssumption
<1>2. /\ UNCHANGED <<flags, numbers, floor, moves, touched, failed>>
      /\ m_device_state' \in BOOLEAN
  BY DEF LiftInv, LiftTypeOK, Initialize, CheckConnection, plc
<1>3. \/ UNCHANGED bound
      \/ \E n \in 0 .. Len(Configured) : bound' = bound \union First(n)
      \/ bound' = First(Len(Configured))
  BY DEF Initialize, CheckConnection
<1>4. bound' \subseteq First(Len(Configured)) /\ BoundInOrder'
  BY <1>1, <1>3, BindingInOrder DEF BoundInOrder, LiftInv, LiftTypeOK
<1>5. LiftTypeOK'
  BY <1>2, <1>4 DEF LiftInv, LiftTypeOK
<1>6. \/ lpc' = "stuck"
      \/ lpc' = "ready" /\ result'.call \in {"Initialize", "CheckConnection"}
  BY DEF Initialize, CheckConnection
<1> QED
  BY <1>4, <1>5, <1>6 DEF LiftInv, ReadBack, Written, At, Returned

\* A move of the PLC that leaves the commanded variables alone.
LEMMA PlcMovesKeeps ==
  ASSUME LiftInv, PlcMoves
  PROVE  LiftInv'
<1> USE DEF LiftInv
<1>1. PICK a \in PlcFlag \union PlcNumber :
        /\ \/ a \in PlcFlag /\ Put(a, ~flags[a])
           \/ \E x \in Number : a \in PlcNumber /\ x # numbers[a] /\ Put(a, x)
        /\ touched' = (touched \/ a \in Commanded)
  BY DEF PlcMoves
<1>2. Flags \intersect Numbers = {} /\ PlcFlag \subseteq Flags /\ PlcNumber \subseteq Numbers
  BY LiftAssumption DEF Flags, Numbers
<1>3. flags' \in [Flags -> BOOLEAN] /\ numbers' \in [Numbers -> -128 .. 127]
  <2>1. CASE a \in PlcFlag /\ Put(a, ~flags[a])
    BY <1>2, <2>1 DEF Put, LiftTypeOK
  <2>2. ASSUME NEW x \in Number, a \in PlcNumber, Put(a, x)
        PROVE  flags' \in [Flags -> BOOLEAN] /\ numbers' \in [Numbers -> -128 .. 127]
    BY <1>2, <2>2, LiftAssumption DEF Put, LiftTypeOK
  <2> QED
    BY <1>1, <2>1, <2>2
<1>4. moves' \in 0 .. MaxMoves
  BY LiftAssumption DEF PlcMoves, LiftTypeOK
<1>5. touched' \in BOOLEAN
  BY <1>1 DEF LiftTypeOK
<1>6. UNCHANGED <<bound, m_device_state, lpc, floor, result, failed>>
  BY DEF PlcMoves, ads
<1>7. LiftTypeOK' /\ BoundInOrder' /\ (Healthy' <=> Healthy)
  BY <1>3, <1>4, <1>5, <1>6 DEF LiftTypeOK, BoundInOrder, Healthy
<1>8. ASSUME ~touched' PROVE ~touched /\ UNCHANGED <<Task, End, Destination>>
  <2>1. ~touched /\ a \notin Commanded
    BY <1>1, <1>8
  <2>2. \A b \in Commanded : (b \in Flags => flags'[b] = flags[b])
                             /\ (b \in Numbers => numbers'[b] = numbers[b])
    BY <1>1, <1>2, <2>1 DEF Put, LiftTypeOK
  <2> QED
    BY <2>1, <2>2 DEF Commanded, Flags, Numbers, Task, End, Destination
<1> QED
  BY <1>6, <1>7, <1>8 DEF ReadBack, Written, At, Returned

-----------------------------------------------------------------------------
\* The types, and the invariant from which the answers' truth follows.
THEOREM LiftInvariance == LiftSpec => []LiftInv
<1>1. LiftInv /\ [LiftNext]_liftVars => LiftInv'
  <2> SUFFICES ASSUME LiftInv, [LiftNext]_liftVars PROVE LiftInv'
    OBVIOUS
  <2>1. CASE LiftStep
    BY <2>1, CommandWritesKeep, CommandReadsKeep, EndWritesKeep, EndReadsKeep, QueriesKeep,
      HeartbeatWriteKeeps DEF LiftStep
  <2>2. CASE UNCHANGED liftVars
    <3>1. LiftTypeOK' /\ BoundInOrder'
      BY <2>2 DEF liftVars, ads, plc, local, LiftInv, LiftTypeOK, BoundInOrder
    <3>2. UNCHANGED <<lpc, result, floor, touched, bound, m_device_state, Task, End, Destination>>
      BY <2>2 DEF liftVars, ads, plc, local, Task, End, Destination
    <3>3. Healthy' <=> Healthy
      BY <2>2 DEF liftVars, ads, plc, local, Healthy
    <3>4. ReadBack'
      BY <3>2 DEF LiftInv, ReadBack, Returned, At
    <3>5. Written'
      BY <3>2, <3>3 DEF LiftInv, Written, Returned, At
    <3> QED
      BY <3>1, <3>4, <3>5 DEF LiftInv
  <2> QED
    BY <2>1, <2>2, BeginKeeps, ConnectKeeps, PlcMovesKeeps DEF LiftNext
<1> QED
  BY <1>1, LiftStarts, PTL DEF LiftSpec

THEOREM LiftTyping == LiftSpec => []LiftTypeOK
<1>1. LiftInv => LiftTypeOK
  BY DEF LiftInv
<1> QED
  BY <1>1, LiftInvariance, PTL

\* CommandLift returns true only with the whole command in the PLC, although
\* none of its writes reports a failure and any access may fail.
THEOREM CommandsAreTruthful == LiftSpec => []CommandIsTruthful
<1>1. LiftInv => CommandIsTruthful
  BY DEF LiftInv, ReadBack, CommandIsTruthful, Task, End, Destination
<1> QED
  BY <1>1, LiftInvariance, PTL

\* The same for EndLift, although a failed read counts as a flag that is off.
THEOREM EndsAreTruthful == LiftSpec => []EndIsTruthful
<1>1. LiftInv => EndIsTruthful
  BY DEF LiftInv, ReadBack, EndIsTruthful, Task, End
<1> QED
  BY <1>1, LiftInvariance, PTL

\* An operation whose accesses have all worked succeeds, whatever came before;
\* a command only for a floor of eight bits other than 0.
THEOREM ValidCommandsSucceed == LiftSpec => []ValidCommandSucceeds
<1>1. LiftInv => ValidCommandSucceeds
  BY DEF LiftInv, Written, ValidCommandSucceeds
<1> QED
  BY <1>1, LiftInvariance, PTL
=============================================================================
