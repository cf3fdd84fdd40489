------------------------------ MODULE AdsProofs ------------------------------
(***************************************************************************)
(* Proofs about AdsInterface for any threads, variables, symbol tables and *)
(* number of routes: the types, who holds which mutex, that reads do not   *)
(* mix up the value they share, that a single thread never uses a route    *)
(* that is gone, and that with a PLC that answers nobody ever does and     *)
(* somebody always runs.                                                   *)
(***************************************************************************)
EXTENDS AdsInterface, SequenceTheorems, FiniteSetTheorems, TLAPS

\* The statements in whose scope m_mem_mutex, or m_com_mutex, is held.
UnderMem == {"factory.delete", "factory.create", "factory.end", "write.access",
             "read.access", "read.convert", "read.failed"}
UnderCom == {"check.state", "check.route", "check.acquire", "check.loop", "check.end",
             "write.access", "read.access", "read.convert", "read.failed"}

\* The statements of the operations, which only Factory and ConnectionCheck
\* are called from.
OfOperation == {"write.lock", "write.access", "write.done",
                "read.lock", "read.access", "read.convert", "read.failed",
                "init.route", "init.acquire", "init.bind"}

OfRead == {"read.lock", "read.access", "read.convert"}

\* One call on a stack is in the scope of the mutex that a thread owns, and no
\* call on the other stacks is.
Owned(stk, mutex, scope) ==
  /\ mutex \in Thread \union {NoThread}
  /\ \A t \in Thread : \A i \in DOMAIN stk[t] : stk[t][i].at \in scope => mutex = t
  /\ \A t \in Thread : \A i, j \in DOMAIN stk[t] :
       stk[t][i].at \in scope /\ stk[t][j].at \in scope => i = j
  /\ \A t \in Thread : mutex = t => \E i \in DOMAIN stk[t] : stk[t][i].at \in scope

\* Calls of operations are the outermost ones, and a read in progress has not
\* called anything.
Stacks(stk) ==
  /\ stk \in [Thread -> Seq(Frames)]
  /\ \A t \in Thread : \A i \in DOMAIN stk[t] :
       /\ stk[t][i].at \in OfOperation => i = Len(stk[t])
       /\ stk[t][i].at \in OfRead => i = 1

LockInv == Stacks(stack) /\ Owned(stack, mem, UnderMem) /\ Owned(stack, com, UnderCom)

-----------------------------------------------------------------------------
LEMMA NoThreadIsNone == NoThread \notin Thread
BY AdsAssumption

\* The calls of Factory and ConnectionCheck.
LEMMA FactoryIsAFrame ==
  /\ \A v \in Alias : /\ FactoryFrame(v) \in Frames /\ FactoryFrame(v).at = "factory.lock"
                       /\ FactoryFrame(v).var = v
  /\ m_device_state \in BOOLEAN => CheckFrame \in Frames /\ CheckFrame.at = "check.lock"
  /\ (CHOOSE v \in Alias : TRUE) \in Alias
  /\ \E g \in Frames : g.at \notin OfOperation
<1>1. (CHOOSE v \in Alias : TRUE) \in Alias
  BY AdsAssumption
<1>2. /\ FactoryFrame(CHOOSE v \in Alias : TRUE) \in Frames
      /\ FactoryFrame(CHOOSE v \in Alias : TRUE).at \notin OfOperation
  BY <1>1 DEF FactoryFrame, Frame, Frames, Places, OfOperation
<1> QED
  BY <1>1, <1>2 DEF FactoryFrame, CheckFrame, Frame, Frames, Places

\* A stack when the innermost call goes on, makes a call, or returns.
LEMMA StackGoesOn ==
  ASSUME NEW s \in Seq(Frames), s # <<>>, NEW f \in Frames
  PROVE  /\ <<f>> \o Tail(s) \in Seq(Frames) /\ Len(<<f>> \o Tail(s)) = Len(s)
         /\ Len(s) \in Nat \ {0} /\ Head(s) = s[1] /\ s[1] \in Frames
         /\ (<<f>> \o Tail(s))[1] = f
         /\ \A i \in 2 .. Len(s) : (<<f>> \o Tail(s))[i] = s[i]
  OBVIOUS

LEMMA StackGrows ==
  ASSUME NEW s \in Seq(Frames), s # <<>>, NEW f \in Frames, NEW g \in Frames
  PROVE  /\ <<g, f>> \o Tail(s) \in Seq(Frames) /\ Len(<<g, f>> \o Tail(s)) = Len(s) + 1
         /\ (<<g, f>> \o Tail(s))[1] = g /\ (<<g, f>> \o Tail(s))[2] = f
         /\ \A i \in 3 .. Len(s) + 1 : (<<g, f>> \o Tail(s))[i] = s[i - 1]
  OBVIOUS

LEMMA StackShrinks ==
  ASSUME NEW s \in Seq(Frames), s # <<>>
  PROVE  /\ Tail(s) \in Seq(Frames) /\ Len(Tail(s)) = Len(s) - 1
         /\ \A i \in 1 .. Len(s) - 1 : Tail(s)[i] = s[i + 1]
  OBVIOUS

\* How a mutex changes with the innermost call: as its scope is entered or left.
Scoped(t, m1, m2, from, to) ==
  \/ m2 = m1 /\ (from <=> to)
  \/ m1 = NoThread /\ m2 = t /\ to
  \/ from /\ ~to /\ m2 = NoThread

LEMMA OwnerGoesOn ==
  ASSUME NEW s1, NEW s2, NEW m1, NEW m2, NEW scope, NEW t \in Thread, NEW f \in Frames,
         Stacks(s1), Owned(s1, m1, scope), s1[t] # <<>>,
         s2 = [s1 EXCEPT ![t] = <<f>> \o Tail(@)],
         Scoped(t, m1, m2, Head(s1[t]).at \in scope, f.at \in scope)
  PROVE  Owned(s2, m2, scope)
<1> USE NoThreadIsNone DEF Stacks
<1>1. /\ DOMAIN s2[t] = DOMAIN s1[t] /\ DOMAIN s1[t] = 1 .. Len(s1[t])
      /\ Len(s1[t]) \in Nat \ {0} /\ Head(s1[t]) = s1[t][1]
      /\ s2[t][1] = f /\ \A i \in 2 .. Len(s1[t]) : s2[t][i] = s1[t][i]
  BY StackGoesOn
<1>2. \A u \in Thread : u # t => s2[u] = s1[u]
  OBVIOUS
<1>3. ASSUME NEW u \in Thread, u # t
      PROVE  /\ DOMAIN s2[u] = DOMAIN s1[u] /\ m1 = u <=> m2 = u
             /\ \A i \in DOMAIN s2[u] : s2[u][i] = s1[u][i]
  BY <1>1, <1>2, <1>3 DEF Owned, Scoped
<1>4. m2 \in Thread \union {NoThread}
  BY DEF Owned, Scoped
<1>5. \A u \in Thread : \A i \in DOMAIN s2[u] : s2[u][i].at \in scope => m2 = u
  <2>1. ASSUME NEW i \in DOMAIN s2[t], s2[t][i].at \in scope PROVE m2 = t
    BY <1>1, <2>1 DEF Owned, Scoped
  <2> QED
    BY <1>3, <2>1 DEF Owned
<1>6. \A u \in Thread : \A i, j \in DOMAIN s2[u] :
        s2[u][i].at \in scope /\ s2[u][j].at \in scope => i = j
  <2>1. ASSUME NEW i \in DOMAIN s2[t], NEW j \in DOMAIN s2[t],
               s2[t][i].at \in scope, s2[t][j].at \in scope
        PROVE  i = j
    BY <1>1, <2>1 DEF Owned, Scoped
  <2> QED
    BY <1>3, <2>1 DEF Owned
<1>7. \A u \in Thread : m2 = u => \E i \in DOMAIN s2[u] : s2[u][i].at \in scope
  <2>1. ASSUME m2 = t PROVE \E i \in DOMAIN s2[t] : s2[t][i].at \in scope
    <3>1. CASE f.at \in scope
      <4>1. 1 \in DOMAIN s2[t] /\ s2[t][1].at \in scope
        BY <1>1, <3>1
      <4> QED
        BY <4>1
    <3>2. CASE f.at \notin scope
      <4>1. m1 = t /\ Head(s1[t]).at \notin scope
        BY <2>1, <3>2 DEF Scoped
      <4>2. PICK i \in DOMAIN s1[t] : s1[t][i].at \in scope
        BY <4>1 DEF Owned
      <4>3. i \in 2 .. Len(s1[t])
        BY <1>1, <4>1, <4>2
      <4> QED
        BY <1>1, <4>2, <4>3
    <3> QED
      BY <3>1, <3>2
  <2> QED
    BY <1>3, <2>1 DEF Owned
<1> QED
  BY <1>4, <1>5, <1>6, <1>7 DEF Owned

\* Where the mutex changes hands the call goes on in the same or another scope,
\* and the call it makes is in none.
LEMMA OwnerCalls ==
  ASSUME NEW s1, NEW s2, NEW m1, NEW m2, NEW scope, NEW t \in Thread,
         NEW f \in Frames, NEW g \in Frames,
         Stacks(s1), Owned(s1, m1, scope), s1[t] # <<>>,
         s2 = [s1 EXCEPT ![t] = <<g, f>> \o Tail(@)], g.at \notin scope,
         Scoped(t, m1, m2, Head(s1[t]).at \in scope, f.at \in scope)
  PROVE  Owned(s2, m2, scope)
<1> USE NoThreadIsNone DEF Stacks
<1>1. /\ DOMAIN s1[t] = 1 .. Len(s1[t]) /\ DOMAIN s2[t] = 1 .. Len(s1[t]) + 1
      /\ Len(s1[t]) \in Nat \ {0} /\ Head(s1[t]) = s1[t][1]
      /\ s2[t][1] = g /\ s2[t][2] = f
      /\ \A i \in 3 .. Len(s1[t]) + 1 : s2[t][i] = s1[t][i - 1]
  BY StackGrows, StackGoesOn
<1>2. \A u \in Thread : u # t => s2[u] = s1[u]
  OBVIOUS
<1>3. \A i \in 2 .. Len(s1[t]) : i + 1 \in DOMAIN s2[t] /\ s2[t][i + 1] = s1[t][i]
  <2>1. ASSUME NEW i \in 2 .. Len(s1[t])
        PROVE  i + 1 \in 3 .. Len(s1[t]) + 1 /\ (i + 1) - 1 = i
    BY <1>1
  <2> QED
    BY <1>1, <2>1
<1>9. ASSUME NEW i \in DOMAIN s2[t], s2[t][i].at \in scope
      PROVE  \/ i = 2 /\ f.at \in scope
             \/ i # 2 /\ i - 1 \in 2 .. Len(s1[t]) /\ s1[t][i - 1].at \in scope
  <2>1. i = 2 \/ i \in 3 .. Len(s1[t]) + 1
    BY <1>1, <1>9
  <2>2. ASSUME i \in 3 .. Len(s1[t]) + 1 PROVE i - 1 \in 2 .. Len(s1[t]) /\ i # 2
    BY <1>1, <2>2
  <2> QED
    BY <1>1, <1>9, <2>1, <2>2
<1>10. ASSUME NEW k \in 2 .. Len(s1[t]), s1[t][k].at \in scope
       PROVE  m2 = t /\ f.at \notin scope
  <2>1. k \in DOMAIN s1[t] /\ 1 \in DOMAIN s1[t] /\ k # 1
    BY <1>1
  <2>2. m1 = t /\ Head(s1[t]).at \notin scope
    BY <1>1, <1>10, <2>1 DEF Owned
  <2> QED
    BY <2>2 DEF Scoped
<1>4. ASSUME NEW u \in Thread, u # t
      PROVE  /\ DOMAIN s2[u] = DOMAIN s1[u] /\ m1 = u <=> m2 = u
             /\ \A i \in DOMAIN s2[u] : s2[u][i] = s1[u][i]
  BY <1>1, <1>2, <1>4 DEF Owned, Scoped
<1>5. m2 \in Thread \union {NoThread}
  BY DEF Owned, Scoped
<1>6. \A u \in Thread : \A i \in DOMAIN s2[u] : s2[u][i].at \in scope => m2 = u
  <2>1. ASSUME NEW i \in DOMAIN s2[t], s2[t][i].at \in scope PROVE m2 = t
    <3>1. CASE f.at \in scope
      <4>1. 1 \in DOMAIN s1[t] /\ (Head(s1[t]).at \in scope => m1 = t)
        BY <1>1 DEF Owned
      <4> QED
        BY <3>1, <4>1 DEF Scoped
    <3> QED
      BY <1>9, <1>10, <2>1, <3>1
  <2> QED
    BY <1>4, <2>1 DEF Owned
<1>7. \A u \in Thread : \A i, j \in DOMAIN s2[u] :
        s2[u][i].at \in scope /\ s2[u][j].at \in scope => i = j
  <2>1. ASSUME NEW i \in DOMAIN s2[t], NEW j \in DOMAIN s2[t],
               s2[t][i].at \in scope, s2[t][j].at \in scope
        PROVE  i = j
    <3>1. /\ \/ i = 2 /\ f.at \in scope
             \/ i # 2 /\ i - 1 \in 2 .. Len(s1[t]) /\ s1[t][i - 1].at \in scope
          /\ \/ j = 2 /\ f.at \in scope
             \/ j # 2 /\ j - 1 \in 2 .. Len(s1[t]) /\ s1[t][j - 1].at \in scope
      BY <1>9, <2>1
    <3>3. i \in Int /\ j \in Int /\ 2 .. Len(s1[t]) \subseteq DOMAIN s1[t]
      BY <1>1
    <3>4. CASE i # 2 /\ j # 2
      <4>1. i - 1 = j - 1
        BY <3>1, <3>3, <3>4 DEF Owned
      <4> QED
        BY <3>3, <4>1
    <3> QED
      BY <1>10, <3>1, <3>4
  <2> QED
    <3> SUFFICES ASSUME NEW u \in Thread, NEW i \in DOMAIN s2[u], NEW j \in DOMAIN s2[u],
                        s2[u][i].at \in scope, s2[u][j].at \in scope
                 PROVE  i = j
      OBVIOUS
    <3>1. CASE u = t
      BY <2>1, <3>1
    <3>2. CASE u # t
      <4>1. /\ i \in DOMAIN s1[u] /\ j \in DOMAIN s1[u]
            /\ s1[u][i].at \in scope /\ s1[u][j].at \in scope
        BY <1>4, <3>2
      <4> QED
        BY <4>1 DEF Owned
    <3> QED
      BY <3>1, <3>2
<1>8. \A u \in Thread : m2 = u => \E i \in DOMAIN s2[u] : s2[u][i].at \in scope
  <2>1. ASSUME m2 = t PROVE \E i \in DOMAIN s2[t] : s2[t][i].at \in scope
    <3>1. CASE f.at \in scope
      <4>1. 2 \in DOMAIN s2[t] /\ s2[t][2].at \in scope
        BY <1>1, <3>1
      <4> QED
        BY <4>1
    <3>2. CASE f.at \notin scope
      <4>1. m1 = t /\ Head(s1[t]).at \notin scope
        BY <2>1, <3>2 DEF Scoped
      <4>2. PICK i \in DOMAIN s1[t] : s1[t][i].at \in scope
        BY <4>1 DEF Owned
      <4>3. i \in 2 .. Len(s1[t])
        BY <1>1, <4>1, <4>2
      <4> QED
        BY <1>3, <4>2, <4>3
    <3> QED
      BY <3>1, <3>2
  <2> QED
    BY <1>4, <2>1 DEF Owned
<1> QED
  BY <1>5, <1>6, <1>7, <1>8 DEF Owned

LEMMA OwnerReturns ==
  ASSUME NEW s1, NEW s2, NEW m1, NEW m2, NEW scope, NEW t \in Thread,
         Stacks(s1), Owned(s1, m1, scope), s1[t] # <<>>,
         s2 = [s1 EXCEPT ![t] = Tail(@)],
         m2 = IF Head(s1[t]).at \in scope THEN NoThread ELSE m1
  PROVE  Owned(s2, m2, scope)
<1> USE NoThreadIsNone DEF Stacks
<1>1. /\ DOMAIN s1[t] = 1 .. Len(s1[t]) /\ DOMAIN s2[t] = 1 .. Len(s1[t]) - 1
      /\ Len(s1[t]) \in Nat \ {0} /\ Head(s1[t]) = s1[t][1]
      /\ \A i \in 1 .. Len(s1[t]) - 1 : s2[t][i] = s1[t][i + 1]
  BY StackShrinks, StackGoesOn
<1>2. \A u \in Thread : u # t => s2[u] = s1[u]
  OBVIOUS
<1>3. \A i \in 2 .. Len(s1[t]) : s2[t][i - 1] = s1[t][i]
  BY <1>1
<1>4. ASSUME NEW u \in Thread, u # t
      PROVE  /\ DOMAIN s2[u] = DOMAIN s1[u] /\ m1 = u <=> m2 = u
             /\ \A i \in DOMAIN s2[u] : s2[u][i] = s1[u][i]
  BY <1>1, <1>2, <1>4 DEF Owned
<1>5. m2 \in Thread \union {NoThread}
  BY DEF Owned
<1>6. \A u \in Thread : \A i \in DOMAIN s2[u] : s2[u][i].at \in scope => m2 = u
  <2>1. ASSUME NEW i \in DOMAIN s2[t], s2[t][i].at \in scope PROVE m2 = t
    <3>1. i + 1 \in DOMAIN s1[t] /\ s2[t][i] = s1[t][i + 1] /\ i + 1 # 1
      BY <1>1, <2>1
    <3> QED
      BY <1>1, <2>1, <3>1 DEF Owned
  <2> QED
    BY <1>4, <2>1 DEF Owned
<1>7. \A u \in Thread : \A i, j \in DOMAIN s2[u] :
        s2[u][i].at \in scope /\ s2[u][j].at \in scope => i = j
  <2>1. ASSUME NEW i \in DOMAIN s2[t], NEW j \in DOMAIN s2[t],
               s2[t][i].at \in scope, s2[t][j].at \in scope
        PROVE  i = j
    <3>1. /\ i + 1 \in DOMAIN s1[t] /\ s2[t][i] = s1[t][i + 1]
          /\ j + 1 \in DOMAIN s1[t] /\ s2[t][j] = s1[t][j + 1]
      BY <1>1, <2>1
    <3>2. i + 1 = j + 1
      BY <2>1, <3>1 DEF Owned
    <3> QED
      BY <1>1, <3>2
  <2> QED
    BY <1>4, <2>1 DEF Owned
<1>8. \A u \in Thread : m2 = u => \E i \in DOMAIN s2[u] : s2[u][i].at \in scope
  <2>1. ASSUME m2 = t PROVE \E i \in DOMAIN s2[t] : s2[t][i].at \in scope
    <3>1. m1 = t /\ Head(s1[t]).at \notin scope
      BY <2>1
    <3>2. PICK i \in DOMAIN s1[t] : s1[t][i].at \in scope
      BY <3>1 DEF Owned
    <3>3. i \in 2 .. Len(s1[t]) /\ i - 1 \in 1 .. Len(s1[t]) - 1
      BY <1>1, <3>1, <3>2
    <3> QED
      BY <1>1, <1>3, <3>2, <3>3
  <2> QED
    BY <1>4, <2>1 DEF Owned
<1> QED
  BY <1>5, <1>6, <1>7, <1>8 DEF Owned

\* A thread that ends an operation, or begins one with calls in no scope, owns
\* nothing.
LEMMA OwnerRestarts ==
  ASSUME NEW s1, NEW s2, NEW m1, NEW m2, NEW scope, NEW t \in Thread, NEW s,
         Stacks(s1), Owned(s1, m1, scope),
         s2 = [s1 EXCEPT ![t] = s], \A i \in DOMAIN s : s[i].at \notin scope,
         m2 = IF m1 = t THEN NoThread ELSE m1
  PROVE  Owned(s2, m2, scope)
<1> USE NoThreadIsNone DEF Stacks
<1>1. s2[t] = s /\ \A u \in Thread : u # t => s2[u] = s1[u]
  OBVIOUS
<1> QED
  BY <1>1 DEF Owned

\* The same for the form of the stacks.
LEMMA ReadsAreOperations == OfRead \subseteq OfOperation
  BY DEF OfRead, OfOperation

LEMMA StacksKeep ==
  ASSUME NEW s1, NEW t \in Thread, Stacks(s1), s1[t] # <<>>,
         NEW f \in Frames, NEW g \in Frames, g.at \notin OfOperation,
         f.at \in OfOperation => Head(s1[t]).at \in OfOperation
  PROVE  /\ Stacks([s1 EXCEPT ![t] = <<f>> \o Tail(@)])
         /\ f.at \notin OfRead => Stacks([s1 EXCEPT ![t] = <<g, f>> \o Tail(@)])
         /\ Stacks([s1 EXCEPT ![t] = Tail(@)])
<1> USE DEF Stacks
<1>1. /\ DOMAIN s1[t] = 1 .. Len(s1[t]) /\ Len(s1[t]) \in Nat \ {0} /\ Head(s1[t]) = s1[t][1]
      /\ s1[t] \in Seq(Frames)
  BY StackGoesOn
<1>2. Stacks([s1 EXCEPT ![t] = <<f>> \o Tail(@)])
  <2> DEFINE s == <<f>> \o Tail(s1[t])
  <2>1. /\ s \in Seq(Frames) /\ Len(s) = Len(s1[t]) /\ DOMAIN s = 1 .. Len(s)
        /\ s[1] = f /\ \A i \in 2 .. Len(s1[t]) : s[i] = s1[t][i]
    BY <1>1, StackGoesOn
  <2> HIDE DEF s
  <2>2. \A i \in DOMAIN s : /\ s[i].at \in OfOperation => i = Len(s)
                            /\ s[i].at \in OfRead => i = 1
    BY <1>1, <2>1
  <2>3. Stacks([s1 EXCEPT ![t] = s])
    BY <2>1, <2>2
  <2> QED
    BY <2>3 DEF s
<1>3. ASSUME f.at \notin OfRead PROVE Stacks([s1 EXCEPT ![t] = <<g, f>> \o Tail(@)])
  <2> DEFINE s == <<g, f>> \o Tail(s1[t])
  <2>1. /\ s \in Seq(Frames) /\ Len(s) = Len(s1[t]) + 1 /\ DOMAIN s = 1 .. Len(s)
        /\ s[1] = g /\ s[2] = f /\ \A i \in 3 .. Len(s1[t]) + 1 : s[i] = s1[t][i - 1]
    BY <1>1, StackGrows
  <2> HIDE DEF s
  <2>2. \A i \in DOMAIN s : /\ s[i].at \in OfOperation => i = Len(s)
                            /\ s[i].at \in OfRead => i = 1
    BY <1>1, <1>3, <2>1, ReadsAreOperations
  <2>3. Stacks([s1 EXCEPT ![t] = s])
    BY <2>1, <2>2
  <2> QED
    BY <2>3 DEF s
<1>4. Stacks([s1 EXCEPT ![t] = Tail(@)])
  <2> DEFINE s == Tail(s1[t])
  <2>1. /\ s \in Seq(Frames) /\ Len(s) = Len(s1[t]) - 1 /\ DOMAIN s = 1 .. Len(s)
        /\ \A i \in 1 .. Len(s1[t]) - 1 : s[i] = s1[t][i + 1]
    BY <1>1, StackShrinks
  <2> HIDE DEF s
  <2>2. \A i \in DOMAIN s : /\ s[i].at \in OfOperation => i = Len(s)
                            /\ s[i].at \in OfRead => i = 1
    BY <1>1, <2>1
  <2>3. Stacks([s1 EXCEPT ![t] = s])
    BY <2>1, <2>2
  <2> QED
    BY <2>3 DEF s
<1> QED
  BY <1>2, <1>3, <1>4

-----------------------------------------------------------------------------
\* The object's fields, the PLC and the histories.
DataTyped ==
  /\ m_device_state \in BOOLEAN /\ mapped \subseteq known
  /\ setting \in Setting /\ known \in {{}, GetDeviceAdsVariables}
  /\ handle \in [Alias -> {Absent, Null, Freed} \union 1 .. routes]
  /\ routes \in Nat /\ m_route \in 0 .. routes /\ live \subseteq 1 .. routes
  /\ m_temp \in Val /\ plc \in [Alias -> Val] /\ initialized \in BOOLEAN
  /\ fault \in {"none", "doubleFree", "deadRoute", "freedHandle", "nullHandle", "destroyed"}
  /\ threw \in BOOLEAN /\ seen \in [Thread -> SUBSET Val]
  /\ done \in [Thread -> [call: Calls, ok: BOOLEAN]]

\* What the variable of a read holds has been noted, and so has the value a read
\* has put into m_temp.
ReadsSeen ==
  \A t \in Thread : stack[t] # <<>> =>
    /\ Head(stack[t]).at \in OfRead => plc[Head(stack[t]).var] \in seen[t]
    /\ Head(stack[t]).at = "read.convert" => m_temp \in seen[t]

AdsInv == LockInv /\ DataTyped /\ ReadsSeen

\* A call in the scope of a mutex belongs to its owner.
LEMMA ScopeIsOwned ==
  ASSUME LockInv, NEW t \in Thread, stack[t] # <<>>
  PROVE  /\ Head(stack[t]) \in Frames /\ Head(stack[t]) = stack[t][1] /\ 1 \in DOMAIN stack[t]
         /\ Head(stack[t]).at \in UnderMem => mem = t
         /\ Head(stack[t]).at \in UnderCom => com = t
         /\ Head(stack[t]).at \in OfOperation => Len(stack[t]) = 1
<1>1. stack[t] \in Seq(Frames)
  BY DEF LockInv, Stacks
<1>2. Head(stack[t]) = stack[t][1] /\ 1 \in DOMAIN stack[t] /\ stack[t][1] \in Frames
  BY <1>1, StackGoesOn
<1>3. /\ stack[t][1].at \in UnderMem => mem = t
      /\ stack[t][1].at \in UnderCom => com = t
  BY <1>2 DEF LockInv, Owned
<1>4. stack[t][1].at \in OfOperation => Len(stack[t]) = 1
  BY <1>2 DEF LockInv, Stacks
<1> QED
  BY <1>2, <1>3, <1>4

LEMMA LocksGoOn ==
  ASSUME LockInv, NEW t \in Thread, stack[t] # <<>>, NEW f \in Frames, Goto(t, f),
         f.at \in OfOperation => Head(stack[t]).at \in OfOperation,
         Scoped(t, mem, mem', Head(stack[t]).at \in UnderMem, f.at \in UnderMem),
         Scoped(t, com, com', Head(stack[t]).at \in UnderCom, f.at \in UnderCom)
  PROVE  LockInv' /\ (stack'[t] # <<>> => Head(stack'[t]) = f)
         /\ \A u \in Thread : u # t => stack'[u] = stack[u]
<1>1. stack' = [stack EXCEPT ![t] = <<f>> \o Tail(@)]
  BY DEF Goto
<1>2. Owned(stack', mem', UnderMem) /\ Owned(stack', com', UnderCom)
  BY <1>1, OwnerGoesOn DEF LockInv
<1>3. PICK g \in Frames : g.at \notin OfOperation
  BY FactoryIsAFrame
<1>4. Stacks(stack')
  BY <1>1, <1>3, StacksKeep DEF LockInv
<1>5. stack'[t] = <<f>> \o Tail(stack[t]) /\ \A u \in Thread : u # t => stack'[u] = stack[u]
  BY <1>1 DEF LockInv, Stacks
<1>6. stack'[t] \in Seq(Frames) /\ stack'[t][1] = f
  BY <1>5, StackGoesOn DEF LockInv, Stacks
<1> QED
  BY <1>2, <1>4, <1>5, <1>6 DEF LockInv

LEMMA LocksCall ==
  ASSUME LockInv, NEW t \in Thread, stack[t] # <<>>, NEW f \in Frames, NEW g \in Frames,
         CallFrom(t, f, g), g.at \in {"factory.lock", "check.lock"}, f.at \notin OfRead,
         f.at \in OfOperation => Head(stack[t]).at \in OfOperation,
         Scoped(t, mem, mem', Head(stack[t]).at \in UnderMem, f.at \in UnderMem),
         Scoped(t, com, com', Head(stack[t]).at \in UnderCom, f.at \in UnderCom)
  PROVE  LockInv' /\ (stack'[t] # <<>> => Head(stack'[t]) = g)
         /\ \A u \in Thread : u # t => stack'[u] = stack[u]
<1>1. stack' = [stack EXCEPT ![t] = <<g, f>> \o Tail(@)]
  BY DEF CallFrom
<1>2. g.at \notin UnderMem /\ g.at \notin UnderCom /\ g.at \notin OfOperation
  BY DEF UnderMem, UnderCom, OfOperation
<1>3. Owned(stack', mem', UnderMem) /\ Owned(stack', com', UnderCom)
  BY <1>1, <1>2, OwnerCalls DEF LockInv
<1>4. Stacks(stack')
  BY <1>1, <1>2, StacksKeep DEF LockInv
<1>5. /\ stack'[t] = <<g, f>> \o Tail(stack[t])
      /\ \A u \in Thread : u # t => stack'[u] = stack[u]
  BY <1>1 DEF LockInv, Stacks
<1>6. stack'[t] \in Seq(Frames) /\ stack'[t][1] = g
  BY <1>5, StackGrows DEF LockInv, Stacks
<1> QED
  BY <1>3, <1>4, <1>5, <1>6 DEF LockInv

LEMMA LocksReturn ==
  ASSUME LockInv, NEW t \in Thread, stack[t] # <<>>, Return(t),
         mem' = IF Head(stack[t]).at \in UnderMem THEN NoThread ELSE mem,
         com' = IF Head(stack[t]).at \in UnderCom THEN NoThread ELSE com
  PROVE  LockInv' /\ stack'[t] = Tail(stack[t])
         /\ \A u \in Thread : u # t => stack'[u] = stack[u]
<1>1. stack' = [stack EXCEPT ![t] = Tail(@)]
  BY DEF Return
<1>2. Owned(stack', mem', UnderMem) /\ Owned(stack', com', UnderCom)
  BY <1>1, OwnerReturns DEF LockInv
<1>3. PICK g \in Frames : g.at \notin OfOperation
  BY FactoryIsAFrame
<1>4. Stacks(stack')
  BY <1>1, <1>3, StacksKeep DEF LockInv
<1>5. stack'[t] = Tail(stack[t]) /\ \A u \in Thread : u # t => stack'[u] = stack[u]
  BY <1>1 DEF LockInv, Stacks
<1> QED
  BY <1>2, <1>4, <1>5 DEF LockInv

LEMMA LocksRestart ==
  ASSUME LockInv, NEW t \in Thread, NEW s, stack' = [stack EXCEPT ![t] = s],
         \/ s = <<>>
         \/ \E f \in Frames : s = <<f>> /\ f.at \notin UnderMem \union UnderCom
         \/ \E f, g \in Frames : /\ s = <<g, f>> /\ g.at \notin OfOperation /\ f.at \notin OfRead
                                 /\ {f.at, g.at} \intersect (UnderMem \union UnderCom) = {},
         mem' = IF mem = t THEN NoThread ELSE mem,
         com' = IF com = t THEN NoThread ELSE com
  PROVE  LockInv' /\ stack'[t] = s /\ \A u \in Thread : u # t => stack'[u] = stack[u]
<1>1. /\ s \in Seq(Frames)
      /\ \A i \in DOMAIN s : /\ s[i].at \notin UnderMem /\ s[i].at \notin UnderCom
                             /\ s[i].at \in OfOperation => i = Len(s)
                             /\ s[i].at \in OfRead => i = 1
  <2>1. CASE s = <<>>
    BY <2>1
  <2>2. ASSUME NEW f \in Frames, s = <<f>>, f.at \notin UnderMem \union UnderCom
        PROVE  /\ s \in Seq(Frames)
               /\ \A i \in DOMAIN s : /\ s[i].at \notin UnderMem /\ s[i].at \notin UnderCom
                                      /\ s[i].at \in OfOperation => i = Len(s)
                                      /\ s[i].at \in OfRead => i = 1
    BY <2>2
  <2>3. ASSUME NEW f \in Frames, NEW g \in Frames, s = <<g, f>>, g.at \notin OfOperation,
               f.at \notin OfRead,
               {f.at, g.at} \intersect (UnderMem \union UnderCom) = {}
        PROVE  /\ s \in Seq(Frames)
               /\ \A i \in DOMAIN s : /\ s[i].at \notin UnderMem /\ s[i].at \notin UnderCom
                                      /\ s[i].at \in OfOperation => i = Len(s)
                                      /\ s[i].at \in OfRead => i = 1
    BY <2>3, ReadsAreOperations
  <2> QED
    BY <2>1, <2>2, <2>3
<1>2. Owned(stack', mem', UnderMem) /\ Owned(stack', com', UnderCom)
  BY <1>1, OwnerRestarts DEF LockInv
<1>3. stack'[t] = s /\ \A u \in Thread : u # t => stack'[u] = stack[u]
  BY DEF LockInv, Stacks
<1>4. Stacks(stack')
  BY <1>1, <1>3 DEF LockInv, Stacks
<1> QED
  BY <1>2, <1>3, <1>4 DEF LockInv

-----------------------------------------------------------------------------
\* A step of t that is not about a read keeps what is known of reads.
LEMMA NoReadKeeps ==
  ASSUME AdsInv, LockInv', DataTyped', NEW t \in Thread, UNCHANGED <<plc, m_temp>>,
         \A u \in Thread : u # t => stack'[u] = stack[u] /\ seen'[u] = seen[u],
         stack'[t] # <<>> => Head(stack'[t]).at \notin OfRead
  PROVE  AdsInv'
BY DEF AdsInv, ReadsSeen, OfRead

\* So does undefined behaviour.
LEMMA CrashKeeps ==
  ASSUME AdsInv, NEW kind, Crash(kind), UNCHANGED setting,
         kind \in {"doubleFree", "deadRoute", "freedHandle", "nullHandle", "destroyed"}
  PROVE  AdsInv'
<1>1. fault' = kind /\ UNCHANGED <<object, locks, stack, plc, initialized, hist, setting>>
  BY DEF Crash
<1>2. DataTyped'
  BY <1>1 DEF AdsInv, DataTyped, object, hist, GetDeviceAdsVariables
<1>3. LockInv' /\ ReadsSeen'
  BY <1>1 DEF AdsInv, LockInv, ReadsSeen, object, locks, hist
<1> QED
  BY <1>2, <1>3 DEF AdsInv

\* What an action that begins at a statement knows of the innermost call.
LEMMA AtStatement ==
  ASSUME LockInv, NEW t \in Thread, NEW place, At(t, place)
  PROVE  /\ fault = "none" /\ stack[t] # <<>> /\ Head(stack[t]).at = place
         /\ Local(t) = Head(stack[t]) /\ Local(t) \in Frames
         /\ Local(t).var \in Alias /\ Local(t).rest \subseteq Alias /\ Local(t).flag \in BOOLEAN
         /\ place \in UnderMem => mem = t
         /\ place \in UnderCom => com = t
         /\ place \in OfOperation => Len(stack[t]) = 1
<1>1. fault = "none" /\ stack[t] # <<>> /\ Local(t) = Head(stack[t]) /\ Local(t).at = place
  BY DEF At, Local
<1>2. Local(t) \in Frames
  BY <1>1, ScopeIsOwned
<1> QED
  BY <1>1, <1>2, ScopeIsOwned DEF Frames

LEMMA PlacesHold ==
  /\ "factory.delete" \in Places /\ "factory.create" \in Places /\ "factory.end" \in Places
  /\ "check.state" \in Places /\ "check.route" \in Places /\ "check.acquire" \in Places
  /\ "check.loop" \in Places /\ "check.end" \in Places
  /\ "write.access" \in Places /\ "write.done" \in Places
  /\ "read.access" \in Places /\ "read.convert" \in Places /\ "read.failed" \in Places
  /\ "init.acquire" \in Places /\ "init.bind" \in Places
BY DEF Places

\* The variables the PLC is known to offer are among the configured ones.
LEMMA KnownVariables ==
  ASSUME DataTyped
  PROVE  mapped \subseteq known /\ known \subseteq Alias
<1>1. setting.symbols \in Seq(Alias \union {OtherSymbol})
  BY AdsAssumption DEF DataTyped
<1>2. \A i \in 1 .. Len(setting.symbols) - 1 : setting.symbols[i] \in Alias \union {OtherSymbol}
  BY <1>1
<1>3. GetDeviceAdsVariables \subseteq Alias
  BY <1>2 DEF GetDeviceAdsVariables
<1> QED
  BY <1>3 DEF DataTyped

\* A step to another statement, a call, a return and the end of an operation,
\* where no read is begun or carried on.
LEMMA GoesOn ==
  ASSUME AdsInv, DataTyped', UNCHANGED <<plc, m_temp, seen>>,
         NEW t \in Thread, NEW p, At(t, p), NEW f \in Frames, Goto(t, f),
         f.at \notin OfRead, f.at \in OfOperation => p \in OfOperation,
         Scoped(t, mem, mem', p \in UnderMem, f.at \in UnderMem),
         Scoped(t, com, com', p \in UnderCom, f.at \in UnderCom)
  PROVE  AdsInv'
<1>1. stack[t] # <<>> /\ Head(stack[t]).at = p
  BY AtStatement DEF AdsInv
<1>2. LockInv' /\ (stack'[t] # <<>> => Head(stack'[t]) = f)
      /\ \A u \in Thread : u # t => stack'[u] = stack[u]
  BY <1>1, LocksGoOn DEF AdsInv
<1> QED
  BY <1>2, NoReadKeeps

LEMMA CallsOut ==
  ASSUME AdsInv, DataTyped', UNCHANGED <<plc, m_temp, seen>>,
         NEW t \in Thread, NEW p, At(t, p), NEW f \in Frames, NEW g \in Frames,
         CallFrom(t, f, g), g.at \in {"factory.lock", "check.lock"}, f.at \notin OfRead,
         f.at \in OfOperation => p \in OfOperation,
         Scoped(t, mem, mem', p \in UnderMem, f.at \in UnderMem),
         Scoped(t, com, com', p \in UnderCom, f.at \in UnderCom)
  PROVE  AdsInv'
<1>1. stack[t] # <<>> /\ Head(stack[t]).at = p
  BY AtStatement DEF AdsInv
<1>2. LockInv' /\ (stack'[t] # <<>> => Head(stack'[t]) = g)
      /\ \A u \in Thread : u # t => stack'[u] = stack[u]
  BY <1>1, LocksCall DEF AdsInv
<1> QED
  BY <1>2, NoReadKeeps DEF OfRead

LEMMA Returns ==
  ASSUME AdsInv, DataTyped', UNCHANGED <<plc, m_temp, seen>>,
         NEW t \in Thread, NEW p, At(t, p), Return(t),
         mem' = IF p \in UnderMem THEN NoThread ELSE mem,
         com' = IF p \in UnderCom THEN NoThread ELSE com
  PROVE  AdsInv'
<1>1. stack[t] # <<>> /\ Head(stack[t]).at = p /\ stack[t] \in Seq(Frames)
  BY AtStatement DEF AdsInv, LockInv, Stacks
<1>2. LockInv' /\ stack'[t] = Tail(stack[t]) /\ \A u \in Thread : u # t => stack'[u] = stack[u]
  BY <1>1, LocksReturn DEF AdsInv
<1>3. ASSUME stack'[t] # <<>> PROVE Head(stack'[t]).at \notin OfRead
  <2>1. /\ Head(stack'[t]) = stack[t][2] /\ 2 \in DOMAIN stack[t]
    BY <1>1, <1>2, <1>3
  <2> QED
    BY <2>1 DEF AdsInv, LockInv, Stacks
<1> QED
  BY <1>2, <1>3, NoReadKeeps

LEMMA Finishes ==
  ASSUME AdsInv, DataTyped', UNCHANGED <<plc, m_temp, seen>>,
         NEW t \in Thread, NEW r, Finished(t, r),
         mem' = IF mem = t THEN NoThread ELSE mem,
         com' = IF com = t THEN NoThread ELSE com
  PROVE  AdsInv'
<1>1. LockInv' /\ stack'[t] = <<>> /\ \A u \in Thread : u # t => stack'[u] = stack[u]
  BY LocksRestart DEF AdsInv, Finished
<1> QED
  BY <1>1, NoReadKeeps

\* A thread whose only call is in no scope owns no mutex.
LEMMA AloneOwnsNothing ==
  ASSUME LockInv, NEW t \in Thread, NEW p, At(t, p), Len(stack[t]) = 1
  PROVE  (mem = t => p \in UnderMem) /\ (com = t => p \in UnderCom)
<1>1. Head(stack[t]).at = p /\ Head(stack[t]) = stack[t][1] /\ DOMAIN stack[t] = {1}
  <2>1. stack[t] \in Seq(Frames)
    BY DEF LockInv, Stacks
  <2> QED
    BY <2>1, AtStatement
<1> QED
  BY <1>1 DEF LockInv, Owned

\* Factory.
LEMMA FactoryKeeps ==
  ASSUME AdsInv, NEW t \in Thread, Factory(t), UNCHANGED setting
  PROVE  AdsInv'
<1> USE NoThreadIsNone
<1>0. LockInv /\ DataTyped
  BY DEF AdsInv
<1>1. CASE FactoryLock(t)
  <2> DEFINE f == [Local(t) EXCEPT !.at = "factory.delete"]
  <2>1. /\ At(t, "factory.lock") /\ mem = NoThread /\ mem' = t /\ com' = com /\ Goto(t, f)
        /\ UNCHANGED <<object, plc, initialized, fault, hist>>
    BY <1>1 DEF FactoryLock, FactoryLockTaken
  <2>2. f \in Frames /\ f.at = "factory.delete"
    BY <1>0, <2>1, AtStatement, PlacesHold DEF Frames
  <2>3. DataTyped'
    BY <1>0, <2>1 DEF DataTyped, object, hist, GetDeviceAdsVariables
  <2> HIDE DEF f
  <2> QED
    BY <2>1, <2>2, <2>3, GoesOn DEF Scoped, UnderMem, UnderCom, OfOperation, OfRead, object, hist
<1>2. CASE FactoryDelete(t)
  <2> DEFINE v == Local(t).var
             f == [Local(t) EXCEPT !.at = "factory.create"]
  <2>1. At(t, "factory.delete") /\ v \in Alias
    BY <1>0, <1>2, AtStatement DEF FactoryDelete
  <2>2. \/ Crash("doubleFree")
        \/ /\ handle' = [handle EXCEPT ![v] = IF @ > 0 THEN Freed ELSE Null]
           /\ Goto(t, f)
           /\ UNCHANGED <<m_device_state, known, mapped, m_route, live, routes,
                          m_temp, locks, plc, initialized, fault, hist>>
    BY <1>2 DEF FactoryDelete
  <2>3. f \in Frames /\ f.at = "factory.create"
    <3>1. PICK r \in Frames : r = Local(t)
      BY <1>0, <2>1, AtStatement
    <3>2. [r EXCEPT !.at = "factory.create"] \in Frames
      BY PlacesHold DEF Frames
    <3>3. [r EXCEPT !.at = "factory.create"].at = "factory.create"
      BY DEF Frames
    <3> QED
      BY ONLY <3>1, <3>2, <3>3
  <2>4. ASSUME Goto(t, f), handle' = [handle EXCEPT ![v] = IF @ > 0 THEN Freed ELSE Null],
               UNCHANGED <<m_device_state, known, mapped, m_route, live, routes,
                           m_temp, locks, plc, initialized, fault, hist>>
        PROVE  AdsInv'
    <3>1. handle' \in [Alias -> {Absent, Null, Freed} \union 1 .. routes']
      BY <1>0, <2>1, <2>4 DEF DataTyped
    <3>2. DataTyped'
      BY <1>0, <2>4, <3>1 DEF DataTyped, hist, GetDeviceAdsVariables
    <3> HIDE DEF f
    <3> QED
      BY <2>1, <2>3, <2>4, <3>2, GoesOn
      DEF Scoped, UnderMem, UnderCom, OfOperation, OfRead, locks, hist
  <2> QED
    BY <2>2, <2>4, CrashKeeps
<1>3. CASE FactoryCreate(t)
  <2> DEFINE v == Local(t).var
             f == [Local(t) EXCEPT !.at = "factory.end"]
  <2>1. At(t, "factory.create") /\ v \in Alias
    BY <1>0, <1>3, AtStatement DEF FactoryCreate
  <2>2. /\ f \in Frames /\ f.at = "factory.end"
        /\ CheckFrame \in Frames /\ CheckFrame.at = "check.lock"
    BY <1>0, <2>1, AtStatement, FactoryIsAFrame, PlacesHold DEF DataTyped, Frames
  <2>3. \/ Crash("deadRoute")
        \/ mem' = NoThread /\ Return(t) /\ UNCHANGED <<object, com, plc, initialized, fault, hist>>
        \/ /\ RouteUsable /\ GetHandle(v) /\ mem' = NoThread /\ Return(t)
           /\ UNCHANGED <<m_device_state, known, mapped, m_route, live, routes,
                          m_temp, com, plc, initialized, fault, hist>>
        \/ /\ CallFrom(t, f, CheckFrame)
           /\ UNCHANGED <<object, locks, plc, initialized, fault, hist>>
    BY <1>3, Zenon DEF FactoryCreate
  <2>4. ASSUME RouteUsable, GetHandle(v), Return(t), mem' = NoThread,
               UNCHANGED <<m_device_state, known, mapped, m_route, live, routes,
                           m_temp, com, plc, initialized, fault, hist>>
        PROVE  AdsInv'
    <3>1. handle' \in [Alias -> {Absent, Null, Freed} \union 1 .. routes']
      BY <1>0, <2>1, <2>4 DEF DataTyped, GetHandle, RouteUsable
    <3>2. DataTyped'
      BY <1>0, <2>4, <3>1 DEF DataTyped, hist, GetDeviceAdsVariables
    <3> QED
      BY <2>1, <2>4, <3>2, Returns DEF UnderMem, UnderCom, hist
  <2>5. ASSUME CallFrom(t, f, CheckFrame),
               UNCHANGED <<object, locks, plc, initialized, fault, hist>>
        PROVE  AdsInv'
    <3>1. DataTyped'
      BY <1>0, <2>5 DEF DataTyped, object, hist, GetDeviceAdsVariables
    <3> HIDE DEF f
    <3> QED
      BY <2>1, <2>2, <2>5, <3>1, CallsOut
      DEF Scoped, UnderMem, UnderCom, OfOperation, OfRead, object, locks, hist
  <2>6. ASSUME Return(t), mem' = NoThread,
               UNCHANGED <<object, com, plc, initialized, fault, hist>>
        PROVE  AdsInv'
    <3>1. DataTyped'
      BY <1>0, <2>6 DEF DataTyped, object, hist, GetDeviceAdsVariables
    <3> QED
      BY <2>1, <2>6, <3>1, Returns DEF UnderMem, UnderCom, object, hist
  <2> QED
    BY <2>3, <2>4, <2>5, <2>6, CrashKeeps
<1>4. CASE FactoryEnd(t)
  <2>1. /\ At(t, "factory.end") /\ mem' = NoThread /\ com' = com /\ Return(t)
        /\ UNCHANGED <<object, plc, initialized, fault, hist>>
    BY <1>4 DEF FactoryEnd
  <2>2. DataTyped'
    BY <1>0, <2>1 DEF DataTyped, object, hist, GetDeviceAdsVariables
  <2> QED
    BY <2>1, <2>2, Returns DEF UnderMem, UnderCom, object, hist
<1> QED
  BY <1>1, <1>2, <1>3, <1>4 DEF Factory

-----------------------------------------------------------------------------
\* ConnectionCheck.
LEMMA DoneTyped ==
  ASSUME DataTyped, NEW t \in Thread, NEW c \in Calls, NEW ok \in BOOLEAN,
         Finished(t, Outcome(c, ok))
  PROVE  done' \in [Thread -> [call: Calls, ok: BOOLEAN]]
BY DEF DataTyped, Finished, Outcome

LEMMA UnwindKeeps ==
  ASSUME AdsInv, NEW t \in Thread, NEW p, At(t, p), Unwind(t),
         threw' \in BOOLEAN, UNCHANGED <<object, plc, initialized, fault, seen, setting>>
  PROVE  AdsInv'
<1>1. /\ Finished(t, Outcome("none", FALSE))
      /\ mem' = (IF mem = t THEN NoThread ELSE mem) /\ com' = (IF com = t THEN NoThread ELSE com)
  BY DEF Unwind
<1>2. done' \in [Thread -> [call: Calls, ok: BOOLEAN]]
  BY <1>1, DoneTyped DEF AdsInv, Calls
<1>3. DataTyped'
  BY <1>2 DEF AdsInv, DataTyped, object, GetDeviceAdsVariables
<1> QED
  BY <1>1, <1>3, Finishes DEF object

LEMMA AcquireKeeps ==
  ASSUME AdsInv, NEW t \in Thread, NEW p, At(t, p), NEW next \in Frames, Acquire(t, next),
         UNCHANGED setting,
         \/ p = "check.acquire" /\ next.at = "check.loop"
         \/ p = "init.acquire" /\ next.at = "init.bind"
  PROVE  AdsInv'
<1>0. DataTyped
  BY DEF AdsInv
<1>1. CASE Goto(t, next) /\ UNCHANGED <<object, locks, plc, initialized, fault, hist>>
  <2>1. DataTyped'
    BY <1>0, <1>1 DEF DataTyped, object, hist, GetDeviceAdsVariables
  <2> QED
    BY <1>1, <2>1, GoesOn
    DEF Scoped, UnderMem, UnderCom, OfOperation, OfRead, object, locks, hist
<1>2. CASE /\ known' = GetDeviceAdsVariables /\ Goto(t, next)
           /\ UNCHANGED <<m_device_state, mapped, handle, m_route, live, routes,
                          m_temp, locks, plc, initialized, fault, hist>>
  <2>1. mapped' \subseteq known' /\ known' = GetDeviceAdsVariables'
    BY <1>0, <1>2 DEF DataTyped, GetDeviceAdsVariables
  <2>2. DataTyped'
    BY <1>0, <1>2, <2>1 DEF DataTyped, hist
  <2> QED
    BY <1>2, <2>2, GoesOn DEF Scoped, UnderMem, UnderCom, OfOperation, OfRead, locks, hist
<1>3. CASE Crash("deadRoute")
  BY <1>3, CrashKeeps
<1>4. CASE Unwind(t) /\ UNCHANGED <<object, plc, initialized, fault, threw, seen>>
  BY <1>0, <1>4, UnwindKeeps DEF DataTyped
<1> QED
  BY <1>1, <1>2, <1>3, <1>4, Zenon DEF Acquire

\* A new route has a number of its own.
LEMMA NewRouteTyped ==
  ASSUME DataTyped, NewRoute, UNCHANGED handle
  PROVE  /\ handle' \in [Alias -> {Absent, Null, Freed} \union 1 .. routes']
         /\ routes' \in Nat /\ m_route' \in 0 .. routes' /\ live' \subseteq 1 .. routes'
<1>1. routes \in Nat /\ routes' = routes + 1 /\ 1 .. routes \subseteq 1 .. routes'
  BY DEF DataTyped, NewRoute
<1>2. \A v \in Alias : handle[v] \in {Absent, Null, Freed} \union 1 .. routes'
  BY <1>1 DEF DataTyped
<1>3. live' = live \union {routes'} /\ m_route' = routes' /\ routes' \in 1 .. routes'
  BY <1>1 DEF NewRoute
<1> QED
  BY <1>1, <1>2, <1>3 DEF DataTyped

\* A step that at most ends the life of a route keeps the types.
LEMMA RoutesEnd ==
  ASSUME DataTyped, live' \subseteq live,
         UNCHANGED <<m_device_state, known, mapped, handle, m_route, routes, m_temp, plc,
                     initialized, fault, hist, setting>>
  PROVE  DataTyped'
BY DEF DataTyped, hist, GetDeviceAdsVariables

LEMMA CheckKeeps ==
  ASSUME AdsInv, NEW t \in Thread, ConnectionCheck(t), UNCHANGED setting
  PROVE  AdsInv'
<1> USE NoThreadIsNone
<1>0. LockInv /\ DataTyped
  BY DEF AdsInv
<1>1. CASE CheckLock(t)
  <2> DEFINE f == [Local(t) EXCEPT !.at = "check.state"]
  <2>1. /\ At(t, "check.lock") /\ com = NoThread /\ com' = t /\ mem' = mem /\ Goto(t, f)
        /\ UNCHANGED <<object, plc, initialized, fault, hist>>
    BY <1>1 DEF CheckLock
  <2>2. f \in Frames /\ f.at = "check.state"
    BY <1>0, <2>1, AtStatement, PlacesHold DEF Frames
  <2>3. DataTyped'
    BY <1>0, <2>1 DEF DataTyped, object, hist, GetDeviceAdsVariables
  <2> HIDE DEF f
  <2> QED
    BY <2>1, <2>2, <2>3, GoesOn DEF Scoped, UnderMem, UnderCom, OfOperation, OfRead, object, hist
<1>2. CASE CheckState(t)
  <2> DEFINE p == IF Local(t).flag THEN "check.end" ELSE "check.acquire"
             f == [Local(t) EXCEPT !.at = p, !.flag = TRUE]
             g == [Local(t) EXCEPT !.at = "check.route", !.flag = FALSE]
  <2>1. At(t, "check.state")
    BY <1>2 DEF CheckState
  <2>2. /\ f \in Frames /\ f.at \in {"check.end", "check.acquire"}
        /\ g \in Frames /\ g.at = "check.route"
    <3>1. Local(t) \in Frames /\ p \in Places /\ p \in {"check.end", "check.acquire"}
      BY <1>0, <2>1, AtStatement, PlacesHold
    <3>2. g \in Frames /\ g.at = "check.route"
      BY <3>1, PlacesHold DEF Frames
    <3> HIDE DEF p
    <3>3. f \in Frames /\ f.at = p
      BY <3>1 DEF Frames
    <3> QED
      BY <3>1, <3>2, <3>3
  <2>3. \/ Crash("deadRoute")
        \/ Goto(t, f) /\ UNCHANGED <<object, locks, plc, initialized, fault, hist>>
        \/ /\ live' = live \ {m_route} /\ Goto(t, g)
           /\ UNCHANGED <<m_device_state, known, mapped, handle, m_route, routes,
                          m_temp, locks, plc, initialized, fault, hist>>
    BY <1>2, Zenon DEF CheckState
  <2> HIDE DEF f, g
  <2>4. CASE Goto(t, f) /\ UNCHANGED <<object, locks, plc, initialized, fault, hist>>
    <3>1. DataTyped'
      BY <1>0, <2>4, RoutesEnd DEF object
    <3> QED
      BY <2>1, <2>2, <2>4, <3>1, GoesOn
      DEF Scoped, UnderMem, UnderCom, OfOperation, OfRead, object, locks, hist
  <2>5. CASE /\ live' = live \ {m_route} /\ Goto(t, g)
             /\ UNCHANGED <<m_device_state, known, mapped, handle, m_route, routes,
                            m_temp, locks, plc, initialized, fault, hist>>
    <3>1. DataTyped'
      BY <1>0, <2>5, RoutesEnd
    <3> QED
      BY <2>1, <2>2, <2>5, <3>1, GoesOn
      DEF Scoped, UnderMem, UnderCom, OfOperation, OfRead, locks, hist
  <2> QED
    BY <2>3, <2>4, <2>5, CrashKeeps
<1>3. CASE CheckRoute(t)
  <2> DEFINE f == [Local(t) EXCEPT !.at = "check.end"]
  <2>1. At(t, "check.route")
    BY <1>3 DEF CheckRoute
  <2>2. f \in Frames /\ f.at = "check.end"
    BY <1>0, <2>1, AtStatement, PlacesHold DEF Frames
  <2>3. \/ /\ NewRoute /\ Goto(t, f)
           /\ UNCHANGED <<m_device_state, known, mapped, handle, m_temp, locks, plc,
                          initialized, fault, hist>>
        \/ /\ Unwind(t) /\ threw' = TRUE
           /\ UNCHANGED <<object, plc, initialized, fault, seen>>
    BY <1>3, Zenon DEF CheckRoute
  <2> HIDE DEF f
  <2>4. CASE /\ NewRoute /\ Goto(t, f)
             /\ UNCHANGED <<m_device_state, known, mapped, handle, m_temp, locks, plc,
                            initialized, fault, hist>>
    <3>1. DataTyped'
      BY <1>0, <2>4, NewRouteTyped DEF DataTyped, hist, GetDeviceAdsVariables
    <3> QED
      BY <2>1, <2>2, <2>4, <3>1, GoesOn
      DEF Scoped, UnderMem, UnderCom, OfOperation, OfRead, locks, hist
  <2>5. CASE Unwind(t) /\ threw' = TRUE /\ UNCHANGED <<object, plc, initialized, fault, seen>>
    BY <2>1, <2>5, UnwindKeeps
  <2> QED
    BY <2>3, <2>4, <2>5
<1>4. CASE CheckAcquire(t)
  <2> DEFINE f == [Local(t) EXCEPT !.at = "check.loop", !.rest = mapped]
  <2>1. At(t, "check.acquire") /\ Acquire(t, f)
    BY <1>4 DEF CheckAcquire
  <2>2. mapped \subseteq Alias
    BY <1>0, KnownVariables
  <2>3. f \in Frames /\ f.at = "check.loop"
    <3>1. Local(t) \in Frames
      BY <1>0, <2>1, AtStatement
    <3> QED
      BY <2>2, <3>1, PlacesHold DEF Frames
  <2> HIDE DEF f
  <2> QED
    BY <2>1, <2>3, AcquireKeeps
<1>5. CASE CheckLoop(t)
  <2> DEFINE f == [Local(t) EXCEPT !.at = "check.end"]
             g(v) == [Local(t) EXCEPT !.rest = @ \ {v}]
  <2>1. At(t, "check.loop") /\ UNCHANGED <<object, locks, plc, initialized, fault, hist>>
    BY <1>5 DEF CheckLoop
  <2>2. f \in Frames /\ f.at = "check.end"
    BY <1>0, <2>1, AtStatement, PlacesHold DEF Frames
  <2>3. \A v \in Rebound(t) : v \in Alias /\ g(v) \in Frames /\ g(v).at = "check.loop"
    BY <1>0, <2>1, AtStatement, PlacesHold DEF Frames, Rebound
  <2>4. Goto(t, f) \/ \E v \in Rebound(t) : CallFrom(t, g(v), FactoryFrame(v))
    BY <1>5 DEF CheckLoop
  <2>5. DataTyped'
    BY <1>0, <2>1 DEF DataTyped, object, hist, GetDeviceAdsVariables
  <2> HIDE DEF f, g
  <2>6. CASE Goto(t, f)
    BY <2>1, <2>2, <2>5, <2>6, GoesOn
    DEF Scoped, UnderMem, UnderCom, OfOperation, OfRead, object, locks, hist
  <2>7. ASSUME NEW v \in Rebound(t), CallFrom(t, g(v), FactoryFrame(v))
        PROVE  AdsInv'
    BY <2>1, <2>3, <2>5, <2>7, CallsOut, FactoryIsAFrame
    DEF Scoped, UnderMem, UnderCom, OfOperation, OfRead, object, locks, hist
  <2> QED
    BY <2>4, <2>6, <2>7
<1>6. CASE CheckEnd(t)
  <2>1. /\ At(t, "check.end") /\ m_device_state' = Local(t).flag /\ com' = NoThread
        /\ \/ Return(t) /\ UNCHANGED done
           \/ Len(stack[t]) = 1 /\ Finished(t, Outcome("check", Local(t).flag))
        /\ UNCHANGED <<known, mapped, handle, m_route, live, routes, m_temp, mem, plc,
                       initialized, fault, threw, seen>>
    BY <1>6 DEF CheckEnd
  <2>2. Local(t).flag \in BOOLEAN /\ com = t
    BY <1>0, <2>1, AtStatement DEF UnderCom
  <2>3. done' \in [Thread -> [call: Calls, ok: BOOLEAN]]
    BY <1>0, <2>1, <2>2, DoneTyped DEF Calls, DataTyped
  <2>4. DataTyped'
    BY <1>0, <2>1, <2>2, <2>3 DEF DataTyped, GetDeviceAdsVariables
  <2>5. CASE Return(t)
    BY <2>1, <2>4, <2>5, Returns DEF UnderMem, UnderCom
  <2>6. CASE Len(stack[t]) = 1 /\ Finished(t, Outcome("check", Local(t).flag))
    <3>1. mem # t
      BY <1>0, <2>1, <2>6, AloneOwnsNothing DEF UnderMem
    <3> QED
      BY <2>1, <2>2, <2>4, <2>6, <3>1, Finishes
  <2> QED
    BY <2>1, <2>5, <2>6
<1> QED
  BY <1>1, <1>2, <1>3, <1>4, <1>5, <1>6 DEF ConnectionCheck

-----------------------------------------------------------------------------
\* What the PLC's variables become is noted for the calls about them.
LEMMA ObserveKeeps ==
  ASSUME AdsInv, LockInv', Observe, plc' \in [Alias -> Val],
         UNCHANGED <<object, initialized, fault, threw, setting>>,
         done' \in [Thread -> [call: Calls, ok: BOOLEAN]],
         \A u \in Thread : stack'[u] # <<>> /\ Head(stack'[u]).at = "read.convert"
                             => stack'[u] = stack[u]
  PROVE  AdsInv'
<1>1. seen' = [u \in Thread |-> IF stack'[u] = <<>> THEN {}
                                ELSE seen[u] \union {plc'[stack'[u][Len(stack'[u])].var]}]
  BY DEF Observe
<1>2. ASSUME NEW u \in Thread, stack'[u] # <<>>
      PROVE  /\ stack'[u][Len(stack'[u])].var \in Alias
             /\ Head(stack'[u]).at \in OfRead
                  => Head(stack'[u]).var = stack'[u][Len(stack'[u])].var
  <2>1. stack'[u] \in Seq(Frames)
    BY DEF LockInv, Stacks
  <2>2. /\ Len(stack'[u]) \in DOMAIN stack'[u] /\ stack'[u][Len(stack'[u])] \in Frames
        /\ Head(stack'[u]) = stack'[u][1] /\ 1 \in DOMAIN stack'[u]
    BY <1>2, <2>1
  <2>3. Head(stack'[u]).at \in OfRead => 1 = Len(stack'[u])
    BY <2>2, ReadsAreOperations DEF LockInv, Stacks
  <2> QED
    BY <2>2, <2>3 DEF Frames
<1>3. seen' \in [Thread -> SUBSET Val]
  <2>1. ASSUME NEW u \in Thread PROVE seen'[u] \subseteq Val
    BY <1>1, <1>2, <2>1 DEF AdsInv, DataTyped
  <2> QED
    BY <1>1, <2>1
<1>4. DataTyped'
  BY <1>3 DEF AdsInv, DataTyped, object, GetDeviceAdsVariables
<1>5. ReadsSeen'
  <2>1. ASSUME NEW u \in Thread, stack'[u] # <<>>
        PROVE  /\ Head(stack'[u]).at \in OfRead => plc'[Head(stack'[u]).var] \in seen'[u]
               /\ Head(stack'[u]).at = "read.convert" => m_temp' \in seen'[u]
    <3>1. seen'[u] = seen[u] \union {plc'[stack'[u][Len(stack'[u])].var]}
      BY <1>1, <2>1
    <3> QED
      BY <1>2, <2>1, <3>1 DEF AdsInv, ReadsSeen, object
  <2> QED
    BY <2>1 DEF ReadsSeen
<1> QED
  BY <1>4, <1>5 DEF AdsInv

\* AdsWriteValue.
LEMMA WriteKeeps ==
  ASSUME AdsInv, NEW t \in Thread, AdsWriteValue(t), UNCHANGED setting
  PROVE  AdsInv'
<1> USE NoThreadIsNone
<1>0. LockInv /\ DataTyped
  BY DEF AdsInv
<1>1. CASE WriteLock(t)
  <2> DEFINE f == [Local(t) EXCEPT !.at = "write.access"]
  <2>1. /\ At(t, "write.lock") /\ com = NoThread /\ mem = NoThread /\ com' = t /\ mem' = t
        /\ Goto(t, f) /\ UNCHANGED <<object, plc, initialized, fault, hist>>
    BY <1>1 DEF WriteLock, Both
  <2>2. f \in Frames /\ f.at = "write.access"
    BY <1>0, <2>1, AtStatement, PlacesHold DEF Frames
  <2>3. DataTyped'
    BY <1>0, <2>1 DEF DataTyped, object, hist, GetDeviceAdsVariables
  <2> HIDE DEF f
  <2> QED
    BY <2>1, <2>2, <2>3, GoesOn DEF Scoped, UnderMem, UnderCom, OfOperation, OfRead, object, hist
<1>2. CASE WriteDone(t)
  <2>1. /\ At(t, "write.done") /\ Finished(t, Outcome("write", TRUE))
        /\ UNCHANGED <<object, locks, plc, initialized, fault, threw, seen>>
    BY <1>2 DEF WriteDone
  <2>2. mem # t /\ com # t
    BY <1>0, <2>1, AtStatement, AloneOwnsNothing DEF UnderMem, UnderCom, OfOperation
  <2>3. done' \in [Thread -> [call: Calls, ok: BOOLEAN]]
    BY <1>0, <2>1, DoneTyped DEF Calls
  <2>4. DataTyped'
    BY <1>0, <2>1, <2>3 DEF DataTyped, object, GetDeviceAdsVariables
  <2> QED
    BY <2>1, <2>2, <2>4, Finishes DEF object, locks
<1>3. ASSUME NEW x \in Val, WriteAccess(t, x) PROVE AdsInv'
  <2> DEFINE v == Local(t).var
             f == [Local(t) EXCEPT !.at = "write.done"]
  <2>1. At(t, "write.access") /\ v \in Alias /\ mem = t /\ com = t
    BY <1>0, <1>3, AtStatement DEF WriteAccess, UnderMem, UnderCom
  <2>2. /\ f \in Frames /\ f.at = "write.done"
        /\ FactoryFrame(v) \in Frames /\ FactoryFrame(v).at = "factory.lock"
    BY <1>0, <2>1, AtStatement, FactoryIsAFrame, PlacesHold DEF Frames
  <2>3. \/ /\ com' = NoThread /\ mem' = NoThread /\ CallFrom(t, f, FactoryFrame(v))
           /\ UNCHANGED <<object, plc, initialized, fault, hist>>
        \/ Crash(Access(handle[v])) /\ Access(handle[v]) # "valid"
        \/ /\ com' = NoThread /\ mem' = NoThread
           /\ \/ /\ plc' = [plc EXCEPT ![v] = x]
                 /\ Finished(t, Outcome("write", TRUE))
              \/ /\ plc' \in {plc, [plc EXCEPT ![v] = x]}
                 /\ CallFrom(t, f, FactoryFrame(v)) /\ UNCHANGED done
           /\ Observe /\ UNCHANGED <<object, initialized, fault, threw>>
    BY <1>3, Zenon DEF WriteAccess
  <2> HIDE DEF f, v
  <2>4. CASE /\ com' = NoThread /\ mem' = NoThread /\ CallFrom(t, f, FactoryFrame(v))
             /\ UNCHANGED <<object, plc, initialized, fault, hist>>
    <3>1. DataTyped'
      BY <1>0, <2>4, RoutesEnd DEF object
    <3> QED
      BY <2>1, <2>2, <2>4, <3>1, CallsOut
      DEF Scoped, UnderMem, UnderCom, OfOperation, OfRead, object, hist
  <2>5. CASE Crash(Access(handle[v])) /\ Access(handle[v]) # "valid"
    BY <2>5, CrashKeeps DEF Access
  <2>6. CASE /\ com' = NoThread /\ mem' = NoThread
             /\ \/ /\ plc' = [plc EXCEPT ![v] = x]
                   /\ Finished(t, Outcome("write", TRUE))
                \/ /\ plc' \in {plc, [plc EXCEPT ![v] = x]}
                   /\ CallFrom(t, f, FactoryFrame(v)) /\ UNCHANGED done
             /\ Observe /\ UNCHANGED <<object, initialized, fault, threw>>
    <3>1. plc' \in [Alias -> Val]
      BY <1>0, <2>1, <2>6 DEF DataTyped
    <3>2. CASE Finished(t, Outcome("write", TRUE))
      <4>1. stack' = [stack EXCEPT ![t] = <<>>]
        BY <3>2 DEF Finished
      <4>2. /\ LockInv' /\ stack'[t] = <<>>
            /\ \A u \in Thread : u # t => stack'[u] = stack[u]
        BY <1>0, <2>1, <2>6, <4>1, LocksRestart
      <4>3. done' \in [Thread -> [call: Calls, ok: BOOLEAN]]
        BY <1>0, <3>2, DoneTyped DEF Calls
      <4> QED
        BY <2>6, <3>1, <4>2, <4>3, ObserveKeeps
    <3>3. CASE CallFrom(t, f, FactoryFrame(v)) /\ UNCHANGED done
      <4>1. stack[t] # <<>> /\ Head(stack[t]).at = "write.access"
        BY <1>0, <2>1, AtStatement
      <4>2. /\ LockInv' /\ (stack'[t] # <<>> => Head(stack'[t]) = FactoryFrame(v))
            /\ \A u \in Thread : u # t => stack'[u] = stack[u]
        BY <1>0, <2>1, <2>2, <2>6, <3>3, <4>1, LocksCall
        DEF Scoped, UnderMem, UnderCom, OfOperation, OfRead
      <4>3. done' \in [Thread -> [call: Calls, ok: BOOLEAN]]
        BY <1>0, <3>3 DEF DataTyped
      <4> QED
        BY <2>2, <2>6, <3>1, <4>2, <4>3, ObserveKeeps
    <3> QED
      BY <2>6, <3>2, <3>3
  <2> QED
    BY <2>3, <2>4, <2>5, <2>6
<1> QED
  BY <1>1, <1>2, <1>3 DEF AdsWriteValue

-----------------------------------------------------------------------------
\* AdsReadValue.  Only the owner of m_mem_mutex is between its access and its
\* end, so nobody else changes m_temp there.
LEMMA ReadLockKeeps ==
  ASSUME AdsInv, NEW t \in Thread, ReadLock(t), UNCHANGED setting
  PROVE  AdsInv'
<1> DEFINE f == [Local(t) EXCEPT !.at = "read.access"]
<1>0. LockInv /\ DataTyped
  BY DEF AdsInv
<1>1. /\ At(t, "read.lock") /\ com = NoThread /\ mem = NoThread /\ com' = t /\ mem' = t
      /\ Goto(t, f) /\ UNCHANGED <<object, plc, initialized, fault, hist>>
  BY DEF ReadLock, ReadLockTaken, Both
<1>2. f \in Frames /\ f.at = "read.access" /\ f.var = Local(t).var
  BY <1>0, <1>1, AtStatement, PlacesHold DEF Frames
<1> HIDE DEF f
<1>3. stack[t] # <<>> /\ Head(stack[t]).at = "read.lock" /\ Local(t) = Head(stack[t])
  BY <1>0, <1>1, AtStatement
<1>4. /\ LockInv' /\ (stack'[t] # <<>> => Head(stack'[t]) = f)
      /\ \A u \in Thread : u # t => stack'[u] = stack[u]
  BY <1>0, <1>1, <1>2, <1>3, LocksGoOn DEF Scoped, UnderMem, UnderCom, OfOperation
<1>5. DataTyped'
  BY <1>0, <1>1, RoutesEnd DEF object
<1>6. ReadsSeen'
  BY <1>1, <1>2, <1>3, <1>4 DEF AdsInv, ReadsSeen, OfRead, object, hist
<1> QED
  BY <1>4, <1>5, <1>6 DEF AdsInv

LEMMA ReadAccessKeeps ==
  ASSUME AdsInv, NEW t \in Thread, ReadAccess(t), UNCHANGED setting
  PROVE  AdsInv'
<1> USE NoThreadIsNone
<1> DEFINE v == Local(t).var
           f == [Local(t) EXCEPT !.at = "read.convert"]
           g == [Local(t) EXCEPT !.at = "read.failed"]
<1>0. LockInv /\ DataTyped
  BY DEF AdsInv
<1>1. /\ At(t, "read.access") /\ v \in Alias /\ mem = t /\ com = t
      /\ stack[t] # <<>> /\ Head(stack[t]).at = "read.access" /\ Local(t) = Head(stack[t])
  BY <1>0, AtStatement DEF ReadAccess, UnderMem, UnderCom
<1>2. /\ f \in Frames /\ f.at = "read.convert" /\ f.var = v
      /\ g \in Frames /\ g.at = "read.failed"
      /\ FactoryFrame(v) \in Frames /\ FactoryFrame(v).at = "factory.lock"
  BY <1>0, <1>1, AtStatement, FactoryIsAFrame, PlacesHold DEF Frames
<1>3. \/ /\ ReadReturns(t, Outcome("read", FALSE))
         /\ UNCHANGED <<object, plc, initialized, fault, threw, seen>>
      \/ Crash(Access(handle[v])) /\ Access(handle[v]) # "valid"
      \/ /\ m_temp' = plc[v] /\ Goto(t, f)
         /\ UNCHANGED <<m_device_state, known, mapped, handle, m_route, live, routes,
                        locks, plc, initialized, fault, hist>>
      \/ /\ CallFrom(t, g, FactoryFrame(v))
         /\ UNCHANGED <<object, locks, plc, initialized, fault, hist>>
  BY Zenon DEF ReadAccess
<1> HIDE DEF f, g, v
<1>4. CASE /\ ReadReturns(t, Outcome("read", FALSE))
           /\ UNCHANGED <<object, plc, initialized, fault, threw, seen>>
  <2>1. done' \in [Thread -> [call: Calls, ok: BOOLEAN]]
    BY <1>0, <1>4, DoneTyped DEF Calls, ReadReturns
  <2>2. DataTyped'
    BY <1>0, <1>4, <2>1 DEF DataTyped, object, GetDeviceAdsVariables
  <2> QED
    BY <1>4, <2>2, Finishes DEF ReadReturns, object
<1>5. CASE Crash(Access(handle[v])) /\ Access(handle[v]) # "valid"
  BY <1>5, CrashKeeps DEF Access
<1>6. CASE /\ m_temp' = plc[v] /\ Goto(t, f)
           /\ UNCHANGED <<m_device_state, known, mapped, handle, m_route, live, routes,
                          locks, plc, initialized, fault, hist>>
  <2>1. /\ LockInv' /\ (stack'[t] # <<>> => Head(stack'[t]) = f)
        /\ \A u \in Thread : u # t => stack'[u] = stack[u]
    BY <1>0, <1>1, <1>2, <1>6, LocksGoOn DEF Scoped, UnderMem, UnderCom, OfOperation, locks
  <2>2. DataTyped'
    <3>1. m_temp' \in Val /\ UNCHANGED <<done, threw, seen>>
      BY <1>0, <1>1, <1>6 DEF DataTyped, hist
    <3> QED
      BY <1>0, <1>6, <3>1 DEF DataTyped, GetDeviceAdsVariables
  <2>3. plc[v] \in seen[t]
    BY <1>1 DEF AdsInv, ReadsSeen, OfRead, v
  <2>4. ASSUME NEW u \in Thread, u # t, stack[u] # <<>> PROVE Head(stack[u]).at # "read.convert"
    BY <1>0, <1>1, <2>4, ScopeIsOwned DEF UnderMem
  <2>5. ReadsSeen'
    <3>1. ASSUME NEW u \in Thread, stack'[u] # <<>>
          PROVE  /\ Head(stack'[u]).at \in OfRead => plc'[Head(stack'[u]).var] \in seen'[u]
                 /\ Head(stack'[u]).at = "read.convert" => m_temp' \in seen'[u]
      BY <1>2, <1>6, <2>1, <2>3, <2>4, <3>1 DEF AdsInv, ReadsSeen, hist
    <3> QED
      BY <3>1 DEF ReadsSeen
  <2> QED
    BY <2>1, <2>2, <2>5 DEF AdsInv
<1>7. CASE /\ CallFrom(t, g, FactoryFrame(v))
           /\ UNCHANGED <<object, locks, plc, initialized, fault, hist>>
  <2>1. DataTyped'
    BY <1>0, <1>7, RoutesEnd DEF object
  <2> QED
    BY <1>1, <1>2, <1>7, <2>1, CallsOut
    DEF Scoped, UnderMem, UnderCom, OfOperation, OfRead, object, locks, hist
<1> QED
  BY <1>3, <1>4, <1>5, <1>6, <1>7

LEMMA ReadKeeps ==
  ASSUME AdsInv, NEW t \in Thread, AdsReadValue(t), UNCHANGED setting
  PROVE  AdsInv'
<1>1. CASE ReadConvert(t)
  <2> DEFINE ok == ConvertTypeFromString(Local(t).var) # -1
  <2>1. /\ ReadReturns(t, Outcome("read", ok)) /\ ok \in BOOLEAN
        /\ UNCHANGED <<object, plc, initialized, fault, threw, seen>>
    BY <1>1 DEF ReadConvert
  <2> HIDE DEF ok
  <2>2. done' \in [Thread -> [call: Calls, ok: BOOLEAN]]
    BY <2>1, DoneTyped DEF Calls, ReadReturns, AdsInv
  <2>3. DataTyped'
    BY <2>1, <2>2 DEF AdsInv, DataTyped, object, GetDeviceAdsVariables
  <2> QED
    BY <2>1, <2>3, Finishes DEF ReadReturns, object
<1> QED
  BY <1>1, ReadLockKeeps, ReadAccessKeeps DEF AdsReadValue

-----------------------------------------------------------------------------
\* The start-up.
LEMMA InitializeKeeps ==
  ASSUME AdsInv, NEW t \in Thread, Initialize(t), UNCHANGED setting
  PROVE  AdsInv'
<1> USE NoThreadIsNone
<1>0. LockInv /\ DataTyped
  BY DEF AdsInv
<1>1. CASE InitializeRoute(t)
  <2> DEFINE f == [Local(t) EXCEPT !.at = "init.acquire"]
  <2>1. At(t, "init.route")
    BY <1>1 DEF InitializeRoute
  <2>2. f \in Frames /\ f.at = "init.acquire"
    BY <1>0, <2>1, AtStatement, PlacesHold DEF Frames
  <2>3. \/ /\ NewRoute /\ Goto(t, f)
           /\ UNCHANGED <<m_device_state, known, mapped, handle, m_temp, locks, plc,
                          initialized, fault, hist>>
        \/ /\ Finished(t, Outcome("initialize", FALSE)) /\ threw' = TRUE
           /\ UNCHANGED <<object, locks, plc, initialized, fault, seen>>
    BY <1>1, Zenon DEF InitializeRoute
  <2> HIDE DEF f
  <2>4. CASE /\ NewRoute /\ Goto(t, f)
             /\ UNCHANGED <<m_device_state, known, mapped, handle, m_temp, locks, plc,
                            initialized, fault, hist>>
    <3>1. DataTyped'
      BY <1>0, <2>4, NewRouteTyped DEF DataTyped, hist, GetDeviceAdsVariables
    <3> QED
      BY <2>1, <2>2, <2>4, <3>1, GoesOn
      DEF Scoped, UnderMem, UnderCom, OfOperation, OfRead, locks, hist
  <2>5. CASE /\ Finished(t, Outcome("initialize", FALSE)) /\ threw' = TRUE
             /\ UNCHANGED <<object, locks, plc, initialized, fault, seen>>
    <3>1. mem # t /\ com # t
      BY <1>0, <2>1, AtStatement, AloneOwnsNothing DEF UnderMem, UnderCom, OfOperation
    <3>2. done' \in [Thread -> [call: Calls, ok: BOOLEAN]]
      BY <1>0, <2>5, DoneTyped DEF Calls
    <3>3. DataTyped'
      BY <1>0, <2>5, <3>2 DEF DataTyped, object, GetDeviceAdsVariables
    <3> QED
      BY <2>5, <3>1, <3>3, Finishes DEF object, locks
  <2> QED
    BY <2>3, <2>4, <2>5
<1>2. CASE InitializeAcquire(t)
  <2> DEFINE f == [Local(t) EXCEPT !.at = "init.bind", !.rest = Alias]
  <2>1. At(t, "init.acquire") /\ Acquire(t, f)
    BY <1>2 DEF InitializeAcquire
  <2>2. f \in Frames /\ f.at = "init.bind"
    <3>1. Local(t) \in Frames
      BY <1>0, <2>1, AtStatement
    <3> QED
      BY <3>1, PlacesHold DEF Frames
  <2> HIDE DEF f
  <2> QED
    BY <2>1, <2>2, AcquireKeeps
<1>3. CASE BindPLCVar(t)
  <2> DEFINE g(v) == [Local(t) EXCEPT !.rest = @ \ {v}]
  <2>1. /\ At(t, "init.bind")
        /\ \/ \E v \in Local(t).rest \intersect known :
                /\ mapped' = mapped \union {v}
                /\ CallFrom(t, g(v), FactoryFrame(v)) /\ UNCHANGED done
           \/ Finished(t, Outcome("initialize", TRUE)) /\ UNCHANGED mapped
        /\ UNCHANGED <<m_device_state, known, handle, m_route, live, routes, m_temp,
                       locks, plc, initialized, fault, threw, seen>>
    BY <1>3, Zenon DEF BindPLCVar
  <2>2. ASSUME NEW v \in Local(t).rest \intersect known, mapped' = mapped \union {v},
               CallFrom(t, g(v), FactoryFrame(v)), UNCHANGED done
        PROVE  AdsInv'
    <3>1. /\ g(v) \in Frames /\ g(v).at = "init.bind" /\ v \in Alias
      BY <1>0, <2>1, AtStatement, PlacesHold DEF Frames
    <3>2. mapped' \subseteq known'
      BY <1>0, <2>1, <2>2 DEF DataTyped
    <3>3. DataTyped'
      BY <1>0, <2>1, <2>2, <3>2 DEF DataTyped, GetDeviceAdsVariables
    <3> HIDE DEF g
    <3> QED
      BY <2>1, <2>2, <3>1, <3>3, CallsOut, FactoryIsAFrame
      DEF Scoped, UnderMem, UnderCom, OfOperation, OfRead, locks
  <2>3. CASE Finished(t, Outcome("initialize", TRUE)) /\ UNCHANGED mapped
    <3>1. mem # t /\ com # t
      BY <1>0, <2>1, AtStatement, AloneOwnsNothing DEF UnderMem, UnderCom, OfOperation
    <3>2. done' \in [Thread -> [call: Calls, ok: BOOLEAN]]
      BY <1>0, <2>3, DoneTyped DEF Calls
    <3>3. DataTyped'
      BY <1>0, <2>1, <2>3, <3>2 DEF DataTyped, GetDeviceAdsVariables
    <3> QED
      BY <2>1, <2>3, <3>1, <3>3, Finishes DEF locks
  <2> QED
    BY <2>1, <2>2, <2>3
<1> QED
  BY <1>1, <1>2, <1>3 DEF Initialize

-----------------------------------------------------------------------------
\* A thread begins an operation when it is in none and so owns no mutex.
LEMMA LocksBegin ==
  ASSUME LockInv, NEW t \in Thread, stack[t] = <<>>, UNCHANGED locks, NEW s,
         stack' = [stack EXCEPT ![t] = s],
         \/ \E f \in Frames : s = <<f>> /\ f.at \notin UnderMem \union UnderCom
         \/ \E f, g \in Frames : /\ s = <<g, f>> /\ g.at \notin OfOperation /\ f.at \notin OfRead
                                 /\ {f.at, g.at} \intersect (UnderMem \union UnderCom) = {}
  PROVE  LockInv' /\ stack'[t] = s /\ \A u \in Thread : u # t => stack'[u] = stack[u]
<1>1. mem # t /\ com # t
  BY DEF LockInv, Owned
<1> QED
  BY <1>1, LocksRestart DEF locks

LEMMA BeginKeeps ==
  ASSUME AdsInv, NEW t \in Thread, NEW s, stack[t] = <<>>,
         stack' = [stack EXCEPT ![t] = s], UNCHANGED locks, DataTyped',
         UNCHANGED <<m_temp, plc, seen>>,
         \/ \E f \in Frames : s = <<f>> /\ f.at \notin UnderMem \union UnderCom \union OfRead
         \/ \E f, g \in Frames : /\ s = <<g, f>> /\ g.at \notin OfOperation /\ f.at \notin OfRead
                                 /\ {f.at, g.at} \intersect (UnderMem \union UnderCom) = {}
  PROVE  AdsInv'
<1>1. LockInv' /\ stack'[t] = s /\ \A u \in Thread : u # t => stack'[u] = stack[u]
  BY LocksBegin DEF AdsInv
<1>2. Head(s).at \notin OfRead
  BY ReadsAreOperations
<1> QED
  BY <1>1, <1>2, NoReadKeeps

\* A call that ends where it begins.
LEMMA AnsweredAtOnce ==
  ASSUME AdsInv, NEW t \in Thread, NEW c \in Calls, NEW ok \in BOOLEAN,
         done' = [done EXCEPT ![t] = Outcome(c, ok)],
         UNCHANGED <<object, locks, stack, plc, initialized, fault, threw, seen, setting>>
  PROVE  AdsInv'
<1>1. done' \in [Thread -> [call: Calls, ok: BOOLEAN]]
  BY DEF AdsInv, DataTyped, Outcome
<1>2. DataTyped'
  BY <1>1 DEF AdsInv, DataTyped, object, GetDeviceAdsVariables
<1> QED
  BY <1>2 DEF AdsInv, LockInv, ReadsSeen, object, locks

LEMMA BeginWriteKeeps ==
  ASSUME AdsInv, NEW t \in Thread, NEW v \in Alias, BeginWrite(t, v), UNCHANGED setting
  PROVE  AdsInv'
<1> DEFINE f(p) == Frame(p, v, {}, FALSE)
<1>1. /\ stack[t] = <<>>
      /\ UNCHANGED <<object, locks, plc, initialized, fault, threw, seen>>
      /\ \/ done' = [done EXCEPT ![t] = Outcome("write", FALSE)] /\ UNCHANGED stack
         \/ stack' = [stack EXCEPT ![t] = <<f("write.lock")>>] /\ UNCHANGED done
         \/ stack' = [stack EXCEPT ![t] = <<FactoryFrame(v), f("write.done")>>] /\ UNCHANGED done
  BY DEF BeginWrite, Begins
<1>2. /\ f("write.lock") \in Frames /\ f("write.lock").at = "write.lock"
      /\ f("write.done") \in Frames /\ f("write.done").at = "write.done"
      /\ FactoryFrame(v) \in Frames /\ FactoryFrame(v).at = "factory.lock"
  BY FactoryIsAFrame DEF Frame, Frames, Places
<1> HIDE DEF f
<1>3. ASSUME UNCHANGED done PROVE DataTyped'
  BY <1>1, <1>3, RoutesEnd DEF AdsInv, object, hist
<1>4. CASE done' = [done EXCEPT ![t] = Outcome("write", FALSE)] /\ UNCHANGED stack
  BY <1>1, <1>4, AnsweredAtOnce DEF Calls
<1>5. CASE stack' = [stack EXCEPT ![t] = <<f("write.lock")>>] /\ UNCHANGED done
  BY <1>1, <1>2, <1>3, <1>5, BeginKeeps DEF UnderMem, UnderCom, OfRead, object
<1>6. CASE stack' = [stack EXCEPT ![t] = <<FactoryFrame(v), f("write.done")>>] /\ UNCHANGED done
  <2> DEFINE g == f("write.done")
             h == FactoryFrame(v)
  <2>1. /\ g \in Frames /\ h \in Frames /\ h.at \notin OfOperation /\ g.at \notin OfRead
        /\ {g.at, h.at} \intersect (UnderMem \union UnderCom) = {}
    BY <1>2 DEF UnderMem, UnderCom, OfRead, OfOperation
  <2>2. stack' = [stack EXCEPT ![t] = <<h, g>>] /\ DataTyped'
    BY <1>3, <1>6
  <2> HIDE DEF g, h
  <2> QED
    BY <1>1, <2>1, <2>2, BeginKeeps DEF object
<1> QED
  BY <1>1, <1>4, <1>5, <1>6

LEMMA BeginReadKeeps ==
  ASSUME AdsInv, NEW t \in Thread, NEW v \in Alias, BeginRead(t, v), UNCHANGED setting
  PROVE  AdsInv'
<1> DEFINE f == Frame("read.lock", v, {}, FALSE)
<1>0. LockInv /\ DataTyped
  BY DEF AdsInv
<1>1. /\ stack[t] = <<>>
      /\ UNCHANGED <<object, locks, plc, initialized, fault, threw>>
      /\ \/ done' = [done EXCEPT ![t] = Outcome("read", FALSE)] /\ UNCHANGED <<stack, seen>>
         \/ /\ stack' = [stack EXCEPT ![t] = <<f>>] /\ seen' = [seen EXCEPT ![t] = {plc[v]}]
            /\ UNCHANGED done
  BY DEF BeginRead, Begins
<1>2. f \in Frames /\ f.at = "read.lock" /\ f.var = v
  BY DEF Frame, Frames, Places
<1> HIDE DEF f
<1>3. CASE done' = [done EXCEPT ![t] = Outcome("read", FALSE)] /\ UNCHANGED <<stack, seen>>
  BY <1>1, <1>3, AnsweredAtOnce DEF Calls
<1>4. CASE /\ stack' = [stack EXCEPT ![t] = <<f>>] /\ seen' = [seen EXCEPT ![t] = {plc[v]}]
           /\ UNCHANGED done
  <2>1. LockInv' /\ stack'[t] = <<f>> /\ \A u \in Thread : u # t => stack'[u] = stack[u]
    BY <1>0, <1>1, <1>2, <1>4, LocksBegin DEF UnderMem, UnderCom
  <2>2. /\ seen' \in [Thread -> SUBSET Val] /\ seen'[t] = {plc[v]}
        /\ \A u \in Thread : u # t => seen'[u] = seen[u]
    BY <1>0, <1>4 DEF DataTyped
  <2>3. DataTyped'
    BY <1>0, <1>1, <1>4, <2>2 DEF DataTyped, object, GetDeviceAdsVariables
  <2>4. ReadsSeen'
    BY <1>1, <1>2, <2>1, <2>2 DEF AdsInv, ReadsSeen, object
  <2> QED
    BY <2>1, <2>3, <2>4 DEF AdsInv
<1> QED
  BY <1>1, <1>3, <1>4

\* ConnectionCheck, the start-up, the destructor and the PLC.
LEMMA BeginCheckKeeps ==
  ASSUME AdsInv, NEW t \in Thread, BeginCheck(t), UNCHANGED setting
  PROVE  AdsInv'
<1>1. /\ stack[t] = <<>> /\ stack' = [stack EXCEPT ![t] = <<CheckFrame>>]
      /\ UNCHANGED <<object, locks, plc, initialized, fault, hist>>
  BY DEF BeginCheck, Begins
<1>2. CheckFrame \in Frames /\ CheckFrame.at = "check.lock"
  BY FactoryIsAFrame DEF AdsInv, DataTyped
<1>3. DataTyped'
  BY <1>1, RoutesEnd DEF AdsInv, object
<1> QED
  BY <1>1, <1>2, <1>3, BeginKeeps DEF UnderMem, UnderCom, OfRead, object, hist

LEMMA BeginInitializeKeeps ==
  ASSUME AdsInv, NEW t \in Thread, BeginInitialize(t), UNCHANGED setting
  PROVE  AdsInv'
<1> DEFINE f == Frame("init.route", CHOOSE v \in Alias : TRUE, {}, FALSE)
<1>1. /\ stack[t] = <<>> /\ stack' = [stack EXCEPT ![t] = <<f>>] /\ initialized' = TRUE
      /\ UNCHANGED <<object, locks, plc, fault, hist>>
  BY DEF BeginInitialize
<1>2. f \in Frames /\ f.at = "init.route"
  BY FactoryIsAFrame DEF Frame, Frames, Places
<1> HIDE DEF f
<1>3. DataTyped'
  BY <1>1 DEF AdsInv, DataTyped, object, hist, GetDeviceAdsVariables
<1> QED
  BY <1>1, <1>2, <1>3, BeginKeeps DEF UnderMem, UnderCom, OfRead, object, hist

LEMMA DestroyKeeps ==
  ASSUME AdsInv, Destroy, UNCHANGED setting
  PROVE  AdsInv'
<1>1. Crash("doubleFree") \/ Crash("destroyed")
  BY DEF Destroy, Crash
<1> QED
  BY <1>1, CrashKeeps

LEMMA PlcMovesKeeps ==
  ASSUME AdsInv, NEW v \in Alias, NEW x \in Val, PlcMoves(v, x), UNCHANGED setting
  PROVE  AdsInv'
<1>1. /\ plc' = [plc EXCEPT ![v] = x] /\ Observe
      /\ UNCHANGED <<object, locks, stack, initialized, fault, done, threw>>
  BY DEF PlcMoves
<1>2. plc' \in [Alias -> Val] /\ done' \in [Thread -> [call: Calls, ok: BOOLEAN]]
  BY <1>1 DEF AdsInv, DataTyped
<1>3. LockInv'
  BY <1>1 DEF AdsInv, LockInv, locks
<1> QED
  BY <1>1, <1>2, <1>3, ObserveKeeps

-----------------------------------------------------------------------------
LEMMA AdsStart == AdsInit => AdsInv
<1> SUFFICES ASSUME AdsInit PROVE AdsInv
  OBVIOUS
<1> USE AdsAssumption DEF AdsInit
<1>1. \A t \in Thread : stack[t] = <<>>
  OBVIOUS
<1>2. LockInv
  BY <1>1 DEF LockInv, Stacks, Owned
<1>3. DataTyped
  <2>1. done \in [Thread -> [call: Calls, ok: BOOLEAN]] /\ seen \in [Thread -> SUBSET Val]
    BY DEF NoCall, Calls
  <2>2. handle \in [Alias -> {Absent, Null, Freed} \union 1 .. routes]
    OBVIOUS
  <2>3. /\ m_device_state \in BOOLEAN /\ mapped \subseteq known
        /\ initialized \in BOOLEAN /\ threw \in BOOLEAN
    OBVIOUS
  <2>4. /\ setting \in Setting /\ known \in {{}, GetDeviceAdsVariables}
        /\ routes \in Nat /\ m_route \in 0 .. routes /\ live \subseteq 1 .. routes
        /\ m_temp \in Val /\ plc \in [Alias -> Val]
        /\ fault \in {"none", "doubleFree", "deadRoute", "freedHandle", "nullHandle", "destroyed"}
    OBVIOUS
  <2> HIDE DEF AdsInit
  <2> QED
    BY <2>1, <2>2, <2>3, <2>4 DEF DataTyped
<1>4. ReadsSeen
  BY <1>1 DEF ReadsSeen
<1> QED
  BY <1>2, <1>3, <1>4 DEF AdsInv

LEMMA AdsStep == AdsInv /\ [AdsNext]_adsVars => AdsInv'
<1> SUFFICES ASSUME AdsInv, [AdsNext]_adsVars PROVE AdsInv'
  OBVIOUS
<1>1. CASE AdsNext
  <2>1. ASSUME NEW t \in Thread, Step(t), UNCHANGED setting PROVE AdsInv'
    BY <2>1, FactoryKeeps, CheckKeeps, WriteKeeps, ReadKeeps, InitializeKeeps DEF Step
  <2>2. ASSUME NEW t \in Thread, BeginCheck(t) \/ BeginInitialize(t), UNCHANGED setting
        PROVE  AdsInv'
    BY <2>2, BeginCheckKeeps, BeginInitializeKeeps
  <2>3. ASSUME NEW t \in Thread, NEW v \in Alias, BeginWrite(t, v) \/ BeginRead(t, v),
               UNCHANGED setting
        PROVE  AdsInv'
    BY <2>3, BeginWriteKeeps, BeginReadKeeps
  <2> QED
    BY <1>1, <2>1, <2>2, <2>3, DestroyKeeps, PlcMovesKeeps, Zenon DEF AdsNext
<1>2. CASE UNCHANGED adsVars
  <2>1. DataTyped'
    BY <1>2, RoutesEnd DEF AdsInv, adsVars, object
  <2> QED
    BY <1>2, <2>1 DEF AdsInv, LockInv, ReadsSeen, adsVars, object, locks, hist
<1> QED
  BY <1>1, <1>2

\* Who owns which mutex: on every path through the calls that write, Factory and
\* ConnectionCheck make of each other, at most one call on all the stacks is in
\* the scope of a mutex, and it is its owner's.
THEOREM LockInvariance == AdsSpec => []AdsInv
BY AdsStart, AdsStep, PTL DEF AdsSpec

\* The object's fields keep their types, only configured variables are mapped,
\* and a mutex is held only by a thread that is in an operation.
THEOREM AdsTyping == AdsSpec => []AdsTypeOK
<1>1. ASSUME AdsInv PROVE AdsTypeOK
  <2>1. DataTyped /\ LockInv
    BY <1>1 DEF AdsInv
  <2>2. mapped \subseteq known /\ known \subseteq Alias
    BY <2>1, KnownVariables
  <2>3. \A t \in Thread : com = t \/ mem = t => stack[t] # <<>>
    BY <2>1 DEF LockInv, Owned
  <2>4. \A t \in Thread : \A i \in 1 .. Len(stack[t]) : stack[t][i] \in Frames
    BY <2>1 DEF LockInv, Stacks
  <2>5. com \in Thread \union {NoThread} /\ mem \in Thread \union {NoThread}
    BY <2>1 DEF LockInv, Owned
  <2> QED
    BY <2>1, <2>2, <2>3, <2>4, <2>5 DEF AdsTypeOK, DataTyped
<1> QED
  BY <1>1, LockInvariance, PTL

\* Reads of any number of threads share m_temp, and each gives a value its own
\* variable had during the call.
THEOREM ReadsOwnValues == AdsSpec => []ReadOwnValue
<1>1. AdsInv => ReadOwnValue
  BY DEF AdsInv, ReadsSeen, ReadOwnValue, At
<1> QED
  BY <1>1, LockInvariance, PTL

-----------------------------------------------------------------------------
(***************************************************************************)
(* A single thread never meets a route that is gone.                       *)
(***************************************************************************)
\* The handles of a set of variables refer to no route that is gone.
Sound(S) == \A v \in S : handle[v] > 0 => handle[v] \in live

Doing(t, places) == stack[t] # <<>> /\ Local(t).at \in places

\* Where a call waits for another one, the statements of Factory but its last,
\* and the ones that access a variable.
Below   == {"factory.end", "check.loop", "write.done", "read.failed", "init.bind"}
Calling == {"factory.lock", "factory.delete", "factory.create"}
Accessing == Calling \union {"write.lock", "write.access", "read.lock", "read.access"}

\* Only mapped variables have handles, and only they are worked on.
WorksOn(f, vars) == /\ f.at \in Accessing => f.var \in vars
                    /\ f.at = "check.loop" => f.rest \subseteq vars

MapInv ==
  /\ \A v \in Alias : handle[v] # Absent => v \in mapped
  /\ \A t \in Thread : \A i \in DOMAIN stack[t] :
       WorksOn(stack[t][i], mapped) /\ (i > 1 => stack[t][i].at \in Below)

\* The thread u is the only one.  Its recovery takes the route away and brings
\* one back before anything else runs,
RouteLives(u) ==
  initialized => m_route \in live \/ Doing(u, {"check.route", "init.route"})

\* and leaves handles on the route that is gone only with m_device_state off,
\* or about to be.
HandlesLive(u) ==
  /\ m_device_state => \/ Sound(Alias)
                       \/ Doing(u, {"check.route", "check.end"}) /\ ~Local(u).flag
  /\ \A v \in mapped : handle[v] = Absent =>
       Doing(u, {"factory.lock", "factory.delete"}) /\ Local(u).var = v
  /\ Doing(u, {"factory.create"}) => handle[Local(u).var] <= 0
  /\ Doing(u, {"write.lock", "write.access"}) => m_device_state

\* A check that turns m_device_state on has given every variable a new handle
\* or has found all as good as they were.
ChecksHeal(u) ==
  /\ Doing(u, {"check.lock", "check.state"}) => Local(u).flag = m_device_state
  /\ Doing(u, {"check.route"}) => ~Local(u).flag
  /\ Doing(u, {"check.end"}) /\ Local(u).flag => Sound(Alias)
  /\ Doing(u, {"check.loop"}) => Sound(Alias \ Local(u).rest)
  /\ Len(stack[u]) > 1 /\ stack[u][2].at = "check.loop" =>
       /\ ~Doing(u, {"factory.end"})
       /\ Doing(u, Calling) => Sound(Alias \ (stack[u][2].rest \union {Local(u).var}))

Lone(u) ==
  /\ \A t \in Thread : t # u => stack[t] = <<>>
  /\ stack[u] # <<>> => initialized
  /\ RouteLives(u) /\ HandlesLive(u) /\ ChecksHeal(u)

\* What a step of the only thread has to keep unless InitRoute has thrown.
Kept(u) == fault' # "deadRoute" /\ (fault' = "none" => Lone(u)')

RouteInv ==
  \A u \in Thread : setting.users = {u} /\ ~threw =>
    fault # "deadRoute" /\ (fault = "none" => Lone(u))

-----------------------------------------------------------------------------
\* The innermost calls of a stack after a step to another statement, a call and
\* a return.
LEMMA TopGoesOn ==
  ASSUME LockInv, NEW t \in Thread, NEW p, At(t, p), NEW f \in Frames, Goto(t, f)
  PROVE  /\ stack'[t] # <<>> /\ Local(t)' = f /\ stack'[t][1] = f
         /\ Len(stack'[t]) = Len(stack[t]) /\ DOMAIN stack'[t] = DOMAIN stack[t]
         /\ DOMAIN stack[t] = 1 .. Len(stack[t]) /\ Len(stack[t]) \in Nat \ {0}
         /\ \A i \in 2 .. Len(stack[t]) : stack'[t][i] = stack[t][i]
         /\ \A u \in Thread : u # t => stack'[u] = stack[u]
<1>1. stack[t] # <<>> /\ stack[t] \in Seq(Frames)
  BY AtStatement DEF LockInv, Stacks
<1>2. stack'[t] = <<f>> \o Tail(stack[t]) /\ \A u \in Thread : u # t => stack'[u] = stack[u]
  BY DEF Goto, LockInv, Stacks
<1> DEFINE s == <<f>> \o Tail(stack[t])
<1>3. /\ s \in Seq(Frames) /\ Len(s) = Len(stack[t]) /\ Len(stack[t]) \in Nat \ {0}
      /\ s[1] = f /\ \A i \in 2 .. Len(stack[t]) : s[i] = stack[t][i]
  BY <1>1, StackGoesOn
<1> HIDE DEF s
<1>4. s # <<>> /\ Head(s) = f /\ DOMAIN s = DOMAIN stack[t] /\ DOMAIN s = 1 .. Len(s)
  BY <1>1, <1>3
<1>5. stack'[t] = s
  BY <1>2 DEF s
<1> QED
  BY <1>2, <1>3, <1>4, <1>5 DEF Local

LEMMA TopCalls ==
  ASSUME LockInv, NEW t \in Thread, NEW p, At(t, p), NEW f \in Frames, NEW g \in Frames,
         CallFrom(t, f, g)
  PROVE  /\ stack'[t] # <<>> /\ Local(t)' = g /\ stack'[t][1] = g /\ stack'[t][2] = f
         /\ Len(stack'[t]) = Len(stack[t]) + 1 /\ DOMAIN stack'[t] = 1 .. Len(stack[t]) + 1
         /\ DOMAIN stack[t] = 1 .. Len(stack[t]) /\ Len(stack[t]) \in Nat \ {0}
         /\ \A i \in 3 .. Len(stack[t]) + 1 : stack'[t][i] = stack[t][i - 1]
         /\ \A u \in Thread : u # t => stack'[u] = stack[u]
<1>1. stack[t] # <<>> /\ stack[t] \in Seq(Frames)
  BY AtStatement DEF LockInv, Stacks
<1>2. stack'[t] = <<g, f>> \o Tail(stack[t]) /\ \A u \in Thread : u # t => stack'[u] = stack[u]
  BY DEF CallFrom, LockInv, Stacks
<1> DEFINE s == <<g, f>> \o Tail(stack[t])
<1>3. /\ s \in Seq(Frames) /\ Len(s) = Len(stack[t]) + 1 /\ Len(stack[t]) \in Nat \ {0}
      /\ s[1] = g /\ s[2] = f /\ \A i \in 3 .. Len(stack[t]) + 1 : s[i] = stack[t][i - 1]
  BY <1>1, StackGoesOn, StackGrows
<1> HIDE DEF s
<1>4. s # <<>> /\ Head(s) = g /\ DOMAIN stack[t] = 1 .. Len(stack[t]) /\ DOMAIN s = 1 .. Len(s)
  BY <1>1, <1>3
<1>5. stack'[t] = s
  BY <1>2 DEF s
<1> QED
  BY <1>2, <1>3, <1>4, <1>5 DEF Local

LEMMA TopReturns ==
  ASSUME LockInv, NEW t \in Thread, NEW p, At(t, p), Return(t)
  PROVE  /\ Len(stack'[t]) = Len(stack[t]) - 1 /\ DOMAIN stack'[t] = 1 .. Len(stack[t]) - 1
         /\ DOMAIN stack[t] = 1 .. Len(stack[t]) /\ Len(stack[t]) \in Nat \ {0}
         /\ \A i \in 1 .. Len(stack[t]) - 1 : stack'[t][i] = stack[t][i + 1]
         /\ stack'[t] = <<>> <=> Len(stack[t]) = 1
         /\ stack'[t] # <<>> => Local(t)' = stack[t][2]
         /\ \A u \in Thread : u # t => stack'[u] = stack[u]
<1>1. stack[t] # <<>> /\ stack[t] \in Seq(Frames)
  BY AtStatement DEF LockInv, Stacks
<1>2. stack'[t] = Tail(stack[t]) /\ \A u \in Thread : u # t => stack'[u] = stack[u]
  BY DEF Return, LockInv, Stacks
<1> DEFINE s == Tail(stack[t])
<1>3. /\ s \in Seq(Frames) /\ Len(s) = Len(stack[t]) - 1 /\ Len(stack[t]) \in Nat \ {0}
      /\ \A i \in 1 .. Len(stack[t]) - 1 : s[i] = stack[t][i + 1]
  BY <1>1, StackGoesOn, StackShrinks
<1> HIDE DEF s
<1>4. /\ DOMAIN stack[t] = 1 .. Len(stack[t]) /\ DOMAIN s = 1 .. Len(s)
      /\ s = <<>> <=> Len(stack[t]) = 1
      /\ s # <<>> => Head(s) = s[1]
  <2>1. s = <<>> <=> Len(s) = 0
    BY <1>3, EmptySeq
  <2>2. s # <<>> => Head(s) = s[1]
    BY <1>3
  <2>3. Len(s) = 0 <=> Len(stack[t]) = 1
    BY <1>3
  <2> QED
    BY <1>1, <1>3, <2>1, <2>2, <2>3
<1>6. s # <<>> => s[1] = stack[t][2]
  BY <1>3, <1>4
<1>5. stack'[t] = s
  BY <1>2 DEF s
<1> QED
  BY <1>2, <1>3, <1>4, <1>5, <1>6 DEF Local

-----------------------------------------------------------------------------
\* MapInv after the same steps.
HandlesMapped == \A v \in Alias : handle[v] # Absent => v \in mapped

LEMMA MapGoesOn ==
  ASSUME LockInv, MapInv, NEW t \in Thread, NEW p, At(t, p), NEW f \in Frames, Goto(t, f),
         mapped \subseteq mapped', HandlesMapped', WorksOn(f, mapped')
  PROVE  MapInv'
<1>1. ASSUME NEW u \in Thread, NEW i \in DOMAIN stack'[u]
      PROVE  WorksOn(stack'[u][i], mapped') /\ (i > 1 => stack'[u][i].at \in Below)
  <2>1. CASE u # t
    BY <1>1, <2>1, TopGoesOn DEF MapInv, WorksOn
  <2>2. CASE u = t /\ i = 1
    BY <2>2, TopGoesOn
  <2>3. CASE u = t /\ i # 1
    <3>1. i \in 2 .. Len(stack[t]) /\ i \in DOMAIN stack[t] /\ stack'[u][i] = stack[t][i]
      BY <1>1, <2>3, TopGoesOn
    <3> QED
      BY <2>3, <3>1 DEF MapInv, WorksOn
  <2> QED
    BY <2>1, <2>2, <2>3
<1> QED
  BY <1>1 DEF MapInv, HandlesMapped, WorksOn

LEMMA MapCalls ==
  ASSUME LockInv, MapInv, NEW t \in Thread, NEW p, At(t, p), NEW f \in Frames, NEW g \in Frames,
         CallFrom(t, f, g), mapped \subseteq mapped', HandlesMapped',
         f.at \in Below, WorksOn(f, mapped'), WorksOn(g, mapped')
  PROVE  MapInv'
<1>1. ASSUME NEW u \in Thread, NEW i \in DOMAIN stack'[u]
      PROVE  WorksOn(stack'[u][i], mapped') /\ (i > 1 => stack'[u][i].at \in Below)
  <2>1. CASE u # t
    BY <1>1, <2>1, TopCalls DEF MapInv, WorksOn
  <2>2. CASE u = t /\ i \in {1, 2}
    BY <2>2, TopCalls
  <2>3. CASE u = t /\ i \notin {1, 2}
    <3>1. i \in 3 .. Len(stack[t]) + 1 /\ i - 1 \in DOMAIN stack[t] /\ i - 1 > 1
          /\ stack'[u][i] = stack[t][i - 1]
      BY <1>1, <2>3, TopCalls
    <3> QED
      BY <2>3, <3>1 DEF MapInv, WorksOn
  <2> QED
    BY <2>1, <2>2, <2>3
<1> QED
  BY <1>1 DEF MapInv, HandlesMapped, WorksOn

LEMMA MapReturns ==
  ASSUME LockInv, MapInv, NEW t \in Thread, NEW p, At(t, p), Return(t),
         mapped \subseteq mapped', HandlesMapped'
  PROVE  MapInv'
<1>1. ASSUME NEW u \in Thread, NEW i \in DOMAIN stack'[u]
      PROVE  WorksOn(stack'[u][i], mapped') /\ (i > 1 => stack'[u][i].at \in Below)
  <2>1. CASE u # t
    BY <1>1, <2>1, TopReturns DEF MapInv, WorksOn
  <2>2. CASE u = t
    <3>1. i \in 1 .. Len(stack[t]) - 1 /\ i + 1 \in DOMAIN stack[t] /\ i + 1 > 1
          /\ stack'[u][i] = stack[t][i + 1]
      BY <1>1, <2>2, TopReturns
    <3> QED
      BY <2>2, <3>1 DEF MapInv, WorksOn
  <2> QED
    BY <2>1, <2>2
<1> QED
  BY <1>1 DEF MapInv, HandlesMapped, WorksOn

\* A stack that begins anew or ends.
LEMMA MapRestarts ==
  ASSUME LockInv, MapInv, NEW t \in Thread, NEW s, stack' = [stack EXCEPT ![t] = s],
         mapped \subseteq mapped', HandlesMapped',
         \A i \in DOMAIN s : WorksOn(s[i], mapped') /\ (i > 1 => s[i].at \in Below)
  PROVE  MapInv'
BY DEF LockInv, Stacks, MapInv, HandlesMapped, WorksOn
-----------------------------------------------------------------------------
\* What is known at a statement of the only thread.
LEMMA AtTop ==
  ASSUME LockInv, MapInv, NEW t \in Thread, NEW p, At(t, p)
  PROVE  /\ fault = "none" /\ stack[t] # <<>> /\ Local(t).at = p /\ Local(t) \in Frames
         /\ Local(t) = stack[t][1] /\ WorksOn(Local(t), mapped)
         /\ Len(stack[t]) > 1 => /\ stack[t][2].at \in Below /\ stack[t][2] \in Frames
                                 /\ WorksOn(stack[t][2], mapped)
         /\ Len(stack[t]) > 2 => stack[t][3].at \in Below
         /\ Len(stack[t]) > 1 /\ stack[t][2].at = "check.loop" => com = t /\ p \notin UnderCom
         /\ Len(stack[t]) > 2 /\ stack[t][3].at = "check.loop" => p \notin UnderCom
         /\ Len(stack[t]) > 1 /\ p \in UnderMem => stack[t][2].at # "factory.end"
<1>1. stack[t] # <<>> /\ stack[t] \in Seq(Frames) /\ Local(t).at = p /\ Local(t) \in Frames
      /\ fault = "none" /\ Local(t) = Head(stack[t])
  BY AtStatement DEF LockInv, Stacks
<1>2. /\ 1 \in DOMAIN stack[t] /\ Head(stack[t]) = stack[t][1]
      /\ Len(stack[t]) > 1 => 2 \in DOMAIN stack[t] /\ stack[t][2] \in Frames
      /\ Len(stack[t]) > 2 => 3 \in DOMAIN stack[t]
  BY <1>1
<1>3. "check.loop" \in UnderCom /\ "factory.end" \in UnderMem
  BY DEF UnderCom, UnderMem
<1>4. /\ \A i \in DOMAIN stack[t] : stack[t][i].at \in UnderCom => com = t
      /\ \A i, j \in DOMAIN stack[t] :
           \/ stack[t][i].at \in UnderCom /\ stack[t][j].at \in UnderCom
           \/ stack[t][i].at \in UnderMem /\ stack[t][j].at \in UnderMem
           => i = j
  BY DEF LockInv, Owned
<1> QED
  BY <1>1, <1>2, <1>3, <1>4 DEF MapInv

\* A crash for another reason than a dead route ends the claim.
LEMMA CrashRoutes ==
  ASSUME MapInv, NEW t \in Thread, NEW kind, Crash(kind), kind # "none"
  PROVE  MapInv' /\ (kind # "deadRoute" => Kept(t))
BY DEF Crash, Kept, MapInv, WorksOn, object

\* Factory.
LEMMA FactoryLockRoutes ==
  ASSUME AdsInv, MapInv, NEW t \in Thread, FactoryLock(t)
  PROVE  MapInv' /\ (Lone(t) => Kept(t))
<1> DEFINE f == [Local(t) EXCEPT !.at = "factory.delete"]
<1>0. LockInv /\ DataTyped
  BY DEF AdsInv
<1>1. /\ At(t, "factory.lock") /\ Goto(t, f)
      /\ UNCHANGED <<object, plc, initialized, fault, hist>>
  BY DEF FactoryLock
<1>2. f \in Frames /\ f.at = "factory.delete" /\ f.var = Local(t).var
  BY <1>0, <1>1, AtStatement, PlacesHold DEF Frames
<1> HIDE DEF f
<1>3. MapInv'
  BY <1>0, <1>1, <1>2, AtTop, MapGoesOn
  DEF WorksOn, Accessing, Calling, HandlesMapped, MapInv, object
<1>4. ASSUME Lone(t) PROVE Lone(t)'
  BY <1>0, <1>1, <1>2, <1>4, AtTop, TopGoesOn
  DEF Lone, RouteLives, HandlesLive, ChecksHeal, Doing, Calling, Sound, object
<1> QED
  BY <1>0, <1>1, <1>3, <1>4, AtTop DEF Kept

LEMMA FactoryDeleteRoutes ==
  ASSUME AdsInv, MapInv, NEW t \in Thread, FactoryDelete(t)
  PROVE  MapInv' /\ (Lone(t) => Kept(t))
<1> DEFINE v == Local(t).var
           f == [Local(t) EXCEPT !.at = "factory.create"]
<1>0. LockInv /\ DataTyped
  BY DEF AdsInv
<1>1. /\ At(t, "factory.delete")
      /\ \/ Crash("doubleFree")
         \/ /\ handle' = [handle EXCEPT ![v] = IF @ > 0 THEN Freed ELSE Null]
            /\ Goto(t, f)
            /\ UNCHANGED <<m_device_state, known, mapped, m_route, live, routes,
                           m_temp, locks, plc, initialized, fault, hist>>
  BY DEF FactoryDelete
<1>2. f \in Frames /\ f.at = "factory.create" /\ f.var = v /\ v \in Alias
  BY <1>0, <1>1, AtStatement, PlacesHold DEF Frames
<1> HIDE DEF f, v
<1>3. CASE /\ handle' = [handle EXCEPT ![v] = IF @ > 0 THEN Freed ELSE Null]
           /\ Goto(t, f)
           /\ UNCHANGED <<m_device_state, known, mapped, m_route, live, routes,
                          m_temp, locks, plc, initialized, fault, hist>>
  <2>1. v \in mapped
    BY <1>0, <1>1, AtTop DEF WorksOn, Accessing, Calling, v
  <2>2. handle' \in [Alias -> Int] /\ handle'[v] \in {Freed, Null}
        /\ \A w \in Alias : w # v => handle'[w] = handle[w]
    BY <1>0, <1>2, <1>3 DEF DataTyped, Absent, Freed, Null
  <2>3. MapInv'
    BY <1>0, <1>1, <1>2, <1>3, <2>1, <2>2, MapGoesOn
    DEF WorksOn, Accessing, Calling, HandlesMapped, MapInv
  <2>4. ASSUME Lone(t) PROVE Lone(t)'
    <3>1. Local(t).var = v /\ mapped \subseteq Alias
      BY <1>0, KnownVariables DEF v
    <3>2. RouteLives(t)' /\ HandlesLive(t)'
      BY <1>0, <1>1, <1>2, <1>3, <2>2, <2>4, <3>1, AtTop, TopGoesOn
      DEF Lone, RouteLives, HandlesLive, Doing, Sound, Absent, Freed, Null
    <3>3. ChecksHeal(t)'
      BY <1>0, <1>1, <1>2, <1>3, <2>2, <2>4, <3>1, AtTop, TopGoesOn
      DEF Lone, ChecksHeal, Doing, Calling, Sound, Freed, Null
    <3> QED
      BY <1>0, <1>1, <1>2, <1>3, <2>4, <3>2, <3>3, AtTop, TopGoesOn DEF Lone
  <2> QED
    BY <1>0, <1>1, <1>3, <2>3, <2>4, AtTop DEF Kept
<1> QED
  BY <1>1, <1>3, CrashRoutes

\* A new handle is on the current route.
LEMMA FactoryCreateRoutes ==
  ASSUME AdsInv, MapInv, NEW t \in Thread, FactoryCreate(t)
  PROVE  MapInv' /\ (Lone(t) => Kept(t))
<1> DEFINE v == Local(t).var
           f == [Local(t) EXCEPT !.at = "factory.end"]
<1>0. LockInv /\ DataTyped
  BY DEF AdsInv
<1>1. At(t, "factory.create") /\ v \in Alias /\ v \in mapped
  BY <1>0, AtStatement, AtTop DEF FactoryCreate, WorksOn, Accessing, Calling
<1>2. /\ f \in Frames /\ f.at = "factory.end"
      /\ CheckFrame \in Frames /\ CheckFrame.at = "check.lock" /\ CheckFrame.flag = m_device_state
  BY <1>0, <1>1, AtStatement, FactoryIsAFrame, PlacesHold
  DEF DataTyped, Frames, CheckFrame, Frame
<1>3. \/ Crash("deadRoute") /\ ~RouteUsable
      \/ Return(t) /\ UNCHANGED <<object, com, plc, initialized, fault, hist>>
      \/ /\ RouteUsable /\ GetHandle(v) /\ Return(t)
         /\ UNCHANGED <<m_device_state, known, mapped, m_route, live, routes,
                        m_temp, com, plc, initialized, fault, hist>>
      \/ /\ CallFrom(t, f, CheckFrame)
         /\ UNCHANGED <<object, locks, plc, initialized, fault, hist>>
  BY Zenon DEF FactoryCreate
<1> HIDE DEF f, v
<1>4. Lone(t) => RouteUsable
  BY <1>0, <1>1, AtTop DEF Lone, RouteLives, Doing, RouteUsable
<1>5. ASSUME Return(t), UNCHANGED <<m_device_state, known, mapped, m_route, live,
                                    initialized, fault, hist>>,
             handle' \in [Alias -> Int], handle'[v] \in live \/ handle'[v] = handle[v],
             \A w \in Alias : w # v => handle'[w] = handle[w]
      PROVE  MapInv' /\ (Lone(t) => Kept(t))
  <2>1. MapInv'
    BY <1>0, <1>1, <1>5, MapReturns DEF HandlesMapped, MapInv
  <2>2. ASSUME Lone(t) PROVE Lone(t)'
    <3>1. /\ Local(t).var = v /\ mapped \subseteq Alias /\ \A n \in live : n \in Nat \ {0}
          /\ Local(t).at = "factory.create"
      BY <1>0, <1>1, AtTop, KnownVariables DEF v, DataTyped
    <3>3. ASSUME stack'[t] # <<>>
          PROVE  Local(t)' = stack[t][2] /\ stack[t][2].at \in Below \ {"factory.end"}
      BY <1>0, <1>1, <1>5, <3>3, AtTop, TopReturns DEF UnderMem
    <3>2. RouteLives(t)' /\ HandlesLive(t)'
      <4>1. ~Doing(t, {"check.route", "check.end", "init.route", "factory.lock", "factory.delete",
                       "factory.create", "write.lock", "write.access"})'
        BY <3>3 DEF Doing, Below
      <4>2. RouteLives(t)'
        BY <1>5, <2>2, <3>1 DEF Lone, RouteLives, Doing
      <4>3. Sound(Alias)' \/ ~m_device_state'
        BY <1>1, <1>5, <2>2, <3>1 DEF Lone, HandlesLive, Doing, Sound
      <4>4. \A w \in mapped : handle'[w] # Absent
        BY <1>1, <1>5, <2>2, <3>1 DEF Lone, HandlesLive, Doing, Absent
      <4> QED
        BY <1>5, <4>1, <4>2, <4>3, <4>4 DEF HandlesLive, Doing
    <3>4. ChecksHeal(t)'
      <4>1. /\ ~Doing(t, {"check.lock", "check.state"})' /\ ~Doing(t, {"check.route"})'
            /\ ~Doing(t, {"check.end"})' /\ ~Doing(t, {"factory.end"})' /\ ~Doing(t, Calling)'
        BY <3>3 DEF Doing, Calling, Below
      <4>2. ASSUME Doing(t, {"check.loop"})' PROVE Sound(Alias \ Local(t).rest)'
        <5>1. Local(t)' = stack[t][2] /\ stack[t][2].at = "check.loop" /\ Len(stack[t]) > 1
          <6>1. stack'[t] # <<>> /\ Local(t)'.at = "check.loop"
            BY ONLY <4>2 DEF Doing
          <6>2. /\ Len(stack[t]) \in Nat \ {0}
                /\ stack'[t] = <<>> <=> Len(stack[t]) = 1
            BY <1>0, <1>1, <1>5, TopReturns
          <6>3. Local(t)' = stack[t][2]
            BY <3>3, <6>1
          <6>4. Len(stack[t]) > 1
            <7>1. PICK n \in Nat : n # 0 /\ n = Len(stack[t])
              BY <6>2
            <7>2. n # 1
              BY <6>1, <6>2, <7>1
            <7>3. n = 0 \/ n = 1 \/ n > 1
              OBVIOUS
            <7> QED
              BY ONLY <7>1, <7>2, <7>3
          <6> QED
            BY ONLY <6>1, <6>3, <6>4
        <5>2. Doing(t, Calling) /\ ChecksHeal(t)
          BY <1>0, <1>1, <2>2, <3>1, AtTop DEF Lone, Doing, Calling
        <5>3. Sound(Alias \ (stack[t][2].rest \union {v}))
          BY <3>1, <5>1, <5>2 DEF ChecksHeal
        <5>4. ASSUME NEW w \in Alias \ Local(t)'.rest, handle'[w] > 0 PROVE handle'[w] \in live
          <6>1. CASE handle'[w] = handle[w] /\ w # v
            BY <5>1, <5>3, <5>4, <6>1 DEF Sound
          <6>2. CASE w = v /\ handle'[w] \notin live
            <7>1. HandlesLive(t) /\ Doing(t, {"factory.create"})
              BY <2>2, <3>1, <5>2 DEF Lone, Doing
            <7>2. handle[v] <= 0
              BY <3>1, <7>1 DEF HandlesLive
            <7>3. handle[v] > 0
              BY <1>5, <5>4, <6>2
            <7>4. handle[v] \in Int
              BY <1>5, <6>2
            <7> QED
              BY ONLY <7>2, <7>3, <7>4
          <6> QED
            BY <1>5, <5>4, <6>1, <6>2
        <5> QED
          BY <1>5, <5>4 DEF Sound
      <4> QED
        BY ONLY <4>1, <4>2 DEF ChecksHeal
    <3> QED
      BY <1>0, <1>1, <1>5, <2>2, <3>2, <3>4, AtTop, TopReturns DEF Lone
  <2> QED
    BY <1>0, <1>1, <1>5, <2>1, <2>2, AtTop DEF Kept
<1>6. CASE Return(t) /\ UNCHANGED <<object, com, plc, initialized, fault, hist>>
  BY <1>0, <1>5, <1>6 DEF object, DataTyped, Absent, Freed, Null
<1>7. CASE /\ RouteUsable /\ GetHandle(v) /\ Return(t)
           /\ UNCHANGED <<m_device_state, known, mapped, m_route, live, routes,
                          m_temp, com, plc, initialized, fault, hist>>
  <2>1. /\ handle' \in [Alias -> Int] /\ handle'[v] \in live
        /\ \A w \in Alias : w # v => handle'[w] = handle[w]
    BY <1>0, <1>1, <1>7 DEF GetHandle, RouteUsable, DataTyped, Absent, Freed, Null
  <2> QED
    BY <1>5, <1>7, <2>1
<1>8. CASE /\ CallFrom(t, f, CheckFrame)
           /\ UNCHANGED <<object, locks, plc, initialized, fault, hist>>
  <2>1. MapInv'
    BY <1>0, <1>1, <1>2, <1>8, MapCalls
    DEF WorksOn, Accessing, Calling, Below, HandlesMapped, MapInv, object
  <2>2. ASSUME Lone(t) PROVE Lone(t)'
    BY <1>0, <1>1, <1>2, <1>8, <2>2, AtTop, TopCalls
    DEF Lone, RouteLives, HandlesLive, ChecksHeal, Doing, Calling, Sound, object
  <2> QED
    BY <1>0, <1>1, <1>8, <2>1, <2>2, AtTop DEF Kept
<1> QED
  BY <1>3, <1>4, <1>6, <1>7, <1>8, CrashRoutes

LEMMA FactoryEndRoutes ==
  ASSUME AdsInv, MapInv, NEW t \in Thread, FactoryEnd(t)
  PROVE  MapInv' /\ (Lone(t) => Kept(t))
<1>0. LockInv /\ DataTyped
  BY DEF AdsInv
<1>1. /\ At(t, "factory.end") /\ Return(t)
      /\ UNCHANGED <<object, com, plc, initialized, fault, hist>>
  BY DEF FactoryEnd
<1>2. MapInv'
  BY <1>0, <1>1, MapReturns DEF HandlesMapped, MapInv, object
<1>3. ASSUME Lone(t) PROVE Lone(t)'
  <2>1. ASSUME stack'[t] # <<>>
        PROVE  Local(t)' = stack[t][2] /\ stack[t][2].at \in Below \ {"check.loop", "factory.end"}
    <3>1. Local(t)' = stack[t][2] /\ stack[t][2].at \in Below /\ Len(stack[t]) > 1
      BY <1>0, <1>1, <2>1, AtTop, TopReturns
    <3> QED
      BY <1>0, <1>1, <1>3, <3>1, AtTop DEF Lone, ChecksHeal, Doing, UnderMem
  <2> QED
    BY <1>0, <1>1, <1>3, <2>1, AtTop, TopReturns
    DEF Lone, RouteLives, HandlesLive, ChecksHeal, Doing, Calling, Sound, Below, object
<1> QED
  BY <1>0, <1>1, <1>2, <1>3, AtTop DEF Kept, object
-----------------------------------------------------------------------------
\* ConnectionCheck.
LEMMA CheckLockRoutes ==
  ASSUME AdsInv, MapInv, NEW t \in Thread, CheckLock(t)
  PROVE  MapInv' /\ (Lone(t) => Kept(t))
<1> DEFINE f == [Local(t) EXCEPT !.at = "check.state"]
<1>0. LockInv /\ DataTyped
  BY DEF AdsInv
<1>1. /\ At(t, "check.lock") /\ Goto(t, f)
      /\ UNCHANGED <<object, plc, initialized, fault, hist>>
  BY DEF CheckLock
<1>2. f \in Frames /\ f.at = "check.state" /\ f.flag = Local(t).flag
  BY <1>0, <1>1, AtStatement, PlacesHold DEF Frames
<1> HIDE DEF f
<1>3. MapInv'
  BY <1>0, <1>1, <1>2, MapGoesOn DEF WorksOn, Accessing, Calling, HandlesMapped, MapInv, object
<1>4. ASSUME Lone(t) PROVE Lone(t)'
  BY <1>0, <1>1, <1>2, <1>4, AtTop, TopGoesOn
  DEF Lone, RouteLives, HandlesLive, ChecksHeal, Doing, Calling, Sound, object
<1> QED
  BY <1>0, <1>1, <1>3, <1>4, AtTop DEF Kept

\* The check finds the route as it was, or takes it away.
LEMMA CheckStateRoutes ==
  ASSUME AdsInv, MapInv, NEW t \in Thread, CheckState(t)
  PROVE  MapInv' /\ (Lone(t) => Kept(t))
<1> DEFINE p == IF Local(t).flag THEN "check.end" ELSE "check.acquire"
           f == [Local(t) EXCEPT !.at = p, !.flag = TRUE]
           g == [Local(t) EXCEPT !.at = "check.route", !.flag = FALSE]
<1>0. LockInv /\ DataTyped
  BY DEF AdsInv
<1>1. At(t, "check.state") /\ Local(t) \in Frames
  BY <1>0, AtStatement DEF CheckState
<1>2. /\ f \in Frames /\ f.at = p
      /\ g \in Frames /\ g.at = "check.route" /\ g.flag = FALSE
  <2>1. p \in Places
    BY PlacesHold
  <2>2. g \in Frames /\ g.at = "check.route" /\ g.flag = FALSE
    BY <1>1, PlacesHold DEF Frames
  <2> HIDE DEF p
  <2>3. f \in Frames /\ f.at = p
    BY <1>1, <2>1 DEF Frames
  <2> QED
    BY <2>2, <2>3
<1>3. \/ Crash("deadRoute") /\ ~RouteUsable
      \/ Goto(t, f) /\ UNCHANGED <<object, locks, plc, initialized, fault, hist>>
      \/ /\ live' = live \ {m_route} /\ Goto(t, g)
         /\ UNCHANGED <<m_device_state, known, mapped, handle, m_route, routes,
                        m_temp, locks, plc, initialized, fault, hist>>
  BY Zenon DEF CheckState
<1> HIDE DEF f, g
<1>4. Lone(t) => RouteUsable
  BY <1>0, <1>1, AtTop DEF Lone, RouteLives, Doing, RouteUsable
<1>5. CASE Goto(t, f) /\ UNCHANGED <<object, locks, plc, initialized, fault, hist>>
  <2>1. MapInv'
    BY <1>0, <1>1, <1>2, <1>5, MapGoesOn
    DEF WorksOn, Accessing, Calling, HandlesMapped, MapInv, object
  <2>2. ASSUME Lone(t) PROVE Lone(t)'
    <3>1. f.at = "check.end" => Sound(Alias)
      BY <1>0, <1>1, <1>2, <2>2, AtTop DEF Lone, ChecksHeal, HandlesLive, Doing
    <3>2. f.at \in {"check.end", "check.acquire"}
      BY <1>2
    <3> HIDE DEF p
    <3>3. m_device_state => Sound(Alias)
      BY <1>0, <1>1, <2>2, AtTop DEF Lone, HandlesLive, Doing
    <3> QED
      BY <1>0, <1>1, <1>2, <1>5, <2>2, <3>1, <3>2, <3>3, AtTop, TopGoesOn
      DEF Lone, RouteLives, HandlesLive, ChecksHeal, Doing, Calling, Sound, object
  <2> QED
    BY <1>0, <1>1, <1>5, <2>1, <2>2, AtTop DEF Kept
<1>6. CASE /\ live' = live \ {m_route} /\ Goto(t, g)
           /\ UNCHANGED <<m_device_state, known, mapped, handle, m_route, routes,
                          m_temp, locks, plc, initialized, fault, hist>>
  <2>1. MapInv'
    BY <1>0, <1>1, <1>2, <1>6, MapGoesOn DEF WorksOn, Accessing, Calling, HandlesMapped, MapInv
  <2>2. ASSUME Lone(t) PROVE Lone(t)'
    BY <1>0, <1>1, <1>2, <1>6, <2>2, AtTop, TopGoesOn
    DEF Lone, RouteLives, HandlesLive, ChecksHeal, Doing, Calling
  <2> QED
    BY <1>0, <1>1, <1>6, <2>1, <2>2, AtTop DEF Kept
<1> QED
  BY <1>3, <1>4, <1>5, <1>6, CrashRoutes

LEMMA CheckRouteRoutes ==
  ASSUME AdsInv, MapInv, NEW t \in Thread, CheckRoute(t)
  PROVE  MapInv' /\ (Lone(t) /\ ~threw' => Kept(t))
<1> DEFINE f == [Local(t) EXCEPT !.at = "check.end"]
<1>0. LockInv /\ DataTyped
  BY DEF AdsInv
<1>1. At(t, "check.route")
  BY DEF CheckRoute
<1>2. f \in Frames /\ f.at = "check.end" /\ f.flag = Local(t).flag
  BY <1>0, <1>1, AtStatement, PlacesHold DEF Frames
<1>3. \/ /\ NewRoute /\ Goto(t, f)
         /\ UNCHANGED <<m_device_state, known, mapped, handle, m_temp, locks, plc,
                        initialized, fault, hist>>
      \/ /\ Unwind(t) /\ threw' = TRUE
         /\ UNCHANGED <<object, plc, initialized, fault, seen>>
  BY Zenon DEF CheckRoute
<1> HIDE DEF f
<1>4. CASE /\ NewRoute /\ Goto(t, f)
           /\ UNCHANGED <<m_device_state, known, mapped, handle, m_temp, locks, plc,
                          initialized, fault, hist>>
  <2>1. MapInv'
    BY <1>0, <1>1, <1>2, <1>4, MapGoesOn DEF WorksOn, Accessing, Calling, HandlesMapped, MapInv
  <2>2. ASSUME Lone(t) PROVE Lone(t)'
    <3>1. ~Local(t).flag /\ m_route' \in live' /\ live \subseteq live'
      BY <1>0, <1>1, <1>4, <2>2, AtTop DEF Lone, ChecksHeal, Doing, NewRoute
    <3> QED
      BY <1>0, <1>1, <1>2, <1>4, <2>2, <3>1, AtTop, TopGoesOn
      DEF Lone, RouteLives, HandlesLive, ChecksHeal, Doing, Calling
  <2> QED
    BY <1>0, <1>1, <1>4, <2>1, <2>2, AtTop DEF Kept
<1>5. CASE /\ Unwind(t) /\ threw' = TRUE
           /\ UNCHANGED <<object, plc, initialized, fault, seen>>
  <2>1. stack' = [stack EXCEPT ![t] = <<>>]
    BY <1>5 DEF Unwind, Finished
  <2>2. MapInv'
    BY <1>0, <1>5, <2>1, MapRestarts DEF HandlesMapped, MapInv, object
  <2> QED
    BY <1>5, <2>2
<1> QED
  BY <1>3, <1>4, <1>5

\* An operation of the only thread ends.
LEMMA LoneFinishes ==
  ASSUME AdsInv, MapInv, NEW t \in Thread, NEW p, At(t, p), stack' = [stack EXCEPT ![t] = <<>>],
         UNCHANGED <<m_device_state, mapped, handle, m_route, live, initialized, fault>>,
         p \notin {"check.route", "check.end", "init.route", "factory.lock", "factory.delete"}
  PROVE  MapInv' /\ (Lone(t) => Kept(t))
<1>0. LockInv /\ DataTyped
  BY DEF AdsInv
<1>1. stack'[t] = <<>> /\ \A u \in Thread : u # t => stack'[u] = stack[u]
  BY <1>0 DEF LockInv, Stacks
<1>2. MapInv'
  BY <1>0, MapRestarts DEF HandlesMapped, MapInv
<1>3. ASSUME Lone(t) PROVE Lone(t)'
  <2>1. ~(Len(<<>>) > 1) /\ initialized
    BY <1>0, <1>3, AtTop DEF Lone
  <2> QED
    BY <1>0, <1>1, <1>3, <2>1, AtTop
    DEF Lone, RouteLives, HandlesLive, ChecksHeal, Doing, Calling, Sound
<1> QED
  BY <1>0, <1>2, <1>3, AtTop DEF Kept

LEMMA AcquireRoutes ==
  ASSUME AdsInv, MapInv, NEW t \in Thread, NEW p, At(t, p), NEW next \in Frames, Acquire(t, next),
         \/ p = "check.acquire" /\ next.at = "check.loop" /\ next.rest = mapped
         \/ p = "init.acquire" /\ next.at = "init.bind"
  PROVE  MapInv' /\ (Lone(t) => Kept(t))
<1>0. LockInv /\ DataTyped
  BY DEF AdsInv
<1>1. \/ Crash("deadRoute") /\ ~RouteUsable
      \/ /\ Goto(t, next)
         /\ UNCHANGED <<m_device_state, mapped, handle, m_route, live, initialized, fault>>
      \/ /\ Unwind(t)
         /\ UNCHANGED <<m_device_state, mapped, handle, m_route, live, initialized, fault>>
  BY DEF Acquire, object
<1>2. Lone(t) => RouteUsable
  BY <1>0, AtTop DEF Lone, RouteLives, Doing, RouteUsable
<1>3. CASE /\ Goto(t, next)
           /\ UNCHANGED <<m_device_state, mapped, handle, m_route, live, initialized, fault>>
  <2>1. MapInv'
    BY <1>0, <1>3, MapGoesOn DEF WorksOn, Accessing, Calling, HandlesMapped, MapInv
  <2>2. ASSUME Lone(t) PROVE Lone(t)'
    <3>1. \A v \in Alias \ mapped : handle[v] = Absent
      BY DEF MapInv
    <3>2. next.at = "check.loop" => Sound(Alias \ next.rest)
      BY <3>1 DEF Sound, Absent
    <3> QED
      BY <1>0, <1>3, <2>2, <3>2, AtTop, TopGoesOn
      DEF Lone, RouteLives, HandlesLive, ChecksHeal, Doing, Calling, Sound
  <2> QED
    BY <1>0, <1>3, <2>1, <2>2, AtTop DEF Kept
<1>4. CASE /\ Unwind(t)
           /\ UNCHANGED <<m_device_state, mapped, handle, m_route, live, initialized, fault>>
  BY <1>4, LoneFinishes DEF Unwind, Finished
<1> QED
  BY <1>1, <1>2, <1>3, <1>4, CrashRoutes

LEMMA CheckAcquireRoutes ==
  ASSUME AdsInv, MapInv, NEW t \in Thread, CheckAcquire(t)
  PROVE  MapInv' /\ (Lone(t) => Kept(t))
<1> DEFINE next == [Local(t) EXCEPT !.at = "check.loop", !.rest = mapped]
<1>1. At(t, "check.acquire") /\ Acquire(t, next)
  BY DEF CheckAcquire
<1>2. next \in Frames /\ next.at = "check.loop" /\ next.rest = mapped
  BY <1>1, AtStatement, KnownVariables, PlacesHold DEF AdsInv, Frames
<1> HIDE DEF next
<1> QED
  BY <1>1, <1>2, AcquireRoutes

\* The loop of ConnectionCheck has given a new handle to all but the rest.
LEMMA CheckLoopRoutes ==
  ASSUME AdsInv, MapInv, NEW t \in Thread, CheckLoop(t)
  PROVE  MapInv' /\ (Lone(t) => Kept(t))
<1> DEFINE f == [Local(t) EXCEPT !.at = "check.end"]
           g(v) == [Local(t) EXCEPT !.rest = @ \ {v}]
<1>0. LockInv /\ DataTyped
  BY DEF AdsInv
<1>1. At(t, "check.loop") /\ Local(t) \in Frames /\ Local(t).rest \subseteq mapped
  BY <1>0, AtStatement, AtTop DEF CheckLoop, WorksOn
<1>2. /\ f \in Frames /\ f.at = "check.end" /\ f.flag = Local(t).flag
      /\ \A v \in Alias : /\ g(v) \in Frames /\ g(v).at = "check.loop"
                          /\ g(v).rest = Local(t).rest \ {v}
  BY <1>0, <1>1, AtStatement, PlacesHold DEF Frames
<1>3. /\ UNCHANGED <<object, locks, plc, initialized, fault, hist>>
      /\ \/ Local(t).rest = {} /\ Goto(t, f)
         \/ \E v \in Local(t).rest : CallFrom(t, g(v), FactoryFrame(v))
  BY DEF CheckLoop, Rebound
<1> HIDE DEF f, g
<1>4. CASE Local(t).rest = {} /\ Goto(t, f)
  <2>1. MapInv'
    BY <1>0, <1>1, <1>2, <1>3, <1>4, MapGoesOn
    DEF WorksOn, Accessing, Calling, HandlesMapped, MapInv, object
  <2>2. ASSUME Lone(t) PROVE Lone(t)'
    <3>1. Sound(Alias)
      BY <1>0, <1>1, <1>4, <2>2, AtTop DEF Lone, ChecksHeal, Doing, Sound
    <3> QED
      BY <1>0, <1>1, <1>2, <1>3, <1>4, <2>2, <3>1, AtTop, TopGoesOn
      DEF Lone, RouteLives, HandlesLive, ChecksHeal, Doing, Calling, Sound, object
  <2> QED
    BY <1>0, <1>1, <1>3, <2>1, <2>2, AtTop DEF Kept
<1>5. ASSUME NEW v \in Local(t).rest, CallFrom(t, g(v), FactoryFrame(v))
      PROVE  MapInv' /\ (Lone(t) => Kept(t))
  <2>0. /\ v \in Alias /\ v \in mapped /\ g(v) \in Frames /\ g(v).at = "check.loop"
        /\ g(v).rest = Local(t).rest \ {v} /\ FactoryFrame(v) \in Frames
        /\ FactoryFrame(v).at = "factory.lock" /\ FactoryFrame(v).var = v
    BY <1>0, <1>1, <1>2, <1>5, AtStatement, FactoryIsAFrame
  <2>1. MapInv'
    BY <1>0, <1>1, <1>3, <1>5, <2>0, MapCalls
    DEF WorksOn, Accessing, Calling, Below, HandlesMapped, MapInv, object
  <2>2. ASSUME Lone(t) PROVE Lone(t)'
    <3>1. Sound(Alias \ Local(t).rest)
      BY <1>0, <1>1, <2>2, AtTop DEF Lone, ChecksHeal, Doing
    <3>2. Local(t).rest = (Local(t).rest \ {v}) \union {v}
      BY <1>5
    <3> QED
      BY <1>0, <1>1, <1>3, <1>5, <2>0, <2>2, <3>1, <3>2, AtTop, TopCalls
      DEF Lone, RouteLives, HandlesLive, ChecksHeal, Doing, Calling, Sound, object
  <2> QED
    BY <1>0, <1>1, <1>3, <2>1, <2>2, AtTop DEF Kept
<1> QED
  BY <1>3, <1>4, <1>5

LEMMA CheckEndRoutes ==
  ASSUME AdsInv, MapInv, NEW t \in Thread, CheckEnd(t)
  PROVE  MapInv' /\ (Lone(t) => Kept(t))
<1>0. LockInv /\ DataTyped
  BY DEF AdsInv
<1>1. /\ At(t, "check.end") /\ m_device_state' = Local(t).flag
      /\ UNCHANGED <<known, mapped, handle, m_route, live, routes, m_temp, mem, plc,
                     initialized, fault, threw, seen>>
      /\ \/ Len(stack[t]) > 1 /\ Return(t)
         \/ stack' = [stack EXCEPT ![t] = <<>>]
  BY DEF CheckEnd, Finished
<1>2. Lone(t) => (m_device_state' => Sound(Alias))
  BY <1>0, <1>1, AtTop DEF Lone, ChecksHeal, Doing
<1>3. CASE Len(stack[t]) > 1 /\ Return(t)
  <2>1. MapInv'
    BY <1>0, <1>1, <1>3, MapReturns DEF HandlesMapped, MapInv
  <2>2. ASSUME Lone(t) PROVE Lone(t)'
    <3>1. Local(t)' = stack[t][2] /\ stack[t][2].at \in Below \ {"check.loop"}
      <4>1. stack'[t] # <<>> /\ Local(t)' = stack[t][2] /\ stack[t][2].at \in Below
        BY <1>0, <1>1, <1>3, AtTop, TopReturns
      <4> QED
        BY <1>0, <1>1, <1>3, <4>1, AtTop DEF UnderCom
    <3>2. Len(stack'[t]) > 1 => stack'[t][2] = stack[t][3] /\ stack[t][3].at # "check.loop"
      BY <1>0, <1>1, <1>3, AtTop, TopReturns DEF UnderCom
    <3> QED
      BY <1>0, <1>1, <1>2, <1>3, <2>2, <3>1, <3>2, AtTop, TopReturns
      DEF Lone, RouteLives, HandlesLive, ChecksHeal, Doing, Calling, Sound, Below
  <2> QED
    BY <1>0, <1>1, <2>1, <2>2, AtTop DEF Kept
<1>4. CASE stack' = [stack EXCEPT ![t] = <<>>]
  <2>1. stack'[t] = <<>> /\ \A u \in Thread : u # t => stack'[u] = stack[u]
    BY <1>0, <1>4 DEF LockInv, Stacks
  <2>2. MapInv'
    BY <1>0, <1>1, <1>4, MapRestarts DEF HandlesMapped, MapInv
  <2>3. ASSUME Lone(t) PROVE Lone(t)'
    <3>1. ~(Len(<<>>) > 1) /\ initialized
      BY <1>0, <1>1, <2>3, AtTop DEF Lone
    <3> QED
      BY <1>0, <1>1, <1>2, <2>1, <2>3, <3>1, AtTop
      DEF Lone, RouteLives, HandlesLive, ChecksHeal, Doing, Calling, Sound
  <2> QED
    BY <1>0, <1>1, <2>2, <2>3, AtTop DEF Kept
<1> QED
  BY <1>1, <1>3, <1>4

-----------------------------------------------------------------------------
\* What the only thread finds where it accesses a variable.
LEMMA AccessRoutes ==
  ASSUME DataTyped, NEW u \in Thread, HandlesLive(u), NEW v \in mapped, m_device_state,
         ~Doing(u, {"check.route", "check.end", "factory.lock", "factory.delete"})
  PROVE  Sound(Alias) /\ Access(handle[v]) # "deadRoute"
<1>1. Sound(Alias) /\ handle[v] # Absent /\ v \in Alias
  BY KnownVariables DEF HandlesLive, Doing
<1>2. handle[v] \in {Null, Freed} \/ handle[v] \in 1 .. routes
  BY <1>1 DEF DataTyped
<1>3. handle[v] \in 1 .. routes => handle[v] \in live
  BY <1>1 DEF Sound, DataTyped
<1> QED
  BY <1>1, <1>2, <1>3 DEF Access

\* An operation goes on to a statement that no part of RouteInv is about.
LEMMA OperationGoesOn ==
  ASSUME AdsInv, MapInv, NEW t \in Thread, NEW p, At(t, p), NEW f \in Frames, Goto(t, f),
         UNCHANGED <<m_device_state, mapped, handle, m_route, live, initialized, fault>>,
         p \in {"write.lock", "read.lock", "read.access"}, f.var = Local(t).var,
         \/ f.at = "write.access" /\ p = "write.lock"
         \/ f.at \in {"read.access", "read.convert"}
  PROVE  MapInv' /\ (Lone(t) => Kept(t))
<1>0. LockInv /\ DataTyped
  BY DEF AdsInv
<1>1. MapInv'
  BY <1>0, AtTop, MapGoesOn DEF WorksOn, Accessing, Calling, HandlesMapped, MapInv
<1>2. ASSUME Lone(t) PROVE Lone(t)'
  BY <1>0, <1>2, AtTop, TopGoesOn
  DEF Lone, RouteLives, HandlesLive, ChecksHeal, Doing, Calling, Sound
<1> QED
  BY <1>0, <1>1, <1>2, AtTop DEF Kept

\* An operation calls Factory.
LEMMA OperationCalls ==
  ASSUME AdsInv, MapInv, NEW t \in Thread, NEW p, At(t, p), NEW f \in Frames,
         NEW v \in mapped', CallFrom(t, f, FactoryFrame(v)), v \in Alias,
         UNCHANGED <<m_device_state, handle, m_route, live, initialized, fault>>,
         mapped \subseteq mapped', mapped' \subseteq mapped \union {v},
         p \in {"write.access", "read.access", "init.bind"},
         f.at \in {"write.done", "read.failed", "init.bind"}
  PROVE  MapInv' /\ (Lone(t) => Kept(t))
<1>0. LockInv /\ DataTyped
  BY DEF AdsInv
<1>1. /\ FactoryFrame(v) \in Frames /\ FactoryFrame(v).at = "factory.lock"
      /\ FactoryFrame(v).var = v
  BY FactoryIsAFrame
<1>2. MapInv'
  BY <1>0, <1>1, MapCalls DEF WorksOn, Accessing, Calling, Below, HandlesMapped, MapInv
<1>3. ASSUME Lone(t) PROVE Lone(t)'
  BY <1>0, <1>1, <1>3, AtTop, TopCalls
  DEF Lone, RouteLives, HandlesLive, ChecksHeal, Doing, Calling, Sound
<1> QED
  BY <1>0, <1>2, <1>3, AtTop DEF Kept

\* AdsWriteValue.
LEMMA WriteLockRoutes ==
  ASSUME AdsInv, MapInv, NEW t \in Thread, WriteLock(t)
  PROVE  MapInv' /\ (Lone(t) => Kept(t))
<1> DEFINE f == [Local(t) EXCEPT !.at = "write.access"]
<1>1. /\ At(t, "write.lock") /\ Goto(t, f)
      /\ UNCHANGED <<m_device_state, mapped, handle, m_route, live, initialized, fault>>
  BY DEF WriteLock, object
<1>2. f \in Frames /\ f.at = "write.access" /\ f.var = Local(t).var
  BY <1>1, AtStatement, PlacesHold DEF AdsInv, Frames
<1> HIDE DEF f
<1> QED
  BY <1>1, <1>2, OperationGoesOn

LEMMA WriteAccessRoutes ==
  ASSUME AdsInv, MapInv, NEW t \in Thread, NEW x, WriteAccess(t, x)
  PROVE  MapInv' /\ (Lone(t) => Kept(t))
<1> DEFINE v == Local(t).var
           f == [Local(t) EXCEPT !.at = "write.done"]
           Same == UNCHANGED <<m_device_state, mapped, handle, m_route, live, initialized,
                               fault>>
<1>0. LockInv /\ DataTyped
  BY DEF AdsInv
<1>1. At(t, "write.access")
  BY DEF WriteAccess
<1>2. v \in mapped /\ v \in Alias
  BY <1>0, <1>1, AtTop, AtStatement DEF WorksOn, Accessing
<1>3. f \in Frames /\ f.at = "write.done"
  BY <1>0, <1>1, AtStatement, PlacesHold DEF Frames
<1>4. \/ Same /\ CallFrom(t, f, FactoryFrame(v))
      \/ Access(handle[v]) # "valid" /\ Crash(Access(handle[v]))
      \/ Same /\ stack' = [stack EXCEPT ![t] = <<>>]
  BY DEF WriteAccess, object, Finished
<1> HIDE DEF f, v
<1>5. CASE Same /\ CallFrom(t, f, FactoryFrame(v))
  BY <1>1, <1>2, <1>3, <1>5, OperationCalls
<1>6. CASE Access(handle[v]) # "valid" /\ Crash(Access(handle[v]))
  <2>1. Access(handle[v]) # "none"
    BY DEF Access
  <2>2. Lone(t) => Access(handle[v]) # "deadRoute"
    BY <1>0, <1>1, <1>2, AtTop, AccessRoutes DEF Lone, HandlesLive, Doing
  <2> QED
    BY <1>6, <2>1, <2>2, CrashRoutes
<1>7. CASE Same /\ stack' = [stack EXCEPT ![t] = <<>>]
  BY <1>1, <1>7, LoneFinishes
<1> QED
  BY <1>4, <1>5, <1>6, <1>7

LEMMA WriteRoutes ==
  ASSUME AdsInv, MapInv, NEW t \in Thread, AdsWriteValue(t)
  PROVE  MapInv' /\ (Lone(t) => Kept(t))
<1>1. CASE WriteDone(t)
  <2>1. /\ At(t, "write.done") /\ stack' = [stack EXCEPT ![t] = <<>>]
        /\ UNCHANGED <<m_device_state, mapped, handle, m_route, live, initialized, fault>>
    BY <1>1 DEF WriteDone, Finished, object
  <2> QED
    BY <2>1, LoneFinishes
<1> QED
  BY <1>1, WriteLockRoutes, WriteAccessRoutes DEF AdsWriteValue

\* AdsReadValue.
LEMMA ReadLockRoutes ==
  ASSUME AdsInv, MapInv, NEW t \in Thread, ReadLock(t)
  PROVE  MapInv' /\ (Lone(t) => Kept(t))
<1> DEFINE f == [Local(t) EXCEPT !.at = "read.access"]
<1>1. /\ At(t, "read.lock") /\ Goto(t, f)
      /\ UNCHANGED <<m_device_state, mapped, handle, m_route, live, initialized, fault>>
  BY DEF ReadLock, object
<1>2. f \in Frames /\ f.at = "read.access" /\ f.var = Local(t).var
  BY <1>1, AtStatement, PlacesHold DEF AdsInv, Frames
<1> HIDE DEF f
<1> QED
  BY <1>1, <1>2, OperationGoesOn

LEMMA ReadAccessRoutes ==
  ASSUME AdsInv, MapInv, NEW t \in Thread, ReadAccess(t)
  PROVE  MapInv' /\ (Lone(t) => Kept(t))
<1> DEFINE v == Local(t).var
           f == [Local(t) EXCEPT !.at = "read.convert"]
           g == [Local(t) EXCEPT !.at = "read.failed"]
           Same == UNCHANGED <<m_device_state, mapped, handle, m_route, live, initialized,
                               fault>>
<1>0. LockInv /\ DataTyped
  BY DEF AdsInv
<1>1. At(t, "read.access")
  BY DEF ReadAccess
<1>2. v \in mapped /\ v \in Alias
  BY <1>0, <1>1, AtTop, AtStatement DEF WorksOn, Accessing
<1>3. /\ f \in Frames /\ f.at = "read.convert" /\ f.var = Local(t).var
      /\ g \in Frames /\ g.at = "read.failed"
  BY <1>0, <1>1, AtStatement, PlacesHold DEF Frames
<1>4. \/ Same /\ stack' = [stack EXCEPT ![t] = <<>>]
      \/ /\ m_device_state /\ Access(handle[v]) \in {"freedHandle", "deadRoute"}
         /\ Crash(Access(handle[v]))
      \/ Same /\ Goto(t, f)
      \/ Same /\ CallFrom(t, g, FactoryFrame(v))
  BY DEF ReadAccess, ReadReturns, object, Finished
<1> HIDE DEF f, g, v
<1>5. CASE Same /\ stack' = [stack EXCEPT ![t] = <<>>]
  BY <1>1, <1>5, LoneFinishes
<1>6. CASE /\ m_device_state /\ Access(handle[v]) \in {"freedHandle", "deadRoute"}
           /\ Crash(Access(handle[v]))
  <2>1. Lone(t) => Access(handle[v]) # "deadRoute"
    BY <1>0, <1>1, <1>2, <1>6, AtTop, AccessRoutes DEF Lone, Doing
  <2> QED
    BY <1>6, <2>1, CrashRoutes
<1>7. CASE Same /\ Goto(t, f)
  BY <1>1, <1>3, <1>7, OperationGoesOn
<1>8. CASE Same /\ CallFrom(t, g, FactoryFrame(v))
  BY <1>1, <1>2, <1>3, <1>8, OperationCalls
<1> QED
  BY <1>4, <1>5, <1>6, <1>7, <1>8

LEMMA ReadRoutes ==
  ASSUME AdsInv, MapInv, NEW t \in Thread, AdsReadValue(t)
  PROVE  MapInv' /\ (Lone(t) => Kept(t))
<1>1. CASE ReadConvert(t)
  <2>1. /\ At(t, "read.convert") /\ stack' = [stack EXCEPT ![t] = <<>>]
        /\ UNCHANGED <<m_device_state, mapped, handle, m_route, live, initialized, fault>>
    BY <1>1 DEF ReadConvert, ReadReturns, Finished, object
  <2> QED
    BY <2>1, LoneFinishes
<1> QED
  BY <1>1, ReadLockRoutes, ReadAccessRoutes DEF AdsReadValue

-----------------------------------------------------------------------------
\* The start-up.
LEMMA InitializeRouteRoutes ==
  ASSUME AdsInv, MapInv, NEW t \in Thread, InitializeRoute(t)
  PROVE  MapInv' /\ (Lone(t) /\ ~threw' => Kept(t))
<1> DEFINE f == [Local(t) EXCEPT !.at = "init.acquire"]
<1>0. LockInv /\ DataTyped
  BY DEF AdsInv
<1>1. At(t, "init.route")
  BY DEF InitializeRoute
<1>2. f \in Frames /\ f.at = "init.acquire"
  BY <1>0, <1>1, AtStatement, PlacesHold DEF Frames
<1>3. \/ /\ NewRoute /\ Goto(t, f)
         /\ UNCHANGED <<m_device_state, known, mapped, handle, m_temp, locks, plc,
                        initialized, fault, hist>>
      \/ /\ stack' = [stack EXCEPT ![t] = <<>>] /\ threw' = TRUE
         /\ UNCHANGED <<object, locks, plc, initialized, fault, seen>>
  BY Zenon DEF InitializeRoute, Finished
<1> HIDE DEF f
<1>4. CASE /\ NewRoute /\ Goto(t, f)
           /\ UNCHANGED <<m_device_state, known, mapped, handle, m_temp, locks, plc,
                          initialized, fault, hist>>
  <2>1. MapInv'
    BY <1>0, <1>1, <1>2, <1>4, MapGoesOn DEF WorksOn, Accessing, Calling, HandlesMapped, MapInv
  <2>2. ASSUME Lone(t) PROVE Lone(t)'
    <3>1. m_route' \in live' /\ live \subseteq live'
      BY <1>4 DEF NewRoute
    <3> QED
      BY <1>0, <1>1, <1>2, <1>4, <2>2, <3>1, AtTop, TopGoesOn
      DEF Lone, RouteLives, HandlesLive, ChecksHeal, Doing, Calling, Sound
  <2> QED
    BY <1>0, <1>1, <1>4, <2>1, <2>2, AtTop DEF Kept
<1>5. CASE /\ stack' = [stack EXCEPT ![t] = <<>>] /\ threw' = TRUE
           /\ UNCHANGED <<object, locks, plc, initialized, fault, seen>>
  <2>1. MapInv'
    BY <1>0, <1>5, MapRestarts DEF HandlesMapped, MapInv, object
  <2> QED
    BY <1>5, <2>1
<1> QED
  BY <1>3, <1>4, <1>5

LEMMA InitializeAcquireRoutes ==
  ASSUME AdsInv, MapInv, NEW t \in Thread, InitializeAcquire(t)
  PROVE  MapInv' /\ (Lone(t) => Kept(t))
<1> DEFINE next == [Local(t) EXCEPT !.at = "init.bind", !.rest = Alias]
<1>1. At(t, "init.acquire") /\ Acquire(t, next)
  BY DEF InitializeAcquire
<1>2. next \in Frames /\ next.at = "init.bind"
  <2>1. PICK r \in Frames : r = Local(t)
    BY <1>1, AtStatement DEF AdsInv
  <2>2. [r EXCEPT !.at = "init.bind", !.rest = Alias] \in Frames
    BY PlacesHold DEF Frames
  <2>3. [r EXCEPT !.at = "init.bind", !.rest = Alias].at = "init.bind"
    BY DEF Frames
  <2> QED
    BY ONLY <2>1, <2>2, <2>3
<1> HIDE DEF next
<1> QED
  BY <1>1, <1>2, AcquireRoutes

LEMMA BindRoutes ==
  ASSUME AdsInv, MapInv, NEW t \in Thread, BindPLCVar(t)
  PROVE  MapInv' /\ (Lone(t) => Kept(t))
<1> DEFINE f(v) == [Local(t) EXCEPT !.rest = @ \ {v}]
<1>0. LockInv /\ DataTyped
  BY DEF AdsInv
<1>1. /\ At(t, "init.bind")
      /\ UNCHANGED <<m_device_state, handle, m_route, live, initialized, fault>>
      /\ \/ \E v \in Local(t).rest \intersect known :
              mapped' = mapped \union {v} /\ CallFrom(t, f(v), FactoryFrame(v))
         \/ stack' = [stack EXCEPT ![t] = <<>>] /\ UNCHANGED mapped
  BY Zenon DEF BindPLCVar, Finished
<1>2. ASSUME NEW v \in Local(t).rest \intersect known, mapped' = mapped \union {v},
             CallFrom(t, f(v), FactoryFrame(v))
      PROVE  MapInv' /\ (Lone(t) => Kept(t))
  <2>1. v \in Alias /\ f(v) \in Frames /\ f(v).at = "init.bind"
    BY <1>0, <1>1, <1>2, AtStatement, PlacesHold DEF Frames
  <2> HIDE DEF f
  <2> QED
    BY <1>1, <1>2, <2>1, OperationCalls
<1>3. CASE stack' = [stack EXCEPT ![t] = <<>>] /\ UNCHANGED mapped
  BY <1>1, <1>3, LoneFinishes
<1> QED
  BY <1>1, <1>2, <1>3

-----------------------------------------------------------------------------
\* An operation begins.
LEMMA BeginRoutes ==
  ASSUME AdsInv, MapInv, NEW t \in Thread, stack[t] = <<>>, fault = "none",
         NEW s, stack' = [stack EXCEPT ![t] = s], initialized',
         UNCHANGED <<m_device_state, mapped, handle, m_route, live, fault>>,
         \/ /\ initialized
            /\ \E f \in Frames : /\ s = <<f>> /\ WorksOn(f, mapped)
                                 /\ \/ f.at = "write.lock" /\ m_device_state
                                    \/ f.at = "read.lock"
                                    \/ f.at = "check.lock" /\ f.flag = m_device_state
         \/ \E f \in Frames : s = <<f>> /\ f.at = "init.route"
         \/ /\ initialized
            /\ \E f, g \in Frames : /\ s = <<g, f>> /\ g.at = "factory.lock"
                                    /\ g.var \in mapped /\ f.at = "write.done"
  PROVE  MapInv' /\ (Lone(t) => Kept(t))
<1>0. LockInv /\ DataTyped
  BY DEF AdsInv
<1>1. stack'[t] = s /\ \A u \in Thread : u # t => stack'[u] = stack[u]
  BY <1>0 DEF LockInv, Stacks
<1>2. ASSUME NEW f \in Frames, s = <<f>>, WorksOn(f, mapped),
             \/ initialized /\ f.at = "write.lock" /\ m_device_state
             \/ initialized /\ f.at = "read.lock"
             \/ initialized /\ f.at = "check.lock" /\ f.flag = m_device_state
             \/ f.at = "init.route"
      PROVE  MapInv' /\ (Lone(t) => Kept(t))
  <2>1. DOMAIN s = {1} /\ Len(s) = 1 /\ s[1] = f /\ Head(s) = f /\ s # <<>>
    BY <1>2
  <2>2. MapInv'
    BY <1>0, <1>2, <2>1, MapRestarts DEF HandlesMapped, MapInv, WorksOn
  <2>3. ASSUME Lone(t) PROVE Lone(t)'
    BY <1>1, <1>2, <2>1, <2>3
    DEF Lone, RouteLives, HandlesLive, ChecksHeal, Doing, Calling, Sound, Local
  <2> QED
    BY <2>2, <2>3 DEF Kept
<1>3. ASSUME NEW f \in Frames, NEW g \in Frames, initialized, s = <<g, f>>,
             g.at = "factory.lock", g.var \in mapped, f.at = "write.done"
      PROVE  MapInv' /\ (Lone(t) => Kept(t))
  <2>1. /\ DOMAIN s = {1, 2} /\ Len(s) = 2 /\ s[1] = g /\ s[2] = f
        /\ Head(s) = g /\ s # <<>>
    BY <1>3
  <2>2. MapInv'
    <3>1. WorksOn(g, mapped) /\ WorksOn(f, mapped) /\ f.at \in Below
      BY <1>3 DEF WorksOn, Accessing, Calling, Below
    <3>2. \A i \in DOMAIN s : WorksOn(s[i], mapped) /\ (i > 1 => s[i].at \in Below)
      BY <2>1, <3>1
    <3>3. HandlesMapped' /\ mapped' = mapped
      BY <1>0 DEF HandlesMapped, MapInv
    <3> QED
      BY <1>0, <3>2, <3>3, MapRestarts
  <2>3. ASSUME Lone(t) PROVE Lone(t)'
    BY <1>1, <1>3, <2>1, <2>3
    DEF Lone, RouteLives, HandlesLive, ChecksHeal, Doing, Calling, Sound, Local
  <2> QED
    BY <2>2, <2>3 DEF Kept
<1>4. \A f \in Frames : f.at = "init.route" => WorksOn(f, mapped)
  BY DEF WorksOn, Accessing, Calling
<1> QED
  BY <1>2, <1>3, <1>4

LEMMA NothingBegins ==
  ASSUME AdsInv, MapInv, NEW t \in Thread, fault = "none",
         UNCHANGED <<stack, m_device_state, mapped, handle, m_route, live, initialized, fault>>
  PROVE  MapInv' /\ (Lone(t) => Kept(t))
BY DEF MapInv, WorksOn, Kept, Lone, RouteLives, HandlesLive, ChecksHeal, Doing, Sound, Local

LEMMA BeginWriteRoutes ==
  ASSUME AdsInv, MapInv, NEW t \in Thread, NEW v \in Alias, BeginWrite(t, v)
  PROVE  MapInv' /\ (Lone(t) => Kept(t))
<1> DEFINE f(p) == Frame(p, v, {}, FALSE)
<1>1. /\ stack[t] = <<>> /\ fault = "none" /\ initialized
      /\ UNCHANGED <<m_device_state, mapped, handle, m_route, live, initialized, fault>>
      /\ \/ UNCHANGED stack
         \/ v \in mapped /\ m_device_state /\ stack' = [stack EXCEPT ![t] = <<f("write.lock")>>]
         \/ v \in mapped /\ stack' = [stack EXCEPT ![t] = <<FactoryFrame(v), f("write.done")>>]
  BY DEF BeginWrite, Begins, object
<1>2. /\ \A p \in {"write.lock", "write.done"} :
           f(p) \in Frames /\ f(p).at = p /\ f(p).var = v /\ f(p).rest = {}
      /\ FactoryFrame(v) \in Frames /\ FactoryFrame(v).at = "factory.lock"
      /\ FactoryFrame(v).var = v
  BY FactoryIsAFrame DEF Frame, Frames, Places
<1> HIDE DEF f
<1>3. v \in mapped => WorksOn(f("write.lock"), mapped)
  BY <1>2 DEF WorksOn
<1>4. CASE UNCHANGED stack
  BY <1>1, <1>4, NothingBegins
<1>5. CASE v \in mapped /\ m_device_state /\ stack' = [stack EXCEPT ![t] = <<f("write.lock")>>]
  BY <1>1, <1>2, <1>3, <1>5, BeginRoutes
<1>6. CASE v \in mapped /\ stack' = [stack EXCEPT ![t] = <<FactoryFrame(v), f("write.done")>>]
  BY <1>1, <1>2, <1>6, BeginRoutes
<1> QED
  BY <1>1, <1>4, <1>5, <1>6

LEMMA BeginReadRoutes ==
  ASSUME AdsInv, MapInv, NEW t \in Thread, NEW v \in Alias, BeginRead(t, v)
  PROVE  MapInv' /\ (Lone(t) => Kept(t))
<1> DEFINE f == Frame("read.lock", v, {}, FALSE)
<1>1. /\ stack[t] = <<>> /\ fault = "none" /\ initialized
      /\ UNCHANGED <<m_device_state, mapped, handle, m_route, live, initialized, fault>>
      /\ \/ UNCHANGED stack
         \/ handle[v] # Absent /\ stack' = [stack EXCEPT ![t] = <<f>>]
  BY DEF BeginRead, Begins, object
<1>2. f \in Frames /\ f.at = "read.lock" /\ f.var = v /\ f.rest = {}
  BY DEF Frame, Frames, Places
<1> HIDE DEF f
<1>3. CASE UNCHANGED stack
  BY <1>1, <1>3, NothingBegins
<1>4. CASE handle[v] # Absent /\ stack' = [stack EXCEPT ![t] = <<f>>]
  <2>1. WorksOn(f, mapped)
    BY <1>2, <1>4 DEF WorksOn, MapInv
  <2> QED
    BY <1>1, <1>2, <1>4, <2>1, BeginRoutes
<1> QED
  BY <1>1, <1>3, <1>4

LEMMA BeginCheckRoutes ==
  ASSUME AdsInv, MapInv, NEW t \in Thread, BeginCheck(t) \/ BeginInitialize(t)
  PROVE  MapInv' /\ (Lone(t) => Kept(t))
<1>1. CASE BeginCheck(t)
  <2>1. /\ stack[t] = <<>> /\ fault = "none" /\ initialized
        /\ stack' = [stack EXCEPT ![t] = <<CheckFrame>>]
        /\ UNCHANGED <<m_device_state, mapped, handle, m_route, live, initialized, fault>>
    BY <1>1 DEF BeginCheck, Begins, object
  <2>2. /\ CheckFrame \in Frames /\ CheckFrame.at = "check.lock"
        /\ CheckFrame.flag = m_device_state /\ CheckFrame.rest = {}
    BY FactoryIsAFrame DEF AdsInv, DataTyped, CheckFrame, Frame
  <2>3. WorksOn(CheckFrame, mapped)
    BY <2>2 DEF WorksOn, Accessing, Calling
  <2> QED
    BY <2>1, <2>2, <2>3, BeginRoutes
<1>2. CASE BeginInitialize(t)
  <2> DEFINE f == Frame("init.route", CHOOSE v \in Alias : TRUE, {}, FALSE)
  <2>1. /\ stack[t] = <<>> /\ fault = "none" /\ initialized' = TRUE
        /\ stack' = [stack EXCEPT ![t] = <<f>>]
        /\ UNCHANGED <<m_device_state, mapped, handle, m_route, live, fault>>
    BY <1>2 DEF BeginInitialize, object
  <2>2. f \in Frames /\ f.at = "init.route"
    BY FactoryIsAFrame DEF Frame, Frames, Places
  <2> HIDE DEF f
  <2> QED
    BY <2>1, <2>2, BeginRoutes
<1> QED
  BY <1>1, <1>2
\* A step of the only thread, an operation it begins, and the rest.
LEMMA StepRoutes ==
  ASSUME AdsInv, MapInv, NEW t \in Thread, Step(t)
  PROVE  /\ fault = "none" /\ stack[t] # <<>>
         /\ MapInv' /\ (Lone(t) /\ ~threw' => Kept(t)) /\ (threw => threw')
<1>1. CASE Factory(t)
  <2>1. MapInv' /\ (Lone(t) => Kept(t))
    BY <1>1, FactoryLockRoutes, FactoryDeleteRoutes, FactoryCreateRoutes, FactoryEndRoutes
    DEF Factory
  <2> QED
    BY <1>1, <2>1 DEF Factory, FactoryLock, FactoryDelete, FactoryCreate, FactoryEnd, Crash, At,
       hist
<1>2. CASE ConnectionCheck(t)
  <2>1. MapInv' /\ (Lone(t) /\ ~threw' => Kept(t))
    BY <1>2, CheckLockRoutes, CheckStateRoutes, CheckRouteRoutes, CheckAcquireRoutes,
       CheckLoopRoutes, CheckEndRoutes DEF ConnectionCheck
  <2> QED
    BY <1>2, <2>1 DEF ConnectionCheck, CheckLock, CheckState, CheckRoute, CheckAcquire,
       Acquire, CheckLoop, CheckEnd, Crash, At, hist
<1>3. CASE AdsWriteValue(t)
  <2>1. fault = "none" /\ stack[t] # <<>> /\ threw' = threw
    BY <1>3 DEF AdsWriteValue, WriteLock, WriteDone, WriteAccess, Crash, At, hist
  <2> QED
    BY <1>3, <2>1, WriteRoutes
<1>4. CASE AdsReadValue(t)
  <2>1. fault = "none" /\ stack[t] # <<>> /\ threw' = threw
    BY <1>4 DEF AdsReadValue, ReadLock, ReadAccess, ReadConvert, Crash, At, hist
  <2> QED
    BY <1>4, <2>1, ReadRoutes
<1>5. CASE Initialize(t)
  <2>1. fault = "none" /\ stack[t] # <<>> /\ (threw => threw')
    <3>1. CASE InitializeRoute(t)
      <4>1. At(t, "init.route") /\ (UNCHANGED hist \/ threw' = TRUE)
        BY <3>1, Zenon DEF InitializeRoute
      <4> QED
        BY <4>1 DEF At, hist
    <3>2. CASE InitializeAcquire(t)
      BY <3>2 DEF InitializeAcquire, Acquire, Crash, At, hist
    <3>3. CASE BindPLCVar(t)
      BY <3>3 DEF BindPLCVar, At
    <3> QED
      BY <1>5, <3>1, <3>2, <3>3 DEF Initialize
  <2> QED
    BY <1>5, <2>1, InitializeRouteRoutes, InitializeAcquireRoutes, BindRoutes DEF Initialize
<1> QED
  BY <1>1, <1>2, <1>3, <1>4, <1>5 DEF Step

LEMMA OthersRoute ==
  ASSUME MapInv, NEW u \in Thread,
         \/ Destroy
         \/ \E v \in Alias, x \in Val : PlcMoves(v, x)
         \/ UNCHANGED adsVars
  PROVE  /\ MapInv' /\ (threw => threw')
         /\ fault # "deadRoute" /\ (fault = "none" => Lone(u)) => Kept(u)
<1>1. UNCHANGED <<stack, m_device_state, mapped, handle, m_route, live, initialized, threw>>
      /\ (fault' = fault \/ fault' \in {"doubleFree", "destroyed"})
  BY DEF Destroy, PlcMoves, adsVars, object, hist
<1> QED
  BY <1>1 DEF MapInv, WorksOn, Kept, Lone, RouteLives, HandlesLive, ChecksHeal, Doing, Sound,
     Local

LEMMA RouteStep ==
  ASSUME AdsInv, MapInv, RouteInv, [AdsNext]_adsVars
  PROVE  MapInv' /\ RouteInv'
<1>0. setting' = setting
  BY DEF AdsNext, adsVars
<1>1. ASSUME NEW t \in Thread,
             MapInv', threw => threw', fault = "none", Lone(t) /\ ~threw' => Kept(t),
             t \in setting.users \/ stack[t] # <<>>
      PROVE  MapInv' /\ RouteInv'
  <2> SUFFICES ASSUME NEW u \in Thread, setting.users = {u}, ~threw'
               PROVE  fault' # "deadRoute" /\ (fault' = "none" => Lone(u)')
    BY <1>0, <1>1 DEF RouteInv
  <2>1. Lone(u)
    BY <1>1 DEF RouteInv
  <2>2. t = u
    BY <1>1, <2>1 DEF Lone
  <2> QED
    BY <1>1, <2>1, <2>2 DEF Kept
<1>2. ASSUME NEW t \in Thread, Step(t) PROVE MapInv' /\ RouteInv'
  BY <1>1, <1>2, StepRoutes
<1>3. ASSUME NEW t \in Thread, BeginCheck(t) \/ BeginInitialize(t) PROVE MapInv' /\ RouteInv'
  <2>1. fault = "none" /\ t \in setting.users /\ threw' = threw
    BY <1>3 DEF BeginCheck, BeginInitialize, Begins, hist
  <2> QED
    BY <1>1, <1>3, <2>1, BeginCheckRoutes
<1>4. ASSUME NEW t \in Thread, NEW v \in Alias, BeginWrite(t, v) \/ BeginRead(t, v)
      PROVE  MapInv' /\ RouteInv'
  <2>1. fault = "none" /\ t \in setting.users /\ threw' = threw
    BY <1>4 DEF BeginWrite, BeginRead, Begins
  <2> QED
    BY <1>1, <1>4, <2>1, BeginWriteRoutes, BeginReadRoutes
<1>5. ASSUME \/ Destroy
             \/ \E v \in Alias, x \in Val : PlcMoves(v, x)
             \/ UNCHANGED adsVars
      PROVE  MapInv' /\ RouteInv'
  <2>1. MapInv' /\ (threw => threw')
        /\ \A u \in Thread : fault # "deadRoute" /\ (fault = "none" => Lone(u)) => Kept(u)
    <3>1. Thread # {} => MapInv' /\ (threw => threw')
      BY <1>5, OthersRoute
    <3>2. Thread = {} => MapInv' /\ (threw => threw')
      BY <1>5 DEF MapInv, Destroy, PlcMoves, adsVars, object, hist
    <3> QED
      BY <1>5, <3>1, <3>2, OthersRoute
  <2> QED
    BY <1>0, <2>1 DEF RouteInv, Kept
<1> QED
  BY <1>2, <1>3, <1>4, <1>5, Zenon DEF AdsNext

LEMMA RouteStart == AdsInit => MapInv /\ RouteInv
<1> SUFFICES ASSUME AdsInit PROVE MapInv /\ RouteInv
  OBVIOUS
<1>1. /\ \A v \in Alias : handle[v] = Absent
      /\ \A t \in Thread : stack[t] = <<>> /\ DOMAIN stack[t] = {} /\ ~(Len(stack[t]) > 1)
  BY DEF AdsInit
<1>2. ~m_device_state /\ mapped = {} /\ ~initialized /\ fault = "none"
  BY DEF AdsInit
<1> QED
  BY <1>1, <1>2 DEF MapInv, RouteInv, Lone, RouteLives, HandlesLive, ChecksHeal, Doing, Absent

\* A single thread never uses a handle on a route that is gone, through any
\* sequence of failures, recoveries and start-ups, unless InitRoute threw: the
\* recovery turns m_device_state off before it leaves such handles behind, and
\* on again only when it has made them all anew.
THEOREM NoDeadRoutes == AdsSpec => []NoDeadRoute
<1>1. AdsInv /\ RouteInv => NoDeadRoute
  <2> SUFFICES ASSUME AdsInv, RouteInv, fault = "deadRoute", Cardinality(setting.users) = 1
               PROVE  threw
    BY DEF NoDeadRoute
  <2>1. setting \in Setting
    BY DEF AdsInv, DataTyped
  <2>2. IsFiniteSet(setting.users) /\ setting.users \subseteq Thread
    BY <2>1, AdsAssumption
  <2>3. PICK u : setting.users = {u}
    BY <2>2, FS_Singleton
  <2>4. u \in Thread
    BY <2>2, <2>3
  <2> QED
    BY <2>3, <2>4 DEF RouteInv
<1>2. AdsInv /\ MapInv /\ RouteInv /\ [AdsNext]_adsVars => MapInv' /\ RouteInv'
  BY RouteStep
<1> QED
  BY <1>1, <1>2, RouteStart, AdsStart, AdsStep, PTL DEF AdsSpec

-----------------------------------------------------------------------------
(***************************************************************************)
(* No deadlock while the PLC answers.                                      *)
(***************************************************************************)
\* No call to the PLC throws, and Factory knows the types of all variables.
Calm == ~setting.fails /\ \A v \in Alias : ~Unsupported(v)

\* Then the only call inside another one is Factory, called from where neither
\* mutex is held or, in ConnectionCheck, m_com_mutex only.
Shallow(s) ==
  /\ Len(s) <= 2
  /\ Len(s) > 0 => s[1].at # "read.failed"
  /\ Len(s) = 2 => s[1].at \in Calling /\ s[2].at \in {"check.loop", "write.done", "init.bind"}

\* A null handle is about to be replaced by the Factory that made it null.
Mended ==
  \A v \in Alias : handle[v] = Null =>
    \E t \in Thread : Doing(t, {"factory.create"}) /\ Local(t).var = v

CalmInv == Calm => Mended /\ \A t \in Thread : Shallow(stack[t])

\* A thread that has no step: a mutex it asks for is taken, or the Factory of
\* its failed read has returned, which that never does.
Waits(t) ==
  \/ At(t, "factory.lock") /\ mem # NoThread
  \/ At(t, "check.lock") /\ com # NoThread
  \/ (At(t, "write.lock") \/ At(t, "read.lock")) /\ (com # NoThread \/ mem # NoThread)
  \/ At(t, "read.failed")

SomeoneIsFree ==
  Calm /\ fault = "none" /\ (\E t \in Thread : stack[t] # <<>>)
    => \E t \in Thread : stack[t] # <<>> /\ ~Waits(t)

\* What a step of one thread has to keep.
Undone(t, v) == Doing(t, {"factory.create"}) /\ Local(t).var = v

LEMMA CalmStep ==
  ASSUME CalmInv, NEW t \in Thread, setting' = setting, Calm => Shallow(stack[t])',
         \A u \in Thread : u # t => stack'[u] = stack[u],
         Calm => \A v \in Alias : handle'[v] = Null =>
           (handle[v] = Null /\ ~Undone(t, v)) \/ Undone(t, v)'
  PROVE  CalmInv'
<1>1. Calm' <=> Calm
  BY DEF Calm, Unsupported
<1> SUFFICES ASSUME Calm PROVE Mended' /\ \A u \in Thread : Shallow(stack[u])'
  BY <1>1 DEF CalmInv
<1>2. \A u \in Thread : Shallow(stack[u])'
  BY DEF CalmInv, Shallow
<1>3. ASSUME NEW v \in Alias, handle'[v] = Null
      PROVE  \E u \in Thread : Doing(u, {"factory.create"})' /\ Local(u)'.var = v
  <2>1. CASE Undone(t, v)'
    BY <2>1 DEF Undone
  <2>2. CASE handle[v] = Null /\ ~Undone(t, v)
    <3>1. PICK u \in Thread : Doing(u, {"factory.create"}) /\ Local(u).var = v
      BY <2>2 DEF CalmInv, Mended
    <3>2. stack'[u] = stack[u]
      BY <2>2, <3>1 DEF Undone
    <3> QED
      BY <3>1, <3>2 DEF Doing, Local
  <2> QED
    BY <1>3, <2>1, <2>2
<1> QED
  BY <1>2, <1>3 DEF Mended

LEMMA OneOrTwo == \A n \in Nat \ {0} : n <= 2 => n \in {1, 2}
OBVIOUS

\* The innermost call goes on: Factory to its next statement, or a call that
\* is alone on its stack.
LEMMA CalmGoes ==
  ASSUME CalmInv, LockInv, setting' = setting, NEW t \in Thread, NEW p, At(t, p),
         NEW f \in Frames, Goto(t, f), f.at # "read.failed",
         p \in Calling => f.at \in Calling,
         \/ p # "factory.create" /\ handle' = handle
         \/ /\ f.at = "factory.create" /\ p = "factory.delete"
            /\ \A v \in Alias : v # f.var => handle'[v] = handle[v]
  PROVE  CalmInv'
<1>1. Local(t).at = p /\ Local(t) = stack[t][1]
  BY AtStatement, ScopeIsOwned
<1>2. Calm => Shallow(stack[t])'
  BY <1>1, TopGoesOn DEF Shallow, CalmInv
<1>3. ASSUME NEW v \in Alias, handle'[v] = Null
      PROVE  (handle[v] = Null /\ ~Undone(t, v)) \/ Undone(t, v)'
  <2>1. ~Undone(t, v)
    BY <1>1 DEF Undone, Doing
  <2>2. f.at = "factory.create" /\ v = f.var => Undone(t, v)'
    BY TopGoesOn DEF Undone, Doing
  <2> QED
    BY <1>3, <2>1, <2>2
<1> QED
  BY <1>2, <1>3, TopGoesOn, CalmStep

\* An operation or a check calls Factory.
LEMMA CalmCalls ==
  ASSUME CalmInv, LockInv, setting' = setting, NEW t \in Thread, NEW p, At(t, p), NEW f \in Frames,
         NEW v \in Alias, CallFrom(t, f, FactoryFrame(v)), handle' = handle,
         Calm => p \notin Calling /\ f.at \in {"check.loop", "write.done", "init.bind"}
  PROVE  CalmInv'
<1>0. FactoryFrame(v) \in Frames /\ FactoryFrame(v).at = "factory.lock"
  BY FactoryIsAFrame
<1>1. Local(t).at = p /\ Local(t) = stack[t][1]
  BY AtStatement, ScopeIsOwned
<1>2. /\ Len(stack'[t]) = Len(stack[t]) + 1 /\ Len(stack[t]) \in Nat \ {0}
      /\ stack'[t][1].at = "factory.lock" /\ stack'[t][2] = f
      /\ \A u \in Thread : u # t => stack'[u] = stack[u]
  BY <1>0, TopCalls
<1>3. ASSUME Calm PROVE Shallow(stack[t])'
  <2>0. p \notin Calling /\ f.at \in {"check.loop", "write.done", "init.bind"}
    BY <1>3, Zenon
  <2>1. Len(stack[t]) <= 2 /\ Len(stack[t]) # 2
    BY <1>1, <1>3, <2>0 DEF Shallow, CalmInv
  <2>2. Len(stack'[t]) = 2
    <3>1. Len(stack[t]) \in Nat \ {0} /\ Len(stack'[t]) = Len(stack[t]) + 1
      BY <1>2
    <3>2. Len(stack[t]) = 1
      BY <2>1, <3>1, OneOrTwo, Zenon
    <3> QED
      BY <3>1, <3>2
  <2>3. stack'[t][1].at = "factory.lock" /\ stack'[t][2].at = f.at
    BY <1>2
  <2> QED
    BY <2>0, <2>2, <2>3 DEF Shallow, Calling
<1>4. Calm => \A w \in Alias : ~Undone(t, w)
  BY <1>1 DEF Undone, Doing, Calling
<1> QED
  BY <1>2, <1>3, <1>4, CalmStep

\* The innermost call returns; if it was Factory, with a handle for its variable.
LEMMA CalmReturns ==
  ASSUME CalmInv, LockInv, setting' = setting, NEW t \in Thread, NEW p, At(t, p), Return(t),
         Calm => \A v \in Alias : handle'[v] = Null => handle[v] = Null /\ ~Undone(t, v)
  PROVE  CalmInv'
<1>1. ASSUME Calm PROVE Shallow(stack[t])'
  <2>1. Len(stack[t]) \in Nat \ {0} /\ Len(stack'[t]) = Len(stack[t]) - 1
    BY TopReturns
  <2>2. Len(stack[t]) <= 2
    BY <1>1 DEF Shallow, CalmInv
  <2>3. CASE Len(stack[t]) = 1
    BY <2>1, <2>3 DEF Shallow
  <2>4. CASE Len(stack[t]) = 2
    <3>1. Len(stack'[t]) = 1 /\ stack[t][2].at \in {"check.loop", "write.done", "init.bind"}
      BY <1>1, <2>1, <2>4 DEF Shallow, CalmInv
    <3>2. stack'[t][1] = stack[t][2]
      BY <2>4, TopReturns
    <3> QED
      BY <3>1, <3>2 DEF Shallow
  <2>5. Len(stack[t]) \in {1, 2}
    BY <2>1, <2>2, OneOrTwo, Zenon
  <2> QED
    BY <2>3, <2>4, <2>5
<1> QED
  BY <1>1, TopReturns, CalmStep

\* A thread ends its operation, or begins one.
LEMMA CalmRestarts ==
  ASSUME CalmInv, LockInv, setting' = setting, NEW t \in Thread, NEW s,
         stack' = [stack EXCEPT ![t] = s], Shallow(s), handle' = handle,
         ~Doing(t, {"factory.create"})
  PROVE  CalmInv'
<1>1. stack'[t] = s /\ \A u \in Thread : u # t => stack'[u] = stack[u]
  BY DEF LockInv, Stacks
<1>2. Shallow(stack[t])' /\ \A v \in Alias : ~Undone(t, v)
  BY <1>1 DEF Undone, Shallow
<1> QED
  BY <1>1, <1>2, CalmStep

LEMMA EmptyIsShallow == Shallow(<<>>)
BY DEF Shallow

LEMMA CalmRests ==
  ASSUME CalmInv, setting' = setting, UNCHANGED <<stack, handle>>
  PROVE  CalmInv'
BY DEF CalmInv, Calm, Unsupported, Mended, Shallow, Doing, Local

-----------------------------------------------------------------------------
\* Factory gives every handle it takes back.
LEMMA CalmFactory ==
  ASSUME AdsInv, CalmInv, setting' = setting, NEW t \in Thread, Factory(t)
  PROVE  CalmInv'
<1>0. LockInv /\ DataTyped
  BY DEF AdsInv
<1>1. CASE FactoryLock(t)
  <2> DEFINE f == [Local(t) EXCEPT !.at = "factory.delete"]
  <2>1. At(t, "factory.lock") /\ Goto(t, f) /\ handle' = handle
    BY <1>1 DEF FactoryLock, object
  <2>2. f \in Frames /\ f.at = "factory.delete"
    BY <1>0, <2>1, AtStatement, PlacesHold DEF Frames
  <2> HIDE DEF f
  <2> QED
    BY <1>0, <2>1, <2>2, CalmGoes DEF Calling
<1>2. CASE FactoryDelete(t)
  <2> DEFINE v == Local(t).var
             f == [Local(t) EXCEPT !.at = "factory.create"]
  <2>1. At(t, "factory.delete")
    BY <1>2 DEF FactoryDelete
  <2>2. f \in Frames /\ f.at = "factory.create" /\ f.var = v /\ v \in Alias
    BY <1>0, <2>1, AtStatement, PlacesHold DEF Frames
  <2>3. \/ Crash("doubleFree")
        \/ Goto(t, f) /\ handle' = [handle EXCEPT ![v] = IF @ > 0 THEN Freed ELSE Null]
    BY <1>2 DEF FactoryDelete
  <2> HIDE DEF f, v
  <2>4. CASE Goto(t, f) /\ handle' = [handle EXCEPT ![v] = IF @ > 0 THEN Freed ELSE Null]
    <3>1. \A w \in Alias : w # v => handle'[w] = handle[w]
      BY <1>0, <2>4 DEF DataTyped
    <3> QED
      BY <1>0, <2>1, <2>2, <2>4, <3>1, CalmGoes DEF Calling
  <2> QED
    BY <2>3, <2>4, CalmRests DEF Crash, object
<1>3. CASE FactoryCreate(t)
  <2> DEFINE v == Local(t).var
  <2>1. At(t, "factory.create")
    BY <1>3 DEF FactoryCreate
  <2>2. v \in Alias /\ Local(t).at = "factory.create"
    BY <1>0, <2>1, AtStatement
  <2>3. \/ Unsupported(v) /\ Return(t)
        \/ stack' = stack /\ handle' = handle
        \/ RouteUsable /\ GetHandle(v) /\ Return(t)
        \/ /\ Fails /\ handle' = handle
           /\ CallFrom(t, [Local(t) EXCEPT !.at = "factory.end"], CheckFrame)
    BY <1>3 DEF FactoryCreate, Crash, object
  <2> HIDE DEF v
  <2>4. CASE stack' = stack /\ handle' = handle
    BY <2>4, CalmRests
  <2>5. CASE RouteUsable /\ GetHandle(v) /\ Return(t)
    <3>1. m_route # Null
      BY <1>0, <2>5 DEF RouteUsable, DataTyped, Null
    <3>2. \A w \in Alias : handle'[w] = IF w = v THEN m_route ELSE handle[w]
      BY <1>0, <2>2, <2>5 DEF GetHandle, DataTyped
    <3>3. \A w \in Alias : w # v => ~Undone(t, w)
      BY DEF Undone, v
    <3> QED
      BY <1>0, <2>1, <2>5, <3>1, <3>2, <3>3, CalmReturns
  <2>6. CASE ~Calm
    BY <2>6 DEF CalmInv, Calm, Unsupported
  <2>7. Calm => ~Unsupported(v) /\ ~Fails
    BY <2>2 DEF Calm, Fails
  <2> QED
    BY <2>3, <2>4, <2>5, <2>6, <2>7
<1>4. CASE FactoryEnd(t)
  <2>1. At(t, "factory.end") /\ Return(t) /\ handle' = handle
    BY <1>4 DEF FactoryEnd, object
  <2>2. \A v \in Alias : ~Undone(t, v)
    BY <1>0, <2>1, AtStatement DEF Undone, Doing
  <2> QED
    BY <1>0, <2>1, <2>2, CalmReturns
<1> QED
  BY <1>1, <1>2, <1>3, <1>4 DEF Factory

\* A thread that is in no Factory ends its operation.
LEMMA CalmFinishes ==
  ASSUME CalmInv, LockInv, setting' = setting, NEW t \in Thread, NEW p, At(t, p),
         stack' = [stack EXCEPT ![t] = <<>>], handle' = handle, p # "factory.create"
  PROVE  CalmInv'
<1>1. ~Doing(t, {"factory.create"})
  BY AtStatement DEF Doing
<1> QED
  BY <1>1, EmptyIsShallow, CalmRestarts

LEMMA CalmAcquire ==
  ASSUME CalmInv, LockInv, setting' = setting, NEW t \in Thread, NEW p, At(t, p), p \notin Calling,
         NEW next \in Frames, Acquire(t, next), next.at # "read.failed"
  PROVE  CalmInv'
<1>1. /\ handle' = handle
      /\ stack' = stack \/ Goto(t, next) \/ stack' = [stack EXCEPT ![t] = <<>>]
  BY DEF Acquire, Crash, Unwind, Finished, object
<1>2. p # "factory.create"
  BY DEF Calling
<1> QED
  BY <1>1, <1>2, CalmGoes, CalmFinishes, CalmRests

\* ConnectionCheck calls Factory from its loop.
LEMMA CalmCheck ==
  ASSUME AdsInv, CalmInv, setting' = setting, NEW t \in Thread, ConnectionCheck(t)
  PROVE  CalmInv'
<1>0. LockInv /\ DataTyped
  BY DEF AdsInv
<1>1. CASE CheckLock(t)
  <2> DEFINE f == [Local(t) EXCEPT !.at = "check.state"]
  <2>1. At(t, "check.lock") /\ Goto(t, f) /\ handle' = handle
    BY <1>1 DEF CheckLock, object
  <2>2. f \in Frames /\ f.at = "check.state"
    BY <1>0, <2>1, AtStatement, PlacesHold DEF Frames
  <2> HIDE DEF f
  <2> QED
    BY <1>0, <2>1, <2>2, CalmGoes DEF Calling
<1>2. CASE CheckState(t)
  <2> DEFINE p == IF Local(t).flag THEN "check.end" ELSE "check.acquire"
             f == [Local(t) EXCEPT !.at = p, !.flag = TRUE]
             g == [Local(t) EXCEPT !.at = "check.route", !.flag = FALSE]
  <2>1. At(t, "check.state")
    BY <1>2 DEF CheckState
  <2>2. /\ f \in Frames /\ f.at \in {"check.end", "check.acquire"}
        /\ g \in Frames /\ g.at = "check.route"
    <3>1. p \in {"check.end", "check.acquire"} /\ p \in Places
      BY PlacesHold
    <3> HIDE DEF p
    <3> QED
      <4>1. Local(t) \in Frames
        BY <1>0, <2>1, AtStatement
      <4>2. f \in Frames /\ f.at = p
        BY <3>1, <4>1, Zenon DEF Frames
      <4>3. g \in Frames /\ g.at = "check.route"
        BY <4>1, PlacesHold, Zenon DEF Frames
      <4> QED
        BY <3>1, <4>2, <4>3, Zenon
  <2>3. \/ stack' = stack /\ handle' = handle
        \/ (Goto(t, f) \/ Goto(t, g)) /\ handle' = handle
    BY <1>2, Zenon DEF CheckState, Crash, object
  <2> HIDE DEF f, g
  <2> QED
    BY <1>0, <2>1, <2>2, <2>3, CalmGoes, CalmRests DEF Calling
<1>3. CASE CheckRoute(t)
  <2> DEFINE f == [Local(t) EXCEPT !.at = "check.end"]
  <2>1. At(t, "check.route")
    BY <1>3 DEF CheckRoute
  <2>2. f \in Frames /\ f.at = "check.end"
    BY <1>0, <2>1, AtStatement, PlacesHold DEF Frames
  <2>3. handle' = handle /\ (Goto(t, f) \/ stack' = [stack EXCEPT ![t] = <<>>])
    BY <1>3, Zenon DEF CheckRoute, Unwind, Finished, object
  <2> HIDE DEF f
  <2> QED
    BY <1>0, <2>1, <2>2, <2>3, CalmFinishes, CalmGoes DEF Calling
<1>4. CASE CheckAcquire(t)
  <2> DEFINE f == [Local(t) EXCEPT !.at = "check.loop", !.rest = mapped]
  <2>1. At(t, "check.acquire") /\ Acquire(t, f)
    BY <1>4 DEF CheckAcquire
  <2>2. f \in Frames /\ f.at = "check.loop"
    <3>1. PICK r \in Frames : r = Local(t)
      BY <1>0, <2>1, AtStatement
    <3>2. mapped \in SUBSET Alias
      BY <1>0, KnownVariables
    <3>3. [r EXCEPT !.at = "check.loop", !.rest = mapped] \in Frames
      BY <3>2, PlacesHold DEF Frames
    <3>4. [r EXCEPT !.at = "check.loop", !.rest = mapped].at = "check.loop"
      BY DEF Frames
    <3> QED
      BY ONLY <3>1, <3>3, <3>4
  <2> HIDE DEF f
  <2> QED
    BY <1>0, <2>1, <2>2, CalmAcquire DEF Calling
<1>5. CASE CheckLoop(t)
  <2> DEFINE f == [Local(t) EXCEPT !.at = "check.end"]
             g(v) == [Local(t) EXCEPT !.rest = @ \ {v}]
  <2>1. At(t, "check.loop") /\ Local(t) \in Frames /\ Local(t).rest \subseteq Alias
    BY <1>0, <1>5, AtStatement DEF CheckLoop
  <2>2. /\ f \in Frames /\ f.at = "check.end"
        /\ \A v \in Alias : g(v) \in Frames /\ g(v).at = "check.loop"
    BY <1>0, <2>1, AtStatement, PlacesHold DEF Frames
  <2>3. /\ handle' = handle
        /\ \/ Goto(t, f)
           \/ \E v \in Alias : CallFrom(t, g(v), FactoryFrame(v))
    BY <1>5, <2>1 DEF CheckLoop, Rebound, object
  <2> HIDE DEF f, g
  <2> QED
    BY <1>0, <2>1, <2>2, <2>3, CalmGoes, CalmCalls DEF Calling
<1>6. CASE CheckEnd(t)
  <2>1. At(t, "check.end") /\ handle' = handle
    BY <1>6 DEF CheckEnd
  <2>2. Return(t) \/ stack' = [stack EXCEPT ![t] = <<>>]
    BY <1>6 DEF CheckEnd, Finished
  <2>3. \A v \in Alias : ~Undone(t, v)
    BY <1>0, <2>1, AtStatement DEF Undone, Doing
  <2> QED
    BY <1>0, <2>1, <2>2, <2>3, CalmFinishes, CalmReturns
<1> QED
  BY <1>1, <1>2, <1>3, <1>4, <1>5, <1>6 DEF ConnectionCheck

LEMMA CalmWrite ==
  ASSUME AdsInv, CalmInv, setting' = setting, NEW t \in Thread, AdsWriteValue(t)
  PROVE  CalmInv'
<1>0. LockInv
  BY DEF AdsInv
<1>1. CASE WriteLock(t)
  <2> DEFINE f == [Local(t) EXCEPT !.at = "write.access"]
  <2>1. At(t, "write.lock") /\ Goto(t, f) /\ handle' = handle
    BY <1>1 DEF WriteLock, object
  <2>2. f \in Frames /\ f.at = "write.access"
    BY <1>0, <2>1, AtStatement, PlacesHold DEF Frames
  <2> HIDE DEF f
  <2> QED
    BY <1>0, <2>1, <2>2, CalmGoes DEF Calling
<1>2. CASE WriteDone(t)
  <2>1. At(t, "write.done") /\ stack' = [stack EXCEPT ![t] = <<>>] /\ handle' = handle
    BY <1>2 DEF WriteDone, Finished, object
  <2> QED
    BY <1>0, <2>1, CalmFinishes
<1>3. ASSUME NEW x \in Val, WriteAccess(t, x) PROVE CalmInv'
  <2> DEFINE v == Local(t).var
             f == [Local(t) EXCEPT !.at = "write.done"]
  <2>1. At(t, "write.access") /\ handle' = handle
    BY <1>3 DEF WriteAccess, Crash, object
  <2>2. v \in Alias /\ f \in Frames /\ f.at = "write.done"
    BY <1>0, <2>1, AtStatement, PlacesHold DEF Frames
  <2>3. \/ stack' = stack
        \/ stack' = [stack EXCEPT ![t] = <<>>]
        \/ CallFrom(t, f, FactoryFrame(v))
    BY <1>3 DEF WriteAccess, Crash, Finished
  <2> HIDE DEF f, v
  <2>4. CASE stack' = stack
    BY <2>1, <2>4, CalmRests
  <2>5. CASE stack' = [stack EXCEPT ![t] = <<>>]
    BY <1>0, <2>1, <2>5, CalmFinishes
  <2>6. CASE CallFrom(t, f, FactoryFrame(v))
    BY <1>0, <2>1, <2>2, <2>6, CalmCalls DEF Calling
  <2> QED
    BY <2>3, <2>4, <2>5, <2>6
<1> QED
  BY <1>1, <1>2, <1>3 DEF AdsWriteValue

\* A read meets no null handle: the Factory that is about to replace one holds
\* m_mem_mutex, and so does the read.
LEMMA CalmRead ==
  ASSUME AdsInv, CalmInv, setting' = setting, NEW t \in Thread, AdsReadValue(t)
  PROVE  CalmInv'
<1>0. LockInv
  BY DEF AdsInv
<1>1. CASE ReadLock(t)
  <2> DEFINE f == [Local(t) EXCEPT !.at = "read.access"]
  <2>1. At(t, "read.lock") /\ Goto(t, f) /\ handle' = handle
    BY <1>1 DEF ReadLock, object
  <2>2. f \in Frames /\ f.at = "read.access"
    BY <1>0, <2>1, AtStatement, PlacesHold DEF Frames
  <2> HIDE DEF f
  <2> QED
    BY <1>0, <2>1, <2>2, CalmGoes DEF Calling
<1>2. CASE ReadAccess(t)
  <2> DEFINE v == Local(t).var
             f == [Local(t) EXCEPT !.at = "read.convert"]
  <2>1. At(t, "read.access") /\ handle' = handle
    BY <1>2 DEF ReadAccess, Crash, object
  <2>2. v \in Alias /\ f \in Frames /\ f.at = "read.convert" /\ mem = t
    BY <1>0, <2>1, AtStatement, PlacesHold DEF Frames, UnderMem
  <2>3. \/ stack' = stack
        \/ stack' = [stack EXCEPT ![t] = <<>>]
        \/ Goto(t, f)
        \/ Access(handle[v]) = "nullHandle" \/ Fails
    BY <1>2 DEF ReadAccess, ReadReturns, Crash, Finished
  <2> HIDE DEF f, v
  <2>4. CASE stack' = stack
    BY <2>1, <2>4, CalmRests
  <2>5. CASE stack' = [stack EXCEPT ![t] = <<>>]
    BY <1>0, <2>1, <2>5, CalmFinishes
  <2>6. CASE Goto(t, f)
    BY <1>0, <2>1, <2>2, <2>6, CalmGoes DEF Calling
  <2>7. Calm => Access(handle[v]) # "nullHandle" /\ ~Fails
    <3>1. ASSUME Calm, handle[v] = Null PROVE FALSE
      <4>1. PICK u \in Thread : Doing(u, {"factory.create"})
        BY <2>2, <3>1 DEF CalmInv, Mended
      <4>2. stack[u] # <<>> /\ Head(stack[u]).at = "factory.create"
        BY <4>1 DEF Doing, Local
      <4>3. mem = u
        BY <1>0, <4>2, ScopeIsOwned DEF UnderMem
      <4>4. Head(stack[t]).at = "read.access"
        BY <1>0, <2>1, AtStatement
      <4> QED
        BY <2>2, <4>2, <4>3, <4>4
    <3> QED
      BY <3>1 DEF Access, Calm, Fails
  <2>8. CASE ~Calm
    BY <2>8 DEF CalmInv, Calm, Unsupported
  <2> QED
    BY <2>3, <2>4, <2>5, <2>6, <2>7, <2>8
<1>3. CASE ReadConvert(t)
  <2>1. At(t, "read.convert") /\ stack' = [stack EXCEPT ![t] = <<>>] /\ handle' = handle
    BY <1>3 DEF ReadConvert, ReadReturns, Finished, object
  <2> QED
    BY <1>0, <2>1, CalmFinishes
<1> QED
  BY <1>1, <1>2, <1>3 DEF AdsReadValue

LEMMA CalmInitialize ==
  ASSUME AdsInv, CalmInv, setting' = setting, NEW t \in Thread, Initialize(t)
  PROVE  CalmInv'
<1>0. LockInv
  BY DEF AdsInv
<1>1. CASE InitializeRoute(t)
  <2> DEFINE f == [Local(t) EXCEPT !.at = "init.acquire"]
  <2>1. At(t, "init.route")
    BY <1>1 DEF InitializeRoute
  <2>2. f \in Frames /\ f.at = "init.acquire"
    BY <1>0, <2>1, AtStatement, PlacesHold DEF Frames
  <2>3. handle' = handle /\ (Goto(t, f) \/ stack' = [stack EXCEPT ![t] = <<>>])
    BY <1>1, Zenon DEF InitializeRoute, Finished, object
  <2> HIDE DEF f
  <2> QED
    BY <1>0, <2>1, <2>2, <2>3, CalmGoes, CalmFinishes DEF Calling
<1>2. CASE InitializeAcquire(t)
  <2> DEFINE f == [Local(t) EXCEPT !.at = "init.bind", !.rest = Alias]
  <2>1. At(t, "init.acquire") /\ Acquire(t, f)
    BY <1>2 DEF InitializeAcquire
  <2>2. f \in Frames /\ f.at = "init.bind"
    <3>1. PICK r \in Frames : r = Local(t)
      BY <1>0, <2>1, AtStatement
    <3>2. [r EXCEPT !.at = "init.bind", !.rest = Alias] \in Frames
      BY PlacesHold DEF Frames
    <3>3. [r EXCEPT !.at = "init.bind", !.rest = Alias].at = "init.bind"
      BY DEF Frames
    <3> QED
      BY ONLY <3>1, <3>2, <3>3
  <2> HIDE DEF f
  <2> QED
    BY <1>0, <2>1, <2>2, CalmAcquire DEF Calling
<1>3. CASE BindPLCVar(t)
  <2> DEFINE g(v) == [Local(t) EXCEPT !.rest = @ \ {v}]
  <2>1. At(t, "init.bind") /\ handle' = handle
    BY <1>3 DEF BindPLCVar
  <2>2. /\ Local(t) \in Frames /\ Local(t).rest \subseteq Alias
        /\ \A v \in Alias : g(v) \in Frames /\ g(v).at = "init.bind"
    BY <1>0, <2>1, AtStatement DEF Frames
  <2>3. \/ stack' = [stack EXCEPT ![t] = <<>>]
        \/ \E v \in Alias : CallFrom(t, g(v), FactoryFrame(v))
    BY <1>3, <2>2 DEF BindPLCVar, Finished
  <2> HIDE DEF g
  <2> QED
    BY <1>0, <2>1, <2>2, <2>3, CalmFinishes, CalmCalls DEF Calling
<1> QED
  BY <1>1, <1>2, <1>3 DEF Initialize

\* An operation begins with one call, or with a Factory call inside a write.
LEMMA CalmBegins ==
  ASSUME AdsInv, CalmInv, setting' = setting, NEW t \in Thread,
         \/ BeginCheck(t) \/ BeginInitialize(t)
         \/ \E v \in Alias : BeginWrite(t, v) \/ BeginRead(t, v)
  PROVE  CalmInv'
<1>0. LockInv /\ m_device_state \in BOOLEAN
  BY DEF AdsInv, DataTyped
<1>1. stack[t] = <<>> /\ handle' = handle
  BY DEF BeginCheck, BeginInitialize, BeginWrite, BeginRead, Begins, object
<1>2. ~Doing(t, {"factory.create"})
  BY <1>1 DEF Doing
<1>3. ASSUME NEW f \in Frames, f.at # "read.failed", stack' = [stack EXCEPT ![t] = <<f>>]
      PROVE  CalmInv'
  <2>1. Shallow(<<f>>)
    BY <1>3 DEF Shallow
  <2> QED
    BY <1>0, <1>1, <1>2, <1>3, <2>1, CalmRestarts
<1>4. CASE BeginCheck(t)
  <2>1. CheckFrame \in Frames /\ CheckFrame.at = "check.lock"
    BY <1>0, FactoryIsAFrame
  <2> QED
    BY <1>3, <1>4, <2>1 DEF BeginCheck
<1>5. CASE BeginInitialize(t)
  <2> DEFINE f == Frame("init.route", CHOOSE v \in Alias : TRUE, {}, FALSE)
  <2>1. f \in Frames /\ f.at = "init.route"
    BY FactoryIsAFrame DEF Frame, Frames, Places
  <2>2. stack' = [stack EXCEPT ![t] = <<f>>]
    BY <1>5 DEF BeginInitialize
  <2> HIDE DEF f
  <2> QED
    BY <1>3, <2>1, <2>2
<1>6. ASSUME NEW v \in Alias, BeginWrite(t, v) PROVE CalmInv'
  <2> DEFINE f == Frame("write.lock", v, {}, FALSE)
             g == Frame("write.done", v, {}, FALSE)
             s == <<FactoryFrame(v), g>>
  <2>1. f \in Frames /\ f.at = "write.lock" /\ g \in Frames /\ g.at = "write.done"
    BY DEF Frame, Frames, Places
  <2>2. \/ stack' = stack
        \/ stack' = [stack EXCEPT ![t] = <<f>>]
        \/ stack' = [stack EXCEPT ![t] = s]
    BY <1>6 DEF BeginWrite
  <2> HIDE DEF f, g
  <2>3. Shallow(s)
    <3>1. Len(s) = 2 /\ s[1].at = "factory.lock" /\ s[2].at = "write.done"
      BY <2>1, FactoryIsAFrame
    <3> HIDE DEF s
    <3> QED
      BY <3>1 DEF Shallow, Calling
  <2> HIDE DEF s
  <2> QED
    BY <1>0, <1>1, <1>2, <1>3, <2>1, <2>2, <2>3, CalmRestarts, CalmRests
<1>7. ASSUME NEW v \in Alias, BeginRead(t, v) PROVE CalmInv'
  <2> DEFINE f == Frame("read.lock", v, {}, FALSE)
  <2>1. f \in Frames /\ f.at = "read.lock"
    BY DEF Frame, Frames, Places
  <2>2. stack' = stack \/ stack' = [stack EXCEPT ![t] = <<f>>]
    BY <1>7 DEF BeginRead
  <2> HIDE DEF f
  <2> QED
    BY <1>1, <1>3, <2>1, <2>2, CalmRests
<1> QED
  BY <1>4, <1>5, <1>6, <1>7

LEMMA CalmStart == AdsInit => CalmInv
BY EmptyIsShallow DEF AdsInit, CalmInv, Mended, Absent, Null

LEMMA CalmNext == AdsInv /\ CalmInv /\ [AdsNext]_adsVars => CalmInv'
<1> SUFFICES ASSUME AdsInv, CalmInv, [AdsNext]_adsVars PROVE CalmInv'
  OBVIOUS
<1>0. setting' = setting
  BY DEF AdsNext, adsVars
<1>1. ASSUME NEW t \in Thread, Step(t) PROVE CalmInv'
  BY <1>0, <1>1, CalmFactory, CalmCheck, CalmWrite, CalmRead, CalmInitialize DEF Step
<1>2. ASSUME NEW t \in Thread, \/ BeginCheck(t) \/ BeginInitialize(t)
                               \/ \E v \in Alias : BeginWrite(t, v) \/ BeginRead(t, v)
      PROVE  CalmInv'
  BY <1>0, <1>2, CalmBegins
<1>3. CASE Destroy \/ (\E v \in Alias, x \in Val : PlcMoves(v, x)) \/ UNCHANGED adsVars
  <2>1. UNCHANGED <<stack, handle>>
    BY <1>3 DEF Destroy, PlcMoves, adsVars, object
  <2> QED
    BY <1>0, <2>1, CalmRests
<1> QED
  BY <1>1, <1>2, <1>3, Zenon DEF AdsNext

\* The statement a waiting thread is at.
LEMMA WaitsAt ==
  ASSUME LockInv, NEW t \in Thread, Waits(t)
  PROVE  /\ stack[t] # <<>> /\ Head(stack[t]).at \notin UnderMem \ {"read.failed"}
         /\ Head(stack[t]).at \notin UnderCom \ {"read.failed"}
         /\ Head(stack[t]).at \in Calling => Head(stack[t]).at = "factory.lock" /\ mem # NoThread
         /\ Head(stack[t]).at # "read.failed" => mem # NoThread \/ com # NoThread
BY AtStatement DEF Waits, UnderMem, UnderCom, Calling

\* As long as the PLC answers and the variables are of types Factory knows, some
\* thread that is in an operation has a step, however many threads there are:
\* whoever holds m_mem_mutex asks for no mutex, and whoever holds m_com_mutex
\* asks for m_mem_mutex only.
THEOREM NeverAllWait == AdsSpec => []SomeoneIsFree
<1>1. AdsInv /\ CalmInv => SomeoneIsFree
  <2> SUFFICES ASSUME AdsInv, CalmInv, Calm, fault = "none",
                      NEW t \in Thread, stack[t] # <<>>,
                      \A u \in Thread : stack[u] # <<>> => Waits(u)
               PROVE  FALSE
    BY DEF SomeoneIsFree
  <2>0. LockInv
    BY DEF AdsInv
  <2>1. ASSUME NEW u \in Thread, stack[u] # <<>>
        PROVE  /\ Head(stack[u]) = stack[u][1] /\ DOMAIN stack[u] \subseteq {1, 2}
               /\ stack[u][1].at # "read.failed"
               /\ 2 \in DOMAIN stack[u] => /\ stack[u][1].at \in Calling
                                           /\ stack[u][2].at \notin UnderMem
    <3>1. Head(stack[u]) = stack[u][1] /\ stack[u] \in Seq(Frames)
      BY <2>0, <2>1, ScopeIsOwned DEF LockInv, Stacks
    <3>2. DOMAIN stack[u] = 1 .. Len(stack[u]) /\ Len(stack[u]) \in Nat \ {0}
      BY <2>1, <3>1, StackGoesOn
    <3>3. Len(stack[u]) <= 2 /\ Shallow(stack[u])
      BY DEF CalmInv, Shallow
    <3>4. Len(stack[u]) \in {1, 2}
      BY <3>2, <3>3, OneOrTwo, Zenon
    <3>5. CASE Len(stack[u]) = 1
      BY <3>1, <3>2, <3>3, <3>5 DEF Shallow
    <3>6. CASE Len(stack[u]) = 2
      BY <3>1, <3>2, <3>3, <3>6 DEF Shallow, UnderMem
    <3> QED
      BY <3>4, <3>5, <3>6
  <2>2. mem = NoThread
    <3>1. ASSUME NEW u \in Thread, mem = u PROVE FALSE
      <4>1. PICK i \in DOMAIN stack[u] : stack[u][i].at \in UnderMem
        BY <2>0, <3>1 DEF LockInv, Owned
      <4>2. stack[u] # <<>>
        BY <4>1
      <4>3. i = 1
        BY <2>1, <4>1, <4>2
      <4> QED
        BY <2>0, <2>1, <4>1, <4>2, <4>3, WaitsAt
    <3> QED
      BY <2>0, <3>1 DEF LockInv, Owned
  <2>3. com \in Thread
    BY <2>0, <2>1, <2>2, WaitsAt DEF LockInv, Owned
  <2>4. PICK i \in DOMAIN stack[com] : stack[com][i].at \in UnderCom
    BY <2>0, <2>3 DEF LockInv, Owned
  <2>5. stack[com] # <<>> /\ Waits(com)
    BY <2>3, <2>4
  <2>6. i = 2
    BY <2>0, <2>1, <2>3, <2>4, <2>5, WaitsAt
  <2> QED
    BY <2>0, <2>1, <2>2, <2>3, <2>4, <2>5, <2>6, WaitsAt
<1> QED
  BY <1>1, CalmStart, CalmNext, AdsStart, AdsStep, PTL DEF AdsSpec

-----------------------------------------------------------------------------
(***************************************************************************)
(* Nothing that is gone is used while the PLC answers.                     *)
(***************************************************************************)
\* The statements of the start-up, and the stacks of a thread that runs it.
StartUp == {"init.route", "init.acquire", "init.bind"}
Starts(s) == \E i \in DOMAIN s : s[i].at \in StartUp

\* The Factory of thread t is about to make the handle of v, at the start-up.
Unbound(t, v) == Doing(t, Calling) /\ Local(t).var = v /\ Starts(stack[t])

\* The route and the handles are good, but for the handle that a Factory is
\* replacing or a start-up is binding; a start-up is the only operation.
RouteThere ==
  /\ m_route = 0 \/ m_route \in live
  /\ \A t \in Thread : stack[t] # <<>> => initialized
  /\ initialized => m_route # 0 \/ \E t \in Thread : Doing(t, {"init.route"})

HandlesGood ==
  /\ \A v \in Alias : handle[v] # Absent /\ handle[v] \notin live => \E t \in Thread : Undone(t, v)
  /\ \A v \in mapped : handle[v] = Absent => \E t \in Thread : Unbound(t, v)

StartsAlone == \A t, u \in Thread : Starts(stack[t]) /\ u # t => stack[u] = <<>>

Healthy == fault \in {"none", "destroyed"} /\ RouteThere /\ HandlesGood /\ StartsAlone

HealthInv == Calm => Healthy

\* The object is never at a double delete, a handle that is null or deleted, or
\* a route that is.
SoundWhileAnswered == Calm => fault \in {"none", "destroyed"}

\* Whoever is about to make the first route starts up.
LEMMA StartsAtRoute ==
  ASSUME LockInv, NEW u \in Thread, Doing(u, {"init.route"})
  PROVE  stack[u] # <<>> /\ Head(stack[u]).at = "init.route" /\ Starts(stack[u])
<1>1. stack[u] # <<>> /\ Head(stack[u]).at = "init.route"
  BY DEF Doing, Local
<1>2. 1 \in DOMAIN stack[u] /\ Head(stack[u]) = stack[u][1]
  BY <1>1, ScopeIsOwned
<1> QED
  BY <1>1, <1>2 DEF Starts, StartUp

\* What a thread that takes a step finds: a route, and at a statement that uses a
\* handle under m_mem_mutex, a good one.
LEMMA HealthFinds ==
  ASSUME AdsInv, MapInv, Healthy, NEW t \in Thread, NEW p, At(t, p)
  PROVE  /\ p # "init.route" => RouteUsable
         /\ p \in {"write.access", "read.access"} => Access(handle[Local(t).var]) = "valid"
         /\ p = "factory.delete" => handle[Local(t).var] # Freed
<1>0. LockInv /\ DataTyped
  BY DEF AdsInv
<1>1. /\ stack[t] # <<>> /\ Local(t).at = p /\ Local(t) \in Frames /\ Local(t).var \in Alias
      /\ WorksOn(Local(t), mapped) /\ (p \in UnderMem => mem = t)
  BY <1>0, AtTop, AtStatement
<1>2. ASSUME p # "init.route" PROVE RouteUsable
  <2>1. m_route # 0
    <3>1. ASSUME NEW u \in Thread, Doing(u, {"init.route"}) PROVE FALSE
      <4>1. u # t
        BY <1>1, <1>2, <3>1 DEF Doing
      <4> QED
        BY <1>0, <1>1, <3>1, <4>1, StartsAtRoute DEF Healthy, StartsAlone
    <3> QED
      BY <1>1, <3>1 DEF Healthy, RouteThere
  <2> QED
    BY <2>1 DEF Healthy, RouteThere, RouteUsable
<1>3. ASSUME p \in {"write.access", "read.access", "factory.delete"},
             NEW u \in Thread, Undone(u, Local(t).var)
      PROVE  FALSE
  <2>1. stack[u] # <<>> /\ Head(stack[u]).at = "factory.create"
    BY <1>3 DEF Undone, Doing, Local
  <2>2. mem = u /\ mem = t
    BY <1>0, <1>1, <1>3, <2>1, ScopeIsOwned DEF UnderMem
  <2> QED
    BY <1>1, <1>3, <2>1, <2>2 DEF Local
<1>4. ASSUME p \in {"write.access", "read.access"} PROVE handle[Local(t).var] \in live
  <2>1. Local(t).var \in mapped
    BY <1>1, <1>4 DEF WorksOn, Accessing
  <2>2. handle[Local(t).var] # Absent
    <3>1. ASSUME NEW u \in Thread, Unbound(u, Local(t).var) PROVE FALSE
      BY <1>1, <1>4, <3>1 DEF Unbound, Doing, Calling, Healthy, StartsAlone
    <3> QED
      BY <2>1, <3>1 DEF Healthy, HandlesGood
  <2> QED
    BY <1>1, <1>3, <1>4, <2>2 DEF Healthy, HandlesGood
<1>5. ASSUME p = "factory.delete" PROVE handle[Local(t).var] # Freed
  BY <1>0, <1>1, <1>3, <1>5 DEF Healthy, HandlesGood, DataTyped, Freed, Absent
<1>6. \A h \in live : Access(h) = "valid"
  BY <1>0 DEF Access, DataTyped, Freed, Null
<1> QED
  BY <1>2, <1>4, <1>5, <1>6

\* What Healthy is about, and a route that stays or is made.
Quiet == UNCHANGED <<m_route, live, initialized, fault, handle, mapped>>

RouteKept ==
  m_route' \in live' \ {0} /\ live \subseteq live' /\ UNCHANGED <<initialized, fault>>

LEMMA RouteIsKept ==
  ASSUME AdsInv, MapInv, Healthy, NEW t \in Thread, NEW p, At(t, p), p # "init.route",
         UNCHANGED <<m_route, live, initialized, fault>>
  PROVE  RouteKept
<1>1. RouteUsable
  BY HealthFinds
<1> QED
  BY <1>1 DEF RouteKept, RouteUsable, AdsInv, DataTyped

\* InitRoute.
LEMMA NewRouteIsKept ==
  ASSUME DataTyped, NewRoute, UNCHANGED <<initialized, fault>>
  PROVE  RouteKept
BY DEF DataTyped, NewRoute, RouteKept

\* In a step of one thread the others are not starting up.
LEMMA HealthStep ==
  ASSUME Healthy, LockInv, RouteKept, NEW t \in Thread, NEW p, At(t, p),
         \A u \in Thread : u # t => stack'[u] = stack[u],
         Starts(stack[t])' => Starts(stack[t]),
         \A v \in Alias : \/ handle'[v] = handle[v] /\ ~Undone(t, v)
                          \/ handle'[v] \in live' \/ Undone(t, v)',
         \A v \in mapped' : handle'[v] = Absent =>
           (v \in mapped /\ handle[v] = Absent /\ ~Unbound(t, v)) \/ Unbound(t, v)'
  PROVE  Healthy'
<1>1. stack[t] # <<>> /\ fault = "none" /\ initialized
  BY DEF At, Healthy, RouteThere
<1>2. \A u \in Thread : u # t => ~Starts(stack[u])
  BY <1>1 DEF Healthy, StartsAlone
<1>3. StartsAlone'
  BY <1>1, <1>2 DEF Healthy, StartsAlone, Starts
<1>4. RouteThere'
  BY <1>1 DEF RouteThere, RouteKept
<1>5. ASSUME NEW v \in Alias, handle'[v] # Absent, handle'[v] \notin live'
      PROVE  \E u \in Thread : Undone(u, v)'
  <2>1. CASE Undone(t, v)'
    BY <2>1
  <2>2. CASE handle'[v] = handle[v] /\ ~Undone(t, v)
    <3>1. PICK u \in Thread : Undone(u, v)
      BY <1>5, <2>2 DEF Healthy, HandlesGood, RouteKept
    <3>2. u # t /\ stack'[u] = stack[u]
      BY <2>2, <3>1
    <3> QED
      BY <3>1, <3>2 DEF Undone, Doing, Local
  <2> QED
    BY <1>5, <2>1, <2>2
<1>6. ASSUME NEW v \in mapped', handle'[v] = Absent
      PROVE  \E u \in Thread : Unbound(u, v)'
  <2>1. CASE Unbound(t, v)'
    BY <2>1
  <2>2. CASE v \in mapped /\ handle[v] = Absent /\ ~Unbound(t, v)
    <3>1. PICK u \in Thread : Unbound(u, v)
      BY <2>2 DEF Healthy, HandlesGood
    <3> QED
      BY <1>2, <2>2, <3>1 DEF Unbound
  <2> QED
    BY <1>6, <2>1, <2>2
<1> QED
  BY <1>1, <1>3, <1>4, <1>5, <1>6 DEF Healthy, HandlesGood, RouteKept

\* The same for a step to another statement, a call, a return and the end of an
\* operation.
LEMMA HealthGoes ==
  ASSUME Healthy, LockInv, RouteKept, NEW t \in Thread, NEW p, At(t, p),
         NEW f \in Frames, Goto(t, f),
         p # "factory.create",
         UNCHANGED <<handle, mapped>>,
         p \in Calling => f.at \in Calling /\ f.var = Local(t).var,
         f.at \in StartUp => p \in StartUp
  PROVE  Healthy'
<1>1. Local(t).at = p /\ Local(t) = stack[t][1] /\ stack[t] # <<>>
  BY AtStatement, ScopeIsOwned
<1>2. Starts(stack[t])' <=> \/ f.at \in StartUp
                            \/ \E i \in 2 .. Len(stack[t]) : stack[t][i].at \in StartUp
  BY TopGoesOn DEF Starts
<1>3. Starts(stack[t]) <=> \/ p \in StartUp
                           \/ \E i \in 2 .. Len(stack[t]) : stack[t][i].at \in StartUp
  BY <1>1, TopGoesOn DEF Starts
<1>4. \A v : ~Undone(t, v)
  BY <1>1 DEF Undone, Doing
<1>5. \A v : Unbound(t, v) => Unbound(t, v)'
  BY <1>1, <1>2, <1>3, TopGoesOn DEF Unbound, Doing, Calling, StartUp
<1> QED
  BY <1>2, <1>3, <1>4, <1>5, TopGoesOn, HealthStep

LEMMA HealthCalls ==
  ASSUME Healthy, LockInv, RouteKept, NEW t \in Thread, NEW p, At(t, p), NEW f \in Frames,
         NEW v \in Alias, CallFrom(t, f, FactoryFrame(v)), p \notin Calling,
         handle' = handle,
         mapped' = mapped \/ (mapped' = mapped \union {v} /\ f.at \in StartUp),
         f.at \in StartUp => p \in StartUp
  PROVE  Healthy'
<1>0. FactoryFrame(v) \in Frames /\ FactoryFrame(v).at = "factory.lock" /\ FactoryFrame(v).var = v
  BY FactoryIsAFrame
<1>1. Local(t).at = p /\ Local(t) = stack[t][1] /\ stack[t] # <<>>
  BY AtStatement, ScopeIsOwned
<1>2. /\ stack'[t] # <<>> /\ Local(t)' = FactoryFrame(v)
      /\ stack'[t][1] = FactoryFrame(v) /\ stack'[t][2] = f
      /\ DOMAIN stack'[t] = 1 .. Len(stack[t]) + 1 /\ DOMAIN stack[t] = 1 .. Len(stack[t])
      /\ Len(stack[t]) \in Nat \ {0}
      /\ \A i \in 3 .. Len(stack[t]) + 1 : stack'[t][i] = stack[t][i - 1]
      /\ \A u \in Thread : u # t => stack'[u] = stack[u]
  BY <1>0, TopCalls
<1>3. Starts(stack[t])' => Starts(stack[t])
  <2>1. ASSUME NEW i \in DOMAIN stack'[t], stack'[t][i].at \in StartUp PROVE Starts(stack[t])
    <3>1. CASE i = 1
      BY <1>0, <1>2, <2>1, <3>1 DEF StartUp
    <3>2. CASE i = 2
      <4>1. 1 \in DOMAIN stack[t] /\ stack[t][1].at \in StartUp
        BY <1>1, <1>2, <2>1, <3>2
      <4> QED
        BY <4>1 DEF Starts
    <3>3. CASE i \notin {1, 2}
      <4>1. i - 1 \in DOMAIN stack[t] /\ stack[t][i - 1].at \in StartUp
        BY <1>2, <2>1, <3>3
      <4> QED
        BY <4>1 DEF Starts
    <3> QED
      BY <3>1, <3>2, <3>3
  <2> QED
    BY <2>1 DEF Starts
<1>4. \A w : ~Undone(t, w) /\ ~Unbound(t, w)
  BY <1>1 DEF Undone, Unbound, Doing, Calling
<1>5. f.at \in StartUp => Unbound(t, v)'
  <2>1. 2 \in DOMAIN stack'[t]
    BY <1>2
  <2>2. f.at \in StartUp => Starts(stack[t])'
    BY <1>2, <2>1 DEF Starts
  <2> QED
    BY <1>0, <1>2, <2>2 DEF Unbound, Doing, Calling
<1> QED
  BY <1>2, <1>3, <1>4, <1>5, HealthStep

LEMMA HealthReturns ==
  ASSUME Healthy, LockInv, RouteKept, NEW t \in Thread, NEW p, At(t, p), Return(t),
         mapped' = mapped,
         \A v \in Alias : (handle'[v] = handle[v] /\ (p \in Calling => Local(t).var # v))
                          \/ handle'[v] \in live' \ {Absent},
         mapped \subseteq Alias
  PROVE  Healthy'
<1>1. Local(t).at = p
  BY AtStatement
<1>2. Starts(stack[t])' => Starts(stack[t])
  <2>1. ASSUME NEW i \in DOMAIN stack'[t], stack'[t][i].at \in StartUp PROVE Starts(stack[t])
    <3>0. /\ DOMAIN stack'[t] = 1 .. Len(stack[t]) - 1 /\ DOMAIN stack[t] = 1 .. Len(stack[t])
          /\ Len(stack[t]) \in Nat
          /\ \A k \in 1 .. Len(stack[t]) - 1 : stack'[t][k] = stack[t][k + 1]
      BY TopReturns
    <3>1. /\ DOMAIN stack'[t] = 1 .. Len(stack[t]) - 1 /\ DOMAIN stack[t] = 1 .. Len(stack[t])
          /\ Len(stack[t]) \in Nat /\ stack'[t][i] = stack[t][i + 1]
      BY ONLY <2>1, <3>0
    <3>2. i + 1 \in DOMAIN stack[t]
      BY <2>1, <3>1
    <3> QED
      BY <2>1, <3>1, <3>2 DEF Starts
  <2> QED
    BY <2>1 DEF Starts
<1>3. \A v : Undone(t, v) \/ Unbound(t, v) => p \in Calling /\ Local(t).var = v
  BY <1>1 DEF Undone, Unbound, Doing, Calling
<1> QED
  BY <1>2, <1>3, TopReturns, HealthStep

LEMMA HealthEnds ==
  ASSUME Healthy, LockInv, RouteKept, NEW t \in Thread, NEW p, At(t, p),
         stack' = [stack EXCEPT ![t] = <<>>],
         p \notin Calling,
         UNCHANGED <<handle, mapped>>
  PROVE  Healthy'
<1>1. stack'[t] = <<>> /\ \A u \in Thread : u # t => stack'[u] = stack[u]
  BY DEF LockInv, Stacks
<1>2. Local(t).at = p
  BY AtStatement
<1>3. \A v : ~Undone(t, v) /\ ~Unbound(t, v)
  BY <1>2 DEF Undone, Unbound, Doing, Calling
<1>4. ~Starts(stack[t])'
  BY <1>1 DEF Starts
<1> QED
  BY <1>1, <1>3, <1>4, HealthStep

-----------------------------------------------------------------------------
LEMMA HealthRests ==
  ASSUME Healthy, UNCHANGED <<stack, m_route, live, initialized, fault, handle, mapped>>
  PROVE  Healthy'
BY DEF Healthy, RouteThere, HandlesGood, StartsAlone, Undone, Unbound, Doing, Local, Starts

\* Factory replaces the handle it deletes.
LEMMA HealthFactory ==
  ASSUME AdsInv, MapInv, Calm, Healthy, NEW t \in Thread, Factory(t)
  PROVE  Healthy'
<1>0. LockInv /\ DataTyped
  BY DEF AdsInv
<1>1. CASE FactoryLock(t)
  <2> DEFINE f == [Local(t) EXCEPT !.at = "factory.delete"]
  <2>1. At(t, "factory.lock") /\ Goto(t, f) /\ Quiet
    BY <1>1 DEF FactoryLock, object, Quiet
  <2>2. f \in Frames /\ f.at = "factory.delete" /\ f.var = Local(t).var
    BY <1>0, <2>1, AtStatement, PlacesHold DEF Frames
  <2> HIDE DEF f
  <2> QED
    BY <1>0, <2>1, <2>2, RouteIsKept, HealthGoes DEF Calling, StartUp, Quiet
<1>2. CASE FactoryDelete(t)
  <2> DEFINE f == [Local(t) EXCEPT !.at = "factory.create"]
  <2>1. At(t, "factory.delete")
    BY <1>2 DEF FactoryDelete
  <2>0. PICK v : v = Local(t).var
    OBVIOUS
  <2>2. f \in Frames /\ f.at = "factory.create" /\ f.var = v /\ v \in Alias
    BY <1>0, <2>0, <2>1, AtStatement, PlacesHold DEF Frames
  <2>3. /\ Goto(t, f) /\ handle' = [handle EXCEPT ![v] = IF @ > 0 THEN Freed ELSE Null]
        /\ UNCHANGED <<m_route, live, initialized, fault, mapped>>
    BY <1>2, <2>0, <2>1, HealthFinds DEF FactoryDelete
  <2>4. Local(t).at = "factory.delete" /\ Local(t) = stack[t][1] /\ stack[t] # <<>>
    BY <1>0, <2>1, AtStatement, ScopeIsOwned
  <2>5. mapped \subseteq Alias /\ \A w : Unbound(t, w) => w = v
    BY <1>0, <2>0, KnownVariables DEF Unbound
  <2> HIDE DEF f
  <2>6. /\ \A w \in Alias : w # v => handle'[w] = handle[w]
        /\ handle'[v] # Absent
    BY <1>0, <2>2, <2>3 DEF DataTyped, Freed, Null, Absent
  <2>7. Undone(t, v)' /\ \A w : ~Undone(t, w)
    BY <1>0, <2>1, <2>2, <2>3, <2>4, TopGoesOn DEF Undone, Doing
  <2>8. Starts(stack[t])' => Starts(stack[t])
    <3>1. ASSUME NEW i \in DOMAIN stack'[t], stack'[t][i].at \in StartUp PROVE Starts(stack[t])
      <4>1. i # 1
        BY <1>0, <2>1, <2>2, <2>3, <3>1, TopGoesOn DEF StartUp
      <4>2. i \in DOMAIN stack[t] /\ stack[t][i] = stack'[t][i]
        BY <1>0, <2>1, <2>2, <2>3, <3>1, <4>1, TopGoesOn
      <4> QED
        BY <3>1, <4>2 DEF Starts
    <3> QED
      BY <3>1 DEF Starts
  <2>9. \A u \in Thread : u # t => stack'[u] = stack[u]
    BY <1>0, <2>1, <2>2, <2>3, TopGoesOn
  <2>10. \A w \in Alias : \/ handle'[w] = handle[w] /\ ~Undone(t, w)
                          \/ handle'[w] \in live \/ Undone(t, w)'
    BY <2>6, <2>7
  <2>11. \A w \in mapped' : handle'[w] = Absent =>
           (w \in mapped /\ handle[w] = Absent /\ ~Unbound(t, w)) \/ Unbound(t, w)'
    BY <2>3, <2>5, <2>6
  <2> QED
    BY <1>0, <2>1, <2>3, <2>8, <2>9, <2>10, <2>11, RouteIsKept, HealthStep
<1>3. CASE FactoryCreate(t)
  <2> DEFINE v == Local(t).var
  <2>1. At(t, "factory.create")
    BY <1>3 DEF FactoryCreate
  <2>2. v \in Alias /\ ~Unsupported(v) /\ ~Fails /\ RouteUsable
    BY <1>0, <2>1, AtStatement, HealthFinds DEF Calm, Fails
  <2>3. GetHandle(v) /\ Return(t) /\ UNCHANGED <<m_route, live, initialized, fault, mapped>>
    BY <1>3, <2>2 DEF FactoryCreate
  <2>4. mapped \subseteq Alias /\ m_route \in live \ {Absent}
    BY <1>0, <2>2, KnownVariables DEF RouteUsable, DataTyped, Absent
  <2> HIDE DEF v
  <2>5. \A w \in Alias : handle'[w] = IF w = v THEN m_route ELSE handle[w]
    BY <1>0, <2>2, <2>3 DEF GetHandle, DataTyped
  <2>6. \A w \in Alias : \/ handle'[w] = handle[w] /\ Local(t).var # w
                         \/ handle'[w] \in live \ {Absent}
    BY <2>4, <2>5 DEF v
  <2> QED
    BY <1>0, <2>1, <2>3, <2>4, <2>6, RouteIsKept, HealthReturns
<1>4. CASE FactoryEnd(t)
  <2>1. At(t, "factory.end") /\ Return(t) /\ Quiet /\ mapped \subseteq Alias
    BY <1>0, <1>4, KnownVariables DEF FactoryEnd, object, Quiet
  <2> QED
    BY <1>0, <2>1, RouteIsKept, HealthReturns DEF Calling, Quiet
<1> QED
  BY <1>1, <1>2, <1>3, <1>4 DEF Factory

\* AcquireVariables.
LEMMA HealthAcquire ==
  ASSUME AdsInv, MapInv, Calm, Healthy, NEW t \in Thread, NEW p, At(t, p),
         p \notin Calling, p # "init.route", NEW next \in Frames, Acquire(t, next),
         next.at \in StartUp => p \in StartUp
  PROVE  Healthy'
<1>1. RouteUsable /\ ~Fails /\ LockInv
  BY HealthFinds DEF AdsInv, Calm, Fails
<1>2. Goto(t, next) /\ Quiet
  BY <1>1 DEF Acquire, object, Quiet
<1>3. p # "factory.create"
  BY DEF Calling
<1> QED
  BY <1>1, <1>2, <1>3, RouteIsKept, HealthGoes DEF Quiet

\* ConnectionCheck finds the route as it was.
LEMMA HealthCheck ==
  ASSUME AdsInv, MapInv, Calm, CalmInv, Healthy, NEW t \in Thread, ConnectionCheck(t)
  PROVE  Healthy'
<1>0. LockInv /\ DataTyped
  BY DEF AdsInv
<1>1. CASE CheckLock(t)
  <2> DEFINE f == [Local(t) EXCEPT !.at = "check.state"]
  <2>1. At(t, "check.lock") /\ Goto(t, f) /\ Quiet
    BY <1>1 DEF CheckLock, object, Quiet
  <2>2. f \in Frames /\ f.at = "check.state"
    BY <1>0, <2>1, AtStatement, PlacesHold DEF Frames
  <2> HIDE DEF f
  <2> QED
    BY <1>0, <2>1, <2>2, RouteIsKept, HealthGoes DEF Calling, StartUp, Quiet
<1>2. CASE CheckState(t)
  <2> DEFINE p == IF Local(t).flag THEN "check.end" ELSE "check.acquire"
             f == [Local(t) EXCEPT !.at = p, !.flag = TRUE]
  <2>1. At(t, "check.state")
    BY <1>2 DEF CheckState
  <2>2. f \in Frames /\ f.at \in {"check.end", "check.acquire"}
    <3>1. p \in {"check.end", "check.acquire"} /\ p \in Places
      BY PlacesHold
    <3> HIDE DEF p
    <3> QED
      <4>1. Local(t) \in Frames
        BY <1>0, <2>1, AtStatement
      <4> QED
        BY <3>1, <4>1, Zenon DEF Frames
  <2>3. RouteUsable /\ ~Fails
    BY <2>1, HealthFinds DEF Calm, Fails
  <2>4. Goto(t, f) /\ UNCHANGED <<object, locks, plc, initialized, fault, hist>>
    BY <1>2, <2>3, Zenon DEF CheckState
  <2>5. Quiet
    BY <2>4 DEF Quiet, object
  <2> HIDE DEF f
  <2> QED
    BY <1>0, <2>1, <2>2, <2>4, <2>5, RouteIsKept, HealthGoes DEF Calling, StartUp, Quiet
<1>3. CASE CheckRoute(t)
  <2> DEFINE f == [Local(t) EXCEPT !.at = "check.end"]
  <2>1. At(t, "check.route") /\ ~Fails
    BY <1>3 DEF CheckRoute, Calm, Fails
  <2>2. f \in Frames /\ f.at = "check.end"
    BY <1>0, <2>1, AtStatement, PlacesHold DEF Frames
  <2>3. NewRoute /\ Goto(t, f) /\ UNCHANGED <<handle, mapped, initialized, fault>>
    BY <1>3, <2>1, Zenon DEF CheckRoute
  <2> HIDE DEF f
  <2> QED
    BY <1>0, <2>1, <2>2, <2>3, NewRouteIsKept, HealthGoes DEF Calling, StartUp
<1>4. CASE CheckAcquire(t)
  <2> DEFINE f == [Local(t) EXCEPT !.at = "check.loop", !.rest = mapped]
  <2>1. At(t, "check.acquire") /\ Acquire(t, f)
    BY <1>4 DEF CheckAcquire
  <2>2. f \in Frames /\ f.at = "check.loop"
    <3>1. Local(t) \in Frames /\ mapped \subseteq Alias
      BY <1>0, <2>1, AtStatement, KnownVariables
    <3> QED
      BY <3>1, PlacesHold, Zenon DEF Frames
  <2> HIDE DEF f
  <2> QED
    BY <2>1, <2>2, HealthAcquire DEF Calling, StartUp
<1>5. CASE CheckLoop(t)
  <2> DEFINE f == [Local(t) EXCEPT !.at = "check.end"]
             g(v) == [Local(t) EXCEPT !.rest = @ \ {v}]
  <2>1. At(t, "check.loop") /\ Local(t) \in Frames /\ Local(t).rest \subseteq Alias
    BY <1>0, <1>5, AtStatement DEF CheckLoop
  <2>2. /\ f \in Frames /\ f.at = "check.end"
        /\ \A v \in Alias : g(v) \in Frames /\ g(v).at = "check.loop"
    BY <1>0, <2>1, AtStatement, PlacesHold DEF Frames
  <2>3. /\ Quiet
        /\ \/ Goto(t, f)
           \/ \E v \in Alias : CallFrom(t, g(v), FactoryFrame(v))
    BY <1>5, <2>1 DEF CheckLoop, Rebound, object, Quiet
  <2> HIDE DEF f, g
  <2>4. CASE Goto(t, f)
    BY <1>0, <2>1, <2>2, <2>3, <2>4, RouteIsKept, HealthGoes DEF Calling, StartUp, Quiet
  <2>5. ASSUME NEW v \in Alias, CallFrom(t, g(v), FactoryFrame(v)) PROVE Healthy'
    BY <1>0, <2>1, <2>2, <2>3, <2>5, RouteIsKept, HealthCalls DEF Calling, StartUp, Quiet
  <2> QED
    BY <2>3, <2>4, <2>5
<1>6. CASE CheckEnd(t)
  <2>1. At(t, "check.end") /\ Quiet /\ mapped \subseteq Alias
    BY <1>0, <1>6, KnownVariables DEF CheckEnd, Quiet
  <2>2. CASE Return(t)
    BY <1>0, <2>1, <2>2, RouteIsKept, HealthReturns DEF Calling, Quiet
  <2>3. CASE stack' = [stack EXCEPT ![t] = <<>>]
    BY <1>0, <2>1, <2>3, RouteIsKept, HealthEnds DEF Calling, Quiet
  <2> QED
    BY <1>6, <2>2, <2>3 DEF CheckEnd, Finished
<1> QED
  BY <1>1, <1>2, <1>3, <1>4, <1>5, <1>6 DEF ConnectionCheck

\* Writes and reads find the handles of their variables good.
LEMMA HealthWrite ==
  ASSUME AdsInv, MapInv, Calm, Healthy, NEW t \in Thread, AdsWriteValue(t)
  PROVE  Healthy'
<1>0. LockInv
  BY DEF AdsInv
<1>1. CASE WriteLock(t)
  <2> DEFINE f == [Local(t) EXCEPT !.at = "write.access"]
  <2>1. At(t, "write.lock") /\ Goto(t, f) /\ Quiet
    BY <1>1 DEF WriteLock, object, Quiet
  <2>2. f \in Frames /\ f.at = "write.access"
    BY <1>0, <2>1, AtStatement, PlacesHold DEF Frames
  <2> HIDE DEF f
  <2> QED
    BY <1>0, <2>1, <2>2, RouteIsKept, HealthGoes DEF Calling, StartUp, Quiet
<1>2. CASE WriteDone(t)
  <2>1. At(t, "write.done") /\ stack' = [stack EXCEPT ![t] = <<>>] /\ Quiet
    BY <1>2 DEF WriteDone, Finished, object, Quiet
  <2> QED
    BY <1>0, <2>1, RouteIsKept, HealthEnds DEF Calling, Quiet
<1>3. ASSUME NEW x \in Val, WriteAccess(t, x) PROVE Healthy'
  <2> DEFINE v == Local(t).var
             f == [Local(t) EXCEPT !.at = "write.done"]
  <2>1. At(t, "write.access")
    BY <1>3 DEF WriteAccess
  <2>2. /\ v \in Alias /\ f \in Frames /\ f.at = "write.done"
        /\ Access(handle[v]) = "valid"
    BY <1>0, <2>1, AtStatement, PlacesHold, HealthFinds DEF Frames
  <2>3. /\ Quiet
        /\ \/ stack' = [stack EXCEPT ![t] = <<>>]
           \/ CallFrom(t, f, FactoryFrame(v))
    BY <1>3, <2>2 DEF WriteAccess, Finished, object, Quiet
  <2> HIDE DEF f, v
  <2>4. CASE stack' = [stack EXCEPT ![t] = <<>>]
    BY <1>0, <2>1, <2>3, <2>4, RouteIsKept, HealthEnds DEF Calling, Quiet
  <2>5. CASE CallFrom(t, f, FactoryFrame(v))
    BY <1>0, <2>1, <2>2, <2>3, <2>5, RouteIsKept, HealthCalls DEF Calling, StartUp, Quiet
  <2> QED
    BY <2>3, <2>4, <2>5
<1> QED
  BY <1>1, <1>2, <1>3 DEF AdsWriteValue

LEMMA HealthRead ==
  ASSUME AdsInv, MapInv, Calm, Healthy, NEW t \in Thread, AdsReadValue(t)
  PROVE  Healthy'
<1>0. LockInv
  BY DEF AdsInv
<1>1. CASE ReadLock(t)
  <2> DEFINE f == [Local(t) EXCEPT !.at = "read.access"]
  <2>1. At(t, "read.lock") /\ Goto(t, f) /\ Quiet
    BY <1>1 DEF ReadLock, object, Quiet
  <2>2. f \in Frames /\ f.at = "read.access"
    BY <1>0, <2>1, AtStatement, PlacesHold DEF Frames
  <2> HIDE DEF f
  <2> QED
    BY <1>0, <2>1, <2>2, RouteIsKept, HealthGoes DEF Calling, StartUp, Quiet
<1>2. CASE ReadAccess(t)
  <2> DEFINE f == [Local(t) EXCEPT !.at = "read.convert"]
  <2>1. At(t, "read.access") /\ ~Fails
    BY <1>2 DEF ReadAccess, Calm, Fails
  <2>2. f \in Frames /\ f.at = "read.convert" /\ Access(handle[Local(t).var]) = "valid"
    BY <1>0, <2>1, AtStatement, PlacesHold, HealthFinds DEF Frames
  <2>3. /\ Quiet
        /\ stack' = [stack EXCEPT ![t] = <<>>] \/ Goto(t, f)
    BY <1>2, <2>1, <2>2 DEF ReadAccess, ReadReturns, Finished, object, Quiet
  <2> HIDE DEF f
  <2>4. CASE stack' = [stack EXCEPT ![t] = <<>>]
    BY <1>0, <2>1, <2>3, <2>4, RouteIsKept, HealthEnds DEF Calling, Quiet
  <2>5. CASE Goto(t, f)
    BY <1>0, <2>1, <2>2, <2>3, <2>5, RouteIsKept, HealthGoes DEF Calling, StartUp, Quiet
  <2> QED
    BY <2>3, <2>4, <2>5
<1>3. CASE ReadConvert(t)
  <2>1. At(t, "read.convert") /\ stack' = [stack EXCEPT ![t] = <<>>] /\ Quiet
    BY <1>3 DEF ReadConvert, ReadReturns, Finished, object, Quiet
  <2> QED
    BY <1>0, <2>1, RouteIsKept, HealthEnds DEF Calling, Quiet
<1> QED
  BY <1>1, <1>2, <1>3 DEF AdsReadValue

\* The start-up makes the route first and then binds the variables.
LEMMA HealthInitialize ==
  ASSUME AdsInv, MapInv, Calm, Healthy, NEW t \in Thread, Initialize(t)
  PROVE  Healthy'
<1>0. LockInv /\ DataTyped
  BY DEF AdsInv
<1>1. CASE InitializeRoute(t)
  <2> DEFINE f == [Local(t) EXCEPT !.at = "init.acquire"]
  <2>1. At(t, "init.route") /\ ~Fails
    BY <1>1 DEF InitializeRoute, Calm, Fails
  <2>2. f \in Frames /\ f.at = "init.acquire"
    BY <1>0, <2>1, AtStatement, PlacesHold DEF Frames
  <2>3. NewRoute /\ Goto(t, f) /\ UNCHANGED <<handle, mapped, initialized, fault>>
    BY <1>1, <2>1, Zenon DEF InitializeRoute
  <2> HIDE DEF f
  <2> QED
    BY <1>0, <2>1, <2>2, <2>3, NewRouteIsKept, HealthGoes DEF Calling, StartUp
<1>2. CASE InitializeAcquire(t)
  <2> DEFINE f == [Local(t) EXCEPT !.at = "init.bind", !.rest = Alias]
  <2>1. At(t, "init.acquire") /\ Acquire(t, f)
    BY <1>2 DEF InitializeAcquire
  <2>2. f \in Frames /\ f.at = "init.bind"
    <3>1. PICK r \in Frames : r = Local(t)
      BY <1>0, <2>1, AtStatement
    <3>2. [r EXCEPT !.at = "init.bind", !.rest = Alias] \in Frames
      BY PlacesHold DEF Frames
    <3>3. [r EXCEPT !.at = "init.bind", !.rest = Alias].at = "init.bind"
      BY DEF Frames
    <3> QED
      BY ONLY <3>1, <3>2, <3>3
  <2> HIDE DEF f
  <2> QED
    BY <2>1, <2>2, HealthAcquire DEF Calling, StartUp
<1>3. CASE BindPLCVar(t)
  <2> DEFINE g(v) == [Local(t) EXCEPT !.rest = @ \ {v}]
  <2>1. At(t, "init.bind") /\ UNCHANGED <<m_route, live, initialized, fault, handle>>
    BY <1>3 DEF BindPLCVar
  <2>2. /\ Local(t) \in Frames /\ Local(t).rest \subseteq Alias
        /\ \A v \in Alias : g(v) \in Frames /\ g(v).at = "init.bind"
    BY <1>0, <2>1, AtStatement DEF Frames
  <2>3. \/ stack' = [stack EXCEPT ![t] = <<>>] /\ mapped' = mapped
        \/ \E v \in Alias : CallFrom(t, g(v), FactoryFrame(v)) /\ mapped' = mapped \union {v}
    BY <1>3, <2>2 DEF BindPLCVar, Finished
  <2> HIDE DEF g
  <2>4. CASE stack' = [stack EXCEPT ![t] = <<>>] /\ mapped' = mapped
    BY <1>0, <2>1, <2>4, RouteIsKept, HealthEnds DEF Calling
  <2>5. ASSUME NEW v \in Alias, CallFrom(t, g(v), FactoryFrame(v)), mapped' = mapped \union {v}
        PROVE  Healthy'
    BY <1>0, <2>1, <2>2, <2>5, RouteIsKept, HealthCalls DEF Calling, StartUp
  <2> QED
    BY <2>3, <2>4, <2>5
<1> QED
  BY <1>1, <1>2, <1>3 DEF Initialize

\* An operation begins when nobody starts up, a start-up when nobody does anything.
LEMMA HealthBegins ==
  ASSUME AdsInv, Healthy, NEW t \in Thread, NEW s, stack' = [stack EXCEPT ![t] = s],
         \/ Begins(t) /\ ~Starts(s) /\ initialized' = initialized
         \/ /\ s # <<>> /\ Head(s).at = "init.route" /\ initialized'
            /\ \A u \in Thread : stack[u] = <<>>,
         UNCHANGED <<m_route, live, fault, handle, mapped>>
  PROVE  Healthy'
<1>0. LockInv
  BY DEF AdsInv
<1>1. /\ stack'[t] = s /\ \A u \in Thread : u # t => stack'[u] = stack[u]
      /\ stack[t] = <<>>
  BY <1>0 DEF LockInv, Stacks, Begins
<1>2. \A u \in Thread : ~Starts(stack[u])
  <2>1. \A u \in Thread : DOMAIN stack[u] = 1 .. Len(stack[u])
    BY <1>0 DEF LockInv, Stacks
  <2>2. CASE Begins(t)
    <3>1. ASSUME NEW u \in Thread, NEW i \in DOMAIN stack[u], stack[u][i].at \in StartUp
          PROVE  FALSE
      BY <2>1, <2>2, <3>1 DEF Begins, StartUp
    <3> QED
      BY <3>1 DEF Starts
  <2>3. CASE \A u \in Thread : stack[u] = <<>>
    BY <2>3 DEF Starts
  <2> QED
    BY <2>2, <2>3
<1>3. HandlesGood'
  <2>1. \A v \in mapped : handle[v] # Absent
    BY <1>2 DEF Healthy, HandlesGood, Unbound
  <2>2. ASSUME NEW v \in Alias, NEW u \in Thread, Undone(u, v) PROVE Undone(u, v)'
    BY <1>1, <2>2 DEF Undone, Doing, Local
  <2> QED
    BY <2>1, <2>2 DEF Healthy, HandlesGood
<1>4. CASE Begins(t) /\ ~Starts(s) /\ initialized' = initialized
  <2>1. m_route # 0 /\ initialized
    BY <1>0, <1>2, <1>4, StartsAtRoute DEF Healthy, RouteThere, Begins
  <2>2. RouteThere'
    BY <1>4, <2>1 DEF Healthy, RouteThere
  <2>3. StartsAlone'
    BY <1>1, <1>2, <1>4 DEF StartsAlone, Starts
  <2> QED
    BY <1>3, <2>2, <2>3 DEF Healthy
<1>5. CASE /\ s # <<>> /\ Head(s).at = "init.route" /\ initialized'
           /\ \A u \in Thread : stack[u] = <<>>
  <2>1. Doing(t, {"init.route"})'
    BY <1>1, <1>5 DEF Doing, Local
  <2>2. RouteThere'
    BY <1>5, <2>1 DEF Healthy, RouteThere
  <2>3. StartsAlone'
    BY <1>1, <1>5 DEF StartsAlone, Starts
  <2> QED
    BY <1>3, <2>2, <2>3 DEF Healthy
<1> QED
  BY <1>4, <1>5

LEMMA HealthBeginsAny ==
  ASSUME AdsInv, Healthy, NEW t \in Thread,
         \/ BeginCheck(t) \/ BeginInitialize(t)
         \/ \E v \in Alias : BeginWrite(t, v) \/ BeginRead(t, v)
  PROVE  Healthy'
<1>0. m_device_state \in BOOLEAN
  BY DEF AdsInv, DataTyped
<1>1. CASE BeginCheck(t)
  <2>1. Begins(t) /\ stack' = [stack EXCEPT ![t] = <<CheckFrame>>] /\ Quiet
    BY <1>1 DEF BeginCheck, object, Quiet
  <2>2. ~Starts(<<CheckFrame>>)
    BY <1>0, FactoryIsAFrame DEF Starts, StartUp
  <2> QED
    BY <2>1, <2>2, HealthBegins DEF Quiet
<1>2. CASE BeginInitialize(t)
  <2> DEFINE f == Frame("init.route", CHOOSE v \in Alias : TRUE, {}, FALSE)
             s == <<f>>
  <2>1. s # <<>> /\ Head(s).at = "init.route"
    BY DEF Frame
  <2>2. /\ stack' = [stack EXCEPT ![t] = s] /\ initialized'
        /\ \A u \in Thread : stack[u] = <<>>
        /\ UNCHANGED <<m_route, live, fault, handle, mapped>>
    BY <1>2 DEF BeginInitialize, object
  <2> HIDE DEF s
  <2> QED
    BY <2>1, <2>2, HealthBegins
<1>3. ASSUME NEW v \in Alias, BeginWrite(t, v) PROVE Healthy'
  <2> DEFINE f == Frame("write.lock", v, {}, FALSE)
             g == Frame("write.done", v, {}, FALSE)
  <2>1. f.at = "write.lock" /\ g.at = "write.done"
    BY DEF Frame
  <2>2. /\ Begins(t) /\ Quiet
        /\ \/ stack' = stack
           \/ stack' = [stack EXCEPT ![t] = <<f>>]
           \/ stack' = [stack EXCEPT ![t] = <<FactoryFrame(v), g>>]
    BY <1>3 DEF BeginWrite, object, Quiet
  <2> HIDE DEF f, g
  <2>3. ~Starts(<<f>>) /\ ~Starts(<<FactoryFrame(v), g>>)
    BY <2>1, FactoryIsAFrame DEF Starts, StartUp
  <2>4. CASE stack' = stack
    BY <2>2, <2>4, HealthRests DEF Quiet
  <2> QED
    BY <2>2, <2>3, <2>4, HealthBegins DEF Quiet
<1>4. ASSUME NEW v \in Alias, BeginRead(t, v) PROVE Healthy'
  <2> DEFINE f == Frame("read.lock", v, {}, FALSE)
  <2>1. f.at = "read.lock"
    BY DEF Frame
  <2>2. /\ Begins(t) /\ Quiet
        /\ stack' = stack \/ stack' = [stack EXCEPT ![t] = <<f>>]
    BY <1>4 DEF BeginRead, object, Quiet
  <2> HIDE DEF f
  <2>3. ~Starts(<<f>>)
    BY <2>1 DEF Starts, StartUp
  <2>4. CASE stack' = stack
    BY <2>2, <2>4, HealthRests DEF Quiet
  <2> QED
    BY <2>2, <2>3, <2>4, HealthBegins DEF Quiet
<1> QED
  BY <1>1, <1>2, <1>3, <1>4

LEMMA HealthStart == AdsInit => HealthInv
<1> SUFFICES ASSUME AdsInit PROVE Healthy
  BY DEF HealthInv
<1>1. /\ \A v \in Alias : handle[v] = Absent
      /\ \A t \in Thread : stack[t] = <<>>
      /\ mapped = {} /\ m_route = 0 /\ ~initialized /\ fault = "none"
  BY DEF AdsInit
<1> QED
  BY <1>1 DEF Healthy, RouteThere, HandlesGood, StartsAlone

LEMMA HealthNext ==
  AdsInv /\ MapInv /\ CalmInv /\ HealthInv /\ [AdsNext]_adsVars => HealthInv'
<1> SUFFICES ASSUME AdsInv, MapInv, CalmInv, HealthInv, [AdsNext]_adsVars, Calm PROVE Healthy'
  BY DEF HealthInv, AdsNext, adsVars, Calm, Unsupported
<1>0. Healthy
  BY DEF HealthInv
<1>1. ASSUME NEW t \in Thread, Step(t) PROVE Healthy'
  BY <1>0, <1>1, HealthFactory, HealthCheck, HealthWrite, HealthRead, HealthInitialize DEF Step
<1>2. ASSUME NEW t \in Thread, \/ BeginCheck(t) \/ BeginInitialize(t)
                               \/ \E v \in Alias : BeginWrite(t, v) \/ BeginRead(t, v)
      PROVE  Healthy'
  BY <1>0, <1>2, HealthBeginsAny
<1>3. CASE Destroy
  <2>1. \A v \in Alias, t \in Thread : ~Undone(t, v)
    BY <1>3 DEF Destroy, Undone, Doing
  <2>2. \A v \in Alias : handle[v] # Freed
    BY <1>0, <2>1 DEF Healthy, HandlesGood, AdsInv, DataTyped, Freed, Absent
  <2>3. /\ fault' = "destroyed"
        /\ UNCHANGED <<stack, m_route, live, initialized, handle, mapped>>
    BY <1>0, <1>3, <2>2 DEF Destroy, RouteUsable, Healthy, RouteThere, object
  <2> QED
    BY <1>0, <2>3 DEF Healthy, RouteThere, HandlesGood, StartsAlone, Undone, Unbound, Doing,
       Local, Starts
<1>4. CASE (\E v \in Alias, x \in Val : PlcMoves(v, x)) \/ UNCHANGED adsVars
  <2>1. UNCHANGED <<stack, m_route, live, initialized, fault, handle, mapped>>
    BY <1>4 DEF PlcMoves, adsVars, object
  <2> QED
    BY <1>0, <2>1, HealthRests
<1> QED
  BY <1>1, <1>2, <1>3, <1>4, Zenon DEF AdsNext

\* As long as the PLC answers and the variables are of types Factory knows,
\* whatever operations any number of threads interleave, between start-ups and up
\* to the destructor, no handle is used or deleted that is deleted already, none
\* is used that is null or missing, and no route that is gone or not yet made.
THEOREM NothingGoneIsUsed == AdsSpec => []SoundWhileAnswered
<1>1. HealthInv => SoundWhileAnswered
  BY DEF HealthInv, Healthy, SoundWhileAnswered
<1>2. AdsInv /\ MapInv /\ RouteInv /\ [AdsNext]_adsVars => MapInv' /\ RouteInv'
  BY RouteStep
<1> QED
  BY <1>1, <1>2, RouteStart, CalmStart, CalmNext, HealthStart, HealthNext, AdsStart, AdsStep, PTL
  DEF AdsSpec
=============================================================================
