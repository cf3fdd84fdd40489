---------------------------- MODULE RouterProofs ----------------------------
(***************************************************************************)
(* Proofs about AmsRouter for any number of devices, net ids, hosts, ports *)
(* and connections.  The inductive invariant says who holds a pointer to a *)
(* connection: the route table, the devices by way of their net ids, and   *)
(* through the devices their requests and the lists of their ports.        *)
(***************************************************************************)
EXTENDS AmsRouter, FiniteSetTheorems, TLAPS

Progress == {"none", "routed", "open", "close", "unroute"}

\* Types of the router's fields and of the devices.
RouterTyping ==
  /\ made \in 0 .. MaxConnections
  /\ connections \subseteq 1 .. made
  /\ host \in [Connection -> Host]
  /\ refCount \in [Connection -> Nat]
  /\ mapping \in [NetId -> Connection \union {0}]
  /\ isOpen \in [PortIndex -> BOOLEAN]
  /\ tmms \in [PortIndex -> {"default", "set"}]
  /\ dispatchers \in [PortIndex -> SUBSET Connection]
  /\ at \in [Device -> Progress]
  /\ netId \in [Device -> NetId]
  /\ port \in [Device -> PortIndex \union {0}]
  /\ call \in [Device -> Connection \union {0}]

\* A host has one connection, so a net id is never routed anew to another.
OneConnectionPerHost ==
  \A c, e \in connections : host[c] = host[e] => c = e

\* Routes lead to connections, and every device on a route has one.
RoutesLead ==
  /\ \A n \in NetId : mapping[n] # 0 => mapping[n] \in connections
  /\ \A d \in Device : OnRoute(d) => mapping[netId[d]] # 0

\* The count of a connection that is gone, or not yet made, is 0.
Counts == \A c \in Connection : refCount[c] = Cardinality(RoutedOver(c))

\* An open port has one device, which is on its route.
PortsHeld ==
  /\ \A d \in Device : port[d] # 0 => /\ at[d] \in {"open", "close"}
                                       /\ isOpen[port[d]]
                                       /\ dispatchers[port[d]] \subseteq {mapping[netId[d]]}
  /\ \A d, e \in Device : d # e /\ port[d] # 0 => port[d] # port[e]
  /\ \A p \in PortIndex : IF isOpen[p] THEN \E d \in Device : port[d] = p
                          ELSE tmms[p] = "default" /\ dispatchers[p] = {}

\* A request uses the connection its device is routed over.
CallsHeld ==
  \A d \in Device : call[d] # 0 =>
    at[d] = "open" /\ port[d] # 0 /\ call[d] = mapping[netId[d]]

RouterInv ==
  /\ RouterTyping /\ OneConnectionPerHost /\ RoutesLead
  /\ Counts /\ PortsHeld /\ CallsHeld

-----------------------------------------------------------------------------
\* The devices on a connection are finitely many, so they can be counted.
LEMMA RoutedOverFinite ==
  ASSUME NEW c
  PROVE  IsFiniteSet(RoutedOver(c)) /\ Cardinality(RoutedOver(c)) \in Nat
<1>1. RoutedOver(c) \subseteq Device
  BY DEF RoutedOver
<1> QED
  BY <1>1, RouterAssumption, FS_Subset, FS_CardinalityType

\* The start of the router.
LEMMA RouterStarts == RouterInit => RouterInv
<1> SUFFICES ASSUME RouterInit PROVE RouterInv
  OBVIOUS
<1> USE RouterAssumption DEF RouterInit
<1>1. AnyNetId \in NetId /\ AnyHost \in Host
  BY DEF AnyNetId, AnyHost
<1>2. RouterTyping
  BY <1>1 DEF RouterTyping, Progress, Connection, PortIndex
<1>3. ASSUME NEW c \in Connection PROVE RoutedOver(c) = {}
  BY DEF RoutedOver, OnRoute
<1>4. Counts
  BY <1>3, FS_EmptySet DEF Counts
<1>5. OneConnectionPerHost /\ RoutesLead /\ PortsHeld /\ CallsHeld
  BY DEF OneConnectionPerHost, RoutesLead, OnRoute, PortsHeld, CallsHeld
<1> QED
  BY <1>2, <1>4, <1>5 DEF RouterInv

\* A step that moves no device on or off a route and leaves the table alone
\* leaves the counts alone.
LEMMA SameCounts ==
  ASSUME Counts, UNCHANGED <<mapping, refCount, netId>>,
         \A d \in Device : OnRoute(d)' <=> OnRoute(d)
  PROVE  Counts'
<1>1. ASSUME NEW c \in Connection PROVE RoutedOver(c)' = RoutedOver(c)
  BY DEF RoutedOver, OnRoute
<1> QED
  BY <1>1 DEF Counts

-----------------------------------------------------------------------------
\* AddRoute: the net id was not routed, or over the same connection.
LEMMA AddRouteKeeps ==
  ASSUME RouterInv, NEW d \in Device, NEW n \in NetId, NEW h \in Host, AddRoute(d, n, h)
  PROVE  RouterInv'
<1> USE RouterAssumption DEF RouterInv, Routed
<1>1. PICK c \in Connection :
        /\ Routed(d, n, c) /\ at[d] = "none"
        /\ mapping[n] \in {0, c}
        /\ refCount' = [refCount EXCEPT ![c] = @ + 1]
        /\ connections' = connections \union {c}
        /\ made' \in 0 .. MaxConnections /\ connections' \subseteq 1 .. made'
        /\ host' \in [Connection -> Host]
        /\ OneConnectionPerHost'
  <2>1. CASE AddRouteShares(d, n, h)
    <3>1. PICK c \in ConnectionsTo(h) :
            refCount' = [refCount EXCEPT ![c] = Counted(c)] /\ Routed(d, n, c)
      BY <2>1 DEF AddRouteShares
    <3>2. c \in connections /\ host[c] = h /\ c \in Connection
      BY <3>1 DEF ConnectionsTo, RouterTyping, Connection
    <3>3. mapping[n] \in {0, c}
      BY <2>1, <3>2 DEF AddRouteShares, MayRoute, OneConnectionPerHost, RoutesLead
    <3>4. /\ at[d] = "none" /\ host' = host /\ made' = made
          /\ connections' = connections \union {c}
      BY <2>1, <3>2 DEF AddRouteShares, MayRoute
    <3>5. refCount' = [refCount EXCEPT ![c] = @ + 1]
      BY <3>1, <3>2 DEF Counted, RouterTyping
    <3>6. OneConnectionPerHost'
      BY <3>2, <3>4 DEF OneConnectionPerHost
    <3>7. /\ made' \in 0 .. MaxConnections /\ connections' \subseteq 1 .. made'
          /\ host' \in [Connection -> Host]
      BY <3>2, <3>4 DEF RouterTyping
    <3> QED
      BY <3>1, <3>2, <3>3, <3>4, <3>5, <3>6, <3>7
  <2>2. CASE AddRouteConnects(d, n, h)
    <3> DEFINE c == made + 1
    <3>1. c \in Connection /\ c \in 1 .. made' /\ made' \in 0 .. MaxConnections
          /\ c \notin connections
      BY <2>2 DEF AddRouteConnects, RouterTyping, Connection
    <3>2. mapping[n] = 0
      BY <2>2 DEF AddRouteConnects, MayRoute, RoutesLead, ConnectionsTo
    <3>3. connections' \subseteq 1 .. made'
      BY <2>2, <3>1 DEF AddRouteConnects, RouterTyping
    <3>4. host' = [host EXCEPT ![c] = h] /\ connections' = connections \union {c}
      BY <2>2 DEF AddRouteConnects
    <3>5. OneConnectionPerHost'
      <4>1. \A e \in connections : e \in Connection /\ e # c /\ host[e] # h
        <5>1. \A e \in connections : host[e] # h
          BY <2>2 DEF AddRouteConnects, ConnectionsTo
        <5>2. \A e \in connections : e \in Connection
          BY DEF RouterTyping, Connection
        <5> QED
          BY <3>1, <5>1, <5>2
      <4>2. \A e \in connections : host'[e] = host[e] /\ host'[e] # h
        BY <3>4, <4>1 DEF RouterTyping
      <4>3. host'[c] = h
        BY <3>1, <3>4 DEF RouterTyping
      <4> HIDE DEF c
      <4> QED
        BY <3>4, <4>2, <4>3 DEF OneConnectionPerHost
    <3>6. /\ Routed(d, n, c) /\ at[d] = "none"
          /\ refCount' = [refCount EXCEPT ![c] = @ + 1]
      BY <2>2, <3>1 DEF AddRouteConnects, MayRoute, Counted, RouterTyping
    <3>7. host' \in [Connection -> Host]
      BY <3>1, <3>4 DEF RouterTyping
    <3> QED
      BY <3>1, <3>2, <3>3, <3>4, <3>5, <3>6, <3>7
  <2> QED
    BY <2>1, <2>2 DEF AddRoute
<1>2. RouterTyping'
  BY <1>1 DEF RouterTyping, Progress, ports
<1>3. mapping' = [mapping EXCEPT ![n] = c] /\ c \in connections'
  BY <1>1
<1>4. RoutesLead'
  BY <1>1, <1>2, <1>3 DEF RoutesLead, OnRoute, RouterTyping, Connection
<1>5. \A e \in Device : e # d /\ OnRoute(e) => mapping'[netId'[e]] = mapping[netId[e]]
  BY <1>1, <1>3 DEF RoutesLead, RouterTyping
<1>6. ~OnRoute(d) /\ OnRoute(d)' /\ mapping'[netId'[d]] = c
  BY <1>1, <1>3 DEF OnRoute, RouterTyping
<1>7. \A e \in Device : e # d => (OnRoute(e)' <=> OnRoute(e))
  BY <1>1 DEF OnRoute, RouterTyping
<1>8. Counts'
  <2> SUFFICES ASSUME NEW k \in Connection
               PROVE  refCount'[k] = Cardinality(RoutedOver(k)')
    BY DEF Counts
  <2>1. CASE k = c
    <3>1. RoutedOver(k)' = RoutedOver(k) \union {d} /\ d \notin RoutedOver(k)
      BY <2>1, <1>5, <1>6, <1>7 DEF RoutedOver
    <3>2. refCount'[k] = refCount[k] + 1
      BY <1>1, <2>1 DEF RouterTyping
    <3> QED
      BY <3>1, <3>2, RoutedOverFinite, FS_AddElement DEF Counts
  <2>2. CASE k # c
    <3>1. RoutedOver(k)' = RoutedOver(k)
      BY <2>2, <1>5, <1>6, <1>7 DEF RoutedOver
    <3> QED
      BY <1>1, <2>2, <3>1 DEF Counts, RouterTyping
  <2> QED
    BY <2>1, <2>2
<1>9. PortsHeld' /\ CallsHeld'
  BY <1>1, <1>5 DEF PortsHeld, CallsHeld, OnRoute, RouterTyping, ports
<1> QED
  BY <1>1, <1>2, <1>4, <1>8, <1>9
-----------------------------------------------------------------------------
\* Steps that leave the route table and the counts alone.
LEMMA OpenPortKeeps ==
  ASSUME RouterInv, NEW d \in Device, OpenPort(d)
  PROVE  RouterInv'
<1> USE RouterAssumption DEF RouterInv, OpenPort, table, ports
<1>1. at[d] = "routed" /\ at' = [at EXCEPT ![d] = "open"] /\ port[d] = 0 /\ call[d] = 0
  BY DEF PortsHeld, CallsHeld, RouterTyping
<1>2. \A e \in Device : OnRoute(e)' <=> OnRoute(e)
  BY <1>1 DEF OnRoute, RouterTyping
<1>3. Counts'
  BY <1>2, SameCounts
<1>4. OneConnectionPerHost' /\ RoutesLead'
  BY <1>2 DEF OneConnectionPerHost, RoutesLead
<1>5. PICK q \in PortIndex \union {0} :
        /\ port' = [port EXCEPT ![d] = q]
        /\ isOpen' = [p \in PortIndex |-> p = q \/ isOpen[p]]
        /\ q # 0 => ~isOpen[q]
  <2>1. CASE port' = [port EXCEPT ![d] = 0] /\ UNCHANGED isOpen
    <3>1. isOpen = [p \in PortIndex |-> p = 0 \/ isOpen[p]]
      BY DEF RouterTyping, PortIndex
    <3> QED
      BY <2>1, <3>1
  <2>2. CASE \E p \in FreePorts : /\ port' = [port EXCEPT ![d] = p]
                                  /\ isOpen' = [isOpen EXCEPT ![p] = TRUE]
    <3>1. PICK p \in FreePorts : /\ port' = [port EXCEPT ![d] = p]
                                 /\ isOpen' = [isOpen EXCEPT ![p] = TRUE]
      BY <2>2
    <3>2. p \in PortIndex /\ ~isOpen[p] /\ isOpen \in [PortIndex -> BOOLEAN]
      BY DEF FreePorts, RouterTyping
    <3>3. isOpen' = [r \in PortIndex |-> r = p \/ isOpen[r]]
      BY <3>1, <3>2, Zenon
    <3> QED
      BY <3>1, <3>2, <3>3
  <2> QED
    BY <2>1, <2>2
<1>6. RouterTyping'
  BY <1>1, <1>5 DEF RouterTyping, Progress
<1>7. \A e \in Device : e # d => port'[e] = port[e] /\ at'[e] = at[e]
  BY <1>1, <1>5 DEF RouterTyping
<1>8. port'[d] = q /\ at'[d] = "open"
  BY <1>1, <1>5 DEF RouterTyping
<1>9. \A e \in Device : port[e] # 0 => port[e] # q
  BY <1>5 DEF PortsHeld, RouterTyping
<1>10. PortsHeld'
  <2>1. \A p \in PortIndex : isOpen'[p] <=> p = q \/ isOpen[p]
    BY <1>5
  <2>2. \A e \in Device : port'[e] # 0 =>
          /\ at'[e] \in {"open", "close"} /\ isOpen'[port'[e]]
          /\ dispatchers'[port'[e]] \subseteq {mapping'[netId'[e]]}
    <3> SUFFICES ASSUME NEW e \in Device, port'[e] # 0
                 PROVE  /\ at'[e] \in {"open", "close"} /\ isOpen'[port'[e]]
                        /\ dispatchers'[port'[e]] \subseteq {mapping'[netId'[e]]}
      OBVIOUS
    <3>1. CASE e = d
      BY <3>1, <1>5, <1>8, <2>1 DEF PortsHeld
    <3>2. CASE e # d
      BY <3>2, <1>7, <2>1 DEF PortsHeld, RouterTyping
    <3> QED
      BY <3>1, <3>2
  <2>3. \A e, g \in Device : e # g /\ port'[e] # 0 => port'[e] # port'[g]
    BY <1>7, <1>8, <1>9 DEF PortsHeld
  <2>4. \A p \in PortIndex : IF isOpen'[p] THEN \E e \in Device : port'[e] = p
                             ELSE tmms'[p] = "default" /\ dispatchers'[p] = {}
    BY <1>1, <1>7, <1>8, <2>1 DEF PortsHeld, PortIndex
  <2> QED
    BY <2>2, <2>3, <2>4 DEF PortsHeld
<1>11. CallsHeld'
  BY <1>1, <1>7 DEF CallsHeld
<1> QED
  BY <1>3, <1>4, <1>6, <1>10, <1>11

LEMMA RequestsKeep ==
  ASSUME RouterInv, NEW d \in Device,
         RequestBegins(d) \/ RequestEnds(d) \/ AddNotification(d)
           \/ DelNotification(d) \/ SetTimeout(d)
  PROVE  RouterInv'
<1> USE RouterAssumption
    DEF RouterInv, RequestBegins, RequestEnds, AddNotification, DelNotification,
        SetTimeout, Ready, table, ports, devices
<1>1. /\ UNCHANGED <<table, isOpen, at, netId, port>>
      /\ port[d] # 0 \/ RequestEnds(d)
  BY DEF CallsHeld
<1>2. \A e \in Device : OnRoute(e)' <=> OnRoute(e)
  BY <1>1 DEF OnRoute
<1>3. Counts'
  BY <1>1, <1>2, SameCounts
<1>4. OneConnectionPerHost' /\ RoutesLead'
  BY <1>1, <1>2 DEF OneConnectionPerHost, RoutesLead
<1>5. port[d] # 0 => port[d] \in PortIndex
  BY DEF RouterTyping
<1>6. /\ tmms' \in [PortIndex -> {"default", "set"}]
      /\ \A p \in PortIndex : p # port[d] => tmms'[p] = tmms[p]
  BY DEF RouterTyping
<1>7. /\ dispatchers' \in [PortIndex -> SUBSET Connection]
      /\ \A p \in PortIndex : p # port[d] => dispatchers'[p] = dispatchers[p]
      /\ port[d] # 0 => dispatchers'[port[d]] \subseteq {mapping[netId[d]]}
  <2>1. CASE AddNotification(d)
    BY <1>5, <2>1 DEF RouterTyping, CallsHeld, PortsHeld
  <2>2. CASE DelNotification(d)
    BY <1>5, <2>2 DEF RouterTyping, PortsHeld
  <2>3. CASE UNCHANGED dispatchers
    BY <2>3 DEF RouterTyping, PortsHeld
  <2> QED
    BY <2>1, <2>2, <2>3
<1>8. /\ call' \in [Device -> Connection \union {0}]
      /\ \A e \in Device : call'[e] # 0 => 
           call'[e] = call[e] \/ (e = d /\ RequestBegins(d))
  BY DEF RouterTyping
<1>9. RouterTyping'
  BY <1>1, <1>6, <1>7, <1>8 DEF RouterTyping
<1>10. CallsHeld'
  BY <1>1, <1>8 DEF CallsHeld, RouterTyping
<1>11. PortsHeld'
  <2>1. \A e \in Device : port'[e] # 0 =>
          /\ at'[e] \in {"open", "close"} /\ isOpen'[port'[e]]
          /\ dispatchers'[port'[e]] \subseteq {mapping'[netId'[e]]}
    BY <1>1, <1>7 DEF PortsHeld, RouterTyping
  <2>2. \A p \in PortIndex : IF isOpen'[p] THEN \E e \in Device : port'[e] = p
                             ELSE tmms'[p] = "default" /\ dispatchers'[p] = {}
    <3>1. port[d] # 0 => isOpen[port[d]]
      BY DEF PortsHeld
    <3> QED
      BY <1>1, <1>6, <1>7, <3>1 DEF PortsHeld
  <2> QED
    BY <1>1, <2>1, <2>2 DEF PortsHeld
<1> QED
  BY <1>3, <1>4, <1>9, <1>10, <1>11

\* The destructor begins.
LEMMA DestroyKeeps ==
  ASSUME RouterInv, NEW d \in Device, Destroy(d)
  PROVE  RouterInv'
<1> USE RouterAssumption DEF RouterInv, Destroy, Ready, Teardown, table, ports
<1>1. at[d] = "open" /\ at' = [at EXCEPT ![d] = "close"] /\ call[d] = 0
  OBVIOUS
<1>2. \A e \in Device : OnRoute(e)' <=> OnRoute(e)
  BY <1>1 DEF OnRoute, RouterTyping
<1>3. Counts'
  BY <1>2, SameCounts
<1>4. OneConnectionPerHost' /\ RoutesLead'
  BY <1>2 DEF OneConnectionPerHost, RoutesLead
<1>5. RouterTyping' /\ PortsHeld' /\ CallsHeld'
  BY <1>1 DEF RouterTyping, Progress, PortsHeld, CallsHeld
<1> QED
  BY <1>3, <1>4, <1>5

\* A port that is closed leaves nothing behind.
LEMMA ClosePortKeeps ==
  ASSUME RouterInv, NEW d \in Device, ClosePort(d)
  PROVE  RouterInv'
<1> USE RouterAssumption DEF RouterInv, ClosePort, Closed, Teardown, table, ports
<1>1. /\ at[d] = "close" /\ at' = [at EXCEPT ![d] = "unroute"]
      /\ port' = [port EXCEPT ![d] = 0]
  OBVIOUS
<1>2. \A e \in Device : OnRoute(e)' <=> OnRoute(e)
  BY <1>1 DEF OnRoute, RouterTyping
<1>3. Counts'
  BY <1>2, SameCounts
<1>4. OneConnectionPerHost' /\ RoutesLead'
  BY <1>2 DEF OneConnectionPerHost, RoutesLead
<1>5. /\ isOpen' \in [PortIndex -> BOOLEAN]
      /\ tmms' \in [PortIndex -> {"default", "set"}]
      /\ dispatchers' \in [PortIndex -> SUBSET Connection]
  BY DEF RouterTyping
<1>6. RouterTyping'
  BY <1>1, <1>5 DEF RouterTyping, Progress
<1>7. \A p \in PortIndex :
        /\ p # port[d] => /\ isOpen'[p] = isOpen[p] /\ tmms'[p] = tmms[p]
                          /\ dispatchers'[p] = dispatchers[p]
        /\ p = port[d] => ~isOpen'[p] /\ tmms'[p] = "default" /\ dispatchers'[p] = {}
  BY DEF RouterTyping, PortIndex
<1>8. \A e \in Device : e # d => port'[e] = port[e] /\ at'[e] = at[e]
  BY <1>1 DEF RouterTyping
<1>9. port'[d] = 0
  BY <1>1 DEF RouterTyping
<1>10. PortsHeld'
  <2>1. \A e \in Device : port'[e] # 0 =>
          /\ at'[e] \in {"open", "close"} /\ isOpen'[port'[e]]
          /\ dispatchers'[port'[e]] \subseteq {mapping'[netId'[e]]}
    BY <1>7, <1>8, <1>9 DEF PortsHeld, RouterTyping
  <2>2. \A e, g \in Device : e # g /\ port'[e] # 0 => port'[e] # port'[g]
    BY <1>8, <1>9 DEF PortsHeld
  <2>3. \A p \in PortIndex : IF isOpen'[p] THEN \E e \in Device : port'[e] = p
                             ELSE tmms'[p] = "default" /\ dispatchers'[p] = {}
    BY <1>7, <1>8 DEF PortsHeld
  <2> QED
    BY <2>1, <2>2, <2>3 DEF PortsHeld
<1>11. CallsHeld'
  BY <1>1, <1>8 DEF CallsHeld, RouterTyping
<1> QED
  BY <1>3, <1>4, <1>6, <1>10, <1>11

-----------------------------------------------------------------------------
\* DelRoute: a connection goes with its last device, so nobody points to it.
LEMMA DelRouteKeeps ==
  ASSUME RouterInv, NEW d \in Device, DelRoute(d)
  PROVE  RouterInv'
<1> USE RouterAssumption DEF RouterInv
<1> DEFINE c == mapping[netId[d]]
<1>1. /\ at[d] = "unroute" /\ at' = [at EXCEPT ![d] = "none"]
      /\ netId' = [netId EXCEPT ![d] = AnyNetId]
      /\ UNCHANGED <<host, made, users, broken, ports, port, call>>
  BY DEF DelRoute, Teardown
<1>2. OnRoute(d) /\ c # 0 /\ c \in connections /\ c \in Connection /\ d \in RoutedOver(c)
  BY <1>1 DEF OnRoute, RoutesLead, RouterTyping, RoutedOver, Connection
<1>3. /\ refCount' = [refCount EXCEPT ![c] = @ - 1]
      /\ refCount[c] # 1 => UNCHANGED <<connections, mapping>>
      /\ refCount[c] = 1 => /\ mapping' = [mapping EXCEPT ![netId[d]] = 0]
                            /\ connections' = IF StillMapped(c) THEN connections
                                              ELSE connections \ {c}
  <2>1. refCount \in [Connection -> Nat]
    BY DEF RouterTyping
  <2> QED
    BY <1>2, <2>1 DEF DelRoute
<1>4. refCount[c] = Cardinality(RoutedOver(c)) /\ refCount[c] \in Nat \ {0}
  <2>1. RoutedOver(c) # {} /\ IsFiniteSet(RoutedOver(c))
    BY <1>2, RoutedOverFinite
  <2> QED
    BY <1>2, <2>1, FS_EmptySet, RoutedOverFinite DEF Counts
<1>5. /\ IsFiniteSet(RoutedOver(c) \ {d})
      /\ Cardinality(RoutedOver(c) \ {d}) = Cardinality(RoutedOver(c)) - 1
  BY <1>2, RoutedOverFinite, FS_RemoveElement
<1>6. ASSUME refCount[c] = 1, NEW e \in Device, OnRoute(e), e # d
      PROVE  mapping[netId[e]] # c
  <2>1. Cardinality(RoutedOver(c) \ {d}) = 0
    BY <1>4, <1>5, <1>6
  <2>2. RoutedOver(c) \ {d} = {}
    BY <1>5, <2>1, FS_EmptySet
  <2> QED
    BY <1>6, <2>2 DEF RoutedOver
<1>7. \A e \in Device : e # d => /\ at'[e] = at[e] /\ netId'[e] = netId[e]
                                 /\ OnRoute(e)' <=> OnRoute(e)
  BY <1>1 DEF RouterTyping, OnRoute
<1>8. ~OnRoute(d)' /\ at'[d] = "none" /\ port[d] = 0 /\ call[d] = 0
  BY <1>1 DEF RouterTyping, OnRoute, PortsHeld, CallsHeld
<1>9. \A e \in Device : e # d /\ OnRoute(e) => mapping'[netId'[e]] = mapping[netId[e]]
  <2> SUFFICES ASSUME NEW e \in Device, e # d, OnRoute(e)
               PROVE  mapping'[netId[e]] = mapping[netId[e]]
    BY <1>7
  <2>1. CASE refCount[c] = 1
    <3>1. netId[e] # netId[d]
      BY <1>6, <2>1
    <3>2. netId[e] \in NetId /\ mapping \in [NetId -> Connection \union {0}]
      BY DEF RouterTyping
    <3> QED
      BY <1>3, <2>1, <3>1, <3>2
  <2>2. CASE refCount[c] # 1
    BY <1>3, <2>2
  <2> QED
    BY <2>1, <2>2
<1>10. RouterTyping'
  <2>1. AnyNetId \in NetId
    BY DEF AnyNetId
  <2>2. netId' \in [Device -> NetId] /\ at' \in [Device -> Progress]
    BY <1>1, <2>1 DEF RouterTyping, Progress
  <2>3. refCount' \in [Connection -> Nat]
    <3>1. refCount \in [Connection -> Nat] /\ refCount[c] - 1 \in Nat
      BY <1>4 DEF RouterTyping
    <3> QED
      BY <1>3, <3>1
  <2>4. mapping' \in [NetId -> Connection \union {0}] /\ connections' \subseteq connections
    BY <1>3 DEF RouterTyping
  <2> QED
    BY <1>1, <2>2, <2>3, <2>4 DEF RouterTyping, ports
<1>11. OneConnectionPerHost'
  BY <1>1, <1>3 DEF OneConnectionPerHost
<1>12. \A n \in NetId : mapping'[n] # 0 => mapping'[n] \in connections'
  <2> SUFFICES ASSUME NEW n \in NetId, mapping'[n] # 0
               PROVE  mapping'[n] \in connections'
    OBVIOUS
  <2>1. mapping'[n] = mapping[n] /\ mapping[n] \in connections
    BY <1>3 DEF RoutesLead, RouterTyping
  <2>2. CASE connections' = connections
    BY <2>1, <2>2
  <2>3. CASE refCount[c] = 1 /\ ~StillMapped(c)
    BY <1>3, <2>1, <2>3 DEF StillMapped
  <2> QED
    BY <1>3, <2>2, <2>3
<1>13. RoutesLead'
  BY <1>7, <1>8, <1>9, <1>12 DEF RoutesLead
<1>14. Counts'
  <2> SUFFICES ASSUME NEW k \in Connection
               PROVE  refCount'[k] = Cardinality(RoutedOver(k)')
    BY DEF Counts
  <2>1. RoutedOver(k)' = RoutedOver(k) \ {d}
    BY <1>7, <1>8, <1>9 DEF RoutedOver
  <2>2. CASE k = c
    <3>1. refCount'[c] = refCount[c] - 1
      BY <1>2, <1>3 DEF RouterTyping
    <3> QED
      BY <1>4, <1>5, <2>1, <2>2, <3>1
  <2>3. CASE k # c
    <3>1. d \notin RoutedOver(k)
      BY <2>3 DEF RoutedOver
    <3>2. RoutedOver(k)' = RoutedOver(k)
      BY <2>1, <3>1
    <3> QED
      BY <1>2, <1>3, <2>3, <3>2 DEF Counts, RouterTyping
  <2> QED
    BY <2>2, <2>3
<1>15. PortsHeld' /\ CallsHeld'
  <2>1. \A e \in Device : port[e] # 0 \/ call[e] # 0 => e # d /\ OnRoute(e)
    BY <1>8 DEF PortsHeld, CallsHeld, OnRoute
  <2>2. UNCHANGED <<isOpen, tmms, dispatchers, port, call>>
    BY <1>1 DEF ports
  <2>3. CallsHeld'
    BY <1>7, <1>9, <2>1, <2>2 DEF CallsHeld
  <2>4. PortsHeld'
    BY <1>7, <1>9, <2>1, <2>2 DEF PortsHeld
  <2> QED
    BY <2>3, <2>4
<1> QED
  BY <1>10, <1>11, <1>13, <1>14, <1>15

-----------------------------------------------------------------------------
\* What the remote side does.
LEMMA BreaksKeeps ==
  ASSUME RouterInv, UNCHANGED <<table, ports, devices>>
  PROVE  RouterInv'
<1> USE DEF RouterInv, table, ports, devices
<1>1. \A d \in Device : OnRoute(d)' <=> OnRoute(d)
  BY DEF OnRoute
<1>2. Counts'
  BY <1>1, SameCounts
<1>3. OneConnectionPerHost' /\ RoutesLead'
  BY <1>1 DEF OneConnectionPerHost, RoutesLead
<1>4. RouterTyping' /\ PortsHeld' /\ CallsHeld'
  BY DEF RouterTyping, PortsHeld, CallsHeld
<1> QED
  BY <1>2, <1>3, <1>4

\* The inductive invariant: whoever holds a pointer to a connection is a
\* device on its route, or gets it through one, and the count of the
\* connection says how many there are (AmsRouter.cpp, AmsPort.cpp, AdsDevice).
THEOREM RouterInvariance == RouterSpec => []RouterInv
<1>1. RouterInv /\ [RouterNext]_routerVars => RouterInv'
  <2> SUFFICES ASSUME RouterInv, [RouterNext]_routerVars PROVE RouterInv'
    OBVIOUS
  <2>1. ASSUME NEW d \in Device, NEW n \in NetId, NEW h \in Host, AddRoute(d, n, h)
        PROVE  RouterInv'
    BY <2>1, AddRouteKeeps
  <2>2. ASSUME NEW d \in Device, OpenPort(d) PROVE RouterInv'
    BY <2>2, OpenPortKeeps
  <2>3. ASSUME NEW d \in Device,
               RequestBegins(d) \/ RequestEnds(d) \/ AddNotification(d)
                 \/ DelNotification(d) \/ SetTimeout(d)
        PROVE  RouterInv'
    BY <2>3, RequestsKeep
  <2>4. ASSUME NEW d \in Device, Destroy(d) PROVE RouterInv'
    BY <2>4, DestroyKeeps
  <2>5. ASSUME NEW d \in Device, ClosePort(d) PROVE RouterInv'
    BY <2>5, ClosePortKeeps
  <2>6. ASSUME NEW d \in Device, DelRoute(d) PROVE RouterInv'
    BY <2>6, DelRouteKeeps
  <2>7. ASSUME NEW c \in Connection, Breaks(c) PROVE RouterInv'
    BY <2>7, BreaksKeeps DEF Breaks
  <2>8. CASE UNCHANGED routerVars
    BY <2>8, BreaksKeeps DEF routerVars
  <2> QED
    BY <2>1, <2>2, <2>3, <2>4, <2>5, <2>6, <2>7, <2>8 DEF RouterNext
<1> QED
  BY <1>1, RouterStarts, PTL DEF RouterSpec

\* No raw pointer to a connection dangles, whatever devices are made, used
\* and destroyed in whatever order (AmsRouter.cpp:102-131, AdsDevice.h:99).
THEOREM NothingEverDangles == RouterSpec => []NothingDangles
<1>1. RouterInv => NothingDangles
  <2> SUFFICES ASSUME RouterInv PROVE NothingDangles
    OBVIOUS
  <2> USE DEF RouterInv
  <2>1. ASSUME NEW d \in Device, OnRoute(d)
        PROVE  mapping[netId[d]] # 0 /\ mapping[netId[d]] \in connections
    BY <2>1 DEF RoutesLead, RouterTyping
  <2>2. ASSUME NEW d \in Device, call[d] # 0 PROVE call[d] \in connections
    BY <2>1, <2>2 DEF CallsHeld, OnRoute
  <2>3. ASSUME NEW p \in PortIndex PROVE dispatchers[p] \subseteq connections
    <3>1. CASE isOpen[p]
      <4>1. PICK d \in Device : port[d] = p
        BY <3>1 DEF PortsHeld
      <4>2. port[d] # 0 /\ OnRoute(d) /\ dispatchers[p] \subseteq {mapping[netId[d]]}
        BY <4>1 DEF PortsHeld, PortIndex, OnRoute
      <4> QED
        BY <2>1, <4>2
    <3>2. CASE ~isOpen[p]
      BY <3>2 DEF PortsHeld
    <3> QED
      BY <3>1, <3>2
  <2> QED
    BY <2>1, <2>2, <2>3 DEF NothingDangles, RoutesLead
<1> QED
  BY <1>1, RouterInvariance, PTL

\* refCount is the number of devices on a connection at any time, so DelRoute
\* deletes it with the last of them and not before (AmsRouter.cpp:80, :107).
THEOREM RefCountsAreDevices == RouterSpec => []RefCountIsDevices
<1>1. ASSUME RouterInv PROVE RefCountIsDevices
  <2>1. \A c \in connections : c \in Connection
    BY <1>1, RouterAssumption DEF RouterInv, RouterTyping, Connection
  <2> QED
    BY <1>1, <2>1 DEF RouterInv, Counts, RefCountIsDevices
<1> QED
  BY <1>1, RouterInvariance, PTL

\* No port has two devices or anything of its last one (AmsPort.cpp:27-37).
THEOREM PortsStayOwned == RouterSpec => []PortsAreOwned
<1>1. RouterInv => PortsAreOwned
  BY DEF RouterInv, PortsHeld, PortsAreOwned
<1> QED
  BY <1>1, RouterInvariance, PTL

-----------------------------------------------------------------------------
\* Which connections a recovery may find: one that has lost its last device
\* is still there only because the route of a second net id was left behind.
LeftBehind ==
  /\ broken \subseteq 1 .. made
  /\ users \in [Connection -> SUBSET NetId]
  /\ \A n \in NetId : mapping[n] # 0 => n \in users[mapping[n]]
  /\ \A c \in connections : refCount[c] = 0 => \E n, m \in users[c] : n # m

LEMMA AddRouteLeaves ==
  ASSUME RouterInv, LeftBehind, NEW d \in Device, NEW n \in NetId, NEW h \in Host,
         AddRoute(d, n, h)
  PROVE  LeftBehind'
<1> USE DEF RouterInv, LeftBehind
<1>1. PICK c \in Connection :
        /\ mapping' = [mapping EXCEPT ![n] = c]
        /\ users' = [users EXCEPT ![c] = @ \union {n}]
        /\ refCount' = [refCount EXCEPT ![c] = @ + 1]
        /\ connections' = connections \union {c}
        /\ broken' = broken /\ made \in Nat /\ made' \in Nat /\ made <= made'
  <2>1. CASE AddRouteShares(d, n, h)
    <3>1. PICK c \in ConnectionsTo(h) :
            refCount' = [refCount EXCEPT ![c] = Counted(c)] /\ Routed(d, n, c)
      BY <2>1 DEF AddRouteShares
    <3>2. c \in connections /\ c \in Connection
      BY <3>1, RouterAssumption DEF ConnectionsTo, RouterTyping, Connection
    <3>3. connections' = connections \union {c} /\ made' = made /\ made \in Nat
      BY <2>1, <3>2, RouterAssumption DEF AddRouteShares, RouterTyping
    <3>4. refCount' = [refCount EXCEPT ![c] = @ + 1]
      BY <3>1, <3>2 DEF Counted, RouterTyping
    <3>5. mapping' = [mapping EXCEPT ![n] = c] /\ users' = [users EXCEPT ![c] = @ \union {n}]
          /\ broken' = broken
      BY <3>1 DEF Routed
    <3>6. made' \in Nat /\ made <= made'
      BY <3>3
    <3> QED
      BY <3>2, <3>3, <3>4, <3>5, <3>6
  <2>2. CASE AddRouteConnects(d, n, h)
    <3> DEFINE c == made + 1
    <3>1. made \in Nat /\ c \in Connection
      BY <2>2, RouterAssumption DEF AddRouteConnects, RouterTyping, Connection
    <3>2. Routed(d, n, c) /\ connections' = connections \union {c} /\ made' = c
      BY <2>2 DEF AddRouteConnects
    <3>3. refCount' = [refCount EXCEPT ![c] = @ + 1]
      BY <2>2, <3>1 DEF AddRouteConnects, Counted, RouterTyping
    <3>4. mapping' = [mapping EXCEPT ![n] = c] /\ users' = [users EXCEPT ![c] = @ \union {n}]
          /\ broken' = broken
      BY <3>2 DEF Routed
    <3>5. made' \in Nat /\ made <= made'
      BY <3>1, <3>2
    <3> HIDE DEF c
    <3> QED
      BY <3>1, <3>2, <3>3, <3>4, <3>5
  <2> QED
    BY <2>1, <2>2 DEF AddRoute
<1>2. \A k \in Connection : users[k] \subseteq users'[k]
  BY <1>1
<1>3. \A m \in NetId : mapping'[m] # 0 => m \in users'[mapping'[m]]
  BY <1>1, <1>2 DEF RouterTyping
<1>4. ASSUME NEW k \in connections', refCount'[k] = 0
      PROVE  \E m, l \in users'[k] : m # l
  <2>1. refCount[c] \in Nat /\ refCount'[c] = refCount[c] + 1
    BY <1>1 DEF RouterTyping
  <2>2. k # c /\ k \in connections /\ refCount[k] = 0 /\ k \in Connection
    BY <1>1, <1>4, <2>1, RouterAssumption DEF RouterTyping, Connection
  <2> QED
    BY <1>2, <2>2
<1>5. broken' \subseteq 1 .. made' /\ users' \in [Connection -> SUBSET NetId]
  BY <1>1
<1> QED
  BY <1>3, <1>4, <1>5

LEMMA DelRouteLeaves ==
  ASSUME RouterInv, LeftBehind, NEW d \in Device, DelRoute(d)
  PROVE  LeftBehind'
<1> USE RouterAssumption DEF RouterInv, LeftBehind
<1> DEFINE c == mapping[netId[d]]
<1>1. at[d] = "unroute" /\ UNCHANGED <<made, users, broken>>
  BY DEF DelRoute
<1>2. c \in connections /\ c \in Connection /\ c # 0 /\ d \in RoutedOver(c)
  BY <1>1 DEF OnRoute, RoutesLead, RouterTyping, RoutedOver, Connection
<1>3. refCount[c] \in Nat \ {0}
  <2>1. RoutedOver(c) # {} /\ IsFiniteSet(RoutedOver(c))
    BY <1>2, RoutedOverFinite
  <2> QED
    BY <1>2, <2>1, FS_EmptySet, RoutedOverFinite DEF Counts
<1>4. \/ /\ refCount[c] # 1 /\ refCount' = [refCount EXCEPT ![c] = @ - 1]
         /\ UNCHANGED <<connections, mapping>>
      \/ /\ refCount[c] = 1 /\ refCount' = [refCount EXCEPT ![c] = 0]
         /\ mapping' = [mapping EXCEPT ![netId[d]] = 0]
         /\ connections' = IF StillMapped(c) THEN connections ELSE connections \ {c}
  BY <1>2 DEF DelRoute
<1>5. mapping \in [NetId -> Connection \union {0}] /\ refCount \in [Connection -> Nat]
  BY DEF RouterTyping
<1>6. ASSUME NEW m \in NetId, mapping'[m] # 0 PROVE m \in users'[mapping'[m]]
  <2>1. mapping'[m] = mapping[m]
    BY <1>4, <1>5, <1>6
  <2> QED
    BY <1>1, <1>6, <2>1
<1>7. ASSUME NEW k \in connections', refCount'[k] = 0
      PROVE  \E m, l \in users'[k] : m # l
  <2>1. k \in connections /\ k \in Connection
    <3>1. connections' \subseteq connections
      BY <1>4
    <3>2. connections \subseteq Connection
      BY DEF RouterTyping, Connection
    <3> QED
      BY <1>7, <3>1, <3>2
  <2>2. CASE k # c
    <3>1. refCount[k] = 0
      BY <1>4, <1>5, <1>7, <2>1, <2>2
    <3> QED
      BY <1>1, <2>1, <3>1
  <2>3. CASE k = c
    <3>1. refCount[c] = 1 /\ StillMapped(c) /\ mapping' = [mapping EXCEPT ![netId[d]] = 0]
      BY <1>2, <1>3, <1>4, <1>5, <1>7, <2>3
    <3>2. PICK n \in NetId : mapping'[n] = c
      BY <3>1 DEF StillMapped
    <3>3. n # netId[d] /\ mapping[n] = c /\ netId[d] \in NetId
      BY <1>2, <1>5, <3>1, <3>2 DEF RouterTyping
    <3>4. n \in users[c] /\ netId[d] \in users[c]
      BY <1>2, <3>3
    <3> QED
      BY <1>1, <2>3, <3>3, <3>4
  <2> QED
    BY <2>2, <2>3
<1> QED
  BY <1>1, <1>6, <1>7

\* Of the connections without a device only shared ones are left.
THEOREM RoutesAreLeftBehind == RouterSpec => []LeftBehind
<1>1. RouterInit => LeftBehind
  BY RouterAssumption DEF RouterInit, LeftBehind
<1>2. RouterInv /\ LeftBehind /\ [RouterNext]_routerVars => LeftBehind'
  <2> SUFFICES ASSUME RouterInv, LeftBehind, [RouterNext]_routerVars PROVE LeftBehind'
    OBVIOUS
  <2>1. ASSUME NEW d \in Device, NEW n \in NetId, NEW h \in Host, AddRoute(d, n, h)
        PROVE  LeftBehind'
    BY <2>1, AddRouteLeaves
  <2>2. ASSUME UNCHANGED table, broken' = broken PROVE LeftBehind'
    BY <2>2 DEF table, LeftBehind
  <2>3. ASSUME NEW d \in Device,
               \/ OpenPort(d) \/ RequestBegins(d) \/ RequestEnds(d) \/ AddNotification(d)
               \/ DelNotification(d) \/ SetTimeout(d) \/ Destroy(d) \/ ClosePort(d)
        PROVE  LeftBehind'
    <3>1. UNCHANGED table /\ broken' = broken
      BY <2>3 DEF OpenPort, RequestBegins, RequestEnds, AddNotification, DelNotification,
        SetTimeout, Destroy, ClosePort
    <3> QED
      BY <2>2, <3>1
  <2>4. ASSUME NEW d \in Device, DelRoute(d) PROVE LeftBehind'
    BY <2>4, DelRouteLeaves
  <2>5. ASSUME NEW c \in Connection, Breaks(c) PROVE LeftBehind'
    BY <2>5 DEF Breaks, table, LeftBehind, RouterInv, RouterTyping
  <2>6. CASE UNCHANGED routerVars
    BY <2>2, <2>6 DEF routerVars
  <2> QED
    BY <2>1, <2>3, <2>4, <2>5, <2>6 DEF RouterNext
<1> QED
  BY <1>1, <1>2, RouterInvariance, PTL DEF RouterSpec

\* The device that ConnectionCheck makes in place of a broken one reconnects,
\* unless somebody else holds or has left behind the broken connection
\* (AmsRouter.cpp:67-81, :102-131).
THEOREM RecoveriesReconnect == RouterSpec => RecoveryReconnects
<1> DEFINE Reconnects(d) ==
      at[d] = "none" /\ at'[d] = "routed" =>
        LET c == mapping'[netId'[d]] IN
        \/ c \notin broken
        \/ RoutedOver(c) # {}
        \/ \E n \in users[c] : n # netId'[d]
<1>1. RouterInv /\ LeftBehind /\ [RouterNext]_routerVars
        => [\A d \in Device : Reconnects(d)]_routerVars
  <2> SUFFICES ASSUME RouterInv, LeftBehind, RouterNext, NEW d \in Device,
                      at[d] = "none", at'[d] = "routed"
               PROVE  Reconnects(d)
    OBVIOUS
  <2> USE DEF RouterInv, LeftBehind
  <2>1. PICK e \in Device, n \in NetId, h \in Host : AddRoute(e, n, h)
    BY DEF RouterNext, OpenPort, RequestBegins, RequestEnds, AddNotification,
      DelNotification, SetTimeout, Destroy, ClosePort, DelRoute, Breaks, table, ports,
      devices, Teardown, RouterTyping
  <2>2. e = d
    BY <2>1 DEF AddRoute, AddRouteShares, AddRouteConnects, Routed, RouterTyping
  <2>3. CASE AddRouteShares(d, n, h)
    <3>1. PICK c \in ConnectionsTo(h) : Routed(d, n, c)
      BY <2>3 DEF AddRouteShares
    <3>2. c \in connections /\ c \in Connection
      BY <3>1, RouterAssumption DEF ConnectionsTo, RouterTyping, Connection
    <3>3. netId'[d] = n /\ mapping'[n] = c
      BY <3>1 DEF Routed, RouterTyping
    <3>4. RoutedOver(c) = {} => \E m \in users[c] : m # n
      <4>1. RoutedOver(c) = {} => refCount[c] = 0
        BY <3>2, FS_EmptySet DEF Counts
      <4> QED
        BY <3>2, <4>1
    <3> QED
      BY <3>3, <3>4
  <2>4. CASE AddRouteConnects(d, n, h)
    <3> DEFINE c == made + 1
    <3>1. Routed(d, n, c) /\ c \in Connection /\ c \notin broken
      BY <2>4, RouterAssumption DEF AddRouteConnects, RouterTyping, Connection
    <3>2. netId'[d] = n /\ mapping'[n] = c
      BY <3>1 DEF Routed, RouterTyping
    <3> QED
      BY <3>1, <3>2
  <2> QED
    BY <2>1, <2>2, <2>3, <2>4 DEF AddRoute
<1> QED
  BY <1>1, RouterInvariance, RoutesAreLeftBehind, PTL DEF RouterSpec, RecoveryReconnects
=============================================================================
