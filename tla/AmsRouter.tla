----------------------------- MODULE AmsRouter ------------------------------
(***************************************************************************)
(* The AMS router of AdsLib/standalone/AmsRouter.cpp with its local ports  *)
(* (AmsPort.cpp), used through AdsDevice (AdsDevice.cpp) and the guards of *)
(* AdsLib/standalone/AdsLib.cpp.  Devices of several threads share the     *)
(* router, and devices that talk to one host share a connection: raw       *)
(* pointers to it lie in the route table, in requests in progress and in   *)
(* the notification lists of the ports.                                    *)
(*                                                                         *)
(* Abstractions.  Router operations are atomic: they run under one         *)
(* recursive mutex.  A connection is the number of its creation, a host    *)
(* has one address, a local port is its index + 1 (0: none), and a port's  *)
(* list is the set of connections it has notifications on.                 *)
(***************************************************************************)
EXTENDS Integers, FiniteSets

CONSTANTS
  Device,           \* AdsDevice objects
  NetId, Host,      \* AMS net ids, host addresses
  NUM_PORTS_MAX,    \* local ports of the router
  MaxConnections    \* bound of the model on connections made

ASSUME RouterAssumption ==
  /\ IsFiniteSet(Device) /\ NetId # {} /\ Host # {}
  /\ NUM_PORTS_MAX \in Nat /\ MaxConnections \in Nat

VARIABLES
  connections,  \* connections that exist
  host,         \* the host each connection was made to
  refCount,     \* of each connection
  broken,       \* connections the remote side has closed
  made,         \* connections made so far
  mapping,      \* the route table; 0: no route
  isOpen, tmms, \* of each port
  dispatchers,  \* of each port: connections it has notifications on
  at,           \* progress of each device's construction or destruction
  netId, port,  \* m_NetId and m_LocalPort of each device
  call,         \* connection a device's request in progress uses; 0: none
  users         \* history: net ids that have been routed over a connection

table    == <<connections, host, refCount, made, mapping, users>>
ports    == <<isOpen, tmms, dispatchers>>
devices  == <<at, netId, port, call>>
routerVars == <<table, broken, ports, devices>>

Connection == 1 .. MaxConnections
PortIndex  == 1 .. NUM_PORTS_MAX

AnyNetId == CHOOSE n \in NetId : TRUE
AnyHost  == CHOOSE h \in Host : TRUE

RouterInit ==
  /\ connections = {} /\ broken = {} /\ made = 0
  /\ host = [c \in Connection |-> AnyHost]
  /\ refCount = [c \in Connection |-> 0]
  /\ users = [c \in Connection |-> {}]
  /\ mapping = [n \in NetId |-> 0]
  /\ isOpen = [p \in PortIndex |-> FALSE]
  /\ tmms = [p \in PortIndex |-> "default"]
  /\ dispatchers = [p \in PortIndex |-> {}]
  /\ at = [d \in Device |-> "none"]
  /\ netId = [d \in Device |-> AnyNetId]
  /\ port = [d \in Device |-> 0]
  /\ call = [d \in Device |-> 0]

(***************************************************************************)
(* AddRoute, from the constructor of AdsDevice.                            *)
(***************************************************************************)
ConnectionsTo(h) == {c \in connections : host[c] = h}

\* The route table has no other use for the net id.  Otherwise, or when the
\* name or the connection fails, the constructor throws and nothing changes.
MayRoute(d, n, h) == at[d] = "none" /\ (mapping[n] # 0 => host[mapping[n]] = h)

Routed(d, n, c) ==
  /\ mapping' = [mapping EXCEPT ![n] = c]
  /\ users' = [users EXCEPT ![c] = @ \union {n}]
  /\ at' = [at EXCEPT ![d] = "routed"]
  /\ netId' = [netId EXCEPT ![d] = n]
  /\ UNCHANGED <<broken, ports, port, call>>

\* Mutant of Counted: a route that is shared is not counted.
Counted_Once(c) == 1

\* refCount++, or the first reference of a new connection.
Counted(c) == refCount[c] + 1

\* Any connection to the host is shared, broken or not.
AddRouteShares(d, n, h) ==
  /\ MayRoute(d, n, h)
  /\ \E c \in ConnectionsTo(h) :
       /\ refCount' = [refCount EXCEPT ![c] = Counted(c)]
       /\ Routed(d, n, c)
  /\ UNCHANGED <<connections, host, made>>

AddRouteConnects(d, n, h) ==
  /\ MayRoute(d, n, h) /\ ConnectionsTo(h) = {} /\ made < MaxConnections
  /\ LET c == made + 1 IN
       /\ made' = c
       /\ connections' = connections \union {c}
       /\ host' = [host EXCEPT ![c] = h]
       /\ refCount' = [refCount EXCEPT ![c] = Counted(c)]
       /\ Routed(d, n, c)

AddRoute(d, n, h) == AddRouteShares(d, n, h) \/ AddRouteConnects(d, n, h)

(***************************************************************************)
(* OpenPort: the first port that is not open, or 0, which AdsDevice takes  *)
(* for a port.                                                             *)
(***************************************************************************)
FreePorts == {p \in PortIndex : ~isOpen[p]}

OpenPort(d) ==
  /\ at[d] = "routed"
  /\ at' = [at EXCEPT ![d] = "open"]
  /\ \/ /\ FreePorts = {}
        /\ port' = [port EXCEPT ![d] = 0]
        /\ UNCHANGED isOpen
     \/ \E p \in FreePorts :
          /\ \A q \in FreePorts : p <= q
          /\ port' = [port EXCEPT ![d] = p]
          /\ isOpen' = [isOpen EXCEPT ![p] = TRUE]
  /\ UNCHANGED <<table, broken, tmms, dispatchers, netId, call>>

(***************************************************************************)
(* Requests.  The connection is looked up under the mutex and used without *)
(* it.  A request the guards of the API refuse (no port, a null argument,  *)
(* no route) changes nothing.                                              *)
(***************************************************************************)
Ready(d) == at[d] = "open" /\ call[d] = 0

RequestBegins(d) ==
  /\ Ready(d) /\ port[d] # 0 /\ mapping[netId[d]] # 0
  /\ call' = [call EXCEPT ![d] = mapping[netId[d]]]
  /\ UNCHANGED <<table, broken, ports, at, netId, port>>

RequestEnds(d) ==
  /\ call[d] # 0
  /\ call' = [call EXCEPT ![d] = 0]
  /\ UNCHANGED <<table, broken, ports, at, netId, port>>

\* AddNotification: a request that was answered, then the dispatcher of its
\* connection in the port's list.
AddNotification(d) ==
  /\ call[d] # 0 /\ call[d] \notin broken
  /\ dispatchers' = [dispatchers EXCEPT ![port[d]] = @ \union {call[d]}]
  /\ call' = [call EXCEPT ![d] = 0]
  /\ UNCHANGED <<table, broken, isOpen, tmms, at, netId, port>>

\* DelNotification of the last one on a connection.
DelNotification(d) ==
  /\ Ready(d) /\ port[d] # 0
  /\ \E c \in dispatchers[port[d]] :
       dispatchers' = [dispatchers EXCEPT ![port[d]] = @ \ {c}]
  /\ UNCHANGED <<table, broken, isOpen, tmms, devices>>

SetTimeout(d) ==
  /\ Ready(d) /\ port[d] # 0
  /\ tmms' = [tmms EXCEPT ![port[d]] = "set"]
  /\ UNCHANGED <<table, broken, isOpen, dispatchers, devices>>

(***************************************************************************)
(* The destructor of AdsDevice: m_LocalPort is declared last and destroyed *)
(* first.  Closing a port deletes its notifications over their connections.*)
(***************************************************************************)
\* Mutant of Teardown: the members are declared the other way round.
Teardown_RouteFirst == [open |-> "unroute", unroute |-> "close", close |-> "none"]

Teardown == [open |-> "close", close |-> "unroute", unroute |-> "none"]

Destroy(d) ==
  /\ Ready(d)
  /\ at' = [at EXCEPT ![d] = Teardown.open]
  /\ UNCHANGED <<table, broken, ports, netId, port, call>>

\* Mutant of Closed: the timeout a device has set stays with the port.
Closed_KeepsTimeout(p) ==
  /\ dispatchers' = [dispatchers EXCEPT ![p] = {}]
  /\ UNCHANGED tmms

\* AmsPort::Close erases the notifications and resets the timeout.
Closed(p) ==
  /\ dispatchers' = [dispatchers EXCEPT ![p] = {}]
  /\ tmms' = [tmms EXCEPT ![p] = "default"]

\* Port 0 is refused by the guard of AdsPortCloseEx.
ClosePort(d) ==
  /\ at[d] = "close"
  /\ at' = [at EXCEPT ![d] = Teardown.close]
  /\ port' = [port EXCEPT ![d] = 0]
  /\ \/ port[d] = 0 /\ UNCHANGED ports
     \/ /\ port[d] # 0 /\ Closed(port[d])
        /\ isOpen' = [isOpen EXCEPT ![port[d]] = FALSE]
  /\ UNCHANGED <<table, broken, netId, call>>

\* Mutant of StillMapped: the route is erased after the table is searched.
StillMapped_Early(c) == \E n \in NetId : mapping[n] = c

\* DeleteIfLastConnection keeps a connection another net id is mapped to.
StillMapped(c) == \E n \in NetId : mapping'[n] = c

DelRoute(d) ==
  /\ at[d] = "unroute"
  /\ at' = [at EXCEPT ![d] = Teardown.unroute]
  /\ LET c == mapping[netId[d]] IN
     \/ c = 0 /\ UNCHANGED <<connections, refCount, mapping>>
     \/ /\ c # 0 /\ refCount[c] # 1
        /\ refCount' = [refCount EXCEPT ![c] = @ - 1]
        /\ UNCHANGED <<connections, mapping>>
     \/ /\ c # 0 /\ refCount[c] = 1
        /\ refCount' = [refCount EXCEPT ![c] = 0]
        /\ mapping' = [mapping EXCEPT ![netId[d]] = 0]
        /\ connections' = IF StillMapped(c) THEN connections ELSE connections \ {c}
  /\ netId' = [netId EXCEPT ![d] = AnyNetId]
  /\ UNCHANGED <<host, made, users, broken, ports, port, call>>

\* The remote side closes a connection; nobody tells the router.
Breaks(c) ==
  /\ c \in connections \ broken
  /\ broken' = broken \union {c}
  /\ UNCHANGED <<table, ports, devices>>

RouterNext ==
  \/ \E d \in Device :
       \/ \E n \in NetId, h \in Host : AddRoute(d, n, h)
       \/ OpenPort(d) \/ RequestBegins(d) \/ RequestEnds(d)
       \/ AddNotification(d) \/ DelNotification(d) \/ SetTimeout(d)
       \/ Destroy(d) \/ ClosePort(d) \/ DelRoute(d)
  \/ \E c \in Connection : Breaks(c)

RouterSpec == RouterInit /\ [][RouterNext]_routerVars

(***************************************************************************)
(* Properties.                                                             *)
(***************************************************************************)
OnRoute(d) == at[d] \in {"routed", "open", "close", "unroute"}
RoutedOver(c) == {d \in Device : OnRoute(d) /\ mapping[netId[d]] = c}

\* No raw pointer to a connection dangles: neither in the route table nor in
\* a request that runs without the router's mutex nor in the list a port walks
\* when it is closed (DelRoute, DeleteIfLastConnection, the order of members
\* in AdsDevice).  A device keeps its route as long as it lives.
NothingDangles ==
  /\ \A n \in NetId : mapping[n] # 0 => mapping[n] \in connections
  /\ \A d \in Device : call[d] # 0 => call[d] \in connections
  /\ \A p \in PortIndex : dispatchers[p] \subseteq connections
  /\ \A d \in Device : OnRoute(d) => mapping[netId[d]] # 0

\* refCount counts the devices on a connection, although DelRoute erases a
\* route only with the last reference and leaves those of other net ids behind.
RefCountIsDevices ==
  \A c \in connections : refCount[c] = Cardinality(RoutedOver(c))

\* A port belongs to one device, its notifications lie on that device's
\* connection, and a free port has nothing of its last owner left.
PortsAreOwned ==
  /\ \A d, e \in Device : d # e /\ port[d] # 0 => port[d] # port[e]
  /\ \A d \in Device : port[d] # 0 =>
       isOpen[port[d]] /\ dispatchers[port[d]] \subseteq {mapping[netId[d]]}
  /\ \A p \in PortIndex : ~isOpen[p] => tmms[p] = "default" /\ dispatchers[p] = {}

\* What ConnectionCheck relies on when it replaces its AdsDevice: the new one
\* does not get the broken connection of the old one, unless another device
\* holds it, or two net ids share the host and left a route behind.
RecoveryReconnects ==
  [][\A d \in Device :
       at[d] = "none" /\ at'[d] = "routed" =>
         LET c == mapping'[netId'[d]] IN
         \/ c \notin broken
         \/ RoutedOver(c) # {}
         \/ \E n \in users[c] : n # netId'[d]]_routerVars
=============================================================================
