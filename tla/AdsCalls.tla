------------------------------ MODULE AdsCalls ------------------------------
(***************************************************************************)
(* What AmsConnection::AdsRequest promises the threads that call it, with  *)
(* neither slots, ids nor a receiver: a call ends with the outcome of its  *)
(* own request, with an error, or refused; a refused request never reaches *)
(* the device, and only a request the device carried out ends as "ok".     *)
(* The promise holds as long as both sides agree where frames begin.       *)
(***************************************************************************)
EXTENDS Naturals

CONSTANTS
  Caller,       \* threads
  Request,      \* names of requests
  NoRequest     \* the request of a caller that has none, not in Request

VARIABLES
  current,      \* the request of each caller
  reached,      \* requests handed to the device
  executed,     \* requests the device has carried out
  outcome,      \* how the last call of each caller ended
  aligned       \* both sides agree where frames begin

callsVars == <<current, reached, executed, outcome, aligned>>

Outcomes == {"none", "ok", "error", "timeout", "refused"}

CallsInit ==
  /\ current = [c \in Caller |-> NoRequest]
  /\ reached = {} /\ executed = {}
  /\ outcome = [c \in Caller |-> "none"]
  /\ aligned = TRUE

Call(c, r) ==
  /\ current[c] = NoRequest
  /\ r \notin reached /\ \A d \in Caller : current[d] # r
  /\ current' = [current EXCEPT ![c] = r]
  /\ UNCHANGED <<reached, executed, outcome, aligned>>

Reach(c) ==
  /\ current[c] # NoRequest
  /\ reached' = reached \union {current[c]}
  /\ UNCHANGED <<current, executed, outcome, aligned>>

\* The device may carry a request out long after its call has given up.
Execute(r) ==
  /\ r \in reached \ executed
  /\ executed' = executed \union {r}
  /\ UNCHANGED <<current, reached, outcome, aligned>>

MayEnd(c, how) ==
  \/ ~aligned
  \/ how = "ok" /\ current[c] \in executed
  \/ how = "error" /\ current[c] \in reached
  \/ how = "timeout"
  \/ how = "refused" /\ current[c] \notin reached

End(c, how) ==
  /\ current[c] # NoRequest /\ MayEnd(c, how)
  /\ current' = [current EXCEPT ![c] = NoRequest]
  /\ outcome' = [outcome EXCEPT ![c] = how]
  /\ UNCHANGED <<reached, executed, aligned>>

\* A call for a closed local port ends before it is a request.
NotOpen(c) ==
  /\ current[c] = NoRequest
  /\ outcome' = [outcome EXCEPT ![c] = "error"]
  /\ UNCHANGED <<current, reached, executed, aligned>>

Misalign == aligned' = FALSE /\ UNCHANGED <<current, reached, executed, outcome>>

CallsNext ==
  \/ \E c \in Caller : Reach(c) \/ NotOpen(c)
  \/ \E c \in Caller, r \in Request : Call(c, r)
  \/ \E c \in Caller, how \in Outcomes \ {"none"} : End(c, how)
  \/ \E r \in Request : Execute(r)
  \/ Misalign

CallsSpec == CallsInit /\ [][CallsNext]_callsVars
=============================================================================
