----------------------------- MODULE FrameQueue -----------------------------
(***************************************************************************)
(* What a ring buffer promises the thread that stores frames and the one   *)
(* that takes their units: a unit leaves it in the order it came, once and *)
(* unchanged, units of a frame enter one behind the other until the frame  *)
(* is whole or given up, and no more than Capacity wait.  It has neither   *)
(* positions nor an array that ends.                                       *)
(***************************************************************************)
EXTENDS Integers, Sequences

CONSTANT Capacity

VARIABLES
  coming,  \* units of the frame under way that are not stored
  queue    \* units stored and not taken

queueVars == <<coming, queue>>

QueueInit == coming = <<>> /\ queue = <<>>

\* A frame is let pass only when the last one is whole or given up.
Begin ==
  /\ coming = <<>> /\ coming' # <<>>
  /\ UNCHANGED queue

GiveUp ==
  /\ coming # <<>> /\ coming' = <<>>
  /\ UNCHANGED queue

\* The next units of the frame go behind those that wait.
Put == \E n \in 1 .. Len(coming) :
  /\ Len(queue) + n <= Capacity
  /\ queue' = queue \o SubSeq(coming, 1, n)
  /\ coming' = SubSeq(coming, n + 1, Len(coming))

\* The first units leave.
Take == \E n \in 1 .. Len(queue) :
  /\ queue' = SubSeq(queue, n + 1, Len(queue))
  /\ UNCHANGED coming

QueueNext == Begin \/ GiveUp \/ Put \/ Take

QueueSpec == QueueInit /\ [][QueueNext]_queueVars
=============================================================================
