-------------------------- MODULE MCNotifications --------------------------
(***************************************************************************)
(* TLC instance of NotificationDispatcher: samples of the registered size  *)
(* and of another one, frames of one and two samples, a ring that holds    *)
(* one frame and part of a second.                                         *)
(***************************************************************************)
EXTENDS NotificationDispatcher

One(h, n) == [h |-> h, size |-> n]

MCHandles == {1, 2}
MCShapes  == {<<One(1, 1)>>, <<One(2, 2), One(1, 1)>>}
=============================================================================
