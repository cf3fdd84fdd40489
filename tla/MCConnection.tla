---------------------------- MODULE MCConnection ----------------------------
(***************************************************************************)
(* TLC instances of AmsConnection.                                         *)
(***************************************************************************)
EXTENDS AmsConnection, TLC

CONSTANTS c1, c2, p1, p2

MCCallers == {c1, c2}
MCPorts   == {p1, p2}
MCCallsOf == (c1 :> {<<p1, AdsSyncReadReqEx2>>})
               @@ (c2 :> {<<p1, AdsSyncWriteReqEx>>, <<p2, AdsSyncReadStateReqEx>>})
=============================================================================
