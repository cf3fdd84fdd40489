------------------------------ MODULE MCRouter ------------------------------
(***************************************************************************)
(* TLC instance of AmsRouter: more devices than ports, two net ids on each *)
(* of two hosts.                                                           *)
(***************************************************************************)
EXTENDS AmsRouter, TLC

CONSTANTS d1, d2, d3, n1, n2, h1, h2

MCDevices == {d1, d2, d3}
MCNetIds  == {n1, n2}
MCHosts   == {h1, h2}

\* Init chooses a net id and a host for unused entries, so only devices are
\* interchangeable.
MCSymmetry == Permutations(MCDevices)
=============================================================================
