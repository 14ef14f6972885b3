--------------------------- MODULE MCWalletLinked ---------------------------
(***************************************************************************)
(* A wallet with a linked device that moves once.  Request q1 signs with   *)
(* the wallet's material and q2 with the device's, both under one          *)
(* authorization.                                                          *)
(***************************************************************************)
EXTENDS WalletRelocation

CONSTANTS q1, q2, p1, p2, own, dev

MCRequests == {q1, q2}
MCPresigs == {p1, p2}
MCOpOf == [q \in MCRequests |-> IF q = q1 THEN "a" ELSE "b"]
MCAuthOf == [q \in MCRequests |-> "x"]
MCPresigOf == [q \in MCRequests |-> IF q = q1 THEN p1 ELSE p2]
MCMaterialOf == [p \in MCPresigs |-> IF p = p1 THEN own ELSE dev]
MCSegmentOf == [k \in Keys |-> 0]

=============================================================================
