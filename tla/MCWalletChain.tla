---------------------------- MODULE MCWalletChain ----------------------------
(***************************************************************************)
(* A wallet that moves twice, so that one object is destination and then   *)
(* source, and what it imported is exported again and deleted.  Requests   *)
(* q1 and q2 are one operation prepared with two presignatures, the second *)
(* perhaps generations later.                                              *)
(***************************************************************************)
EXTENDS WalletRelocation

CONSTANTS q1, q2, p1, p2, own

MCRequests == {q1, q2}
MCPresigs == {p1, p2}
MCOpOf == [q \in MCRequests |-> "a"]
MCAuthOf == [q \in MCRequests |-> IF q = q1 THEN "x" ELSE "y"]
MCPresigOf == [q \in MCRequests |-> IF q = q1 THEN p1 ELSE p2]
MCMaterialOf == [p \in MCPresigs |-> own]
MCSegmentOf == [k \in Keys |-> 0]

=============================================================================
