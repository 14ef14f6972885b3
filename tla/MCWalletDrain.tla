---------------------------- MODULE MCWalletDrain ----------------------------
(***************************************************************************)
(* One object that a relocation drains and seals while two workers         *)
(* finalize.  Requests q1 and q2 are one operation sent twice, each with a *)
(* presignature of its own; a linked presign session is open beside them.  *)
(***************************************************************************)
EXTENDS WalletRelocation

CONSTANTS q1, q2, p1, p2, own

MCRequests == {q1, q2}
MCPresigs == {p1, p2}
MCOpOf == [q \in MCRequests |-> "a"]
MCAuthOf == [q \in MCRequests |-> IF q = q1 THEN "x" ELSE "y"]
MCPresigOf == [q \in MCRequests |-> IF q = q1 THEN p1 ELSE p2]
MCMaterialOf == [p \in MCPresigs |-> own]
MCSegmentOf == [k \in Keys |-> 0]

=============================================================================
