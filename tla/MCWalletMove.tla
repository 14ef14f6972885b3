---------------------------- MODULE MCWalletMove ----------------------------
(***************************************************************************)
(* An owner's wallet that moves once.  Requests q1 and q2 repeat one       *)
(* operation under different authorizations with different presignatures   *)
(* (a retry that was prepared again); q3 is another operation that names   *)
(* q1's presignature.                                                      *)
(***************************************************************************)
EXTENDS WalletRelocation, TLC

CONSTANTS q1, q2, q3, p1, p2, own

MCRequests == {q1, q2, q3}
MCPresigs == {p1, p2}
MCOpOf == [q \in MCRequests |-> IF q = q3 THEN "b" ELSE "a"]
MCAuthOf == [q \in MCRequests |->
    CASE q = q1 -> "x" [] q = q2 -> "y" [] OTHER -> "z"]
MCPresigOf == [q \in MCRequests |-> IF q = q2 THEN p2 ELSE p1]
MCMaterialOf == [p \in MCPresigs |-> own]

\* Effects travel in the last chunk, everything else before it.
MCSegmentOf == [k \in Keys |-> IF k[1] = "effect" THEN Segments - 1 ELSE 0]

\* Two relocation requests compete; nothing tells them apart.
MoveSymmetry == Permutations(Moves)

=============================================================================
