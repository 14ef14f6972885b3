--------------------------- MODULE MCEvmNonceLane ---------------------------
(* Instances of EvmNonceLane: two tabs of one origin and two operations. *)
EXTENDS EvmNonceLane, TLC

CONSTANTS t1, t2, o1, o2

TwoTabs == {t1, t2}
TwoOps == {o1, o2}

NoUpsets == [u \in Upsets |-> 0]

\* With Web Locks, a tab crashes and a recovery pass applies a stale record.
\* Under the lock row that expires, a tab crashes; or the wallet state is reset
\* and a transaction is dropped or replaced.  With Web Locks the state is reset
\* too, while a reservation holds the lock.
FourSettings ==
  {[webLocks |-> TRUE, upsets |-> [NoUpsets EXCEPT !["crash"] = 1, !["recover"] = 1]],
   [webLocks |-> FALSE, upsets |-> [NoUpsets EXCEPT !["crash"] = 1]],
   [webLocks |-> TRUE, upsets |-> [NoUpsets EXCEPT !["clear"] = 1]],
   [webLocks |-> FALSE, upsets |-> [NoUpsets EXCEPT !["clear"] = 1, !["lost"] = 1]]}

Symmetry == Permutations(Tabs) \cup Permutations(Ops)
=============================================================================
