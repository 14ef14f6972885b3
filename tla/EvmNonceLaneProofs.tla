------------------------- MODULE EvmNonceLaneProofs -------------------------
(***************************************************************************)
(* The nonce lane for every number of tabs and operations, every bound on  *)
(* nonces and every setting.                                               *)
(*                                                                         *)
(* The argument for the grant: under Web Locks a reservation that has been *)
(* computed holds the lock, so between its read and its write nobody       *)
(* persists a lease; what it read is still enough to know that its nonce   *)
(* is nobody else's.  The argument for finality: a view that has reported  *)
(* a nonce final never shows a lower one, because the chain answers at     *)
(* least what it has mined; and between a read of the view and the write   *)
(* its tab reports nothing final, because the report waits for the tab's   *)
(* queue or for the Web Lock.                                              *)
(***************************************************************************)
EXTENDS EvmNonceLane, WellFoundedInduction, TLAPS

\* A reservation under way belongs to a tab; its operation has no lease yet.
JobsOpen ==
  \A o \in Ops : job[o].phase # "none" => job[o].tab \in Tabs /\ lease[o].state = "none"

\* Only leased operations are signed and broadcast.
UsedIsLeased ==
  \A o \in Ops : o \in bytes \/ tx[o] # "none" => lease[o].state # "none"

MinedBelow == \A o \in Ops : tx[o] = "mined" => lease[o].nonce < mined

\* A view shows a nonce above every one it has reported final.
FinalBelow ==
  \A o \in Ops : lease[o].state = "finalized" =>
    /\ tx[o] = "mined"
    /\ lane[lease[o].tab].chainNonce # null
    /\ lease[o].nonce < lane[lease[o].tab].chainNonce

\* A reservation that the handlers of its tab wait for: it is at the head of the
\* tab's queue, or it holds the Web Lock.
Serialised(o) == job[o].phase = "queued" \/ (webLocks /\ job[o].phase # "none")

JobAbove ==
  \A o, p \in Ops :
    Serialised(o) /\ lease[p].state = "finalized" /\ lease[p].tab = job[o].tab
      => lease[p].nonce < job[o].nonce

LockHeld ==
  webLocks => \A o \in Ops : job[o].phase # "none" => lock = o /\ job[o].phase # "late"

\* The nonce of a computed reservation is nobody else's.
JobFree ==
  webLocks =>
    \A o, p \in Ops :
      job[o].phase # "none" /\ p # o /\ lease[p].nonce = job[o].nonce =>
        /\ record[p] # "accepted"
        /\ Live(p) => p \in forgotten \/ (due[p] /\ lease[p].state # "accepted")

NonceInv ==
  /\ TypeOK
  /\ LiveLeaseRecorded
  /\ JobsOpen
  /\ UsedIsLeased
  /\ MinedBelow
  /\ FinalBelow
  /\ JobAbove
  /\ LockHeld
  /\ JobFree

-----------------------------------------------------------------------------
(* Types. *)

Leases == [state : LeaseStates, tab : Tabs \cup {null}, nonce : Nonces]
Views == [chainNonce : NoncesUp \cup {null}, refreshed : BOOLEAN, inFlight : SUBSET Nonces]
GoodView(x) == x \in Views /\ (x.refreshed => x.chainNonce # null)

USE BoundAssumption, NullAssumption

\* The chain answers with a nonce of the bound, and at least what it has mined.
LEMMA ChainAnswers ==
  TypeOK => \A v \in ChainNonces : v \in NoncesUp /\ v >= mined
<1> SUFFICES ASSUME TypeOK PROVE \A v \in ChainNonces : v \in NoncesUp /\ v >= mined
  OBVIOUS
<1> DEFINE Free == {n \in NoncesUp : n >= mined /\ n \notin Taken}
<1>1. Taken \subseteq Nonces
  BY DEF TypeOK, Taken
<1>2. MaxNonce + 1 \in Free
  BY <1>1 DEF TypeOK, Nonces, NoncesUp
<1>3. Free \subseteq Nat
  BY DEF NoncesUp
<1>4. PICK x \in Free : \A y \in Free : ~(<<y, x>> \in OpToRel(<, Nat))
  <2> HIDE DEF Free
  <2> QED BY <1>2, <1>3, WFMin, NatLessThanWellFounded
<1>5. \A y \in Free : x <= y
  <2> TAKE y \in Free
  <2>1. x \in Nat /\ y \in Nat
    BY <1>3
  <2>2. y < x => <<y, x>> \in OpToRel(<, Nat)
    <3> HAVE y < x
    <3>1. <<y, x>> \in Nat \X Nat
      BY <2>1
    <3>2. <<y, x>>[1] < <<y, x>>[2]
      OBVIOUS
    <3> QED BY <3>1, <3>2, Zenon DEF OpToRel
  <2>3. ~(y < x)
    BY <1>4, <2>2, Zenon
  <2> QED BY <2>1, <2>3
<1>6. \E n \in NoncesUp : /\ n >= mined /\ n \notin Taken
                          /\ \A m \in NoncesUp : m >= mined /\ m \notin Taken => n <= m
  BY <1>5
<1>7. PendingNext \in NoncesUp
  BY <1>6 DEF PendingNext
<1> QED BY <1>7 DEF ChainNonces, NoncesUp, TypeOK

LEMMA RefreshedGood ==
  ASSUME NEW x \in Views, NEW v \in NoncesUp
  PROVE  GoodView(Refreshed(x, v)) /\ Refreshed(x, v).chainNonce = v
  BY DEF GoodView, Refreshed, Views, NoncesUp

\* What giving a nonce back leaves of a view.
LEMMA GivenGood ==
  ASSUME NEW x, GoodView(x), NEW n, NEW others
  PROVE  GoodView(Given(x, n, others)) /\ Given(x, n, others).chainNonce = x.chainNonce
  BY DEF GoodView, Given, Views

-----------------------------------------------------------------------------
(* What a tab does to its own leases, whether a handler, an expiry or a    *)
(* loss: states change, owners and nonces stay.                            *)

Records == [Ops -> {"none"} \cup LiveStates]
Jobs == [tab : Tabs \cup {null}, nonce : Nonces, phase : Phases]
Snapshots == [Tabs -> SUBSET [op : Ops, state : LiveStates, due : BOOLEAN]]

LeasesMove(t) ==
  /\ lease' \in [Ops -> Leases]
  /\ \A o \in Ops : /\ lease'[o].tab = lease[o].tab
                    /\ lease'[o].nonce = lease[o].nonce
                    /\ \/ lease'[o].state = lease[o].state
                       \/ o \in Owned(t) /\ lease'[o].state # "none"

\* The view x of t is above everything t has reported final after the step.
ShowsFinal(t, x) ==
  \A o \in Ops : lease'[o].state = "finalized" /\ lease[o].tab = t =>
    /\ tx[o] = "mined"
    /\ x.chainNonce # null
    /\ lease[o].nonce < x.chainNonce

\* A handler under the lock: under Web Locks nobody has computed a reservation.
LEMMA LockedKeeps ==
  ASSUME NonceInv, NEW t \in Tabs, MayLock(t), LeasesMove(t), UNCHANGED <<lock, job>>,
         NEW x, GoodView(x), ShowsFinal(t, x), lane' = [lane EXCEPT ![t] = x],
         due' \in [Ops -> BOOLEAN], record' \in Records, recovery' \in Snapshots,
         forgotten' \subseteq Ops, bytes' \subseteq Ops,
         \A o \in bytes' : lease[o].state # "none",
         UNCHANGED <<tx, foreign, mined, upsets, webLocks>>,
         LiveLeaseRecorded'
  PROVE  NonceInv'
<1> USE DEF NonceInv
<1>1. TypeOK'
  BY DEF TypeOK, LeasesMove, Leases, GoodView, Views, Records, Snapshots, Owned
<1>2. JobsOpen'
  BY DEF JobsOpen, LeasesMove, Owned
<1>3. UsedIsLeased'
  BY DEF UsedIsLeased, LeasesMove, Owned
<1>4. MinedBelow'
  BY DEF MinedBelow, LeasesMove
<1>5. FinalBelow'
  <2> SUFFICES ASSUME NEW o \in Ops, lease'[o].state = "finalized"
               PROVE  /\ tx'[o] = "mined"
                      /\ lane'[lease'[o].tab].chainNonce # null
                      /\ lease'[o].nonce < lane'[lease'[o].tab].chainNonce
    BY DEF FinalBelow
  <2>1. lease'[o].tab = lease[o].tab /\ lease'[o].nonce = lease[o].nonce /\ lease[o].tab \in Tabs
    BY <1>1 DEF LeasesMove, TypeOK
  <2>2. CASE lease[o].tab = t
    BY <2>1, <2>2 DEF ShowsFinal, TypeOK
  <2>3. CASE lease[o].tab # t
    BY <2>1, <2>3 DEF FinalBelow, LeasesMove, Owned, TypeOK
  <2> QED BY <2>2, <2>3
<1>6. JobAbove'
  <2> SUFFICES ASSUME NEW q \in Ops, NEW p \in Ops, Serialised(q)',
                      lease'[p].state = "finalized", lease'[p].tab = job'[q].tab
               PROVE  lease'[p].nonce < job'[q].nonce
    BY DEF JobAbove
  <2>1. ~webLocks /\ job[q].phase = "queued" /\ job[q].tab # t
    BY DEF Serialised, LockHeld, MayLock
  <2>2. p \notin Owned(t)
    BY <2>1 DEF LeasesMove, Owned
  <2> QED BY <2>1, <2>2 DEF JobAbove, Serialised, LeasesMove
<1>7. LockHeld'
  BY DEF LockHeld
<1>8. JobFree'
  BY DEF LockHeld, MayLock, JobFree
<1> QED BY <1>1, <1>2, <1>3, <1>4, <1>5, <1>6, <1>7, <1>8

-----------------------------------------------------------------------------
(* The handlers of one lease. *)

\* A prune removes records of lapsed leases only.
LEMMA PruneRemovesLapsed ==
  ASSUME NEW rec \in Records
  PROVE  /\ Pruned(rec) \in Records
         /\ \A o \in Ops : \/ Pruned(rec)[o] = rec[o]
                           \/ Pruned(rec)[o] = "none" /\ rec[o] \in {"reserved", "signed"} /\ due[o]
  BY DEF Pruned, Records

LEMMA WithoutRemoves ==
  ASSUME NEW rec \in Records, NEW S
  PROVE  /\ Without(rec, S) \in Records
         /\ \A o \in Ops : Without(rec, S)[o] = IF o \in S THEN "none" ELSE rec[o]
  BY DEF Without, Records

\* The view y shows no lower nonce than x.
NoLower(x, y) == x.chainNonce # null => y.chainNonce # null /\ x.chainNonce <= y.chainNonce

LEMMA HandlerKeeps ==
  ASSUME NonceInv, NEW o \in Ops, Handler(o), Rearm({o}),
         NEW s \in LeaseStates \ {"none"}, lease' = [lease EXCEPT ![o].state = s],
         NEW x, GoodView(x), lane' = [lane EXCEPT ![lease[o].tab] = x],
         NoLower(lane[lease[o].tab], x),
         s = "finalized" =>
           tx[o] = "mined" /\ x.chainNonce # null /\ lease[o].nonce < x.chainNonce,
         record' \in Records,
         \A p \in Ops \ {o} : \/ record'[p] = record[p]
                              \/ record[p] \in {"reserved", "signed"} /\ due[p],
         s \in LiveStates => record'[o] = s,
         forgotten' \in {forgotten, forgotten \ {o}},
         bytes' \subseteq bytes \cup {o},
         UNCHANGED <<tx, foreign, mined, upsets, webLocks>>
  PROVE  NonceInv'
<1> DEFINE t == lease[o].tab
<1>1. TypeOK /\ t \in Tabs /\ lease[o] \in Leases
  BY DEF NonceInv, TypeOK, Handler, Leases
<1>2. /\ lease' \in [Ops -> Leases]
      /\ lease'[o].state = s /\ lease'[o].tab = t /\ lease'[o].nonce = lease[o].nonce
      /\ \A p \in Ops \ {o} : lease'[p] = lease[p]
  BY <1>1 DEF TypeOK, Leases
<1>3. LeasesMove(t)
  BY <1>1, <1>2 DEF LeasesMove, Owned, Handler
<1>4. ShowsFinal(t, x)
  <2> SUFFICES ASSUME NEW p \in Ops, lease'[p].state = "finalized", lease[p].tab = t
               PROVE  tx[p] = "mined" /\ x.chainNonce # null /\ lease[p].nonce < x.chainNonce
    BY DEF ShowsFinal
  <2>1. CASE p = o
    BY <1>2, <2>1
  <2>2. CASE p # o
    <3>1. /\ tx[p] = "mined" /\ lane[t].chainNonce # null
          /\ lease[p].nonce < lane[t].chainNonce
      BY <1>2, <2>2 DEF NonceInv, FinalBelow
    <3>2. lease[p].nonce \in Nat /\ lane[t].chainNonce \in Nat /\ x.chainNonce \in Nat
      BY <1>1, <3>1 DEF TypeOK, GoodView, Views, Nonces, NoncesUp, NoLower
    <3> QED BY <3>1, <3>2 DEF NoLower
  <2> QED BY <2>1, <2>2
<1>5. due' \in [Ops -> BOOLEAN] /\ \A p \in Ops \ {o} : due'[p] = due[p]
  BY <1>1 DEF Rearm, TypeOK
<1>6. LiveLeaseRecorded'
  <2> SUFFICES ASSUME NEW p \in Ops, lease'[p].state \in LiveStates, p \notin forgotten',
                      due'[p] => lease'[p].state = "accepted"
               PROVE  record'[p] = lease'[p].state
    BY DEF LiveLeaseRecorded, Live
  <2>1. CASE p = o
    BY <1>2, <2>1
  <2>2. CASE p # o
    <3>1. record[p] = lease[p].state
      BY <1>2, <1>5, <2>2 DEF NonceInv, LiveLeaseRecorded, Live
    <3> QED BY <1>2, <1>5, <2>2, <3>1
  <2> QED BY <2>1, <2>2
<1>7. bytes' \subseteq Ops /\ \A p \in bytes' : lease[p].state # "none"
  BY <1>1 DEF NonceInv, UsedIsLeased, TypeOK, Handler
<1>8. /\ MayLock(t) /\ UNCHANGED <<lock, job>>
      /\ recovery' \in Snapshots /\ forgotten' \subseteq Ops
  BY <1>1 DEF Handler, TypeOK, Snapshots
<1> HIDE DEF t
<1> QED BY <1>1, <1>3, <1>4, <1>5, <1>6, <1>7, <1>8, LockedKeeps DEF t

\* A lease that is handled has an owner, whose view is a good one.
LEMMA OwnView ==
  ASSUME NonceInv, NEW o \in Ops, Handler(o)
  PROVE  /\ lease[o] \in Leases /\ lease[o].tab \in Tabs /\ lease[o].nonce \in Nat
         /\ GoodView(lane[lease[o].tab])
         /\ lane[lease[o].tab].chainNonce # null => lane[lease[o].tab].chainNonce \in Nat
         /\ lane = [lane EXCEPT ![lease[o].tab] = lane[lease[o].tab]]
         /\ record \in Records
  BY DEF NonceInv, TypeOK, Handler, Leases, GoodView, Views, Nonces, NoncesUp, Records

\* Where a transition leads.
LEMMA StepLeads ==
  ASSUME NonceInv, NEW o \in Ops, NEW tr, Step(o, tr)
  PROVE  /\ tr = "sign" => lease' = [lease EXCEPT ![o].state = "signed"]
         /\ tr = "accept" => lease' = [lease EXCEPT ![o].state = "accepted"]
         /\ tr = "release" => lease' = [lease EXCEPT ![o].state = "released"]
         /\ tr = "reject" => lease' = [lease EXCEPT ![o].state = "rejected"]
         /\ tr = "finalize" => lease' = [lease EXCEPT ![o].state = "finalized"]
         /\ tr = "drop" => lease' = [lease EXCEPT ![o].state = "dropped"]
         /\ tr = "replace" => lease' = [lease EXCEPT ![o].state = "replaced"]
<1>1. lease' = [lease EXCEPT ![o].state = Reduce(lease[o].state, tr)]
  BY DEF Step, NonceInv, TypeOK
<1> QED BY <1>1 DEF Reduce

LEMMA MarkSignedKeeps == ASSUME NonceInv, NEW o \in Ops, MarkSigned(o) PROVE NonceInv'
<1>1. Handler(o) /\ Rearm({o}) /\ lease' = [lease EXCEPT ![o].state = "signed"]
  BY StepLeads DEF MarkSigned
<1>2. /\ record' \in Records /\ record'[o] = "signed"
      /\ \A p \in Ops \ {o} : record'[p] = record[p]
  BY <1>1, OwnView DEF MarkSigned, Records, LiveStates
<1>3. /\ lane' = [lane EXCEPT ![lease[o].tab] = lane[lease[o].tab]]
      /\ forgotten' = forgotten \ {o} /\ bytes' = bytes \cup {o}
      /\ UNCHANGED <<tx, foreign, mined, upsets, webLocks>>
  BY <1>1, OwnView DEF MarkSigned
<1>4. "signed" \in LeaseStates \ {"none"} /\ "signed" # "finalized"
  BY DEF LeaseStates, LiveStates
<1>5. GoodView(lane[lease[o].tab]) /\ NoLower(lane[lease[o].tab], lane[lease[o].tab])
  BY <1>1, OwnView DEF NoLower
<1> QED BY <1>1, <1>2, <1>3, <1>4, <1>5, HandlerKeeps

\* Giving a nonce back, as release, reject and a failed expiry do.
LEMMA GiveBackDoes ==
  ASSUME NonceInv, NEW o \in Ops, Handler(o), GiveBack(o)
  PROVE  /\ record' \in Records /\ record'[o] = "none" /\ forgotten' = forgotten
         /\ \A p \in Ops \ {o} : \/ record'[p] = record[p]
                                 \/ record[p] \in {"reserved", "signed"} /\ due[p]
         /\ \E x : /\ GoodView(x) /\ x.chainNonce = lane[lease[o].tab].chainNonce
                   /\ lane' = [lane EXCEPT ![lease[o].tab] = x]
<1> DEFINE t == lease[o].tab
           rec == Without(record, {o})
           x == Given(lane[t], lease[o].nonce, ActiveNonces(t, rec, {o}))
<1>1. GoodView(x) /\ x.chainNonce = lane[t].chainNonce
  BY OwnView, GivenGood
<1>2. record' = Pruned(rec) /\ UNCHANGED forgotten
  BY DEF GiveBack
<1>3. lane' = [lane EXCEPT ![t] = x]
  <2>1. lane' = [lane EXCEPT ![t] = Given(@, lease[o].nonce, ActiveNonces(t, rec, {o}))]
    BY DEF GiveBack
  <2> QED BY <2>1, OwnView
<1>4. rec \in Records /\ \A p \in Ops : rec[p] = IF p = o THEN "none" ELSE record[p]
  BY OwnView, WithoutRemoves
<1> HIDE DEF rec, x
<1> QED BY <1>1, <1>2, <1>3, <1>4, PruneRemovesLapsed

LEMMA ReleaseKeeps ==
  ASSUME NonceInv, NEW o \in Ops, Release(o) \/ MarkBroadcastRejected(o) PROVE NonceInv'
<1>1. PICK s \in {"released", "rejected"} : lease' = [lease EXCEPT ![o].state = s]
  BY StepLeads DEF Release, MarkBroadcastRejected
<1>2. /\ Handler(o) /\ Rearm({o}) /\ GiveBack(o) /\ bytes' \subseteq bytes
      /\ UNCHANGED <<tx, foreign, mined, upsets, webLocks>>
  BY DEF Release, MarkBroadcastRejected, chainVars
<1>3. PICK x : /\ GoodView(x) /\ x.chainNonce = lane[lease[o].tab].chainNonce
               /\ lane' = [lane EXCEPT ![lease[o].tab] = x]
  BY <1>2, GiveBackDoes
<1>4. s \in LeaseStates \ {"none"} /\ s \notin LiveStates /\ s # "finalized"
  BY DEF LeaseStates, LiveStates, EndStates
<1>5. NoLower(lane[lease[o].tab], x)
  BY <1>2, <1>3, OwnView DEF NoLower
<1>6. /\ record' \in Records /\ forgotten' = forgotten
      /\ \A p \in Ops \ {o} : \/ record'[p] = record[p]
                              \/ record[p] \in {"reserved", "signed"} /\ due[p]
  BY <1>2, GiveBackDoes
<1> QED BY <1>1, <1>2, <1>3, <1>4, <1>5, <1>6, HandlerKeeps

LEMMA AcceptedKeeps == ASSUME NonceInv, NEW o \in Ops, MarkBroadcastAccepted(o) PROVE NonceInv'
<1> DEFINE t == lease[o].tab
           x == [lane[t] EXCEPT !.inFlight = @ \cup {lease[o].nonce}]
<1>1. Handler(o) /\ Rearm({o}) /\ lease' = [lease EXCEPT ![o].state = "accepted"]
  BY StepLeads DEF MarkBroadcastAccepted
<1>2. /\ record' \in Records /\ record'[o] = "accepted"
      /\ \A p \in Ops \ {o} : record'[p] = record[p]
  BY <1>1, OwnView DEF MarkBroadcastAccepted, Records, LiveStates
<1>3. GoodView(x) /\ x.chainNonce = lane[t].chainNonce
  BY <1>1, OwnView DEF GoodView, Views, Leases
<1>4. lane' = [lane EXCEPT ![t] = x]
  BY DEF MarkBroadcastAccepted
<1>5. /\ forgotten' = forgotten \ {o}
      /\ UNCHANGED <<bytes, tx, foreign, mined, upsets, webLocks>>
  BY DEF MarkBroadcastAccepted, chainVars
<1>6. "accepted" \in LeaseStates \ {"none"} /\ "accepted" # "finalized"
  BY DEF LeaseStates, LiveStates
<1> HIDE DEF x
<1>7. NoLower(lane[t], x)
  BY <1>1, <1>3, OwnView DEF NoLower
<1> QED BY <1>1, <1>2, <1>3, <1>4, <1>5, <1>6, <1>7, HandlerKeeps

LEMMA FinalizedKeeps == ASSUME NonceInv, NEW o \in Ops, MarkFinalized(o) PROVE NonceInv'
<1> DEFINE t == lease[o].tab
           n == lease[o].nonce
           c == lane[t].chainNonce
           x == [chainNonce |-> IF c # null /\ c > n THEN c ELSE n + 1,
                 refreshed |-> TRUE, inFlight |-> lane[t].inFlight \ {n}]
<1>1. Handler(o) /\ Rearm({o}) /\ tx[o] = "mined" /\ lease' = [lease EXCEPT ![o].state = "finalized"]
  BY StepLeads DEF MarkFinalized
<1>2. /\ record' \in Records
      /\ \A p \in Ops \ {o} : record'[p] = record[p]
  BY <1>1, OwnView, WithoutRemoves DEF MarkFinalized
<1>3. GoodView(x)
  <2>1. n \in Nonces /\ c \in NoncesUp \cup {null} /\ lane[t].inFlight \subseteq Nonces
    BY <1>1, OwnView DEF GoodView, Views, Leases
  <2> HIDE DEF n, c
  <2>2. (IF c # null /\ c > n THEN c ELSE n + 1) \in NoncesUp
    BY <2>1 DEF Nonces, NoncesUp
  <2>3. NoncesUp \subseteq Nat
    BY DEF NoncesUp
  <2> QED BY <2>1, <2>2, <2>3 DEF GoodView, Views
<1>4. x.chainNonce # null /\ n < x.chainNonce /\ NoLower(lane[t], x)
  <2>1. n \in Nat /\ (c # null => c \in Nat)
    BY <1>1, OwnView
  <2> HIDE DEF n, c
  <2>2. x.chainNonce = IF c # null /\ c > n THEN c ELSE n + 1
    OBVIOUS
  <2> HIDE DEF x
  <2> QED BY <2>1, <2>2 DEF NoLower, c
<1>5. lane' = [lane EXCEPT ![t] = x]
  BY DEF MarkFinalized
<1>6. UNCHANGED <<forgotten, bytes, tx, foreign, mined, upsets, webLocks>>
  BY DEF MarkFinalized, chainVars
<1>7. "finalized" \in LeaseStates \ {"none"} /\ "finalized" \notin LiveStates
  BY DEF LeaseStates, LiveStates, EndStates
<1> HIDE DEF x
<1> QED BY <1>1, <1>2, <1>3, <1>4, <1>5, <1>6, <1>7, HandlerKeeps

LEMMA DroppedKeeps == ASSUME NonceInv, NEW o \in Ops, MarkDroppedOrReplaced(o) PROVE NonceInv'
<1> DEFINE t == lease[o].tab
           left == [lane[t] EXCEPT !.inFlight = @ \ {lease[o].nonce}, !.refreshed = FALSE]
           kept == [lane[t] EXCEPT !.inFlight = @ \cup {lease[o].nonce}, !.refreshed = FALSE]
<1>1. Handler(o) /\ Rearm({o})
  BY DEF MarkDroppedOrReplaced
<1>2. \/ Step(o, "drop") /\ lane' = [lane EXCEPT ![t] = left]
      \/ Step(o, "replace") /\ lane' = [lane EXCEPT ![t] = kept]
  BY <1>1, OwnView DEF MarkDroppedOrReplaced, NonceInv, TypeOK
<1>3. /\ GoodView(left) /\ left.chainNonce = lane[t].chainNonce
      /\ GoodView(kept) /\ kept.chainNonce = lane[t].chainNonce
  <2>1. lane[t] \in Views /\ lease[o].nonce \in Nonces
    BY <1>1, OwnView DEF GoodView, Leases
  <2> QED BY <2>1 DEF GoodView, Views
<1> HIDE DEF left, kept
<1>4. PICK s \in {"dropped", "replaced"}, x \in {left, kept} :
        /\ lease' = [lease EXCEPT ![o].state = s] /\ lane' = [lane EXCEPT ![t] = x]
        /\ GoodView(x) /\ x.chainNonce = lane[t].chainNonce
  BY <1>2, <1>3, StepLeads
<1>5. /\ record' \in Records
      /\ \A p \in Ops \ {o} : record'[p] = record[p]
  BY <1>1, OwnView, WithoutRemoves DEF MarkDroppedOrReplaced
<1>6. UNCHANGED <<forgotten, bytes, tx, foreign, mined, upsets, webLocks>>
  BY DEF MarkDroppedOrReplaced, chainVars
<1>7. s \in LeaseStates \ {"none"} /\ s \notin LiveStates /\ s # "finalized"
  BY DEF LeaseStates, LiveStates, EndStates
<1>8. NoLower(lane[t], x)
  BY <1>1, <1>4, OwnView DEF NoLower
<1> QED BY <1>1, <1>2, <1>4, <1>5, <1>6, <1>7, <1>8, HandlerKeeps

-----------------------------------------------------------------------------
(* Expiry, reconciliation and recovery. *)

\* The view of a tab, unchanged or synced with the chain.
Synced(t, x) == \/ x.chainNonce = lane[t].chainNonce
                \/ x.chainNonce \in NoncesUp /\ x.chainNonce >= mined

LEMMA FinalShown ==
  ASSUME NonceInv, NEW t \in Tabs, NEW x, Synced(t, x),
         \A o \in Ops : lease'[o].state = "finalized" => lease[o].state = "finalized"
  PROVE  ShowsFinal(t, x)
<1> SUFFICES ASSUME NEW o \in Ops, lease[o].state = "finalized", lease[o].tab = t
             PROVE  tx[o] = "mined" /\ x.chainNonce # null /\ lease[o].nonce < x.chainNonce
  BY DEF ShowsFinal
<1>1. /\ tx[o] = "mined" /\ lane[t].chainNonce # null
      /\ lease[o].nonce < lane[t].chainNonce /\ lease[o].nonce < mined
  BY DEF NonceInv, FinalBelow, MinedBelow
<1>2. lease[o].nonce \in Nat /\ mined \in Nat
  BY DEF NonceInv, TypeOK, Nonces, NoncesUp
<1>3. CASE x.chainNonce = lane[t].chainNonce
  BY <1>1, <1>3
<1>4. CASE x.chainNonce \in NoncesUp /\ x.chainNonce >= mined
  BY <1>1, <1>2, <1>4 DEF NoncesUp
<1> QED BY <1>3, <1>4 DEF Synced

\* What the loop over due leases leaves of them and of their records.
LEMMA ExpiryDoes ==
  ASSUME NonceInv, NEW t \in Tabs, NEW E, E \subseteq DueLeases(t),
         lease' = ExpiredLeases(E), record' = Pruned(Without(record, E)), Rearm(E)
  PROVE  /\ LeasesMove(t)
         /\ \A o \in E : lease'[o].state \in {"expired", "signed_expired"}
         /\ \A o \in Ops \ E : lease'[o] = lease[o] /\ due'[o] = due[o]
         /\ due' \in [Ops -> BOOLEAN]
         /\ record' \in Records
         /\ \A o \in Ops : \/ record'[o] = "none"
                           \/ o \notin E /\ record'[o] = record[o]
         /\ \A o \in Ops \ E : \/ record'[o] = record[o]
                               \/ record[o] \in {"reserved", "signed"} /\ due[o]
<1>1. lease \in [Ops -> Leases] /\ due \in [Ops -> BOOLEAN] /\ record \in Records
  BY DEF NonceInv, TypeOK, Leases, Records
<1>2. \A o \in E : o \in Owned(t) /\ lease[o].state \in {"reserved", "signed"}
  BY DEF DueLeases
<1>3. \A o \in Ops \ E : lease'[o] = lease[o]
  BY DEF ExpiredLeases
<1>4. \A o \in Ops : o \in E =>
        /\ lease'[o] \in Leases
        /\ lease'[o].tab = lease[o].tab /\ lease'[o].nonce = lease[o].nonce
        /\ lease'[o].state \in {"expired", "signed_expired"}
  <2> TAKE o \in Ops
  <2> HAVE o \in E
  <2>1. lease'[o] = [lease[o] EXCEPT !.state = Reduce(lease[o].state, "expire")]
    BY DEF ExpiredLeases
  <2>2. Reduce(lease[o].state, "expire") \in {"expired", "signed_expired"}
    BY <1>2 DEF Reduce
  <2>3. {"expired", "signed_expired"} \subseteq LeaseStates
    BY DEF LeaseStates, EndStates
  <2> QED BY <1>1, <2>1, <2>2, <2>3 DEF Leases
<1>5. lease' \in [Ops -> Leases]
  BY <1>1, <1>3, <1>4 DEF ExpiredLeases
<1>6. E \subseteq Ops
  BY DEF DueLeases, Owned
<1>7. LeasesMove(t)
  BY <1>2, <1>3, <1>4, <1>5 DEF LeasesMove
<1>8. due' \in [Ops -> BOOLEAN] /\ \A o \in Ops \ E : due'[o] = due[o]
  BY <1>1 DEF Rearm
<1>9. Without(record, E) \in Records
      /\ \A o \in Ops : Without(record, E)[o] = IF o \in E THEN "none" ELSE record[o]
  BY <1>1, WithoutRemoves
<1>10. /\ record' \in Records
       /\ \A o \in Ops :
            \/ record'[o] = Without(record, E)[o]
            \/ record'[o] = "none" /\ Without(record, E)[o] \in {"reserved", "signed"} /\ due[o]
  BY <1>9, PruneRemovesLapsed
<1> QED BY <1>3, <1>4, <1>6, <1>7, <1>8, <1>9, <1>10

LEMMA ExpiryRecorded ==
  ASSUME NonceInv, NEW t \in Tabs, NEW E, E \subseteq DueLeases(t), UNCHANGED forgotten,
         lease' = ExpiredLeases(E), record' = Pruned(Without(record, E)), Rearm(E)
  PROVE  LiveLeaseRecorded'
<1> SUFFICES ASSUME NEW o \in Ops, lease'[o].state \in LiveStates, o \notin forgotten',
                    due'[o] => lease'[o].state = "accepted"
             PROVE  record'[o] = lease'[o].state
  BY DEF LiveLeaseRecorded, Live
<1>1. o \notin E
  BY ExpiryDoes DEF LiveStates
<1>2. /\ lease'[o] = lease[o] /\ due'[o] = due[o]
      /\ \/ record'[o] = record[o]
         \/ record[o] \in {"reserved", "signed"} /\ due[o]
  BY <1>1, ExpiryDoes
<1>3. record[o] = lease[o].state
  BY <1>2 DEF NonceInv, LiveLeaseRecorded, Live
<1> QED BY <1>2, <1>3

LEMMA ExpiredViewGood ==
  ASSUME NonceInv, NEW t \in Tabs, NEW E, NEW last, NEW v \in ChainNonces
  PROVE  GoodView(ExpiredView(t, E, last, v)) /\ Synced(t, ExpiredView(t, E, last, v))
<1> DEFINE signed == {o \in E : lease[o].state = "signed"}
           others == ActiveNonces(t, Without(record, E), E)
           left   == lane[t].inFlight \ {lease[o].nonce : o \in E}
           given  == [lane[t] EXCEPT !.inFlight = left,
                        !.refreshed = lane[t].refreshed /\ ~(others = {} /\ left = {})]
           synced == Refreshed(given, v)
           late   == [synced EXCEPT !.refreshed = ~(others = {} /\ synced.inFlight = {})]
<1>1. v \in NoncesUp /\ v >= mined /\ v # null
  BY ChainAnswers DEF NonceInv, NoncesUp
<1>2. GoodView(lane[t])
  BY DEF NonceInv, TypeOK, GoodView, Views
<1>3. GoodView(given) /\ given.chainNonce = lane[t].chainNonce
  <2>1. left \subseteq Nonces
    BY <1>2 DEF GoodView, Views
  <2> HIDE DEF left, others
  <2> QED BY <1>2, <2>1 DEF GoodView, Views
<1> HIDE DEF given
<1>4. GoodView(synced) /\ synced.chainNonce = v
  BY <1>1, <1>3, RefreshedGood DEF GoodView
<1> HIDE DEF synced, others
<1>5. GoodView(late) /\ late.chainNonce = v
  BY <1>1, <1>4 DEF GoodView, Views
<1>6. ExpiredView(t, E, last, v) \in {lane[t], given, synced, late}
  BY DEF ExpiredView, given, synced, others
<1> HIDE DEF late
<1> QED BY <1>1, <1>2, <1>3, <1>4, <1>5, <1>6 DEF Synced

LEMMA ExpireLeasesKeeps == ASSUME NonceInv, NEW t \in Tabs, ExpireLeases(t) PROVE NonceInv'
<1>1. /\ MayLock(t)
      /\ UNCHANGED <<lock, job, recovery, forgotten, bytes, tx, foreign, mined, upsets, webLocks>>
  BY DEF ExpireLeases, chainVars
<1>2. PICK E \in SUBSET DueLeases(t) \ {{}} :
        /\ \E last \in E, v \in ChainNonces :
             lane' = [lane EXCEPT ![t] = ExpiredView(t, E, last, v)]
        /\ lease' = ExpiredLeases(E)
        /\ record' = Pruned(Without(record, E))
        /\ Rearm(E)
  BY DEF ExpireLeases
<1>3. PICK x : GoodView(x) /\ Synced(t, x) /\ lane' = [lane EXCEPT ![t] = x]
  BY <1>2, ExpiredViewGood
<1>4. /\ LeasesMove(t) /\ due' \in [Ops -> BOOLEAN] /\ record' \in Records
      /\ \A o \in Ops : lease'[o].state = "finalized" => lease[o].state = "finalized"
  BY <1>2, ExpiryDoes
<1>5. LiveLeaseRecorded'
  BY <1>1, <1>2, ExpiryRecorded
<1>6. ShowsFinal(t, x)
  BY <1>3, <1>4, FinalShown
<1>7. /\ recovery' \in Snapshots /\ forgotten' \subseteq Ops /\ bytes' \subseteq Ops
      /\ \A o \in bytes' : lease[o].state # "none"
  BY <1>1 DEF NonceInv, TypeOK, Snapshots, UsedIsLeased
<1> QED BY <1>1, <1>3, <1>4, <1>5, <1>6, <1>7, LockedKeeps

\* A step that changes no lease but may drop lapsed records, or the records of
\* leases it marks as forgotten.
LEMMA ViewKeeps ==
  ASSUME NonceInv, NEW t \in Tabs, MayLock(t), NEW x, GoodView(x), Synced(t, x),
         lane' = [lane EXCEPT ![t] = x], record' \in Records, recovery' \in Snapshots,
         forgotten \subseteq forgotten', forgotten' \subseteq Ops,
         \A o \in Ops : \/ record'[o] = record[o]
                        \/ ~Live(o) \/ o \in forgotten'
                        \/ due[o] /\ lease[o].state # "accepted"
                        \/ due[o] /\ record[o] \in {"reserved", "signed"},
         UNCHANGED <<lease, due, lock, job, bytes, tx, foreign, mined, upsets, webLocks>>
  PROVE  NonceInv'
<1>1. LeasesMove(t) /\ due' \in [Ops -> BOOLEAN]
  BY DEF NonceInv, TypeOK, LeasesMove, Leases
<1>2. ShowsFinal(t, x)
  BY FinalShown
<1>3. LiveLeaseRecorded'
  <2> SUFFICES ASSUME NEW o \in Ops, lease[o].state \in LiveStates, o \notin forgotten',
                      due[o] => lease[o].state = "accepted"
               PROVE  record'[o] = lease[o].state
    BY DEF LiveLeaseRecorded, Live
  <2>1. record[o] = lease[o].state
    BY DEF NonceInv, LiveLeaseRecorded, Live
  <2> QED BY <2>1 DEF Live
<1>4. bytes' \subseteq Ops /\ \A o \in bytes' : lease[o].state # "none"
  BY DEF NonceInv, TypeOK, UsedIsLeased
<1> QED BY <1>1, <1>2, <1>3, <1>4, LockedKeeps

LEMMA ExpireLeaseFailsKeeps == ASSUME NonceInv, NEW o \in Ops, ExpireLeaseFails(o) PROVE NonceInv'
<1> DEFINE t == lease[o].tab
<1>1. /\ Handler(o) /\ GiveBack(o) /\ lease[o].state = "signed" /\ due[o]
      /\ UNCHANGED <<lease, due, bytes, tx, foreign, mined, upsets, webLocks>>
  BY DEF ExpireLeaseFails, chainVars
<1>2. t \in Tabs /\ MayLock(t) /\ UNCHANGED <<lock, job, recovery>>
  BY <1>1, OwnView DEF Handler
<1>3. PICK x : /\ GoodView(x) /\ x.chainNonce = lane[t].chainNonce
               /\ lane' = [lane EXCEPT ![t] = x]
  BY <1>1, GiveBackDoes
<1>4. /\ record' \in Records /\ forgotten' = forgotten
      /\ \A p \in Ops \ {o} : \/ record'[p] = record[p]
                              \/ record[p] \in {"reserved", "signed"} /\ due[p]
  BY <1>1, GiveBackDoes
<1>5. recovery' \in Snapshots /\ forgotten' \subseteq Ops /\ forgotten \subseteq forgotten'
  BY <1>2, <1>4 DEF NonceInv, TypeOK, Snapshots
<1>6. Synced(t, x)
  BY <1>3 DEF Synced
<1>7. \A p \in Ops : \/ record'[p] = record[p]
                     \/ ~Live(p) \/ p \in forgotten'
                     \/ due[p] /\ lease[p].state # "accepted"
                     \/ due[p] /\ record[p] \in {"reserved", "signed"}
  BY <1>1, <1>4
<1> HIDE DEF t
<1> QED BY <1>1, <1>2, <1>3, <1>4, <1>5, <1>6, <1>7, ViewKeeps

LEMMA ReconcileKeeps == ASSUME NonceInv, NEW t \in Tabs, Reconcile(t) PROVE NonceInv'
<1>1. /\ MayLock(t) /\ record' = Pruned(record)
      /\ UNCHANGED <<lease, due, lock, job, recovery, forgotten, bytes, tx, foreign, mined,
                     upsets, webLocks>>
  BY DEF Reconcile, chainVars
<1>2. PICK v \in ChainNonces : lane' = [lane EXCEPT ![t] = Refreshed(lane[t], v)]
  BY DEF Reconcile, NonceInv, TypeOK
<1>3. lane[t] \in Views /\ record \in Records /\ recovery' \in Snapshots
      /\ forgotten' \subseteq Ops /\ forgotten \subseteq forgotten'
  BY <1>1 DEF NonceInv, TypeOK, Views, Records, Snapshots
<1>4. GoodView(Refreshed(lane[t], v)) /\ Synced(t, Refreshed(lane[t], v))
  BY <1>3, ChainAnswers, RefreshedGood DEF Synced, NonceInv
<1>5. record' \in Records /\ \A o \in Ops : \/ record'[o] = record[o]
                                            \/ due[o] /\ record[o] \in {"reserved", "signed"}
  BY <1>1, <1>3, PruneRemovesLapsed
<1> QED BY <1>1, <1>2, <1>3, <1>4, <1>5, ViewKeeps

\* Recovery: whatever the stale snapshot makes of a record, it takes away the
\* record of a live lease only by marking it.
LEMMA RecoverOneKeeps ==
  ASSUME NonceInv, NEW t \in Tabs, NEW s \in recovery[t], RecoverOne(t, s) PROVE NonceInv'
<1> DEFINE o == s.op
           n == lease[o].nonce
           accepted == s.state = "accepted"
           sync(view, v) == IF v = null THEN view ELSE Refreshed(view, v)
           read(rec, v) == IF v = null THEN rec ELSE Pruned(rec)
           forget(v) == /\ record' = read(Without(record, {o}), v)
                        /\ forgotten' = IF Live(o) THEN forgotten \cup {o} ELSE forgotten
           keep(v) == record' = read(record, v) /\ forgotten' = forgotten
           settled == [lane[t] EXCEPT !.inFlight = @ \ {n}]
           adopted == [lane[t] EXCEPT !.inFlight = IF accepted THEN @ \cup {n} ELSE @]
           freed(view) == [view EXCEPT !.inFlight = @ \ {n}]
<1>1. /\ MayLock(t) /\ recovery' = [recovery EXCEPT ![t] = @ \ {s}]
      /\ UNCHANGED <<lease, due, lock, job, bytes, tx, foreign, mined, upsets, webLocks>>
  BY DEF RecoverOne, chainVars
<1>2. /\ o \in Ops /\ n \in Nonces /\ GoodView(lane[t]) /\ record \in Records
      /\ forgotten \subseteq Ops
  BY DEF NonceInv, TypeOK, GoodView, Views, Records
<1>3. recovery' \in Snapshots
  BY <1>1 DEF NonceInv, TypeOK, Snapshots
<1>4. PICK v \in ChainNonces \cup {null} :
        /\ forget(v) \/ keep(v)
        /\ \E x \in {sync(lane[t], v), sync(settled, v), freed(sync(adopted, v)), sync(adopted, v)} :
             lane' = [lane EXCEPT ![t] = x]
  BY DEF RecoverOne
<1>5. PICK x \in {sync(lane[t], v), sync(settled, v), freed(sync(adopted, v)), sync(adopted, v)} :
        lane' = [lane EXCEPT ![t] = x]
  BY <1>4
<1>6. GoodView(settled) /\ settled.chainNonce = lane[t].chainNonce
  BY <1>2 DEF GoodView, Views
<1>7. GoodView(adopted) /\ adopted.chainNonce = lane[t].chainNonce
  BY <1>2 DEF GoodView, Views
<1> HIDE DEF settled, adopted, n, accepted, o
<1>8. \A y \in {lane[t], settled, adopted} :
        GoodView(sync(y, v)) /\ Synced(t, sync(y, v))
  BY <1>2, <1>6, <1>7, ChainAnswers, RefreshedGood DEF Synced, NonceInv, GoodView
<1>9. \A y : GoodView(y) => GoodView(freed(y)) /\ freed(y).chainNonce = y.chainNonce
  BY DEF GoodView, Views
<1>10. GoodView(x) /\ Synced(t, x)
  <2> HIDE DEF sync, freed
  <2>1. CASE x = freed(sync(adopted, v))
    BY <2>1, <1>8, <1>9 DEF Synced
  <2> QED BY <1>5, <1>8, <2>1
<1>11. /\ Without(record, {o}) \in Records
       /\ \A p \in Ops : Without(record, {o})[p] = IF p = o THEN "none" ELSE record[p]
  BY <1>2, WithoutRemoves
<1>12. \A rec \in Records :
         /\ read(rec, v) \in Records
         /\ \A p \in Ops : \/ read(rec, v)[p] = rec[p]
                           \/ due[p] /\ rec[p] \in {"reserved", "signed"}
  BY PruneRemovesLapsed
<1> HIDE DEF read
<1>13. /\ record' \in Records /\ forgotten \subseteq forgotten' /\ forgotten' \subseteq Ops
       /\ \A p \in Ops : \/ record'[p] = record[p]
                         \/ ~Live(p) \/ p \in forgotten'
                         \/ due[p] /\ record[p] \in {"reserved", "signed"}
  <2>1. CASE keep(v)
    BY <1>2, <1>12, <2>1
  <2>2. CASE forget(v)
    BY <1>2, <1>11, <1>12, <2>2
  <2> QED BY <1>4, <2>1, <2>2
<1> QED BY <1>1, <1>3, <1>5, <1>10, <1>13, ViewKeeps

-----------------------------------------------------------------------------
(* Reservations. *)

\* The nonce that was chosen is nobody else's and above everything final.
LEMMA ReserveReadKeeps ==
  ASSUME NonceInv, NEW t \in Tabs, NEW o \in Ops, NEW phase \in {"queued", "cut"},
         ReserveRead(t, o, phase)
  PROVE  NonceInv'
<1> DEFINE E == DueLeases(t)
           active == ActiveNonces(t, Without(record, E), E)
<1>1. /\ lease[o].state = "none" /\ Enter(t, o, phase)
      /\ UNCHANGED <<recovery, forgotten, bytes, tx, foreign, mined, upsets, webLocks>>
  BY DEF ReserveRead, chainVars
<1>a. lock' \in Ops \cup {null}
  BY <1>1 DEF Enter, NonceInv, TypeOK
<1>b. webLocks => /\ phase = "queued" /\ lock' = o
                  /\ \A q \in Ops : job[q].phase = "none"
  BY <1>1 DEF Enter, MayLock, NonceInv, LockHeld
<1>2. PICK last \in Lasts(E), v \in ChainNonces, w \in ChainNonces \cup {null}, n \in Nonces :
        LET expired == ExpiredView(t, E, last, v)
            view    == IF w = null THEN expired ELSE Refreshed(expired, w)
        IN  /\ IF w = null THEN ~MustRefresh(expired) ELSE MayRefresh(expired, active)
            /\ FirstFree(n, view.chainNonce, active \cup view.inFlight)
            /\ lane' = [lane EXCEPT ![t] = view]
            /\ lease' = ExpiredLeases(E)
            /\ record' = Pruned(Without(record, E))
            /\ Rearm(E)
            /\ job' = [job EXCEPT ![o] = [tab |-> t, nonce |-> n, phase |-> phase]]
  BY DEF ReserveRead
<1> DEFINE expired == ExpiredView(t, E, last, v)
           view == IF w = null THEN expired ELSE Refreshed(expired, w)
<1>3. /\ n >= view.chainNonce /\ n \notin active
      /\ lane' = [lane EXCEPT ![t] = view]
      /\ lease' = ExpiredLeases(E) /\ record' = Pruned(Without(record, E)) /\ Rearm(E)
      /\ job' = [job EXCEPT ![o] = [tab |-> t, nonce |-> n, phase |-> phase]]
  BY <1>2 DEF FirstFree
<1>4. GoodView(expired) /\ Synced(t, expired)
  BY ExpiredViewGood
<1> HIDE DEF expired
<1>5. GoodView(view) /\ Synced(t, view)
  BY <1>4, ChainAnswers, RefreshedGood DEF NonceInv, Synced, GoodView
<1> HIDE DEF view
<1>6. /\ LeasesMove(t) /\ due' \in [Ops -> BOOLEAN] /\ record' \in Records
      /\ \A p \in Ops : lease'[p].state = "finalized" => lease[p].state = "finalized"
      /\ \A p \in E : lease'[p].state \in {"expired", "signed_expired"}
      /\ \A p \in Ops \ E : lease'[p] = lease[p] /\ due'[p] = due[p]
      /\ \A p \in Ops : record'[p] = "none" \/ (p \notin E /\ record'[p] = record[p])
  BY <1>3, ExpiryDoes
<1>7. ShowsFinal(t, view)
  BY <1>5, <1>6, FinalShown
<1>8. /\ job'[o] = [tab |-> t, nonce |-> n, phase |-> phase]
      /\ \A q \in Ops \ {o} : job'[q] = job[q]
  BY <1>3 DEF NonceInv, TypeOK
<1>9. TypeOK'
  <2>1. /\ lease' \in [Ops -> Leases]
        /\ \A p \in Ops : lease'[p].state # "none" => lease'[p].tab \in Tabs
    BY <1>6 DEF LeasesMove, Owned, NonceInv, TypeOK
  <2>2. /\ lane' \in [Tabs -> Views]
        /\ \A u \in Tabs : lane'[u].refreshed => lane'[u].chainNonce # null
    BY <1>3, <1>5 DEF GoodView, NonceInv, TypeOK, Views
  <2>3. job' \in [Ops -> Jobs]
    <3>1. job \in [Ops -> Jobs] /\ [tab |-> t, nonce |-> n, phase |-> phase] \in Jobs
      BY DEF NonceInv, TypeOK, Jobs, Phases
    <3> QED BY <1>3, <3>1
  <2> QED BY <1>1, <1>a, <1>6, <2>1, <2>2, <2>3 DEF NonceInv, TypeOK, Leases, Views, Records, Jobs
<1>10. LiveLeaseRecorded'
  BY <1>1, <1>3, ExpiryRecorded
<1>11. JobsOpen'
  <2>1. lease'[o].state = "none"
    BY <1>1, <1>6 DEF DueLeases, Owned
  <2>2. \A p \in Ops : lease[p].state = "none" => lease'[p].state = "none"
    BY <1>6 DEF LeasesMove, Owned
  <2> QED BY <1>1, <1>8, <2>1, <2>2 DEF NonceInv, JobsOpen
<1>12. UsedIsLeased' /\ MinedBelow'
  BY <1>1, <1>6 DEF NonceInv, UsedIsLeased, MinedBelow, LeasesMove
<1>13. FinalBelow'
  <2> SUFFICES ASSUME NEW p \in Ops, lease'[p].state = "finalized"
               PROVE  /\ tx'[p] = "mined"
                      /\ lane'[lease'[p].tab].chainNonce # null
                      /\ lease'[p].nonce < lane'[lease'[p].tab].chainNonce
    BY DEF FinalBelow
  <2>1. /\ lease[p].state = "finalized" /\ lease[p].tab \in Tabs
        /\ lease'[p].tab = lease[p].tab /\ lease'[p].nonce = lease[p].nonce
    BY <1>6 DEF LeasesMove, NonceInv, TypeOK
  <2>2. CASE lease[p].tab = t
    BY <1>1, <1>3, <1>7, <2>1, <2>2 DEF ShowsFinal, NonceInv, TypeOK
  <2>3. CASE lease[p].tab # t
    BY <1>1, <1>3, <2>1, <2>3 DEF FinalBelow, NonceInv, TypeOK
  <2> QED BY <2>2, <2>3
<1>14. JobAbove'
  <2> SUFFICES ASSUME NEW q \in Ops, NEW p \in Ops, Serialised(q)',
                      lease'[p].state = "finalized", lease'[p].tab = job'[q].tab
               PROVE  lease'[p].nonce < job'[q].nonce
    BY DEF JobAbove
  <2>1. /\ lease[p].state = "finalized"
        /\ lease[p].tab = job'[q].tab /\ lease'[p].nonce = lease[p].nonce
    BY <1>6 DEF LeasesMove
  <2>2. CASE q # o
    BY <1>1, <1>8, <2>1, <2>2 DEF NonceInv, JobAbove, Serialised
  <2>3. CASE q = o
    <3>1. view.chainNonce # null /\ lease[p].nonce < view.chainNonce
      BY <1>7, <1>8, <2>1, <2>3 DEF ShowsFinal
    <3>2. view.chainNonce \in Nat /\ lease[p].nonce \in Nat /\ n \in Nat
      BY <1>5, <3>1 DEF GoodView, Views, NonceInv, TypeOK, Nonces, NoncesUp
    <3> QED BY <1>3, <1>8, <2>1, <2>3, <3>1, <3>2
  <2> QED BY <2>2, <2>3
<1>15. LockHeld'
  BY <1>1, <1>b, <1>8 DEF LockHeld
<1>16. JobFree'
  <2> SUFFICES ASSUME webLocks', NEW q \in Ops, NEW p \in Ops, job'[q].phase # "none",
                      p # q, lease'[p].nonce = job'[q].nonce
               PROVE  /\ record'[p] # "accepted"
                      /\ lease'[p].state \in LiveStates =>
                           p \in forgotten' \/ (due'[p] /\ lease'[p].state # "accepted")
    BY DEF JobFree, Live
  <2>1. q = o
    BY <1>1, <1>b, <1>8
  <2>2. lease[p].nonce = n
    BY <1>6, <1>8, <2>1 DEF LeasesMove
  <2>3. CASE p \in E
    BY <1>6, <2>3 DEF LiveStates
  <2>4. CASE p \notin E
    <3>1. ~(p \in Owned(t) /\ Live(p)) /\ record'[p] = "none"
      BY <1>3, <2>2, <2>4 DEF ActiveNonces
    <3>2. \/ record[p] = "none"
          \/ record[p] \in {"reserved", "signed"} /\ due[p]
      <4>1. record \in Records
        BY DEF NonceInv, TypeOK, Records
      <4>2. Without(record, E) \in Records /\ Without(record, E)[p] = record[p]
        BY <2>4, <4>1, WithoutRemoves
      <4>3. \/ record'[p] = record[p]
            \/ record[p] \in {"reserved", "signed"} /\ due[p]
        BY <1>3, <4>2, PruneRemovesLapsed
      <4> QED BY <3>1, <4>3
    <3>3. /\ lease'[p] = lease[p] /\ due'[p] = due[p] /\ forgotten' = forgotten
      BY <1>1, <1>6, <2>4
    <3>4. Live(p) /\ p \notin forgotten /\ (due[p] => lease[p].state = "accepted")
            => record[p] = lease[p].state
      BY DEF NonceInv, LiveLeaseRecorded
    <3> QED BY <3>1, <3>2, <3>3, <3>4 DEF Live, LiveStates
  <2> QED BY <2>3, <2>4
<1> QED BY <1>9, <1>10, <1>11, <1>12, <1>13, <1>14, <1>15, <1>16 DEF NonceInv

LEMMA ReserveCommitKeeps ==
  ASSUME NonceInv, NEW o \in Ops, ReserveCommit(o) PROVE NonceInv'
<1> DEFINE granted == [state |-> "reserved", tab |-> job[o].tab, nonce |-> job[o].nonce]
<1>1. /\ job[o].phase # "none"
      /\ lease' = [lease EXCEPT ![o] = granted]
      /\ record' = [record EXCEPT ![o] = "reserved"]
      /\ Rearm({o})
      /\ job' = [job EXCEPT ![o] = NoJob]
      /\ lock' = IF lock = o THEN null ELSE lock
      /\ UNCHANGED <<lane, recovery, forgotten, bytes, tx, foreign, mined, upsets, webLocks>>
  BY DEF ReserveCommit, chainVars
<1>2. job[o].tab \in Tabs /\ lease[o].state = "none"
  BY <1>1 DEF NonceInv, JobsOpen
<1>3. /\ lease'[o] = granted
      /\ \A p \in Ops \ {o} : lease'[p] = lease[p] /\ record'[p] = record[p] /\ due'[p] = due[p]
      /\ record'[o] = "reserved"
      /\ job'[o] = NoJob /\ \A q \in Ops \ {o} : job'[q] = job[q]
  BY <1>1 DEF NonceInv, TypeOK, Rearm
<1>4. TypeOK'
  <2>1. "reserved" \in LeaseStates \cap LiveStates
    BY DEF LeaseStates, LiveStates
  <2>2. /\ lease' \in [Ops -> Leases]
        /\ \A p \in Ops : lease'[p].state # "none" => lease'[p].tab \in Tabs
    <3>1. granted \in Leases
      BY <1>2, <2>1 DEF NonceInv, TypeOK, Leases
    <3>2. lease \in [Ops -> Leases]
      BY DEF NonceInv, TypeOK, Leases
    <3> QED BY <1>1, <1>2, <1>3, <3>1, <3>2 DEF NonceInv, TypeOK
  <2>3. record' \in Records
    BY <1>1, <2>1 DEF NonceInv, TypeOK, Records
  <2>4. due' \in [Ops -> BOOLEAN]
    BY <1>1 DEF Rearm, NonceInv, TypeOK
  <2>5. job' \in [Ops -> Jobs]
    <3>1. job \in [Ops -> Jobs] /\ NoJob \in Jobs
      BY DEF NonceInv, TypeOK, Jobs, NoJob, Phases, Nonces
    <3> QED BY <1>1, <3>1
  <2>6. lock' \in Ops \cup {null}
    BY <1>1 DEF NonceInv, TypeOK
  <2> QED BY <1>1, <2>2, <2>3, <2>4, <2>5, <2>6 DEF NonceInv, TypeOK, Leases, Records, Jobs
<1>5. LiveLeaseRecorded'
  BY <1>1, <1>2, <1>3 DEF NonceInv, LiveLeaseRecorded, Live
<1>6. JobsOpen'
  BY <1>3 DEF NonceInv, JobsOpen, NoJob
<1>7. UsedIsLeased'
  BY <1>1, <1>2, <1>3 DEF NonceInv, UsedIsLeased
<1>8. tx[o] = "none"
  BY <1>2 DEF NonceInv, UsedIsLeased
<1>9. MinedBelow'
  BY <1>1, <1>2, <1>3, <1>8 DEF NonceInv, MinedBelow
<1>10. FinalBelow'
  BY <1>1, <1>2, <1>3 DEF NonceInv, FinalBelow
<1>11. JobAbove'
  <2> SUFFICES ASSUME NEW q \in Ops, NEW p \in Ops, Serialised(q)',
                      lease'[p].state = "finalized", lease'[p].tab = job'[q].tab
               PROVE  lease'[p].nonce < job'[q].nonce
    BY DEF JobAbove
  <2>1. q # o /\ p # o
    BY <1>3 DEF Serialised, NoJob
  <2> QED BY <1>1, <1>3, <2>1 DEF NonceInv, JobAbove, Serialised
<1>12. webLocks => \A q \in Ops : job'[q].phase = "none"
  BY <1>1, <1>3 DEF NonceInv, LockHeld, NoJob
<1>13. LockHeld' /\ JobFree'
  BY <1>1, <1>12 DEF LockHeld, JobFree
<1> QED BY <1>4, <1>5, <1>6, <1>7, <1>9, <1>10, <1>11, <1>13 DEF NonceInv

-----------------------------------------------------------------------------
(* Lost tabs, resets, time and the chain. *)

LEMMA LoseDoes ==
  ASSUME NonceInv, NEW t \in Tabs, lease' = Lose(t)
  PROVE  /\ LeasesMove(t)
         /\ \A o \in Ops : IF o \in Owned(t) THEN lease'[o].state = "lost" ELSE lease'[o] = lease[o]
<1>1. \A o \in Ops : lease[o] \in Leases
  BY DEF NonceInv, TypeOK, Leases
<1>2. \A o \in Ops : IF o \in Owned(t) THEN lease'[o] = [lease[o] EXCEPT !.state = "lost"]
                                       ELSE lease'[o] = lease[o]
  BY DEF Lose
<1>3. "lost" \in LeaseStates
  BY DEF LeaseStates
<1>4. \A o \in Ops : /\ lease'[o] \in Leases
                     /\ lease'[o].tab = lease[o].tab /\ lease'[o].nonce = lease[o].nonce
                     /\ o \in Owned(t) => lease'[o].state = "lost"
  BY <1>1, <1>2, <1>3 DEF Leases
<1>5. lease' \in [Ops -> Leases]
  BY <1>4 DEF Lose
<1> QED BY <1>2, <1>4, <1>5 DEF LeasesMove

\* A tab that loses its memory: its view starts anew and shows nothing, and
\* none of its leases counts as final any more.
LEMMA LossKeeps ==
  ASSUME NonceInv, NEW t \in Tabs, lease' = Lose(t), lane' = [lane EXCEPT ![t] = NewLane],
         job' \in [Ops -> Jobs], lock' \in {lock, null},
         \A o \in Ops : job'[o].phase # "none" =>
           /\ job'[o].tab \in Tabs /\ lease[o].state = "none"
           /\ job'[o].phase = "queued" => job'[o] = job[o]
           /\ webLocks => /\ job[o].phase # "none" /\ job'[o].phase # "late" /\ lock' = o
                          /\ job'[o].tab = job[o].tab /\ job'[o].nonce = job[o].nonce,
         recovery' \in Snapshots, record' \in Records, forgotten' \subseteq Ops,
         \A o \in Ops : lease'[o].state \in LiveStates =>
           o \in forgotten' \/ (record'[o] = record[o] /\ forgotten' = forgotten),
         \A o \in Ops : record'[o] \in {"none", record[o]},
         bytes' \subseteq bytes, upsets' \in [Upsets -> Nat],
         UNCHANGED <<due, tx, foreign, mined, webLocks>>
  PROVE  NonceInv'
<1>1. /\ LeasesMove(t)
      /\ \A o \in Ops : IF o \in Owned(t) THEN lease'[o].state = "lost" ELSE lease'[o] = lease[o]
  BY LoseDoes
<1>2. /\ lease' \in [Ops -> Leases]
      /\ \A o \in Ops : /\ lease'[o].tab = lease[o].tab /\ lease'[o].nonce = lease[o].nonce
                        /\ lease'[o].state = "none" <=> lease[o].state = "none"
                        /\ lease'[o].state # "lost" => lease'[o] = lease[o]
  BY <1>1 DEF LeasesMove, Owned
<1>3. TypeOK'
  <2>1. /\ lane' \in [Tabs -> Views]
        /\ \A u \in Tabs : lane'[u].refreshed => lane'[u].chainNonce # null
    BY DEF NonceInv, TypeOK, Views, NewLane
  <2>2. bytes' \subseteq Ops /\ lock' \in Ops \cup {null}
    BY DEF NonceInv, TypeOK
  <2> QED BY <1>2, <2>1, <2>2 DEF NonceInv, TypeOK, Leases, Views, Records, Snapshots, Jobs
<1>4. LiveLeaseRecorded'
  BY <1>2 DEF NonceInv, LiveLeaseRecorded, Live, LiveStates
<1>5. JobsOpen'
  BY <1>2 DEF NonceInv, JobsOpen
<1>6. UsedIsLeased' /\ MinedBelow'
  BY <1>2 DEF NonceInv, UsedIsLeased, MinedBelow, TypeOK
<1>7. FinalBelow'
  <2> SUFFICES ASSUME NEW p \in Ops, lease'[p].state = "finalized"
               PROVE  /\ tx'[p] = "mined"
                      /\ lane'[lease'[p].tab].chainNonce # null
                      /\ lease'[p].nonce < lane'[lease'[p].tab].chainNonce
    BY DEF FinalBelow
  <2>1. lease'[p] = lease[p] /\ lease[p].tab \in Tabs /\ lease[p].tab # t
    BY <1>1, <1>2 DEF NonceInv, TypeOK, Owned
  <2> QED BY <2>1 DEF NonceInv, FinalBelow, TypeOK
<1>8. JobAbove'
  <2> SUFFICES ASSUME NEW q \in Ops, NEW p \in Ops, Serialised(q)',
                      lease'[p].state = "finalized", lease'[p].tab = job'[q].tab
               PROVE  lease'[p].nonce < job'[q].nonce
    BY DEF JobAbove
  <2>1. lease'[p] = lease[p]
    BY <1>2
  <2>2. Serialised(q) /\ job'[q].tab = job[q].tab /\ job'[q].nonce = job[q].nonce
    BY DEF Serialised
  <2> QED BY <2>1, <2>2 DEF NonceInv, JobAbove
<1>9. LockHeld'
  BY DEF LockHeld
<1>10. JobFree'
  <2> SUFFICES ASSUME webLocks', NEW q \in Ops, NEW p \in Ops, job'[q].phase # "none",
                      p # q, lease'[p].nonce = job'[q].nonce
               PROVE  /\ record'[p] # "accepted"
                      /\ lease'[p].state \in LiveStates =>
                           p \in forgotten' \/ (due'[p] /\ lease'[p].state # "accepted")
    BY DEF JobFree, Live
  <2>1. /\ record[p] # "accepted"
        /\ Live(p) => p \in forgotten \/ (due[p] /\ lease[p].state # "accepted")
    BY <1>2 DEF NonceInv, JobFree
  <2> QED BY <1>2, <2>1 DEF Live, LiveStates
<1> QED BY <1>3, <1>4, <1>5, <1>6, <1>7, <1>8, <1>9, <1>10 DEF NonceInv

LEMMA UpsetCounts ==
  ASSUME NonceInv, NEW kind \in Upsets, Upset(kind) PROVE upsets' \in [Upsets -> Nat]
  BY DEF Upset, NonceInv, TypeOK

LEMMA ClearAllKeeps == ASSUME NonceInv, NEW t \in Tabs, ClearAll(t) PROVE NonceInv'
<1>1. /\ lease' = Lose(t) /\ lane' = [lane EXCEPT ![t] = NewLane]
      /\ record' = [o \in Ops |-> "none"]
      /\ forgotten' = forgotten \cup {o \in Ops : lease'[o].state \in LiveStates}
      /\ UNCHANGED <<due, lock, recovery, bytes, tx, foreign, mined, webLocks>>
  BY DEF ClearAll
<1>2. upsets' \in [Upsets -> Nat]
  BY UpsetCounts DEF ClearAll, Upsets
<1>3. record' \in Records /\ forgotten' \subseteq Ops /\ recovery' \in Snapshots
  BY <1>1 DEF NonceInv, TypeOK, Records, Snapshots
<1>4. PICK S \in SUBSET {o \in Ops : ~webLocks /\ lease[o].state = "none" /\ job[o] = NoJob} :
        job' = [o \in Ops |->
                  IF o \in S THEN [tab |-> t, nonce |-> 0, phase |-> "late"]
                  ELSE IF job[o].tab = t /\ job[o].phase = "queued"
                         THEN [job[o] EXCEPT !.phase = "cut"] ELSE job[o]]
  BY DEF ClearAll
<1>5. \A o \in Ops :
        /\ o \in S => job'[o] = [tab |-> t, nonce |-> 0, phase |-> "late"]
        /\ o \notin S => \/ job'[o] = job[o]
                         \/ /\ job[o].phase = "queued"
                            /\ job'[o] = [job[o] EXCEPT !.phase = "cut"]
  BY <1>4
<1>6. job \in [Ops -> Jobs] /\ [tab |-> t, nonce |-> 0, phase |-> "late"] \in Jobs
  BY DEF NonceInv, TypeOK, Jobs, Phases, Nonces
<1>7. \A o \in Ops : o \notin S =>
        /\ job'[o] \in Jobs
        /\ job'[o].tab = job[o].tab /\ job'[o].nonce = job[o].nonce
        /\ job'[o] = job[o] \/ (job[o].phase = "queued" /\ job'[o].phase = "cut")
  BY <1>5, <1>6 DEF Jobs, Phases
<1>8. job' \in [Ops -> Jobs]
  <2>1. \A o \in Ops : job'[o] \in Jobs
    BY <1>5, <1>6, <1>7
  <2> QED BY <1>4, <2>1
<1>9. \A o \in Ops : job'[o].phase # "none" =>
        /\ job'[o].tab \in Tabs /\ lease[o].state = "none"
        /\ job'[o].phase = "queued" => job'[o] = job[o]
        /\ webLocks => /\ job[o].phase # "none" /\ job'[o].phase # "late" /\ lock' = o
                       /\ job'[o].tab = job[o].tab /\ job'[o].nonce = job[o].nonce
  <2> SUFFICES ASSUME NEW o \in Ops, job'[o].phase # "none"
               PROVE  /\ job'[o].tab \in Tabs /\ lease[o].state = "none"
                      /\ job'[o].phase = "queued" => job'[o] = job[o]
                      /\ webLocks => /\ job[o].phase # "none" /\ job'[o].phase # "late"
                                     /\ lock' = o /\ job'[o].tab = job[o].tab
                                     /\ job'[o].nonce = job[o].nonce
    OBVIOUS
  <2>1. CASE o \in S
    <3>1. job'[o] = [tab |-> t, nonce |-> 0, phase |-> "late"]
      BY <1>5, <2>1
    <3>2. job'[o].tab = t /\ job'[o].phase = "late"
      BY <3>1
    <3>3. ~webLocks /\ lease[o].state = "none"
      BY <2>1, Zenon
    <3>4. job'[o].phase # "queued"
      BY <3>2
    <3>5. t \in Tabs
      OBVIOUS
    <3> QED BY <3>2, <3>3, <3>4, <3>5, Zenon
  <2>2. CASE o \notin S
    BY <1>1, <1>7, <2>2 DEF NonceInv, JobsOpen, LockHeld
  <2> QED BY <2>1, <2>2
<1> QED BY <1>1, <1>2, <1>3, <1>8, <1>9, LossKeeps

LEMMA CrashKeeps == ASSUME NonceInv, NEW t \in Tabs, Crash(t) PROVE NonceInv'
<1>1. /\ lease' = Lose(t) /\ lane' = [lane EXCEPT ![t] = NewLane]
      /\ job' = [o \in Ops |-> IF job[o].tab = t THEN NoJob ELSE job[o]]
      /\ recovery' = [recovery EXCEPT ![t] = {}]
      /\ lock' = IF webLocks /\ lock # null /\ job[lock].tab = t THEN null ELSE lock
      /\ bytes' \subseteq bytes
      /\ UNCHANGED <<due, record, forgotten, tx, foreign, mined, webLocks>>
  BY DEF Crash
<1>2. upsets' \in [Upsets -> Nat]
  BY UpsetCounts DEF Crash, Upsets
<1>3. record' \in Records /\ forgotten' \subseteq Ops /\ recovery' \in Snapshots
  BY <1>1 DEF NonceInv, TypeOK, Records, Snapshots
<1>4. job \in [Ops -> Jobs] /\ NoJob \in Jobs /\ NoJob.phase = "none"
  BY DEF NonceInv, TypeOK, Jobs, NoJob, Phases, Nonces
<1>5. job' \in [Ops -> Jobs] /\ lock' \in {lock, null}
  BY <1>1, <1>4
<1>6. \A o \in Ops : job'[o].phase # "none" => job'[o] = job[o] /\ job[o].tab # t
  BY <1>1, <1>4
<1>7. \A o \in Ops : job'[o].phase # "none" =>
        /\ job[o].tab \in Tabs /\ lease[o].state = "none"
        /\ webLocks => lock = o /\ job[o].phase # "late"
  BY <1>6 DEF NonceInv, JobsOpen, LockHeld
<1>8. \A o \in Ops : job'[o].phase # "none" /\ webLocks => lock' = o
  BY <1>1, <1>6, <1>7
<1> QED BY <1>1, <1>2, <1>3, <1>5, <1>6, <1>7, <1>8, LossKeeps

LEMMA RecoverReadKeeps ==
  ASSUME NonceInv, NEW t \in Tabs, NEW o \in Ops, RecoverRead(t, o) PROVE NonceInv'
<1>1. UNCHANGED <<lease, due, record, lane, lock, job, forgotten, bytes, tx, foreign, mined,
                  webLocks>>
  BY DEF RecoverRead
<1>2. upsets' \in [Upsets -> Nat]
  BY UpsetCounts DEF RecoverRead, Upsets
<1>3. recovery' \in Snapshots
  BY DEF RecoverRead, NonceInv, TypeOK, Snapshots
<1>4. TypeOK'
  BY <1>1, <1>2, <1>3 DEF NonceInv, TypeOK, Snapshots
<1> QED BY <1>1, <1>4 DEF NonceInv, LiveLeaseRecorded, Live, JobsOpen, UsedIsLeased, MinedBelow,
                          FinalBelow, JobAbove, Serialised, LockHeld, JobFree

LEMMA TimeKeeps ==
  ASSUME NonceInv, LockExpires \/ \E o \in Ops : TimePasses(o) PROVE NonceInv'
<1>1. CASE LockExpires
  <2>1. TypeOK'
    BY <1>1 DEF LockExpires, chainVars, NonceInv, TypeOK
  <2> QED BY <1>1, <2>1 DEF LockExpires, chainVars, NonceInv, LiveLeaseRecorded, Live, JobsOpen,
                            UsedIsLeased, MinedBelow, FinalBelow, JobAbove, Serialised, LockHeld, JobFree
<1>2. CASE \E o \in Ops : TimePasses(o)
  <2>1. PICK o \in Ops : due' = [due EXCEPT ![o] = TRUE]
    BY <1>2 DEF TimePasses
  <2>2. UNCHANGED <<lease, record, lane, lock, job, recovery, forgotten, bytes, tx, foreign,
                    mined, upsets, webLocks>>
    BY <1>2 DEF TimePasses, chainVars
  <2>3. due' \in [Ops -> BOOLEAN] /\ \A p \in Ops : due[p] => due'[p]
    BY <2>1 DEF NonceInv, TypeOK
  <2>4. TypeOK'
    BY <2>2, <2>3 DEF NonceInv, TypeOK
  <2>5. LiveLeaseRecorded'
    BY <2>2, <2>3 DEF NonceInv, LiveLeaseRecorded, Live
  <2>6. JobFree'
    BY <2>2, <2>3 DEF NonceInv, JobFree, Live
  <2> QED BY <2>2, <2>4, <2>5, <2>6 DEF NonceInv, JobsOpen, UsedIsLeased, MinedBelow,
                                        FinalBelow, JobAbove, Serialised, LockHeld
<1> QED BY <1>1, <1>2

\* The chain mines, loses and replaces transactions; what it has mined it keeps.
LEMMA ChainKeeps ==
  ASSUME NonceInv, Mine \/ \E o \in Ops : Broadcast(o) \/ LeavePool(o) PROVE NonceInv'
<1>1. UNCHANGED <<lease, due, record, lane, lock, job, recovery, forgotten, bytes, webLocks>>
  BY DEF Mine, Broadcast, LeavePool, coordVars
<1>2. Taken \subseteq Nonces /\ \A n \in Nonces : n \in Nat /\ n + 1 \in NoncesUp
  <2>1. Taken \subseteq Nonces
    BY DEF NonceInv, TypeOK, Taken
  <2> QED BY <2>1 DEF Nonces, NoncesUp
<1>3. /\ mined' \in NoncesUp /\ mined <= mined' /\ foreign' \subseteq Nonces
      /\ upsets' \in [Upsets -> Nat]
  <2>1. mined \in Nat
    BY DEF NonceInv, TypeOK, NoncesUp
  <2>2. CASE Mine
    BY <1>2, <2>1, <2>2 DEF Mine, NonceInv, TypeOK
  <2>3. CASE \E o \in Ops : Broadcast(o)
    BY <2>1, <2>3 DEF Broadcast, NonceInv, TypeOK
  <2>4. CASE \E o \in Ops : LeavePool(o)
    BY <2>1, <2>4, UpsetCounts DEF LeavePool, NonceInv, TypeOK, Upsets
  <2> QED BY <2>2, <2>3, <2>4
<1>4. /\ tx' \in [Ops -> {"none", "pending", "mined", "dropped", "replaced"}]
      /\ \A o \in Ops : /\ tx[o] = "mined" => tx'[o] = "mined"
                        /\ tx'[o] # "none" => tx[o] # "none" \/ o \in bytes
                        /\ tx'[o] = "mined" => tx[o] = "mined"
                                                 \/ (lease[o].nonce = mined /\ mined' = mined + 1)
  <2>1. CASE Mine
    BY <2>1 DEF Mine, NonceInv, TypeOK
  <2>2. CASE \E o \in Ops : Broadcast(o)
    BY <2>2 DEF Broadcast, NonceInv, TypeOK
  <2>3. CASE \E o \in Ops : LeavePool(o)
    BY <2>3 DEF LeavePool, NonceInv, TypeOK
  <2> QED BY <2>1, <2>2, <2>3
<1>5. TypeOK'
  BY <1>1, <1>3, <1>4 DEF NonceInv, TypeOK
<1>6. UsedIsLeased'
  BY <1>1, <1>4 DEF NonceInv, UsedIsLeased
<1>7. MinedBelow'
  <2>1. mined \in Nat /\ mined' \in Nat /\ \A o \in Ops : lease[o].nonce \in Nat
    BY <1>3 DEF NonceInv, TypeOK, Nonces, NoncesUp
  <2> QED BY <1>1, <1>3, <1>4, <2>1 DEF NonceInv, MinedBelow
<1>8. FinalBelow'
  BY <1>1, <1>4 DEF NonceInv, FinalBelow
<1> QED BY <1>1, <1>5, <1>6, <1>7, <1>8 DEF NonceInv, LiveLeaseRecorded, Live, JobsOpen, JobAbove, Serialised,
                                            LockHeld, JobFree

LEMMA StutterKeeps == NonceInv /\ UNCHANGED vars => NonceInv'
<1> SUFFICES ASSUME NonceInv, UNCHANGED vars PROVE NonceInv'
  OBVIOUS
<1>1. TypeOK'
  BY DEF vars, NonceInv, TypeOK
<1> QED BY <1>1 DEF vars, NonceInv, LiveLeaseRecorded, Live, JobsOpen, UsedIsLeased, MinedBelow,
                    FinalBelow, JobAbove, Serialised, LockHeld, JobFree

-----------------------------------------------------------------------------
(* The theorems. *)

LEMMA InitNonceInv == Init => NonceInv
<1> SUFFICES ASSUME Init PROVE NonceInv
  OBVIOUS
<1>1. upsets \in [Upsets -> Nat] /\ webLocks \in BOOLEAN
  BY DEF Init
<1>2. /\ 0 \in Nonces /\ 0 \in NoncesUp /\ NoLease \in Leases /\ NewLane \in Views
      /\ NoJob \in Jobs /\ NoJob.phase = "none"
  BY DEF Nonces, NoncesUp, NoLease, Leases, LeaseStates, NewLane, Views, NoJob, Jobs, Phases
<1>3. /\ lease = [o \in Ops |-> NoLease] /\ record = [o \in Ops |-> "none"]
      /\ \A o \in Ops : lease[o].state = "none" /\ tx[o] = "none"
      /\ \A o \in Ops : job[o].phase = "none"
      /\ \A t \in Tabs : ~lane[t].refreshed
  BY <1>2 DEF Init, NoLease, NewLane
<1>4. TypeOK
  BY <1>1, <1>2, <1>3 DEF Init, TypeOK, Leases, Views, Jobs
<1> QED BY <1>3, <1>4 DEF Init, NonceInv, LiveLeaseRecorded, Live, LiveStates, JobsOpen,
                          UsedIsLeased, MinedBelow, FinalBelow, JobAbove, Serialised, LockHeld, JobFree

LEMMA NextNonceInv == NonceInv /\ [Next]_vars => NonceInv'
<1> SUFFICES ASSUME NonceInv, [Next]_vars PROVE NonceInv'
  OBVIOUS
<1>1. ASSUME NEW t \in Tabs, NEW o \in Ops,
             (\E phase \in {"queued", "cut"} : ReserveRead(t, o, phase)) \/ RecoverRead(t, o)
      PROVE  NonceInv'
  BY <1>1, ReserveReadKeeps, RecoverReadKeeps
<1>2. ASSUME NEW t \in Tabs,
             \/ ExpireLeases(t) \/ Reconcile(t)
             \/ \E s \in recovery[t] : RecoverOne(t, s)
             \/ ClearAll(t) \/ Crash(t)
      PROVE  NonceInv'
  BY <1>2, ExpireLeasesKeeps, ReconcileKeeps, RecoverOneKeeps, ClearAllKeeps,
     CrashKeeps
<1>3. ASSUME NEW o \in Ops,
             \/ ReserveCommit(o)
             \/ MarkSigned(o) \/ Release(o) \/ MarkBroadcastRejected(o)
             \/ MarkBroadcastAccepted(o) \/ MarkFinalized(o) \/ MarkDroppedOrReplaced(o)
             \/ ExpireLeaseFails(o)
      PROVE  NonceInv'
  BY <1>3, ReserveCommitKeeps, MarkSignedKeeps, ReleaseKeeps, AcceptedKeeps, FinalizedKeeps, DroppedKeeps,
     ExpireLeaseFailsKeeps
<1>4. CASE LockExpires \/ \E o \in Ops : TimePasses(o)
  BY <1>4, TimeKeeps
<1>5. CASE Mine \/ \E o \in Ops : Broadcast(o) \/ LeavePool(o)
  BY <1>5, ChainKeeps
<1>6. CASE UNCHANGED vars
  BY <1>6, StutterKeeps
<1> QED BY <1>1, <1>2, <1>3, <1>4, <1>5, <1>6 DEF Next

\* The inductive invariant of the lane holds whatever the tabs, the locks, the
\* chain and time do.
THEOREM NonceInvariant == Spec => []NonceInv
<1>1. Init => NonceInv
  BY InitNonceInv
<1>2. NonceInv /\ [Next]_vars => NonceInv'
  BY NextNonceInv
<1> QED BY <1>1, <1>2, PTL DEF Spec

\* Every value of the lane has its type, and a refreshed view knows the chain's
\* nonce (reserveEvmNonceLeaseUnlocked never falls back on nextCandidate).
THEOREM NonceTypes == Spec => []TypeOK
<1>1. NonceInv => TypeOK
  BY DEF NonceInv
<1> QED BY <1>1, NonceInvariant, PTL

\* A lease a tab counts on is recorded for all tabs, under either lock
\* (persistCoordinationLease).
THEOREM LeasesAreRecorded == Spec => []LiveLeaseRecorded
<1>1. NonceInv => LiveLeaseRecorded
  BY DEF NonceInv
<1> QED BY <1>1, NonceInvariant, PTL

\* A grant is the second half of a reservation.
LEMMA GrantCommits ==
  ASSUME NonceInv, Next, NEW o \in Ops, Grants(o)
  PROVE  ReserveCommit(o)
<1> SUFFICES ASSUME ~ReserveCommit(o)
             PROVE  FALSE
  OBVIOUS
<1>1. lease[o].state = "none" /\ lease'[o].state = "reserved"
  BY DEF Grants
<1>2. ASSUME NEW p \in Ops, ReserveCommit(p) PROVE FALSE
  BY <1>1, <1>2 DEF ReserveCommit, NonceInv, TypeOK
<1>3. ASSUME NEW t \in Tabs, NEW p \in Ops, NEW phase, ReserveRead(t, p, phase) PROVE FALSE
  <2>1. lease' = ExpiredLeases(DueLeases(t))
    BY <1>3 DEF ReserveRead
  <2>2. o \notin DueLeases(t)
    BY <1>1 DEF DueLeases
  <2> QED BY <1>1, <2>1, <2>2 DEF ExpiredLeases
<1>4. ASSUME NEW t \in Tabs, ExpireLeases(t) PROVE FALSE
  <2>1. PICK E \in SUBSET DueLeases(t) : lease' = ExpiredLeases(E)
    BY <1>4 DEF ExpireLeases
  <2>2. o \notin E
    BY <1>1 DEF DueLeases
  <2> QED BY <1>1, <2>1, <2>2 DEF ExpiredLeases
<1>5. ASSUME NEW t \in Tabs, ClearAll(t) \/ Crash(t) PROVE FALSE
  BY <1>1, <1>5 DEF ClearAll, Crash, Lose, Owned
<1>6. ASSUME NEW p \in Ops, Handler(p), NEW tr, Step(p, tr) PROVE FALSE
  BY <1>1, <1>6 DEF Handler, Step, NonceInv, TypeOK
<1>7. ASSUME lease' = lease PROVE FALSE
  BY <1>1, <1>7
<1>8. ASSUME NEW p \in Ops,
             \/ MarkSigned(p) \/ Release(p) \/ MarkBroadcastRejected(p)
             \/ MarkBroadcastAccepted(p) \/ MarkFinalized(p) \/ MarkDroppedOrReplaced(p)
      PROVE  FALSE
  BY <1>6, <1>8 DEF MarkSigned, Release, MarkBroadcastRejected, MarkBroadcastAccepted,
                    MarkFinalized, MarkDroppedOrReplaced
<1>9. ASSUME \/ \E p \in Ops : \/ ExpireLeaseFails(p) \/ TimePasses(p) \/ Broadcast(p)
                               \/ LeavePool(p)
             \/ \E t \in Tabs : \/ Reconcile(t) \/ \E s \in recovery[t] : RecoverOne(t, s)
                                \/ \E p \in Ops : RecoverRead(t, p)
             \/ LockExpires \/ Mine
      PROVE  FALSE
  BY <1>7, <1>9 DEF ExpireLeaseFails, TimePasses, Broadcast, LeavePool, Reconcile, RecoverOne,
                    RecoverRead, LockExpires, Mine, coordVars
<1> QED BY <1>2, <1>3, <1>4, <1>5, <1>8, <1>9 DEF Next

\* With Web Locks no nonce of a live lease or of an accepted transaction is
\* granted again, although reserve decides on what it read before an await.
THEOREM GrantsAreFree == Spec => NoGrantOverLiveLease
<1> DEFINE Free == \A o, p \in Ops :
       webLocks /\ Grants(o) /\ p # o /\ lease[p].nonce = lease'[o].nonce =>
         /\ record[p] # "accepted"
         /\ Live(p) => p \in forgotten \/ (due[p] /\ lease[p].state # "accepted")
<1>1. NonceInv /\ [Next]_vars => [Free]_vars
  <2> SUFFICES ASSUME NonceInv, Next, NEW o \in Ops, NEW p \in Ops, webLocks, Grants(o),
                      p # o, lease[p].nonce = lease'[o].nonce
               PROVE  /\ record[p] # "accepted"
                      /\ Live(p) => p \in forgotten \/ (due[p] /\ lease[p].state # "accepted")
    OBVIOUS
  <2>1. ReserveCommit(o)
    BY GrantCommits
  <2>2. job[o].phase # "none" /\ lease'[o].nonce = job[o].nonce
    BY <2>1 DEF ReserveCommit, NonceInv, TypeOK
  <2> QED BY <2>1, <2>2 DEF NonceInv, JobFree
<1>2. NoGrantOverLiveLease <=> [][Free]_vars
  BY DEF NoGrantOverLiveLease
<1> QED BY <1>1, <1>2, NonceInvariant, PTL DEF Spec

\* A tab never reserves a nonce at or below one it reported final, under either
\* lock, except for a reservation that clearAll cut out of the tab's queue under
\* the lock row (markEvmFinalizedState, laneLocks.clear).
THEOREM FinalNoncesStayUsed == Spec => FinalNonceNotReused
<1> DEFINE Above == \A o, p \in Ops :
       Grants(o) /\ lease[p].state = "finalized" /\ lease[p].tab = lease'[o].tab
         => \/ lease[p].nonce < lease'[o].nonce
            \/ ~webLocks /\ job[o].phase = "cut"
<1>1. NonceInv /\ [Next]_vars => [Above]_vars
  <2> SUFFICES ASSUME NonceInv, Next, NEW o \in Ops, NEW p \in Ops, Grants(o),
                      lease[p].state = "finalized", lease[p].tab = lease'[o].tab,
                      ~(~webLocks /\ job[o].phase = "cut")
               PROVE  lease[p].nonce < lease'[o].nonce
    OBVIOUS
  <2>1. ReserveCommit(o)
    BY GrantCommits
  <2>2. lease'[o].nonce = job[o].nonce /\ lease'[o].tab = job[o].tab
    BY <2>1 DEF ReserveCommit, NonceInv, TypeOK
  <2>3. Serialised(o)
    BY <2>1 DEF ReserveCommit, Serialised
  <2> QED BY <2>2, <2>3 DEF NonceInv, JobAbove
<1>2. FinalNonceNotReused <=> [][Above]_vars
  BY DEF FinalNonceNotReused
<1> QED BY <1>1, <1>2, NonceInvariant, PTL DEF Spec
=============================================================================
