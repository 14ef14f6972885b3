------------------------- MODULE PresignPoolProofs -------------------------
(***************************************************************************)
(* Proofs about the presignature pool, for every set of presignatures and  *)
(* requests, every lease length and every choice of timestamps.            *)
(*                                                                         *)
(* OneUse is not inductive: it needs to know that a row without a binding  *)
(* was never reserved, that a row's revision counts its transitions, and   *)
(* that the lease of a reservation lies within the deadlines it was        *)
(* computed from.  RecordShape says so of a row and HistoryShape of the    *)
(* handovers; together they are the inductive invariant PoolInv.           *)
(***************************************************************************)
EXTENDS PresignPool, TLAPS

RecordShape(rec) ==
    /\ rec \in PoolRecord
    /\ rec.state = "absent" => rec = NoRecord
    /\ rec.state = "available" => rec.revision = 0 /\ rec.request = NoRequest
    /\ rec.state = "reserved" =>
            /\ rec.revision = 1
            /\ rec.request \in Requests
            /\ rec.lease <= rec.requestExpires
            /\ rec.lease <= rec.expires
    /\ rec.state = "consumed" => rec.revision = 2 /\ rec.request \in Requests
    /\ rec.state = "tombstone" =>
            \/ rec.revision = 1 /\ rec.request = NoRequest
            \/ rec.revision = 2 /\ rec.request \in Requests

HistoryShape(rec, history) ==
    IF rec.state = "consumed"
    THEN \E h \in Handover :
            /\ history = <<h>>
            /\ h.request = rec.request
            /\ rec.reserved <= h.at
            /\ h.at < h.lease
            /\ h.at < h.requestExpires
            /\ h.at < h.expires
    ELSE history = <<>>

PoolInv ==
    /\ pool \in [Presigs -> PoolRecord]
    /\ taken \in [Presigs -> Seq(Handover)]
    /\ \A p \in Presigs : RecordShape(pool[p]) /\ HistoryShape(pool[p], taken[p])

-----------------------------------------------------------------------------
(* What each transition does to one row. *)

\* A fresh row has the shape of an available one (AvailableRecord::new).
LEMMA AvailableShape ==
    ASSUME NEW created \in Timestamp, NEW expires \in Timestamp
    PROVE  /\ RecordShape(AvailableRecord(created, expires))
           /\ AvailableRecord(created, expires).state = "available"
           /\ AvailableRecord(created, expires).request = NoRequest
<1>1. AvailableRecord(created, expires) \in PoolRecord
  BY DEF AvailableRecord, PoolRecord, LifecycleStates, Timestamp
<1>2. /\ AvailableRecord(created, expires).state = "available"
      /\ AvailableRecord(created, expires).request = NoRequest
      /\ AvailableRecord(created, expires).revision = 0
  BY DEF AvailableRecord
<1> QED
  BY <1>1, <1>2 DEF RecordShape

\* A reservation binds its request and caps its lease (AvailableRecord::reserve).
LEMMA ReservedShape ==
    ASSUME NEW rec, RecordShape(rec), NEW request \in Requests,
           NEW now \in Timestamp, NEW requestExpires \in Timestamp,
           MayReserve(rec, now, requestExpires)
    PROVE  LET next == ReservedRecord(rec, request, now, requestExpires) IN
           /\ RecordShape(next)
           /\ next.state = "reserved"
           /\ next.request = request
<1> DEFINE lease == LeaseExpiry(rec, now, requestExpires)
<1>1. /\ lease \in Nat
      /\ lease <= requestExpires
      /\ lease <= rec.expires
  BY LeaseAssumption DEF LeaseExpiry, Min2, RecordShape, PoolRecord, Timestamp
<1>2. /\ rec \in PoolRecord
      /\ rec.revision = 0
  BY DEF MayReserve, RecordShape
<1> HIDE DEF lease
<1>3. ReservedRecord(rec, request, now, requestExpires) =
        [state |-> "reserved", revision |-> rec.revision + 1,
         created |-> rec.created, expires |-> rec.expires, request |-> request,
         reserved |-> now, lease |-> lease,
         requestExpires |-> requestExpires, reason |-> NoReason,
         terminal |-> 0]
  BY DEF ReservedRecord, lease
<1> DEFINE next == ReservedRecord(rec, request, now, requestExpires)
<1>4. next \in PoolRecord
  BY <1>1, <1>2, <1>3 DEF PoolRecord, Timestamp, LifecycleStates
<1>5. /\ next.state = "reserved" /\ next.revision = 1
      /\ next.request = request /\ next.lease = lease
      /\ next.requestExpires = requestExpires /\ next.expires = rec.expires
  BY <1>2, <1>3 DEF PoolRecord
<1> QED
  BY <1>1, <1>4, <1>5 DEF RecordShape

\* Burning keeps the binding (ActiveRecordHeader::tombstone).
LEMMA TombstoneShape ==
    ASSUME NEW rec, RecordShape(rec), HoldsMaterial(rec),
           NEW reason \in TombstoneReasons, NEW now \in Timestamp
    PROVE  LET next == Tombstone(rec, reason, now) IN
           /\ RecordShape(next)
           /\ next.state = "tombstone"
           /\ next.request = rec.request
<1>1. /\ rec \in PoolRecord
      /\ \/ rec.revision = 0 /\ rec.request = NoRequest
         \/ rec.revision = 1 /\ rec.request \in Requests
  BY DEF RecordShape, HoldsMaterial
<1> DEFINE next == Tombstone(rec, reason, now)
<1>2. next \in PoolRecord
  BY <1>1 DEF Tombstone, PoolRecord, Timestamp, LifecycleStates
<1>3. /\ next.state = "tombstone" /\ next.request = rec.request
      /\ next.revision = rec.revision + 1
  BY <1>1 DEF Tombstone, PoolRecord
<1> QED
  BY <1>1, <1>2, <1>3 DEF RecordShape

\* Taking the material keeps the binding (ReservedRecord::consume).
LEMMA ConsumedShape ==
    ASSUME NEW rec, RecordShape(rec), rec.state = "reserved",
           NEW now \in Timestamp
    PROVE  LET next == ConsumedRecord(rec, now) IN
           /\ RecordShape(next)
           /\ next.state = "consumed"
           /\ next.request = rec.request
           /\ next.reserved = rec.reserved
<1>1. rec \in PoolRecord /\ rec.revision = 1 /\ rec.request \in Requests
  BY DEF RecordShape
<1> DEFINE next == ConsumedRecord(rec, now)
<1>2. next \in PoolRecord
  BY <1>1 DEF ConsumedRecord, PoolRecord, Timestamp, LifecycleStates
<1>3. /\ next.state = "consumed" /\ next.request = rec.request
      /\ next.revision = 2 /\ next.reserved = rec.reserved
  BY <1>1 DEF ConsumedRecord, PoolRecord
<1> QED
  BY <1>1, <1>2, <1>3 DEF RecordShape

\* A consumption that is not burned is in time and by the bound request.
LEMMA ConsumeInTime ==
    ASSUME NEW rec, RecordShape(rec), NEW request \in Requests,
           NEW now \in Timestamp, MayConsume(rec, now),
           BurnReason(rec, request, now) = NoReason
    PROVE  /\ rec.request = request
           /\ rec.reserved <= now
           /\ now < rec.expires
           /\ now < rec.lease
           /\ now < rec.requestExpires
<1>1. /\ rec.reserved <= now
      /\ rec.lease <= rec.requestExpires
      /\ rec.expires \in Nat /\ rec.lease \in Nat /\ rec.requestExpires \in Nat
  BY DEF MayConsume, RecordShape, PoolRecord
<1>2. rec.request = request /\ ~(rec.expires <= now) /\ ~(rec.lease <= now)
  BY <1>1 DEF BurnReason, NoReason, Timestamp
<1> QED
  BY <1>1, <1>2 DEF Timestamp

\* The reason a refused consumption records is a tombstone reason.
LEMMA BurnReasonType ==
    ASSUME NEW rec, NEW request, NEW now,
           BurnReason(rec, request, now) # NoReason
    PROVE  BurnReason(rec, request, now) \in TombstoneReasons
BY DEF BurnReason, NoReason, TombstoneReasons, AttemptReasons, RetireReasons

-----------------------------------------------------------------------------
(* The nine commands do only five things to the rows. *)

Admitted(p) ==
    /\ pool[p] = NoRecord
    /\ \E created, expires \in Timestamp : Store(p, AvailableRecord(created, expires))

Bound(p) ==
    \E rec \in PoolRecord, q \in Requests, now, requestExpires \in Timestamp :
        /\ pool[p] = NoRecord \/ pool[p] = rec
        /\ RecordShape(rec)
        /\ MayReserve(rec, now, requestExpires)
        /\ Store(p, ReservedRecord(rec, q, now, requestExpires))

Burned(p) ==
    /\ HoldsMaterial(pool[p])
    /\ \E reason \in TombstoneReasons, now \in Timestamp :
            Store(p, Tombstone(pool[p], reason, now))

Used(p) ==
    \E q \in Requests, now \in Timestamp :
        /\ MayConsume(pool[p], now)
        /\ BurnReason(pool[p], q, now) = NoReason
        /\ pool' = [pool EXCEPT ![p] = ConsumedRecord(pool[p], now)]
        /\ taken' = [taken EXCEPT ![p] = Append(@,
                        [request |-> q, at |-> now,
                         lease |-> pool[p].lease,
                         requestExpires |-> pool[p].requestExpires,
                         expires |-> pool[p].expires])]

RowStep(p) == Admitted(p) \/ Bound(p) \/ Burned(p) \/ Used(p) \/ UNCHANGED vars

\* Writing a row back as it is changes nothing.
LEMMA StoreSame ==
    ASSUME PoolInv, NEW p \in Presigs, Store(p, pool[p])
    PROVE  UNCHANGED vars
BY DEF PoolInv, Store, vars

\* A command that burns material takes the Burned step.
LEMMA BurnStep ==
    ASSUME NEW p \in Presigs, NEW now \in Times, NEW reason \in TombstoneReasons,
           MayTombstone(pool[p], now), Store(p, Tombstone(pool[p], reason, now))
    PROVE  Burned(p)
BY TimesAssumption DEF Burned, MayTombstone, HoldsMaterial

\* Every command of the pool is one of the five row steps.
LEMMA StepKinds ==
    ASSUME PoolInv, Next
    PROVE  \E p \in Presigs : RowStep(p)
<1> USE TimesAssumption
<1>1. PICK p \in Presigs, now \in Times :
        \/ \E expires \in Times : PutAvailable(p, now, expires)
        \/ \E created, expires, requestExpires \in Times, q \in Requests :
                PutReserved(p, created, expires, q, now, requestExpires)
        \/ \E rev \in 0..2 :
            \/ \E q \in Requests, requestExpires \in Times :
                    Reserve(p, rev, q, now, requestExpires)
            \/ \E q \in Requests : Consume(p, rev, q, now)
            \/ \E q \in Requests, reason \in TombstoneReasons :
                    DestroyReserved(p, rev, q, reason, now)
            \/ RecoverInterrupted(p, rev, now)
            \/ Expire(p, rev, now)
            \/ InvalidateForRelocation(p, rev, now)
            \/ \E reason \in TombstoneReasons : Retire(p, rev, reason, now)
  BY DEF Next
<1>2. RecordShape(pool[p]) /\ pool[p] \in PoolRecord
  BY DEF PoolInv
<1>3. ASSUME NEW expires \in Times, PutAvailable(p, now, expires)
      PROVE  RowStep(p)
  <2>1. CASE pool[p] = NoRecord
    BY <1>3, <2>1 DEF PutAvailable, RowStep, Admitted
  <2>2. CASE pool[p] = AvailableRecord(now, expires)
    BY <1>3, <2>2, StoreSame DEF PutAvailable, RowStep
  <2> QED
    BY <1>3, <2>1, <2>2 DEF PutAvailable
<1>4. ASSUME NEW created \in Times, NEW expires \in Times,
             NEW requestExpires \in Times, NEW q \in Requests,
             PutReserved(p, created, expires, q, now, requestExpires)
      PROVE  RowStep(p)
  <2>1. /\ RecordShape(AvailableRecord(created, expires))
        /\ AvailableRecord(created, expires) \in PoolRecord
    BY AvailableShape DEF RecordShape
  <2> QED
    BY <1>4, <2>1 DEF PutReserved, RowStep, Bound
<1>5. ASSUME NEW rev \in 0..2, NEW q \in Requests, NEW requestExpires \in Times,
             Reserve(p, rev, q, now, requestExpires)
      PROVE  RowStep(p)
  BY <1>2, <1>5, StoreSame DEF Reserve, RowStep, Bound
<1>6. ASSUME NEW rev \in 0..2, NEW q \in Requests, Consume(p, rev, q, now)
      PROVE  RowStep(p)
  <2>1. CASE BurnReason(pool[p], q, now) = NoReason
    BY <1>6, <2>1 DEF Consume, AfterConsume, RowStep, Used
  <2>2. CASE BurnReason(pool[p], q, now) # NoReason
    <3>1. Store(p, Tombstone(pool[p], BurnReason(pool[p], q, now), now))
      BY <1>6, <2>2 DEF Consume, AfterConsume, Store
    <3>2. HoldsMaterial(pool[p])
      BY <1>6 DEF Consume, MayConsume, HoldsMaterial
    <3> QED
      BY <2>2, <3>1, <3>2, BurnReasonType DEF RowStep, Burned
  <2> QED
    BY <2>1, <2>2
<1>7. ASSUME NEW rev \in 0..2, NEW q \in Requests, NEW reason \in TombstoneReasons,
             DestroyReserved(p, rev, q, reason, now)
      PROVE  RowStep(p)
  <2>1. DestroyReason(pool[p], q, reason) \in TombstoneReasons
    BY DEF DestroyReason, TombstoneReasons, AttemptReasons
  <2> QED
    BY <1>7, <2>1, BurnStep DEF DestroyReserved, RowStep
<1>8. ASSUME NEW rev \in 0..2, RecoverInterrupted(p, rev, now)
      PROVE  RowStep(p)
  <2>1. "CrashRecovery" \in TombstoneReasons
    BY DEF TombstoneReasons, AttemptReasons
  <2> QED
    BY <1>8, <2>1, BurnStep DEF RecoverInterrupted, RowStep
<1>9. ASSUME NEW rev \in 0..2, Expire(p, rev, now)
      PROVE  RowStep(p)
  <2>1. ExpiryReason(pool[p], now) \in TombstoneReasons
    BY <1>9 DEF Expire, ExpiryReason, NoReason, TombstoneReasons, AttemptReasons
  <2> QED
    BY <1>9, <2>1, BurnStep DEF Expire, RowStep
<1>10. ASSUME NEW rev \in 0..2, InvalidateForRelocation(p, rev, now)
       PROVE  RowStep(p)
  <2>1. "WalletRelocated" \in TombstoneReasons
    BY DEF TombstoneReasons, AttemptReasons
  <2> QED
    BY <1>10, <2>1, BurnStep, StoreSame DEF InvalidateForRelocation, RowStep
<1>11. ASSUME NEW rev \in 0..2, NEW reason \in TombstoneReasons,
              Retire(p, rev, reason, now)
       PROVE  RowStep(p)
  BY <1>11, BurnStep DEF Retire, RowStep
<1> QED
  BY <1>1, <1>3, <1>4, <1>5, <1>6, <1>7, <1>8, <1>9, <1>10, <1>11

-----------------------------------------------------------------------------
(* The inductive invariant. *)

\* A step that stores one well-formed row, and leaves the history to match
\* it, keeps the invariant: the other rows and histories stay as they are.
LEMMA OneRowWritten ==
    ASSUME PoolInv, NEW p \in Presigs, NEW rec, NEW history \in Seq(Handover),
           RecordShape(rec), HistoryShape(rec, history),
           pool' = [pool EXCEPT ![p] = rec],
           taken' = [taken EXCEPT ![p] = history]
    PROVE  PoolInv'
<1>1. rec \in PoolRecord
  BY DEF RecordShape
<1>2. ASSUME NEW r \in Presigs
      PROVE  RecordShape(pool'[r]) /\ HistoryShape(pool'[r], taken'[r])
  <2>1. CASE r = p
    BY <2>1 DEF PoolInv
  <2>2. CASE r # p
    BY <2>2 DEF PoolInv
  <2> QED
    BY <2>1, <2>2
<1>3. /\ pool' \in [Presigs -> PoolRecord]
      /\ taken' \in [Presigs -> Seq(Handover)]
  BY <1>1 DEF PoolInv
<1> QED
  BY <1>2, <1>3 DEF PoolInv

\* Storing a row that holds no used material over one that was not used.
LEMMA StoreUnused ==
    ASSUME PoolInv, NEW p \in Presigs, pool[p].state # "consumed",
           NEW rec, RecordShape(rec), rec.state # "consumed", Store(p, rec)
    PROVE  PoolInv'
<1>1. taken[p] = <<>> /\ taken[p] \in Seq(Handover)
  BY DEF PoolInv, HistoryShape
<1>2. HistoryShape(rec, taken[p])
  BY <1>1 DEF HistoryShape
<1>3. /\ pool' = [pool EXCEPT ![p] = rec]
      /\ taken' = [taken EXCEPT ![p] = taken[p]]
  BY DEF Store, PoolInv
<1> QED
  BY <1>1, <1>2, <1>3, OneRowWritten

LEMMA InitPoolInv ==
    ASSUME Init
    PROVE  PoolInv
<1>1. NoRecord \in PoolRecord /\ NoRecord.state = "absent"
  BY DEF NoRecord, PoolRecord, LifecycleStates
<1>2. RecordShape(NoRecord) /\ HistoryShape(NoRecord, <<>>)
  BY <1>1 DEF RecordShape, HistoryShape
<1>3. <<>> \in Seq(Handover)
  OBVIOUS
<1> QED
  BY <1>1, <1>2, <1>3 DEF Init, PoolInv

LEMMA NextPoolInv ==
    ASSUME PoolInv, [Next]_vars
    PROVE  PoolInv'
<1>1. CASE UNCHANGED vars
  BY <1>1 DEF PoolInv, vars
<1>2. CASE Next
  <2>1. PICK p \in Presigs : RowStep(p)
    BY <1>2, StepKinds
  <2>2. RecordShape(pool[p]) /\ HistoryShape(pool[p], taken[p])
    BY DEF PoolInv
  <2>3. CASE Admitted(p)
    <3>1. PICK created, expires \in Timestamp :
            Store(p, AvailableRecord(created, expires))
      BY <2>3 DEF Admitted
    <3>2. pool[p].state # "consumed"
      BY <2>3 DEF Admitted, NoRecord
    <3> QED
      BY <3>1, <3>2, AvailableShape, StoreUnused
  <2>4. CASE Bound(p)
    <3>1. PICK rec \in PoolRecord, q \in Requests, now, requestExpires \in Timestamp :
            /\ pool[p] = NoRecord \/ pool[p] = rec
            /\ RecordShape(rec)
            /\ MayReserve(rec, now, requestExpires)
            /\ Store(p, ReservedRecord(rec, q, now, requestExpires))
      BY <2>4 DEF Bound
    <3>2. pool[p].state # "consumed"
      BY <3>1 DEF MayReserve, NoRecord
    <3> QED
      BY <3>1, <3>2, ReservedShape, StoreUnused
  <2>5. CASE Burned(p)
    <3>1. PICK reason \in TombstoneReasons, now \in Timestamp :
            Store(p, Tombstone(pool[p], reason, now))
      BY <2>5 DEF Burned
    <3>2. HoldsMaterial(pool[p]) /\ pool[p].state # "consumed"
      BY <2>5 DEF Burned, HoldsMaterial
    <3> QED
      BY <2>2, <3>1, <3>2, TombstoneShape, StoreUnused
  <2>6. CASE Used(p)
    <3>1. PICK q \in Requests, now \in Timestamp :
            /\ MayConsume(pool[p], now)
            /\ BurnReason(pool[p], q, now) = NoReason
            /\ pool' = [pool EXCEPT ![p] = ConsumedRecord(pool[p], now)]
            /\ taken' = [taken EXCEPT ![p] = Append(@,
                            [request |-> q, at |-> now,
                             lease |-> pool[p].lease,
                             requestExpires |-> pool[p].requestExpires,
                             expires |-> pool[p].expires])]
      BY <2>6 DEF Used
    <3> DEFINE h == [request |-> q, at |-> now, lease |-> pool[p].lease,
                     requestExpires |-> pool[p].requestExpires,
                     expires |-> pool[p].expires]
    <3>2. /\ pool[p].state = "reserved"
          /\ pool[p].lease \in Nat
          /\ pool[p].requestExpires \in Nat
          /\ pool[p].expires \in Nat
      BY <2>2, <3>1 DEF MayConsume, RecordShape, PoolRecord
    <3>3. h \in Handover
      BY <3>2 DEF Handover, Timestamp
    <3>4. /\ pool[p].request = q
          /\ pool[p].reserved <= now
          /\ now < pool[p].expires
          /\ now < pool[p].lease
          /\ now < pool[p].requestExpires
      BY <2>2, <3>1, ConsumeInTime
    <3> DEFINE rec == ConsumedRecord(pool[p], now)
    <3>5. /\ RecordShape(rec)
          /\ rec.state = "consumed"
          /\ rec.request = pool[p].request
          /\ rec.reserved = pool[p].reserved
      BY <2>2, <3>2, ConsumedShape
    <3>6. taken[p] = <<>>
      BY <2>2, <3>2 DEF HistoryShape
    <3>7. taken' = [taken EXCEPT ![p] = <<h>>] /\ <<h>> \in Seq(Handover)
      <4>1. Append(<<>>, h) = <<h>>
        OBVIOUS
      <4>2. taken' = [taken EXCEPT ![p] = Append(taken[p], h)]
        BY <3>1 DEF PoolInv
      <4> QED
        BY <3>3, <3>6, <4>1, <4>2
    <3>8. /\ h.request = rec.request
          /\ rec.reserved <= h.at
          /\ h.at < h.lease
          /\ h.at < h.requestExpires
          /\ h.at < h.expires
      BY <3>4, <3>5
    <3>9. pool' = [pool EXCEPT ![p] = rec]
      BY <3>1
    <3> HIDE DEF h, rec
    <3>10. HistoryShape(rec, <<h>>)
      BY <3>3, <3>5, <3>8 DEF HistoryShape
    <3> QED
      BY <3>5, <3>7, <3>9, <3>10, OneRowWritten
  <2>7. CASE UNCHANGED vars
    BY <2>7 DEF PoolInv, vars
  <2> QED
    BY <2>1, <2>3, <2>4, <2>5, <2>6, <2>7 DEF RowStep
<1> QED
  BY <1>1, <1>2

-----------------------------------------------------------------------------
(* The theorems. *)

\* PoolInv holds in every reachable state: rows keep their shape and the
\* history of handovers matches them.
THEOREM PoolInvariant == Spec => []PoolInv
<1>1. Init => PoolInv
  BY InitPoolInv
<1>2. PoolInv /\ [Next]_vars => PoolInv'
  BY NextPoolInv
<1> QED
  BY <1>1, <1>2, PTL DEF Spec

\* Every row stays a pool record and every handover a handover.
THEOREM TypeCorrect == Spec => []TypeOK
<1>1. PoolInv => TypeOK
  BY DEF PoolInv, TypeOK
<1> QED
  BY <1>1, PoolInvariant, PTL

\* A presignature's secret material is handed out at most once, to the
\* request that its surviving row names.
THEOREM MaterialUsedOnce == Spec => []OneUse
<1>1. ASSUME PoolInv, NEW p \in Presigs
      PROVE  /\ Len(taken[p]) <= 1
             /\ Len(taken[p]) = 1 <=> pool[p].state = "consumed"
             /\ Len(taken[p]) = 1 => taken[p][1].request = pool[p].request
  <2>1. CASE pool[p].state = "consumed"
    <3>1. PICK h \in Handover : taken[p] = <<h>> /\ h.request = pool[p].request
      BY <1>1, <2>1 DEF PoolInv, HistoryShape
    <3> QED
      BY <2>1, <3>1
  <2>2. CASE pool[p].state # "consumed"
    <3>1. taken[p] = <<>>
      BY <1>1, <2>2 DEF PoolInv, HistoryShape
    <3> QED
      BY <2>2, <3>1
  <2> QED
    BY <2>1, <2>2
<1>2. PoolInv => OneUse
  BY <1>1 DEF OneUse
<1> QED
  BY <1>2, PoolInvariant, PTL

\* Material is never handed out after its lease, its request or its own
\* lifetime ended.
THEOREM MaterialUsedInTime == Spec => []UsedInTime
<1>1. ASSUME PoolInv, NEW p \in Presigs, NEW i \in DOMAIN taken[p]
      PROVE  /\ pool[p].reserved <= taken[p][i].at
             /\ taken[p][i].at < taken[p][i].lease
             /\ taken[p][i].at < taken[p][i].requestExpires
             /\ taken[p][i].at < taken[p][i].expires
  <2>1. pool[p].state = "consumed"
    <3>1. SUFFICES ASSUME pool[p].state # "consumed" PROVE FALSE
      OBVIOUS
    <3>2. taken[p] = <<>>
      BY <1>1, <3>1 DEF PoolInv, HistoryShape
    <3> QED
      BY <1>1, <3>2
  <2>2. PICK h \in Handover :
            /\ taken[p] = <<h>>
            /\ pool[p].reserved <= h.at
            /\ h.at < h.lease
            /\ h.at < h.requestExpires
            /\ h.at < h.expires
    BY <1>1, <2>1 DEF PoolInv, HistoryShape
  <2>3. i = 1
    BY <1>1, <2>2
  <2> QED
    BY <2>2, <2>3
<1>2. PoolInv => UsedInTime
  BY <1>1 DEF UsedInTime
<1> QED
  BY <1>2, PoolInvariant, PTL

\* Revision 0 means unreserved, 1 reserved or burned unused, 2 consumed or
\* burned after an attempt: what prepare and finalize rely on.
THEOREM RevisionTellsState == Spec => []RevisionNamesState
<1>1. ASSUME PoolInv, NEW p \in Presigs
      PROVE  /\ pool[p].revision = 0 <=> pool[p].state \in {"absent", "available"}
             /\ pool[p].revision = 1 <=>
                    \/ pool[p].state = "reserved"
                    \/ pool[p].state = "tombstone" /\ pool[p].request = NoRequest
             /\ pool[p].revision = 2 <=>
                    \/ pool[p].state = "consumed"
                    \/ pool[p].state = "tombstone" /\ pool[p].request # NoRequest
  <2>1. RecordShape(pool[p])
    BY <1>1 DEF PoolInv
  <2>2. pool[p].state \in LifecycleStates
    BY <2>1 DEF RecordShape, PoolRecord
  <2>3. pool[p].state = "absent" => pool[p].revision = 0
    BY <2>1 DEF RecordShape, NoRecord
  <2> QED
    BY <2>1, <2>2, <2>3, RequestAssumption DEF RecordShape, LifecycleStates
<1>2. PoolInv => RevisionNamesState
  BY <1>1 DEF RevisionNamesState
<1> QED
  BY <1>2, PoolInvariant, PTL

\* What a row step does to any row: nothing, or one move along the life of
\* material that was not yet used or burned.
LEMMA RowMoves ==
    ASSUME PoolInv, Next, NEW r \in Presigs
    PROVE  \/ pool'[r] = pool[r]
           \/ /\ ~IsTerminal(pool[r])
              /\ pool'[r].request = pool[r].request \/ pool[r].request = NoRequest
              /\ pool[r].state = "reserved" => pool'[r].state # "reserved"
<1>1. PICK p \in Presigs : RowStep(p)
  BY StepKinds
<1>2. RecordShape(pool[p])
  BY DEF PoolInv
<1>3. CASE Admitted(p)
  BY <1>3, AvailableShape DEF Admitted, Store, PoolInv, NoRecord, IsTerminal
<1>4. CASE Bound(p)
  <2>1. PICK rec \in PoolRecord, q \in Requests, now, requestExpires \in Timestamp :
            /\ pool[p] = NoRecord \/ pool[p] = rec
            /\ RecordShape(rec)
            /\ MayReserve(rec, now, requestExpires)
            /\ Store(p, ReservedRecord(rec, q, now, requestExpires))
    BY <1>4 DEF Bound
  <2>2. /\ pool[p].state \in {"absent", "available"}
        /\ pool[p].request = NoRequest
    BY <2>1 DEF MayReserve, NoRecord, RecordShape
  <2> QED
    BY <2>1, <2>2 DEF Store, PoolInv, IsTerminal
<1>5. CASE Burned(p)
  <2>1. PICK reason \in TombstoneReasons, now \in Timestamp :
            Store(p, Tombstone(pool[p], reason, now))
    BY <1>5 DEF Burned
  <2>2. HoldsMaterial(pool[p])
    BY <1>5 DEF Burned
  <2>3. /\ Tombstone(pool[p], reason, now).state = "tombstone"
        /\ Tombstone(pool[p], reason, now).request = pool[p].request
    BY <1>2, <2>2, TombstoneShape
  <2> QED
    BY <2>1, <2>2, <2>3 DEF Store, PoolInv, IsTerminal, HoldsMaterial
<1>6. CASE Used(p)
  <2>1. PICK now \in Timestamp :
            /\ pool[p].state = "reserved"
            /\ pool' = [pool EXCEPT ![p] = ConsumedRecord(pool[p], now)]
    BY <1>6 DEF Used, MayConsume
  <2>2. /\ ConsumedRecord(pool[p], now).state = "consumed"
        /\ ConsumedRecord(pool[p], now).request = pool[p].request
    BY <1>2, <2>1, ConsumedShape
  <2> QED
    BY <2>1, <2>2 DEF PoolInv, IsTerminal
<1>7. CASE UNCHANGED vars
  BY <1>7 DEF vars
<1> QED
  BY <1>1, <1>3, <1>4, <1>5, <1>6, <1>7 DEF RowStep

\* A consumed or burned row is never written again.
THEOREM TerminalNeverChanges == Spec => TerminalAbsorbing
<1>1. PoolInv /\ [Next]_vars =>
        [\A p \in Presigs : IsTerminal(pool[p]) => pool'[p] = pool[p]]_vars
  BY RowMoves
<1> QED
  BY <1>1, PoolInvariant, PTL DEF Spec, TerminalAbsorbing

\* A presignature's first binding is its only one, and a reservation is
\* never renewed.
THEOREM BindingNeverChanges == Spec => ReservationFixed
<1>1. PoolInv /\ [Next]_vars =>
        [\A p \in Presigs :
            /\ pool[p].request # NoRequest => pool'[p].request = pool[p].request
            /\ pool[p].state = "reserved" /\ pool'[p].state = "reserved"
                    => pool'[p] = pool[p]]_vars
  BY RowMoves
<1> QED
  BY <1>1, PoolInvariant, PTL DEF Spec, ReservationFixed

-----------------------------------------------------------------------------
(* The pool implements one-use material. *)

\* Writing one row changes one status and one owner.
LEMMA ViewOfWrite ==
    ASSUME PoolInv, NEW p \in Presigs, NEW rec, pool' = [pool EXCEPT ![p] = rec]
    PROVE  /\ statusView[p] = StatusOf(pool[p])
           /\ ownerView[p] = pool[p].request
           /\ statusView' = [statusView EXCEPT ![p] = StatusOf(rec)]
           /\ ownerView' = [ownerView EXCEPT ![p] = rec.request]
           /\ rec.request = pool[p].request => ownerView' = ownerView
BY DEF PoolInv, statusView, ownerView

\* Every command of the pool is a step of the abstract specification or
\* leaves its status and owner unchanged.
THEOREM PoolImplementsOneUse == Spec => ImplementsOneUse
<1>1. Init => OneUseView!Init
  <2>1. NoRecord.request = NoRequest /\ StatusOf(NoRecord) = "none"
    BY DEF NoRecord, StatusOf
  <2> QED
    BY <2>1 DEF Init, OneUseView!Init, statusView, ownerView
<1>2. PoolInv /\ [Next]_vars => [OneUseView!Next]_OneUseView!abstractVars
  <2>1. SUFFICES ASSUME PoolInv, Next
                 PROVE  [OneUseView!Next]_OneUseView!abstractVars
    BY DEF vars, OneUseView!abstractVars, statusView, ownerView
  <2>2. PICK p \in Presigs : RowStep(p)
    BY <2>1, StepKinds
  <2>3. RecordShape(pool[p])
    BY <2>1 DEF PoolInv
  <2>4. CASE Admitted(p)
    <3>1. PICK created, expires \in Timestamp :
            /\ pool[p] = NoRecord
            /\ pool' = [pool EXCEPT ![p] = AvailableRecord(created, expires)]
      BY <2>4 DEF Admitted, Store
    <3>2. /\ AvailableRecord(created, expires).request = pool[p].request
          /\ StatusOf(AvailableRecord(created, expires)) = "held"
          /\ StatusOf(pool[p]) = "none"
      BY <3>1 DEF AvailableRecord, NoRecord, StatusOf
    <3>3. /\ statusView[p] = StatusOf(pool[p])
          /\ statusView' = [statusView EXCEPT ![p] = StatusOf(AvailableRecord(created, expires))]
          /\ ownerView' = ownerView
      BY <2>1, <3>1, <3>2, ViewOfWrite
    <3>4. OneUseView!Admit(p)
      BY <3>2, <3>3 DEF OneUseView!Admit
    <3> QED
      BY <3>4 DEF OneUseView!Next
  <2>5. CASE Bound(p)
    <3>1. PICK rec \in PoolRecord, q \in Requests, now, requestExpires \in Timestamp :
            /\ pool[p] = NoRecord \/ pool[p] = rec
            /\ MayReserve(rec, now, requestExpires)
            /\ pool' = [pool EXCEPT ![p] = ReservedRecord(rec, q, now, requestExpires)]
      BY <2>5 DEF Bound, Store
    <3>2. /\ ReservedRecord(rec, q, now, requestExpires).request = q
          /\ StatusOf(ReservedRecord(rec, q, now, requestExpires)) = "bound"
      BY DEF ReservedRecord, StatusOf
    <3>3. StatusOf(pool[p]) \in {"none", "held"}
      BY <3>1 DEF MayReserve, NoRecord, StatusOf
    <3>4. /\ statusView[p] = StatusOf(pool[p])
          /\ statusView' = [statusView EXCEPT ![p] = StatusOf(ReservedRecord(rec, q, now, requestExpires))]
          /\ ownerView' = [ownerView EXCEPT ![p] =
                            ReservedRecord(rec, q, now, requestExpires).request]
      BY <2>1, <3>1, ViewOfWrite
    <3>5. OneUseView!Bind(p, q)
      BY <3>2, <3>3, <3>4 DEF OneUseView!Bind
    <3> QED
      BY <3>5 DEF OneUseView!Next
  <2>6. CASE Burned(p)
    <3>1. PICK reason \in TombstoneReasons, now \in Timestamp :
            /\ HoldsMaterial(pool[p])
            /\ pool' = [pool EXCEPT ![p] = Tombstone(pool[p], reason, now)]
      BY <2>6 DEF Burned, Store
    <3>2. /\ Tombstone(pool[p], reason, now).request = pool[p].request
          /\ StatusOf(Tombstone(pool[p], reason, now)) = "gone"
      BY DEF Tombstone, StatusOf
    <3>3. StatusOf(pool[p]) \in {"held", "bound"}
      BY <3>1 DEF HoldsMaterial, StatusOf
    <3>4. /\ statusView[p] = StatusOf(pool[p])
          /\ statusView' = [statusView EXCEPT ![p] = StatusOf(Tombstone(pool[p], reason, now))]
          /\ ownerView' = ownerView
      BY <2>1, <3>1, <3>2, ViewOfWrite
    <3>5. statusView = [m \in Presigs |-> statusView[m]]
      BY DEF statusView
    <3>6. OneUseView!Burn({p})
      BY <3>2, <3>3, <3>4, <3>5 DEF OneUseView!Burn
    <3> QED
      BY <3>6 DEF OneUseView!Next
  <2>7. CASE Used(p)
    <3>1. PICK now \in Timestamp :
            /\ pool[p].state = "reserved"
            /\ pool' = [pool EXCEPT ![p] = ConsumedRecord(pool[p], now)]
      BY <2>7 DEF Used, MayConsume
    <3>2. /\ ConsumedRecord(pool[p], now).request = pool[p].request
          /\ StatusOf(ConsumedRecord(pool[p], now)) = "used"
      BY DEF ConsumedRecord, StatusOf
    <3>3. StatusOf(pool[p]) = "bound"
      BY <3>1 DEF StatusOf
    <3>4. /\ statusView[p] = StatusOf(pool[p])
          /\ statusView' = [statusView EXCEPT ![p] = StatusOf(ConsumedRecord(pool[p], now))]
          /\ ownerView' = ownerView
      BY <2>1, <3>1, <3>2, ViewOfWrite
    <3>5. OneUseView!Use(p)
      BY <3>2, <3>3, <3>4 DEF OneUseView!Use
    <3> QED
      BY <3>5 DEF OneUseView!Next
  <2>8. CASE UNCHANGED vars
    BY <2>8 DEF vars, OneUseView!abstractVars, statusView, ownerView
  <2> QED
    BY <2>2, <2>4, <2>5, <2>6, <2>7, <2>8 DEF RowStep
<1> QED
  BY <1>1, <1>2, PoolInvariant, PTL DEF Spec, ImplementsOneUse, OneUseView!Spec

=============================================================================
