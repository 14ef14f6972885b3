----------------------------- MODULE PresignPool -----------------------------
(***************************************************************************)
(* The SigningWorker's presignature rows under every command of            *)
(* apply_cloudflare_signing_worker_ecdsa_pool_command_v1                   *)
(* (crates/router-ab-cloudflare/src/ecdsa_pool_lifecycle.rs).              *)
(*                                                                         *)
(* One action per command.  A command carries the caller's timestamp and   *)
(* the revision the caller expects; callers are many, delayed and          *)
(* repeated, so both are arbitrary.  A command that returns an error       *)
(* leaves the row alone and is no step of the model.                       *)
(***************************************************************************)
EXTENDS EcdsaPoolLifecycle, Sequences

CONSTANTS
    Presigs,     \* presignature identities, one row each
    Times        \* the timestamps callers may supply

ASSUME TimesAssumption == Times \subseteq Timestamp

VARIABLES
    pool,        \* [Presigs -> PoolRecord], the persisted rows
    taken        \* history: who was handed the secret material, and when

vars == <<pool, taken>>

\* One entry of the history: the secret material left the row.
Handover == [request : Requests, at : Nat, lease : Nat, requestExpires : Nat,
             expires : Nat]

Init ==
    /\ pool = [p \in Presigs |-> NoRecord]
    /\ taken = [p \in Presigs |-> <<>>]

\* The compare-and-swap that precedes every transition.
AtRevision(p, expectedRevision) ==
    pool[p].state # "absent" /\ pool[p].revision = expectedRevision

\* Writes the row back; the material was retained or destroyed, not taken.
Store(p, rec) ==
    /\ pool' = [pool EXCEPT ![p] = rec]
    /\ UNCHANGED taken

\* A repeated admission of an identical record answers without a write.
PutAvailable(p, created, expires) ==
    /\ MayCreate(created, expires)
    /\ pool[p] \in {NoRecord, AvailableRecord(created, expires)}
    /\ Store(p, AvailableRecord(created, expires))

PutReserved(p, created, expires, request, now, requestExpires) ==
    /\ pool[p] = NoRecord
    /\ MayCreate(created, expires)
    /\ MayReserve(AvailableRecord(created, expires), now, requestExpires)
    /\ Store(p, ReservedRecord(AvailableRecord(created, expires), request,
                               now, requestExpires))

\* Mutant of Reserve: a retry renews the lease.
ReserveRenewing(p, expectedRevision, request, now, requestExpires) ==
    \/ /\ now < requestExpires
       /\ IsReserveRetry(pool[p], request, requestExpires, expectedRevision)
       /\ Store(p, [pool[p] EXCEPT !.lease = LeaseExpiry(pool[p], now, requestExpires)])
    \/ /\ AtRevision(p, expectedRevision)
       /\ MayReserve(pool[p], now, requestExpires)
       /\ Store(p, ReservedRecord(pool[p], request, now, requestExpires))

\* The retry is answered from the stored reservation, before the revision
\* is compared.
Reserve(p, expectedRevision, request, now, requestExpires) ==
    \/ /\ now < requestExpires
       /\ IsReserveRetry(pool[p], request, requestExpires, expectedRevision)
       /\ Store(p, pool[p])
    \/ /\ AtRevision(p, expectedRevision)
       /\ MayReserve(pool[p], now, requestExpires)
       /\ Store(p, ReservedRecord(pool[p], request, now, requestExpires))

\* The only command that hands the secret material out of the row.
Consume(p, expectedRevision, request, now) ==
    /\ AtRevision(p, expectedRevision)
    /\ MayConsume(pool[p], now)
    /\ pool' = [pool EXCEPT ![p] = AfterConsume(pool[p], request, now)]
    /\ taken' = IF BurnReason(pool[p], request, now) = NoReason
                THEN [taken EXCEPT ![p] = Append(@,
                        [request |-> request, at |-> now,
                         lease |-> pool[p].lease,
                         requestExpires |-> pool[p].requestExpires,
                         expires |-> pool[p].expires])]
                ELSE taken

\* Mutant of DestroyReserved: the material goes back to the pool.
DestroyReleases(p, expectedRevision, request, reason, now) ==
    /\ AtRevision(p, expectedRevision)
    /\ pool[p].state = "reserved"
    /\ MayTombstone(pool[p], now)
    /\ Store(p, AvailableRecord(pool[p].created, pool[p].expires))

DestroyReserved(p, expectedRevision, request, reason, now) ==
    /\ AtRevision(p, expectedRevision)
    /\ pool[p].state = "reserved"
    /\ MayTombstone(pool[p], now)
    /\ Store(p, Tombstone(pool[p], DestroyReason(pool[p], request, reason), now))

RecoverInterrupted(p, expectedRevision, now) ==
    /\ AtRevision(p, expectedRevision)
    /\ pool[p].state = "reserved"
    /\ MayTombstone(pool[p], now)
    /\ Store(p, Tombstone(pool[p], "CrashRecovery", now))

Expire(p, expectedRevision, now) ==
    /\ AtRevision(p, expectedRevision)
    /\ HoldsMaterial(pool[p])
    /\ ExpiryReason(pool[p], now) # NoReason
    /\ MayTombstone(pool[p], now)
    /\ Store(p, Tombstone(pool[p], ExpiryReason(pool[p], now), now))

\* Mutant of InvalidateForRelocation: a terminal row is dated again.
InvalidateRedating(p, expectedRevision, now) ==
    /\ AtRevision(p, expectedRevision)
    /\ IF IsTerminal(pool[p]) THEN Store(p, [pool[p] EXCEPT !.terminal = now])
       ELSE /\ MayTombstone(pool[p], now)
            /\ Store(p, Tombstone(pool[p], "WalletRelocated", now))

\* A terminal row is preserved (or, for the exact retry, reported again).
InvalidateForRelocation(p, expectedRevision, now) ==
    \/ /\ AtRevision(p, expectedRevision)
       /\ MayTombstone(pool[p], now)
       /\ Store(p, Tombstone(pool[p], "WalletRelocated", now))
    \/ /\ IsTerminal(pool[p])
       /\ \/ AtRevision(p, expectedRevision)
          \/ /\ AtRevision(p, expectedRevision + 1)
             /\ pool[p].reason = "WalletRelocated"
             /\ pool[p].terminal = now
       /\ Store(p, pool[p])

Retire(p, expectedRevision, reason, now) ==
    /\ AtRevision(p, expectedRevision)
    /\ reason \in RetireReasons
    /\ MayTombstone(pool[p], now)
    /\ Store(p, Tombstone(pool[p], reason, now))

Next ==
    \E p \in Presigs, now \in Times :
        \/ \E expires \in Times : PutAvailable(p, now, expires)
        \/ \E created, expires, requestExpires \in Times, q \in Requests :
                PutReserved(p, created, expires, q, now, requestExpires)
        \/ \E rev \in 0..2 :
            \/ \E q \in Requests, requestExpires \in Times :
                    Reserve(p, rev, q, now, requestExpires)
            \/ \E q \in Requests : Consume(p, rev, q, now)
            \/ \E q \in Requests, reason \in TombstoneReasons :
                    DestroyReserved(p, rev, q, reason, now)
            \/ RecoverInterrupted(p, rev, now)
            \/ Expire(p, rev, now)
            \/ InvalidateForRelocation(p, rev, now)
            \/ \E reason \in TombstoneReasons : Retire(p, rev, reason, now)

Spec == Init /\ [][Next]_vars

-----------------------------------------------------------------------------
\* The rows are well formed and the history holds handovers only.
TypeOK ==
    /\ pool \in [Presigs -> PoolRecord]
    /\ taken \in [Presigs -> Seq(Handover)]

(***************************************************************************)
(* The secret material of a presignature leaves its row at most once, and  *)
(* then to the request the surviving row names as its binding.  Two online *)
(* rounds over one ECDSA presignature would reveal the key, so this is the *)
(* property the whole lifecycle exists for (ReservedRecord::consume).      *)
(***************************************************************************)
OneUse ==
    \A p \in Presigs :
        /\ Len(taken[p]) <= 1
        /\ Len(taken[p]) = 1 <=> pool[p].state = "consumed"
        /\ Len(taken[p]) = 1 => taken[p][1].request = pool[p].request

(***************************************************************************)
(* Material is handed out only inside its lease, the request's lifetime    *)
(* and its own lifetime, although consume checks no request deadline: the  *)
(* lease computed at reserve must already be capped by it.                 *)
(***************************************************************************)
UsedInTime ==
    \A p \in Presigs : \A i \in DOMAIN taken[p] :
        LET h == taken[p][i] IN
        /\ pool[p].reserved <= h.at
        /\ h.at < h.lease
        /\ h.at < h.requestExpires
        /\ h.at < h.expires

(***************************************************************************)
(* The revision alone tells the callers what they may do: prepare sends    *)
(* revision 0 and finalize sends revision 1 without reading the row, so 0  *)
(* must mean unreserved and 1 must mean reserved or burned unused.         *)
(***************************************************************************)
RevisionNamesState ==
    \A p \in Presigs :
        LET r == pool[p] IN
        /\ r.revision = 0 <=> r.state \in {"absent", "available"}
        /\ r.revision = 1 <=> \/ r.state = "reserved"
                              \/ r.state = "tombstone" /\ r.request = NoRequest
        /\ r.revision = 2 <=> \/ r.state = "consumed"
                              \/ r.state = "tombstone" /\ r.request # NoRequest

(***************************************************************************)
(* A consumed or burned row never changes again, whatever late or repeated *)
(* command arrives: ConsumedRecord and TombstoneRecord expose no           *)
(* transition, and PutAvailable does not overwrite them.                   *)
(***************************************************************************)
TerminalAbsorbing ==
    [][\A p \in Presigs : IsTerminal(pool[p]) => pool'[p] = pool[p]]_vars

(***************************************************************************)
(* The request that reserved a presignature stays its only binding for     *)
(* ever, and while the reservation lasts no retry renews its lease or      *)
(* moves its deadlines.                                                    *)
(***************************************************************************)
ReservationFixed ==
    [][\A p \in Presigs :
        /\ pool[p].request # NoRequest => pool'[p].request = pool[p].request
        /\ pool[p].state = "reserved" /\ pool'[p].state = "reserved"
                => pool'[p] = pool[p]]_vars

(***************************************************************************)
(* The pool implements one-use material: the row's state is the status,    *)
(* its binding the owner (every command maps to a step or a stutter).      *)
(***************************************************************************)
StatusOf(rec) ==
    CASE rec.state = "absent" -> "none"
      [] rec.state = "available" -> "held"
      [] rec.state = "reserved" -> "bound"
      [] rec.state = "consumed" -> "used"
      [] OTHER -> "gone"

statusView == [p \in Presigs |-> StatusOf(pool[p])]

ownerView == [p \in Presigs |-> pool[p].request]

OneUseView == INSTANCE OneUseMaterial WITH
    Materials <- Presigs,
    Owners <- Requests,
    NoOwner <- NoRequest,
    status <- statusView,
    owner <- ownerView

ImplementsOneUse == OneUseView!Spec

=============================================================================
