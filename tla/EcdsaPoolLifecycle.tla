------------------------- MODULE EcdsaPoolLifecycle -------------------------
(***************************************************************************)
(* The life of one SigningWorker presignature record: the pure decisions   *)
(* of crates/router-ab-ecdsa-pool (states, timestamps, revisions) under    *)
(* the rules of crates/router-ab-cloudflare/src/ecdsa_pool_lifecycle.rs    *)
(* (lease length, request binding).                                        *)
(*                                                                         *)
(* A record holds secret one-use material exactly while it is available    *)
(* or reserved.  Keys, digests and ciphertext are abstracted: a record is  *)
(* addressed by its presignature, and a reservation binding by the request *)
(* whose digest it commits to.  Timestamps are milliseconds supplied by    *)
(* the caller, so nothing here assumes that they grow.                     *)
(***************************************************************************)
EXTENDS Integers

CONSTANTS
    Requests,     \* prepare requests, told apart by their digest
    NoRequest,    \* the binding of material that was never reserved
    LeaseMs       \* CLOUDFLARE_SIGNING_WORKER_ECDSA_RESERVATION_LEASE_MS_V1

ASSUME RequestAssumption == NoRequest \notin Requests
ASSUME LeaseAssumption == LeaseMs \in Nat \ {0}

\* Timestamps are validated as positive before a command reads a record.
Timestamp == Nat \ {0}

\* The reasons a burn can record, and the two that retirement accepts.
RetireReasons == {"KeyEpochRetired", "ActivationEpochRetired"}

AttemptReasons == {"Rejected", "BindingRejected", "Timeout", "Cancelled",
    "CrashRecovery", "PeerAbort", "PersistenceFailure", "MaterialExpired",
    "WalletRelocated"}

TombstoneReasons == RetireReasons \cup AttemptReasons

NoReason == "None"

LifecycleStates == {"absent", "available", "reserved", "consumed", "tombstone"}

(***************************************************************************)
(* One row per presignature.  A field that a state does not keep is 0,     *)
(* NoRequest or NoReason; "absent" stands for no row at all.               *)
(***************************************************************************)
PoolRecord == [
    state      : LifecycleStates,
    revision   : 0..2,                        \* the compare-and-swap revision
    created    : Nat,                         \* created_at_ms
    expires    : Nat,                         \* material_expires_at_ms
    request    : Requests \cup {NoRequest},   \* the reservation binding
    reserved   : Nat,                         \* reserved_at_ms
    lease      : Nat,                         \* lease_expires_at_ms
    requestExpires : Nat,                     \* expiry of the bound request
    reason     : TombstoneReasons \cup {NoReason},
    terminal   : Nat ]                        \* consumed_at_ms, terminal_at_ms

NoRecord == [state |-> "absent", revision |-> 0, created |-> 0, expires |-> 0,
    request |-> NoRequest, reserved |-> 0, lease |-> 0, requestExpires |-> 0,
    reason |-> NoReason, terminal |-> 0]

Min2(a, b) == IF a <= b THEN a ELSE b

HoldsMaterial(rec) == rec.state \in {"available", "reserved"}

IsTerminal(rec) == rec.state \in {"consumed", "tombstone"}

\* AvailableRecord::new accepts material that outlives its creation.
MayCreate(created, expires) == created < expires

AvailableRecord(created, expires) ==
    [state |-> "available", revision |-> 0, created |-> created,
     expires |-> expires, request |-> NoRequest, reserved |-> 0, lease |-> 0,
     requestExpires |-> 0, reason |-> NoReason, terminal |-> 0]

\* Mutant of LeaseExpiry: the request's own expiry is forgotten.
LeaseExpiryUncapped(rec, now, requestExpires) ==
    Min2(now + LeaseMs, rec.expires)

\* The lease ends with the lease length, the request or the material,
\* whichever comes first.
LeaseExpiry(rec, now, requestExpires) ==
    Min2(Min2(now + LeaseMs, requestExpires), rec.expires)

\* AvailableRecord::reserve, after the command's own expiry check; the
\* material refuses a request that would outlive it.
MayReserve(rec, now, requestExpires) ==
    /\ rec.state = "available"
    /\ now < requestExpires
    /\ requestExpires <= rec.expires
    /\ rec.created <= now
    /\ now < rec.expires
    /\ now < LeaseExpiry(rec, now, requestExpires)

\* Mutant of ReservedRecord: the revision is not advanced.
ReservedSameRevision(rec, request, now, requestExpires) ==
    [state |-> "reserved", revision |-> rec.revision,
     created |-> rec.created, expires |-> rec.expires, request |-> request,
     reserved |-> now, lease |-> LeaseExpiry(rec, now, requestExpires),
     requestExpires |-> requestExpires, reason |-> NoReason, terminal |-> 0]

ReservedRecord(rec, request, now, requestExpires) ==
    [state |-> "reserved", revision |-> rec.revision + 1,
     created |-> rec.created, expires |-> rec.expires, request |-> request,
     reserved |-> now, lease |-> LeaseExpiry(rec, now, requestExpires),
     requestExpires |-> requestExpires, reason |-> NoReason, terminal |-> 0]

\* A prepare that repeats the request it reserved for: it is answered from
\* the stored reservation and keeps its revision, lease and contribution.
IsReserveRetry(rec, request, requestExpires, expectedRevision) ==
    /\ rec.state = "reserved"
    /\ rec.revision = expectedRevision + 1
    /\ rec.request = request
    /\ rec.requestExpires = requestExpires

\* Mutant of MayTombstone: a consumed row can still be burned.
MayTombstoneUsed(rec, now) == rec.state \in {"available", "reserved", "consumed"}

\* ActiveRecordHeader::tombstone for unused material, ReservedRecord::destroy
\* for a reservation: a burn is never dated before what it ends.
MayTombstone(rec, now) ==
    \/ rec.state = "available" /\ rec.created <= now
    \/ rec.state = "reserved" /\ rec.reserved <= now /\ rec.created <= now

\* A tombstone keeps the attempted binding and destroys the material.
Tombstone(rec, reason, now) ==
    [state |-> "tombstone", revision |-> rec.revision + 1,
     created |-> rec.created, expires |-> 0, request |-> rec.request,
     reserved |-> 0, lease |-> 0, requestExpires |-> 0, reason |-> reason,
     terminal |-> now]

\* Mutant of BurnReason: the request is not compared with the binding.
BurnReasonUnbound(rec, request, now) ==
    CASE rec.expires <= now -> "MaterialExpired"
      [] now < rec.expires /\ rec.lease <= now -> "Timeout"
      [] OTHER -> NoReason

\* Why an attempted consumption must burn the material instead, or NoReason.
BurnReason(rec, request, now) ==
    CASE rec.request # request -> "BindingRejected"
      [] rec.request = request /\ rec.expires <= now -> "MaterialExpired"
      [] rec.request = request /\ now < rec.expires /\ rec.lease <= now -> "Timeout"
      [] OTHER -> NoReason

\* A consumption dated before its reservation is refused and changes nothing.
MayConsume(rec, now) == rec.state = "reserved" /\ rec.reserved <= now

ConsumedRecord(rec, now) ==
    [state |-> "consumed", revision |-> rec.revision + 1,
     created |-> rec.created, expires |-> 0, request |-> rec.request,
     reserved |-> rec.reserved, lease |-> 0, requestExpires |-> 0,
     reason |-> NoReason, terminal |-> now]

\* ReservedRecord::consume: take the material or persist the burn.
AfterConsume(rec, request, now) ==
    IF BurnReason(rec, request, now) = NoReason
    THEN ConsumedRecord(rec, now)
    ELSE Tombstone(rec, BurnReason(rec, request, now), now)

\* The reason a cleanup past the first deadline records, or NoReason.
ExpiryReason(rec, now) ==
    IF rec.expires <= now THEN "MaterialExpired"
    ELSE IF rec.state = "reserved" /\ rec.lease <= now THEN "Timeout"
    ELSE NoReason

\* The reason a destroyed attempt records: a caller that names another
\* request cannot choose the reason.
DestroyReason(rec, request, reason) ==
    IF rec.request = request THEN reason ELSE "BindingRejected"

=============================================================================
