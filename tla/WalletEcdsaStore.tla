-------------------------- MODULE WalletEcdsaStore --------------------------
(***************************************************************************)
(* The SigningWorker's ECDSA store of one wallet                           *)
(* (crates/router-ab-cloudflare/src/signing_worker/wallet_ecdsa_store.rs   *)
(* and the handlers that call it).                                         *)
(*                                                                         *)
(* A wallet has one physical object per ownership generation, and every    *)
(* request is routed to the object of the generation it names              *)
(* (wallet_object.rs).  An object runs each handler in one storage         *)
(* transaction, so an action is one transaction; a handler that returns an *)
(* error is rolled back and is no step, except where the caller's own      *)
(* state moves on.                                                         *)
(*                                                                         *)
(* All records of an object live in one table `rows`, addressed by record  *)
(* family and key like the snapshot records of snapshot.rs.  Pool rows     *)
(* keep the status and owner of OneUseMaterial, which PresignPool is       *)
(* proved to implement: deadlines become the choice to burn or to refuse.  *)
(***************************************************************************)
EXTENDS Integers, FiniteSets

CONSTANTS
    Requests,          \* signing requests as the client sent them
    NoRequest,
    OpOf, AuthOf,      \* their operation and authorization keys
    PresigOf,          \* the presignature each names
    Presigs,           \* presignatures, each made by one presign session
    MaterialOf,        \* the material activation a presignature belongs to
    OwnMaterials,      \* activations registered for the wallet itself
    LinkedMaterials,   \* activations reserved for linked devices
    Sessions,          \* linked presign sessions, which live in other objects
    Workers,           \* finalize requests in progress
    Moves, NoMove,     \* relocation requests
    MaxGen,            \* bound: how many generations exist
    NoRow

ASSUME StoreAssumption ==
    /\ MaxGen \in Nat \ {0}
    /\ NoRequest \notin Requests
    /\ NoMove \notin Moves
    /\ PresigOf \in [Requests -> Presigs]
    /\ MaterialOf \in [Presigs -> OwnMaterials \cup LinkedMaterials]
    /\ OwnMaterials \cap LinkedMaterials = {}

\* The operation key names the material activation it signs with.
ASSUME OperationAssumption ==
    \A q, r \in Requests : OpOf[q] = OpOf[r] =>
        MaterialOf[PresigOf[q]] = MaterialOf[PresigOf[r]]

VARIABLES
    rows,        \* [Gens -> [Keys -> row or NoRow]]
    authority,   \* who may execute at each object (execution.rs)
    fence,       \* the relocation fence of each object (relocation.rs)
    imported,    \* the move each object was activated by, if any
    settled,     \* linked presign sessions settled for the object's move
    worker,      \* finalize requests between their calls to the object
    handed,      \* history: how often each request got secret material
    revoked      \* history: linked materials revoked in any generation

storeVars == <<rows, authority, fence, imported, settled, worker, handed, revoked>>

Gens == 1..MaxGen
Materials == OwnMaterials \cup LinkedMaterials
Ops == {OpOf[q] : q \in Requests}
MaterialFor(q) == MaterialOf[PresigOf[q]]

\* One key per record, by family (snapshot.rs SnapshotRecord).
PoolKey(p) == <<"pool", p>>
ActivationKey(m) == <<"activation", m>>
LinkedKey(m) == <<"linked", m>>
EffectKey(o) == <<"effect", o>>
CeremonyKey(p) == <<"ceremony", p>>     \* presign authority of p's session
SessionKey(s) == <<"session", s>>

PoolKeys == {PoolKey(p) : p \in Presigs}
EffectKeys == {EffectKey(o) : o \in Ops}
SessionKeys == {SessionKey(s) : s \in Sessions}
Keys == PoolKeys \cup EffectKeys \cup SessionKeys
            \cup {ActivationKey(m) : m \in OwnMaterials}
            \cup {LinkedKey(m) : m \in LinkedMaterials}
            \cup {CeremonyKey(p) : p \in Presigs}

PoolRows == [status : {"held", "bound", "used", "gone"},
             owner : Requests \cup {NoRequest}]
\* An effect row is the exact admitted request, generation included.
EffectRows == [request : Requests, gen : Gens, done : BOOLEAN]

\* NoRow is the absence of a row, and a wallet has finitely many records.
ASSUME RowAssumption ==
    /\ NoRow \notin PoolRows \cup EffectRows \cup Gens
    /\ NoRow \notin {"active", "inactive", "revoked"}
    /\ IsFiniteSet(Keys)

FenceStates == {"none", "draining", "invalidating", "sealing", "frozen",
    "cleaning", "cleaned", "prepared", "importing", "restoring", "verified"}

NoFence == [state |-> "none", move |-> NoMove, passed |-> {}, next |-> 0]
Idle == [pc |-> "idle", request |-> NoRequest, gen |-> 0]

Has(g, k) == rows[g][k] # NoRow
RowsOf(table) == {k \in Keys : table[k] # NoRow}
IsEmpty(g) == RowsOf(rows[g]) = {}

Insert(g, k, row) == rows' = [rows EXCEPT ![g][k] = row]

\* require_mutation_admission: any fence closes the object.
Open(g) == fence[g].state = "none"

\* ExecutionAuthority::generation; relocation and empty sources name the
\* generation their request was routed by.
AuthorityGen(g) == IF authority[g] = "registration" THEN 1 ELSE g

\* require_execution_generation, for a request routed to object g.
MayExecute(g) ==
    /\ authority[g] \in {"registration", "relocation"}
    /\ AuthorityGen(g) = g

\* load_activation: the wallet's own activation or an active linked device.
MaterialActive(g, m) ==
    IF m \in OwnMaterials THEN Has(g, ActivationKey(m))
    ELSE rows[g][LinkedKey(m)] = "active"

StoreInit ==
    /\ rows = [g \in Gens |-> [k \in Keys |-> NoRow]]
    /\ authority = [g \in Gens |-> "none"]
    /\ fence = [g \in Gens |-> NoFence]
    /\ imported = [g \in Gens |-> NoMove]
    /\ settled = [g \in Gens |-> {}]
    /\ worker = [w \in Workers |-> Idle]
    /\ handed = [q \in Requests |-> 0]
    /\ revoked = {}

-----------------------------------------------------------------------------
(* Registration and presignatures *)

\* Callers name a generation the wallet's directory calls active, or did
\* (external): the first, or one whose import was activated.
Routed(g) == g = 1 \/ imported[g] # NoMove

\* activate: the first registration makes the object executable.
Register(g, m) ==
    /\ Routed(g)
    /\ Open(g)
    /\ authority[g] = "none" => IsEmpty(g) /\ imported[g] = NoMove
    /\ ~Has(g, ActivationKey(m))
    /\ Insert(g, ActivationKey(m), "active")
    /\ authority' = [authority EXCEPT ![g] =
                        IF @ = "none" THEN "registration" ELSE @]
    /\ UNCHANGED <<fence, imported, settled, worker, handed, revoked>>

\* claim_presign_authority: a presign session starts, bound to the
\* generation that executes it, and can never start again.
StartCeremony(g, p) ==
    /\ Open(g)
    /\ authority[g] # "none"
    /\ AuthorityGen(g) = g
    /\ ~Has(g, CeremonyKey(p))
    /\ Insert(g, CeremonyKey(p), g)
    /\ UNCHANGED <<authority, fence, imported, settled, worker, handed, revoked>>

\* admit_signing_worker_wallet_ecdsa_presignature_v1: the finished session
\* publishes its presignature.  A session of an older generation cannot.
Publish(g, p) ==
    /\ Has(g, CeremonyKey(p))
    /\ MayExecute(g)
    /\ AuthorityGen(g) = rows[g][CeremonyKey(p)]
    /\ MaterialActive(g, MaterialOf[p])
    /\ Open(g)
    /\ ~Has(g, PoolKey(p))
    /\ Insert(g, PoolKey(p), [status |-> "held", owner |-> NoRequest])
    /\ UNCHANGED <<authority, fence, imported, settled, worker, handed, revoked>>

\* Mutant of Prepare: a presignature already reserved is reserved again.
PrepareRebinding(g, q) ==
    LET k == PoolKey(PresigOf[q]) IN
    /\ MayExecute(g)
    /\ MaterialActive(g, MaterialFor(q))
    /\ Open(g)
    /\ Has(g, k) /\ rows[g][k].status \in {"held", "bound"}
    /\ Insert(g, k, [status |-> "bound", owner |-> q])
    /\ UNCHANGED <<authority, fence, imported, settled, worker, handed, revoked>>

\* prepare_signing_worker_wallet_ecdsa_from_pool_v1: reserve for request q.
Prepare(g, q) ==
    LET k == PoolKey(PresigOf[q]) IN
    /\ MayExecute(g)
    /\ MaterialActive(g, MaterialFor(q))
    /\ Open(g)
    /\ rows[g][k] = [status |-> "held", owner |-> NoRequest]
    /\ Insert(g, k, [status |-> "bound", owner |-> q])
    /\ UNCHANGED <<authority, fence, imported, settled, worker, handed, revoked>>

\* The burn a failed prepare sends for the reservation it made.
BurnReservation(g, q) ==
    LET k == PoolKey(PresigOf[q]) IN
    /\ Open(g)
    /\ rows[g][k] = [status |-> "bound", owner |-> q]
    /\ Insert(g, k, [status |-> "gone", owner |-> q])
    /\ UNCHANGED <<authority, fence, imported, settled, worker, handed, revoked>>

-----------------------------------------------------------------------------
(* Finalize: load the material, claim, compute, commit.  The three calls   *)
(* are separate transactions, and the worker may die between any two.      *)

LoadMaterial(w, q, g) ==
    /\ worker[w] = Idle
    /\ MaterialActive(g, MaterialFor(q))
    /\ worker' = [worker EXCEPT ![w] =
                    [pc |-> "loaded", request |-> q, gen |-> g]]
    /\ UNCHANGED <<rows, authority, fence, imported, settled, handed, revoked>>

\* Mutants of PriorEffects: one of the two keys is not looked up.
PriorByAuthorization(g, q) ==
    {o \in Ops : /\ Has(g, EffectKey(o))
                 /\ AuthOf[rows[g][EffectKey(o)].request] = AuthOf[q]}

PriorByOperation(g, q) == {o \in {OpOf[q]} : Has(g, EffectKey(o))}

\* read_effects by operation key or by authorization key.
PriorEffects(g, q) ==
    {o \in Ops : /\ Has(g, EffectKey(o))
                 /\ \/ o = OpOf[q]
                    \/ AuthOf[rows[g][EffectKey(o)].request] = AuthOf[q]}

\* Mutant of LinkedUnrevoked: the material loaded earlier is trusted.
LinkedTrusted(g, m) == TRUE

\* require_linked_material_unrevoked: own material has no linked row.
LinkedUnrevoked(g, m) ==
    m \in LinkedMaterials => rows[g][LinkedKey(m)] \in {NoRow, "active"}

\* claim_and_consume_effect up to the consumption it decides.
ClaimAdmitted(g, q) ==
    /\ PriorEffects(g, q) = {}
    /\ MayExecute(g)
    /\ LinkedUnrevoked(g, MaterialFor(q))
    /\ Open(g)
    /\ Has(g, PoolKey(PresigOf[q]))
    /\ rows[g][PoolKey(PresigOf[q])].status = "bound"

\* The rows after the consumption committed together with its effect.
ClaimedRows(g, q) ==
    [rows EXCEPT ![g][PoolKey(PresigOf[q])] = [status |-> "used", owner |-> q],
                 ![g][EffectKey(OpOf[q])] =
                    [request |-> q, gen |-> g, done |-> FALSE]]

Claim(w) ==
    LET q == worker[w].request
        g == worker[w].gen
        k == PoolKey(PresigOf[q]) IN
    /\ worker[w].pc = "loaded"
    /\ ClaimAdmitted(g, q)
    /\ rows[g][k].owner = q
    /\ rows' = ClaimedRows(g, q)
    /\ handed' = [handed EXCEPT ![q] = @ + 1]
    /\ worker' = [worker EXCEPT ![w].pc = "claimed"]
    /\ UNCHANGED <<authority, fence, imported, settled, revoked>>

\* Another request's binding, or a passed deadline: burned, no effect row.
ClaimBurns(w) ==
    LET q == worker[w].request
        g == worker[w].gen
        k == PoolKey(PresigOf[q]) IN
    /\ worker[w].pc = "loaded"
    /\ ClaimAdmitted(g, q)
    /\ Insert(g, k, [status |-> "gone", owner |-> rows[g][k].owner])
    /\ worker' = [worker EXCEPT ![w] = Idle]
    /\ UNCHANGED <<authority, fence, imported, settled, handed, revoked>>

\* The claim is answered from a stored effect, or refused: the store is
\* unchanged and the worker is done.
ClaimAnswered(w) ==
    /\ worker[w].pc = "loaded"
    /\ ~ClaimAdmitted(worker[w].gen, worker[w].request)
    /\ worker' = [worker EXCEPT ![w] = Idle]
    /\ UNCHANGED <<rows, authority, fence, imported, settled, handed, revoked>>

\* commit_terminal: no fence check, so a claimed effect can finish while
\* its wallet drains.
Commit(w) ==
    LET q == worker[w].request
        g == worker[w].gen
        k == EffectKey(OpOf[q]) IN
    /\ worker[w].pc = "claimed"
    /\ rows[g][k] = [request |-> q, gen |-> g, done |-> FALSE]
    /\ MayExecute(g)
    /\ Insert(g, k, [request |-> q, gen |-> g, done |-> TRUE])
    /\ worker' = [worker EXCEPT ![w] = Idle]
    /\ UNCHANGED <<authority, fence, imported, settled, handed, revoked>>

\* Mutant of WorkerFails: the request is not forgotten.
WorkerFailsPartly(w) ==
    /\ worker[w] # Idle
    /\ worker' = [worker EXCEPT ![w].pc = "idle"]
    /\ UNCHANGED <<rows, authority, fence, imported, settled, handed, revoked>>

\* The worker dies, its computation fails, or a response is lost.
WorkerFails(w) ==
    /\ worker[w] # Idle
    /\ worker' = [worker EXCEPT ![w] = Idle]
    /\ UNCHANGED <<rows, authority, fence, imported, settled, handed, revoked>>

-----------------------------------------------------------------------------
(* Linked devices *)

ReserveLinked(g, m, source) ==
    /\ ~Has(g, LinkedKey(m))
    /\ Open(g)
    /\ MaterialActive(g, source)
    /\ Insert(g, LinkedKey(m), "inactive")
    /\ UNCHANGED <<authority, fence, imported, settled, worker, handed, revoked>>

ActivateLinked(g, m) ==
    /\ rows[g][LinkedKey(m)] = "inactive"
    /\ Open(g)
    /\ Insert(g, LinkedKey(m), "active")
    /\ UNCHANGED <<authority, fence, imported, settled, worker, handed, revoked>>

\* Mutant of DeactivateLinked: a revocation passes the relocation fence.
DeactivateLinkedUnfenced(g, m) ==
    /\ rows[g][LinkedKey(m)] \in {"inactive", "active"}
    /\ Insert(g, LinkedKey(m), "revoked")
    /\ revoked' = revoked \cup {m}
    /\ UNCHANGED <<authority, fence, imported, settled, worker, handed>>

DeactivateLinked(g, m) ==
    /\ rows[g][LinkedKey(m)] \in {"inactive", "active"}
    /\ Open(g)
    /\ Insert(g, LinkedKey(m), "revoked")
    /\ revoked' = revoked \cup {m}
    /\ UNCHANGED <<authority, fence, imported, settled, worker, handed>>

\* register_linked_presign_session: discovery precedes protocol state.
RegisterSession(g, s) ==
    /\ Open(g)
    /\ authority[g] # "none"
    /\ AuthorityGen(g) = g
    /\ ~Has(g, SessionKey(s))
    /\ Insert(g, SessionKey(s), g)
    /\ UNCHANGED <<authority, fence, imported, settled, worker, handed, revoked>>

\* record_linked_presign_freeze: the session's object froze for this move.
SettleSession(g, s) ==
    /\ fence[g].state \in {"draining", "invalidating", "sealing", "frozen"}
    /\ rows[g][SessionKey(s)] = g
    /\ s \notin settled[g]
    /\ settled' = [settled EXCEPT ![g] = @ \cup {s}]
    /\ UNCHANGED <<rows, authority, fence, imported, worker, handed, revoked>>

\* Every transaction of the store that is not part of a relocation.
StoreNext ==
    \/ \E g \in Gens :
        \/ \E m \in OwnMaterials : Register(g, m)
        \/ \E p \in Presigs : StartCeremony(g, p) \/ Publish(g, p)
        \/ \E q \in Requests : Prepare(g, q) \/ BurnReservation(g, q)
        \/ \E m \in LinkedMaterials :
            \/ \E source \in Materials \ {m} : ReserveLinked(g, m, source)
            \/ ActivateLinked(g, m)
            \/ DeactivateLinked(g, m)
        \/ \E s \in Sessions : RegisterSession(g, s) \/ SettleSession(g, s)
    \/ \E w \in Workers :
        \/ \E q \in Requests, g \in Gens : LoadMaterial(w, q, g)
        \/ Claim(w)
        \/ ClaimBurns(w)
        \/ ClaimAnswered(w)
        \/ Commit(w)
        \/ WorkerFails(w)

=============================================================================
