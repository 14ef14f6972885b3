-------------------------- MODULE WalletRelocation --------------------------
(***************************************************************************)
(* Moving a wallet's ECDSA store from the object of one ownership          *)
(* generation to the next, while requests keep arriving at both            *)
(* (wallet_ecdsa_store/relocation.rs, sealed_snapshot.rs, transfer.rs,     *)
(* import.rs, snapshot/restore.rs, cleanup.rs).                            *)
(*                                                                         *)
(* The coordinator repeats freeze, import, verify and cleanup calls until  *)
(* each reports its end; a call does at most one batch of records and      *)
(* commits it with the cursor that remembers it.  The cursors follow a     *)
(* fixed key order in the code; here a batch is any set of records that    *)
(* the cursor has not passed.  Chunks travel on an unreliable network:     *)
(* they are delayed, repeated and reordered.                               *)
(***************************************************************************)
EXTENDS WalletEcdsaStore

CONSTANTS
    Batch,        \* records per call (16 in the code)
    Segments,     \* chunks per snapshot
    SegmentOf     \* the chunk each record's bytes are in

ASSUME RelocationAssumption ==
    /\ Batch \in Nat \ {0}
    /\ Segments \in Nat \ {0}
    /\ SegmentOf \in [Keys -> 0..(Segments - 1)]

VARIABLES
    sealed,      \* [Gens -> snapshot pages written at the source]
    staged,      \* [Gens -> records staged at the destination]
    receipt,     \* [Gens -> the source's digest the destination was given]
    chunks       \* chunks on the network

transferVars == <<sealed, staged, receipt, chunks>>
vars == <<storeVars, transferVars>>

EmptyTable == [k \in Keys |-> NoRow]

SourceStates == {"draining", "invalidating", "sealing", "frozen", "cleaning",
                 "cleaned"}

Init ==
    /\ StoreInit
    /\ sealed = [g \in Gens |-> EmptyTable]
    /\ staged = [g \in Gens |-> EmptyTable]
    /\ receipt = [g \in Gens |-> EmptyTable]
    /\ chunks = {}

\* One call's worth of the records that remain: a full batch, or the rest.
Batches(remaining) ==
    {S \in SUBSET remaining :
        Cardinality(S) = IF Cardinality(remaining) < Batch
                         THEN Cardinality(remaining) ELSE Batch}

\* A batch that is not full was the last.
IsLast(S) == Cardinality(S) < Batch

Overlay(table, S, source) ==
    [k \in Keys |-> IF k \in S THEN source[k] ELSE table[k]]

AtFence(g, state, m, passed, next) ==
    fence' = [fence EXCEPT ![g] =
        [state |-> state, move |-> m, passed |-> passed, next |-> next]]

-----------------------------------------------------------------------------
(* The source *)

\* Mutant of PendingEffects: unfinished effects do not hold up a freeze.
NoPendingEffects(g) == {}

PendingEffects(g) ==
    {k \in EffectKeys : Has(g, k) /\ ~rows[g][k].done}

\* Mutant of PendingSessions: settlements are not counted.
UnsettledSessions(g) == {s \in Sessions : rows[g][SessionKey(s)] = g}

\* pending_linked_presign_sessions of this generation.
PendingSessions(g) ==
    {s \in Sessions : rows[g][SessionKey(s)] = g /\ s \notin settled[g]}

\* The source's authority must be its own generation's; a source that never
\* held ECDSA records becomes an empty source.  The coordinator names the
\* generation that owns the wallet, like every other caller.
FreezeAuthority(g) ==
    /\ Routed(g)
    /\ \/ /\ authority[g] = "none"
          /\ IsEmpty(g)
          /\ imported[g] = NoMove
          /\ authority' = [authority EXCEPT ![g] = "empty"]
       \/ /\ authority[g] # "none"
          /\ AuthorityGen(g) = g
          /\ UNCHANGED authority

\* InvalidateForRelocation: live material is destroyed, terminal rows stay.
Invalidated(row) ==
    IF row.status \in {"held", "bound"} THEN [row EXCEPT !.status = "gone"] ELSE row

InvalidatedRows(g, S) ==
    [k \in Keys |-> IF k \in S THEN Invalidated(rows[g][k]) ELSE rows[g][k]]

\* seal_ecdsa_snapshot: one batch of pages, and the receipt after the last.
Seal(g, m, table, passed) ==
    \E S \in Batches(RowsOf(table) \ passed) :
        /\ sealed' = [sealed EXCEPT ![g] = Overlay(@, S, table)]
        /\ IF IsLast(S) THEN AtFence(g, "frozen", m, {}, 0)
           ELSE AtFence(g, "sealing", m, passed \cup S, 0)

\* freeze_pool_for_relocation while work is still pending: the fence closes
\* admission and stays.
FreezeDrains(g, m) ==
    /\ FreezeAuthority(g)
    /\ \/ Open(g)
       \/ fence[g].state \in {"draining", "invalidating"} /\ fence[g].move = m
    /\ PendingEffects(g) # {} \/ PendingSessions(g) # {}
    /\ IF Open(g) THEN AtFence(g, "draining", m, {}, 0) ELSE UNCHANGED fence
    /\ UNCHANGED <<rows, imported, settled, worker, handed, revoked, transferVars>>

\* Nothing pending: destroy a batch of live material, and after the last
\* batch seal the first pages in the same transaction.
FreezeInvalidates(g, m) ==
    /\ FreezeAuthority(g)
    /\ \/ Open(g)
       \/ fence[g].state \in {"draining", "invalidating"} /\ fence[g].move = m
    /\ PendingEffects(g) = {} /\ PendingSessions(g) = {}
    /\ \E S \in Batches((RowsOf(rows[g]) \cap PoolKeys) \ fence[g].passed) :
        /\ rows' = [rows EXCEPT ![g] = InvalidatedRows(g, S)]
        /\ IF IsLast(S) THEN Seal(g, m, InvalidatedRows(g, S), {})
           ELSE /\ AtFence(g, "invalidating", m, fence[g].passed \cup S, 0)
                /\ UNCHANGED sealed
    /\ UNCHANGED <<imported, settled, worker, handed, revoked, staged, receipt, chunks>>

\* A later call of a freeze that is already sealing.
FreezeSeals(g, m) ==
    /\ fence[g].state = "sealing" /\ fence[g].move = m
    /\ FreezeAuthority(g)
    /\ Seal(g, m, rows[g], fence[g].passed)
    /\ UNCHANGED <<rows, imported, settled, worker, handed, revoked, staged, receipt, chunks>>

Freeze(g, m) == FreezeDrains(g, m) \/ FreezeInvalidates(g, m) \/ FreezeSeals(g, m)

\* export_ecdsa_snapshot reads the sealed pages, only while frozen.
Export(g, segment) ==
    /\ fence[g].state = "frozen"
    /\ chunks' = chunks \cup {[gen |-> g, move |-> fence[g].move,
                               segment |-> segment, digest |-> sealed[g]]}
    /\ UNCHANGED <<storeVars, sealed, staged, receipt>>

-----------------------------------------------------------------------------
(* The destination *)

\* prepare_ecdsa_import, for a destination that holds nothing.
PrepareImport(g, m) ==
    /\ g > 1
    /\ imported[g] = NoMove
    /\ Open(g)
    /\ IsEmpty(g)
    /\ staged[g] = EmptyTable
    /\ AtFence(g, "prepared", m, {}, 0)
    /\ UNCHANGED <<rows, authority, imported, settled, worker, handed, revoked, transferVars>>

\* import_ecdsa_chunk accepts exactly the next segment of its prepared move.
MayImport(g, c) ==
    /\ fence[g].move = c.move
    /\ \/ fence[g].state = "prepared" /\ c.segment = 0
       \/ /\ fence[g].state = "importing"
          /\ receipt[g] = c.digest
          /\ fence[g].next = c.segment

ImportChunk(c) ==
    LET g == c.gen + 1
        data == {k \in Keys : SegmentOf[k] = c.segment} IN
    /\ g \in Gens
    /\ MayImport(g, c)
    /\ staged' = [staged EXCEPT ![g] = Overlay(@, data, c.digest)]
    /\ receipt' = [receipt EXCEPT ![g] = c.digest]
    /\ AtFence(g, "importing", c.move, {}, c.segment + 1)
    /\ UNCHANGED <<rows, authority, imported, settled, worker, handed, revoked,
                   sealed, chunks>>

\* Restore refuses live pool material, unfinished effects, and presign
\* authorities newer than the generation they come from.
MayRestore(source, k, row) ==
    /\ k \in PoolKeys => row.status \in {"used", "gone"}
    /\ k \in EffectKeys => row.done
    /\ k[1] = "ceremony" => row <= source

\* Mutant of Verify: one family, the effects, is left out of the restore.
VerifyWithoutEffects(g, m) ==
    /\ imported[g] = NoMove
    /\ fence[g].move = m
    /\ \/ /\ fence[g].state = "importing"
          /\ fence[g].next = Segments
          /\ IsEmpty(g)
       \/ fence[g].state = "restoring"
    /\ \E S \in Batches((RowsOf(staged[g]) \ EffectKeys) \ fence[g].passed) :
        /\ \A k \in S : MayRestore(g - 1, k, staged[g][k])
        /\ rows' = [rows EXCEPT ![g] = Overlay(@, S, staged[g])]
        /\ IF IsLast(S)
           THEN AtFence(g, "verified", m, {}, 0)
           ELSE AtFence(g, "restoring", m, fence[g].passed \cup S, 0)
    /\ UNCHANGED <<authority, imported, settled, worker, handed, revoked, transferVars>>

\* verify_ecdsa_import: restore one batch; the last one must complete the
\* inventory the source's receipt describes.
Verify(g, m) ==
    /\ imported[g] = NoMove
    /\ fence[g].move = m
    /\ \/ /\ fence[g].state = "importing"
          /\ fence[g].next = Segments
          /\ IsEmpty(g)
       \/ fence[g].state = "restoring"
    /\ \E S \in Batches(RowsOf(staged[g]) \ fence[g].passed) :
        /\ \A k \in S : MayRestore(g - 1, k, staged[g][k])
        /\ rows' = [rows EXCEPT ![g] = Overlay(@, S, staged[g])]
        /\ IF IsLast(S)
           THEN staged[g] = receipt[g] /\ AtFence(g, "verified", m, {}, 0)
           ELSE AtFence(g, "restoring", m, fence[g].passed \cup S, 0)
    /\ UNCHANGED <<authority, imported, settled, worker, handed, revoked, transferVars>>

\* Mutants of ActivateImport: an import that is only prepared is activated;
\* a retry removes whatever fence it finds.
ActivateUnverified(g, m) ==
    /\ imported[g] = NoMove
    /\ fence[g].state \in {"prepared", "verified"} /\ fence[g].move = m
    /\ authority[g] = "none"
    /\ authority' = [authority EXCEPT ![g] = "relocation"]
    /\ imported' = [imported EXCEPT ![g] = m]
    /\ fence' = [fence EXCEPT ![g] = NoFence]
    /\ UNCHANGED <<rows, settled, worker, handed, revoked, transferVars>>

ActivateUnfencing(g, m) ==
    /\ imported[g] = m \/ (imported[g] = NoMove /\ authority[g] = "none"
                            /\ fence[g].state = "verified" /\ fence[g].move = m)
    /\ authority' = [authority EXCEPT ![g] = "relocation"]
    /\ imported' = [imported EXCEPT ![g] = m]
    /\ fence' = [fence EXCEPT ![g] = NoFence]
    /\ UNCHANGED <<rows, settled, worker, handed, revoked, transferVars>>

\* activate_ecdsa_import: the destination takes over.  The exact retry is
\* answered before the fence is read, and must not touch it.
ActivateImport(g, m) ==
    \/ /\ imported[g] = m
       /\ MayExecute(g)
       /\ UNCHANGED vars
    \/ /\ imported[g] = NoMove
       /\ fence[g].state = "verified" /\ fence[g].move = m
       /\ authority[g] = "none"
       /\ authority' = [authority EXCEPT ![g] = "relocation"]
       /\ imported' = [imported EXCEPT ![g] = m]
       /\ fence' = [fence EXCEPT ![g] = NoFence]
       /\ UNCHANGED <<rows, settled, worker, handed, revoked, transferVars>>

-----------------------------------------------------------------------------
(* Source cleanup *)

\* The authenticated coordinator sends the destination's Activated receipt
\* (external): it names the move the destination was activated by.
HasActivatedReceipt(g, m) == g + 1 \in Gens /\ imported[g + 1] = m

\* The order in which cleanup_ecdsa_source empties the tables: staged
\* chunks and sealed pages go before the presign authorities.
FamilyRank(k) ==
    CASE k[1] = "effect" -> 1
      [] k[1] = "pool" -> 2
      [] k[1] = "linked" -> 3
      [] k[1] = "activation" -> 4
      [] k[1] = "session" -> 5
      [] OTHER -> 7

PagesRank == 6

HasPages(g) == sealed[g] # EmptyTable \/ staged[g] # EmptyTable

\* The first family that still has rows.
FirstFamily(g) ==
    {k \in RowsOf(rows[g]) :
        \A j \in RowsOf(rows[g]) : FamilyRank(k) <= FamilyRank(j)}

CleanupAdmitted(g, m) ==
    /\ HasActivatedReceipt(g, m)
    /\ fence[g].state \in {"frozen", "cleaning"} /\ fence[g].move = m

\* Each call deletes one batch of one table.
CleanupRows(g, m) ==
    /\ CleanupAdmitted(g, m)
    /\ HasPages(g) => \E k \in RowsOf(rows[g]) : FamilyRank(k) < PagesRank
    /\ \E S \in Batches(FirstFamily(g)) :
        /\ S # {}
        /\ rows' = [rows EXCEPT ![g] = Overlay(@, S, EmptyTable)]
    /\ AtFence(g, "cleaning", m, {}, 0)
    /\ UNCHANGED <<authority, imported, settled, worker, handed, revoked, transferVars>>

\* The chunks the source was imported from, then its own pages.  Neither
\* is read any more, so each table goes at once instead of in batches.
CleanupPages(g, m) ==
    /\ CleanupAdmitted(g, m)
    /\ HasPages(g)
    /\ \A k \in RowsOf(rows[g]) : FamilyRank(k) > PagesRank
    /\ IF staged[g] # EmptyTable
       THEN staged' = [staged EXCEPT ![g] = EmptyTable] /\ UNCHANGED sealed
       ELSE sealed' = [sealed EXCEPT ![g] = EmptyTable] /\ UNCHANGED staged
    /\ AtFence(g, "cleaning", m, {}, 0)
    /\ UNCHANGED <<rows, authority, imported, settled, worker, handed, revoked,
                   receipt, chunks>>

\* Nothing left: the fence stays, for ever.
CleanupEnds(g, m) ==
    /\ CleanupAdmitted(g, m)
    /\ IsEmpty(g) /\ ~HasPages(g)
    /\ AtFence(g, "cleaned", m, {}, 0)
    /\ UNCHANGED <<rows, authority, imported, settled, worker, handed, revoked, transferVars>>

RelocationNext ==
    \E g \in Gens :
        \/ \E m \in Moves :
            \/ FreezeDrains(g, m)
            \/ FreezeInvalidates(g, m)
            \/ FreezeSeals(g, m)
            \/ PrepareImport(g, m)
            \/ Verify(g, m)
            \/ ActivateImport(g, m)
            \/ CleanupRows(g, m)
            \/ CleanupPages(g, m)
            \/ CleanupEnds(g, m)
        \/ \E segment \in 0..(Segments - 1) : Export(g, segment)

Next ==
    \/ StoreNext /\ UNCHANGED transferVars
    \/ RelocationNext
    \/ \E c \in chunks : ImportChunk(c)

Spec == Init /\ [][Next]_vars

\* The coordinator repeats its freeze call, the session objects their
\* reports, and a finalize request that claimed ends one way or the other.
\* The move is dated no earlier than the live records it invalidates.
Fairness ==
    /\ \A g \in Gens, m \in Moves : WF_vars(Freeze(g, m))
    /\ \A g \in Gens, s \in Sessions : WF_vars(SettleSession(g, s) /\ UNCHANGED transferVars)
    /\ \A w \in Workers : WF_vars((Commit(w) \/ WorkerFails(w)) /\ UNCHANGED transferVars)

FairSpec == Spec /\ Fairness

-----------------------------------------------------------------------------
(* What the wallet promises *)

\* Generations whose object would execute a signing request now.
Writers == {g \in Gens : MayExecute(g) /\ Open(g)}

\* The records, fences and workers are well formed.
TypeOK ==
    /\ \A g \in Gens, k \in Keys : Has(g, k) =>
        /\ k \in PoolKeys => rows[g][k] \in PoolRows
        /\ k \in EffectKeys => rows[g][k] \in EffectRows
        /\ k[1] \in {"ceremony", "session"} => rows[g][k] \in Gens
        /\ k[1] = "activation" => rows[g][k] = "active"
        /\ k[1] = "linked" => rows[g][k] \in {"inactive", "active", "revoked"}
    /\ authority \in [Gens -> {"none", "registration", "relocation", "empty"}]
    /\ fence \in [Gens -> [state : FenceStates, move : Moves \cup {NoMove},
                           passed : SUBSET Keys, next : 0..Segments]]
    /\ imported \in [Gens -> Moves \cup {NoMove}]
    /\ settled \in [Gens -> SUBSET Sessions]
    /\ \A w \in Workers : \/ worker[w] = Idle
                          \/ worker[w] \in [pc : {"loaded", "claimed"},
                                            request : Requests, gen : Gens]
    /\ handed \in [Requests -> Nat]
    /\ revoked \subseteq LinkedMaterials

(***************************************************************************)
(* Secret material reaches a request at most once, and of the requests     *)
(* that share an operation, an authorization or a presignature at most one *)
(* gets any, whatever workers, retries and generations do                  *)
(* (claim_and_consume_effect: "A retry of a claimed effect never consumes  *)
(* another presignature").                                                 *)
(***************************************************************************)
SingleExecution ==
    \A q, r \in Requests :
        /\ handed[q] <= 1
        /\ \/ q = r
           \/ ~(handed[q] > 0 /\ handed[r] > 0)
           \/ /\ OpOf[q] # OpOf[r]
              /\ AuthOf[q] # AuthOf[r]
              /\ PresigOf[q] # PresigOf[r]

(***************************************************************************)
(* At most one generation executes: a destination opens only after its     *)
(* source closed for good (require_execution_generation together with the  *)
(* relocation fence).                                                      *)
(***************************************************************************)
OneWriter == \A g, h \in Writers : g = h

(***************************************************************************)
(* A generation that executes knows every execution of the past, also      *)
(* those of earlier generations whose objects are deleted: the effect row  *)
(* that refuses a second run travelled with the wallet.                    *)
(***************************************************************************)
ExecutionsRemembered ==
    \A g \in Writers, q \in Requests :
        handed[q] > 0 =>
            /\ Has(g, EffectKey(OpOf[q])) /\ rows[g][EffectKey(OpOf[q])].request = q
            /\ Has(g, PoolKey(PresigOf[q]))
            /\ rows[g][PoolKey(PresigOf[q])] = [status |-> "used", owner |-> q]

(***************************************************************************)
(* The snapshot of a frozen source, sealed over many transactions, is      *)
(* exactly its records: no commit, claim or revocation slipped past a page *)
(* already written, and no live material or unfinished effect is exported  *)
(* (freeze_pool_for_relocation, seal_ecdsa_snapshot).                      *)
(***************************************************************************)
FrozenFaithful ==
    \A g \in Gens : fence[g].state = "frozen" =>
        /\ sealed[g] = rows[g]
        /\ \A k \in RowsOf(rows[g]) : MayRestore(g, k, rows[g][k])

(***************************************************************************)
(* Once a relocation fenced a source the object never admits writes again, *)
(* not even when an old activation of it is retried                        *)
(* (activate_ecdsa_import: "An exact retry must never remove a later       *)
(* move's source fence").                                                  *)
(***************************************************************************)
SourceStaysClosed ==
    [][\A g \in Gens :
        fence[g].state \in SourceStates => fence'[g].state \in SourceStates]_vars

(***************************************************************************)
(* No presignature is consumed for a linked device after its revocation,   *)
(* also by a worker that loaded the material before it and in generations  *)
(* that only imported the revocation (require_linked_material_unrevoked).  *)
(***************************************************************************)
RevocationFinal ==
    [][\A q \in Requests :
        handed'[q] # handed[q] => MaterialFor(q) \notin revoked]_vars

\* A pending effect whose worker is gone: nobody will commit it.
Orphaned(g, k) ==
    /\ k \in PendingEffects(g)
    /\ \A w \in Workers : ~(/\ worker[w].pc = "claimed"
                            /\ worker[w].gen = g
                            /\ worker[w].request = rows[g][k].request)

(***************************************************************************)
(* A source that starts draining gets sealed: late commits, linked session *)
(* reports and any number of batches cannot hold it up, only a claimed     *)
(* effect whose worker died (freeze_pool_for_relocation: Draining,         *)
(* Invalidating, Sealing, Frozen).                                         *)
(***************************************************************************)
DrainEnds ==
    \A g \in Gens :
        fence[g].state = "draining" ~>
            \/ fence[g].state = "frozen"
            \/ \E k \in EffectKeys : Orphaned(g, k)

(***************************************************************************)
(* A retry is answered InProgress only while the first attempt runs, as    *)
(* the comment on claim_and_consume_effect says: every effect without a    *)
(* terminal response has a worker that is still going to commit it.        *)
(***************************************************************************)
InProgressMeansRunning ==
    \A g \in Gens, k \in EffectKeys : ~Orphaned(g, k)

(***************************************************************************)
(* Across all generations the wallet's presignatures are one-use material: *)
(* the newest object that has a presignature's row tells its status.       *)
(* Copying, deleting and retrying are stuttering steps.                    *)
(***************************************************************************)
Holders(p) == {g \in Gens : Has(g, PoolKey(p))}

Newest(p) == CHOOSE g \in Holders(p) : \A h \in Holders(p) : h <= g

walletStatus == [p \in Presigs |->
    IF Holders(p) = {} THEN "none" ELSE rows[Newest(p)][PoolKey(p)].status]

walletOwner == [p \in Presigs |->
    IF Holders(p) = {} THEN NoRequest ELSE rows[Newest(p)][PoolKey(p)].owner]

WalletView == INSTANCE OneUseMaterial WITH
    Materials <- Presigs,
    Owners <- Requests,
    NoOwner <- NoRequest,
    status <- walletStatus,
    owner <- walletOwner

WalletIsOneUse == WalletView!Spec

=============================================================================
