----------------------- MODULE WalletExecutionProofs -----------------------
(***************************************************************************)
(* No presignature and no authorization is spent twice, whatever workers,  *)
(* retries, moves and deletions do, for every number of generations,       *)
(* requests and workers, every batch size and every delay of the network.  *)
(*                                                                         *)
(* The argument follows the wallet.  At any time one generation is its     *)
(* owner, the newest that was activated (Current); every older one is      *)
(* closed behind it (Owners).  Only the owner executes, so it is enough    *)
(* that the owner has a row of every execution and every revocation of     *)
(* the past (Knowledge), and that a new owner starts with all the old one  *)
(* had.  That holds because pages are written from records that no longer  *)
(* change, also not by the commit that passes the fence (Source), because  *)
(* every chunk still worth importing is of the source as it is frozen now, *)
(* and because the last batch of a restore completes it (Destination).     *)
(***************************************************************************)
EXTENDS WalletRelocation, FiniteSetTheorems, TLAPS

Arriving == {"prepared", "importing", "restoring", "verified"}
Filling == {"importing", "restoring", "verified"}
Closed == {"frozen", "cleaning", "cleaned"}
Sealing == {"sealing", "frozen", "cleaning", "cleaned"}

\* The newest generation that was activated.
Current(g) == Routed(g) /\ \A h \in Gens : h > g => imported[h] = NoMove

-----------------------------------------------------------------------------
(* Types *)

RowOk(k, row) ==
    /\ k \in PoolKeys => row \in PoolRows
    /\ k \in EffectKeys => row \in EffectRows
    /\ k[1] \in {"ceremony", "session"} => row \in Gens
    /\ k[1] = "activation" => row = "active"
    /\ k[1] = "linked" => row \in {"inactive", "active", "revoked"}

Table(t) ==
    /\ t = [k \in Keys |-> t[k]]
    /\ \A k \in Keys : t[k] # NoRow => RowOk(k, t[k])

TablesOf(f) == f = [g \in Gens |-> f[g]] /\ \A g \in Gens : Table(f[g])

Fence == [state : FenceStates, move : Moves \cup {NoMove},
          passed : SUBSET Keys, next : 0..Segments]

Finalizer == [pc : {"loaded", "claimed"}, request : Requests, gen : Gens] \cup {Idle}

Types ==
    /\ TablesOf(rows) /\ TablesOf(sealed) /\ TablesOf(staged) /\ TablesOf(receipt)
    /\ authority \in [Gens -> {"none", "registration", "relocation", "empty"}]
    /\ fence \in [Gens -> Fence]
    /\ imported \in [Gens -> Moves \cup {NoMove}]
    /\ settled \in [Gens -> SUBSET Sessions]
    /\ worker \in [Workers -> Finalizer]
    /\ handed \in [Requests -> Nat]
    /\ revoked \subseteq LinkedMaterials
    /\ \A c \in chunks : /\ c.gen \in Gens /\ c.move \in Moves \cup {NoMove}
                         /\ c.segment \in 0..(Segments - 1) /\ Table(c.digest)

-----------------------------------------------------------------------------
(* Who owns the wallet *)

AuthorityRouted == \A g \in Gens : authority[g] # "none" => Routed(g)
ArrivingNotRouted == \A g \in Gens : fence[g].state \in Arriving => ~Routed(g)
SourceRouted == \A g \in Gens : fence[g].state \in SourceStates => Routed(g)
ClosedBehind ==
    \A g, h \in Gens : Routed(h) /\ g < h => fence[g].state \in Closed
CleanedIsLeft ==
    \A g \in Gens : fence[g].state \in {"cleaning", "cleaned"} =>
        g + 1 \in Gens /\ imported[g + 1] # NoMove
HasCurrent == \E c \in Gens : Current(c)

Owners ==
    /\ AuthorityRouted
    /\ ArrivingNotRouted
    /\ SourceRouted
    /\ ClosedBehind
    /\ CleanedIsLeft
    /\ HasCurrent

-----------------------------------------------------------------------------
(* The source: what it seals *)

Terminal(row) == row.status \in {"used", "gone"}

\* Nothing of the table changes any more.
Quiet(t) ==
    /\ \A k \in PoolKeys : t[k] # NoRow => Terminal(t[k])
    /\ \A k \in EffectKeys : t[k] # NoRow => t[k].done

UnsealedEmpty ==
    \A g \in Gens : fence[g].state \notin Sealing => sealed[g] = EmptyTable
PassedTerminal ==
    \A g \in Gens :
        /\ fence[g].state \in {"none", "draining"} => fence[g].passed = {}
        /\ fence[g].state = "invalidating" =>
             \A k \in PoolKeys : k \in fence[g].passed /\ Has(g, k) => Terminal(rows[g][k])
SealedPrefix ==
    \A g \in Gens : fence[g].state = "sealing" =>
        \A k \in Keys : sealed[g][k] = IF k \in fence[g].passed THEN rows[g][k] ELSE NoRow
FrozenSealed ==
    \A g \in Gens : fence[g].state = "frozen" => sealed[g] = rows[g]
SealedQuiet ==
    \A g \in Gens : fence[g].state \in Sealing => Quiet(rows[g])
CeremoniesPast ==
    \A g \in Gens, p \in Presigs : Has(g, CeremonyKey(p)) => rows[g][CeremonyKey(p)] <= g

Source ==
    /\ UnsealedEmpty
    /\ PassedTerminal
    /\ SealedPrefix
    /\ FrozenSealed
    /\ SealedQuiet
    /\ CeremoniesPast

-----------------------------------------------------------------------------
(* The destination: what it restores *)

EmptyBefore ==
    \A g \in Gens : ~Routed(g) /\ fence[g].state \in {"none", "prepared", "importing"} =>
        rows[g] = EmptyTable
PreparedEmpty ==
    \A g \in Gens : fence[g].state = "prepared" => staged[g] = EmptyTable
ChunksOfFrozen ==
    \A c \in chunks : c.gen + 1 \in Gens /\ imported[c.gen + 1] = NoMove =>
        fence[c.gen].state = "frozen" /\ c.digest = sealed[c.gen]
ReceiptOfFrozen ==
    \A g \in Gens : fence[g].state \in Filling =>
        /\ g - 1 \in Gens /\ fence[g - 1].state = "frozen"
        /\ receipt[g] = sealed[g - 1]
        /\ \A k \in Keys : staged[g][k] \in {NoRow, receipt[g][k]}
RestoredPrefix ==
    \A g \in Gens :
        /\ fence[g].state = "importing" => fence[g].passed = {}
        /\ fence[g].state = "restoring" =>
             \A k \in Keys : rows[g][k] = IF k \in fence[g].passed THEN staged[g][k] ELSE NoRow
        /\ fence[g].state = "verified" => rows[g] = receipt[g]

Destination ==
    /\ EmptyBefore
    /\ PreparedEmpty
    /\ ChunksOfFrozen
    /\ ReceiptOfFrozen
    /\ RestoredPrefix

-----------------------------------------------------------------------------
(* What the owner knows *)

Executed(t) ==
    \A q \in Requests : handed[q] > 0 =>
        /\ t[EffectKey(OpOf[q])] # NoRow /\ t[EffectKey(OpOf[q])].request = q
        /\ t[PoolKey(PresigOf[q])] = [status |-> "used", owner |-> q]
Revoked(t) == \A m \in revoked : t[LinkedKey(m)] = "revoked"

CurrentKnows == \A g \in Gens : Current(g) => Executed(rows[g]) /\ Revoked(rows[g])
PoolInherited ==
    \A g, c \in Gens, k \in PoolKeys : Current(c) /\ g < c /\ Has(g, k) => Has(c, k)

Knowledge ==
    /\ CurrentKnows
    /\ PoolInherited
    /\ SingleExecution

ExecutionInv ==
    /\ Types
    /\ Owners
    /\ Source
    /\ Destination
    /\ Knowledge

-----------------------------------------------------------------------------
(* Keys, rows and batches *)

LEMMA KeyFacts ==
    /\ PoolKeys \subseteq Keys /\ EffectKeys \subseteq Keys
    /\ \A k \in PoolKeys : k[1] = "pool"
    /\ \A k \in EffectKeys : k[1] = "effect"
    /\ \A p \in Presigs : /\ PoolKey(p) \in PoolKeys /\ CeremonyKey(p) \in Keys
                          /\ CeremonyKey(p)[1] = "ceremony"
    /\ \A q \in Requests : /\ EffectKey(OpOf[q]) \in EffectKeys
                           /\ PoolKey(PresigOf[q]) \in PoolKeys
    /\ \A m \in OwnMaterials : ActivationKey(m) \in Keys /\ ActivationKey(m)[1] = "activation"
    /\ \A m \in LinkedMaterials : LinkedKey(m) \in Keys /\ LinkedKey(m)[1] = "linked"
    /\ \A s \in Sessions : SessionKey(s) \in Keys /\ SessionKey(s)[1] = "session"
    /\ \A k \in Keys : k[1] = "ceremony" => \E p \in Presigs : k = CeremonyKey(p)
    /\ \A k \in Keys : k[1] = "pool" => k \in PoolKeys
    /\ \A k \in Keys : k[1] = "effect" => k \in EffectKeys
BY StoreAssumption
DEF Keys, PoolKeys, EffectKeys, SessionKeys, PoolKey, EffectKey, SessionKey, CeremonyKey,
    ActivationKey, LinkedKey, Ops

LEMMA GenFacts == \A g \in Gens : g \in Nat /\ g >= 1 /\ (g > 1 => g - 1 \in Gens)
BY StoreAssumption DEF Gens

\* A batch that is not full is everything that remained.
LEMMA LastBatch ==
    ASSUME NEW R \in SUBSET Keys, NEW S \in Batches(R), IsLast(S)
    PROVE  S = R
<1>1. IsFiniteSet(R)
  BY RowAssumption, FS_Subset
<1>2. Cardinality(R) \in Nat /\ S \in SUBSET R
  BY <1>1, FS_CardinalityType DEF Batches
<1>3. Cardinality(S) = Cardinality(R)
  BY <1>2, RelocationAssumption DEF Batches, IsLast
<1> QED BY <1>1, <1>2, <1>3, FS_Subset

\* A row is written.
LEMMA InsertRow ==
    ASSUME TablesOf(rows), NEW g \in Gens, NEW k \in Keys, NEW row, RowOk(k, row),
           Insert(g, k, row)
    PROVE  /\ TablesOf(rows)'
           /\ \A h \in Gens : h # g => rows'[h] = rows[h]
           /\ \A j \in Keys : rows'[g][j] = IF j = k THEN row ELSE rows[g][j]
<1>1. /\ rows' = [h \in Gens |-> rows'[h]]
      /\ \A h \in Gens : h # g => rows'[h] = rows[h]
      /\ rows'[g] = [rows[g] EXCEPT ![k] = row]
  BY DEF Insert, TablesOf
<1>2. rows[g] = [j \in Keys |-> rows[g][j]]
  BY DEF TablesOf, Table
<1>3. /\ rows'[g] = [j \in Keys |-> rows'[g][j]]
      /\ \A j \in Keys : rows'[g][j] = IF j = k THEN row ELSE rows[g][j]
  BY <1>1, <1>2
<1>4. \A h \in Gens : Table(rows'[h])
  BY <1>1, <1>3 DEF TablesOf, Table
<1> QED BY <1>1, <1>3, <1>4 DEF TablesOf, Gens

-----------------------------------------------------------------------------
(* Owners *)

USE DEF Has, Open, Routed, PendingEffects

LEMMA WorkingIsCurrent ==
    ASSUME Owners, NEW g \in Gens, Routed(g), fence[g].state \notin Closed
    PROVE  Current(g)
BY GenFacts DEF Owners, ClosedBehind, Current

LEMMA OneCurrent ==
    ASSUME NEW g \in Gens, NEW h \in Gens, Current(g), Current(h) PROVE g = h
<1>1. g \in Nat /\ h \in Nat /\ g >= 1 /\ h >= 1
  BY GenFacts
<1>2. ~(g < h) /\ ~(h < g)
  BY <1>1 DEF Current
<1> QED BY <1>1, <1>2

\* Rows exist only where the wallet is, was, or is being restored.
LEMMA OpenWithRowIsRouted ==
    ASSUME Destination, NEW g \in Gens, NEW k \in Keys, Open(g), Has(g, k)
    PROVE  Routed(g)
BY DEF Destination, EmptyBefore, EmptyTable

\* A transaction of the store at g, the owner, before its records are sealed.
LEMMA WorkStep ==
    ASSUME ExecutionInv, NEW g \in Gens, Routed(g),
           fence[g].state \in {"none", "draining", "invalidating"},
           TablesOf(rows)',
           \A h \in Gens : h # g => rows'[h] = rows[h],
           \A k \in PoolKeys : fence[g].state # "none" => rows'[g][k] = rows[g][k],
           \A k \in PoolKeys : rows[g][k] # NoRow => rows'[g][k] # NoRow,
           \A p \in Presigs : rows'[g][CeremonyKey(p)] # NoRow => rows'[g][CeremonyKey(p)] <= g,
           Executed(rows[g]) /\ Revoked(rows[g]) => Executed(rows[g])' /\ Revoked(rows[g])',
           authority' \in [Gens -> {"none", "registration", "relocation", "empty"}],
           AuthorityRouted',
           worker' \in [Workers -> Finalizer],
           handed' \in [Requests -> Nat],
           revoked' \subseteq LinkedMaterials,
           SingleExecution',
           UNCHANGED <<fence, imported, settled, transferVars>>
    PROVE  ExecutionInv'
<1> USE DEF ExecutionInv
<1>1. Types'
  BY DEF Types, transferVars, TablesOf, Table
<1>2. ArrivingNotRouted' /\ SourceRouted' /\ ClosedBehind' /\ CleanedIsLeft' /\ HasCurrent'
  BY DEF Owners, ArrivingNotRouted, SourceRouted, ClosedBehind, CleanedIsLeft, HasCurrent, Current
<1>3. Owners'
  BY <1>2 DEF Owners
<1>4. UnsealedEmpty' /\ SealedPrefix' /\ FrozenSealed' /\ SealedQuiet'
  BY DEF Source, UnsealedEmpty, SealedPrefix, FrozenSealed, SealedQuiet, transferVars, Sealing
<1>5. PassedTerminal'
  BY DEF Source, PassedTerminal
<1>6. CeremoniesPast'
  BY DEF Source, CeremoniesPast
<1>7. Source'
  BY <1>4, <1>5, <1>6 DEF Source
<1>8. Destination'
  <2>1. EmptyBefore' /\ RestoredPrefix'
    BY DEF Destination, EmptyBefore, RestoredPrefix, transferVars
  <2>2. PreparedEmpty' /\ ChunksOfFrozen' /\ ReceiptOfFrozen'
    BY DEF Destination, PreparedEmpty, ChunksOfFrozen, ReceiptOfFrozen, transferVars
  <2> QED BY <2>1, <2>2 DEF Destination
<1>9. Current(g) /\ \A h \in Gens : Current(h)' => h = g
  BY WorkingIsCurrent, OneCurrent DEF Current, Closed
<1>10. CurrentKnows'
  BY <1>9 DEF Knowledge, CurrentKnows
<1>11. PoolInherited'
  BY <1>9, GenFacts DEF Knowledge, PoolInherited
<1> QED BY <1>1, <1>3, <1>7, <1>8, <1>10, <1>11 DEF Knowledge

\* A transaction that writes one row and hands out nothing.
LEMMA InsertStep ==
    ASSUME ExecutionInv, NEW g \in Gens, Routed(g),
           fence[g].state \in {"none", "draining", "invalidating"},
           NEW k \in Keys, NEW row, RowOk(k, row), row # NoRow, Insert(g, k, row),
           k \in PoolKeys => /\ fence[g].state = "none"
                             /\ rows[g][k] # NoRow => rows[g][k].status # "used",
           k \in EffectKeys => rows[g][k] # NoRow /\ row.request = rows[g][k].request,
           k[1] = "ceremony" => row <= g,
           k[1] = "linked" => rows[g][k] # "revoked",
           \A m \in revoked' : m \in revoked \/ (k = LinkedKey(m) /\ row = "revoked"),
           revoked' \subseteq LinkedMaterials,
           authority' \in [Gens -> {"none", "registration", "relocation", "empty"}],
           AuthorityRouted',
           worker' \in [Workers -> Finalizer],
           UNCHANGED <<handed, fence, imported, settled, transferVars>>
    PROVE  ExecutionInv'
<1>1. /\ TablesOf(rows)'
      /\ \A h \in Gens : h # g => rows'[h] = rows[h]
      /\ \A j \in Keys : rows'[g][j] = IF j = k THEN row ELSE rows[g][j]
  BY InsertRow DEF ExecutionInv, Types
<1>2. \A j \in PoolKeys : /\ fence[g].state # "none" => rows'[g][j] = rows[g][j]
                          /\ rows[g][j] # NoRow => rows'[g][j] # NoRow
  BY <1>1, KeyFacts
<1>3. \A p \in Presigs : rows'[g][CeremonyKey(p)] # NoRow => rows'[g][CeremonyKey(p)] <= g
  BY <1>1, KeyFacts DEF ExecutionInv, Source, CeremoniesPast
<1>4. ASSUME Executed(rows[g]) PROVE Executed(rows[g])'
  <2> SUFFICES ASSUME NEW q \in Requests, handed[q] > 0
               PROVE  /\ rows'[g][EffectKey(OpOf[q])] # NoRow
                      /\ rows'[g][EffectKey(OpOf[q])].request = q
                      /\ rows'[g][PoolKey(PresigOf[q])] = [status |-> "used", owner |-> q]
    BY DEF Executed
  <2>1. /\ rows[g][EffectKey(OpOf[q])] # NoRow
        /\ rows[g][EffectKey(OpOf[q])].request = q
        /\ rows[g][PoolKey(PresigOf[q])] = [status |-> "used", owner |-> q]
    BY <1>4 DEF Executed
  <2>2. PoolKey(PresigOf[q]) # k
    <3>1. [status |-> "used", owner |-> q] \in PoolRows
      BY DEF PoolRows
    <3> QED BY <2>1, <3>1, KeyFacts, RowAssumption
  <2> QED BY <1>1, <2>1, <2>2, KeyFacts
<1>5. ASSUME Revoked(rows[g]) PROVE Revoked(rows[g])'
  <2> SUFFICES ASSUME NEW m \in revoked' PROVE rows'[g][LinkedKey(m)] = "revoked"
    BY DEF Revoked
  <2>1. LinkedKey(m) \in Keys /\ LinkedKey(m)[1] = "linked"
    BY KeyFacts
  <2>2. CASE k = LinkedKey(m) /\ row = "revoked"
    BY <1>1, <2>1, <2>2
  <2>3. CASE m \in revoked
    BY <1>1, <1>5, <2>1, <2>3 DEF Revoked
  <2> QED BY <2>2, <2>3
<1>6. SingleExecution' /\ handed' \in [Requests -> Nat]
  BY DEF ExecutionInv, Knowledge, SingleExecution, Types
<1> QED BY <1>1, <1>2, <1>3, <1>4, <1>5, <1>6, WorkStep

\* A row of each family.
LEMMA RowShapes ==
    /\ \A k \in PoolKeys, st \in {"held", "bound", "used", "gone"},
          r \in Requests \cup {NoRequest} :
            /\ RowOk(k, [status |-> st, owner |-> r]) /\ [status |-> st, owner |-> r] # NoRow
    /\ \A k \in EffectKeys, r \in Requests, g \in Gens, d \in BOOLEAN :
            /\ RowOk(k, [request |-> r, gen |-> g, done |-> d])
            /\ [request |-> r, gen |-> g, done |-> d] # NoRow
    /\ \A p \in Presigs, g \in Gens : RowOk(CeremonyKey(p), g) /\ g # NoRow
    /\ \A s \in Sessions, g \in Gens : RowOk(SessionKey(s), g) /\ g # NoRow
    /\ \A m \in OwnMaterials : RowOk(ActivationKey(m), "active")
    /\ \A m \in LinkedMaterials, st \in {"inactive", "active", "revoked"} :
            RowOk(LinkedKey(m), st)
    /\ NoRow \notin {"inactive", "active", "revoked"}
<1>1. \A st \in {"held", "bound", "used", "gone"}, r \in Requests \cup {NoRequest} :
        [status |-> st, owner |-> r] \in PoolRows
  BY DEF PoolRows
<1>2. \A r \in Requests, g \in Gens, d \in BOOLEAN :
        [request |-> r, gen |-> g, done |-> d] \in EffectRows
  BY DEF EffectRows
<1> QED BY <1>1, <1>2, KeyFacts, RowAssumption DEF RowOk

\* The same, when only the rows change.
LEMMA InsertOnly ==
    ASSUME ExecutionInv, NEW g \in Gens, Routed(g), Open(g),
           NEW k \in Keys, NEW row, RowOk(k, row), row # NoRow, Insert(g, k, row),
           k \notin EffectKeys,
           k \in PoolKeys => (rows[g][k] # NoRow => rows[g][k].status # "used"),
           k[1] = "ceremony" => row <= g,
           k[1] = "linked" => rows[g][k] # "revoked",
           UNCHANGED <<authority, worker, handed, revoked, fence, imported, settled,
                       transferVars>>
    PROVE  ExecutionInv'
<1>1. /\ authority' \in [Gens -> {"none", "registration", "relocation", "empty"}]
      /\ AuthorityRouted'
      /\ worker' \in [Workers -> Finalizer]
      /\ revoked' \subseteq LinkedMaterials
  BY DEF ExecutionInv, Types, Owners, AuthorityRouted
<1> QED BY <1>1, InsertStep

\* Where a generation may execute, the wallet was activated.
LEMMA ExecutingIsRouted ==
    ASSUME ExecutionInv, NEW g \in Gens, authority[g] # "none" PROVE Routed(g)
BY DEF ExecutionInv, Owners, AuthorityRouted

\* The parts of the store that make the wallet and its presignatures.
LEMMA MakingKeeps ==
    ASSUME ExecutionInv, UNCHANGED transferVars, NEW g \in Gens,
           \/ \E m \in OwnMaterials : Register(g, m)
           \/ \E p \in Presigs : StartCeremony(g, p) \/ Publish(g, p)
           \/ \E q \in Requests : Prepare(g, q) \/ BurnReservation(g, q)
    PROVE  ExecutionInv'
<1>1. ASSUME NEW m \in OwnMaterials, Register(g, m) PROVE ExecutionInv'
  <2>1. /\ Routed(g) /\ Open(g) /\ Insert(g, ActivationKey(m), "active")
        /\ authority' = [authority EXCEPT ![g] = IF @ = "none" THEN "registration" ELSE @]
        /\ UNCHANGED <<fence, imported, settled, worker, handed, revoked>>
    BY <1>1 DEF Register
  <2>2. /\ authority' \in [Gens -> {"none", "registration", "relocation", "empty"}]
        /\ AuthorityRouted'
        /\ worker' \in [Workers -> Finalizer]
        /\ revoked' \subseteq LinkedMaterials
    BY <2>1 DEF ExecutionInv, Types, Owners, AuthorityRouted
  <2>3. /\ ActivationKey(m) \in Keys /\ ActivationKey(m)[1] = "activation"
        /\ ActivationKey(m) \notin PoolKeys /\ ActivationKey(m) \notin EffectKeys
    BY KeyFacts
  <2>4. RowOk(ActivationKey(m), "active") /\ "active" # NoRow
    BY RowShapes
  <2> QED BY <2>1, <2>2, <2>3, <2>4, InsertStep
<1>2. ASSUME NEW p \in Presigs, StartCeremony(g, p) PROVE ExecutionInv'
  <2>1. /\ Routed(g) /\ Open(g) /\ Insert(g, CeremonyKey(p), g)
        /\ UNCHANGED <<authority, fence, imported, settled, worker, handed, revoked>>
    BY <1>2, ExecutingIsRouted DEF StartCeremony
  <2>2. /\ CeremonyKey(p) \in Keys /\ CeremonyKey(p)[1] = "ceremony" /\ g <= g
        /\ CeremonyKey(p) \notin PoolKeys /\ CeremonyKey(p) \notin EffectKeys
    BY KeyFacts, GenFacts
  <2>3. RowOk(CeremonyKey(p), g) /\ g # NoRow
    BY RowShapes
  <2> QED BY <2>1, <2>2, <2>3, InsertOnly
<1>3. ASSUME NEW p \in Presigs, Publish(g, p) PROVE ExecutionInv'
  <2> DEFINE row == [status |-> "held", owner |-> NoRequest]
  <2>1. /\ Routed(g) /\ Open(g) /\ Insert(g, PoolKey(p), row) /\ rows[g][PoolKey(p)] = NoRow
        /\ UNCHANGED <<authority, fence, imported, settled, worker, handed, revoked>>
    BY <1>3, ExecutingIsRouted DEF Publish, MayExecute
  <2>2. /\ PoolKey(p) \in PoolKeys /\ PoolKey(p) \in Keys /\ PoolKey(p)[1] = "pool"
        /\ PoolKey(p) \notin EffectKeys
    BY KeyFacts
  <2>3. RowOk(PoolKey(p), row) /\ row # NoRow
    BY <2>2, RowShapes
  <2> QED BY <2>1, <2>2, <2>3, InsertOnly
<1>4. ASSUME NEW q \in Requests, Prepare(g, q) \/ BurnReservation(g, q) PROVE ExecutionInv'
  <2> DEFINE k == PoolKey(PresigOf[q])
  <2>1. /\ Open(g) /\ rows[g][k].status # "used" /\ k \in PoolKeys
        /\ Has(g, k)
        /\ UNCHANGED <<authority, fence, imported, settled, worker, handed, revoked>>
    <3>1. k \in PoolKeys
      BY KeyFacts
    <3>2. \A r \in Requests \cup {NoRequest} : /\ [status |-> "held", owner |-> r] # NoRow
                                               /\ [status |-> "bound", owner |-> r] # NoRow
      BY <3>1, RowShapes
    <3> QED BY <1>4, <3>1, <3>2 DEF Prepare, BurnReservation
  <2>2. /\ k \in Keys /\ k[1] = "pool" /\ k \notin EffectKeys
    BY <2>1, KeyFacts
  <2>3. PICK st \in {"bound", "gone"} : Insert(g, k, [status |-> st, owner |-> q])
    BY <1>4 DEF Prepare, BurnReservation
  <2>4. RowOk(k, [status |-> st, owner |-> q]) /\ [status |-> st, owner |-> q] # NoRow
    BY <2>1, RowShapes
  <2>5. Routed(g)
    BY <2>1, <2>2, OpenWithRowIsRouted DEF ExecutionInv
  <2> HIDE DEF k
  <2> QED BY <2>1, <2>2, <2>3, <2>4, <2>5, InsertOnly
<1> QED BY <1>1, <1>2, <1>3, <1>4

\* Linked devices and their sessions.
LEMMA LinkedKeeps ==
    ASSUME ExecutionInv, UNCHANGED transferVars, NEW g \in Gens,
           \/ \E m \in LinkedMaterials :
                \/ \E source \in Materials \ {m} : ReserveLinked(g, m, source)
                \/ ActivateLinked(g, m) \/ DeactivateLinked(g, m)
           \/ \E s \in Sessions : RegisterSession(g, s)
    PROVE  ExecutionInv'
<1>1. ASSUME NEW m \in LinkedMaterials, NEW source \in Materials \ {m},
             ReserveLinked(g, m, source)
      PROVE  ExecutionInv'
  <2>1. /\ Open(g) /\ rows[g][LinkedKey(m)] = NoRow /\ Insert(g, LinkedKey(m), "inactive")
        /\ MaterialActive(g, source)
        /\ UNCHANGED <<authority, fence, imported, settled, worker, handed, revoked>>
    BY <1>1 DEF ReserveLinked
  <2>2. \E k \in Keys : Has(g, k)
    BY <2>1, KeyFacts, RowShapes DEF MaterialActive, Materials
  <2>3. Routed(g)
    BY <2>1, <2>2, OpenWithRowIsRouted DEF ExecutionInv
  <2>4. /\ LinkedKey(m) \in Keys /\ LinkedKey(m)[1] = "linked"
        /\ LinkedKey(m) \notin PoolKeys /\ LinkedKey(m) \notin EffectKeys
    BY KeyFacts
  <2>5. RowOk(LinkedKey(m), "inactive") /\ "inactive" # NoRow /\ "revoked" # NoRow
    BY RowShapes
  <2> QED BY <2>1, <2>3, <2>4, <2>5, InsertOnly
<1>2. ASSUME NEW m \in LinkedMaterials, ActivateLinked(g, m) PROVE ExecutionInv'
  <2>1. /\ Open(g) /\ rows[g][LinkedKey(m)] = "inactive" /\ Insert(g, LinkedKey(m), "active")
        /\ UNCHANGED <<authority, fence, imported, settled, worker, handed, revoked>>
    BY <1>2 DEF ActivateLinked
  <2>2. /\ LinkedKey(m) \in Keys /\ LinkedKey(m)[1] = "linked"
        /\ LinkedKey(m) \notin PoolKeys /\ LinkedKey(m) \notin EffectKeys
    BY KeyFacts
  <2>3. RowOk(LinkedKey(m), "active") /\ "active" # NoRow /\ "inactive" # NoRow
    BY RowShapes
  <2>4. Routed(g)
    BY <2>1, <2>2, <2>3, OpenWithRowIsRouted DEF ExecutionInv
  <2> QED BY <2>1, <2>2, <2>3, <2>4, InsertOnly
<1>3. ASSUME NEW m \in LinkedMaterials, DeactivateLinked(g, m) PROVE ExecutionInv'
  <2>1. /\ Open(g) /\ rows[g][LinkedKey(m)] \in {"inactive", "active"}
        /\ Insert(g, LinkedKey(m), "revoked")
        /\ revoked' = revoked \cup {m}
        /\ UNCHANGED <<authority, fence, imported, settled, worker, handed>>
    BY <1>3 DEF DeactivateLinked
  <2>2. /\ LinkedKey(m) \in Keys /\ LinkedKey(m)[1] = "linked"
        /\ LinkedKey(m) \notin PoolKeys /\ LinkedKey(m) \notin EffectKeys
    BY KeyFacts
  <2>3. /\ RowOk(LinkedKey(m), "revoked") /\ "active" # NoRow /\ "inactive" # NoRow
        /\ "revoked" # NoRow
    BY RowShapes
  <2>4. Routed(g)
    BY <2>1, <2>2, <2>3, OpenWithRowIsRouted DEF ExecutionInv
  <2>5. /\ authority' \in [Gens -> {"none", "registration", "relocation", "empty"}]
        /\ AuthorityRouted'
        /\ worker' \in [Workers -> Finalizer]
        /\ revoked' \subseteq LinkedMaterials
    BY <2>1 DEF ExecutionInv, Types, Owners, AuthorityRouted
  <2> QED BY <2>1, <2>2, <2>3, <2>4, <2>5, InsertStep
<1>4. ASSUME NEW s \in Sessions, RegisterSession(g, s) PROVE ExecutionInv'
  <2>1. /\ Routed(g) /\ Open(g) /\ Insert(g, SessionKey(s), g)
        /\ UNCHANGED <<authority, fence, imported, settled, worker, handed, revoked>>
    BY <1>4, ExecutingIsRouted DEF RegisterSession
  <2>2. /\ SessionKey(s) \in Keys /\ SessionKey(s)[1] = "session"
        /\ SessionKey(s) \notin PoolKeys /\ SessionKey(s) \notin EffectKeys
    BY KeyFacts
  <2>3. RowOk(SessionKey(s), g) /\ g # NoRow
    BY RowShapes
  <2> QED BY <2>1, <2>2, <2>3, InsertOnly
<1> QED BY <1>1, <1>2, <1>3, <1>4

-----------------------------------------------------------------------------
(* Workers *)

\* Steps of a worker or a session that leave every object's records alone.
LEMMA QuietKeeps ==
    ASSUME ExecutionInv,
           UNCHANGED <<rows, authority, fence, imported, handed, revoked, transferVars>>,
           worker' \in [Workers -> Finalizer],
           settled' \in [Gens -> SUBSET Sessions]
    PROVE  ExecutionInv'
<1> USE DEF ExecutionInv, transferVars
<1>1. Types'
  BY DEF Types, TablesOf, Table
<1>2. Owners'
  BY DEF Owners, AuthorityRouted, ArrivingNotRouted, SourceRouted, ClosedBehind,
         CleanedIsLeft, HasCurrent, Current
<1>3. Source'
  BY DEF Source, UnsealedEmpty, PassedTerminal, SealedPrefix, FrozenSealed, SealedQuiet,
         CeremoniesPast, Quiet
<1>4. Destination'
  BY DEF Destination, EmptyBefore, PreparedEmpty, ChunksOfFrozen, ReceiptOfFrozen,
         RestoredPrefix
<1>5. Knowledge'
  BY DEF Knowledge, CurrentKnows, Executed, Revoked, PoolInherited, Current, SingleExecution
<1> QED BY <1>1, <1>2, <1>3, <1>4, <1>5

LEMMA WorkerShape ==
    ASSUME ExecutionInv, NEW w \in Workers, worker[w].pc \in {"loaded", "claimed"}
    PROVE  /\ worker[w].request \in Requests /\ worker[w].gen \in Gens
           /\ [worker EXCEPT ![w] = Idle] \in [Workers -> Finalizer]
           /\ [worker EXCEPT ![w].pc = "claimed"] \in [Workers -> Finalizer]
<1>1. worker[w] \in Finalizer /\ worker \in [Workers -> Finalizer]
  BY DEF ExecutionInv, Types
<1>2. worker[w] \in [pc : {"loaded", "claimed"}, request : Requests, gen : Gens]
  BY <1>1 DEF Finalizer, Idle
<1>3. [worker[w] EXCEPT !.pc = "claimed"] \in Finalizer /\ Idle \in Finalizer
  BY <1>2 DEF Finalizer
<1> QED BY <1>1, <1>2, <1>3

\* The claim: the presignature is used and its effect recorded in one step,
\* and nothing that ran before shares a key with it.
LEMMA ClaimKeeps ==
    ASSUME ExecutionInv, UNCHANGED transferVars, NEW w \in Workers, Claim(w),
           NEW q \in Requests, q = worker[w].request, NEW g \in Gens, g = worker[w].gen
    PROVE  ExecutionInv'
<1> DEFINE k == PoolKey(PresigOf[q])
           e == EffectKey(OpOf[q])
           used == [status |-> "used", owner |-> q]
           effect == [request |-> q, gen |-> g, done |-> FALSE]
<1>1. /\ k \in PoolKeys /\ k \in Keys /\ k \notin EffectKeys
      /\ e \in EffectKeys /\ e \in Keys /\ e \notin PoolKeys
      /\ worker' \in [Workers -> Finalizer]
  BY WorkerShape, KeyFacts DEF Claim
<1>2. /\ PriorEffects(g, q) = {} /\ authority[g] # "none" /\ Open(g)
      /\ Has(g, k) /\ rows[g][k].status = "bound"
      /\ rows' = ClaimedRows(g, q)
      /\ handed' = [handed EXCEPT ![q] = @ + 1]
      /\ UNCHANGED <<authority, fence, imported, settled, revoked>>
  BY DEF Claim, ClaimAdmitted, MayExecute
<1>3. Routed(g) /\ Current(g) /\ Executed(rows[g]) /\ Revoked(rows[g])
  <2>1. Routed(g)
    BY <1>1, <1>2, ExecutingIsRouted
  <2>2. Current(g)
    BY <1>1, <1>2, <2>1, WorkingIsCurrent DEF ExecutionInv, Closed
  <2> QED BY <1>1, <2>1, <2>2 DEF ExecutionInv, Knowledge, CurrentKnows
<1>4. /\ RowOk(k, used) /\ used # NoRow /\ RowOk(e, effect) /\ effect # NoRow
  BY <1>1, RowShapes
<1> HIDE DEF k, e, used, effect
<1>5. /\ rows' = [h \in Gens |-> rows'[h]]
      /\ \A h \in Gens : h # g => rows'[h] = rows[h]
      /\ rows'[g] = [[rows[g] EXCEPT ![k] = used] EXCEPT ![e] = effect]
  BY <1>1, <1>2 DEF ClaimedRows, ExecutionInv, Types, TablesOf, k, e, used, effect
<1>6. /\ rows'[g] = [j \in Keys |-> rows'[g][j]]
      /\ \A j \in Keys : rows'[g][j] = IF j = e THEN effect ELSE IF j = k THEN used ELSE rows[g][j]
  <2>1. rows[g] = [j \in Keys |-> rows[g][j]]
    BY <1>1 DEF ExecutionInv, Types, TablesOf, Table
  <2> QED BY <1>1, <1>5, <2>1
<1>7. TablesOf(rows)'
  <2>1. \A j \in Keys : rows'[g][j] # NoRow => RowOk(j, rows'[g][j])
    BY <1>1, <1>4, <1>6 DEF ExecutionInv, Types, TablesOf, Table
  <2>2. \A h \in Gens : Table(rows[h])
    BY DEF ExecutionInv, Types, TablesOf
  <2>3. Table(rows'[g])
    BY <1>6, <2>1 DEF Table
  <2>4. \A h \in Gens : Table(rows'[h])
    BY <1>5, <2>2, <2>3
  <2> QED BY <1>5, <2>4 DEF TablesOf, Gens
<1>8. \A j \in PoolKeys : rows[g][j] # NoRow => rows'[g][j] # NoRow
  BY <1>1, <1>4, <1>6, KeyFacts
<1>9. \A p \in Presigs : rows'[g][CeremonyKey(p)] # NoRow => rows'[g][CeremonyKey(p)] <= g
  BY <1>1, <1>6, KeyFacts DEF ExecutionInv, Source, CeremoniesPast
\* Whoever was handed material before has another operation, authorization
\* and presignature.
<1>10. \A r \in Requests : handed[r] > 0 =>
         /\ r # q /\ OpOf[r] # OpOf[q] /\ AuthOf[r] # AuthOf[q] /\ PresigOf[r] # PresigOf[q]
  <2> SUFFICES ASSUME NEW r \in Requests, handed[r] > 0
               PROVE  /\ OpOf[r] # OpOf[q] /\ AuthOf[r] # AuthOf[q]
                      /\ PresigOf[r] # PresigOf[q]
    OBVIOUS
  <2>1. /\ Has(g, EffectKey(OpOf[r])) /\ rows[g][EffectKey(OpOf[r])].request = r
        /\ rows[g][PoolKey(PresigOf[r])] = [status |-> "used", owner |-> r]
    BY <1>3 DEF Executed
  <2>2. OpOf[r] \in Ops /\ OpOf[r] \notin PriorEffects(g, q)
    BY <1>2 DEF Ops
  <2> QED BY <1>2, <2>1, <2>2 DEF PriorEffects, k
<1>11. /\ handed' \in [Requests -> Nat]
       /\ \A r \in Requests : handed'[r] = IF r = q THEN 1 ELSE handed[r]
  <2>1. handed \in [Requests -> Nat]
    BY DEF ExecutionInv, Types
  <2>2. handed[q] = 0
    BY <1>1, <1>10, <2>1
  <2> QED BY <1>1, <1>2, <2>1, <2>2
<1>12. Executed(rows[g])'
  <2> SUFFICES ASSUME NEW r \in Requests, handed'[r] > 0
               PROVE  /\ rows'[g][EffectKey(OpOf[r])] # NoRow
                      /\ rows'[g][EffectKey(OpOf[r])].request = r
                      /\ rows'[g][PoolKey(PresigOf[r])] = [status |-> "used", owner |-> r]
    BY DEF Executed
  <2>1. CASE r = q
    BY <1>1, <1>4, <1>6, <2>1 DEF k, e, used, effect
  <2>2. CASE r # q
    <3>1. /\ OpOf[r] # OpOf[q] /\ PresigOf[r] # PresigOf[q]
          /\ rows[g][EffectKey(OpOf[r])] # NoRow
          /\ rows[g][EffectKey(OpOf[r])].request = r
          /\ rows[g][PoolKey(PresigOf[r])] = [status |-> "used", owner |-> r]
      BY <1>3, <1>10, <1>11, <2>2 DEF Executed
    <3>2. EffectKey(OpOf[r]) # e /\ PoolKey(PresigOf[r]) # k
      BY <3>1 DEF EffectKey, PoolKey, e, k
    <3> QED BY <1>1, <1>6, <3>1, <3>2, KeyFacts
  <2> QED BY <2>1, <2>2
<1>13. Revoked(rows[g])'
  <2>1. \A m \in revoked : LinkedKey(m) \in Keys /\ LinkedKey(m) # k /\ LinkedKey(m) # e
    BY <1>1, KeyFacts DEF ExecutionInv, Types
  <2> QED BY <1>2, <1>3, <1>6, <2>1 DEF Revoked
<1>14. SingleExecution'
  <2>1. handed \in [Requests -> Nat]
    BY DEF ExecutionInv, Types
  <2> QED BY <1>10, <1>11, <2>1 DEF SingleExecution, ExecutionInv, Knowledge
<1>15. AuthorityRouted' /\ UNCHANGED <<authority, fence, imported, settled, revoked>>
       /\ fence[g].state = "none"
  BY <1>2 DEF ExecutionInv, Owners, AuthorityRouted
<1>16. /\ authority' \in [Gens -> {"none", "registration", "relocation", "empty"}]
       /\ revoked' \subseteq LinkedMaterials
  BY <1>15 DEF ExecutionInv, Types
<1> QED BY <1>1, <1>3, <1>5, <1>7, <1>8, <1>9, <1>11, <1>12, <1>13, <1>14, <1>15, <1>16, WorkStep

LEMMA ClaimBurnsKeeps ==
    ASSUME ExecutionInv, UNCHANGED transferVars, NEW w \in Workers, ClaimBurns(w),
           NEW q \in Requests, q = worker[w].request, NEW g \in Gens, g = worker[w].gen
    PROVE  ExecutionInv'
<1> DEFINE k == PoolKey(PresigOf[q])
           o == rows[g][k].owner
           row == [status |-> "gone", owner |-> o]
<1>1. /\ k \in PoolKeys /\ k \in Keys /\ k[1] = "pool" /\ k \notin EffectKeys
      /\ worker' \in [Workers -> Finalizer]
  BY WorkerShape, KeyFacts DEF ClaimBurns
<1>2. /\ authority[g] # "none" /\ Open(g)
      /\ Has(g, k) /\ rows[g][k].status = "bound"
      /\ Insert(g, k, row)
      /\ UNCHANGED <<authority, fence, imported, settled, handed, revoked>>
  BY DEF ClaimBurns, ClaimAdmitted, MayExecute
<1>3. Routed(g)
  BY <1>2, ExecutingIsRouted
<1>4. o \in Requests \cup {NoRequest}
  BY <1>1, <1>2 DEF ExecutionInv, Types, TablesOf, Table, RowOk, PoolRows
<1>5. RowOk(k, row) /\ row # NoRow
  BY <1>1, <1>4, RowShapes
<1>6. /\ AuthorityRouted'
      /\ authority' \in [Gens -> {"none", "registration", "relocation", "empty"}]
      /\ revoked' \subseteq LinkedMaterials
  BY <1>2 DEF ExecutionInv, Types, Owners, AuthorityRouted
<1> HIDE DEF k, row
<1> QED BY <1>1, <1>2, <1>3, <1>5, <1>6, InsertStep

\* The commit passes a fence, but never one behind which pages are written.
LEMMA CommitKeeps ==
    ASSUME ExecutionInv, UNCHANGED transferVars, NEW w \in Workers, Commit(w),
           NEW q \in Requests, q = worker[w].request, NEW g \in Gens, g = worker[w].gen
    PROVE  ExecutionInv'
<1> DEFINE e == EffectKey(OpOf[q])
           before == [request |-> q, gen |-> g, done |-> FALSE]
           row == [request |-> q, gen |-> g, done |-> TRUE]
<1>1. /\ e \in EffectKeys /\ e \in Keys /\ e[1] = "effect" /\ e \notin PoolKeys
      /\ worker' \in [Workers -> Finalizer]
  BY WorkerShape, KeyFacts DEF Commit
<1>2. /\ authority[g] # "none" /\ rows[g][e] = before
      /\ Insert(g, e, row)
      /\ UNCHANGED <<authority, fence, imported, settled, handed, revoked>>
  BY DEF Commit, MayExecute
<1>3. Routed(g)
  BY <1>2, ExecutingIsRouted
<1>4. RowOk(e, row) /\ row # NoRow /\ before # NoRow
  BY <1>1, RowShapes
<1>5. fence[g].state \in {"none", "draining", "invalidating"}
  <2>1. fence[g].state \in FenceStates
    BY DEF ExecutionInv, Types, Fence
  <2>2. fence[g].state \notin Arriving
    BY <1>3 DEF ExecutionInv, Owners, ArrivingNotRouted
  <2>3. fence[g].state \notin Sealing
    BY <1>1, <1>2, <1>4 DEF ExecutionInv, Source, SealedQuiet, Quiet
  <2> QED BY <2>1, <2>2, <2>3 DEF FenceStates, Arriving, Sealing
<1>6. /\ AuthorityRouted'
      /\ authority' \in [Gens -> {"none", "registration", "relocation", "empty"}]
      /\ revoked' \subseteq LinkedMaterials
  BY <1>2 DEF ExecutionInv, Types, Owners, AuthorityRouted
<1>7. row.request = rows[g][e].request
  BY <1>2
<1> HIDE DEF e, row, before
<1> QED BY <1>1, <1>2, <1>3, <1>4, <1>5, <1>6, <1>7, InsertStep

LEMMA StoreKeeps == ASSUME ExecutionInv, StoreNext, UNCHANGED transferVars PROVE ExecutionInv'
<1>0. worker \in [Workers -> Finalizer] /\ settled \in [Gens -> SUBSET Sessions]
  BY DEF ExecutionInv, Types
<1>1. ASSUME NEW g \in Gens, NEW s \in Sessions, SettleSession(g, s) PROVE ExecutionInv'
  <2>1. settled' \in [Gens -> SUBSET Sessions]
    BY <1>0, <1>1 DEF SettleSession
  <2> QED BY <1>0, <1>1, <2>1, QuietKeeps DEF SettleSession
<1>2. ASSUME NEW w \in Workers, NEW q \in Requests, NEW g \in Gens, LoadMaterial(w, q, g)
      PROVE  ExecutionInv'
  <2>1. [pc |-> "loaded", request |-> q, gen |-> g] \in Finalizer
    BY DEF Finalizer
  <2>2. worker' \in [Workers -> Finalizer]
    BY <1>0, <1>2, <2>1 DEF LoadMaterial
  <2> QED BY <1>0, <1>2, <2>2, QuietKeeps DEF LoadMaterial
<1>3. ASSUME NEW w \in Workers, ClaimAnswered(w) \/ WorkerFails(w) PROVE ExecutionInv'
  <2>1. worker' \in [Workers -> Finalizer]
    BY <1>0, <1>3 DEF ClaimAnswered, WorkerFails, Finalizer
  <2> QED BY <1>0, <1>3, <2>1, QuietKeeps DEF ClaimAnswered, WorkerFails
<1>4. ASSUME NEW w \in Workers, Claim(w) \/ ClaimBurns(w) \/ Commit(w) PROVE ExecutionInv'
  <2>1. worker[w].request \in Requests /\ worker[w].gen \in Gens
    BY <1>4, WorkerShape DEF Claim, ClaimBurns, Commit
  <2> QED BY <1>4, <2>1, ClaimKeeps, ClaimBurnsKeeps, CommitKeeps
<1> QED BY <1>1, <1>2, <1>3, <1>4, MakingKeeps, LinkedKeeps DEF StoreNext

-----------------------------------------------------------------------------
(* The source freezes *)

LEMMA FenceAt ==
    ASSUME ExecutionInv, NEW g \in Gens, NEW state \in FenceStates,
           NEW m \in Moves \cup {NoMove}, NEW passed \in SUBSET Keys, NEW next \in 0..Segments,
           AtFence(g, state, m, passed, next)
    PROVE  /\ fence' \in [Gens -> Fence]
           /\ \A h \in Gens : h # g => fence'[h] = fence[h]
           /\ fence'[g].state = state /\ fence'[g].move = m
           /\ fence'[g].passed = passed /\ fence'[g].next = next
<1>1. [state |-> state, move |-> m, passed |-> passed, next |-> next] \in Fence
  BY DEF Fence
<1> QED BY <1>1 DEF AtFence, ExecutionInv, Types

LEMMA FreezeAuthorityFacts ==
    ASSUME ExecutionInv, NEW g \in Gens, FreezeAuthority(g), UNCHANGED imported
    PROVE  /\ Routed(g)
           /\ authority' \in [Gens -> {"none", "registration", "relocation", "empty"}]
           /\ AuthorityRouted'
BY DEF FreezeAuthority, ExecutionInv, Types, Owners, AuthorityRouted

\* A call of a freeze: it may destroy live material and write pages, and the
\* fence says how far it is.
LEMMA FreezeStep ==
    ASSUME ExecutionInv, NEW g \in Gens, Routed(g),
           fence[g].state \in {"none", "draining", "invalidating", "sealing"},
           fence' \in [Gens -> Fence],
           \A h \in Gens : h # g => /\ fence'[h] = fence[h] /\ rows'[h] = rows[h]
                                    /\ sealed'[h] = sealed[h],
           fence'[g].state \in {"draining", "invalidating", "sealing", "frozen"},
           TablesOf(rows)', TablesOf(sealed)',
           \A k \in Keys : \/ rows'[g][k] = rows[g][k]
                           \/ /\ k \in PoolKeys /\ rows[g][k] # NoRow /\ rows'[g][k] # NoRow
                              /\ rows[g][k].status # "used",
           fence'[g].state \in {"draining", "invalidating"} => sealed'[g] = EmptyTable,
           fence'[g].state = "draining" => fence'[g].passed = {},
           fence'[g].state = "invalidating" =>
             \A k \in PoolKeys : k \in fence'[g].passed /\ rows'[g][k] # NoRow =>
                                   Terminal(rows'[g][k]),
           fence'[g].state = "sealing" =>
             \A k \in Keys : sealed'[g][k] = IF k \in fence'[g].passed THEN rows'[g][k] ELSE NoRow,
           fence'[g].state = "frozen" => sealed'[g] = rows'[g],
           fence'[g].state \in {"sealing", "frozen"} => Quiet(rows'[g]),
           authority' \in [Gens -> {"none", "registration", "relocation", "empty"}],
           AuthorityRouted',
           UNCHANGED <<imported, settled, worker, handed, revoked, staged, receipt, chunks>>
    PROVE  ExecutionInv'
<1> USE DEF ExecutionInv
<1>1. Types'
  BY DEF Types, TablesOf, Table
<1>2. ArrivingNotRouted' /\ SourceRouted'
  BY DEF Owners, ArrivingNotRouted, SourceRouted, Arriving, SourceStates
<1>3. ClosedBehind' /\ CleanedIsLeft'
  BY DEF Owners, ClosedBehind, CleanedIsLeft, Closed
<1>4. HasCurrent'
  BY DEF Owners, HasCurrent, Current
<1>5. Owners'
  BY <1>2, <1>3, <1>4 DEF Owners
<1>6. UnsealedEmpty' /\ PassedTerminal'
  BY DEF Source, UnsealedEmpty, PassedTerminal, Sealing
<1>7. SealedPrefix' /\ FrozenSealed'
  BY DEF Source, SealedPrefix, FrozenSealed
<1>8. SealedQuiet'
  BY DEF Source, SealedQuiet, Sealing
<1>9. CeremoniesPast'
  BY KeyFacts DEF Source, CeremoniesPast
<1>10. Source'
  BY <1>6, <1>7, <1>8, <1>9 DEF Source
<1>11. EmptyBefore' /\ PreparedEmpty'
  BY DEF Destination, EmptyBefore, PreparedEmpty
<1>12. ChunksOfFrozen' /\ ReceiptOfFrozen'
  BY DEF Destination, ChunksOfFrozen, ReceiptOfFrozen, Types, Filling
<1>13. RestoredPrefix'
  BY DEF Destination, RestoredPrefix
<1>14. Destination'
  BY <1>11, <1>12, <1>13 DEF Destination
<1>15. /\ Current(g) /\ \A h \in Gens : Current(h)' => h = g
       /\ Executed(rows[g]) /\ Revoked(rows[g])
  <2>1. Current(g)
    BY WorkingIsCurrent DEF Closed
  <2> QED BY <2>1, OneCurrent DEF Current, Knowledge, CurrentKnows
<1>16. Executed(rows'[g])
  BY <1>15, KeyFacts DEF Executed
<1>17. Revoked(rows'[g])
  BY <1>15, KeyFacts DEF Revoked, Types
<1>18. CurrentKnows' /\ SingleExecution'
  BY <1>15, <1>16, <1>17 DEF Knowledge, CurrentKnows, Executed, Revoked, SingleExecution
<1>19. PoolInherited'
  BY <1>15, GenFacts, KeyFacts DEF Knowledge, PoolInherited
<1> QED BY <1>1, <1>5, <1>10, <1>14, <1>18, <1>19 DEF Knowledge

\* Pages are written from a table that does not change any more.
LEMMA SealFacts ==
    ASSUME ExecutionInv, NEW g \in Gens, NEW m \in Moves, NEW t, Table(t),
           NEW passed \in SUBSET Keys,
           \A k \in Keys : sealed[g][k] = IF k \in passed THEN t[k] ELSE NoRow,
           Seal(g, m, t, passed)
    PROVE  /\ fence' \in [Gens -> Fence] /\ TablesOf(sealed)'
           /\ \A h \in Gens : h # g => fence'[h] = fence[h] /\ sealed'[h] = sealed[h]
           /\ \/ fence'[g].state = "frozen" /\ sealed'[g] = t
              \/ /\ fence'[g].state = "sealing"
                 /\ \A k \in Keys : sealed'[g][k] = IF k \in fence'[g].passed THEN t[k] ELSE NoRow
<1>1. PICK S \in Batches(RowsOf(t) \ passed) :
        /\ sealed' = [sealed EXCEPT ![g] = Overlay(@, S, t)]
        /\ IF IsLast(S) THEN AtFence(g, "frozen", m, {}, 0)
           ELSE AtFence(g, "sealing", m, passed \cup S, 0)
  BY DEF Seal
<1>2. S \subseteq RowsOf(t) \ passed /\ RowsOf(t) \subseteq Keys
  BY DEF Batches, RowsOf
<1>3. /\ sealed' = [h \in Gens |-> sealed'[h]]
      /\ \A h \in Gens : h # g => sealed'[h] = sealed[h]
      /\ sealed'[g] = [k \in Keys |-> IF k \in S THEN t[k] ELSE sealed[g][k]]
  BY <1>1 DEF Overlay, ExecutionInv, Types, TablesOf
<1>4. \A k \in Keys : sealed'[g][k] = IF k \in passed \cup S THEN t[k] ELSE NoRow
  BY <1>2, <1>3
<1>5. Table(sealed'[g])
  BY <1>3, <1>4 DEF Table
<1>6. TablesOf(sealed)'
  BY <1>3, <1>5 DEF ExecutionInv, Types, TablesOf, Gens
<1>7. 0 \in 0..Segments /\ {} \subseteq Keys /\ passed \cup S \subseteq Keys
  BY <1>2, RelocationAssumption
<1>8. CASE IsLast(S)
  <2>1. S = RowsOf(t) \ passed
    BY <1>2, <1>8, LastBatch
  <2>2. \A k \in Keys : sealed'[g][k] = t[k]
    BY <1>4, <2>1 DEF RowsOf
  <2>3. sealed'[g] = t
    BY <1>3, <2>2 DEF Table
  <2>4. AtFence(g, "frozen", m, {}, 0) /\ "frozen" \in FenceStates
    BY <1>1, <1>8 DEF FenceStates
  <2> QED BY <1>3, <1>6, <1>7, <2>3, <2>4, FenceAt
<1>9. CASE ~IsLast(S)
  <2>1. AtFence(g, "sealing", m, passed \cup S, 0) /\ "sealing" \in FenceStates
    BY <1>1, <1>9 DEF FenceStates
  <2> QED BY <1>3, <1>4, <1>6, <1>7, <2>1, FenceAt
<1> QED BY <1>8, <1>9

LEMMA FreezeDrainsKeeps ==
    ASSUME ExecutionInv, NEW g \in Gens, NEW m \in Moves, FreezeDrains(g, m)
    PROVE  ExecutionInv'
<1>1. /\ UNCHANGED <<rows, imported, settled, worker, handed, revoked, transferVars>>
      /\ FreezeAuthority(g)
      /\ fence[g].state \in {"none", "draining", "invalidating"}
  BY DEF FreezeDrains
<1>2. /\ Routed(g) /\ AuthorityRouted'
      /\ authority' \in [Gens -> {"none", "registration", "relocation", "empty"}]
  BY <1>1, FreezeAuthorityFacts
<1>3. /\ TablesOf(rows)' /\ TablesOf(sealed)' /\ sealed'[g] = EmptyTable
      /\ UNCHANGED <<rows, sealed, staged, receipt, chunks>>
  BY <1>1 DEF ExecutionInv, Types, TablesOf, Table, transferVars, Source, UnsealedEmpty, Sealing
<1>4. CASE fence[g].state = "none"
  <2>1. AtFence(g, "draining", m, {}, 0) /\ "draining" \in FenceStates
    BY <1>4 DEF FreezeDrains, FenceStates
  <2>2. 0 \in 0..Segments /\ {} \subseteq Keys
    BY RelocationAssumption
  <2>3. /\ fence' \in [Gens -> Fence] /\ fence'[g].state = "draining" /\ fence'[g].passed = {}
        /\ \A h \in Gens : h # g => fence'[h] = fence[h]
    BY <2>1, <2>2, FenceAt
  <2> QED BY <1>1, <1>2, <1>3, <2>3, FreezeStep
<1>5. CASE fence[g].state # "none"
  <2>1. UNCHANGED fence
    BY <1>5 DEF FreezeDrains
  <2>2. /\ fence' \in [Gens -> Fence] /\ fence'[g].state \in {"draining", "invalidating"}
        /\ fence'[g].state = "draining" => fence'[g].passed = {}
        /\ fence'[g].state = "invalidating" =>
             \A k \in PoolKeys : k \in fence'[g].passed /\ rows'[g][k] # NoRow =>
                                   Terminal(rows'[g][k])
    BY <1>1, <1>3, <1>5, <2>1 DEF ExecutionInv, Types, Source, PassedTerminal
  <2> QED BY <1>1, <1>2, <1>3, <2>1, <2>2, FreezeStep
<1> QED BY <1>4, <1>5

\* What a batch of the invalidation does to a table of records.
LEMMA InvalidatedFacts ==
    ASSUME ExecutionInv, NEW g \in Gens, NEW S \in SUBSET PoolKeys,
           \A k \in S : Has(g, k)
    PROVE  LET t == InvalidatedRows(g, S) IN
           /\ Table(t)
           /\ \A k \in Keys \ S : t[k] = rows[g][k]
           /\ \A k \in S : t[k] # NoRow /\ Terminal(t[k])
           /\ \A k \in Keys : \/ t[k] = rows[g][k]
                              \/ /\ k \in PoolKeys /\ rows[g][k] # NoRow /\ t[k] # NoRow
                                 /\ rows[g][k].status # "used"
<1> DEFINE t == InvalidatedRows(g, S)
<1>1. /\ t = [k \in Keys |-> t[k]]
      /\ \A k \in Keys : t[k] = IF k \in S THEN Invalidated(rows[g][k]) ELSE rows[g][k]
  BY DEF InvalidatedRows
<1>2. ASSUME NEW k \in S
      PROVE  /\ t[k] \in PoolRows /\ RowOk(k, t[k]) /\ Terminal(t[k])
             /\ t[k] = rows[g][k] \/ rows[g][k].status # "used"
  <2>1. k \in Keys /\ k[1] = "pool" /\ k \in PoolKeys /\ k \notin EffectKeys
    BY KeyFacts
  <2>2. rows[g][k] \in PoolRows
    BY <2>1 DEF ExecutionInv, Types, TablesOf, Table, RowOk
  <2>3. t[k] = Invalidated(rows[g][k])
    BY <1>1, <2>1
  <2> HIDE DEF t
  <2>4. /\ t[k] \in PoolRows /\ Terminal(t[k])
        /\ t[k] = rows[g][k] \/ rows[g][k].status # "used"
    BY <2>2, <2>3 DEF Invalidated, PoolRows, Terminal
  <2> QED BY <2>1, <2>4 DEF RowOk
<1>3. \A k \in Keys : t[k] # NoRow => RowOk(k, t[k])
  BY <1>1, <1>2 DEF ExecutionInv, Types, TablesOf, Table
<1> HIDE DEF t
<1>4. Table(t)
  BY <1>1, <1>3 DEF Table
<1>5. \A k \in S : t[k] # NoRow /\ Terminal(t[k])
  BY <1>2, RowAssumption
<1>6. \A k \in Keys \ S : t[k] = rows[g][k]
  BY <1>1
<1>7. \A k \in Keys : \/ t[k] = rows[g][k]
                      \/ /\ k \in PoolKeys /\ rows[g][k] # NoRow /\ t[k] # NoRow
                         /\ rows[g][k].status # "used"
  BY <1>2, <1>5, <1>6
<1> QED BY <1>4, <1>5, <1>6, <1>7 DEF t

LEMMA FreezeInvalidatesKeeps ==
    ASSUME ExecutionInv, NEW g \in Gens, NEW m \in Moves, FreezeInvalidates(g, m)
    PROVE  ExecutionInv'
<1> DEFINE live == RowsOf(rows[g]) \cap PoolKeys
<1>1. /\ UNCHANGED <<imported, settled, worker, handed, revoked, staged, receipt, chunks>>
      /\ FreezeAuthority(g) /\ PendingEffects(g) = {}
      /\ fence[g].state \in {"none", "draining", "invalidating"}
  BY DEF FreezeInvalidates
<1>2. PICK S \in Batches(live \ fence[g].passed) :
        /\ rows' = [rows EXCEPT ![g] = InvalidatedRows(g, S)]
        /\ IF IsLast(S) THEN Seal(g, m, InvalidatedRows(g, S), {})
           ELSE /\ AtFence(g, "invalidating", m, fence[g].passed \cup S, 0)
                /\ UNCHANGED sealed
  BY DEF FreezeInvalidates
<1>3. /\ Routed(g) /\ AuthorityRouted'
      /\ authority' \in [Gens -> {"none", "registration", "relocation", "empty"}]
  BY <1>1, FreezeAuthorityFacts
<1>4. /\ S \in SUBSET PoolKeys /\ S \subseteq live \ fence[g].passed /\ \A k \in S : Has(g, k)
  BY DEF Batches, RowsOf
<1>5. PICK t : t = InvalidatedRows(g, S)
  OBVIOUS
<1>6. /\ Table(t)
      /\ \A k \in Keys \ S : t[k] = rows[g][k]
      /\ \A k \in S : t[k] # NoRow /\ Terminal(t[k])
      /\ \A k \in Keys : \/ t[k] = rows[g][k]
                         \/ /\ k \in PoolKeys /\ rows[g][k] # NoRow /\ t[k] # NoRow
                            /\ rows[g][k].status # "used"
  BY <1>4, <1>5, InvalidatedFacts
<1>7. /\ rows' = [h \in Gens |-> rows'[h]] /\ rows'[g] = t
      /\ \A h \in Gens : h # g => rows'[h] = rows[h]
  BY <1>2, <1>5 DEF ExecutionInv, Types, TablesOf
<1>8. TablesOf(rows)'
  BY <1>6, <1>7 DEF ExecutionInv, Types, TablesOf, Gens
\* What an earlier batch passed stays terminal.
<1>9. \A k \in PoolKeys : k \in fence[g].passed \cup S /\ t[k] # NoRow => Terminal(t[k])
  <2>1. \A k \in PoolKeys : k \in fence[g].passed /\ Has(g, k) => Terminal(rows[g][k])
    BY <1>1 DEF ExecutionInv, Source, PassedTerminal
  <2> QED BY <1>6, <2>1, KeyFacts
<1>10. sealed[g] = EmptyTable /\ fence[g].passed \in SUBSET Keys
  BY <1>1 DEF ExecutionInv, Source, UnsealedEmpty, Sealing, Types, Fence
<1>11. CASE IsLast(S)
  <2>1. S = live \ fence[g].passed
    BY <1>11, LastBatch DEF RowsOf
  <2>2. Quiet(t)
    <3>1. \A k \in PoolKeys : t[k] # NoRow => Terminal(t[k])
      BY <1>6, <1>9, <2>1, KeyFacts DEF RowsOf
    <3>2. \A k \in EffectKeys : t[k] # NoRow => t[k].done
      BY <1>1, <1>4, <1>6, KeyFacts
    <3> QED BY <3>1, <3>2 DEF Quiet
  <2>3. Seal(g, m, t, {}) /\ {} \in SUBSET Keys
    BY <1>2, <1>5, <1>11
  <2>4. \A k \in Keys : sealed[g][k] = IF k \in {} THEN t[k] ELSE NoRow
    BY <1>10 DEF EmptyTable
  <2>5. /\ fence' \in [Gens -> Fence] /\ TablesOf(sealed)'
        /\ \A h \in Gens : h # g => fence'[h] = fence[h] /\ sealed'[h] = sealed[h]
        /\ \/ fence'[g].state = "frozen" /\ sealed'[g] = t
           \/ /\ fence'[g].state = "sealing"
              /\ \A k \in Keys : sealed'[g][k] = IF k \in fence'[g].passed THEN t[k] ELSE NoRow
    BY <1>6, <2>3, <2>4, SealFacts
  <2> QED BY <1>1, <1>3, <1>6, <1>7, <1>8, <2>2, <2>5, FreezeStep
<1>12. CASE ~IsLast(S)
  <2>1. /\ AtFence(g, "invalidating", m, fence[g].passed \cup S, 0) /\ UNCHANGED sealed
        /\ "invalidating" \in FenceStates
    BY <1>2, <1>12 DEF FenceStates
  <2>2. 0 \in 0..Segments /\ fence[g].passed \cup S \in SUBSET Keys
    BY <1>4, <1>10, KeyFacts, RelocationAssumption
  <2>3. /\ fence' \in [Gens -> Fence] /\ fence'[g].state = "invalidating"
        /\ fence'[g].passed = fence[g].passed \cup S
        /\ \A h \in Gens : h # g => fence'[h] = fence[h]
    BY <2>1, <2>2, FenceAt
  <2>4. TablesOf(sealed)'
    BY <2>1 DEF ExecutionInv, Types, TablesOf, Table
  <2> QED BY <1>1, <1>3, <1>6, <1>7, <1>8, <1>9, <1>10, <2>1, <2>3, <2>4, FreezeStep
<1> QED BY <1>11, <1>12

LEMMA FreezeSealsKeeps ==
    ASSUME ExecutionInv, NEW g \in Gens, NEW m \in Moves, FreezeSeals(g, m)
    PROVE  ExecutionInv'
<1>1. /\ UNCHANGED <<rows, imported, settled, worker, handed, revoked, staged, receipt, chunks>>
      /\ FreezeAuthority(g) /\ fence[g].state = "sealing"
      /\ Seal(g, m, rows[g], fence[g].passed)
  BY DEF FreezeSeals
<1>2. /\ Routed(g) /\ AuthorityRouted'
      /\ authority' \in [Gens -> {"none", "registration", "relocation", "empty"}]
  BY <1>1, FreezeAuthorityFacts
<1>3. /\ Table(rows[g]) /\ fence[g].passed \in SUBSET Keys /\ TablesOf(rows)'
      /\ \A k \in Keys : sealed[g][k] = IF k \in fence[g].passed THEN rows[g][k] ELSE NoRow
      /\ Quiet(rows[g])
  BY <1>1 DEF ExecutionInv, Types, TablesOf, Table, Fence, Source, SealedPrefix, SealedQuiet, Sealing
<1>4. /\ fence' \in [Gens -> Fence] /\ TablesOf(sealed)'
      /\ \A h \in Gens : h # g => fence'[h] = fence[h] /\ sealed'[h] = sealed[h]
      /\ \/ fence'[g].state = "frozen" /\ sealed'[g] = rows[g]
         \/ /\ fence'[g].state = "sealing"
            /\ \A k \in Keys : sealed'[g][k] = IF k \in fence'[g].passed THEN rows[g][k] ELSE NoRow
  BY <1>1, <1>3, SealFacts
<1> QED BY <1>1, <1>2, <1>3, <1>4, FreezeStep

-----------------------------------------------------------------------------
(* The snapshot travels *)

LEMMA ExportKeeps ==
    ASSUME ExecutionInv, NEW g \in Gens, NEW segment \in 0..(Segments - 1), Export(g, segment)
    PROVE  ExecutionInv'
<1> USE DEF ExecutionInv
<1>1. PICK c : c = [gen |-> g, move |-> fence[g].move, segment |-> segment, digest |-> sealed[g]]
  OBVIOUS
<1>2. /\ fence[g].state = "frozen" /\ chunks' = chunks \cup {c}
      /\ UNCHANGED <<rows, authority, fence, imported, settled, worker, handed, revoked,
                     sealed, staged, receipt>>
  BY <1>1 DEF Export, storeVars
<1>3. /\ c.gen = g /\ c.move = fence[g].move /\ c.segment = segment /\ c.digest = sealed[g]
  BY <1>1
<1>4. c.move \in Moves \cup {NoMove} /\ Table(c.digest)
  BY <1>3 DEF Types, TablesOf, Fence
<1>5. Types'
  BY <1>2, <1>3, <1>4 DEF Types, TablesOf, Table
<1>6. Owners'
  BY <1>2 DEF Owners, AuthorityRouted, ArrivingNotRouted, SourceRouted, ClosedBehind, CleanedIsLeft,
              HasCurrent, Current
<1>7. Source'
  BY <1>2 DEF Source, UnsealedEmpty, PassedTerminal, SealedPrefix, FrozenSealed, SealedQuiet,
              CeremoniesPast
<1>8. ChunksOfFrozen'
  BY <1>2, <1>3 DEF Destination, ChunksOfFrozen
<1>9. EmptyBefore' /\ PreparedEmpty' /\ ReceiptOfFrozen' /\ RestoredPrefix'
  BY <1>2 DEF Destination, EmptyBefore, PreparedEmpty, ReceiptOfFrozen, RestoredPrefix
<1>10. Knowledge'
  BY <1>2 DEF Knowledge, CurrentKnows, PoolInherited, SingleExecution, Current, Executed, Revoked
<1> QED BY <1>5, <1>6, <1>7, <1>8, <1>9, <1>10 DEF Destination

-----------------------------------------------------------------------------
(* The destination restores *)

\* A call of an import, at an object that does not own the wallet yet.
LEMMA ArrivalStep ==
    ASSUME ExecutionInv, NEW g \in Gens, ~Routed(g),
           fence[g].state \in {"none"} \cup Arriving,
           fence' \in [Gens -> Fence],
           \A h \in Gens : h # g => /\ fence'[h] = fence[h] /\ rows'[h] = rows[h]
                                    /\ staged'[h] = staged[h] /\ receipt'[h] = receipt[h],
           fence'[g].state \in Arriving,
           TablesOf(rows)', TablesOf(staged)', TablesOf(receipt)',
           fence'[g].state \in {"prepared", "importing"} => rows'[g] = EmptyTable,
           fence'[g].state = "prepared" => staged'[g] = EmptyTable,
           fence'[g].state \in Filling =>
             /\ g - 1 \in Gens /\ fence[g - 1].state = "frozen"
             /\ receipt'[g] = sealed[g - 1]
             /\ \A k \in Keys : staged'[g][k] \in {NoRow, receipt'[g][k]},
           fence'[g].state = "importing" => fence'[g].passed = {},
           fence'[g].state = "restoring" =>
             \A k \in Keys :
               rows'[g][k] = IF k \in fence'[g].passed THEN staged'[g][k] ELSE NoRow,
           fence'[g].state = "verified" => rows'[g] = receipt'[g],
           \A p \in Presigs : rows'[g][CeremonyKey(p)] # NoRow => rows'[g][CeremonyKey(p)] <= g,
           UNCHANGED <<authority, imported, settled, worker, handed, revoked, sealed, chunks>>
    PROVE  ExecutionInv'
<1> USE DEF ExecutionInv
<1>1. Types'
  BY DEF Types, TablesOf, Table
<1>2. AuthorityRouted' /\ ArrivingNotRouted' /\ SourceRouted'
  BY DEF Owners, AuthorityRouted, ArrivingNotRouted, SourceRouted, Arriving, SourceStates
<1>3. \A h \in Gens : Routed(h) => ~(g < h)
  BY DEF Owners, ClosedBehind, Closed, Arriving
<1>4. ClosedBehind' /\ CleanedIsLeft' /\ HasCurrent'
  BY <1>3 DEF Owners, ClosedBehind, CleanedIsLeft, HasCurrent, Current, Closed, Arriving
<1>5. Owners'
  BY <1>2, <1>4 DEF Owners
<1>6. UnsealedEmpty' /\ PassedTerminal'
  BY DEF Source, UnsealedEmpty, PassedTerminal, Sealing, Arriving
<1>7. SealedPrefix' /\ FrozenSealed' /\ SealedQuiet'
  BY DEF Source, SealedPrefix, FrozenSealed, SealedQuiet, Sealing, Arriving
<1>8. CeremoniesPast'
  BY DEF Source, CeremoniesPast
<1>9. Source'
  BY <1>6, <1>7, <1>8 DEF Source
<1>10. EmptyBefore' /\ PreparedEmpty'
  BY DEF Destination, EmptyBefore, PreparedEmpty, Arriving
<1>11. ChunksOfFrozen'
  BY DEF Destination, ChunksOfFrozen, Arriving, Types
<1>12. ReceiptOfFrozen'
  <2>1. \A h \in Gens : fence[h].state \in Filling => h - 1 # g
    BY DEF Destination, ReceiptOfFrozen, Arriving
  <2>2. g - 1 # g
    BY GenFacts
  <2> QED BY <2>1, <2>2 DEF Destination, ReceiptOfFrozen
<1>13. RestoredPrefix'
  BY DEF Destination, RestoredPrefix
<1>14. Destination'
  BY <1>10, <1>11, <1>12, <1>13 DEF Destination
<1>15. \A h \in Gens : Current(h)' => Current(h) /\ h # g /\ ~(g < h)
  BY <1>3 DEF Current
<1>16. CurrentKnows' /\ SingleExecution'
  BY <1>15 DEF Knowledge, CurrentKnows, Executed, Revoked, SingleExecution
<1>17. PoolInherited'
  BY <1>15 DEF Knowledge, PoolInherited
<1> QED BY <1>1, <1>5, <1>9, <1>14, <1>16, <1>17 DEF Knowledge

LEMMA PrepareImportKeeps ==
    ASSUME ExecutionInv, NEW g \in Gens, NEW m \in Moves, PrepareImport(g, m)
    PROVE  ExecutionInv'
<1>1. /\ g > 1 /\ imported[g] = NoMove /\ fence[g].state = "none" /\ staged[g] = EmptyTable
      /\ AtFence(g, "prepared", m, {}, 0) /\ "prepared" \in FenceStates
      /\ UNCHANGED <<rows, authority, imported, settled, worker, handed, revoked, sealed, staged,
                     receipt, chunks>>
  BY DEF PrepareImport, FenceStates, transferVars
<1>2. 0 \in 0..Segments /\ {} \in SUBSET Keys
  BY RelocationAssumption
<1>3. /\ fence' \in [Gens -> Fence] /\ fence'[g].state = "prepared"
      /\ \A h \in Gens : h # g => fence'[h] = fence[h]
  BY <1>1, <1>2, FenceAt
<1>4. ~Routed(g) /\ rows[g] = EmptyTable
  BY <1>1, GenFacts DEF ExecutionInv, Destination, EmptyBefore
<1>5. TablesOf(rows)' /\ TablesOf(staged)' /\ TablesOf(receipt)'
  BY <1>1 DEF ExecutionInv, Types, TablesOf, Table
<1>6. \A p \in Presigs : rows'[g][CeremonyKey(p)] # NoRow => rows'[g][CeremonyKey(p)] <= g
  BY <1>1, <1>4, KeyFacts DEF EmptyTable
<1> QED BY <1>1, <1>3, <1>4, <1>5, <1>6, ArrivalStep DEF Arriving, Filling

LEMMA ImportChunkKeeps ==
    ASSUME ExecutionInv, NEW c \in chunks, ImportChunk(c)
    PROVE  ExecutionInv'
<1>1. PICK g \in Gens : g = c.gen + 1
  BY DEF ImportChunk
<1>2. PICK data \in SUBSET Keys : data = {k \in Keys : SegmentOf[k] = c.segment}
  OBVIOUS
<1>3. /\ MayImport(g, c)
      /\ staged' = [staged EXCEPT ![g] = Overlay(@, data, c.digest)]
      /\ receipt' = [receipt EXCEPT ![g] = c.digest]
      /\ AtFence(g, "importing", c.move, {}, c.segment + 1)
      /\ UNCHANGED <<rows, authority, imported, settled, worker, handed, revoked, sealed, chunks>>
  BY <1>1, <1>2 DEF ImportChunk
<1>4. /\ c.gen \in Gens /\ c.move \in Moves \cup {NoMove}
      /\ c.segment \in 0..(Segments - 1) /\ Table(c.digest)
  BY DEF ExecutionInv, Types
<1>5. /\ fence' \in [Gens -> Fence] /\ fence'[g].state = "importing" /\ fence'[g].passed = {}
      /\ \A h \in Gens : h # g => fence'[h] = fence[h]
  <2>1. PICK next \in 0..Segments : next = c.segment + 1
    BY <1>4, RelocationAssumption
  <2>2. PICK move \in Moves \cup {NoMove} : move = c.move
    BY <1>4
  <2>3. {} \in SUBSET Keys /\ "importing" \in FenceStates
    BY DEF FenceStates
  <2>4. AtFence(g, "importing", move, {}, next)
    BY <1>3, <2>1, <2>2
  <2> QED BY <2>3, <2>4, FenceAt
<1>6. fence[g].state \in {"prepared", "importing"}
  BY <1>3 DEF MayImport
<1>7. ~Routed(g) /\ rows[g] = EmptyTable
  BY <1>6 DEF ExecutionInv, Owners, ArrivingNotRouted, Arriving, Destination, EmptyBefore
<1>8. /\ g - 1 = c.gen /\ g - 1 \in Gens
      /\ fence[g - 1].state = "frozen" /\ c.digest = sealed[g - 1]
  <2>0. PICK h \in Gens : h = c.gen
    BY <1>4
  <2>1. g - 1 = c.gen
    <3>1. h \in Nat /\ g = h + 1
      BY <1>1, <2>0, GenFacts
    <3> QED BY <2>0, <3>1
  <2>2. fence[c.gen].state = "frozen" /\ c.digest = sealed[c.gen]
    BY <1>1, <1>7 DEF ExecutionInv, Destination, ChunksOfFrozen
  <2> QED BY <1>4, <2>1, <2>2
<1>9. /\ staged' = [h \in Gens |-> staged'[h]] /\ receipt' = [h \in Gens |-> receipt'[h]]
      /\ \A h \in Gens : h # g => staged'[h] = staged[h] /\ receipt'[h] = receipt[h]
      /\ staged'[g] = [k \in Keys |-> IF k \in data THEN c.digest[k] ELSE staged[g][k]]
      /\ receipt'[g] = c.digest
  BY <1>3 DEF ExecutionInv, Types, TablesOf, Overlay
<1>10. \A k \in Keys : staged[g][k] \in {NoRow, c.digest[k]}
  <2>1. CASE fence[g].state = "prepared"
    BY <2>1 DEF ExecutionInv, Destination, PreparedEmpty, EmptyTable
  <2>2. CASE fence[g].state = "importing"
    BY <1>8, <2>2 DEF ExecutionInv, Destination, ReceiptOfFrozen, Filling
  <2> QED BY <1>6, <2>1, <2>2
<1>11. \A k \in Keys : staged'[g][k] \in {NoRow, receipt'[g][k]}
  BY <1>9, <1>10
<1>12. Table(staged'[g])
  BY <1>4, <1>9, <1>11 DEF Table
<1>13. TablesOf(rows)' /\ TablesOf(staged)' /\ TablesOf(receipt)'
  BY <1>3, <1>4, <1>9, <1>12 DEF ExecutionInv, Types, TablesOf, Table
<1>14. \A p \in Presigs : rows'[g][CeremonyKey(p)] # NoRow => rows'[g][CeremonyKey(p)] <= g
  BY <1>3, <1>7, KeyFacts DEF EmptyTable
<1> QED BY <1>3, <1>4, <1>5, <1>6, <1>7, <1>8, <1>9, <1>11, <1>13, <1>14, ArrivalStep
        DEF Arriving, Filling

LEMMA VerifyKeeps ==
    ASSUME ExecutionInv, NEW g \in Gens, NEW m \in Moves, Verify(g, m)
    PROVE  ExecutionInv'
<1>1. /\ fence[g].state \in {"importing", "restoring"}
      /\ UNCHANGED <<authority, imported, settled, worker, handed, revoked, sealed, staged,
                     receipt, chunks>>
  BY DEF Verify, transferVars
<1>2. PICK S \in Batches(RowsOf(staged[g]) \ fence[g].passed) :
        /\ rows' = [rows EXCEPT ![g] = Overlay(@, S, staged[g])]
        /\ IF IsLast(S)
           THEN staged[g] = receipt[g] /\ AtFence(g, "verified", m, {}, 0)
           ELSE AtFence(g, "restoring", m, fence[g].passed \cup S, 0)
  BY DEF Verify
<1>3. ~Routed(g)
  BY <1>1 DEF ExecutionInv, Owners, ArrivingNotRouted, Arriving
<1>4. /\ g - 1 \in Gens /\ fence[g - 1].state = "frozen" /\ receipt[g] = sealed[g - 1]
      /\ \A k \in Keys : staged[g][k] \in {NoRow, receipt[g][k]}
  BY <1>1 DEF ExecutionInv, Destination, ReceiptOfFrozen, Filling
<1>5. \A k \in Keys : rows[g][k] = IF k \in fence[g].passed THEN staged[g][k] ELSE NoRow
  <2>1. CASE fence[g].state = "importing"
    BY <1>3, <2>1 DEF ExecutionInv, Destination, EmptyBefore, RestoredPrefix, EmptyTable
  <2>2. CASE fence[g].state = "restoring"
    BY <2>2 DEF ExecutionInv, Destination, RestoredPrefix
  <2> QED BY <1>1, <2>1, <2>2
<1>6. /\ S \in SUBSET Keys /\ fence[g].passed \in SUBSET Keys
      /\ fence[g].passed \cup S \in SUBSET Keys /\ {} \in SUBSET Keys
  BY DEF ExecutionInv, Types, Fence, Batches, RowsOf
<1>7. /\ rows' = [h \in Gens |-> rows'[h]]
      /\ \A h \in Gens : h # g => rows'[h] = rows[h]
      /\ rows'[g] = [k \in Keys |-> IF k \in S THEN staged[g][k] ELSE rows[g][k]]
  BY <1>2 DEF ExecutionInv, Types, TablesOf, Overlay
<1>8. \A k \in Keys : rows'[g][k] = IF k \in fence[g].passed \cup S THEN staged[g][k] ELSE NoRow
  BY <1>5, <1>7
<1>9. Table(rows'[g])
  <2>1. Table(staged[g])
    BY DEF ExecutionInv, Types, TablesOf
  <2> QED BY <1>7, <1>8, <2>1 DEF Table
<1>10. TablesOf(rows)' /\ TablesOf(staged)' /\ TablesOf(receipt)'
  BY <1>1, <1>7, <1>9 DEF ExecutionInv, Types, TablesOf, Table
<1>11. ASSUME NEW p \in Presigs, rows'[g][CeremonyKey(p)] # NoRow
       PROVE  rows'[g][CeremonyKey(p)] <= g
  <2>1. CeremonyKey(p) \in Keys /\ CeremonyKey(p)[1] = "ceremony"
    BY KeyFacts
  <2>2. rows'[g][CeremonyKey(p)] = rows[g - 1][CeremonyKey(p)]
    BY <1>4, <1>8, <1>11, <2>1 DEF ExecutionInv, Source, FrozenSealed
  <2>3. PICK r : r = rows[g - 1][CeremonyKey(p)]
    OBVIOUS
  <2>4. r \in Gens /\ r <= g - 1
    BY <1>4, <1>11, <2>1, <2>2, <2>3
    DEF ExecutionInv, Types, TablesOf, Table, RowOk, Source, CeremoniesPast
  <2>5. r <= g
    BY <2>4, GenFacts
  <2> QED BY <2>2, <2>3, <2>5
<1>12. 0 \in 0..Segments /\ "verified" \in FenceStates /\ "restoring" \in FenceStates
  BY RelocationAssumption DEF FenceStates
<1>13. CASE IsLast(S)
  <2>1. S = RowsOf(staged[g]) \ fence[g].passed
    BY <1>13, LastBatch DEF RowsOf
  <2>2. /\ fence' \in [Gens -> Fence] /\ fence'[g].state = "verified"
        /\ \A h \in Gens : h # g => fence'[h] = fence[h]
    BY <1>2, <1>6, <1>12, <1>13, FenceAt
  <2>3. \A k \in Keys : rows'[g][k] = staged[g][k]
    BY <1>8, <2>1 DEF RowsOf
  <2>4. rows'[g] = staged[g] /\ staged[g] = receipt[g]
    BY <1>2, <1>9, <1>13, <2>3 DEF Table, ExecutionInv, Types, TablesOf
  <2> QED BY <1>1, <1>3, <1>4, <1>7, <1>10, <1>11, <2>2, <2>4, ArrivalStep DEF Arriving, Filling
<1>14. CASE ~IsLast(S)
  <2>1. /\ fence' \in [Gens -> Fence] /\ fence'[g].state = "restoring"
        /\ fence'[g].passed = fence[g].passed \cup S
        /\ \A h \in Gens : h # g => fence'[h] = fence[h]
    BY <1>2, <1>6, <1>12, <1>14, FenceAt
  <2> QED BY <1>1, <1>3, <1>4, <1>7, <1>8, <1>10, <1>11, <2>1, ArrivalStep DEF Arriving, Filling
<1> QED BY <1>13, <1>14

-----------------------------------------------------------------------------
(* The destination takes over *)

\* The verified copy is all that the source, which owned the wallet, holds.
LEMMA VerifiedIsSource ==
    ASSUME ExecutionInv, NEW g \in Gens, fence[g].state = "verified"
    PROVE  /\ g - 1 \in Gens /\ g > 1 /\ fence[g - 1].state = "frozen" /\ rows[g] = rows[g - 1]
           /\ ~Routed(g) /\ Current(g - 1) /\ \A h \in Gens : h >= g => imported[h] = NoMove
<1>1. /\ g - 1 \in Gens /\ fence[g - 1].state = "frozen" /\ rows[g] = rows[g - 1]
  BY DEF ExecutionInv, Destination, ReceiptOfFrozen, RestoredPrefix, Filling, Source, FrozenSealed
<1>2. ~Routed(g) /\ Routed(g - 1)
  BY <1>1 DEF ExecutionInv, Owners, ArrivingNotRouted, SourceRouted, Arriving, SourceStates
<1>3. ASSUME NEW h \in Gens, h >= g PROVE imported[h] = NoMove
  <2>1. CASE h = g
    BY <1>2, <2>1
  <2>2. CASE h # g
    <3>1. g < h
      BY <1>3, <2>2, GenFacts
    <3>2. fence[g].state \notin Closed
      BY DEF Closed
    <3> QED BY <3>1, <3>2 DEF ExecutionInv, Owners, ClosedBehind
  <2> QED BY <2>1, <2>2
<1>4. g > 1 /\ \A h \in Gens : h > g - 1 => h >= g
  BY <1>1, GenFacts
<1> QED BY <1>1, <1>2, <1>3, <1>4 DEF Current

LEMMA ActivateImportKeeps ==
    ASSUME ExecutionInv, NEW g \in Gens, NEW m \in Moves, ActivateImport(g, m)
    PROVE  ExecutionInv'
<1> USE DEF ExecutionInv
<1>1. CASE UNCHANGED vars
  <2>1. /\ worker' \in [Workers -> Finalizer] /\ settled' \in [Gens -> SUBSET Sessions]
        /\ UNCHANGED <<rows, authority, fence, imported, handed, revoked, transferVars>>
    BY <1>1 DEF vars, storeVars, Types
  <2> QED BY <2>1, QuietKeeps
<1>2. CASE ~UNCHANGED vars
  <2>1. /\ fence[g].state = "verified" /\ imported[g] = NoMove
        /\ authority' = [authority EXCEPT ![g] = "relocation"]
        /\ imported' = [imported EXCEPT ![g] = m]
        /\ fence' = [fence EXCEPT ![g] = NoFence]
        /\ UNCHANGED <<rows, settled, worker, handed, revoked, sealed, staged, receipt, chunks>>
    BY <1>2 DEF ActivateImport, transferVars
  <2>2. /\ g - 1 \in Gens /\ g > 1 /\ fence[g - 1].state = "frozen" /\ rows[g] = rows[g - 1]
        /\ Current(g - 1) /\ \A h \in Gens : h >= g => imported[h] = NoMove
    BY <2>1, VerifiedIsSource
  <2>3. NoFence \in Fence
    BY RelocationAssumption DEF NoFence, Fence, FenceStates
  <2>4. /\ authority' \in [Gens -> {"none", "registration", "relocation", "empty"}]
        /\ fence' \in [Gens -> Fence] /\ imported' \in [Gens -> Moves \cup {NoMove}]
    BY <2>1, <2>3 DEF Types
  <2>5. /\ \A h \in Gens : h # g => /\ authority'[h] = authority[h] /\ fence'[h] = fence[h]
                                    /\ imported'[h] = imported[h]
        /\ authority'[g] = "relocation" /\ imported'[g] # NoMove
        /\ fence'[g].state = "none" /\ fence'[g].passed = {}
    BY <2>1, <2>4, StoreAssumption DEF Types, NoFence
  <2> HIDE DEF NoFence
  <2>6. Types'
    BY <2>1, <2>4 DEF Types, TablesOf, Table
  <2>7. \A h \in Gens : Routed(h) => h < g
    BY <2>2, GenFacts
  <2>8. AuthorityRouted' /\ ArrivingNotRouted' /\ SourceRouted'
    BY <2>5 DEF Owners, AuthorityRouted, ArrivingNotRouted, SourceRouted, Arriving, SourceStates
  <2>9. ClosedBehind'
    <3> SUFFICES ASSUME NEW a \in Gens, NEW h \in Gens, Routed(h)', a < h
                 PROVE  fence'[a].state \in Closed
      BY DEF ClosedBehind
    <3>1. CASE h # g
      <4>1. Routed(h) /\ a # g
        BY <2>5, <2>7, <3>1, GenFacts
      <4> QED BY <2>5, <4>1 DEF Owners, ClosedBehind
    <3>2. CASE h = g
      <4>1. a # g /\ (a = g - 1 \/ a < g - 1)
        BY <3>2, GenFacts
      <4>2. fence[a].state \in Closed
        BY <2>2, <4>1 DEF Owners, ClosedBehind, Closed, Current
      <4> QED BY <2>5, <4>1, <4>2
    <3> QED BY <3>1, <3>2
  <2>10. CleanedIsLeft'
    BY <2>5, GenFacts DEF Owners, CleanedIsLeft
  <2>11. Current(g)' /\ \A h \in Gens : Current(h)' => h = g
    <3>1. Current(g)'
      BY <2>2, <2>5, GenFacts DEF Current
    <3> QED BY <2>2, <2>5, <2>7, <3>1, GenFacts DEF Current
  <2>12. Owners'
    BY <2>8, <2>9, <2>10, <2>11 DEF Owners, HasCurrent
  <2>13. UnsealedEmpty' /\ PassedTerminal'
    BY <2>1, <2>5 DEF Source, UnsealedEmpty, PassedTerminal, Sealing
  <2>14. SealedPrefix' /\ FrozenSealed' /\ SealedQuiet' /\ CeremoniesPast'
    BY <2>1, <2>5 DEF Source, SealedPrefix, FrozenSealed, SealedQuiet, CeremoniesPast, Sealing
  <2>15. Source'
    BY <2>13, <2>14 DEF Source
  <2>16. EmptyBefore' /\ PreparedEmpty' /\ RestoredPrefix'
    BY <2>1, <2>5 DEF Destination, EmptyBefore, PreparedEmpty, RestoredPrefix
  <2>17. ChunksOfFrozen'
    BY <2>1, <2>5 DEF Destination, ChunksOfFrozen, Types
  <2>18. ReceiptOfFrozen'
    BY <2>1, <2>5 DEF Destination, ReceiptOfFrozen, Filling
  <2>19. Destination'
    BY <2>16, <2>17, <2>18 DEF Destination
  <2>20. CurrentKnows' /\ SingleExecution'
    <3>1. Executed(rows[g]) /\ Revoked(rows[g])
      BY <2>2 DEF Knowledge, CurrentKnows
    <3> QED BY <2>1, <2>11, <3>1 DEF CurrentKnows, Executed, Revoked, Knowledge, SingleExecution
  <2>21. PoolInherited'
    <3> SUFFICES ASSUME NEW a \in Gens, NEW k \in PoolKeys, a < g, Has(a, k)
                 PROVE  Has(g, k)
      BY <2>1, <2>11 DEF PoolInherited
    <3>1. a = g - 1 \/ a < g - 1
      BY GenFacts
    <3> QED BY <2>2, <3>1 DEF Knowledge, PoolInherited
  <2> QED BY <2>6, <2>12, <2>15, <2>19, <2>20, <2>21 DEF Knowledge
<1> QED BY <1>1, <1>2

-----------------------------------------------------------------------------
(* The source is deleted *)

\* A call of a cleanup: the wallet is elsewhere, and what remains is a part
\* of what was.
LEMMA CleanupStep ==
    ASSUME ExecutionInv, NEW g \in Gens, NEW m \in Moves, CleanupAdmitted(g, m),
           fence' \in [Gens -> Fence],
           \A h \in Gens : h # g => /\ fence'[h] = fence[h] /\ rows'[h] = rows[h]
                                    /\ sealed'[h] = sealed[h] /\ staged'[h] = staged[h],
           fence'[g].state \in {"cleaning", "cleaned"},
           TablesOf(rows)', TablesOf(sealed)', TablesOf(staged)',
           \A k \in Keys : rows'[g][k] \in {NoRow, rows[g][k]},
           UNCHANGED <<authority, imported, settled, worker, handed, revoked, receipt, chunks>>
    PROVE  ExecutionInv'
<1> USE DEF ExecutionInv
<1>1. g + 1 \in Gens /\ imported[g + 1] # NoMove /\ fence[g].state \in Closed
  BY StoreAssumption DEF CleanupAdmitted, HasActivatedReceipt, Closed
<1>2. Routed(g)
  BY <1>1 DEF Owners, SourceRouted, SourceStates, Closed
<1>3. Types'
  BY DEF Types, TablesOf, Table
<1>4. AuthorityRouted' /\ ArrivingNotRouted' /\ SourceRouted'
  BY <1>2 DEF Owners, AuthorityRouted, ArrivingNotRouted, SourceRouted, Arriving, SourceStates
<1>5. ClosedBehind' /\ CleanedIsLeft' /\ HasCurrent'
  BY <1>1 DEF Owners, ClosedBehind, CleanedIsLeft, HasCurrent, Current, Closed
<1>6. Owners'
  BY <1>4, <1>5 DEF Owners
<1>7. UnsealedEmpty' /\ PassedTerminal'
  BY DEF Source, UnsealedEmpty, PassedTerminal, Sealing
<1>8. SealedPrefix' /\ FrozenSealed'
  BY DEF Source, SealedPrefix, FrozenSealed
<1>9. SealedQuiet'
  <2>1. Quiet(rows[g])
    BY <1>1 DEF Source, SealedQuiet, Sealing, Closed
  <2>2. Quiet(rows'[g])
    BY <2>1, KeyFacts DEF Quiet
  <2> QED BY <2>2 DEF Source, SealedQuiet
<1>10. CeremoniesPast'
  BY KeyFacts DEF Source, CeremoniesPast
<1>11. Source'
  BY <1>7, <1>8, <1>9, <1>10 DEF Source
<1>12. EmptyBefore' /\ PreparedEmpty' /\ RestoredPrefix'
  BY <1>2 DEF Destination, EmptyBefore, PreparedEmpty, RestoredPrefix
<1>13. ChunksOfFrozen'
  BY <1>1 DEF Destination, ChunksOfFrozen, Types
<1>14. ReceiptOfFrozen'
  <2>1. \A h \in Gens : fence[h].state \in Filling => h - 1 # g
    <3> SUFFICES ASSUME NEW h \in Gens, fence[h].state \in Filling, h - 1 = g PROVE FALSE
      OBVIOUS
    <3>1. h = g + 1
      BY GenFacts
    <3> QED BY <1>1, <3>1 DEF Owners, ArrivingNotRouted, Arriving, Filling
  <2> QED BY <2>1 DEF Destination, ReceiptOfFrozen, Filling
<1>15. Destination'
  BY <1>12, <1>13, <1>14 DEF Destination
<1>16. \A h \in Gens : Current(h)' => Current(h) /\ h # g
  BY <1>1, GenFacts DEF Current
<1>17. CurrentKnows' /\ SingleExecution'
  BY <1>16 DEF Knowledge, CurrentKnows, Executed, Revoked, SingleExecution
<1>18. PoolInherited'
  BY <1>16, KeyFacts DEF Knowledge, PoolInherited
<1> QED BY <1>3, <1>6, <1>11, <1>15, <1>17, <1>18 DEF Knowledge

LEMMA CleanupKeeps ==
    ASSUME ExecutionInv, NEW g \in Gens, NEW m \in Moves,
           CleanupRows(g, m) \/ CleanupPages(g, m) \/ CleanupEnds(g, m)
    PROVE  ExecutionInv'
<1>1. /\ CleanupAdmitted(g, m)
      /\ UNCHANGED <<authority, imported, settled, worker, handed, revoked, receipt, chunks>>
  BY DEF CleanupRows, CleanupPages, CleanupEnds, transferVars
<1>2. /\ fence' \in [Gens -> Fence] /\ fence'[g].state \in {"cleaning", "cleaned"}
      /\ \A h \in Gens : h # g => fence'[h] = fence[h]
  <2>1. /\ {} \in SUBSET Keys /\ 0 \in 0..Segments
        /\ "cleaning" \in FenceStates /\ "cleaned" \in FenceStates
    BY RelocationAssumption DEF FenceStates
  <2>2. AtFence(g, "cleaning", m, {}, 0) \/ AtFence(g, "cleaned", m, {}, 0)
    BY DEF CleanupRows, CleanupPages, CleanupEnds
  <2> QED BY <2>1, <2>2, FenceAt
<1>3. Table(EmptyTable)
  BY DEF Table, EmptyTable
<1>4. CASE CleanupRows(g, m)
  <2>1. PICK S : rows' = [rows EXCEPT ![g] = Overlay(@, S, EmptyTable)]
    BY <1>4 DEF CleanupRows
  <2>2. /\ rows' = [h \in Gens |-> rows'[h]]
        /\ \A h \in Gens : h # g => rows'[h] = rows[h]
        /\ rows'[g] = [k \in Keys |-> IF k \in S THEN NoRow ELSE rows[g][k]]
    BY <2>1 DEF ExecutionInv, Types, TablesOf, Overlay, EmptyTable
  <2>3. /\ \A k \in Keys : rows'[g][k] \in {NoRow, rows[g][k]}
        /\ rows'[g] = [k \in Keys |-> rows'[g][k]]
    BY <2>2
  <2>4. TablesOf(rows)'
    BY <2>2, <2>3 DEF ExecutionInv, Types, TablesOf, Table, Gens
  <2>5. UNCHANGED <<sealed, staged>> /\ TablesOf(sealed)' /\ TablesOf(staged)'
    BY <1>4 DEF CleanupRows, transferVars, ExecutionInv, Types, TablesOf, Table
  <2> QED BY <1>1, <1>2, <2>2, <2>3, <2>4, <2>5, CleanupStep
<1>5. CASE CleanupPages(g, m) \/ CleanupEnds(g, m)
  <2>1. /\ UNCHANGED rows
        /\ sealed' = sealed \/ sealed' = [sealed EXCEPT ![g] = EmptyTable]
        /\ staged' = staged \/ staged' = [staged EXCEPT ![g] = EmptyTable]
    BY <1>5 DEF CleanupPages, CleanupEnds, transferVars
  <2>2. TablesOf(rows)' /\ TablesOf(sealed)' /\ TablesOf(staged)'
    BY <1>3, <2>1 DEF ExecutionInv, Types, TablesOf
  <2>3. \A h \in Gens : h # g => sealed'[h] = sealed[h] /\ staged'[h] = staged[h]
    BY <2>1 DEF ExecutionInv, Types, TablesOf
  <2> QED BY <1>1, <1>2, <2>1, <2>2, <2>3, CleanupStep
<1> QED BY <1>4, <1>5

-----------------------------------------------------------------------------
(* The inductive invariant *)

LEMMA InitKeeps == Init => ExecutionInv
<1> SUFFICES ASSUME Init PROVE ExecutionInv
  OBVIOUS
<1> USE DEF Init, StoreInit
<1>1. \A g \in Gens : /\ rows[g] = EmptyTable /\ sealed[g] = EmptyTable
                      /\ staged[g] = EmptyTable /\ receipt[g] = EmptyTable
  BY DEF EmptyTable
<1>2. \A g \in Gens : /\ fence[g].state = "none" /\ fence[g].passed = {}
                      /\ authority[g] = "none" /\ imported[g] = NoMove
  BY DEF NoFence
<1>3. Types
  <2>1. Table(EmptyTable)
    BY DEF Table, EmptyTable
  <2>2. TablesOf(rows) /\ TablesOf(sealed) /\ TablesOf(staged) /\ TablesOf(receipt)
    BY <1>1, <2>1 DEF TablesOf
  <2>3. fence \in [Gens -> Fence]
    BY RelocationAssumption DEF NoFence, Fence, FenceStates
  <2>4. worker \in [Workers -> Finalizer]
    BY DEF Finalizer
  <2> QED BY <2>2, <2>3, <2>4 DEF Types
<1>4. 1 \in Gens /\ \A g \in Gens : Routed(g) <=> g = 1
  BY <1>2, StoreAssumption DEF Gens
<1> HIDE DEF Init, StoreInit
<1>5. AuthorityRouted /\ ArrivingNotRouted /\ SourceRouted /\ CleanedIsLeft
  BY <1>2 DEF AuthorityRouted, ArrivingNotRouted, SourceRouted, CleanedIsLeft, Arriving, SourceStates
<1>6. ClosedBehind
  BY <1>4, GenFacts DEF ClosedBehind
<1>7. Current(1)
  BY <1>2, <1>4 DEF Current
<1>8. Owners
  BY <1>4, <1>5, <1>6, <1>7 DEF Owners, HasCurrent
<1>9. UnsealedEmpty /\ PassedTerminal /\ SealedPrefix /\ FrozenSealed /\ SealedQuiet
  BY <1>1, <1>2 DEF UnsealedEmpty, PassedTerminal, SealedPrefix, FrozenSealed, SealedQuiet, Sealing
<1>10. CeremoniesPast
  BY <1>1, KeyFacts DEF CeremoniesPast, EmptyTable
<1>11. Source
  BY <1>9, <1>10 DEF Source
<1>12. Destination
  <2>1. chunks = {}
    BY DEF Init
  <2> QED BY <1>1, <1>2, <2>1
          DEF Destination, EmptyBefore, PreparedEmpty, ChunksOfFrozen, ReceiptOfFrozen, RestoredPrefix,
              Filling
<1>13. Knowledge
  <2>1. (\A q \in Requests : handed[q] = 0) /\ revoked = {}
    BY DEF Init, StoreInit
  <2>2. CurrentKnows /\ SingleExecution
    BY <2>1 DEF CurrentKnows, Executed, Revoked, SingleExecution
  <2>3. PoolInherited
    BY <1>1, KeyFacts DEF PoolInherited, EmptyTable
  <2> QED BY <2>2, <2>3 DEF Knowledge
<1> QED BY <1>3, <1>8, <1>11, <1>12, <1>13 DEF ExecutionInv

LEMMA NextKeeps == ExecutionInv /\ [Next]_vars => ExecutionInv'
<1> SUFFICES ASSUME ExecutionInv, [Next]_vars PROVE ExecutionInv'
  OBVIOUS
<1>1. CASE StoreNext /\ UNCHANGED transferVars
  BY <1>1, StoreKeeps
<1>2. CASE RelocationNext
  <2>1. ASSUME NEW g \in Gens, NEW m \in Moves,
               \/ FreezeDrains(g, m) \/ FreezeInvalidates(g, m) \/ FreezeSeals(g, m)
        PROVE  ExecutionInv'
    BY <2>1, FreezeDrainsKeeps, FreezeInvalidatesKeeps, FreezeSealsKeeps
  <2>2. ASSUME NEW g \in Gens, NEW m \in Moves,
               PrepareImport(g, m) \/ Verify(g, m) \/ ActivateImport(g, m)
        PROVE  ExecutionInv'
    BY <2>2, PrepareImportKeeps, VerifyKeeps, ActivateImportKeeps
  <2>3. ASSUME NEW g \in Gens, NEW m \in Moves,
               CleanupRows(g, m) \/ CleanupPages(g, m) \/ CleanupEnds(g, m)
        PROVE  ExecutionInv'
    BY <2>3, CleanupKeeps
  <2>4. ASSUME NEW g \in Gens, NEW segment \in 0..(Segments - 1), Export(g, segment)
        PROVE  ExecutionInv'
    BY <2>4, ExportKeeps
  <2> QED BY <1>2, <2>1, <2>2, <2>3, <2>4 DEF RelocationNext
<1>3. ASSUME NEW c \in chunks, ImportChunk(c) PROVE ExecutionInv'
  BY <1>3, ImportChunkKeeps
<1>4. CASE UNCHANGED vars
  <2>1. /\ worker' \in [Workers -> Finalizer] /\ settled' \in [Gens -> SUBSET Sessions]
        /\ UNCHANGED <<rows, authority, fence, imported, handed, revoked, transferVars>>
    BY <1>4 DEF vars, storeVars, ExecutionInv, Types
  <2> QED BY <2>1, QuietKeeps
<1> QED BY <1>1, <1>2, <1>3, <1>4 DEF Next

(***************************************************************************)
(* The invariant the other results rest on holds in every reachable state. *)
(***************************************************************************)
THEOREM ExecutionInductive == Spec => []ExecutionInv
BY InitKeeps, NextKeeps, PTL DEF Spec

-----------------------------------------------------------------------------
(* What the wallet promises *)

(***************************************************************************)
(* Records, fences, cursors and finalize requests keep their shape at      *)
(* every object, through restores and deletions.                           *)
(***************************************************************************)
THEOREM TypeCorrect == Spec => []TypeOK
<1>1. ExecutionInv => TypeOK
  <2> SUFFICES ASSUME ExecutionInv PROVE TypeOK
    OBVIOUS
  <2>1. \A g \in Gens, k \in Keys : Has(g, k) => RowOk(k, rows[g][k])
    BY DEF ExecutionInv, Types, TablesOf, Table
  <2>2. \A w \in Workers : worker[w] \in Finalizer
    BY DEF ExecutionInv, Types
  <2>3. /\ authority \in [Gens -> {"none", "registration", "relocation", "empty"}]
        /\ fence \in [Gens -> Fence] /\ imported \in [Gens -> Moves \cup {NoMove}]
        /\ settled \in [Gens -> SUBSET Sessions] /\ handed \in [Requests -> Nat]
        /\ revoked \subseteq LinkedMaterials
    BY DEF ExecutionInv, Types
  <2> QED BY <2>1, <2>2, <2>3 DEF TypeOK, RowOk, Finalizer, Fence
<1> QED BY <1>1, ExecutionInductive, PTL

(***************************************************************************)
(* claim_and_consume_effect hands secret material to a request at most     *)
(* once, and to at most one of the requests that share an operation, an    *)
(* authorization or a presignature, however many generations the wallet    *)
(* moves through and whatever is retried, delayed, repeated or deleted.    *)
(***************************************************************************)
THEOREM SpendsOnce == Spec => []SingleExecution
<1>1. ExecutionInv => SingleExecution
  BY DEF ExecutionInv, Knowledge
<1> QED BY <1>1, ExecutionInductive, PTL

(***************************************************************************)
(* An object that would execute a request now has the effect row and the   *)
(* used presignature of every execution of the past, including those of    *)
(* objects that were deleted since: restore and cleanup lose none of them. *)
(***************************************************************************)
THEOREM RemembersExecutions == Spec => []ExecutionsRemembered
<1>1. ExecutionInv => ExecutionsRemembered
  <2> SUFFICES ASSUME ExecutionInv, NEW g \in Writers, NEW q \in Requests, handed[q] > 0
               PROVE  /\ Has(g, EffectKey(OpOf[q])) /\ rows[g][EffectKey(OpOf[q])].request = q
                      /\ Has(g, PoolKey(PresigOf[q]))
                      /\ rows[g][PoolKey(PresigOf[q])] = [status |-> "used", owner |-> q]
    BY DEF ExecutionsRemembered
  <2>1. g \in Gens /\ authority[g] # "none" /\ fence[g].state = "none"
    BY DEF Writers, MayExecute
  <2>2. Routed(g) /\ fence[g].state \notin Closed
    BY <2>1, ExecutingIsRouted DEF Closed
  <2>3. Executed(rows[g])
    BY <2>1, <2>2, WorkingIsCurrent DEF ExecutionInv, Knowledge, CurrentKnows
  <2>4. [status |-> "used", owner |-> q] # NoRow
    BY RowAssumption DEF PoolRows
  <2> QED BY <2>3, <2>4 DEF Executed
<1> QED BY <1>1, ExecutionInductive, PTL

(***************************************************************************)
(* What seal_ecdsa_snapshot wrote over many transactions is, once the      *)
(* freeze ends, exactly the source's records, none of them live and each   *)
(* one a record the destination's restore accepts.                         *)
(***************************************************************************)
THEOREM SnapshotFaithful == Spec => []FrozenFaithful
<1>1. ExecutionInv => FrozenFaithful
  <2> SUFFICES ASSUME ExecutionInv, NEW g \in Gens, fence[g].state = "frozen"
               PROVE  /\ sealed[g] = rows[g]
                      /\ \A k \in RowsOf(rows[g]) : MayRestore(g, k, rows[g][k])
    BY DEF FrozenFaithful
  <2>1. sealed[g] = rows[g]
    BY DEF ExecutionInv, Source, FrozenSealed
  <2>2. Quiet(rows[g])
    BY DEF ExecutionInv, Source, SealedQuiet, Sealing
  <2>3. ASSUME NEW k \in RowsOf(rows[g]) PROVE MayRestore(g, k, rows[g][k])
    <3>1. k \in Keys /\ Has(g, k)
      BY DEF RowsOf
    <3>2. k[1] = "ceremony" => rows[g][k] <= g
      BY <3>1, KeyFacts DEF ExecutionInv, Source, CeremoniesPast
    <3> QED BY <2>2, <3>1, <3>2 DEF MayRestore, Quiet, Terminal
  <2> QED BY <2>1, <2>3
<1> QED BY <1>1, ExecutionInductive, PTL

(***************************************************************************)
(* require_linked_material_unrevoked refuses every consumption after the   *)
(* device's revocation, at the object that recorded it and at every later  *)
(* one, also for a finalize request that loaded the material before.       *)
(***************************************************************************)
THEOREM RevocationRespected == Spec => RevocationFinal
<1> DEFINE A == \A q \in Requests : handed'[q] # handed[q] => MaterialFor(q) \notin revoked
<1>1. ExecutionInv /\ [Next]_vars => [A]_vars
  <2> SUFFICES ASSUME ExecutionInv, Next, NEW q \in Requests, handed'[q] # handed[q]
               PROVE  MaterialFor(q) \notin revoked
    BY DEF A
  <2>1. PICK w \in Workers : Claim(w)
    <3>1. ~RelocationNext
      <4> USE DEF vars, storeVars
      <4>1. \A g \in Gens, m \in Moves :
              ~FreezeDrains(g, m) /\ ~FreezeInvalidates(g, m) /\ ~FreezeSeals(g, m)
        BY DEF FreezeDrains, FreezeInvalidates, FreezeSeals
      <4>2. \A g \in Gens, m \in Moves :
              ~PrepareImport(g, m) /\ ~Verify(g, m) /\ ~ActivateImport(g, m)
        BY DEF PrepareImport, Verify, ActivateImport
      <4>3. \A g \in Gens, m \in Moves :
              ~CleanupRows(g, m) /\ ~CleanupPages(g, m) /\ ~CleanupEnds(g, m)
        BY DEF CleanupRows, CleanupPages, CleanupEnds
      <4>4. \A g \in Gens, segment \in 0..(Segments - 1) : ~Export(g, segment)
        BY DEF Export
      <4> QED BY <4>1, <4>2, <4>3, <4>4 DEF RelocationNext
    <3>2. \A c \in chunks : ~ImportChunk(c)
      BY DEF ImportChunk
    <3>3. StoreNext
      BY <3>1, <3>2 DEF Next
    <3> QED BY <3>3 DEF StoreNext, Register, StartCeremony, Publish, Prepare, BurnReservation,
                        ReserveLinked, ActivateLinked, DeactivateLinked, RegisterSession,
                        SettleSession, LoadMaterial, ClaimBurns, ClaimAnswered, Commit, WorkerFails
  <2>2. PICK g \in Gens, r \in Requests : g = worker[w].gen /\ r = worker[w].request
    BY <2>1, WorkerShape DEF Claim
  <2>3. /\ q = r /\ authority[g] # "none" /\ LinkedUnrevoked(g, MaterialFor(r))
        /\ fence[g].state = "none"
    BY <2>1, <2>2 DEF Claim, ClaimAdmitted, MayExecute, ExecutionInv, Types
  <2>4. Revoked(rows[g])
    <3>1. Routed(g) /\ fence[g].state \notin Closed
      BY <2>3, ExecutingIsRouted DEF Closed
    <3> QED BY <3>1, WorkingIsCurrent DEF ExecutionInv, Knowledge, CurrentKnows
  <2>5. revoked \subseteq LinkedMaterials /\ NoRow # "revoked"
    BY RowAssumption DEF ExecutionInv, Types
  <2> QED BY <2>3, <2>4, <2>5 DEF LinkedUnrevoked, Revoked
<1> QED BY <1>1, ExecutionInductive, PTL DEF Spec, RevocationFinal, A

-----------------------------------------------------------------------------
(* One wallet in many objects *)

StatusOf(row) == IF row = NoRow THEN "none" ELSE row.status
OwnerOf(row) == IF row = NoRow THEN NoRequest ELSE row.owner

\* The newest object with a presignature's row agrees with the owner.
OwnerTells ==
    \A c \in Gens : Current(c) =>
        /\ walletStatus = [p \in Presigs |-> StatusOf(rows[c][PoolKey(p)])]
        /\ walletOwner = [p \in Presigs |-> OwnerOf(rows[c][PoolKey(p)])]

\* Past the owner there is at most the object being restored from it.
LEMMA LaterIsCopy ==
    ASSUME ExecutionInv, NEW c \in Gens, Current(c), NEW g \in Gens, g > c,
           NEW k \in Keys, Has(g, k)
    PROVE  g = c + 1 /\ rows[g][k] = rows[c][k]
<1>1. ~Routed(g)
  BY GenFacts DEF Current
<1>2. fence[g].state \in {"restoring", "verified"}
  <2>1. fence[g].state \in FenceStates
    BY DEF ExecutionInv, Types, Fence
  <2>2. fence[g].state \notin SourceStates
    BY <1>1 DEF ExecutionInv, Owners, SourceRouted
  <2>3. fence[g].state \notin {"none", "prepared", "importing"}
    BY <1>1 DEF ExecutionInv, Destination, EmptyBefore, EmptyTable
  <2> QED BY <2>1, <2>2, <2>3 DEF FenceStates, SourceStates
<1>3. /\ g - 1 \in Gens /\ fence[g - 1].state = "frozen" /\ receipt[g] = sealed[g - 1]
      /\ staged[g][k] \in {NoRow, receipt[g][k]}
  BY <1>2 DEF ExecutionInv, Destination, ReceiptOfFrozen, Filling
<1>4. receipt[g] = rows[g - 1] /\ Routed(g - 1)
  BY <1>3 DEF ExecutionInv, Source, FrozenSealed, Owners, SourceRouted, SourceStates
<1>5. g - 1 = c /\ g = c + 1
  <2>1. ~(g - 1 > c)
    BY <1>3, <1>4, GenFacts DEF Current
  <2> QED BY <1>3, <2>1, GenFacts
<1>6. rows[g][k] = receipt[g][k]
  BY <1>2, <1>3 DEF ExecutionInv, Destination, RestoredPrefix
<1> QED BY <1>4, <1>5, <1>6

LEMMA OwnerTellsStatus == ExecutionInv => OwnerTells
<1> SUFFICES ASSUME ExecutionInv, NEW c \in Gens, Current(c)
             PROVE  /\ walletStatus = [p \in Presigs |-> StatusOf(rows[c][PoolKey(p)])]
                    /\ walletOwner = [p \in Presigs |-> OwnerOf(rows[c][PoolKey(p)])]
  BY DEF OwnerTells
<1>1. ASSUME NEW p \in Presigs
      PROVE  \/ Holders(p) = {} /\ rows[c][PoolKey(p)] = NoRow
             \/ /\ Holders(p) # {} /\ rows[c][PoolKey(p)] # NoRow
                /\ rows[Newest(p)][PoolKey(p)] = rows[c][PoolKey(p)]
  <2>1. PoolKey(p) \in PoolKeys /\ PoolKey(p) \in Keys
    BY KeyFacts
  <2>2. \A g \in Holders(p) : /\ g \in Gens /\ Has(g, PoolKey(p)) /\ Has(c, PoolKey(p))
                              /\ g > c => g = c + 1
                              /\ g >= c => rows[g][PoolKey(p)] = rows[c][PoolKey(p)]
    <3> SUFFICES ASSUME NEW g \in Holders(p)
                 PROVE  /\ Has(c, PoolKey(p))
                        /\ g > c => g = c + 1
                        /\ g >= c => rows[g][PoolKey(p)] = rows[c][PoolKey(p)]
      BY DEF Holders
    <3>1. g \in Gens /\ Has(g, PoolKey(p))
      BY DEF Holders
    <3>2. CASE g < c
      BY <2>1, <3>1, <3>2, GenFacts DEF ExecutionInv, Knowledge, PoolInherited
    <3>3. CASE g = c
      BY <3>1, <3>3, GenFacts
    <3>4. CASE g > c
      BY <2>1, <3>1, <3>4, LaterIsCopy
    <3> QED BY <3>1, <3>2, <3>3, <3>4, GenFacts
  <2>3. CASE ~Has(c, PoolKey(p))
    BY <2>2, <2>3
  <2>4. CASE Has(c, PoolKey(p))
    <3>1. c \in Holders(p)
      BY <2>4 DEF Holders
    <3>2. \E g \in Holders(p) : \A h \in Holders(p) : h <= g
      <4>0. c \in Nat /\ \A h \in Holders(p) : h \in Nat /\ (h <= c \/ h = c + 1)
        <5>1. Gens \subseteq Nat /\ c \in Nat
          BY GenFacts
        <5>2. ASSUME NEW h \in Holders(p) PROVE h \in Nat /\ (h <= c \/ h = c + 1)
          <6>1. h \in Nat /\ (h > c => h = c + 1)
            BY <2>2, <5>1
          <6> QED BY <5>1, <6>1
        <5> QED BY <5>1, <5>2
      <4>1. CASE c + 1 \in Holders(p)
        <5>1. \A h \in Holders(p) : h <= c + 1
          BY <4>0
        <5> QED BY <4>1, <5>1
      <4>2. CASE c + 1 \notin Holders(p)
        <5>1. \A h \in Holders(p) : h <= c
          BY <4>0, <4>2
        <5> QED BY <3>1, <5>1
      <4> QED BY <4>1, <4>2
    <3>3. Newest(p) \in Holders(p) /\ \A h \in Holders(p) : h <= Newest(p)
      BY <3>2 DEF Newest
    <3> HIDE DEF Newest
    <3>4. rows[Newest(p)][PoolKey(p)] = rows[c][PoolKey(p)]
      BY <2>2, <3>1, <3>3, GenFacts
    <3> QED BY <2>4, <3>1, <3>4
  <2> QED BY <2>3, <2>4
<1> QED BY <1>1 DEF walletStatus, walletOwner, StatusOf, OwnerOf

LEMMA OwnerTellsNext == ExecutionInv' => OwnerTells'
BY OwnerTellsStatus, PTL

\* The owner's pool rows are what they were.
LEMMA SamePool ==
    ASSUME ExecutionInv, ExecutionInv', UNCHANGED imported,
           \A g \in Gens, k \in PoolKeys : Current(g) => rows'[g][k] = rows[g][k]
    PROVE  UNCHANGED WalletView!abstractVars
<1>1. PICK c \in Gens : Current(c) /\ Current(c)'
  BY DEF ExecutionInv, Owners, HasCurrent, Current
<1>2. /\ walletStatus = [p \in Presigs |-> StatusOf(rows[c][PoolKey(p)])]
      /\ walletOwner = [p \in Presigs |-> OwnerOf(rows[c][PoolKey(p)])]
      /\ walletStatus' = [p \in Presigs |-> StatusOf(rows'[c][PoolKey(p)])]
      /\ walletOwner' = [p \in Presigs |-> OwnerOf(rows'[c][PoolKey(p)])]
  BY <1>1, OwnerTellsStatus, OwnerTellsNext DEF OwnerTells, StatusOf, OwnerOf
<1>3. \A p \in Presigs : rows'[c][PoolKey(p)] = rows[c][PoolKey(p)]
  BY <1>1, KeyFacts
<1> QED BY <1>2, <1>3 DEF WalletView!abstractVars

\* The owner writes the row of one presignature.
LEMMA OnePoolRow ==
    ASSUME ExecutionInv, ExecutionInv', UNCHANGED imported,
           NEW c \in Gens, Current(c), NEW p \in Presigs, NEW row, row # NoRow,
           rows'[c][PoolKey(p)] = row,
           \A k \in PoolKeys : k # PoolKey(p) => rows'[c][k] = rows[c][k]
    PROVE  /\ walletStatus[p] = StatusOf(rows[c][PoolKey(p)])
           /\ walletOwner[p] = OwnerOf(rows[c][PoolKey(p)])
           /\ walletStatus = [r \in Presigs |-> walletStatus[r]]
           /\ walletStatus' = [walletStatus EXCEPT ![p] = row.status]
           /\ walletOwner' = [walletOwner EXCEPT ![p] = row.owner]
           /\ row.owner = OwnerOf(rows[c][PoolKey(p)]) => UNCHANGED walletOwner
<1>1. Current(c)'
  BY DEF Current
<1>2. /\ walletStatus = [r \in Presigs |-> StatusOf(rows[c][PoolKey(r)])]
      /\ walletOwner = [r \in Presigs |-> OwnerOf(rows[c][PoolKey(r)])]
      /\ walletStatus' = [r \in Presigs |-> StatusOf(rows'[c][PoolKey(r)])]
      /\ walletOwner' = [r \in Presigs |-> OwnerOf(rows'[c][PoolKey(r)])]
  BY <1>1, OwnerTellsStatus, OwnerTellsNext DEF OwnerTells, StatusOf, OwnerOf
<1>3. \A r \in Presigs : r # p => rows'[c][PoolKey(r)] = rows[c][PoolKey(r)]
  <2>1. \A r \in Presigs : r # p => PoolKey(r) # PoolKey(p)
    BY DEF PoolKey
  <2> QED BY <2>1, KeyFacts
<1>4. \A r \in Presigs :
        /\ walletStatus'[r] = IF r = p THEN row.status ELSE walletStatus[r]
        /\ walletOwner'[r] = IF r = p THEN row.owner ELSE walletOwner[r]
  BY <1>2, <1>3 DEF StatusOf, OwnerOf
<1>5. /\ walletStatus' = [walletStatus EXCEPT ![p] = row.status]
      /\ walletOwner' = [walletOwner EXCEPT ![p] = row.owner]
  BY <1>2, <1>4
<1>6. /\ walletStatus[p] = StatusOf(rows[c][PoolKey(p)])
      /\ walletOwner[p] = OwnerOf(rows[c][PoolKey(p)])
      /\ walletStatus = [r \in Presigs |-> walletStatus[r]]
  BY <1>2
<1>7. ASSUME row.owner = OwnerOf(rows[c][PoolKey(p)]) PROVE UNCHANGED walletOwner
  <2>1. \A r \in Presigs : walletOwner'[r] = walletOwner[r]
    BY <1>4, <1>6, <1>7
  <2>2. /\ walletOwner = [r \in Presigs |-> walletOwner[r]]
        /\ walletOwner' = [r \in Presigs |-> walletOwner'[r]]
    BY <1>2
  <2> QED BY <2>1, <2>2
<1> QED BY <1>5, <1>6, <1>7

\* A row of another family.
LEMMA OtherRow ==
    ASSUME ExecutionInv, ExecutionInv', NEW g \in Gens, NEW k \in Keys, k \notin PoolKeys,
           NEW row, Insert(g, k, row), UNCHANGED imported
    PROVE  UNCHANGED WalletView!abstractVars
<1>1. \A h \in Gens : rows[h] = [j \in Keys |-> rows[h][j]]
  BY DEF ExecutionInv, Types, TablesOf, Table
<1>2. /\ rows'[g] = [rows[g] EXCEPT ![k] = row]
      /\ \A h \in Gens : h # g => rows'[h] = rows[h]
  BY DEF Insert, ExecutionInv, Types, TablesOf
<1>3. \A h \in Gens, j \in PoolKeys : rows'[h][j] = rows[h][j]
  BY <1>1, <1>2, KeyFacts
<1> QED BY <1>3, SamePool

\* What the owner's transactions on a presignature are to the wallet.
LEMMA PoolTransactions ==
    ASSUME ExecutionInv, ExecutionInv', NEW g \in Gens,
           \/ \E p \in Presigs : Publish(g, p)
           \/ \E q \in Requests : Prepare(g, q) \/ BurnReservation(g, q)
    PROVE  WalletView!Next
<1>0. TablesOf(rows)
  BY DEF ExecutionInv, Types
<1>1. ASSUME NEW p \in Presigs, Publish(g, p) PROVE WalletView!Next
  <2>1. PICK row : row = [status |-> "held", owner |-> NoRequest]
    OBVIOUS
  <2>2. /\ authority[g] # "none" /\ Open(g) /\ rows[g][PoolKey(p)] = NoRow
        /\ Insert(g, PoolKey(p), row) /\ UNCHANGED imported
    BY <1>1, <2>1 DEF Publish, MayExecute
  <2>3. Current(g)
    BY <2>2, ExecutingIsRouted, WorkingIsCurrent DEF ExecutionInv, Closed
  <2>4. PoolKey(p) \in PoolKeys /\ PoolKey(p) \in Keys /\ RowOk(PoolKey(p), row) /\ row # NoRow
    BY <2>1, KeyFacts, RowShapes
  <2>5. /\ \A h \in Gens : h # g => rows'[h] = rows[h]
        /\ \A j \in Keys : rows'[g][j] = IF j = PoolKey(p) THEN row ELSE rows[g][j]
    BY <1>0, <2>2, <2>4, InsertRow
  <2>6. /\ rows'[g][PoolKey(p)] = row
        /\ \A k \in PoolKeys : k # PoolKey(p) => rows'[g][k] = rows[g][k]
    BY <2>4, <2>5, KeyFacts
  <2>7. /\ walletStatus[p] = "none"
        /\ walletStatus' = [walletStatus EXCEPT ![p] = "held"]
        /\ UNCHANGED walletOwner
    BY <2>1, <2>2, <2>3, <2>4, <2>6, OnePoolRow DEF StatusOf, OwnerOf
  <2> QED BY <2>7 DEF WalletView!Next, WalletView!Admit
<1>2. ASSUME NEW q \in Requests, Prepare(g, q) \/ BurnReservation(g, q) PROVE WalletView!Next
  <2>1. PICK p \in Presigs : p = PresigOf[q]
    BY StoreAssumption
  <2>2. PICK st \in {"bound", "gone"} :
          /\ st = "bound" <=> Prepare(g, q)
          /\ rows[g][PoolKey(p)] =
               IF st = "bound" THEN [status |-> "held", owner |-> NoRequest]
               ELSE [status |-> "bound", owner |-> q]
          /\ Insert(g, PoolKey(p), [status |-> st, owner |-> q])
          /\ Open(g) /\ UNCHANGED imported
    <3>1. CASE Prepare(g, q)
      BY <2>1, <3>1 DEF Prepare
    <3>2. CASE ~Prepare(g, q)
      BY <1>2, <2>1, <3>2 DEF BurnReservation
    <3> QED BY <3>1, <3>2
  <2>3. PICK row : row = [status |-> st, owner |-> q]
    OBVIOUS
  <2>4. /\ PoolKey(p) \in PoolKeys /\ PoolKey(p) \in Keys /\ RowOk(PoolKey(p), row) /\ row # NoRow
        /\ rows[g][PoolKey(p)] # NoRow
    <3>1. PoolKey(p) \in PoolKeys /\ PoolKey(p) \in Keys
      BY KeyFacts
    <3>2. \A s \in {"held", "bound", "used", "gone"}, r \in Requests \cup {NoRequest} :
            /\ RowOk(PoolKey(p), [status |-> s, owner |-> r])
            /\ [status |-> s, owner |-> r] # NoRow
      BY <3>1, RowShapes
    <3> QED BY <2>2, <2>3, <3>1, <3>2
  <2>5. Current(g)
    BY <2>2, <2>4, OpenWithRowIsRouted, WorkingIsCurrent DEF ExecutionInv, Closed
  <2>6. /\ rows'[g][PoolKey(p)] = row
        /\ \A k \in PoolKeys : k # PoolKey(p) => rows'[g][k] = rows[g][k]
    <3>1. Insert(g, PoolKey(p), row)
      BY <2>2, <2>3
    <3>2. \A j \in Keys : rows'[g][j] = IF j = PoolKey(p) THEN row ELSE rows[g][j]
      BY <1>0, <2>4, <3>1, InsertRow
    <3> QED BY <2>4, <3>2, KeyFacts
  <2>7. /\ walletStatus[p] = rows[g][PoolKey(p)].status
        /\ walletStatus = [r \in Presigs |-> walletStatus[r]]
        /\ walletStatus' = [walletStatus EXCEPT ![p] = st]
        /\ walletOwner' = [walletOwner EXCEPT ![p] = q]
        /\ q = rows[g][PoolKey(p)].owner => UNCHANGED walletOwner
    BY <2>2, <2>3, <2>4, <2>5, <2>6, OnePoolRow DEF StatusOf, OwnerOf
  <2>8. CASE st = "bound"
    <3>1. walletStatus[p] = "held"
      BY <2>2, <2>7, <2>8
    <3>2. WalletView!Bind(p, q)
      BY <2>7, <2>8, <3>1 DEF WalletView!Bind
    <3> QED BY <3>2 DEF WalletView!Next
  <2>9. CASE st = "gone"
    <3>1. UNCHANGED walletOwner /\ walletStatus[p] = "bound"
      BY <2>2, <2>7, <2>9
    <3>2. WalletView!Burn({p})
      BY <2>7, <2>9, <3>1 DEF WalletView!Burn
    <3> QED BY <3>2 DEF WalletView!Next
  <2> QED BY <2>8, <2>9
<1> QED BY <1>1, <1>2

LEMMA ClaimTransactions ==
    ASSUME ExecutionInv, ExecutionInv', NEW w \in Workers, Claim(w) \/ ClaimBurns(w)
    PROVE  WalletView!Next
<1>1. PICK g \in Gens, q \in Requests : g = worker[w].gen /\ q = worker[w].request
  BY WorkerShape DEF Claim, ClaimBurns
<1>2. PICK p \in Presigs : p = PresigOf[q]
  BY StoreAssumption
<1>3. /\ authority[g] # "none" /\ Open(g) /\ Has(g, PoolKey(p))
      /\ rows[g][PoolKey(p)].status = "bound" /\ UNCHANGED imported
  BY <1>1, <1>2 DEF Claim, ClaimBurns, ClaimAdmitted, MayExecute
<1>4. Current(g)
  BY <1>3, ExecutingIsRouted, WorkingIsCurrent DEF ExecutionInv, Closed
<1>5. /\ PoolKey(p) \in PoolKeys /\ PoolKey(p) \in Keys
      /\ EffectKey(OpOf[q]) \in Keys /\ EffectKey(OpOf[q]) \notin PoolKeys
  BY KeyFacts
<1>6. rows[g][PoolKey(p)].owner \in Requests \cup {NoRequest}
  BY <1>3, <1>5 DEF ExecutionInv, Types, TablesOf, Table, RowOk, PoolRows
<1>7. TablesOf(rows) /\ rows[g] = [j \in Keys |-> rows[g][j]]
  BY DEF ExecutionInv, Types, TablesOf, Table
<1>8. CASE Claim(w)
  <2>1. PICK used : used = [status |-> "used", owner |-> q]
    OBVIOUS
  <2>2. PICK effect : effect = [request |-> q, gen |-> g, done |-> FALSE]
    OBVIOUS
  <2>3. rows' = ClaimedRows(g, q) /\ rows[g][PoolKey(p)].owner = q
    BY <1>1, <1>2, <1>8 DEF Claim
  <2>4. rows'[g] = [[rows[g] EXCEPT ![PoolKey(p)] = used] EXCEPT ![EffectKey(OpOf[q])] = effect]
    BY <1>2, <1>7, <2>1, <2>2, <2>3 DEF ClaimedRows, TablesOf
  <2>5. /\ rows'[g][PoolKey(p)] = used
        /\ \A k \in PoolKeys : k # PoolKey(p) => rows'[g][k] = rows[g][k]
    BY <1>5, <1>7, <2>4, KeyFacts
  <2>6. used # NoRow /\ used.status = "used" /\ used.owner = q
    BY <1>5, <2>1, RowShapes
  <2>7. /\ walletStatus[p] = "bound"
        /\ walletStatus' = [walletStatus EXCEPT ![p] = "used"]
        /\ UNCHANGED walletOwner
    BY <1>3, <1>4, <2>3, <2>5, <2>6, OnePoolRow DEF StatusOf, OwnerOf
  <2>8. WalletView!Use(p)
    BY <2>7 DEF WalletView!Use
  <2> QED BY <2>8 DEF WalletView!Next
<1>9. CASE ClaimBurns(w)
  <2>1. PICK row : row = [status |-> "gone", owner |-> rows[g][PoolKey(p)].owner]
    OBVIOUS
  <2>2. Insert(g, PoolKey(p), row)
    BY <1>1, <1>2, <1>9, <2>1 DEF ClaimBurns
  <2>3. /\ row # NoRow /\ RowOk(PoolKey(p), row)
        /\ row.status = "gone" /\ row.owner = rows[g][PoolKey(p)].owner
    BY <1>5, <1>6, <2>1, RowShapes
  <2>4. \A j \in Keys : rows'[g][j] = IF j = PoolKey(p) THEN row ELSE rows[g][j]
    BY <1>5, <1>7, <2>2, <2>3, InsertRow
  <2>5. /\ rows'[g][PoolKey(p)] = row
        /\ \A k \in PoolKeys : k # PoolKey(p) => rows'[g][k] = rows[g][k]
    BY <1>5, <2>4, KeyFacts
  <2>6. /\ walletStatus[p] = "bound"
        /\ walletStatus = [r \in Presigs |-> walletStatus[r]]
        /\ walletStatus' = [walletStatus EXCEPT ![p] = "gone"]
        /\ UNCHANGED walletOwner
    BY <1>3, <1>4, <2>3, <2>5, OnePoolRow DEF StatusOf, OwnerOf
  <2>7. WalletView!Burn({p})
    BY <2>6 DEF WalletView!Burn
  <2> QED BY <2>7 DEF WalletView!Next
<1> QED BY <1>8, <1>9

\* A freeze burns what is live in its batch.
LEMMA InvalidationBurns ==
    ASSUME ExecutionInv, ExecutionInv', NEW g \in Gens, NEW m \in Moves, FreezeInvalidates(g, m)
    PROVE  WalletView!Next
<1>1. PICK S \in Batches((RowsOf(rows[g]) \cap PoolKeys) \ fence[g].passed) :
        rows' = [rows EXCEPT ![g] = InvalidatedRows(g, S)]
  BY DEF FreezeInvalidates
<1>2. /\ FreezeAuthority(g) /\ UNCHANGED imported
      /\ fence[g].state \in {"none", "draining", "invalidating"}
  BY DEF FreezeInvalidates
<1>3. Current(g) /\ Current(g)'
  <2>1. Routed(g)
    BY <1>2, FreezeAuthorityFacts
  <2>2. Current(g)
    BY <1>2, <2>1, WorkingIsCurrent DEF ExecutionInv, Closed
  <2> QED BY <1>2, <2>2 DEF Current
<1>4. S \subseteq PoolKeys /\ \A k \in S : Has(g, k)
  BY DEF Batches, RowsOf
<1>5. \A k \in Keys : rows'[g][k] = IF k \in S THEN Invalidated(rows[g][k]) ELSE rows[g][k]
  BY <1>1 DEF InvalidatedRows, ExecutionInv, Types, TablesOf
<1>6. /\ walletStatus = [p \in Presigs |-> StatusOf(rows[g][PoolKey(p)])]
      /\ walletOwner = [p \in Presigs |-> OwnerOf(rows[g][PoolKey(p)])]
      /\ walletStatus' = [p \in Presigs |-> StatusOf(rows'[g][PoolKey(p)])]
      /\ walletOwner' = [p \in Presigs |-> OwnerOf(rows'[g][PoolKey(p)])]
  BY <1>3, OwnerTellsStatus, OwnerTellsNext DEF OwnerTells, StatusOf, OwnerOf
<1> DEFINE B == {p \in Presigs : /\ PoolKey(p) \in S
                                 /\ rows[g][PoolKey(p)].status \in {"held", "bound"}}
<1>7. ASSUME NEW p \in Presigs
      PROVE  /\ OwnerOf(rows'[g][PoolKey(p)]) = OwnerOf(rows[g][PoolKey(p)])
             /\ p \in B => StatusOf(rows[g][PoolKey(p)]) \in {"held", "bound"}
             /\ StatusOf(rows'[g][PoolKey(p)]) =
                  IF p \in B THEN "gone" ELSE StatusOf(rows[g][PoolKey(p)])
  <2>1. PoolKey(p) \in Keys /\ PoolKey(p) \in PoolKeys
    BY KeyFacts
  <2>2. CASE PoolKey(p) \notin S
    BY <1>5, <2>1, <2>2
  <2>3. CASE PoolKey(p) \in S
    <3>1. PICK row : row = rows[g][PoolKey(p)]
      OBVIOUS
    <3>2. row \in PoolRows /\ row # NoRow
      BY <1>4, <2>1, <2>3, <3>1 DEF ExecutionInv, Types, TablesOf, Table, RowOk
    <3>3. rows'[g][PoolKey(p)] = Invalidated(row)
      BY <1>5, <2>1, <2>3, <3>1
    <3>4. Invalidated(row) \in PoolRows /\ Invalidated(row).owner = row.owner
          /\ Invalidated(row).status =
               IF row.status \in {"held", "bound"} THEN "gone" ELSE row.status
      BY <3>2 DEF Invalidated, PoolRows
    <3>5. Invalidated(row) # NoRow
      BY <3>4, RowAssumption
    <3> QED BY <2>3, <3>1, <3>2, <3>3, <3>4, <3>5 DEF StatusOf, OwnerOf
  <2> QED BY <2>2, <2>3
<1> HIDE DEF B
<1>8. /\ \A p \in B : walletStatus[p] \in {"held", "bound"}
      /\ walletStatus' = [p \in Presigs |-> IF p \in B THEN "gone" ELSE walletStatus[p]]
      /\ UNCHANGED walletOwner
      /\ B \in SUBSET Presigs
  <2>1. B \in SUBSET Presigs
    BY DEF B
  <2> QED BY <1>6, <1>7, <2>1
<1>9. WalletView!Burn(B)
  BY <1>8 DEF WalletView!Burn
<1> QED BY <1>8, <1>9 DEF WalletView!Next

\* The rest of the store's transactions leave the presignatures alone.
LEMMA OtherTransactions ==
    ASSUME ExecutionInv, ExecutionInv', StoreNext,
           \A g \in Gens : /\ \A p \in Presigs : ~Publish(g, p)
                           /\ \A q \in Requests : ~Prepare(g, q) /\ ~BurnReservation(g, q),
           \A w \in Workers : ~Claim(w) /\ ~ClaimBurns(w)
    PROVE  UNCHANGED WalletView!abstractVars
<1>1. ASSUME NEW g \in Gens, NEW m \in OwnMaterials, Register(g, m)
      PROVE  UNCHANGED WalletView!abstractVars
  <2>1. /\ ActivationKey(m) \in Keys /\ ActivationKey(m) \notin PoolKeys
        /\ Insert(g, ActivationKey(m), "active") /\ UNCHANGED imported
    BY <1>1, KeyFacts DEF Register
  <2> QED BY <2>1, OtherRow
<1>2. ASSUME NEW g \in Gens, NEW p \in Presigs, StartCeremony(g, p)
      PROVE  UNCHANGED WalletView!abstractVars
  <2>1. /\ CeremonyKey(p) \in Keys /\ CeremonyKey(p) \notin PoolKeys
        /\ Insert(g, CeremonyKey(p), g) /\ UNCHANGED imported
    BY <1>2, KeyFacts DEF StartCeremony
  <2> QED BY <2>1, OtherRow
<1>3. ASSUME NEW g \in Gens, NEW m \in LinkedMaterials,
             \/ \E source \in Materials \ {m} : ReserveLinked(g, m, source)
             \/ ActivateLinked(g, m) \/ DeactivateLinked(g, m)
      PROVE  UNCHANGED WalletView!abstractVars
  <2>1. PICK st \in {"inactive", "active", "revoked"} :
          Insert(g, LinkedKey(m), st) /\ UNCHANGED imported
    BY <1>3 DEF ReserveLinked, ActivateLinked, DeactivateLinked
  <2>2. LinkedKey(m) \in Keys /\ LinkedKey(m) \notin PoolKeys
    BY KeyFacts
  <2> QED BY <2>1, <2>2, OtherRow
<1>4. ASSUME NEW g \in Gens, NEW s \in Sessions, RegisterSession(g, s)
      PROVE  UNCHANGED WalletView!abstractVars
  <2>1. /\ SessionKey(s) \in Keys /\ SessionKey(s) \notin PoolKeys
        /\ Insert(g, SessionKey(s), g) /\ UNCHANGED imported
    BY <1>4, KeyFacts DEF RegisterSession
  <2> QED BY <2>1, OtherRow
<1>5. ASSUME NEW w \in Workers, Commit(w) PROVE UNCHANGED WalletView!abstractVars
  <2>1. PICK g \in Gens, q \in Requests : g = worker[w].gen /\ q = worker[w].request
    BY <1>5, WorkerShape DEF Commit
  <2>2. PICK row : row = [request |-> q, gen |-> g, done |-> TRUE]
    OBVIOUS
  <2>3. /\ EffectKey(OpOf[q]) \in Keys /\ EffectKey(OpOf[q]) \notin PoolKeys
        /\ Insert(g, EffectKey(OpOf[q]), row) /\ UNCHANGED imported
    BY <1>5, <2>1, <2>2, KeyFacts DEF Commit
  <2> QED BY <2>3, OtherRow
<1>6. ASSUME UNCHANGED <<rows, imported>> PROVE UNCHANGED WalletView!abstractVars
  BY <1>6, SamePool
<1>7. ASSUME NEW g \in Gens, NEW s \in Sessions, SettleSession(g, s)
      PROVE  UNCHANGED WalletView!abstractVars
  BY <1>6, <1>7 DEF SettleSession
<1>8. ASSUME NEW w \in Workers,
             \/ \E q \in Requests, g \in Gens : LoadMaterial(w, q, g)
             \/ ClaimAnswered(w) \/ WorkerFails(w)
      PROVE  UNCHANGED WalletView!abstractVars
  BY <1>6, <1>8 DEF LoadMaterial, ClaimAnswered, WorkerFails
<1> QED BY <1>1, <1>2, <1>3, <1>4, <1>5, <1>7, <1>8 DEF StoreNext

\* A move copies, activates and deletes, and nothing of it is seen.
LEMMA MovesUnseen ==
    ASSUME ExecutionInv, ExecutionInv', NEW g \in Gens, NEW m \in Moves,
           \/ FreezeDrains(g, m) \/ FreezeSeals(g, m) \/ PrepareImport(g, m)
           \/ Verify(g, m) \/ ActivateImport(g, m)
           \/ CleanupRows(g, m) \/ CleanupPages(g, m) \/ CleanupEnds(g, m)
    PROVE  UNCHANGED WalletView!abstractVars
<1>1. CASE UNCHANGED <<rows, imported>>
  BY <1>1, SamePool
\* Copies and deletions are made where the wallet is not.
<1>2. ASSUME UNCHANGED imported, ~Current(g), \A h \in Gens : h # g => rows'[h] = rows[h]
      PROVE  UNCHANGED WalletView!abstractVars
  <2>1. \A h \in Gens, k \in PoolKeys : Current(h) => rows'[h][k] = rows[h][k]
    BY <1>2
  <2> QED BY <1>2, <2>1, SamePool
<1>3. CASE FreezeDrains(g, m) \/ FreezeSeals(g, m) \/ PrepareImport(g, m)
           \/ CleanupPages(g, m) \/ CleanupEnds(g, m)
  BY <1>1, <1>3 DEF FreezeDrains, FreezeSeals, PrepareImport, CleanupPages, CleanupEnds
<1>4. CASE Verify(g, m)
  <2>1. /\ fence[g].state \in Arriving /\ UNCHANGED imported
        /\ \A h \in Gens : h # g => rows'[h] = rows[h]
    BY <1>4 DEF Verify, Arriving, ExecutionInv, Types, TablesOf
  <2>2. ~Current(g)
    BY <2>1 DEF ExecutionInv, Owners, ArrivingNotRouted, Current
  <2> QED BY <1>2, <2>1, <2>2
<1>5. CASE CleanupRows(g, m)
  <2>1. /\ g + 1 \in Gens /\ imported[g + 1] # NoMove /\ UNCHANGED imported
        /\ \A h \in Gens : h # g => rows'[h] = rows[h]
    BY <1>5, StoreAssumption
    DEF CleanupRows, CleanupAdmitted, HasActivatedReceipt, ExecutionInv, Types, TablesOf
  <2>2. ~Current(g)
    BY <2>1, GenFacts DEF Current
  <2> QED BY <1>2, <2>1, <2>2
<1>6. CASE ActivateImport(g, m) /\ ~UNCHANGED <<rows, imported>>
  <2>1. /\ fence[g].state = "verified" /\ imported[g] = NoMove /\ UNCHANGED rows
        /\ imported' = [imported EXCEPT ![g] = m]
    BY <1>6 DEF ActivateImport, vars, storeVars
  <2>2. /\ g - 1 \in Gens /\ g > 1 /\ rows[g] = rows[g - 1] /\ Current(g - 1)
        /\ \A h \in Gens : h >= g => imported[h] = NoMove
    BY <2>1, VerifiedIsSource
  <2>3. Current(g)'
    <3>1. imported'[g] # NoMove /\ \A h \in Gens : h # g => imported'[h] = imported[h]
      BY <2>1, StoreAssumption DEF ExecutionInv, Types
    <3> QED BY <2>2, <3>1, GenFacts DEF Current
  <2>4. \A p \in Presigs : rows'[g][PoolKey(p)] = rows[g - 1][PoolKey(p)]
    BY <2>1, <2>2
  <2>5. /\ walletStatus = [p \in Presigs |-> StatusOf(rows[g - 1][PoolKey(p)])]
        /\ walletOwner = [p \in Presigs |-> OwnerOf(rows[g - 1][PoolKey(p)])]
    BY <2>2, OwnerTellsStatus DEF OwnerTells
  <2>6. /\ walletStatus' = [p \in Presigs |-> StatusOf(rows'[g][PoolKey(p)])]
        /\ walletOwner' = [p \in Presigs |-> OwnerOf(rows'[g][PoolKey(p)])]
    BY <2>3, OwnerTellsNext DEF OwnerTells, StatusOf, OwnerOf
  <2> QED BY <2>4, <2>5, <2>6 DEF WalletView!abstractVars
<1> QED BY <1>1, <1>3, <1>4, <1>5, <1>6

(***************************************************************************)
(* The SigningWorker's objects of all generations together are one pool of *)
(* one-use material: every transaction of the store is one step of         *)
(* OneUseMaterial or none, and freezing, copying, activating, deleting and *)
(* retrying never revive, rebind or double a presignature.                 *)
(***************************************************************************)
THEOREM WalletImplementsOneUse == Spec => WalletIsOneUse
<1>1. Init => WalletView!Init
  <2> SUFFICES ASSUME Init PROVE WalletView!Init
    OBVIOUS
  <2>1. \A p \in Presigs : Holders(p) = {}
    BY KeyFacts DEF Holders, Init, StoreInit
  <2> QED BY <2>1 DEF WalletView!Init, walletStatus, walletOwner
<1>2. ExecutionInv /\ [Next]_vars => [WalletView!Next]_WalletView!abstractVars
  <2> SUFFICES ASSUME ExecutionInv, [Next]_vars
               PROVE  WalletView!Next \/ UNCHANGED WalletView!abstractVars
    OBVIOUS
  <2>1. ExecutionInv'
    BY NextKeeps
  <2>2. ASSUME UNCHANGED <<rows, imported>> PROVE UNCHANGED WalletView!abstractVars
    BY <2>1, <2>2, SamePool
  <2>3. CASE StoreNext
    BY <2>1, <2>3, PoolTransactions, ClaimTransactions, OtherTransactions
  <2>4. CASE RelocationNext
    <3>1. ASSUME NEW g \in Gens, NEW segment \in 0..(Segments - 1), Export(g, segment)
          PROVE  UNCHANGED WalletView!abstractVars
      BY <2>2, <3>1 DEF Export, storeVars
    <3> QED BY <2>1, <2>4, <3>1, InvalidationBurns, MovesUnseen DEF RelocationNext
  <2>5. ASSUME NEW c \in chunks, ImportChunk(c) PROVE UNCHANGED WalletView!abstractVars
    BY <2>2, <2>5 DEF ImportChunk
  <2>6. CASE UNCHANGED vars
    BY <2>2, <2>6 DEF vars, storeVars
  <2> QED BY <2>3, <2>4, <2>5, <2>6 DEF Next
<1> QED BY <1>1, <1>2, ExecutionInductive, PTL DEF Spec, WalletIsOneUse, WalletView!Spec
=============================================================================
