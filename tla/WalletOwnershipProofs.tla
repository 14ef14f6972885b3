------------------------ MODULE WalletOwnershipProofs ------------------------
(***************************************************************************)
(* At most one generation of a wallet executes, and a fenced source stays  *)
(* closed, for every number of generations, requests and workers, every    *)
(* batch size and every way chunks are delayed and repeated.               *)
(*                                                                         *)
(* The argument: a destination gets its first chunk from a source that is  *)
(* frozen, a source can only be frozen if it is the first generation or    *)
(* was itself activated, and an activated generation has every earlier one *)
(* behind it closed.  "Every earlier one" instead of "the one before" is   *)
(* what makes the invariant inductive without induction over generations.  *)
(***************************************************************************)
EXTENDS WalletRelocation, TLAPS

\* Every generation before g has been fenced as a source.
ClosedBelow(g) == \A h \in Gens : h < g => fence[h].state \in SourceStates

PastPrepared == {"importing", "restoring", "verified"} \cup SourceStates

\* The variables that carry ownership are functions of the generation.
Tables ==
    /\ fence = [g \in Gens |-> fence[g]]
    /\ imported = [g \in Gens |-> imported[g]]
    /\ authority = [g \in Gens |-> authority[g]]

FencesAhead ==
    \A g \in Gens : fence[g].state \in PastPrepared => ClosedBelow(g)

ActivationsAhead ==
    \A g \in Gens : imported[g] # NoMove => ClosedBelow(g)

ChunksFromClosed ==
    \A c \in chunks : c.gen \in Gens /\ fence[c.gen].state \in SourceStates

RelocatedWasImported ==
    \A g \in Gens : authority[g] = "relocation" => imported[g] # NoMove

OwnershipInv ==
    /\ Tables
    /\ FencesAhead
    /\ ActivationsAhead
    /\ ChunksFromClosed
    /\ RelocatedWasImported

-----------------------------------------------------------------------------
(* What a step may do to the variables that carry ownership *)

\* A step changes at most the state of one fence, and in these ways only.
FenceSteps ==
    /\ \A h \in Gens :
        fence[h].state \in SourceStates => fence'[h].state \in SourceStates
    /\ \A h \in Gens :
        fence'[h].state \in PastPrepared =>
            \/ fence[h].state \in PastPrepared
            \/ Routed(h)
            \/ \E c \in chunks : h = c.gen + 1

ImportSteps ==
    /\ \A h \in Gens :
        imported'[h] # NoMove => imported[h] # NoMove \/ fence[h].state = "verified"
    /\ \A h \in Gens : imported[h] # NoMove => imported'[h] # NoMove

ChunkSteps ==
    \A c \in chunks' :
        c \in chunks \/ (c.gen \in Gens /\ fence[c.gen].state = "frozen")

AuthoritySteps ==
    \A h \in Gens : authority'[h] = "relocation" =>
        authority[h] = "relocation" \/ imported'[h] # NoMove

StepFacts ==
    /\ Tables'
    /\ FenceSteps
    /\ ImportSteps
    /\ ChunkSteps
    /\ AuthoritySteps

\* AtFence moves one fence and leaves the others where they were.
LEMMA FenceMoves ==
    ASSUME Tables, NEW g \in Gens, NEW state, NEW m, NEW passed, NEW next,
           AtFence(g, state, m, passed, next)
    PROVE  /\ fence' = [h \in Gens |-> fence'[h]]
           /\ \A h \in Gens :
                fence'[h].state = IF h = g THEN state ELSE fence[h].state
BY DEF Tables, AtFence

\* FreezeAuthority installs at most an empty source's authority.
LEMMA FreezeAuthorityQuiet ==
    ASSUME Tables, NEW g \in Gens, FreezeAuthority(g)
    PROVE  /\ Routed(g)
           /\ authority' = [h \in Gens |-> authority'[h]]
           /\ \A h \in Gens : authority'[h] = "relocation" => authority[h] = "relocation"
BY DEF Tables, FreezeAuthority

\* A step that leaves fences, imports and chunks alone, and makes nobody a
\* relocated owner.
LEMMA QuietStep ==
    ASSUME Tables, UNCHANGED <<fence, imported, chunks>>,
           authority' = [h \in Gens |-> authority'[h]],
           \A h \in Gens : authority'[h] = "relocation" => authority[h] = "relocation"
    PROVE  StepFacts
BY DEF StepFacts, Tables, FenceSteps, ImportSteps, ChunkSteps, AuthoritySteps

\* A step of the source side: the fence of a routed generation closes.
LEMMA SourceStep ==
    ASSUME Tables, NEW g \in Gens, NEW state \in SourceStates, NEW m, NEW passed,
           NEW next, AtFence(g, state, m, passed, next),
           Routed(g) \/ fence[g].state \in SourceStates,
           UNCHANGED <<imported, chunks>>,
           authority' = [h \in Gens |-> authority'[h]],
           \A h \in Gens : authority'[h] = "relocation" => authority[h] = "relocation"
    PROVE  StepFacts
<1>1. /\ fence' = [h \in Gens |-> fence'[h]]
      /\ \A h \in Gens : fence'[h].state = IF h = g THEN state ELSE fence[h].state
  BY FenceMoves
<1>2. FenceSteps
  BY <1>1 DEF FenceSteps, PastPrepared
<1> QED
  BY <1>1, <1>2 DEF StepFacts, Tables, ImportSteps, ChunkSteps, AuthoritySteps

\* The transactions of the store that are not part of a relocation touch
\* neither fence nor import, and only a first registration gives authority.
LEMMA StoreQuiet ==
    ASSUME Tables, StoreNext
    PROVE  /\ UNCHANGED <<fence, imported>>
           /\ authority' = [h \in Gens |-> authority'[h]]
           /\ \A h \in Gens : authority'[h] = "relocation" => authority[h] = "relocation"
<1>1. CASE \E g \in Gens, m \in OwnMaterials : Register(g, m)
  BY <1>1 DEF Tables, Register
<1>2. CASE \E g \in Gens, p \in Presigs : StartCeremony(g, p) \/ Publish(g, p)
  BY <1>2 DEF Tables, StartCeremony, Publish
<1>3. CASE \E g \in Gens, q \in Requests : Prepare(g, q) \/ BurnReservation(g, q)
  BY <1>3 DEF Tables, Prepare, BurnReservation
<1>4. CASE \E g \in Gens, m \in LinkedMaterials :
            \/ \E source \in Materials \ {m} : ReserveLinked(g, m, source)
            \/ ActivateLinked(g, m)
            \/ DeactivateLinked(g, m)
  BY <1>4 DEF Tables, ReserveLinked, ActivateLinked, DeactivateLinked
<1>5. CASE \E g \in Gens, s \in Sessions : RegisterSession(g, s) \/ SettleSession(g, s)
  BY <1>5 DEF Tables, RegisterSession, SettleSession
<1>6. CASE \E w \in Workers, q \in Requests, g \in Gens : LoadMaterial(w, q, g)
  BY <1>6 DEF Tables, LoadMaterial
<1>7. CASE \E w \in Workers :
            Claim(w) \/ ClaimBurns(w) \/ ClaimAnswered(w) \/ Commit(w) \/ WorkerFails(w)
  BY <1>7 DEF Tables, Claim, ClaimBurns, ClaimAnswered, Commit, WorkerFails
<1> QED
  BY <1>1, <1>2, <1>3, <1>4, <1>5, <1>6, <1>7 DEF StoreNext

\* What any step of the specification does to ownership, action by action.
LEMMA StepSummary ==
    ASSUME Tables, [Next]_vars
    PROVE  StepFacts
<1> DEFINE AuthorityQuiet ==
        /\ authority' = [h \in Gens |-> authority'[h]]
        /\ \A h \in Gens : authority'[h] = "relocation" => authority[h] = "relocation"
<1>0. UNCHANGED authority => AuthorityQuiet
  BY DEF Tables
<1>1. CASE StoreNext /\ UNCHANGED transferVars
  <2>1. UNCHANGED <<fence, imported, chunks>> /\ AuthorityQuiet
    BY <1>1, StoreQuiet DEF transferVars
  <2> QED
    BY <2>1, QuietStep
<1>2. ASSUME NEW g \in Gens, NEW m \in Moves, FreezeDrains(g, m)
      PROVE  StepFacts
  <2>1. FreezeAuthority(g) /\ UNCHANGED <<imported, chunks>>
    BY <1>2 DEF FreezeDrains, transferVars
  <2>2. Routed(g) /\ AuthorityQuiet
    BY <2>1, FreezeAuthorityQuiet
  <2>3. CASE UNCHANGED fence
    BY <2>1, <2>2, <2>3, QuietStep
  <2>4. CASE AtFence(g, "draining", m, {}, 0)
    <3>1. "draining" \in SourceStates
      BY DEF SourceStates
    <3> QED
      BY <2>1, <2>2, <2>4, <3>1, SourceStep
  <2> QED
    BY <1>2, <2>3, <2>4 DEF FreezeDrains
<1>3. ASSUME NEW g \in Gens, NEW m \in Moves,
             FreezeInvalidates(g, m) \/ FreezeSeals(g, m)
      PROVE  StepFacts
  <2>1. FreezeAuthority(g) /\ UNCHANGED <<imported, chunks>>
    BY <1>3 DEF FreezeInvalidates, FreezeSeals
  <2>2. Routed(g) /\ AuthorityQuiet
    BY <2>1, FreezeAuthorityQuiet
  <2>3. PICK state \in SourceStates : \E passed : AtFence(g, state, m, passed, 0)
    BY <1>3 DEF FreezeInvalidates, FreezeSeals, Seal, SourceStates
  <2>4. PICK passed : AtFence(g, state, m, passed, 0)
    BY <2>3
  <2> QED
    BY <2>1, <2>2, <2>4, SourceStep
<1>4. ASSUME NEW g \in Gens, NEW m \in Moves, PrepareImport(g, m)
      PROVE  StepFacts
  <2>1. /\ fence[g].state = "none"
        /\ AtFence(g, "prepared", m, {}, 0)
        /\ UNCHANGED <<authority, imported, chunks>>
    BY <1>4 DEF PrepareImport, Open, transferVars
  <2>2. /\ fence' = [h \in Gens |-> fence'[h]]
        /\ \A h \in Gens : fence'[h].state = IF h = g THEN "prepared" ELSE fence[h].state
    BY <2>1, FenceMoves
  <2> QED
    BY <2>1, <2>2 DEF StepFacts, Tables, FenceSteps, ImportSteps, ChunkSteps,
                      AuthoritySteps, PastPrepared, SourceStates
<1>5. ASSUME NEW g \in Gens, NEW m \in Moves, Verify(g, m)
      PROVE  StepFacts
  <2>1. /\ fence[g].state \in {"importing", "restoring"}
        /\ UNCHANGED <<authority, imported, chunks>>
    BY <1>5 DEF Verify, transferVars
  <2>2. PICK state \in {"restoring", "verified"} :
            \E passed : AtFence(g, state, m, passed, 0)
    BY <1>5 DEF Verify
  <2>3. PICK passed : AtFence(g, state, m, passed, 0)
    BY <2>2
  <2>4. /\ fence' = [h \in Gens |-> fence'[h]]
        /\ \A h \in Gens : fence'[h].state = IF h = g THEN state ELSE fence[h].state
    BY <2>3, FenceMoves
  <2> QED
    BY <2>1, <2>2, <2>4 DEF StepFacts, Tables, FenceSteps, ImportSteps, ChunkSteps,
                      AuthoritySteps, PastPrepared, SourceStates
<1>6. ASSUME NEW g \in Gens, NEW m \in Moves, ActivateImport(g, m)
      PROVE  StepFacts
  <2>1. CASE UNCHANGED vars
    BY <2>1, <1>0, QuietStep DEF vars, storeVars, transferVars
  <2>2. CASE /\ fence[g].state = "verified"
             /\ authority' = [authority EXCEPT ![g] = "relocation"]
             /\ imported' = [imported EXCEPT ![g] = m]
             /\ fence' = [fence EXCEPT ![g] = NoFence]
             /\ UNCHANGED chunks
    <3>1. m # NoMove
      BY StoreAssumption
    <3>2. /\ fence' = [h \in Gens |-> fence'[h]]
          /\ \A h \in Gens : fence'[h].state = IF h = g THEN "none" ELSE fence[h].state
      BY <2>2 DEF Tables, NoFence
    <3>3. FenceSteps
      BY <2>2, <3>2 DEF FenceSteps, PastPrepared, SourceStates
    <3> QED
      BY <2>2, <3>1, <3>2, <3>3 DEF StepFacts, Tables, ImportSteps, ChunkSteps, AuthoritySteps
  <2> QED
    BY <1>6, <2>1, <2>2 DEF ActivateImport, transferVars
<1>7. ASSUME NEW g \in Gens, NEW m \in Moves,
             CleanupRows(g, m) \/ CleanupPages(g, m) \/ CleanupEnds(g, m)
      PROVE  StepFacts
  <2>1. /\ fence[g].state \in SourceStates
        /\ UNCHANGED <<authority, imported, chunks>>
    BY <1>7 DEF CleanupRows, CleanupPages, CleanupEnds, CleanupAdmitted, SourceStates,
                transferVars
  <2>2. PICK state \in SourceStates : AtFence(g, state, m, {}, 0)
    BY <1>7 DEF CleanupRows, CleanupPages, CleanupEnds, SourceStates
  <2> QED
    BY <1>0, <2>1, <2>2, SourceStep
<1>8. ASSUME NEW g \in Gens, NEW segment \in 0..(Segments - 1), Export(g, segment)
      PROVE  StepFacts
  BY <1>8 DEF Export, storeVars, StepFacts, Tables, FenceSteps, ImportSteps, ChunkSteps,
              AuthoritySteps
<1>9. ASSUME NEW c \in chunks, ImportChunk(c)
      PROVE  StepFacts
  <2> DEFINE g == c.gen + 1
  <2>1. /\ g \in Gens
        /\ fence[g].state \in {"prepared", "importing"}
        /\ AtFence(g, "importing", c.move, {}, c.segment + 1)
        /\ UNCHANGED <<authority, imported, chunks>>
    BY <1>9 DEF ImportChunk, MayImport
  <2>2. /\ fence' = [h \in Gens |-> fence'[h]]
        /\ \A h \in Gens : fence'[h].state = IF h = g THEN "importing" ELSE fence[h].state
    BY <2>1, FenceMoves
  <2> QED
    BY <2>1, <2>2 DEF StepFacts, Tables, FenceSteps, ImportSteps, ChunkSteps,
                      AuthoritySteps, PastPrepared, SourceStates
<1>10. CASE UNCHANGED vars
  BY <1>0, <1>10, QuietStep DEF vars, storeVars, transferVars
<1> QED
  BY <1>1, <1>2, <1>3, <1>4, <1>5, <1>6, <1>7, <1>8, <1>9, <1>10 DEF Next, RelocationNext

-----------------------------------------------------------------------------
(* The invariant *)

LEMMA InitialOwnership == Init => OwnershipInv
BY DEF Init, StoreInit, NoFence, OwnershipInv, Tables, FencesAhead, PastPrepared,
       SourceStates, ActivationsAhead, ChunksFromClosed, RelocatedWasImported

\* Every step keeps it: what is closed stays closed, and whatever newly
\* moves ahead has a closed past to build on.
LEMMA OwnershipKept ==
    ASSUME OwnershipInv, [Next]_vars
    PROVE  OwnershipInv'
<1>1. StepFacts
  BY StepSummary DEF OwnershipInv
<1>2. \A g \in Gens : ClosedBelow(g) => ClosedBelow(g)'
  BY <1>1 DEF StepFacts, FenceSteps, ClosedBelow, Gens
<1>3. \A g \in Gens : Routed(g) => ClosedBelow(g)
  BY StoreAssumption DEF OwnershipInv, ActivationsAhead, Routed, ClosedBelow, Gens
<1>4. \A c \in chunks : c.gen + 1 \in Gens => ClosedBelow(c.gen + 1)
  <2> SUFFICES ASSUME NEW c \in chunks, c.gen + 1 \in Gens,
                      NEW h \in Gens, h < c.gen + 1
               PROVE  fence[h].state \in SourceStates
    BY DEF ClosedBelow
  <2>1. c.gen \in Gens /\ fence[c.gen].state \in SourceStates
    BY DEF OwnershipInv, ChunksFromClosed
  <2>2. ClosedBelow(c.gen)
    BY <2>1 DEF OwnershipInv, FencesAhead, PastPrepared
  <2>3. h = c.gen \/ h < c.gen
    BY <2>1, StoreAssumption DEF Gens
  <2> QED
    BY <2>1, <2>2, <2>3 DEF ClosedBelow
<1>5. FencesAhead'
  <2> SUFFICES ASSUME NEW g \in Gens, fence'[g].state \in PastPrepared
               PROVE  ClosedBelow(g)'
    BY DEF FencesAhead, Gens, PastPrepared, SourceStates
  <2>1. ClosedBelow(g)
    BY <1>1, <1>3, <1>4 DEF StepFacts, FenceSteps, OwnershipInv, FencesAhead
  <2> QED
    BY <1>2, <2>1
<1>6. ActivationsAhead'
  <2> SUFFICES ASSUME NEW g \in Gens, imported'[g] # NoMove
               PROVE  ClosedBelow(g)'
    BY DEF ActivationsAhead, Gens
  <2>1. ClosedBelow(g)
    BY <1>1 DEF StepFacts, ImportSteps, OwnershipInv, FencesAhead, ActivationsAhead,
                PastPrepared
  <2> QED
    BY <1>2, <2>1
<1>7. ChunksFromClosed'
  BY <1>1 DEF StepFacts, ChunkSteps, FenceSteps, OwnershipInv, ChunksFromClosed,
              SourceStates, Gens
<1>8. RelocatedWasImported'
  BY <1>1 DEF StepFacts, AuthoritySteps, ImportSteps, OwnershipInv, RelocatedWasImported, Gens
<1> QED
  BY <1>1, <1>5, <1>6, <1>7, <1>8 DEF StepFacts, OwnershipInv

(***************************************************************************)
(* Ownership is inductive: at all times every generation that imported,    *)
(* executes by relocation or was fenced has only closed ones before it.    *)
(***************************************************************************)
THEOREM OwnershipInvariant == Spec => []OwnershipInv
<1>1. Init => OwnershipInv
  BY InitialOwnership
<1>2. OwnershipInv /\ [Next]_vars => OwnershipInv'
  BY OwnershipKept
<1> QED
  BY <1>1, <1>2, PTL DEF Spec

(***************************************************************************)
(* At most one generation of the wallet executes signing requests at any   *)
(* time (require_execution_generation and the relocation fence).           *)
(***************************************************************************)
THEOREM SingleWriter == Spec => []OneWriter
<1>1. OwnershipInv => OneWriter
  <2> SUFFICES ASSUME OwnershipInv, NEW g \in Writers, NEW h \in Writers, g < h
               PROVE  FALSE
    BY StoreAssumption DEF OneWriter, Writers, Gens
  <2>1. /\ g \in Gens /\ h \in Gens
        /\ fence[g].state = "none"
        /\ MayExecute(h)
    BY DEF Writers, Open
  <2>2. authority[h] = "relocation"
    BY <2>1, StoreAssumption DEF MayExecute, AuthorityGen, Gens
  <2>3. ClosedBelow(h)
    BY <2>1, <2>2 DEF OwnershipInv, RelocatedWasImported, ActivationsAhead
  <2> QED
    BY <2>1, <2>3 DEF ClosedBelow, SourceStates
<1> QED
  BY <1>1, OwnershipInvariant, PTL

(***************************************************************************)
(* A source that a relocation fenced never admits writes again, whatever   *)
(* is retried (activate_ecdsa_import, freeze_pool_for_relocation,          *)
(* cleanup_ecdsa_source).                                                  *)
(***************************************************************************)
THEOREM SourceNeverReopens == Spec => SourceStaysClosed
<1>1. OwnershipInv /\ [Next]_vars =>
        [\A g \in Gens : fence[g].state \in SourceStates =>
                            fence'[g].state \in SourceStates]_vars
  BY StepSummary DEF OwnershipInv, StepFacts, FenceSteps
<1> QED
  BY <1>1, OwnershipInvariant, PTL DEF Spec, SourceStaysClosed

=============================================================================
