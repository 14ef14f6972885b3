----------------------------- MODULE WalletHomes -----------------------------
(***************************************************************************)
(* The Gateway's half of a wallet move.  Every location keeps a D1         *)
(* database with the wallet's authorization history: sessions, operations  *)
(* and an execution generation.  A move pauses the source, measures it,    *)
(* freezes it, copies the sealed history to the destination, activates it  *)
(* there and deletes it here; later the wallet may return.                 *)
(*                                                                         *)
(* Console, outside this repository, decides about moves and sends the     *)
(* commands.  A command may be repeated and may be carried out long after  *)
(* it was sent, so every action below stays possible once Console has sent *)
(* it; nothing but the database decides whether it still does something.   *)
(* A batch of D1 is one step, and every await between two of them lets     *)
(* everybody else run.                                                     *)
(***************************************************************************)
EXTENDS Naturals, FiniteSets

CONSTANTS
    Locations,  \* one Gateway database each
    Registered, \* the location where the wallet was registered
    Moves,      \* moves Console plans, named by their move_id
    Ops,        \* operation fingerprints
    none

ASSUME RegisteredAssumption == Registered \in Locations
ASSUME NoneAssumption == none \notin Moves /\ none \notin Locations

VARIABLES
    exec,      \* per location: wallet_execution_generations
    ops,       \* per location: authorized_operations
    session,   \* per location: a Wallet Session that is not retired
    ceremony,  \* per location: an unsettled row of wallet_ceremony_activity
    block,     \* per location and move: wallet_relocation_write_blocks
    fence,     \* per location: the move of wallet_relocation_authorization_fences
    retired,   \* per location: the move of wallet_relocation_session_fences
    snapshot,  \* per location: wallet_relocation_authorization_snapshots
    imported,  \* per location: wallet_relocation_authorization_imports
    intake,    \* per location: wallet_relocation_authorization_intakes
    receipts,  \* per location: moves with an activation receipt
    cleanup,   \* per location and move: wallet_relocation_authorization_cleanups
    sweep,     \* cleanup requests that have selected a row and not deleted it
    measured,  \* per move: the operations assertCapacity counted, or none
    prepared,  \* moves whose import request found its destination reserved
    plan,      \* external: Console's plan of each move
    manifest,  \* external: per move, the manifest pinned at Console, or none
    home,      \* external: Console's placement of the wallet
    claimedAt  \* history: per operation, the generations that claimed it

vars == <<exec, ops, session, ceremony, block, fence, retired, snapshot, imported,
          intake, receipts, cleanup, sweep, measured, prepared, plan, manifest,
          home, claimedAt>>

work == <<ops, session, ceremony, claimedAt>>
pause == <<block, measured>>
arrival == <<imported, intake, receipts, prepared>>
removal == <<cleanup, sweep>>
console == <<plan, manifest, home>>

NoExecution == [state |-> "none", gen |-> 0, origin |-> none]
NoSnapshot == [move |-> none, rows |-> {}, sealed |-> FALSE]
NoImport == [move |-> none, state |-> "none"]
NoPlan == [from |-> Registered, to |-> Registered, gen |-> 0, phase |-> "none"]

Completed(l) == {o \in Ops : ops[l][o] = "completed"}
Source(m) == plan[m].from
Destination(m) == plan[m].to
Gen(m) == plan[m].gen

Init ==
    /\ exec = [l \in Locations |-> IF l = Registered
                 THEN [state |-> "active", gen |-> 1, origin |-> none] ELSE NoExecution]
    /\ ops = [l \in Locations |-> [o \in Ops |-> "none"]]
    /\ session = [l \in Locations |-> FALSE]
    /\ ceremony = [l \in Locations |-> FALSE]
    /\ block = [l \in Locations |-> [m \in Moves |-> "none"]]
    /\ fence = [l \in Locations |-> none]
    /\ retired = [l \in Locations |-> none]
    /\ snapshot = [l \in Locations |-> NoSnapshot]
    /\ imported = [l \in Locations |-> NoImport]
    /\ intake = [l \in Locations |-> NoImport]
    /\ receipts = [l \in Locations |-> {}]
    /\ cleanup = [l \in Locations |-> [m \in Moves |-> "none"]]
    /\ sweep = {}
    /\ measured = [m \in Moves |-> none]
    /\ prepared = {}
    /\ plan = [m \in Moves |-> NoPlan]
    /\ manifest = [m \in Moves |-> none]
    /\ home = [location |-> Registered, gen |-> 1]
    /\ claimedAt = [o \in Ops |-> {}]

-----------------------------------------------------------------------------
(* Ordinary work at a location                                             *)

ExecutesAt(l, g) == exec[l].state = "active" /\ exec[l].gen = g

\* wallet_pending_operations and wallet_ceremony_activity.
Settled(l) == ~ceremony[l] /\ \A o \in Ops : ops[l][o] # "claimed"

\* The write-block triggers: no move is checking the wallet's capacity here.
Unblocked(l) == \A m \in Moves : block[l][m] \notin {"draining", "checked"}

\* The fence triggers on the history tables.
Writable(l) == fence[l] = none /\ imported[l].state \in {"none", "activated"}

IssueSession(l) ==
    /\ ~session[l] /\ exec[l].state # "none"
    /\ Writable(l) /\ retired[l] = none
    /\ session' = [session EXCEPT ![l] = TRUE]
    /\ UNCHANGED <<exec, ops, ceremony, claimedAt, pause, fence, retired, snapshot,
                   arrival, removal, console>>

\* The claim of an operation, by a session of the active generation.
Claim(l, o) ==
    /\ session[l] /\ ops[l][o] = "none"
    /\ exec[l].state = "active" /\ Writable(l) /\ Unblocked(l)
    /\ ops' = [ops EXCEPT ![l][o] = "claimed"]
    /\ claimedAt' = [claimedAt EXCEPT ![o] = @ \cup {exec[l].gen}]
    /\ UNCHANGED <<exec, session, ceremony, pause, fence, retired, snapshot, arrival,
                   removal, console>>

Settle(l, o) ==
    /\ ops[l][o] = "claimed" /\ Writable(l)
    /\ ops' = [ops EXCEPT ![l][o] = "completed"]
    /\ UNCHANGED <<exec, session, ceremony, claimedAt, pause, fence, retired, snapshot,
                   arrival, removal, console>>

\* A registration, recovery or export ceremony of the wallet.
StartCeremony(l) ==
    /\ ~ceremony[l] /\ exec[l].state = "active"
    /\ Unblocked(l) /\ retired[l] = none
    /\ ceremony' = [ceremony EXCEPT ![l] = TRUE]
    /\ UNCHANGED <<exec, ops, session, claimedAt, pause, fence, retired, snapshot,
                   arrival, removal, console>>

SettleCeremony(l) ==
    /\ ceremony[l]
    /\ ceremony' = [ceremony EXCEPT ![l] = FALSE]
    /\ UNCHANGED <<exec, ops, session, claimedAt, pause, fence, retired, snapshot,
                   arrival, removal, console>>

-----------------------------------------------------------------------------
(* The source: check, release, freeze, seal                                *)

Planned(m) == plan[m].phase # "none"

\* check: the pause begins, once per move, for one move at a time.
BlockWrites(m) ==
    LET l == Source(m) IN
    /\ Planned(m)
    /\ ExecutesAt(l, Gen(m)) /\ Unblocked(l) /\ block[l][m] = "none"
    /\ block' = [block EXCEPT ![l][m] = "draining"]
    /\ UNCHANGED <<exec, work, fence, retired, snapshot, arrival, removal, measured, console>>

\* check, once nothing was pending; the insert and its trigger ask again.
FenceHistory(m) ==
    LET l == Source(m) IN
    /\ block[l][m] = "draining" /\ fence[l] = none
    /\ ExecutesAt(l, Gen(m)) /\ Settled(l)
    /\ fence' = [fence EXCEPT ![l] = m]
    /\ UNCHANGED <<exec, work, pause, retired, snapshot, arrival, removal, console>>

\* Mutant: the history is measured before it is fenced.
MeasureEarly(m) ==
    LET l == Source(m) IN
    /\ block[l][m] = "draining"
    /\ measured' = [measured EXCEPT ![m] = Completed(l)]
    /\ UNCHANGED <<exec, work, block, fence, retired, snapshot, arrival, removal, console>>

\* check: assertCapacity.  A wallet that is too large throws here and stays
\* paused until its release.
Measure(m) ==
    LET l == Source(m) IN
    /\ block[l][m] = "draining" /\ fence[l] = m
    /\ measured' = [measured EXCEPT ![m] = Completed(l)]
    /\ UNCHANGED <<exec, work, block, fence, retired, snapshot, arrival, removal, console>>

\* check, the last batch.
MarkChecked(m) ==
    LET l == Source(m) IN
    /\ measured[m] # none
    /\ block[l][m] = "draining" /\ fence[l] = m
    /\ block' = [block EXCEPT ![l][m] = "checked"]
    /\ UNCHANGED <<exec, work, fence, retired, snapshot, arrival, removal, measured, console>>

\* Mutant: the row is deleted instead of kept as a tombstone.
ReleaseForgets(m) ==
    LET l == Source(m) IN
    /\ plan[m].phase = "rejected"
    /\ block[l][m] \notin {"frozen", "none"}
    /\ block' = [block EXCEPT ![l][m] = "none"]
    /\ fence' = [fence EXCEPT ![l] = IF @ = m THEN none ELSE @]
    /\ UNCHANGED <<exec, work, retired, snapshot, arrival, removal, measured, console>>

\* release, of a move that Console rejected.
Release(m) ==
    LET l == Source(m) IN
    /\ plan[m].phase = "rejected"
    /\ block[l][m] \notin {"frozen", "released"}
    /\ block' = [block EXCEPT ![l][m] = "released"]
    /\ fence' = [fence EXCEPT ![l] = IF @ = m THEN none ELSE @]
    /\ UNCHANGED <<exec, work, retired, snapshot, arrival, removal, measured, console>>

\* The triggers of wallet_relocation_session_fences.
RetirementAdmitted(m) ==
    /\ retired[Source(m)] = none
    /\ ExecutesAt(Source(m), Gen(m))
    /\ Settled(Source(m))

\* Mutant: the batch retires the generation and forgets the sessions.
FreezeKeepsSessions(m) ==
    LET l == Source(m) IN
    /\ plan[m].phase = "admitted"
    /\ block[l][m] \in {"checked", "frozen"} /\ fence[l] \in {none, m}
    /\ block[l][m] = "checked" => fence[l] = m
    /\ RetirementAdmitted(m)
    /\ block' = [block EXCEPT ![l][m] = "frozen"]
    /\ fence' = [fence EXCEPT ![l] = m]
    /\ retired' = [retired EXCEPT ![l] = m]
    /\ exec' = [exec EXCEPT ![l].state = "retired"]
    /\ UNCHANGED <<session, ops, ceremony, claimedAt, measured, snapshot, arrival, removal,
                   console>>

\* Mutant: the batch fences the history and leaves the generation active.
FreezeKeepsGeneration(m) ==
    LET l == Source(m) IN
    /\ plan[m].phase = "admitted"
    /\ block[l][m] \in {"checked", "frozen"} /\ fence[l] \in {none, m}
    /\ block[l][m] = "checked" => fence[l] = m
    /\ RetirementAdmitted(m)
    /\ block' = [block EXCEPT ![l][m] = "frozen"]
    /\ fence' = [fence EXCEPT ![l] = m]
    /\ retired' = [retired EXCEPT ![l] = m]
    /\ session' = [session EXCEPT ![l] = FALSE]
    /\ UNCHANGED <<exec, ops, ceremony, claimedAt, measured, snapshot, arrival, removal,
                   console>>

\* freeze: one batch replaces the fence of the check by the fence of the move
\* and retires the sessions and the generation.  A repeated freeze finds its
\* block frozen and tries the inserts of retire and freeze again.
Freeze(m) ==
    LET l == Source(m) IN
    /\ plan[m].phase = "admitted"
    /\ block[l][m] \in {"checked", "frozen"} /\ fence[l] \in {none, m}
    /\ block[l][m] = "checked" => fence[l] = m
    /\ RetirementAdmitted(m)
    /\ block' = [block EXCEPT ![l][m] = "frozen"]
    /\ fence' = [fence EXCEPT ![l] = m]
    /\ retired' = [retired EXCEPT ![l] = m]
    /\ exec' = [exec EXCEPT ![l].state = "retired"]
    /\ session' = [session EXCEPT ![l] = FALSE]
    /\ UNCHANGED <<ops, ceremony, claimedAt, measured, snapshot, arrival, removal, console>>

\* seal: the records go into chunks one at a time ...
Capture(m) ==
    LET l == Source(m) IN
    /\ fence[l] = m /\ retired[l] = m /\ ~snapshot[l].sealed
    /\ snapshot[l].move \in {none, m}
    /\ \E o \in Completed(l) \ snapshot[l].rows :
         snapshot' = [snapshot EXCEPT ![l] = [move |-> m, rows |-> @.rows \cup {o},
                                              sealed |-> FALSE]]
    /\ UNCHANGED <<exec, work, pause, fence, retired, arrival, removal, console>>

\* Mutant: a history without records has no digest to seal.
SealNonEmpty(m) ==
    LET l == Source(m) IN
    /\ fence[l] = m /\ retired[l] = m /\ ~snapshot[l].sealed
    /\ snapshot[l].move = m
    /\ Completed(l) \subseteq snapshot[l].rows
    /\ snapshot' = [snapshot EXCEPT ![l].sealed = TRUE]
    /\ UNCHANGED <<exec, work, pause, fence, retired, arrival, removal, console>>

\* ... and the digest over all of them is pinned, here and at Console.
Seal(m) ==
    LET l == Source(m) IN
    /\ fence[l] = m /\ retired[l] = m /\ ~snapshot[l].sealed
    /\ snapshot[l].move \in {none, m}
    /\ Completed(l) \subseteq snapshot[l].rows
    /\ snapshot' = [snapshot EXCEPT ![l] = [move |-> m, rows |-> @.rows, sealed |-> TRUE]]
    /\ UNCHANGED <<exec, work, pause, fence, retired, arrival, removal, console>>

PublishManifest(m) ==
    LET l == Source(m) IN
    /\ manifest[m] = none
    /\ snapshot[l].move = m /\ snapshot[l].sealed
    /\ manifest' = [manifest EXCEPT ![m] = snapshot[l].rows]
    /\ UNCHANGED <<exec, work, pause, fence, retired, snapshot, arrival, removal, plan, home>>

-----------------------------------------------------------------------------
(* The destination: reserve, import, activate                              *)

\* prepareCleanedDestinationReturn: the wallet left l by a move that has been
\* cleaned, and comes back with a later generation.
LeftBy(l, g) ==
    {n \in Moves : /\ cleanup[l][n] = "cleaned" /\ Source(n) = l
                   /\ exec[l].state = "retired" /\ exec[l].gen = Gen(n)
                   /\ exec[l].gen < g}

\* readImport: a reservation of an earlier generation does not stand in the way.
MayReserve(m) ==
    LET old == imported[Destination(m)] IN
    old.move # none => old.move # m /\ Gen(old.move) + 1 < Gen(m)

\* Mutant: the return forgets the history fence and keeps the session fence.
ReserveKeepsRetirement(m) ==
    LET l == Destination(m)
        left == LeftBy(l, Gen(m))
        gone(row) == row.move # none /\ left # {} /\ Gen(row.move) + 1 = exec[l].gen
    IN
    /\ Planned(m) /\ MayReserve(m)
    /\ exec[l].state # "none" => left # {}
    /\ imported[l].move # none => gone(imported[l])
    /\ \A o \in Ops : ops[l][o] = "none"
    /\ retired[l] \in left \cup {none}
    /\ fence' = [fence EXCEPT ![l] = IF @ \in left THEN none ELSE @]
    /\ snapshot' = [snapshot EXCEPT ![l] = IF @.move \in left THEN NoSnapshot ELSE @]
    /\ intake' = [intake EXCEPT ![l] = IF gone(@) THEN NoImport ELSE @]
    /\ imported' = [imported EXCEPT ![l] = [move |-> m, state |-> "importing"]]
    /\ exec' = [exec EXCEPT ![l] = [state |-> "inactive", gen |-> Gen(m) + 1, origin |-> m]]
    /\ prepared' = prepared \cup {m}
    /\ UNCHANGED <<retired, work, pause, receipts, removal, console>>

\* D1WalletAuthorizationHistory.prepare: one batch that forgets a cleaned stay
\* and reserves the location, if nothing of the wallet is left there.
Reserve(m) ==
    LET l == Destination(m)
        left == LeftBy(l, Gen(m))
        gone(row) == row.move # none /\ left # {} /\ Gen(row.move) + 1 = exec[l].gen
    IN
    /\ Planned(m) /\ MayReserve(m)
    /\ exec[l].state # "none" => left # {}
    /\ imported[l].move # none => gone(imported[l])
    /\ \A o \in Ops : ops[l][o] = "none"
    /\ retired[l] \in left \cup {none}
    /\ fence' = [fence EXCEPT ![l] = IF @ \in left THEN none ELSE @]
    /\ retired' = [retired EXCEPT ![l] = IF @ \in left THEN none ELSE @]
    /\ snapshot' = [snapshot EXCEPT ![l] = IF @.move \in left THEN NoSnapshot ELSE @]
    /\ intake' = [intake EXCEPT ![l] = IF gone(@) THEN NoImport ELSE @]
    /\ imported' = [imported EXCEPT ![l] = [move |-> m, state |-> "importing"]]
    /\ exec' = [exec EXCEPT ![l] = [state |-> "inactive", gen |-> Gen(m) + 1, origin |-> m]]
    /\ prepared' = prepared \cup {m}
    /\ UNCHANGED <<work, pause, receipts, removal, console>>

\* D1WalletAuthorizationIntake.prepare, after that.
OpenIntake(m) ==
    LET l == Destination(m) IN
    /\ m \in prepared /\ manifest[m] # none
    /\ intake[l] = NoImport
    /\ intake' = [intake EXCEPT ![l] = [move |-> m, state |-> "receiving"]]
    /\ UNCHANGED <<exec, work, pause, fence, retired, snapshot, imported, receipts,
                   prepared, removal, console>>

\* Mutant: a snapshot with fewer records than the manifest is taken.
AcceptSnapshotPartly(m) ==
    LET l == Destination(m) IN
    /\ intake[l] = [move |-> m, state |-> "receiving"]
    /\ imported[l] = [move |-> m, state |-> "importing"]
    /\ \E rows \in SUBSET manifest[m] :
         ops' = [ops EXCEPT ![l] = [o \in Ops |-> IF o \in rows THEN "completed" ELSE "none"]]
    /\ imported' = [imported EXCEPT ![l].state = "closed"]
    /\ intake' = [intake EXCEPT ![l].state = "verified"]
    /\ UNCHANGED <<exec, session, ceremony, claimedAt, pause, fence, retired, snapshot,
                   receipts, prepared, removal, console>>

\* restoreSnapshot: the records of a snapshot among the rows of l.
Restored(l, rows) == [o \in Ops |-> IF o \in rows THEN "completed" ELSE ops[l][o]]

\* acceptSnapshot: the whole snapshot is checked against the manifest and
\* restored, the import closed and the intake verified, in one batch.
AcceptSnapshot(m) ==
    LET l == Destination(m) IN
    /\ intake[l] = [move |-> m, state |-> "receiving"]
    /\ imported[l] = [move |-> m, state |-> "importing"]
    /\ ops' = [ops EXCEPT ![l] = Restored(l, manifest[m])]
    /\ imported' = [imported EXCEPT ![l].state = "closed"]
    /\ intake' = [intake EXCEPT ![l].state = "verified"]
    /\ UNCHANGED <<exec, session, ceremony, claimedAt, pause, fence, retired, snapshot,
                   receipts, prepared, removal, console>>

\* Mutant: an old receipt opens whatever is inactive here.
ActivateAgain(m) ==
    LET l == Destination(m) IN
    /\ plan[m].phase = "cutover"
    /\ exec[l].state \in {"inactive", "retired"}
    /\ intake[l] = [move |-> m, state |-> "verified"]
    /\ receipts' = [receipts EXCEPT ![l] = @ \cup {m}]
    /\ imported' = [imported EXCEPT ![l].state = "activated"]
    /\ exec' = [exec EXCEPT ![l].state = "active"]
    /\ UNCHANGED <<work, pause, fence, retired, snapshot, intake, prepared, removal, console>>

\* activate: the receipt, the import and, by its trigger, the generation.
Activate(m) ==
    LET l == Destination(m) IN
    /\ plan[m].phase = "cutover"
    /\ m \notin receipts[l] /\ retired[l] = none
    /\ intake[l] = [move |-> m, state |-> "verified"]
    /\ imported[l] = [move |-> m, state |-> "closed"]
    /\ exec[l] = [state |-> "inactive", gen |-> Gen(m) + 1, origin |-> m]
    /\ receipts' = [receipts EXCEPT ![l] = @ \cup {m}]
    /\ imported' = [imported EXCEPT ![l].state = "activated"]
    /\ exec' = [exec EXCEPT ![l].state = "active"]
    /\ UNCHANGED <<work, pause, fence, retired, snapshot, intake, prepared, removal, console>>

-----------------------------------------------------------------------------
(* Cleanup of the source                                                   *)

\* advance, its first call: Console has the activation receipt.
CleanupStart(m) ==
    LET l == Source(m) IN
    /\ m \in receipts[Destination(m)]
    /\ cleanup[l][m] = "none"
    /\ snapshot[l].move = m /\ snapshot[l].sealed /\ fence[l] = m
    /\ cleanup' = [cleanup EXCEPT ![l][m] = "cleaning"]
    /\ UNCHANGED <<exec, work, pause, fence, retired, snapshot, arrival, sweep, console>>

\* advance selects rows after it has read that the move is cleaning ...
CleanupSelect(m, o) ==
    LET l == Source(m) IN
    /\ cleanup[l][m] # "none" /\ ops[l][o] # "none"
    /\ <<m, o>> \notin sweep
    /\ sweep' = sweep \cup {<<m, o>>}
    /\ UNCHANGED <<exec, work, pause, fence, retired, snapshot, arrival, cleanup, console>>

\* Mutant: the batch does not ask again.
CleanupDeleteUnguarded(m, o) ==
    LET l == Source(m) IN
    /\ <<m, o>> \in sweep
    /\ sweep' = sweep \ {<<m, o>>}
    /\ ops' = [ops EXCEPT ![l][o] = "none"]
    /\ UNCHANGED <<exec, session, ceremony, claimedAt, pause, fence, retired, snapshot,
                   arrival, cleanup, console>>

\* ... and deletes them in a batch that asks again.
CleanupDelete(m, o) ==
    LET l == Source(m) IN
    /\ <<m, o>> \in sweep
    /\ sweep' = sweep \ {<<m, o>>}
    /\ ops' = IF cleanup[l][m] = "cleaning" THEN [ops EXCEPT ![l][o] = "none"] ELSE ops
    /\ UNCHANGED <<exec, session, ceremony, claimedAt, pause, fence, retired, snapshot,
                   arrival, cleanup, console>>

CleanupEnds(m) ==
    LET l == Source(m) IN
    /\ cleanup[l][m] = "cleaning"
    /\ \A o \in Ops : ops[l][o] = "none"
    /\ cleanup' = [cleanup EXCEPT ![l][m] = "cleaned"]
    /\ UNCHANGED <<exec, work, pause, fence, retired, snapshot, arrival, sweep, console>>

-----------------------------------------------------------------------------
(* Console (external)                                                      *)

Running(m) == plan[m].phase \in {"admitted", "cutover"}
               /\ m \notin receipts[Destination(m)]

\* Several moves may be planned from one home; none while one is under way.
Plan(m, to) ==
    /\ ~Planned(m) /\ to # home.location
    /\ \A n \in Moves : ~Running(n)
    /\ plan' = [plan EXCEPT ![m] = [from |-> home.location, to |-> to,
                                    gen |-> home.gen, phase |-> "planned"]]
    /\ UNCHANGED <<exec, work, pause, fence, retired, snapshot, arrival, removal,
                   manifest, home>>

\* A move is admitted once its source is paused and measured and its
\* destination reserved, and rejected at any time before.
Admit(m) ==
    /\ plan[m].phase = "planned"
    /\ block[Source(m)][m] = "checked" /\ imported[Destination(m)].move = m
    /\ plan' = [plan EXCEPT ![m].phase = "admitted"]
    /\ UNCHANGED <<exec, work, pause, fence, retired, snapshot, arrival, removal,
                   manifest, home>>

Reject(m) ==
    /\ plan[m].phase = "planned"
    /\ plan' = [plan EXCEPT ![m].phase = "rejected"]
    /\ UNCHANGED <<exec, work, pause, fence, retired, snapshot, arrival, removal,
                   manifest, home>>

Cutover(m) ==
    /\ plan[m].phase = "admitted"
    /\ intake[Destination(m)] = [move |-> m, state |-> "verified"]
    /\ plan' = [plan EXCEPT ![m].phase = "cutover"]
    /\ home' = [location |-> Destination(m), gen |-> Gen(m) + 1]
    /\ UNCHANGED <<exec, work, pause, fence, retired, snapshot, arrival, removal, manifest>>

MoveStep(m) ==
    \/ BlockWrites(m) \/ FenceHistory(m) \/ Measure(m) \/ MarkChecked(m)
    \/ Release(m) \/ Freeze(m) \/ Capture(m) \/ Seal(m) \/ PublishManifest(m)
    \/ Reserve(m) \/ OpenIntake(m) \/ AcceptSnapshot(m) \/ Activate(m)
    \/ CleanupStart(m) \/ CleanupEnds(m)
    \/ Admit(m) \/ Reject(m) \/ Cutover(m)
    \/ \E to \in Locations : Plan(m, to)
    \/ \E o \in Ops : CleanupSelect(m, o) \/ CleanupDelete(m, o)

WalletStep(l) ==
    \/ IssueSession(l) \/ StartCeremony(l) \/ SettleCeremony(l)
    \/ \E o \in Ops : Claim(l, o) \/ Settle(l, o)

Next == (\E m \in Moves : MoveStep(m)) \/ (\E l \in Locations : WalletStep(l))

Spec == Init /\ [][Next]_vars

\* The runtime answers every request it has accepted; Console repeats the
\* commands of an admitted move until it has the receipt and the release of a
\* rejected one until it is answered.
Fairness ==
    \A m \in Moves :
        /\ WF_vars(Release(m)) /\ WF_vars(Freeze(m))
        /\ WF_vars(Capture(m)) /\ WF_vars(Seal(m))
        /\ WF_vars(PublishManifest(m)) /\ WF_vars(OpenIntake(m))
        /\ WF_vars(AcceptSnapshot(m)) /\ WF_vars(Cutover(m)) /\ WF_vars(Activate(m))

FairSpec == Spec /\ Fairness

-----------------------------------------------------------------------------
(* Properties                                                              *)

\* Types, and two facts every table keeps: a fence row belongs to a move from
\* that location, a reservation to a move towards it (the foreign keys and
\* identity columns of migrations 0056 to 0062).
TypeOK ==
    /\ exec \in [Locations -> [state : {"none", "inactive", "active", "retired"},
                               gen : Nat, origin : Moves \cup {none}]]
    /\ ops \in [Locations -> [Ops -> {"none", "claimed", "completed"}]]
    /\ session \in [Locations -> BOOLEAN]
    /\ ceremony \in [Locations -> BOOLEAN]
    /\ block \in [Locations -> [Moves -> {"none", "draining", "checked", "released", "frozen"}]]
    /\ fence \in [Locations -> Moves \cup {none}]
    /\ retired \in [Locations -> Moves \cup {none}]
    /\ snapshot \in [Locations -> [move : Moves \cup {none}, rows : SUBSET Ops, sealed : BOOLEAN]]
    /\ imported \in [Locations -> [move : Moves \cup {none},
                                   state : {"none", "importing", "closed", "activated"}]]
    /\ intake \in [Locations -> [move : Moves \cup {none},
                                 state : {"none", "receiving", "verified"}]]
    /\ receipts \in [Locations -> SUBSET Moves]
    /\ cleanup \in [Locations -> [Moves -> {"none", "cleaning", "cleaned"}]]
    /\ sweep \subseteq Moves \X Ops
    /\ measured \in [Moves -> (SUBSET Ops) \cup {none}]
    /\ prepared \subseteq Moves
    /\ plan \in [Moves -> [from : Locations, to : Locations, gen : Nat,
                           phase : {"none", "planned", "admitted", "rejected", "cutover"}]]
    /\ manifest \in [Moves -> (SUBSET Ops) \cup {none}]
    /\ home \in [location : Locations, gen : Nat]
    /\ claimedAt \in [Ops -> SUBSET Nat]
    /\ \A l \in Locations : /\ fence[l] # none => Source(fence[l]) = l
                            /\ retired[l] # none => fence[l] = retired[l]
                            /\ imported[l].move # none => Destination(imported[l].move) = l

\* The wallet executes at one location at most: between the freeze and the
\* activation at none, however late a command of another move arrives.
OneHome ==
    \A k, l \in Locations :
        exec[k].state = "active" /\ exec[l].state = "active" => k = l

\* An operation that was claimed anywhere is known wherever the wallet
\* executes, so that its fingerprint is still refused there and no
\* authorization is spent a second time after the wallet moved.
HistoryFollowsWallet ==
    \A l \in Locations, o \in Ops :
        exec[l].state = "active" /\ claimedAt[o] # {} => ops[l][o] # "none"

\* No sequence of moves, returns and late cleanups loses the history: some
\* location holds every operation that was ever claimed.
HistoryKept ==
    \E l \in Locations : \A o \in Ops : claimedAt[o] # {} => ops[l][o] # "none"

\* A session that could sign exists only where the wallet executes.
SessionsFollowWallet == \A l \in Locations : session[l] => exec[l].state = "active"

\* What is sealed is what assertCapacity found small enough to be moved.
SealedWithinMeasure ==
    \A l \in Locations :
        snapshot[l].sealed => /\ measured[snapshot[l].move] # none
                              /\ snapshot[l].rows \subseteq measured[snapshot[l].move]

\* A location only ever advances: within a generation from the reservation to
\* execution to retirement, and to another generation only after retirement.
\* So no late command revives a generation the wallet has left.
GenerationsAdvance ==
    [][\A l \in Locations :
         \/ exec'[l] = exec[l]
         \/ exec'[l].gen > exec[l].gen /\ exec[l].state \in {"none", "retired"}
         \/ /\ exec'[l].gen = exec[l].gen /\ exec'[l].origin = exec[l].origin
            /\ <<exec[l].state, exec'[l].state>> \in {<<"inactive", "active">>,
                                                     <<"active", "retired">>}]_vars

\* The pause of a rejected move ends for good: a check of that move that is
\* carried out late cannot stop the wallet again.
RejectedMoveLetsGo ==
    \A m \in Moves : plan[m].phase = "rejected" ~>
        [](/\ block[Source(m)][m] \notin {"draining", "checked"}
           /\ fence[Source(m)] # m)

\* The destination's intake row belongs to an earlier move that was activated
\* here long ago: its import request arrived again after the return of the
\* wallet had cleared the row, and migration 0057 lets it insert the row anew.
HeldByOldIntake(m) ==
    LET l == Destination(m)
        old == intake[l].move
    IN  old # m /\ old \in receipts[l] /\ Gen(old) < Gen(m) /\ imported[l].move = m

\* An admitted move ends with the activation of its destination, unless a
\* delayed import request of an earlier move takes the place of its intake.
MoveFinishes ==
    \A m \in Moves : plan[m].phase = "admitted" ~>
        m \in receipts[Destination(m)] \/ HeldByOldIntake(m)
==============================================================================
