------------------------- MODULE WalletHomesProofs -------------------------
(***************************************************************************)
(* The wallet executes at one location at most, for every number of        *)
(* locations, moves and operations.                                        *)
(*                                                                         *)
(* The argument: whatever executes is Console's home, with its generation. *)
(* A pause of a source belongs to the generation that executes there and   *)
(* one move at a time holds it, so the admitted move is the only one and   *)
(* starts at the home; it freezes the home before a manifest exists, and   *)
(* the cutover needs the manifest.  So when the home changes nothing       *)
(* executes, and the one activation that is then possible is the new home. *)
(***************************************************************************)
EXTENDS WalletHomes, TLAPS

Paused(m) == block[Source(m)][m] \in {"draining", "checked"}
Frozen(m) == block[Source(m)][m] = "frozen"
NothingExecutes == \A l \in Locations : exec[l].state # "active"

\* The cutover of m has happened and its activation has not.
Pending(m) == plan[m].phase = "cutover" /\ m \notin receipts[Destination(m)]

Execution == [state : {"none", "inactive", "active", "retired"}, gen : Nat,
              origin : Moves \cup {none}]
PlanRow == [from : Locations, to : Locations, gen : Nat,
            phase : {"none", "planned", "admitted", "rejected", "cutover"}]
BlockStates == {"none", "draining", "checked", "released", "frozen"}

\* The tables the argument is about.
Tables ==
    /\ exec \in [Locations -> Execution]
    /\ block \in [Locations -> [Moves -> BlockStates]]
    /\ plan \in [Moves -> PlanRow]
    /\ home \in [location : Locations, gen : Nat]
    /\ receipts \in [Locations -> SUBSET Moves]
    /\ manifest = [m \in Moves |-> manifest[m]]
    /\ intake \in [Locations -> [move : Moves \cup {none},
                                 state : {"none", "receiving", "verified"}]]
    /\ snapshot \in [Locations -> [move : Moves \cup {none}, rows : SUBSET Ops, sealed : BOOLEAN]]
    /\ retired \in [Locations -> Moves \cup {none}]

NoExecutionIsZero == \A l \in Locations : exec[l].state = "none" => exec[l].gen = 0

ExecutesAtHome ==
    \A l \in Locations : exec[l].state = "active" => l = home.location /\ exec[l].gen = home.gen

BlocksArePlanned ==
    \A l \in Locations, m \in Moves : block[l][m] # "none" => Planned(m) /\ l = Source(m)

PausesExecute ==
    \A m \in Moves : Paused(m) => ExecutesAt(Source(m), Gen(m))

OnePause ==
    \A m, n \in Moves : Paused(m) /\ Paused(n) /\ Source(m) = Source(n) => m = n

FrozenIsOver ==
    \A m \in Moves : Frozen(m) =>
        \/ exec[Source(m)].gen > Gen(m)
        \/ exec[Source(m)].gen = Gen(m) /\ exec[Source(m)].state = "retired"

AdmittedFromHome ==
    \A m \in Moves : plan[m].phase = "admitted" =>
        /\ Source(m) = home.location /\ Gen(m) = home.gen
        /\ block[Source(m)][m] \in {"checked", "frozen"}

OneAdmitted ==
    \A m, n \in Moves : plan[m].phase = "admitted" /\ plan[n].phase = "admitted" => m = n

\* What the source gives away, it gives away frozen.
RetiredFrozen ==
    \A l \in Locations : retired[l] # none =>
        retired[l] \in Moves /\ Source(retired[l]) = l /\ Frozen(retired[l])

SnapshotFrozen ==
    \A l \in Locations : snapshot[l].move # none =>
        snapshot[l].move \in Moves /\ Source(snapshot[l].move) = l /\ Frozen(snapshot[l].move)

ManifestFrozen == \A m \in Moves : manifest[m] # none => Frozen(m)

IntakeHasManifest ==
    \A l \in Locations : intake[l].move # none =>
        intake[l].move \in Moves /\ manifest[intake[l].move] # none

PendingIsHome ==
    \A m \in Moves : Pending(m) =>
        /\ home.location = Destination(m) /\ home.gen = Gen(m) + 1
        /\ NothingExecutes
        /\ \A n \in Moves : plan[n].phase # "admitted" /\ (Pending(n) => n = m)

HomeInv ==
    /\ Tables
    /\ NoExecutionIsZero
    /\ ExecutesAtHome
    /\ BlocksArePlanned
    /\ PausesExecute
    /\ OnePause
    /\ FrozenIsOver
    /\ AdmittedFromHome
    /\ OneAdmitted
    /\ RetiredFrozen
    /\ SnapshotFrozen
    /\ ManifestFrozen
    /\ IntakeHasManifest
    /\ PendingIsHome

\* What the argument looks at.
owners == <<exec, block, plan, home, receipts, manifest, intake, snapshot, retired>>

USE DEF Paused, Frozen, Pending, NothingExecutes, Planned, Source, Destination, Gen, ExecutesAt

LEMMA OwnersFrame == HomeInv /\ UNCHANGED owners => HomeInv'
  BY DEF owners, HomeInv, Tables, NoExecutionIsZero, ExecutesAtHome, BlocksArePlanned,
         PausesExecute, OnePause, FrozenIsOver, AdmittedFromHome, OneAdmitted, RetiredFrozen,
         SnapshotFrozen, ManifestFrozen, IntakeHasManifest, PendingIsHome

\* Where a move starts and ends.
LEMMA Route ==
    HomeInv => \A n \in Moves : /\ Source(n) \in Locations /\ Destination(n) \in Locations
                                /\ Gen(n) \in Nat
  BY DEF HomeInv, Tables, PlanRow

\* The pause starts where its generation executes and nobody else pauses.
LEMMA BlockWritesKeeps == ASSUME HomeInv, NEW m \in Moves, BlockWrites(m) PROVE HomeInv'
<1>1. UNCHANGED <<exec, plan, home, receipts, manifest, intake, snapshot, retired>>
  BY DEF BlockWrites, pause, work, arrival, removal, console
<1>2. \A l \in Locations, n \in Moves :
        block'[l][n] = IF l = Source(m) /\ n = m THEN "draining" ELSE block[l][n]
  BY DEF BlockWrites, HomeInv, Tables, BlockStates, PlanRow
<1>3. /\ Planned(m) /\ ExecutesAt(Source(m), Gen(m)) /\ Unblocked(Source(m))
      /\ block[Source(m)][m] = "none"
  BY DEF BlockWrites
<1>4. Tables'
  BY <1>1, <1>2, <1>3, Route DEF BlockWrites, HomeInv, Tables, Execution, PlanRow, BlockStates
<1>5. /\ NoExecutionIsZero'
      /\ ExecutesAtHome'
      /\ OneAdmitted'
      /\ IntakeHasManifest'
      /\ PendingIsHome'
  BY <1>1 DEF HomeInv, NoExecutionIsZero, ExecutesAtHome, OneAdmitted,
             IntakeHasManifest, PendingIsHome
<1>6. BlocksArePlanned'
  BY <1>1, <1>2, <1>3, Route DEF HomeInv, BlocksArePlanned
<1>7. PausesExecute'
  BY <1>1, <1>2, <1>3, Route DEF HomeInv, PausesExecute
<1>8. OnePause'
  BY <1>1, <1>2, <1>3, Route DEF HomeInv, OnePause, Unblocked
<1>9. FrozenIsOver'
  BY <1>1, <1>2, <1>3, Route DEF HomeInv, FrozenIsOver
<1>10. AdmittedFromHome'
  BY <1>1, <1>2, <1>3, Route DEF HomeInv, AdmittedFromHome
<1>11. RetiredFrozen'
  BY <1>1, <1>2, <1>3, Route DEF HomeInv, RetiredFrozen
<1>12. SnapshotFrozen'
  BY <1>1, <1>2, <1>3, Route DEF HomeInv, SnapshotFrozen
<1>13. ManifestFrozen'
  BY <1>1, <1>2, <1>3, Route DEF HomeInv, ManifestFrozen
<1> QED BY <1>4, <1>5, <1>6, <1>7, <1>8, <1>9, <1>10, <1>11, <1>12, <1>13 DEF HomeInv

\* The pause is checked.
LEMMA MarkCheckedKeeps == ASSUME HomeInv, NEW m \in Moves, MarkChecked(m) PROVE HomeInv'
<1>1. UNCHANGED <<exec, plan, home, receipts, manifest, intake, snapshot, retired>>
  BY DEF MarkChecked, pause, work, arrival, removal, console
<1>2. \A l \in Locations, n \in Moves :
        block'[l][n] = IF l = Source(m) /\ n = m THEN "checked" ELSE block[l][n]
  BY DEF MarkChecked, HomeInv, Tables, BlockStates, PlanRow
<1>3. block[Source(m)][m] = "draining"
  BY DEF MarkChecked
<1>4. Tables'
  BY <1>1, <1>2, <1>3, Route DEF MarkChecked, HomeInv, Tables, Execution, PlanRow, BlockStates
<1>5. /\ NoExecutionIsZero'
      /\ ExecutesAtHome'
      /\ OneAdmitted'
      /\ IntakeHasManifest'
      /\ PendingIsHome'
  BY <1>1 DEF HomeInv, NoExecutionIsZero, ExecutesAtHome, OneAdmitted,
             IntakeHasManifest, PendingIsHome
<1>6. BlocksArePlanned'
  BY <1>1, <1>2, <1>3, Route DEF HomeInv, BlocksArePlanned
<1>7. PausesExecute'
  BY <1>1, <1>2, <1>3, Route DEF HomeInv, PausesExecute
<1>8. OnePause'
  BY <1>1, <1>2, <1>3, Route DEF HomeInv, OnePause
<1>9. FrozenIsOver'
  BY <1>1, <1>2, <1>3, Route DEF HomeInv, FrozenIsOver
<1>10. AdmittedFromHome'
  BY <1>1, <1>2, <1>3, Route DEF HomeInv, AdmittedFromHome
<1>11. RetiredFrozen'
  BY <1>1, <1>2, <1>3, Route DEF HomeInv, RetiredFrozen
<1>12. SnapshotFrozen'
  BY <1>1, <1>2, <1>3, Route DEF HomeInv, SnapshotFrozen
<1>13. ManifestFrozen'
  BY <1>1, <1>2, <1>3, Route DEF HomeInv, ManifestFrozen
<1> QED BY <1>4, <1>5, <1>6, <1>7, <1>8, <1>9, <1>10, <1>11, <1>12, <1>13 DEF HomeInv

\* The pause of a rejected move ends.
LEMMA ReleaseKeeps == ASSUME HomeInv, NEW m \in Moves, Release(m) PROVE HomeInv'
<1>1. UNCHANGED <<exec, plan, home, receipts, manifest, intake, snapshot, retired>>
  BY DEF Release, pause, work, arrival, removal, console
<1>2. \A l \in Locations, n \in Moves :
        block'[l][n] = IF l = Source(m) /\ n = m THEN "released" ELSE block[l][n]
  BY DEF Release, HomeInv, Tables, BlockStates, PlanRow
<1>3. plan[m].phase = "rejected" /\ block[Source(m)][m] # "frozen"
  BY DEF Release
<1>4. Tables'
  BY <1>1, <1>2, <1>3, Route DEF Release, HomeInv, Tables, Execution, PlanRow, BlockStates
<1>5. /\ NoExecutionIsZero'
      /\ ExecutesAtHome'
      /\ OneAdmitted'
      /\ IntakeHasManifest'
      /\ PendingIsHome'
  BY <1>1 DEF HomeInv, NoExecutionIsZero, ExecutesAtHome, OneAdmitted,
             IntakeHasManifest, PendingIsHome
<1>6. BlocksArePlanned'
  BY <1>1, <1>2, <1>3, Route DEF HomeInv, BlocksArePlanned
<1>7. PausesExecute'
  BY <1>1, <1>2, <1>3, Route DEF HomeInv, PausesExecute
<1>8. OnePause'
  BY <1>1, <1>2, <1>3, Route DEF HomeInv, OnePause
<1>9. FrozenIsOver'
  BY <1>1, <1>2, <1>3, Route DEF HomeInv, FrozenIsOver
<1>10. AdmittedFromHome'
  BY <1>1, <1>2, <1>3, Route DEF HomeInv, AdmittedFromHome
<1>11. RetiredFrozen'
  BY <1>1, <1>2, <1>3, Route DEF HomeInv, RetiredFrozen
<1>12. SnapshotFrozen'
  BY <1>1, <1>2, <1>3, Route DEF HomeInv, SnapshotFrozen
<1>13. ManifestFrozen'
  BY <1>1, <1>2, <1>3, Route DEF HomeInv, ManifestFrozen
<1> QED BY <1>4, <1>5, <1>6, <1>7, <1>8, <1>9, <1>10, <1>11, <1>12, <1>13 DEF HomeInv

\* The admitted move closes the home.
LEMMA FreezeKeeps == ASSUME HomeInv, NEW m \in Moves, Freeze(m) PROVE HomeInv'
<1>1. UNCHANGED <<plan, home, receipts, manifest, intake, snapshot>>
  BY DEF Freeze, pause, work, arrival, removal, console
<1>2. \A l \in Locations, n \in Moves :
        block'[l][n] = IF l = Source(m) /\ n = m THEN "frozen" ELSE block[l][n]
  BY DEF Freeze, HomeInv, Tables, BlockStates, PlanRow
<1>3. /\ exec[Source(m)].state = "active" /\ exec[Source(m)].gen = Gen(m)
      /\ exec' = [exec EXCEPT ![Source(m)].state = "retired"]
  BY DEF Freeze, RetirementAdmitted
<1>4. /\ exec'[Source(m)].state = "retired" /\ exec'[Source(m)].gen = Gen(m)
      /\ \A l \in Locations : l # Source(m) => exec'[l] = exec[l]
  BY <1>3 DEF HomeInv, Tables, Execution, PlanRow
<1>5. \A l \in Locations : retired'[l] = IF l = Source(m) THEN m ELSE retired[l]
  BY DEF Freeze, HomeInv, Tables
<1>6. plan[m].phase = "admitted" /\ block[Source(m)][m] = "checked"
  BY <1>3, Route DEF Freeze, HomeInv, FrozenIsOver
<1>7. Tables'
  <2>0. [exec[Source(m)] EXCEPT !.state = "retired"] \in Execution
    <3>1. exec[Source(m)] \in Execution
      BY Route DEF HomeInv, Tables
    <3> QED BY <3>1 DEF Execution
  <2>1. exec' \in [Locations -> Execution]
    BY <1>3, <2>0 DEF HomeInv, Tables
  <2>2. /\ block' \in [Locations -> [Moves -> BlockStates]]
        /\ retired' \in [Locations -> Moves \cup {none}]
    BY Route DEF Freeze, HomeInv, Tables, BlockStates
  <2> QED BY <1>1, <2>1, <2>2 DEF HomeInv, Tables
<1>8. OneAdmitted' /\ IntakeHasManifest'
  BY <1>1 DEF HomeInv, OneAdmitted, IntakeHasManifest
<1>9. NoExecutionIsZero'
  BY <1>1, <1>2, <1>3, <1>4, <1>5, <1>6, Route DEF HomeInv, NoExecutionIsZero
<1>10. ExecutesAtHome'
  BY <1>1, <1>2, <1>3, <1>4, <1>5, <1>6, Route DEF HomeInv, ExecutesAtHome
<1>11. BlocksArePlanned'
  BY <1>1, <1>2, <1>3, <1>4, <1>5, <1>6, Route DEF HomeInv, BlocksArePlanned
<1>12. PausesExecute'
  BY <1>1, <1>2, <1>3, <1>4, <1>5, <1>6, Route DEF HomeInv, PausesExecute, OnePause
<1>13. OnePause'
  BY <1>1, <1>2, <1>3, <1>4, <1>5, <1>6, Route DEF HomeInv, OnePause
<1>14. FrozenIsOver'
  BY <1>1, <1>2, <1>3, <1>4, <1>5, <1>6, Route DEF HomeInv, FrozenIsOver
<1>15. AdmittedFromHome'
  BY <1>1, <1>2, <1>3, <1>4, <1>5, <1>6, Route DEF HomeInv, AdmittedFromHome
<1>16. RetiredFrozen'
  BY <1>1, <1>2, <1>3, <1>4, <1>5, <1>6, Route DEF HomeInv, RetiredFrozen
<1>17. SnapshotFrozen'
  BY <1>1, <1>2, <1>3, <1>4, <1>5, <1>6, Route DEF HomeInv, SnapshotFrozen
<1>18. ManifestFrozen'
  BY <1>1, <1>2, <1>3, <1>4, <1>5, <1>6, Route DEF HomeInv, ManifestFrozen
<1>19. PendingIsHome'
  BY <1>1, <1>2, <1>3, <1>4, <1>5, <1>6, Route DEF HomeInv, PendingIsHome
<1> QED BY <1>7, <1>8, <1>9, <1>10, <1>11, <1>12, <1>13, <1>14, <1>15, <1>16, <1>17,
          <1>18, <1>19 DEF HomeInv

\* The source gives its records away.
LEMMA CaptureKeeps == ASSUME HomeInv, NEW m \in Moves, Capture(m) PROVE HomeInv'
<1>1. UNCHANGED <<exec, block, plan, home, receipts, manifest, intake, retired>>
  BY DEF Capture, pause, work, arrival, removal, console
<1>2. \A l \in Locations : snapshot'[l].move = IF l = Source(m) THEN m ELSE snapshot[l].move
  BY DEF Capture, HomeInv, Tables, PlanRow
<1>3. retired[Source(m)] = m /\ m # none
  BY NoneAssumption DEF Capture
<1>4. Tables'
  <2>1. snapshot' \in [Locations -> [move : Moves \cup {none}, rows : SUBSET Ops,
                                   sealed : BOOLEAN]]
    BY Route DEF Capture, Completed, HomeInv, Tables
  <2> QED BY <1>1, <2>1 DEF HomeInv, Tables
<1>5. /\ NoExecutionIsZero'
      /\ ExecutesAtHome'
      /\ BlocksArePlanned'
      /\ PausesExecute'
      /\ OnePause'
      /\ FrozenIsOver'
      /\ AdmittedFromHome'
      /\ OneAdmitted'
      /\ RetiredFrozen'
      /\ ManifestFrozen'
      /\ IntakeHasManifest'
      /\ PendingIsHome'
  BY <1>1 DEF HomeInv, NoExecutionIsZero, ExecutesAtHome, BlocksArePlanned,
             PausesExecute, OnePause, FrozenIsOver, AdmittedFromHome, OneAdmitted,
             RetiredFrozen, ManifestFrozen, IntakeHasManifest, PendingIsHome
<1>6. SnapshotFrozen'
  BY <1>1, <1>2, <1>3, Route DEF HomeInv, SnapshotFrozen, RetiredFrozen
<1> QED BY <1>4, <1>5, <1>6 DEF HomeInv

\* The source seals its records.
LEMMA SealKeeps == ASSUME HomeInv, NEW m \in Moves, Seal(m) PROVE HomeInv'
<1>1. UNCHANGED <<exec, block, plan, home, receipts, manifest, intake, retired>>
  BY DEF Seal, pause, work, arrival, removal, console
<1>2. \A l \in Locations : snapshot'[l].move = IF l = Source(m) THEN m ELSE snapshot[l].move
  BY DEF Seal, HomeInv, Tables, PlanRow
<1>3. retired[Source(m)] = m /\ m # none
  BY NoneAssumption DEF Seal
<1>4. Tables'
  <2>1. snapshot' \in [Locations -> [move : Moves \cup {none}, rows : SUBSET Ops,
                                   sealed : BOOLEAN]]
    BY Route DEF Seal, Completed, HomeInv, Tables
  <2> QED BY <1>1, <2>1 DEF HomeInv, Tables
<1>5. /\ NoExecutionIsZero'
      /\ ExecutesAtHome'
      /\ BlocksArePlanned'
      /\ PausesExecute'
      /\ OnePause'
      /\ FrozenIsOver'
      /\ AdmittedFromHome'
      /\ OneAdmitted'
      /\ RetiredFrozen'
      /\ ManifestFrozen'
      /\ IntakeHasManifest'
      /\ PendingIsHome'
  BY <1>1 DEF HomeInv, NoExecutionIsZero, ExecutesAtHome, BlocksArePlanned,
             PausesExecute, OnePause, FrozenIsOver, AdmittedFromHome, OneAdmitted,
             RetiredFrozen, ManifestFrozen, IntakeHasManifest, PendingIsHome
<1>6. SnapshotFrozen'
  BY <1>1, <1>2, <1>3, Route DEF HomeInv, SnapshotFrozen, RetiredFrozen
<1> QED BY <1>4, <1>5, <1>6 DEF HomeInv

\* The manifest is pinned.
LEMMA PublishManifestKeeps == ASSUME HomeInv, NEW m \in Moves, PublishManifest(m) PROVE HomeInv'
<1>1. UNCHANGED <<exec, block, plan, home, receipts, intake, snapshot, retired>>
  BY DEF PublishManifest, pause, work, arrival, removal, console
<1>2. \A n \in Moves : n # m => manifest'[n] = manifest[n]
  BY DEF PublishManifest, HomeInv, Tables
<1>3. manifest[m] = none /\ snapshot[Source(m)].move = m /\ m # none
  BY NoneAssumption DEF PublishManifest
<1>4. Tables'
  BY <1>1, <1>2, <1>3, Route DEF PublishManifest, HomeInv, Tables, Execution, PlanRow, BlockStates
<1>5. /\ NoExecutionIsZero'
      /\ ExecutesAtHome'
      /\ BlocksArePlanned'
      /\ PausesExecute'
      /\ OnePause'
      /\ FrozenIsOver'
      /\ AdmittedFromHome'
      /\ OneAdmitted'
      /\ RetiredFrozen'
      /\ SnapshotFrozen'
      /\ PendingIsHome'
  BY <1>1 DEF HomeInv, NoExecutionIsZero, ExecutesAtHome, BlocksArePlanned,
             PausesExecute, OnePause, FrozenIsOver, AdmittedFromHome, OneAdmitted,
             RetiredFrozen, SnapshotFrozen, PendingIsHome
<1>6. ManifestFrozen'
  BY <1>1, <1>2, <1>3, Route DEF HomeInv, ManifestFrozen, SnapshotFrozen
<1>7. IntakeHasManifest'
  BY <1>1, <1>2, <1>3, Route DEF HomeInv, IntakeHasManifest
<1> QED BY <1>4, <1>5, <1>6, <1>7 DEF HomeInv

\* A location is reserved that the wallet has left, or never knew.
LEMMA ReserveKeeps == ASSUME HomeInv, NEW m \in Moves, Reserve(m) PROVE HomeInv'
<1>1. UNCHANGED <<block, plan, home, receipts, manifest>>
  BY DEF Reserve, pause, work, arrival, removal, console
<1>2. /\ exec'[Destination(m)].state = "inactive" /\ exec'[Destination(m)].gen = Gen(m) + 1
      /\ \A l \in Locations : l # Destination(m) => exec'[l] = exec[l]
  BY Route DEF Reserve, HomeInv, Tables
<1>3. /\ exec[Destination(m)].state # "active"
      /\ exec[Destination(m)].gen < Gen(m) + 1 /\ exec[Destination(m)].gen \in Nat
  <2>1. exec[Destination(m)].gen \in Nat
    BY Route DEF HomeInv, Tables, Execution
  <2>2. CASE exec[Destination(m)].state = "none"
    BY <2>1, <2>2, Route DEF HomeInv, NoExecutionIsZero
  <2>3. CASE exec[Destination(m)].state # "none"
    <3>1. LeftBy(Destination(m), Gen(m)) # {}
      BY <2>3 DEF Reserve
    <3> QED BY <2>1, <3>1, Route DEF LeftBy
  <2> QED BY <2>2, <2>3
<1>4. \A l \in Locations : /\ retired'[l] \in {retired[l], none}
                           /\ snapshot'[l].move \in {snapshot[l].move, none}
                           /\ intake'[l].move \in {intake[l].move, none}
  BY Route DEF Reserve, HomeInv, Tables, NoSnapshot, NoImport
<1>5. Tables'
  <2>1. exec' \in [Locations -> Execution]
    BY Route DEF Reserve, HomeInv, Tables, Execution
  <2>2. retired' \in [Locations -> Moves \cup {none}]
    BY Route DEF Reserve, HomeInv, Tables
  <2>3. snapshot' \in [Locations -> [move : Moves \cup {none}, rows : SUBSET Ops,
                                   sealed : BOOLEAN]]
    BY Route DEF Reserve, HomeInv, Tables, NoSnapshot
  <2>4. intake' \in [Locations -> [move : Moves \cup {none},
                                 state : {"none", "receiving", "verified"}]]
    BY Route DEF Reserve, HomeInv, Tables, NoImport
  <2> QED BY <1>1, <2>1, <2>2, <2>3, <2>4 DEF HomeInv, Tables
<1>6. /\ BlocksArePlanned'
      /\ OnePause'
      /\ AdmittedFromHome'
      /\ OneAdmitted'
      /\ ManifestFrozen'
  BY <1>1 DEF HomeInv, BlocksArePlanned, OnePause, AdmittedFromHome, OneAdmitted,
             ManifestFrozen
<1>7. NoExecutionIsZero'
  BY <1>1, <1>2, <1>3, <1>4, Route DEF HomeInv, NoExecutionIsZero
<1>8. ExecutesAtHome'
  BY <1>1, <1>2, <1>3, <1>4, Route DEF HomeInv, ExecutesAtHome
<1>9. PausesExecute'
  BY <1>1, <1>2, <1>3, <1>4, Route DEF HomeInv, PausesExecute
<1>10. FrozenIsOver'
  BY <1>1, <1>2, <1>3, <1>4, Route DEF HomeInv, FrozenIsOver
<1>11. RetiredFrozen'
  BY <1>1, <1>2, <1>3, <1>4, Route DEF HomeInv, RetiredFrozen
<1>12. SnapshotFrozen'
  BY <1>1, <1>2, <1>3, <1>4, Route DEF HomeInv, SnapshotFrozen
<1>13. IntakeHasManifest'
  BY <1>1, <1>2, <1>3, <1>4, Route DEF HomeInv, IntakeHasManifest
<1>14. PendingIsHome'
  BY <1>1, <1>2, <1>3, <1>4, Route DEF HomeInv, PendingIsHome
<1> QED BY <1>5, <1>6, <1>7, <1>8, <1>9, <1>10, <1>11, <1>12, <1>13, <1>14 DEF HomeInv

\* The destination asks for what the manifest names.
LEMMA OpenIntakeKeeps == ASSUME HomeInv, NEW m \in Moves, OpenIntake(m) PROVE HomeInv'
<1>1. UNCHANGED <<exec, block, plan, home, receipts, manifest, snapshot, retired>>
  BY DEF OpenIntake, pause, work, arrival, removal, console
<1>2. \A l \in Locations : intake'[l].move = IF l = Destination(m) THEN m ELSE intake[l].move
  BY Route DEF OpenIntake, HomeInv, Tables
<1>3. manifest[m] # none
  BY DEF OpenIntake
<1>4. Tables'
  BY <1>1, <1>2, <1>3, Route DEF OpenIntake, HomeInv, Tables, Execution, PlanRow, BlockStates
<1>5. /\ NoExecutionIsZero'
      /\ ExecutesAtHome'
      /\ BlocksArePlanned'
      /\ PausesExecute'
      /\ OnePause'
      /\ FrozenIsOver'
      /\ AdmittedFromHome'
      /\ OneAdmitted'
      /\ RetiredFrozen'
      /\ SnapshotFrozen'
      /\ ManifestFrozen'
      /\ PendingIsHome'
  BY <1>1 DEF HomeInv, NoExecutionIsZero, ExecutesAtHome, BlocksArePlanned,
             PausesExecute, OnePause, FrozenIsOver, AdmittedFromHome, OneAdmitted,
             RetiredFrozen, SnapshotFrozen, ManifestFrozen, PendingIsHome
<1>6. IntakeHasManifest'
  BY <1>1, <1>2, <1>3, Route DEF HomeInv, IntakeHasManifest
<1> QED BY <1>4, <1>5, <1>6 DEF HomeInv

\* The destination has verified the snapshot.
LEMMA AcceptSnapshotKeeps == ASSUME HomeInv, NEW m \in Moves, AcceptSnapshot(m) PROVE HomeInv'
<1>1. UNCHANGED <<exec, block, plan, home, receipts, manifest, snapshot, retired>>
  BY DEF AcceptSnapshot, pause, work, arrival, removal, console
<1>2. \A l \in Locations : intake'[l].move = intake[l].move
  BY Route DEF AcceptSnapshot, HomeInv, Tables
<1>3. Tables'
  <2>1. intake' \in [Locations -> [move : Moves \cup {none},
                                 state : {"none", "receiving", "verified"}]]
    BY Route DEF AcceptSnapshot, HomeInv, Tables
  <2> QED BY <1>1, <2>1 DEF HomeInv, Tables
<1>4. /\ NoExecutionIsZero'
      /\ ExecutesAtHome'
      /\ BlocksArePlanned'
      /\ PausesExecute'
      /\ OnePause'
      /\ FrozenIsOver'
      /\ AdmittedFromHome'
      /\ OneAdmitted'
      /\ RetiredFrozen'
      /\ SnapshotFrozen'
      /\ ManifestFrozen'
      /\ PendingIsHome'
  BY <1>1 DEF HomeInv, NoExecutionIsZero, ExecutesAtHome, BlocksArePlanned,
             PausesExecute, OnePause, FrozenIsOver, AdmittedFromHome, OneAdmitted,
             RetiredFrozen, SnapshotFrozen, ManifestFrozen, PendingIsHome
<1>5. IntakeHasManifest'
  BY <1>1, <1>2, Route DEF HomeInv, IntakeHasManifest
<1> QED BY <1>3, <1>4, <1>5 DEF HomeInv

\* The pending cutover opens the new home.
LEMMA ActivateKeeps == ASSUME HomeInv, NEW m \in Moves, Activate(m) PROVE HomeInv'
<1>1. UNCHANGED <<block, plan, home, manifest, intake, snapshot, retired>>
  BY DEF Activate, pause, work, arrival, removal, console
<1>2. exec[Destination(m)].state = "inactive" /\ exec[Destination(m)].gen = Gen(m) + 1
  BY DEF Activate
<1>3. /\ exec'[Destination(m)].state = "active" /\ exec'[Destination(m)].gen = Gen(m) + 1
      /\ \A l \in Locations : l # Destination(m) => exec'[l] = exec[l]
  BY <1>2, Route DEF Activate, HomeInv, Tables, Execution
<1>4. Pending(m)
  BY DEF Activate
<1>5. \A l \in Locations : receipts'[l] = IF l = Destination(m) THEN receipts[l] \cup {m}
                                                      ELSE receipts[l]
  BY Route DEF Activate, HomeInv, Tables
<1>6. Tables'
  <2>1. exec' \in [Locations -> Execution]
    BY DEF Activate, HomeInv, Tables, Execution
  <2>2. receipts' \in [Locations -> SUBSET Moves]
    BY Route DEF Activate, HomeInv, Tables
  <2> QED BY <1>1, <2>1, <2>2 DEF HomeInv, Tables
<1>7. /\ BlocksArePlanned'
      /\ OnePause'
      /\ AdmittedFromHome'
      /\ OneAdmitted'
      /\ RetiredFrozen'
      /\ SnapshotFrozen'
      /\ ManifestFrozen'
      /\ IntakeHasManifest'
  BY <1>1 DEF HomeInv, BlocksArePlanned, OnePause, AdmittedFromHome, OneAdmitted,
             RetiredFrozen, SnapshotFrozen, ManifestFrozen, IntakeHasManifest
<1>8. NoExecutionIsZero'
  BY <1>1, <1>2, <1>3, <1>4, <1>5, Route DEF HomeInv, NoExecutionIsZero
<1>9. ExecutesAtHome'
  BY <1>1, <1>2, <1>3, <1>4, <1>5, Route DEF HomeInv, ExecutesAtHome, PendingIsHome
<1>10. PausesExecute'
  BY <1>1, <1>2, <1>3, <1>4, <1>5, Route DEF HomeInv, PausesExecute
<1>11. FrozenIsOver'
  BY <1>1, <1>2, <1>3, <1>4, <1>5, Route DEF HomeInv, FrozenIsOver
<1>12. PendingIsHome'
  BY <1>1, <1>2, <1>3, <1>4, <1>5, Route DEF HomeInv, PendingIsHome
<1> QED BY <1>6, <1>7, <1>8, <1>9, <1>10, <1>11, <1>12 DEF HomeInv

\* The move that holds the pause is admitted.
LEMMA AdmitKeeps == ASSUME HomeInv, NEW m \in Moves, Admit(m) PROVE HomeInv'
<1>1. UNCHANGED <<exec, block, home, receipts, manifest, intake, snapshot, retired>>
  BY DEF Admit, pause, work, arrival, removal, console
<1>2. \A n \in Moves : /\ plan'[n].from = plan[n].from /\ plan'[n].to = plan[n].to
                       /\ plan'[n].gen = plan[n].gen
                       /\ plan'[n].phase = IF n = m THEN "admitted" ELSE plan[n].phase
  BY DEF Admit, HomeInv, Tables, PlanRow
<1>3. plan[m].phase = "planned" /\ block[Source(m)][m] = "checked"
  BY DEF Admit
<1>4. ExecutesAt(Source(m), Gen(m)) /\ Source(m) = home.location /\ Gen(m) = home.gen
  BY <1>3, Route DEF HomeInv, PausesExecute, ExecutesAtHome
<1>5. Tables'
  <2>0. [plan[m] EXCEPT !.phase = "admitted"] \in PlanRow
    <3>1. plan[m] \in PlanRow
      BY DEF HomeInv, Tables
    <3> QED BY <3>1 DEF PlanRow
  <2>1. plan' \in [Moves -> PlanRow]
    BY <2>0 DEF Admit, HomeInv, Tables
  <2> QED BY <1>1, <2>1 DEF HomeInv, Tables
<1>6. NoExecutionIsZero' /\ ExecutesAtHome' /\ IntakeHasManifest'
  BY <1>1 DEF HomeInv, NoExecutionIsZero, ExecutesAtHome, IntakeHasManifest
<1>7. BlocksArePlanned'
  BY <1>1, <1>2, <1>3, <1>4, Route DEF HomeInv, BlocksArePlanned
<1>8. PausesExecute'
  BY <1>1, <1>2, <1>3, <1>4, Route DEF HomeInv, PausesExecute
<1>9. OnePause'
  BY <1>1, <1>2, <1>3, <1>4, Route DEF HomeInv, OnePause
<1>10. FrozenIsOver'
  BY <1>1, <1>2, <1>3, <1>4, Route DEF HomeInv, FrozenIsOver
<1>11. AdmittedFromHome'
  BY <1>1, <1>2, <1>3, <1>4, Route DEF HomeInv, AdmittedFromHome
<1>12. OneAdmitted'
  BY <1>1, <1>2, <1>3, <1>4, Route
     DEF HomeInv, OneAdmitted, AdmittedFromHome, OnePause, FrozenIsOver
<1>13. RetiredFrozen'
  BY <1>1, <1>2, <1>3, <1>4, Route DEF HomeInv, RetiredFrozen
<1>14. SnapshotFrozen'
  BY <1>1, <1>2, <1>3, <1>4, Route DEF HomeInv, SnapshotFrozen
<1>15. ManifestFrozen'
  BY <1>1, <1>2, <1>3, <1>4, Route DEF HomeInv, ManifestFrozen
<1>16. PendingIsHome'
  BY <1>1, <1>2, <1>3, <1>4, Route DEF HomeInv, PendingIsHome
<1> QED BY <1>5, <1>6, <1>7, <1>8, <1>9, <1>10, <1>11, <1>12, <1>13, <1>14, <1>15,
          <1>16 DEF HomeInv

\* A planned move is rejected.
LEMMA RejectKeeps == ASSUME HomeInv, NEW m \in Moves, Reject(m) PROVE HomeInv'
<1>1. UNCHANGED <<exec, block, home, receipts, manifest, intake, snapshot, retired>>
  BY DEF Reject, pause, work, arrival, removal, console
<1>2. \A n \in Moves : /\ plan'[n].from = plan[n].from /\ plan'[n].to = plan[n].to
                       /\ plan'[n].gen = plan[n].gen
                       /\ plan'[n].phase = IF n = m THEN "rejected" ELSE plan[n].phase
  BY DEF Reject, HomeInv, Tables, PlanRow
<1>3. plan[m].phase = "planned"
  BY DEF Reject
<1>4. Tables'
  <2>0. [plan[m] EXCEPT !.phase = "rejected"] \in PlanRow
    <3>1. plan[m] \in PlanRow
      BY DEF HomeInv, Tables
    <3> QED BY <3>1 DEF PlanRow
  <2>1. plan' \in [Moves -> PlanRow]
    BY <2>0 DEF Reject, HomeInv, Tables
  <2> QED BY <1>1, <2>1 DEF HomeInv, Tables
<1>5. NoExecutionIsZero' /\ ExecutesAtHome' /\ IntakeHasManifest'
  BY <1>1 DEF HomeInv, NoExecutionIsZero, ExecutesAtHome, IntakeHasManifest
<1>6. BlocksArePlanned'
  BY <1>1, <1>2, <1>3, Route DEF HomeInv, BlocksArePlanned
<1>7. PausesExecute'
  BY <1>1, <1>2, <1>3, Route DEF HomeInv, PausesExecute
<1>8. OnePause'
  BY <1>1, <1>2, <1>3, Route DEF HomeInv, OnePause
<1>9. FrozenIsOver'
  BY <1>1, <1>2, <1>3, Route DEF HomeInv, FrozenIsOver
<1>10. AdmittedFromHome'
  BY <1>1, <1>2, <1>3, Route DEF HomeInv, AdmittedFromHome
<1>11. OneAdmitted'
  BY <1>1, <1>2, <1>3, Route DEF HomeInv, OneAdmitted
<1>12. RetiredFrozen'
  BY <1>1, <1>2, <1>3, Route DEF HomeInv, RetiredFrozen
<1>13. SnapshotFrozen'
  BY <1>1, <1>2, <1>3, Route DEF HomeInv, SnapshotFrozen
<1>14. ManifestFrozen'
  BY <1>1, <1>2, <1>3, Route DEF HomeInv, ManifestFrozen
<1>15. PendingIsHome'
  BY <1>1, <1>2, <1>3, Route DEF HomeInv, PendingIsHome
<1> QED BY <1>4, <1>5, <1>6, <1>7, <1>8, <1>9, <1>10, <1>11, <1>12, <1>13, <1>14,
          <1>15 DEF HomeInv

\* The home changes while nothing executes.
LEMMA CutoverKeeps == ASSUME HomeInv, NEW m \in Moves, Cutover(m) PROVE HomeInv'
<1>1. UNCHANGED <<exec, block, receipts, manifest, intake, snapshot, retired>>
  BY DEF Cutover, pause, work, arrival, removal, console
<1>2. \A n \in Moves : /\ plan'[n].from = plan[n].from /\ plan'[n].to = plan[n].to
                       /\ plan'[n].gen = plan[n].gen
                       /\ plan'[n].phase = IF n = m THEN "cutover" ELSE plan[n].phase
  BY DEF Cutover, HomeInv, Tables, PlanRow
<1>3. plan[m].phase = "admitted" /\ intake[Destination(m)].move = m /\ m # none
  BY NoneAssumption DEF Cutover
<1>4. Frozen(m)
  BY <1>3, Route DEF HomeInv, IntakeHasManifest, ManifestFrozen
<1>5. NothingExecutes
  BY <1>3, <1>4, Route DEF HomeInv, FrozenIsOver, AdmittedFromHome, ExecutesAtHome
<1>6. home'.location = Destination(m) /\ home'.gen = Gen(m) + 1
  BY DEF Cutover
<1>7. Tables'
  <2>0. [plan[m] EXCEPT !.phase = "cutover"] \in PlanRow
    <3>1. plan[m] \in PlanRow
      BY DEF HomeInv, Tables
    <3> QED BY <3>1 DEF PlanRow
  <2>1. plan' \in [Moves -> PlanRow]
    BY <2>0 DEF Cutover, HomeInv, Tables
  <2>2. home' \in [location : Locations, gen : Nat]
    BY Route DEF Cutover
  <2> QED BY <1>1, <2>1, <2>2 DEF HomeInv, Tables
<1>8. NoExecutionIsZero' /\ IntakeHasManifest'
  BY <1>1 DEF HomeInv, NoExecutionIsZero, IntakeHasManifest
<1>9. ExecutesAtHome'
  BY <1>1, <1>2, <1>3, <1>4, <1>5, <1>6, Route DEF HomeInv, ExecutesAtHome
<1>10. BlocksArePlanned'
  BY <1>1, <1>2, <1>3, <1>4, <1>5, <1>6, Route DEF HomeInv, BlocksArePlanned
<1>11. PausesExecute'
  BY <1>1, <1>2, <1>3, <1>4, <1>5, <1>6, Route DEF HomeInv, PausesExecute
<1>12. OnePause'
  BY <1>1, <1>2, <1>3, <1>4, <1>5, <1>6, Route DEF HomeInv, OnePause
<1>13. FrozenIsOver'
  BY <1>1, <1>2, <1>3, <1>4, <1>5, <1>6, Route DEF HomeInv, FrozenIsOver
<1>14. AdmittedFromHome'
  BY <1>1, <1>2, <1>3, <1>4, <1>5, <1>6, Route DEF HomeInv, AdmittedFromHome, OneAdmitted
<1>15. OneAdmitted'
  BY <1>1, <1>2, <1>3, <1>4, <1>5, <1>6, Route DEF HomeInv, OneAdmitted
<1>16. RetiredFrozen'
  BY <1>1, <1>2, <1>3, <1>4, <1>5, <1>6, Route DEF HomeInv, RetiredFrozen
<1>17. SnapshotFrozen'
  BY <1>1, <1>2, <1>3, <1>4, <1>5, <1>6, Route DEF HomeInv, SnapshotFrozen
<1>18. ManifestFrozen'
  BY <1>1, <1>2, <1>3, <1>4, <1>5, <1>6, Route DEF HomeInv, ManifestFrozen
<1>19. PendingIsHome'
  BY <1>1, <1>2, <1>3, <1>4, <1>5, <1>6, Route
     DEF HomeInv, PendingIsHome, OneAdmitted, NothingExecutes
<1> QED BY <1>7, <1>8, <1>9, <1>10, <1>11, <1>12, <1>13, <1>14, <1>15, <1>16, <1>17,
          <1>18, <1>19 DEF HomeInv

\* Console plans a move from the home; nothing of a move exists before its plan.
LEMMA PlanKeeps ==
    ASSUME HomeInv, NEW m \in Moves, NEW to \in Locations, Plan(m, to)
    PROVE  HomeInv'
<1>1. UNCHANGED <<exec, block, home, receipts, manifest, intake, snapshot, retired>>
  BY DEF Plan, pause, work, arrival, removal, console
<1>2. /\ plan'[m] = [from |-> home.location, to |-> to, gen |-> home.gen, phase |-> "planned"]
      /\ \A n \in Moves : n # m => plan'[n] = plan[n]
  BY DEF Plan, HomeInv, Tables
<1>3. \A l \in Locations : block[l][m] = "none"
  BY DEF Plan, HomeInv, BlocksArePlanned
<1>4. home.location \in Locations /\ home.gen \in Nat
  BY DEF HomeInv, Tables
<1>5. Tables'
  <2>1. plan'[m] \in PlanRow
    BY <1>2, <1>4 DEF PlanRow
  <2>2. plan' \in [Moves -> PlanRow]
    BY <2>1 DEF Plan, HomeInv, Tables
  <2> QED BY <1>1, <2>2 DEF HomeInv, Tables
<1>6. /\ NoExecutionIsZero' /\ ExecutesAtHome' /\ IntakeHasManifest'
  BY <1>1 DEF HomeInv, NoExecutionIsZero, ExecutesAtHome, IntakeHasManifest
<1>7. ~Paused(m)' /\ ~Frozen(m)' /\ ~Frozen(m)
  BY <1>1, <1>2, <1>3, <1>4, Route
<1>8. BlocksArePlanned'
  BY <1>1, <1>2, <1>3 DEF HomeInv, BlocksArePlanned
<1>9. PausesExecute' /\ OnePause' /\ FrozenIsOver'
  BY <1>1, <1>2, <1>7 DEF HomeInv, PausesExecute, OnePause, FrozenIsOver
<1>10. AdmittedFromHome' /\ OneAdmitted'
  BY <1>1, <1>2 DEF HomeInv, AdmittedFromHome, OneAdmitted
<1>11. RetiredFrozen' /\ SnapshotFrozen' /\ ManifestFrozen'
  BY <1>1, <1>2, <1>7 DEF HomeInv, RetiredFrozen, SnapshotFrozen, ManifestFrozen
<1>12. PendingIsHome'
  BY <1>1, <1>2 DEF HomeInv, PendingIsHome
<1> QED BY <1>5, <1>6, <1>8, <1>9, <1>10, <1>11, <1>12 DEF HomeInv

LEMMA InitHome == Init => HomeInv
<1> SUFFICES ASSUME Init PROVE HomeInv
  OBVIOUS
<1>1. Tables
  BY RegisteredAssumption
  DEF Init, Tables, Execution, PlanRow, BlockStates, NoExecution, NoPlan, NoImport, NoSnapshot
<1>2. \A m \in Moves : /\ block[Source(m)][m] = "none" /\ plan[m].phase = "none"
                       /\ manifest[m] = none
  BY RegisteredAssumption DEF Init, NoPlan
<1>3. \A l \in Locations : /\ retired[l] = none /\ snapshot[l].move = none /\ intake[l].move = none
                           /\ \A m \in Moves : block[l][m] = "none"
  BY DEF Init, NoSnapshot, NoImport
<1>4. NoExecutionIsZero /\ ExecutesAtHome
  BY DEF Init, NoExecution, NoExecutionIsZero, ExecutesAtHome
<1> QED BY <1>1, <1>2, <1>3, <1>4
        DEF HomeInv, BlocksArePlanned, PausesExecute, OnePause, FrozenIsOver,
            AdmittedFromHome, OneAdmitted, RetiredFrozen, SnapshotFrozen, ManifestFrozen,
            IntakeHasManifest, PendingIsHome

LEMMA NextKeeps == HomeInv /\ [Next]_vars => HomeInv'
<1> SUFFICES ASSUME HomeInv, [Next]_vars PROVE HomeInv'
  OBVIOUS
<1>1. ASSUME NEW l \in Locations, WalletStep(l) PROVE HomeInv'
  <2>1. UNCHANGED owners
    BY <1>1 DEF WalletStep, owners, IssueSession, Claim, Settle, StartCeremony,
                SettleCeremony, pause, arrival, removal, console
  <2> QED BY <2>1, OwnersFrame
<1>2. ASSUME NEW m \in Moves, MoveStep(m) PROVE HomeInv'
  <2>1. CASE \/ FenceHistory(m) \/ Measure(m) \/ CleanupStart(m) \/ CleanupEnds(m)
             \/ \E o \in Ops : CleanupSelect(m, o) \/ CleanupDelete(m, o)
    <3>1. UNCHANGED owners
      BY <2>1 DEF owners, FenceHistory, Measure, CleanupStart, CleanupEnds, CleanupSelect,
                  CleanupDelete, work, pause, arrival, console
    <3> QED BY <3>1, OwnersFrame
  <2>2. CASE \/ BlockWrites(m) \/ MarkChecked(m) \/ Release(m) \/ Freeze(m)
             \/ Capture(m) \/ Seal(m) \/ PublishManifest(m)
    BY <2>2, BlockWritesKeeps, MarkCheckedKeeps, ReleaseKeeps, FreezeKeeps, CaptureKeeps,
       SealKeeps, PublishManifestKeeps
  <2>3. CASE \/ Reserve(m) \/ OpenIntake(m) \/ AcceptSnapshot(m) \/ Activate(m)
             \/ Admit(m) \/ Reject(m) \/ Cutover(m)
             \/ \E to \in Locations : Plan(m, to)
    BY <2>3, ReserveKeeps, OpenIntakeKeeps, AcceptSnapshotKeeps, ActivateKeeps, AdmitKeeps,
       RejectKeeps, CutoverKeeps, PlanKeeps
  <2> QED BY <1>2, <2>1, <2>2, <2>3 DEF MoveStep
<1>3. CASE UNCHANGED vars
  BY <1>3, OwnersFrame DEF vars, owners
<1> QED BY <1>1, <1>2, <1>3 DEF Next

\* At most one location executes the wallet, and it is the one Console's
\* placement names: however many moves are planned, rejected, repeated or
\* carried out late (freeze, cutover and activation of the relocation routes).
THEOREM WalletHasOneHome == Spec => [](OneHome /\ ExecutesAtHome)
<1>1. HomeInv => OneHome /\ ExecutesAtHome
  BY DEF HomeInv, ExecutesAtHome, OneHome
<1> QED BY <1>1, InitHome, NextKeeps, PTL DEF Spec

-----------------------------------------------------------------------------
(* Generations advance                                                     *)

\* What a step may do to the generation of a location.
AdvancesAt(l) ==
    \/ exec'[l] = exec[l]
    \/ exec'[l].gen > exec[l].gen /\ exec[l].state \in {"none", "retired"}
    \/ /\ exec'[l].gen = exec[l].gen /\ exec'[l].origin = exec[l].origin
       /\ <<exec[l].state, exec'[l].state>> \in {<<"inactive", "active">>,
                                                <<"active", "retired">>}

LEMMA StepAdvances == HomeInv /\ [Next]_vars => \A l \in Locations : AdvancesAt(l)
<1> SUFFICES ASSUME HomeInv, [Next]_vars, NEW k \in Locations PROVE AdvancesAt(k)
  OBVIOUS
<1>0. \A l \in Locations : exec[l] \in Execution
  BY DEF HomeInv, Tables
<1>1. CASE exec' = exec
  BY <1>1 DEF AdvancesAt
<1>2. ASSUME NEW m \in Moves, Freeze(m) PROVE AdvancesAt(k)
  <2>1. /\ exec[Source(m)].state = "active" /\ Source(m) \in Locations
        /\ exec' = [exec EXCEPT ![Source(m)].state = "retired"]
    BY <1>2, Route DEF Freeze, RetirementAdmitted
  <2>2. CASE k = Source(m)
    <3>1. exec'[k] = [exec[k] EXCEPT !.state = "retired"]
      BY <2>1, <2>2 DEF HomeInv, Tables
    <3> QED BY <1>0, <2>1, <2>2, <3>1 DEF AdvancesAt, Execution
  <2>3. CASE k # Source(m)
    BY <2>1, <2>3 DEF AdvancesAt, HomeInv, Tables
  <2> QED BY <2>2, <2>3
<1>3. ASSUME NEW m \in Moves, Activate(m) PROVE AdvancesAt(k)
  <2>1. /\ exec[Destination(m)].state = "inactive" /\ Destination(m) \in Locations
        /\ exec' = [exec EXCEPT ![Destination(m)].state = "active"]
    BY <1>3, Route DEF Activate
  <2>2. CASE k = Destination(m)
    <3>1. exec'[k] = [exec[k] EXCEPT !.state = "active"]
      BY <2>1, <2>2 DEF HomeInv, Tables
    <3> QED BY <1>0, <2>1, <2>2, <3>1 DEF AdvancesAt, Execution
  <2>3. CASE k # Destination(m)
    BY <2>1, <2>3 DEF AdvancesAt, HomeInv, Tables
  <2> QED BY <2>2, <2>3
<1>4. ASSUME NEW m \in Moves, Reserve(m) PROVE AdvancesAt(k)
  <2>1. /\ exec'[Destination(m)].gen = Gen(m) + 1
        /\ \A l \in Locations : l # Destination(m) => exec'[l] = exec[l]
    BY <1>4, Route DEF Reserve, HomeInv, Tables
  <2>2. CASE exec[Destination(m)].state = "none"
    BY <2>1, <2>2, Route DEF HomeInv, NoExecutionIsZero, AdvancesAt
  <2>3. CASE exec[Destination(m)].state # "none"
    <3>1. LeftBy(Destination(m), Gen(m)) # {}
      BY <1>4, <2>3 DEF Reserve
    <3>2. /\ exec[Destination(m)].state = "retired"
          /\ exec[Destination(m)].gen < Gen(m)
      BY <3>1 DEF LeftBy
    <3>3. exec[Destination(m)].gen \in Nat
      BY <1>0, Route DEF Execution
    <3> QED BY <2>1, <3>2, <3>3, Route DEF AdvancesAt
  <2> QED BY <2>2, <2>3
<1>5. ASSUME NEW l \in Locations, WalletStep(l) PROVE exec' = exec
  BY <1>5 DEF WalletStep, IssueSession, Claim, Settle, StartCeremony, SettleCeremony
<1>6. ASSUME NEW m \in Moves, MoveStep(m), exec' # exec
      PROVE  Freeze(m) \/ Activate(m) \/ Reserve(m)
  BY <1>6 DEF MoveStep, BlockWrites, FenceHistory, Measure, MarkChecked, Release, Capture,
              Seal, PublishManifest, OpenIntake, AcceptSnapshot, CleanupStart, CleanupEnds,
              CleanupSelect, CleanupDelete, Plan, Admit, Reject, Cutover
<1> QED BY <1>1, <1>2, <1>3, <1>4, <1>5, <1>6 DEF Next, vars

\* No command, however late, revives a generation the wallet has left or
\* replaces one that executes or is being prepared.
THEOREM GenerationsOnlyAdvance == Spec => GenerationsAdvance
<1>1. HomeInv /\ [Next]_vars =>
        [\A l \in Locations :
           \/ exec'[l] = exec[l]
           \/ exec'[l].gen > exec[l].gen /\ exec[l].state \in {"none", "retired"}
           \/ /\ exec'[l].gen = exec[l].gen /\ exec'[l].origin = exec[l].origin
              /\ <<exec[l].state, exec'[l].state>> \in {<<"inactive", "active">>,
                                                       <<"active", "retired">>}]_vars
  BY StepAdvances DEF AdvancesAt
<1> QED BY <1>1, InitHome, NextKeeps, PTL DEF Spec, GenerationsAdvance
=============================================================================
