------------------------- MODULE WalletHistoryProofs -------------------------
(***************************************************************************)
(* No move loses the authorization history, for every number of locations, *)
(* moves and operations.                                                   *)
(*                                                                         *)
(* The argument: the history is complete where the wallet executes, and    *)
(* while it executes nowhere it is carried by one move, whose source is    *)
(* retired, settled and cannot be cleaned before the move has a receipt    *)
(* (Carrier).  What the source captures and seals is then the whole        *)
(* history, so is the manifest, and so is what the destination restores    *)
(* before it is activated (SnapshotRow, ManifestRow, ImportRow).  A late   *)
(* cleanup is no danger because it belongs to the stay the location is     *)
(* retired from (CleanupRow): a location is reserved again only after the  *)
(* cleanup of the one move that ended its last stay (OneFreeze).           *)
(***************************************************************************)
EXTENDS WalletHomesProofs

\* The history leaves with m and has not arrived.
Carried(m) == Frozen(m) /\ m \notin receipts[Destination(m)]

\* What was ever claimed is among the completed operations of l.
Complete(l) == \A o \in Ops : claimedAt[o] # {} => ops[l][o] = "completed"

\* The tables HomeInv does not speak of.
HistoryTables ==
    /\ ops \in [Locations -> [Ops -> {"none", "claimed", "completed"}]]
    /\ session \in [Locations -> BOOLEAN]
    /\ ceremony \in [Locations -> BOOLEAN]
    /\ fence \in [Locations -> Moves \cup {none}]
    /\ imported \in [Locations -> [move : Moves \cup {none},
                                   state : {"none", "importing", "closed", "activated"}]]
    /\ cleanup \in [Locations -> [Moves -> {"none", "cleaning", "cleaned"}]]
    /\ sweep \subseteq Moves \X Ops
    /\ measured \in [Moves -> (SUBSET Ops) \cup {none}]
    /\ prepared \subseteq Moves
    /\ manifest \in [Moves -> (SUBSET Ops) \cup {none}]
    /\ claimedAt \in [Ops -> SUBSET Nat]

\* A fence is of a move of the stay that is or was the last here.
FenceRow ==
    \A l \in Locations : fence[l] # none =>
        /\ fence[l] \in Moves /\ Planned(fence[l]) /\ Source(fence[l]) = l
        /\ exec[l].gen = Gen(fence[l]) /\ exec[l].state \in {"active", "retired"}
        /\ block[l][fence[l]] \in {"draining", "checked", "frozen"}

RetiredRow ==
    \A l \in Locations : /\ retired[l] # none => fence[l] = retired[l]
                         /\ retired[l] # none <=> exec[l].state = "retired"

\* A reservation is open exactly while its generation waits, and what was
\* restored for the move that carries the history is all of it.
ImportRow ==
    \A l \in Locations :
        /\ imported[l].state \in {"importing", "closed"} <=> exec[l].state = "inactive"
        /\ imported[l].move = none <=> imported[l].state = "none"
        /\ imported[l].move # none => /\ Planned(imported[l].move)
                                      /\ Destination(imported[l].move) = l
        /\ imported[l].state = "closed" => /\ manifest[imported[l].move] # none
                                           /\ Carried(imported[l].move) => Complete(l)

\* The measurement is taken once, behind the fence, and stays true behind it.
MeasureRow ==
    \A m \in Moves :
        /\ block[Source(m)][m] \in {"checked", "frozen"} => measured[m] # none
        /\ block[Source(m)][m] \in {"none", "draining"} /\ fence[Source(m)] # m =>
             measured[m] = none
        /\ fence[Source(m)] = m /\ measured[m] # none => Completed(Source(m)) \subseteq measured[m]

SnapshotRow ==
    \A l \in Locations :
        /\ snapshot[l].move = none => ~snapshot[l].sealed /\ snapshot[l].rows = {}
        /\ snapshot[l].move # none => /\ measured[snapshot[l].move] # none
                                      /\ snapshot[l].rows \subseteq measured[snapshot[l].move]
        /\ snapshot[l].sealed /\ Carried(snapshot[l].move) =>
             \A o \in Ops : claimedAt[o] # {} => o \in snapshot[l].rows

ManifestRow ==
    \A m \in Moves : manifest[m] # none /\ Carried(m) =>
        \A o \in Ops : claimedAt[o] # {} => o \in manifest[m]

ReceiptRow == \A l \in Locations, m \in Moves : m \in receipts[l] => plan[m].phase = "cutover"

\* A cleanup under way is of the move that ended the last stay.
CleanupRow ==
    \A l \in Locations, m \in Moves :
        /\ cleanup[l][m] # "none" => /\ Source(m) = l /\ Frozen(m)
                                     /\ m \in receipts[Destination(m)]
        /\ cleanup[l][m] = "cleaning" => exec[l].state = "retired" /\ exec[l].gen = Gen(m)

OneFreeze ==
    \A m, n \in Moves : Frozen(m) /\ Frozen(n) /\ Source(m) = Source(n) /\ Gen(m) = Gen(n) => m = n

Carrier ==
    \A m \in Moves : Carried(m) =>
        /\ plan[m].phase \in {"admitted", "cutover"}
        /\ exec[Source(m)].state = "retired" /\ exec[Source(m)].gen = Gen(m)
        /\ Complete(Source(m))

SomeHolder == ~NothingExecutes \/ \E m \in Moves : Carried(m)

HistoryInv ==
    /\ HistoryTables
    /\ FenceRow
    /\ RetiredRow
    /\ ImportRow
    /\ SessionsFollowWallet
    /\ MeasureRow
    /\ SnapshotRow
    /\ ManifestRow
    /\ ReceiptRow
    /\ CleanupRow
    /\ OneFreeze
    /\ Carrier
    /\ SomeHolder
    /\ HistoryFollowsWallet

USE DEF Paused, Frozen, Pending, NothingExecutes, Planned, Source, Destination, Gen, ExecutesAt,
        Carried, Complete, Completed

\* Rows that name a move name one.
NamedRows ==
    \A l \in Locations : /\ imported[l].state # "none" => imported[l].move \in Moves
                         /\ snapshot[l].move # none => snapshot[l].move \in Moves
                         /\ snapshot[l].sealed => snapshot[l].move # none

LEMMA RowMoves == ASSUME HomeInv, HistoryInv PROVE NamedRows
<1> SUFFICES ASSUME NEW l \in Locations
             PROVE  /\ imported[l].state # "none" => imported[l].move \in Moves
                    /\ snapshot[l].move # none => snapshot[l].move \in Moves
                    /\ snapshot[l].sealed => snapshot[l].move # none
  BY DEF NamedRows
<1>1. imported[l].state # "none" => imported[l].move \in Moves
  BY DEF HistoryInv, HistoryTables, ImportRow
<1>2. /\ snapshot[l].move # none => snapshot[l].move \in Moves
      /\ snapshot[l].sealed => snapshot[l].move # none
  BY DEF HomeInv, Tables, HistoryInv, SnapshotRow
<1> QED BY <1>1, <1>2

\* While a move carries the history nothing executes, so nothing is claimed.
LEMMA CarriedMeansPaused ==
    ASSUME HomeInv, HistoryInv, NEW m \in Moves, Carried(m) PROVE NothingExecutes
<1>1. /\ plan[m].phase \in {"admitted", "cutover"} /\ exec[Source(m)].state = "retired"
      /\ Source(m) \in Locations
  BY Route DEF HistoryInv, Carrier
<1>2. CASE plan[m].phase = "admitted"
  BY <1>1, <1>2 DEF HomeInv, AdmittedFromHome, ExecutesAtHome
<1>3. CASE plan[m].phase = "cutover"
  BY <1>3 DEF HomeInv, PendingIsHome
<1> QED BY <1>1, <1>2, <1>3

\* A cleaned stay has no cleanup under way and carries nothing.
LEMMA LeftIsCleaned ==
    ASSUME HomeInv, HistoryInv, NEW l \in Locations, NEW g, LeftBy(l, g) # {}
    PROVE  /\ exec[l].state = "retired"
           /\ \A m \in Moves : /\ cleanup[l][m] # "cleaning"
                               /\ Carried(m) => Source(m) # l
<1>1. PICK n \in Moves : /\ cleanup[l][n] = "cleaned" /\ Source(n) = l
                         /\ exec[l].state = "retired" /\ exec[l].gen = Gen(n)
  BY DEF LeftBy
<1>2. Frozen(n) /\ n \in receipts[Destination(n)]
  BY <1>1 DEF HistoryInv, CleanupRow
<1>3. ASSUME NEW m \in Moves PROVE cleanup[l][m] # "cleaning" /\ (Carried(m) => Source(m) # l)
  <2>1. cleanup[l][m] = "cleaning" => m = n
    BY <1>1, <1>2 DEF HistoryInv, CleanupRow, OneFreeze
  <2>2. Carried(m) /\ Source(m) = l => m = n
    BY <1>1, <1>2 DEF HistoryInv, Carrier, OneFreeze
  <2> QED BY <1>1, <1>2, <2>1, <2>2
<1> QED BY <1>1, <1>3

-----------------------------------------------------------------------------
(* Ordinary work *)

\* A session starts only where the wallet executes.
LEMMA IssueSessionKeepsHistory ==
    ASSUME HomeInv, HistoryInv, NEW l \in Locations, IssueSession(l)
    PROVE  HistoryInv'
<1>1. UNCHANGED <<exec, ops, ceremony, block, fence, retired, snapshot, imported, intake,
                  receipts, cleanup, sweep, measured, prepared, plan, manifest, home, claimedAt>>
  BY DEF IssueSession, work, pause, arrival, removal, console
<1>2. exec[l].state # "none" /\ Writable(l) /\ retired[l] = none
  BY DEF IssueSession
<1>3. exec[l].state = "active"
  <2>1. exec[l].state \in {"none", "inactive", "active", "retired"}
    BY DEF HomeInv, Tables, Execution
  <2>2. exec[l].state # "inactive"
    BY <1>2 DEF Writable, HistoryInv, ImportRow
  <2>3. exec[l].state # "retired"
    BY <1>2 DEF HistoryInv, RetiredRow
  <2> QED BY <1>2, <2>1, <2>2, <2>3
<1>4. session' = [session EXCEPT ![l] = TRUE]
  BY DEF IssueSession
<1>5. HistoryTables'
  BY <1>1, <1>4 DEF HistoryInv, HistoryTables
<1>6. /\ FenceRow'
      /\ RetiredRow'
      /\ ImportRow'
      /\ MeasureRow'
      /\ SnapshotRow'
      /\ ManifestRow'
      /\ ReceiptRow'
      /\ CleanupRow'
      /\ OneFreeze'
      /\ Carrier'
      /\ SomeHolder'
      /\ HistoryFollowsWallet'
  BY <1>1 DEF HistoryInv, FenceRow, RetiredRow, ImportRow, MeasureRow, SnapshotRow, ManifestRow,
             ReceiptRow, CleanupRow, OneFreeze, Carrier, SomeHolder, HistoryFollowsWallet
<1>7. SessionsFollowWallet'
  BY <1>1, <1>2, <1>3, <1>4, Route DEF HistoryInv, SessionsFollowWallet, HistoryTables
<1> QED BY <1>5, <1>6, <1>7 DEF HistoryInv

\* What is claimed is claimed where the whole history is.
LEMMA ClaimKeepsHistory ==
    ASSUME HomeInv, HistoryInv, NEW l \in Locations, NEW o \in Ops, Claim(l, o)
    PROVE  HistoryInv'
<1>1. UNCHANGED <<exec, session, ceremony, block, fence, retired, snapshot, imported, intake,
                  receipts, cleanup, sweep, measured, prepared, plan, manifest, home>>
  BY DEF Claim, work, pause, arrival, removal, console
<1>2. exec[l].state = "active" /\ Writable(l) /\ ops[l][o] = "none"
  BY DEF Claim
<1>3. \A m \in Moves : ~Carried(m)
  BY <1>2, CarriedMeansPaused
<1>4. \A k \in Locations, p \in Ops :
        ops'[k][p] = IF k = l /\ p = o THEN "claimed" ELSE ops[k][p]
  BY DEF Claim, HistoryInv, HistoryTables
<1>5. \A p \in Ops : p # o => claimedAt'[p] = claimedAt[p]
  BY DEF Claim, HistoryInv, HistoryTables
<1>6. \A k \in Locations : k # l => exec[k].state # "active"
  BY <1>2 DEF HomeInv, ExecutesAtHome
<1>7. NamedRows
  BY RowMoves
<1>8. HistoryTables'
  <2>1. ops' \in [Locations -> [Ops -> {"none", "claimed", "completed"}]]
    BY DEF Claim, HistoryInv, HistoryTables
  <2>2. exec[l].gen \in Nat
    BY DEF HomeInv, Tables, Execution
  <2>3. claimedAt' \in [Ops -> SUBSET Nat]
    BY <2>2 DEF Claim, HistoryInv, HistoryTables
  <2> QED BY <1>1, <2>1, <2>3 DEF HistoryInv, HistoryTables
<1>9. /\ FenceRow'
      /\ RetiredRow'
      /\ SessionsFollowWallet'
      /\ ReceiptRow'
      /\ CleanupRow'
      /\ OneFreeze'
      /\ SomeHolder'
  BY <1>1 DEF HistoryInv, FenceRow, RetiredRow, SessionsFollowWallet, ReceiptRow, CleanupRow,
             OneFreeze, SomeHolder
<1>10. ImportRow'
  BY <1>1, <1>2, <1>3, <1>4, <1>5, <1>6, Route, <1>7 DEF HistoryInv, ImportRow, NamedRows
<1>11. MeasureRow'
  BY <1>1, <1>2, <1>3, <1>4, <1>5, <1>6, Route DEF HistoryInv, MeasureRow
<1>12. SnapshotRow'
  BY <1>1, <1>2, <1>3, <1>4, <1>5, <1>6, Route, <1>7 DEF HistoryInv, SnapshotRow, NamedRows
<1>13. ManifestRow'
  BY <1>1, <1>2, <1>3, <1>4, <1>5, <1>6, Route DEF HistoryInv, ManifestRow
<1>14. Carrier'
  BY <1>1, <1>2, <1>3, <1>4, <1>5, <1>6, Route DEF HistoryInv, Carrier
<1>15. HistoryFollowsWallet'
  BY <1>1, <1>2, <1>3, <1>4, <1>5, <1>6, Route DEF HistoryInv, HistoryFollowsWallet
<1> QED BY <1>8, <1>9, <1>10, <1>11, <1>12, <1>13, <1>14, <1>15 DEF HistoryInv

\* A claimed operation is completed, outside every fence.
LEMMA SettleKeepsHistory ==
    ASSUME HomeInv, HistoryInv, NEW l \in Locations, NEW o \in Ops, Settle(l, o)
    PROVE  HistoryInv'
<1>1. UNCHANGED <<exec, session, ceremony, block, fence, retired, snapshot, imported, intake,
                  receipts, cleanup, sweep, measured, prepared, plan, manifest, home, claimedAt>>
  BY DEF Settle, work, pause, arrival, removal, console
<1>2. ops[l][o] = "claimed" /\ fence[l] = none
  BY DEF Settle, Writable
<1>3. \A k \in Locations, p \in Ops :
        ops'[k][p] = IF k = l /\ p = o THEN "completed" ELSE ops[k][p]
  BY DEF Settle, HistoryInv, HistoryTables
<1>4. NamedRows
  BY RowMoves
<1>5. HistoryTables'
  BY <1>1 DEF Settle, HistoryInv, HistoryTables
<1>6. /\ FenceRow'
      /\ RetiredRow'
      /\ SessionsFollowWallet'
      /\ SnapshotRow'
      /\ ManifestRow'
      /\ ReceiptRow'
      /\ CleanupRow'
      /\ OneFreeze'
      /\ SomeHolder'
  BY <1>1 DEF HistoryInv, FenceRow, RetiredRow, SessionsFollowWallet, SnapshotRow, ManifestRow,
             ReceiptRow, CleanupRow, OneFreeze, SomeHolder
<1>7. ImportRow'
  BY <1>1, <1>2, <1>3, Route, <1>4 DEF HistoryInv, ImportRow, NamedRows
<1>8. MeasureRow'
  BY <1>1, <1>2, <1>3, Route, NoneAssumption DEF HistoryInv, MeasureRow
<1>9. Carrier'
  BY <1>1, <1>2, <1>3, Route DEF HistoryInv, Carrier
<1>10. HistoryFollowsWallet'
  BY <1>1, <1>2, <1>3, Route DEF HistoryInv, HistoryFollowsWallet
<1> QED BY <1>5, <1>6, <1>7, <1>8, <1>9, <1>10 DEF HistoryInv

\* Ceremonies are not part of the history.
LEMMA CeremonyKeepsHistory ==
    ASSUME HomeInv, HistoryInv, NEW l \in Locations,
           StartCeremony(l) \/ SettleCeremony(l)
    PROVE  HistoryInv'
<1>1. UNCHANGED <<exec, ops, session, block, fence, retired, snapshot, imported, intake,
                  receipts, cleanup, sweep, measured, prepared, plan, manifest, home, claimedAt>>
  BY DEF StartCeremony, SettleCeremony, work, pause, arrival, removal, console
<1>2. HistoryTables'
  BY <1>1 DEF StartCeremony, SettleCeremony, HistoryInv, HistoryTables
<1>3. /\ FenceRow'
      /\ RetiredRow'
      /\ ImportRow'
      /\ SessionsFollowWallet'
      /\ MeasureRow'
      /\ SnapshotRow'
      /\ ManifestRow'
      /\ ReceiptRow'
      /\ CleanupRow'
      /\ OneFreeze'
      /\ Carrier'
      /\ SomeHolder'
      /\ HistoryFollowsWallet'
  BY <1>1 DEF HistoryInv, FenceRow, RetiredRow, ImportRow, SessionsFollowWallet, MeasureRow,
             SnapshotRow, ManifestRow, ReceiptRow, CleanupRow, OneFreeze, Carrier, SomeHolder,
             HistoryFollowsWallet
<1> QED BY <1>2, <1>3 DEF HistoryInv

-----------------------------------------------------------------------------
(* The source *)

\* A pause begins without a measurement.
LEMMA BlockWritesKeepsHistory ==
    ASSUME HomeInv, HistoryInv, NEW m \in Moves, BlockWrites(m)
    PROVE  HistoryInv'
<1>1. UNCHANGED <<exec, ops, session, ceremony, fence, retired, snapshot, imported, intake,
                  receipts, cleanup, sweep, measured, prepared, plan, manifest, home, claimedAt>>
  BY DEF BlockWrites, work, pause, arrival, removal, console
<1>2. \A l \in Locations, n \in Moves :
        block'[l][n] = IF l = Source(m) /\ n = m THEN "draining" ELSE block[l][n]
  BY DEF BlockWrites, HomeInv, Tables
<1>3. block[Source(m)][m] = "none" /\ Planned(m)
  BY DEF BlockWrites
<1>4. \A n \in Moves : (Frozen(n)' <=> Frozen(n)) /\ (Carried(n)' <=> Carried(n))
  BY <1>1, <1>2, <1>3, Route
<1>5. NamedRows
  BY RowMoves
<1>6. HistoryTables'
  BY <1>1 DEF HistoryInv, HistoryTables
<1>7. RetiredRow' /\ SessionsFollowWallet' /\ ReceiptRow' /\ HistoryFollowsWallet'
  BY <1>1 DEF HistoryInv, RetiredRow, SessionsFollowWallet, ReceiptRow, HistoryFollowsWallet
<1>8. FenceRow'
  BY <1>1, <1>2, <1>3, <1>4, Route DEF HistoryInv, FenceRow
<1>9. ImportRow'
  BY <1>1, <1>2, <1>3, <1>4, Route, <1>5 DEF HistoryInv, ImportRow, NamedRows
<1>10. MeasureRow'
  BY <1>1, <1>2, <1>3, <1>4, Route DEF HistoryInv, MeasureRow
<1>11. SnapshotRow'
  BY <1>1, <1>2, <1>3, <1>4, Route, <1>5 DEF HistoryInv, SnapshotRow, NamedRows
<1>12. ManifestRow'
  BY <1>1, <1>2, <1>3, <1>4, Route DEF HistoryInv, ManifestRow
<1>13. CleanupRow'
  BY <1>1, <1>2, <1>3, <1>4, Route DEF HistoryInv, CleanupRow
<1>14. OneFreeze'
  BY <1>1, <1>2, <1>3, <1>4, Route DEF HistoryInv, OneFreeze
<1>15. Carrier'
  BY <1>1, <1>2, <1>3, <1>4, Route DEF HistoryInv, Carrier
<1>16. SomeHolder'
  BY <1>1, <1>2, <1>3, <1>4, Route DEF HistoryInv, SomeHolder
<1> QED BY <1>6, <1>7, <1>8, <1>9, <1>10, <1>11, <1>12, <1>13, <1>14, <1>15,
           <1>16 DEF HistoryInv

\* The history is fenced before it is measured.
LEMMA FenceHistoryKeepsHistory ==
    ASSUME HomeInv, HistoryInv, NEW m \in Moves, FenceHistory(m)
    PROVE  HistoryInv'
<1>1. UNCHANGED <<exec, ops, session, ceremony, block, retired, snapshot, imported, intake,
                  receipts, cleanup, sweep, measured, prepared, plan, manifest, home, claimedAt>>
  BY DEF FenceHistory, work, pause, arrival, removal, console
<1>2. \A l \in Locations : fence'[l] = IF l = Source(m) THEN m ELSE fence[l]
  BY DEF FenceHistory, HistoryInv, HistoryTables
<1>3. /\ block[Source(m)][m] = "draining" /\ fence[Source(m)] = none /\ m # none
      /\ ExecutesAt(Source(m), Gen(m)) /\ Planned(m)
  BY NoneAssumption, Route DEF FenceHistory, HomeInv, BlocksArePlanned
<1>4. retired[Source(m)] = none /\ measured[m] = none
  BY <1>3, Route DEF HistoryInv, RetiredRow, MeasureRow
<1>5. HistoryTables'
  BY <1>1, Route DEF FenceHistory, HistoryInv, HistoryTables
<1>6. /\ ImportRow'
      /\ SessionsFollowWallet'
      /\ SnapshotRow'
      /\ ManifestRow'
      /\ ReceiptRow'
      /\ CleanupRow'
      /\ OneFreeze'
      /\ Carrier'
      /\ SomeHolder'
      /\ HistoryFollowsWallet'
  BY <1>1 DEF HistoryInv, ImportRow, SessionsFollowWallet, SnapshotRow, ManifestRow, ReceiptRow,
             CleanupRow, OneFreeze, Carrier, SomeHolder, HistoryFollowsWallet
<1>7. FenceRow'
  BY <1>1, <1>2, <1>3, <1>4, Route DEF HistoryInv, FenceRow
<1>8. RetiredRow'
  BY <1>1, <1>2, <1>3, <1>4, Route DEF HistoryInv, RetiredRow
<1>9. MeasureRow'
  BY <1>1, <1>2, <1>3, <1>4, Route, NoneAssumption DEF HistoryInv, MeasureRow
<1> QED BY <1>5, <1>6, <1>7, <1>8, <1>9 DEF HistoryInv

\* The measurement is what the fence holds.
LEMMA MeasureKeepsHistory ==
    ASSUME HomeInv, HistoryInv, NEW m \in Moves, Measure(m)
    PROVE  HistoryInv'
<1>1. UNCHANGED <<exec, ops, session, ceremony, block, fence, retired, snapshot, imported,
                  intake, receipts, cleanup, sweep, prepared, plan, manifest, home, claimedAt>>
  BY DEF Measure, work, pause, arrival, removal, console
<1>2. \A n \in Moves : measured'[n] = IF n = m THEN Completed(Source(m)) ELSE measured[n]
  BY DEF Measure, HistoryInv, HistoryTables
<1>3. block[Source(m)][m] = "draining" /\ fence[Source(m)] = m
  BY DEF Measure
<1>4. \A l \in Locations : snapshot[l].move # m
  BY <1>3, NoneAssumption DEF HomeInv, SnapshotFrozen
<1>5. NamedRows
  BY RowMoves
<1>6. HistoryTables'
  BY <1>1 DEF Measure, HistoryInv, HistoryTables
<1>7. /\ FenceRow'
      /\ RetiredRow'
      /\ ImportRow'
      /\ SessionsFollowWallet'
      /\ ManifestRow'
      /\ ReceiptRow'
      /\ CleanupRow'
      /\ OneFreeze'
      /\ Carrier'
      /\ SomeHolder'
      /\ HistoryFollowsWallet'
  BY <1>1 DEF HistoryInv, FenceRow, RetiredRow, ImportRow, SessionsFollowWallet, ManifestRow,
             ReceiptRow, CleanupRow, OneFreeze, Carrier, SomeHolder, HistoryFollowsWallet
<1>8. MeasureRow'
  BY <1>1, <1>2, <1>3, <1>4, Route DEF HistoryInv, MeasureRow
<1>9. SnapshotRow'
  BY <1>1, <1>2, <1>3, <1>4, Route, <1>5 DEF HistoryInv, SnapshotRow, NamedRows
<1> QED BY <1>6, <1>7, <1>8, <1>9 DEF HistoryInv

\* Only a measured pause is checked.
LEMMA MarkCheckedKeepsHistory ==
    ASSUME HomeInv, HistoryInv, NEW m \in Moves, MarkChecked(m)
    PROVE  HistoryInv'
<1>1. UNCHANGED <<exec, ops, session, ceremony, fence, retired, snapshot, imported, intake,
                  receipts, cleanup, sweep, measured, prepared, plan, manifest, home, claimedAt>>
  BY DEF MarkChecked, work, pause, arrival, removal, console
<1>2. \A l \in Locations, n \in Moves :
        block'[l][n] = IF l = Source(m) /\ n = m THEN "checked" ELSE block[l][n]
  BY DEF MarkChecked, HomeInv, Tables
<1>3. block[Source(m)][m] = "draining" /\ measured[m] # none
  BY DEF MarkChecked
<1>4. \A n \in Moves : (Frozen(n)' <=> Frozen(n)) /\ (Carried(n)' <=> Carried(n))
  BY <1>1, <1>2, <1>3, Route
<1>5. NamedRows
  BY RowMoves
<1>6. HistoryTables'
  BY <1>1 DEF HistoryInv, HistoryTables
<1>7. RetiredRow' /\ SessionsFollowWallet' /\ ReceiptRow' /\ HistoryFollowsWallet'
  BY <1>1 DEF HistoryInv, RetiredRow, SessionsFollowWallet, ReceiptRow, HistoryFollowsWallet
<1>8. FenceRow'
  BY <1>1, <1>2, <1>3, <1>4, Route DEF HistoryInv, FenceRow
<1>9. ImportRow'
  BY <1>1, <1>2, <1>3, <1>4, Route, <1>5 DEF HistoryInv, ImportRow, NamedRows
<1>10. MeasureRow'
  BY <1>1, <1>2, <1>3, <1>4, Route DEF HistoryInv, MeasureRow
<1>11. SnapshotRow'
  BY <1>1, <1>2, <1>3, <1>4, Route, <1>5 DEF HistoryInv, SnapshotRow, NamedRows
<1>12. ManifestRow'
  BY <1>1, <1>2, <1>3, <1>4, Route DEF HistoryInv, ManifestRow
<1>13. CleanupRow'
  BY <1>1, <1>2, <1>3, <1>4, Route DEF HistoryInv, CleanupRow
<1>14. OneFreeze'
  BY <1>1, <1>2, <1>3, <1>4, Route DEF HistoryInv, OneFreeze
<1>15. Carrier'
  BY <1>1, <1>2, <1>3, <1>4, Route DEF HistoryInv, Carrier
<1>16. SomeHolder'
  BY <1>1, <1>2, <1>3, <1>4, Route DEF HistoryInv, SomeHolder
<1> QED BY <1>6, <1>7, <1>8, <1>9, <1>10, <1>11, <1>12, <1>13, <1>14, <1>15,
           <1>16 DEF HistoryInv

\* A rejected move lets go of a fence that retired nothing.
LEMMA ReleaseKeepsHistory ==
    ASSUME HomeInv, HistoryInv, NEW m \in Moves, Release(m)
    PROVE  HistoryInv'
<1>1. UNCHANGED <<exec, ops, session, ceremony, retired, snapshot, imported, intake, receipts,
                  cleanup, sweep, measured, prepared, plan, manifest, home, claimedAt>>
  BY DEF Release, work, pause, arrival, removal, console
<1>2. \A l \in Locations, n \in Moves :
        block'[l][n] = IF l = Source(m) /\ n = m THEN "released" ELSE block[l][n]
  BY DEF Release, HomeInv, Tables
<1>3. \A l \in Locations :
        fence'[l] = IF l = Source(m) /\ fence[l] = m THEN none ELSE fence[l]
  BY DEF Release, HistoryInv, HistoryTables
<1>4. block[Source(m)][m] # "frozen" /\ m # none
  BY NoneAssumption DEF Release
<1>5. \A n \in Moves : (Frozen(n)' <=> Frozen(n)) /\ (Carried(n)' <=> Carried(n))
  BY <1>1, <1>2, <1>4, Route
<1>6. retired[Source(m)] # m
  BY <1>4, Route DEF HomeInv, RetiredFrozen
<1>7. NamedRows
  BY RowMoves
<1>8. HistoryTables'
  BY <1>1, Route DEF Release, HistoryInv, HistoryTables
<1>9. SessionsFollowWallet' /\ ReceiptRow' /\ HistoryFollowsWallet'
  BY <1>1 DEF HistoryInv, SessionsFollowWallet, ReceiptRow, HistoryFollowsWallet
<1>10. FenceRow'
  BY <1>1, <1>2, <1>3, <1>4, <1>5, <1>6, Route DEF HistoryInv, FenceRow
<1>11. RetiredRow'
  BY <1>1, <1>2, <1>3, <1>4, <1>5, <1>6, Route DEF HistoryInv, RetiredRow
<1>12. ImportRow'
  BY <1>1, <1>2, <1>3, <1>4, <1>5, <1>6, Route, <1>7 DEF HistoryInv, ImportRow, NamedRows
<1>13. MeasureRow'
  BY <1>1, <1>2, <1>3, <1>4, <1>5, <1>6, Route, NoneAssumption DEF HistoryInv, MeasureRow
<1>14. SnapshotRow'
  BY <1>1, <1>2, <1>3, <1>4, <1>5, <1>6, Route, <1>7 DEF HistoryInv, SnapshotRow, NamedRows
<1>15. ManifestRow'
  BY <1>1, <1>2, <1>3, <1>4, <1>5, <1>6, Route DEF HistoryInv, ManifestRow
<1>16. CleanupRow'
  BY <1>1, <1>2, <1>3, <1>4, <1>5, <1>6, Route DEF HistoryInv, CleanupRow
<1>17. OneFreeze'
  BY <1>1, <1>2, <1>3, <1>4, <1>5, <1>6, Route DEF HistoryInv, OneFreeze
<1>18. Carrier'
  BY <1>1, <1>2, <1>3, <1>4, <1>5, <1>6, Route DEF HistoryInv, Carrier
<1>19. SomeHolder'
  BY <1>1, <1>2, <1>3, <1>4, <1>5, <1>6, Route DEF HistoryInv, SomeHolder
<1> QED BY <1>8, <1>9, <1>10, <1>11, <1>12, <1>13, <1>14, <1>15, <1>16, <1>17,
           <1>18, <1>19 DEF HistoryInv

\* The freeze begins to carry a history that is settled and complete.
LEMMA FreezeKeepsHistory ==
    ASSUME HomeInv, HistoryInv, NEW m \in Moves, Freeze(m)
    PROVE  HistoryInv'
<1>1. UNCHANGED <<ops, ceremony, snapshot, imported, intake, receipts, cleanup, sweep, measured,
                  prepared, plan, manifest, home, claimedAt>>
  BY DEF Freeze, work, pause, arrival, removal, console
<1>2. \A l \in Locations, n \in Moves :
        block'[l][n] = IF l = Source(m) /\ n = m THEN "frozen" ELSE block[l][n]
  BY DEF Freeze, HomeInv, Tables
<1>3. \A l \in Locations :
        /\ fence'[l] = IF l = Source(m) THEN m ELSE fence[l]
        /\ retired'[l] = IF l = Source(m) THEN m ELSE retired[l]
        /\ exec'[l].state = IF l = Source(m) THEN "retired" ELSE exec[l].state
        /\ exec'[l].gen = exec[l].gen
  BY DEF Freeze, HistoryInv, HistoryTables, HomeInv, Tables, Execution
<1>4. /\ plan[m].phase = "admitted" /\ m # none
      /\ block[Source(m)][m] \in {"checked", "frozen"}
      /\ block[Source(m)][m] = "checked" => fence[Source(m)] = m
      /\ ExecutesAt(Source(m), Gen(m)) /\ Settled(Source(m))
  BY NoneAssumption DEF Freeze, RetirementAdmitted
<1>5. \A n \in Moves : Frozen(n) /\ Source(n) = Source(m) => Gen(n) # Gen(m)
  BY <1>4, Route DEF HomeInv, FrozenIsOver
<1>6. block[Source(m)][m] = "checked" /\ fence[Source(m)] = m
  BY <1>4, <1>5
<1>7. m \notin receipts[Destination(m)]
  BY <1>4, Route DEF HistoryInv, ReceiptRow
<1>8. \A n \in Moves : ~Carried(n)
  BY <1>4, Route, CarriedMeansPaused
<1>9. \A n \in Moves : (Frozen(n)' <=> Frozen(n) \/ n = m) /\ (Carried(n)' <=> n = m)
  BY <1>1, <1>2, <1>7, <1>8, Route
<1>10. Complete(Source(m))
  BY <1>4, Route DEF HistoryInv, HistoryTables, HistoryFollowsWallet, Settled
<1>11. manifest[m] = none /\ \A l \in Locations : snapshot[l].move # m
  BY <1>6, <1>4 DEF HomeInv, ManifestFrozen, SnapshotFrozen
<1>12. \A l \in Locations : session'[l] => session[l] /\ l # Source(m)
  BY Route DEF Freeze, HistoryInv, HistoryTables
<1>13. NamedRows
  BY RowMoves
<1>14. HistoryTables'
  BY <1>1, Route DEF Freeze, HistoryInv, HistoryTables
<1>15. ReceiptRow'
  BY <1>1 DEF HistoryInv, ReceiptRow
<1>16. FenceRow'
  BY <1>1, <1>2, <1>3, <1>4, Route DEF HistoryInv, FenceRow
<1>17. RetiredRow'
  BY <1>1, <1>3, <1>4, <1>6, Route DEF HistoryInv, RetiredRow
<1>18. ImportRow'
  BY <1>1, <1>3, <1>4, <1>9, <1>11, Route, <1>13 DEF HistoryInv, ImportRow, NamedRows
<1>19. SessionsFollowWallet'
  BY <1>1, <1>3, <1>12, Route DEF HistoryInv, SessionsFollowWallet
<1>20. MeasureRow'
  BY <1>1, <1>2, <1>3, <1>4, <1>6, Route DEF HistoryInv, MeasureRow
<1>21. SnapshotRow'
  BY <1>1, <1>9, <1>11, Route, <1>13 DEF HistoryInv, SnapshotRow, NamedRows
<1>22. ManifestRow'
  BY <1>1, <1>9, <1>11, Route DEF HistoryInv, ManifestRow
<1>23. CleanupRow'
  BY <1>1, <1>2, <1>3, <1>4, Route DEF HistoryInv, CleanupRow
<1>24. OneFreeze'
  BY <1>1, <1>5, <1>9, Route DEF HistoryInv, OneFreeze
<1>25. Carrier'
  BY <1>1, <1>3, <1>4, <1>9, <1>10, Route DEF HistoryInv, Carrier
<1>26. SomeHolder'
  BY <1>9, Route DEF HistoryInv, SomeHolder
<1>27. HistoryFollowsWallet'
  BY <1>1, <1>3, Route DEF HistoryInv, HistoryFollowsWallet
<1> QED BY <1>14, <1>15, <1>16, <1>17, <1>18, <1>19, <1>20, <1>21, <1>22, <1>23,
           <1>24, <1>25, <1>26, <1>27 DEF HistoryInv

\* Every captured record was measured.
LEMMA CaptureKeepsHistory ==
    ASSUME HomeInv, HistoryInv, NEW m \in Moves, Capture(m)
    PROVE  HistoryInv'
<1>1. UNCHANGED <<exec, ops, session, ceremony, block, fence, retired, imported, intake,
                  receipts, cleanup, sweep, measured, prepared, plan, manifest, home, claimedAt>>
  BY DEF Capture, work, pause, arrival, removal, console
<1>2. \A l \in Locations : l # Source(m) => snapshot'[l] = snapshot[l]
  BY DEF Capture, HomeInv, Tables
<1>3. PICK o \in Completed(Source(m)) :
        /\ snapshot'[Source(m)].move = m /\ ~snapshot'[Source(m)].sealed
        /\ snapshot'[Source(m)].rows = snapshot[Source(m)].rows \cup {o}
  <2>1. PICK o \in Completed(Source(m)) :
          snapshot' = [snapshot EXCEPT ![Source(m)] = [move |-> m, rows |-> @.rows \cup {o},
                                                       sealed |-> FALSE]]
    BY DEF Capture
  <2>2. snapshot'[Source(m)] = [move |-> m, rows |-> snapshot[Source(m)].rows \cup {o},
                               sealed |-> FALSE]
    BY <2>1, Route DEF HomeInv, Tables
  <2> QED BY <2>1, <2>2
<1>4. /\ snapshot[Source(m)].move \in {none, m} /\ fence[Source(m)] = m
      /\ retired[Source(m)] = m /\ m # none
  BY NoneAssumption DEF Capture
<1>5. Frozen(m)
  BY <1>4, Route DEF HomeInv, RetiredFrozen
<1>6. measured[m] # none /\ Completed(Source(m)) \subseteq measured[m]
  BY <1>4, <1>5, Route DEF HistoryInv, MeasureRow
<1>7. NamedRows
  BY RowMoves
<1>8. HistoryTables'
  BY <1>1 DEF HistoryInv, HistoryTables
<1>9. /\ FenceRow'
      /\ RetiredRow'
      /\ ImportRow'
      /\ SessionsFollowWallet'
      /\ MeasureRow'
      /\ ManifestRow'
      /\ ReceiptRow'
      /\ CleanupRow'
      /\ OneFreeze'
      /\ Carrier'
      /\ SomeHolder'
      /\ HistoryFollowsWallet'
  BY <1>1 DEF HistoryInv, FenceRow, RetiredRow, ImportRow, SessionsFollowWallet, MeasureRow,
             ManifestRow, ReceiptRow, CleanupRow, OneFreeze, Carrier, SomeHolder,
             HistoryFollowsWallet
<1>10. SnapshotRow'
  BY <1>1, <1>2, <1>3, <1>4, <1>5, <1>6, Route, <1>7 DEF HistoryInv, SnapshotRow, NamedRows
<1> QED BY <1>8, <1>9, <1>10 DEF HistoryInv

\* What is sealed while the history is carried is all of it.
LEMMA SealKeepsHistory ==
    ASSUME HomeInv, HistoryInv, NEW m \in Moves, Seal(m)
    PROVE  HistoryInv'
<1>1. UNCHANGED <<exec, ops, session, ceremony, block, fence, retired, imported, intake,
                  receipts, cleanup, sweep, measured, prepared, plan, manifest, home, claimedAt>>
  BY DEF Seal, work, pause, arrival, removal, console
<1>2. \A l \in Locations : l # Source(m) => snapshot'[l] = snapshot[l]
  BY DEF Seal, HomeInv, Tables
<1>3. /\ snapshot'[Source(m)].move = m
      /\ snapshot'[Source(m)].rows = snapshot[Source(m)].rows
  BY Route DEF Seal, HomeInv, Tables
<1>4. /\ snapshot[Source(m)].move \in {none, m} /\ fence[Source(m)] = m
      /\ retired[Source(m)] = m /\ m # none
      /\ Completed(Source(m)) \subseteq snapshot[Source(m)].rows
  BY NoneAssumption DEF Seal
<1>5. Frozen(m)
  BY <1>4, Route DEF HomeInv, RetiredFrozen
<1>6. measured[m] # none
  BY <1>4, <1>5, Route DEF HistoryInv, MeasureRow
<1>7. Carried(m) => Complete(Source(m))
  BY DEF HistoryInv, Carrier
<1>8. NamedRows
  BY RowMoves
<1>9. HistoryTables'
  BY <1>1 DEF HistoryInv, HistoryTables
<1>10. /\ FenceRow'
       /\ RetiredRow'
       /\ ImportRow'
       /\ SessionsFollowWallet'
       /\ MeasureRow'
       /\ ManifestRow'
       /\ ReceiptRow'
       /\ CleanupRow'
       /\ OneFreeze'
       /\ Carrier'
       /\ SomeHolder'
       /\ HistoryFollowsWallet'
  BY <1>1 DEF HistoryInv, FenceRow, RetiredRow, ImportRow, SessionsFollowWallet, MeasureRow,
             ManifestRow, ReceiptRow, CleanupRow, OneFreeze, Carrier, SomeHolder,
             HistoryFollowsWallet
<1>11. SnapshotRow'
  BY <1>1, <1>2, <1>3, <1>4, <1>5, <1>6, <1>7, Route, <1>8 DEF HistoryInv, SnapshotRow, NamedRows
<1> QED BY <1>9, <1>10, <1>11 DEF HistoryInv

\* The manifest is a sealed snapshot.
LEMMA PublishManifestKeepsHistory ==
    ASSUME HomeInv, HistoryInv, NEW m \in Moves, PublishManifest(m)
    PROVE  HistoryInv'
<1>1. UNCHANGED <<exec, ops, session, ceremony, block, fence, retired, snapshot, imported,
                  intake, receipts, cleanup, sweep, measured, prepared, plan, home, claimedAt>>
  BY DEF PublishManifest, work, pause, arrival, removal, console
<1>2. \A n \in Moves : manifest'[n] = IF n = m THEN snapshot[Source(m)].rows ELSE manifest[n]
  BY DEF PublishManifest, HomeInv, Tables
<1>3. manifest[m] = none /\ snapshot[Source(m)].move = m /\ snapshot[Source(m)].sealed
  BY DEF PublishManifest
<1>4. Carried(m) => \A o \in Ops : claimedAt[o] # {} => o \in snapshot[Source(m)].rows
  BY <1>3, Route DEF HistoryInv, SnapshotRow
<1>5. NamedRows
  BY RowMoves
<1>6. HistoryTables'
  <2>1. snapshot[Source(m)].rows \in SUBSET Ops
    BY Route DEF HomeInv, Tables
  <2> QED BY <1>1, <2>1 DEF PublishManifest, HistoryInv, HistoryTables
<1>7. /\ FenceRow'
      /\ RetiredRow'
      /\ SessionsFollowWallet'
      /\ MeasureRow'
      /\ SnapshotRow'
      /\ ReceiptRow'
      /\ CleanupRow'
      /\ OneFreeze'
      /\ Carrier'
      /\ SomeHolder'
      /\ HistoryFollowsWallet'
  BY <1>1 DEF HistoryInv, FenceRow, RetiredRow, SessionsFollowWallet, MeasureRow, SnapshotRow,
             ReceiptRow, CleanupRow, OneFreeze, Carrier, SomeHolder, HistoryFollowsWallet
<1>8. ImportRow'
  BY <1>1, <1>2, <1>3, <1>4, Route, <1>5 DEF HistoryInv, ImportRow, NamedRows
<1>9. ManifestRow'
  BY <1>1, <1>2, <1>3, <1>4, Route DEF HistoryInv, ManifestRow
<1> QED BY <1>6, <1>7, <1>8, <1>9 DEF HistoryInv

-----------------------------------------------------------------------------
(* The destination *)

\* A location is reserved again only when its last stay has been cleaned.
LEMMA ReserveKeepsHistory ==
    ASSUME HomeInv, HistoryInv, NEW m \in Moves, Reserve(m)
    PROVE  HistoryInv'
<1>1. UNCHANGED <<ops, session, ceremony, block, receipts, cleanup, sweep, measured, plan,
                  manifest, home, claimedAt>>
  BY DEF Reserve, work, pause, arrival, removal, console
<1>2. /\ Planned(m) /\ m # none
      /\ exec[Destination(m)].state # "none" => LeftBy(Destination(m), Gen(m)) # {}
      /\ retired[Destination(m)] \in LeftBy(Destination(m), Gen(m)) \cup {none}
  BY NoneAssumption DEF Reserve
<1>3. exec[Destination(m)].state \in {"none", "retired"}
  BY <1>2, LeftIsCleaned, Route
<1>4. \A n \in Moves : /\ cleanup[Destination(m)][n] # "cleaning"
                       /\ Carried(n) => Source(n) # Destination(m)
  <2>1. CASE exec[Destination(m)].state = "none"
    BY <2>1, Route DEF HistoryInv, CleanupRow, Carrier
  <2>2. CASE exec[Destination(m)].state # "none"
    BY <1>2, <2>2, LeftIsCleaned, Route
  <2> QED BY <2>1, <2>2
<1>5. fence[Destination(m)] \in LeftBy(Destination(m), Gen(m)) \cup {none}
  BY <1>2, <1>3, Route DEF HistoryInv, FenceRow, RetiredRow
<1>6. fence[Destination(m)] # none => block[Destination(m)][fence[Destination(m)]] = "frozen"
  BY <1>3, Route DEF HistoryInv, FenceRow, RetiredRow, HomeInv, RetiredFrozen
<1>7. \A l \in Locations :
        /\ fence'[l] = IF l = Destination(m) THEN none ELSE fence[l]
        /\ retired'[l] = IF l = Destination(m) THEN none ELSE retired[l]
  BY <1>2, <1>5, Route DEF Reserve, HistoryInv, HistoryTables, HomeInv, Tables
<1>8. \A l \in Locations :
        /\ l # Destination(m) => imported'[l] = imported[l] /\ exec'[l] = exec[l]
        /\ snapshot'[l] = snapshot[l] \/ snapshot'[l] = NoSnapshot
  BY Route DEF Reserve, HistoryInv, HistoryTables, HomeInv, Tables
<1>9. /\ imported'[Destination(m)].move = m /\ imported'[Destination(m)].state = "importing"
      /\ exec'[Destination(m)].state = "inactive"
  BY Route DEF Reserve, HistoryInv, HistoryTables, HomeInv, Tables
<1>10. \A n \in Moves : (Frozen(n)' <=> Frozen(n)) /\ (Carried(n)' <=> Carried(n))
  BY <1>1, Route
<1>11. NamedRows
  BY RowMoves
<1>12. HistoryTables'
  BY <1>1, <1>7, Route DEF Reserve, HistoryInv, HistoryTables
<1>13. ManifestRow' /\ ReceiptRow' /\ OneFreeze'
  BY <1>1 DEF HistoryInv, ManifestRow, ReceiptRow, OneFreeze
<1>14. FenceRow'
  BY <1>1, <1>2, <1>3, <1>4, <1>5, <1>6, <1>7, <1>8, <1>9, <1>10, Route DEF HistoryInv, FenceRow
<1>15. RetiredRow'
  BY <1>1, <1>2, <1>3, <1>4, <1>5, <1>6, <1>7, <1>8, <1>9, <1>10, Route DEF HistoryInv, RetiredRow
<1>16. ImportRow'
  BY <1>1, <1>2, <1>3, <1>4, <1>5, <1>6, <1>7, <1>8, <1>9, <1>10, Route, <1>11
  DEF HistoryInv, ImportRow, NamedRows
<1>17. SessionsFollowWallet'
  BY <1>1, <1>2, <1>3, <1>4, <1>5, <1>6, <1>7, <1>8, <1>9, <1>10, Route
  DEF HistoryInv, SessionsFollowWallet
<1>18. MeasureRow'
  BY <1>1, <1>2, <1>3, <1>4, <1>5, <1>6, <1>7, <1>8, <1>9, <1>10, Route, NoneAssumption
  DEF HistoryInv, MeasureRow
<1>19. SnapshotRow'
  BY <1>1, <1>2, <1>3, <1>4, <1>5, <1>6, <1>7, <1>8, <1>9, <1>10, Route, <1>11
  DEF HistoryInv, SnapshotRow, NoSnapshot, NamedRows
<1>20. CleanupRow'
  BY <1>1, <1>2, <1>3, <1>4, <1>5, <1>6, <1>7, <1>8, <1>9, <1>10, Route DEF HistoryInv, CleanupRow
<1>21. Carrier'
  BY <1>1, <1>2, <1>3, <1>4, <1>5, <1>6, <1>7, <1>8, <1>9, <1>10, Route DEF HistoryInv, Carrier
<1>22. SomeHolder'
  BY <1>1, <1>2, <1>3, <1>4, <1>5, <1>6, <1>7, <1>8, <1>9, <1>10, Route DEF HistoryInv, SomeHolder
<1>23. HistoryFollowsWallet'
  BY <1>1, <1>2, <1>3, <1>4, <1>5, <1>6, <1>7, <1>8, <1>9, <1>10, Route
  DEF HistoryInv, HistoryFollowsWallet
<1> QED BY <1>12, <1>13, <1>14, <1>15, <1>16, <1>17, <1>18, <1>19, <1>20, <1>21,
           <1>22, <1>23 DEF HistoryInv

\* An intake does not touch the history.
LEMMA OpenIntakeKeepsHistory ==
    ASSUME HomeInv, HistoryInv, NEW m \in Moves, OpenIntake(m)
    PROVE  HistoryInv'
<1>1. UNCHANGED <<exec, ops, session, ceremony, block, fence, retired, snapshot, imported,
                  receipts, cleanup, sweep, measured, prepared, plan, manifest, home, claimedAt>>
  BY DEF OpenIntake, work, pause, arrival, removal, console
<1>2. HistoryTables'
  BY <1>1 DEF HistoryInv, HistoryTables
<1>3. /\ FenceRow'
      /\ RetiredRow'
      /\ ImportRow'
      /\ SessionsFollowWallet'
      /\ MeasureRow'
      /\ SnapshotRow'
      /\ ManifestRow'
      /\ ReceiptRow'
      /\ CleanupRow'
      /\ OneFreeze'
      /\ Carrier'
      /\ SomeHolder'
      /\ HistoryFollowsWallet'
  BY <1>1 DEF HistoryInv, FenceRow, RetiredRow, ImportRow, SessionsFollowWallet, MeasureRow,
             SnapshotRow, ManifestRow, ReceiptRow, CleanupRow, OneFreeze, Carrier, SomeHolder,
             HistoryFollowsWallet
<1> QED BY <1>2, <1>3 DEF HistoryInv

\* The destination restores the manifest, so the whole history.
LEMMA AcceptSnapshotKeepsHistory ==
    ASSUME HomeInv, HistoryInv, NEW m \in Moves, AcceptSnapshot(m)
    PROVE  HistoryInv'
<1>1. UNCHANGED <<exec, session, ceremony, block, fence, retired, snapshot, receipts, cleanup,
                  sweep, measured, prepared, plan, manifest, home, claimedAt>>
  BY DEF AcceptSnapshot, work, pause, arrival, removal, console
<1>2. /\ imported[Destination(m)].move = m /\ imported[Destination(m)].state = "importing"
      /\ m # none /\ manifest[m] # none
  BY NoneAssumption, Route DEF AcceptSnapshot, HomeInv, IntakeHasManifest
<1>3. exec[Destination(m)].state = "inactive"
  BY <1>2, Route DEF HistoryInv, ImportRow
<1>4. fence[Destination(m)] = none
  BY <1>3, Route DEF HistoryInv, FenceRow
<1>5. \A n \in Moves : Carried(n) => Source(n) # Destination(m)
  BY <1>3 DEF HistoryInv, Carrier
<1>6. \A l \in Locations, o \in Ops :
        ops'[l][o] = IF l = Destination(m) /\ o \in manifest[m] THEN "completed" ELSE ops[l][o]
  BY Route DEF AcceptSnapshot, Restored, HistoryInv, HistoryTables
<1>7. \A l \in Locations :
        /\ imported'[l].move = imported[l].move
        /\ imported'[l].state = IF l = Destination(m) THEN "closed" ELSE imported[l].state
  BY Route DEF AcceptSnapshot, HistoryInv, HistoryTables
<1>8. Carried(m) => \A o \in Ops : claimedAt[o] # {} => o \in manifest[m]
  BY <1>2 DEF HistoryInv, ManifestRow
<1>9. \A n \in Moves : Carried(n)' <=> Carried(n)
  BY <1>1
<1>10. NamedRows
  BY RowMoves
<1>11. HistoryTables'
  <2>1. ops' \in [Locations -> [Ops -> {"none", "claimed", "completed"}]]
    BY Route DEF AcceptSnapshot, Restored, HistoryInv, HistoryTables
  <2>2. imported' \in [Locations -> [move : Moves \cup {none},
                                     state : {"none", "importing", "closed", "activated"}]]
    BY Route DEF AcceptSnapshot, HistoryInv, HistoryTables
  <2> QED BY <1>1, <2>1, <2>2 DEF HistoryInv, HistoryTables
<1>12. /\ FenceRow'
       /\ RetiredRow'
       /\ SessionsFollowWallet'
       /\ SnapshotRow'
       /\ ManifestRow'
       /\ ReceiptRow'
       /\ CleanupRow'
       /\ OneFreeze'
       /\ SomeHolder'
  BY <1>1 DEF HistoryInv, FenceRow, RetiredRow, SessionsFollowWallet, SnapshotRow, ManifestRow,
             ReceiptRow, CleanupRow, OneFreeze, SomeHolder
<1>13. ImportRow'
  BY <1>1, <1>2, <1>3, <1>4, <1>5, <1>6, <1>7, <1>8, <1>9, Route, <1>10
  DEF HistoryInv, ImportRow, NamedRows
<1>14. MeasureRow'
  BY <1>1, <1>2, <1>3, <1>4, <1>5, <1>6, <1>7, <1>8, <1>9, Route, NoneAssumption
  DEF HistoryInv, MeasureRow
<1>15. Carrier'
  BY <1>1, <1>2, <1>3, <1>4, <1>5, <1>6, <1>7, <1>8, <1>9, Route DEF HistoryInv, Carrier
<1>16. HistoryFollowsWallet'
  BY <1>1, <1>2, <1>3, <1>4, <1>5, <1>6, <1>7, <1>8, <1>9, Route
  DEF HistoryInv, HistoryFollowsWallet
<1> QED BY <1>11, <1>12, <1>13, <1>14, <1>15, <1>16 DEF HistoryInv

\* The history arrives with the one move that carries it.
LEMMA ActivateKeepsHistory ==
    ASSUME HomeInv, HistoryInv, NEW m \in Moves, Activate(m)
    PROVE  HistoryInv'
<1>1. UNCHANGED <<ops, session, ceremony, block, fence, retired, snapshot, intake, cleanup,
                  sweep, measured, prepared, plan, manifest, home, claimedAt>>
  BY DEF Activate, work, pause, arrival, removal, console
<1>2. /\ plan[m].phase = "cutover" /\ m \notin receipts[Destination(m)] /\ m # none
      /\ retired[Destination(m)] = none
      /\ imported[Destination(m)].move = m /\ imported[Destination(m)].state = "closed"
      /\ exec[Destination(m)].state = "inactive" /\ intake[Destination(m)].move = m
  BY NoneAssumption DEF Activate
<1>3. Frozen(m)
  BY <1>2, Route DEF HomeInv, IntakeHasManifest, ManifestFrozen
<1>4. Complete(Destination(m))
  BY <1>2, <1>3, Route DEF HistoryInv, ImportRow
<1>5. \A n \in Moves : Carried(n) => n = m
  <2> SUFFICES ASSUME NEW n \in Moves, Carried(n) PROVE n = m
    OBVIOUS
  <2>1. plan[n].phase \in {"admitted", "cutover"}
    BY DEF HistoryInv, Carrier
  <2> QED BY <1>2, <2>1 DEF HomeInv, PendingIsHome
<1>6. \A l \in Locations, n \in Moves :
        n \in receipts'[l] <=> n \in receipts[l] \/ (l = Destination(m) /\ n = m)
  BY Route DEF Activate, HomeInv, Tables
<1>7. \A l \in Locations :
        /\ imported'[l].move = imported[l].move
        /\ imported'[l].state = IF l = Destination(m) THEN "activated" ELSE imported[l].state
        /\ exec'[l].gen = exec[l].gen
        /\ exec'[l].state = IF l = Destination(m) THEN "active" ELSE exec[l].state
  BY Route DEF Activate, HistoryInv, HistoryTables, HomeInv, Tables, Execution
<1>8. \A n \in Moves : (Frozen(n)' <=> Frozen(n)) /\ ~Carried(n)'
  BY <1>1, <1>5, <1>6, Route
<1>9. \A l \in Locations : exec[l].state # "active"
  BY <1>2 DEF HomeInv, PendingIsHome
<1>10. NamedRows
  BY RowMoves
<1>11. HistoryTables'
  BY <1>1, Route DEF Activate, HistoryInv, HistoryTables
<1>12. MeasureRow' /\ OneFreeze'
  BY <1>1 DEF HistoryInv, MeasureRow, OneFreeze
<1>13. FenceRow'
  BY <1>1, <1>2, <1>3, <1>4, <1>5, <1>6, <1>7, <1>8, <1>9, Route DEF HistoryInv, FenceRow
<1>14. RetiredRow'
  BY <1>1, <1>2, <1>3, <1>4, <1>5, <1>6, <1>7, <1>8, <1>9, Route DEF HistoryInv, RetiredRow
<1>15. ImportRow'
  BY <1>1, <1>2, <1>3, <1>4, <1>5, <1>6, <1>7, <1>8, <1>9, Route, <1>10
  DEF HistoryInv, ImportRow, NamedRows
<1>16. SessionsFollowWallet'
  BY <1>1, <1>2, <1>3, <1>4, <1>5, <1>6, <1>7, <1>8, <1>9, Route
  DEF HistoryInv, SessionsFollowWallet
<1>17. SnapshotRow'
  BY <1>1, <1>2, <1>3, <1>4, <1>5, <1>6, <1>7, <1>8, <1>9, Route, <1>10
  DEF HistoryInv, SnapshotRow, NamedRows
<1>18. ManifestRow'
  BY <1>1, <1>2, <1>3, <1>4, <1>5, <1>6, <1>7, <1>8, <1>9, Route DEF HistoryInv, ManifestRow
<1>19. ReceiptRow'
  BY <1>1, <1>2, <1>3, <1>4, <1>5, <1>6, <1>7, <1>8, <1>9, Route DEF HistoryInv, ReceiptRow
<1>20. CleanupRow'
  BY <1>1, <1>2, <1>3, <1>4, <1>5, <1>6, <1>7, <1>8, <1>9, Route DEF HistoryInv, CleanupRow
<1>21. Carrier'
  BY <1>1, <1>2, <1>3, <1>4, <1>5, <1>6, <1>7, <1>8, <1>9, Route DEF HistoryInv, Carrier
<1>22. SomeHolder'
  BY <1>1, <1>2, <1>3, <1>4, <1>5, <1>6, <1>7, <1>8, <1>9, Route DEF HistoryInv, SomeHolder
<1>23. HistoryFollowsWallet'
  BY <1>1, <1>2, <1>3, <1>4, <1>5, <1>6, <1>7, <1>8, <1>9, Route
  DEF HistoryInv, HistoryFollowsWallet
<1> QED BY <1>11, <1>12, <1>13, <1>14, <1>15, <1>16, <1>17, <1>18, <1>19, <1>20,
           <1>21, <1>22, <1>23 DEF HistoryInv

-----------------------------------------------------------------------------
(* Cleanup *)

\* A cleanup starts behind the fence of the stay it ends.
LEMMA CleanupStartKeepsHistory ==
    ASSUME HomeInv, HistoryInv, NEW m \in Moves, CleanupStart(m)
    PROVE  HistoryInv'
<1>1. UNCHANGED <<exec, ops, session, ceremony, block, fence, retired, snapshot, imported,
                  intake, receipts, sweep, measured, prepared, plan, manifest, home, claimedAt>>
  BY DEF CleanupStart, work, pause, arrival, removal, console
<1>2. \A l \in Locations, n \in Moves :
        cleanup'[l][n] = IF l = Source(m) /\ n = m THEN "cleaning" ELSE cleanup[l][n]
  BY DEF CleanupStart, HistoryInv, HistoryTables
<1>3. /\ m \in receipts[Destination(m)] /\ snapshot[Source(m)].move = m
      /\ fence[Source(m)] = m /\ m # none
  BY NoneAssumption DEF CleanupStart
<1>4. Frozen(m)
  BY <1>3, Route DEF HomeInv, SnapshotFrozen
<1>5. exec[Source(m)].gen = Gen(m) /\ exec[Source(m)].state \in {"active", "retired"}
  BY <1>3, Route DEF HistoryInv, FenceRow
<1>6. exec[Source(m)].state = "retired"
  BY <1>4, <1>5, Route DEF HomeInv, FrozenIsOver
<1>7. HistoryTables'
  BY <1>1, Route DEF CleanupStart, HistoryInv, HistoryTables
<1>8. /\ FenceRow'
      /\ RetiredRow'
      /\ ImportRow'
      /\ SessionsFollowWallet'
      /\ MeasureRow'
      /\ SnapshotRow'
      /\ ManifestRow'
      /\ ReceiptRow'
      /\ OneFreeze'
      /\ Carrier'
      /\ SomeHolder'
      /\ HistoryFollowsWallet'
  BY <1>1 DEF HistoryInv, FenceRow, RetiredRow, ImportRow, SessionsFollowWallet, MeasureRow,
             SnapshotRow, ManifestRow, ReceiptRow, OneFreeze, Carrier, SomeHolder,
             HistoryFollowsWallet
<1>9. CleanupRow'
  BY <1>1, <1>2, <1>3, <1>4, <1>5, <1>6, Route DEF HistoryInv, CleanupRow
<1> QED BY <1>7, <1>8, <1>9 DEF HistoryInv

\* A selection deletes nothing.
LEMMA CleanupSelectKeepsHistory ==
    ASSUME HomeInv, HistoryInv, NEW m \in Moves, NEW o \in Ops, CleanupSelect(m, o)
    PROVE  HistoryInv'
<1>1. UNCHANGED <<exec, ops, session, ceremony, block, fence, retired, snapshot, imported,
                  intake, receipts, cleanup, measured, prepared, plan, manifest, home,
                  claimedAt>>
  BY DEF CleanupSelect, work, pause, arrival, removal, console
<1>2. HistoryTables'
  BY <1>1 DEF CleanupSelect, HistoryInv, HistoryTables
<1>3. /\ FenceRow'
      /\ RetiredRow'
      /\ ImportRow'
      /\ SessionsFollowWallet'
      /\ MeasureRow'
      /\ SnapshotRow'
      /\ ManifestRow'
      /\ ReceiptRow'
      /\ CleanupRow'
      /\ OneFreeze'
      /\ Carrier'
      /\ SomeHolder'
      /\ HistoryFollowsWallet'
  BY <1>1 DEF HistoryInv, FenceRow, RetiredRow, ImportRow, SessionsFollowWallet, MeasureRow,
             SnapshotRow, ManifestRow, ReceiptRow, CleanupRow, OneFreeze, Carrier, SomeHolder,
             HistoryFollowsWallet
<1> QED BY <1>2, <1>3 DEF HistoryInv

\* What a late batch still deletes, the wallet has left for good.
LEMMA CleanupDeleteKeepsHistory ==
    ASSUME HomeInv, HistoryInv, NEW m \in Moves, NEW o \in Ops, CleanupDelete(m, o)
    PROVE  HistoryInv'
<1>1. UNCHANGED <<exec, session, ceremony, block, fence, retired, snapshot, imported, intake,
                  receipts, cleanup, measured, prepared, plan, manifest, home, claimedAt>>
  BY DEF CleanupDelete, work, pause, arrival, removal, console
<1>2. \A l \in Locations, p \in Ops :
        ops'[l][p] = IF l = Source(m) /\ p = o /\ cleanup[l][m] = "cleaning"
                     THEN "none" ELSE ops[l][p]
  BY Route DEF CleanupDelete, HistoryInv, HistoryTables
<1>3. cleanup[Source(m)][m] = "cleaning" =>
        /\ exec[Source(m)].state = "retired" /\ exec[Source(m)].gen = Gen(m)
        /\ Frozen(m) /\ m \in receipts[Destination(m)]
  BY Route DEF HistoryInv, CleanupRow
<1>4. cleanup[Source(m)][m] = "cleaning" => \A n \in Moves : Carried(n) => Source(n) # Source(m)
  BY <1>3, Route DEF HistoryInv, Carrier, OneFreeze
<1>5. NamedRows
  BY RowMoves
<1>6. HistoryTables'
  <2>1. ops' \in [Locations -> [Ops -> {"none", "claimed", "completed"}]]
    BY Route DEF CleanupDelete, HistoryInv, HistoryTables
  <2> QED BY <1>1, <2>1 DEF CleanupDelete, HistoryInv, HistoryTables
<1>7. /\ FenceRow'
      /\ RetiredRow'
      /\ SessionsFollowWallet'
      /\ SnapshotRow'
      /\ ManifestRow'
      /\ ReceiptRow'
      /\ CleanupRow'
      /\ OneFreeze'
      /\ SomeHolder'
  BY <1>1 DEF HistoryInv, FenceRow, RetiredRow, SessionsFollowWallet, SnapshotRow, ManifestRow,
             ReceiptRow, CleanupRow, OneFreeze, SomeHolder
<1>8. ImportRow'
  BY <1>1, <1>2, <1>3, <1>4, Route, <1>5 DEF HistoryInv, ImportRow, NamedRows
<1>9. MeasureRow'
  BY <1>1, <1>2, Route DEF HistoryInv, MeasureRow
<1>10. Carrier'
  BY <1>1, <1>2, <1>3, <1>4, Route DEF HistoryInv, Carrier
<1>11. HistoryFollowsWallet'
  BY <1>1, <1>2, <1>3, <1>4, Route DEF HistoryInv, HistoryFollowsWallet
<1> QED BY <1>6, <1>7, <1>8, <1>9, <1>10, <1>11 DEF HistoryInv

\* A finished cleanup stays on record.
LEMMA CleanupEndsKeepsHistory ==
    ASSUME HomeInv, HistoryInv, NEW m \in Moves, CleanupEnds(m)
    PROVE  HistoryInv'
<1>1. UNCHANGED <<exec, ops, session, ceremony, block, fence, retired, snapshot, imported,
                  intake, receipts, sweep, measured, prepared, plan, manifest, home, claimedAt>>
  BY DEF CleanupEnds, work, pause, arrival, removal, console
<1>2. \A l \in Locations, n \in Moves :
        cleanup'[l][n] = IF l = Source(m) /\ n = m THEN "cleaned" ELSE cleanup[l][n]
  BY DEF CleanupEnds, HistoryInv, HistoryTables
<1>3. cleanup[Source(m)][m] = "cleaning"
  BY DEF CleanupEnds
<1>4. HistoryTables'
  BY <1>1, Route DEF CleanupEnds, HistoryInv, HistoryTables
<1>5. /\ FenceRow'
      /\ RetiredRow'
      /\ ImportRow'
      /\ SessionsFollowWallet'
      /\ MeasureRow'
      /\ SnapshotRow'
      /\ ManifestRow'
      /\ ReceiptRow'
      /\ OneFreeze'
      /\ Carrier'
      /\ SomeHolder'
      /\ HistoryFollowsWallet'
  BY <1>1 DEF HistoryInv, FenceRow, RetiredRow, ImportRow, SessionsFollowWallet, MeasureRow,
             SnapshotRow, ManifestRow, ReceiptRow, OneFreeze, Carrier, SomeHolder,
             HistoryFollowsWallet
<1>6. CleanupRow'
  BY <1>1, <1>2, <1>3, Route DEF HistoryInv, CleanupRow
<1> QED BY <1>4, <1>5, <1>6 DEF HistoryInv

-----------------------------------------------------------------------------
(* Console *)

\* No table knows a move before it is planned.
LEMMA PlanKeepsHistory ==
    ASSUME HomeInv, HistoryInv, NEW m \in Moves, NEW to \in Locations, Plan(m, to)
    PROVE  HistoryInv'
<1>1. UNCHANGED <<exec, ops, session, ceremony, block, fence, retired, snapshot, imported,
                  intake, receipts, cleanup, sweep, measured, prepared, manifest, home,
                  claimedAt>>
  BY DEF Plan, work, pause, arrival, removal, console
<1>2. \A n \in Moves : n # m => plan'[n] = plan[n]
  BY DEF Plan, HomeInv, Tables
<1>3. /\ ~Planned(m) /\ m # none /\ plan'[m].from \in Locations /\ plan'[m].to \in Locations
      /\ plan'[m].phase = "planned"
  BY NoneAssumption DEF Plan, HomeInv, Tables
<1>4. \A l \in Locations : block[l][m] = "none" /\ fence[l] # m
  BY <1>3 DEF HomeInv, BlocksArePlanned, HistoryInv, FenceRow
<1>5. \A l \in Locations : imported[l].move # m /\ m \notin receipts[l]
  BY <1>3 DEF HistoryInv, ImportRow, ReceiptRow
<1>6. /\ ~Frozen(m) /\ ~Frozen(m)'
      /\ \A n \in Moves : n # m => (Frozen(n)' <=> Frozen(n)) /\ (Carried(n)' <=> Carried(n))
  BY <1>1, <1>2, <1>3, <1>4, Route
<1>7. measured[m] = none
  BY <1>4, Route DEF HistoryInv, MeasureRow
<1>8. \A l \in Locations : cleanup[l][m] = "none"
  BY <1>6 DEF HistoryInv, CleanupRow
<1>9. NamedRows
  BY RowMoves
<1>10. HistoryTables'
  BY <1>1 DEF HistoryInv, HistoryTables
<1>11. RetiredRow' /\ SessionsFollowWallet' /\ HistoryFollowsWallet'
  BY <1>1 DEF HistoryInv, RetiredRow, SessionsFollowWallet, HistoryFollowsWallet
<1>12. FenceRow'
  <2>1. \A l \in Locations : fence[l] # none => fence[l] \in Moves /\ fence[l] # m
    BY <1>4 DEF HistoryInv, HistoryTables
  <2> QED BY <1>1, <1>2, <2>1 DEF HistoryInv, FenceRow
<1>13. ImportRow'
  <2> SUFFICES ASSUME NEW l \in Locations
               PROVE  /\ imported[l].state \in {"importing", "closed"} <=> exec[l].state = "inactive"
                      /\ imported[l].move = none <=> imported[l].state = "none"
                      /\ imported[l].move # none => /\ Planned(imported[l].move)'
                                                    /\ Destination(imported[l].move)' = l
                      /\ imported[l].state = "closed" => /\ manifest[imported[l].move] # none
                                                         /\ Carried(imported[l].move)' => Complete(l)
    BY <1>1 DEF ImportRow
  <2>1. imported[l].move # none => imported[l].move \in Moves /\ imported[l].move # m
    BY <1>5 DEF HistoryInv, HistoryTables
  <2>2. /\ imported[l].state \in {"importing", "closed"} <=> exec[l].state = "inactive"
        /\ imported[l].move = none <=> imported[l].state = "none"
    BY DEF HistoryInv, ImportRow
  <2>3. imported[l].move # none => /\ Planned(imported[l].move)'
                                   /\ Destination(imported[l].move)' = l
    BY <1>1, <1>2, <2>1 DEF HistoryInv, ImportRow
  <2>4. imported[l].state = "closed" => /\ manifest[imported[l].move] # none
                                        /\ Carried(imported[l].move)' => Complete(l)
    BY <1>1, <1>6, <2>1, <2>2 DEF HistoryInv, ImportRow
  <2> QED BY <2>2, <2>3, <2>4
<1>14. MeasureRow'
  BY <1>1, <1>2, <1>3, <1>4, <1>7, Route DEF HistoryInv, MeasureRow
<1>15. SnapshotRow'
  BY <1>1, <1>6, Route, <1>9 DEF HistoryInv, SnapshotRow, NamedRows
<1>16. ManifestRow'
  BY <1>1, <1>6, Route DEF HistoryInv, ManifestRow
<1>17. ReceiptRow'
  BY <1>1, <1>2, <1>5, Route DEF HistoryInv, ReceiptRow
<1>18. CleanupRow'
  BY <1>1, <1>2, <1>6, <1>8, Route DEF HistoryInv, CleanupRow
<1>19. OneFreeze'
  BY <1>1, <1>2, <1>6, Route DEF HistoryInv, OneFreeze
<1>20. Carrier'
  BY <1>1, <1>2, <1>6, Route DEF HistoryInv, Carrier
<1>21. SomeHolder'
  BY <1>1, <1>6, Route DEF HistoryInv, SomeHolder
<1> QED BY <1>10, <1>11, <1>12, <1>13, <1>14, <1>15, <1>16, <1>17, <1>18, <1>19,
           <1>20, <1>21 DEF HistoryInv

\* An admission changes the phase alone.
LEMMA AdmitKeepsHistory ==
    ASSUME HomeInv, HistoryInv, NEW m \in Moves, Admit(m)
    PROVE  HistoryInv'
<1>1. UNCHANGED <<exec, ops, session, ceremony, block, fence, retired, snapshot, imported,
                  intake, receipts, cleanup, sweep, measured, prepared, manifest, home,
                  claimedAt>>
  BY DEF Admit, work, pause, arrival, removal, console
<1>2. \A n \in Moves : /\ plan'[n].from = plan[n].from /\ plan'[n].to = plan[n].to
                       /\ plan'[n].gen = plan[n].gen
                       /\ plan'[n].phase = IF n = m THEN "admitted" ELSE plan[n].phase
  BY DEF Admit, HomeInv, Tables, PlanRow
<1>3. plan[m].phase = "planned"
  BY DEF Admit
<1>4. \A n \in Moves : (Frozen(n)' <=> Frozen(n)) /\ (Carried(n)' <=> Carried(n))
  BY <1>1, <1>2, Route
<1>5. NamedRows
  BY RowMoves
<1>6. HistoryTables'
  BY <1>1 DEF HistoryInv, HistoryTables
<1>7. RetiredRow' /\ SessionsFollowWallet' /\ HistoryFollowsWallet'
  BY <1>1 DEF HistoryInv, RetiredRow, SessionsFollowWallet, HistoryFollowsWallet
<1>8. FenceRow'
  BY <1>1, <1>2, <1>3, <1>4, Route DEF HistoryInv, FenceRow
<1>9. ImportRow'
  BY <1>1, <1>2, <1>3, <1>4, Route, <1>5 DEF HistoryInv, ImportRow, NamedRows
<1>10. MeasureRow'
  BY <1>1, <1>2, <1>3, <1>4, Route DEF HistoryInv, MeasureRow
<1>11. SnapshotRow'
  BY <1>1, <1>2, <1>3, <1>4, Route, <1>5 DEF HistoryInv, SnapshotRow, NamedRows
<1>12. ManifestRow'
  BY <1>1, <1>2, <1>3, <1>4, Route DEF HistoryInv, ManifestRow
<1>13. ReceiptRow'
  BY <1>1, <1>2, <1>3, <1>4, Route DEF HistoryInv, ReceiptRow
<1>14. CleanupRow'
  BY <1>1, <1>2, <1>3, <1>4, Route DEF HistoryInv, CleanupRow
<1>15. OneFreeze'
  BY <1>1, <1>2, <1>3, <1>4, Route DEF HistoryInv, OneFreeze
<1>16. Carrier'
  BY <1>1, <1>2, <1>3, <1>4, Route DEF HistoryInv, Carrier
<1>17. SomeHolder'
  BY <1>1, <1>2, <1>3, <1>4, Route DEF HistoryInv, SomeHolder
<1> QED BY <1>6, <1>7, <1>8, <1>9, <1>10, <1>11, <1>12, <1>13, <1>14, <1>15,
           <1>16, <1>17 DEF HistoryInv

\* A rejected move carries nothing.
LEMMA RejectKeepsHistory ==
    ASSUME HomeInv, HistoryInv, NEW m \in Moves, Reject(m)
    PROVE  HistoryInv'
<1>1. UNCHANGED <<exec, ops, session, ceremony, block, fence, retired, snapshot, imported,
                  intake, receipts, cleanup, sweep, measured, prepared, manifest, home,
                  claimedAt>>
  BY DEF Reject, work, pause, arrival, removal, console
<1>2. \A n \in Moves : /\ plan'[n].from = plan[n].from /\ plan'[n].to = plan[n].to
                       /\ plan'[n].gen = plan[n].gen
                       /\ plan'[n].phase = IF n = m THEN "rejected" ELSE plan[n].phase
  BY DEF Reject, HomeInv, Tables, PlanRow
<1>3. plan[m].phase = "planned"
  BY DEF Reject
<1>4. \A n \in Moves : (Frozen(n)' <=> Frozen(n)) /\ (Carried(n)' <=> Carried(n))
  BY <1>1, <1>2, Route
<1>5. NamedRows
  BY RowMoves
<1>6. HistoryTables'
  BY <1>1 DEF HistoryInv, HistoryTables
<1>7. RetiredRow' /\ SessionsFollowWallet' /\ HistoryFollowsWallet'
  BY <1>1 DEF HistoryInv, RetiredRow, SessionsFollowWallet, HistoryFollowsWallet
<1>8. FenceRow'
  BY <1>1, <1>2, <1>3, <1>4, Route DEF HistoryInv, FenceRow
<1>9. ImportRow'
  BY <1>1, <1>2, <1>3, <1>4, Route, <1>5 DEF HistoryInv, ImportRow, NamedRows
<1>10. MeasureRow'
  BY <1>1, <1>2, <1>3, <1>4, Route DEF HistoryInv, MeasureRow
<1>11. SnapshotRow'
  BY <1>1, <1>2, <1>3, <1>4, Route, <1>5 DEF HistoryInv, SnapshotRow, NamedRows
<1>12. ManifestRow'
  BY <1>1, <1>2, <1>3, <1>4, Route DEF HistoryInv, ManifestRow
<1>13. ReceiptRow'
  BY <1>1, <1>2, <1>3, <1>4, Route DEF HistoryInv, ReceiptRow
<1>14. CleanupRow'
  BY <1>1, <1>2, <1>3, <1>4, Route DEF HistoryInv, CleanupRow
<1>15. OneFreeze'
  BY <1>1, <1>2, <1>3, <1>4, Route DEF HistoryInv, OneFreeze
<1>16. Carrier'
  BY <1>1, <1>2, <1>3, <1>4, Route DEF HistoryInv, Carrier
<1>17. SomeHolder'
  BY <1>1, <1>2, <1>3, <1>4, Route DEF HistoryInv, SomeHolder
<1> QED BY <1>6, <1>7, <1>8, <1>9, <1>10, <1>11, <1>12, <1>13, <1>14, <1>15,
           <1>16, <1>17 DEF HistoryInv

\* The cutover moves the home of Console and no history.
LEMMA CutoverKeepsHistory ==
    ASSUME HomeInv, HistoryInv, NEW m \in Moves, Cutover(m)
    PROVE  HistoryInv'
<1>1. UNCHANGED <<exec, ops, session, ceremony, block, fence, retired, snapshot, imported,
                  intake, receipts, cleanup, sweep, measured, prepared, manifest, claimedAt>>
  BY DEF Cutover, work, pause, arrival, removal, console
<1>2. \A n \in Moves : /\ plan'[n].from = plan[n].from /\ plan'[n].to = plan[n].to
                       /\ plan'[n].gen = plan[n].gen
                       /\ plan'[n].phase = IF n = m THEN "cutover" ELSE plan[n].phase
  BY DEF Cutover, HomeInv, Tables, PlanRow
<1>3. plan[m].phase = "admitted"
  BY DEF Cutover
<1>4. \A n \in Moves : (Frozen(n)' <=> Frozen(n)) /\ (Carried(n)' <=> Carried(n))
  BY <1>1, <1>2, Route
<1>5. NamedRows
  BY RowMoves
<1>6. HistoryTables'
  BY <1>1 DEF HistoryInv, HistoryTables
<1>7. RetiredRow' /\ SessionsFollowWallet' /\ HistoryFollowsWallet'
  BY <1>1 DEF HistoryInv, RetiredRow, SessionsFollowWallet, HistoryFollowsWallet
<1>8. FenceRow'
  BY <1>1, <1>2, <1>3, <1>4, Route DEF HistoryInv, FenceRow
<1>9. ImportRow'
  BY <1>1, <1>2, <1>3, <1>4, Route, <1>5 DEF HistoryInv, ImportRow, NamedRows
<1>10. MeasureRow'
  BY <1>1, <1>2, <1>3, <1>4, Route DEF HistoryInv, MeasureRow
<1>11. SnapshotRow'
  BY <1>1, <1>2, <1>3, <1>4, Route, <1>5 DEF HistoryInv, SnapshotRow, NamedRows
<1>12. ManifestRow'
  BY <1>1, <1>2, <1>3, <1>4, Route DEF HistoryInv, ManifestRow
<1>13. ReceiptRow'
  BY <1>1, <1>2, <1>3, <1>4, Route DEF HistoryInv, ReceiptRow
<1>14. CleanupRow'
  BY <1>1, <1>2, <1>3, <1>4, Route DEF HistoryInv, CleanupRow
<1>15. OneFreeze'
  BY <1>1, <1>2, <1>3, <1>4, Route DEF HistoryInv, OneFreeze
<1>16. Carrier'
  BY <1>1, <1>2, <1>3, <1>4, Route DEF HistoryInv, Carrier
<1>17. SomeHolder'
  BY <1>1, <1>2, <1>3, <1>4, Route DEF HistoryInv, SomeHolder
<1> QED BY <1>6, <1>7, <1>8, <1>9, <1>10, <1>11, <1>12, <1>13, <1>14, <1>15,
           <1>16, <1>17 DEF HistoryInv

-----------------------------------------------------------------------------
(* Every behaviour *)

LEMMA InitHistory == Init => HistoryInv
<1> SUFFICES ASSUME Init PROVE HistoryInv
  OBVIOUS
<1>1. HistoryTables
  <2>1. /\ ops \in [Locations -> [Ops -> {"none", "claimed", "completed"}]]
        /\ session \in [Locations -> BOOLEAN] /\ ceremony \in [Locations -> BOOLEAN]
        /\ cleanup \in [Locations -> [Moves -> {"none", "cleaning", "cleaned"}]]
    BY DEF Init
  <2>2. /\ fence \in [Locations -> Moves \cup {none}]
        /\ sweep \subseteq Moves \X Ops /\ prepared \subseteq Moves
    BY DEF Init
  <2>3. imported \in [Locations -> [move : Moves \cup {none},
                                    state : {"none", "importing", "closed", "activated"}]]
    BY DEF Init, NoImport
  <2>4. /\ measured \in [Moves -> (SUBSET Ops) \cup {none}]
        /\ manifest \in [Moves -> (SUBSET Ops) \cup {none}]
        /\ claimedAt \in [Ops -> SUBSET Nat]
    BY DEF Init
  <2> QED BY <2>1, <2>2, <2>3, <2>4 DEF HistoryTables
<1>2. \A m \in Moves : /\ Source(m) = Registered /\ Destination(m) = Registered
                       /\ plan[m].phase = "none" /\ manifest[m] = none /\ measured[m] = none
  BY DEF Init, NoPlan
<1>3. \A l \in Locations : /\ fence[l] = none /\ retired[l] = none /\ receipts[l] = {}
                           /\ \A m \in Moves : block[l][m] = "none" /\ cleanup[l][m] = "none"
  BY DEF Init
<1>4. \A l \in Locations : /\ imported[l].move = none /\ imported[l].state = "none"
                           /\ snapshot[l].move = none /\ snapshot[l].rows = {}
                           /\ ~snapshot[l].sealed /\ ~session[l]
  BY DEF Init, NoImport, NoSnapshot
<1>5. \A l \in Locations : /\ exec[l].state \in {"none", "active"}
                           /\ l = Registered => exec[l].state = "active"
  BY DEF Init, NoExecution
<1>6. \A o \in Ops : claimedAt[o] = {}
  BY DEF Init
<1>7. \A m \in Moves : ~Frozen(m)
  BY <1>2, <1>3, RegisteredAssumption
<1>8. FenceRow /\ RetiredRow /\ ImportRow
  BY <1>3, <1>4, <1>5 DEF FenceRow, RetiredRow, ImportRow
<1>9. SessionsFollowWallet /\ HistoryFollowsWallet
  BY <1>4, <1>6 DEF SessionsFollowWallet, HistoryFollowsWallet
<1>10. MeasureRow /\ SnapshotRow /\ ManifestRow
  BY <1>2, <1>3, <1>4, <1>7, RegisteredAssumption DEF MeasureRow, SnapshotRow, ManifestRow
<1>11. ReceiptRow /\ CleanupRow /\ OneFreeze /\ Carrier
  BY <1>3, <1>7 DEF ReceiptRow, CleanupRow, OneFreeze, Carrier
<1>12. SomeHolder
  BY <1>5, RegisteredAssumption DEF SomeHolder
<1> QED BY <1>1, <1>8, <1>9, <1>10, <1>11, <1>12 DEF HistoryInv

LEMMA NextKeepsHistory == HomeInv /\ HistoryInv /\ [Next]_vars => HistoryInv'
<1> SUFFICES ASSUME HomeInv, HistoryInv, [Next]_vars PROVE HistoryInv'
  OBVIOUS
<1>1. ASSUME NEW l \in Locations, WalletStep(l) PROVE HistoryInv'
  BY <1>1, IssueSessionKeepsHistory, ClaimKeepsHistory, SettleKeepsHistory, CeremonyKeepsHistory
     DEF WalletStep
<1>2. ASSUME NEW m \in Moves, MoveStep(m) PROVE HistoryInv'
  <2>1. CASE \/ BlockWrites(m) \/ FenceHistory(m) \/ Measure(m) \/ MarkChecked(m)
             \/ Release(m) \/ Freeze(m) \/ Capture(m) \/ Seal(m) \/ PublishManifest(m)
    BY <2>1, BlockWritesKeepsHistory, FenceHistoryKeepsHistory, MeasureKeepsHistory,
       MarkCheckedKeepsHistory, ReleaseKeepsHistory, FreezeKeepsHistory, CaptureKeepsHistory,
       SealKeepsHistory, PublishManifestKeepsHistory
  <2>2. CASE \/ Reserve(m) \/ OpenIntake(m) \/ AcceptSnapshot(m) \/ Activate(m)
    BY <2>2, ReserveKeepsHistory, OpenIntakeKeepsHistory, AcceptSnapshotKeepsHistory,
       ActivateKeepsHistory
  <2>3. CASE \/ CleanupStart(m) \/ CleanupEnds(m)
             \/ \E o \in Ops : CleanupSelect(m, o) \/ CleanupDelete(m, o)
    BY <2>3, CleanupStartKeepsHistory, CleanupEndsKeepsHistory, CleanupSelectKeepsHistory,
       CleanupDeleteKeepsHistory
  <2>4. CASE \/ Admit(m) \/ Reject(m) \/ Cutover(m) \/ \E to \in Locations : Plan(m, to)
    BY <2>4, AdmitKeepsHistory, RejectKeepsHistory, CutoverKeepsHistory, PlanKeepsHistory
  <2> QED BY <1>2, <2>1, <2>2, <2>3, <2>4 DEF MoveStep
<1>3. CASE UNCHANGED vars
  BY <1>3 DEF vars, HistoryInv, HistoryTables, FenceRow, RetiredRow, ImportRow,
              SessionsFollowWallet, MeasureRow, SnapshotRow, ManifestRow, ReceiptRow, CleanupRow,
              OneFreeze, Carrier, SomeHolder, HistoryFollowsWallet
<1> QED BY <1>1, <1>2, <1>3 DEF Next

\* The whole argument holds in every reachable state of the Gateway databases
\* of a moving wallet.
THEOREM HistoryInductive == Spec => [](HomeInv /\ HistoryInv)
  BY InitHome, InitHistory, NextKeeps, NextKeepsHistory, PTL DEF Spec

\* The tables keep their types; a fence row belongs to a move from its
\* location and a reservation to a move towards it, as the foreign keys of the
\* relocation migrations demand.
THEOREM HomesTypeCorrect == Spec => []TypeOK
<1>1. HomeInv /\ HistoryInv => TypeOK
  <2> SUFFICES ASSUME HomeInv, HistoryInv PROVE TypeOK
    OBVIOUS
  <2>1. \A l \in Locations : /\ fence[l] # none => Source(fence[l]) = l
                             /\ retired[l] # none => fence[l] = retired[l]
                             /\ imported[l].move # none => Destination(imported[l].move) = l
    BY DEF HistoryInv, FenceRow, RetiredRow, ImportRow
  <2> QED BY <2>1 DEF TypeOK, HomeInv, Tables, Execution, PlanRow, BlockStates, HistoryInv,
                      HistoryTables
<1> QED BY <1>1, HistoryInductive, PTL

\* A session that could sign exists only where the wallet executes: the freeze
\* retires the sessions with the generation, and no location issues one before
\* its activation or after its retirement.
THEOREM SessionsStayWithWallet == Spec => []SessionsFollowWallet
  BY HistoryInductive, PTL DEF HistoryInv

\* What is sealed is within what assertCapacity measured: nothing is completed
\* between the measurement, taken behind the fence, and the seal.
THEOREM SealsWhatItMeasured == Spec => []SealedWithinMeasure
<1>1. HistoryInv => SealedWithinMeasure
  BY DEF HistoryInv, SnapshotRow, SealedWithinMeasure
<1> QED BY <1>1, HistoryInductive, PTL

\* An operation claimed at any location is refused again wherever the wallet
\* executes: the seal, the manifest and the restored snapshot lose none of it.
THEOREM HistoryFollows == Spec => []HistoryFollowsWallet
  BY HistoryInductive, PTL DEF HistoryInv

\* Some location holds every operation that was ever claimed, however late a
\* cleanup of an earlier stay deletes what it has selected.
THEOREM HistoryIsNeverLost == Spec => []HistoryKept
<1>1. HomeInv /\ HistoryInv => HistoryKept
  <2> SUFFICES ASSUME HomeInv, HistoryInv PROVE HistoryKept
    OBVIOUS
  <2>1. CASE \E l \in Locations : exec[l].state = "active"
    BY <2>1 DEF HistoryInv, HistoryFollowsWallet, HistoryKept
  <2>2. CASE \E m \in Moves : Carried(m)
    <3>1. PICK m \in Moves : Carried(m)
      BY <2>2
    <3>2. Source(m) \in Locations /\ Complete(Source(m))
      BY <3>1, Route DEF HistoryInv, Carrier
    <3> QED BY <3>2 DEF HistoryKept
  <2> QED BY <2>1, <2>2 DEF HistoryInv, SomeHolder
<1> QED BY <1>1, HistoryInductive, PTL
==============================================================================
