---------------------------- MODULE EvmNonceLane ----------------------------
(***************************************************************************)
(* One EVM nonce lane of the wallet SDK, shared by the browser tabs of one *)
(* origin.  Every tab runs its own NonceCoordinator: an in-memory map of   *)
(* leases and an in-memory view of the lane.  The tabs meet only in        *)
(* IndexedDB, which holds one coordination record per lease, and in a lane *)
(* lock: the Web Locks API, or, where that is missing, an IndexedDB row    *)
(* that expires after a TTL even while its holder is still running.  Under *)
(* either one a tab also queues its own handlers of the lane; clearAll     *)
(* empties that queue without waiting for the handler at its head.         *)
(*                                                                         *)
(* An operation o takes at most one lease.  The lane lock serialises the   *)
(* handlers, so a handler is one step that needs the lock to be free; only *)
(* a reservation is two steps, because what it read from IndexedDB before  *)
(* an await decides what it writes after it, and a recovery pass is read   *)
(* outside the lock and applied record by record inside it.                *)
(*                                                                         *)
(* Time is what it makes true: due[o] says that the expiry written last    *)
(* for o's lease has passed, and how long ago a lane was refreshed or a    *)
(* transaction accepted is a choice where the code asks for it.            *)
(***************************************************************************)
EXTENDS Naturals, FiniteSets

CONSTANTS
  Tabs,         \* runtimes of the origin, each with its own coordinator
  Ops,          \* signing operations
  MaxNonce,     \* bound: no nonce above it is reserved
  Settings,     \* browsers and bounds: whether the Web Locks API is there, and how
                \* many crashes, resets, record recoveries and transactions
                \* leaving the pool a behaviour has
  null

Upsets == {"crash", "clear", "recover", "lost"}

ASSUME BoundAssumption == /\ MaxNonce \in Nat
                          /\ Settings \subseteq [webLocks : BOOLEAN, upsets : [Upsets -> Nat]]
ASSUME NullAssumption == null \notin Nat /\ null \notin Tabs /\ null \notin Ops

VARIABLES
  lease,      \* NonceCoordinator.leases of all tabs: state, owner tab, nonce
  due,        \* the expiry last written for the lease has passed
  record,     \* state of the lease's coordination record, or "none"
  lane,       \* EvmNonceLaneState of each tab
  lock,       \* the operation whose reservation holds the shared lane lock, or null
  job,        \* the reservation of each operation that is under way
  recovery,   \* records a tab's recovery pass read and has not handled yet
  forgotten,  \* history: live leases whose record somebody else removed
  bytes,      \* operations whose signed transaction an application holds
  tx,         \* fate of an operation's transaction at the chain
  foreign,    \* pending nonces used by transactions the SDK did not make
  mined,      \* number of nonces the chain has consumed
  upsets,     \* what is left of the bounds
  webLocks    \* the lane lock is a Web Lock, not the expiring IndexedDB row

coordVars == <<lease, due, record, lane, lock, job, recovery, forgotten>>
chainVars == <<bytes, tx, foreign, mined, upsets, webLocks>>
vars == <<lease, due, record, lane, lock, job, recovery, forgotten,
          bytes, tx, foreign, mined, upsets, webLocks>>

Nonces == 0 .. MaxNonce
NoncesUp == 0 .. MaxNonce + 1

LiveStates == {"reserved", "signed", "accepted"}
EndStates == {"released", "expired", "signed_expired", "rejected",
              "finalized", "dropped", "replaced"}
LeaseStates == {"none", "lost"} \cup LiveStates \cup EndStates

NoLease == [state |-> "none", tab |-> null, nonce |-> 0]
NewLane == [chainNonce |-> null, refreshed |-> FALSE, inFlight |-> {}]

\* A reservation that has read and not yet written is at the head of its tab's
\* queue or was there when clearAll emptied it ("cut"); one that still waited in
\* the emptied queue is "late".
Phases == {"none", "queued", "cut", "late"}
NoJob == [tab |-> null, nonce |-> 0, phase |-> "none"]

-----------------------------------------------------------------------------
(* The lease state machine. *)

\* reduceNonceLeaseState: the states a transition may start from ...
LegalFrom == [release   |-> {"reserved", "released"},
              expire    |-> {"reserved", "signed", "expired", "signed_expired"},
              sign      |-> {"reserved", "signed"},
              accept    |-> {"signed", "accepted"},
              reject    |-> {"signed", "rejected"},
              finalize  |-> {"accepted", "finalized"},
              drop      |-> {"accepted", "dropped"},
              replace   |-> {"accepted", "replaced"}]

\* ... and the state it leads to.
Reduce(state, transition) ==
  CASE transition = "release"  -> "released"
    [] transition = "expire"   -> IF state \in {"signed", "signed_expired"}
                                    THEN "signed_expired" ELSE "expired"
    [] transition = "sign"     -> "signed"
    [] transition = "accept"   -> "accepted"
    [] transition = "reject"   -> "rejected"
    [] transition = "finalize" -> "finalized"
    [] transition = "drop"     -> "dropped"
    [] transition = "replace"  -> "replaced"

Owned(t) == {o \in Ops : lease[o].tab = t /\ lease[o].state \notin {"none", "lost"}}
Live(o) == lease[o].state \in LiveStates

-----------------------------------------------------------------------------
(* The coordination records and the nonces they keep occupied. *)

\* pruneExpiredNonceLaneLeaseRecords: every read of a lane first deletes the
\* records that expired, unless their transaction was accepted.
Pruned(rec) == [o \in Ops |->
                  IF rec[o] \in {"reserved", "signed"} /\ due[o] THEN "none" ELSE rec[o]]

Without(rec, S) == [o \in Ops |-> IF o \in S THEN "none" ELSE rec[o]]

\* Mutant: only the leases of this tab's memory count.
ActiveNoncesOfTab(t, rec, S) == {lease[o].nonce : o \in {p \in Owned(t) \ S : Live(p)}}

\* readActiveEvmLeaseNonces, leaving out the leases in S.
ActiveNonces(t, rec, S) ==
  {lease[o].nonce : o \in {p \in Owned(t) \ S : Live(p)}}
    \cup {lease[o].nonce : o \in {p \in Ops \ S : Pruned(rec)[p] # "none"}}

-----------------------------------------------------------------------------
(* The lane view of a tab.  state.nextCandidate is left out: it is read    *)
(* only while chainNonce is null, and a reservation never finds that.      *)

\* The 'pending' transaction count: a node has mined what is mined and may or
\* may not have seen the transactions waiting above it.
Taken == foreign \cup {lease[o].nonce : o \in {p \in Ops : tx[p] = "pending"}}
PendingNext == CHOOSE n \in NoncesUp :
                 /\ n >= mined /\ n \notin Taken
                 /\ \A m \in NoncesUp : m >= mined /\ m \notin Taken => n <= m
ChainNonces == mined .. PendingNext

\* refreshEvmLaneFromChainLocked, for the chain's answer v.
Refreshed(view, v) ==
  [chainNonce |-> v, refreshed |-> TRUE,
   inFlight |-> {n \in view.inFlight : n >= v}]

\* releaseEvmNonceReservationState: the view once nonce n is given back, when
\* the nonces in others stay occupied.
Given(view, n, others) ==
  LET left == view.inFlight \ {n}
  IN  [view EXCEPT !.inFlight = left,
                   !.refreshed = @ /\ ~(others = {} /\ left = {})]

\* Leases of t that expireDueLeasesForLockedLane ends.
DueLeases(t) == {o \in Owned(t) : lease[o].state \in {"reserved", "signed"} /\ due[o]}

\* The view of t after its due leases E are expired, last being the one the
\* loop handles last.  A signed one is reconciled against the chain (answer v).
ExpiredView(t, E, last, v) ==
  LET signed == {o \in E : lease[o].state = "signed"}
      others == ActiveNonces(t, Without(record, E), E)
      left   == lane[t].inFlight \ {lease[o].nonce : o \in E}
      given  == [lane[t] EXCEPT !.inFlight = left,
                   !.refreshed = @ /\ ~(others = {} /\ left = {})]
      synced == Refreshed(given, v)
  IN  IF E = {} THEN lane[t]
      ELSE IF signed = {} THEN given
      ELSE IF last \in signed THEN synced
      ELSE [synced EXCEPT !.refreshed = ~(others = {} /\ synced.inFlight = {})]

ExpiredLeases(E) == [o \in Ops |->
  IF o \in E THEN [lease[o] EXCEPT !.state = Reduce(@, "expire")] ELSE lease[o]]

\* The order of the loop matters only for the last lease it ends.
Lasts(E) == IF E = {} THEN {null} ELSE E

-----------------------------------------------------------------------------
(* The lane lock. *)

\* withLaneLock: the shared lock is free and so is the tab's own lane queue.
MayLock(t) == lock = null /\ \A o \in Ops : job[o].tab = t => job[o].phase # "queued"

\* A handler of the tab that owns o's lease, from taking the lock to releasing it.
Handler(o) == /\ lease[o].state \notin {"none", "lost"}
              /\ MayLock(lease[o].tab)
              /\ UNCHANGED <<lock, job, recovery>>

\* Counts a step against its bound.
Upset(kind) == upsets[kind] > 0 /\ upsets' = [upsets EXCEPT ![kind] = @ - 1]

Step(o, transition) ==
  /\ lease[o].state \in LegalFrom[transition]
  /\ lease' = [lease EXCEPT ![o].state = Reduce(@, transition)]

\* An expiry that is written anew, or that nobody reads again.
Rearm(S) == due' = [o \in Ops |-> due[o] /\ o \notin S]

-----------------------------------------------------------------------------
Init ==
  /\ lease = [o \in Ops |-> NoLease]
  /\ due = [o \in Ops |-> FALSE]
  /\ record = [o \in Ops |-> "none"]
  /\ lane = [t \in Tabs |-> NewLane]
  /\ lock = null
  /\ job = [o \in Ops |-> NoJob]
  /\ recovery = [t \in Tabs |-> {}]
  /\ forgotten = {}
  /\ bytes = {}
  /\ tx = [o \in Ops |-> "none"]
  /\ foreign = {}
  /\ mined = 0
  /\ \E s \in Settings : upsets = s.upsets /\ webLocks = s.webLocks

\* shouldRefreshEvmLane: with something in flight or no usable refresh the lane
\* is refreshed; with leases outstanding it is not; otherwise the TTL decides.
MustRefresh(view) == ~view.refreshed \/ view.inFlight # {}
MayRefresh(view, active) == MustRefresh(view) \/ active = {}

\* n is the lowest nonce from the chain's on that nobody holds.
FirstFree(n, from, held) ==
  /\ n >= from /\ n \notin held
  /\ \A m \in NoncesUp : m >= from /\ m \notin held => n <= m

\* withLaneLock for the reservation of o: it takes the shared lock and its place
\* in the queue.  A late one has done so before the reset; it waits for whoever
\* was ahead of it and for nobody that came after the reset.
Enter(t, o, phase) ==
  \/ phase = "queued" /\ job[o] = NoJob /\ MayLock(t) /\ lock' = o
  \/ /\ phase = "cut" /\ job[o].phase = "late" /\ job[o].tab = t
     /\ \A p \in Ops : job[p].tab = t => job[p].phase # "cut"
     /\ UNCHANGED lock

\* reserve, up to the last read of reserveEvmNonceLeaseUnlocked.  A reservation
\* that throws (the chain cannot be read, the lane is blocked) leaves what
\* ExpireLeases and Reconcile leave.
ReserveRead(t, o, phase) ==
  /\ lease[o].state = "none" /\ Enter(t, o, phase)
  /\ LET E == DueLeases(t)
         active == ActiveNonces(t, Without(record, E), E)
     IN  \E last \in Lasts(E), v \in ChainNonces, w \in ChainNonces \cup {null}, n \in Nonces :
           LET expired == ExpiredView(t, E, last, v)
               view    == IF w = null THEN expired ELSE Refreshed(expired, w)
           IN  /\ IF w = null THEN ~MustRefresh(expired) ELSE MayRefresh(expired, active)
               /\ FirstFree(n, view.chainNonce, active \cup view.inFlight)
               /\ lane' = [lane EXCEPT ![t] = view]
               /\ lease' = ExpiredLeases(E)
               /\ record' = Pruned(Without(record, E))
               /\ Rearm(E)
               /\ job' = [job EXCEPT ![o] = [tab |-> t, nonce |-> n, phase |-> phase]]
  /\ UNCHANGED <<recovery, forgotten, chainVars>>

\* reserve, from the lease it puts in memory to the end of withLaneLock.  The
\* lock row is deleted only while it still carries this acquisition's token;
\* nothing else asks whether the lock is still held.
ReserveCommit(o) ==
  /\ job[o].phase \in {"queued", "cut"}
  /\ lease' = [lease EXCEPT ![o] = [state |-> "reserved", tab |-> job[o].tab,
                                    nonce |-> job[o].nonce]]
  /\ record' = [record EXCEPT ![o] = "reserved"]
  /\ Rearm({o})
  /\ job' = [job EXCEPT ![o] = NoJob]
  /\ lock' = IF lock = o THEN null ELSE lock
  /\ UNCHANGED <<lane, recovery, forgotten, chainVars>>

\* Mutant: the record keeps saying what it said at the reservation.
MarkSignedUnrecorded(o) ==
  /\ Handler(o) /\ Step(o, "sign")
  /\ Rearm({o})
  /\ forgotten' = forgotten \ {o}
  /\ bytes' = bytes \cup {o}
  /\ UNCHANGED <<record, lane, tx, foreign, mined, upsets, webLocks>>

\* markSigned: the expiry starts again, whether or not the old one has passed.
MarkSigned(o) ==
  /\ Handler(o) /\ Step(o, "sign")
  /\ Rearm({o})
  /\ record' = [record EXCEPT ![o] = "signed"]
  /\ forgotten' = forgotten \ {o}
  /\ bytes' = bytes \cup {o}
  /\ UNCHANGED <<lane, tx, foreign, mined, upsets, webLocks>>

\* releaseBackendReservation for a lease of t.
GiveBack(o) ==
  LET t == lease[o].tab
      rec == Without(record, {o})
  IN  /\ record' = Pruned(rec)
      /\ lane' = [lane EXCEPT ![t] =
                    Given(@, lease[o].nonce, ActiveNonces(t, rec, {o}))]
      /\ UNCHANGED forgotten

\* Mutant: the ended lease is persisted like a live one.
ReleasePersisted(o) ==
  /\ Handler(o) /\ Step(o, "release") /\ Rearm({o})
  /\ record' = [record EXCEPT ![o] = "released"]
  /\ UNCHANGED <<lane, forgotten, chainVars>>

\* release: the signing flow failed before a signature existed.
Release(o) ==
  /\ Handler(o) /\ Step(o, "release") /\ GiveBack(o) /\ Rearm({o})
  /\ UNCHANGED chainVars

\* markBroadcastRejected: the node refused the transaction.
MarkBroadcastRejected(o) ==
  /\ tx[o] = "none"
  /\ Handler(o) /\ Step(o, "reject") /\ GiveBack(o) /\ Rearm({o})
  /\ bytes' = bytes \ {o}
  /\ UNCHANGED <<tx, foreign, mined, upsets, webLocks>>

\* markBroadcastAccepted: the node took the transaction, which may since have
\* left its pool again.
MarkBroadcastAccepted(o) ==
  /\ tx[o] # "none"
  /\ Handler(o) /\ Step(o, "accept")
  /\ lane' = [lane EXCEPT ![lease[o].tab].inFlight = @ \cup {lease[o].nonce}]
  /\ record' = [record EXCEPT ![o] = "accepted"]
  /\ Rearm({o})
  /\ forgotten' = forgotten \ {o}
  /\ UNCHANGED chainVars

\* Mutant: the view takes the mined nonce for the next one.
MarkFinalizedOffByOne(o) ==
  /\ tx[o] = "mined"
  /\ Handler(o) /\ Step(o, "finalize")
  /\ LET t == lease[o].tab
         n == lease[o].nonce
         c == lane[t].chainNonce
     IN  lane' = [lane EXCEPT ![t] =
                    [chainNonce |-> IF c # null /\ c > n THEN c ELSE n,
                     refreshed |-> TRUE,
                     inFlight |-> @.inFlight \ {n}]]
  /\ record' = Without(record, {o})
  /\ Rearm({o})
  /\ UNCHANGED <<forgotten, chainVars>>

\* markFinalized: the receipt is there.  The view learns the chain's progress
\* from it and counts as refreshed.
MarkFinalized(o) ==
  /\ tx[o] = "mined"
  /\ Handler(o) /\ Step(o, "finalize")
  /\ LET t == lease[o].tab
         n == lease[o].nonce
         c == lane[t].chainNonce
     IN  lane' = [lane EXCEPT ![t] =
                    [chainNonce |-> IF c # null /\ c > n THEN c ELSE n + 1,
                     refreshed |-> TRUE,
                     inFlight |-> @.inFlight \ {n}]]
  /\ record' = Without(record, {o})
  /\ Rearm({o})
  /\ UNCHANGED <<forgotten, chainVars>>

\* markDroppedOrReplaced: a replaced nonce stays in flight in this tab, a
\* dropped one does not; both force a refresh and both delete the record.
MarkDroppedOrReplaced(o) ==
  /\ Handler(o)
  /\ \/ tx[o] = "dropped" /\ Step(o, "drop")
        /\ lane' = [lane EXCEPT ![lease[o].tab].inFlight = @ \ {lease[o].nonce},
                                ![lease[o].tab].refreshed = FALSE]
     \/ tx[o] = "replaced" /\ Step(o, "replace")
        /\ lane' = [lane EXCEPT ![lease[o].tab].inFlight = @ \cup {lease[o].nonce},
                                ![lease[o].tab].refreshed = FALSE]
  /\ record' = Without(record, {o})
  /\ Rearm({o})
  /\ UNCHANGED <<forgotten, chainVars>>

\* expireLeases, and what a reservation does before it fails.  The loop ends
\* early when the chain cannot be read.
ExpireLeases(t) ==
  /\ MayLock(t)
  /\ \E E \in SUBSET DueLeases(t) \ {{}} :
       /\ \E last \in E, v \in ChainNonces :
            lane' = [lane EXCEPT ![t] = ExpiredView(t, E, last, v)]
       /\ lease' = ExpiredLeases(E)
       /\ record' = Pruned(Without(record, E))
       /\ Rearm(E)
  /\ UNCHANGED <<lock, job, recovery, forgotten, chainVars>>

\* Its last iteration in that case: reconcileAfterSignedLeaseExpiry has
\* given the nonce back and throws before the lease changes its state.
ExpireLeaseFails(o) ==
  /\ Handler(o) /\ lease[o].state = "signed" /\ due[o]
  /\ GiveBack(o)
  /\ UNCHANGED <<lease, due, chainVars>>

\* reconcile.
Reconcile(t) ==
  /\ MayLock(t)
  /\ \E v \in ChainNonces : lane' = [lane EXCEPT ![t] = Refreshed(@, v)]
  /\ record' = Pruned(record)
  /\ UNCHANGED <<lease, due, lock, job, recovery, forgotten, chainVars>>

-----------------------------------------------------------------------------
(* Recovery of durable leases, at unlock and before every signature. *)

\* readAllForRecovery: what a record said, read without the lock.  A pass reads
\* all records at once and handles them one by one; as no record's handling
\* looks at another's, it is modelled as one such read for every record.
RecoverRead(t, o) ==
  /\ Upset("recover")
  /\ record[o] # "none"
  /\ recovery' = [recovery EXCEPT ![t] =
                    @ \cup {[op |-> o, state |-> record[o], due |-> due[o]]}]
  /\ UNCHANGED <<lease, due, record, lane, lock, job, forgotten, bytes, tx, foreign, mined,
                 webLocks>>

\* record.expiresAtMs <= now(), asked of the record as it was read: when the
\* record has changed since, its old expiry may have passed or not.
ExpiredNow(s) == IF s.due THEN {TRUE}
                 ELSE IF record[s.op] = s.state THEN {due[s.op]} ELSE BOOLEAN

\* fetchBroadcastTransactionStatus, null when it throws.
BroadcastStatus(o) ==
  {null, CASE tx[o] = "mined" -> "finalized"
           [] tx[o] = "pending" -> "pending"
           [] OTHER -> "missing"}

\* One record of recoverDurableLeases.  v is the chain's answer to the
\* reconcile, null when it throws and is caught.
RecoverOne(t, s) ==
  LET o == s.op
      n == lease[o].nonce
      accepted == s.state = "accepted"
      sync(view, v) == IF v = null THEN view ELSE Refreshed(view, v)
      read(rec, v) == IF v = null THEN rec ELSE Pruned(rec)
      forget(v) == /\ record' = read(Without(record, {o}), v)
                   /\ forgotten' = IF Live(o) THEN forgotten \cup {o} ELSE forgotten
      settled == [lane[t] EXCEPT !.inFlight = @ \ {n}]
      adopted == [lane[t] EXCEPT !.inFlight = IF accepted THEN @ \cup {n} ELSE @]
  IN  /\ MayLock(t)
      /\ recovery' = [recovery EXCEPT ![t] = @ \ {s}]
      /\ \E expired \in ExpiredNow(s), v \in ChainNonces \cup {null},
            status \in IF accepted THEN BroadcastStatus(o) ELSE {null} :
           \/ /\ expired /\ ~accepted
              /\ forget(v) /\ lane' = [lane EXCEPT ![t] = sync(@, v)]
           \/ /\ status = "finalized"
              /\ forget(v) /\ lane' = [lane EXCEPT ![t] = sync(settled, v)]
           \/ /\ accepted \/ ~expired
              /\ status # "finalized"
              /\ LET view == sync(adopted, v)
                     freed == [view EXCEPT !.inFlight = @ \ {n}]
                     gone == \/ v # null /\ v > n
                             \/ status = "missing" /\ expired
                 IN  IF gone
                       THEN /\ forget(v)
                            /\ lane' = [lane EXCEPT ![t] = freed]
                       ELSE /\ record' = read(record, v)
                            /\ lane' = [lane EXCEPT ![t] = view]
                            /\ UNCHANGED forgotten
      /\ UNCHANGED <<lease, due, lock, job, chainVars>>

-----------------------------------------------------------------------------
(* What happens around the handlers. *)

Lose(t) == [o \in Ops |->
              IF o \in Owned(t) THEN [lease[o] EXCEPT !.state = "lost"] ELSE lease[o]]

\* clearAll, when a signing failure ends the wallet state: the records of all
\* tabs go, the memory of this one, and its lane queue with the handlers in it.
\* Reservations wait in that queue (S), behind another one or any handler, only
\* under the lock row, which may expire for the one ahead; a Web Lock is taken
\* before the queue is joined and stays held.
ClearAll(t) ==
  /\ Upset("clear")
  /\ lease' = Lose(t)
  /\ lane' = [lane EXCEPT ![t] = NewLane]
  /\ record' = [o \in Ops |-> "none"]
  /\ forgotten' = forgotten \cup {o \in Ops : lease'[o].state \in LiveStates}
  /\ \E S \in SUBSET {o \in Ops : ~webLocks /\ lease[o].state = "none" /\ job[o] = NoJob} :
       job' = [o \in Ops |->
                 IF o \in S THEN [tab |-> t, nonce |-> 0, phase |-> "late"]
                 ELSE IF job[o].tab = t /\ job[o].phase = "queued"
                        THEN [job[o] EXCEPT !.phase = "cut"] ELSE job[o]]
  /\ UNCHANGED <<due, lock, recovery, bytes, tx, foreign, mined, webLocks>>

\* The tab is closed or reloaded.  A Web Lock goes with its holder, a lock row
\* stays until it expires.
Crash(t) ==
  /\ Upset("crash")
  /\ lease' = Lose(t)
  /\ lane' = [lane EXCEPT ![t] = NewLane]
  /\ job' = [o \in Ops |-> IF job[o].tab = t THEN NoJob ELSE job[o]]
  /\ recovery' = [recovery EXCEPT ![t] = {}]
  /\ lock' = IF webLocks /\ lock # null /\ job[lock].tab = t THEN null ELSE lock
  /\ bytes' = bytes \ {o \in Ops : lease[o].tab = t}
  /\ UNCHANGED <<due, record, forgotten, tx, foreign, mined, webLocks>>

\* The TTL of the lock row runs out and the next tryAcquire may take it over.
LockExpires ==
  /\ ~webLocks /\ lock # null
  /\ lock' = null
  /\ UNCHANGED <<lease, due, record, lane, job, recovery, forgotten, chainVars>>

\* The expiry of a lease or of its record passes.
TimePasses(o) ==
  /\ ~due[o] /\ (Live(o) \/ record[o] # "none")
  /\ due' = [due EXCEPT ![o] = TRUE]
  /\ UNCHANGED <<lease, record, lane, lock, job, recovery, forgotten, chainVars>>

-----------------------------------------------------------------------------
(* The application and the chain (external). *)

Broadcast(o) ==
  /\ o \in bytes /\ tx[o] = "none"
  /\ lease[o].nonce >= mined /\ lease[o].nonce \notin Taken
  /\ tx' = [tx EXCEPT ![o] = "pending"]
  /\ UNCHANGED <<coordVars, bytes, foreign, mined, upsets, webLocks>>

Mine ==
  /\ mined \in Taken
  /\ mined' = mined + 1
  /\ tx' = [o \in Ops |-> IF tx[o] = "pending" /\ lease[o].nonce = mined
                            THEN "mined" ELSE tx[o]]
  /\ foreign' = foreign \ {mined}
  /\ UNCHANGED <<coordVars, bytes, upsets, webLocks>>

LeavePool(o) ==
  /\ Upset("lost")
  /\ tx[o] = "pending"
  /\ \/ tx' = [tx EXCEPT ![o] = "dropped"] /\ UNCHANGED foreign
     \/ tx' = [tx EXCEPT ![o] = "replaced"] /\ foreign' = foreign \cup {lease[o].nonce}
  /\ UNCHANGED <<coordVars, bytes, mined, webLocks>>

Next ==
  \/ \E t \in Tabs, o \in Ops : \/ \E phase \in {"queued", "cut"} : ReserveRead(t, o, phase)
                                \/ RecoverRead(t, o)
  \/ \E t \in Tabs : \/ ExpireLeases(t)
                     \/ Reconcile(t)
                     \/ \E s \in recovery[t] : RecoverOne(t, s)
                     \/ ClearAll(t)
                     \/ Crash(t)
  \/ \E o \in Ops : \/ ReserveCommit(o)
                    \/ MarkSigned(o)
                    \/ Release(o)
                    \/ MarkBroadcastRejected(o)
                    \/ MarkBroadcastAccepted(o)
                    \/ MarkFinalized(o)
                    \/ MarkDroppedOrReplaced(o)
                    \/ ExpireLeaseFails(o)
                    \/ TimePasses(o)
                    \/ Broadcast(o)
                    \/ LeavePool(o)
  \/ LockExpires
  \/ Mine

Spec == Init /\ [][Next]_vars

-----------------------------------------------------------------------------
(* Properties. *)

\* Every value has its type; a refreshed view knows the chain's nonce, which is
\* why a reservation never falls back on nextCandidate.
TypeOK ==
  /\ lease \in [Ops -> [state : LeaseStates, tab : Tabs \cup {null}, nonce : Nonces]]
  /\ \A o \in Ops : lease[o].state # "none" => lease[o].tab \in Tabs
  /\ due \in [Ops -> BOOLEAN]
  /\ record \in [Ops -> {"none"} \cup LiveStates]
  /\ lane \in [Tabs -> [chainNonce : NoncesUp \cup {null}, refreshed : BOOLEAN,
                        inFlight : SUBSET Nonces]]
  /\ \A t \in Tabs : lane[t].refreshed => lane[t].chainNonce # null
  /\ lock \in Ops \cup {null}
  /\ job \in [Ops -> [tab : Tabs \cup {null}, nonce : Nonces, phase : Phases]]
  /\ recovery \in [Tabs -> SUBSET [op : Ops, state : LiveStates, due : BOOLEAN]]
  /\ forgotten \subseteq Ops
  /\ bytes \subseteq Ops
  /\ tx \in [Ops -> {"none", "pending", "mined", "dropped", "replaced"}]
  /\ foreign \subseteq Nonces
  /\ mined \in NoncesUp
  /\ upsets \in [Upsets -> Nat]
  /\ webLocks \in BOOLEAN

\* A lease a tab still counts on is visible to every other tab: its record says
\* what the tab's memory says, until the lease lapses or another tab's reset or
\* recovery removes the record.  (persistCoordinationLease follows every
\* transition; an accepted transaction has no lapse.)
LiveLeaseRecorded ==
  \A o \in Ops : Live(o) /\ o \notin forgotten
                   /\ (due[o] => lease[o].state = "accepted")
                   => record[o] = lease[o].state

Grants(o) == lease[o].state = "none" /\ lease'[o].state = "reserved"

\* With Web Locks no reservation hands out a nonce that another tab or another
\* operation of the same tab is still entitled to: not one of a live lease that
\* has not lapsed, and not one of an accepted transaction whose tab is gone.
\* (reserveEvmNonceLeaseUnlocked decides on what it read before an await.)
NoGrantOverLiveLease ==
  [][\A o, p \in Ops :
       webLocks /\ Grants(o) /\ p # o /\ lease[p].nonce = lease'[o].nonce =>
         /\ record[p] # "accepted"
         /\ Live(p) => p \in forgotten \/ (due[p] /\ lease[p].state # "accepted")]_vars

\* A tab that has reported a transaction final never reserves its nonce or a
\* lower one again, whatever it refreshes, skips refreshing, expires or recovers
\* in between.  (markEvmFinalizedState stands in for the refresh it suppresses.)
\* The one exception: a reservation that clearAll cut out of its tab's queue may
\* do so under the lock row, where nothing but that queue kept it apart from the
\* reservation and the report that came after the reset.
FinalNonceNotReused ==
  [][\A o, p \in Ops :
       Grants(o) /\ lease[p].state = "finalized" /\ lease[p].tab = lease'[o].tab
         => \/ lease[p].nonce < lease'[o].nonce
            \/ ~webLocks /\ job[o].phase = "cut"]_vars
=============================================================================
