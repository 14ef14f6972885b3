# A TLA+ verification of Seams Wallet

Seams Wallet signs with keys that no party holds alone. A signature passes
through a browser SDK that chooses the chain nonce, a Gateway that decides
whether the operation is authorized and paid for, and a SigningWorker that makes
the server's half from *presignatures*: secret one-use values prepared in
advance. A wallet may move to another region while all of this goes on. In each
of these places an unlucky order of events costs more than an error message: two
signatures from one presignature reveal the key share, an authorization spent
twice signs twice, a nonce given to two transactions loses one of them, a wallet
alive in two regions does all of it. This project models those places, checks
them with TLC on small instances and proves the central facts with TLAPS for all
instances.

Paths below are relative to the repository. `cloudflare` abbreviates
`crates/router-ab-cloudflare/src`, `store` abbreviates
`cloudflare/signing_worker/wallet_ecdsa_store`, `d1` abbreviates
`packages/wallet-server/src/router/cloudflare/d1` and `nonce` abbreviates
`packages/wallet/src/core/signingEngine/nonce`.

## Inventory

| component | state it keeps | operations | what is hard | what makes it correct |
|---|---|---|---|---|
| Presignature pool (`crates/router-ab-ecdsa-pool`, `cloudflare/ecdsa_pool_lifecycle.rs`) | one record per presignature: state, revision, binding, dates | nine commands, compare-and-swap by revision | commands are retried, delayed and dated by their callers | material is handed out once, in time, to the request it is bound to |
| Wallet ECDSA store (`store.rs`) | pool rows, effects, activations, linked reservations, execution authority | register, publish, prepare, burn, claim, commit, linked reserve/activate/revoke | finalize is three calls; a worker may die between them; retries name another authorization or generation | one execution per operation, authorization and presignature; a revocation is final |
| ECDSA relocation (`store/relocation.rs`, `sealed_snapshot.rs`, `import.rs`, `snapshot*`, `cleanup.rs`) | fence, sealed pages, staged chunks, activation | freeze, export, prepare, import, verify, activate, cleanup | every phase takes many transactions; chunks are lost, repeated, reordered; source and destination are both alive | one generation executes; nothing executed is forgotten; a source never reopens; a drain ends |
| Linked presign sessions (`store/linked_presign_*.rs`) | session rows, settlement receipts | register, list, settle | the sessions live in other objects | the source waits for each of them, and no longer |
| Authorization and quota (`d1/authorization`), signing routes of the Gateway (`packages/wallet-server/src/router/domains/signingOperations`) | wallet sessions with quotas, step-up evidence, authorized operations, signing credit, completion rows | prepare, step up, finalize, complete, replay, retire | concurrent operations spend one budget; the claim, the call to the Router and the completion are separate, and any of them may be the last thing a request does | each claim debits once; answers agree; a delivered signature is counted |
| Authorization history of a moving wallet (`d1/wallet/d1WalletAuthorization*.ts`, `d1WalletRelocationWriteBlock.ts`) | per location: generation, history, fences, write blocks, snapshot, import, receipts, cleanup | pause, measure, release, freeze, seal, reserve, import, activate, clean up | commands of several moves arrive late and again; cleanup and return meet | one home; the history goes with the wallet; no generation is revived; a move ends |
| Nonce coordinator (`nonce`) | leases of chain nonces, in each tab's memory and as IndexedDB records | reserve, sign, broadcast, finalize, drop, replace, release, expire, reconcile, recover | several tabs, a lock row with a time limit, crashes, stale snapshots, chain answers out of order | no nonce is granted to two transactions |
| Email OTP (`d1/emailOtp`) | challenges, auth states, registration receipts, grants | issue, replace, verify, count attempts, lock out, consume | five to eight statements per request with an await between each; retries after the challenge is gone | a mailed code is used for one thing; a confirmed start can be retried |
| Wallet directory (`d1WalletExecutionAuthority.ts`) | active generation per wallet | admit, flip | read by callers long before it is used | monotone generations |
| Router relocation (`cloudflare/router_wallet_relocation.rs`, `router_wallet_transfer.rs`) | Router's copy of a wallet and its fence | as the store's | as the store's | the two halves move together |
| Ed25519 store and relocation (`cloudflare/signing_worker/ed25519_*.rs`) | lanes, nonces, snapshots | prepare, finalize, fence, settle, snapshot | as the store's | a nonce is used once |
| Yao pair lifecycle (`crates/router-ab-core/src/protocol/ed25519_yao_pair_lifecycle.rs`) | per-pair protocol stage | open, advance, abort, expire | two roles, crash of either | no output without both, no reuse |
| Device linking, registration | D1 rows of ceremonies | start, verify, consume | retries | a ceremony ends once |
| Tenant roots | coordinator stages | create, refresh, restore | crash between providers | one current root |
| Cryptographic crates, recovery CLI, VoiceID, user interface | none shared | | | outside a model checker's reach |

How they interact: the SDK reserves a nonce and asks the Gateway to prepare and
finalize an operation. The Gateway claims it in its D1 database, asks the
directory for the wallet's generation and forwards through the Router to the
SigningWorker, which calls the wallet's durable object of that generation
(`cloudflare/wallet_object.rs`), in which every handler is one storage
transaction. Console, outside the repository, drives a relocation: the freeze of
one durable object and one Gateway history, the transfer of their records, and
the activation of the next; then it changes the placement. Requests that were
routed before the change still arrive at the old home afterwards.

Each module below takes its neighbours as external: the Gateway model has a
Router that may do anything the routes tell apart, the history model a Console
that may send any command of its moves late and again.

## Modules

| module | models |
|---|---|
| `OneUseMaterial` | abstract: material is held, bound to one owner, then used once or gone |
| `EcdsaPoolLifecycle` | the pure decisions on one pool record: guards, deadlines, resulting record |
| `PresignPool` | the pool as a state machine, one action per command; refines `OneUseMaterial` |
| `WalletEcdsaStore` | the wallet's objects, one per generation, and the workers that finalize at them |
| `WalletRelocation` | extends the store by freeze, transfer, import, activation and cleanup; refines `OneUseMaterial` across generations |
| `SigningOperations` | the Gateway's claim, execution and completion of signing operations |
| `WalletHomes` | the Gateway databases of all locations while a wallet moves and returns |
| `EvmNonceLane` | one EVM nonce lane, the tabs that share it, their records and locks, and the chain |
| `EmailOtpChallenges` | the Email OTP challenges of a wallet and the requests that verify and use them |
| `PresignPoolProofs`, `WalletOwnershipProofs`, `WalletExecutionProofs`, `SigningOperationsProofs`, `WalletHomesProofs`, `WalletHistoryProofs`, `EvmNonceLaneProofs`, `EmailOtpProofs` | proofs |
| `MC*` | small instances for TLC |

`PresignPool` keeps every date and revision of a record. `WalletEcdsaStore` keeps
of a record only the status and owner that `OneUseMaterial` knows, which is what
`PresignPool` is proved to implement; where the code compares a date, the store
model may burn, refuse or accept.

### Correspondence of state

| variable | code |
|---|---|
| `PresignPool` | |
| `pool` | the encrypted rows of `wallet_ecdsa_pool`; `"absent"` is no row |
| `taken`, `handed` | history: each entry is one time the secret left storage (`Consumed`, `Claimed`) |
| `WalletEcdsaStore`, `WalletRelocation` | |
| `rows[g]` | all tables of generation g's object, one key per record, by the families of `store/snapshot.rs` |
| `authority[g]` | `ExecutionAuthority` (`store/execution.rs`) |
| `fence[g]` | `Fence` (`store/relocation.rs`) with its cursor: `passed` are the records behind the cursor, `next` the next segment |
| `imported[g]` | the import activation row (`store/import.rs`) |
| `settled[g]` | the settlement receipts; an object is fenced by one move for ever, so one set per object |
| `worker[w]` | a finalize request between its calls (`ecdsa_signing_fetch.rs`) |
| `sealed`, `staged`, `receipt`, `chunks` | snapshot pages, import chunks, the source's digest, messages in flight |
| `revoked` | history of linked revocations, across generations |
| `SigningOperations` | |
| `session` | the Wallet Session row and its quota row |
| `evidence[o]`, `rec[o]` | the step-up evidence set and the `authorized_operations` row of an operation |
| `credit`, `credited` | the host's credit policy and grant, and `wallet_signing_credit_claims` |
| `rows[o]` | the `wallet_signature_completions` row |
| `req[r]` | an HTTP request between its D1 statements and its call to the Router; `flying`: the call may still arrive |
| `worker[o]` | external: what the SigningWorker did with the operation |
| `WalletHomes` | |
| `exec[l]`, `ops[l]`, `session[l]`, `ceremony[l]` | `wallet_execution_generations`, `authorized_operations`, an unretired Wallet Session, an unsettled row of `wallet_ceremony_activity` |
| `block`, `fence`, `retired` | `wallet_relocation_write_blocks`, `_authorization_fences`, `_session_fences` |
| `snapshot`, `intake`, `imported`, `receipts`, `cleanup` | the `wallet_relocation_authorization_*` tables of those names |
| `sweep`, `measured`, `prepared` | what a request in progress has read: rows selected for deletion, the capacity counted, the destination found reserved |
| `plan`, `manifest`, `home` | external: Console's records of a move and of the wallet's placement |
| `claimedAt` | history: the generations that claimed an operation |
| `EvmNonceLane` | |
| `lease`, `lane` | each tab's `NonceCoordinator.leases` and `EvmNonceLaneState` |
| `record` | the coordination records in IndexedDB |
| `due[o]` | the expiry last written for the lease has passed |
| `lock`, `webLocks` | the reservation that holds the shared lane lock, and which of the two locks the browser offers |
| `job[o]`, `recovery` | what a reservation and a recovery pass have read and not yet applied; `phase` is the reservation's place in `laneLocks`: at the head (`queued`), or there (`cut`) or behind it (`late`) when `clearAll` emptied the map |
| `forgotten` | history: live leases whose record another tab removed |
| `bytes`, `tx`, `foreign`, `mined` | external: signed transactions held by applications, and the chain |
| `EmailOtpChallenges` | |
| `row[c]`, `auth`, `receipt[c]`, `grant[r]` | `email_otp_challenges`, `email_otp_auth_states`, the registration receipt of a challenge, the grant a request stored |
| `issue[c]`, `req[r]` | the request that issues a challenge, and those that verify and use it, between their statements |

In the wallet object, a handler that returns an error rolls its transaction back
and is no step. In the Gateway and the SDK, a step is what happens between two
awaits: a D1 statement or batch, an IndexedDB transaction, or a handler that
runs under the lane lock: the other handlers of its tab queue behind it, and another
tab sees only the one record it writes. A
retry that is answered from storage is a step that changes nothing. A request
whose reply is lost or whose isolate dies takes no further step.

### Abstractions

* Keys, digests, ciphertext and JSON: a record is identified by what its digest
  commits to. A snapshot digest is the table it was computed from.
* Batches of the store: the code walks each table in key order, sixteen records
  a call; a batch in the model is *any* set of `Batch` remaining records, which
  includes the code's.
* The store's cleanup deletes staged chunks and sealed pages in batches; nothing
  reads them any more, so each of the two goes at once.
* Dates in the wallet model: the restore of an effect also compares
  `committed_at_ms` with `claimed_at_ms`, and the burn of a live record at
  freeze is refused when the move is dated before it. Neither is modelled. The
  first cannot fail for a row the store wrote with growing dates; the second is
  listed as an open hazard.
* Time in the other models is what it makes true: a session, lease, lock,
  challenge, grant or receipt has lapsed or has not, and may lapse between any
  two steps.
* `SigningOperations`: the Router's replies are the classes the routes tell apart
  (accepted, refused before a side effect, anything else), whatever the
  SigningWorker really did.
* `WalletHomes`: the history is the set of operations it records; chunks and
  their digests are one import. Activation, like any batch with its triggers,
  is one step.
* `EmailOtpChallenges`: a code is right or wrong; which active challenge is the
  oldest, and whether a shared rate limit has a unit left, are choices. The
  reads and the batch of `consumeRegistrationWithReceipt` are one step.
* External, apart from the variables above: `Routed` (which generations callers
  name: the first, or one that was activated) and `HasActivatedReceipt` (the
  coordinator sends cleanup the destination's receipt).

## Runs

| run | instance | shows |
|---|---|---|
| `pool` | 1 presignature, 2 requests, 6 instants, lease 2 | all commands at all instants and revisions: `OneUse`, `UsedInTime`, `RevisionNamesState`, `TerminalAbsorbing`, `ReservationFixed`, refinement of `OneUseMaterial` |
| `move` | 2 generations, 2 competing moves, 3 requests (one operation prepared twice; another that names the same presignature), batches of 2, 2 chunks | `SingleExecution`, `ExecutionsRemembered`, `FrozenFaithful`, refinement of `OneUseMaterial` across generations |
| `linked` | 2 generations, an owner and a linked device that share an authorization | `RevocationFinal`, `SingleExecution`, `FrozenFaithful`, type correctness |
| `chain` | 3 generations, so that one object is destination and then source; one operation prepared twice, batches of 4 | `OneWriter`, `SourceStaysClosed`, `SingleExecution` |
| `drain` | 1 generation, 2 workers, a linked session, batches of 1, fairness | `DrainEnds`: a drain ends in a sealed snapshot unless a worker died after its claim |
| `in_progress` | as `drain` | the first finding below |
| `signing` | 2 operations, 3 requests, 1 use, 1 credit unit, Ed25519 routes | `QuotaSpentOncePerClaim`, `CreditUnitsAreClaims`, `AnswersAgree`, `DeliveredSignatureCounted` |
| `signing_evm` | as `signing`, ECDSA routes | the second finding below |
| `homes` | 3 locations, 3 moves, 2 operations | `OneHome`, `HistoryKept`, `HistoryFollowsWallet`, `SealedWithinMeasure`, `SessionsFollowWallet`, `GenerationsAdvance` |
| `homes_finish` | 2 locations, 3 moves, 1 operation, fairness | `MoveFinishes`, `RejectedMoveLetsGo` |
| `nonce` | 2 tabs, 2 operations, nonces 0 and 1, four settings | `LiveLeaseRecorded`, `NoGrantOverLiveLease`, `FinalNonceNotReused` |
| `email_otp` | 2 login challenges or 1 of a registration, 3 requests, 2 starts, 2 attempts, 1 active challenge | `ChallengeUsedOnce`, `RetryOfConfirmedStart` |

Bounds. Rows of different presignatures never meet in one command, so one
presignature and two requests exercise the pool; six instants with a lease of two
order a command before, at and after each of the three deadlines. Two generations
suffice for a copy, three for a copy of a copy and for an activation retried at an
object that became a source. Batches smaller than the number of records make every
phase take several transactions. One worker suffices for interleavings with
relocation, since a dead worker's request can be taken up again; `drain` has two
that race. The two moves of `move` are interchangeable, hence the symmetry.

One use and one credit unit make two operations compete for the last of each;
three requests are two that race and one that replays. Three moves between three
locations contain a chain, a return, and a return to a location whose cleanup
still runs; two operations tell a partial copy from a whole one. In `homes_finish`
three moves between two locations go out, back and out again, so that a delayed
import of the first can meet the third. The settings of
`nonce` are: Web Locks with a tab crash and a recovery that applies a stale
record; the expiring lock row with a tab crash; Web Locks with a reset of the wallet
state (`clearAll`); the lock row with a reset and a transaction that leaves the
pool. Each of these happens at most once in a behaviour, which the setting's
`upsets` bounds; together they would not finish. One active challenge and two login challenges make every issue a
replacement; two attempts give a wrong code that locks out and one that does not.
Requests, operations, tabs, moves and starts that are interchangeable are declared
symmetric in runs without liveness.

Deadlock is checked in the runs of the pool and the wallet object. In the others a
behaviour ends when every request has been answered, every lease has ended or every
planned move is over.

Fairness. In `drain`: the coordinator repeats its freeze call until it reports
Frozen; the linked session objects repeat their settlement report until it is
accepted; a finalize request ends by committing or by failing. A worker may always
die, and the move's date is assumed not to precede the records it invalidates. In
`homes_finish`: Console repeats the commands of a move it admitted until it has the
receipt, carries out the cutover, and repeats the release of a move it rejected. No
fairness is assumed of checks, of planning and admission, or of the wallet's own work:
a move is admitted only after that work has been settled.

### Findings

*A claimed effect without an attempt* (`in_progress`). `claim_and_consume_effect`
is documented (`store.rs:572-574`): "A retry of a claimed effect never consumes
another presignature: it returns the stored terminal response, or `InProgress`
while the first attempt runs." The first half is `SingleExecution`, which holds.
The second is `InProgressMeansRunning`, which does not: a worker that dies between
claim and commit leaves a row without a response that nothing completes or clears.
Retries are answered `InProgress` for ever, and a freeze of the wallet stays
`Draining` for ever (`store/relocation.rs:250`), although
`docs/refactor-150-regional-wallet-home-lanes.md:469` has the move "drain or
resolve admitted work". `DrainEnds` states precisely this exception.

*A delivered signature that is not counted* (`signing_evm`).
`docs/intended-behaviours.md:1769` has every successful signature write one
`wallet_signature_completions` row "in the statement that completes its authorized
operation". The Ed25519 routes answer with what that statement left in the row; the
ECDSA routes (`ecdsaSigningResponse.ts:42`) answer with the live reply of the
Router. When two finalizes of one operation race and the loser's failure is recorded
first, the other still delivers its signature, no row counts it, and a retry is
answered with the failure. With `AnswersFromRecord` the property holds (`signing`).

### Observed along the way

These follow from the models. Only the last differs from what the repository says.

* Under the expiring lock row a tab that outlives its lock grants a nonce a second
  tab has just granted (`repositories.ts:8281`). `NoGrantOverLiveLease` is therefore
  stated for browsers with Web Locks.
* A recovery pass reads the records of all tabs outside the lock. Applied late, its
  snapshot can delete the record of a transaction that still waits, or make a lane
  skip a nonce. The history variable `forgotten` marks the leases concerned.
* A claimed operation whose session has ended can no longer be settled by a retry:
  the retry is refused before it reaches the completion.
* A move that Console rejects after its destination was reserved leaves the
  reservation: no other move of that wallet can reserve that destination.
* `clearAll` empties the tab's lane queue while a reservation at its head is between
  its read and its write (`NonceCoordinator.ts:1462`). Web Locks still keep the next
  one out. Under the lock row, once it has expired, both run: the second may take the
  same nonce, be signed, mined and reported final, before the first commits that nonce
  again. `FinalNonceNotReused` states this exception (`phase = "cut"`); with the
  exception left out TLC finds the trace in the fourth setting of `nonce`.
* An import request delayed past a return inserts its old intake row again (migration
  0057 ties no intake to its import), and the next move to that location finds it and
  never gets its snapshot accepted. `MoveFinishes` states this exception
  (`HeldByOldIntake`); with it left out TLC finds the trace in `homes_finish`, where
  the third move meets the row of the first.
* A verified challenge that is consumed in its caller's batch is compared with the
  time of verification, so it may be consumed after it expired. The comment of
  `prepareConsumeInBatchStatements` (`d1EmailOtpChallengeStore.ts:234-236`) says that
  the batch aborts for a challenge "that expired meanwhile"; it does so only if the
  challenge had expired when it was verified. No property here depends on it.

## Proofs

`PresignPoolProofs`, for every set of presignatures and requests, every lease and
every set of positive timestamps (`RequestAssumption`, `LeaseAssumption`,
`TimesAssumption`):

* `PoolInvariant`: `PoolInv` is inductive. `OneUse` alone is not: one must know
  that a row's revision counts its transitions, that only a reserved row has a
  binding without being terminal, and that a lease lies within the deadlines it was
  computed from (`RecordShape`), and that the history agrees with the row
  (`HistoryShape`).
* `TypeCorrect`, `MaterialUsedOnce`, `MaterialUsedInTime`, `RevisionTellsState` are
  its consequences; `TerminalNeverChanges` and `BindingNeverChanges` are action
  properties proved from it.
* `PoolImplementsOneUse`: initial states map to initial states and every command
  to a step of `OneUseMaterial` or a stutter.
* The nine commands change a row in five ways only (lemma `StepKinds`); each fact is
  proved per way, not per command.

`WalletOwnershipProofs`, for every number of generations, moves, workers, records
and every batch size (`StoreAssumption`):

* `OwnershipInvariant`: `OwnershipInv` is inductive. A generation past its first
  chunk, or activated, has *every* earlier generation closed as a source, and
  every chunk in flight comes from a closed generation. With "the one before" in
  place of "every earlier one" the proof would need induction over generations.
* `SingleWriter` (`OneWriter`) and `SourceNeverReopens` (`SourceStaysClosed`).
* `StepSummary` reduces all actions of the store and of a relocation to what they may
  do to fences, activations, authorities and chunks.

`WalletExecutionProofs`, for every number of generations, moves and workers, every
batch size, segmentation and delay (`StoreAssumption`, `OperationAssumption`,
`RelocationAssumption`, and `RowAssumption`: an absent row is not a row, and a wallet
has finitely many records, without which a batch that is not full need not be the
last):

* `ExecutionInductive`: `ExecutionInv` is inductive. `SingleExecution` alone is not:
  a second object could execute what the first has executed unless it knows of it.
  So the invariant follows the wallet. The newest generation that was activated owns
  it and everything older is closed behind it (`Owners`); the owner has a row of every
  execution and every revocation of the past (`Knowledge`). A new owner starts with
  all the old one had, because a page is written only from records that no longer
  change (`Source`: pool rows behind the cursor are terminal, and no effect is pending
  once sealing starts) and because every chunk that can still be imported is of the
  source as it is frozen now and the last batch of a restore completes it
  (`Destination`).
* `TypeCorrect`, `SpendsOnce` (`SingleExecution`), `RemembersExecutions`
  (`ExecutionsRemembered`) and `SnapshotFaithful` (`FrozenFaithful`) are consequences;
  `RevocationRespected` (`RevocationFinal`) is an action property.
* `WalletImplementsOneUse` (`WalletIsOneUse`): the status and owner of a presignature at
  the owning object is a refinement mapping to `OneUseMaterial`. The transactions at the
  owner, the burning of live records by a freeze among them, are its steps; sealing,
  chunks, restores and cleanups are stutters, and the activation of a destination is one
  too because its table equals the source's.
* Store transactions are reduced to a few shapes first (lemmas `WorkStep`,
  `InsertStep`, `QuietKeeps`), so that each is proved once.

`SigningOperationsProofs`, for finite sets of operations and requests, every quota
and every credit capacity:

* `SigningTypes`, and `LedgerBalances` (`QuotaSpentOncePerClaim`), which counts: a
  claim adds one element to the operations the session claimed in the step that
  takes one use. `CreditBalances` (`CreditUnitsAreClaims`) counts credit units alike.
* `TerminalAnswersAgree` (`AnswersAgree`) for the routes that answer from the record
  (`AnswersFromRecord`), from the fact that a completed row is never written again;
  `SignaturesCounted` (`DeliveredSignatureCounted`), since a recorded success has its
  completion row.

`WalletHomesProofs`, for every set of locations, moves and operations:

* `HomeInv` is inductive. Whatever executes is Console's home, with its generation
  (`ExecutesAtHome`). A pause belongs to the generation that executes and one move at a
  time holds it (`OnePause`), so one move is admitted and it starts at the home
  (`AdmittedFromHome`, `OneAdmitted`); a frozen source is over for good
  (`FrozenIsOver`), and a manifest exists only after that (`ManifestFrozen`). So when
  the home changes nothing executes, and the one activation then possible is the new
  home's (`PendingIsHome`).
* `WalletHasOneHome` (`OneHome`) and `GenerationsOnlyAdvance` (`GenerationsAdvance`).

`WalletHistoryProofs`, from `HomeInv` and for the same constants:

* `HistoryInductive`: `HistoryInv` is inductive together with `HomeInv`. The history is
  complete where the wallet executes (`HistoryFollowsWallet`) and, while it executes
  nowhere, at the retired source of the one move that carries it (`Carrier`,
  `SomeHolder`). What that move sealed, published and restored is then the whole of it
  (`SnapshotRow`, `ManifestRow`, `ImportRow`). A fence belongs to a stay (`FenceRow`,
  `RetiredRow`), one move ends a stay (`OneFreeze`), and a cleanup under way is of the
  move that ended the last one (`CleanupRow`); so a batch that deletes late deletes
  nothing that the wallet still needs, and a location is reserved again only after it.
* `HomesTypeCorrect`, `SessionsStayWithWallet` (`SessionsFollowWallet`),
  `SealsWhatItMeasured` (`SealedWithinMeasure`), `HistoryFollows`
  (`HistoryFollowsWallet`) and `HistoryIsNeverLost` (`HistoryKept`) follow.

`EmailOtpProofs`, for every set of challenges, requests and starts and every limit:

* `OtpInvariant`: `OtpInv` is inductive. Besides types and the shape of a request at
  each step (`RequestShape`), it says that a request past its consumption is the only
  one of its challenge (`Winners`), that a start is told ok only from its receipt
  (`Receipts`), that a used grant has one user (`Grants`), and that a challenge that
  has not been issued has no traces (`Fresh`).
* `OtpTypes`, `OneUsePerChallenge` (`ChallengeUsedOnce`) and the action property
  `ConfirmedStartRetries` (`RetryOfConfirmedStart`).

`EvmNonceLaneProofs`, for every set of tabs and operations, every bound on nonces and
every setting of browsers and upsets, all of them together included:

* `NonceInvariant`: `NonceInv` is inductive. A reservation between its read and its
  write belongs to a tab, and its operation has no lease yet (`JobsOpen`); under Web Locks it holds the
  lock (`LockHeld`), so that nobody persists a lease meanwhile and its nonce stays
  nobody else's (`JobFree`). A view shows a nonce above everything its tab reported
  final (`FinalBelow`), because the
  chain answers at least what it has mined (`ChainAnswers`, from the library's theorem
  that the naturals are well-founded). So does a computed reservation (`JobAbove`) as
  long as something keeps its tab's reports out: its place in the tab's queue or the
  Web Lock (`Serialised`). A reservation that `clearAll` cut out of the queue under the
  lock row has neither, and it is the exception of `FinalNonceNotReused`.
* `NonceTypes`, `LeasesAreRecorded` (`LiveLeaseRecorded`), and the action properties
  `GrantsAreFree` (`NoGrantOverLiveLease`) and `FinalNoncesStayUsed`
  (`FinalNonceNotReused`).
* `LockedKeeps`, `ViewKeeps` and `LossKeeps` state what a handler under the lock, a
  step that changes no lease, and a tab that loses its memory may do; the actions are
  reduced to them.

Except for `PoolInv`, which quantifies over all timestamps, each inductive invariant
was model-checked before it was
proved.

Every invariant, action property and refinement that a passing run checks is also a
theorem. Model-checked only: the liveness properties `DrainEnds`, `MoveFinishes` and
`RejectedMoveLetsGo`, since fairness is out of the prover's reach.

## Not modelled, and the plan

Not modelled at all: cryptography, encodings, HTTP and timing, the paged listing of
linked sessions (it only reads), the recovery CLI, VoiceID and the user interface.

Left out of the modelled parts:

* Nonce lane: handlers other than a reservation that wait in a queue `clearAll`
  empties: those of a lease find it gone, and a reconcile, an expiry or a recovery that
  then runs beside a later reservation changes no final nonce; a `clearAll` in the
  middle of such a handler, which leaves at most the one record the handler still
  writes; the NEAR lane; `nextCandidate`, which only hints; malformed records and a
  store that fails, which the code swallows and goes on without records;
  `clearForWallet`, which has no caller.
* Signing: the authorization step before admission and its policy adapters, material
  scopes, hosted child sessions, a second evidence set for one operation, the
  delivery of completion rows to the host, pool fill, export and session activation.
* Homes: the contents of history rows and their chunking, the relays that only
  validate and forward.
* Email OTP: relocation challenges, which are issued under an id derived from their
  binding, inserted once, and neither trimmed nor deleted when delivery fails; unlock
  challenges, rows of their own that a signature answers; the single-use consumption of
  `verifyRegistration` (`d1EmailOtpChallengeVerifier.ts:387-391`, `625-629`), one
  `DELETE ... RETURNING` that leaves no receipt; the reuse of an active challenge, which
  only reads; recovery bootstrap; a wallet without
  enrollment and binding mismatches, which are refused before any write; delivery.

Next, in this order:

1. `WalletDirectory` and the Router's half of a move, composed with
   `WalletRelocation` and `WalletHomes`: `Routed` and `HasActivatedReceipt` become
   states of modelled components, and the directory never names a generation that
   cannot execute.
2. Dates of pool rows in `WalletRelocation`, to decide the open hazard of a move dated
   before a live record.
3. The Ed25519 store's fence, settlement and snapshot; the linked presign session
   object; the Yao pair.
4. Device linking and registration; tenant roots.
5. Proofs: each new module with its inductive invariant; for the composition of
   directory, relocation and homes, that a routed generation is the one that executes.
