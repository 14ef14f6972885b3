-------------------------- MODULE SigningOperations --------------------------
(***************************************************************************)
(* The Gateway's side of a signature: one authorized operation, claimed,   *)
(* executed and completed by requests that race, are retried and die.      *)
(*                                                                         *)
(* A prepare request claims the operation in one D1 statement whose        *)
(* triggers spend one use of the Wallet Session's quota and one unit of    *)
(* the host's signing credit.  A claimed operation is sent to the MPC      *)
(* Router; the final answer is written once, by an UPDATE that finds the   *)
(* row still claimed, and later requests replay it.  A step-up operation   *)
(* is claimed by verified evidence instead of the session and spends no    *)
(* quota.                                                                  *)
(*                                                                         *)
(* The Router and the SigningWorker behind it are external: what they do   *)
(* with an operation is one of the replies the Gateway tells apart, and    *)
(* a request that timed out may still reach them.                          *)
(***************************************************************************)
EXTENDS Naturals, FiniteSets

CONSTANTS
    Ops,              \* operation fingerprints
    Requests,         \* requests the clients send; each is one HTTP call
    Uses,             \* the quota the Wallet Session was issued with
    Capacity,         \* the signing-credit units the host allocated
    AnswersFromRecord \* TRUE: the Ed25519 routes; FALSE: the ECDSA routes

ASSUME FiniteAssumption == IsFiniteSet(Ops) /\ IsFiniteSet(Requests)
ASSUME BoundsAssumption == Uses \in Nat /\ Capacity \in Nat
ASSUME RouteAssumption == AnswersFromRecord \in BOOLEAN

VARIABLES
    session,   \* the Wallet Session row and its quota row
    evidence,  \* per operation, its verified step-up evidence set
    rec,       \* per operation, its authorized_operations row
    credit,    \* the host's signing-credit policy and grant
    credited,  \* operations with a row in wallet_signing_credit_claims
    rows,      \* per operation, its wallet_signature_completions row
    req,       \* the requests
    worker     \* external: per operation, what the SigningWorker did

vars == <<session, evidence, rec, credit, credited, rows, req, worker>>

Sources == {"grant", "step_up"}
Phases == {"authorize", "prepare", "finalize"}
Results == {"succeeded", "failed_before_side_effect", "failed_after_side_effect"}

NoOperation == [state |-> "none", source |-> "grant", result |-> "pending"]

NoRequest == [pc |-> "idle", op |-> "-", phase |-> "authorize",
              source |-> "grant", reply |-> "-", flying |-> FALSE]

\* A request ends with the signature, with the recorded failure, or without
\* a terminal answer of its operation.
Answers == {"signature", "failure", "refused", "in_progress", "prepared", "authorized"}

Init ==
    /\ session = [retired |-> FALSE, expired |-> FALSE, remaining |-> Uses]
    /\ evidence = [o \in Ops |-> "none"]
    /\ rec = [o \in Ops |-> NoOperation]
    /\ \E p \in {"included", "credit"} :
         credit = [policy |-> p, sealed |-> FALSE, admitted |-> 0]
    /\ credited = {}
    /\ rows = [o \in Ops |-> "none"]
    /\ req = [r \in Requests |-> NoRequest]
    /\ worker = [o \in Ops |-> "idle"]

-----------------------------------------------------------------------------
(* The admission of an operation                                           *)

SessionLive == ~session.retired /\ ~session.expired

\* authorization_source_active of the admission read: what the row's own
\* source looks like now.
SourceActive(o) ==
    IF rec[o].source = "grant" THEN SessionLive ELSE evidence[o] = "live"

\* Mutant: the last unit is given out twice.
CreditAdmitsOneMore ==
    \/ credit.policy = "included"
    \/ credit.policy = "credit" /\ ~credit.sealed /\ credit.admitted <= Capacity

\* wallet_signing_credit_admission: a policy other than "included" needs an
\* open grant with a unit left.
CreditAdmits ==
    \/ credit.policy = "included"
    \/ credit.policy = "credit" /\ ~credit.sealed /\ credit.admitted < Capacity

\* Mutant: the quota row's own condition is dropped.
ClaimAdmittedAnyQuota(o, source) ==
    /\ CreditAdmits
    /\ IF source = "grant" THEN SessionLive ELSE evidence[o] = "live"

\* The claim triggers: a live session with a use left, or live evidence.
ClaimAdmitted(o, source) ==
    /\ CreditAdmits
    /\ IF source = "grant"
         THEN SessionLive /\ session.remaining > 0
         ELSE evidence[o] = "live"

\* Mutant: a step-up claim debits the session too.
ClaimAlwaysDebits(o, source) ==
    /\ rec' = [rec EXCEPT ![o] = [state |-> "claimed", source |-> source,
                                  result |-> "pending"]]
    /\ session' = [session EXCEPT !.remaining = IF @ = 0 THEN 0 ELSE @ - 1]
    /\ IF credit.policy = "credit"
         THEN /\ credited' = credited \cup {o}
              /\ credit' = [credit EXCEPT !.admitted = @ + 1]
         ELSE UNCHANGED <<credited, credit>>

\* The INSERT of a claimed row and everything its triggers write with it.
Claim(o, source) ==
    /\ rec' = [rec EXCEPT ![o] = [state |-> "claimed", source |-> source,
                                  result |-> "pending"]]
    /\ session' = IF source = "grant"
                    THEN [session EXCEPT !.remaining = @ - 1]
                    ELSE session
    /\ IF credit.policy = "credit"
         THEN /\ credited' = credited \cup {o}
              /\ credit' = [credit EXCEPT !.admitted = @ + 1]
         ELSE UNCHANGED <<credited, credit>>

\* How a row that already exists answers another admission.
ExistingAnswer(o, source) ==
    CASE rec[o].source # source -> "refused"
      [] rec[o].state = "completed" ->
           IF source = "grant" /\ ~SourceActive(o) THEN "refused" ELSE "replayed"
      [] OTHER -> IF SourceActive(o) THEN "operation_in_progress" ELSE "refused"

\* The response a completed row replays.
Replay(o) == IF rec[o].result = "succeeded" THEN "signature" ELSE "failure"

Answered(r, o, phase, source, answer) ==
    req' = [req EXCEPT ![r] = [pc |-> "answered", op |-> o, phase |-> phase,
                               source |-> source, reply |-> answer, flying |-> FALSE]]

\* A request that works on its operation goes on.
Goes(r, pc, reply, flying) ==
    req' = [req EXCEPT ![r] = [pc |-> pc, op |-> req[r].op, phase |-> req[r].phase,
                               source |-> req[r].source, reply |-> reply, flying |-> flying]]

\* The request goes on to the Router with the admitted operation.
Executes(r, o, phase, source) ==
    req' = [req EXCEPT ![r] = [pc |-> "executing", op |-> o, phase |-> phase,
                               source |-> source, reply |-> "-", flying |-> TRUE]]

\* A claimed operation of the session in progress is not prepared again; one
\* of a step-up is.
ExecutesInProgress(phase, source) == phase = "finalize" \/ source = "step_up"

\* What a request does with a row that exists.
AnswersExisting(r, o, phase, source) ==
    /\ UNCHANGED <<session, evidence, rec, credit, credited, rows, worker>>
    /\ LET answer == ExistingAnswer(o, source) IN
       CASE answer = "refused" -> Answered(r, o, phase, source, "refused")
         [] answer = "replayed" -> Answered(r, o, phase, source, Replay(o))
         [] OTHER -> IF ExecutesInProgress(phase, source)
                       THEN Executes(r, o, phase, source)
                       ELSE Answered(r, o, phase, source, "in_progress")

-----------------------------------------------------------------------------
(* The requests                                                            *)

\* prepare with the session's operation credential.
PrepareWithSession(r, o) ==
    /\ req[r].pc = "idle"
    /\ \/ /\ rec[o].state = "none"
          /\ ClaimAdmitted(o, "grant")
          /\ Claim(o, "grant")
          /\ Executes(r, o, "prepare", "grant")
          /\ UNCHANGED <<evidence, rows, worker>>
       \/ /\ rec[o].state = "none"
          /\ ~ClaimAdmitted(o, "grant")
          /\ Answered(r, o, "prepare", "grant", "refused")
          /\ UNCHANGED <<session, evidence, rec, credit, credited, rows, worker>>
       \/ /\ rec[o].state # "none"
          /\ AnswersExisting(r, o, "prepare", "grant")

\* The step-up route: the verified factor's evidence set is stored first,
\* with an INSERT OR IGNORE ...
VerifyStepUp(r, o) ==
    /\ req[r].pc = "idle"
    /\ evidence' = [evidence EXCEPT ![o] = IF @ = "none" THEN "live" ELSE @]
    /\ req' = [req EXCEPT ![r] = [pc |-> "verified", op |-> o, phase |-> "authorize",
                                  source |-> "step_up", reply |-> "-", flying |-> FALSE]]
    /\ UNCHANGED <<session, rec, credit, credited, rows, worker>>

\* ... and the operation is claimed by it in a second call.
AuthorizeStepUp(r) ==
    LET o == req[r].op IN
    /\ req[r].pc = "verified"
    /\ \/ /\ rec[o].state = "none"
          /\ ClaimAdmitted(o, "step_up")
          /\ Claim(o, "step_up")
          /\ Answered(r, o, "authorize", "step_up", "authorized")
          /\ UNCHANGED <<evidence, rows, worker>>
       \/ /\ rec[o].state = "none"
          /\ ~ClaimAdmitted(o, "step_up")
          /\ Answered(r, o, "authorize", "step_up", "refused")
          /\ UNCHANGED <<session, evidence, rec, credit, credited, rows, worker>>
       \/ /\ rec[o].state # "none"
          /\ UNCHANGED <<session, evidence, rec, credit, credited, rows, worker>>
          /\ Answered(r, o, "authorize", "step_up",
                      IF ExistingAnswer(o, "step_up") = "refused"
                        THEN "refused" ELSE "authorized")

\* prepare of an operation that a step-up claimed.
PrepareWithStepUp(r, o) ==
    /\ req[r].pc = "idle"
    /\ \/ /\ rec[o].state = "none"
          /\ Answered(r, o, "prepare", "step_up", "refused")
          /\ UNCHANGED <<session, evidence, rec, credit, credited, rows, worker>>
       \/ /\ rec[o].state # "none"
          /\ AnswersExisting(r, o, "prepare", "step_up")

\* A client finalizes with what a prepare returned to it.
Prepared(o) ==
    \E r \in Requests : req[r].op = o /\ req[r].pc = "answered" /\ req[r].reply = "prepared"

\* finalize never claims: a missing row is authorized_operation_missing.
Finalize(r, o, source) ==
    /\ req[r].pc = "idle"
    /\ rec[o].state = "none" \/ Prepared(o)
    /\ \/ /\ rec[o].state = "none"
          /\ Answered(r, o, "finalize", source, "refused")
          /\ UNCHANGED <<session, evidence, rec, credit, credited, rows, worker>>
       \/ /\ rec[o].state # "none"
          /\ AnswersExisting(r, o, "finalize", source)

-----------------------------------------------------------------------------
(* The Router's reply and the completion                                   *)

\* A reply of the Router, or 502 router_unreachable after which the request
\* may still be on its way.  A successful prepare leaves the row claimed; the
\* SigningWorker's own "already in progress" reply is passed on as it is; every
\* other reply completes the operation.
RouterReplies(r) ==
    LET o == req[r].op IN
    /\ req[r].pc = "executing"
    /\ UNCHANGED <<session, evidence, rec, credit, credited, rows, worker>>
    /\ \/ /\ req[r].phase = "prepare" /\ worker[o] = "prepared"
          /\ Goes(r, "answered", "prepared", FALSE)
       \/ /\ req[r].phase = "finalize" /\ worker[o] = "signed"
          /\ Goes(r, "settling", "ok", FALSE)
       \/ /\ worker[o] = "busy"
          /\ Goes(r, "answered", "in_progress", FALSE)
       \/ /\ worker[o] # "busy"
          /\ Goes(r, "settling", "4xx", FALSE)
       \/ Goes(r, "settling", "5xx", req[r].flying)

ResultOf(reply) ==
    CASE reply = "ok" -> "succeeded"
      [] reply = "4xx" -> "failed_before_side_effect"
      [] OTHER -> "failed_after_side_effect"

\* Mutant: only operations that hold a credit unit are counted.
CompletionRowOfCredit(o, result) ==
    CASE result = "succeeded" /\ o \in credited -> "succeeded"
      [] result = "failed_before_side_effect" /\ o \in credited -> "failed"
      [] OTHER -> rows[o]

\* wallet_signature_completion_record: one row for a signature, or for a known
\* failure of an operation that holds a credit unit.
CompletionRow(o, result) ==
    CASE result = "succeeded" -> "succeeded"
      [] result = "failed_before_side_effect" /\ o \in credited -> "failed"
      [] OTHER -> rows[o]

\* Mutant: the reply just received, whatever was stored.
TerminalAnswerLive(r, o) == IF req[r].reply = "ok" THEN "signature" ELSE "failure"

\* The terminal answer: the stored response, or the reply just received.
TerminalAnswer(r, o) ==
    IF AnswersFromRecord
      THEN IF rec'[o].result = "succeeded" THEN "signature" ELSE "failure"
      ELSE IF req[r].reply = "ok" THEN "signature" ELSE "failure"

\* completeAuthorizedOperation: the first completion wins, and the others
\* read what it wrote.
Complete(r) ==
    LET o == req[r].op  result == ResultOf(req[r].reply) IN
    /\ req[r].pc = "settling"
    /\ IF rec[o].state = "claimed"
         THEN /\ rec' = [rec EXCEPT ![o] = [state |-> "completed", source |-> rec[o].source,
                                            result |-> result]]
              /\ rows' = [rows EXCEPT ![o] = CompletionRow(o, result)]
         ELSE UNCHANGED <<rec, rows>>
    /\ Goes(r, "answered", TerminalAnswer(r, o), req[r].flying)
    /\ UNCHANGED <<session, evidence, credit, credited, worker>>

\* The isolate that served the request is gone; a request it sent may arrive.
RequestDies(r) ==
    /\ req[r].pc \in {"verified", "executing", "settling"}
    /\ Goes(r, "dead", "-", req[r].flying)
    /\ UNCHANGED <<session, evidence, rec, credit, credited, rows, worker>>

-----------------------------------------------------------------------------
(* The environment: the session's end, the host's credit, the SigningWorker *)

\* Lock, revocation or unlink: the session and its quota are retired together.
RetireSession ==
    /\ ~session.retired
    /\ session' = [retired |-> TRUE, expired |-> session.expired, remaining |-> 0]
    /\ UNCHANGED <<evidence, rec, credit, credited, rows, req, worker>>

ExpireSession ==
    /\ ~session.expired
    /\ session' = [session EXCEPT !.expired = TRUE]
    /\ UNCHANGED <<evidence, rec, credit, credited, rows, req, worker>>

ExpireEvidence(o) ==
    /\ evidence[o] = "live"
    /\ evidence' = [evidence EXCEPT ![o] = "expired"]
    /\ UNCHANGED <<session, rec, credit, credited, rows, req, worker>>

\* The host moves its policy, or seals the grant for good.
ChangeCredit ==
    /\ \/ \E p \in {"included", "credit", "blocked"} \ {credit.policy} :
            credit' = [credit EXCEPT !.policy = p]
       \/ ~credit.sealed /\ credit' = [credit EXCEPT !.sealed = TRUE]
    /\ UNCHANGED <<session, evidence, rec, credited, rows, req, worker>>

Arrives(o, phase) ==
    \E r \in Requests : req[r].flying /\ req[r].op = o /\ req[r].phase = phase

\* The SigningWorker reserves material, starts its one-use effect, signs.
WorkerSteps(o) ==
    /\ \/ worker[o] = "idle" /\ Arrives(o, "prepare")
          /\ worker' = [worker EXCEPT ![o] = "prepared"]
       \/ worker[o] = "prepared" /\ Arrives(o, "finalize")
          /\ worker' = [worker EXCEPT ![o] = "busy"]
       \/ worker[o] = "busy" /\ worker' = [worker EXCEPT ![o] = "signed"]
    /\ UNCHANGED <<session, evidence, rec, credit, credited, rows, req>>

Next ==
    \/ \E r \in Requests, o \in Ops :
         \/ PrepareWithSession(r, o)
         \/ VerifyStepUp(r, o)
         \/ PrepareWithStepUp(r, o)
         \/ \E source \in Sources : Finalize(r, o, source)
    \/ \E r \in Requests :
         AuthorizeStepUp(r) \/ RouterReplies(r) \/ Complete(r) \/ RequestDies(r)
    \/ \E o \in Ops : ExpireEvidence(o) \/ WorkerSteps(o)
    \/ RetireSession \/ ExpireSession \/ ChangeCredit

Spec == Init /\ [][Next]_vars

-----------------------------------------------------------------------------
(* Properties                                                              *)

Claimed == {o \in Ops : rec[o].state # "none"}
ClaimedBySession == {o \in Claimed : rec[o].source = "grant"}

TypeOK ==
    /\ session \in [retired : BOOLEAN, expired : BOOLEAN, remaining : 0..Uses]
    /\ evidence \in [Ops -> {"none", "live", "expired"}]
    /\ rec \in [Ops -> [state : {"none", "claimed", "completed"}, source : Sources,
                        result : Results \cup {"pending"}]]
    /\ credit \in [policy : {"included", "credit", "blocked"}, sealed : BOOLEAN,
                   admitted : Nat]
    /\ credited \subseteq Ops
    /\ rows \in [Ops -> {"none", "succeeded", "failed"}]
    /\ req \in [Requests -> [pc : {"idle", "verified", "executing", "settling",
                                   "answered", "dead"},
                             op : Ops \cup {"-"}, phase : Phases, source : Sources,
                             reply : Answers \cup {"ok", "4xx", "5xx", "-"},
                             flying : BOOLEAN]]
    /\ worker \in [Ops -> {"idle", "prepared", "busy", "signed"}]

\* Racing, retried and replayed requests together spend one use of the
\* session per operation it claimed, and a step-up spends none: "an exact
\* replay" never debits again.  Retirement empties the quota.
QuotaSpentOncePerClaim ==
    IF session.retired
      THEN session.remaining = 0
      ELSE session.remaining + Cardinality(ClaimedBySession) = Uses

\* Concurrent operations never share the last credit unit: the grant counts
\* exactly the operations that hold a unit, and never more than it allows.
CreditUnitsAreClaims ==
    /\ credit.admitted = Cardinality(credited)
    /\ credit.admitted <= Capacity
    /\ credited \subseteq Claimed

\* Everything clients were told about one operation agrees: no two requests
\* got different terminal answers, and each is the answer a later retry
\* replays.
AnswersAgree ==
    \A r \in Requests :
       req[r].pc = "answered" /\ req[r].reply \in {"signature", "failure"}
         => /\ rec[req[r].op].state = "completed"
            /\ req[r].reply = Replay(req[r].op)

\* A signature a client received is in the completion rows the host counts.
DeliveredSignatureCounted ==
    \A r \in Requests :
       req[r].pc = "answered" /\ req[r].reply = "signature"
         => rows[req[r].op] = "succeeded"
==============================================================================
