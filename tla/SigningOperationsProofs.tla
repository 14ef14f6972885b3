----------------------- MODULE SigningOperationsProofs -----------------------
(***************************************************************************)
(* SigningOperations for every number of operations and requests, every    *)
(* quota and every credit grant.                                           *)
(***************************************************************************)
EXTENDS SigningOperations, FiniteSetTheorems, TLAPS

\* A request that has started works on an operation of the model.
WorksOnOperation ==
    \A r \in Requests : req[r].pc # "idle" => req[r].op \in Ops

\* The type of a request.
Request == [pc : {"idle", "verified", "executing", "settling", "answered", "dead"},
            op : Ops \cup {"-"}, phase : Phases, source : Sources,
            reply : Answers \cup {"ok", "4xx", "5xx", "-"}, flying : BOOLEAN]

\* The inductive invariant of the quota and the credit.
LedgerInv ==
    /\ TypeOK
    /\ WorksOnOperation
    /\ QuotaSpentOncePerClaim
    /\ CreditUnitsAreClaims

-----------------------------------------------------------------------------
(* Types                                                                   *)

LEMMA InitTypeOK == Init => TypeOK /\ WorksOnOperation
<1> SUFFICES ASSUME Init PROVE TypeOK /\ WorksOnOperation
  OBVIOUS
<1>1. session \in [retired : BOOLEAN, expired : BOOLEAN, remaining : 0..Uses]
  BY BoundsAssumption DEF Init
<1>2. rec \in [Ops -> [state : {"none", "claimed", "completed"}, source : Sources,
                       result : Results \cup {"pending"}]]
  BY DEF Init, NoOperation, Sources
<1>3. /\ req \in [Requests -> Request]
      /\ WorksOnOperation
  BY DEF Init, NoRequest, Sources, Phases, Request, WorksOnOperation
<1>4. /\ credit \in [policy : {"included", "credit", "blocked"}, sealed : BOOLEAN,
                     admitted : Nat]
      /\ credited \subseteq Ops
  BY DEF Init
<1>5. /\ evidence \in [Ops -> {"none", "live", "expired"}]
      /\ rows \in [Ops -> {"none", "succeeded", "failed"}]
      /\ worker \in [Ops -> {"idle", "prepared", "busy", "signed"}]
  BY DEF Init
<1> QED BY <1>1, <1>2, <1>3, <1>4, <1>5 DEF TypeOK, Request

\* A claim keeps the types of the four rows it writes.
LEMMA ClaimTypes ==
    ASSUME TypeOK, NEW o \in Ops, NEW source \in Sources,
           ClaimAdmitted(o, source), Claim(o, source)
    PROVE  /\ session' \in [retired : BOOLEAN, expired : BOOLEAN, remaining : 0..Uses]
           /\ rec' \in [Ops -> [state : {"none", "claimed", "completed"},
                                source : Sources, result : Results \cup {"pending"}]]
           /\ credit' \in [policy : {"included", "credit", "blocked"},
                           sealed : BOOLEAN, admitted : Nat]
           /\ credited' \subseteq Ops
<1>1. rec' \in [Ops -> [state : {"none", "claimed", "completed"},
                        source : Sources, result : Results \cup {"pending"}]]
  BY DEF TypeOK, Claim
<1>2. session' \in [retired : BOOLEAN, expired : BOOLEAN, remaining : 0..Uses]
  BY BoundsAssumption DEF TypeOK, Claim, ClaimAdmitted
<1>3. /\ credit' \in [policy : {"included", "credit", "blocked"},
                      sealed : BOOLEAN, admitted : Nat]
      /\ credited' \subseteq Ops
  <2>1. CASE credit.policy = "credit"
    BY <2>1 DEF TypeOK, Claim
  <2>2. CASE credit.policy # "credit"
    BY <2>2 DEF TypeOK, Claim
  <2> QED BY <2>1, <2>2
<1> QED BY <1>1, <1>2, <1>3

LEMMA ReplayType == ASSUME TypeOK, NEW o \in Ops PROVE Replay(o) \in {"signature", "failure"}
  BY DEF Replay

\* One request advances.
LEMMA GoesTypes ==
    ASSUME TypeOK, WorksOnOperation, NEW r \in Requests, req[r].op \in Ops,
           NEW pc \in {"answered", "settling", "dead"}, NEW flying \in BOOLEAN,
           NEW reply \in Answers \cup {"ok", "4xx", "5xx", "-"},
           Goes(r, pc, reply, flying)
    PROVE  req' \in [Requests -> Request] /\ WorksOnOperation'
  BY DEF TypeOK, WorksOnOperation, Goes, Request

\* Every way of answering keeps the type of the requests.
LEMMA AnsweredTypes ==
    ASSUME TypeOK, WorksOnOperation, NEW r \in Requests, NEW o \in Ops,
           NEW phase \in Phases, NEW source \in Sources, NEW answer \in Answers,
           Answered(r, o, phase, source, answer)
    PROVE  /\ req' \in [Requests -> Request]
           /\ WorksOnOperation'
  BY DEF TypeOK, WorksOnOperation, Answered, Request

LEMMA ExecutesTypes ==
    ASSUME TypeOK, WorksOnOperation, NEW r \in Requests, NEW o \in Ops,
           NEW phase \in Phases, NEW source \in Sources,
           Executes(r, o, phase, source)
    PROVE  /\ req' \in [Requests -> Request]
           /\ WorksOnOperation'
  BY DEF TypeOK, WorksOnOperation, Executes, Request

\* A row that exists is answered without a write.
LEMMA ExistingTypes ==
    ASSUME TypeOK, WorksOnOperation, NEW r \in Requests, NEW o \in Ops,
           NEW phase \in Phases, NEW source \in Sources,
           AnswersExisting(r, o, phase, source)
    PROVE  TypeOK' /\ WorksOnOperation'
<1>1. CASE Executes(r, o, phase, source)
  BY <1>1, ExecutesTypes DEF AnswersExisting, TypeOK, Request
<1>2. CASE \E answer \in Answers : Answered(r, o, phase, source, answer)
  <2>1. PICK answer \in Answers : Answered(r, o, phase, source, answer)
    BY <1>2
  <2> QED BY <2>1, AnsweredTypes DEF AnswersExisting, TypeOK, Request
<1>3. "refused" \in Answers /\ "in_progress" \in Answers /\ Replay(o) \in Answers
  BY ReplayType DEF Answers
<1> QED BY <1>1, <1>2, <1>3 DEF AnswersExisting

LEMMA NextTypeOK == TypeOK /\ WorksOnOperation /\ [Next]_vars => TypeOK' /\ WorksOnOperation'
<1> SUFFICES ASSUME TypeOK, WorksOnOperation, [Next]_vars
             PROVE  TypeOK' /\ WorksOnOperation'
  OBVIOUS
<1>0. /\ "prepare" \in Phases /\ "finalize" \in Phases /\ "authorize" \in Phases
      /\ "grant" \in Sources /\ "step_up" \in Sources
      /\ "refused" \in Answers /\ "authorized" \in Answers
  BY DEF Phases, Sources, Answers
<1>1. ASSUME NEW r \in Requests, NEW o \in Ops, PrepareWithSession(r, o)
      PROVE  TypeOK' /\ WorksOnOperation'
  <2>1. CASE ClaimAdmitted(o, "grant") /\ Claim(o, "grant")
             /\ Executes(r, o, "prepare", "grant") /\ UNCHANGED <<evidence, rows, worker>>
    BY <1>0, <2>1, ClaimTypes, ExecutesTypes DEF TypeOK, Request
  <2>2. CASE Answered(r, o, "prepare", "grant", "refused")
             /\ UNCHANGED <<session, evidence, rec, credit, credited, rows, worker>>
    BY <1>0, <2>2, AnsweredTypes DEF TypeOK, Request
  <2>3. CASE AnswersExisting(r, o, "prepare", "grant")
    BY <1>0, <2>3, ExistingTypes
  <2> QED BY <1>1, <2>1, <2>2, <2>3 DEF PrepareWithSession
<1>2. ASSUME NEW r \in Requests, NEW o \in Ops, VerifyStepUp(r, o)
      PROVE  TypeOK' /\ WorksOnOperation'
  BY <1>0, <1>2 DEF VerifyStepUp, TypeOK, WorksOnOperation, NoRequest, Answers
<1>3. ASSUME NEW r \in Requests, AuthorizeStepUp(r)
      PROVE  TypeOK' /\ WorksOnOperation'
  <2> DEFINE o == req[r].op
  <2>0. o \in Ops
    BY <1>3 DEF AuthorizeStepUp, WorksOnOperation
  <2>1. CASE ClaimAdmitted(o, "step_up") /\ Claim(o, "step_up")
             /\ Answered(r, o, "authorize", "step_up", "authorized")
             /\ UNCHANGED <<evidence, rows, worker>>
    BY <1>0, <2>0, <2>1, ClaimTypes, AnsweredTypes DEF TypeOK, Request
  <2>2. CASE /\ UNCHANGED <<session, evidence, rec, credit, credited, rows, worker>>
             /\ \E answer \in Answers : Answered(r, o, "authorize", "step_up", answer)
    <3>1. PICK answer \in Answers : Answered(r, o, "authorize", "step_up", answer)
      BY <2>2
    <3> HIDE DEF o
    <3> QED BY <1>0, <2>0, <2>2, <3>1, AnsweredTypes DEF TypeOK, Request
  <2> QED BY <1>0, <1>3, <2>1, <2>2 DEF AuthorizeStepUp
<1>4. ASSUME NEW r \in Requests, NEW o \in Ops, PrepareWithStepUp(r, o)
      PROVE  TypeOK' /\ WorksOnOperation'
  <2>1. CASE Answered(r, o, "prepare", "step_up", "refused")
             /\ UNCHANGED <<session, evidence, rec, credit, credited, rows, worker>>
    BY <1>0, <2>1, AnsweredTypes DEF TypeOK, Request
  <2>2. CASE AnswersExisting(r, o, "prepare", "step_up")
    BY <1>0, <2>2, ExistingTypes
  <2> QED BY <1>4, <2>1, <2>2 DEF PrepareWithStepUp
<1>5. ASSUME NEW r \in Requests, NEW o \in Ops, NEW source \in Sources, Finalize(r, o, source)
      PROVE  TypeOK' /\ WorksOnOperation'
  <2>1. CASE Answered(r, o, "finalize", source, "refused")
             /\ UNCHANGED <<session, evidence, rec, credit, credited, rows, worker>>
    BY <1>0, <2>1, AnsweredTypes DEF TypeOK, Request
  <2>2. CASE AnswersExisting(r, o, "finalize", source)
    BY <1>0, <2>2, ExistingTypes
  <2> QED BY <1>5, <2>1, <2>2 DEF Finalize
<1>6. ASSUME NEW r \in Requests, RouterReplies(r)
      PROVE  TypeOK' /\ WorksOnOperation'
  <2>1. req[r].op \in Ops /\ req[r] \in Request
    BY <1>6 DEF RouterReplies, WorksOnOperation, TypeOK, Request
  <2>2. req' \in [Requests -> Request] /\ WorksOnOperation'
    BY <1>6, <2>1, GoesTypes DEF RouterReplies, Answers, Request
  <2> QED BY <1>6, <2>2 DEF RouterReplies, TypeOK, Request
<1>7. ASSUME NEW r \in Requests, Complete(r)
      PROVE  TypeOK' /\ WorksOnOperation'
  <2>1. req[r].op \in Ops
    BY <1>7 DEF Complete, WorksOnOperation
  <2>2. ResultOf(req[r].reply) \in Results
    BY DEF ResultOf, Results
  <2>3. CompletionRow(req[r].op, ResultOf(req[r].reply)) \in {"none", "succeeded", "failed"}
    BY <2>1 DEF CompletionRow, TypeOK
  <2>4. TerminalAnswer(r, req[r].op) \in Answers
    BY DEF TerminalAnswer, Answers
  <2>5. rec' \in [Ops -> [state : {"none", "claimed", "completed"}, source : Sources,
                          result : Results \cup {"pending"}]]
    <3>1. CASE rec[req[r].op].state = "claimed"
      BY <1>7, <2>1, <2>2, <3>1 DEF Complete, TypeOK
    <3>2. CASE rec[req[r].op].state # "claimed"
      BY <1>7, <3>2 DEF Complete, TypeOK
    <3> QED BY <3>1, <3>2
  <2>6. rows' \in [Ops -> {"none", "succeeded", "failed"}]
    BY <1>7, <2>3 DEF Complete, TypeOK
  <2>7. /\ req' \in [Requests -> Request]
        /\ WorksOnOperation'
    BY <1>7, <2>1, <2>4, GoesTypes DEF Complete, TypeOK, Request
  <2> QED BY <1>7, <2>5, <2>6, <2>7 DEF Complete, TypeOK, Request
<1>8. ASSUME NEW r \in Requests, RequestDies(r)
      PROVE  TypeOK' /\ WorksOnOperation'
  <2>1. req[r].op \in Ops
    BY <1>8 DEF RequestDies, WorksOnOperation
  <2>4. req' \in [Requests -> Request] /\ WorksOnOperation'
    BY <1>8, <2>1, GoesTypes DEF RequestDies, TypeOK, Request
  <2> QED BY <1>8, <2>4 DEF RequestDies, TypeOK, Request
<1>9. ASSUME NEW o \in Ops, ExpireEvidence(o) \/ WorkerSteps(o)
      PROVE  TypeOK' /\ WorksOnOperation'
  BY <1>9 DEF ExpireEvidence, WorkerSteps, TypeOK, WorksOnOperation
<1>10. CASE RetireSession \/ ExpireSession \/ ChangeCredit
  <2>1. session' \in [retired : BOOLEAN, expired : BOOLEAN, remaining : 0..Uses]
    <3>1. CASE RetireSession
      BY <3>1, BoundsAssumption DEF RetireSession, TypeOK
    <3>2. CASE ExpireSession
      BY <3>2 DEF ExpireSession, TypeOK
    <3>3. CASE ChangeCredit
      BY <3>3 DEF ChangeCredit, TypeOK
    <3> QED BY <1>10, <3>1, <3>2, <3>3
  <2>2. credit' \in [policy : {"included", "credit", "blocked"}, sealed : BOOLEAN,
                     admitted : Nat]
    BY <1>10 DEF RetireSession, ExpireSession, ChangeCredit, TypeOK
  <2>3. UNCHANGED <<evidence, rec, credited, rows, req, worker>>
    BY <1>10 DEF RetireSession, ExpireSession, ChangeCredit
  <2> QED BY <2>1, <2>2, <2>3 DEF TypeOK, WorksOnOperation
<1>11. CASE UNCHANGED vars
  BY <1>11 DEF vars, TypeOK, WorksOnOperation
<1> QED
  BY <1>1, <1>2, <1>3, <1>4, <1>5, <1>6, <1>7, <1>8, <1>9, <1>10, <1>11 DEF Next

\* Types hold for every instance: no interleaving spends more uses than the
\* session has, because a claim asks for one that is left.
THEOREM SigningTypes == Spec => []TypeOK
<1>1. Init => TypeOK /\ WorksOnOperation
  BY InitTypeOK
<1>2. TypeOK /\ WorksOnOperation /\ [Next]_vars => TypeOK' /\ WorksOnOperation'
  BY NextTypeOK
<1> QED BY <1>1, <1>2, PTL DEF Spec

-----------------------------------------------------------------------------
(* The quota and the credit                                                *)

LEMMA ClaimedFinite ==
    TypeOK => IsFiniteSet(ClaimedBySession) /\ IsFiniteSet(credited)
<1>1. ClaimedBySession \subseteq Ops
  BY DEF ClaimedBySession, Claimed
<1> QED BY <1>1, FiniteAssumption, FS_Subset DEF TypeOK

LEMMA InitLedger == Init => LedgerInv
<1> SUFFICES ASSUME Init PROVE LedgerInv
  OBVIOUS
<1>1. ClaimedBySession = {} /\ Claimed = {} /\ credited = {}
  BY DEF Init, ClaimedBySession, Claimed, NoOperation
<1>2. Cardinality({}) = 0
  BY FS_EmptySet
<1>3. QuotaSpentOncePerClaim
  BY <1>1, <1>2, BoundsAssumption DEF Init, QuotaSpentOncePerClaim
<1>4. CreditUnitsAreClaims
  BY <1>1, <1>2, BoundsAssumption DEF Init, CreditUnitsAreClaims
<1> QED BY <1>3, <1>4, InitTypeOK DEF LedgerInv

\* A claim pays for exactly the operation it adds.
LEMMA LedgerOfClaim ==
    ASSUME LedgerInv, NEW o \in Ops, NEW source \in Sources,
           rec[o].state = "none", ClaimAdmitted(o, source), Claim(o, source)
    PROVE  QuotaSpentOncePerClaim' /\ CreditUnitsAreClaims'
<1>0. TypeOK
  BY DEF LedgerInv
<1>1. rec'[o] = [state |-> "claimed", source |-> source, result |-> "pending"]
  BY <1>0 DEF Claim, TypeOK
<1>2. \A p \in Ops : p # o => rec'[p] = rec[p]
  BY <1>0 DEF Claim, TypeOK
<1>3. Claimed' = Claimed \cup {o}
  BY <1>1, <1>2 DEF Claimed
<1>4. QuotaSpentOncePerClaim'
  <2>1. CASE source = "grant"
    <3>1. ClaimedBySession' = ClaimedBySession \cup {o}
      BY <1>1, <1>2, <2>1 DEF ClaimedBySession, Claimed
    <3>2. o \notin ClaimedBySession
      BY DEF ClaimedBySession, Claimed
    <3>3. /\ Cardinality(ClaimedBySession') = Cardinality(ClaimedBySession) + 1
          /\ Cardinality(ClaimedBySession) \in Nat
      BY <1>0, <3>1, <3>2, ClaimedFinite, FS_AddElement, FS_CardinalityType
    <3>4. /\ ~session.retired /\ session.remaining > 0
          /\ session' = [session EXCEPT !.remaining = @ - 1]
      BY <2>1 DEF ClaimAdmitted, Claim, SessionLive
    <3>5. session'.retired = session.retired /\ session'.remaining = session.remaining - 1
      BY <1>0, <3>4 DEF TypeOK
    <3> QED BY <1>0, <3>3, <3>4, <3>5, BoundsAssumption
            DEF LedgerInv, QuotaSpentOncePerClaim, TypeOK
  <2>2. CASE source # "grant"
    <3>1. ClaimedBySession' = ClaimedBySession
      BY <1>1, <1>2, <2>2 DEF ClaimedBySession, Claimed
    <3>2. session' = session
      BY <2>2 DEF Claim
    <3> QED BY <3>1, <3>2 DEF LedgerInv, QuotaSpentOncePerClaim
  <2> QED BY <2>1, <2>2
<1>5. CreditUnitsAreClaims'
  <2>1. CASE credit.policy = "credit"
    <3>1. credit.admitted < Capacity
      BY <2>1 DEF ClaimAdmitted, CreditAdmits
    <3>2. o \notin credited
      BY DEF LedgerInv, CreditUnitsAreClaims, Claimed
    <3>3. credited' = credited \cup {o} /\ credit'.admitted = credit.admitted + 1
      BY <1>0, <2>1 DEF Claim, TypeOK
    <3>4. Cardinality(credited') = Cardinality(credited) + 1
      BY <1>0, <3>2, <3>3, ClaimedFinite, FS_AddElement
    <3> QED BY <1>0, <1>3, <3>1, <3>3, <3>4, BoundsAssumption
            DEF LedgerInv, CreditUnitsAreClaims, TypeOK
  <2>2. CASE credit.policy # "credit"
    BY <1>3, <2>2 DEF Claim, LedgerInv, CreditUnitsAreClaims
  <2> QED BY <2>1, <2>2
<1> QED BY <1>4, <1>5

\* A step that claims nothing and pays nothing.
LEMMA LedgerFrame ==
    ASSUME LedgerInv, TypeOK', UNCHANGED <<session, credited>>,
           credit'.admitted = credit.admitted,
           \A o \in Ops : /\ rec'[o].state = "none" <=> rec[o].state = "none"
                          /\ rec'[o].source = rec[o].source
    PROVE  QuotaSpentOncePerClaim' /\ CreditUnitsAreClaims'
<1>1. Claimed' = Claimed /\ ClaimedBySession' = ClaimedBySession
  BY DEF Claimed, ClaimedBySession
<1> QED BY <1>1 DEF LedgerInv, QuotaSpentOncePerClaim, CreditUnitsAreClaims

LEMMA NextLedger == LedgerInv /\ [Next]_vars => LedgerInv'
<1> SUFFICES ASSUME LedgerInv, [Next]_vars
             PROVE  QuotaSpentOncePerClaim' /\ CreditUnitsAreClaims'
  BY NextTypeOK DEF LedgerInv
<1>0. TypeOK /\ WorksOnOperation /\ TypeOK' /\ "grant" \in Sources /\ "step_up" \in Sources
  BY NextTypeOK DEF LedgerInv, Sources
<1>1. ASSUME UNCHANGED <<session, rec, credit, credited>>
      PROVE  QuotaSpentOncePerClaim' /\ CreditUnitsAreClaims'
  BY <1>0, <1>1, LedgerFrame
<1>2. ASSUME NEW r \in Requests, NEW o \in Ops, PrepareWithSession(r, o)
      PROVE  QuotaSpentOncePerClaim' /\ CreditUnitsAreClaims'
  BY <1>0, <1>1, <1>2, LedgerOfClaim DEF PrepareWithSession, AnswersExisting
<1>3. ASSUME NEW r \in Requests, AuthorizeStepUp(r)
      PROVE  QuotaSpentOncePerClaim' /\ CreditUnitsAreClaims'
  <2>1. req[r].op \in Ops
    BY <1>0, <1>3 DEF AuthorizeStepUp, WorksOnOperation
  <2> QED BY <1>0, <1>1, <1>3, <2>1, LedgerOfClaim DEF AuthorizeStepUp
<1>4. ASSUME NEW r \in Requests, Complete(r)
      PROVE  QuotaSpentOncePerClaim' /\ CreditUnitsAreClaims'
  <2>1. \A o \in Ops : /\ rec'[o].state = "none" <=> rec[o].state = "none"
                       /\ rec'[o].source = rec[o].source
    BY <1>0, <1>4 DEF Complete, TypeOK
  <2> QED BY <1>0, <1>4, <2>1, LedgerFrame DEF Complete
<1>5. CASE RetireSession
  BY <1>5 DEF RetireSession, LedgerInv, QuotaSpentOncePerClaim, CreditUnitsAreClaims,
             Claimed, ClaimedBySession
<1>6. CASE ExpireSession
  <2>1. session'.retired = session.retired /\ session'.remaining = session.remaining
    BY <1>0, <1>6 DEF ExpireSession, TypeOK
  <2> QED BY <1>6, <2>1 DEF ExpireSession, LedgerInv, QuotaSpentOncePerClaim,
             CreditUnitsAreClaims, Claimed, ClaimedBySession
<1>7. CASE ChangeCredit
  <2>1. credit'.admitted = credit.admitted
    BY <1>0, <1>7 DEF ChangeCredit, TypeOK
  <2> QED BY <1>0, <1>7, <2>1, LedgerFrame DEF ChangeCredit
<1>8. ASSUME NEW r \in Requests, NEW o \in Ops,
             VerifyStepUp(r, o) \/ PrepareWithStepUp(r, o)
               \/ \E source \in Sources : Finalize(r, o, source)
      PROVE  QuotaSpentOncePerClaim' /\ CreditUnitsAreClaims'
  BY <1>1, <1>8 DEF VerifyStepUp, PrepareWithStepUp, Finalize, AnswersExisting
<1>9. ASSUME NEW r \in Requests, RouterReplies(r) \/ RequestDies(r)
      PROVE  QuotaSpentOncePerClaim' /\ CreditUnitsAreClaims'
  BY <1>1, <1>9 DEF RouterReplies, RequestDies
<1>10. ASSUME NEW o \in Ops, ExpireEvidence(o) \/ WorkerSteps(o)
       PROVE  QuotaSpentOncePerClaim' /\ CreditUnitsAreClaims'
  BY <1>1, <1>10 DEF ExpireEvidence, WorkerSteps
<1>11. CASE UNCHANGED vars
  BY <1>1, <1>11 DEF vars
<1> QED
  BY <1>2, <1>3, <1>4, <1>5, <1>6, <1>7, <1>8, <1>9, <1>10, <1>11 DEF Next

\* One use of the session's quota per operation it claimed, and one unit of
\* the grant per operation that holds one, never more than the grant allows:
\* whatever races, is retried, replayed or dies (operations.ts, the claim
\* statement and its triggers).
THEOREM LedgerBalances == Spec => [](QuotaSpentOncePerClaim /\ CreditUnitsAreClaims)
<1>1. LedgerInv => QuotaSpentOncePerClaim /\ CreditUnitsAreClaims
  BY DEF LedgerInv
<1> QED BY <1>1, InitLedger, NextLedger, PTL DEF Spec

\* Concurrent operations never share a unit of the host's signing credit
\* (wallet_signing_credit_admission and the claim triggers).
THEOREM CreditBalances == Spec => []CreditUnitsAreClaims
  BY LedgerBalances, PTL

-----------------------------------------------------------------------------
(* The answers                                                             *)

\* A request executes only an operation that has a row, and has no terminal
\* answer that differs from it.
AnswerMatches(r) ==
    /\ req[r].pc \in {"executing", "settling"} => rec[req[r].op].state # "none"
    /\ req[r].pc = "answered" /\ req[r].reply \in {"signature", "failure"}
         => rec[req[r].op].state = "completed" /\ req[r].reply = Replay(req[r].op)

RequestsMatch == \A r \in Requests : AnswerMatches(r)

\* A recorded success has its completion row.
SuccessHasRow ==
    \A o \in Ops : rec[o].state = "completed" /\ rec[o].result = "succeeded"
                     => rows[o] = "succeeded"

AnswerInv == TypeOK /\ WorksOnOperation /\ RequestsMatch /\ SuccessHasRow

\* A row stays, and so does the first completion.
CompletedStays ==
    \A o \in Ops :
        /\ rec[o].state # "none" => rec'[o].state # "none"
        /\ rec[o].state = "completed" => rec'[o] = rec[o] /\ rows'[o] = rows[o]

LEMMA AnswersFrame ==
    ASSUME AnswerInv, CompletedStays,
           \A r \in Requests : req'[r] = req[r] \/ AnswerMatches(r)'
    PROVE  RequestsMatch'
<1> SUFFICES ASSUME NEW r \in Requests, req'[r] = req[r] PROVE AnswerMatches(r)'
  BY DEF RequestsMatch
<1>0. AnswerMatches(r) /\ (req[r].pc # "idle" => req[r].op \in Ops)
  BY DEF AnswerInv, RequestsMatch, WorksOnOperation
<1>1. CASE req[r].pc = "idle"
  BY <1>1 DEF AnswerMatches
<1>2. CASE req[r].pc # "idle" /\ rec[req[r].op].state = "completed"
  <2>1. rec'[req[r].op] = rec[req[r].op]
    BY <1>0, <1>2 DEF CompletedStays
  <2>2. Replay(req[r].op)' = Replay(req[r].op)
    BY <2>1 DEF Replay
  <2> QED BY <1>0, <1>2, <2>1, <2>2 DEF AnswerMatches
<1>3. CASE req[r].pc # "idle" /\ rec[req[r].op].state # "completed"
  BY <1>0, <1>3 DEF AnswerMatches, CompletedStays
<1> QED BY <1>1, <1>2, <1>3

\* Only a replay of a completed row, or a completion, is a terminal answer.
LEMMA ExistingAnswers ==
    ASSUME AnswerInv, NEW r \in Requests, NEW o \in Ops,
           NEW phase \in Phases, NEW source \in Sources,
           rec[o].state # "none", AnswersExisting(r, o, phase, source)
    PROVE  RequestsMatch'
<1>1. rec' = rec /\ rows' = rows
  BY DEF AnswersExisting
<1>2. CompletedStays
  BY <1>1 DEF CompletedStays
<1>3. \A s \in Requests : s # r => req'[s] = req[s]
  BY DEF AnswersExisting, Answered, Executes, AnswerInv, TypeOK
<1>4. AnswerMatches(r)'
  <2>1. CASE ExistingAnswer(o, source) = "replayed"
    <3>1. rec[o].state = "completed"
      BY <2>1 DEF ExistingAnswer
    <3>2. req'[r].op = o /\ req'[r].reply = Replay(o) /\ req'[r].pc = "answered"
      BY <2>1 DEF AnswersExisting, Answered, AnswerInv, TypeOK
    <3>3. Replay(req[r].op)' = Replay(o)
      BY <1>1, <3>2 DEF Replay
    <3> QED BY <1>1, <3>1, <3>2, <3>3 DEF AnswerMatches
  <2>2. CASE ExistingAnswer(o, source) # "replayed"
    <3>1. req'[r].reply \in {"refused", "-", "in_progress"} /\ req'[r].op = o
      BY <2>2 DEF AnswersExisting, Answered, Executes, AnswerInv, TypeOK
    <3> QED BY <1>1, <3>1 DEF AnswerMatches
  <2> QED BY <2>1, <2>2
<1> QED BY <1>2, <1>3, <1>4, AnswersFrame

LEMMA NextAnswers == AnswersFromRecord /\ AnswerInv /\ [Next]_vars => AnswerInv'
<1> SUFFICES ASSUME AnswersFromRecord, AnswerInv, [Next]_vars
             PROVE  RequestsMatch' /\ SuccessHasRow'
  BY NextTypeOK DEF AnswerInv
<1>0. /\ "prepare" \in Phases /\ "finalize" \in Phases
      /\ "grant" \in Sources /\ "step_up" \in Sources
  BY DEF Phases, Sources
<1>1. ASSUME UNCHANGED <<rec, rows>>,
             \A r \in Requests : req'[r] = req[r] \/ AnswerMatches(r)'
      PROVE  RequestsMatch' /\ SuccessHasRow'
  <2>1. CompletedStays
    BY <1>1 DEF CompletedStays
  <2> QED BY <1>1, <2>1, AnswersFrame DEF AnswerInv, SuccessHasRow
<1>2. ASSUME NEW r \in Requests, NEW o \in Ops, NEW phase \in Phases,
             NEW source \in Sources, rec[o].state # "none",
             AnswersExisting(r, o, phase, source)
      PROVE  RequestsMatch' /\ SuccessHasRow'
  BY <1>2, ExistingAnswers DEF AnswersExisting, AnswerInv, SuccessHasRow
<1>3. ASSUME NEW r \in Requests, NEW o \in Ops, NEW phase \in Phases,
             NEW source \in Sources, NEW answer \in {"refused", "authorized"},
             Answered(r, o, phase, source, answer), UNCHANGED <<rec, rows>>
      PROVE  RequestsMatch' /\ SuccessHasRow'
  <2>1. \A s \in Requests : req'[s] = req[s] \/ AnswerMatches(s)'
    BY <1>3 DEF Answered, AnswerMatches, AnswerInv, TypeOK
  <2> QED BY <1>1, <1>3, <2>1
<1>4. ASSUME NEW r \in Requests, NEW o \in Ops, NEW source \in Sources,
             rec[o].state = "none", Claim(o, source), rows' = rows,
             \A s \in Requests : req'[s] = req[s] \/ AnswerMatches(s)'
      PROVE  RequestsMatch' /\ SuccessHasRow'
  <2>1. rec'[o].state = "claimed" /\ \A p \in Ops : p # o => rec'[p] = rec[p]
    BY <1>4 DEF Claim, AnswerInv, TypeOK
  <2>2. CompletedStays
    BY <1>4, <2>1 DEF CompletedStays
  <2> QED BY <1>4, <2>1, <2>2, AnswersFrame DEF AnswerInv, SuccessHasRow
<1>5. ASSUME NEW r \in Requests, NEW o \in Ops, PrepareWithSession(r, o)
      PROVE  RequestsMatch' /\ SuccessHasRow'
  <2>1. CASE /\ rec[o].state = "none" /\ Claim(o, "grant")
             /\ Executes(r, o, "prepare", "grant") /\ rows' = rows
    <3>0. rec'[o].state = "claimed"
      BY <2>1 DEF Claim, AnswerInv, TypeOK
    <3>1. \A s \in Requests : req'[s] = req[s] \/ AnswerMatches(s)'
      BY <2>1, <3>0 DEF Executes, AnswerMatches, AnswerInv, TypeOK
    <3> QED BY <1>0, <1>4, <2>1, <3>1
  <2> QED BY <1>0, <1>2, <1>3, <1>5, <2>1 DEF PrepareWithSession
<1>6. ASSUME NEW r \in Requests, NEW o \in Ops, VerifyStepUp(r, o)
      PROVE  RequestsMatch' /\ SuccessHasRow'
  <2>1. \A s \in Requests : req'[s] = req[s] \/ AnswerMatches(s)'
    BY <1>6 DEF VerifyStepUp, AnswerMatches, AnswerInv, TypeOK
  <2> QED BY <1>1, <1>6, <2>1 DEF VerifyStepUp
<1>7. ASSUME NEW r \in Requests, AuthorizeStepUp(r)
      PROVE  RequestsMatch' /\ SuccessHasRow'
  <2>0. req[r].op \in Ops /\ "authorize" \in Phases
    BY <1>7 DEF AuthorizeStepUp, AnswerInv, WorksOnOperation, Phases
  <2>1. CASE /\ rec[req[r].op].state = "none" /\ Claim(req[r].op, "step_up")
             /\ Answered(r, req[r].op, "authorize", "step_up", "authorized") /\ rows' = rows
    <3>1. \A s \in Requests : req'[s] = req[s] \/ AnswerMatches(s)'
      BY <2>1 DEF Answered, AnswerMatches, AnswerInv, TypeOK
    <3> QED BY <1>0, <1>4, <2>0, <2>1, <3>1
  <2> QED BY <1>0, <1>3, <1>7, <2>0, <2>1 DEF AuthorizeStepUp
<1>8. ASSUME NEW r \in Requests, NEW o \in Ops,
             PrepareWithStepUp(r, o) \/ \E source \in Sources : Finalize(r, o, source)
      PROVE  RequestsMatch' /\ SuccessHasRow'
  BY <1>0, <1>2, <1>3, <1>8 DEF PrepareWithStepUp, Finalize
<1>9. ASSUME NEW r \in Requests, RouterReplies(r) \/ RequestDies(r)
      PROVE  RequestsMatch' /\ SuccessHasRow'
  <2>1. AnswerMatches(r) /\ req[r].pc \in {"verified", "executing", "settling"}
    BY <1>9 DEF RouterReplies, RequestDies, AnswerInv, RequestsMatch
  <2>2. /\ \A s \in Requests : s # r => req'[s] = req[s]
        /\ req'[r].op = req[r].op
        /\ \/ req'[r].pc = "answered" /\ req'[r].reply \in {"prepared", "in_progress"}
           \/ req'[r].pc = "settling" /\ req[r].pc = "executing"
           \/ req'[r].pc = "dead"
    BY <1>9 DEF RouterReplies, RequestDies, Goes, AnswerInv, TypeOK
  <2>3. UNCHANGED <<rec, rows>>
    BY <1>9 DEF RouterReplies, RequestDies
  <2>4. AnswerMatches(r)'
    BY <2>1, <2>2, <2>3 DEF AnswerMatches
  <2> QED BY <1>1, <2>2, <2>3, <2>4
<1>10. ASSUME NEW r \in Requests, Complete(r)
       PROVE  RequestsMatch' /\ SuccessHasRow'
  <2> DEFINE o == req[r].op
             result == ResultOf(req[r].reply)
  <2>0. o \in Ops /\ rec[o] \in [state : {"none", "claimed", "completed"},
                                source : Sources, result : Results \cup {"pending"}]
    BY <1>10 DEF Complete, AnswerInv, WorksOnOperation, TypeOK
  <2>1. rec[o].state \in {"claimed", "completed"}
    BY <1>10, <2>0 DEF Complete, AnswerInv, RequestsMatch, AnswerMatches
  <2>2. /\ req'[r].pc = "answered" /\ req'[r].op = o
        /\ req'[r].reply = TerminalAnswer(r, o)
        /\ \A s \in Requests : s # r => req'[s] = req[s]
    BY <1>10 DEF Complete, Goes, AnswerInv, TypeOK
  <2>3. /\ rec'[o].state = "completed"
        /\ rec[o].state = "claimed" => rec'[o].result = result
        /\ rec[o].state = "completed" => rec'[o] = rec[o] /\ rows'[o] = rows[o]
        /\ \A p \in Ops : p # o => rec'[p] = rec[p] /\ rows'[p] = rows[p]
    BY <1>10, <2>0, <2>1 DEF Complete, AnswerInv, TypeOK
  <2>4. rec[o].state = "claimed" /\ result = "succeeded" => rows'[o] = "succeeded"
    BY <1>10, <2>0 DEF Complete, CompletionRow, AnswerInv, TypeOK
  <2>5. CompletedStays
    BY <2>3 DEF CompletedStays
  <2>6. AnswerMatches(r)'
    BY <2>2, <2>3 DEF AnswerMatches, TerminalAnswer, Replay
  <2>7. SuccessHasRow'
    BY <2>1, <2>3, <2>4 DEF SuccessHasRow, AnswerInv
  <2> QED BY <2>2, <2>5, <2>6, <2>7, AnswersFrame
<1>11. ASSUME NEW o \in Ops, ExpireEvidence(o) \/ WorkerSteps(o)
       PROVE  RequestsMatch' /\ SuccessHasRow'
  BY <1>1, <1>11 DEF ExpireEvidence, WorkerSteps
<1>12. CASE RetireSession \/ ExpireSession \/ ChangeCredit \/ UNCHANGED vars
  BY <1>1, <1>12 DEF RetireSession, ExpireSession, ChangeCredit, vars
<1> QED
  BY <1>5, <1>6, <1>7, <1>8, <1>9, <1>10, <1>11, <1>12 DEF Next

LEMMA InitAnswers == Init => AnswerInv
<1> SUFFICES ASSUME Init PROVE RequestsMatch /\ SuccessHasRow
  BY InitTypeOK DEF AnswerInv
<1>1. \A r \in Requests : req[r].pc = "idle"
  BY DEF Init, NoRequest
<1>2. \A o \in Ops : rec[o].state = "none"
  BY DEF Init, NoOperation
<1> QED BY <1>1, <1>2 DEF RequestsMatch, AnswerMatches, SuccessHasRow

\* On the Ed25519 routes, which answer from the completed row, every terminal
\* answer of an operation is the recorded one, and a signature that a client
\* received is counted in the host's completion rows.
THEOREM TerminalAnswersAgree ==
    ASSUME AnswersFromRecord
    PROVE  Spec => [](AnswersAgree /\ DeliveredSignatureCounted)
<1>1. AnswerInv => AnswersAgree /\ DeliveredSignatureCounted
  <2> SUFFICES ASSUME AnswerInv PROVE AnswersAgree /\ DeliveredSignatureCounted
    OBVIOUS
  <2>1. AnswersAgree
    BY DEF AnswerInv, RequestsMatch, AnswerMatches, AnswersAgree
  <2>2. DeliveredSignatureCounted
    BY <2>1 DEF AnswersAgree, DeliveredSignatureCounted, AnswerInv, WorksOnOperation,
                SuccessHasRow, Replay
  <2> QED BY <2>1, <2>2
<1>2. AnswerInv /\ [Next]_vars => AnswerInv'
  BY NextAnswers
<1> QED BY <1>1, <1>2, InitAnswers, PTL DEF Spec

\* A signature that a client of the Ed25519 routes received is counted in the
\* host's completion rows (requireCompletedEd25519OperationResponse answers
\* from the completed row).
THEOREM SignaturesCounted ==
    ASSUME AnswersFromRecord PROVE Spec => []DeliveredSignatureCounted
  BY TerminalAnswersAgree, PTL
=============================================================================
