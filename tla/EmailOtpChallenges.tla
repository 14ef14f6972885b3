------------------------- MODULE EmailOtpChallenges -------------------------
(***************************************************************************)
(* Email OTP challenges of one enrolled wallet, in one D1 database.  A     *)
(* challenge is issued and mailed, its code is verified by one of three    *)
(* kinds of request, and what was verified is then used:                   *)
(*   "login"  consumes the challenge and stores a grant, which an "unseal" *)
(*            request consumes later;                                      *)
(*   "proof"  consumes it in the batch that commits the caller's own       *)
(*            writes;                                                      *)
(*   "start"  consumes it together with the insert of a receipt, from      *)
(*            which an exact retry of the same registration start is       *)
(*            answered.                                                    *)
(* Every statement or batch of D1 is a step, and between two of them every *)
(* other request may run.  A request whose isolate dies, or whose reply is *)
(* lost, is one that takes no further step; a retry is another request.    *)
(*                                                                         *)
(* A code is right or wrong.  Time is what it makes true: a challenge, a   *)
(* grant, a receipt or the lockout has lapsed or has not.  The creation    *)
(* times that order challenges come from the clocks of different isolates, *)
(* so which one is the oldest is a choice, and so is whether the counters  *)
(* of the rate limits, shared with every other request, have a unit left.  *)
(***************************************************************************)
EXTENDS Naturals, FiniteSets

CONSTANTS
  LoginChallenges,  \* challenge ids issued for action login
  StartChallenges,  \* challenge ids issued for action registration
  Requests,         \* requests to verify a code or to use a grant
  Starts,           \* registration starts, by operation id
  MaxAttempts,      \* maxAttempts
  MaxActive,        \* maxActiveChallengesPerContext
  Scenarios,        \* bound: sets of challenges that clients ask for
  none

Challenges == LoginChallenges \cup StartChallenges

ASSUME LimitAssumption == {MaxAttempts, MaxActive} \subseteq Nat \ {0}
ASSUME ScenarioAssumption == Scenarios \subseteq SUBSET Challenges
ASSUME DisjointAssumption == LoginChallenges \cap StartChallenges = {}
ASSUME FiniteAssumption == IsFiniteSet(Challenges)
ASSUME NoneAssumption == none \notin Challenges /\ Starts \cap {none, "lapsed"} = {}

VARIABLES
  row,       \* email_otp_challenges: state ("unused", "live", "lapsed" when its
             \* expiry has passed, "gone") and attemptCount
  issue,     \* the request that issues a challenge
  auth,      \* email_otp_auth_states: "clean", "failed" or "locked"
  receipt,   \* registration receipt of a challenge: its start, none or "lapsed"
  grant,     \* grant stored by a request: "none", "live", "lapsed" or "used"
  req        \* verify and unseal requests

vars == <<row, issue, auth, receipt, grant, req>>
challengeVars == <<row, issue>>

Context(c) == IF c \in LoginChallenges THEN LoginChallenges ELSE StartChallenges
Active(S) == {c \in S : row[c].state = "live"}
Stored(c) == row[c].state \in {"live", "lapsed"}

New == [state |-> "live", attempts |-> 0]
Gone == [state |-> "gone", attempts |-> 0]
Delete(c) == row' = [row EXCEPT ![c] = Gone]

\* pruneExpired, run before every read of a challenge.
Pruned == [c \in Challenges |-> IF row[c].state = "lapsed" THEN Gone ELSE row[c]]

Idle == [pc |-> "idle", kind |-> "login", challenge |-> none, right |-> FALSE,
         start |-> none, failed |-> FALSE, seen |-> 0, locked |-> FALSE,
         source |-> none, reply |-> "none"]

Init ==
  /\ row = [c \in Challenges |-> [state |-> "unused", attempts |-> 0]]
  /\ \E S \in Scenarios :
       issue = [c \in Challenges |-> [pc |-> IF c \in S THEN "asked" ELSE "none", surplus |-> 0]]
  /\ auth = "clean"
  /\ receipt = [c \in Challenges |-> none]
  /\ grant = [r \in Requests |-> "none"]
  /\ req = [r \in Requests |-> Idle]

-----------------------------------------------------------------------------
(* CloudflareD1EmailOtpChallengeIssuer.create                              *)

\* The checks before the first write: a lockout stops a login.
IssueCheck(c) ==
  /\ issue[c].pc = "asked"
  /\ c \in LoginChallenges => auth # "locked"
  /\ issue' = [issue EXCEPT ![c].pc = "counting"]
  /\ UNCHANGED <<row, auth, receipt, grant, req>>

\* pruneExpired, and countActive in deleteActiveOverflow.
IssueCount(c) ==
  /\ issue[c].pc = "counting"
  /\ LET count == Cardinality(Active(Context(c)))
     IN  issue' = [issue EXCEPT ![c] =
                     [pc |-> "trimming",
                      surplus |-> IF count < MaxActive THEN 0 ELSE count + 1 - MaxActive]]
  /\ row' = Pruned
  /\ UNCHANGED <<auth, receipt, grant, req>>

\* deleteOldestActive, which ends the loop when nothing is left to delete.
IssueTrim(c) ==
  /\ issue[c].pc = "trimming" /\ issue[c].surplus > 0
  /\ \/ /\ Active(Context(c)) = {}
        /\ issue' = [issue EXCEPT ![c].surplus = 0]
        /\ UNCHANGED row
     \/ /\ \E d \in Active(Context(c)) : Delete(d)
        /\ issue' = [issue EXCEPT ![c].surplus = @ - 1]
  /\ UNCHANGED <<auth, receipt, grant, req>>

\* put, under a fresh random id.
IssuePut(c) ==
  /\ issue[c].pc = "trimming" /\ issue[c].surplus = 0
  /\ issue' = [issue EXCEPT ![c].pc = "delivering"]
  /\ row' = [row EXCEPT ![c] = New]
  /\ UNCHANGED <<auth, receipt, grant, req>>

\* deliverEmailOtpCode; a challenge that could not be mailed is deleted.
IssueDeliver(c) ==
  /\ issue[c].pc = "delivering"
  /\ issue' = [issue EXCEPT ![c].pc = "done"]
  /\ \/ UNCHANGED row
     \/ Delete(c)
  /\ UNCHANGED <<auth, receipt, grant, req>>

-----------------------------------------------------------------------------
(* CloudflareD1EmailOtpChallengeVerifier                                   *)

\* A request that is answered forgets what it had read, and one that is refused
\* also what it was about.
Answer(r, reply) ==
  req' = [req EXCEPT ![r] =
            IF reply = "ok"
              THEN [@ EXCEPT !.pc = "answered", !.reply = reply, !.failed = FALSE, !.seen = 0]
              ELSE [Idle EXCEPT !.pc = "answered", !.reply = reply]]

\* The purposes a challenge is bound to.
Kinds(c) == IF c \in LoginChallenges THEN {"login", "proof"} ELSE {"start"}

\* A request arrives.  A start is first answered from its receipt, which
\* resets the failure state; its fingerprint covers the start and the code.
\* Everyone else consumes a unit of the rate limit, or finds it spent.
Verify(r, c, right, kind, start) ==
  LET new == [Idle EXCEPT !.pc = "checking", !.kind = kind, !.challenge = c,
                          !.right = right, !.start = start]
      replied(reply) == [new EXCEPT !.pc = "answered", !.reply = reply]
  IN  /\ req[r].pc = "idle" /\ row[c].state # "unused"
      /\ kind \in Kinds(c) /\ (kind = "start" <=> start # none)
      /\ IF receipt[c] \in Starts /\ kind = "start"
           THEN /\ req' = [req EXCEPT ![r] =
                             IF receipt[c] = start /\ right THEN replied("ok")
                                                            ELSE replied("conflict")]
                /\ auth' = IF receipt[c] = start /\ right THEN "clean" ELSE auth
           ELSE /\ \E next \in {new, replied("limited")} : req' = [req EXCEPT ![r] = next]
                /\ UNCHANGED auth
      /\ UNCHANGED <<challengeVars, receipt, grant>>

\* readAuthStateForEnrollment: what is seen here decides on the reset later.
ReadAuthState(r) ==
  /\ req[r].pc = "checking"
  /\ IF auth = "locked"
       THEN Answer(r, "locked")
       ELSE req' = [req EXCEPT ![r].pc = "reading", ![r].failed = auth = "failed"]
  /\ UNCHANGED <<challengeVars, auth, receipt, grant>>

\* pruneExpired and read, and the comparison of the code.
ReadChallenge(r) ==
  LET c == req[r].challenge IN
  /\ req[r].pc = "reading"
  /\ row' = Pruned
  /\ IF Pruned[c].state # "live"
       THEN Answer(r, "invalid")
       ELSE req' = [req EXCEPT ![r].pc = IF req[r].right THEN "consuming" ELSE "failing",
                               ![r].seen = row[c].attempts]
  /\ UNCHANGED <<issue, auth, receipt, grant>>

\* recordInvalidAttempt.  putAuthStateForEnrollment reads the stored state ...
ReadForFailure(r) ==
  /\ req[r].pc = "failing"
  /\ req' = [req EXCEPT ![r].pc = "recording", ![r].locked = auth = "locked"]
  /\ UNCHANGED <<challengeVars, auth, receipt, grant>>

\* Mutant: one attempt more than configured.
ExhaustsLate(r) == req[r].seen + 1 > MaxAttempts

\* nextAttempts >= maxAttempts, counted from the record that was read.
Exhausts(r) == req[r].seen + 1 >= MaxAttempts

\* ... and writes it back with the failure, and with a lockout if this was the
\* last attempt the challenge had when it was read.
WriteFailure(r) ==
  /\ req[r].pc = "recording"
  /\ auth' = IF Exhausts(r) \/ req[r].locked THEN "locked" ELSE "failed"
  /\ req' = [req EXCEPT ![r].pc = "counting"]
  /\ UNCHANGED <<challengeVars, receipt, grant>>

\* Mutant: the counter is written by an upsert.
CountAttemptUpserting(r) ==
  LET c == req[r].challenge IN
  /\ req[r].pc = "counting"
  /\ row' = [row EXCEPT ![c] = IF Exhausts(r) THEN Gone
                                 ELSE [state |-> "live", attempts |-> req[r].seen + 1]]
  /\ Answer(r, "wrong")
  /\ UNCHANGED <<issue, auth, receipt, grant>>

\* Then the challenge is deleted, or updateAttemptCount stores the next count:
\* an UPDATE, which does nothing to a challenge that is gone.
CountAttempt(r) ==
  LET c == req[r].challenge IN
  /\ req[r].pc = "counting"
  /\ IF Exhausts(r)
       THEN Delete(c)
       ELSE row' = IF Stored(c) THEN [row EXCEPT ![c].attempts = req[r].seen + 1] ELSE row
  /\ Answer(r, "wrong")
  /\ UNCHANGED <<issue, auth, receipt, grant>>

\* consume, a DELETE ... RETURNING by id.
ConsumeNow(r) ==
  LET c == req[r].challenge IN
  /\ req[r].pc = "consuming" /\ req[r].kind = "login"
  /\ IF Stored(c)
       THEN /\ Delete(c)
            /\ req' = [req EXCEPT ![r].pc = "resetting"]
       ELSE Answer(r, "invalid") /\ UNCHANGED row
  /\ UNCHANGED <<issue, auth, receipt, grant>>

\* prepareConsumeInBatchStatements: nothing is consumed yet.
PrepareConsume(r) ==
  /\ req[r].pc = "consuming" /\ req[r].kind = "proof"
  /\ req' = [req EXCEPT ![r].pc = "resetting"]
  /\ UNCHANGED <<challengeVars, auth, receipt, grant>>

\* The record is still the one that was verified.
Matches(r) == Stored(req[r].challenge) /\ row[req[r].challenge].attempts = req[r].seen

\* Mutant: the batch consumes the challenge and leaves no receipt.
ConsumeWithoutReceipt(r) ==
  LET c == req[r].challenge IN
  /\ req[r].pc = "consuming" /\ req[r].kind = "start"
  /\ IF Matches(r)
       THEN /\ Delete(c)
            /\ req' = [req EXCEPT ![r].pc = "resetting"]
       ELSE Answer(r, "invalid") /\ UNCHANGED row
  /\ UNCHANGED <<issue, auth, receipt, grant>>

\* consumeRegistrationWithReceipt: the receipt and the delete commit together,
\* and a batch that aborts is reconciled with the receipt that is there.  Its
\* reads before and after the batch count as one step with it: the last of them
\* decides, and a receipt is never replaced.
ConsumeWithReceipt(r) ==
  LET c == req[r].challenge IN
  /\ req[r].pc = "consuming" /\ req[r].kind = "start"
  /\ \/ /\ receipt[c] = req[r].start
        /\ req' = [req EXCEPT ![r].pc = "resetting"]
        /\ UNCHANGED <<row, receipt>>
     \/ /\ receipt[c] \in Starts \ {req[r].start}
        /\ Answer(r, "conflict")
        /\ UNCHANGED <<row, receipt>>
     \/ /\ receipt[c] \notin Starts /\ Matches(r)
        /\ Delete(c)
        /\ receipt' = [receipt EXCEPT ![c] = req[r].start]
        /\ req' = [req EXCEPT ![r].pc = "resetting"]
     \/ /\ receipt[c] \notin Starts /\ ~Matches(r)
        /\ Answer(r, IF Stored(c) THEN "internal" ELSE "invalid")
        /\ UNCHANGED <<row, receipt>>
  /\ UNCHANGED <<issue, auth, grant>>

\* resetFailureState, if the state that was read had failures.
ResetFailureState(r) ==
  /\ req[r].pc = "resetting"
  /\ auth' = IF req[r].failed THEN "clean" ELSE auth
  /\ IF req[r].kind = "start"
       THEN Answer(r, "ok")
       ELSE req' = [req EXCEPT ![r].pc = IF req[r].kind = "login" THEN "granting"
                                                                 ELSE "committing"]
  /\ UNCHANGED <<challengeVars, receipt, grant>>

-----------------------------------------------------------------------------
(* What a verified challenge is used for                                   *)

\* verifyEmailOtpChallenge stores the grant and answers with it.
PutGrant(r) ==
  /\ req[r].pc = "granting"
  /\ grant' = [grant EXCEPT ![r] = "live"]
  /\ Answer(r, "ok")
  /\ UNCHANGED <<challengeVars, auth, receipt>>

\* The caller's batch: its guard aborts it when the record no longer matches.
\* The expiry was compared with the time of the verification.
CommitInBatch(r) ==
  LET c == req[r].challenge IN
  /\ req[r].pc = "committing"
  /\ IF Matches(r)
       THEN Delete(c) /\ Answer(r, "ok")
       ELSE Answer(r, "aborted") /\ UNCHANGED row
  /\ UNCHANGED <<issue, auth, receipt, grant>>

\* consumeEmailOtpGrant reads the grant stored by request g ...
ReadGrant(r, g) ==
  /\ req[r].pc = "idle" /\ grant[g] # "none"
  /\ req' = [req EXCEPT ![r] =
               IF grant[g] = "live"
                 THEN [Idle EXCEPT !.pc = "unsealing", !.kind = "unseal", !.source = g]
                 ELSE [Idle EXCEPT !.pc = "answered", !.kind = "unseal", !.source = g,
                                   !.reply = "invalid"]]
  /\ UNCHANGED <<challengeVars, auth, receipt, grant>>

\* ... and consumes it in one batch with the counters, which may be exhausted.
ConsumeGrant(r) ==
  LET g == req[r].source IN
  /\ req[r].pc = "unsealing"
  /\ \/ /\ grant[g] \in {"live", "lapsed"}
        /\ grant' = [grant EXCEPT ![g] = "used"]
        /\ Answer(r, "ok")
     \/ /\ Answer(r, IF grant[g] = "live" THEN "limited" ELSE "invalid")
        /\ UNCHANGED grant
  /\ UNCHANGED <<challengeVars, auth, receipt>>

-----------------------------------------------------------------------------
(* Time                                                                    *)

ChallengeLapses(c) ==
  /\ row[c].state = "live"
  /\ row' = [row EXCEPT ![c].state = "lapsed"]
  /\ UNCHANGED <<issue, auth, receipt, grant, req>>

ReceiptLapses(c) ==
  /\ receipt[c] \in Starts
  /\ receipt' = [receipt EXCEPT ![c] = "lapsed"]
  /\ UNCHANGED <<challengeVars, auth, grant, req>>

GrantLapses(r) ==
  /\ grant[r] = "live"
  /\ grant' = [grant EXCEPT ![r] = "lapsed"]
  /\ UNCHANGED <<challengeVars, auth, receipt, req>>

LockoutEnds ==
  /\ auth = "locked" /\ auth' = "failed"
  /\ UNCHANGED <<challengeVars, receipt, grant, req>>

Next ==
  \/ \E c \in Challenges : \/ IssueCheck(c) \/ IssueCount(c) \/ IssueTrim(c)
                           \/ IssuePut(c) \/ IssueDeliver(c)
                           \/ ChallengeLapses(c) \/ ReceiptLapses(c)
  \/ \E r \in Requests, c \in Challenges, right \in BOOLEAN,
        kind \in {"login", "proof", "start"}, start \in Starts \cup {none} :
        Verify(r, c, right, kind, start)
  \/ \E r \in Requests : \/ ReadAuthState(r) \/ ReadChallenge(r)
                         \/ ReadForFailure(r) \/ WriteFailure(r) \/ CountAttempt(r)
                         \/ ConsumeNow(r) \/ PrepareConsume(r) \/ ConsumeWithReceipt(r)
                         \/ ResetFailureState(r)
                         \/ PutGrant(r) \/ CommitInBatch(r) \/ ConsumeGrant(r)
                         \/ GrantLapses(r)
  \/ \E r, g \in Requests : ReadGrant(r, g)
  \/ LockoutEnds

Spec == Init /\ [][Next]_vars

-----------------------------------------------------------------------------
(* Properties                                                              *)

Steps == {"idle", "checking", "reading", "failing", "recording", "counting", "consuming",
          "resetting", "granting", "committing", "unsealing", "answered"}
Replies == {"none", "ok", "conflict", "limited", "locked", "invalid", "wrong", "internal",
            "aborted"}
Rows == [state : {"unused", "live", "lapsed", "gone"}, attempts : 0 .. MaxAttempts - 1]
Issues == [pc : {"none", "asked", "counting", "trimming", "delivering", "done"},
           surplus : Nat]
Calls == [pc : Steps, kind : {"login", "proof", "start", "unseal"},
          challenge : Challenges \cup {none}, right : BOOLEAN, start : Starts \cup {none},
          failed : BOOLEAN, seen : 0 .. MaxAttempts - 1, locked : BOOLEAN,
          source : Requests \cup {none}, reply : Replies]

\* Every value has its type, and no count that a request stores or reads has
\* reached maxAttempts: a challenge at the limit is deleted, never kept.
TypeOK ==
  /\ row \in [Challenges -> Rows]
  /\ issue \in [Challenges -> Issues]
  /\ auth \in {"clean", "failed", "locked"}
  /\ receipt \in [Challenges -> Starts \cup {none, "lapsed"}]
  /\ grant \in [Requests -> {"none", "live", "lapsed", "used"}]
  /\ req \in [Requests -> Calls]

Told(r, kind) == req[r].pc = "answered" /\ req[r].reply = "ok" /\ req[r].kind = kind

\* What a challenge has been used for: a committed batch, a consumed grant or
\* a confirmed registration start.
Uses(c) ==
  {<<"proof", r>> : r \in {q \in Requests : Told(q, "proof") /\ req[q].challenge = c}}
    \cup {<<"unseal", r>> : r \in {q \in Requests :
             Told(q, "unseal") /\ req[req[q].source].challenge = c}}
    \cup {<<"start", req[r].start>> : r \in {q \in Requests :
             Told(q, "start") /\ req[q].challenge = c}}

\* One mailed code authorizes one thing, whatever verifications, failed
\* attempts, replacements and expiries of the challenge run at the same time.
ChallengeUsedOnce == \A c \in Challenges : \A x, y \in Uses(c) : x = y

\* A registration start that has been confirmed stays confirmed: until the
\* receipt expires its exact retry is told ok at once, with the challenge gone,
\* the rate limit spent or the wallet locked.  ("a batch that never commits
\* leaves the challenge usable", and one that did leaves its receipt.)
RetryOfConfirmedStart ==
  [][\A r, q \in Requests :
       /\ req[r].pc = "idle" /\ req'[r].pc # "idle" /\ req'[r].kind = "start"
       /\ Told(q, "start") /\ req[q].challenge = req'[r].challenge
       /\ req[q].start = req'[r].start /\ req'[r].right
       /\ receipt[req[q].challenge] # "lapsed"
       => req'[r].reply = "ok"]_vars
=============================================================================
