--------------------------- MODULE EmailOtpProofs ---------------------------
(***************************************************************************)
(* For any challenges, requests, starts and limits: the types, and that a  *)
(* challenge is used once.  The argument: whoever uses a challenge deleted *)
(* its row first (Winners), a deleted row never comes back (Fresh), and    *)
(* the two indirect uses, the grant and the receipt, name the request or   *)
(* the start that deleted it (Grants, Receipts).                           *)
(***************************************************************************)
EXTENDS EmailOtpChallenges, FiniteSetTheorems, TLAPS

\* A request that works on a challenge.
Busy(r) ==
  req[r].pc \in {"checking", "reading", "failing", "recording", "counting",
                 "consuming", "resetting", "granting", "committing"}

\* A request that has consumed the challenge it names.
Consumed(r) ==
  \/ req[r].kind \in {"login", "start"} /\ req[r].pc \in {"resetting", "granting"}
  \/ Told(r, "login") \/ Told(r, "proof") \/ Told(r, "start")

\* What a request holds, by the step it is at.
Shape(r) ==
  /\ Busy(r) \/ Consumed(r) =>
       /\ req[r].challenge \in Challenges
       /\ row[req[r].challenge].state # "unused"
       /\ req[r].kind \in Kinds(req[r].challenge)
       /\ req[r].kind = "start" => req[r].start \in Starts
  /\ req[r].pc = "granting" => req[r].kind = "login"
  /\ req[r].pc = "committing" => req[r].kind = "proof"
  /\ req[r].pc = "unsealing" => req[r].kind = "unseal"
  /\ req[r].kind = "unseal" =>
       /\ req[r].pc \in {"unsealing", "answered"}
       /\ req[r].source \in Requests /\ grant[req[r].source] # "none"

RequestShape == \A r \in Requests : Shape(r)

\* A challenge that is still being issued has no row yet.
Fresh ==
  \A c \in Challenges :
    issue[c].pc \in {"none", "asked", "counting", "trimming"} => row[c].state = "unused"

\* A consumed challenge is gone, and only starts share one.
Winners ==
  \A r \in Requests :
    Consumed(r) =>
      /\ row[req[r].challenge].state = "gone"
      /\ \A q \in Requests :
           Consumed(q) /\ req[q].challenge = req[r].challenge => q = r \/ req[r].kind = "start"

\* The receipt of a challenge names the start that consumed it.
Receipts ==
  /\ \A c \in Challenges : receipt[c] # none => row[c].state = "gone"
  /\ \A r \in Requests :
       Consumed(r) /\ req[r].kind = "start" =>
         receipt[req[r].challenge] \in {req[r].start, "lapsed"}
  /\ \A r, q \in Requests :
       /\ Consumed(r) /\ Consumed(q) /\ req[r].kind = "start" /\ req[q].kind = "start"
       /\ req[r].challenge = req[q].challenge
       => req[r].start = req[q].start

\* A grant was stored by a login that is over, and is used by one request.
Grants ==
  /\ \A r \in Requests : grant[r] # "none" => Told(r, "login")
  /\ \A r \in Requests : Told(r, "unseal") => grant[req[r].source] = "used"
  /\ \A r, q \in Requests :
       Told(r, "unseal") /\ Told(q, "unseal") /\ req[r].source = req[q].source => r = q

OtpInv == TypeOK /\ RequestShape /\ Fresh /\ Winners /\ Receipts /\ Grants

-----------------------------------------------------------------------------
(* Rows                                                                    *)

\* A row that is gone stays gone, and a challenge that has been issued is not
\* issued again.
RowsKeep ==
  \A c \in Challenges : /\ row[c].state # "unused" => row'[c].state # "unused"
                        /\ row[c].state = "gone" => row'[c].state = "gone"

\* A challenge that has no row gets none, and one whose expiry has passed is gone.
Prunes ==
  \A c \in Challenges : /\ row[c].state = "unused" => row'[c].state = "unused"
                        /\ row[c].state = "lapsed" => row'[c].state = "gone"

\* Deleting an issued challenge is such a step, and so is doing nothing.
LEMMA DeleteKeeps ==
  ASSUME row \in [Challenges -> Rows], NEW c \in Challenges, Delete(c)
  PROVE  /\ row' \in [Challenges -> Rows]
         /\ row'[c].state = "gone"
         /\ \A d \in Challenges : d # c => row'[d] = row[d]
         /\ RowsKeep
<1>1. Gone \in Rows /\ Gone.state = "gone"
  BY LimitAssumption DEF Gone, Rows
<1>2. row' = [row EXCEPT ![c] = Gone]
  BY DEF Delete
<1> QED BY <1>1, <1>2 DEF RowsKeep

\* pruneExpired deletes only rows whose expiry has passed.
LEMMA PruneKeeps ==
  row \in [Challenges -> Rows] /\ row' = Pruned
    => row' \in [Challenges -> Rows] /\ RowsKeep /\ Prunes
<1> SUFFICES ASSUME row \in [Challenges -> Rows], row' = Pruned
             PROVE  row' \in [Challenges -> Rows] /\ RowsKeep /\ Prunes
  OBVIOUS
<1>1. Gone \in Rows /\ Gone.state = "gone"
  BY LimitAssumption DEF Gone, Rows
<1>2. \A c \in Challenges : row'[c] = IF row[c].state = "lapsed" THEN Gone ELSE row[c]
  BY DEF Pruned
<1>3. row' \in [Challenges -> Rows]
  BY <1>1, <1>2 DEF Pruned
<1> QED BY <1>1, <1>2, <1>3 DEF RowsKeep, Prunes

-----------------------------------------------------------------------------
(* Requests                                                                *)

\* The other requests do not move.
OnlyMoves(r) == \A q \in Requests : q # r => req'[q] = req[q]

\* What a request holds after an answer.
LEMMA AnswerFacts ==
  ASSUME req \in [Requests -> Calls], NEW r \in Requests, NEW reply \in Replies,
         Answer(r, reply)
  PROVE  /\ req' \in [Requests -> Calls] /\ OnlyMoves(r)
         /\ req'[r].pc = "answered" /\ req'[r].reply = reply
         /\ reply = "ok" => /\ req'[r].kind = req[r].kind
                            /\ req'[r].challenge = req[r].challenge
                            /\ req'[r].start = req[r].start
                            /\ req'[r].source = req[r].source
         /\ reply # "ok" => req'[r].kind = "login"
<1> DEFINE ok == [req[r] EXCEPT !.pc = "answered", !.reply = reply, !.failed = FALSE, !.seen = 0]
           no == [Idle EXCEPT !.pc = "answered", !.reply = reply]
<1>0. req[r] \in Calls /\ 0 \in 0 .. MaxAttempts - 1
  BY LimitAssumption
<1>1. ok \in Calls /\ ok.pc = "answered" /\ ok.reply = reply /\ ok.kind = req[r].kind
      /\ ok.challenge = req[r].challenge /\ ok.start = req[r].start
      /\ ok.source = req[r].source
  BY <1>0 DEF Calls, Steps
<1>2. no \in Calls /\ no.pc = "answered" /\ no.reply = reply /\ no.kind = "login"
  BY <1>0 DEF Calls, Steps, Idle
<1>3. req' = [req EXCEPT ![r] = IF reply = "ok" THEN ok ELSE no]
  BY DEF Answer
<1> HIDE DEF ok, no
<1> QED BY <1>1, <1>2, <1>3 DEF OnlyMoves

\* Receipts and grants at most lapse.
Lapse ==
  /\ \A c \in Challenges : /\ receipt'[c] \in {receipt[c], "lapsed"}
                           /\ receipt[c] = none => receipt'[c] = none
  /\ \A r \in Requests : /\ grant[r] # "none" => grant'[r] # "none"
                         /\ grant[r] = "none" => grant'[r] = "none"
                         /\ grant[r] = "used" => grant'[r] = "used"

\* A step that leaves the requests alone.
LEMMA StillKeeps ==
  OtpInv /\ RowsKeep /\ UNCHANGED req /\ Lapse
    => RequestShape' /\ Winners' /\ Receipts' /\ Grants'
<1> SUFFICES ASSUME OtpInv, RowsKeep, UNCHANGED req, Lapse
             PROVE  RequestShape' /\ Winners' /\ Receipts' /\ Grants'
  OBVIOUS
<1> USE DEF OtpInv
<1>1. \A r \in Requests : /\ Consumed(r)' <=> Consumed(r)
                          /\ \A k : Told(r, k)' <=> Told(r, k)
                          /\ Busy(r)' <=> Busy(r)
                          /\ req'[r] = req[r]
  BY DEF Consumed, Told, Busy
<1>2. RequestShape'
  <2> SUFFICES ASSUME NEW r \in Requests PROVE Shape(r)'
    BY DEF RequestShape
  <2>1. Shape(r)
    BY DEF RequestShape
  <2> QED BY <1>1, <2>1 DEF Shape, RowsKeep, Kinds, Lapse
<1>3. Winners'
  BY <1>1 DEF Winners, RequestShape, Shape, RowsKeep
<1>4. Receipts'
  <2>1. \A r \in Requests : Consumed(r) => req[r].challenge \in Challenges
    BY DEF RequestShape, Shape
  <2> QED BY <1>1, <2>1 DEF Receipts, RowsKeep, Lapse
<1>5. Grants'
  <2>1. \A r \in Requests : Told(r, "unseal") => req[r].source \in Requests
    BY DEF RequestShape, Shape, Told
  <2> QED BY <1>1, <2>1 DEF Grants, Lapse
<1> QED BY <1>2, <1>3, <1>4, <1>5

\* A step of one request that has consumed nothing, before or after it.
LEMMA QuietKeeps ==
  ASSUME OtpInv, RowsKeep, UNCHANGED <<receipt, grant>>, NEW r \in Requests, OnlyMoves(r),
         ~Consumed(r), ~Told(r, "unseal"), Shape(r)', ~Consumed(r)', ~Told(r, "unseal")'
  PROVE  RequestShape' /\ Winners' /\ Receipts' /\ Grants'
<1> USE DEF OtpInv
<1>1. \A q \in Requests : q # r => /\ Consumed(q)' <=> Consumed(q)
                                   /\ \A k : Told(q, k)' <=> Told(q, k)
                                   /\ Busy(q)' <=> Busy(q)
                                   /\ req'[q] = req[q]
  BY DEF Consumed, Told, Busy, OnlyMoves
<1>2. grant[r] = "none"
  BY DEF Grants, Consumed
<1>3. RequestShape'
  <2>1. ASSUME NEW q \in Requests, q # r PROVE Shape(q)'
    BY <1>1, <2>1 DEF RequestShape, Shape, RowsKeep, Kinds
  <2> QED BY <2>1 DEF RequestShape
<1>4. Winners'
  BY <1>1 DEF Winners, RequestShape, Shape, RowsKeep
<1>5. Receipts'
  BY <1>1 DEF Receipts, RowsKeep
<1>6. Grants'
  BY <1>1, <1>2 DEF Grants
<1> QED BY <1>3, <1>4, <1>5, <1>6

\* A step by which one request consumes its challenge, or joins the start that
\* did.
LEMMA WinKeeps ==
  ASSUME OtpInv, RowsKeep, UNCHANGED grant, NEW r \in Requests, OnlyMoves(r),
         ~Consumed(r), ~Told(r, "unseal"), Shape(r)', Consumed(r)', ~Told(r, "unseal")',
         NEW c \in Challenges, req'[r].challenge = c, row'[c].state = "gone",
         \A d \in Challenges : d # c => receipt'[d] = receipt[d],
         \/ /\ row[c].state # "gone"
            /\ req'[r].kind = "start" => receipt'[c] = req'[r].start
            /\ req'[r].kind # "start" => receipt'[c] = receipt[c]
         \/ /\ receipt' = receipt /\ req'[r].kind = "start"
            /\ receipt[c] = req'[r].start /\ req'[r].start \in Starts
  PROVE  RequestShape' /\ Winners' /\ Receipts' /\ Grants'
<1> USE DEF OtpInv
<1>1. \A q \in Requests : q # r => /\ Consumed(q)' <=> Consumed(q)
                                   /\ \A k : Told(q, k)' <=> Told(q, k)
                                   /\ Busy(q)' <=> Busy(q)
                                   /\ req'[q] = req[q]
  BY DEF Consumed, Told, Busy, OnlyMoves
<1>2. grant[r] = "none"
  BY DEF Grants, Consumed
<1>3. RequestShape'
  <2>1. ASSUME NEW q \in Requests, q # r PROVE Shape(q)'
    BY <1>1, <2>1 DEF RequestShape, Shape, RowsKeep, Kinds
  <2> QED BY <2>1 DEF RequestShape
<1>4. ASSUME NEW q \in Requests, q # r, Consumed(q), req[q].challenge = c
      PROVE  /\ req'[r].kind = "start" /\ req[q].kind = "start"
             /\ req[q].start = req'[r].start /\ receipt' = receipt
  <2>1. row[c].state = "gone"
    BY <1>4 DEF Winners
  <2>2. req'[r].kind = "start" /\ receipt[c] = req'[r].start /\ req'[r].start \in Starts
        /\ receipt' = receipt
    BY <2>1
  <2>3. "start" \in Kinds(c) /\ req[q].kind \in Kinds(c)
    BY <2>2, <1>4 DEF RequestShape, Shape, Kinds
  <2>4. req[q].kind = "start"
    BY <2>3, DisjointAssumption DEF Kinds
  <2> QED BY <1>4, <2>2, <2>4, NoneAssumption DEF Receipts
<1>5. Winners'
  BY <1>1, <1>4 DEF Winners, RequestShape, Shape, RowsKeep
<1>6. Receipts'
  <2>1. \A d \in Challenges : receipt'[d] # none => row'[d].state = "gone"
    BY DEF Receipts, RowsKeep
  <2>2. ASSUME NEW q \in Requests, Consumed(q)', req'[q].kind = "start"
        PROVE  receipt'[req'[q].challenge] \in {req'[q].start, "lapsed"}
    <3>1. CASE q = r
      BY <2>2, <3>1
    <3>2. CASE q # r /\ req[q].challenge = c
      BY <1>1, <1>4, <2>2, <3>2 DEF Receipts
    <3>3. CASE q # r /\ req[q].challenge # c
      BY <1>1, <2>2, <3>3 DEF Receipts, RequestShape, Shape
    <3> QED BY <3>1, <3>2, <3>3
  <2>3. ASSUME NEW q \in Requests, NEW p \in Requests, Consumed(q)', Consumed(p)',
               req'[q].kind = "start", req'[p].kind = "start",
               req'[q].challenge = req'[p].challenge
        PROVE  req'[q].start = req'[p].start
    BY <1>1, <1>4, <2>3 DEF Receipts
  <2> QED BY <2>1, <2>2, <2>3 DEF Receipts
<1>7. Grants'
  BY <1>1, <1>2 DEF Grants
<1> QED BY <1>3, <1>5, <1>6, <1>7

\* A later step of a request that has consumed its challenge; it may store the
\* grant that belongs to it.
LEMMA StayKeeps ==
  ASSUME OtpInv, RowsKeep, UNCHANGED receipt, NEW r \in Requests, OnlyMoves(r),
         Consumed(r), req[r].pc # "answered", Consumed(r)', ~Told(r, "unseal")',
         req'[r].kind = req[r].kind, req'[r].challenge = req[r].challenge,
         req'[r].start = req[r].start, req'[r].pc = "granting" => req'[r].kind = "login",
         req'[r].pc \notin {"committing", "unsealing"},
         \A q \in Requests : q # r => grant'[q] = grant[q],
         grant'[r] # "none" => Told(r, "login")'
  PROVE  RequestShape' /\ Winners' /\ Receipts' /\ Grants'
<1> USE DEF OtpInv
<1>1. \A q \in Requests : q # r => /\ Consumed(q)' <=> Consumed(q)
                                   /\ \A k : Told(q, k)' <=> Told(q, k)
                                   /\ Busy(q)' <=> Busy(q)
                                   /\ req'[q] = req[q]
  BY DEF Consumed, Told, Busy, OnlyMoves
<1>2. grant[r] = "none" /\ req[r].kind # "unseal"
  BY DEF Grants, Told, Consumed
<1>3. RequestShape'
  <2>1. ASSUME NEW q \in Requests, q # r PROVE Shape(q)'
    BY <1>1, <1>2, <2>1 DEF RequestShape, Shape, RowsKeep, Kinds
  <2>2. Shape(r)'
    BY <1>2 DEF RequestShape, Shape, RowsKeep, Kinds
  <2> QED BY <2>1, <2>2 DEF RequestShape
<1>4. Winners'
  BY <1>1 DEF Winners, RequestShape, Shape, RowsKeep
<1>5. Receipts'
  BY <1>1 DEF Receipts, RowsKeep
<1>6. Grants'
  BY <1>1, <1>2 DEF Grants, RequestShape, Shape, Told
<1> QED BY <1>3, <1>4, <1>5, <1>6

-----------------------------------------------------------------------------
(* The actions                                                             *)

\* Issuing, replacing and mailing a challenge.
LEMMA IssueStep ==
  ASSUME OtpInv, NEW c \in Challenges,
         \/ IssueCheck(c) \/ IssueCount(c) \/ IssueTrim(c) \/ IssuePut(c) \/ IssueDeliver(c)
  PROVE  OtpInv'
<1>1. UNCHANGED <<auth, receipt, grant, req>>
  BY DEF IssueCheck, IssueCount, IssueTrim, IssuePut, IssueDeliver
<1>2. row \in [Challenges -> Rows] /\ issue \in [Challenges -> Issues]
  BY DEF OtpInv, TypeOK
<1> DEFINE Goal == /\ row' \in [Challenges -> Rows] /\ issue' \in [Challenges -> Issues]
                   /\ RowsKeep /\ Fresh'
<1>3. SUFFICES Goal
  <2>1. TypeOK'
    BY <1>1, <1>3 DEF OtpInv, TypeOK
  <2>2. RequestShape' /\ Winners' /\ Receipts' /\ Grants'
    <3>1. RowsKeep /\ UNCHANGED req /\ Lapse
      BY <1>1, <1>3 DEF Lapse
    <3> QED BY <3>1, StillKeeps
  <2> QED BY <1>3, <2>1, <2>2 DEF OtpInv
<1>4. CASE IssueCheck(c)
  BY <1>2, <1>4 DEF IssueCheck, Issues, RowsKeep, OtpInv, Fresh
<1>5. CASE IssueCount(c)
  <2>1. Cardinality(Active(Context(c))) \in Nat
    <3>1. Active(Context(c)) \subseteq Challenges
      BY DEF Active, Context, Challenges
    <3> QED BY <3>1, FiniteAssumption, FS_Subset, FS_CardinalityType
  <2>2. PICK k \in Nat : issue' = [issue EXCEPT ![c] = [pc |-> "trimming", surplus |-> k]]
    <3> DEFINE n == Cardinality(Active(Context(c)))
               k == IF n < MaxActive THEN 0 ELSE n + 1 - MaxActive
    <3>1. issue' = [issue EXCEPT ![c] = [pc |-> "trimming", surplus |-> k]]
      BY <1>5 DEF IssueCount
    <3>2. k \in Nat
      BY <2>1, LimitAssumption
    <3> HIDE DEF k
    <3> QED BY <3>1, <3>2
  <2>3. issue' \in [Challenges -> Issues]
    BY <1>2, <2>2 DEF Issues
  <2>4. row' = Pruned
    BY <1>5 DEF IssueCount
  <2>5. row' \in [Challenges -> Rows] /\ RowsKeep /\ Prunes
    BY <1>2, <2>4, PruneKeeps
  <2>6. issue[c].pc = "counting" /\ \A d \in Challenges : d # c => issue'[d] = issue[d]
    BY <1>2, <1>5, <2>2 DEF IssueCount
  <2> QED BY <2>3, <2>5, <2>6 DEF OtpInv, Fresh, Prunes
<1>6. CASE IssueTrim(c)
  <2>1. issue' \in [Challenges -> Issues] /\ \A d \in Challenges : issue'[d].pc = issue[d].pc
    BY <1>2, <1>6 DEF IssueTrim, Issues
  <2>2. CASE UNCHANGED row
    BY <1>2, <2>1, <2>2 DEF RowsKeep, OtpInv, Fresh
  <2>3. CASE \E d \in Active(Context(c)) : Delete(d)
    <3>1. PICK d \in Active(Context(c)) : Delete(d)
      BY <2>3
    <3>2. d \in Challenges /\ row[d].state = "live"
      BY <3>1 DEF Active, Context, Challenges
    <3>3. row' \in [Challenges -> Rows] /\ RowsKeep
          /\ \A e \in Challenges : e # d => row'[e] = row[e]
      BY <1>2, <3>1, <3>2, DeleteKeeps
    <3> QED BY <2>1, <3>2, <3>3 DEF OtpInv, Fresh
  <2> QED BY <1>6, <2>2, <2>3 DEF IssueTrim
<1>7. CASE IssuePut(c)
  <2>1. New \in Rows /\ New.state = "live"
    BY LimitAssumption DEF New, Rows
  <2>2. row[c].state = "unused" /\ row' = [row EXCEPT ![c] = New]
    BY <1>7 DEF IssuePut, OtpInv, Fresh
  <2>3. issue' \in [Challenges -> Issues] /\ issue'[c].pc = "delivering"
        /\ \A d \in Challenges : d # c => issue'[d] = issue[d]
    BY <1>2, <1>7 DEF IssuePut, Issues
  <2> QED BY <1>2, <2>1, <2>2, <2>3 DEF RowsKeep, OtpInv, Fresh
<1>8. CASE IssueDeliver(c)
  <2>1. issue' \in [Challenges -> Issues] /\ issue'[c].pc = "done"
        /\ \A d \in Challenges : d # c => issue'[d] = issue[d]
    BY <1>2, <1>8 DEF IssueDeliver, Issues
  <2>2. CASE UNCHANGED row
    BY <1>2, <2>1, <2>2 DEF RowsKeep, OtpInv, Fresh
  <2>3. CASE Delete(c)
    <3>1. row' \in [Challenges -> Rows] /\ RowsKeep
          /\ \A e \in Challenges : e # c => row'[e] = row[e]
      BY <1>2, <2>3, DeleteKeeps
    <3> QED BY <2>1, <3>1 DEF OtpInv, Fresh
  <2> QED BY <1>8, <2>2, <2>3 DEF IssueDeliver
<1> QED BY <1>4, <1>5, <1>6, <1>7, <1>8

\* The passage of time.
LEMMA TimeStep ==
  ASSUME OtpInv,
         \/ \E c \in Challenges : ChallengeLapses(c) \/ ReceiptLapses(c)
         \/ \E r \in Requests : GrantLapses(r)
         \/ LockoutEnds
  PROVE  OtpInv'
<1>1. UNCHANGED <<issue, req>>
  BY DEF ChallengeLapses, ReceiptLapses, GrantLapses, LockoutEnds, challengeVars
<1>2. TypeOK
  BY DEF OtpInv
<1>3. TypeOK' /\ RowsKeep /\ Fresh' /\ Lapse
  <2> USE DEF Lapse
  <2>1. CASE \E c \in Challenges : ChallengeLapses(c)
    <3>1. PICK c \in Challenges : ChallengeLapses(c)
      BY <2>1
    <3>2. row' \in [Challenges -> Rows] /\ row'[c].state = "lapsed" /\ row[c].state = "live"
          /\ \A d \in Challenges : d # c => row'[d] = row[d]
      BY <1>2, <3>1 DEF ChallengeLapses, TypeOK, Rows
    <3>3. UNCHANGED <<issue, auth, receipt, grant, req>>
      BY <3>1 DEF ChallengeLapses
    <3> QED BY <1>2, <3>2, <3>3 DEF TypeOK, RowsKeep, OtpInv, Fresh
  <2>2. CASE \E c \in Challenges : ReceiptLapses(c)
    <3>1. PICK c \in Challenges : ReceiptLapses(c)
      BY <2>2
    <3>2. UNCHANGED <<row, issue, auth, grant, req>> /\ receipt[c] # none
          /\ receipt' = [receipt EXCEPT ![c] = "lapsed"]
      BY <3>1, NoneAssumption DEF ReceiptLapses, challengeVars
    <3> QED BY <1>2, <3>2 DEF TypeOK, RowsKeep, OtpInv, Fresh
  <2>3. CASE \E r \in Requests : GrantLapses(r)
    BY <1>2, <2>3 DEF GrantLapses, challengeVars, TypeOK, RowsKeep, OtpInv, Fresh
  <2>4. CASE LockoutEnds
    BY <1>2, <2>4 DEF LockoutEnds, challengeVars, TypeOK, RowsKeep, OtpInv, Fresh
  <2> QED BY <2>1, <2>2, <2>3, <2>4
<1>4. RequestShape' /\ Winners' /\ Receipts' /\ Grants'
  <2>1. UNCHANGED req
    BY <1>1
  <2> QED BY <1>3, <2>1, StillKeeps
<1> QED BY <1>3, <1>4 DEF OtpInv

\* A request arrives, or is answered from a receipt.
LEMMA VerifyStep ==
  ASSUME OtpInv, NEW r \in Requests, NEW c \in Challenges, NEW right \in BOOLEAN,
         NEW kind \in {"login", "proof", "start"}, NEW start \in Starts \cup {none},
         Verify(r, c, right, kind, start)
  PROVE  OtpInv'
<1> DEFINE new == [Idle EXCEPT !.pc = "checking", !.kind = kind, !.challenge = c,
                               !.right = right, !.start = start]
           replied(reply) == [new EXCEPT !.pc = "answered", !.reply = reply]
           to(x) == /\ x \in Calls /\ x.kind = kind /\ x.challenge = c /\ x.start = start
                    /\ x.source = none
<1>1. TypeOK /\ req[r].pc = "idle" /\ row[c].state # "unused" /\ kind \in Kinds(c)
      /\ (kind = "start" => start \in Starts) /\ UNCHANGED <<row, issue, receipt, grant>>
  BY DEF Verify, OtpInv, challengeVars
<1>2. to(new) /\ new.pc = "checking"
  <2>1. 0 \in 0 .. MaxAttempts - 1
    BY LimitAssumption
  <2> QED BY <2>1 DEF Calls, Steps, Replies, Idle
<1>3. ASSUME NEW reply \in Replies
      PROVE  to(replied(reply)) /\ replied(reply).pc = "answered"
             /\ replied(reply).reply = reply
  <2>1. 0 \in 0 .. MaxAttempts - 1
    BY LimitAssumption
  <2> QED BY <2>1 DEF Calls, Steps, Idle
<1>4. PICK x \in {new, replied("limited"), replied("ok"), replied("conflict")} :
        /\ req' = [req EXCEPT ![r] = x]
        /\ x = replied("ok") =>
             receipt[c] \in Starts /\ kind = "start" /\ receipt[c] = start
  <2>1. replied("limited").reply = "limited" /\ replied("ok").reply = "ok"
        /\ replied("conflict").reply = "conflict" /\ new.pc = "checking"
        /\ replied("ok").pc = "answered"
    BY <1>2, <1>3 DEF Replies
  <2> HIDE DEF new, replied
  <2>2. \/ \E x \in {new, replied("limited")} : req' = [req EXCEPT ![r] = x]
        \/ req' = [req EXCEPT ![r] = replied("conflict")]
        \/ /\ req' = [req EXCEPT ![r] = replied("ok")]
           /\ receipt[c] \in Starts /\ kind = "start" /\ receipt[c] = start
    BY DEF Verify, new, replied
  <2> QED BY <2>1, <2>2
<1>5. auth' \in {auth, "clean"}
  BY DEF Verify
<1>6. to(x) /\ (x.pc = "checking" \/ (x.pc = "answered" /\ x.reply \in {"limited", "ok", "conflict"}))
      /\ (x.pc = "answered" /\ x.reply = "ok" => x = replied("ok"))
  <2>1. to(replied("limited")) /\ replied("limited").reply = "limited"
        /\ replied("limited").pc = "answered"
        /\ to(replied("conflict")) /\ replied("conflict").reply = "conflict"
        /\ replied("conflict").pc = "answered"
        /\ to(replied("ok")) /\ replied("ok").reply = "ok" /\ replied("ok").pc = "answered"
    BY <1>3 DEF Replies
  <2> HIDE DEF new, replied
  <2>2. CASE x = new
    BY <1>2, <2>2
  <2>3. CASE x = replied("ok")
    BY <2>1, <2>3
  <2>4. CASE x = replied("limited") \/ x = replied("conflict")
    BY <2>1, <2>4
  <2> QED BY <1>4, <2>2, <2>3, <2>4
<1> HIDE DEF new, replied
<1>7. req' \in [Requests -> Calls] /\ OnlyMoves(r) /\ req'[r] = x
  BY <1>1, <1>4, <1>6 DEF TypeOK, OnlyMoves
<1>8. TypeOK' /\ RowsKeep /\ Fresh'
  BY <1>1, <1>5, <1>7 DEF TypeOK, RowsKeep, OtpInv, Fresh
<1>9. ~Consumed(r) /\ ~Told(r, "unseal") /\ ~Told(r, "unseal")' /\ Shape(r)'
  <2>1. ~Consumed(r) /\ ~Told(r, "unseal")
    BY <1>1 DEF Consumed, Told
  <2>2. ~Told(r, "unseal")' /\ Shape(r)'
    BY <1>1, <1>6, <1>7 DEF Told, Shape, Kinds
  <2> QED BY <2>1, <2>2
<1>10. CASE x.pc = "answered" /\ x.reply = "ok"
  <2>1. receipt[c] = start /\ start \in Starts /\ kind = "start" /\ row[c].state = "gone"
    BY <1>4, <1>6, <1>10, NoneAssumption DEF OtpInv, Receipts
  <2>2. Consumed(r)' /\ req'[r].challenge = c /\ req'[r].kind = "start"
        /\ req'[r].start = start /\ row'[c].state = "gone"
    BY <1>1, <1>6, <1>7, <1>10, <2>1 DEF Consumed, Told
  <2>3. RequestShape' /\ Winners' /\ Receipts' /\ Grants'
    BY <1>1, <1>7, <1>8, <1>9, <2>1, <2>2, WinKeeps
  <2> QED BY <1>8, <2>3 DEF OtpInv
<1>11. CASE ~(x.pc = "answered" /\ x.reply = "ok")
  <2>1. ~Consumed(r)'
    BY <1>6, <1>7, <1>11 DEF Consumed, Told
  <2>2. RequestShape' /\ Winners' /\ Receipts' /\ Grants'
    BY <1>1, <1>7, <1>8, <1>9, <2>1, QuietKeeps
  <2> QED BY <1>8, <2>2 DEF OtpInv
<1> QED BY <1>10, <1>11

\* What a step of a request on its challenge leaves alone.
Frame(r) ==
  /\ UNCHANGED issue /\ auth' \in {"clean", "failed", "locked"}
  /\ row' \in [Challenges -> Rows] /\ req' \in [Requests -> Calls]
  /\ RowsKeep /\ OnlyMoves(r)
  /\ \A c \in Challenges : row[c].state = "unused" => row'[c].state = "unused"

\* The step leads to another step of the same request, which has still consumed
\* nothing.
LEMMA AdvanceStep ==
  ASSUME OtpInv, NEW r \in Requests, Frame(r), UNCHANGED <<receipt, grant>>,
         Busy(r), ~Consumed(r), Busy(r)', ~Consumed(r)', req'[r].kind = req[r].kind,
         req'[r].challenge = req[r].challenge, req'[r].start = req[r].start,
         req'[r].pc # "granting", req'[r].pc = "committing" => req[r].kind = "proof"
  PROVE  OtpInv'
<1>1. Shape(r) /\ req[r].kind # "unseal" /\ req[r].pc \notin {"answered", "unsealing"}
  BY DEF OtpInv, RequestShape, Shape, Busy
<1>2. Shape(r)' /\ ~Told(r, "unseal") /\ ~Told(r, "unseal")'
  <2>1. Shape(r)'
    BY <1>1 DEF Shape, Busy, Frame, RowsKeep, Kinds
  <2>2. ~Told(r, "unseal") /\ ~Told(r, "unseal")'
    BY <1>1 DEF Told
  <2> QED BY <2>1, <2>2
<1>3. RowsKeep /\ OnlyMoves(r)
  BY DEF Frame
<1>4. RequestShape' /\ Winners' /\ Receipts' /\ Grants'
  BY <1>2, <1>3, QuietKeeps
<1>5. TypeOK' /\ Fresh'
  BY DEF Frame, OtpInv, TypeOK, Fresh
<1> QED BY <1>4, <1>5 DEF OtpInv

\* The step refuses a request that has consumed nothing.
LEMMA RefuseStep ==
  ASSUME OtpInv, NEW r \in Requests, NEW reply \in Replies \ {"ok"}, Answer(r, reply),
         row' \in [Challenges -> Rows], RowsKeep, UNCHANGED <<issue, auth, receipt, grant>>,
         \A c \in Challenges : row[c].state = "unused" => row'[c].state = "unused",
         ~Consumed(r), req[r].pc # "answered"
  PROVE  OtpInv'
<1>1. req \in [Requests -> Calls]
  BY DEF OtpInv, TypeOK
<1>2. /\ req' \in [Requests -> Calls] /\ OnlyMoves(r) /\ req'[r].pc = "answered"
      /\ req'[r].reply # "ok" /\ req'[r].kind = "login"
  BY <1>1, AnswerFacts
<1>3. ~Told(r, "unseal") /\ ~Told(r, "unseal")' /\ ~Consumed(r)' /\ Shape(r)'
  <2>1. ~Told(r, "unseal") /\ ~Told(r, "unseal")' /\ ~Consumed(r)' /\ ~Busy(r)'
    BY <1>2 DEF Told, Consumed, Busy
  <2> QED BY <1>2, <2>1 DEF Shape
<1>4. RequestShape' /\ Winners' /\ Receipts' /\ Grants'
  BY <1>2, <1>3, QuietKeeps
<1>5. TypeOK' /\ Fresh'
  BY <1>2 DEF OtpInv, TypeOK, Fresh
<1> QED BY <1>4, <1>5 DEF OtpInv

\* The step consumes the challenge of the request, or finds that its start has.
LEMMA ConsumeStep ==
  ASSUME OtpInv, NEW r \in Requests, Frame(r), UNCHANGED grant, Busy(r), ~Consumed(r),
         Consumed(r)', req'[r].kind = req[r].kind, req'[r].pc # "granting",
         req'[r].challenge = req[r].challenge, req'[r].start = req[r].start,
         row'[req[r].challenge].state = "gone",
         receipt' \in [Challenges -> Starts \cup {none, "lapsed"}],
         \A d \in Challenges : d # req[r].challenge => receipt'[d] = receipt[d],
         \/ /\ row[req[r].challenge].state # "gone"
            /\ req[r].kind = "start" => receipt'[req[r].challenge] = req[r].start
            /\ req[r].kind # "start" => receipt'[req[r].challenge] = receipt[req[r].challenge]
         \/ /\ receipt' = receipt /\ req[r].kind = "start"
            /\ receipt[req[r].challenge] = req[r].start /\ req[r].start \in Starts
  PROVE  OtpInv'
<1>1. Shape(r) /\ req[r].kind # "unseal" /\ req[r].pc \notin {"answered", "unsealing"}
      /\ req[r].challenge \in Challenges /\ row[req[r].challenge].state # "unused"
  BY DEF OtpInv, RequestShape, Shape, Busy
<1>2. ~Told(r, "unseal") /\ ~Told(r, "unseal")' /\ Shape(r)'
  <2>1. ~Told(r, "unseal") /\ ~Told(r, "unseal")' /\ req'[r].pc \in {"resetting", "answered"}
    BY <1>1 DEF Told, Consumed
  <2> QED BY <1>1, <2>1 DEF Shape, Busy, Kinds
<1>3. RowsKeep /\ OnlyMoves(r)
  BY DEF Frame
<1>4. RequestShape' /\ Winners' /\ Receipts' /\ Grants'
  BY <1>1, <1>2, <1>3, WinKeeps
<1>5. TypeOK' /\ Fresh'
  BY DEF Frame, OtpInv, TypeOK, Fresh
<1> QED BY <1>4, <1>5 DEF OtpInv

\* What a request keeps when it moves to another step.
Moves(r, pc) ==
  /\ req' \in [Requests -> Calls] /\ OnlyMoves(r) /\ req'[r].pc = pc
  /\ req'[r].kind = req[r].kind /\ req'[r].challenge = req[r].challenge
  /\ req'[r].start = req[r].start /\ req'[r].reply = req[r].reply

\* Moving to a step at which nothing is consumed yet.
LEMMA MoveStep ==
  ASSUME OtpInv, NEW r \in Requests, NEW pc \in {"reading", "failing", "recording",
           "counting", "consuming", "resetting", "committing"},
         Moves(r, pc), pc \in {"resetting", "committing"} => req[r].kind = "proof",
         UNCHANGED <<issue, receipt, grant>>, auth' \in {"clean", "failed", "locked"},
         row' \in [Challenges -> Rows], RowsKeep, Busy(r), ~Consumed(r),
         \A c \in Challenges : row[c].state = "unused" => row'[c].state = "unused"
  PROVE  OtpInv'
<1>1. Busy(r)' /\ ~Consumed(r)' /\ Frame(r)
  <2>1. Busy(r)' /\ ~Consumed(r)'
    BY DEF Moves, Busy, Consumed, Told
  <2>2. Frame(r)
    BY DEF Moves, Frame
  <2> QED BY <2>1, <2>2
<1>2. /\ req'[r].kind = req[r].kind /\ req'[r].challenge = req[r].challenge
      /\ req'[r].start = req[r].start /\ req'[r].pc # "granting"
      /\ (req'[r].pc = "committing" => req[r].kind = "proof")
  BY DEF Moves
<1> QED BY <1>1, <1>2, AdvanceStep

\* The steps of a verification before it consumes anything.
LEMMA CheckStep ==
  ASSUME OtpInv, NEW r \in Requests,
         \/ ReadAuthState(r) \/ ReadChallenge(r) \/ ReadForFailure(r) \/ WriteFailure(r)
         \/ PrepareConsume(r)
  PROVE  OtpInv'
<1>1. TypeOK /\ row \in [Challenges -> Rows] /\ req \in [Requests -> Calls]
  BY DEF OtpInv, TypeOK
<1>2. Busy(r) /\ ~Consumed(r) /\ UNCHANGED <<issue, receipt, grant>> /\ req[r].pc # "answered"
  BY DEF ReadAuthState, ReadChallenge, ReadForFailure, WriteFailure, PrepareConsume,
         Busy, Consumed, Told, challengeVars
<1>3. req[r].challenge \in Challenges
  BY <1>2 DEF OtpInv, RequestShape, Shape
<1>4. row' \in [Challenges -> Rows] /\ RowsKeep
      /\ \A c \in Challenges : row[c].state = "unused" => row'[c].state = "unused"
  <2>1. CASE row' = Pruned
    BY <1>1, <2>1, PruneKeeps DEF Prunes
  <2>2. CASE row' = row
    BY <1>1, <2>2 DEF RowsKeep
  <2> QED BY <2>1, <2>2 DEF ReadAuthState, ReadChallenge, ReadForFailure, WriteFailure,
                            PrepareConsume, challengeVars
<1>5. auth' \in {"clean", "failed", "locked"}
  BY <1>1 DEF ReadAuthState, ReadChallenge, ReadForFailure, WriteFailure, PrepareConsume,
              TypeOK
<1>6. ASSUME NEW reply \in Replies \ {"ok"}, Answer(r, reply), UNCHANGED auth
      PROVE  OtpInv'
  BY <1>2, <1>4, <1>6, RefuseStep
<1>7. ASSUME NEW pc \in {"reading", "failing", "recording", "counting", "consuming"},
             Moves(r, pc)
      PROVE  OtpInv'
  BY <1>2, <1>4, <1>5, <1>7, MoveStep
<1>8. CASE ReadAuthState(r)
  <2>1. CASE auth = "locked"
    BY <1>6, <1>8, <2>1 DEF ReadAuthState, Replies
  <2>2. CASE auth # "locked"
    <3>1. Moves(r, "reading")
      BY <1>1, <1>8, <2>2 DEF ReadAuthState, Moves, OnlyMoves, Calls, Steps
    <3> QED BY <1>7, <3>1
  <2> QED BY <2>1, <2>2
<1>9. CASE ReadChallenge(r)
  <2>1. CASE Pruned[req[r].challenge].state # "live"
    BY <1>6, <1>9, <2>1 DEF ReadChallenge, Replies
  <2>2. CASE Pruned[req[r].challenge].state = "live"
    <3>1. row[req[r].challenge].attempts \in 0 .. MaxAttempts - 1
      BY <1>1, <1>3 DEF Rows
    <3>2. PICK pc \in {"consuming", "failing"} :
            req' = [req EXCEPT ![r].pc = pc, ![r].seen = row[req[r].challenge].attempts]
      BY <1>9, <2>2 DEF ReadChallenge
    <3>3. Moves(r, pc)
      <4> DEFINE n == row[req[r].challenge].attempts
                 x == [req[r] EXCEPT !.pc = pc, !.seen = n]
      <4> HIDE DEF n
      <4>1. n \in 0 .. MaxAttempts - 1 /\ req[r] \in Calls
        BY <1>1, <3>1 DEF n
      <4>2. x \in Calls /\ x.pc = pc /\ x.kind = req[r].kind /\ x.start = req[r].start
            /\ x.challenge = req[r].challenge /\ x.reply = req[r].reply
        BY <4>1 DEF Calls, Steps
      <4>3. req' = [req EXCEPT ![r] = x]
        BY <3>2 DEF n
      <4> HIDE DEF x
      <4> QED BY <1>1, <4>2, <4>3 DEF Moves, OnlyMoves
    <3> QED BY <1>7, <3>3
  <2> QED BY <2>1, <2>2
<1>10. CASE ReadForFailure(r)
  <2>1. Moves(r, "recording")
    <3> DEFINE b == auth = "locked"
               x == [req[r] EXCEPT !.pc = "recording", !.locked = b]
    <3> HIDE DEF b
    <3>1. b \in BOOLEAN /\ req[r] \in Calls
      BY <1>1 DEF b
    <3>2. x \in Calls /\ x.pc = "recording" /\ x.kind = req[r].kind /\ x.start = req[r].start
          /\ x.challenge = req[r].challenge /\ x.reply = req[r].reply
      BY <3>1 DEF Calls, Steps
    <3>3. req' = [req EXCEPT ![r] = x]
      BY <1>10 DEF ReadForFailure, b
    <3> HIDE DEF x
    <3> QED BY <1>1, <3>2, <3>3 DEF Moves, OnlyMoves
  <2> QED BY <1>7, <2>1
<1>11. CASE WriteFailure(r)
  <2>1. Moves(r, "counting")
    BY <1>1, <1>11 DEF WriteFailure, Moves, OnlyMoves, Calls, Steps
  <2> QED BY <1>7, <2>1
<1>12. CASE PrepareConsume(r)
  <2>1. Moves(r, "resetting") /\ req[r].kind = "proof"
    BY <1>1, <1>12 DEF PrepareConsume, Moves, OnlyMoves, Calls, Steps
  <2> QED BY <1>2, <1>4, <1>5, <2>1, MoveStep
<1> QED BY <1>8, <1>9, <1>10, <1>11, <1>12

\* A wrong code is counted, or ends the challenge.
LEMMA CountStep ==
  ASSUME OtpInv, NEW r \in Requests, CountAttempt(r)
  PROVE  OtpInv'
<1> DEFINE c == req[r].challenge
<1>1. row \in [Challenges -> Rows] /\ req \in [Requests -> Calls]
  BY DEF OtpInv, TypeOK
<1>2. Busy(r) /\ ~Consumed(r) /\ req[r].pc # "answered" /\ Answer(r, "wrong")
      /\ UNCHANGED <<issue, auth, receipt, grant>>
  BY DEF CountAttempt, Busy, Consumed, Told
<1>3. c \in Challenges /\ row[c].state # "unused"
  BY <1>2 DEF OtpInv, RequestShape, Shape
<1>4. row' \in [Challenges -> Rows] /\ RowsKeep
      /\ \A d \in Challenges : row[d].state = "unused" => row'[d].state = "unused"
  <2>1. CASE Exhausts(r)
    <3>1. Delete(c)
      BY <2>1 DEF CountAttempt
    <3> HIDE DEF c
    <3>2. row' \in [Challenges -> Rows] /\ RowsKeep
          /\ \A d \in Challenges : d # c => row'[d] = row[d]
      BY <1>1, <1>3, <3>1, DeleteKeeps
    <3> QED BY <1>3, <3>2
  <2>2. CASE ~Exhausts(r) /\ Stored(c)
    <3> DEFINE n == req[r].seen + 1
    <3>1. n \in 0 .. MaxAttempts - 1
      BY <1>1, <2>2, LimitAssumption DEF Calls, Exhausts
    <3>2. row' = [row EXCEPT ![c].attempts = n]
      BY <2>2 DEF CountAttempt
    <3> HIDE DEF c, n
    <3> QED BY <1>1, <1>3, <3>1, <3>2 DEF Rows, RowsKeep
  <2>3. CASE ~Exhausts(r) /\ ~Stored(c)
    <3>1. row' = row
      BY <2>3 DEF CountAttempt
    <3> QED BY <1>1, <3>1 DEF RowsKeep
  <2> QED BY <2>1, <2>2, <2>3
<1> QED BY <1>2, <1>4, RefuseStep DEF Replies

\* Consuming at once: a login.
LEMMA LoginStep ==
  ASSUME OtpInv, NEW r \in Requests, ConsumeNow(r)
  PROVE  OtpInv'
<1> DEFINE c == req[r].challenge
<1>1. row \in [Challenges -> Rows] /\ req \in [Requests -> Calls] /\ TypeOK
  BY DEF OtpInv, TypeOK
<1>2. Busy(r) /\ ~Consumed(r) /\ req[r].pc # "answered" /\ req[r].kind = "login"
      /\ UNCHANGED <<issue, auth, receipt, grant>>
  BY DEF ConsumeNow, Busy, Consumed, Told
<1>3. c \in Challenges /\ row[c].state # "unused"
  BY <1>2 DEF OtpInv, RequestShape, Shape
<1>4. CASE Stored(c)
  <2>1. Delete(c) /\ req' = [req EXCEPT ![r].pc = "resetting"]
    BY <1>4 DEF ConsumeNow
  <2>2. Moves(r, "resetting")
    BY <1>1, <2>1 DEF Moves, OnlyMoves, Calls, Steps
  <2>3. Consumed(r)'
    BY <1>2, <2>2 DEF Consumed, Moves
  <2> HIDE DEF c
  <2>4. row' \in [Challenges -> Rows] /\ RowsKeep /\ row'[c].state = "gone"
        /\ \A d \in Challenges : d # c => row'[d] = row[d]
    BY <1>1, <1>3, <2>1, DeleteKeeps
  <2>5. Frame(r)
    BY <1>1, <1>2, <1>3, <2>2, <2>4 DEF Frame, Moves, TypeOK
  <2>6. row[c].state # "gone" /\ receipt' \in [Challenges -> Starts \cup {none, "lapsed"}]
        /\ \A d \in Challenges : receipt'[d] = receipt[d]
    BY <1>1, <1>2, <1>4 DEF Stored, TypeOK
  <2> QED BY <1>2, <1>3, <2>2, <2>3, <2>4, <2>5, <2>6, ConsumeStep DEF Moves, c
<1>5. CASE ~Stored(c)
  <2>1. Answer(r, "invalid") /\ row' = row
    BY <1>5 DEF ConsumeNow
  <2>2. row' \in [Challenges -> Rows] /\ RowsKeep
        /\ \A d \in Challenges : row[d].state = "unused" => row'[d].state = "unused"
    BY <1>1, <2>1 DEF RowsKeep
  <2> QED BY <1>2, <2>1, <2>2, RefuseStep DEF Replies
<1> QED BY <1>4, <1>5

\* Consuming in the caller's batch.
LEMMA BatchStep ==
  ASSUME OtpInv, NEW r \in Requests, CommitInBatch(r)
  PROVE  OtpInv'
<1> DEFINE c == req[r].challenge
<1>1. row \in [Challenges -> Rows] /\ req \in [Requests -> Calls] /\ TypeOK
  BY DEF OtpInv, TypeOK
<1>2. Busy(r) /\ ~Consumed(r) /\ req[r].pc # "answered" /\ req[r].kind = "proof"
      /\ UNCHANGED <<issue, auth, receipt, grant>>
  BY DEF CommitInBatch, Busy, Consumed, Told, OtpInv, RequestShape, Shape
<1>3. c \in Challenges /\ row[c].state # "unused"
  BY <1>2 DEF OtpInv, RequestShape, Shape
<1>4. CASE Matches(r)
  <2>1. Delete(c) /\ Answer(r, "ok")
    BY <1>4 DEF CommitInBatch
  <2>2. /\ req' \in [Requests -> Calls] /\ OnlyMoves(r)
        /\ req'[r].pc = "answered" /\ req'[r].reply = "ok" /\ req'[r].kind = req[r].kind
        /\ req'[r].challenge = req[r].challenge /\ req'[r].start = req[r].start
    BY <1>1, <2>1, AnswerFacts DEF Replies
  <2>3. Consumed(r)'
    BY <1>2, <2>2 DEF Consumed, Told
  <2> HIDE DEF c
  <2>4. row' \in [Challenges -> Rows] /\ RowsKeep /\ row'[c].state = "gone"
        /\ \A d \in Challenges : d # c => row'[d] = row[d]
    BY <1>1, <1>3, <2>1, DeleteKeeps
  <2>5. Frame(r)
    BY <1>1, <1>2, <1>3, <2>2, <2>4 DEF Frame, TypeOK
  <2>6. row[c].state # "gone" /\ receipt' \in [Challenges -> Starts \cup {none, "lapsed"}]
        /\ \A d \in Challenges : receipt'[d] = receipt[d]
    BY <1>1, <1>2, <1>4 DEF Matches, Stored, TypeOK, c
  <2> QED BY <1>2, <1>3, <2>2, <2>3, <2>4, <2>5, <2>6, ConsumeStep DEF c
<1>5. CASE ~Matches(r)
  <2>1. Answer(r, "aborted") /\ row' = row
    BY <1>5 DEF CommitInBatch
  <2>2. row' \in [Challenges -> Rows] /\ RowsKeep
        /\ \A d \in Challenges : row[d].state = "unused" => row'[d].state = "unused"
    BY <1>1, <2>1 DEF RowsKeep
  <2> QED BY <1>2, <2>1, <2>2, RefuseStep DEF Replies
<1> QED BY <1>4, <1>5

\* Consuming with a receipt: a registration start.
LEMMA ReceiptStep ==
  ASSUME OtpInv, NEW r \in Requests, ConsumeWithReceipt(r)
  PROVE  OtpInv'
<1> DEFINE c == req[r].challenge
<1>1. row \in [Challenges -> Rows] /\ req \in [Requests -> Calls] /\ TypeOK
  BY DEF OtpInv, TypeOK
<1>2. Busy(r) /\ ~Consumed(r) /\ req[r].pc # "answered" /\ req[r].kind = "start"
      /\ UNCHANGED <<issue, auth, grant>>
  BY DEF ConsumeWithReceipt, Busy, Consumed, Told
<1>3. c \in Challenges /\ row[c].state # "unused" /\ req[r].start \in Starts
  BY <1>2 DEF OtpInv, RequestShape, Shape
<1>4. ASSUME NEW reply \in Replies \ {"ok"}, Answer(r, reply), UNCHANGED <<row, receipt>>
      PROVE  OtpInv'
  <2>1. row' \in [Challenges -> Rows] /\ RowsKeep
        /\ \A d \in Challenges : row[d].state = "unused" => row'[d].state = "unused"
    BY <1>1, <1>4 DEF RowsKeep
  <2> QED BY <1>2, <1>4, <2>1, RefuseStep
<1>5. CASE receipt[c] = req[r].start /\ req' = [req EXCEPT ![r].pc = "resetting"]
           /\ UNCHANGED <<row, receipt>>
  <2>1. Moves(r, "resetting")
    BY <1>1, <1>5 DEF Moves, OnlyMoves, Calls, Steps
  <2>2. Consumed(r)'
    BY <1>2, <2>1 DEF Consumed, Moves
  <2>3. row'[c].state = "gone"
    BY <1>3, <1>5, NoneAssumption DEF OtpInv, Receipts
  <2>4. Frame(r)
    BY <1>1, <1>2, <1>5, <2>1 DEF Frame, Moves, TypeOK, RowsKeep
  <2>5. receipt' \in [Challenges -> Starts \cup {none, "lapsed"}] /\ receipt' = receipt
    BY <1>1, <1>5 DEF TypeOK
  <2> QED BY <1>2, <1>3, <1>5, <2>1, <2>2, <2>3, <2>4, <2>5, ConsumeStep DEF Moves
<1>6. CASE Matches(r) /\ Delete(c) /\ receipt' = [receipt EXCEPT ![c] = req[r].start]
           /\ req' = [req EXCEPT ![r].pc = "resetting"]
  <2>1. Moves(r, "resetting")
    BY <1>1, <1>6 DEF Moves, OnlyMoves, Calls, Steps
  <2>2. Consumed(r)'
    BY <1>2, <2>1 DEF Consumed, Moves
  <2>3. row[c].state # "gone"
    BY <1>6 DEF Matches, Stored
  <2>4. /\ receipt' \in [Challenges -> Starts \cup {none, "lapsed"}]
        /\ receipt'[c] = req[r].start /\ \A d \in Challenges : d # c => receipt'[d] = receipt[d]
    BY <1>1, <1>3, <1>6 DEF TypeOK
  <2> HIDE DEF c
  <2>5. row' \in [Challenges -> Rows] /\ RowsKeep /\ row'[c].state = "gone"
        /\ \A d \in Challenges : d # c => row'[d] = row[d]
    BY <1>1, <1>3, <1>6, DeleteKeeps
  <2>6. Frame(r)
    BY <1>1, <1>2, <1>3, <2>1, <2>5 DEF Frame, Moves, TypeOK
  <2> QED BY <1>2, <1>3, <2>1, <2>2, <2>3, <2>4, <2>5, <2>6, ConsumeStep DEF Moves, c
<1> QED BY <1>4, <1>5, <1>6 DEF ConsumeWithReceipt, Replies

\* The failure state is reset.
LEMMA ResetStep ==
  ASSUME OtpInv, NEW r \in Requests, ResetFailureState(r)
  PROVE  OtpInv'
<1>1. row \in [Challenges -> Rows] /\ req \in [Requests -> Calls] /\ TypeOK
  BY DEF OtpInv, TypeOK
<1>2. Busy(r) /\ req[r].pc = "resetting" /\ UNCHANGED <<row, issue, receipt, grant>>
      /\ auth' \in {"clean", "failed", "locked"}
  BY <1>1 DEF ResetFailureState, Busy, challengeVars, TypeOK
<1>3. req[r].kind \in {"login", "proof", "start"}
  BY <1>2 DEF OtpInv, RequestShape, Shape, Kinds
<1>4. RowsKeep /\ row' \in [Challenges -> Rows]
      /\ \A c \in Challenges : row[c].state = "unused" => row'[c].state = "unused"
  BY <1>1, <1>2 DEF RowsKeep
<1>5. ASSUME req[r].kind \in {"login", "start"}, Consumed(r)', ~Told(r, "unseal")',
             OnlyMoves(r), req' \in [Requests -> Calls], req'[r].kind = req[r].kind,
             req'[r].challenge = req[r].challenge, req'[r].start = req[r].start,
             req'[r].pc = "granting" => req'[r].kind = "login",
             req'[r].pc \notin {"committing", "unsealing"}
      PROVE  OtpInv'
  <2>1. Consumed(r) /\ grant[r] = "none" /\ req[r].pc # "answered"
    BY <1>2, <1>5 DEF Consumed, OtpInv, Grants, Told
  <2>2. grant'[r] = "none" /\ \A q \in Requests : q # r => grant'[q] = grant[q]
    BY <1>2, <2>1
  <2>3. RequestShape' /\ Winners' /\ Receipts' /\ Grants'
    BY <1>2, <1>4, <1>5, <2>1, <2>2, StayKeeps
  <2>4. TypeOK' /\ Fresh'
    BY <1>1, <1>2, <1>5 DEF TypeOK, OtpInv, Fresh
  <2> QED BY <2>3, <2>4 DEF OtpInv
<1>6. CASE req[r].kind = "start"
  <2>1. Answer(r, "ok")
    BY <1>6 DEF ResetFailureState
  <2>2. /\ req' \in [Requests -> Calls] /\ OnlyMoves(r)
        /\ req'[r].pc = "answered" /\ req'[r].reply = "ok" /\ req'[r].kind = req[r].kind
        /\ req'[r].challenge = req[r].challenge /\ req'[r].start = req[r].start
    BY <1>1, <2>1, AnswerFacts DEF Replies
  <2>3. Consumed(r)' /\ ~Told(r, "unseal")'
    BY <1>6, <2>2 DEF Consumed, Told
  <2> QED BY <1>5, <1>6, <2>2, <2>3
<1>7. CASE req[r].kind = "login"
  <2>1. Moves(r, "granting")
    BY <1>1, <1>7 DEF ResetFailureState, Moves, OnlyMoves, Calls, Steps
  <2>2. Consumed(r)' /\ ~Told(r, "unseal")'
    BY <1>7, <2>1 DEF Consumed, Told, Moves
  <2> QED BY <1>5, <1>7, <2>1, <2>2 DEF Moves
<1>8. CASE req[r].kind = "proof"
  <2>1. Moves(r, "committing") /\ ~Consumed(r)
    BY <1>1, <1>2, <1>8 DEF ResetFailureState, Moves, OnlyMoves, Calls, Steps, Consumed, Told
  <2> QED BY <1>2, <1>4, <1>8, <2>1, MoveStep
<1> QED BY <1>3, <1>6, <1>7, <1>8

\* A login stores its grant.
LEMMA PutGrantStep ==
  ASSUME OtpInv, NEW r \in Requests, PutGrant(r)
  PROVE  OtpInv'
<1>1. row \in [Challenges -> Rows] /\ req \in [Requests -> Calls] /\ TypeOK
  BY DEF OtpInv, TypeOK
<1>2. /\ req[r].pc = "granting" /\ req[r].kind = "login" /\ Consumed(r) /\ Answer(r, "ok")
      /\ UNCHANGED <<row, issue, auth, receipt>> /\ grant' = [grant EXCEPT ![r] = "live"]
  BY DEF PutGrant, OtpInv, RequestShape, Shape, Consumed, challengeVars
<1>3. /\ req' \in [Requests -> Calls] /\ OnlyMoves(r)
      /\ req'[r].pc = "answered" /\ req'[r].reply = "ok" /\ req'[r].kind = req[r].kind
      /\ req'[r].challenge = req[r].challenge /\ req'[r].start = req[r].start
  BY <1>1, <1>2, AnswerFacts DEF Replies
<1>4. Consumed(r)' /\ ~Told(r, "unseal")' /\ Told(r, "login")'
  BY <1>2, <1>3 DEF Consumed, Told
<1>5. RowsKeep /\ \A q \in Requests : q # r => grant'[q] = grant[q]
  BY <1>1, <1>2 DEF RowsKeep, TypeOK
<1>6. RequestShape' /\ Winners' /\ Receipts' /\ Grants'
  BY <1>2, <1>3, <1>4, <1>5, StayKeeps
<1>7. TypeOK' /\ Fresh'
  BY <1>1, <1>2, <1>3 DEF TypeOK, OtpInv, Fresh
<1> QED BY <1>6, <1>7 DEF OtpInv

\* A request names a grant.
LEMMA ReadGrantStep ==
  ASSUME OtpInv, NEW r \in Requests, NEW g \in Requests, ReadGrant(r, g)
  PROVE  OtpInv'
<1>1. row \in [Challenges -> Rows] /\ req \in [Requests -> Calls] /\ TypeOK
  BY DEF OtpInv, TypeOK
<1>2. /\ req[r].pc = "idle" /\ grant[g] # "none"
      /\ UNCHANGED <<row, issue, auth, receipt, grant>>
  BY DEF ReadGrant, challengeVars
<1> DEFINE yes == [Idle EXCEPT !.pc = "unsealing", !.kind = "unseal", !.source = g]
           no == [Idle EXCEPT !.pc = "answered", !.kind = "unseal", !.source = g,
                              !.reply = "invalid"]
<1>3. /\ yes \in Calls /\ yes.pc = "unsealing" /\ yes.kind = "unseal" /\ yes.source = g
      /\ no \in Calls /\ no.pc = "answered" /\ no.kind = "unseal" /\ no.source = g
      /\ no.reply = "invalid"
  <2>1. 0 \in 0 .. MaxAttempts - 1
    BY LimitAssumption
  <2> QED BY <2>1 DEF Calls, Steps, Replies, Idle
<1>4. PICK x \in {yes, no} : req' = [req EXCEPT ![r] = x]
  BY DEF ReadGrant
<1> HIDE DEF yes, no
<1>5. /\ req' \in [Requests -> Calls] /\ OnlyMoves(r) /\ req'[r].kind = "unseal"
      /\ req'[r].source = g
      /\ \/ req'[r].pc = "unsealing"
         \/ req'[r].pc = "answered" /\ req'[r].reply = "invalid"
  BY <1>1, <1>3, <1>4 DEF OnlyMoves
<1>6. /\ ~Consumed(r) /\ ~Told(r, "unseal") /\ ~Consumed(r)' /\ ~Told(r, "unseal")'
      /\ ~Busy(r)'
  BY <1>2, <1>5 DEF Consumed, Told, Busy
<1>7. Shape(r)'
  BY <1>2, <1>5, <1>6 DEF Shape
<1>8. RowsKeep
  BY <1>2 DEF RowsKeep
<1>9. RequestShape' /\ Winners' /\ Receipts' /\ Grants'
  BY <1>2, <1>5, <1>6, <1>7, <1>8, QuietKeeps
<1>10. TypeOK' /\ Fresh'
  BY <1>1, <1>2, <1>5 DEF TypeOK, OtpInv, Fresh
<1> QED BY <1>9, <1>10 DEF OtpInv

\* A grant is consumed with the counters.
LEMMA ConsumeGrantStep ==
  ASSUME OtpInv, NEW r \in Requests, ConsumeGrant(r)
  PROVE  OtpInv'
<1> DEFINE g == req[r].source
<1>1. row \in [Challenges -> Rows] /\ req \in [Requests -> Calls] /\ TypeOK
  BY DEF OtpInv, TypeOK
<1>2. /\ req[r].pc = "unsealing" /\ req[r].kind = "unseal" /\ g \in Requests
      /\ ~Consumed(r) /\ ~Told(r, "unseal") /\ ~Told(r, "login")
      /\ UNCHANGED <<row, issue, auth, receipt>>
  BY DEF ConsumeGrant, OtpInv, RequestShape, Shape, Consumed, Told, challengeVars
<1>3. RowsKeep
  BY <1>2 DEF RowsKeep
<1>4. CASE \E reply \in {"limited", "invalid"} : Answer(r, reply) /\ UNCHANGED grant
  <2>1. PICK reply \in {"limited", "invalid"} : Answer(r, reply) /\ UNCHANGED grant
    BY <1>4
  <2> QED BY <1>1, <1>2, <1>3, <2>1, RefuseStep DEF Replies
<1>5. CASE /\ grant[g] \in {"live", "lapsed"} /\ grant' = [grant EXCEPT ![g] = "used"]
           /\ Answer(r, "ok")
  <2>1. /\ req' \in [Requests -> Calls] /\ OnlyMoves(r) /\ req'[r].kind = "unseal"
        /\ req'[r].source = g /\ req'[r].pc = "answered" /\ req'[r].reply = "ok"
    BY <1>1, <1>2, <1>5, AnswerFacts DEF Replies
  <2> HIDE DEF g
  <2>2. \A q \in Requests : q # r => /\ Consumed(q)' <=> Consumed(q)
                                     /\ \A k : Told(q, k)' <=> Told(q, k)
                                     /\ Busy(q)' <=> Busy(q)
                                     /\ req'[q] = req[q]
    BY <2>1 DEF Consumed, Told, Busy, OnlyMoves
  <2>3. ~Consumed(r)' /\ ~Busy(r)' /\ Told(r, "unseal")'
    BY <2>1 DEF Consumed, Busy, Told
  <2>4. \A q \in Requests : grant'[q] = IF q = g THEN "used" ELSE grant[q]
    BY <1>1, <1>5 DEF TypeOK
  <2>5. RequestShape'
    <3>1. ASSUME NEW q \in Requests, q # r PROVE Shape(q)'
      BY <1>2, <2>2, <2>4, <3>1 DEF OtpInv, RequestShape, Shape, Kinds
    <3>2. Shape(r)'
      BY <1>2, <2>1, <2>3, <2>4 DEF Shape
    <3> QED BY <3>1, <3>2 DEF RequestShape
  <2>6. Winners'
    BY <1>2, <2>2, <2>3 DEF OtpInv, Winners
  <2>7. Receipts'
    BY <1>2, <2>2, <2>3 DEF OtpInv, Receipts
  <2>8. Grants'
    <3>1. \A q \in Requests : Told(q, "unseal") => /\ req[q].source \in Requests
                                                   /\ req[q].source # g
      BY <1>5 DEF OtpInv, RequestShape, Shape, Grants, Told
    <3>2. Told(g, "login") /\ g # r
      BY <1>2, <1>5 DEF OtpInv, Grants
    <3> QED BY <1>2, <2>1, <2>2, <2>3, <2>4, <3>1, <3>2 DEF OtpInv, Grants
  <2>9. TypeOK' /\ Fresh'
    BY <1>1, <1>2, <1>5, <2>1 DEF TypeOK, OtpInv, Fresh
  <2> QED BY <2>5, <2>6, <2>7, <2>8, <2>9 DEF OtpInv
<1> QED BY <1>4, <1>5 DEF ConsumeGrant

-----------------------------------------------------------------------------
(* The theorems                                                            *)

\* The inductive invariant: every consumed challenge is gone and has one owner,
\* which its receipt or its grant names.
THEOREM OtpInvariant == Spec => []OtpInv
<1>1. Init => OtpInv
  <2> SUFFICES ASSUME Init PROVE OtpInv
    OBVIOUS
  <2>1. Idle \in Calls /\ Idle.pc = "idle" /\ Idle.kind = "login" /\ Idle.reply = "none"
    <3>1. 0 \in 0 .. MaxAttempts - 1
      BY LimitAssumption
    <3> QED BY <3>1 DEF Calls, Steps, Replies, Idle
  <2>2. \A r \in Requests : req[r] = Idle /\ grant[r] = "none"
    BY DEF Init
  <2>3. \A c \in Challenges : row[c].state = "unused" /\ receipt[c] = none
    BY DEF Init
  <2>4. \A r \in Requests : ~Busy(r) /\ ~Consumed(r) /\ \A k : ~Told(r, k)
    BY <2>1, <2>2 DEF Busy, Consumed, Told
  <2>5. TypeOK
    <3>1. row \in [Challenges -> Rows]
      BY LimitAssumption DEF Init, Rows
    <3>2. issue \in [Challenges -> Issues]
      BY DEF Init, Issues
    <3>3. req \in [Requests -> Calls]
      BY <2>1 DEF Init
    <3> QED BY <3>1, <3>2, <3>3 DEF Init, TypeOK
  <2>6. RequestShape
    BY <2>1, <2>2, <2>4 DEF RequestShape, Shape
  <2>7. Fresh /\ Winners /\ Receipts /\ Grants
    BY <2>2, <2>3, <2>4 DEF Fresh, Winners, Receipts, Grants
  <2> QED BY <2>5, <2>6, <2>7 DEF OtpInv
<1>2. OtpInv /\ [Next]_vars => OtpInv'
  <2> SUFFICES ASSUME OtpInv, [Next]_vars PROVE OtpInv'
    OBVIOUS
  <2>1. CASE UNCHANGED vars
    BY <2>1 DEF vars, OtpInv, TypeOK, RequestShape, Shape, Busy, Consumed, Told, Kinds,
                Fresh, Winners, Receipts, Grants
  <2>2. CASE Next
    BY <2>2, IssueStep, TimeStep, VerifyStep, CheckStep, CountStep, LoginStep, BatchStep,
       ReceiptStep, ResetStep, PutGrantStep, ReadGrantStep, ConsumeGrantStep DEF Next
  <2> QED BY <2>1, <2>2
<1> QED BY <1>1, <1>2, PTL DEF Spec

\* Rows, receipts, grants and requests keep their types, and no stored attempt
\* count reaches the maximum, for any limits.
THEOREM OtpTypes == Spec => []TypeOK
<1>1. OtpInv => TypeOK
  BY DEF OtpInv
<1> QED BY <1>1, OtpInvariant, PTL

\* One mailed code authorizes one thing.
THEOREM OneUsePerChallenge == Spec => []ChallengeUsedOnce
<1>1. OtpInv => ChallengeUsedOnce
  <2> SUFFICES ASSUME OtpInv, NEW c \in Challenges, NEW x \in Uses(c), NEW y \in Uses(c)
               PROVE  x = y
    BY DEF ChallengeUsedOnce
  <2> DEFINE By(z, r) ==
        \/ /\ z = <<"proof", r>> /\ Told(r, "proof") /\ req[r].challenge = c
        \/ /\ z = <<"unseal", r>> /\ Told(r, "unseal") /\ req[req[r].source].challenge = c
        \/ /\ z = <<"start", req[r].start>> /\ Told(r, "start") /\ req[r].challenge = c
  <2>1. PICK r \in Requests : By(x, r)
    BY DEF Uses
  <2>2. PICK q \in Requests : By(y, q)
    BY DEF Uses
  <2>3. \A p \in Requests : Told(p, "unseal") =>
          /\ req[p].source \in Requests /\ Told(req[p].source, "login")
    BY DEF OtpInv, RequestShape, Shape, Grants, Told
  <2>4. \A p, o \in Requests :
          Consumed(p) /\ Consumed(o) /\ req[p].challenge = req[o].challenge
            => o = p \/ req[p].kind = "start"
    BY DEF OtpInv, Winners
  <2>5. \A p \in Requests : \A k \in {"login", "proof", "start"} :
          Told(p, k) => Consumed(p) /\ req[p].kind = k
    BY DEF Consumed, Told
  <2>6. CASE Told(r, "proof") /\ x = <<"proof", r>> /\ req[r].challenge = c
    BY <2>2, <2>3, <2>4, <2>5, <2>6
  <2>7. CASE Told(r, "unseal") /\ x = <<"unseal", r>> /\ req[req[r].source].challenge = c
    BY <2>2, <2>3, <2>4, <2>5, <2>7 DEF OtpInv, Grants
  <2>8. CASE Told(r, "start") /\ x = <<"start", req[r].start>> /\ req[r].challenge = c
    BY <2>2, <2>3, <2>4, <2>5, <2>8 DEF OtpInv, Receipts
  <2> QED BY <2>1, <2>6, <2>7, <2>8
<1> QED BY <1>1, OtpInvariant, PTL

\* What an arriving request holds.
LEMMA Arrival ==
  ASSUME TypeOK, NEW r \in Requests, NEW c \in Challenges, NEW right \in BOOLEAN,
         NEW kind \in {"login", "proof", "start"}, NEW start \in Starts \cup {none},
         Verify(r, c, right, kind, start)
  PROVE  /\ OnlyMoves(r) /\ req'[r].kind = kind /\ req'[r].challenge = c
         /\ req'[r].start = start
<1> DEFINE new == [Idle EXCEPT !.pc = "checking", !.kind = kind, !.challenge = c,
                               !.right = right, !.start = start]
           replied(reply) == [new EXCEPT !.pc = "answered", !.reply = reply]
           is(x) == x.kind = kind /\ x.challenge = c /\ x.start = start
<1>1. is(new) /\ is(replied("limited")) /\ is(replied("ok")) /\ is(replied("conflict"))
  BY DEF Idle
<1>2. \E x \in {new, replied("limited"), replied("ok"), replied("conflict")} :
        req' = [req EXCEPT ![r] = x]
  <2> HIDE DEF new, replied
  <2> QED BY DEF Verify, new, replied
<1> HIDE DEF new, replied
<1>3. req \in [Requests -> Calls]
  BY DEF TypeOK
<1> QED BY <1>1, <1>2, <1>3 DEF OnlyMoves

\* An exact retry of the start that the receipt names is told ok.
LEMMA ExactRetry ==
  ASSUME TypeOK, NEW r \in Requests, NEW c \in Challenges, NEW right \in BOOLEAN,
         NEW start \in Starts, Verify(r, c, right, "start", start), receipt[c] = start,
         req'[r].right
  PROVE  req'[r].reply = "ok"
<1> DEFINE new == [Idle EXCEPT !.pc = "checking", !.kind = "start", !.challenge = c,
                               !.right = right, !.start = start]
           replied(reply) == [new EXCEPT !.pc = "answered", !.reply = reply]
<1>1. req \in [Requests -> Calls]
  BY DEF TypeOK
<1>2. replied("ok").reply = "ok" /\ replied("conflict").right = right
  BY DEF Idle
<1>3. req' = [req EXCEPT ![r] = IF right THEN replied("ok") ELSE replied("conflict")]
  <2> HIDE DEF new, replied
  <2> QED BY DEF Verify, new, replied
<1> HIDE DEF new, replied
<1>4. CASE right = TRUE
  BY <1>1, <1>2, <1>3, <1>4
<1>5. CASE right = FALSE
  BY <1>1, <1>2, <1>3, <1>5
<1> QED BY <1>4, <1>5

\* Only its arrival takes a request from "idle", and only Verify makes it a start.
LEMMA ArrivalOfStart ==
  ASSUME TypeOK, Next, NEW r \in Requests, req[r].pc = "idle", req'[r].pc # "idle",
         req'[r].kind = "start"
  PROVE  \E c \in Challenges, right \in BOOLEAN, start \in Starts \cup {none} :
           Verify(r, c, right, "start", start)
<1>1. req \in [Requests -> Calls] /\ req'[r] # req[r]
  BY DEF TypeOK
<1>2. ASSUME NEW q \in Requests,
             \/ ReadAuthState(q) \/ ReadChallenge(q) \/ ReadForFailure(q) \/ WriteFailure(q)
             \/ CountAttempt(q) \/ ConsumeNow(q) \/ PrepareConsume(q)
             \/ ConsumeWithReceipt(q) \/ ResetFailureState(q) \/ PutGrant(q)
             \/ CommitInBatch(q) \/ ConsumeGrant(q)
      PROVE  FALSE
  <2>1. q # r
    BY <1>2 DEF ReadAuthState, ReadChallenge, ReadForFailure, WriteFailure, CountAttempt,
         ConsumeNow, PrepareConsume, ConsumeWithReceipt, ResetFailureState, PutGrant,
         CommitInBatch, ConsumeGrant
  <2>2. \E x : req' = [req EXCEPT ![q] = x]
    <3>1. CASE \E reply : Answer(q, reply)
      BY <3>1 DEF Answer
    <3>2. CASE ~ \E reply : Answer(q, reply)
      BY <1>2, <3>2 DEF ReadAuthState, ReadChallenge, ReadForFailure, WriteFailure,
           CountAttempt, ConsumeNow, PrepareConsume, ConsumeWithReceipt,
           ResetFailureState, PutGrant, CommitInBatch, ConsumeGrant
    <3> QED BY <3>1, <3>2
  <2> QED BY <1>1, <2>1, <2>2
<1>3. ASSUME NEW q \in Requests, NEW g \in Requests, ReadGrant(q, g)
      PROVE  FALSE
  <2>1. PICK x : req' = [req EXCEPT ![q] = x] /\ x.kind = "unseal"
    BY <1>3 DEF ReadGrant, Idle
  <2> QED BY <1>1, <2>1
<1>4. ASSUME NEW q \in Requests, NEW c \in Challenges, NEW right \in BOOLEAN,
             NEW kind \in {"login", "proof", "start"}, NEW start \in Starts \cup {none},
             Verify(q, c, right, kind, start)
      PROVE  q = r /\ kind = "start"
  <2>1. OnlyMoves(q) /\ req'[q].kind = kind
    BY <1>4, Arrival
  <2> QED BY <1>1, <2>1 DEF OnlyMoves
<1>5. UNCHANGED req => FALSE
  BY <1>1
<1> QED BY <1>2, <1>3, <1>4, <1>5 DEF Next, IssueCheck, IssueCount, IssueTrim, IssuePut,
      IssueDeliver, ChallengeLapses, ReceiptLapses, GrantLapses, LockoutEnds

\* A registration start that was confirmed is confirmed again.
THEOREM ConfirmedStartRetries == Spec => RetryOfConfirmedStart
<1> DEFINE retry(r, q) ==
      /\ req[r].pc = "idle" /\ req'[r].pc # "idle" /\ req'[r].kind = "start"
      /\ Told(q, "start") /\ req[q].challenge = req'[r].challenge
      /\ req[q].start = req'[r].start /\ req'[r].right
      /\ receipt[req[q].challenge] # "lapsed"
<1>1. OtpInv /\ [Next]_vars => [\A r, q \in Requests : retry(r, q) => req'[r].reply = "ok"]_vars
  <2> SUFFICES ASSUME OtpInv, Next, NEW r \in Requests, NEW q \in Requests, retry(r, q)
               PROVE  req'[r].reply = "ok"
    OBVIOUS
  <2>1. TypeOK
    BY DEF OtpInv
  <2>2. PICK c \in Challenges, right \in BOOLEAN, start \in Starts \cup {none} :
          Verify(r, c, right, "start", start)
    BY <2>1, ArrivalOfStart
  <2>3. req'[r].challenge = c /\ req'[r].start = start
    BY <2>1, <2>2, Arrival
  <2>4. Consumed(q) /\ req[q].kind = "start"
    BY DEF Consumed, Told
  <2>5. receipt[c] = start /\ start \in Starts
    BY <2>3, <2>4 DEF OtpInv, Receipts, RequestShape, Shape
  <2> QED BY <2>1, <2>2, <2>5, ExactRetry
<1> QED BY <1>1, OtpInvariant, PTL DEF Spec, RetryOfConfirmedStart
=============================================================================
