------------------------ MODULE ClientRequestsProofs ------------------------
(***************************************************************************)
(* Proofs about ClientRequests, for every set of approvals, questions and  *)
(* tool calls, every finite set of connections and whether the             *)
(* conversation is torn down or not.                                       *)
(***************************************************************************)
EXTENDS ClientRequests, FiniteSetTheorems, TLAPS

\* The types without the bounds of the revisions.
Shape ==
    /\ at \in [Requests -> {"idle", "snapped", "registered", "sending", "waiting", "allowed",
                            "ended", "panicked"}]
    /\ unsent \in [Requests -> SUBSET Conns]
    /\ attended \in [Requests -> BOOLEAN]
    /\ grace \in [Requests -> BOOLEAN]
    /\ chan \in [Requests -> Verdicts \cup {"empty"}]
    /\ pending \subseteq Requests
    /\ sinks \subseteq Conns
    /\ closing \in {"no", "denied", "asked", "done"}
    /\ conn \in [Conns -> {"off", "claimed", "approvals", "questions", "open", "released",
                           "gone"}]
    /\ todo \in [Conns -> SUBSET Requests]
    /\ hLock \subseteq Conns
    /\ Cardinality(hLock) <= 1
    /\ revision \in Nat
    /\ rev \in [Conns -> Nat]
    /\ offer \in [Conns -> {"none", "routing"}]
    /\ told \in [Conns -> BOOLEAN]
    /\ support \in BOOLEAN
    /\ shown \in [Conns -> SUBSET Requests]

\* The connections that ever claimed the session.
Came == {c \in Conns : conn[c] # "off"}

\* No more revisions than connections.
RevisionsCounted ==
    /\ revision <= Cardinality(Came)
    /\ \A c \in Conns : rev[c] <= Cardinality(Conns)

\* A call that is not registered yet has no verdict either.
NoEarlyVerdict ==
    \A r \in Requests : at[r] \in {"idle", "snapped"} => chan[r] = "empty"

\* The attached connections are between AddSink and RemoveSink.
SinksAttached ==
    \A c \in sinks : conn[c] \in {"approvals", "questions", "open", "released"}

\* The revisions tell the connections of a session apart, none is ahead of
\* the session and a session that was torn down has none of them.
RevisionsOrdered ==
    /\ \A c \in Conns : conn[c] # "off" => rev[c] > 0
    /\ \A c, d \in Conns : conn[c] # "off" /\ conn[d] # "off" /\ rev[c] = rev[d] => c = d
    /\ ~closed => \A c \in Conns : rev[c] <= revision
    /\ closed => revision = 0

\* The capabilities of a connection are heard of after its claim.
OffersAfterClaim ==
    \A c \in Conns : conn[c] \in {"off", "claimed", "approvals", "questions"} =>
                         offer[c] = "none" /\ ~told[c]

RequestsIInv ==
    /\ Shape
    /\ RevisionsCounted
    /\ PendingExact /\ NoEarlyVerdict
    /\ SinksAttached /\ ApprovalsShown
    /\ RevisionsOrdered /\ OffersAfterClaim /\ GrantStable

-----------------------------------------------------------------------------
(***************************************************************************)
(* What a step is: whatever ended a call, it is one Return, and the three  *)
(* stages of the teardown are one CloseStep.                               *)
(***************************************************************************)
LEMMA StepCases ==
    ASSUME RequestsNext
    PROVE  \/ \E r \in Requests : \/ \E value : Return(r, value)
                                  \/ SendRequest(r) \/ SendsDone(r)
           \/ \E r \in Approvals : Approve(r)
           \/ \E r \in Questions : AskSnapshot(r) \/ AskRegister(r) \/ Poll(r)
           \/ \E r \in Questions : at[r] = "registered" /\ at' = [at EXCEPT ![r] = "sending"]
                                   /\ UNCHANGED <<unsent, attended, chan, grace, brokerVars,
                                                  connVars, shown>>
           \/ \E r \in Tools : Wait(r)
           \/ \E c \in Conns, r \in Requests : \E v \in Verdicts : Resolve(c, r, v)
           \/ \E from, to \in {"no", "denied", "asked", "done"}, R \in SUBSET Requests,
                 v \in Verdicts : to # "no" /\ CloseStep(from, to, R, v)
           \/ \E c \in Conns : \/ Claim(c) \/ AddSink(c) \/ Resend(c) \/ ListQuestions(c)
                               \/ Claimed(c) \/ RemoveSink(c) \/ OfferCapability(c)
                               \/ ConfigureBackground(c) \/ ReleaseControl(c)
<1>1. ASSUME NEW r \in Requests, CallProceeds(r)
      PROVE  \/ \E value : Return(r, value)
             \/ SendRequest(r) \/ SendsDone(r)
             \/ r \in Questions /\ (AskRegister(r) \/ Poll(r))
             \/ r \in Questions /\ at[r] = "registered" /\ at' = [at EXCEPT ![r] = "sending"]
                /\ UNCHANGED <<unsent, attended, chan, grace, brokerVars, connVars, shown>>
  BY <1>1, Zenon DEF CallProceeds, TakeVerdict, AskRecheck, AskExpires
<1>2. ASSUME NEW r \in Approvals, Approve(r) \/ ApproveClosed(r) \/ ApprovalDeadline(r)
      PROVE  r \in Requests /\ ((\E value : Return(r, value)) \/ Approve(r))
  BY <1>2, Zenon DEF ApproveClosed, ApprovalDeadline, Requests
<1>3. ASSUME NEW r \in Tools, Wait(r) \/ WaitExpires(r)
      PROVE  r \in Requests /\ ((\E value : Return(r, value)) \/ Wait(r))
  BY <1>3, Zenon DEF WaitExpires, Requests
<1>4. ASSUME NEW c \in Conns, NEW r \in Requests, NEW v \in Answers(r), Resolve(c, r, v)
      PROVE  v \in Verdicts
  BY <1>4 DEF Answers, Verdicts
<1>5. ASSUME CloseApprovals \/ CloseQuestions \/ CancelAll
      PROVE  \E from, to \in {"no", "denied", "asked", "done"}, R \in SUBSET Requests,
                v \in Verdicts : to # "no" /\ CloseStep(from, to, R, v)
  <2>1. /\ Approvals \in SUBSET Requests /\ Questions \in SUBSET Requests
        /\ Tools \in SUBSET Requests
    BY DEF Requests
  <2>2. {"deny", "error"} \subseteq Verdicts
    BY DEF Verdicts
  <2> HIDE DEF Verdicts
  <2>3. CASE CloseApprovals
    BY <2>1, <2>2, <2>3, Zenon DEF CloseApprovals
  <2>4. CASE CloseQuestions
    BY <2>1, <2>2, <2>4, Zenon DEF CloseQuestions
  <2>5. CASE CancelAll
    BY <2>1, <2>2, <2>5, Zenon DEF CancelAll
  <2> QED
    BY <1>5, <2>3, <2>4, <2>5
<1> QED
  BY <1>1, <1>2, <1>3, <1>4, <1>5, Zenon DEF RequestsNext, ConnProceeds

(***************************************************************************)
(* Every step keeps the types; the revisions are natural numbers here.     *)
(***************************************************************************)
LEMMA ShapeStep ==
    ASSUME Shape, [RequestsNext]_requestVars
    PROVE  Shape'
<1> USE DEF Shape, brokerVars, connVars, callVars, BrokerSide
<1>1. ASSUME NEW r \in Requests, NEW value, Return(r, value) PROVE Shape'
  BY <1>1 DEF Return, Verdicts
<1>2. ASSUME NEW r \in Requests, SendRequest(r) \/ SendsDone(r) PROVE Shape'
  BY <1>2 DEF SendRequest, SendsDone
<1>3. ASSUME NEW r \in Approvals, Approve(r) PROVE Shape'
  BY <1>3 DEF Approve, AllSinks, Requests
<1>4. ASSUME NEW r \in Questions, AskSnapshot(r) \/ AskRegister(r) \/ Poll(r) PROVE Shape'
  BY <1>4 DEF AskSnapshot, AskRegister, Poll, GraceAfterPoll, Requests
<1>5. ASSUME NEW r \in Questions, at' = [at EXCEPT ![r] = "sending"],
             UNCHANGED <<unsent, attended, chan, grace, brokerVars, connVars, shown>>
      PROVE  Shape'
  BY <1>5 DEF Requests
<1>6. ASSUME NEW r \in Tools, Wait(r) PROVE Shape'
  BY <1>6 DEF Wait, Requests
<1>7. ASSUME NEW c \in Conns, NEW r \in Requests, NEW v \in Verdicts, Resolve(c, r, v)
      PROVE  Shape'
  BY <1>7 DEF Resolve, Resolved
<1>8. ASSUME NEW from, NEW to \in {"no", "denied", "asked", "done"},
             NEW R \in SUBSET Requests, NEW v \in Verdicts, CloseStep(from, to, R, v)
      PROVE  Shape'
  BY <1>8 DEF CloseStep, Drain
<1>9. ASSUME NEW c \in Conns, Claim(c) PROVE Shape'
  <2>1. hLock' = {c}
    BY <1>9 DEF Claim
  <2>2. Cardinality({c}) = 1
    BY FS_Singleton, Zenon
  <2>3. Cardinality(hLock') <= 1
    BY <2>1, <2>2
  <2>4. rev' \in [Conns -> Nat] /\ revision' \in Nat
    BY <1>9 DEF Claim
  <2> QED
    BY <1>9, <2>1, <2>3, <2>4 DEF Claim
<1>10. ASSUME NEW c \in Conns, AddSink(c) \/ Resend(c) \/ ListQuestions(c) PROVE Shape'
  BY <1>10 DEF AddSink, Resend, ListQuestions
<1>11. ASSUME NEW c \in Conns, Claimed(c) PROVE Shape'
  <2>1. Cardinality(hLock') <= 1
    BY <1>11, FS_EmptySet DEF Claimed
  <2> QED
    BY <1>11, <2>1 DEF Claimed
<1>12. ASSUME NEW c \in Conns, RemoveSink(c) \/ OfferCapability(c) \/ ReleaseControl(c)
       PROVE  Shape'
  <2>1. support' \in BOOLEAN
    BY <1>12 DEF RemoveSink, OfferCapability, ReleaseControl, OwnsControl
  <2> QED
    BY <1>12, <2>1 DEF RemoveSink, OfferCapability, ReleaseControl
<1>13. ASSUME NEW c \in Conns, ConfigureBackground(c) PROVE Shape'
  BY <1>13 DEF ConfigureBackground
<1>14. CASE UNCHANGED requestVars
  BY <1>14 DEF requestVars
<1> HIDE DEF Shape
<1> QED
  BY StepCases, <1>1, <1>2, <1>3, <1>4, <1>5, <1>6, <1>7, <1>8, <1>9, <1>10, <1>11, <1>12,
     <1>13, <1>14

(***************************************************************************)
(* Only Claim makes a revision, and each connection claims once, so there  *)
(* are never more revisions than connections (claimSessionControl).        *)
(***************************************************************************)
LEMMA RevisionsCountedStep ==
    ASSUME Shape, RevisionsCounted, [RequestsNext]_requestVars
    PROVE  RevisionsCounted'
<1> USE DEF brokerVars, connVars, callVars, BrokerSide
<1>1. IsFiniteSet(Came) /\ Cardinality(Came) \in Nat /\ Cardinality(Conns) \in Nat
  BY FS_Subset, FS_CardinalityType, RequestsAssumption DEF Came
<1>2. ASSUME revision' = revision \/ revision' = 0, rev' = rev, Came' = Came
      PROVE  RevisionsCounted'
  BY <1>1, <1>2 DEF RevisionsCounted, Shape
<1>3. ASSUME UNCHANGED <<revision, rev, conn>> PROVE RevisionsCounted'
  BY <1>2, <1>3 DEF Came
<1>4. ASSUME NEW c \in Conns, Claim(c) PROVE RevisionsCounted'
  <2>1. Came' = Came \cup {c} /\ c \notin Came
    BY <1>4 DEF Claim, Came, Shape
  <2>2. Cardinality(Came') = Cardinality(Came) + 1
    BY <1>1, <2>1, FS_AddElement
  <2>3. Cardinality(Came') <= Cardinality(Conns)
    <3>1. Came' \subseteq Conns
      BY DEF Came
    <3> QED
      BY <3>1, FS_Subset, RequestsAssumption
  <2> QED
    BY <1>1, <1>4, <2>2, <2>3 DEF Claim, RevisionsCounted, Shape
<1>5. ASSUME NEW from, NEW to, NEW R, NEW v, CloseStep(from, to, R, v)
      PROVE  RevisionsCounted'
  BY <1>2, <1>5 DEF CloseStep, Came
<1>6. ASSUME NEW c \in Conns,
             AddSink(c) \/ ListQuestions(c) \/ Claimed(c) \/ RemoveSink(c) \/ ReleaseControl(c)
      PROVE  RevisionsCounted'
  <2>1. UNCHANGED <<revision, rev>>
    BY <1>6 DEF AddSink, ListQuestions, Claimed, RemoveSink, ReleaseControl
  <2>2. Came' = Came
    BY <1>6 DEF AddSink, ListQuestions, Claimed, RemoveSink, ReleaseControl, Came, Shape
  <2> QED
    BY <1>2, <2>1, <2>2
<1>7. CASE UNCHANGED requestVars
  BY <1>3, <1>7 DEF requestVars
<1>8. ASSUME NEW r, (\E value : Return(r, value)) \/ SendRequest(r) \/ SendsDone(r) \/ Approve(r)
                    \/ AskSnapshot(r) \/ AskRegister(r) \/ Poll(r) \/ Wait(r)
      PROVE  RevisionsCounted'
  BY <1>3, <1>8 DEF Return, SendRequest, SendsDone, Approve, AskSnapshot, AskRegister, Poll, Wait
<1>9. ASSUME NEW c, NEW r, NEW v, Resolve(c, r, v) PROVE RevisionsCounted'
  BY <1>3, <1>9 DEF Resolve
<1>10. ASSUME NEW c, Resend(c) \/ OfferCapability(c) \/ ConfigureBackground(c)
       PROVE  RevisionsCounted'
  BY <1>3, <1>10 DEF Resend, OfferCapability, ConfigureBackground
<1>11. ASSUME UNCHANGED <<unsent, attended, chan, grace, brokerVars, connVars, shown>>
       PROVE  RevisionsCounted'
  BY <1>3, <1>11
<1> QED
  BY StepCases, <1>4, <1>5, <1>6, <1>7, <1>8, <1>9, <1>10, <1>11

(***************************************************************************)
(* A step puts a verdict only in the channel of a registered call and      *)
(* takes the registration away with it (deliver, Close, the deferred       *)
(* deletes).                                                               *)
(***************************************************************************)
LEMMA PendingExactStep ==
    ASSUME Shape, PendingExact, NoEarlyVerdict, [RequestsNext]_requestVars
    PROVE  PendingExact' /\ NoEarlyVerdict'
<1> USE DEF Shape, PendingExact, NoEarlyVerdict, brokerVars, connVars, callVars, BrokerSide
<1>1. ASSUME NEW r \in Requests, NEW value, Return(r, value)
      PROVE  PendingExact' /\ NoEarlyVerdict'
  BY <1>1 DEF Return
<1>2. ASSUME NEW r \in Requests, SendRequest(r) \/ SendsDone(r)
      PROVE  PendingExact' /\ NoEarlyVerdict'
  BY <1>2 DEF SendRequest, SendsDone
<1>3. ASSUME NEW r \in Approvals, Approve(r) PROVE PendingExact' /\ NoEarlyVerdict'
  BY <1>3 DEF Approve, Requests
<1>4. ASSUME NEW r \in Questions, AskSnapshot(r) \/ AskRegister(r) \/ Poll(r)
      PROVE  PendingExact' /\ NoEarlyVerdict'
  BY <1>4 DEF AskSnapshot, AskRegister, Poll, Requests
<1>5. ASSUME NEW r \in Questions, at[r] = "registered", at' = [at EXCEPT ![r] = "sending"],
             UNCHANGED <<unsent, attended, chan, grace, brokerVars, connVars, shown>>
      PROVE  PendingExact' /\ NoEarlyVerdict'
  BY <1>5 DEF Requests
<1>6. ASSUME NEW r \in Tools, Wait(r) PROVE PendingExact' /\ NoEarlyVerdict'
  BY <1>6 DEF Wait, Requests
<1>7. ASSUME NEW c \in Conns, NEW r \in Requests, NEW v \in Verdicts, Resolve(c, r, v)
      PROVE  PendingExact' /\ NoEarlyVerdict'
  BY <1>7 DEF Resolve, Resolved
<1>8. ASSUME NEW from, NEW to, NEW R \in SUBSET Requests, NEW v \in Verdicts,
             CloseStep(from, to, R, v)
      PROVE  PendingExact' /\ NoEarlyVerdict'
  BY <1>8 DEF CloseStep, Drain
<1>9. ASSUME UNCHANGED <<at, chan, pending>>
      PROVE  PendingExact' /\ NoEarlyVerdict'
  BY <1>9
<1>10. ASSUME NEW c \in Conns, \/ Claim(c) \/ AddSink(c) \/ Resend(c) \/ ListQuestions(c)
                               \/ Claimed(c) \/ RemoveSink(c) \/ OfferCapability(c)
                               \/ ConfigureBackground(c) \/ ReleaseControl(c)
       PROVE  PendingExact' /\ NoEarlyVerdict'
  BY <1>9, <1>10 DEF Claim, AddSink, Resend, ListQuestions, Claimed, RemoveSink, OfferCapability,
                     ConfigureBackground, ReleaseControl
<1>11. CASE UNCHANGED requestVars
  BY <1>11 DEF requestVars
<1> HIDE DEF Shape, PendingExact, NoEarlyVerdict
<1> QED
  BY StepCases, <1>1, <1>2, <1>3, <1>4, <1>5, <1>6, <1>7, <1>8, <1>10, <1>11

(***************************************************************************)
(* A request snapshots the sinks in the section that registers it, and a   *)
(* connection lists the approvals in the section that adds its sink:       *)
(* whichever comes second sees the other (Approve against AddSink).  What  *)
(* is then on its way to a connection that is still there arrives.         *)
(***************************************************************************)
LEMMA ApprovalsShownStep ==
    ASSUME Shape, SinksAttached, ApprovalsShown, [RequestsNext]_requestVars
    PROVE  SinksAttached' /\ ApprovalsShown'
<1> USE DEF Shape, SinksAttached, ApprovalsShown, Reaches, brokerVars, connVars, callVars,
            BrokerSide
<1>1. ASSUME NEW r \in Requests, NEW value, Return(r, value)
      PROVE  SinksAttached' /\ ApprovalsShown'
  BY <1>1 DEF Return
<1>2. ASSUME NEW r \in Requests, SendRequest(r) \/ SendsDone(r)
      PROVE  SinksAttached' /\ ApprovalsShown'
  BY <1>2 DEF SendRequest, SendsDone
<1>3. ASSUME NEW r \in Approvals, Approve(r)
      PROVE  SinksAttached' /\ ApprovalsShown'
  BY <1>3 DEF Approve, AllSinks, Requests
<1>4. ASSUME NEW r \in Questions, AskSnapshot(r) \/ AskRegister(r) \/ Poll(r)
      PROVE  SinksAttached' /\ ApprovalsShown'
  BY <1>4, RequestsAssumption DEF AskSnapshot, AskRegister, Poll, Requests
<1>5. ASSUME UNCHANGED <<unsent, attended, chan, grace, brokerVars, connVars, shown>>
      PROVE  SinksAttached' /\ ApprovalsShown'
  BY <1>5
<1>6. ASSUME NEW r \in Tools, Wait(r)
      PROVE  SinksAttached' /\ ApprovalsShown'
  BY <1>6, RequestsAssumption DEF Wait, Requests
<1>7. ASSUME NEW c \in Conns, NEW r \in Requests, NEW v, Resolve(c, r, v)
      PROVE  SinksAttached' /\ ApprovalsShown'
  BY <1>7 DEF Resolve, Resolved
<1>8. ASSUME NEW from, NEW to, NEW R, NEW v, CloseStep(from, to, R, v)
      PROVE  SinksAttached' /\ ApprovalsShown'
  BY <1>8 DEF CloseStep, Drain
<1>9. ASSUME NEW c \in Conns, Claim(c)
      PROVE  SinksAttached' /\ ApprovalsShown'
  BY <1>9 DEF Claim
<1>10. ASSUME NEW c \in Conns, AddSink(c)
       PROVE  SinksAttached' /\ ApprovalsShown'
  BY <1>10 DEF AddSink
<1>11. ASSUME NEW c \in Conns, Resend(c)
       PROVE  SinksAttached' /\ ApprovalsShown'
  BY <1>11 DEF Resend
<1>12. ASSUME NEW c \in Conns, ListQuestions(c) \/ Claimed(c)
       PROVE  SinksAttached' /\ ApprovalsShown'
  BY <1>12 DEF ListQuestions, Claimed
<1>13. ASSUME NEW c \in Conns, RemoveSink(c)
       PROVE  SinksAttached' /\ ApprovalsShown'
  BY <1>13 DEF RemoveSink
<1>14. ASSUME NEW c \in Conns, OfferCapability(c) \/ ConfigureBackground(c) \/ ReleaseControl(c)
       PROVE  SinksAttached' /\ ApprovalsShown'
  BY <1>14 DEF OfferCapability, ConfigureBackground, ReleaseControl
<1>15. CASE UNCHANGED requestVars
  BY <1>15 DEF requestVars
<1> HIDE DEF Shape, SinksAttached, ApprovalsShown
<1> QED
  BY StepCases, <1>1, <1>2, <1>3, <1>4, <1>5, <1>6, <1>7, <1>8, <1>9, <1>10, <1>11, <1>12,
     <1>13, <1>14, <1>15

(***************************************************************************)
(* A claim gets the next revision of the session and the teardown forgets  *)
(* it; between the two no connection is ahead of the session.              *)
(***************************************************************************)
LEMMA RevisionsOrderedStep ==
    ASSUME Shape, RevisionsOrdered, [RequestsNext]_requestVars
    PROVE  RevisionsOrdered'
<1> USE DEF Shape, RevisionsOrdered, closed, brokerVars, connVars, callVars, BrokerSide
<1>1. ASSUME UNCHANGED <<closing, conn, revision, rev, offer>> PROVE RevisionsOrdered'
  BY <1>1
<1>2. ASSUME NEW r, (\E value : Return(r, value)) \/ SendRequest(r) \/ SendsDone(r) \/ Approve(r)
                    \/ AskSnapshot(r) \/ AskRegister(r) \/ Poll(r) \/ Wait(r)
      PROVE  RevisionsOrdered'
  BY <1>1, <1>2 DEF Return, SendRequest, SendsDone, Approve, AskSnapshot, AskRegister, Poll, Wait
<1>3. ASSUME UNCHANGED <<unsent, attended, chan, grace, brokerVars, connVars, shown>>
      PROVE  RevisionsOrdered'
  BY <1>1, <1>3
<1>4. ASSUME NEW c, NEW r, NEW v, Resolve(c, r, v) PROVE RevisionsOrdered'
  BY <1>1, <1>4 DEF Resolve
<1>5. ASSUME NEW from, NEW to, NEW R, NEW v, to # "no", CloseStep(from, to, R, v)
      PROVE  RevisionsOrdered'
  BY <1>5 DEF CloseStep
<1>6. ASSUME NEW c \in Conns, Claim(c) PROVE RevisionsOrdered'
  BY <1>6 DEF Claim
<1>7. ASSUME NEW c \in Conns,
             AddSink(c) \/ ListQuestions(c) \/ Claimed(c) \/ RemoveSink(c) \/ ReleaseControl(c)
      PROVE  RevisionsOrdered'
  BY <1>7 DEF AddSink, ListQuestions, Claimed, RemoveSink, ReleaseControl
<1>8. ASSUME NEW c \in Conns, Resend(c) \/ OfferCapability(c) \/ ConfigureBackground(c)
      PROVE  RevisionsOrdered'
  BY <1>8 DEF Resend, OfferCapability, ConfigureBackground
<1>9. CASE UNCHANGED requestVars
  BY <1>1, <1>9 DEF requestVars
<1> HIDE DEF Shape, RevisionsOrdered
<1> QED
  BY StepCases, <1>2, <1>3, <1>4, <1>5, <1>6, <1>7, <1>8, <1>9

(***************************************************************************)
(* A connection says what it supports, and is answered, after its claim    *)
(* is complete.                                                            *)
(***************************************************************************)
LEMMA OffersAfterClaimStep ==
    ASSUME Shape, OffersAfterClaim, [RequestsNext]_requestVars
    PROVE  OffersAfterClaim'
<1> USE DEF Shape, OffersAfterClaim, brokerVars, connVars, callVars, BrokerSide
<1>1. ASSUME UNCHANGED <<conn, offer, told>> PROVE OffersAfterClaim'
  BY <1>1
<1>2. ASSUME NEW r, (\E value : Return(r, value)) \/ SendRequest(r) \/ SendsDone(r) \/ Approve(r)
                    \/ AskSnapshot(r) \/ AskRegister(r) \/ Poll(r) \/ Wait(r)
      PROVE  OffersAfterClaim'
  BY <1>1, <1>2 DEF Return, SendRequest, SendsDone, Approve, AskSnapshot, AskRegister, Poll, Wait
<1>3. ASSUME UNCHANGED <<unsent, attended, chan, grace, brokerVars, connVars, shown>>
      PROVE  OffersAfterClaim'
  BY <1>1, <1>3
<1>4. ASSUME NEW c, NEW r, NEW v, Resolve(c, r, v) PROVE OffersAfterClaim'
  BY <1>1, <1>4 DEF Resolve
<1>5. ASSUME NEW from, NEW to, NEW R, NEW v, CloseStep(from, to, R, v) PROVE OffersAfterClaim'
  BY <1>5 DEF CloseStep
<1>6. ASSUME NEW c \in Conns, Claim(c) \/ AddSink(c) \/ Resend(c) \/ ListQuestions(c)
      PROVE  OffersAfterClaim'
  BY <1>6 DEF Claim, AddSink, Resend, ListQuestions
<1>7. ASSUME NEW c \in Conns, Claimed(c) \/ RemoveSink(c) \/ ReleaseControl(c)
      PROVE  OffersAfterClaim'
  BY <1>7 DEF Claimed, RemoveSink, ReleaseControl
<1>8. ASSUME NEW c \in Conns, OfferCapability(c) \/ ConfigureBackground(c)
      PROVE  OffersAfterClaim'
  BY <1>8 DEF OfferCapability, ConfigureBackground
<1>9. CASE UNCHANGED requestVars
  BY <1>1, <1>9 DEF requestVars
<1> HIDE DEF Shape, OffersAfterClaim
<1> QED
  BY StepCases, <1>2, <1>3, <1>4, <1>5, <1>6, <1>7, <1>8, <1>9

(***************************************************************************)
(* Only the connection with the session's revision enables or withdraws    *)
(* the support, and no other one has that revision (configureBackground,   *)
(* releaseSessionControl).                                                 *)
(***************************************************************************)
LEMMA GrantStableStep ==
    ASSUME Shape, RevisionsOrdered, OffersAfterClaim, GrantStable, [RequestsNext]_requestVars
    PROVE  GrantStable'
<1> USE DEF Shape, GrantStable, closed, brokerVars, connVars, callVars, BrokerSide
<1>1. ASSUME UNCHANGED <<closing, conn, revision, rev, told, support>> PROVE GrantStable'
  BY <1>1
<1>2. ASSUME NEW r, (\E value : Return(r, value)) \/ SendRequest(r) \/ SendsDone(r) \/ Approve(r)
                    \/ AskSnapshot(r) \/ AskRegister(r) \/ Poll(r) \/ Wait(r)
      PROVE  GrantStable'
  BY <1>1, <1>2 DEF Return, SendRequest, SendsDone, Approve, AskSnapshot, AskRegister, Poll, Wait
<1>3. ASSUME UNCHANGED <<unsent, attended, chan, grace, brokerVars, connVars, shown>>
      PROVE  GrantStable'
  BY <1>1, <1>3
<1>4. ASSUME NEW c, NEW r, NEW v, Resolve(c, r, v) PROVE GrantStable'
  BY <1>1, <1>4 DEF Resolve
<1>5. ASSUME NEW from, NEW to, NEW R, NEW v, to # "no", CloseStep(from, to, R, v)
      PROVE  GrantStable'
  BY <1>5 DEF CloseStep, RevisionsOrdered
<1>6. ASSUME NEW c \in Conns, Claim(c) PROVE GrantStable'
  BY <1>6 DEF Claim, RevisionsOrdered
<1>7. ASSUME NEW c \in Conns, AddSink(c) \/ ListQuestions(c) \/ RemoveSink(c)
      PROVE  GrantStable'
  BY <1>7 DEF AddSink, ListQuestions, RemoveSink
<1>8. ASSUME NEW c \in Conns, Claimed(c) PROVE GrantStable'
  BY <1>8 DEF Claimed, OffersAfterClaim
<1>9. ASSUME NEW c \in Conns, ReleaseControl(c) PROVE GrantStable'
  BY <1>9 DEF ReleaseControl, OwnsControl, RevisionsOrdered
<1>10. ASSUME NEW c \in Conns, ConfigureBackground(c) PROVE GrantStable'
  BY <1>10 DEF ConfigureBackground, OwnsControl, RevisionsOrdered, OffersAfterClaim
<1>11. ASSUME NEW c \in Conns, Resend(c) \/ OfferCapability(c) PROVE GrantStable'
  BY <1>1, <1>11 DEF Resend, OfferCapability
<1>12. CASE UNCHANGED requestVars
  BY <1>1, <1>12 DEF requestVars
<1> HIDE DEF Shape, GrantStable
<1> QED
  BY StepCases, <1>2, <1>3, <1>4, <1>5, <1>6, <1>7, <1>8, <1>9, <1>10, <1>11, <1>12

-----------------------------------------------------------------------------
(***************************************************************************)
(* The conjuncts hold together in every reachable state.                   *)
(***************************************************************************)
LEMMA RequestsInductive == RequestsSpec => []RequestsIInv
<1>1. RequestsInit => RequestsIInv
  <2> SUFFICES ASSUME RequestsInit PROVE RequestsIInv
    OBVIOUS
  <2>1. Cardinality({}) = 0
    BY FS_EmptySet
  <2>2. Came = {}
    BY DEF RequestsInit, Came
  <2>3. Cardinality(Conns) \in Nat
    BY FS_CardinalityType, RequestsAssumption
  <2>4. Shape
    <3>1. hLock = {} /\ Cardinality(hLock) <= 1
      BY <2>1 DEF RequestsInit
    <3>2. at \in [Requests -> {"idle"}] /\ chan \in [Requests -> Verdicts \cup {"empty"}]
      BY DEF RequestsInit
    <3> QED
      BY <3>1, <3>2 DEF RequestsInit, Shape
  <2>5. RevisionsCounted
    BY <2>1, <2>2, <2>3 DEF RequestsInit, RevisionsCounted
  <2>6. /\ PendingExact /\ NoEarlyVerdict /\ SinksAttached /\ ApprovalsShown
        /\ OffersAfterClaim
    BY DEF RequestsInit, PendingExact, NoEarlyVerdict, SinksAttached, ApprovalsShown,
           OffersAfterClaim
  <2>7. RevisionsOrdered
    BY DEF RequestsInit, RevisionsOrdered, closed
  <2>8. GrantStable
    BY DEF RequestsInit, GrantStable, closed
  <2> QED
    BY <2>4, <2>5, <2>6, <2>7, <2>8 DEF RequestsIInv
<1>2. RequestsIInv /\ [RequestsNext]_requestVars => RequestsIInv'
  BY ShapeStep, RevisionsCountedStep, PendingExactStep, ApprovalsShownStep,
     RevisionsOrderedStep, OffersAfterClaimStep, GrantStableStep DEF RequestsIInv
<1> QED
  BY <1>1, <1>2, PTL DEF RequestsSpec

(***************************************************************************)
(* The requests are well formed, there are never more revisions than       *)
(* connections, and a registered request always has a caller that has not  *)
(* been answered: no verdict goes to a call that has one and nothing stays *)
(* in the maps of RemoteApprover and RemoteToolResultWaiter.               *)
(***************************************************************************)
THEOREM RequestsInvHolds == RequestsSpec => []RequestsInv
<1>1. RequestsIInv => RequestsInv
  <2> SUFFICES ASSUME RequestsIInv PROVE RequestsInv
    OBVIOUS
  <2> USE DEF RequestsIInv
  <2>1. Cardinality(Conns) \in Nat /\ Cardinality(Came) <= Cardinality(Conns)
        /\ Cardinality(Came) \in Nat
    BY FS_Subset, FS_CardinalityType, RequestsAssumption DEF Came
  <2>2. revision \in 0..Cardinality(Conns)
    BY <2>1 DEF Shape, RevisionsCounted
  <2>3. rev \in [Conns -> 0..Cardinality(Conns)]
    BY <2>1 DEF Shape, RevisionsCounted
  <2>4. RequestsTypeOK
    BY <2>2, <2>3 DEF Shape, RequestsTypeOK
  <2> QED
    BY <2>4 DEF RequestsInv
<1> QED
  BY <1>1, RequestsInductive, PTL

(***************************************************************************)
(* Every attached device sees every unanswered approval or is about to be  *)
(* sent it, whichever of the request and the connection came first         *)
(* (Approve against AddSink).                                              *)
(***************************************************************************)
THEOREM EveryApprovalShown == RequestsSpec => []ApprovalsShown
<1>1. RequestsIInv => ApprovalsShown
  BY DEF RequestsIInv
<1> QED
  BY <1>1, RequestsInductive, PTL

(***************************************************************************)
(* The latest connection keeps the background continuation it was told of  *)
(* while it is connected, whatever older sockets and routed messages do,   *)
(* and until the teardown nobody else can have enabled it                  *)
(* (configureBackground, releaseSessionControl).                           *)
(***************************************************************************)
THEOREM GrantIsStable == RequestsSpec => []GrantStable
<1>1. RequestsIInv => GrantStable
  BY DEF RequestsIInv
<1> QED
  BY <1>1, RequestsInductive, PTL
=============================================================================
