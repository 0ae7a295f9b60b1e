--------------------------- MODULE ClientRequests ---------------------------
(***************************************************************************)
(* What a running turn asks of the clients of its conversation, and the    *)
(* connections that come and go meanwhile: RemoteApprover                  *)
(* (internal/server/approver.go), RemoteToolResultWaiter (tool_waiter.go), *)
(* the claim and the release of a session by a WebSocket (ws.go) and the   *)
(* grant of background continuation (background_continuation.go).          *)
(*                                                                         *)
(* One conversation.  Approve, ApprovePlan and ApproveExternalPath have    *)
(* one control and are the Approvals; AskUser calls are the Questions and  *)
(* delegated tool calls the Tools.  Close is an operation of the approver  *)
(* like any other and may come at any moment.                              *)
(***************************************************************************)
EXTENDS Naturals, FiniteSets

CONSTANTS
    Approvals, Questions, Tools,  \* the requests of the turn
    Conns,                        \* WebSocket connections, each made once
    Capable,                      \* those that send client_capabilities
    Closes                        \* whether the conversation is torn down

ASSUME RequestsAssumption ==
    /\ Approvals \cap Questions = {} /\ Questions \cap Tools = {} /\ Tools \cap Approvals = {}
    /\ IsFiniteSet(Conns)
    /\ Closes \in BOOLEAN

VARIABLES
    \* the goroutine of a request
    at,        \* where it is
    unsent,    \* connections of its snapshot it has still to send to
    attended,  \* AskUser: the snapshot was not empty
    chan,      \* its channel of one verdict
    grace,     \* AskUser: the grace timer runs
    \* RemoteApprover and RemoteToolResultWaiter
    pending,   \* registered requests, of the three maps
    sinks,     \* attached connections
    closing,   \* how far RemoveApprover is: no, denied, asked, done
    \* WSHandler and the connections
    conn,      \* where a connection is
    todo,      \* pending requests AddSink has still to resend to it
    hLock,     \* the connection in claimSessionControl, which holds WSHandler.mu
    revision,  \* controlRevisions of the session
    rev,       \* the revision of a connection
    offer,     \* its client_capabilities message: none, routing
    told,      \* it was answered that background continuation is enabled
    support,   \* SetBackgroundContinuationSupport
    \* the clients
    shown      \* open requests the client of a connection shows

callVars == <<at, unsent, attended, chan, grace>>
brokerVars == <<pending, sinks, closing>>
connVars == <<conn, todo, hLock, revision, rev, offer, told, support>>
requestVars == <<callVars, brokerVars, connVars, shown>>

Requests == Approvals \cup Questions \cup Tools
closed == closing # "no"

RequestsInit ==
    /\ at = [r \in Requests |-> "idle"]
    /\ unsent = [r \in Requests |-> {}]
    /\ attended = [r \in Requests |-> FALSE]
    /\ chan = [r \in Requests |-> "empty"]
    /\ grace = [r \in Requests |-> FALSE]
    /\ pending = {} /\ sinks = {} /\ closing = "no"
    /\ conn = [c \in Conns |-> "off"]
    /\ todo = [c \in Conns |-> {}]
    /\ hLock = {}
    /\ revision = 0
    /\ rev = [c \in Conns |-> 0]
    /\ offer = [c \in Conns |-> "none"]
    /\ told = [c \in Conns |-> FALSE]
    /\ support = FALSE
    /\ shown = [c \in Conns |-> {}]

\* The deferred delete, and what the caller gets.
Return(r, value) ==
    /\ at' = [at EXCEPT ![r] = IF value = "allow" THEN "allowed" ELSE "ended"]
    /\ pending' = pending \ {r}
    /\ unsent' = [unsent EXCEPT ![r] = {}]
    /\ attended' = [attended EXCEPT ![r] = FALSE]
    /\ grace' = [grace EXCEPT ![r] = FALSE]
    /\ chan' = [chan EXCEPT ![r] = "empty"]
    /\ shown' = [c \in Conns |-> shown[c] \ {r}]
    /\ UNCHANGED <<sinks, closing, connVars>>

-----------------------------------------------------------------------------
(***************************************************************************)
(* Approve, ApprovePlan, ApproveExternalPath.                              *)
(***************************************************************************)
\* Mutant: only the connection that claimed the session last is asked.
LatestSink == {c \in sinks : rev[c] = revision}

\* The devices a request is sent to.
AllSinks == sinks

Approve(r) ==
    /\ at[r] = "idle"
    /\ ~closed
    /\ pending' = pending \cup {r}
    /\ unsent' = [unsent EXCEPT ![r] = AllSinks]
    /\ at' = [at EXCEPT ![r] = "sending"]
    /\ UNCHANGED <<attended, chan, grace, sinks, closing, connVars, shown>>

ApproveClosed(r) ==
    /\ at[r] = "idle"
    /\ closed
    /\ Return(r, "deny")

\* Send to one sink of the snapshot; a connection that is gone returns an error.
SendRequest(r) ==
    /\ at[r] = "sending"
    /\ \E c \in unsent[r] :
        /\ unsent' = [unsent EXCEPT ![r] = @ \ {c}]
        /\ shown' = [shown EXCEPT ![c] = IF conn[c] = "gone" THEN @ ELSE @ \cup {r}]
    /\ UNCHANGED <<at, attended, chan, grace, brokerVars, connVars>>

SendsDone(r) ==
    /\ at[r] = "sending"
    /\ unsent[r] = {}
    /\ at' = [at EXCEPT ![r] = "waiting"]
    /\ UNCHANGED <<unsent, attended, chan, grace, brokerVars, connVars, shown>>

\* The select of any call: the verdict.
TakeVerdict(r) ==
    /\ at[r] = "waiting"
    /\ chan[r] # "empty"
    /\ Return(r, chan[r])

DeadlineVerdict == "deny"

\* The deadline of an approval, if one is configured.
ApprovalDeadline(r) ==
    /\ at[r] = "waiting"
    /\ Return(r, DeadlineVerdict)

-----------------------------------------------------------------------------
(***************************************************************************)
(* AskUser and waitWithGracePeriod.  The sinks are read before the request *)
(* is registered.                                                          *)
(***************************************************************************)
AskSnapshot(r) ==
    /\ at[r] = "idle"
    /\ unsent' = [unsent EXCEPT ![r] = sinks]
    /\ attended' = [attended EXCEPT ![r] = sinks # {}]
    /\ at' = [at EXCEPT ![r] = "snapped"]
    /\ UNCHANGED <<chan, grace, brokerVars, connVars, shown>>

AskRegister(r) ==
    /\ at[r] = "snapped"
    /\ pending' = pending \cup {r}
    /\ at' = [at EXCEPT ![r] = "registered"]
    /\ UNCHANGED <<unsent, attended, chan, grace, sinks, closing, connVars, shown>>

\* Mutant: closed was read with the sinks, before the registration.
NotRechecked == FALSE

\* closed is read again after the registration.
ClosedMeanwhile == closed

AskRecheck(r) ==
    /\ at[r] = "registered"
    /\ \/ /\ ClosedMeanwhile
          /\ Return(r, "error")
       \/ /\ ~ClosedMeanwhile
          /\ at' = [at EXCEPT ![r] = "sending"]
          /\ UNCHANGED <<unsent, attended, chan, grace, brokerVars, connVars, shown>>

\* Mutant: a reconnection is noticed, a departure is not.
NoGrace(r) == grace[r] /\ sinks = {}

\* The grace timer runs while nobody is connected.
GraceAfterPoll(r) == sinks = {}

Poll(r) ==
    /\ at[r] = "waiting"
    /\ attended[r]
    /\ grace[r] # GraceAfterPoll(r)
    /\ grace' = [grace EXCEPT ![r] = GraceAfterPoll(r)]
    /\ UNCHANGED <<at, unsent, attended, chan, brokerVars, connVars, shown>>

\* The grace period is over, or the fallback deadline of a headless call.
AskExpires(r) ==
    /\ at[r] = "waiting"
    /\ grace[r] \/ ~attended[r]
    /\ Return(r, "error")

-----------------------------------------------------------------------------
(***************************************************************************)
(* RemoteToolResultWaiter.Wait.  CancelAll leaves a nil map, in which      *)
(* nothing can be stored.                                                  *)
(***************************************************************************)
Wait(r) ==
    /\ at[r] = "idle"
    /\ IF closing = "done" THEN at' = [at EXCEPT ![r] = "panicked"] /\ UNCHANGED pending
       ELSE at' = [at EXCEPT ![r] = "waiting"] /\ pending' = pending \cup {r}
    /\ UNCHANGED <<unsent, attended, chan, grace, sinks, closing, connVars, shown>>

\* The lease expires or the context of the turn ends.
WaitExpires(r) ==
    /\ at[r] = "waiting"
    /\ Return(r, "error")

-----------------------------------------------------------------------------
(***************************************************************************)
(* The clients and the teardown.                                           *)
(***************************************************************************)
\* Mutant: the answered request stays in its map.
KeepPending(r) == pending

\* deliver, ResolveAskUser and Deliver remove the request with its verdict.
Resolved(r) == pending \ {r}

Answers(r) ==
    IF r \in Approvals THEN {"allow", "deny"} ELSE IF r \in Questions THEN {"answer"}
    ELSE {"result"}

\* Any connection may answer, once or several times; tool calls reach the
\* clients with the events of the turn.
Resolve(c, r, verdict) ==
    /\ conn[c] \in {"open", "released"}
    /\ r \in shown[c] \cup Tools
    /\ r \in pending
    /\ pending' = Resolved(r)
    /\ chan' = [chan EXCEPT ![r] = IF @ = "empty" THEN verdict ELSE @]
    /\ UNCHANGED <<at, unsent, attended, grace, sinks, closing, connVars, shown>>

\* Every drained request gets this verdict unless it has one.
Drain(R, verdict) ==
    /\ chan' = [r \in Requests |-> IF r \in R \cap pending /\ chan[r] = "empty" THEN verdict
                                   ELSE chan[r]]
    /\ pending' = pending \ R

\* RemoveApprover forgets the revision of the session; the approver denies,
\* then the questions, then CancelAll.
CloseStep(from, to, R, verdict) ==
    /\ Closes
    /\ closing = from
    /\ hLock = {}
    /\ closing' = to
    /\ revision' = 0
    /\ Drain(R, verdict)
    /\ UNCHANGED <<at, unsent, attended, grace, sinks, conn, todo, hLock, rev, offer, told,
                   support, shown>>

CloseApprovals == CloseStep("no", "denied", Approvals, "deny")
CloseQuestions == CloseStep("denied", "asked", Questions, "error")
CancelAll == CloseStep("asked", "done", Tools, "error")

-----------------------------------------------------------------------------
(***************************************************************************)
(* A connection: claimSessionControl with AddSink, releaseSessionControl,  *)
(* configureBackground.                                                    *)
(***************************************************************************)
BrokerSide == <<callVars, pending, closing>>

\* Under WSHandler.mu; a claim withdraws the support.
Claim(c) ==
    /\ conn[c] = "off"
    /\ hLock = {} /\ ~closed
    /\ hLock' = {c}
    /\ revision' = revision + 1
    /\ rev' = [rev EXCEPT ![c] = revision + 1]
    /\ support' = FALSE
    /\ conn' = [conn EXCEPT ![c] = "claimed"]
    /\ UNCHANGED <<BrokerSide, sinks, todo, offer, told, shown>>

\* AddSink: the sink is registered and the approvals listed in one section.
AddSink(c) ==
    /\ conn[c] = "claimed"
    /\ sinks' = sinks \cup {c}
    /\ todo' = [todo EXCEPT ![c] = pending \cap Approvals]
    /\ conn' = [conn EXCEPT ![c] = "approvals"]
    /\ UNCHANGED <<BrokerSide, hLock, revision, rev, offer, told, support, shown>>

\* What is still pending is sent again.
Resend(c) ==
    /\ conn[c] \in {"approvals", "questions"}
    /\ \E r \in todo[c] :
        /\ todo' = [todo EXCEPT ![c] = @ \ {r}]
        /\ shown' = [shown EXCEPT ![c] = IF r \in pending THEN @ \cup {r} ELSE @]
    /\ UNCHANGED <<BrokerSide, sinks, conn, hLock, revision, rev, offer, told, support>>

ListQuestions(c) ==
    /\ conn[c] = "approvals" /\ todo[c] = {}
    /\ todo' = [todo EXCEPT ![c] = pending \cap Questions]
    /\ conn' = [conn EXCEPT ![c] = "questions"]
    /\ UNCHANGED <<BrokerSide, sinks, hLock, revision, rev, offer, told, support, shown>>

Claimed(c) ==
    /\ conn[c] = "questions" /\ todo[c] = {}
    /\ hLock' = {}
    /\ conn' = [conn EXCEPT ![c] = "open"]
    /\ UNCHANGED <<BrokerSide, sinks, todo, revision, rev, offer, told, support, shown>>

\* The reader routes a client_capabilities message.
OfferCapability(c) ==
    /\ c \in Capable
    /\ conn[c] = "open"
    /\ offer[c] = "none"
    /\ offer' = [offer EXCEPT ![c] = "routing"]
    /\ UNCHANGED <<BrokerSide, sinks, conn, todo, hLock, revision, rev, told, support, shown>>

\* Mutant: whoever owns the session, the message is believed.
AnyRevision(c) == TRUE

\* The connection is the one that claimed the session last.
OwnsControl(c) == rev[c] = revision

\* configureBackground enables or disables what the message and the session
\* agree on; the stream may have ended while the message was routed.
ConfigureBackground(c) ==
    /\ offer[c] = "routing"
    /\ hLock = {}
    /\ offer' = [offer EXCEPT ![c] = "none"]
    /\ \/ ~OwnsControl(c) /\ UNCHANGED <<support, told>>
       \/ /\ OwnsControl(c)
          /\ support' \in BOOLEAN
          /\ told' = [told EXCEPT ![c] = support']
    /\ UNCHANGED <<BrokerSide, sinks, conn, todo, hLock, revision, rev, shown>>

\* releaseSessionControl: the latest connection withdraws the support.
ReleaseControl(c) ==
    /\ conn[c] = "open"
    /\ hLock = {}
    /\ support' = (support /\ ~OwnsControl(c))
    /\ conn' = [conn EXCEPT ![c] = "released"]
    /\ UNCHANGED <<BrokerSide, sinks, todo, hLock, revision, rev, offer, told, shown>>

RemoveSink(c) ==
    /\ conn[c] = "released"
    /\ sinks' = sinks \ {c}
    /\ conn' = [conn EXCEPT ![c] = "gone"]
    /\ shown' = [shown EXCEPT ![c] = {}]
    /\ UNCHANGED <<BrokerSide, todo, hLock, revision, rev, offer, told, support>>

-----------------------------------------------------------------------------
\* What a call does on its own once it has begun.
CallProceeds(r) ==
    \/ SendRequest(r) \/ SendsDone(r) \/ TakeVerdict(r)
    \/ r \in Questions /\ (AskRegister(r) \/ AskRecheck(r) \/ Poll(r) \/ AskExpires(r))

ConnProceeds(c) ==
    AddSink(c) \/ Resend(c) \/ ListQuestions(c) \/ Claimed(c) \/ RemoveSink(c)

RequestsNext ==
    \/ \E r \in Requests : CallProceeds(r)
    \/ \E r \in Approvals : Approve(r) \/ ApproveClosed(r) \/ ApprovalDeadline(r)
    \/ \E r \in Questions : AskSnapshot(r)
    \/ \E r \in Tools : Wait(r) \/ WaitExpires(r)
    \/ \E c \in Conns, r \in Requests : \E v \in Answers(r) : Resolve(c, r, v)
    \/ CloseApprovals \/ CloseQuestions \/ CancelAll
    \/ \E c \in Conns :
          \/ Claim(c) \/ ConnProceeds(c)
          \/ OfferCapability(c) \/ ConfigureBackground(c) \/ ReleaseControl(c)

RequestsSpec == RequestsInit /\ [][RequestsNext]_requestVars

(***************************************************************************)
(* Goroutines run and tickers tick.  Clients need not answer, connections  *)
(* need not end, approvals have no deadline by default; a teardown that    *)
(* began is carried out.                                                   *)
(***************************************************************************)
RequestsFairness ==
    /\ \A r \in Requests : WF_requestVars(CallProceeds(r))
    /\ \A c \in Conns : WF_requestVars(ConnProceeds(c))
    /\ SF_requestVars(CloseQuestions)
    /\ SF_requestVars(CancelAll)
    /\ \A r \in Tools : WF_requestVars(WaitExpires(r))

RequestsFairSpec == RequestsSpec /\ RequestsFairness

-----------------------------------------------------------------------------
(***************************************************************************)
(* Type correctness.                                                       *)
(***************************************************************************)
Verdicts == {"allow", "deny", "answer", "result", "error"}
RequestsTypeOK ==
    /\ at \in [Requests -> {"idle", "snapped", "registered", "sending", "waiting", "allowed",
                            "ended", "panicked"}]
    /\ unsent \in [Requests -> SUBSET Conns]
    /\ {attended, grace} \subseteq [Requests -> BOOLEAN]
    /\ chan \in [Requests -> Verdicts \cup {"empty"}]
    /\ pending \subseteq Requests /\ sinks \subseteq Conns
    /\ closing \in {"no", "denied", "asked", "done"}
    /\ conn \in [Conns -> {"off", "claimed", "approvals", "questions", "open", "released",
                           "gone"}]
    /\ todo \in [Conns -> SUBSET Requests]
    /\ hLock \subseteq Conns /\ Cardinality(hLock) <= 1
    /\ revision \in 0..Cardinality(Conns)
    /\ rev \in [Conns -> 0..Cardinality(Conns)]
    /\ offer \in [Conns -> {"none", "routing"}]
    /\ told \in [Conns -> BOOLEAN] /\ support \in BOOLEAN
    /\ shown \in [Conns -> SUBSET Requests]

\* The request has reached the connection or is on its way to it.
Reaches(r, c) == r \in shown[c] \/ r \in todo[c] \/ c \in unsent[r]

(***************************************************************************)
(* Every attached device sees every unanswered approval, whichever of the  *)
(* request and the connection came first (Approve against AddSink).        *)
(***************************************************************************)
ApprovalsShown == \A r \in pending \cap Approvals, c \in sinks : Reaches(r, c)

(***************************************************************************)
(* A registered request has a caller that has not been answered: nothing   *)
(* stays in the maps after its call returned, and no verdict is sent to a  *)
(* call that has one.  The counts of BrokerAttention are exact.            *)
(***************************************************************************)
PendingExact ==
    \A r \in Requests :
        r \in pending => at[r] \in {"registered", "sending", "waiting"} /\ chan[r] = "empty"

(***************************************************************************)
(* The requests are well formed, and the table of pending ones is exact.   *)
(***************************************************************************)
RequestsInv == RequestsTypeOK /\ PendingExact

(***************************************************************************)
(* A connection that was told background continuation is enabled keeps it  *)
(* while it is the latest one and connected, whatever older sockets do,    *)
(* and until the teardown only the latest connection can have enabled it   *)
(* (configureBackground and releaseSessionControl).                        *)
(***************************************************************************)
GrantStable ==
    /\ \A c \in Conns : told[c] /\ rev[c] = revision /\ conn[c] = "open" => support
    /\ support /\ ~closed => \E c \in Conns : told[c] /\ rev[c] = revision

(***************************************************************************)
(* After a teardown no call stays blocked, whatever it was doing when it   *)
(* began (Close, CancelAll, the check after the registration in AskUser).  *)
(***************************************************************************)
InFlight(r) == at[r] \notin {"idle", "allowed", "ended", "panicked"}
CloseReleases == \A r \in Requests : closing = "done" /\ InFlight(r) ~> ~InFlight(r)

(***************************************************************************)
(* A question does not outlive its audience: when every client has gone    *)
(* for good the call returns (waitWithGracePeriod).                        *)
(***************************************************************************)
QuestionEnds ==
    \A r \in Questions : []<>(~InFlight(r)) \/ []<>(sinks # {})

(***************************************************************************)
(* AddSink re-sends every pending request, so that a newly connected       *)
(* client sees them: every attached device sees every unanswered question. *)
(***************************************************************************)
QuestionsShown ==
    \A r \in pending \cap Questions, c \in sinks :
        conn[c] = "open" => Reaches(r, c)

(***************************************************************************)
(* Support is revoked on disconnect: it is enabled only while the          *)
(* connection that enabled it is there.                                    *)
(***************************************************************************)
SupportNeedsConnection == support => \E c \in Conns : conn[c] \in {"claimed", "approvals", "questions", "open"}
=============================================================================
