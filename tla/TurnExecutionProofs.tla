------------------------ MODULE TurnExecutionProofs ------------------------
(***************************************************************************)
(* Proofs about TurnExecution, for every set of inputs and conversations,  *)
(* every limit of the scheduler and every number of restarts.              *)
(*                                                                         *)
(* The results form layers, each under the weakest hypothesis on Events    *)
(* that its argument needs:                                                *)
(*   RegistryInv     whatever may happen;                                  *)
(*   PermitInv       unless users cancel running turns, which takes a      *)
(*                   permit back while its turn executes;                  *)
(*   SnapshotInv     ... and no conversation is written without a permit;  *)
(*   OrderlyInv      with none of Occurrences.                             *)
(***************************************************************************)
EXTENDS TurnExecution, TurnSchedulerProofs

-----------------------------------------------------------------------------
(* Whatever may happen.                                                    *)

\* The drive has its permit and has not come to its deferred calls.
Permitted == {"reloaded", "started"} \cup Executing

ExecTypes ==
    /\ inbox \in [Inputs -> InputStates]
    /\ terminals \in [Inputs -> Seq(TerminalEvents)]
    /\ startedLog \in [Inputs -> BOOLEAN]
    /\ store \in [Sessions -> Conversations]
    /\ restarts \in 0..MaxRestarts
    /\ reg \in [Sessions -> Turns \cup {NoTurn}]
    /\ suspended \in [Sessions -> BOOLEAN]
    /\ turnCtx \in [Turns -> BOOLEAN]
    /\ pc \in [Turns -> Places]
    /\ loc \in [Turns -> Conversations]
    /\ res \in [Turns -> Outcomes]
    /\ scan \in [Inputs -> InputStates]
    /\ canceller \in [Sessions -> {"none", "active", "release"}]

\* What the scheduler thinks of a drive, by the place of the drive.
CallerFits(d) ==
    /\ pc[d] \in {"idle", "loaded", "claimed"} => caller[d] = "idle"
    /\ pc[d] = "acquiring" => caller[d] = "waiting"
    /\ pc[d] = "aborting" => caller[d] \in {"idle", "failed"}
    /\ pc[d] \in Permitted => caller[d] = "holding"
    /\ pc[d] = "finishing" => caller[d] \in {"holding", "done"}

\* The registry names exactly the drives that execute.
RegistryNames(d) == pc[d] \in Executing <=> reg[Of(d)] = d
OwnEntries == \A s \in Sessions : reg[s] # NoTurn => Of(reg[s]) = s

RegistryInv ==
    /\ SafetyInv
    /\ ExecTypes
    /\ \A d \in Turns : CallerFits(d) /\ RegistryNames(d)
    /\ OwnEntries

-----------------------------------------------------------------------------
(* Unless users cancel running turns.                                      *)

\* A permit is returned by the turn it was granted to and by nobody else.
NotRevoked ==
    /\ \A s \in Sessions : canceller[s] = "none"
    /\ \A d \in Turns : released[d] => caller[d] = "done"

PermitInv == RegistryInv /\ NotRevoked

-----------------------------------------------------------------------------
(* ... and no conversation is written without a permit.                    *)

\* What a turn will save contains what is saved.
SnapshotFresh(d) ==
    /\ pc[d] \in Permitted => store[Of(d)].msgs \subseteq loc[d].msgs
    /\ pc[d] = "aborting" => caller[d] = "failed"

SnapshotInv == PermitInv /\ \A d \in Turns : SnapshotFresh(d)

\* No save removes a message.
MsgsKept == \A s \in Sessions : store[s].msgs \subseteq store'[s].msgs

-----------------------------------------------------------------------------
(* With none of Occurrences.                                               *)

\* The drive is entitled to the input: it recorded it, or was started by a
\* recovery or a Resume.
Engaged(d) ==
    /\ pc[d] # "idle"
    /\ pc[d] = "loaded" => KindOf(d) \in {"recovered", "resumed"}

\* At most one drive is entitled to an input.
OneDriver ==
    \A d, e \in Turns : InputOf(d) = InputOf(e) /\ Engaged(d) /\ Engaged(e) => d = e

\* The places of an entitled drive whose turn has not ended.
BeforeEnd == {"loaded", "claimed", "acquiring", "aborting", "reloaded", "started", "running"}
Judged == {"judged", "recorded"}

\* The log of the input, by the place of the drive.
LogFits(d) ==
    LET log == terminals[InputOf(d)]
        status == loc[d].status
    IN  /\ Engaged(d) /\ pc[d] \in BeforeEnd => log = <<>>
        /\ pc[d] \in {"ended", "judged"} => log = IF res[d] = "ok" THEN <<"finished">> ELSE <<>>
        /\ pc[d] \in Judged =>
              /\ res[d] = "ok" => status = "done"
              /\ status = "done" => res[d] \in {"ok", "canceled"}
        /\ pc[d] = "recorded" =>
              /\ status = "failed" => log = <<"failed">>
              /\ res[d] = "ok" => log = <<"finished">>
              /\ res[d] # "ok" /\ status = "done" => log \in {<<>>, <<"cancelled">>}

\* The state of the input, by the place of the drive.
InputFits(d) ==
    LET state == inbox[InputOf(d)]
        log == terminals[InputOf(d)]
    IN  /\ Engaged(d) /\ pc[d] \in {"loaded", "claimed", "acquiring", "reloaded"} =>
              state \notin Settled
        /\ pc[d] = "aborting" => state = "cancelled"
        /\ pc[d] \in {"started", "running"} => state = "running"
        /\ pc[d] \in {"ended", "judged", "recorded"} => state = "running" \/ log # <<>>

\* What is said of a drive.  A turn that stands for a Resume without an
\* interrupted input is driven by that Resume only.
Stage(d) ==
    /\ LogFits(d)
    /\ InputOf(d) \notin Anonymous => InputFits(d)
    /\ InputOf(d) \in Anonymous /\ KindOf(d) # "resumed" => pc[d] = "idle"
    /\ pc[d] = "reloaded" /\ InputOf(d) \notin Anonymous => HasOriginTurn(loc[d], InputOf(d))

Untaken(i) == \A d \in Turns : InputOf(d) = i => ~Engaged(d)

\* What is said of an input: its log, its row and what a recovery has listed.
Accounted(i) ==
    /\ Len(terminals[i]) <= 1
    /\ i \in Anonymous => inbox[i] = "none" /\ scan[i] = "none"
    /\ i \notin Anonymous /\ inbox[i] = "none" => terminals[i] = <<>> /\ Untaken(i)
    /\ inbox[i] = "running" => HasOriginTurn(store[InputSession[i]], i)
    /\ inbox[i] \in {"completed", "failed"} => terminals[i] # <<>>
    /\ inbox[i] \in Settled /\ terminals[i] # <<>> => inbox[i] = DurableTerminal(i)
    /\ scan[i] \in {"none", "accepted", "queued", "running"}
    /\ scan[i] \in {"accepted", "queued"} => inbox[i] = scan[i] /\ Untaken(i)
    /\ scan[i] = "running" => HasOriginTurn(store[InputSession[i]], i)

OrderlyParts ==
    /\ OneDriver
    /\ \A d \in Turns : Stage(d)
    /\ \A i \in Inputs : Accounted(i)

OrderlyInv == SnapshotInv /\ OrderlyParts

-----------------------------------------------------------------------------
(* Drives, conversations and the log.                                      *)

(***************************************************************************)
(* A drive is a pair of an input and a kind, and runs in the conversation  *)
(* of its input.                                                           *)
(***************************************************************************)
LEMMA DriveFacts ==
    /\ \A d \in Turns : /\ InputOf(d) \in Inputs /\ KindOf(d) \in Kinds
                        /\ d = <<InputOf(d), KindOf(d)>>
                        /\ Of(d) \in Sessions /\ Of(d) = InputSession[InputOf(d)]
    /\ \A i \in Inputs, k \in Kinds :
          <<i, k>> \in Turns /\ InputOf(<<i, k>>) = i /\ KindOf(<<i, k>>) = k
  BY ExecutionAssumption, SchedulerAssumption DEF InputOf, KindOf, Of

(***************************************************************************)
(* What the updates of a conversation do to its fields.                    *)
(***************************************************************************)
LEMMA ConversationUpdates ==
    /\ EmptyConversation \in Conversations
    /\ \A c \in Conversations, st \in Statuses :
          /\ [c EXCEPT !.status = st] \in Conversations
          /\ [c EXCEPT !.status = st].msgs = c.msgs
          /\ [c EXCEPT !.status = st].status = st
    /\ \A c \in Conversations, M \in SUBSET (Inputs \X {"user", "answer"}) :
          /\ [c EXCEPT !.msgs = @ \cup M] \in Conversations
          /\ [c EXCEPT !.msgs = @ \cup M].msgs = c.msgs \cup M
          /\ [c EXCEPT !.msgs = @ \cup M].status = c.status
  BY ExecutionAssumption DEF EmptyConversation, Conversations, Statuses

(***************************************************************************)
(* The conversation a turn starts from holds what is saved, and the user   *)
(* message of its input.                                                   *)
(***************************************************************************)
LEMMA ReloadedFacts ==
    ASSUME ExecTypes, NEW d \in Turns
    PROVE  /\ Reloaded(d) \in Conversations
           /\ store[Of(d)].msgs \subseteq Reloaded(d).msgs
           /\ InputOf(d) \notin Anonymous => HasOriginTurn(Reloaded(d), InputOf(d))
<1> DEFINE M == ({InputOf(d)} \ Anonymous) \X {"user"}
<1>1. M \in SUBSET (Inputs \X {"user", "answer"})
  BY DriveFacts
<1>2. store[Of(d)] \in Conversations
  BY DriveFacts DEF ExecTypes
<1>3. Reloaded(d) = [store[Of(d)] EXCEPT !.msgs = @ \cup M]
  BY DEF Reloaded
<1>4. Reloaded(d) \in Conversations /\ Reloaded(d).msgs = store[Of(d)].msgs \cup M
  <2> HIDE DEF M
  <2> QED
    BY <1>1, <1>2, <1>3 DEF Conversations
<1> QED
  BY <1>4 DEF HasOriginTurn

(***************************************************************************)
(* recordRunStatus and recordResumeStatus leave the messages alone; a turn *)
(* that succeeded is done, and a turn that is done succeeded or was        *)
(* cancelled.                                                              *)
(***************************************************************************)
LEMMA RecordedFacts ==
    ASSUME ExecTypes, NEW d \in Turns
    PROVE  /\ Recorded(d) \in Conversations
           /\ Recorded(d).msgs = loc[d].msgs
           /\ res[d] = "ok" => Recorded(d).status = "done"
           /\ Recorded(d).status = "done" => res[d] \in {"ok", "canceled"}
<1> DEFINE c == loc[d]
           retried == IF c.attempts <= MaxResumeAttempts THEN c.attempts + 1 ELSE c.attempts
           resumed == KindOf(d) = "resumed"
           quits == res[d] = "canceled" /\ suspended[Of(d)]
           ends == res[d] = "ok" \/ (res[d] = "canceled" /\ ~suspended[Of(d)])
           again == res[d] = "retryable" /\ resumed
<1>1. c \in Conversations
  BY DEF ExecTypes
<1>2. /\ c.attempts \in 0..(MaxResumeAttempts + 1)
      /\ retried \in 0..(MaxResumeAttempts + 1)
      /\ 0 \in 0..(MaxResumeAttempts + 1)
  BY <1>1, ExecutionAssumption DEF Conversations
<1>4. CASE ends
  <2>1. Recorded(d) = [c EXCEPT !.status = "done", !.attempts = IF resumed THEN 0 ELSE @]
    BY <1>4 DEF Recorded
  <2> QED
    BY <1>1, <1>2, <1>4, <2>1 DEF Statuses, Conversations
<1>5. CASE quits /\ ~ends
  <2>1. Recorded(d) = [c EXCEPT !.status = "paused"]
    BY <1>5 DEF Recorded
  <2> QED
    BY <1>1, <1>5, <2>1 DEF Statuses, Conversations
<1>6. CASE again /\ ~ends /\ ~quits
  <2>1. Recorded(d) = [c EXCEPT !.attempts = retried,
                                !.status = IF retried > MaxResumeAttempts
                                           THEN "failed" ELSE "paused"]
    BY <1>6 DEF Recorded
  <2> QED
    <3> HIDE DEF retried
    <3>1. \/ Recorded(d) = [c EXCEPT !.attempts = retried, !.status = "failed"]
          \/ Recorded(d) = [c EXCEPT !.attempts = retried, !.status = "paused"]
      BY <2>1
    <3> QED
      BY <1>1, <1>2, <1>6, <3>1 DEF Statuses, Conversations
<1>7. CASE ~again /\ ~ends /\ ~quits
  <2>1. Recorded(d) = [c EXCEPT !.status = "failed"]
    BY <1>7 DEF Recorded
  <2> QED
    BY <1>1, <1>7, <2>1 DEF Statuses, Conversations
<1> QED
  BY <1>4, <1>5, <1>6, <1>7

(***************************************************************************)
(* Appending an event to the log of a turn: the type of the log, and a log *)
(* that was empty.                                                         *)
(***************************************************************************)
LEMMA LoggedFacts ==
    \A log \in Seq(TerminalEvents), e \in TerminalEvents :
       /\ Logged(log, e) \in Seq(TerminalEvents)
       /\ log = <<>> => Logged(log, e) = <<e>>
<1> SUFFICES ASSUME NEW log \in Seq(TerminalEvents), NEW e \in TerminalEvents
             PROVE  /\ Logged(log, e) \in Seq(TerminalEvents)
                    /\ log = <<>> => Logged(log, e) = <<e>>
  OBVIOUS
<1>1. CASE Len(log) < 2
  <2>1. Logged(log, e) = Append(log, e)
    BY <1>1 DEF Logged
  <2>2. Append(log, e) \in Seq(TerminalEvents)
    OBVIOUS
  <2>3. Append(<<>>, e) = <<e>>
    OBVIOUS
  <2> QED
    BY <2>1, <2>2, <2>3
<1>2. CASE ~(Len(log) < 2)
  <2>1. log[2] \in TerminalEvents /\ log # <<>>
    BY <1>2
  <2>2. Logged(log, e) = <<log[2], e>>
    BY <1>2 DEF Logged
  <2> QED
    BY <2>1, <2>2
<1> QED
  BY <1>1, <1>2

(***************************************************************************)
(* The newest event of a log that holds one, as a state.                   *)
(***************************************************************************)
LEMMA DurableTerminalFacts ==
    ASSUME ExecTypes, NEW i \in Inputs, terminals[i] # <<>>
    PROVE  /\ DurableTerminal(i) \in Settled
           /\ terminals[i] = <<"finished">> => DurableTerminal(i) = "completed"
           /\ terminals[i] = <<"failed">> => DurableTerminal(i) = "failed"
           /\ terminals[i] = <<"cancelled">> => DurableTerminal(i) = "cancelled"
<1>1. terminals[i] \in Seq(TerminalEvents)
  BY DEF ExecTypes
<1>2. terminals[i][Len(terminals[i])] \in TerminalEvents
  BY <1>1
<1>3. DurableTerminal(i) \in Settled
  BY <1>2 DEF DurableTerminal, Settled, TerminalEvents
<1>4. \A e : terminals[i] = <<e>> => terminals[i][Len(terminals[i])] = e
  OBVIOUS
<1> QED
  BY <1>3, <1>4 DEF DurableTerminal

-----------------------------------------------------------------------------
(* The steps.                                                              *)

\* The steps of a drive up to the registry, and from there on.
EarlyStep(d) ==
    \/ Admit(d) \/ GuardRefuses(d) \/ AcquirePermit(d) \/ AcquireCanceled(d)
    \/ Abort(d) \/ TakePermit(d) \/ StartInput(d) \/ BeginTurn(d) \/ BeginBusy(d)

LateStep(d) ==
    \/ Checkpoint(d) \/ \E r \in Outcomes \ {"none"} : RunEnds(d, r)
    \/ RecordStatus(d) \/ EmitLifecycle(d) \/ SettleInput(d) \/ FinalSave(d)
    \/ FinishTurn(d) \/ ReturnPermit(d) \/ Return(d)

CancelStep(s) ==
    CancelQueued(s) \/ CancelFindsNoQueued(s) \/ CancelActive(s) \/ CancelRelease(s)

(***************************************************************************)
(* The steps by the actor that takes them.                                 *)
(***************************************************************************)
LEMMA ExecStepCases ==
    ASSUME [ExecNext]_execVars
    PROVE  \/ \E i \in Inputs, kind \in {"live", "retried"} : Submit(i, kind)
           \/ \E i \in Inputs : Recover(i)
           \/ \E i \in Inputs : Resume(i)
           \/ \E d \in Turns : EarlyStep(d)
           \/ \E d \in Turns : LateStep(d)
           \/ \E s \in Sessions : CancelStep(s)
           \/ \E s \in Sessions : RecoverScan(s)
           \/ SuspendAll
           \/ Restart
           \/ UNCHANGED execVars
  BY DEF ExecNext, Drive, EarlyStep, LateStep, CancelStep

(***************************************************************************)
(* Apart from a restart, every step is a step of the scheduler or leaves   *)
(* it alone.                                                               *)
(***************************************************************************)
LEMMA SchedulerSteps ==
    ASSUME [ExecNext]_execVars
    PROVE  Restart \/ [Next]_vars
<1>1. ASSUME NEW d \in Turns, EarlyStep(d) PROVE [Next]_vars
  <2>1. CASE AcquirePermit(d)
    BY <2>1 DEF AcquirePermit, Next
  <2>2. CASE AcquireCanceled(d) \/ TakePermit(d)
    BY <2>2 DEF AcquireCanceled, TakePermit, Next
  <2>3. CASE Abort(d)
    BY <2>3 DEF Abort, Next
  <2>4. CASE Admit(d) \/ GuardRefuses(d) \/ StartInput(d) \/ BeginTurn(d) \/ BeginBusy(d)
    BY <2>4 DEF Admit, GuardRefuses, StartInput, BeginTurn, BeginBusy
  <2> QED
    BY <1>1, <2>1, <2>2, <2>3, <2>4 DEF EarlyStep
<1>2. ASSUME NEW d \in Turns, LateStep(d) PROVE [Next]_vars
  <2>1. CASE ReturnPermit(d)
    BY <2>1 DEF ReturnPermit, Next
  <2>2. CASE Return(d)
    BY <2>2 DEF Return, Next
  <2>3. CASE \E r \in Outcomes \ {"none"} : RunEnds(d, r)
    BY <2>3 DEF RunEnds
  <2>4. CASE \/ Checkpoint(d) \/ RecordStatus(d) \/ EmitLifecycle(d)
             \/ SettleInput(d) \/ FinalSave(d) \/ FinishTurn(d)
    BY <2>4 DEF Checkpoint, RecordStatus, EmitLifecycle, SettleInput, FinalSave, FinishTurn
  <2> QED
    BY <1>2, <2>1, <2>2, <2>3, <2>4 DEF LateStep
<1>3. ASSUME NEW s \in Sessions, CancelStep(s) PROVE [Next]_vars
  BY <1>3 DEF CancelStep, CancelQueued, CancelFindsNoQueued, CancelActive, CancelRelease, Next
<1>4. ASSUME NEW i \in Inputs, NEW kind, Submit(i, kind) PROVE [Next]_vars
  BY <1>4 DEF Submit
<1>5. ASSUME NEW i \in Inputs, Recover(i) PROVE [Next]_vars
  BY <1>5 DEF Recover
<1>6. ASSUME NEW i \in Inputs, Resume(i) PROVE [Next]_vars
  BY <1>6 DEF Resume
<1>7. ASSUME NEW s \in Sessions, RecoverScan(s) PROVE [Next]_vars
  BY <1>7 DEF RecoverScan
<1>8. ASSUME SuspendAll \/ UNCHANGED execVars PROVE [Next]_vars
  BY <1>8 DEF SuspendAll, execVars
<1> QED
  BY ExecStepCases, <1>1, <1>2, <1>3, <1>4, <1>5, <1>6, <1>7, <1>8

(***************************************************************************)
(* The scheduler's own invariant survives in the executor; a process that  *)
(* starts again has an empty scheduler.                                    *)
(***************************************************************************)
LEMMA SchedulerKept ==
    ASSUME SafetyInv, [ExecNext]_execVars
    PROVE  SafetyInv'
<1>1. ASSUME [Next]_vars PROVE SafetyInv'
  BY <1>1, SafetyInvStep
<1>2. ASSUME Restart PROVE SafetyInv'
  <2>1. /\ pending' = <<>> /\ running' = 0 /\ lastStart' = NoSession
        /\ active' = [s \in Sessions |-> NoTurn]
        /\ granted' = [d \in Turns |-> FALSE] /\ released' = [d \in Turns |-> FALSE]
        /\ err' = [d \in Turns |-> "nil"] /\ caller' = [d \in Turns |-> "idle"]
        /\ UNCHANGED <<shutdown, ctxDone>>
    BY <1>2 DEF Restart
  <2>2. TypeOK'
    BY <2>1 DEF SafetyInv, TypeOK, Errors, CallerStates
  <2>3. /\ \A t \in Turns : ~granted'[t] /\ ~released'[t] /\ err'[t] = "nil" /\ caller'[t] = "idle"
        /\ \A s \in Sessions : active'[s] = NoTurn
    BY <2>1
  <2>4. Owned(active, granted, released)'
    BY <2>3, SchedulerAssumption DEF Owned
  <2>5. Waiting(pending, granted, caller, err)'
    BY <2>1, <2>3 DEF Waiting, InQueue
  <2>6. Told(granted, released, caller, err)'
    BY <2>3 DEF Told
  <2>7. Counted(running, active)'
    <3>1. BusyIn(active') = {}
      BY <2>3 DEF BusyIn
    <3>2. Cardinality({}) = 0
      BY FS_EmptySet
    <3>3. 0 <= MaxRunning
      BY SchedulerAssumption DEF MaxRunning
    <3> QED
      BY <2>1, <3>1, <3>2, <3>3 DEF Counted
  <2>8. Stalled(pending, running, active)'
    BY <2>1 DEF Stalled
  <2> QED
    BY <2>2, <2>4, <2>5, <2>6, <2>7, <2>8 DEF SafetyInv
<1> QED
  BY <1>1, <1>2, SchedulerSteps

-----------------------------------------------------------------------------
(* Whatever may happen: types, callers and the registry.                   *)

(***************************************************************************)
(* What the actions write is of its type.                                  *)
(***************************************************************************)
LEMMA Written ==
    /\ {"idle", "loaded", "claimed", "acquiring", "aborting", "reloaded", "started", "running",
        "ended", "judged", "recorded", "settled", "saved", "finishing"} \subseteq Places
    /\ {"none", "accepted", "queued", "running", "failed", "cancelled"} \subseteq InputStates
    /\ Settled \subseteq InputStates
    /\ {"finished", "failed", "cancelled"} \subseteq TerminalEvents
    /\ {"running", "resuming", "paused", "done", "failed"} \subseteq Statuses
    /\ "none" \in Outcomes
  BY DEF Places, InputStates, Settled, TerminalEvents, Statuses, Outcomes

(***************************************************************************)
(* Writing the status of a conversation changes nothing else of it.        *)
(***************************************************************************)
LEMMA StatusWritten ==
    ASSUME ExecTypes, NEW d \in Turns, NEW st \in Statuses,
           loc' = [loc EXCEPT ![d].status = st]
    PROVE  /\ loc' \in [Turns -> Conversations]
           /\ \A e \in Turns : loc'[e].msgs = loc[e].msgs
           /\ \A e \in Turns : e # d => loc'[e] = loc[e]
           /\ loc'[d].status = st
<1>1. loc \in [Turns -> Conversations]
  BY DEF ExecTypes
<1>2. /\ [loc[d] EXCEPT !.status = st] \in Conversations
      /\ [loc[d] EXCEPT !.status = st].msgs = loc[d].msgs
      /\ [loc[d] EXCEPT !.status = st].status = st
  BY <1>1 DEF Conversations
<1> DEFINE c == [loc[d] EXCEPT !.status = st]
<1>3. loc' = [loc EXCEPT ![d] = c]
  OBVIOUS
<1> HIDE DEF c
<1> QED
  BY <1>1, <1>2, <1>3 DEF c

(***************************************************************************)
(* setTurnInputState.                                                      *)
(***************************************************************************)
LEMMA InputWritten ==
    ASSUME ExecTypes, NEW i \in Inputs, NEW st \in InputStates, SetTurnInputState(i, st)
    PROVE  /\ inbox' \in [Inputs -> InputStates]
           /\ \A j \in Inputs : j # i => inbox'[j] = inbox[j]
           /\ inbox'[i] = IF i \in Anonymous THEN inbox[i] ELSE st
  BY DEF ExecTypes, SetTurnInputState

(***************************************************************************)
(* An event in the log.                                                    *)
(***************************************************************************)
LEMMA EventWritten ==
    ASSUME ExecTypes, NEW i \in Inputs, NEW e \in TerminalEvents,
           terminals' = [terminals EXCEPT ![i] = Logged(@, e)]
    PROVE  /\ terminals' \in [Inputs -> Seq(TerminalEvents)]
           /\ \A j \in Inputs : j # i => terminals'[j] = terminals[j]
           /\ terminals[i] = <<>> => terminals'[i] = <<e>>
<1>1. terminals[i] \in Seq(TerminalEvents)
  BY DEF ExecTypes
<1>2. /\ Logged(terminals[i], e) \in Seq(TerminalEvents)
      /\ terminals[i] = <<>> => Logged(terminals[i], e) = <<e>>
  BY <1>1, LoggedFacts
<1>3. terminals'[i] = Logged(terminals[i], e)
  BY DEF ExecTypes
<1> QED
  BY <1>2, <1>3 DEF ExecTypes

(***************************************************************************)
(* The state the inbox is given when a turn is over, and emitLifecycle's   *)
(* event.                                                                  *)
(***************************************************************************)
LEMMA OutcomeWritten ==
    ASSUME ExecTypes, NEW d \in Turns
    PROVE  /\ TerminalState(d) \in InputStates
           /\ LifecycleEvent(d) \in {"none"} \cup TerminalEvents
<1>1. inbox[InputOf(d)] \in InputStates
  BY DriveFacts DEF ExecTypes
<1>2. TerminalState(d) \in InputStates
  BY <1>1 DEF TerminalState, InputStates
<1>3. LifecycleEvent(d) \in {"none"} \cup TerminalEvents
  BY DEF LifecycleEvent, TerminalEvents
<1> QED
  BY <1>2, <1>3

(***************************************************************************)
(* Types of the early steps of a drive.                                    *)
(***************************************************************************)
LEMMA EarlyTypes ==
    ASSUME ExecTypes, NEW d \in Turns, EarlyStep(d)
    PROVE  ExecTypes'
<1> USE DEF durable, registry, drive, client, Goto
<1>0. /\ InputOf(d) \in Inputs /\ Of(d) \in Sessions
      /\ EmptyConversation \in Conversations
  BY DriveFacts, ConversationUpdates
<1>1. CASE Admit(d)
  <2>1. store' \in [Sessions -> Conversations]
    BY <1>0, <1>1 DEF Admit, ExecTypes
  <2>2. CASE KindOf(d) \in {"live", "retried"} /\ Unknown(InputOf(d))
    <3>1. /\ Goto(d, "claimed") /\ SetTurnInputState(InputOf(d), "accepted")
          /\ UNCHANGED <<loc, terminals, startedLog, restarts, registry, res, client>>
      BY <1>1, <2>2 DEF Admit, ClaimRequest
    <3>2. inbox' \in [Inputs -> InputStates]
      BY <1>0, <3>1, InputWritten, Written
    <3> QED
      BY <2>1, <3>1, <3>2, Written DEF ExecTypes
  <2>3. CASE KindOf(d) \in {"live", "retried"} /\ ~Unknown(InputOf(d))
    <3>1. /\ Goto(d, "idle") /\ loc' = [loc EXCEPT ![d] = EmptyConversation]
          /\ UNCHANGED <<inbox, terminals, startedLog, restarts, registry, res, client>>
      BY <1>1, <2>3 DEF Admit, ClaimRequest
    <3> QED
      BY <1>0, <2>1, <3>1, Written DEF ExecTypes
  <2>4. CASE KindOf(d) \notin {"live", "retried"}
    <3>1. /\ Goto(d, "claimed")
          /\ UNCHANGED <<inbox, loc, terminals, startedLog, restarts, registry, res, client>>
      BY <1>1, <2>4 DEF Admit
    <3> QED
      BY <2>1, <3>1, Written DEF ExecTypes
  <2> QED
    BY <2>2, <2>3, <2>4
<1>2. CASE GuardRefuses(d)
  <2>1. inbox' \in [Inputs -> InputStates]
    BY <1>0, <1>2, InputWritten, Written DEF GuardRefuses
  <2>2. loc' \in [Turns -> Conversations]
    BY <1>2, StatusWritten, Written DEF GuardRefuses
  <2> QED
    BY <1>2, <2>1, <2>2, Written DEF GuardRefuses, ExecTypes
<1>3. CASE AcquirePermit(d)
  <2>1. inbox' \in [Inputs -> InputStates]
    BY <1>0, <1>3, InputWritten, Written DEF AcquirePermit, ExecTypes
  <2> QED
    BY <1>3, <2>1, Written DEF AcquirePermit, ExecTypes
<1>4. CASE AcquireCanceled(d)
  <2>1. inbox' \in [Inputs -> InputStates]
    BY <1>0, <1>4, InputWritten, Written DEF AcquireCanceled
  <2> QED
    BY <1>4, <2>1, Written DEF AcquireCanceled, ExecTypes
<1>5. CASE Abort(d)
  <2>1. \/ terminals' = [terminals EXCEPT ![InputOf(d)] = Logged(@, "cancelled")]
        \/ terminals' = [terminals EXCEPT ![InputOf(d)] = Logged(@, "failed")]
    BY <1>5 DEF Abort
  <2>2. terminals' \in [Inputs -> Seq(TerminalEvents)]
    BY <1>0, <2>1, EventWritten, Written
  <2>3. store' \in [Sessions -> Conversations] /\ loc' \in [Turns -> Conversations]
    BY <1>0, <1>5 DEF Abort, ExecTypes
  <2> QED
    BY <1>5, <2>2, <2>3, Written DEF Abort, ExecTypes
<1>6. CASE TakePermit(d)
  <2>1. loc' \in [Turns -> Conversations]
    BY <1>6, ReloadedFacts DEF TakePermit, ExecTypes
  <2> QED
    BY <1>6, <2>1, Written DEF TakePermit, ExecTypes
<1>7. CASE StartInput(d)
  <2>1. inbox' \in [Inputs -> InputStates]
    BY <1>0, <1>7, InputWritten, Written DEF StartInput
  <2>2. store' \in [Sessions -> Conversations]
    BY <1>0, <1>7 DEF StartInput, ExecTypes
  <2> QED
    BY <1>7, <2>1, <2>2, Written DEF StartInput, ExecTypes
<1>8. CASE BeginTurn(d)
  <2>1. \/ loc' = [loc EXCEPT ![d].status = "resuming"]
        \/ loc' = [loc EXCEPT ![d].status = "running"]
    BY <1>8 DEF BeginTurn
  <2>2. loc' \in [Turns -> Conversations]
    BY <2>1, StatusWritten, Written
  <2>3. reg' \in [Sessions -> Turns \cup {NoTurn}]
    BY <1>0, <1>8 DEF BeginTurn, ExecTypes
  <2>4. suspended' \in [Sessions -> BOOLEAN] /\ startedLog' \in [Inputs -> BOOLEAN]
    BY <1>0, <1>8 DEF BeginTurn, ExecTypes
  <2> QED
    BY <1>8, <2>2, <2>3, <2>4, Written DEF BeginTurn, ExecTypes
<1>9. CASE BeginBusy(d)
  BY <1>9, Written DEF BeginBusy, ExecTypes
<1> QED
  BY <1>1, <1>2, <1>3, <1>4, <1>5, <1>6, <1>7, <1>8, <1>9 DEF EarlyStep

(***************************************************************************)
(* Types of the late steps of a drive.                                     *)
(***************************************************************************)
LEMMA LateTypes ==
    ASSUME ExecTypes, NEW d \in Turns, LateStep(d)
    PROVE  ExecTypes'
<1> USE DEF durable, registry, drive, client, Goto
<1>0. /\ InputOf(d) \in Inputs /\ Of(d) \in Sessions
      /\ EmptyConversation \in Conversations /\ loc[d] \in Conversations
  BY DriveFacts, ConversationUpdates DEF ExecTypes
<1>1. CASE Checkpoint(d)
  BY <1>0, <1>1 DEF Checkpoint, ExecTypes
<1>2. ASSUME NEW r \in Outcomes \ {"none"}, RunEnds(d, r) PROVE ExecTypes'
  <2>1. CASE r = "ok"
    <3> DEFINE c == [loc[d] EXCEPT !.msgs = @ \cup {<<InputOf(d), "answer">>}]
    <3>1. c \in Conversations
      BY <1>0 DEF Conversations
    <3>2. loc' = [loc EXCEPT ![d] = c]
      BY <1>2, <2>1 DEF RunEnds
    <3> HIDE DEF c
    <3>3. loc' \in [Turns -> Conversations] /\ loc'[d] = c
      BY <3>1, <3>2 DEF ExecTypes
    <3>4. store' \in {store, [store EXCEPT ![Of(d)] = loc'[d]]}
      BY <1>2, <2>1 DEF RunEnds
    <3>5. store' \in [Sessions -> Conversations]
      BY <1>0, <3>1, <3>3, <3>4 DEF ExecTypes
    <3>6. terminals' \in [Inputs -> Seq(TerminalEvents)]
      BY <1>0, <1>2, <2>1, EventWritten, Written DEF RunEnds
    <3> QED
      BY <1>2, <3>3, <3>5, <3>6, Written DEF RunEnds, ExecTypes
  <2>2. CASE r # "ok"
    BY <1>2, <2>2, Written DEF RunEnds, ExecTypes
  <2> QED
    BY <2>1, <2>2
<1>3. CASE RecordStatus(d)
  <2>1. loc' \in [Turns -> Conversations]
    BY <1>3, RecordedFacts DEF RecordStatus, ExecTypes
  <2> QED
    BY <1>3, <2>1, Written DEF RecordStatus, ExecTypes
<1>4. CASE EmitLifecycle(d)
  <2>1. CASE LifecycleEvent(d) = "none"
    BY <1>4, <2>1, Written DEF EmitLifecycle, ExecTypes
  <2>2. CASE LifecycleEvent(d) # "none"
    <3>1. LifecycleEvent(d) \in TerminalEvents
      BY <2>2, OutcomeWritten
    <3>2. terminals' = [terminals EXCEPT ![InputOf(d)] = Logged(@, LifecycleEvent(d))]
      BY <1>4, <2>2 DEF EmitLifecycle
    <3>3. terminals' \in [Inputs -> Seq(TerminalEvents)]
      BY <1>0, <3>1, <3>2, EventWritten
    <3> QED
      BY <1>4, <3>3, Written DEF EmitLifecycle, ExecTypes
  <2> QED
    BY <2>1, <2>2
<1>5. CASE SettleInput(d)
  <2>1. inbox' \in [Inputs -> InputStates]
    BY <1>0, <1>5, InputWritten, OutcomeWritten DEF SettleInput
  <2> QED
    BY <1>5, <2>1, Written DEF SettleInput, ExecTypes
<1>6. CASE FinalSave(d)
  BY <1>0, <1>6, Written DEF FinalSave, ExecTypes
<1>7. CASE FinishTurn(d)
  BY <1>0, <1>7, Written DEF FinishTurn, ExecTypes
<1>8. CASE ReturnPermit(d)
  BY <1>8 DEF ReturnPermit, ExecTypes
<1>9. CASE Return(d)
  BY <1>0, <1>9, Written DEF Return, ExecTypes
<1> QED
  BY <1>1, <1>2, <1>3, <1>4, <1>5, <1>6, <1>7, <1>8, <1>9 DEF LateStep

(***************************************************************************)
(* Types of every step.                                                    *)
(***************************************************************************)
LEMMA ExecTypesStep ==
    ASSUME ExecTypes, [ExecNext]_execVars
    PROVE  ExecTypes'
<1> USE DEF durable, registry, drive, client, Goto
<1>0. \A i \in Inputs : InputSession[i] \in Sessions /\ store[InputSession[i]] \in Conversations
  BY ExecutionAssumption DEF ExecTypes
<1>1. ASSUME NEW i \in Inputs, NEW kind \in {"live", "retried"}, Submit(i, kind)
      PROVE  ExecTypes'
  <2>1. <<i, kind>> \in Turns /\ Of(<<i, kind>>) \in Sessions
    BY DriveFacts DEF Kinds
  <2> QED
    BY <1>1, <2>1, Written DEF Submit, ExecTypes
<1>2. ASSUME NEW i \in Inputs, Recover(i) PROVE ExecTypes'
  <2> DEFINE d == <<i, "recovered">>
             s == InputSession[i]
  <2>1. d \in Turns
    BY DriveFacts DEF Kinds
  <2> HIDE DEF d
  <2>2. /\ scan' = [scan EXCEPT ![i] = "none"]
        /\ UNCHANGED <<terminals, restarts, registry, res, canceller>>
    BY <1>2 DEF Recover
  <2>3. inbox' \in [Inputs -> InputStates]
    <3>1. terminals[i] # <<>> => DurableTerminal(i) \in InputStates
      BY DurableTerminalFacts, Written
    <3>2. \/ inbox' = inbox
          \/ terminals[i] # <<>> /\ inbox' = [inbox EXCEPT ![i] = DurableTerminal(i)]
          \/ inbox' = [inbox EXCEPT ![i] = "accepted"]
      BY <1>2 DEF Recover
    <3> QED
      BY <3>1, <3>2, Written DEF ExecTypes
  <2>4. store' \in [Sessions -> Conversations]
    <3>1. store' = store \/ store' = [store EXCEPT ![s].status = "paused"]
      BY <1>2 DEF Recover
    <3>2. [store[s] EXCEPT !.status = "paused"] \in Conversations
      BY <1>0 DEF Conversations, Statuses
    <3> DEFINE c == [store[s] EXCEPT !.status = "paused"]
    <3>3. store' = store \/ store' = [store EXCEPT ![s] = c]
      BY <3>1
    <3> HIDE DEF c
    <3> QED
      BY <1>0, <3>2, <3>3 DEF ExecTypes, c
  <2>5. /\ startedLog' = startedLog \/ startedLog' = [startedLog EXCEPT ![i] = TRUE]
        /\ pc' = pc \/ pc' = [pc EXCEPT ![d] = "loaded"]
        /\ loc' = loc \/ loc' = [loc EXCEPT ![d] = store[s]]
    BY <1>2 DEF Recover, d
  <2>6. startedLog' \in [Inputs -> BOOLEAN]
    BY <2>5 DEF ExecTypes
  <2>7. pc' \in [Turns -> Places] /\ loc' \in [Turns -> Conversations]
    <3>1. pc \in [Turns -> Places] /\ loc \in [Turns -> Conversations]
      BY DEF ExecTypes
    <3>2. "loaded" \in Places
      BY Written
    <3>3. store[s] \in Conversations
      BY <1>0
    <3> HIDE DEF s
    <3>4. pc' \in [Turns -> Places]
      BY <2>1, <2>5, <3>1, <3>2
    <3>5. loc' \in [Turns -> Conversations]
      BY <2>1, <2>5, <3>1, <3>3
    <3> QED
      BY <3>4, <3>5
  <2>8. scan' \in [Inputs -> InputStates]
    BY <2>2, Written DEF ExecTypes
  <2>9. UNCHANGED <<terminals, restarts, reg, suspended, turnCtx, res, canceller>>
    BY <2>2
  <2> QED
    BY <2>3, <2>4, <2>6, <2>7, <2>8, <2>9 DEF ExecTypes
<1>3. ASSUME NEW i \in Inputs, Resume(i) PROVE ExecTypes'
  <2>1. <<i, "resumed">> \in Turns
    BY DriveFacts DEF Kinds
  <2> QED
    BY <1>0, <1>3, <2>1, Written DEF Resume, ExecTypes
<1>4. ASSUME NEW s \in Sessions, CancelStep(s) PROVE ExecTypes'
  <2>1. CASE CancelQueued(s)
    BY <2>1 DEF CancelQueued, ExecTypes
  <2>2. CASE CancelFindsNoQueued(s)
    BY <2>2 DEF CancelFindsNoQueued, ExecTypes
  <2>3. CASE CancelActive(s)
    <3>1. turnCtx' \in [Turns -> BOOLEAN]
      BY <2>3 DEF CancelActive, ExecTypes
    <3> QED
      BY <2>3, <3>1 DEF CancelActive, ExecTypes
  <2>4. CASE CancelRelease(s)
    BY <2>4 DEF CancelRelease, ExecTypes
  <2> QED
    BY <1>4, <2>1, <2>2, <2>3, <2>4 DEF CancelStep
<1>5. ASSUME NEW s \in Sessions, RecoverScan(s) PROVE ExecTypes'
  BY <1>5 DEF RecoverScan, ExecTypes
<1>6. CASE SuspendAll
  <2>1. suspended' \in [Sessions -> BOOLEAN] /\ turnCtx' \in [Turns -> BOOLEAN]
    BY <1>6, Zenon DEF SuspendAll
  <2> QED
    BY <1>6, <2>1 DEF SuspendAll, ExecTypes
<1>7. CASE Restart
  <2>1. store' \in [Sessions -> Conversations]
    <3>1. ASSUME NEW s \in Sessions
          PROVE  [store[s] EXCEPT !.status = "paused"] \in Conversations
      <4>1. store[s] \in Conversations
        BY DEF ExecTypes
      <4> QED
        BY <4>1 DEF Conversations, Statuses
    <3>2. \A s \in Sessions :
             (IF store[s].status \in {"running", "resuming"}
              THEN [store[s] EXCEPT !.status = "paused"] ELSE store[s]) \in Conversations
      BY <3>1 DEF ExecTypes
    <3>3. store' = [s \in Sessions |->
                      IF store[s].status \in {"running", "resuming"}
                      THEN [store[s] EXCEPT !.status = "paused"] ELSE store[s]]
      BY <1>7 DEF Restart
    <3> QED
      BY <3>2, <3>3
  <2>2. restarts' \in 0..MaxRestarts
    BY <1>7, ExecutionAssumption DEF Restart, ExecTypes
  <2>3. loc' \in [Turns -> Conversations]
    BY <1>7, ConversationUpdates DEF Restart
  <2>4. suspended' \in [Sessions -> BOOLEAN] /\ turnCtx' \in [Turns -> BOOLEAN]
    BY <1>7 DEF Restart
  <2> QED
    BY <1>7, <2>1, <2>2, <2>3, <2>4, Written DEF Restart, ExecTypes
<1>8. CASE UNCHANGED execVars
  BY <1>8 DEF execVars, ExecTypes
<1> QED
  BY ExecStepCases, <1>1, <1>2, <1>3, <1>4, <1>5, <1>6, <1>7, <1>8, EarlyTypes, LateTypes

(***************************************************************************)
(* A step of a drive is its own: no other drive moves, and no other input  *)
(* is written.                                                             *)
(***************************************************************************)
LEMMA DriveFrame ==
    ASSUME TypeOK, ExecTypes, NEW d \in Turns, EarlyStep(d) \/ LateStep(d)
    PROVE  /\ \A e \in Turns : e # d => /\ pc'[e] = pc[e] /\ caller'[e] = caller[e]
                                        /\ loc'[e] = loc[e] /\ res'[e] = res[e]
           /\ \A j \in Inputs : j # InputOf(d) => /\ inbox'[j] = inbox[j]
                                                  /\ terminals'[j] = terminals[j]
           /\ UNCHANGED <<scan, canceller>>
<1> USE DEF durable, registry, drive, client, Goto
<1> DEFINE Others == \A e \in Turns : e # d => /\ pc'[e] = pc[e] /\ caller'[e] = caller[e]
                                               /\ loc'[e] = loc[e] /\ res'[e] = res[e]
           Rows == \A j \in Inputs : j # InputOf(d) => inbox'[j] = inbox[j]
           Logs == \A j \in Inputs : j # InputOf(d) => terminals'[j] = terminals[j]
           Clients == UNCHANGED <<scan, canceller>>
<1>0. /\ pc \in [Turns -> Places] /\ loc \in [Turns -> Conversations]
      /\ res \in [Turns -> Outcomes] /\ inbox \in [Inputs -> InputStates]
      /\ terminals \in [Inputs -> Seq(TerminalEvents)] /\ caller \in [Turns -> CallerStates]
  BY DEF TypeOK, ExecTypes
<1>v. ASSUME UNCHANGED vars PROVE caller' = caller
  BY <1>v DEF vars
<1>1. CASE Admit(d)
  BY <1>0, <1>1, <1>v DEF Admit, ClaimRequest, SetTurnInputState
<1>2. CASE GuardRefuses(d)
  BY <1>0, <1>2, <1>v DEF GuardRefuses, SetTurnInputState
<1>3. CASE AcquirePermit(d)
  BY <1>0, <1>3 DEF AcquirePermit, Acquire, SetTurnInputState
<1>4. CASE AcquireCanceled(d)
  BY <1>0, <1>4 DEF AcquireCanceled, TakeReady, SetTurnInputState
<1>5. CASE Abort(d)
  <2>1. Logs /\ Rows /\ Clients
    BY <1>0, <1>5 DEF Abort
  <2>2. Others
    BY <1>0, <1>5, <1>v DEF Abort, NewRequest
  <2> QED
    BY <2>1, <2>2
<1>6. CASE TakePermit(d)
  BY <1>0, <1>6 DEF TakePermit, TakeReady
<1>7. CASE StartInput(d)
  BY <1>0, <1>7, <1>v DEF StartInput, SetTurnInputState
<1>8. CASE BeginTurn(d)
  BY <1>0, <1>8, <1>v DEF BeginTurn
<1>9. CASE BeginBusy(d)
  BY <1>0, <1>9, <1>v DEF BeginBusy
<1>10. CASE Checkpoint(d)
  BY <1>0, <1>10, <1>v DEF Checkpoint
<1>11. ASSUME NEW r \in Outcomes \ {"none"}, RunEnds(d, r) PROVE Others /\ Rows /\ Logs /\ Clients
  BY <1>0, <1>11, <1>v DEF RunEnds
<1>12. CASE RecordStatus(d)
  BY <1>0, <1>12, <1>v DEF RecordStatus
<1>13. CASE EmitLifecycle(d)
  BY <1>0, <1>13, <1>v DEF EmitLifecycle
<1>14. CASE SettleInput(d)
  BY <1>0, <1>14, <1>v DEF SettleInput, SetTurnInputState
<1>15. CASE FinalSave(d)
  BY <1>0, <1>15, <1>v DEF FinalSave
<1>16. CASE FinishTurn(d)
  BY <1>0, <1>16, <1>v DEF FinishTurn
<1>17. CASE ReturnPermit(d)
  BY <1>0, <1>17 DEF ReturnPermit, Release
<1>18. CASE Return(d)
  BY <1>0, <1>18 DEF Return, NewRequest
<1> QED
  BY <1>1, <1>2, <1>3, <1>4, <1>5, <1>6, <1>7, <1>8, <1>9, <1>10, <1>11, <1>12, <1>13,
     <1>14, <1>15, <1>16, <1>17, <1>18 DEF EarlyStep, LateStep

(***************************************************************************)
(* The caller of the drive that moves follows its place.                   *)
(***************************************************************************)
LEMMA DriveCaller ==
    ASSUME TypeOK, ExecTypes, NEW d \in Turns, CallerFits(d), EarlyStep(d) \/ LateStep(d)
    PROVE  CallerFits(d)'
<1> USE DEF Goto, CallerFits, Permitted, Executing
<1>0. /\ pc \in [Turns -> Places] /\ caller \in [Turns -> CallerStates]
  BY DEF TypeOK, ExecTypes
<1>v. ASSUME UNCHANGED vars PROVE caller' = caller
  BY <1>v DEF vars
<1>1. CASE Admit(d)
  BY <1>0, <1>1, <1>v DEF Admit, ClaimRequest
<1>2. CASE GuardRefuses(d) \/ StartInput(d) \/ BeginTurn(d) \/ BeginBusy(d)
  BY <1>0, <1>2, <1>v DEF GuardRefuses, StartInput, BeginTurn, BeginBusy
<1>3. CASE AcquirePermit(d)
  BY <1>0, <1>3 DEF AcquirePermit, Acquire
<1>4. CASE AcquireCanceled(d) \/ TakePermit(d)
  BY <1>0, <1>4 DEF AcquireCanceled, TakePermit
<1>5. CASE Abort(d)
  BY <1>0, <1>5, <1>v DEF Abort, NewRequest
<1>6. CASE Checkpoint(d)
  BY <1>0, <1>6, <1>v DEF Checkpoint, drive
<1>7. ASSUME NEW r \in Outcomes \ {"none"}, RunEnds(d, r) PROVE CallerFits(d)'
  BY <1>0, <1>7, <1>v DEF RunEnds
<1>8. CASE \/ RecordStatus(d) \/ EmitLifecycle(d) \/ SettleInput(d) \/ FinalSave(d)
           \/ FinishTurn(d)
  BY <1>0, <1>8, <1>v DEF RecordStatus, EmitLifecycle, SettleInput, FinalSave, FinishTurn
<1>9. CASE ReturnPermit(d)
  BY <1>0, <1>9 DEF ReturnPermit, Release, drive
<1>10. CASE Return(d)
  BY <1>0, <1>10 DEF Return, NewRequest
<1> QED
  BY <1>1, <1>2, <1>3, <1>4, <1>5, <1>6, <1>7, <1>8, <1>9, <1>10 DEF EarlyStep, LateStep

(***************************************************************************)
(* BeginTurn enters the drive in a registry without entry for its          *)
(* conversation, FinishTurn removes it, and between the two it executes.   *)
(***************************************************************************)
LEMMA DriveRegistry ==
    ASSUME TypeOK, ExecTypes, OwnEntries, \A e \in Turns : RegistryNames(e),
           NEW d \in Turns, EarlyStep(d) \/ LateStep(d)
    PROVE  OwnEntries' /\ \A e \in Turns : RegistryNames(e)'
<1>0. /\ pc \in [Turns -> Places] /\ reg \in [Sessions -> Turns \cup {NoTurn}]
      /\ Of(d) \in Sessions /\ NoTurn \notin Turns
      /\ \A e \in Turns : Of(e) \in Sessions
  BY DriveFacts, SchedulerAssumption DEF ExecTypes
<1>1. \A e \in Turns : e # d => pc'[e] = pc[e]
  BY DriveFrame
<1>2. CASE BeginTurn(d)
  <2>1. /\ reg' = [reg EXCEPT ![Of(d)] = d] /\ reg[Of(d)] = NoTurn /\ pc'[d] = "running"
    BY <1>0, <1>2 DEF BeginTurn, Goto, Free
  <2> QED
    BY <1>0, <1>1, <2>1 DEF OwnEntries, RegistryNames, Executing
<1>3. CASE FinishTurn(d)
  <2>1. /\ reg' = [reg EXCEPT ![Of(d)] = NoTurn] /\ pc[d] = "saved" /\ pc'[d] = "finishing"
    BY <1>0, <1>3 DEF FinishTurn, Goto
  <2>2. reg[Of(d)] = d
    BY <2>1 DEF RegistryNames, Executing
  <2> QED
    BY <1>0, <1>1, <2>1, <2>2 DEF OwnEntries, RegistryNames, Executing
<1>4. ASSUME reg' = reg, pc'[d] \in Executing <=> pc[d] \in Executing
      PROVE  OwnEntries' /\ \A e \in Turns : RegistryNames(e)'
  <2>1. OwnEntries'
    BY <1>4 DEF OwnEntries
  <2>2. \A e \in Turns : (pc'[e] \in Executing <=> pc[e] \in Executing)
    BY <1>1, <1>4
  <2> QED
    BY <1>4, <2>1, <2>2 DEF RegistryNames
<1>5. CASE EarlyStep(d) /\ ~BeginTurn(d)
  <2>1. reg' = reg /\ pc[d] \notin Executing /\ pc'[d] \notin Executing
    BY <1>0, <1>5 DEF EarlyStep, Admit, ClaimRequest, GuardRefuses, AcquirePermit,
       AcquireCanceled, Abort, TakePermit, StartInput, BeginBusy, Goto, registry, Executing
  <2> QED
    BY <1>4, <2>1
<1>6. CASE LateStep(d) /\ ~FinishTurn(d)
  <2>1. reg' = reg /\ (pc'[d] \in Executing <=> pc[d] \in Executing)
    BY <1>0, <1>6 DEF LateStep, Checkpoint, RunEnds, RecordStatus, EmitLifecycle,
       SettleInput, FinalSave, ReturnPermit, Return, Goto, registry, drive, Executing
  <2> QED
    BY <1>4, <2>1
<1> QED
  BY <1>2, <1>3, <1>5, <1>6

\* The steps of clients, users and the host, a restart apart.
OutsideStep ==
    \/ \E i \in Inputs, kind \in {"live", "retried"} : Submit(i, kind)
    \/ \E i \in Inputs : Recover(i) \/ Resume(i)
    \/ \E s \in Sessions : CancelStep(s) \/ RecoverScan(s)
    \/ SuspendAll
    \/ UNCHANGED execVars

(***************************************************************************)
(* Clients, users and the host start drives and move none.                 *)
(***************************************************************************)
LEMMA OutsideFrame ==
    ASSUME ExecTypes, OutsideStep
    PROVE  /\ \A e \in Turns : pc'[e] = pc[e] \/ (pc[e] = "idle" /\ pc'[e] = "loaded")
           /\ \A e \in Turns : pc[e] # "idle" => loc'[e] = loc[e]
           /\ UNCHANGED <<reg, caller, terminals, res>>
<1> USE DEF durable, registry, drive, client, Goto
<1> DEFINE Moves == \A e \in Turns : pc'[e] = pc[e] \/ (pc[e] = "idle" /\ pc'[e] = "loaded")
           Locs == \A e \in Turns : pc[e] # "idle" => loc'[e] = loc[e]
           Rest == UNCHANGED <<reg, caller, terminals, res>>
<1>0. pc \in [Turns -> Places] /\ loc \in [Turns -> Conversations]
  BY DEF ExecTypes
<1>v. ASSUME UNCHANGED vars PROVE caller' = caller
  BY <1>v DEF vars
<1>1. ASSUME NEW d \in Turns, NEW c, pc[d] = "idle", UNCHANGED caller,
             Goto(d, "loaded"), loc' = [loc EXCEPT ![d] = c]
      PROVE  Moves /\ Locs
  BY <1>0, <1>1
<1>2. ASSUME UNCHANGED <<pc, loc>> PROVE Moves /\ Locs
  BY <1>2
<1>3. ASSUME NEW i \in Inputs, NEW kind \in {"live", "retried"}, Submit(i, kind)
      PROVE  Moves /\ Locs /\ Rest
  <2>1. <<i, kind>> \in Turns
    BY DriveFacts DEF Kinds
  <2> QED
    BY <1>1, <1>3, <1>v, <2>1 DEF Submit
<1>4. ASSUME NEW i \in Inputs, Recover(i) PROVE Moves /\ Locs /\ Rest
  <2>1. <<i, "recovered">> \in Turns
    BY DriveFacts DEF Kinds
  <2>2. Rest
    BY <1>4, <1>v DEF Recover
  <2>3. \/ UNCHANGED <<pc, loc>>
        \/ /\ pc[<<i, "recovered">>] = "idle"
           /\ Goto(<<i, "recovered">>, "loaded")
           /\ loc' = [loc EXCEPT ![<<i, "recovered">>] = store[InputSession[i]]]
    BY <1>4 DEF Recover
  <2> QED
    BY <1>1, <1>2, <2>1, <2>2, <2>3
<1>5. ASSUME NEW i \in Inputs, Resume(i) PROVE Moves /\ Locs /\ Rest
  <2>1. <<i, "resumed">> \in Turns
    BY DriveFacts DEF Kinds
  <2> QED
    BY <1>1, <1>5, <1>v, <2>1 DEF Resume
<1>6. ASSUME NEW s \in Sessions, CancelStep(s) PROVE Moves /\ Locs /\ Rest
  BY <1>2, <1>6, <1>v DEF CancelStep, CancelQueued, CancelFindsNoQueued, CancelActive,
     CancelRelease, CancelTurn, ReleaseRunning
<1>7. ASSUME NEW s \in Sessions, RecoverScan(s) PROVE Moves /\ Locs /\ Rest
  BY <1>2, <1>7, <1>v DEF RecoverScan
<1>8. ASSUME SuspendAll \/ UNCHANGED execVars PROVE Moves /\ Locs /\ Rest
  BY <1>2, <1>8, <1>v DEF SuspendAll, execVars
<1> QED
  BY <1>3, <1>4, <1>5, <1>6, <1>7, <1>8 DEF OutsideStep

(***************************************************************************)
(* A step is a step of a drive, one of the outside, or a restart.          *)
(***************************************************************************)
LEMMA ExecStepActors ==
    ASSUME [ExecNext]_execVars
    PROVE  \/ \E d \in Turns : EarlyStep(d) \/ LateStep(d)
           \/ OutsideStep
           \/ Restart
  BY ExecStepCases DEF OutsideStep

(***************************************************************************)
(* Every step keeps the registry exact.                                    *)
(***************************************************************************)
LEMMA RegistryInvStep ==
    ASSUME RegistryInv, [ExecNext]_execVars
    PROVE  RegistryInv'
<1>1. /\ SafetyInv /\ TypeOK /\ ExecTypes /\ OwnEntries
      /\ \A d \in Turns : CallerFits(d) /\ RegistryNames(d)
  BY DEF RegistryInv, SafetyInv
<1>2. SafetyInv' /\ ExecTypes'
  BY <1>1, SchedulerKept, ExecTypesStep
<1>3. ASSUME NEW d \in Turns, EarlyStep(d) \/ LateStep(d)
      PROVE  OwnEntries' /\ \A e \in Turns : CallerFits(e)' /\ RegistryNames(e)'
  <2>1. OwnEntries' /\ \A e \in Turns : RegistryNames(e)'
    BY <1>1, <1>3, DriveRegistry
  <2>2. CallerFits(d)'
    BY <1>1, <1>3, DriveCaller
  <2>3. ASSUME NEW e \in Turns, e # d PROVE CallerFits(e)'
    <3>1. pc'[e] = pc[e] /\ caller'[e] = caller[e]
      BY <1>1, <1>3, <2>3, DriveFrame
    <3> QED
      BY <1>1, <3>1 DEF CallerFits
  <2> QED
    BY <2>1, <2>2, <2>3
<1>4. ASSUME OutsideStep
      PROVE  OwnEntries' /\ \A e \in Turns : CallerFits(e)' /\ RegistryNames(e)'
  <2>1. /\ \A e \in Turns : pc'[e] = pc[e] \/ (pc[e] = "idle" /\ pc'[e] = "loaded")
        /\ UNCHANGED <<reg, caller>>
    BY <1>1, <1>4, OutsideFrame
  <2>2. OwnEntries'
    BY <1>1, <2>1 DEF OwnEntries
  <2>3. ASSUME NEW e \in Turns PROVE CallerFits(e)' /\ RegistryNames(e)'
    BY <1>1, <2>1 DEF CallerFits, RegistryNames, Permitted, Executing
  <2> QED
    BY <2>2, <2>3
<1>5. ASSUME Restart
      PROVE  OwnEntries' /\ \A e \in Turns : CallerFits(e)' /\ RegistryNames(e)'
  <2>1. /\ \A s \in Sessions : reg'[s] = NoTurn
        /\ \A e \in Turns : pc'[e] = "idle" /\ caller'[e] = "idle"
    BY <1>5 DEF Restart
  <2>2. OwnEntries'
    BY <2>1 DEF OwnEntries
  <2>3. ASSUME NEW e \in Turns PROVE CallerFits(e)' /\ RegistryNames(e)'
    <3>1. Of(e) \in Sessions /\ e # NoTurn
      BY DriveFacts, SchedulerAssumption
    <3> QED
      BY <2>1, <3>1 DEF CallerFits, RegistryNames, Permitted, Executing
  <2> QED
    BY <2>2, <2>3
<1> QED
  BY <1>1, <1>2, <1>3, <1>4, <1>5, ExecStepActors DEF RegistryInv

(***************************************************************************)
(* ... and it is exact initially.                                          *)
(***************************************************************************)
LEMMA RegistryInvInit == ExecInit => RegistryInv
<1> SUFFICES ASSUME ExecInit PROVE RegistryInv
  OBVIOUS
<1>1. SafetyInv
  BY SafetyInvInit DEF ExecInit
<1>2. ExecTypes
  <2>1. \A n \in Nat : 0 \in 0..n
    OBVIOUS
  <2>2. <<>> \in Seq(TerminalEvents)
    OBVIOUS
  <2>3. suspended \in [Sessions -> BOOLEAN] /\ turnCtx \in [Turns -> BOOLEAN]
        /\ startedLog \in [Inputs -> BOOLEAN]
    BY DEF ExecInit
  <2> QED
    BY <2>1, <2>2, <2>3, Written, ConversationUpdates, ExecutionAssumption DEF ExecInit, ExecTypes
<1>3. /\ \A s \in Sessions : reg[s] = NoTurn
      /\ \A e \in Turns : pc[e] = "idle" /\ caller[e] = "idle"
  BY DEF ExecInit, Init
<1>4. OwnEntries
  BY <1>3 DEF OwnEntries
<1>5. ASSUME NEW e \in Turns PROVE CallerFits(e) /\ RegistryNames(e)
  <2>1. Of(e) \in Sessions /\ e # NoTurn
    BY DriveFacts, SchedulerAssumption
  <2> QED
    BY <1>3, <2>1 DEF CallerFits, RegistryNames, Permitted, Executing
<1> QED
  BY <1>1, <1>2, <1>4, <1>5 DEF RegistryInv

(***************************************************************************)
(* The registry is exact whatever is cancelled, recovered, resumed or      *)
(* refused.                                                                *)
(***************************************************************************)
LEMMA RegistryInvariant == ExecSpec => []RegistryInv
<1>1. RegistryInv /\ [ExecNext]_execVars => RegistryInv'
  BY RegistryInvStep
<1> QED
  BY <1>1, RegistryInvInit, PTL DEF ExecSpec

(***************************************************************************)
(* "Claim the turn (mutual exclusion)": one goroutine at a time runs the   *)
(* agent loop of a conversation and writes its outcome, and the registry   *)
(* names it, whichever of Occurrences may happen.                          *)
(***************************************************************************)
THEOREM OneExecutionPerConversation == ExecSpec => []ExclusiveExecution
<1>1. RegistryInv => ExclusiveExecution
  <2> SUFFICES ASSUME RegistryInv, NEW s \in Sessions
               PROVE  ExecutingIn(s) = IF reg[s] = NoTurn THEN {} ELSE {reg[s]}
    BY DEF ExclusiveExecution
  <2>1. /\ \A d \in Turns : (pc[d] \in Executing <=> reg[Of(d)] = d)
        /\ reg[s] # NoTurn => Of(reg[s]) = s /\ reg[s] \in Turns
        /\ NoTurn \notin Turns
    BY SchedulerAssumption DEF RegistryInv, RegistryNames, OwnEntries, ExecTypes
  <2>2. \A d \in Turns : d \in ExecutingIn(s) <=> reg[s] = d
    BY <2>1 DEF ExecutingIn
  <2> QED
    BY <2>1, <2>2 DEF ExecutingIn
<1> QED
  BY <1>1, RegistryInvariant, PTL

(***************************************************************************)
(* The executor's durable and volatile state is well formed.               *)
(***************************************************************************)
THEOREM ExecutorTypeCorrect == ExecSpec => []ExecTypeOK
<1>1. RegistryInv => ExecTypeOK
  BY DEF RegistryInv, SafetyInv, ExecTypes, ExecTypeOK
<1> QED
  BY <1>1, RegistryInvariant, PTL

-----------------------------------------------------------------------------
(* Unless users cancel running turns: a permit stays with its turn.        *)

(***************************************************************************)
(* Nobody takes a permit back.                                             *)
(***************************************************************************)
LEMMA PermitInvStep ==
    ASSUME "cancelRunning" \notin Events, PermitInv, [ExecNext]_execVars
    PROVE  PermitInv'
<1> USE DEF durable, registry, drive, client
<1>1. /\ RegistryInv /\ NotRevoked /\ TypeOK /\ ExecTypes
      /\ caller \in [Turns -> CallerStates] /\ released \in [Turns -> BOOLEAN]
      /\ \A s \in Sessions : canceller[s] = "none"
  BY DEF PermitInv, RegistryInv, SafetyInv, TypeOK, NotRevoked
<1>2. RegistryInv'
  BY <1>1, RegistryInvStep
<1>3. ASSUME UNCHANGED <<released, caller, canceller>> PROVE NotRevoked'
  BY <1>1, <1>3 DEF NotRevoked
<1>4. ASSUME UNCHANGED vars PROVE UNCHANGED <<released, caller>>
  BY <1>4 DEF vars, turnVars
<1>5. ASSUME NEW d \in Turns, EarlyStep(d) \/ LateStep(d) PROVE NotRevoked'
  <2>1. UNCHANGED canceller
    BY <1>1, <1>5, DriveFrame
  <2>2. ASSUME Acquire(d) \/ TakeReady(d) PROVE NotRevoked'
    <3>1. UNCHANGED released /\ caller[d] # "done" /\ \A e \in Turns : e # d => caller'[e] = caller[e]
      BY <1>1, <2>2 DEF Acquire, TakeReady, turnVars
    <3> QED
      BY <1>1, <2>1, <3>1 DEF NotRevoked
  <2>3. ASSUME NewRequest(d) PROVE NotRevoked'
    <3>1. ~released'[d]
      BY <1>1, <2>3 DEF NewRequest
    <3>2. \A e \in Turns : e # d => released'[e] = released[e] /\ caller'[e] = caller[e]
      BY <1>1, <2>3 DEF NewRequest
    <3> QED
      BY <1>1, <2>1, <3>1, <3>2 DEF NotRevoked
  <2>4. ASSUME Release(d) PROVE NotRevoked'
    <3>1. \A e \in Turns : e # d => released'[e] = released[e]
      BY <1>1, <2>4 DEF Release, ReleaseLocked
    <3>2. caller'[d] = "done" /\ \A e \in Turns : e # d => caller'[e] = caller[e]
      BY <1>1, <2>4 DEF Release
    <3> QED
      BY <1>1, <2>1, <3>1, <3>2 DEF NotRevoked
  <2>5. CASE AcquirePermit(d) \/ AcquireCanceled(d) \/ TakePermit(d)
    BY <2>2, <2>5 DEF AcquirePermit, AcquireCanceled, TakePermit
  <2>6. CASE Abort(d) \/ Return(d)
    BY <1>3, <1>4, <2>1, <2>3, <2>6 DEF Abort, Return
  <2>7. CASE ReturnPermit(d)
    BY <2>4, <2>7 DEF ReturnPermit
  <2>8. CASE \/ Admit(d) \/ GuardRefuses(d) \/ StartInput(d) \/ BeginTurn(d) \/ BeginBusy(d)
             \/ Checkpoint(d) \/ \E r \in Outcomes \ {"none"} : RunEnds(d, r)
             \/ RecordStatus(d) \/ EmitLifecycle(d) \/ SettleInput(d) \/ FinalSave(d)
             \/ FinishTurn(d)
    <3>1. UNCHANGED vars
      BY <2>8 DEF Admit, GuardRefuses, StartInput, BeginTurn, BeginBusy, Checkpoint, RunEnds,
         RecordStatus, EmitLifecycle, SettleInput, FinalSave, FinishTurn
    <3> QED
      BY <1>3, <1>4, <2>1, <3>1
  <2> QED
    BY <1>5, <2>5, <2>6, <2>7, <2>8 DEF EarlyStep, LateStep
<1>6. ASSUME NEW s \in Sessions, CancelStep(s) PROVE NotRevoked'
  <2>1. CancelQueued(s)
    BY <1>1, <1>6 DEF CancelStep, CancelFindsNoQueued, CancelActive, CancelRelease
  <2> QED
    BY <1>3, <2>1 DEF CancelQueued, CancelTurn
<1>7. ASSUME NEW i \in Inputs, NEW kind, Submit(i, kind) PROVE NotRevoked'
  BY <1>3, <1>4, <1>7 DEF Submit
<1>8. ASSUME NEW i \in Inputs, Recover(i) \/ Resume(i) PROVE NotRevoked'
  BY <1>3, <1>4, <1>8 DEF Recover, Resume
<1>9. ASSUME NEW s \in Sessions, RecoverScan(s) PROVE NotRevoked'
  BY <1>3, <1>4, <1>9 DEF RecoverScan
<1>10. ASSUME SuspendAll \/ UNCHANGED execVars PROVE NotRevoked'
  BY <1>3, <1>4, <1>10 DEF SuspendAll, execVars
<1>11. ASSUME Restart PROVE NotRevoked'
  BY <1>11 DEF Restart, NotRevoked
<1> QED
  BY <1>2, <1>5, <1>6, <1>7, <1>8, <1>9, <1>10, <1>11, ExecStepActors DEF OutsideStep, PermitInv

(***************************************************************************)
(* At most one drive of a conversation is between its permit and its       *)
(* deferred calls: the scheduler's map of running turns names it.          *)
(***************************************************************************)
LEMMA PermitUnique ==
    ASSUME PermitInv, NEW d \in Turns, NEW e \in Turns,
           pc[d] \in Permitted, pc[e] \in Permitted, Of(d) = Of(e)
    PROVE  d = e
<1>1. ASSUME NEW t \in Turns, pc[t] \in Permitted PROVE active[Of(t)] = t
  <2>1. caller[t] = "holding"
    BY <1>1 DEF PermitInv, RegistryInv, CallerFits
  <2>2. granted[t] /\ ~released[t]
    BY <2>1 DEF PermitInv, RegistryInv, SafetyInv, Told, NotRevoked
  <2> QED
    BY <2>2 DEF PermitInv, RegistryInv, SafetyInv, Owned, Of
<1> QED
  BY <1>1

(***************************************************************************)
(* Unless running turns are cancelled, permits stay with their turns.      *)
(***************************************************************************)
LEMMA PermitInvariant ==
    ASSUME "cancelRunning" \notin Events
    PROVE  ExecSpec => []PermitInv
<1>1. ExecInit => PermitInv
  <2> SUFFICES ASSUME ExecInit PROVE PermitInv
    OBVIOUS
  <2>1. \A d \in Turns : ~released[d]
    BY DEF ExecInit, Init
  <2>2. \A s \in Sessions : canceller[s] = "none"
    BY DEF ExecInit
  <2> QED
    BY <2>1, <2>2, RegistryInvInit DEF PermitInv, NotRevoked
<1>2. PermitInv /\ [ExecNext]_execVars => PermitInv'
  BY PermitInvStep
<1> QED
  BY <1>1, <1>2, PTL DEF ExecSpec

(***************************************************************************)
(* "This makes a second turn in the same conversation a queued operation   *)
(* rather than an ErrBusy race": unless users cancel running turns, no     *)
(* reconnection, recovery, resumption, refusal or restart makes            *)
(* BeginTurnWithID fail for a turn that has its permit.                    *)
(***************************************************************************)
THEOREM NeverBusyUnlessCancelled ==
    ASSUME "cancelRunning" \notin Events
    PROVE  ExecSpec => []NeverBusy
<1>1. PermitInv => NeverBusy
  <2> SUFFICES ASSUME PermitInv, NEW d \in Turns, pc[d] = "started", reg[Of(d)] # NoTurn
               PROVE  FALSE
    BY DEF NeverBusy
  <2> DEFINE e == reg[Of(d)]
  <2>1. e \in Turns /\ Of(e) = Of(d)
    BY DriveFacts DEF PermitInv, RegistryInv, ExecTypes, OwnEntries
  <2>2. pc[e] \in Executing
    BY <2>1 DEF PermitInv, RegistryInv, RegistryNames
  <2>3. d = e
    BY <2>1, <2>2, PermitUnique DEF Permitted
  <2> QED
    BY <2>2, <2>3 DEF Executing
<1> QED
  BY <1>1, PermitInvariant, PTL

-----------------------------------------------------------------------------
(* ... and no conversation is written without a permit: saves lose nothing.*)

(***************************************************************************)
(* Clients, users and the host write no messages.                          *)
(***************************************************************************)
LEMMA OutsideMsgs ==
    ASSUME ExecTypes, OutsideStep \/ Restart
    PROVE  \A s \in Sessions : store'[s].msgs = store[s].msgs
<1> USE DEF durable
<1>0. store \in [Sessions -> Conversations]
  BY DEF ExecTypes
<1>p. ASSUME NEW s \in Sessions
      PROVE  [store[s] EXCEPT !.status = "paused"].msgs = store[s].msgs
  <2>1. store[s] \in Conversations
    BY <1>0
  <2> QED
    BY <2>1 DEF Conversations
<1>1. ASSUME NEW i \in Inputs, NEW kind, Submit(i, kind) PROVE UNCHANGED store
  BY <1>1 DEF Submit
<1>2. ASSUME NEW i \in Inputs, Resume(i) PROVE UNCHANGED store
  BY <1>2 DEF Resume
<1>3. ASSUME NEW i \in Inputs, Recover(i)
      PROVE  \A s \in Sessions : store'[s].msgs = store[s].msgs
  <2> DEFINE c == [store[InputSession[i]] EXCEPT !.status = "paused"]
  <2>1. InputSession[i] \in Sessions
    BY ExecutionAssumption
  <2>2. c.msgs = store[InputSession[i]].msgs
    BY <1>p, <2>1
  <2>3. store' = store \/ store' = [store EXCEPT ![InputSession[i]] = c]
    BY <1>3 DEF Recover
  <2> HIDE DEF c
  <2> QED
    BY <1>0, <2>1, <2>2, <2>3
<1>4. ASSUME NEW s \in Sessions, CancelStep(s) \/ RecoverScan(s) PROVE UNCHANGED store
  BY <1>4 DEF CancelStep, CancelQueued, CancelFindsNoQueued, CancelActive, CancelRelease,
     RecoverScan
<1>5. ASSUME SuspendAll \/ UNCHANGED execVars PROVE UNCHANGED store
  BY <1>5 DEF SuspendAll, execVars
<1>6. ASSUME Restart PROVE \A s \in Sessions : store'[s].msgs = store[s].msgs
  <2>1. store' = [s \in Sessions |->
                    IF store[s].status \in {"running", "resuming"}
                    THEN [store[s] EXCEPT !.status = "paused"] ELSE store[s]]
    BY <1>6 DEF Restart
  <2>2. ASSUME NEW s \in Sessions
        PROVE  store'[s] = store[s] \/ store'[s] = [store[s] EXCEPT !.status = "paused"]
    BY <2>1
  <2> QED
    BY <1>p, <2>2
<1> QED
  BY <1>1, <1>2, <1>3, <1>4, <1>5, <1>6 DEF OutsideStep

(***************************************************************************)
(* A drive saves what it has in memory, with its permit, and its memory    *)
(* only grows; the permit makes it start from what is saved.               *)
(***************************************************************************)
LEMMA DriveSaves ==
    ASSUME "staleSave" \notin Events, TypeOK, ExecTypes, NEW d \in Turns,
           CallerFits(d), SnapshotFresh(d), EarlyStep(d) \/ LateStep(d)
    PROVE  /\ \/ store' = store
              \/ pc[d] \in Permitted /\ store' = [store EXCEPT ![Of(d)] = loc'[d]]
           /\ pc[d] \in Permitted => loc[d].msgs \subseteq loc'[d].msgs
           /\ pc[d] \notin Permitted /\ pc'[d] \in Permitted =>
                 store' = store /\ loc'[d] = Reloaded(d)
           /\ pc'[d] = "aborting" => caller'[d] = "failed"
<1> USE DEF durable, registry, drive, client, Goto, Permitted, Executing
<1> DEFINE Saves == \/ store' = store
                    \/ pc[d] \in Permitted /\ store' = [store EXCEPT ![Of(d)] = loc'[d]]
           Grows == pc[d] \in Permitted => loc[d].msgs \subseteq loc'[d].msgs
           Loads == pc[d] \notin Permitted /\ pc'[d] \in Permitted =>
                       store' = store /\ loc'[d] = Reloaded(d)
           Fails == pc'[d] = "aborting" => caller'[d] = "failed"
           All == Saves /\ Grows /\ Loads /\ Fails
<1>0. pc \in [Turns -> Places] /\ loc \in [Turns -> Conversations] /\ loc[d] \in Conversations
  BY DEF ExecTypes
<1>1. CASE Admit(d)
  BY <1>0, <1>1 DEF Admit, ClaimRequest
<1>2. CASE GuardRefuses(d)
  BY <1>2 DEF GuardRefuses
<1>3. CASE AcquirePermit(d) \/ AcquireCanceled(d)
  BY <1>0, <1>3 DEF AcquirePermit, AcquireCanceled
<1>4. CASE Abort(d)
  BY <1>0, <1>4 DEF Abort, SnapshotFresh
<1>5. CASE TakePermit(d)
  BY <1>0, <1>5 DEF TakePermit
<1>6. CASE StartInput(d) \/ FinalSave(d)
  BY <1>0, <1>6 DEF StartInput, FinalSave
<1>7. CASE BeginTurn(d)
  <2>1. \/ loc' = [loc EXCEPT ![d].status = "resuming"]
        \/ loc' = [loc EXCEPT ![d].status = "running"]
    BY <1>7 DEF BeginTurn
  <2>2. loc'[d].msgs = loc[d].msgs
    BY <2>1, StatusWritten, Written
  <2> QED
    BY <1>0, <1>7, <2>2 DEF BeginTurn
<1>8. CASE BeginBusy(d)
  BY <1>0, <1>8 DEF BeginBusy
<1>9. CASE Checkpoint(d)
  BY <1>0, <1>9 DEF Checkpoint
<1>10. ASSUME NEW r \in Outcomes \ {"none"}, RunEnds(d, r) PROVE All
  <2>1. CASE r = "ok"
    <3> DEFINE c == [loc[d] EXCEPT !.msgs = @ \cup {<<InputOf(d), "answer">>}]
    <3>1. loc[d].msgs \subseteq c.msgs
      BY <1>0 DEF Conversations
    <3>2. loc' = [loc EXCEPT ![d] = c]
      BY <1>10, <2>1 DEF RunEnds
    <3> HIDE DEF c
    <3>3. loc'[d] = c
      BY <1>0, <3>2
    <3>4. store' \in {store, [store EXCEPT ![Of(d)] = loc'[d]]}
      BY <1>10, <2>1 DEF RunEnds
    <3> QED
      BY <1>0, <1>10, <3>1, <3>3, <3>4 DEF RunEnds
  <2>2. CASE r # "ok"
    BY <1>0, <1>10, <2>2 DEF RunEnds
  <2> QED
    BY <2>1, <2>2
<1>11. CASE RecordStatus(d)
  <2>1. loc'[d].msgs = loc[d].msgs
    BY <1>0, <1>11, RecordedFacts DEF RecordStatus
  <2> QED
    BY <1>0, <1>11, <2>1 DEF RecordStatus
<1>12. CASE EmitLifecycle(d) \/ SettleInput(d)
  BY <1>0, <1>12 DEF EmitLifecycle, SettleInput
<1>13. CASE FinishTurn(d) \/ ReturnPermit(d)
  BY <1>0, <1>13 DEF FinishTurn, ReturnPermit
<1>14. CASE Return(d)
  BY <1>0, <1>14 DEF Return
<1> QED
  BY <1>1, <1>2, <1>3, <1>4, <1>5, <1>6, <1>7, <1>8, <1>9, <1>10, <1>11, <1>12, <1>13, <1>14
  DEF EarlyStep, LateStep

(***************************************************************************)
(* Memories stay ahead of what is saved, and nothing saved is lost.        *)
(***************************************************************************)
LEMMA SnapshotInvStep ==
    ASSUME "cancelRunning" \notin Events, "staleSave" \notin Events,
           SnapshotInv, [ExecNext]_execVars
    PROVE  SnapshotInv' /\ MsgsKept
<1>1. /\ PermitInv /\ RegistryInv /\ TypeOK /\ ExecTypes
      /\ \A d \in Turns : CallerFits(d) /\ SnapshotFresh(d)
      /\ store \in [Sessions -> Conversations]
      /\ \A d \in Turns : Of(d) \in Sessions
  BY DriveFacts DEF SnapshotInv, PermitInv, RegistryInv, SafetyInv, ExecTypes
<1>2. PermitInv'
  BY <1>1, PermitInvStep
<1>3. ASSUME NEW d \in Turns, EarlyStep(d) \/ LateStep(d)
      PROVE  MsgsKept /\ \A e \in Turns : SnapshotFresh(e)'
  <2>1. /\ \/ store' = store
           \/ pc[d] \in Permitted /\ store' = [store EXCEPT ![Of(d)] = loc'[d]]
        /\ pc[d] \in Permitted => loc[d].msgs \subseteq loc'[d].msgs
        /\ pc[d] \notin Permitted /\ pc'[d] \in Permitted =>
              store' = store /\ loc'[d] = Reloaded(d)
        /\ pc'[d] = "aborting" => caller'[d] = "failed"
    BY <1>1, <1>3, DriveSaves
  <2>2. pc[d] \in Permitted => store[Of(d)].msgs \subseteq loc'[d].msgs
    BY <1>1, <2>1 DEF SnapshotFresh
  <2>3. MsgsKept
    BY <1>1, <2>1, <2>2 DEF MsgsKept
  <2>4. SnapshotFresh(d)'
    <3>1. CASE pc[d] \in Permitted
      BY <1>1, <2>1, <2>2, <3>1 DEF SnapshotFresh
    <3>2. CASE pc[d] \notin Permitted
      BY <1>1, <2>1, <3>2, ReloadedFacts DEF SnapshotFresh
    <3> QED
      BY <3>1, <3>2
  <2>5. ASSUME NEW e \in Turns, e # d PROVE SnapshotFresh(e)'
    <3>1. pc'[e] = pc[e] /\ caller'[e] = caller[e] /\ loc'[e] = loc[e]
      BY <1>1, <1>3, <2>5, DriveFrame
    <3>2. pc[e] \in Permitted => store'[Of(e)] = store[Of(e)]
      BY <1>1, <2>1, <2>5, PermitUnique
    <3> QED
      BY <1>1, <3>1, <3>2 DEF SnapshotFresh
  <2> QED
    BY <2>3, <2>4, <2>5
<1>4. ASSUME OutsideStep
      PROVE  MsgsKept /\ \A e \in Turns : SnapshotFresh(e)'
  <2>1. \A s \in Sessions : store'[s].msgs = store[s].msgs
    BY <1>1, <1>4, OutsideMsgs
  <2>2. /\ \A e \in Turns : pc'[e] = pc[e] \/ (pc[e] = "idle" /\ pc'[e] = "loaded")
        /\ \A e \in Turns : pc[e] # "idle" => loc'[e] = loc[e]
        /\ UNCHANGED caller
    BY <1>1, <1>4, OutsideFrame
  <2>3. ASSUME NEW e \in Turns PROVE SnapshotFresh(e)'
    BY <1>1, <2>1, <2>2 DEF SnapshotFresh, Permitted, Executing
  <2> QED
    BY <2>1, <2>3 DEF MsgsKept
<1>5. ASSUME Restart
      PROVE  MsgsKept /\ \A e \in Turns : SnapshotFresh(e)'
  <2>1. \A s \in Sessions : store'[s].msgs = store[s].msgs
    BY <1>1, <1>5, OutsideMsgs
  <2>2. \A e \in Turns : pc'[e] = "idle"
    BY <1>5 DEF Restart
  <2> QED
    BY <2>1, <2>2 DEF MsgsKept, SnapshotFresh, Permitted, Executing
<1> QED
  BY <1>2, <1>3, <1>4, <1>5, ExecStepActors DEF SnapshotInv

(***************************************************************************)
(* With neither cancelled runs nor stale saves.                            *)
(***************************************************************************)
LEMMA SnapshotInvInit == ExecInit => SnapshotInv
<1> SUFFICES ASSUME ExecInit PROVE SnapshotInv
  OBVIOUS
<1>1. \A d \in Turns : ~released[d]
  BY DEF ExecInit, Init
<1>2. \A s \in Sessions : canceller[s] = "none"
  BY DEF ExecInit
<1>3. \A d \in Turns : pc[d] = "idle"
  BY DEF ExecInit
<1> QED
  BY <1>1, <1>2, <1>3, RegistryInvInit
  DEF SnapshotInv, PermitInv, NotRevoked, SnapshotFresh, Permitted, Executing

(***************************************************************************)
(* The saves around a turn "keep the persisted history consistent and      *)
(* resumable": each rewrites all messages, and none removes an answer that *)
(* the conversation holds, unless users cancel running turns or turns      *)
(* write the conversation before they have a permit.                       *)
(***************************************************************************)
THEOREM AnswersNeverLost ==
    ASSUME "cancelRunning" \notin Events, "staleSave" \notin Events
    PROVE  ExecSpec => AnswersKept
<1>1. SnapshotInv /\ [ExecNext]_execVars => SnapshotInv'
  BY SnapshotInvStep
<1>2. SnapshotInv /\ [ExecNext]_execVars =>
         [\A s \in Sessions : Answers(s) \subseteq Answers(s)']_execVars
  <2> SUFFICES ASSUME SnapshotInv, [ExecNext]_execVars, NEW s \in Sessions
               PROVE  Answers(s) \subseteq Answers(s)'
    OBVIOUS
  <2>1. store[s].msgs \subseteq store'[s].msgs
    BY SnapshotInvStep DEF MsgsKept
  <2> QED
    BY <2>1 DEF Answers
<1> QED
  BY <1>1, <1>2, SnapshotInvInit, PTL DEF ExecSpec, AnswersKept

-----------------------------------------------------------------------------
(* With none of Occurrences: one end of every turn, in inbox and log.      *)

\* durableTurnTerminal, of a log.
NewestState(log) ==
    LET last == log[Len(log)]
    IN  IF last = "finished" THEN "completed" ELSE last

(***************************************************************************)
(* The state that a log of one event stands for.                           *)
(***************************************************************************)
LEMMA NewestStates ==
    /\ NewestState(<<"finished">>) = "completed"
    /\ NewestState(<<"failed">>) = "failed"
    /\ NewestState(<<"cancelled">>) = "cancelled"
    /\ \A i \in Inputs : /\ DurableTerminal(i) = NewestState(terminals[i])
                         /\ DurableTerminal(i)' = NewestState(terminals'[i])
<1>1. \A e : <<e>>[Len(<<e>>)] = e
  OBVIOUS
<1>2. /\ NewestState(<<"finished">>) = "completed"
      /\ NewestState(<<"failed">>) = "failed"
      /\ NewestState(<<"cancelled">>) = "cancelled"
  BY <1>1 DEF NewestState
<1>3. \A i \in Inputs : /\ DurableTerminal(i) = NewestState(terminals[i])
                        /\ DurableTerminal(i)' = NewestState(terminals'[i])
  BY DEF NewestState, DurableTerminal
<1> QED
  BY <1>2, <1>3

(***************************************************************************)
(* Logs of at most one event.                                              *)
(***************************************************************************)
LEMMA ShortLogs ==
    /\ Len(<<>>) <= 1 /\ \A e : <<e>> # <<>> /\ Len(<<e>>) <= 1
    /\ <<"finished">> # <<"failed">> /\ <<"finished">> # <<"cancelled">>
    /\ <<"failed">> # <<"cancelled">>
  OBVIOUS

(***************************************************************************)
(* What is said of an input survives a step that leaves its row, its log,  *)
(* its listing and its drives alone.                                       *)
(***************************************************************************)
LEMMA AccountedKept ==
    ASSUME MsgsKept, NEW j \in Inputs, Accounted(j),
           inbox'[j] = inbox[j], terminals'[j] = terminals[j], scan'[j] = scan[j],
           Untaken(j) => Untaken(j)'
    PROVE  Accounted(j)'
<1>1. InputSession[j] \in Sessions
  BY ExecutionAssumption
<1>2. HasOriginTurn(store[InputSession[j]], j) => HasOriginTurn(store'[InputSession[j]], j)
  BY <1>1 DEF MsgsKept, HasOriginTurn
<1>3. DurableTerminal(j)' = DurableTerminal(j)
  BY DEF DurableTerminal
<1> QED
  BY <1>2, <1>3 DEF Accounted

(***************************************************************************)
(* What is said of a drive survives a step that leaves it and its input    *)
(* alone, and for a drive that is not entitled to its input any step that  *)
(* leaves it alone.                                                        *)
(***************************************************************************)
LEMMA StageKept ==
    ASSUME NEW e \in Turns, Stage(e), pc'[e] = pc[e], loc'[e] = loc[e], res'[e] = res[e],
           \/ ~Engaged(e)
           \/ inbox'[InputOf(e)] = inbox[InputOf(e)] /\ terminals'[InputOf(e)] = terminals[InputOf(e)]
    PROVE  Stage(e)' /\ (Engaged(e)' <=> Engaged(e))
<1>1. Engaged(e)' <=> Engaged(e)
  BY DEF Engaged
<1>2. CASE Engaged(e)
  <2>1. /\ inbox'[InputOf(e)] = inbox[InputOf(e)]
        /\ terminals'[InputOf(e)] = terminals[InputOf(e)]
    BY <1>2
  <2> QED
    BY <1>1, <2>1 DEF Stage, LogFits, InputFits, HasOriginTurn
<1>3. CASE ~Engaged(e)
  <2>1. pc[e] \in {"idle", "loaded"} /\ ~Engaged(e)'
    BY <1>1, <1>3 DEF Engaged
  <2> QED
    BY <1>1, <2>1 DEF Stage, LogFits, InputFits, Judged
<1> QED
  BY <1>1, <1>2, <1>3

(***************************************************************************)
(* A step of one drive that no other drive of its input disputes.          *)
(***************************************************************************)
LEMMA UndisputedStep ==
    ASSUME OrderlyParts, MsgsKept, NEW d \in Turns,
           \A e \in Turns : e # d => pc'[e] = pc[e] /\ loc'[e] = loc[e] /\ res'[e] = res[e],
           \A j \in Inputs : j # InputOf(d) => /\ inbox'[j] = inbox[j]
                                               /\ terminals'[j] = terminals[j]
                                               /\ scan'[j] = scan[j],
           \A e \in Turns : e # d /\ InputOf(e) = InputOf(d) => ~Engaged(e),
           Stage(d)', Accounted(InputOf(d))'
    PROVE  OrderlyParts'
<1>1. \A e \in Turns : InputOf(e) \in Inputs
  BY DriveFacts
<1>2. ASSUME NEW e \in Turns, e # d
      PROVE  Stage(e)' /\ (Engaged(e)' <=> Engaged(e))
  <2>1. Stage(e) /\ pc'[e] = pc[e] /\ loc'[e] = loc[e] /\ res'[e] = res[e]
    BY <1>2 DEF OrderlyParts
  <2>2. \/ ~Engaged(e)
        \/ inbox'[InputOf(e)] = inbox[InputOf(e)] /\ terminals'[InputOf(e)] = terminals[InputOf(e)]
    BY <1>1, <1>2
  <2> QED
    BY <2>1, <2>2, StageKept
<1>3. OneDriver'
  <2> SUFFICES ASSUME NEW a \in Turns, NEW b \in Turns, InputOf(a) = InputOf(b),
                      Engaged(a)', Engaged(b)'
               PROVE  a = b
    BY DEF OneDriver
  <2>1. CASE a # d /\ b # d
    BY <1>2, <2>1 DEF OrderlyParts, OneDriver
  <2>2. CASE a = d \/ b = d
    BY <1>2, <2>2
  <2> QED
    BY <2>1, <2>2
<1>4. ASSUME NEW j \in Inputs, j # InputOf(d) PROVE Accounted(j)'
  <2>1. Untaken(j) => Untaken(j)'
    BY <1>2, <1>4 DEF Untaken
  <2> QED
    BY <1>4, <2>1, AccountedKept DEF OrderlyParts
<1> QED
  BY <1>2, <1>3, <1>4 DEF OrderlyParts

(***************************************************************************)
(* A step of a drive that is not entitled to its input and does not become *)
(* so.                                                                     *)
(***************************************************************************)
LEMMA UnentitledStep ==
    ASSUME OrderlyParts, MsgsKept, NEW d \in Turns,
           \A e \in Turns : e # d => pc'[e] = pc[e] /\ loc'[e] = loc[e] /\ res'[e] = res[e],
           \A j \in Inputs : inbox'[j] = inbox[j] /\ terminals'[j] = terminals[j]
                             /\ scan'[j] = scan[j],
           pc'[d] \in {"idle", "loaded"}, ~Engaged(d)',
           InputOf(d) \in Anonymous /\ KindOf(d) # "resumed" => pc'[d] = "idle"
    PROVE  OrderlyParts'
<1>1. \A e \in Turns : InputOf(e) \in Inputs
  BY DriveFacts
<1>2. ASSUME NEW e \in Turns, e # d
      PROVE  Stage(e)' /\ (Engaged(e)' <=> Engaged(e))
  BY <1>1, <1>2, StageKept DEF OrderlyParts
<1>3. Stage(d)'
  BY DEF Stage, LogFits, InputFits, Judged
<1>4. OneDriver'
  BY <1>2 DEF OrderlyParts, OneDriver
<1>5. ASSUME NEW j \in Inputs PROVE Accounted(j)'
  <2>1. Untaken(j) => Untaken(j)'
    BY <1>2 DEF Untaken
  <2> QED
    BY <2>1, AccountedKept DEF OrderlyParts
<1> QED
  BY <1>2, <1>3, <1>4, <1>5 DEF OrderlyParts

(***************************************************************************)
(* A step that moves no drive and writes neither inbox, log nor listing.   *)
(***************************************************************************)
LEMMA UntouchedStep ==
    ASSUME OrderlyParts, MsgsKept, UNCHANGED <<pc, loc, res, inbox, terminals, scan>>
    PROVE  OrderlyParts'
<1>1. \A e \in Turns : Stage(e)' /\ (Engaged(e)' <=> Engaged(e))
  BY StageKept DEF OrderlyParts
<1>2. OneDriver'
  BY <1>1 DEF OrderlyParts, OneDriver
<1>3. ASSUME NEW j \in Inputs PROVE Accounted(j)'
  BY <1>1, AccountedKept DEF OrderlyParts, Untaken
<1> QED
  BY <1>1, <1>2, <1>3 DEF OrderlyParts

(***************************************************************************)
(* What is said of an input that a drive is entitled to, from what the     *)
(* step does to its log and its row.                                       *)
(***************************************************************************)
LEMMA AccountedAfter ==
    ASSUME MsgsKept, NEW i \in Inputs, Accounted(i), scan' = scan,
           scan[i] \notin {"accepted", "queued"},
           Len(terminals'[i]) <= 1,
           i \in Anonymous => inbox'[i] = inbox[i],
           i \notin Anonymous => inbox'[i] # "none",
           inbox'[i] = "running" =>
              inbox[i] = "running" \/ HasOriginTurn(store'[InputSession[i]], i),
           inbox'[i] \in {"completed", "failed"} => terminals'[i] # <<>>,
           inbox'[i] \in Settled /\ terminals'[i] # <<>> =>
              inbox'[i] = NewestState(terminals'[i])
    PROVE  Accounted(i)'
<1>1. InputSession[i] \in Sessions
  BY ExecutionAssumption
<1>2. HasOriginTurn(store[InputSession[i]], i) => HasOriginTurn(store'[InputSession[i]], i)
  BY <1>1 DEF MsgsKept, HasOriginTurn
<1>3. DurableTerminal(i)' = NewestState(terminals'[i])
  BY NewestStates
<1> QED
  BY <1>2, <1>3 DEF Accounted

\* The obligations of a step of the drive d.
Proper(d) ==
    /\ Stage(d)'
    /\ Accounted(InputOf(d))'
    /\ inbox[InputOf(d)] \in Settled => inbox'[InputOf(d)] = inbox[InputOf(d)]

(***************************************************************************)
(* The early steps of a drive that is entitled to its input.               *)
(***************************************************************************)
LEMMA EarlyProper ==
    ASSUME Events = {}, SnapshotInv, OrderlyParts, MsgsKept,
           NEW d \in Turns, Engaged(d), EarlyStep(d)
    PROVE  Proper(d)
<1> DEFINE i == InputOf(d)
<1> USE DEF Goto, Engaged, BeforeEnd, Judged
<1>0. /\ TypeOK /\ ExecTypes
      /\ i \in Inputs /\ Of(d) \in Sessions /\ Of(d) = InputSession[i]
      /\ Stage(d) /\ Accounted(i) /\ SnapshotFresh(d)
      /\ pc \in [Turns -> Places] /\ loc \in [Turns -> Conversations]
      /\ store \in [Sessions -> Conversations]
  BY DriveFacts DEF SnapshotInv, PermitInv, RegistryInv, SafetyInv, ExecTypes, OrderlyParts
<1>1. scan' = scan
  BY <1>0, DriveFrame
<1>2. /\ scan[i] \notin {"accepted", "queued"}
      /\ i \notin Anonymous => inbox[i] # "none"
      /\ i \in Anonymous => inbox[i] = "none"
      /\ inbox[i] \in {"completed", "failed"} => terminals[i] # <<>>
      /\ inbox[i] \in Settled /\ terminals[i] # <<>> => inbox[i] = NewestState(terminals[i])
      /\ Len(terminals[i]) <= 1
  <2>1. ~Untaken(i)
    BY DEF Untaken
  <2> QED
    BY <1>0, <2>1, NewestStates DEF Accounted
<1>3. ASSUME inbox'[i] = inbox[i], terminals'[i] = terminals[i] PROVE Accounted(i)'
  BY <1>0, <1>1, <1>2, <1>3, AccountedAfter
<1> HIDE DEF i
<1>4. CASE Admit(d)
  <2>1. pc[d] = "loaded" /\ KindOf(d) \notin {"live", "retried"}
    BY <1>4 DEF Admit
  <2>2. pc'[d] = "claimed" /\ UNCHANGED <<inbox, loc, terminals, res>>
    BY <1>0, <1>4, <2>1 DEF Admit
  <2>3. Stage(d)'
    BY <1>0, <2>1, <2>2 DEF Stage, LogFits, InputFits
  <2> QED
    BY <1>3, <2>2, <2>3 DEF Proper, i
<1>5. CASE GuardRefuses(d)
  BY <1>5 DEF GuardRefuses
<1>6. CASE AcquirePermit(d)
  <2>1. pc[d] = "claimed" /\ pc'[d] = "acquiring" /\ UNCHANGED <<loc, terminals, res>>
    BY <1>0, <1>6 DEF AcquirePermit
  <2>2. inbox'[i] = inbox[i] \/ (i \notin Anonymous /\ inbox'[i] = "queued")
    BY <1>0, <1>6, InputWritten, Written DEF AcquirePermit, i
  <2>3. i \notin Anonymous => inbox[i] \notin Settled
    BY <1>0, <2>1 DEF Stage, InputFits, i
  <2>4. i \notin Anonymous => inbox'[i] \notin Settled
    BY <2>2, <2>3 DEF Settled
  <2>5. Stage(d)'
    BY <1>0, <2>1, <2>4 DEF Stage, LogFits, InputFits, i
  <2>6. Accounted(i)'
    BY <1>0, <1>1, <1>2, <2>1, <2>2, <2>4, AccountedAfter DEF Settled
  <2> QED
    BY <1>2, <2>2, <2>3, <2>5, <2>6 DEF Proper, i, Settled
<1>7. CASE AcquireCanceled(d)
  <2>1. pc[d] = "acquiring" /\ pc'[d] = "aborting" /\ UNCHANGED <<loc, terminals, res>>
    BY <1>0, <1>7 DEF AcquireCanceled
  <2>2. inbox'[i] = IF i \in Anonymous THEN inbox[i] ELSE "cancelled"
    BY <1>0, <1>7, InputWritten, Written DEF AcquireCanceled, i
  <2>3. terminals[i] = <<>> /\ (i \notin Anonymous => inbox[i] \notin Settled)
    BY <1>0, <2>1 DEF Stage, LogFits, InputFits, i
  <2>4. Stage(d)'
    BY <1>0, <2>1, <2>2, <2>3 DEF Stage, LogFits, InputFits, i
  <2>5. Accounted(i)'
    BY <1>0, <1>1, <1>2, <2>1, <2>2, <2>3, AccountedAfter DEF Settled
  <2> QED
    BY <1>2, <2>2, <2>3, <2>4, <2>5 DEF Proper, i, Settled
<1>8. CASE Abort(d)
  <2>1. pc[d] = "aborting" /\ pc'[d] = "idle" /\ UNCHANGED <<inbox, res>>
    BY <1>0, <1>8 DEF Abort
  <2>2. terminals' = [terminals EXCEPT ![i] = Logged(@, "cancelled")]
    BY <1>0, <1>8 DEF Abort, SnapshotFresh, i
  <2>3. terminals[i] = <<>> /\ (i \notin Anonymous => inbox[i] = "cancelled")
    BY <1>0, <2>1 DEF Stage, LogFits, InputFits, i
  <2>4. terminals'[i] = <<"cancelled">>
    BY <1>0, <2>2, <2>3, EventWritten, Written
  <2>5. Stage(d)'
    BY <2>1 DEF Stage, LogFits, InputFits
  <2>6. Accounted(i)'
    <3>1. Len(terminals'[i]) <= 1 /\ terminals'[i] # <<>>
      BY <2>4, ShortLogs
    <3>2. inbox'[i] = inbox[i]
      BY <2>1
    <3>3. inbox'[i] \in Settled => inbox'[i] = NewestState(terminals'[i])
      BY <1>2, <2>3, <2>4, <3>2, NewestStates DEF Settled
    <3> QED
      BY <1>0, <1>1, <1>2, <3>1, <3>2, <3>3, AccountedAfter
  <2> QED
    BY <2>1, <2>5, <2>6 DEF Proper, i
<1>9. CASE TakePermit(d)
  <2>1. /\ pc[d] = "acquiring" /\ pc'[d] = "reloaded" /\ UNCHANGED <<inbox, terminals, res>>
        /\ loc'[d] = Reloaded(d)
    BY <1>0, <1>9 DEF TakePermit, durable
  <2>2. Stage(d)'
    BY <1>0, <2>1, ReloadedFacts DEF Stage, LogFits, InputFits
  <2> QED
    BY <1>3, <2>1, <2>2 DEF Proper, i
<1>10. CASE StartInput(d)
  <2>1. pc[d] = "reloaded" /\ pc'[d] = "started" /\ UNCHANGED <<loc, terminals, res>>
    BY <1>0, <1>10 DEF StartInput
  <2>2. inbox'[i] = IF i \in Anonymous THEN inbox[i] ELSE "running"
    BY <1>0, <1>10, InputWritten, Written DEF StartInput, i
  <2>3. /\ terminals[i] = <<>>
        /\ i \notin Anonymous => inbox[i] \notin Settled /\ HasOriginTurn(loc[d], i)
    BY <1>0, <2>1 DEF Stage, LogFits, InputFits, i
  <2>4. i \notin Anonymous => store'[Of(d)] = loc[d]
    BY <1>0, <1>10 DEF StartInput, i
  <2>5. Stage(d)'
    BY <1>0, <2>1, <2>2, <2>3 DEF Stage, LogFits, InputFits, i
  <2>6. Accounted(i)'
    BY <1>0, <1>1, <1>2, <2>1, <2>2, <2>3, <2>4, AccountedAfter DEF Settled
  <2> QED
    BY <1>2, <2>2, <2>3, <2>5, <2>6 DEF Proper, i, Settled
<1>11. CASE BeginTurn(d)
  <2>1. pc[d] = "started" /\ pc'[d] = "running" /\ UNCHANGED <<inbox, terminals, res>>
    BY <1>0, <1>11 DEF BeginTurn
  <2>2. Stage(d)'
    BY <1>0, <2>1 DEF Stage, LogFits, InputFits
  <2> QED
    BY <1>3, <2>1, <2>2 DEF Proper, i
<1>12. CASE BeginBusy(d)
  <2>1. pc[d] = "started" /\ pc'[d] = "finishing" /\ UNCHANGED <<inbox, terminals, res, loc>>
    BY <1>0, <1>12 DEF BeginBusy, durable
  <2>2. Stage(d)'
    BY <1>0, <2>1 DEF Stage, LogFits, InputFits
  <2> QED
    BY <1>3, <2>1, <2>2 DEF Proper, i
<1> QED
  BY <1>4, <1>5, <1>6, <1>7, <1>8, <1>9, <1>10, <1>11, <1>12 DEF EarlyStep

(***************************************************************************)
(* The late steps.                                                         *)
(***************************************************************************)
LEMMA LateProper ==
    ASSUME SnapshotInv, OrderlyParts, MsgsKept, NEW d \in Turns, LateStep(d)
    PROVE  Proper(d)
<1> DEFINE i == InputOf(d)
<1> USE DEF Goto, Engaged, BeforeEnd, Judged
<1>0. /\ TypeOK /\ ExecTypes /\ i \in Inputs
      /\ Stage(d) /\ Accounted(i)
      /\ pc \in [Turns -> Places] /\ loc \in [Turns -> Conversations]
      /\ res \in [Turns -> Outcomes]
  BY DriveFacts DEF SnapshotInv, PermitInv, RegistryInv, SafetyInv, ExecTypes, OrderlyParts
<1>1. scan' = scan
  BY <1>0, DriveFrame
<1>e. Engaged(d)
  BY DEF LateStep, Checkpoint, RunEnds, RecordStatus, EmitLifecycle, SettleInput, FinalSave,
     FinishTurn, ReturnPermit, Return
<1>n. InputOf(d) \notin Anonymous \/ KindOf(d) = "resumed"
  BY <1>0, <1>e DEF Stage
<1>2. /\ scan[i] \notin {"accepted", "queued"}
      /\ i \notin Anonymous => inbox[i] # "none"
      /\ i \in Anonymous => inbox[i] = "none"
      /\ inbox[i] \in {"completed", "failed"} => terminals[i] # <<>>
      /\ inbox[i] \in Settled /\ terminals[i] # <<>> => inbox[i] = NewestState(terminals[i])
      /\ Len(terminals[i]) <= 1
  <2>1. ~Untaken(i)
    BY <1>e DEF Untaken
  <2> QED
    BY <1>0, <2>1, NewestStates DEF Accounted
<1>3. ASSUME inbox'[i] = inbox[i], terminals'[i] = terminals[i] PROVE Accounted(i)'
  BY <1>0, <1>1, <1>2, <1>3, AccountedAfter
<1> HIDE DEF i
<1>4. CASE Checkpoint(d)
  <2>1. pc[d] = "running" /\ UNCHANGED <<pc, inbox, terminals, res, loc>>
    BY <1>4 DEF Checkpoint, drive
  <2>2. Stage(d)'
    BY <1>0, <2>1 DEF Stage, LogFits, InputFits
  <2> QED
    BY <1>3, <2>1, <2>2 DEF Proper, i
<1>5. ASSUME NEW r \in Outcomes \ {"none"}, RunEnds(d, r) PROVE Proper(d)
  <2>1. pc[d] = "running" /\ pc'[d] = "ended" /\ UNCHANGED inbox /\ res'[d] = r
    BY <1>0, <1>5 DEF RunEnds
  <2>2. terminals[i] = <<>> /\ (i \notin Anonymous => inbox[i] = "running")
    BY <1>0, <2>1 DEF Stage, LogFits, InputFits, i
  <2>3. terminals'[i] = IF r = "ok" THEN <<"finished">> ELSE <<>>
    <3>1. CASE r = "ok"
      <4>1. terminals' = [terminals EXCEPT ![i] = Logged(@, "finished")]
        BY <1>5, <3>1 DEF RunEnds, i
      <4> QED
        BY <1>0, <2>2, <3>1, <4>1, EventWritten, Written
    <3>2. CASE r # "ok"
      BY <1>5, <2>2, <3>2 DEF RunEnds
    <3> QED
      BY <3>1, <3>2
  <2>4. Stage(d)'
    BY <1>n, <2>1, <2>2, <2>3 DEF Stage, LogFits, InputFits, i
  <2>5. Accounted(i)'
    <3>1. inbox'[i] \notin Settled
      BY <1>2, <2>1, <2>2 DEF Settled
    <3>2. Len(terminals'[i]) <= 1
      BY <2>3, ShortLogs
    <3> QED
      BY <1>0, <1>1, <1>2, <2>1, <3>1, <3>2, AccountedAfter DEF Settled
  <2> QED
    BY <2>1, <2>4, <2>5 DEF Proper, i
<1>6. CASE RecordStatus(d)
  <2>1. /\ pc[d] = "ended" /\ pc'[d] = "judged" /\ UNCHANGED <<inbox, terminals, res>>
        /\ loc'[d] = Recorded(d)
    BY <1>0, <1>6 DEF RecordStatus, durable
  <2>2. Stage(d)'
    BY <1>0, <2>1, RecordedFacts DEF Stage, LogFits, InputFits
  <2> QED
    BY <1>3, <2>1, <2>2 DEF Proper, i
<1>7. CASE EmitLifecycle(d)
  <2>1. pc[d] = "judged" /\ pc'[d] = "recorded" /\ UNCHANGED <<inbox, loc, res>>
    BY <1>0, <1>7 DEF EmitLifecycle
  <2>2. /\ terminals[i] = IF res[d] = "ok" THEN <<"finished">> ELSE <<>>
        /\ res[d] = "ok" => loc[d].status = "done"
        /\ loc[d].status = "done" => res[d] \in {"ok", "canceled"}
        /\ i \notin Anonymous => inbox[i] = "running" \/ terminals[i] # <<>>
    BY <1>0, <2>1 DEF Stage, LogFits, InputFits, i
  <2>3. CASE loc[d].status = "failed"
    <3>1. LifecycleEvent(d) = "failed"
      BY <2>3 DEF LifecycleEvent
    <3>2. terminals' = [terminals EXCEPT ![i] = Logged(@, "failed")]
      BY <1>7, <3>1 DEF EmitLifecycle, i
    <3>3. terminals[i] = <<>> /\ terminals'[i] = <<"failed">>
      BY <1>0, <2>2, <2>3, <3>2, EventWritten, Written
    <3>4. Stage(d)'
      BY <1>n, <2>1, <2>2, <2>3, <3>3, ShortLogs DEF Stage, LogFits, InputFits, i
    <3>5. inbox[i] \notin Settled
      BY <1>2, <2>2, <3>3 DEF Settled
    <3>6. Accounted(i)'
      BY <1>0, <1>1, <1>2, <2>1, <3>3, <3>5, ShortLogs, AccountedAfter DEF Settled
    <3> QED
      BY <2>1, <3>4, <3>6 DEF Proper, i
  <2>4. CASE LifecycleEvent(d) = "cancelled"
    <3>1. loc[d].status = "done" /\ res[d] = "canceled"
      BY <2>4 DEF LifecycleEvent
    <3>2. terminals' = [terminals EXCEPT ![i] = Logged(@, "cancelled")]
      BY <1>7, <2>4 DEF EmitLifecycle, i
    <3>3. terminals[i] = <<>> /\ terminals'[i] = <<"cancelled">>
      BY <1>0, <2>2, <3>1, <3>2, EventWritten, Written
    <3>4. Stage(d)'
      BY <1>n, <2>1, <2>2, <3>1, <3>3, ShortLogs DEF Stage, LogFits, InputFits, i
    <3>5. inbox[i] \notin Settled
      BY <1>2, <2>2, <3>3 DEF Settled
    <3>6. Accounted(i)'
      BY <1>0, <1>1, <1>2, <2>1, <3>3, <3>5, ShortLogs, AccountedAfter DEF Settled
    <3> QED
      BY <2>1, <3>4, <3>6 DEF Proper, i
  <2>5. CASE LifecycleEvent(d) = "none" /\ loc[d].status # "failed"
    <3>1. terminals' = terminals
      BY <1>7, <2>5 DEF EmitLifecycle
    <3>2. Stage(d)'
      BY <1>n, <2>1, <2>2, <2>5, <3>1 DEF Stage, LogFits, InputFits, i
    <3> QED
      BY <1>3, <2>1, <3>1, <3>2 DEF Proper, i
  <2>6. LifecycleEvent(d) \in {"none", "failed", "cancelled"}
    BY DEF LifecycleEvent
  <2>7. LifecycleEvent(d) = "failed" => loc[d].status = "failed"
    BY DEF LifecycleEvent
  <2> QED
    BY <2>3, <2>4, <2>5, <2>6, <2>7
<1>8. CASE SettleInput(d)
  <2>1. pc[d] = "recorded" /\ pc'[d] = "settled" /\ UNCHANGED <<loc, terminals, res>>
    BY <1>0, <1>8 DEF SettleInput
  <2>2. inbox'[i] = IF i \in Anonymous THEN inbox[i] ELSE TerminalState(d)
    BY <1>0, <1>8, InputWritten, OutcomeWritten DEF SettleInput, i
  <2>3. Stage(d)'
    BY <1>n, <2>1 DEF Stage, LogFits, InputFits
  <2>4. CASE i \in Anonymous \/ TerminalState(d) = inbox[i]
    BY <1>3, <2>1, <2>2, <2>3, <2>4 DEF Proper, i
  <2>5. CASE i \notin Anonymous /\ TerminalState(d) # inbox[i]
    <3>1. /\ loc[d].status = "failed" => terminals[i] = <<"failed">>
          /\ res[d] = "ok" => terminals[i] = <<"finished">>
          /\ res[d] # "ok" /\ loc[d].status = "done" => terminals[i] \in {<<>>, <<"cancelled">>}
          /\ loc[d].status = "done" => res[d] \in {"ok", "canceled"}
          /\ inbox[i] = "running" \/ terminals[i] # <<>>
      BY <1>0, <2>1, <2>5 DEF Stage, LogFits, InputFits, i
    <3>2. \/ TerminalState(d) = "failed" /\ terminals[i] = <<"failed">>
          \/ TerminalState(d) = "cancelled" /\ terminals[i] \in {<<>>, <<"cancelled">>}
          \/ TerminalState(d) = "completed" /\ terminals[i] = <<"finished">>
      BY <2>5, <3>1 DEF TerminalState, i
    <3>3. terminals[i] # <<>> => TerminalState(d) = NewestState(terminals[i])
      BY <3>2, NewestStates, ShortLogs
    <3>4. inbox[i] \notin Settled
      BY <1>2, <2>5, <3>1, <3>3 DEF Settled
    <3>5. Accounted(i)'
      <4>1. inbox'[i] = TerminalState(d)
        BY <2>2, <2>5
      <4>2. TerminalState(d) \in Settled
        BY <3>2 DEF Settled
      <4>3. inbox'[i] \in {"completed", "failed"} => terminals'[i] # <<>>
        BY <2>1, <3>2, <4>1, ShortLogs
      <4> QED
        BY <1>0, <1>1, <1>2, <2>1, <2>5, <3>3, <4>1, <4>2, <4>3, AccountedAfter DEF Settled
    <3> QED
      BY <2>3, <3>4, <3>5 DEF Proper, i
  <2> QED
    BY <2>4, <2>5
<1>9. CASE FinalSave(d) \/ FinishTurn(d) \/ Return(d)
  <2>1. pc'[d] \in {"saved", "finishing", "idle"} /\ UNCHANGED <<inbox, terminals>>
    BY <1>0, <1>9 DEF FinalSave, FinishTurn, Return, durable
  <2>2. Stage(d)'
    BY <1>0, <1>9, <2>1 DEF Stage, LogFits, InputFits, FinalSave, FinishTurn, Return
  <2> QED
    BY <1>3, <2>1, <2>2 DEF Proper, i
<1>10. CASE ReturnPermit(d)
  <2>1. pc[d] = "finishing" /\ UNCHANGED <<pc, loc, res, inbox, terminals>>
    BY <1>10 DEF ReturnPermit, durable, drive
  <2>2. Stage(d)'
    BY <1>0, <2>1 DEF Stage, LogFits, InputFits
  <2> QED
    BY <1>3, <2>1, <2>2 DEF Proper, i
<1> QED
  BY <1>4, <1>5, <1>6, <1>7, <1>8, <1>9, <1>10 DEF LateStep

\* A settled input is left alone.
SettledKept == \A i \in Inputs : inbox[i] \in Settled => inbox'[i] = inbox[i]

(***************************************************************************)
(* Every step of a drive is proper, and the drives of one input do not     *)
(* dispute it.                                                             *)
(***************************************************************************)
LEMMA DriveOrderly ==
    ASSUME Events = {}, SnapshotInv, OrderlyParts, MsgsKept,
           NEW d \in Turns, EarlyStep(d) \/ LateStep(d)
    PROVE  OrderlyParts' /\ SettledKept
<1> DEFINE i == InputOf(d)
<1>0. /\ TypeOK /\ ExecTypes /\ i \in Inputs /\ Stage(d) /\ Accounted(i)
      /\ pc \in [Turns -> Places]
  BY DriveFacts DEF SnapshotInv, PermitInv, RegistryInv, SafetyInv, ExecTypes, OrderlyParts
<1>1. /\ \A e \in Turns : e # d => pc'[e] = pc[e] /\ loc'[e] = loc[e] /\ res'[e] = res[e]
      /\ \A j \in Inputs : j # i => inbox'[j] = inbox[j] /\ terminals'[j] = terminals[j]
      /\ scan' = scan
  BY <1>0, DriveFrame
<1>2. ASSUME Proper(d), \A e \in Turns : e # d /\ InputOf(e) = i => ~Engaged(e)
      PROVE  OrderlyParts' /\ SettledKept
  <2>1. OrderlyParts'
    BY <1>0, <1>1, <1>2, UndisputedStep DEF Proper
  <2>2. SettledKept
    BY <1>1, <1>2 DEF SettledKept, Proper
  <2> QED
    BY <2>1, <2>2
<1>3. CASE Engaged(d)
  <2>1. Proper(d)
    BY <1>3, EarlyProper, LateProper
  <2>2. \A e \in Turns : e # d /\ InputOf(e) = i => ~Engaged(e)
    BY <1>3 DEF OrderlyParts, OneDriver
  <2> QED
    BY <1>2, <2>1, <2>2
<1>4. CASE ~Engaged(d)
  <2>1. Admit(d) /\ pc[d] = "loaded" /\ KindOf(d) \in {"live", "retried"}
    <3>1. pc[d] = "idle" \/ (pc[d] = "loaded" /\ KindOf(d) \in {"live", "retried"})
      BY <1>4, DriveFacts DEF Engaged, Kinds
    <3>2. Admit(d)
      BY <3>1 DEF EarlyStep, LateStep, GuardRefuses, AcquirePermit, AcquireCanceled, Abort,
         TakePermit, StartInput, BeginTurn, BeginBusy, Checkpoint, RunEnds, RecordStatus,
         EmitLifecycle, SettleInput, FinalSave, FinishTurn, ReturnPermit, Return
    <3> QED
      BY <3>1, <3>2 DEF Admit
  <2>2. i \notin Anonymous
    BY <1>0, <2>1 DEF Stage
  <2>3. CASE Unknown(i)
    <3>1. pc'[d] = "claimed" /\ UNCHANGED <<loc, terminals, res>>
      BY <1>0, <2>1, <2>3 DEF Admit, ClaimRequest, Goto
    <3>2. inbox'[i] = "accepted"
      BY <1>0, <2>1, <2>2, <2>3, InputWritten, Written DEF Admit, ClaimRequest
    <3>3. inbox[i] = "none" /\ terminals[i] = <<>> /\ Untaken(i)
      BY <1>0, <2>2, <2>3 DEF Unknown, Accounted
    <3>4. Stage(d)'
      BY <2>2, <3>1, <3>2, <3>3 DEF Stage, LogFits, InputFits, BeforeEnd, Judged, Settled
    <3>5. scan[i] \notin {"accepted", "queued"} /\ Len(terminals'[i]) <= 1
      BY <1>0, <3>1, <3>3 DEF Accounted
    <3>6. Accounted(i)'
      BY <1>0, <1>1, <2>2, <3>1, <3>2, <3>3, <3>5, AccountedAfter DEF Settled
    <3>7. Proper(d)
      BY <3>3, <3>4, <3>6 DEF Proper, Settled
    <3> QED
      BY <1>2, <3>3, <3>7 DEF Untaken
  <2>4. CASE ~Unknown(i)
    <3>1. pc'[d] = "idle" /\ UNCHANGED <<inbox, terminals>>
      BY <1>0, <2>1, <2>4 DEF Admit, ClaimRequest, Goto
    <3>2. OrderlyParts'
      BY <1>1, <2>2, <3>1, UnentitledStep DEF Engaged
    <3> QED
      BY <3>1, <3>2 DEF SettledKept
  <2> QED
    BY <2>3, <2>4
<1> QED
  BY <1>3, <1>4

(***************************************************************************)
(* Clients, users and the host: a recovery or a Resume takes an input that *)
(* nobody is entitled to.                                                  *)
(***************************************************************************)
LEMMA OutsideOrderly ==
    ASSUME Events = {}, SnapshotInv, OrderlyParts, MsgsKept, OutsideStep
    PROVE  OrderlyParts' /\ SettledKept
<1> USE DEF durable, registry, drive, client, Goto
<1>0. /\ ExecTypes /\ pc \in [Turns -> Places] /\ inbox \in [Inputs -> InputStates]
      /\ scan \in [Inputs -> InputStates] /\ loc \in [Turns -> Conversations]
  BY DEF SnapshotInv, PermitInv, RegistryInv, ExecTypes
<1>1. ASSUME UNCHANGED <<pc, loc, res, inbox, terminals, scan>>
      PROVE  OrderlyParts' /\ SettledKept
  BY <1>1, UntouchedStep DEF SettledKept
<1>q. ASSUME NEW s \in Sessions, Quiet(s), NEW j \in Inputs, InputSession[j] = s PROVE Untaken(j)
  BY <1>q, DriveFacts DEF Quiet, Untaken, Engaged
<1>2. ASSUME NEW i \in Inputs, NEW kind \in {"live", "retried"}, Submit(i, kind)
      PROVE  OrderlyParts' /\ SettledKept
  <2> DEFINE d == <<i, kind>>
  <2>1. d \in Turns /\ InputOf(d) = i /\ KindOf(d) = kind
    BY DriveFacts DEF Kinds
  <2>2. /\ i \notin Anonymous /\ pc' = [pc EXCEPT ![d] = "loaded"]
        /\ loc' = [loc EXCEPT ![d] = store[Of(d)]]
        /\ UNCHANGED <<inbox, terminals, res, scan>>
    BY <1>2 DEF Submit
  <2> HIDE DEF d
  <2>3. pc'[d] = "loaded" /\ ~Engaged(d)'
    BY <1>0, <2>1, <2>2 DEF Engaged
  <2>4. \A e \in Turns : e # d => pc'[e] = pc[e] /\ loc'[e] = loc[e] /\ res'[e] = res[e]
    BY <1>0, <2>1, <2>2
  <2>5. OrderlyParts'
    BY <2>1, <2>2, <2>3, <2>4, UnentitledStep
  <2> QED
    BY <2>2, <2>5 DEF SettledKept
<1>3. ASSUME NEW i \in Inputs, Recover(i) PROVE OrderlyParts' /\ SettledKept
  <2> DEFINE d == <<i, "recovered">>
             s == InputSession[i]
  <2>1. d \in Turns /\ InputOf(d) = i /\ KindOf(d) = "recovered"
    BY DriveFacts DEF Kinds
  <2>2. /\ scan[i] # "none" /\ scan' = [scan EXCEPT ![i] = "none"]
        /\ UNCHANGED <<terminals, res>>
    BY <1>3 DEF Recover
  <2>3. scan'[i] = "none" /\ \A j \in Inputs : j # i => scan'[j] = scan[j]
    BY <1>0, <2>2
  <2>4. Accounted(i) /\ i \notin Anonymous /\ s \in Sessions
    BY <2>2, ExecutionAssumption DEF OrderlyParts, Accounted
  <2>5. HasOriginTurn(store[s], i) => HasOriginTurn(store'[s], i)
    BY <2>4 DEF MsgsKept, HasOriginTurn
  <2>6. \/ UNCHANGED <<inbox, pc, loc>>
        \/ /\ terminals[i] # <<>> /\ inbox' = [inbox EXCEPT ![i] = DurableTerminal(i)]
           /\ UNCHANGED <<pc, loc>>
        \/ /\ pc[d] = "idle" /\ terminals[i] = <<>>
           /\ ~(scan[i] = "running" /\ HasOriginTurn(store[s], i))
           /\ inbox' = IF scan[i] = "running" THEN [inbox EXCEPT ![i] = "accepted"] ELSE inbox
           /\ pc' = [pc EXCEPT ![d] = "loaded"]
           /\ loc' = [loc EXCEPT ![d] = store[s]]
    BY <1>3 DEF Recover
  <2> HIDE DEF d, s
  <2>7. CASE UNCHANGED <<inbox, pc, loc>>
    <3>1. ASSUME NEW e \in Turns PROVE Stage(e)' /\ (Engaged(e)' <=> Engaged(e))
      BY <2>2, <2>7, StageKept DEF OrderlyParts
    <3>2. OneDriver'
      BY <3>1 DEF OrderlyParts, OneDriver
    <3>3. \A j \in Inputs : Untaken(j) => Untaken(j)'
      BY <3>1 DEF Untaken
    <3>4. ASSUME NEW j \in Inputs, j # i PROVE Accounted(j)'
      BY <2>2, <2>3, <2>7, <3>3, <3>4, AccountedKept DEF OrderlyParts
    <3>5. Accounted(i)'
      <4>1. DurableTerminal(i)' = DurableTerminal(i)
        BY <2>2 DEF DurableTerminal
      <4> QED
        BY <2>2, <2>3, <2>4, <2>5, <2>7, <3>3, <4>1 DEF Accounted, s
    <3> QED
      BY <2>7, <3>1, <3>2, <3>4, <3>5 DEF OrderlyParts, SettledKept
  <2>8. CASE /\ terminals[i] # <<>> /\ inbox' = [inbox EXCEPT ![i] = DurableTerminal(i)]
             /\ UNCHANGED <<pc, loc>>
    <3>1. DurableTerminal(i) \in Settled /\ DurableTerminal(i)' = DurableTerminal(i)
      BY <1>0, <2>2, <2>8, DurableTerminalFacts DEF DurableTerminal
    <3>2. inbox'[i] = DurableTerminal(i) /\ \A j \in Inputs : j # i => inbox'[j] = inbox[j]
      BY <1>0, <2>8
    <3>3. \A e \in Turns : Engaged(e)' <=> Engaged(e)
      BY <2>8 DEF Engaged
    <3>4. ASSUME NEW e \in Turns PROVE Stage(e)'
      <4>1. CASE InputOf(e) # i \/ ~Engaged(e)
        BY <2>2, <2>8, <3>2, <4>1, StageKept, DriveFacts DEF OrderlyParts
      <4>2. CASE InputOf(e) = i /\ Engaged(e)
        <5>1. Stage(e) /\ pc[e] \notin BeforeEnd
          BY <2>8, <4>2 DEF OrderlyParts, Stage, LogFits
        <5> QED
          BY <2>2, <2>4, <2>8, <3>3, <4>2, <5>1 DEF Stage, LogFits, InputFits, BeforeEnd
      <4> QED
        BY <4>1, <4>2
    <3>5. OneDriver'
      BY <3>3 DEF OrderlyParts, OneDriver
    <3>6. ASSUME NEW j \in Inputs, j # i PROVE Accounted(j)'
      BY <2>2, <2>3, <3>2, <3>3, <3>6, AccountedKept DEF OrderlyParts, Untaken
    <3>7. Accounted(i)'
      <4>1. inbox'[i] \in Settled /\ inbox'[i] = DurableTerminal(i)' /\ inbox'[i] \notin {"none", "running"}
        BY <3>1, <3>2 DEF Settled
      <4> QED
        BY <2>2, <2>3, <2>4, <2>8, <4>1 DEF Accounted
    <3>8. inbox[i] \in Settled => inbox'[i] = inbox[i]
      BY <2>4, <2>8, <3>2 DEF Accounted
    <3> QED
      BY <3>2, <3>4, <3>5, <3>6, <3>7, <3>8 DEF OrderlyParts, SettledKept
  <2>9. CASE /\ pc[d] = "idle" /\ terminals[i] = <<>>
             /\ ~(scan[i] = "running" /\ HasOriginTurn(store[s], i))
             /\ inbox' = IF scan[i] = "running" THEN [inbox EXCEPT ![i] = "accepted"] ELSE inbox
             /\ pc' = [pc EXCEPT ![d] = "loaded"]
             /\ loc' = [loc EXCEPT ![d] = store[s]]
    <3>1. scan[i] # "running" /\ scan[i] \in {"accepted", "queued"}
      BY <2>2, <2>4, <2>9 DEF Accounted, s
    <3>2. inbox' = inbox /\ inbox[i] \in {"accepted", "queued"} /\ Untaken(i)
      BY <2>4, <2>9, <3>1 DEF Accounted
    <3>3. pc'[d] = "loaded" /\ \A e \in Turns : e # d => pc'[e] = pc[e] /\ loc'[e] = loc[e]
      BY <1>0, <2>1, <2>9
    <3>4. Stage(d)'
      BY <2>1, <2>2, <2>4, <2>9, <3>2, <3>3
      DEF Stage, LogFits, InputFits, BeforeEnd, Judged, Settled
    <3>5. Accounted(i)'
      <4>1. Len(terminals'[i]) <= 1
        BY <2>2, <2>4 DEF Accounted
      <4> QED
        BY <2>2, <2>3, <2>4, <2>9, <3>2, <4>1 DEF Accounted, Settled
    <3>6. OrderlyParts'
      BY <2>1, <2>2, <2>3, <3>2, <3>3, <3>4, <3>5, UndisputedStep DEF Untaken
    <3> QED
      BY <3>2, <3>6 DEF SettledKept
  <2> QED
    BY <2>6, <2>7, <2>8, <2>9
<1>4. ASSUME NEW i \in Inputs, Resume(i) PROVE OrderlyParts' /\ SettledKept
  <2> DEFINE d == <<i, "resumed">>
             s == InputSession[i]
  <2>1. d \in Turns /\ InputOf(d) = i /\ KindOf(d) = "resumed" /\ s \in Sessions
    BY DriveFacts, ExecutionAssumption DEF Kinds
  <2>2. /\ Quiet(s) /\ Reconciled(s)
        /\ pc' = [pc EXCEPT ![d] = "loaded"]
        /\ loc' = [loc EXCEPT ![d] = store[s]]
        /\ UNCHANGED <<inbox, terminals, res, scan>>
    BY <1>4 DEF Resume
  <2>3. \/ inbox[i] = "running"
        \/ i \in Anonymous /\ terminals[i] = <<>>
    BY <1>4 DEF Resume, Interrupted
  <2> HIDE DEF d
  <2>4. Untaken(i) /\ Accounted(i)
    BY <1>q, <2>1, <2>2 DEF OrderlyParts
  <2>5. terminals[i] = <<>>
    BY <2>2, <2>3 DEF Reconciled, Settled
  <2>6. pc'[d] = "loaded" /\ \A e \in Turns : e # d => pc'[e] = pc[e] /\ loc'[e] = loc[e]
    BY <1>0, <2>1, <2>2
  <2>7. i \notin Anonymous => inbox[i] = "running"
    BY <2>3
  <2>8. Stage(d)'
    BY <2>1, <2>2, <2>5, <2>6, <2>7 DEF Stage, LogFits, InputFits, BeforeEnd, Judged, Settled
  <2>9. Accounted(i)'
    <3>1. scan[i] \notin {"accepted", "queued"}
      BY <2>3, <2>4 DEF Accounted
    <3>2. i \notin Anonymous => inbox'[i] # "none"
      BY <2>2, <2>7
    <3>3. Len(terminals'[i]) <= 1 /\ inbox' = inbox /\ terminals'[i] = <<>>
      BY <2>2, <2>4, <2>5 DEF Accounted
    <3>4. inbox'[i] \in {"completed", "failed"} => terminals'[i] # <<>>
      BY <2>4, <2>5, <3>3 DEF Accounted
    <3> QED
      BY <2>2, <2>4, <3>1, <3>2, <3>3, <3>4, AccountedAfter
  <2>10. OrderlyParts'
    BY <2>1, <2>2, <2>4, <2>6, <2>8, <2>9, UndisputedStep DEF Untaken
  <2> QED
    BY <2>2, <2>10 DEF SettledKept
<1>5. ASSUME NEW s \in Sessions, RecoverScan(s) PROVE OrderlyParts' /\ SettledKept
  <2>1. /\ Quiet(s)
        /\ scan' = [i \in Inputs |-> IF i \in Recoverable(s) THEN inbox[i] ELSE scan[i]]
        /\ UNCHANGED <<pc, loc, res, inbox, terminals>>
    BY <1>5 DEF RecoverScan
  <2>2. ASSUME NEW e \in Turns PROVE Stage(e)' /\ (Engaged(e)' <=> Engaged(e))
    BY <2>1, StageKept DEF OrderlyParts
  <2>3. OneDriver'
    BY <2>2 DEF OrderlyParts, OneDriver
  <2>4. \A j \in Inputs : Untaken(j) => Untaken(j)'
    BY <2>2 DEF Untaken
  <2>5. ASSUME NEW j \in Inputs, j \notin Recoverable(s) PROVE Accounted(j)'
    BY <2>1, <2>4, <2>5, AccountedKept DEF OrderlyParts
  <2>6. ASSUME NEW j \in Inputs, j \in Recoverable(s) PROVE Accounted(j)'
    <3>1. /\ InputSession[j] = s /\ inbox[j] \in {"accepted", "queued", "running"}
          /\ scan'[j] = inbox[j] /\ Accounted(j)
      BY <2>1, <2>6 DEF Recoverable, OrderlyParts
    <3>2. Untaken(j)'
      BY <1>q, <2>1, <2>4, <3>1
    <3>3. HasOriginTurn(store[s], j) => HasOriginTurn(store'[s], j)
      BY DEF MsgsKept, HasOriginTurn
    <3>4. DurableTerminal(j)' = DurableTerminal(j)
      BY <2>1 DEF DurableTerminal
    <3> QED
      BY <2>1, <3>1, <3>2, <3>3, <3>4 DEF Accounted
  <2> QED
    BY <2>1, <2>2, <2>3, <2>5, <2>6 DEF OrderlyParts, SettledKept
<1>6. ASSUME NEW s \in Sessions, CancelStep(s) PROVE OrderlyParts' /\ SettledKept
  BY <1>1, <1>6 DEF CancelStep, CancelQueued, CancelFindsNoQueued, CancelActive, CancelRelease
<1>7. ASSUME SuspendAll \/ UNCHANGED execVars PROVE OrderlyParts' /\ SettledKept
  BY <1>1, <1>7 DEF SuspendAll, execVars
<1> QED
  BY <1>2, <1>3, <1>4, <1>5, <1>6, <1>7 DEF OutsideStep

(***************************************************************************)
(* A process that starts again has no drives and has listed nothing.       *)
(***************************************************************************)
LEMMA RestartOrderly ==
    ASSUME OrderlyParts, MsgsKept, Restart
    PROVE  OrderlyParts' /\ SettledKept
<1>1. /\ \A e \in Turns : pc'[e] = "idle"
      /\ \A i \in Inputs : scan'[i] = "none"
      /\ UNCHANGED <<inbox, terminals>>
  BY DEF Restart
<1>2. \A e \in Turns : ~Engaged(e)' /\ Stage(e)'
  BY <1>1 DEF Engaged, Stage, LogFits, InputFits, Judged
<1>3. OneDriver'
  BY <1>2 DEF OneDriver
<1>4. ASSUME NEW j \in Inputs PROVE Accounted(j)'
  <2>1. Untaken(j)'
    BY <1>2 DEF Untaken
  <2>2. InputSession[j] \in Sessions
    BY ExecutionAssumption
  <2>3. HasOriginTurn(store[InputSession[j]], j) => HasOriginTurn(store'[InputSession[j]], j)
    BY <2>2 DEF MsgsKept, HasOriginTurn
  <2>4. DurableTerminal(j)' = DurableTerminal(j)
    BY <1>1 DEF DurableTerminal
  <2> QED
    BY <1>1, <2>1, <2>3, <2>4 DEF OrderlyParts, Accounted
<1> QED
  BY <1>1, <1>2, <1>3, <1>4 DEF OrderlyParts, SettledKept

(***************************************************************************)
(* Every step keeps the order.                                             *)
(***************************************************************************)
LEMMA OrderlyInvStep ==
    ASSUME Events = {}, OrderlyInv, [ExecNext]_execVars
    PROVE  OrderlyInv' /\ SettledKept
<1>1. SnapshotInv /\ OrderlyParts
  BY DEF OrderlyInv
<1>2. SnapshotInv' /\ MsgsKept
  BY <1>1, SnapshotInvStep
<1>3. OrderlyParts' /\ SettledKept
  BY <1>1, <1>2, DriveOrderly, OutsideOrderly, RestartOrderly, ExecStepActors
<1> QED
  BY <1>2, <1>3 DEF OrderlyInv

(***************************************************************************)
(* The inductive invariant of an orderly deployment.                       *)
(***************************************************************************)
LEMMA OrderlyInvariant ==
    ASSUME Events = {}
    PROVE  ExecSpec => []OrderlyInv
<1>1. ExecInit => OrderlyInv
  <2> SUFFICES ASSUME ExecInit PROVE OrderlyInv
    OBVIOUS
  <2>1. /\ \A e \in Turns : pc[e] = "idle"
        /\ \A i \in Inputs : scan[i] = "none" /\ inbox[i] = "none" /\ terminals[i] = <<>>
    BY DEF ExecInit
  <2>2. \A e \in Turns : ~Engaged(e) /\ Stage(e)
    BY <2>1 DEF Engaged, Stage, LogFits, InputFits, Judged
  <2>3. OneDriver
    BY <2>2 DEF OneDriver
  <2>4. \A i \in Inputs : Accounted(i)
    BY <2>1, <2>2 DEF Accounted, Untaken, Settled
  <2> QED
    BY <2>2, <2>3, <2>4, SnapshotInvInit DEF OrderlyInv, OrderlyParts
<1>2. OrderlyInv /\ [ExecNext]_execVars => OrderlyInv'
  BY OrderlyInvStep
<1> QED
  BY <1>1, <1>2, PTL DEF ExecSpec

(***************************************************************************)
(* "Reconnecting clients see one complete lifecycle": however often the    *)
(* process dies, turns are suspended, resumed, recovered, retried or       *)
(* cancelled while they queue, the log never shows two ends of a turn.     *)
(***************************************************************************)
THEOREM OneEndPerTurn ==
    ASSUME Events = {}
    PROVE  ExecSpec => []OneTerminalEvent
<1>1. OrderlyInv => OneTerminalEvent
  BY DEF OrderlyInv, OrderlyParts, Accounted, OneTerminalEvent
<1> QED
  BY <1>1, OrderlyInvariant, PTL

(***************************************************************************)
(* "Terminal events win": the state is well formed, and an input that is   *)
(* settled as completed or failed has the terminal event that says so; the *)
(* state and the newest terminal event never disagree.                     *)
(***************************************************************************)
THEOREM InboxAgreesWithLog ==
    ASSUME Events = {}
    PROVE  ExecSpec => []ExecInv
<1>1. OrderlyInv => ExecInv
  <2> SUFFICES ASSUME OrderlyInv PROVE ExecInv
    OBVIOUS
  <2>1. ExecTypeOK
    BY DEF OrderlyInv, SnapshotInv, PermitInv, RegistryInv, SafetyInv, ExecTypes, ExecTypeOK
  <2>2. SettledAsLogged
    BY DEF OrderlyInv, OrderlyParts, Accounted, SettledAsLogged
  <2> QED
    BY <2>1, <2>2 DEF ExecInv
<1> QED
  BY <1>1, OrderlyInvariant, PTL

(***************************************************************************)
(* A settled input is never executed or settled again.                     *)
(***************************************************************************)
THEOREM SettledStaysSettled ==
    ASSUME Events = {}
    PROVE  ExecSpec => SettledForever
<1>1. OrderlyInv /\ [ExecNext]_execVars =>
         [\A i \in Inputs : inbox[i] \in Settled => inbox'[i] = inbox[i]]_execVars
  BY OrderlyInvStep DEF SettledKept
<1> QED
  BY <1>1, OrderlyInvariant, PTL DEF ExecSpec, SettledForever

-----------------------------------------------------------------------------
(* The scheduler as the executor uses it.                                  *)

(***************************************************************************)
(* A restart empties the scheduler's queues and frees its permits.         *)
(***************************************************************************)
LEMMA MappedCrash ==
    ASSUME Restart
    PROVE  Promise!Crash
<1>1. /\ pending' = <<>> /\ 1..Len(<<>>) = {}
      /\ active' = [s \in Sessions |-> NoTurn] /\ shutdown' = shutdown
  BY DEF Restart
<1>2. QueuedIn(pending') = {}
  BY <1>1 DEF QueuedIn
<1>3. \A t \in Turns : AheadIn(pending', t) = {}
  BY <1>1 DEF AheadIn, Positions
<1> QED
  BY <1>1, <1>2, <1>3 DEF Promise!Crash

(***************************************************************************)
(* Seen through the executor, whatever users, hosts and crashes do, the    *)
(* scheduler keeps its promise: a queue for every conversation, served in  *)
(* order, at most one owner of each, no more owners than permits and no    *)
(* permit idle; a crash empties it and does nothing else.                  *)
(***************************************************************************)
THEOREM ExecutorAdmitsAsPromised == ExecSpec => AdmitsAsPromised
<1>1. ExecInit => Promise!Init
  BY MappedInit DEF ExecInit
<1>2. RegistryInv /\ RegistryInv' /\ [ExecNext]_execVars =>
         [Promise!Next \/ Promise!Crash]_(Promise!vars)
  <2> SUFFICES ASSUME RegistryInv, RegistryInv', [ExecNext]_execVars
               PROVE  Promise!Next \/ Promise!Crash \/ UNCHANGED Promise!vars
    OBVIOUS
  <2>1. SafetyInv /\ SafetyInv'
    BY DEF RegistryInv
  <2>2. CASE Restart
    BY <2>2, MappedCrash
  <2>3. CASE [Next]_vars
    BY <2>1, <2>3, MappedStep
  <2> QED
    BY <2>2, <2>3, SchedulerSteps
<1> QED
  BY <1>1, <1>2, RegistryInvariant, PTL
     DEF ExecSpec, AdmitsAsPromised, Promise!SpecWithCrashes
=============================================================================
