--------------------------- MODULE TurnExecution ---------------------------
(***************************************************************************)
(* The life of a durable turn: TurnExecutor.driveTurn and everything that  *)
(* races with it (internal/conversation/executor.go, activeturn.go and the *)
(* turn inbox of internal/session/sqlite).                                 *)
(*                                                                         *)
(* A client submits an input.  A goroutine, here a drive, loads the        *)
(* conversation, records the input in the durable inbox, waits for its     *)
(* permit in TurnScheduler, starts the input, claims the conversation in   *)
(* the ActiveTurnRegistry, runs the agent loop and writes the outcome to   *)
(* three durable places: the event log, the inbox and the conversation.    *)
(* Meanwhile users cancel, the host suspends, the process dies and comes   *)
(* back, and clients reconnect, which starts recovery.                     *)
(*                                                                         *)
(* A drive is a pair of an input and the entry point that drives it:       *)
(* Execute ("live", and "retried" when the client sends the same request   *)
(* again), executeRecoveredTurn ("recovered") or Resume ("resumed").  Two  *)
(* drives of one input are two goroutines.                                 *)
(***************************************************************************)
EXTENDS TurnScheduler

CONSTANTS
    Inputs,             \* turns; a submission has its request id and turn id
    Anonymous,          \* the inputs that stand for the turn, without request
                        \* id, of a Resume that finds nothing to continue
    Retried,            \* the inputs whose client sends the request again
    InputSession,       \* the conversation of every input
    MaxResumeAttempts,  \* maxResumeAttempts
    MaxRestarts,        \* bound: how often the process dies
    Events              \* which of Occurrences may happen

(***************************************************************************)
(* What a deployment may or may not be exposed to:                         *)
(*   cancelRunning  users cancel when nothing of theirs is queued;         *)
(*   reconnectLive  clients (re)connect while turns are in flight;         *)
(*   staleSave      turns write the conversation before they queue: the    *)
(*                  model was changed, or the execution guard refused;     *)
(*   eagerResume    the host resumes before a client has reconnected;      *)
(*   resumeLive     the host resumes while a turn is in flight.            *)
(***************************************************************************)
Occurrences ==
    {"cancelRunning", "reconnectLive", "staleSave", "eagerResume", "resumeLive"}

Kinds == {"live", "retried", "recovered", "resumed"}

ASSUME ExecutionAssumption ==
    /\ Turns = Inputs \X Kinds
    /\ InputSession \in [Inputs -> Sessions]
    /\ \A d \in Turns : SessionOf[d] = InputSession[d[1]]
    /\ MaxResumeAttempts \in Nat
    /\ MaxRestarts \in Nat
    /\ Events \subseteq Occurrences
    /\ Anonymous \subseteq Inputs
    /\ Retried \subseteq Inputs

VARIABLES
    \* durable state
    inbox,       \* turn_inputs.state of every input
    terminals,   \* the newest two terminal events of every input's turn
    startedLog,  \* a turn_started event of the input's turn is in the log
    store,       \* the saved conversation: messages, turn_status, attempts
    restarts,    \* how often the process died
    \* state of the process
    reg,         \* ActiveTurnRegistry: the drive that owns the conversation
    suspended,   \* ... and whether SuspendAll cancelled it
    turnCtx,     \* the registered drive's turn context is cancelled
    pc,          \* where the drive is
    loc,         \* the drive's in-memory conversation
    res,         \* what its run returned
    scan,        \* inputs listed by a recovery and not yet treated, with the
                 \* state they were listed in
    canceller    \* where a call of Cancel is, per conversation

durable == <<inbox, terminals, startedLog, store, restarts>>
registry == <<reg, suspended, turnCtx>>
drive == <<pc, loc, res>>
client == <<scan, canceller>>
execVars == <<vars, durable, registry, drive, client>>

InputStates == {"none", "accepted", "queued", "running",
                "completed", "failed", "cancelled"}
Settled == {"completed", "failed", "cancelled"}
TerminalEvents == {"finished", "failed", "cancelled"}
Statuses == {"none", "running", "resuming", "paused", "done", "failed"}
\* A conversation: which inputs' user message and answer it contains, its
\* turn_status and its count of failed resumes.
Conversations == [msgs : SUBSET (Inputs \X {"user", "answer"}),
                  status : Statuses,
                  attempts : 0..(MaxResumeAttempts + 1)]
Outcomes == {"none", "ok", "canceled", "retryable", "error"}
Places == {"idle", "loaded", "claimed", "acquiring", "aborting", "reloaded",
           "started", "running", "ended", "judged", "recorded", "settled",
           "saved", "finishing"}
\* The drive is between BeginTurn and FinishTurn.
Executing == {"running", "ended", "judged", "recorded", "settled", "saved"}

(***************************************************************************)
(* Type correctness of the executor's durable and volatile state.          *)
(***************************************************************************)
ExecTypeOK ==
    /\ TypeOK
    /\ inbox \in [Inputs -> InputStates]
    /\ terminals \in [Inputs -> Seq(TerminalEvents)]
    /\ startedLog \in [Inputs -> BOOLEAN]
    /\ store \in [Sessions -> Conversations]
    /\ restarts \in 0..MaxRestarts
    /\ reg \in [Sessions -> Turns \cup {NoTurn}]
    /\ suspended \in [Sessions -> BOOLEAN]
    /\ turnCtx \in [Turns -> BOOLEAN]
    /\ pc \in [Turns -> Places]
    /\ loc \in [Turns -> Conversations]
    /\ res \in [Turns -> Outcomes]
    /\ scan \in [Inputs -> InputStates]
    /\ canceller \in [Sessions -> {"none", "active", "release"}]

-----------------------------------------------------------------------------
EmptyConversation == [msgs |-> {}, status |-> "none", attempts |-> 0]

ExecInit ==
    /\ Init
    /\ reg = [s \in Sessions |-> NoTurn]
    /\ suspended = [s \in Sessions |-> FALSE]
    /\ turnCtx = [d \in Turns |-> FALSE]
    /\ pc = [d \in Turns |-> "idle"]
    /\ loc = [d \in Turns |-> EmptyConversation]
    /\ res = [d \in Turns |-> "none"]
    /\ scan = [i \in Inputs |-> "none"]
    /\ canceller = [s \in Sessions |-> "none"]
    /\ inbox = [i \in Inputs |-> "none"]
    /\ terminals = [i \in Inputs |-> <<>>]
    /\ startedLog = [i \in Inputs |-> FALSE]
    /\ store = [s \in Sessions |-> EmptyConversation]
    /\ restarts = 0

InputOf(d) == d[1]
KindOf(d) == d[2]
Of(d) == SessionOf[d]
Quiet(s) == \A d \in Turns : Of(d) = s => pc[d] = "idle"

Goto(d, place) == pc' = [pc EXCEPT ![d] = place]

\* setTurnInputState: a turn without request id has no row in the inbox.
SetTurnInputState(i, state) ==
    inbox' = IF i \in Anonymous THEN inbox ELSE [inbox EXCEPT ![i] = state]

\* sessionHasOriginTurn
HasOriginTurn(c, i) == <<i, "user">> \in c.msgs

\* The event log is append-only; the model keeps the last two terminal events
\* of a turn, which is enough to tell none, one and several apart.
Logged(log, event) ==
    IF Len(log) < 2 THEN Append(log, event) ELSE <<log[2], event>>

\* durableTurnTerminal: the newest terminal event of the turn, as the state it
\* gives the input.
DurableTerminal(i) ==
    LET last == terminals[i][Len(terminals[i])]
    IN  IF last = "finished" THEN "completed" ELSE last

-----------------------------------------------------------------------------
(* driveTurn.                                                              *)

\* Execute: the conversation is loaded for a submission.
Submit(i, kind) ==
    LET d == <<i, kind>>
    IN  /\ i \notin Anonymous
        /\ kind = "retried" =>
              i \in Retried /\ (pc[<<i, "live">>] # "idle" \/ ~(inbox[i] = "none"))
        /\ kind = "live" => inbox[i] = "none"
        /\ pc[d] = "idle"
        /\ Goto(d, "loaded")
        /\ loc' = [loc EXCEPT ![d] = store[Of(d)]]
        /\ UNCHANGED <<vars, durable, registry, res, client>>

\* ReserveTurnInput finds no row of the request.
Unknown(i) == inbox[i] = "none"

\* claimRequest: the input and its turn_accepted event are recorded in one
\* transaction, unless the request is known: then driveTurn returns.
ClaimRequest(d) ==
    IF Unknown(InputOf(d))
    THEN /\ Goto(d, "claimed")
         /\ SetTurnInputState(InputOf(d), "accepted")
         /\ UNCHANGED loc
    ELSE /\ Goto(d, "idle")
         /\ loc' = [loc EXCEPT ![d] = EmptyConversation]
         /\ UNCHANGED inbox

\* The model is resolved and, when that changed the conversation's model
\* metadata, the loaded snapshot is saved; then the request is claimed.  A
\* recovered or resumed input already is.
Admit(d) ==
    /\ pc[d] = "loaded"
    /\ \E save \in IF "staleSave" \in Events THEN BOOLEAN ELSE {FALSE} :
         store' = IF save THEN [store EXCEPT ![Of(d)] = loc[d]] ELSE store
    /\ IF KindOf(d) \in {"live", "retried"}
       THEN ClaimRequest(d)
       ELSE Goto(d, "claimed") /\ UNCHANGED <<inbox, loc>>
    /\ UNCHANGED <<vars, terminals, startedLog, restarts, registry, res, client>>

\* The execution guard refuses: the input is marked failed, and the event and
\* the conversation follow in Abort.
GuardRefuses(d) ==
    /\ "staleSave" \in Events
    /\ pc[d] = "claimed"
    /\ Goto(d, "aborting")
    /\ SetTurnInputState(InputOf(d), "failed")
    /\ loc' = [loc EXCEPT ![d].status = "failed"]
    /\ UNCHANGED <<vars, terminals, startedLog, store, restarts, registry, res,
                   client>>

\* Acquire; the callback of a turn that has to queue marks the input queued.
AcquirePermit(d) ==
    /\ pc[d] = "claimed"
    /\ Goto(d, "acquiring")
    /\ Acquire(d)
    /\ IF granted'[d] THEN UNCHANGED inbox
                      ELSE SetTurnInputState(InputOf(d), "queued")
    /\ UNCHANGED <<terminals, startedLog, store, restarts, registry, loc, res,
                   client>>

\* Acquire returned context.Canceled: the input is marked cancelled, and the
\* turn_cancelled event follows in Abort.
AcquireCanceled(d) ==
    /\ pc[d] = "acquiring"
    /\ TakeReady(d)
    /\ caller'[d] = "failed"
    /\ Goto(d, "aborting")
    /\ SetTurnInputState(InputOf(d), "cancelled")
    /\ UNCHANGED <<terminals, startedLog, store, restarts, registry, loc, res,
                   client>>

\* The terminal event of a turn that never ran; a refused guard also saves
\* the snapshot loaded at the start.
Abort(d) ==
    /\ pc[d] = "aborting"
    /\ Goto(d, "idle")
    /\ terminals' = [terminals EXCEPT ![InputOf(d)] =
                       Logged(@, IF caller[d] = "failed" THEN "cancelled"
                                                         ELSE "failed")]
    /\ store' = IF caller[d] = "failed" THEN store
                ELSE [store EXCEPT ![Of(d)] = loc[d]]
    /\ IF caller[d] = "failed" THEN NewRequest(d) ELSE UNCHANGED vars
    /\ loc' = [loc EXCEPT ![d] = EmptyConversation]
    /\ UNCHANGED <<inbox, startedLog, restarts, registry, res, client>>

\* Mutant: the conversation is not loaded again.
SnapshotLoadedAtStart(d) ==
    [loc[d] EXCEPT !.msgs = @ \cup ({InputOf(d)} \ Anonymous) \X {"user"}]

\* The conversation a turn with a permit starts from.
Reloaded(d) ==
    [store[Of(d)] EXCEPT !.msgs = @ \cup ({InputOf(d)} \ Anonymous) \X {"user"}]

\* Acquire returned a permit: the latest conversation is loaded and the user
\* message appended in memory, unless an earlier drive did so durably.
TakePermit(d) ==
    /\ pc[d] = "acquiring"
    /\ TakeReady(d)
    /\ caller'[d] = "holding"
    /\ Goto(d, "reloaded")
    /\ loc' = [loc EXCEPT ![d] = Reloaded(d)]
    /\ UNCHANGED <<durable, registry, res, client>>

\* StartTurnInput: the conversation and the input's state in one transaction.
StartInput(d) ==
    /\ pc[d] = "reloaded"
    /\ Goto(d, "started")
    /\ store' = IF InputOf(d) \in Anonymous THEN store
                ELSE [store EXCEPT ![Of(d)] = loc[d]]
    /\ SetTurnInputState(InputOf(d), "running")
    /\ UNCHANGED <<vars, terminals, startedLog, restarts, registry, loc, res,
                   client>>

\* Mutant: a cancelled turn no longer counts.
FreeOrCancelled(s) == reg[s] # NoTurn => turnCtx[reg[s]]

\* No turn of the conversation is registered.
Free(s) == reg[s] = NoTurn

\* BeginTurnWithID succeeds and the run starts, with its turn_started event.
BeginTurn(d) ==
    /\ pc[d] = "started"
    /\ Free(Of(d))
    /\ Goto(d, "running")
    /\ reg' = [reg EXCEPT ![Of(d)] = d]
    /\ suspended' = [suspended EXCEPT ![Of(d)] = FALSE]
    /\ loc' = [loc EXCEPT ![d].status = IF KindOf(d) = "resumed"
                                        THEN "resuming" ELSE "running"]
    /\ startedLog' = [startedLog EXCEPT ![InputOf(d)] = TRUE]
    /\ UNCHANGED <<vars, inbox, terminals, store, restarts, turnCtx, res,
                   client>>

\* BeginTurnWithID fails with ErrBusy: driveTurn returns it, and nothing but
\* the deferred release is left to do.
BeginBusy(d) ==
    /\ pc[d] = "started"
    /\ ~Free(Of(d))
    /\ Goto(d, "finishing")
    /\ UNCHANGED <<vars, durable, registry, loc, res, client>>

\* The loop's checkpoint at a consistent boundary.
Checkpoint(d) ==
    /\ pc[d] = "running"
    /\ store[Of(d)] # loc[d]
    /\ store' = [store EXCEPT ![Of(d)] = loc[d]]
    /\ UNCHANGED <<vars, inbox, terminals, startedLog, restarts, registry,
                   drive, client>>

\* The run returns.  A successful one has appended its answer, saved it when a
\* runtime-input store makes this a durable boundary, and emitted
\* turn_finished; it returns context.Canceled only when its context is done.
RunEnds(d, r) ==
    /\ pc[d] = "running"
    /\ r = "canceled" => turnCtx[d]
    /\ Goto(d, "ended")
    /\ res' = [res EXCEPT ![d] = r]
    /\ IF r = "ok"
       THEN /\ loc' = [loc EXCEPT ![d].msgs = @ \cup {<<InputOf(d), "answer">>}]
            /\ store' \in {store, [store EXCEPT ![Of(d)] = loc'[d]]}
            /\ terminals' = [terminals EXCEPT ![InputOf(d)] =
                               Logged(@, "finished")]
       ELSE UNCHANGED <<loc, store, terminals>>
    /\ UNCHANGED <<vars, inbox, startedLog, restarts, registry, client>>

\* recordRunStatus and recordResumeStatus, on the in-memory conversation.
Recorded(d) ==
    LET c == loc[d]
        retried == IF c.attempts <= MaxResumeAttempts THEN c.attempts + 1
                                                      ELSE c.attempts
        resumed == KindOf(d) = "resumed"
    IN  CASE res[d] = "ok" \/ (res[d] = "canceled" /\ ~suspended[Of(d)]) ->
               [c EXCEPT !.status = "done", !.attempts = IF resumed THEN 0 ELSE @]
          [] res[d] = "canceled" /\ suspended[Of(d)] ->
               [c EXCEPT !.status = "paused"]
          [] res[d] = "retryable" /\ resumed ->
               [c EXCEPT !.attempts = retried,
                         !.status = IF retried > MaxResumeAttempts
                                    THEN "failed" ELSE "paused"]
          [] OTHER -> [c EXCEPT !.status = "failed"]

\* recordStatus: the status is recorded in the in-memory conversation.
RecordStatus(d) ==
    /\ pc[d] = "ended"
    /\ Goto(d, "judged")
    /\ loc' = [loc EXCEPT ![d] = Recorded(d)]
    /\ UNCHANGED <<vars, durable, registry, res, client>>

\* Mutant: the loop's turn_finished is repeated.
LifecycleEventAlways(d) ==
    CASE loc[d].status = "failed" -> "failed"
      [] loc[d].status = "done" ->
           IF res[d] = "canceled" THEN "cancelled" ELSE "finished"
      [] OTHER -> "none"

\* emitLifecycle's terminal event: turn_failed, or turn_cancelled unless the
\* turn already ended in one or SuspendAll has come (turn_paused is not a
\* terminal event).
LifecycleEvent(d) ==
    LET log == terminals[InputOf(d)]
    IN  CASE loc[d].status = "failed" -> "failed"
          [] /\ loc[d].status = "done" /\ res[d] = "canceled"
             /\ ~suspended[Of(d)]
             /\ log # <<>> => DurableTerminal(InputOf(d)) # "cancelled" ->
               "cancelled"
          [] OTHER -> "none"

\* emitLifecycle: the event is appended to the log.
EmitLifecycle(d) ==
    LET event == LifecycleEvent(d)
    IN  /\ pc[d] = "judged"
        /\ Goto(d, "recorded")
        /\ terminals' = IF event = "none" THEN terminals
                        ELSE [terminals EXCEPT ![InputOf(d)] = Logged(@, event)]
        /\ UNCHANGED <<vars, inbox, startedLog, store, restarts, registry, loc,
                       res, client>>

\* Mutant: a turn that ended is completed, whatever its status.
CompletedUnlessPaused(d) ==
    IF loc[d].status = "paused" THEN inbox[InputOf(d)] ELSE "completed"

\* turnInputTerminalState: a paused turn stays running.
TerminalState(d) ==
    CASE loc[d].status = "failed" -> "failed"
      [] loc[d].status = "done" -> IF res[d] = "canceled" THEN "cancelled"
                                                          ELSE "completed"
      [] OTHER -> inbox[InputOf(d)]

\* The state of the input is written.
SettleInput(d) ==
    /\ pc[d] = "recorded"
    /\ Goto(d, "settled")
    /\ SetTurnInputState(InputOf(d), TerminalState(d))
    /\ UNCHANGED <<vars, terminals, startedLog, store, restarts, registry, loc,
                   res, client>>

\* Mutant: the permit is released before the registry entry.
SaveAndRelease(d) ==
    /\ pc[d] = "settled"
    /\ Goto(d, "saved")
    /\ Release(d)
    /\ store' = [store EXCEPT ![Of(d)] = loc[d]]
    /\ UNCHANGED <<inbox, terminals, startedLog, restarts, registry, loc, res,
                   client>>

\* The final Save of the whole in-memory conversation.
FinalSave(d) ==
    /\ pc[d] = "settled"
    /\ Goto(d, "saved")
    /\ store' = [store EXCEPT ![Of(d)] = loc[d]]
    /\ UNCHANGED <<vars, inbox, terminals, startedLog, restarts, registry, loc,
                   res, client>>

\* The deferred FinishTurn of the registry.
FinishTurn(d) ==
    /\ pc[d] = "saved"
    /\ Goto(d, "finishing")
    /\ reg' = [reg EXCEPT ![Of(d)] = NoTurn]
    /\ suspended' = [suspended EXCEPT ![Of(d)] = FALSE]
    /\ turnCtx' = [turnCtx EXCEPT ![d] = FALSE]
    /\ UNCHANGED <<vars, durable, loc, res, client>>

\* The deferred release of the permit.
ReturnPermit(d) ==
    /\ pc[d] = "finishing"
    /\ Release(d)
    /\ UNCHANGED <<durable, registry, drive, client>>

\* driveTurn has returned; for a recovery this is also releaseRecovery.
Return(d) ==
    /\ pc[d] = "finishing"
    /\ caller[d] = "done"
    /\ NewRequest(d)
    /\ Goto(d, "idle")
    /\ res' = [res EXCEPT ![d] = "none"]
    /\ loc' = [loc EXCEPT ![d] = EmptyConversation]
    /\ UNCHANGED <<durable, registry, client>>

-----------------------------------------------------------------------------
(* Users and the host.                                                     *)

\* Cancel, first part: a queued turn of the conversation is removed.
CancelQueued(s) ==
    /\ canceller[s] = "none"
    /\ CancelTurn(s, NoTurn)
    /\ UNCHANGED <<durable, registry, drive, client>>

\* Cancel, with nothing queued: ActiveTurnRegistry.Cancel follows.
CancelFindsNoQueued(s) ==
    /\ "cancelRunning" \in Events
    /\ canceller[s] = "none"
    /\ \A i \in 1..Len(pending) : SessionOf[pending[i]] # s
    /\ canceller' = [canceller EXCEPT ![s] = "active"]
    /\ UNCHANGED <<vars, durable, registry, drive, scan>>

\* ActiveTurnRegistry.Cancel: the registered turn's context, if there is one.
CancelActive(s) ==
    /\ canceller[s] = "active"
    /\ canceller' = [canceller EXCEPT ![s] = "release"]
    /\ turnCtx' = IF reg[s] = NoTurn THEN turnCtx
                  ELSE [turnCtx EXCEPT ![reg[s]] = TRUE]
    /\ UNCHANGED <<vars, durable, reg, suspended, drive, scan>>

\* Cancel, last part: the permit of the conversation is taken back.
CancelRelease(s) ==
    /\ canceller[s] = "release"
    /\ canceller' = [canceller EXCEPT ![s] = "none"]
    /\ IF active[s] # NoTurn THEN ReleaseRunning(s) ELSE UNCHANGED vars
    /\ UNCHANGED <<durable, registry, drive, scan>>

\* SuspendAll: every registered turn is cancelled as a suspension.
SuspendAll ==
    LET inFlight == {s \in Sessions : reg[s] # NoTurn}
    IN  /\ \E s \in inFlight : ~suspended[s]
        /\ suspended' = [s \in Sessions |-> suspended[s] \/ s \in inFlight]
        /\ turnCtx' = [d \in Turns |->
                         turnCtx[d] \/ \E s \in inFlight : reg[s] = d]
        /\ UNCHANGED <<vars, durable, reg, drive, client>>

\* The inputs of a conversation that were running when it was interrupted.
Interrupted(s) ==
    {i \in Inputs : /\ InputSession[i] = s
                    /\ inbox[i] = "running"
                    /\ HasOriginTurn(store[s], i)}

\* Recovery has settled the inputs of s whose end the log records.
Reconciled(s) ==
    \A i \in Inputs :
       InputSession[i] = s /\ terminals[i] # <<>> => inbox[i] \in Settled

\* Resume: a paused conversation is driven on, for an interrupted input (the
\* code takes the first one listed; the model takes any), or else as a turn
\* of its own, whose new turn id the log has not seen.
Resume(i) ==
    LET d == <<i, "resumed">>
        s == InputSession[i]
    IN  /\ "resumeLive" \in Events \/ Quiet(s)
        /\ "eagerResume" \in Events \/ Reconciled(s)
        /\ pc[d] = "idle"
        /\ store[s].status = "paused"
        /\ IF Interrupted(s) # {}
           THEN i \in Interrupted(s)
           ELSE i \in Anonymous /\ ~startedLog[i] /\ terminals[i] = <<>>
        /\ Goto(d, "loaded")
        /\ loc' = [loc EXCEPT ![d] = store[s]]
        /\ UNCHANGED <<vars, durable, registry, res, client>>

\* Mutant: queued inputs are not listed.
RecoverableUnlessQueued(s) ==
    {i \in Inputs : InputSession[i] = s /\ inbox[i] \in {"accepted", "running"}}

\* RecoverableTurnInputs, of one conversation.
Recoverable(s) ==
    {i \in Inputs : /\ InputSession[i] = s
                    /\ inbox[i] \in {"accepted", "queued", "running"}}

\* A client connects (SessionReady): recoverTurnInputs lists the inputs of
\* its conversation that are not settled.
RecoverScan(s) ==
    LET listed == Recoverable(s)
    IN  /\ Quiet(s) \/ "reconnectLive" \in Events
        /\ listed # {}
        /\ \A i \in Inputs : InputSession[i] = s => scan[i] = "none"
        /\ scan' = [i \in Inputs |-> IF i \in listed THEN inbox[i] ELSE scan[i]]
        /\ UNCHANGED <<vars, durable, registry, drive, canceller>>

\* recoverTurnInputs, one iteration of its loop.
Recover(i) ==
    LET d == <<i, "recovered">>
        s == InputSession[i]
    IN  /\ scan[i] # "none"
        /\ scan' = [scan EXCEPT ![i] = "none"]
        /\ \/ \* claimRecovery: another recovery is driving it
              /\ pc[d] # "idle"
              /\ UNCHANGED <<inbox, startedLog, store, pc, loc>>
           \/ \* the log says how the turn ended
              /\ pc[d] = "idle" /\ terminals[i] # <<>>
              /\ inbox' = [inbox EXCEPT ![i] = DurableTerminal(i)]
              /\ UNCHANGED <<startedLog, store, pc, loc>>
           \/ \* the turn had started: the conversation becomes paused
              /\ pc[d] = "idle" /\ terminals[i] = <<>>
              /\ scan[i] = "running" /\ HasOriginTurn(store[s], i)
              /\ startedLog' = [startedLog EXCEPT ![i] = TRUE]
              /\ store' = [store EXCEPT ![s].status = "paused"]
              /\ UNCHANGED <<inbox, pc, loc>>
           \/ \* the turn had not started: it is executed
              /\ pc[d] = "idle" /\ terminals[i] = <<>>
              /\ ~(scan[i] = "running" /\ HasOriginTurn(store[s], i))
              /\ inbox' = IF scan[i] = "running"
                          THEN [inbox EXCEPT ![i] = "accepted"] ELSE inbox
              /\ Goto(d, "loaded")
              /\ loc' = [loc EXCEPT ![d] = store[s]]
              /\ UNCHANGED <<startedLog, store>>
        /\ UNCHANGED <<vars, terminals, restarts, registry, res, canceller>>

\* The process dies and starts again.  Everything volatile is gone, and
\* ReconcileInterrupted turns an interrupted turn_status into paused.
Restart ==
    /\ restarts < MaxRestarts
    /\ restarts' = restarts + 1
    /\ store' = [s \in Sessions |->
                   IF store[s].status \in {"running", "resuming"}
                   THEN [store[s] EXCEPT !.status = "paused"] ELSE store[s]]
    /\ pending' = <<>> /\ running' = 0 /\ lastStart' = NoSession
    /\ active' = [s \in Sessions |-> NoTurn]
    /\ granted' = [d \in Turns |-> FALSE]
    /\ released' = [d \in Turns |-> FALSE]
    /\ err' = [d \in Turns |-> "nil"]
    /\ caller' = [d \in Turns |-> "idle"]
    /\ reg' = [s \in Sessions |-> NoTurn]
    /\ suspended' = [s \in Sessions |-> FALSE]
    /\ turnCtx' = [d \in Turns |-> FALSE]
    /\ pc' = [d \in Turns |-> "idle"]
    /\ loc' = [d \in Turns |-> EmptyConversation]
    /\ res' = [d \in Turns |-> "none"]
    /\ scan' = [i \in Inputs |-> "none"]
    /\ canceller' = [s \in Sessions |-> "none"]
    /\ UNCHANGED <<inbox, terminals, startedLog, shutdown, ctxDone>>

-----------------------------------------------------------------------------
Drive(d) ==
    \/ Admit(d) \/ GuardRefuses(d) \/ AcquirePermit(d) \/ AcquireCanceled(d)
    \/ Abort(d) \/ TakePermit(d) \/ StartInput(d) \/ BeginTurn(d)
    \/ BeginBusy(d) \/ Checkpoint(d)
    \/ \E r \in Outcomes \ {"none"} : RunEnds(d, r)
    \/ RecordStatus(d) \/ EmitLifecycle(d) \/ SettleInput(d)
    \/ FinalSave(d) \/ FinishTurn(d) \/ ReturnPermit(d) \/ Return(d)

ExecNext ==
    \/ \E i \in Inputs : \/ \E kind \in {"live", "retried"} : Submit(i, kind)
                         \/ Recover(i)
                         \/ Resume(i)
    \/ \E d \in Turns : Drive(d)
    \/ \E s \in Sessions : \/ CancelQueued(s) \/ CancelFindsNoQueued(s)
                           \/ CancelActive(s) \/ CancelRelease(s)
                           \/ RecoverScan(s)
    \/ SuspendAll
    \/ Restart

ExecSpec == ExecInit /\ [][ExecNext]_execVars

(***************************************************************************)
(* Goroutines are scheduled and runs end.  A client that finds its         *)
(* conversation with unsettled inputs reconnects; nobody is obliged to     *)
(* resume, to cancel or to suspend.                                        *)
(***************************************************************************)
ExecFairness ==
    /\ \A d \in Turns : WF_execVars(Drive(d))
    /\ \A i \in Inputs : WF_execVars(Recover(i))
    /\ \A s \in Sessions : /\ WF_execVars(RecoverScan(s))
                           /\ WF_execVars(CancelActive(s) \/ CancelRelease(s))

ExecFairSpec == ExecSpec /\ ExecFairness

-----------------------------------------------------------------------------
(* Properties.                                                             *)

\* The drives of a conversation that own it in the registry.
ExecutingIn(s) == {d \in Turns : Of(d) = s /\ pc[d] \in Executing}

(***************************************************************************)
(* "Claim the turn (mutual exclusion)": whatever was cancelled, recovered  *)
(* or resumed, one goroutine at a time runs the agent loop of a            *)
(* conversation and writes its outcome, and the registry names it.         *)
(***************************************************************************)
ExclusiveExecution ==
    \A s \in Sessions : ExecutingIn(s) = IF reg[s] = NoTurn THEN {} ELSE {reg[s]}

(***************************************************************************)
(* "This makes a second turn in the same conversation a queued operation   *)
(* rather than an ErrBusy race": a turn that has its permit and is durably *)
(* started finds the conversation unclaimed.                               *)
(***************************************************************************)
NeverBusy ==
    \A d \in Turns : pc[d] = "started" => reg[Of(d)] = NoTurn

(***************************************************************************)
(* "Reconnecting clients see one complete lifecycle": the log never shows  *)
(* two ends of the same turn.                                              *)
(***************************************************************************)
OneTerminalEvent == \A i \in Inputs : Len(terminals[i]) <= 1

(***************************************************************************)
(* "Terminal events win": an input that is settled as completed or failed  *)
(* has the terminal event that says so, also when the process died in      *)
(* between, and the state and the newest terminal event never disagree.    *)
(***************************************************************************)
SettledAsLogged ==
    \A i \in Inputs :
       /\ inbox[i] \in {"completed", "failed"} => terminals[i] # <<>>
       /\ inbox[i] \in Settled /\ terminals[i] # <<>> =>
             inbox[i] = DurableTerminal(i)

(***************************************************************************)
(* The state is well formed, and inbox and log agree on every end.         *)
(***************************************************************************)
ExecInv == ExecTypeOK /\ SettledAsLogged

(***************************************************************************)
(* A settled input is never executed or settled again.                     *)
(***************************************************************************)
SettledForever ==
    [][\A i \in Inputs : inbox[i] \in Settled => inbox'[i] = inbox[i]]_execVars

(***************************************************************************)
(* An accepted input is not forgotten: it is settled, or its conversation  *)
(* is offered for resumption.                                              *)
(***************************************************************************)
EventuallySettled ==
    \A i \in Inputs :
       inbox[i] \in {"accepted", "queued", "running"}
          ~> \/ inbox[i] \in Settled
             \/ store[InputSession[i]].status = "paused"

(***************************************************************************)
(* "These events are persisted even for a cancelled queued turn": an input *)
(* that was cancelled before it ran has its turn_cancelled event, or a     *)
(* drive that is about to write it.                                        *)
(***************************************************************************)
CancelledIsLogged ==
    \A i \in Inputs :
       inbox[i] = "cancelled" =>
          \/ terminals[i] # <<>>
          \/ \E d \in Turns : InputOf(d) = i /\ pc[d] = "aborting"

\* The answers a saved conversation holds.
Answers(s) == {m \in store[s].msgs : m[2] = "answer"}

(***************************************************************************)
(* The saves around a turn "keep the persisted history consistent and      *)
(* resumable": none of them, and no crash, removes an answer that the      *)
(* conversation already holds, although each rewrites all messages.        *)
(***************************************************************************)
AnswersKept ==
    [][\A s \in Sessions : Answers(s) \subseteq Answers(s)']_execVars

(***************************************************************************)
(* "No-op unless there is genuinely an interrupted turn to continue": the  *)
(* loop never runs a turn that continues no submission.                    *)
(***************************************************************************)
NoSpuriousTurn == \A i \in Anonymous : ~startedLog[i]

(***************************************************************************)
(* "The process-wide admission controller": submissions, recoveries,       *)
(* resumptions and cancellations call the scheduler only in ways that keep *)
(* its promise, and a crash does no more than empty its queues.            *)
(***************************************************************************)
AdmitsAsPromised == Promise!SpecWithCrashes
=============================================================================
