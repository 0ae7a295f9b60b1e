----------------------- MODULE BackgroundContinuation -----------------------
(***************************************************************************)
(* Yielding a turn to background jobs and continuing it when one of them   *)
(* ends (internal/conversation/background_continuation.go, the store of    *)
(* continuations and runtime inputs under internal/session/sqlite, and the *)
(* parts of the agent loop and of the job sink that call them).            *)
(*                                                                         *)
(* One conversation.  A turn that waits for a job parks: its checkpoint is *)
(* saved in the conversation's one continuation row and its goroutine      *)
(* returns.  The end of a job is recorded in the same store, and whichever *)
(* transaction comes second, parking or recording, makes the row ready.  A *)
(* hint then starts a worker, an attempt, that claims the revision and     *)
(* runs the loop on.  Users submit new turns, stop turns and archive the   *)
(* conversation, connections come and go, the host suspends and the        *)
(* process dies at any point.                                              *)
(*                                                                         *)
(* A process is a pair of a turn and a revision: <<t, 0>> is the goroutine *)
(* of the submission (driveTurn), <<t, r>> the attempt that continues      *)
(* revision r (resumeBackground).  The scheduler's permit of the           *)
(* conversation is held by the process in one of the places in Holding.    *)
(***************************************************************************)
EXTENDS Naturals, Sequences, FiniteSets

CONSTANTS
    Turns,         \* submissions, each with its request id and turn id
    Users,         \* the turns whose model uses background jobs
    Stoppable,     \* the turns a user may stop
    Jobs,          \* background commands, each started at most once
    MaxParks,      \* bound: how often one turn parks
    Events,        \* what may happen: connect, archive, suspend, restart
    MaxEvents,     \* bound: how many of these happen
    NoTurn         \* the turn of an empty continuation row

ASSUME BackgroundAssumption ==
    /\ NoTurn \notin Turns
    /\ Users \subseteq Turns
    /\ Stoppable \subseteq Turns
    /\ Events \subseteq {"connect", "archive", "suspend", "restart"}
    /\ {MaxParks, MaxEvents} \subseteq Nat

VARIABLES
    \* durable state
    row,         \* runtime_continuations: turn, state, revision, await, parked
    runtimeIn,   \* runtime_inputs row of every job
    hist,        \* how the saved messages carry every job's result
    inbox,       \* turn_inputs.state of every turn
    ends,        \* terminal events of every turn in the log
    status,      \* turn_status of the saved conversation
    archived,    \* sessions.archived_at is set
    \* state of the process
    pc,          \* where a process is
    dead,        \* processes whose context is cancelled
    parker,      \* processes whose runner was built with a parker
    mem,         \* the in-memory messages of a process, as in hist
    owed,        \* job results in mem whose receipts are not yet saved
    want,        \* the jobs a process yields to
    got,         \* what its run returned
    local,       \* the turn_status it is about to save
    job,         \* where a job is
    hint,        \* NotifyBackgroundCompletion: per caller, the row it read
    support,     \* backgroundSupport of the conversation
    conn,        \* the client's connection
    susp,        \* the registered turn was cancelled by SuspendAll
    suspending,  \* SuspendAll is between its two registries
    stopper,     \* where CancelTurn of every turn is
    excl,        \* an exclusive conversation operation is in progress
    \* bookkeeping of the model
    budget,      \* how many Events are left
    runs,        \* how often a revision was continued
    dropped      \* a hint was dropped in favour of a cancelled attempt

durable == <<row, runtimeIn, hist, inbox, ends, status, archived>>
process == <<pc, dead, parker, mem, owed, want, got, local>>
environment == <<job, hint, support, conn, susp, suspending, stopper, excl>>
ghosts == <<budget, runs, dropped>>
bgVars == <<durable, process, environment, ghosts>>

Revisions == 0..MaxParks
Attempts == Users \X (1..MaxParks)
Procs == (Turns \X {0}) \cup Attempts
Notifiers == Jobs \cup {"conn", "runner"}
NoHint == <<>>
Called == <<"called">>

Open == {"active", "waiting", "ready"}
RowStates == Open \cup {"none", "stopped", "finished", "needs_attention"}
Carried == {"no", "tool", "runtime", "twice"}
InputStates == {"none", "accepted", "running", "waiting_background",
                "completed", "failed", "cancelled"}
Statuses == {"none", "running", "resuming", "waiting_background",
             "paused", "done", "failed"}
TerminalEvents == {"finished", "failed", "cancelled"}
\* Between BeginTurn and FinishTurn.
Executing == {"running", "acking", "parking", "parked", "notify", "ended",
              "judged", "settled", "closed", "saved"}
Holding == Executing \cup {"permitted", "verify", "claim", "claimed"}
Waiting == {"queued", "acquire"}
Places == Holding \cup Waiting \cup
          {"idle", "reserved", "begin", "aborting", "aborted", "exit", "gone"}

EmptyRow == [turn |-> NoTurn, state |-> "none", rev |-> 0, await |-> {}, parked |-> FALSE]

(***************************************************************************)
(* Type correctness of the continuation's durable and volatile state.      *)
(***************************************************************************)
BgTypeOK ==
    /\ row \in [turn : Turns \cup {NoTurn}, state : RowStates, rev : Revisions,
                await : SUBSET Jobs, parked : BOOLEAN]
    /\ runtimeIn \in [Jobs -> {"absent", "receipt", "pending", "delivered"}]
    /\ hist \in [Jobs -> Carried]
    /\ inbox \in [Turns -> InputStates]
    /\ ends \in [Turns -> Seq(TerminalEvents)]
    /\ status \in Statuses
    /\ archived \in BOOLEAN
    /\ pc \in [Procs -> Places]
    /\ dead \subseteq Procs
    /\ parker \subseteq Procs
    /\ mem \in [Procs -> [Jobs -> Carried]]
    /\ owed \in [Procs -> SUBSET Jobs]
    /\ want \in [Procs -> SUBSET Jobs]
    /\ got \in [Procs -> {"none", "ok", "canceled", "failed"}]
    /\ local \in [Procs -> Statuses]
    /\ job \in [Jobs -> {"none", "running", "exited", "recorded", "done", "lost"}]
    /\ hint \in [Notifiers -> {NoHint, Called} \cup Attempts]
    /\ support \in BOOLEAN
    /\ conn \in {"off", "claimed", "granted"}
    /\ susp \in BOOLEAN
    /\ suspending \in BOOLEAN
    /\ stopper \in [Turns -> {"idle", "fenced", "cancelling", "returned"}]
    /\ excl \in BOOLEAN
    /\ budget \in 0..MaxEvents
    /\ runs \in [Attempts -> Nat]
    /\ dropped \in BOOLEAN

BgInit ==
    /\ row = EmptyRow
    /\ runtimeIn = [j \in Jobs |-> "absent"]
    /\ hist = [j \in Jobs |-> "no"]
    /\ inbox = [t \in Turns |-> "none"]
    /\ ends = [t \in Turns |-> <<>>]
    /\ status = "none"
    /\ archived = FALSE
    /\ pc = [p \in Procs |-> "idle"]
    /\ dead = {}
    /\ parker = {}
    /\ mem = [p \in Procs |-> [j \in Jobs |-> "no"]]
    /\ owed = [p \in Procs |-> {}]
    /\ want = [p \in Procs |-> {}]
    /\ got = [p \in Procs |-> "none"]
    /\ local = [p \in Procs |-> "none"]
    /\ job = [j \in Jobs |-> "none"]
    /\ hint = [n \in Notifiers |-> NoHint]
    /\ support = FALSE
    /\ conn = "off"
    /\ susp = FALSE
    /\ suspending = FALSE
    /\ stopper = [t \in Turns |-> "idle"]
    /\ excl = FALSE
    /\ budget = MaxEvents
    /\ runs = [a \in Attempts |-> 0]
    /\ dropped = FALSE

-----------------------------------------------------------------------------
(***************************************************************************)
(* The continuation store.                                                 *)
(***************************************************************************)
Goto(p, place) == pc' = [pc EXCEPT ![p] = place]

PermitFree == \A p \in Procs : pc[p] \notin Holding

\* beginSessionTurn has been called and its release has not.
Claiming == {p \in Procs : pc[p] \notin {"idle", "begin", "exit", "gone"}}

Registered == {a \in Attempts : pc[a] # "idle"}

\* An awaited input has a body.
Arrived(in, J) == \E j \in J : in[j] = "pending" \/ (in[j] = "delivered")

\* Mutant: nobody looks whether what is awaited is already there.
LeaveWaiting(r, in) == r

\* readyContinuation, run at the end of both transactions.
ReadyContinuation(r, in) ==
    IF r.state = "waiting" /\ Arrived(in, r.await)
    THEN [r EXCEPT !.state = "ready"] ELSE r

\* admitContinuationWork, inside the transaction that accepts a new input.
AdmitContinuationWork(t) ==
    /\ row' = IF row.turn = t THEN row
              ELSE [EmptyRow EXCEPT !.turn = t, !.state = "active"]
    /\ inbox' = [u \in Turns |->
                   IF u = t THEN "accepted"
                   ELSE IF u = row.turn /\ row.parked /\ row.state \in Open
                        THEN "cancelled" ELSE inbox[u]]

Endable(t, s) ==
    /\ row.turn = t
    /\ row.state \in Open \/ (row.state = "needs_attention" /\ s = "stopped")

\* A stop of a turn nobody is running writes the end of the turn itself.
StopEndsTurn(s) == s = "stopped" /\ row.state \in {"waiting", "ready", "needs_attention"}

EndContinuation(t, s) ==
    IF ~Endable(t, s) THEN UNCHANGED <<row, inbox, status, ends>>
    ELSE /\ row' = [row EXCEPT !.state = s]
         /\ inbox' = IF s = "stopped" THEN [inbox EXCEPT ![t] = "cancelled"] ELSE inbox
         /\ status' = IF StopEndsTurn(s) THEN "done" ELSE status
         /\ ends' = IF StopEndsTurn(s) /\ \A i \in DOMAIN ends[t] : ends[t][i] # "cancelled"
                    THEN [ends EXCEPT ![t] = Append(@, "cancelled")] ELSE ends

\* backgroundBlocked and the return of resumeBackground.
Blocked(a) ==
    /\ EndContinuation(a[1], "needs_attention")
    /\ Goto(a, "exit")
    /\ UNCHANGED <<runtimeIn, hist, archived, dead, parker, mem, owed, want, got,
                   local, environment, ghosts>>

Return(a) ==
    /\ Goto(a, "exit")
    /\ UNCHANGED <<durable, dead, parker, mem, owed, want, got, local,
                   environment, ghosts>>

\* The locals of a process that has returned.
Forget(p) ==
    /\ dead' = dead \ {p}
    /\ parker' = parker \ {p}
    /\ mem' = [mem EXCEPT ![p] = [j \in Jobs |-> "no"]]
    /\ owed' = [owed EXCEPT ![p] = {}]
    /\ want' = [want EXCEPT ![p] = {}]
    /\ got' = [got EXCEPT ![p] = "none"]
    /\ local' = [local EXCEPT ![p] = "none"]

-----------------------------------------------------------------------------
(***************************************************************************)
(* A submission (driveTurn).                                               *)
(***************************************************************************)
Submit(t) ==
    /\ pc[<<t, 0>>] = "idle"
    /\ inbox[t] = "none"
    /\ ~excl /\ ~archived
    /\ AdmitContinuationWork(t)
    /\ Goto(<<t, 0>>, "reserved")
    /\ UNCHANGED <<runtimeIn, hist, ends, status, archived, dead, parker, mem, owed,
                   want, got, local, environment, ghosts>>

\* cancelBackgroundAttempts, after the input was accepted.
CancelOldAttempts(t) ==
    /\ pc[<<t, 0>>] = "reserved"
    /\ dead' = dead \cup Registered
    /\ Goto(<<t, 0>>, "queued")
    /\ UNCHANGED <<durable, parker, mem, owed, want, got, local, environment, ghosts>>

\* Acquire returns with the permit.
Acquire(p) ==
    /\ pc[p] \in Waiting
    /\ PermitFree
    /\ Goto(p, "permitted")
    /\ UNCHANGED <<durable, dead, parker, mem, owed, want, got, local,
                   environment, ghosts>>

\* The conversation is reloaded, the input started, the turn registered and
\* the runner built; it can park if the connection supports that now.
Begin(t) ==
    LET p == <<t, 0>>
    IN /\ pc[p] = "permitted"
       /\ inbox' = [inbox EXCEPT ![t] = "running"]
       /\ mem' = [mem EXCEPT ![p] = hist]
       /\ parker' = IF support THEN parker \cup {p} ELSE parker \ {p}
       /\ susp' = FALSE
       /\ Goto(p, "running")
       /\ UNCHANGED <<row, runtimeIn, hist, ends, status, archived, dead, owed, want,
                      got, local, job, hint, support, conn, suspending, stopper, excl,
                      ghosts>>

\* CancelTurn removed the waiter from the scheduler's queue.
AbortState(t) ==
    /\ pc[<<t, 0>>] = "aborting"
    /\ inbox' = [inbox EXCEPT ![t] = "cancelled"]
    /\ Goto(<<t, 0>>, "aborted")
    /\ UNCHANGED <<row, runtimeIn, hist, ends, status, archived, dead, parker, mem,
                   owed, want, got, local, environment, ghosts>>

AbortEvent(t) ==
    /\ pc[<<t, 0>>] = "aborted"
    /\ ends' = [ends EXCEPT ![t] = Append(@, "cancelled")]
    /\ Goto(<<t, 0>>, "gone")
    /\ UNCHANGED <<row, runtimeIn, hist, inbox, status, archived, dead, parker, mem,
                   owed, want, got, local, environment, ghosts>>

-----------------------------------------------------------------------------
(***************************************************************************)
(* An attempt (resumeBackground).                                          *)
(***************************************************************************)
BeginAttempt(a) ==
    /\ pc[a] = "begin"
    /\ IF excl THEN Blocked(a)
       ELSE /\ Goto(a, "acquire")
            /\ UNCHANGED <<durable, dead, parker, mem, owed, want, got, local,
                           environment, ghosts>>

\* Acquire returns because its context is cancelled.
GiveUpAcquire(a) ==
    /\ pc[a] = "acquire"
    /\ a \in dead
    /\ Return(a)

Current(a) == row.turn = a[1] /\ row.rev = a[2] /\ row.state = "ready"

Reread(a) ==
    /\ pc[a] = "permitted"
    /\ IF a \in dead \/ ~Current(a) THEN Return(a)
       ELSE /\ Goto(a, "verify")
            /\ UNCHANGED <<durable, dead, parker, mem, owed, want, got, local,
                           environment, ghosts>>

\* Load, and the comparison with the binding: workspace, connection,
\* credential, model, execution guard and runner identity may have changed.
Verify(a) ==
    /\ pc[a] = "verify"
    /\ \/ ~archived /\ support
          /\ Goto(a, "claim")
          /\ mem' = [mem EXCEPT ![a] = hist]
          /\ UNCHANGED <<durable, dead, parker, owed, want, got, local, environment, ghosts>>
       \/ Blocked(a)

\* Mutant: the claim is a check that writes nothing.
ClaimWithoutWrite(a) ==
    /\ pc[a] = "claim"
    /\ IF a \in dead \/ ~Current(a) \/ archived THEN Return(a)
       ELSE /\ Goto(a, "claimed")
            /\ UNCHANGED <<durable, dead, parker, mem, owed, want, got, local,
                           environment, ghosts>>

ClaimContinuation(a) ==
    /\ pc[a] = "claim"
    /\ IF a \in dead \/ ~Current(a) \/ archived THEN Return(a)
       ELSE /\ row' = [row EXCEPT !.state = "active"]
            /\ Goto(a, "claimed")
            /\ UNCHANGED <<runtimeIn, hist, inbox, ends, status, archived, dead, parker,
                           mem, owed, want, got, local, environment, ghosts>>

\* The newest terminal event of the turn is turn_cancelled.
CancelLogged(t) == ends[t] # <<>> /\ ends[t][Len(ends[t])] = "cancelled"

LogCancelled(t) ==
    ends' = IF CancelLogged(t) THEN ends ELSE [ends EXCEPT ![t] = Append(@, "cancelled")]

\* The context was cancelled after the claim: by a stop, whose fence is in
\* the row, or by anything else.
ClaimedCancelled(a) ==
    /\ pc[a] = "claimed"
    /\ a \in dead
    /\ IF row.turn = a[1] /\ row.state = "stopped"
       THEN /\ LogCancelled(a[1])
            /\ status' = "done"
            /\ hist' = mem[a]
            /\ Goto(a, "exit")
            /\ UNCHANGED <<row, runtimeIn, inbox, archived, dead, parker, mem, owed, want,
                           got, local, environment, ghosts>>
       ELSE Blocked(a)

BeginContinued(a) ==
    /\ pc[a] = "claimed"
    /\ a \notin dead
    /\ parker' = parker \cup {a}
    /\ susp' = FALSE
    /\ runs' = [runs EXCEPT ![a] = @ + 1]
    /\ Goto(a, "running")
    /\ UNCHANGED <<durable, dead, mem, owed, want, got, local, job, hint, support, conn,
                   suspending, stopper, excl, budget, dropped>>

\* The worker's deferred delete of its registration.
Remove(a) ==
    /\ pc[a] = "exit"
    /\ Goto(a, "idle")
    /\ Forget(a)
    /\ UNCHANGED <<durable, environment, ghosts>>

-----------------------------------------------------------------------------
(***************************************************************************)
(* The agent loop, as far as jobs and runtime inputs are concerned.        *)
(***************************************************************************)
LoopUnchanged == <<row, inbox, ends, status, archived, dead, parker, local,
                   hint, support, conn, susp, suspending, stopper, excl, ghosts>>

\* run_command in the background.
StartJob(p, j) ==
    /\ pc[p] = "running"
    /\ p \notin dead
    /\ p[1] \in Users
    /\ job[j] = "none"
    /\ job' = [job EXCEPT ![j] = "running"]
    /\ UNCHANGED <<pc, runtimeIn, hist, mem, owed, want, got, LoopUnchanged>>

Deliverable == {j \in Jobs : runtimeIn[j] = "pending"}

\* The result of j is appended to messages that carry it as h.
AppendRuntime(h) == IF h = "no" THEN "runtime" ELSE "twice"

\* Mutant: receipts of results the loop has already are not acknowledged.
CheckpointWithoutReceipts(p, D) ==
    LET new == {j \in D : runtimeIn[j] = "pending"}
        msgs == [j \in Jobs |-> IF j \in new THEN AppendRuntime(mem[p][j]) ELSE mem[p][j]]
    IN /\ runtimeIn' = [j \in Jobs |-> IF j \in new THEN "delivered" ELSE runtimeIn[j]]
       /\ owed' = [owed EXCEPT ![p] = {}]
       /\ mem' = [mem EXCEPT ![p] = msgs]
       /\ hist' = msgs

\* CheckpointRuntimeInputs: the receipts are acknowledged, pending inputs D
\* are appended and marked, and the messages saved, in one transaction.
Checkpoint(p, D) ==
    LET acked == [j \in Jobs |->
                    CASE j \in owed[p] /\ runtimeIn[j] = "absent" -> "receipt"
                      [] j \in owed[p] /\ runtimeIn[j] = "pending" -> "delivered"
                      [] OTHER -> runtimeIn[j]]
        new == {j \in D : acked[j] = "pending"}
        msgs == [j \in Jobs |-> IF j \in new THEN AppendRuntime(mem[p][j]) ELSE mem[p][j]]
    IN /\ runtimeIn' = [j \in Jobs |-> IF j \in new THEN "delivered" ELSE acked[j]]
       /\ owed' = [owed EXCEPT ![p] = {}]
       /\ mem' = [mem EXCEPT ![p] = msgs]
       /\ hist' = msgs

\* The boundary before a model call delivers a bounded number of inputs.
Deliver(p) ==
    /\ pc[p] = "running"
    /\ p \notin dead
    /\ \E D \in SUBSET Deliverable \ {{}} : Checkpoint(p, D)
    /\ UNCHANGED <<pc, want, got, job, LoopUnchanged>>

\* job_wait returns the result of a finished job, with its receipt.
JobWait(p, j) ==
    /\ pc[p] = "running"
    /\ p[1] \in Users
    /\ job[j] = "done"
    /\ mem' = [mem EXCEPT ![p][j] = IF @ = "no" THEN "tool" ELSE @]
    /\ owed' = [owed EXCEPT ![p] = @ \cup {j}]
    /\ Goto(p, "acking")
    /\ UNCHANGED <<runtimeIn, hist, want, got, job, LoopUnchanged>>

\* The acknowledgement after the tool batch, even of a cancelled batch.
Ack(p) ==
    /\ pc[p] = "acking"
    /\ Checkpoint(p, {})
    /\ Goto(p, "running")
    /\ UNCHANGED <<want, got, job, LoopUnchanged>>

\* job_wait with yield: every job of J was still running when it was asked.
Yield(p, J) ==
    /\ pc[p] = "running"
    /\ p \notin dead
    /\ p \in parker
    /\ p[1] \in Users
    /\ row.rev < MaxParks
    /\ \A j \in J : job[j] \in {"running", "exited", "recorded"}
    /\ want' = [want EXCEPT ![p] = J]
    /\ Goto(p, "parking")
    /\ UNCHANGED <<runtimeIn, hist, mem, owed, got, job, LoopUnchanged>>

EndsWith(p, outcome) ==
    /\ got' = [got EXCEPT ![p] = outcome]
    /\ Goto(p, "ended")

\* backgroundParker and ParkContinuation.
Park(p) ==
    LET t == p[1]
        parked == [turn |-> t, state |-> "waiting", rev |-> row.rev + 1,
                   await |-> want[p], parked |-> TRUE]
    IN /\ pc[p] = "parking"
       /\ \/ /\ ~support
             /\ EndsWith(p, "failed")
             /\ UNCHANGED <<row, hist, inbox, status>>
          \/ /\ support
             /\ p \in dead \/ row.turn # t \/ row.state # "active" \/ archived
             /\ EndsWith(p, "canceled")
             /\ UNCHANGED <<row, hist, inbox, status>>
          \/ /\ support
             /\ p \notin dead /\ row.turn = t /\ row.state = "active" /\ ~archived
             /\ row' = ReadyContinuation(parked, runtimeIn)
             /\ hist' = mem[p]
             /\ inbox' = [inbox EXCEPT ![t] = "waiting_background"]
             /\ status' = "waiting_background"
             /\ Goto(p, "parked")
             /\ UNCHANGED got
       /\ UNCHANGED <<runtimeIn, ends, archived, dead, parker, mem, owed, want, local,
                      environment, ghosts>>

\* Mutant: the process that parked gives no hint of its own.
NoHintOfItsOwn == UNCHANGED hint

\* The deferred NotifyBackgroundCompletion of the process that parked.
DeferNotify == hint' = [hint EXCEPT !["runner"] = Called]

\* driveTurn looks at the row again before it believes the turn is waiting;
\* resumeBackground does not.
AfterPark(p) ==
    /\ pc[p] = "parked"
    /\ IF p[2] = 0 /\ ~(row.turn = p[1] /\ row.state \in {"waiting", "ready"})
       THEN EndsWith(p, "canceled") /\ UNCHANGED hint
       ELSE /\ Goto(p, "notify")
            /\ DeferNotify
            /\ UNCHANGED got
    /\ UNCHANGED <<durable, dead, parker, mem, owed, want, local, job, support, conn,
                   susp, suspending, stopper, excl, ghosts>>

\* The final answer: if nothing new can be delivered the boundary is sealed
\* and turn_finished logged.
Final(p) ==
    /\ pc[p] = "running"
    /\ p \notin dead
    /\ Deliverable = {}
    /\ Checkpoint(p, {})
    /\ ends' = [ends EXCEPT ![p[1]] = Append(@, "finished")]
    /\ EndsWith(p, "ok")
    /\ UNCHANGED <<row, inbox, status, archived, dead, parker, local, want, environment,
                   ghosts>>

\* The run ends with an error, or because it notices that it was cancelled.
Break(p) ==
    /\ pc[p] = "running"
    /\ \/ EndsWith(p, "failed")
       \/ p \in dead /\ EndsWith(p, "canceled")
    /\ UNCHANGED <<durable, dead, parker, mem, owed, want, local, environment, ghosts>>

-----------------------------------------------------------------------------
(***************************************************************************)
(* The end of a run, in both entry points.                                 *)
(***************************************************************************)
\* The connection went away during a continuation nobody stopped.
Interrupted(p) ==
    /\ p[2] > 0
    /\ got[p] = "canceled"
    /\ ~support
    /\ row.turn = p[1] /\ row.state # "stopped"

RunStatus(p) ==
    CASE got[p] = "ok" -> "done"
      [] got[p] = "canceled" -> IF susp \/ Interrupted(p) THEN "paused" ELSE "done"
      [] OTHER -> "failed"

\* recordRunStatus and emitLifecycle.
Judge(p) ==
    LET t == p[1]
        s == RunStatus(p)
    IN /\ pc[p] = "ended"
       /\ local' = [local EXCEPT ![p] = s]
       /\ CASE s = "failed" -> ends' = [ends EXCEPT ![t] = Append(@, "failed")]
            [] s = "done" /\ got[p] = "canceled" -> LogCancelled(t)
            [] OTHER -> UNCHANGED ends
       /\ Goto(p, "judged")
       /\ UNCHANGED <<row, runtimeIn, hist, inbox, status, archived, dead, parker, mem,
                      owed, want, got, environment, ghosts>>

\* setTurnInputState with turnInputTerminalState.
Settle(p) ==
    /\ pc[p] = "judged"
    /\ inbox' = [inbox EXCEPT ![p[1]] =
                   CASE local[p] = "failed" -> "failed"
                     [] local[p] = "done" -> IF got[p] = "canceled" THEN "cancelled"
                                             ELSE "completed"
                     [] OTHER -> @]
    /\ Goto(p, "settled")
    /\ UNCHANGED <<row, runtimeIn, hist, ends, status, archived, dead, parker, mem, owed,
                   want, got, local, environment, ghosts>>

Disposition(p) ==
    CASE got[p] = "canceled" /\ local[p] = "done" /\ ~susp -> "stopped"
      [] local[p] = "paused" \/ susp -> "needs_attention"
      [] OTHER -> "finished"

Close(p) ==
    /\ pc[p] = "settled"
    /\ EndContinuation(p[1], Disposition(p))
    /\ Goto(p, "closed")
    /\ UNCHANGED <<runtimeIn, hist, archived, dead, parker, mem, owed, want, got, local,
                   environment, ghosts>>

\* The final Save writes the conversation as the process knows it.
SaveConversation(p) ==
    /\ pc[p] = "closed"
    /\ hist' = mem[p]
    /\ status' = local[p]
    /\ Goto(p, "saved")
    /\ UNCHANGED <<row, runtimeIn, inbox, ends, archived, dead, parker, mem, owed, want,
                   got, local, environment, ghosts>>

\* FinishTurn, the permit and the session claim are given back.
Finish(p) ==
    /\ \/ pc[p] = "saved"
       \/ pc[p] = "notify" /\ hint["runner"] = NoHint
    /\ IF p[2] = 0 THEN Goto(p, "gone") /\ Forget(p)
       ELSE Goto(p, "exit") /\ UNCHANGED <<dead, parker, mem, owed, want, got, local>>
    /\ UNCHANGED <<durable, environment, ghosts>>

-----------------------------------------------------------------------------
(***************************************************************************)
(* Jobs and hints.                                                         *)
(***************************************************************************)
JobUnchanged == <<hist, inbox, ends, status, archived, process, support, conn, susp,
                  suspending, stopper, excl, ghosts>>

JobExit(j) ==
    /\ job[j] = "running"
    /\ job' = [job EXCEPT ![j] = "exited"]
    /\ UNCHANGED <<row, runtimeIn, hint, JobUnchanged>>

\* RecordRuntimeInput commits; the sink then calls OnCompletion.
RecordRuntimeInput(j) ==
    /\ job[j] = "exited"
    /\ ~archived
    /\ LET in == [runtimeIn EXCEPT ![j] = IF @ = "receipt" THEN "delivered" ELSE "pending"]
       IN runtimeIn' = in /\ row' = ReadyContinuation(row, in)
    /\ job' = [job EXCEPT ![j] = "recorded"]
    /\ hint' = [hint EXCEPT ![j] = Called]
    /\ UNCHANGED JobUnchanged

\* Three attempts failed: the result is reported as not delivered.
GiveUpRecord(j) ==
    /\ job[j] = "exited"
    /\ job' = [job EXCEPT ![j] = "done"]
    /\ UNCHANGED <<row, runtimeIn, hint, JobUnchanged>>

\* OnCompletion has returned and done is closed.
JobDone(j) ==
    /\ job[j] = "recorded"
    /\ hint[j] = NoHint
    /\ job' = [job EXCEPT ![j] = "done"]
    /\ UNCHANGED <<row, runtimeIn, hint, JobUnchanged>>

HintUnchanged == <<durable, mem, owed, want, got, local, parker, job, support, conn, susp,
                   suspending, stopper, excl, budget, runs>>

\* NotifyBackgroundCompletion reads the row ...
NotifyRead(n) ==
    /\ hint[n] = Called
    /\ hint' = [hint EXCEPT ![n] = IF support /\ row.state = "ready"
                                   THEN <<row.turn, row.rev>> ELSE NoHint]
    /\ UNCHANGED <<pc, dead, dropped, HintUnchanged>>

\* ... and registers an attempt of what it read, unless there is one.
NotifyStart(n) ==
    /\ hint[n] \in Attempts
    /\ hint' = [hint EXCEPT ![n] = NoHint]
    /\ IF support /\ pc[hint[n]] = "idle"
       THEN Goto(hint[n], "begin") /\ UNCHANGED dropped
       ELSE /\ UNCHANGED pc
            /\ dropped' = (dropped \/ (support /\ hint[n] \in dead))
    /\ UNCHANGED <<dead, HintUnchanged>>

-----------------------------------------------------------------------------
(***************************************************************************)
(* Users, connections, the host and the machine.                           *)
(***************************************************************************)
StopUnchanged == <<runtimeIn, hist, archived, parker, mem, owed, want, got, local, job,
                   hint, support, conn, susp, suspending, excl, ghosts>>

\* CancelTurn: the durable fence first ...
StopFence(t) ==
    /\ stopper[t] = "idle"
    /\ t \in Stoppable
    /\ inbox[t] # "none"
    /\ EndContinuation(t, "stopped")
    /\ stopper' = [stopper EXCEPT ![t] = IF Endable(t, "stopped") THEN "fenced"
                                         ELSE "cancelling"]
    /\ UNCHANGED <<pc, dead, StopUnchanged>>

\* Mutant: the registered attempts are not cancelled.
StopAttemptsNone(t) ==
    /\ stopper[t] = "fenced"
    /\ stopper' = [stopper EXCEPT ![t] = "cancelling"]
    /\ UNCHANGED <<row, inbox, ends, status, pc, dead, StopUnchanged>>

\* ... then the registered attempts of the turn ...
StopAttempts(t) ==
    /\ stopper[t] = "fenced"
    /\ dead' = dead \cup {a \in Registered : a[1] = t}
    /\ stopper' = [stopper EXCEPT ![t] = "cancelling"]
    /\ UNCHANGED <<row, inbox, ends, status, pc, StopUnchanged>>

\* ... then the waiter in the scheduler's queue, else the registered turn.
StopRunning(t) ==
    /\ stopper[t] = "cancelling"
    /\ stopper' = [stopper EXCEPT ![t] = "returned"]
    /\ \/ \E p \in Procs : /\ p[1] = t /\ pc[p] \in Waiting
                           /\ Goto(p, IF p[2] = 0 THEN "aborting" ELSE "exit")
          /\ UNCHANGED dead
       \/ /\ \A p \in Procs : ~(p[1] = t /\ pc[p] \in Waiting)
          /\ dead' = dead \cup {p \in Procs : p[1] = t /\ pc[p] \in Executing}
          /\ UNCHANGED pc
    /\ UNCHANGED <<row, inbox, ends, status, StopUnchanged>>

Happens(kind) ==
    /\ kind \in Events
    /\ budget > 0
    /\ budget' = budget - 1

ConnUnchanged == <<durable, pc, parker, mem, owed, want, got, local, job, susp,
                   suspending, stopper, excl, runs, dropped>>

\* claimSessionControl revokes the support of the connection before it.
Connect ==
    /\ Happens("connect")
    /\ conn' = "claimed"
    /\ support' = FALSE
    /\ dead' = dead \cup Registered
    /\ UNCHANGED <<hint, ConnUnchanged>>

\* client_capabilities: configureBackground grants support, then notifies.
Grant ==
    /\ conn = "claimed"
    /\ hint["conn"] = NoHint
    /\ ~archived
    /\ conn' = "granted"
    /\ support' = TRUE
    /\ hint' = [hint EXCEPT !["conn"] = Called]
    /\ UNCHANGED <<dead, budget, ConnUnchanged>>

\* releaseSessionControl of the latest connection.
Disconnect ==
    /\ conn # "off"
    /\ conn' = "off"
    /\ support' = FALSE
    /\ dead' = dead \cup Registered
    /\ UNCHANGED <<hint, budget, ConnUnchanged>>

\* SuspendAll revokes every support, then cancels the registered turns.
Suspend ==
    /\ Happens("suspend")
    /\ ~suspending
    /\ suspending' = TRUE
    /\ support' = FALSE
    /\ dead' = dead \cup Registered
    /\ UNCHANGED <<durable, pc, parker, mem, owed, want, got, local, job, hint, conn, susp,
                   stopper, excl, runs, dropped>>

SuspendActive ==
    /\ suspending
    /\ suspending' = FALSE
    /\ LET X == {p \in Procs : pc[p] \in Executing}
       IN dead' = dead \cup X /\ susp' = (susp \/ X # {})
    /\ UNCHANGED <<durable, pc, parker, mem, owed, want, got, local, job, hint, support,
                   conn, stopper, excl, ghosts>>

ArchiveUnchanged == <<row, runtimeIn, hist, inbox, ends, status, process, job, hint,
                      support, conn, susp, suspending, stopper, runs, dropped>>

\* beginExclusiveConversationOperation takes the claim ...
BeginExclusive ==
    /\ Happens("archive")
    /\ ~excl
    /\ Claiming = {}
    /\ status # "none"
    /\ excl' = TRUE
    /\ UNCHANGED <<archived, ArchiveUnchanged>>

\* ... and looks at the status; archive or restore, and release.
EndExclusive ==
    /\ excl
    /\ excl' = FALSE
    /\ archived' = IF status \in {"running", "resuming", "paused"} THEN archived ELSE ~archived
    /\ UNCHANGED <<budget, ArchiveUnchanged>>

\* The process dies; ReconcileInterrupted runs before anything else.
Restart ==
    /\ Happens("restart")
    /\ status' = IF status \in {"running", "resuming"} THEN "paused" ELSE status
    /\ pc' = [p \in Procs |-> IF p[2] > 0 \/ pc[p] = "idle" THEN "idle" ELSE "gone"]
    /\ dead' = {}
    /\ parker' = {}
    /\ mem' = [p \in Procs |-> [j \in Jobs |-> "no"]]
    /\ owed' = [p \in Procs |-> {}]
    /\ want' = [p \in Procs |-> {}]
    /\ got' = [p \in Procs |-> "none"]
    /\ local' = [p \in Procs |-> "none"]
    /\ job' = [j \in Jobs |-> IF job[j] = "none" THEN "none" ELSE "lost"]
    /\ hint' = [n \in Notifiers |-> NoHint]
    /\ support' = FALSE
    /\ conn' = "off"
    /\ susp' = FALSE
    /\ suspending' = FALSE
    /\ stopper' = [t \in Turns |-> IF stopper[t] \in {"fenced", "cancelling"}
                                   THEN "returned" ELSE stopper[t]]
    /\ excl' = FALSE
    /\ UNCHANGED <<row, runtimeIn, hist, inbox, ends, archived, runs, dropped>>

\* recoverTurnInputs drives an accepted input again, unless it was parked.
Recover(t) ==
    /\ pc[<<t, 0>>] = "gone"
    /\ inbox[t] = "accepted"
    /\ ends[t] = <<>>
    /\ conn # "off"
    /\ ~excl /\ ~archived
    /\ ~(row.turn = t /\ row.parked /\ row.state # "finished")
    /\ Goto(<<t, 0>>, "queued")
    /\ UNCHANGED <<durable, dead, parker, mem, owed, want, got, local, environment, ghosts>>

-----------------------------------------------------------------------------
\* What a goroutine does next without a choice of its model or its users.
Proceed(p) ==
    \/ /\ p[2] = 0
       /\ \/ CancelOldAttempts(p[1]) \/ Begin(p[1])
          \/ AbortState(p[1]) \/ AbortEvent(p[1])
    \/ /\ p \in Attempts
       /\ \/ BeginAttempt(p) \/ GiveUpAcquire(p) \/ Reread(p) \/ Verify(p)
          \/ ClaimContinuation(p) \/ ClaimedCancelled(p) \/ BeginContinued(p) \/ Remove(p)
    \/ Ack(p) \/ Park(p) \/ AfterPark(p) \/ Final(p) \/ Break(p)
    \/ Judge(p) \/ Settle(p) \/ Close(p) \/ SaveConversation(p) \/ Finish(p)
LoopStep(p) ==
    \/ \E j \in Jobs : StartJob(p, j) \/ JobWait(p, j)
    \/ \E J \in SUBSET Jobs \ {{}} : Yield(p, J)
    \/ Deliver(p)
JobStep(j) == JobExit(j) \/ RecordRuntimeInput(j) \/ GiveUpRecord(j) \/ JobDone(j)
Notify(n) == NotifyRead(n) \/ NotifyStart(n)
Stop(t) == StopFence(t) \/ StopAttempts(t) \/ StopRunning(t)

BgNext ==
    \/ \E t \in Turns : Submit(t) \/ Stop(t) \/ Recover(t)
    \/ \E p \in Procs : Acquire(p) \/ Proceed(p) \/ LoopStep(p)
    \/ \E j \in Jobs : JobStep(j)
    \/ \E n \in Notifiers : Notify(n)
    \/ Connect \/ Grant \/ Disconnect \/ Suspend \/ SuspendActive
    \/ BeginExclusive \/ EndExclusive \/ Restart

BgSpec == BgInit /\ [][BgNext]_bgVars

(***************************************************************************)
(* Goroutines that can run do run: drivers, workers and callers of         *)
(* NotifyBackgroundCompletion.  A run of the loop ends (its steps are      *)
(* bounded), and the scheduler serves every waiter, which TurnScheduler    *)
(* shows.  Nothing is assumed of users, connections, jobs or the host.     *)
(***************************************************************************)
BgFairness ==
    /\ \A p \in Procs : WF_bgVars(Proceed(p)) /\ SF_bgVars(Acquire(p))
    /\ \A n \in Notifiers : WF_bgVars(Notify(n))

BgFairSpec == BgSpec /\ BgFairness

-----------------------------------------------------------------------------
(***************************************************************************)
(* A parked revision is continued at most once, however many hints,        *)
(* reconnections, late workers and restarts try to: a hint is never work,  *)
(* ClaimContinuation is, and while the revision runs nobody can claim it   *)
(* again (resumeBackground, ClaimContinuation).                            *)
(***************************************************************************)
ContinuedOnce ==
    \A a \in Attempts :
        /\ runs[a] <= 1
        /\ pc[a] \in {"claimed"} \cup Executing => ~Current(a)

(***************************************************************************)
(* The state is well formed, and no revision is continued twice.           *)
(***************************************************************************)
BgInv == BgTypeOK /\ ContinuedOnce

(***************************************************************************)
(* When a targeted stop has returned, no worker that continues the turn is *)
(* left running with a live context: the fence, the registered attempts,   *)
(* the scheduler's queue and the registry are visited one after the other  *)
(* without a common lock, and an attempt moves through the same places in  *)
(* the other direction (CancelTurn against resumeBackground).              *)
(***************************************************************************)
StopReachesAttempts ==
    \A t \in Turns :
        stopper[t] = "returned" /\ row.turn = t /\ row.state = "stopped" =>
            \A a \in Attempts : a[1] = t /\ pc[a] = "running" => a \in dead

(***************************************************************************)
(* The result of a job is in the saved messages exactly when its receipt   *)
(* is durable, and never once as a tool result and once more as a runtime  *)
(* input (CheckpointRuntimeInputs, job_wait and the saves of a conversation*)
(* around a crash).                                                        *)
(***************************************************************************)
ResultOnce ==
    \A j \in Jobs :
        /\ hist[j] # "twice"
        /\ runtimeIn[j] \in {"receipt", "delivered"} => hist[j] # "no"

(***************************************************************************)
(* Parking and the record of a job's end race; whichever commits second    *)
(* wakes the turn: no row waits for an input that is already there         *)
(* (ParkContinuation, RecordRuntimeInput, readyContinuation).              *)
(***************************************************************************)
NoMissedCompletion == ~(row.state = "waiting" /\ Arrived(runtimeIn, row.await))

(***************************************************************************)
(* A turn that parked and was continued, stopped, superseded or blocked    *)
(* still ends with at most one terminal event in the log (EndContinuation, *)
(* emitLifecycle and the turn_finished of the loop all write one).         *)
(***************************************************************************)
OneEnd == \A t \in Turns : Len(ends[t]) <= 1

(***************************************************************************)
(* A ready row is continued, or a person is asked to, while a connection   *)
(* supports it; the exception is a hint that found a cancelled attempt of  *)
(* the same revision still registered (NotifyBackgroundCompletion).        *)
(***************************************************************************)
ReadyResumes ==
    row.state = "ready" /\ support ~> row.state # "ready" \/ ~support \/ dropped

(***************************************************************************)
(* The same without the exception, as the design promises it: a persisted  *)
(* ready checkpoint is continued by the connection that comes next.        *)
(***************************************************************************)
ReadyAlwaysResumes == row.state = "ready" /\ support ~> row.state # "ready" \/ ~support
=============================================================================
