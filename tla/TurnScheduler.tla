--------------------------- MODULE TurnScheduler ---------------------------
(***************************************************************************)
(* The process-wide admission scheduler of the agent runtime               *)
(* (internal/conversation/scheduler.go).  Every turn of every conversation *)
(* calls Acquire before it may run and calls the returned release when it  *)
(* is over.  The scheduler owns no goroutine: all its state is guarded by  *)
(* one mutex, and every critical section is one action here.  A caller     *)
(* that waits does so outside the mutex, in Acquire's select, so what it   *)
(* does when it wakes up is an action of its own.                          *)
(***************************************************************************)
EXTENDS Integers, Sequences, FiniteSets

CONSTANTS
    Sessions,            \* conversation ids
    Turns,               \* scheduledTurn objects (one per call of Acquire)
    SessionOf,           \* req.SessionID of every turn
    MaxConcurrentTurns,  \* the limit NewTurnScheduler is called with
    NoTurn,              \* "no entry" of the map active; CancelTurn's ""
    NoSession            \* the zero value of lastStart

ASSUME SchedulerAssumption ==
    /\ IsFiniteSet(Sessions)
    /\ SessionOf \in [Turns -> Sessions]
    /\ MaxConcurrentTurns \in Int
    /\ NoTurn \notin Turns
    /\ NoSession \notin Sessions

VARIABLES
    pending,    \* s.pending, oldest first
    running,    \* s.running, the number of permits in use
    active,     \* s.active; s.runningSessions is its domain in the code, the
                \* two maps being written together everywhere
    lastStart,  \* s.lastStart
    shutdown,   \* s.shutdown
    granted,    \* w.running
    released,   \* w.released
    err,        \* w.err
    caller,     \* where the goroutine that calls Acquire is
    ctxDone     \* the context passed to Acquire has been cancelled

schedVars == <<pending, running, active, lastStart, shutdown>>
turnVars == <<granted, released, err>>
vars == <<schedVars, turnVars, caller, ctxDone>>

\* NewTurnScheduler normalizes a non-positive limit to one.
MaxRunning == IF MaxConcurrentTurns < 1 THEN 1 ELSE MaxConcurrentTurns

CallerStates == {"idle", "waiting", "holding", "failed", "done"}
Errors == {"nil", "canceled", "shutdown"}

(***************************************************************************)
(* Type correctness: the Go types, with the caller's program counter.      *)
(***************************************************************************)
TypeOK ==
    /\ pending \in Seq(Turns)
    /\ running \in Int
    /\ active \in [Sessions -> Turns \cup {NoTurn}]
    /\ lastStart \in Sessions \cup {NoSession}
    /\ shutdown \in BOOLEAN
    /\ granted \in [Turns -> BOOLEAN]
    /\ released \in [Turns -> BOOLEAN]
    /\ err \in [Turns -> Errors]
    /\ caller \in [Turns -> CallerStates]
    /\ ctxDone \in [Turns -> BOOLEAN]

-----------------------------------------------------------------------------
(* The helpers that run with the mutex held.                               *)

\* The first index of a set of queue indexes: what a scan of the slice that
\* stops at its first hit returns.
FirstOf(S) == CHOOSE i \in S : \A j \in S : i <= j

\* append(q[:i], q[i+1:]...)
Without(q, i) == [j \in 1..(Len(q) - 1) |-> IF j < i THEN q[j] ELSE q[j + 1]]

\* The index of t in q, as a set of at most one element.
Positions(q, t) == {i \in 1..Len(q) : q[i] = t}

\* Mutant: the scan looks behind the entry instead of ahead of it.
LaterSessionEntry(q, i) ==
    \E j \in (i + 1)..Len(q) : SessionOf[q[j]] = SessionOf[q[i]]

hasEarlierSessionEntry(q, i) ==
    \E j \in 1..(i - 1) : SessionOf[q[j]] = SessionOf[q[i]]

\* runnableLocked, on the queue q with the sessions of act running.
Runnable(q, act, i) ==
    /\ act[SessionOf[q[i]]] = NoTurn
    /\ ~hasEarlierSessionEntry(q, i)

RunnableIn(q, act) == {i \in 1..Len(q) : Runnable(q, act, i)}

\* Mutant: the newest runnable entry, whichever session started last.
NewestRunnable(q, act) ==
    CHOOSE i \in RunnableIn(q, act) : \A j \in RunnableIn(q, act) : i >= j

\* nextRunnableLocked: the first runnable entry of a session other than the
\* one started last, else the first runnable entry.
NextRunnable(q, act) ==
    LET others == {i \in RunnableIn(q, act) : SessionOf[q[i]] # lastStart}
    IN  FirstOf(IF others # {} THEN others ELSE RunnableIn(q, act))

\* Mutant: lastStart remembers the turn instead of the session.
DispatchRecordingTurn(q, run, act) ==
    LET i == NextRunnable(q, act)
        w == q[i]
    IN  IF run < MaxRunning /\ RunnableIn(q, act) # {}
        THEN /\ pending' = Without(q, i)
             /\ granted' = [granted EXCEPT ![w] = TRUE]
             /\ running' = run + 1
             /\ active' = [act EXCEPT ![SessionOf[w]] = w]
             /\ lastStart' = w
        ELSE /\ pending' = q
             /\ running' = run
             /\ active' = act
             /\ UNCHANGED <<granted, lastStart>>

(***************************************************************************)
(* dispatchLocked, entered with queue q, run permits in use and the        *)
(* sessions of act running.  The code loops until it runs out of permits   *)
(* or of runnable entries; the model takes the loop's first iteration.     *)
(* QueueReasonTruthful below says that the loop's exit condition holds     *)
(* after every critical section, that is, that a second iteration would    *)
(* never start anything.                                                   *)
(***************************************************************************)
DispatchLocked(q, run, act) ==
    LET i == NextRunnable(q, act)
        w == q[i]
    IN  IF run < MaxRunning /\ RunnableIn(q, act) # {}
        THEN /\ pending' = Without(q, i)
             /\ granted' = [granted EXCEPT ![w] = TRUE]
             /\ running' = run + 1
             /\ active' = [act EXCEPT ![SessionOf[w]] = w]
             /\ lastStart' = SessionOf[w]
        ELSE /\ pending' = q
             /\ running' = run
             /\ active' = act
             /\ UNCHANGED <<granted, lastStart>>

\* Mutant: w.released is not looked at.
ReleaseTwice(t) ==
    IF granted[t]
    THEN /\ released' = [released EXCEPT ![t] = TRUE]
         /\ DispatchLocked(pending, running - 1,
                           [active EXCEPT ![SessionOf[t]] = NoTurn])
    ELSE UNCHANGED <<schedVars, granted, released>>

\* releaseLocked: nothing for a turn that has no permit (any more).
ReleaseLocked(t) ==
    IF granted[t] /\ ~released[t]
    THEN /\ released' = [released EXCEPT ![t] = TRUE]
         /\ DispatchLocked(pending, running - 1,
                           [active EXCEPT ![SessionOf[t]] = NoTurn])
    ELSE UNCHANGED <<schedVars, granted, released>>

\* Mutant: a cancelled waiter stays in the queue.
LeavePending(t) == pending

\* removePendingLocked: an entry that is no longer queued is left alone.
RemovePending(t) ==
    IF Positions(pending, t) = {}
    THEN pending
    ELSE Without(pending, FirstOf(Positions(pending, t)))

\* queueReasonLocked, reported by Acquire's callback and by Activity.
QueueReason(i) ==
    IF \/ active[SessionOf[pending[i]]] # NoTurn
       \/ hasEarlierSessionEntry(pending, i)
    THEN "session_serialization"
    ELSE "global_capacity"

-----------------------------------------------------------------------------
Init ==
    /\ pending = <<>>
    /\ running = 0
    /\ active = [s \in Sessions |-> NoTurn]
    /\ lastStart = NoSession
    /\ shutdown = FALSE
    /\ granted = [t \in Turns |-> FALSE]
    /\ released = [t \in Turns |-> FALSE]
    /\ err = [t \in Turns |-> "nil"]
    /\ caller = [t \in Turns |-> "idle"]
    /\ ctxDone = [t \in Turns |-> FALSE]

\* Acquire up to its select: the request is queued and the queue dispatched.
Acquire(t) ==
    /\ caller[t] = "idle"
    /\ ~shutdown
    /\ ~ctxDone[t]
    /\ caller' = [caller EXCEPT ![t] = "waiting"]
    /\ DispatchLocked(Append(pending, t), running, active)
    /\ UNCHANGED <<shutdown, released, err, ctxDone>>

\* Acquire's early returns.
AcquireRejected(t) ==
    /\ caller[t] = "idle"
    /\ shutdown \/ ctxDone[t]
    /\ caller' = [caller EXCEPT ![t] = "failed"]
    /\ UNCHANGED <<schedVars, turnVars, ctxDone>>

\* Acquire's select takes <-w.ready, which is closed when the turn is granted
\* or failed.  A turn whose permit was taken back by ReleaseRunning in the
\* meantime is granted all the same.
TakeReady(t) ==
    /\ caller[t] = "waiting"
    /\ granted[t] \/ err[t] # "nil"
    /\ caller' = [caller EXCEPT ![t] = IF err[t] # "nil" THEN "failed"
                                                         ELSE "holding"]
    /\ UNCHANGED <<schedVars, turnVars, ctxDone>>

\* Mutant: the grant that won the race with the cancellation is forgotten.
CtxDoneIgnoringGrant(t) ==
    /\ caller[t] = "waiting"
    /\ ctxDone[t]
    /\ caller' = [caller EXCEPT ![t] = "failed"]
    /\ DispatchLocked(RemovePending(t), running, active)
    /\ UNCHANGED <<shutdown, released, err, ctxDone>>

\* Acquire's select takes <-ctx.Done(), possibly with w.ready closed as well.
TakeCtxDone(t) ==
    /\ caller[t] = "waiting"
    /\ ctxDone[t]
    /\ caller' = [caller EXCEPT ![t] = "failed"]
    /\ IF granted[t]
       THEN ReleaseLocked(t)
       ELSE /\ DispatchLocked(RemovePending(t), running, active)
            /\ UNCHANGED released
    /\ UNCHANGED <<shutdown, err, ctxDone>>

\* The function Acquire returned (a sync.Once): the turn is over.
Release(t) ==
    /\ caller[t] = "holding"
    /\ caller' = [caller EXCEPT ![t] = "done"]
    /\ ReleaseLocked(t)
    /\ UNCHANGED <<shutdown, err, ctxDone>>

\* CancelTurn(s, id), and Cancel(s) with id = NoTurn: the first queued turn
\* that matches is removed and its caller woken with context.Canceled.
CancelTurn(s, id) ==
    LET matching == {i \in 1..Len(pending) : /\ SessionOf[pending[i]] = s
                                             /\ id \in {NoTurn, pending[i]}}
        i == FirstOf(matching)
    IN  /\ matching # {}
        /\ err' = [err EXCEPT ![pending[i]] = "canceled"]
        /\ DispatchLocked(Without(pending, i), running, active)
        /\ UNCHANGED <<shutdown, released, caller, ctxDone>>

\* Mutant: the freed permit is not handed on.
ReleaseRunningWithoutDispatch(s) ==
    /\ active[s] # NoTurn
    /\ granted[active[s]]
    /\ ~released[active[s]]
    /\ released' = [released EXCEPT ![active[s]] = TRUE]
    /\ running' = running - 1
    /\ active' = [active EXCEPT ![s] = NoTurn]
    /\ UNCHANGED <<pending, lastStart, shutdown, granted, err, caller, ctxDone>>

\* ReleaseRunning(s): the permit of the session's running turn is taken back
\* while that turn may still be executing.
ReleaseRunning(s) ==
    /\ active[s] # NoTurn
    /\ granted[active[s]]
    /\ ~released[active[s]]
    /\ released' = [released EXCEPT ![active[s]] = TRUE]
    /\ DispatchLocked(pending, running - 1, [active EXCEPT ![s] = NoTurn])
    /\ UNCHANGED <<shutdown, err, caller, ctxDone>>

\* Mutant: the woken callers are left in the queue.
ShutdownKeepingQueue ==
    /\ ~shutdown
    /\ shutdown' = TRUE
    /\ err' = [t \in Turns |-> IF Positions(pending, t) # {} THEN "shutdown"
                                                             ELSE err[t]]
    /\ UNCHANGED <<pending, running, active, lastStart, granted, released,
                   caller, ctxDone>>

\* Shutdown wakes every queued caller with an error.
Shutdown ==
    /\ ~shutdown
    /\ shutdown' = TRUE
    /\ err' = [t \in Turns |-> IF Positions(pending, t) # {} THEN "shutdown"
                                                             ELSE err[t]]
    /\ pending' = <<>>
    /\ UNCHANGED <<running, active, lastStart, granted, released, caller,
                   ctxDone>>

-----------------------------------------------------------------------------
(* The environment.                                                        *)

\* The context of a caller that has not been served yet is cancelled.
CancelContext(t) ==
    /\ caller[t] \in {"idle", "waiting"}
    /\ ~ctxDone[t]
    /\ ctxDone' = [ctxDone EXCEPT ![t] = TRUE]
    /\ UNCHANGED <<schedVars, turnVars, caller>>

\* The next request of the same session: Acquire will allocate a fresh
\* scheduledTurn for it.  The model reuses the finished one, so that finitely
\* many turns stand for an unending stream of requests.
NewRequest(t) ==
    /\ caller[t] \in {"failed", "done"}
    /\ granted' = [granted EXCEPT ![t] = FALSE]
    /\ released' = [released EXCEPT ![t] = FALSE]
    /\ err' = [err EXCEPT ![t] = "nil"]
    /\ caller' = [caller EXCEPT ![t] = "idle"]
    /\ ctxDone' = [ctxDone EXCEPT ![t] = FALSE]
    /\ UNCHANGED schedVars

Next ==
    \/ \E t \in Turns :
         \/ Acquire(t)
         \/ AcquireRejected(t)
         \/ TakeReady(t)
         \/ TakeCtxDone(t)
         \/ Release(t)
         \/ CancelContext(t)
         \/ NewRequest(t)
    \/ \E s \in Sessions :
         \/ \E id \in Turns \cup {NoTurn} : CancelTurn(s, id)
         \/ ReleaseRunning(s)
    \/ Shutdown

Spec == Init /\ [][Next]_vars

(***************************************************************************)
(* A goroutine in a select whose channel is ready is scheduled, and a turn *)
(* that was admitted ends: driveTurn defers the release.  Nothing obliges  *)
(* a client to send requests, to cancel or to shut down.                   *)
(***************************************************************************)
Fairness ==
    \A t \in Turns :
       WF_vars(TakeReady(t)) /\ WF_vars(TakeCtxDone(t)) /\ WF_vars(Release(t))

FairSpec == Spec /\ Fairness

-----------------------------------------------------------------------------
(* What the scheduler promises.                                            *)

Queued(t) == Positions(pending, t) # {}
HoldsPermit(t) == granted[t] /\ ~released[t]
RunningSessions == {s \in Sessions : active[s] # NoTurn}

(***************************************************************************)
(* "One running turn per session and a process-wide concurrency limit":    *)
(* the map active names exactly the turns that hold a permit, whichever of *)
(* release, ReleaseRunning and a cancelled wait came first, so that a late *)
(* release never frees the permit of the session's next turn; and the      *)
(* counter equals the number of running sessions and respects the limit.   *)
(***************************************************************************)
PermitsExact ==
    /\ \A t \in Turns : HoldsPermit(t) <=> active[SessionOf[t]] = t
    /\ \A s \in RunningSessions : SessionOf[active[s]] = s
    /\ running = Cardinality(RunningSessions)
    /\ running <= MaxRunning

(***************************************************************************)
(* No wake-up is lost: a caller blocked in Acquire is queued exactly once, *)
(* or its ready channel is closed, never both; and one that is not in      *)
(* Acquire has left no queue entry behind.                                 *)
(***************************************************************************)
NoLostWakeup ==
    /\ \A i, j \in 1..Len(pending) : pending[i] = pending[j] => i = j
    /\ \A t \in Turns :
         Queued(t) <=> caller[t] = "waiting" /\ ~granted[t] /\ err[t] = "nil"

(***************************************************************************)
(* "If ctx is cancelled while queued, the request is removed and can never *)
(* start afterwards": a caller that got an error, or that has released,    *)
(* keeps no permit, and a turn woken with an error was never granted.      *)
(***************************************************************************)
NoPermitLeak ==
    \A t \in Turns :
       /\ caller[t] \in {"idle", "failed", "done"} => ~HoldsPermit(t)
       /\ err[t] # "nil" => ~granted[t]
       /\ caller[t] = "holding" => granted[t]

(***************************************************************************)
(* The queue reason told to clients is true: an entry that is said to wait *)
(* for global capacity waits with every permit in use.  This is the exit   *)
(* condition of dispatchLocked's loop, so it also says that no critical    *)
(* section leaves a startable turn asleep.                                 *)
(***************************************************************************)
QueueReasonTruthful ==
    \A i \in 1..Len(pending) :
       QueueReason(i) = "global_capacity" => running = MaxRunning

(***************************************************************************)
(* "The queue order inside each session is preserved": in the step that    *)
(* grants a turn, every turn of its session that was queued ahead of it    *)
(* has left the queue.                                                     *)
(***************************************************************************)
SessionFIFO ==
    [][\A t \in Turns, i \in 1..Len(pending) :
          /\ ~granted[t] /\ granted'[t]
          /\ SessionOf[pending[i]] = SessionOf[t]
          /\ \A j \in Positions(pending, t) : i < j
          => Positions(pending', pending[i]) = {}]_vars

(***************************************************************************)
(* No starvation: as long as admitted turns end, a caller does not wait in *)
(* Acquire for ever, however many requests of other sessions keep coming.  *)
(***************************************************************************)
WaiterServed ==
    \A t \in Turns : caller[t] = "waiting" ~> caller[t] # "waiting"

-----------------------------------------------------------------------------
(* The refinement.                                                         *)

\* The turns in queue q, and those of t's session that stand before t in it.
QueuedIn(q) == {q[i] : i \in 1..Len(q)}
AheadIn(q, t) ==
    {u \in Turns : /\ SessionOf[u] = SessionOf[t]
                   /\ \E i \in Positions(q, u), j \in Positions(q, t) : i < j}

Promise ==
    INSTANCE SessionQueues WITH
        waiting <- QueuedIn(pending),
        ahead <- [t \in Turns |-> AheadIn(pending, t)],
        owner <- active,
        open <- ~shutdown,
        Permits <- MaxRunning

(***************************************************************************)
(* The scheduler implements a queue for every session and bounded permits: *)
(* every critical section of the code is one step of SessionQueues, or     *)
(* changes none of it.                                                     *)
(***************************************************************************)
ImplementsSessionQueues == Promise!Spec
=============================================================================
