-------------------- MODULE BackgroundContinuationProofs --------------------
(***************************************************************************)
(* Proofs about BackgroundContinuation, for every set of turns and of      *)
(* jobs, every number of parks, and every choice and number of the events  *)
(* that may happen: connections, archiving, suspension, restarts.          *)
(***************************************************************************)
EXTENDS BackgroundContinuation, TLAPS

Rows == [turn : Turns \cup {NoTurn}, state : RowStates, rev : Revisions,
         await : SUBSET Jobs, parked : BOOLEAN]

Inputs == {"absent", "receipt", "pending", "delivered"}
Messages == [Jobs -> Carried]
Logs == [Turns -> Seq(TerminalEvents)]
Results == {"none", "ok", "canceled", "failed"}
JobStates == {"none", "running", "exited", "recorded", "done", "lost"}
Hints == {NoHint, Called} \cup Attempts
StopStates == {"idle", "fenced", "cancelling", "returned"}

\* The types by what they are for, with a name for every range.
DurableType ==
    /\ row \in Rows /\ runtimeIn \in [Jobs -> Inputs] /\ hist \in Messages
    /\ inbox \in [Turns -> InputStates] /\ ends \in Logs /\ status \in Statuses
    /\ archived \in BOOLEAN

ProcessType ==
    /\ pc \in [Procs -> Places] /\ dead \subseteq Procs /\ parker \subseteq Procs
    /\ mem \in [Procs -> Messages] /\ owed \in [Procs -> SUBSET Jobs]
    /\ want \in [Procs -> SUBSET Jobs] /\ got \in [Procs -> Results]
    /\ local \in [Procs -> Statuses]

OutsideType ==
    /\ job \in [Jobs -> JobStates] /\ hint \in [Notifiers -> Hints] /\ support \in BOOLEAN
    /\ conn \in {"off", "claimed", "granted"} /\ susp \in BOOLEAN /\ suspending \in BOOLEAN
    /\ stopper \in [Turns -> StopStates] /\ excl \in BOOLEAN
    /\ budget \in 0..MaxEvents /\ runs \in [Attempts -> Nat] /\ dropped \in BOOLEAN

\* A row that waits, or waited, was parked by a turn that uses jobs.
RowParked ==
    row.state \in {"waiting", "ready"} => row.turn \in Users /\ row.rev \in 1..MaxParks

\* A process that is about to park may.
ParkingBounded ==
    \A p \in Procs : pc[p] = "parking" => p[1] \in Users /\ row.rev < MaxParks

\* The scheduler's permit of the conversation.
PermitExclusive ==
    \A p, q \in Procs : pc[p] \in Holding /\ pc[q] \in Holding => p = q

BgShape == DurableType /\ ProcessType /\ OutsideType /\ RowParked /\ ParkingBounded /\ PermitExclusive

\* The row has left the revision of the attempt, or is of a later turn, and
\* the turn cannot be submitted again.
Spent(a) ==
    /\ inbox[a[1]] # "none"
    /\ row.turn = a[1] => \/ row.rev > a[2]
                          \/ row.rev = a[2] /\ row.state \notin {"waiting", "ready"}

\* A turn in the row was submitted; what was claimed is spent, and it was
\* not continued before.
ClaimsSpend ==
    /\ row.turn \in Turns => inbox[row.turn] # "none"
    /\ \A a \in Attempts :
          /\ runs[a] <= 1
          /\ pc[a] = "claimed" => runs[a] = 0
          /\ runs[a] > 0 \/ pc[a] \in {"claimed"} \cup Executing => Spent(a)

\* A stopped turn: what still runs of it is cancelled, unless its stop is
\* between the fence and the attempts.
StopKills ==
    row.state = "stopped" /\ row.turn \in Turns /\ stopper[row.turn] # "fenced" =>
        \A a \in Attempts :
            a[1] = row.turn /\ pc[a] \in {"claimed", "running", "acking"} => a \in dead

\* The process has read the conversation and has the permit.
Loaded == Executing \cup {"claim", "claimed"}

\* The saved messages carry a result exactly when its receipt is durable;
\* the process that has the conversation in memory differs from them only
\* in the results whose receipts it owes, and owes them at one place.
MessagesAgree ==
    /\ \A j \in Jobs :
          /\ hist[j] # "twice"
          /\ runtimeIn[j] \in {"receipt", "delivered"} <=> hist[j] # "no"
          /\ job[j] \in {"none", "running", "exited"} => runtimeIn[j] = "absent"
    /\ \A p \in Procs :
          /\ pc[p] # "acking" => owed[p] = {}
          /\ \A j \in owed[p] : job[j] = "done" /\ mem[p][j] # "no"
          /\ pc[p] \in Loaded \ {"acking"} => mem[p] = hist
          /\ pc[p] = "acking" =>
                \A j \in Jobs : \/ mem[p][j] = hist[j]
                                \/ j \in owed[p] /\ hist[j] = "no" /\ mem[p][j] = "tool"

BgIInv == BgShape /\ NoMissedCompletion /\ ClaimsSpend /\ StopKills /\ MessagesAgree

-----------------------------------------------------------------------------
(***************************************************************************)
(* The parts are the type invariant.                                       *)
(***************************************************************************)
LEMMA TypeParts == BgTypeOK <=> DurableType /\ ProcessType /\ OutsideType
BY DEF BgTypeOK, DurableType, ProcessType, OutsideType, Rows, Inputs, Messages, Logs, Results,
       JobStates, Hints, StopStates

(***************************************************************************)
(* The values that the operations write.                                   *)
(***************************************************************************)
LEMMA Written ==
    /\ {"accepted", "running", "waiting_background", "completed", "failed", "cancelled"}
          \subseteq InputStates
    /\ {"none", "running", "resuming", "waiting_background", "paused", "done", "failed"}
          \subseteq Statuses
    /\ {"none", "ok", "canceled", "failed"} \subseteq Results
    /\ {"none", "active", "waiting", "ready", "stopped", "finished", "needs_attention"}
          \subseteq RowStates
    /\ [j \in Jobs |-> "no"] \in Messages
    /\ {"idle", "reserved", "queued", "permitted", "running", "aborting", "aborted", "gone",
        "begin", "acquire", "verify", "claim", "claimed", "exit", "acking", "parking", "parked",
        "notify", "ended", "judged", "settled", "closed", "saved"} \subseteq Places
BY DEF InputStates, Statuses, Results, RowStates, Open, Messages, Carried, Places, Holding,
       Executing, Waiting

(***************************************************************************)
(* A log grows by a terminal event.                                        *)
(***************************************************************************)
LEMMA LogGrows ==
    ASSUME ends \in Logs, NEW t \in Turns, NEW e \in TerminalEvents
    PROVE  [ends EXCEPT ![t] = Append(@, e)] \in Logs
BY DEF Logs

(***************************************************************************)
(* A process is a pair of a turn and 0 or a revision.                      *)
(***************************************************************************)
LEMMA ProcPair ==
    ASSUME NEW p \in Procs
    PROVE  /\ p = <<p[1], p[2]>> /\ p[1] \in Turns /\ p[2] \in Nat
           /\ p[2] = 0 <=> p \notin Attempts
           /\ p \in Attempts => p[1] \in Users /\ p[2] \in 1..MaxParks
BY BackgroundAssumption DEF Procs, Attempts

(***************************************************************************)
(* The submission of a turn is a process; so is every attempt.             *)
(***************************************************************************)
LEMMA SubmissionProc ==
    ASSUME NEW t \in Turns
    PROVE  <<t, 0>> \in Procs /\ <<t, 0>> \notin Attempts
BY BackgroundAssumption DEF Procs, Attempts

(***************************************************************************)
(* readyContinuation only turns waiting into ready, and leaves no row that *)
(* waits for an input that is there.                                       *)
(***************************************************************************)
LEMMA ReadyContinuationEffect ==
    ASSUME NEW r \in Rows, NEW in
    PROVE  LET q == ReadyContinuation(r, in)
           IN /\ q \in Rows
              /\ q.turn = r.turn /\ q.rev = r.rev /\ q.await = r.await
              /\ q.state = r.state \/ (r.state = "waiting" /\ q.state = "ready")
              /\ ~(q.state = "waiting" /\ Arrived(in, q.await))
<1>1. CASE r.state = "waiting" /\ Arrived(in, r.await)
  BY <1>1 DEF ReadyContinuation, Rows, RowStates, Open
<1>2. CASE ~(r.state = "waiting" /\ Arrived(in, r.await))
  BY <1>2 DEF ReadyContinuation
<1> QED
  BY <1>1, <1>2

(***************************************************************************)
(* EndContinuation writes the state it is given or nothing, of the row of  *)
(* its own turn, and never forgets an input.                               *)
(***************************************************************************)
LEMMA EndContinuationEffect ==
    ASSUME DurableType, NEW t \in Turns, NEW s \in {"stopped", "needs_attention", "finished"},
           EndContinuation(t, s)
    PROVE  /\ row' \in Rows
           /\ row'.turn = row.turn /\ row'.rev = row.rev /\ row'.await = row.await
           /\ row' = row \/ (Endable(t, s) /\ row'.state = s)
           /\ inbox' \in [Turns -> InputStates]
           /\ \A u \in Turns : inbox'[u] = inbox[u] \/ inbox'[u] = "cancelled"
           /\ status' \in Statuses
           /\ ends' \in Logs
<1> USE DEF DurableType, Rows
<1>1. CASE ~Endable(t, s)
  BY <1>1 DEF EndContinuation
<1>2. CASE Endable(t, s)
  <2>1. /\ row' = [row EXCEPT !.state = s]
        /\ inbox' = IF s = "stopped" THEN [inbox EXCEPT ![t] = "cancelled"] ELSE inbox
        /\ status' = IF StopEndsTurn(s) THEN "done" ELSE status
        /\ ends' = ends \/ ends' = [ends EXCEPT ![t] = Append(@, "cancelled")]
    BY <1>2 DEF EndContinuation
  <2>2. s \in RowStates
    BY Written
  <2>3. /\ row' \in Rows
        /\ row'.turn = row.turn /\ row'.rev = row.rev /\ row'.await = row.await
        /\ row'.state = s
    BY <2>1, <2>2
  <2>4. /\ inbox' \in [Turns -> InputStates] /\ status' \in Statuses
        /\ \A u \in Turns : inbox'[u] = inbox[u] \/ inbox'[u] = "cancelled"
    BY <2>1, Written
  <2>5. ends' \in Logs
    BY <2>1, LogGrows DEF TerminalEvents
  <2> QED
    BY <1>2, <2>3, <2>4, <2>5
<1> QED
  BY <1>1, <1>2

(***************************************************************************)
(* CheckpointRuntimeInputs, job by job: a receipt that is owed is          *)
(* acknowledged, a pending input of D is delivered and appended, and what  *)
(* is saved is what the process has in memory.                             *)
(***************************************************************************)
LEMMA CheckpointEffect ==
    ASSUME DurableType, ProcessType, NEW p \in Procs, NEW D \in SUBSET Jobs, Checkpoint(p, D)
    PROVE  /\ runtimeIn' \in [Jobs -> Inputs]
           /\ owed' = [owed EXCEPT ![p] = {}]
           /\ hist' \in Messages
           /\ mem' = [mem EXCEPT ![p] = hist']
           /\ \A j \in Jobs :
                /\ runtimeIn'[j] = IF j \in owed[p] /\ runtimeIn[j] = "absent" THEN "receipt"
                                   ELSE IF j \in owed[p] \cup D /\ runtimeIn[j] = "pending"
                                   THEN "delivered" ELSE runtimeIn[j]
                /\ hist'[j] = IF j \in D \ owed[p] /\ runtimeIn[j] = "pending"
                              THEN AppendRuntime(mem[p][j]) ELSE mem[p][j]
<1> DEFINE acked == [j \in Jobs |->
                       CASE j \in owed[p] /\ runtimeIn[j] = "absent" -> "receipt"
                         [] j \in owed[p] /\ runtimeIn[j] = "pending" -> "delivered"
                         [] OTHER -> runtimeIn[j]]
           new == {j \in D : acked[j] = "pending"}
           msgs == [j \in Jobs |-> IF j \in new THEN AppendRuntime(mem[p][j]) ELSE mem[p][j]]
<1>1. /\ runtimeIn' = [j \in Jobs |-> IF j \in new THEN "delivered" ELSE acked[j]]
      /\ owed' = [owed EXCEPT ![p] = {}]
      /\ mem' = [mem EXCEPT ![p] = msgs]
      /\ hist' = msgs
  BY DEF Checkpoint
<1>2. \A j \in Jobs : acked[j] = IF j \in owed[p] /\ runtimeIn[j] = "absent" THEN "receipt"
                                 ELSE IF j \in owed[p] /\ runtimeIn[j] = "pending"
                                 THEN "delivered" ELSE runtimeIn[j]
  OBVIOUS
<1> HIDE DEF acked
<1>3. \A j \in Jobs : j \in new <=> j \in D \ owed[p] /\ runtimeIn[j] = "pending"
  BY <1>2
<1> HIDE DEF new
<1>4. msgs \in Messages
  BY DEF ProcessType, AppendRuntime, Messages, Carried
<1>5. \A j \in Jobs : runtimeIn[j] \in Inputs
  BY DEF DurableType
<1>6. \A j \in Jobs :
         runtimeIn'[j] = IF j \in owed[p] /\ runtimeIn[j] = "absent" THEN "receipt"
                         ELSE IF j \in owed[p] \cup D /\ runtimeIn[j] = "pending"
                         THEN "delivered" ELSE runtimeIn[j]
  BY <1>1, <1>2, <1>3
<1>7. runtimeIn' \in [Jobs -> Inputs]
  <2>1. \A j \in Jobs : runtimeIn'[j] \in Inputs
    BY <1>5, <1>6 DEF Inputs
  <2> QED
    BY <1>1, <2>1
<1>8. \A j \in Jobs :
         hist'[j] = IF j \in D \ owed[p] /\ runtimeIn[j] = "pending"
                    THEN AppendRuntime(mem[p][j]) ELSE mem[p][j]
  BY <1>1, <1>3
<1> HIDE DEF msgs
<1> QED
  BY <1>1, <1>4, <1>6, <1>7, <1>8

-----------------------------------------------------------------------------
(***************************************************************************)
(* What a step is, with the actor of every operation.                      *)
(***************************************************************************)
TurnStep(t) ==
    \/ Submit(t) \/ StopFence(t) \/ StopAttempts(t) \/ StopRunning(t) \/ Recover(t)
    \/ CancelOldAttempts(t) \/ Begin(t) \/ AbortState(t) \/ AbortEvent(t)

AttemptStep(a) ==
    \/ BeginAttempt(a) \/ GiveUpAcquire(a) \/ Reread(a) \/ Verify(a)
    \/ ClaimContinuation(a) \/ ClaimedCancelled(a) \/ BeginContinued(a) \/ Remove(a)

RunStep(p) ==
    \/ Acquire(p) \/ Ack(p) \/ Park(p) \/ AfterPark(p) \/ Final(p) \/ Break(p)
    \/ Judge(p) \/ Settle(p) \/ Close(p) \/ SaveConversation(p) \/ Finish(p) \/ Deliver(p)
    \/ \E j \in Jobs : StartJob(p, j) \/ JobWait(p, j)
    \/ \E J \in SUBSET Jobs : Yield(p, J)

OutsideStep ==
    \/ Connect \/ Grant \/ Disconnect \/ Suspend \/ SuspendActive
    \/ BeginExclusive \/ EndExclusive \/ Restart

(***************************************************************************)
(* Every step is one of these.                                             *)
(***************************************************************************)
LEMMA BgStepCases ==
    ASSUME BgNext
    PROVE  \/ \E t \in Turns : TurnStep(t)
           \/ \E a \in Attempts : AttemptStep(a)
           \/ \E p \in Procs : RunStep(p)
           \/ \E j \in Jobs : JobExit(j) \/ RecordRuntimeInput(j) \/ GiveUpRecord(j) \/ JobDone(j)
           \/ \E n \in Notifiers : NotifyRead(n) \/ NotifyStart(n)
           \/ OutsideStep
<1>1. ASSUME NEW p \in Procs, Acquire(p) \/ Proceed(p) \/ LoopStep(p)
      PROVE  RunStep(p) \/ (p[1] \in Turns /\ TurnStep(p[1])) \/ (p \in Attempts /\ AttemptStep(p))
  <2>1. p[1] \in Turns
    BY ProcPair
  <2> QED
    BY <1>1, <2>1, Zenon DEF Proceed, LoopStep, RunStep, TurnStep, AttemptStep
<1>2. ASSUME NEW t \in Turns, Submit(t) \/ Stop(t) \/ Recover(t) PROVE TurnStep(t)
  BY <1>2, Zenon DEF Stop, TurnStep
<1> QED
  BY <1>1, <1>2, Zenon DEF BgNext, JobStep, Notify, OutsideStep

-----------------------------------------------------------------------------
BgTypes == DurableType /\ ProcessType /\ OutsideType

(***************************************************************************)
(* The steps that name a turn keep the types.                              *)
(***************************************************************************)
LEMMA TurnStepType ==
    ASSUME BgShape, NEW t \in Turns, TurnStep(t)
    PROVE  BgTypes'
<1> USE SubmissionProc, Written
    DEF BgShape, BgTypes, DurableType, ProcessType, OutsideType, durable, process, environment,
        ghosts, Goto, StopUnchanged
<1>1. CASE Submit(t)
  <2>1. row' \in Rows
    <3>1. row' = row \/ row' = [EmptyRow EXCEPT !.turn = t, !.state = "active"]
      BY <1>1 DEF Submit, AdmitContinuationWork
    <3>2. 0 \in Revisions
      BY BackgroundAssumption DEF Revisions
    <3>3. [EmptyRow EXCEPT !.turn = t, !.state = "active"] \in Rows
      BY <3>2 DEF EmptyRow, Rows
    <3> QED
      BY <3>1, <3>3
  <2>2. inbox' \in [Turns -> InputStates]
    BY <1>1 DEF Submit, AdmitContinuationWork
  <2> QED
    BY <1>1, <2>1, <2>2 DEF Submit
<1>2. CASE StopFence(t)
  <2>1. EndContinuation(t, "stopped")
    BY <1>2 DEF StopFence
  <2>2. /\ row' \in Rows /\ inbox' \in [Turns -> InputStates] /\ status' \in Statuses
        /\ ends' \in Logs
    BY <2>1, EndContinuationEffect
  <2>3. stopper' \in [Turns -> StopStates]
    BY <1>2 DEF StopFence, StopStates
  <2> QED
    BY <1>2, <2>2, <2>3 DEF StopFence
<1>3. CASE StopAttempts(t)
  <2>1. stopper' \in [Turns -> StopStates]
    BY <1>3 DEF StopAttempts, StopStates
  <2> QED
    BY <1>3, <2>1 DEF StopAttempts, Registered, Procs
<1>4. CASE StopRunning(t)
  <2>1. stopper' \in [Turns -> StopStates]
    BY <1>4 DEF StopRunning, StopStates
  <2>2. pc' \in [Procs -> Places] /\ dead' \subseteq Procs
    BY <1>4 DEF StopRunning
  <2> QED
    BY <1>4, <2>1, <2>2 DEF StopRunning
<1>5. CASE Recover(t)
  BY <1>5 DEF Recover
<1>6. CASE CancelOldAttempts(t)
  BY <1>6 DEF CancelOldAttempts, Registered, Procs
<1>7. CASE Begin(t)
  BY <1>7 DEF Begin
<1>8. CASE AbortState(t)
  BY <1>8 DEF AbortState
<1>9. CASE AbortEvent(t)
  <2>1. ends' \in Logs
    BY <1>9, LogGrows DEF AbortEvent, TerminalEvents
  <2> QED
    BY <1>9, <2>1 DEF AbortEvent
<1> QED
  BY <1>1, <1>2, <1>3, <1>4, <1>5, <1>6, <1>7, <1>8, <1>9 DEF TurnStep

(***************************************************************************)
(* The steps of an attempt keep the types.                                 *)
(***************************************************************************)
LEMMA AttemptStepType ==
    ASSUME BgShape, NEW a \in Attempts, AttemptStep(a)
    PROVE  BgTypes'
<1>0. a \in Procs /\ a[1] \in Turns
  BY ProcPair DEF Procs
<1> USE <1>0, Written
    DEF BgShape, BgTypes, DurableType, ProcessType, OutsideType, durable, process, environment,
        ghosts, Goto
<1>1. CASE Blocked(a)
  <2>1. EndContinuation(a[1], "needs_attention")
    BY <1>1 DEF Blocked
  <2>2. /\ row' \in Rows /\ inbox' \in [Turns -> InputStates] /\ status' \in Statuses
        /\ ends' \in Logs
    BY <2>1, EndContinuationEffect
  <2> QED
    BY <1>1, <2>2 DEF Blocked
<1>2. CASE Return(a)
  BY <1>2 DEF Return
<1>3. CASE BeginAttempt(a)
  BY <1>1, <1>3 DEF BeginAttempt
<1>4. CASE Reread(a)
  BY <1>2, <1>4 DEF Reread
<1>5. CASE Verify(a)
  BY <1>1, <1>5 DEF Verify
<1>6. CASE ClaimContinuation(a)
  <2>1. [row EXCEPT !.state = "active"] \in Rows
    BY DEF Rows
  <2> QED
    BY <1>2, <1>6, <2>1 DEF ClaimContinuation
<1>7. CASE ClaimedCancelled(a)
  <2>1. LogCancelled(a[1]) => ends' \in Logs
    BY LogGrows DEF LogCancelled, TerminalEvents
  <2> QED
    BY <1>1, <1>7, <2>1 DEF ClaimedCancelled
<1>8. CASE BeginContinued(a)
  <2>1. runs' \in [Attempts -> Nat]
    BY <1>8 DEF BeginContinued
  <2> QED
    BY <1>8, <2>1 DEF BeginContinued
<1>9. CASE Remove(a)
  BY <1>9 DEF Remove, Forget
<1> QED
  BY <1>2, <1>3, <1>4, <1>5, <1>6, <1>7, <1>8, <1>9 DEF AttemptStep, GiveUpAcquire

(***************************************************************************)
(* The steps of a run keep the types; a process parks a revision that the  *)
(* bound allows.                                                           *)
(***************************************************************************)
LEMMA RunStepType ==
    ASSUME BgShape, NEW p \in Procs, RunStep(p)
    PROVE  BgTypes'
<1>0. p[1] \in Turns
  BY ProcPair
<1> USE <1>0, Written
    DEF BgShape, BgTypes, DurableType, ProcessType, OutsideType, durable, process, environment,
        ghosts, Goto, LoopUnchanged, EndsWith
<1>1. CASE Acquire(p)
  BY <1>1 DEF Acquire
<1>2. ASSUME NEW D \in SUBSET Jobs, Checkpoint(p, D)
      PROVE  /\ runtimeIn' \in [Jobs -> Inputs] /\ hist' \in Messages
             /\ mem' \in [Procs -> Messages] /\ owed' \in [Procs -> SUBSET Jobs]
  <2>1. /\ runtimeIn' \in [Jobs -> Inputs] /\ hist' \in Messages
        /\ owed' = [owed EXCEPT ![p] = {}] /\ mem' = [mem EXCEPT ![p] = hist']
    BY <1>2, CheckpointEffect
  <2> QED
    BY <2>1
<1>3. CASE Ack(p)
  <2>1. Checkpoint(p, {})
    BY <1>3 DEF Ack
  <2>2. /\ runtimeIn' \in [Jobs -> Inputs] /\ hist' \in Messages
        /\ mem' \in [Procs -> Messages] /\ owed' \in [Procs -> SUBSET Jobs]
    BY <1>2, <2>1
  <2> QED
    BY <1>3, <2>2 DEF Ack
<1>4. CASE Park(p)
  <2> DEFINE parked == [turn |-> p[1], state |-> "waiting", rev |-> row.rev + 1,
                        await |-> want[p], parked |-> TRUE]
  <2>1. pc[p] = "parking"
    BY <1>4 DEF Park
  <2>2. row.rev \in Revisions /\ row.rev < MaxParks
    BY <2>1 DEF ParkingBounded, Rows
  <2>3. row.rev + 1 \in Revisions
    BY <2>2, BackgroundAssumption DEF Revisions
  <2>4. parked \in Rows
    BY <2>3 DEF Rows
  <2>5. ReadyContinuation(parked, runtimeIn) \in Rows
    BY <2>4, ReadyContinuationEffect
  <2> QED
    BY <1>4, <2>5 DEF Park
<1>5. CASE AfterPark(p)
  <2>1. hint' \in [Notifiers -> Hints]
    BY <1>5 DEF AfterPark, DeferNotify, Hints
  <2> QED
    BY <1>5, <2>1 DEF AfterPark
<1>6. CASE Final(p)
  <2>1. Checkpoint(p, {})
    BY <1>6 DEF Final
  <2>2. /\ runtimeIn' \in [Jobs -> Inputs] /\ hist' \in Messages
        /\ mem' \in [Procs -> Messages] /\ owed' \in [Procs -> SUBSET Jobs]
    BY <1>2, <2>1
  <2>3. ends' \in Logs
    BY <1>6, LogGrows DEF Final, TerminalEvents
  <2> QED
    BY <1>6, <2>2, <2>3 DEF Final
<1>7. CASE Break(p)
  BY <1>7 DEF Break
<1>8. CASE Judge(p)
  <2>1. RunStatus(p) \in Statuses
    BY DEF RunStatus
  <2>2. ends' \in Logs
    BY <1>8, LogGrows DEF Judge, LogCancelled, TerminalEvents
  <2> QED
    BY <1>8, <2>1, <2>2 DEF Judge
<1>9. CASE Settle(p)
  <2>1. inbox' \in [Turns -> InputStates]
    BY <1>9 DEF Settle
  <2> QED
    BY <1>9, <2>1 DEF Settle
<1>10. CASE Close(p)
  <2>1. Disposition(p) \in {"stopped", "needs_attention", "finished"}
    BY DEF Disposition
  <2>2. EndContinuation(p[1], Disposition(p))
    BY <1>10 DEF Close
  <2>3. /\ row' \in Rows /\ inbox' \in [Turns -> InputStates] /\ status' \in Statuses
        /\ ends' \in Logs
    BY <2>1, <2>2, EndContinuationEffect
  <2> QED
    BY <1>10, <2>3 DEF Close
<1>11. CASE SaveConversation(p)
  BY <1>11 DEF SaveConversation
<1>12. CASE Finish(p)
  BY <1>12 DEF Finish, Forget
<1>13. CASE Deliver(p)
  <2>1. PICK D \in SUBSET Jobs : Checkpoint(p, D)
    BY <1>13 DEF Deliver, Deliverable
  <2>2. /\ runtimeIn' \in [Jobs -> Inputs] /\ hist' \in Messages
        /\ mem' \in [Procs -> Messages] /\ owed' \in [Procs -> SUBSET Jobs]
    BY <1>2, <2>1
  <2> QED
    BY <1>13, <2>2 DEF Deliver
<1>14. ASSUME NEW j \in Jobs, StartJob(p, j) PROVE BgTypes'
  <2>1. job' \in [Jobs -> JobStates]
    BY <1>14 DEF StartJob, JobStates
  <2> QED
    BY <1>14, <2>1 DEF StartJob
<1>15. ASSUME NEW j \in Jobs, JobWait(p, j) PROVE BgTypes'
  <2>1. mem' \in [Procs -> Messages]
    BY <1>15 DEF JobWait, Messages, Carried
  <2> QED
    BY <1>15, <2>1 DEF JobWait
<1>16. ASSUME NEW J \in SUBSET Jobs, Yield(p, J) PROVE BgTypes'
  BY <1>16 DEF Yield
<1> QED
  BY <1>1, <1>3, <1>4, <1>5, <1>6, <1>7, <1>8, <1>9, <1>10, <1>11, <1>12, <1>13, <1>14, <1>15,
     <1>16 DEF RunStep

(***************************************************************************)
(* So do the jobs and the hints: what NotifyBackgroundCompletion read in a *)
(* ready row is an attempt.                                                *)
(***************************************************************************)
LEMMA JobStepType ==
    ASSUME BgShape, NEW j \in Jobs,
           JobExit(j) \/ RecordRuntimeInput(j) \/ GiveUpRecord(j) \/ JobDone(j)
    PROVE  BgTypes'
<1> USE DEF BgShape, BgTypes, DurableType, ProcessType, OutsideType, process, ghosts,
            JobUnchanged
<1>1. job' \in [Jobs -> JobStates]
  BY DEF JobExit, RecordRuntimeInput, GiveUpRecord, JobDone, JobStates
<1>2. CASE RecordRuntimeInput(j)
  <2> DEFINE in == [runtimeIn EXCEPT ![j] = IF @ = "receipt" THEN "delivered" ELSE "pending"]
  <2>1. runtimeIn' = in /\ row' = ReadyContinuation(row, in)
    BY <1>2 DEF RecordRuntimeInput
  <2>2. in \in [Jobs -> Inputs]
    BY DEF Inputs
  <2> HIDE DEF in
  <2>3. row' \in Rows
    BY <2>1, ReadyContinuationEffect
  <2>4. hint' \in [Notifiers -> Hints]
    BY <1>2 DEF RecordRuntimeInput, Hints
  <2> QED
    BY <1>1, <1>2, <2>1, <2>2, <2>3, <2>4 DEF RecordRuntimeInput
<1>3. CASE JobExit(j) \/ GiveUpRecord(j) \/ JobDone(j)
  BY <1>1, <1>3 DEF JobExit, GiveUpRecord, JobDone
<1> QED
  BY <1>2, <1>3

(***************************************************************************)
(* NotifyBackgroundCompletion keeps the types.                             *)
(***************************************************************************)
LEMMA NotifyType ==
    ASSUME BgShape, NEW n \in Notifiers, NotifyRead(n) \/ NotifyStart(n)
    PROVE  BgTypes'
<1> USE Written
    DEF BgShape, BgTypes, DurableType, ProcessType, OutsideType, durable, HintUnchanged
<1>1. CASE NotifyRead(n)
  <2>1. row.state = "ready" => <<row.turn, row.rev>> \in Attempts
    BY DEF RowParked, Attempts
  <2>2. hint' \in [Notifiers -> Hints]
    BY <1>1, <2>1 DEF NotifyRead, Hints
  <2> QED
    BY <1>1, <2>2 DEF NotifyRead
<1>2. CASE NotifyStart(n)
  <2>1. hint' \in [Notifiers -> Hints]
    BY <1>2 DEF NotifyStart, Hints
  <2>2. pc' \in [Procs -> Places] /\ dropped' \in BOOLEAN
    BY <1>2 DEF NotifyStart, Goto, Procs
  <2> QED
    BY <1>2, <2>1, <2>2 DEF NotifyStart
<1> QED
  BY <1>1, <1>2

(***************************************************************************)
(* Connections, the host, archiving and a restart keep the types.          *)
(***************************************************************************)
LEMMA OutsideStepType ==
    ASSUME BgShape, OutsideStep
    PROVE  BgTypes'
<1> USE Written
    DEF BgShape, BgTypes, DurableType, ProcessType, OutsideType, durable, process, ghosts,
        ConnUnchanged, ArchiveUnchanged
<1>1. Registered \subseteq Procs
  BY DEF Registered, Procs
<1>2. ASSUME NEW kind, Happens(kind) PROVE budget' \in 0..MaxEvents
  BY <1>2, BackgroundAssumption DEF Happens
<1>3. CASE Connect \/ Grant \/ Disconnect
  <2>1. budget' \in 0..MaxEvents
    BY <1>2, <1>3 DEF Connect, Grant, Disconnect
  <2>2. hint' \in [Notifiers -> Hints]
    BY <1>3 DEF Connect, Grant, Disconnect, Hints
  <2> QED
    BY <1>1, <1>3, <2>1, <2>2 DEF Connect, Grant, Disconnect
<1>4. CASE Suspend \/ SuspendActive
  <2>1. budget' \in 0..MaxEvents
    BY <1>2, <1>4 DEF Suspend, SuspendActive
  <2>2. dead' \subseteq Procs /\ susp' \in BOOLEAN
    BY <1>1, <1>4 DEF Suspend, SuspendActive
  <2> QED
    BY <1>4, <2>1, <2>2 DEF Suspend, SuspendActive, environment
<1>5. CASE BeginExclusive \/ EndExclusive
  <2>1. budget' \in 0..MaxEvents
    BY <1>2, <1>5 DEF BeginExclusive, EndExclusive
  <2> QED
    BY <1>5, <2>1 DEF BeginExclusive, EndExclusive
<1>6. CASE Restart
  <2>1. budget' \in 0..MaxEvents
    BY <1>2, <1>6 DEF Restart
  <2>2. job' \in [Jobs -> JobStates] /\ stopper' \in [Turns -> StopStates]
    BY <1>6 DEF Restart, JobStates, StopStates
  <2>3. hint' \in [Notifiers -> Hints]
    BY <1>6 DEF Restart, Hints
  <2>4. pc' \in [Procs -> Places] /\ mem' \in [Procs -> Messages]
    BY <1>6 DEF Restart
  <2> QED
    BY <1>6, <2>1, <2>2, <2>3, <2>4 DEF Restart
<1> QED
  BY <1>3, <1>4, <1>5, <1>6 DEF OutsideStep

-----------------------------------------------------------------------------
(***************************************************************************)
(* Where the processes go in a step.  A place that holds the permit is     *)
(* entered from another one or with the permit free; "parking" by a turn   *)
(* that uses jobs and may park; and "claimed", "running" and what follows  *)
(* by an attempt only from "claim" on.                                     *)
(***************************************************************************)
Enters(p, place) ==
    /\ Goto(p, place)
    /\ place \in Holding => pc[p] \in Holding \/ PermitFree
    /\ place = "parking" => p[1] \in Users /\ row.rev < MaxParks /\ row' = row
    /\ place = "claimed" => p \in Attempts /\ ClaimContinuation(p) /\ row' # row
    /\ p \in Attempts /\ place \in {"running", "acking"} =>
          pc[p] \in {"claimed", "running", "acking"}
    /\ p \in Attempts /\ place \in Executing => pc[p] \in {"claimed"} \cup Executing

(***************************************************************************)
(* A step of a turn moves at most one process.                             *)
(***************************************************************************)
LEMMA TurnStepMoves ==
    ASSUME BgShape, NEW t \in Turns, TurnStep(t)
    PROVE  pc' = pc \/ \E p \in Procs, place \in Places : Enters(p, place)
<1> USE DEF Enters, Holding, Executing
<1>1. <<t, 0>> \in Procs /\ <<t, 0>> \notin Attempts
  BY SubmissionProc
<1>2. ASSUME NEW place \in {"reserved", "queued", "aborted", "gone", "aborting"},
             Goto(<<t, 0>>, place)
      PROVE  \E p \in Procs, q \in Places : Enters(p, q)
  <2>1. Enters(<<t, 0>>, place) /\ place \in Places
    BY <1>1, <1>2, Written
  <2> QED
    BY <1>1, <2>1
<1>3. CASE Submit(t)
  BY <1>2, <1>3 DEF Submit
<1>4. CASE StopFence(t) \/ StopAttempts(t)
  BY <1>4 DEF StopFence, StopAttempts
<1>5. CASE StopRunning(t)
  <2>1. ASSUME NEW p \in Procs, NEW place \in {"aborting", "exit"}, Goto(p, place)
        PROVE  Enters(p, place) /\ place \in Places
    BY <2>1, Written
  <2> QED
    BY <1>5, <2>1 DEF StopRunning
<1>6. CASE Recover(t) \/ CancelOldAttempts(t) \/ AbortState(t) \/ AbortEvent(t)
  BY <1>2, <1>6 DEF Recover, CancelOldAttempts, AbortState, AbortEvent
<1>7. CASE Begin(t)
  <2>1. Enters(<<t, 0>>, "running") /\ "running" \in Places
    BY <1>1, <1>7, Written DEF Begin
  <2> QED
    BY <1>1, <2>1
<1> QED
  BY <1>3, <1>4, <1>5, <1>6, <1>7 DEF TurnStep

(***************************************************************************)
(* A step of an attempt moves that attempt.                                *)
(***************************************************************************)
LEMMA AttemptStepMoves ==
    ASSUME BgShape, NEW a \in Attempts, AttemptStep(a)
    PROVE  \E place \in Places : Enters(a, place)
<1> USE DEF Enters, Holding, Executing
<1>1. a \in Procs
  BY DEF Procs
<1>2. ASSUME NEW place \in {"exit", "idle", "acquire"}, Goto(a, place)
      PROVE  \E q \in Places : Enters(a, q)
  BY <1>2, Written
<1>3. CASE Blocked(a) \/ Return(a) \/ Remove(a)
  BY <1>2, <1>3 DEF Blocked, Return, Remove
<1>4. CASE BeginAttempt(a)
  BY <1>2, <1>3, <1>4 DEF BeginAttempt
<1>5. CASE GiveUpAcquire(a)
  BY <1>3, <1>5 DEF GiveUpAcquire
<1>6. CASE Reread(a)
  <2>1. ASSUME Goto(a, "verify") PROVE Enters(a, "verify") /\ "verify" \in Places
    BY <1>6, <2>1, Written DEF Reread
  <2> QED
    BY <1>3, <1>6, <2>1 DEF Reread
<1>7. CASE Verify(a)
  <2>1. ASSUME Goto(a, "claim") PROVE Enters(a, "claim") /\ "claim" \in Places
    BY <1>7, <2>1, Written DEF Verify
  <2> QED
    BY <1>3, <1>7, <2>1 DEF Verify
<1>8. CASE ClaimContinuation(a)
  <2>1. CASE a \in dead \/ ~Current(a) \/ archived
    BY <1>3, <1>8, <2>1 DEF ClaimContinuation
  <2>2. CASE ~(a \in dead \/ ~Current(a) \/ archived)
    <3>1. /\ Goto(a, "claimed") /\ pc[a] = "claim" /\ row.state = "ready"
          /\ row' = [row EXCEPT !.state = "active"]
      BY <1>8, <2>2 DEF ClaimContinuation, Current
    <3>2. row' # row
      BY <3>1 DEF BgShape, DurableType, Rows
    <3>3. Enters(a, "claimed") /\ "claimed" \in Places
      BY <1>8, <3>1, <3>2, Written
    <3> QED
      BY <3>3
  <2> QED
    BY <2>1, <2>2
<1>9. CASE ClaimedCancelled(a)
  BY <1>2, <1>3, <1>9 DEF ClaimedCancelled
<1>10. CASE BeginContinued(a)
  <2>1. Enters(a, "running") /\ "running" \in Places
    BY <1>10, Written DEF BeginContinued
  <2> QED
    BY <2>1
<1> QED
  BY <1>3, <1>4, <1>5, <1>6, <1>7, <1>8, <1>9, <1>10 DEF AttemptStep

(***************************************************************************)
(* A step of a run moves that process or leaves it where it is.            *)
(***************************************************************************)
LEMMA RunStepMoves ==
    ASSUME BgShape, NEW p \in Procs, RunStep(p)
    PROVE  pc' = pc \/ \E place \in Places : Enters(p, place)
<1> USE DEF Enters, Holding, Executing
<1>1. CASE Acquire(p)
  <2>1. Enters(p, "permitted") /\ "permitted" \in Places
    BY <1>1, Written DEF Acquire
  <2> QED
    BY <2>1
<1>2. ASSUME pc[p] \in Executing,
             NEW place \in {"ended", "parked", "notify", "judged", "settled", "closed", "saved",
                            "gone", "exit"},
             Goto(p, place)
      PROVE  \E q \in Places : Enters(p, q)
  BY <1>2, Written
<1>3. ASSUME pc[p] \in {"running", "acking"}, NEW place \in {"running", "acking"},
             Goto(p, place)
      PROVE  \E q \in Places : Enters(p, q)
  BY <1>3, Written
<1>4. CASE Ack(p)
  BY <1>3, <1>4 DEF Ack
<1>5. CASE Park(p)
  BY <1>2, <1>5 DEF Park, EndsWith
<1>6. CASE AfterPark(p)
  BY <1>2, <1>6 DEF AfterPark, EndsWith
<1>7. CASE Final(p) \/ Break(p)
  BY <1>2, <1>7 DEF Final, Break, EndsWith
<1>8. CASE Judge(p) \/ Settle(p) \/ Close(p) \/ SaveConversation(p) \/ Finish(p)
  BY <1>2, <1>8 DEF Judge, Settle, Close, SaveConversation, Finish
<1>9. CASE Deliver(p) \/ \E j \in Jobs : StartJob(p, j)
  BY <1>9 DEF Deliver, StartJob
<1>10. ASSUME NEW j \in Jobs, JobWait(p, j) PROVE \E q \in Places : Enters(p, q)
  BY <1>3, <1>10 DEF JobWait
<1>11. ASSUME NEW J \in SUBSET Jobs, Yield(p, J) PROVE \E q \in Places : Enters(p, q)
  <2>1. Enters(p, "parking") /\ "parking" \in Places
    BY <1>11, Written DEF Yield, LoopUnchanged
  <2> QED
    BY <2>1
<1> QED
  BY <1>1, <1>4, <1>5, <1>6, <1>7, <1>8, <1>9, <1>10, <1>11 DEF RunStep

(***************************************************************************)
(* Whatever the step, one process moves, or the whole process dies.        *)
(***************************************************************************)
LEMMA PcMoves ==
    ASSUME BgShape, [BgNext]_bgVars
    PROVE  pc' = pc \/ Restart \/ \E p \in Procs, place \in Places : Enters(p, place)
<1>1. ASSUME NEW a \in Attempts, AttemptStep(a)
      PROVE  \E p \in Procs, place \in Places : Enters(p, place)
  BY <1>1, AttemptStepMoves DEF Procs
<1>2. ASSUME NEW n \in Notifiers, NotifyRead(n) \/ NotifyStart(n)
      PROVE  pc' = pc \/ \E p \in Procs, place \in Places : Enters(p, place)
  <2>1. CASE pc' = pc
    BY <2>1
  <2>2. CASE hint[n] \in Attempts /\ Goto(hint[n], "begin")
    <3>1. hint[n] \in Procs
      BY <2>2 DEF Procs
    <3>2. Enters(hint[n], "begin") /\ "begin" \in Places
      BY <2>2, Written DEF Enters, Holding, Executing
    <3> QED
      BY <3>1, <3>2
  <2> QED
    BY <1>2, <2>1, <2>2 DEF NotifyRead, NotifyStart
<1>3. ASSUME NEW j, JobExit(j) \/ RecordRuntimeInput(j) \/ GiveUpRecord(j) \/ JobDone(j)
      PROVE  pc' = pc
  BY <1>3 DEF JobExit, RecordRuntimeInput, GiveUpRecord, JobDone, JobUnchanged, process
<1>4. ASSUME OutsideStep PROVE pc' = pc \/ Restart
  BY <1>4 DEF OutsideStep, Connect, Grant, Disconnect, Suspend, SuspendActive, BeginExclusive,
              EndExclusive, ConnUnchanged, ArchiveUnchanged, process
<1>5. CASE UNCHANGED bgVars
  BY <1>5 DEF bgVars, process
<1> QED
  BY BgStepCases, TurnStepMoves, RunStepMoves, <1>1, <1>2, <1>3, <1>4, <1>5

(***************************************************************************)
(* What a step may do to the continuation row: nothing, replace it by that *)
(* of a turn that was never submitted before, end it, claim it, wake it or *)
(* park its own turn in the next revision.                                 *)
(***************************************************************************)
SameRevision == row'.turn = row.turn /\ row'.rev = row.rev /\ row'.await = row.await

Replaced ==
    \E t \in Turns : /\ inbox[t] = "none" /\ inbox'[t] # "none"
                     /\ row'.turn = t /\ row'.rev = 0 /\ row'.state = "active"

Ended ==
    /\ SameRevision
    /\ row.state \in Open \cup {"needs_attention"}
    /\ row'.state \in {"stopped", "needs_attention", "finished"}
    /\ row'.state = "stopped" => \/ stopper'[row.turn] = "fenced"
                                 \/ \E p \in Procs : pc[p] = "settled" /\ pc'[p] = "closed"

Advanced ==
    /\ SameRevision
    /\ \/ row.state = "ready" /\ row'.state = "active"
       \/ row.state = "waiting" /\ row'.state = "ready"

ParkedNext ==
    \E p \in Procs : /\ pc[p] = "parking" /\ pc'[p] = "parked"
                     /\ row.state = "active" /\ row.turn = p[1]
                     /\ row'.turn = row.turn /\ row'.rev = row.rev + 1
                     /\ row'.state \in {"waiting", "ready"}
                     /\ ~(row'.state = "waiting" /\ Arrived(runtimeIn, row'.await))

RowMoved == row' = row \/ Replaced \/ Ended \/ Advanced \/ ParkedNext

InboxKept == \A t \in Turns : inbox[t] # "none" => inbox'[t] # "none"

(***************************************************************************)
(* An EndContinuation ends the row or leaves it.                           *)
(***************************************************************************)
LEMMA EndMovesRow ==
    ASSUME BgShape, NEW t \in Turns, NEW s \in {"stopped", "needs_attention", "finished"},
           EndContinuation(t, s),
           s = "stopped" /\ Endable(t, s) =>
               \/ stopper'[t] = "fenced"
               \/ \E p \in Procs : pc[p] = "settled" /\ pc'[p] = "closed"
    PROVE  (row' = row \/ Ended) /\ InboxKept
<1>1. /\ row'.turn = row.turn /\ row'.rev = row.rev /\ row'.await = row.await
      /\ row' = row \/ (Endable(t, s) /\ row'.state = s)
      /\ \A u \in Turns : inbox'[u] = inbox[u] \/ inbox'[u] = "cancelled"
  BY EndContinuationEffect DEF BgShape
<1>2. InboxKept
  BY <1>1 DEF InboxKept
<1>3. CASE row' = row
  BY <1>2, <1>3
<1>4. CASE Endable(t, s) /\ row'.state = s
  <2>1. row.turn = t /\ row.state \in Open \cup {"needs_attention"}
    BY <1>4 DEF Endable
  <2>2. Ended
    BY <1>1, <1>4, <2>1 DEF Ended, SameRevision
  <2> QED
    BY <1>2, <2>2
<1> QED
  BY <1>1, <1>3, <1>4

(***************************************************************************)
(* The lemma: no other step writes the row, and no input is forgotten.     *)
(***************************************************************************)
LEMMA RowMoves ==
    ASSUME BgShape, ClaimsSpend, [BgNext]_bgVars
    PROVE  RowMoved /\ InboxKept
<1> USE DEF RowMoved, durable
<1>1. ASSUME row' = row, inbox' = inbox PROVE RowMoved /\ InboxKept
  BY <1>1 DEF InboxKept
<1>2. ASSUME NEW t \in Turns, TurnStep(t) PROVE RowMoved /\ InboxKept
  <2>1. CASE Submit(t)
    <3>1. inbox[t] = "none" /\ AdmitContinuationWork(t)
      BY <2>1 DEF Submit
    <3>2. row.turn # t
      BY <3>1 DEF ClaimsSpend
    <3>3. row' = [EmptyRow EXCEPT !.turn = t, !.state = "active"]
      BY <3>1, <3>2 DEF AdmitContinuationWork
    <3>4. row'.turn = t /\ row'.rev = 0 /\ row'.state = "active"
      BY <3>3 DEF EmptyRow
    <3>5. inbox'[t] = "accepted" /\ InboxKept
      BY <3>1 DEF AdmitContinuationWork, InboxKept
    <3> QED
      BY <3>1, <3>4, <3>5 DEF Replaced
  <2>2. CASE StopFence(t)
    <3>1. EndContinuation(t, "stopped")
      BY <2>2 DEF StopFence
    <3>2. Endable(t, "stopped") => stopper'[t] = "fenced"
      BY <2>2 DEF StopFence, BgShape, OutsideType
    <3> QED
      BY <3>1, <3>2, EndMovesRow
  <2>3. CASE StopAttempts(t) \/ StopRunning(t)
    BY <1>1, <2>3 DEF StopAttempts, StopRunning
  <2>4. CASE Recover(t) \/ CancelOldAttempts(t) \/ AbortEvent(t)
    BY <1>1, <2>4 DEF Recover, CancelOldAttempts, AbortEvent
  <2>5. CASE Begin(t) \/ AbortState(t)
    <3>1. row' = row /\ inbox' \in {[inbox EXCEPT ![t] = "running"],
                                    [inbox EXCEPT ![t] = "cancelled"]}
      BY <2>5 DEF Begin, AbortState
    <3> QED
      BY <3>1 DEF InboxKept, BgShape, DurableType
  <2> QED
    BY <1>2, <2>1, <2>2, <2>3, <2>4, <2>5 DEF TurnStep
<1>3. ASSUME NEW a \in Attempts, AttemptStep(a) PROVE RowMoved /\ InboxKept
  <2>1. CASE Blocked(a)
    <3>1. a[1] \in Turns
      BY ProcPair DEF Procs
    <3> QED
      BY <2>1, <3>1, EndMovesRow DEF Blocked
  <2>2. CASE Return(a) \/ Remove(a) \/ BeginContinued(a)
    BY <1>1, <2>2 DEF Return, Remove, BeginContinued
  <2>3. CASE BeginAttempt(a) \/ GiveUpAcquire(a)
    BY <1>1, <2>1, <2>2, <2>3 DEF BeginAttempt, GiveUpAcquire
  <2>4. CASE Reread(a)
    BY <1>1, <2>2, <2>4 DEF Reread
  <2>5. CASE Verify(a)
    BY <1>1, <2>1, <2>5 DEF Verify
  <2>6. CASE ClaimContinuation(a)
    <3>1. CASE a \in dead \/ ~Current(a) \/ archived
      BY <2>2, <2>6, <3>1 DEF ClaimContinuation
    <3>2. CASE ~(a \in dead \/ ~Current(a) \/ archived)
      <4>1. row.state = "ready" /\ row' = [row EXCEPT !.state = "active"] /\ inbox' = inbox
        BY <2>6, <3>2 DEF ClaimContinuation, Current
      <4>2. Advanced
        BY <4>1 DEF Advanced, SameRevision, BgShape, DurableType, Rows
      <4> QED
        BY <4>1, <4>2 DEF InboxKept
    <3> QED
      BY <3>1, <3>2
  <2>7. CASE ClaimedCancelled(a)
    BY <1>1, <2>1, <2>7 DEF ClaimedCancelled
  <2> QED
    BY <1>3, <2>2, <2>3, <2>4, <2>5, <2>6, <2>7 DEF AttemptStep
<1>4. ASSUME NEW p \in Procs, RunStep(p) PROVE RowMoved /\ InboxKept
  <2>0. p[1] \in Turns
    BY ProcPair
  <2>1. CASE Park(p)
    <3> DEFINE parked == [turn |-> p[1], state |-> "waiting", rev |-> row.rev + 1,
                          await |-> want[p], parked |-> TRUE]
    <3>1. CASE row' = row /\ inbox' = inbox
      BY <1>1, <3>1
    <3>2. CASE /\ pc[p] = "parking" /\ row.turn = p[1] /\ row.state = "active"
               /\ row' = ReadyContinuation(parked, runtimeIn) /\ Goto(p, "parked")
               /\ inbox' = [inbox EXCEPT ![p[1]] = "waiting_background"]
      <4>1. parked \in Rows
        <5>1. row.rev \in Revisions /\ row.rev < MaxParks
          BY <3>2 DEF BgShape, ParkingBounded, DurableType, Rows
        <5>2. row.rev + 1 \in Revisions
          BY <5>1, BackgroundAssumption DEF Revisions
        <5> QED
          BY <2>0, <5>2, Written DEF Rows, BgShape, ProcessType
      <4>2. /\ row'.turn = p[1] /\ row'.rev = row.rev + 1 /\ row'.state \in {"waiting", "ready"}
            /\ ~(row'.state = "waiting" /\ Arrived(runtimeIn, row'.await))
        BY <3>2, <4>1, ReadyContinuationEffect
      <4>3. pc'[p] = "parked"
        BY <3>2 DEF Goto, BgShape, ProcessType
      <4>4. InboxKept
        BY <2>0, <3>2 DEF InboxKept, BgShape, DurableType
      <4> QED
        BY <3>2, <4>2, <4>3, <4>4 DEF ParkedNext
    <3> QED
      BY <2>1, <3>1, <3>2 DEF Park
  <2>2. CASE Close(p)
    <3>1. Disposition(p) \in {"stopped", "needs_attention", "finished"}
      BY DEF Disposition
    <3>2. EndContinuation(p[1], Disposition(p)) /\ pc[p] = "settled" /\ pc'[p] = "closed"
      BY <2>2 DEF Close, Goto, BgShape, ProcessType
    <3> QED
      BY <2>0, <3>1, <3>2, EndMovesRow
  <2>3. CASE Settle(p)
    <3>1. row' = row /\ \A t \in Turns : inbox'[t] = inbox[t]
                          \/ inbox'[t] \in {"failed", "cancelled", "completed"}
      BY <2>0, <2>3 DEF Settle, BgShape, DurableType
    <3> QED
      BY <3>1 DEF InboxKept
  <2>4. CASE Acquire(p) \/ Ack(p) \/ AfterPark(p) \/ Final(p) \/ Break(p)
    BY <1>1, <2>4 DEF Acquire, Ack, AfterPark, Final, Break, LoopUnchanged
  <2>5. CASE Judge(p) \/ SaveConversation(p) \/ Finish(p) \/ Deliver(p)
    BY <1>1, <2>5 DEF Judge, SaveConversation, Finish, Deliver, LoopUnchanged
  <2>6. CASE \/ \E j \in Jobs : StartJob(p, j) \/ JobWait(p, j)
             \/ \E J \in SUBSET Jobs : Yield(p, J)
    BY <1>1, <2>6 DEF StartJob, JobWait, Yield, LoopUnchanged
  <2> QED
    BY <1>4, <2>1, <2>2, <2>3, <2>4, <2>5, <2>6 DEF RunStep
<1>5. ASSUME NEW j \in Jobs, JobExit(j) \/ RecordRuntimeInput(j) \/ GiveUpRecord(j) \/ JobDone(j)
      PROVE  RowMoved /\ InboxKept
  <2>1. CASE RecordRuntimeInput(j)
    <3>1. PICK in : row' = ReadyContinuation(row, in) /\ inbox' = inbox
      BY <2>1 DEF RecordRuntimeInput, JobUnchanged
    <3>2. row' = row \/ Advanced
      <4>1. row \in Rows
        BY DEF BgShape, DurableType
      <4>2. CASE row.state = "waiting" /\ Arrived(in, row.await)
        BY <3>1, <4>1, <4>2 DEF ReadyContinuation, Advanced, SameRevision, Rows
      <4>3. CASE ~(row.state = "waiting" /\ Arrived(in, row.await))
        BY <3>1, <4>3 DEF ReadyContinuation
      <4> QED
        BY <4>2, <4>3
    <3> QED
      BY <3>1, <3>2 DEF InboxKept
  <2>2. CASE JobExit(j) \/ GiveUpRecord(j) \/ JobDone(j)
    BY <1>1, <2>2 DEF JobExit, GiveUpRecord, JobDone, JobUnchanged
  <2> QED
    BY <1>5, <2>1, <2>2
<1>6. ASSUME NEW n, NotifyRead(n) \/ NotifyStart(n) PROVE RowMoved /\ InboxKept
  BY <1>1, <1>6 DEF NotifyRead, NotifyStart, HintUnchanged
<1>7. ASSUME OutsideStep PROVE RowMoved /\ InboxKept
  BY <1>1, <1>7 DEF OutsideStep, Connect, Grant, Disconnect, Suspend, SuspendActive,
     BeginExclusive, EndExclusive, Restart, ConnUnchanged, ArchiveUnchanged
<1>8. CASE UNCHANGED bgVars
  BY <1>1, <1>8 DEF bgVars
<1> HIDE DEF RowMoved
<1> QED
  BY BgStepCases, <1>2, <1>3, <1>4, <1>5, <1>6, <1>7, <1>8

-----------------------------------------------------------------------------
(***************************************************************************)
(* The types, what a parked row is, the bound on parking and the exclusion *)
(* of the permit are inductive together.                                   *)
(***************************************************************************)
LEMMA ShapeStep ==
    ASSUME BgShape, ClaimsSpend, [BgNext]_bgVars
    PROVE  BgShape'
<1>1. BgTypes'
  <2>1. CASE UNCHANGED bgVars
    BY <2>1 DEF bgVars, durable, process, environment, ghosts, BgShape, BgTypes, DurableType,
                ProcessType, OutsideType
  <2> QED
    BY <2>1, BgStepCases, TurnStepType, AttemptStepType, RunStepType, JobStepType, NotifyType,
       OutsideStepType
<1>2. RowMoved
  BY RowMoves
<1>3. row \in Rows /\ row.rev \in Nat /\ pc \in [Procs -> Places]
  BY BackgroundAssumption DEF BgShape, DurableType, ProcessType, Rows, Revisions
<1>4. RowParked'
  <2>1. CASE row' = row
    BY <2>1 DEF BgShape, RowParked
  <2>2. CASE Replaced \/ Ended \/ Advanced
    BY <2>2 DEF Replaced, Ended, Advanced, SameRevision, BgShape, RowParked
  <2>3. CASE ParkedNext
    BY <1>3, <2>3, BackgroundAssumption DEF ParkedNext, BgShape, ParkingBounded, RowParked
  <2> QED
    BY <1>2, <2>1, <2>2, <2>3 DEF RowMoved
<1>5. PermitExclusive'
  <2>1. CASE pc' = pc
    BY <2>1 DEF BgShape, PermitExclusive
  <2>2. CASE Restart
    BY <2>2 DEF Restart, PermitExclusive, Holding, Executing
  <2>3. ASSUME NEW p \in Procs, NEW place \in Places, Enters(p, place) PROVE PermitExclusive'
    BY <1>3, <2>3 DEF Enters, Goto, PermitFree, BgShape, PermitExclusive
  <2> QED
    BY <2>1, <2>2, <2>3, PcMoves
<1>6. ParkingBounded'
  <2> SUFFICES ASSUME NEW q \in Procs, pc'[q] = "parking"
               PROVE  q[1] \in Users /\ row'.rev < MaxParks
    BY DEF ParkingBounded
  <2>1. CASE pc[q] = "parking"
    <3>1. q[1] \in Users /\ row.rev < MaxParks
      BY <2>1 DEF BgShape, ParkingBounded
    <3>2. CASE row' = row \/ Replaced \/ Ended \/ Advanced
      BY <1>3, <3>1, <3>2, BackgroundAssumption
      DEF Replaced, Ended, Advanced, SameRevision
    <3>3. CASE ParkedNext
      <4>1. PICK p \in Procs : pc[p] = "parking" /\ pc'[p] = "parked"
        BY <3>3 DEF ParkedNext
      <4>2. p = q
        BY <2>1, <4>1 DEF BgShape, PermitExclusive, Holding, Executing
      <4> QED
        BY <4>1, <4>2
    <3> QED
      BY <1>2, <3>1, <3>2, <3>3 DEF RowMoved
  <2>2. CASE pc[q] # "parking"
    <3>1. ~Restart
      BY DEF Restart
    <3>2. PICK p \in Procs, place \in Places : Enters(p, place)
      BY <2>2, <3>1, PcMoves
    <3>3. p = q /\ place = "parking"
      BY <1>3, <2>2, <3>2 DEF Enters, Goto
    <3> QED
      BY <3>2, <3>3 DEF Enters
  <2> QED
    BY <2>1, <2>2
<1> QED
  BY <1>1, <1>4, <1>5, <1>6 DEF BgShape, BgTypes

(***************************************************************************)
(* An input that has a body keeps it, except that RecordRuntimeInput gives *)
(* it one (CheckpointRuntimeInputs never does).                            *)
(***************************************************************************)
LEMMA InputsMove ==
    ASSUME BgShape, [BgNext]_bgVars
    PROVE  \/ \E j \in Jobs : RecordRuntimeInput(j)
           \/ \A j \in Jobs : runtimeIn'[j] \in {"pending", "delivered"} =>
                                 runtimeIn[j] \in {"pending", "delivered"}
<1> USE DEF durable
<1>1. ASSUME runtimeIn' = runtimeIn
      PROVE  \A j \in Jobs : runtimeIn'[j] \in {"pending", "delivered"} =>
                                runtimeIn[j] \in {"pending", "delivered"}
  BY <1>1
<1>2. ASSUME NEW p \in Procs, NEW D \in SUBSET Jobs, Checkpoint(p, D)
      PROVE  \A j \in Jobs : runtimeIn'[j] \in {"pending", "delivered"} =>
                                runtimeIn[j] \in {"pending", "delivered"}
  <2>1. \A j \in Jobs :
          runtimeIn'[j] = IF j \in owed[p] /\ runtimeIn[j] = "absent" THEN "receipt"
                          ELSE IF j \in owed[p] \cup D /\ runtimeIn[j] = "pending"
                          THEN "delivered" ELSE runtimeIn[j]
    BY <1>2, CheckpointEffect DEF BgShape
  <2> QED
    BY <2>1
<1>3. ASSUME NEW t \in Turns, TurnStep(t) PROVE runtimeIn' = runtimeIn
  BY <1>3 DEF TurnStep, Submit, StopFence, StopAttempts, StopRunning, Recover,
              CancelOldAttempts, Begin, AbortState, AbortEvent, StopUnchanged
<1>4. ASSUME NEW a \in Attempts, AttemptStep(a) PROVE runtimeIn' = runtimeIn
  BY <1>4 DEF AttemptStep, BeginAttempt, GiveUpAcquire, Reread, Verify, ClaimContinuation,
              ClaimedCancelled, BeginContinued, Remove, Blocked, Return
<1>5. ASSUME NEW p \in Procs, RunStep(p)
      PROVE  runtimeIn' = runtimeIn \/ \E D \in SUBSET Jobs : Checkpoint(p, D)
  <2>1. CASE Ack(p) \/ Final(p) \/ Deliver(p)
    BY <2>1 DEF Ack, Final, Deliver, Deliverable
  <2>2. CASE Acquire(p) \/ Park(p) \/ AfterPark(p) \/ Break(p) \/ Judge(p) \/ Settle(p)
    BY <2>2 DEF Acquire, Park, AfterPark, Break, Judge, Settle
  <2>3. CASE Close(p) \/ SaveConversation(p) \/ Finish(p)
    BY <2>3 DEF Close, SaveConversation, Finish
  <2>4. CASE \/ \E j \in Jobs : StartJob(p, j) \/ JobWait(p, j)
             \/ \E J \in SUBSET Jobs : Yield(p, J)
    BY <2>4 DEF StartJob, JobWait, Yield
  <2> QED
    BY <1>5, <2>1, <2>2, <2>3, <2>4 DEF RunStep
<1>6. ASSUME NEW j \in Jobs, JobExit(j) \/ GiveUpRecord(j) \/ JobDone(j)
      PROVE  runtimeIn' = runtimeIn
  BY <1>6 DEF JobExit, GiveUpRecord, JobDone
<1>7. ASSUME NEW n, NotifyRead(n) \/ NotifyStart(n) PROVE runtimeIn' = runtimeIn
  BY <1>7 DEF NotifyRead, NotifyStart, HintUnchanged
<1>8. ASSUME OutsideStep PROVE runtimeIn' = runtimeIn
  BY <1>8 DEF OutsideStep, Connect, Grant, Disconnect, Suspend, SuspendActive,
     BeginExclusive, EndExclusive, Restart, ConnUnchanged, ArchiveUnchanged
<1>9. CASE UNCHANGED bgVars
  BY <1>1, <1>9 DEF bgVars
<1> QED
  BY BgStepCases, <1>1, <1>2, <1>3, <1>4, <1>5, <1>6, <1>7, <1>8, <1>9

(***************************************************************************)
(* Parking looks at the inputs, recording at the row, each in its own      *)
(* transaction: the one that comes second wakes the turn.                  *)
(***************************************************************************)
LEMMA NoMissedCompletionStep ==
    ASSUME BgShape, ClaimsSpend, NoMissedCompletion, [BgNext]_bgVars
    PROVE  NoMissedCompletion'
<1>1. ASSUME NEW j \in Jobs, RecordRuntimeInput(j) PROVE NoMissedCompletion'
  <2>1. row' = ReadyContinuation(row, runtimeIn') /\ row \in Rows
    BY <1>1 DEF RecordRuntimeInput, BgShape, DurableType
  <2> QED
    BY <2>1, ReadyContinuationEffect DEF NoMissedCompletion
<1>2. ASSUME \A j \in Jobs : runtimeIn'[j] \in {"pending", "delivered"} =>
                                runtimeIn[j] \in {"pending", "delivered"}
      PROVE  NoMissedCompletion'
  <2>1. row' \in Rows
    BY ShapeStep DEF BgShape, DurableType
  <2>2. Arrived(runtimeIn', row'.await) => Arrived(runtimeIn, row'.await)
    BY <1>2, <2>1 DEF Arrived, Rows
  <2>3. CASE row' = row \/ ParkedNext
    BY <2>2, <2>3 DEF NoMissedCompletion, ParkedNext
  <2>4. CASE Replaced \/ Ended \/ Advanced
    BY <2>4 DEF NoMissedCompletion, Replaced, Ended, Advanced
  <2> QED
    BY <2>3, <2>4, RowMoves DEF RowMoved
<1> QED
  BY <1>1, <1>2, InputsMove

-----------------------------------------------------------------------------
(***************************************************************************)
(* Nothing brings a revision back: whoever was continued stays behind.     *)
(***************************************************************************)
LEMMA SpentStays ==
    ASSUME BgShape, RowMoved, InboxKept, NEW a \in Attempts, Spent(a)
    PROVE  Spent(a)'
<1>1. a[1] \in Turns /\ a[2] \in Nat
  BY ProcPair DEF Procs
<1>2. row.rev \in Nat
  BY BackgroundAssumption DEF BgShape, DurableType, Rows, Revisions
<1>3. inbox'[a[1]] # "none"
  BY <1>1 DEF InboxKept, Spent
<1>4. CASE row' = row
  BY <1>3, <1>4 DEF Spent
<1>5. CASE Replaced
  BY <1>3, <1>5 DEF Spent, Replaced
<1>6. CASE Ended
  BY <1>3, <1>6 DEF Spent, Ended, SameRevision
<1>7. CASE Advanced
  BY <1>3, <1>7 DEF Spent, Advanced, SameRevision
<1>8. CASE ParkedNext
  BY <1>1, <1>2, <1>3, <1>8 DEF Spent, ParkedNext
<1> QED
  BY <1>4, <1>5, <1>6, <1>7, <1>8 DEF RowMoved

(***************************************************************************)
(* A revision is continued by BeginContinued and by nothing else.          *)
(***************************************************************************)
LEMMA RunsMove ==
    ASSUME [BgNext]_bgVars
    PROVE  runs' = runs \/ \E a \in Attempts : BeginContinued(a)
<1> USE DEF durable, ghosts
<1>1. ASSUME NEW t \in Turns, TurnStep(t) PROVE runs' = runs
  BY <1>1 DEF TurnStep, Submit, StopFence, StopAttempts, StopRunning, Recover,
              CancelOldAttempts, Begin, AbortState, AbortEvent, StopUnchanged
<1>2. ASSUME NEW a \in Attempts, AttemptStep(a) PROVE runs' = runs \/ BeginContinued(a)
  BY <1>2 DEF AttemptStep, BeginAttempt, GiveUpAcquire, Reread, Verify, ClaimContinuation,
              ClaimedCancelled, Remove, Blocked, Return
<1>3. ASSUME NEW p \in Procs, RunStep(p) PROVE runs' = runs
  <2>1. CASE Ack(p) \/ Final(p) \/ Deliver(p) \/ Acquire(p) \/ Park(p) \/ AfterPark(p)
    BY <2>1 DEF Ack, Final, Deliver, Acquire, Park, AfterPark, LoopUnchanged
  <2>2. CASE \/ Break(p) \/ Judge(p) \/ Settle(p) \/ Close(p) \/ SaveConversation(p)
             \/ Finish(p)
    BY <2>2 DEF Break, Judge, Settle, Close, SaveConversation, Finish
  <2>3. CASE \/ \E j \in Jobs : StartJob(p, j) \/ JobWait(p, j)
             \/ \E J \in SUBSET Jobs : Yield(p, J)
    BY <2>3 DEF StartJob, JobWait, Yield, LoopUnchanged
  <2> QED
    BY <1>3, <2>1, <2>2, <2>3 DEF RunStep
<1>4. ASSUME NEW j \in Jobs, JobExit(j) \/ RecordRuntimeInput(j) \/ GiveUpRecord(j) \/ JobDone(j)
      PROVE  runs' = runs
  BY <1>4 DEF JobExit, RecordRuntimeInput, GiveUpRecord, JobDone, JobUnchanged
<1>5. ASSUME NEW n, NotifyRead(n) \/ NotifyStart(n) PROVE runs' = runs
  BY <1>5 DEF NotifyRead, NotifyStart, HintUnchanged
<1>6. ASSUME OutsideStep PROVE runs' = runs
  BY <1>6 DEF OutsideStep, Connect, Grant, Disconnect, Suspend, SuspendActive,
     BeginExclusive, EndExclusive, Restart, ConnUnchanged, ArchiveUnchanged
<1>7. CASE UNCHANGED bgVars
  BY <1>7 DEF bgVars
<1> QED
  BY BgStepCases, <1>1, <1>2, <1>3, <1>4, <1>5, <1>6, <1>7

(***************************************************************************)
(* The claim is what makes a continuation exclusive: it spends the         *)
(* revision in the transaction that finds it ready, before the loop runs.  *)
(***************************************************************************)
LEMMA ClaimsSpendStep ==
    ASSUME BgShape, ClaimsSpend, [BgNext]_bgVars
    PROVE  ClaimsSpend'
<1>1. RowMoved /\ InboxKept
  BY RowMoves
<1>2. /\ row \in Rows /\ pc \in [Procs -> Places] /\ runs \in [Attempts -> Nat]
      /\ NoTurn \notin Turns /\ Attempts \subseteq Procs
  BY BackgroundAssumption DEF BgShape, DurableType, ProcessType, OutsideType, Procs
<1>3. row'.turn \in Turns => inbox'[row'.turn] # "none"
  BY <1>1 DEF ClaimsSpend, RowMoved, InboxKept, Replaced, Ended, Advanced, SameRevision,
              ParkedNext
<1>4. ASSUME NEW a \in Attempts
      PROVE  /\ runs'[a] <= 1
             /\ pc'[a] = "claimed" => runs'[a] = 0
             /\ runs'[a] > 0 \/ pc'[a] \in {"claimed"} \cup Executing => Spent(a)'
  <2>1. Spent(a) => Spent(a)'
    BY <1>1, SpentStays
  <2>2. a \in Procs /\ a[1] \in Turns /\ a[2] > 0 /\ runs[a] \in Nat
    BY <1>2, ProcPair, BackgroundAssumption
  <2>3. ASSUME ClaimContinuation(a), row' # row PROVE Spent(a)' /\ runs[a] = 0 /\ runs' = runs
    <3>1. /\ Current(a) /\ row' = [row EXCEPT !.state = "active"] /\ inbox' = inbox
          /\ runs' = runs
      BY <2>3 DEF ClaimContinuation, Return, durable, ghosts
    <3>2. ~Spent(a)
      BY <3>1, <2>2, ProcPair DEF Spent, Current
    <3>3. runs[a] = 0
      BY <2>2, <3>2 DEF ClaimsSpend
    <3>4. row'.turn = a[1] /\ row'.rev = a[2] /\ row'.state = "active"
      BY <1>2, <3>1 DEF Current, Rows
    <3>5. inbox'[a[1]] # "none"
      BY <1>3, <2>2, <3>4
    <3> QED
      BY <3>1, <3>3, <3>4, <3>5 DEF Spent
  <2>4. pc'[a] \in {"claimed"} \cup Executing =>
          pc[a] \in {"claimed"} \cup Executing \/ (ClaimContinuation(a) /\ row' # row)
    <3>1. CASE pc' = pc
      BY <3>1
    <3>2. CASE Restart
      BY <2>2, <3>2 DEF Restart, Executing
    <3>3. ASSUME NEW p \in Procs, NEW place \in Places, Enters(p, place)
          PROVE  pc'[a] \in {"claimed"} \cup Executing =>
                   pc[a] \in {"claimed"} \cup Executing \/ (ClaimContinuation(a) /\ row' # row)
      BY <1>2, <2>2, <3>3 DEF Enters, Goto
    <3> QED
      BY <3>1, <3>2, <3>3, PcMoves
  <2>5. CASE \E b \in Attempts : BeginContinued(b)
    <3>1. PICK b \in Attempts : BeginContinued(b)
      BY <2>5
    <3>2. /\ pc[b] = "claimed" /\ pc' = [pc EXCEPT ![b] = "running"]
          /\ runs' = [runs EXCEPT ![b] = @ + 1] /\ row' = row
      BY <3>1 DEF BeginContinued, Goto, durable
    <3>3. CASE a = b
      <4>1. runs[a] = 0 /\ Spent(a) /\ pc'[a] = "running"
        BY <1>2, <2>2, <3>2, <3>3 DEF ClaimsSpend
      <4>2. runs'[a] = 1
        BY <1>2, <3>2, <3>3, <4>1
      <4> QED
        BY <2>1, <4>1, <4>2
    <3>4. CASE a # b
      <4>1. runs'[a] = runs[a] /\ pc'[a] = pc[a]
        BY <1>2, <2>2, <3>2, <3>4
      <4> QED
        BY <2>1, <4>1 DEF ClaimsSpend
    <3> QED
      BY <3>3, <3>4
  <2>6. CASE runs' = runs
    <3>1. pc'[a] = "claimed" => pc[a] = "claimed" \/ (ClaimContinuation(a) /\ row' # row)
      <4>1. CASE pc' = pc
        BY <4>1
      <4>2. CASE Restart
        BY <2>2, <4>2 DEF Restart
      <4>3. ASSUME NEW p \in Procs, NEW place \in Places, Enters(p, place)
            PROVE  pc'[a] = "claimed" =>
                     pc[a] = "claimed" \/ (ClaimContinuation(a) /\ row' # row)
        BY <1>2, <2>2, <4>3 DEF Enters, Goto
      <4> QED
        BY <4>1, <4>2, <4>3, PcMoves
    <3> QED
      BY <2>1, <2>3, <2>4, <2>6, <3>1 DEF ClaimsSpend
  <2> QED
    BY <2>5, <2>6, RunsMove
<1> QED
  BY <1>3, <1>4 DEF ClaimsSpend

-----------------------------------------------------------------------------
(***************************************************************************)
(* A cancelled context stays cancelled as long as its goroutine is there.  *)
(***************************************************************************)
LEMMA DeadStays ==
    ASSUME BgShape, [BgNext]_bgVars
    PROVE  \A p \in Procs : p \in dead \ dead' => pc'[p] \in {"idle", "gone"}
<1> USE DEF process
<1>1. ASSUME dead \subseteq dead'
      PROVE  \A p \in Procs : p \in dead \ dead' => pc'[p] \in {"idle", "gone"}
  BY <1>1
<1>2. ASSUME NEW p \in Procs, NEW place \in {"idle", "gone"}, Goto(p, place), Forget(p)
      PROVE  \A q \in Procs : q \in dead \ dead' => pc'[q] \in {"idle", "gone"}
  BY <1>2 DEF Goto, Forget, BgShape, ProcessType
<1>3. ASSUME NEW t \in Turns, TurnStep(t) PROVE dead \subseteq dead'
  BY <1>3 DEF TurnStep, Submit, StopFence, StopAttempts, StopRunning, Recover,
              CancelOldAttempts, Begin, AbortState, AbortEvent, StopUnchanged
<1>4. ASSUME NEW a \in Attempts, AttemptStep(a)
      PROVE  dead \subseteq dead' \/ (Goto(a, "idle") /\ Forget(a))
  BY <1>4 DEF AttemptStep, BeginAttempt, GiveUpAcquire, Reread, Verify, ClaimContinuation,
              ClaimedCancelled, BeginContinued, Remove, Blocked, Return
<1>5. ASSUME NEW p \in Procs, RunStep(p)
      PROVE  dead \subseteq dead' \/ (Goto(p, "gone") /\ Forget(p))
  <2>1. CASE Ack(p) \/ Final(p) \/ Deliver(p) \/ Acquire(p) \/ Park(p) \/ AfterPark(p)
    BY <2>1 DEF Ack, Final, Deliver, Acquire, Park, AfterPark, LoopUnchanged
  <2>2. CASE \/ Break(p) \/ Judge(p) \/ Settle(p) \/ Close(p) \/ SaveConversation(p)
             \/ Finish(p)
    BY <2>2 DEF Break, Judge, Settle, Close, SaveConversation, Finish
  <2>3. CASE \/ \E j \in Jobs : StartJob(p, j) \/ JobWait(p, j)
             \/ \E J \in SUBSET Jobs : Yield(p, J)
    BY <2>3 DEF StartJob, JobWait, Yield, LoopUnchanged
  <2> QED
    BY <1>5, <2>1, <2>2, <2>3 DEF RunStep
<1>6. ASSUME NEW j \in Jobs, JobExit(j) \/ RecordRuntimeInput(j) \/ GiveUpRecord(j) \/ JobDone(j)
      PROVE  dead \subseteq dead'
  BY <1>6 DEF JobExit, RecordRuntimeInput, GiveUpRecord, JobDone, JobUnchanged
<1>7. ASSUME NEW n, NotifyRead(n) \/ NotifyStart(n) PROVE dead \subseteq dead'
  BY <1>7 DEF NotifyRead, NotifyStart, HintUnchanged
<1>8. ASSUME OutsideStep PROVE dead \subseteq dead' \/ Restart
  BY <1>8 DEF OutsideStep, Connect, Grant, Disconnect, Suspend, SuspendActive,
     BeginExclusive, EndExclusive, ConnUnchanged, ArchiveUnchanged
<1>9. ASSUME Restart
      PROVE  \A p \in Procs : p \in dead \ dead' => pc'[p] \in {"idle", "gone"}
  BY <1>9 DEF Restart
<1>10. CASE UNCHANGED bgVars
  BY <1>10 DEF bgVars
<1>11. Attempts \subseteq Procs
  BY DEF Procs
<1> QED
  BY BgStepCases, <1>1, <1>2, <1>3, <1>4, <1>5, <1>6, <1>7, <1>8, <1>9, <1>10, <1>11

(***************************************************************************)
(* A stop leaves its fence through the attempts, or dies with the process. *)
(***************************************************************************)
LEMMA FenceLeft ==
    ASSUME BgShape, [BgNext]_bgVars, NEW t \in Turns, stopper[t] = "fenced",
           stopper'[t] # "fenced"
    PROVE  StopAttempts(t) \/ Restart
<1> USE DEF environment
<1>1. ASSUME NEW u \in Turns, TurnStep(u) PROVE StopAttempts(t)
  <2>1. CASE StopAttempts(u) \/ StopFence(u) \/ StopRunning(u)
    BY <2>1 DEF StopAttempts, StopFence, StopRunning, BgShape, OutsideType
  <2>2. CASE \/ Submit(u) \/ Recover(u) \/ CancelOldAttempts(u) \/ Begin(u) \/ AbortState(u)
             \/ AbortEvent(u)
    BY <2>2 DEF Submit, Recover, CancelOldAttempts, Begin, AbortState, AbortEvent
  <2> QED
    BY <1>1, <2>1, <2>2 DEF TurnStep
<1>2. ASSUME NEW a \in Attempts, AttemptStep(a) PROVE FALSE
  BY <1>2 DEF AttemptStep, BeginAttempt, GiveUpAcquire, Reread, Verify, ClaimContinuation,
              ClaimedCancelled, BeginContinued, Remove, Blocked, Return
<1>3. ASSUME NEW p \in Procs, RunStep(p) PROVE FALSE
  <2>1. CASE Ack(p) \/ Final(p) \/ Deliver(p) \/ Acquire(p) \/ Park(p) \/ AfterPark(p)
    BY <2>1 DEF Ack, Final, Deliver, Acquire, Park, AfterPark, LoopUnchanged
  <2>2. CASE \/ Break(p) \/ Judge(p) \/ Settle(p) \/ Close(p) \/ SaveConversation(p)
             \/ Finish(p)
    BY <2>2 DEF Break, Judge, Settle, Close, SaveConversation, Finish
  <2>3. CASE \/ \E j \in Jobs : StartJob(p, j) \/ JobWait(p, j)
             \/ \E J \in SUBSET Jobs : Yield(p, J)
    BY <2>3 DEF StartJob, JobWait, Yield, LoopUnchanged
  <2> QED
    BY <1>3, <2>1, <2>2, <2>3 DEF RunStep
<1>4. ASSUME NEW j \in Jobs, JobExit(j) \/ RecordRuntimeInput(j) \/ GiveUpRecord(j) \/ JobDone(j)
      PROVE  FALSE
  BY <1>4 DEF JobExit, RecordRuntimeInput, GiveUpRecord, JobDone, JobUnchanged
<1>5. ASSUME NEW n, NotifyRead(n) \/ NotifyStart(n) PROVE FALSE
  BY <1>5 DEF NotifyRead, NotifyStart, HintUnchanged
<1>6. ASSUME OutsideStep PROVE Restart
  BY <1>6 DEF OutsideStep, Connect, Grant, Disconnect, Suspend, SuspendActive,
     BeginExclusive, EndExclusive, ConnUnchanged, ArchiveUnchanged
<1>7. CASE UNCHANGED bgVars
  BY <1>7 DEF bgVars
<1> QED
  BY BgStepCases, <1>1, <1>2, <1>3, <1>4, <1>5, <1>6, <1>7

(***************************************************************************)
(* After the fence nobody claims the turn again, and the attempts that had *)
(* claimed it are registered when the stop visits them.  The other way to  *)
(* stop a row is the end of the run that holds the permit.                 *)
(***************************************************************************)
LEMMA StopKillsStep ==
    ASSUME BgShape, ClaimsSpend, StopKills, [BgNext]_bgVars
    PROVE  StopKills'
<1> DEFINE live == {"claimed", "running", "acking"}
<1> SUFFICES ASSUME row'.state = "stopped", row'.turn \in Turns,
                    stopper'[row'.turn] # "fenced",
                    NEW a \in Attempts, a[1] = row'.turn, pc'[a] \in live
             PROVE  a \in dead'
  BY DEF StopKills
<1>1. a \in Procs /\ a[2] > 0 /\ pc \in [Procs -> Places]
  BY ProcPair, BackgroundAssumption DEF Procs, BgShape, ProcessType
<1>2. ~Restart
  BY <1>1 DEF Restart
<1>3. CASE row' = row
  <2>1. pc[a] \in live
    <3>1. CASE pc' = pc
      BY <3>1
    <3>2. ASSUME NEW p \in Procs, NEW place \in Places, Enters(p, place) PROVE pc[a] \in live
      BY <1>1, <1>3, <3>2 DEF Enters, Goto
    <3> QED
      BY <1>2, <3>1, <3>2, PcMoves
  <2>2. CASE stopper[row.turn] # "fenced"
    <3>1. a \in dead
      BY <1>3, <2>1, <2>2 DEF StopKills
    <3> QED
      BY <1>1, <3>1, DeadStays
  <2>3. CASE stopper[row.turn] = "fenced"
    <3>1. StopAttempts(row.turn)
      BY <1>2, <1>3, <2>3, FenceLeft
    <3> QED
      BY <1>3, <2>1, <3>1 DEF StopAttempts, Registered
  <2> QED
    BY <2>2, <2>3
<1>4. CASE Ended
  <2>1. PICK p \in Procs : pc'[p] = "closed"
    BY <1>4 DEF Ended, SameRevision
  <2>2. PermitExclusive'
    BY ShapeStep DEF BgShape
  <2>3. p = a
    BY <1>1, <2>1, <2>2 DEF PermitExclusive, Holding, Executing
  <2> QED
    BY <2>1, <2>3
<1>5. CASE Replaced \/ Advanced \/ ParkedNext
  BY <1>5 DEF Replaced, Advanced, ParkedNext
<1> QED
  BY <1>3, <1>4, <1>5, RowMoves DEF RowMoved

-----------------------------------------------------------------------------
(***************************************************************************)
(* What concerns neither the messages nor the receipts: the processes that *)
(* have the conversation stay where they have it, and no finished job runs *)
(* again.                                                                  *)
(***************************************************************************)
LEMMA MessagesUntouched ==
    ASSUME MessagesAgree, BgShape, UNCHANGED <<hist, runtimeIn, owed, mem>>,
           \A p \in Procs : /\ pc'[p] \in Loaded => pc[p] \in Loaded
                            /\ pc'[p] = "acking" <=> pc[p] = "acking",
           \A j \in Jobs : /\ job'[j] \in {"none", "running", "exited"} =>
                                 job[j] \in {"none", "running", "exited"}
                           /\ job[j] = "done" => job'[j] = "done"
    PROVE  MessagesAgree'
<1>1. owed \in [Procs -> SUBSET Jobs]
  BY DEF BgShape, ProcessType
<1> QED
  BY <1>1 DEF MessagesAgree

(***************************************************************************)
(* One process moves, to or from a place where it does not acknowledge.    *)
(***************************************************************************)
LEMMA MessagesMove ==
    ASSUME MessagesAgree, BgShape, UNCHANGED <<hist, runtimeIn, owed, mem, job>>,
           NEW p \in Procs, NEW place, Goto(p, place), pc[p] # "acking", place # "acking",
           place \in Loaded => pc[p] \in Loaded
    PROVE  MessagesAgree'
<1>1. \A q \in Procs : /\ pc'[q] \in Loaded => pc[q] \in Loaded
                       /\ pc'[q] = "acking" <=> pc[q] = "acking"
  BY DEF Goto, BgShape, ProcessType
<1> QED
  BY <1>1, MessagesUntouched

(***************************************************************************)
(* A process saves the conversation it has in memory, which is the saved   *)
(* one: nobody else has written it while it holds the permit.              *)
(***************************************************************************)
LEMMA MessagesSaved ==
    ASSUME MessagesAgree, NEW p \in Procs, pc[p] \in Loaded \ {"acking"}, hist' = mem[p]
    PROVE  hist' = hist
BY DEF MessagesAgree

(***************************************************************************)
(* A process reads the conversation.                                       *)
(***************************************************************************)
LEMMA MessagesLoaded ==
    ASSUME MessagesAgree, BgShape, UNCHANGED <<hist, runtimeIn, owed, job>>,
           NEW p \in Procs, NEW place, Goto(p, place), pc[p] # "acking", place # "acking",
           mem' = [mem EXCEPT ![p] = hist]
    PROVE  MessagesAgree'
<1>1. /\ pc'[p] = place /\ mem'[p] = hist /\ owed[p] = {}
      /\ \A q \in Procs : q # p => pc'[q] = pc[q] /\ mem'[q] = mem[q]
  BY DEF BgShape, ProcessType, Goto, MessagesAgree
<1> QED
  BY <1>1 DEF MessagesAgree

(***************************************************************************)
(* A process that returns forgets its locals.                              *)
(***************************************************************************)
LEMMA MessagesForgotten ==
    ASSUME MessagesAgree, BgShape, UNCHANGED <<hist, runtimeIn, job>>,
           NEW p \in Procs, NEW place \in {"idle", "gone"}, Goto(p, place), Forget(p)
    PROVE  MessagesAgree'
BY DEF MessagesAgree, BgShape, ProcessType, Goto, Forget, Loaded, Executing

(***************************************************************************)
(* A checkpoint of the process that has the permit writes each result and  *)
(* its receipt in one transaction.                                         *)
(***************************************************************************)
LEMMA MessagesCheckpointed ==
    ASSUME MessagesAgree, BgShape, UNCHANGED job, NEW p \in Procs, pc[p] \in {"running", "acking"},
           NEW D \in SUBSET Jobs, Checkpoint(p, D), pc'[p] # "acking",
           \A q \in Procs : q # p => pc'[q] = pc[q]
    PROVE  MessagesAgree'
<1>1. /\ runtimeIn' \in [Jobs -> Inputs] /\ owed' = [owed EXCEPT ![p] = {}]
      /\ mem' = [mem EXCEPT ![p] = hist'] /\ hist' \in Messages
      /\ \A j \in Jobs :
            /\ runtimeIn'[j] = IF j \in owed[p] /\ runtimeIn[j] = "absent" THEN "receipt"
                               ELSE IF j \in owed[p] \cup D /\ runtimeIn[j] = "pending"
                               THEN "delivered" ELSE runtimeIn[j]
            /\ hist'[j] = IF j \in D \ owed[p] /\ runtimeIn[j] = "pending"
                          THEN AppendRuntime(mem[p][j]) ELSE mem[p][j]
  BY CheckpointEffect DEF BgShape
<1>2. /\ owed \in [Procs -> SUBSET Jobs] /\ mem \in [Procs -> Messages]
      /\ \A j \in Jobs : runtimeIn[j] \in Inputs
  BY DEF BgShape, ProcessType, DurableType
<1>3. \A j \in Jobs : mem[p][j] = hist[j] \/ (j \in owed[p] /\ hist[j] = "no" /\ mem[p][j] = "tool")
  BY DEF MessagesAgree, Loaded, Executing
<1>4. ASSUME NEW j \in Jobs
      PROVE  /\ hist'[j] # "twice"
             /\ runtimeIn'[j] \in {"receipt", "delivered"} <=> hist'[j] # "no"
             /\ job'[j] \in {"none", "running", "exited"} => runtimeIn'[j] = "absent"
  <2>1. /\ hist[j] # "twice"
        /\ runtimeIn[j] \in {"receipt", "delivered"} <=> hist[j] # "no"
        /\ job'[j] \in {"none", "running", "exited"} => runtimeIn[j] = "absent"
        /\ j \in owed[p] => job[j] = "done"
    BY DEF MessagesAgree
  <2>2. CASE j \in owed[p]
    <3>1. hist'[j] = mem[p][j] /\ mem[p][j] \in {hist[j], "tool"}
      BY <1>1, <1>3, <2>2
    <3>2. runtimeIn'[j] \in {"receipt", "delivered"}
      BY <1>1, <1>2, <2>2 DEF Inputs
    <3>3. hist'[j] # "no"
      <4>1. CASE mem[p][j] = "tool"
        BY <3>1, <4>1
      <4>2. CASE mem[p][j] = hist[j] /\ hist[j] # "no"
        BY <3>1, <4>2
      <4>3. CASE mem[p][j] = hist[j] /\ hist[j] = "no"
        BY <2>2, <4>3 DEF MessagesAgree
      <4> QED
        BY <3>1, <4>1, <4>2, <4>3
    <3> QED
      BY <2>1, <2>2, <3>1, <3>2, <3>3
  <2>3. CASE j \notin owed[p]
    <3>1. mem[p][j] = hist[j]
      BY <1>3, <2>3
    <3> QED
      BY <1>1, <2>1, <2>3, <3>1 DEF AppendRuntime
  <2> QED
    BY <2>2, <2>3
<1>5. ASSUME NEW q \in Procs
      PROVE  /\ pc'[q] # "acking" => owed'[q] = {}
             /\ \A j \in owed'[q] : job'[j] = "done" /\ mem'[q][j] # "no"
             /\ pc'[q] \in Loaded \ {"acking"} => mem'[q] = hist'
             /\ pc'[q] = "acking" =>
                   \A j \in Jobs : \/ mem'[q][j] = hist'[j]
                                   \/ j \in owed'[q] /\ hist'[j] = "no" /\ mem'[q][j] = "tool"
  <2>1. CASE q = p
    BY <1>1, <1>2, <2>1
  <2>2. CASE q # p
    <3>1. pc'[q] = pc[q] /\ mem'[q] = mem[q] /\ owed'[q] = owed[q]
      BY <1>1, <1>2, <2>2
    <3>2. pc[q] \notin Loaded
      BY <2>2 DEF BgShape, PermitExclusive, Loaded, Holding, Executing
    <3> QED
      BY <3>1, <3>2 DEF MessagesAgree, Loaded, Executing
  <2> QED
    BY <2>1, <2>2
<1> QED
  BY <1>4, <1>5 DEF MessagesAgree

(***************************************************************************)
(* job_wait returns a result that the process then owes a receipt for.     *)
(***************************************************************************)
LEMMA MessagesAwaited ==
    ASSUME MessagesAgree, BgShape, NEW p \in Procs, NEW j \in Jobs, JobWait(p, j)
    PROVE  MessagesAgree'
<1>1. /\ pc[p] = "running" /\ job[j] = "done"
      /\ mem' = [mem EXCEPT ![p][j] = IF @ = "no" THEN "tool" ELSE @]
      /\ owed' = [owed EXCEPT ![p] = @ \cup {j}]
      /\ pc' = [pc EXCEPT ![p] = "acking"]
      /\ UNCHANGED <<runtimeIn, hist, job>>
  BY DEF JobWait, Goto
<1>2. /\ owed \in [Procs -> SUBSET Jobs] /\ mem \in [Procs -> Messages]
      /\ pc \in [Procs -> Places]
  BY DEF BgShape, ProcessType
<1>3. mem[p] = hist /\ owed[p] = {}
  BY <1>1 DEF MessagesAgree, Loaded, Executing
<1>4. ASSUME NEW q \in Procs
      PROVE  /\ pc'[q] # "acking" => owed'[q] = {}
             /\ \A i \in owed'[q] : job'[i] = "done" /\ mem'[q][i] # "no"
             /\ pc'[q] \in Loaded \ {"acking"} => mem'[q] = hist'
             /\ pc'[q] = "acking" =>
                   \A i \in Jobs : \/ mem'[q][i] = hist'[i]
                                   \/ i \in owed'[q] /\ hist'[i] = "no" /\ mem'[q][i] = "tool"
  <2>1. CASE q = p
    <3>1. pc'[p] = "acking" /\ owed'[p] = {j}
      BY <1>1, <1>2, <1>3
    <3>2. \A i \in Jobs : mem'[p][i] = IF i = j /\ hist[i] = "no" THEN "tool" ELSE hist[i]
      BY <1>1, <1>2, <1>3 DEF Messages
    <3> QED
      BY <1>1, <2>1, <3>1, <3>2
  <2>2. CASE q # p
    <3>1. pc'[q] = pc[q] /\ mem'[q] = mem[q] /\ owed'[q] = owed[q]
      BY <1>1, <1>2, <2>2
    <3> QED
      BY <1>1, <3>1 DEF MessagesAgree
  <2> QED
    BY <2>1, <2>2
<1>5. ASSUME NEW i \in Jobs
      PROVE  /\ hist'[i] # "twice"
             /\ runtimeIn'[i] \in {"receipt", "delivered"} <=> hist'[i] # "no"
             /\ job'[i] \in {"none", "running", "exited"} => runtimeIn'[i] = "absent"
  BY <1>1 DEF MessagesAgree
<1> QED
  BY <1>4, <1>5 DEF MessagesAgree

(***************************************************************************)
(* The operations that name a turn, and the messages.                      *)
(***************************************************************************)
LEMMA TurnStepMessages ==
    ASSUME MessagesAgree, BgShape, NEW t \in Turns, TurnStep(t)
    PROVE  MessagesAgree'
<1> USE DEF durable, process, environment
<1>0. <<t, 0>> \in Procs
  BY SubmissionProc
<1>1. CASE Submit(t) \/ CancelOldAttempts(t)
  BY <1>0, <1>1, MessagesMove DEF Submit, CancelOldAttempts, Loaded, Executing
<1>2. CASE Recover(t) \/ AbortState(t) \/ AbortEvent(t)
  BY <1>0, <1>2, MessagesMove DEF Recover, AbortState, AbortEvent, Loaded, Executing
<1>3. CASE StopFence(t) \/ StopAttempts(t)
  <2>1. UNCHANGED <<pc, hist, runtimeIn, owed, mem, job>>
    BY <1>3 DEF StopFence, StopAttempts, StopUnchanged
  <2> QED
    BY <2>1, MessagesUntouched
<1>4. CASE StopRunning(t)
  <2>1. UNCHANGED <<hist, runtimeIn, owed, mem, job>>
    BY <1>4 DEF StopRunning, StopUnchanged
  <2>2. CASE pc' = pc
    BY <2>1, <2>2, MessagesUntouched
  <2>3. ASSUME NEW p \in Procs, NEW place \in {"aborting", "exit"}, pc[p] \in Waiting,
               Goto(p, place)
        PROVE  MessagesAgree'
    BY <2>1, <2>3, MessagesMove DEF Waiting, Loaded, Executing
  <2> QED
    BY <1>4, <2>2, <2>3 DEF StopRunning
<1>5. CASE Begin(t)
  BY <1>0, <1>5, MessagesLoaded DEF Begin
<1> QED
  BY <1>1, <1>2, <1>3, <1>4, <1>5 DEF TurnStep

(***************************************************************************)
(* The operations of an attempt, and the messages.                         *)
(***************************************************************************)
LEMMA AttemptStepMessages ==
    ASSUME MessagesAgree, BgShape, NEW a \in Attempts, AttemptStep(a)
    PROVE  MessagesAgree'
<1> USE DEF durable, environment
<1>0. a \in Procs
  BY DEF Procs
<1>1. ASSUME pc[a] # "acking", Goto(a, "exit"), UNCHANGED <<hist, runtimeIn, owed, mem, job>>
      PROVE  MessagesAgree'
  BY <1>0, <1>1, MessagesMove DEF Loaded, Executing
<1>2. ASSUME pc[a] # "acking", Blocked(a) \/ Return(a) PROVE MessagesAgree'
  BY <1>1, <1>2 DEF Blocked, Return
<1>3. CASE BeginAttempt(a)
  <2>1. CASE Blocked(a)
    BY <1>2, <1>3, <2>1 DEF BeginAttempt
  <2>2. CASE Goto(a, "acquire") /\ UNCHANGED <<hist, runtimeIn, owed, mem, job>>
    BY <1>0, <1>3, <2>2, MessagesMove DEF BeginAttempt, Loaded, Executing
  <2> QED
    BY <1>3, <2>1, <2>2 DEF BeginAttempt
<1>4. CASE GiveUpAcquire(a)
  BY <1>2, <1>4 DEF GiveUpAcquire
<1>5. CASE Reread(a)
  <2>1. CASE Return(a)
    BY <1>2, <1>5, <2>1 DEF Reread
  <2>2. CASE Goto(a, "verify") /\ UNCHANGED <<hist, runtimeIn, owed, mem, job>>
    BY <1>0, <1>5, <2>2, MessagesMove DEF Reread, Loaded, Executing
  <2> QED
    BY <1>5, <2>1, <2>2 DEF Reread
<1>6. CASE Verify(a)
  <2>1. CASE Blocked(a)
    BY <1>2, <1>6, <2>1 DEF Verify
  <2>2. CASE /\ Goto(a, "claim") /\ mem' = [mem EXCEPT ![a] = hist]
             /\ UNCHANGED <<hist, runtimeIn, owed, job>>
    BY <1>0, <1>6, <2>2, MessagesLoaded DEF Verify
  <2> QED
    BY <1>6, <2>1, <2>2 DEF Verify
<1>7. CASE ClaimContinuation(a)
  <2>1. CASE Return(a)
    BY <1>2, <1>7, <2>1 DEF ClaimContinuation
  <2>2. CASE Goto(a, "claimed") /\ UNCHANGED <<hist, runtimeIn, owed, mem, job>>
    BY <1>0, <1>7, <2>2, MessagesMove DEF ClaimContinuation, Loaded
  <2> QED
    BY <1>7, <2>1, <2>2 DEF ClaimContinuation
<1>8. CASE ClaimedCancelled(a)
  <2>1. CASE Blocked(a)
    BY <1>2, <1>8, <2>1 DEF ClaimedCancelled
  <2>2. CASE hist' = mem[a] /\ Goto(a, "exit") /\ UNCHANGED <<runtimeIn, owed, mem, job>>
    <3>1. pc[a] = "claimed"
      BY <1>8 DEF ClaimedCancelled
    <3>2. hist' = hist
      BY <1>0, <2>2, <3>1, MessagesSaved DEF Loaded
    <3> QED
      BY <1>1, <2>2, <3>1, <3>2
  <2> QED
    BY <1>8, <2>1, <2>2 DEF ClaimedCancelled
<1>9. CASE BeginContinued(a)
  BY <1>0, <1>9, MessagesMove DEF BeginContinued, Loaded
<1>10. CASE Remove(a)
  BY <1>0, <1>10, MessagesForgotten DEF Remove
<1> QED
  BY <1>3, <1>4, <1>5, <1>6, <1>7, <1>8, <1>9, <1>10 DEF AttemptStep

(***************************************************************************)
(* The operations of a run, and the messages.                              *)
(***************************************************************************)
LEMMA RunStepMessages ==
    ASSUME MessagesAgree, BgShape, NEW p \in Procs, RunStep(p)
    PROVE  MessagesAgree'
<1> USE DEF durable, environment
<1>0. pc \in [Procs -> Places]
  BY DEF BgShape, ProcessType
<1>1. CASE Acquire(p)
  BY <1>1, MessagesMove DEF Acquire, Waiting, Loaded, Executing
<1>2. CASE Ack(p)
  <2>1. /\ Checkpoint(p, {}) /\ pc[p] = "acking" /\ pc'[p] = "running" /\ job' = job
        /\ \A q \in Procs : q # p => pc'[q] = pc[q]
    BY <1>0, <1>2 DEF Ack, Goto
  <2> QED
    BY <2>1, MessagesCheckpointed
<1>3. CASE Final(p)
  <2>1. /\ Checkpoint(p, {}) /\ pc[p] = "running" /\ pc'[p] = "ended" /\ job' = job
        /\ \A q \in Procs : q # p => pc'[q] = pc[q]
    BY <1>0, <1>3 DEF Final, EndsWith, Goto
  <2> QED
    BY <2>1, MessagesCheckpointed
<1>4. CASE Deliver(p)
  <2>1. PICK D \in SUBSET Jobs : Checkpoint(p, D)
    BY <1>4 DEF Deliver, Deliverable
  <2>2. pc[p] = "running" /\ pc' = pc /\ job' = job
    BY <1>4 DEF Deliver
  <2> QED
    BY <2>1, <2>2, MessagesCheckpointed
<1>5. CASE Park(p)
  <2>1. pc[p] = "parking" /\ UNCHANGED <<runtimeIn, owed, mem, job>>
    BY <1>5 DEF Park
  <2>2. hist' = hist
    BY <1>5, <2>1, MessagesSaved DEF Park, Loaded, Executing
  <2>3. PICK place \in {"ended", "parked"} : Goto(p, place)
    BY <1>5 DEF Park, EndsWith
  <2> QED
    BY <2>1, <2>2, <2>3, MessagesMove DEF Loaded, Executing
<1>6. CASE AfterPark(p)
  <2>1. PICK place \in {"ended", "notify"} : Goto(p, place)
    BY <1>6 DEF AfterPark, EndsWith
  <2> QED
    BY <1>6, <2>1, MessagesMove DEF AfterPark, Loaded, Executing
<1>7. CASE Break(p) \/ Judge(p)
  <2>1. PICK place \in {"ended", "judged"} : Goto(p, place)
    BY <1>7 DEF Break, Judge, EndsWith
  <2>2. pc[p] \in {"running", "ended"} /\ UNCHANGED <<hist, runtimeIn, owed, mem, job>>
    BY <1>7 DEF Break, Judge
  <2> QED
    BY <2>1, <2>2, MessagesMove DEF Loaded, Executing
<1>8. CASE Settle(p) \/ Close(p)
  <2>1. PICK place \in {"settled", "closed"} : Goto(p, place)
    BY <1>8 DEF Settle, Close
  <2>2. pc[p] \in {"judged", "settled"} /\ UNCHANGED <<hist, runtimeIn, owed, mem, job>>
    BY <1>8 DEF Settle, Close
  <2> QED
    BY <2>1, <2>2, MessagesMove DEF Loaded, Executing
<1>9. CASE SaveConversation(p)
  <2>1. pc[p] = "closed" /\ Goto(p, "saved") /\ UNCHANGED <<runtimeIn, owed, mem, job>>
    BY <1>9 DEF SaveConversation
  <2>2. hist' = hist
    BY <1>9, <2>1, MessagesSaved DEF SaveConversation, Loaded, Executing
  <2> QED
    BY <2>1, <2>2, MessagesMove DEF Loaded, Executing
<1>10. CASE Finish(p)
  <2>1. CASE p[2] = 0
    BY <1>10, <2>1, MessagesForgotten DEF Finish
  <2>2. CASE p[2] # 0
    BY <1>10, <2>2, MessagesMove DEF Finish, Loaded, Executing
  <2> QED
    BY <2>1, <2>2
<1>11. ASSUME NEW j \in Jobs, StartJob(p, j) PROVE MessagesAgree'
  <2>1. UNCHANGED <<pc, hist, runtimeIn, owed, mem>>
    BY <1>11 DEF StartJob
  <2>2. \A i \in Jobs : /\ job'[i] \in {"none", "running", "exited"} =>
                             job[i] \in {"none", "running", "exited"}
                        /\ job[i] = "done" => job'[i] = "done"
    BY <1>11 DEF StartJob, BgShape, OutsideType
  <2> QED
    BY <2>1, <2>2, MessagesUntouched
<1>12. ASSUME NEW j \in Jobs, JobWait(p, j) PROVE MessagesAgree'
  BY <1>12, MessagesAwaited
<1>13. ASSUME NEW J \in SUBSET Jobs, Yield(p, J) PROVE MessagesAgree'
  BY <1>13, MessagesMove DEF Yield, Loaded, Executing
<1> QED
  BY <1>1, <1>2, <1>3, <1>4, <1>5, <1>6, <1>7, <1>8, <1>9, <1>10, <1>11, <1>12, <1>13 DEF RunStep

(***************************************************************************)
(* The saved messages and the receipts agree after every step: the end of  *)
(* a job is recorded once, before anybody can have seen its result, and a  *)
(* restart loses what was not saved together with what was not owed.       *)
(***************************************************************************)
LEMMA MessagesAgreeStep ==
    ASSUME MessagesAgree, BgShape, [BgNext]_bgVars
    PROVE  MessagesAgree'
<1> USE DEF durable, process, environment
<1>0. job \in [Jobs -> JobStates] /\ runtimeIn \in [Jobs -> Inputs]
  BY DEF BgShape, OutsideType, DurableType
<1>1. ASSUME NEW j \in Jobs, JobExit(j) \/ GiveUpRecord(j) \/ JobDone(j)
      PROVE  MessagesAgree'
  <2>1. UNCHANGED <<pc, hist, runtimeIn, owed, mem>>
    BY <1>1 DEF JobExit, GiveUpRecord, JobDone, JobUnchanged
  <2>2. \A i \in Jobs : /\ job'[i] \in {"none", "running", "exited"} =>
                             job[i] \in {"none", "running", "exited"}
                        /\ job[i] = "done" => job'[i] = "done"
    BY <1>0, <1>1 DEF JobExit, GiveUpRecord, JobDone
  <2> QED
    BY <2>1, <2>2, MessagesUntouched
<1>2. ASSUME NEW j \in Jobs, RecordRuntimeInput(j) PROVE MessagesAgree'
  <2>1. /\ job[j] = "exited" /\ job' = [job EXCEPT ![j] = "recorded"]
        /\ UNCHANGED <<pc, hist, owed, mem>>
        /\ runtimeIn' = [runtimeIn EXCEPT ![j] = IF @ = "receipt" THEN "delivered" ELSE "pending"]
    BY <1>2 DEF RecordRuntimeInput, JobUnchanged
  <2>2. runtimeIn[j] = "absent"
    BY <2>1 DEF MessagesAgree
  <2>3. /\ runtimeIn'[j] = "pending" /\ job'[j] = "recorded"
        /\ \A i \in Jobs : i # j => runtimeIn'[i] = runtimeIn[i] /\ job'[i] = job[i]
    BY <1>0, <2>1, <2>2
  <2>4. \A p \in Procs : \A i \in owed[p] : i \in Jobs /\ i # j
    BY <2>1 DEF MessagesAgree, BgShape, ProcessType
  <2> QED
    BY <2>1, <2>2, <2>3, <2>4 DEF MessagesAgree
<1>3. ASSUME NEW n \in Notifiers, NotifyRead(n) \/ NotifyStart(n) PROVE MessagesAgree'
  <2>1. UNCHANGED <<hist, runtimeIn, owed, mem, job>>
    BY <1>3 DEF NotifyRead, NotifyStart, HintUnchanged
  <2>2. CASE pc' = pc
    BY <2>1, <2>2, MessagesUntouched
  <2>3. CASE hint[n] \in Attempts /\ pc[hint[n]] = "idle" /\ Goto(hint[n], "begin")
    <3>1. hint[n] \in Procs
      BY <2>3 DEF Procs
    <3> QED
      BY <2>1, <2>3, <3>1, MessagesMove DEF Loaded, Executing
  <2> QED
    BY <1>3, <2>2, <2>3 DEF NotifyRead, NotifyStart
<1>4. ASSUME OutsideStep, ~Restart PROVE MessagesAgree'
  <2>1. UNCHANGED <<pc, hist, runtimeIn, owed, mem, job>>
    BY <1>4 DEF OutsideStep, Connect, Grant, Disconnect, Suspend, SuspendActive,
       BeginExclusive, EndExclusive, ConnUnchanged, ArchiveUnchanged
  <2> QED
    BY <2>1, MessagesUntouched
<1>5. CASE Restart
  <2>1. /\ UNCHANGED <<hist, runtimeIn>>
        /\ \A p \in Procs : owed'[p] = {} /\ pc'[p] \in {"idle", "gone"}
        /\ \A j \in Jobs : job'[j] = IF job[j] = "none" THEN "none" ELSE "lost"
    BY <1>5 DEF Restart
  <2> QED
    BY <2>1 DEF MessagesAgree, Loaded, Executing
<1>6. CASE UNCHANGED bgVars
  <2>1. UNCHANGED <<pc, hist, runtimeIn, owed, mem, job>>
    BY <1>6 DEF bgVars
  <2> QED
    BY <2>1, MessagesUntouched
<1> QED
  BY BgStepCases, TurnStepMessages, AttemptStepMessages, RunStepMessages, <1>1, <1>2, <1>3,
     <1>4, <1>5, <1>6

-----------------------------------------------------------------------------
(***************************************************************************)
(* The inductive invariant.                                                *)
(***************************************************************************)
LEMMA BgInductive == BgSpec => []BgIInv
<1>1. BgInit => BgIInv
  <2> SUFFICES ASSUME BgInit PROVE BgIInv
    OBVIOUS
  <2> USE DEF BgInit
  <2>1. row = EmptyRow /\ EmptyRow \in Rows
    BY BackgroundAssumption, Written DEF EmptyRow, Rows, Revisions
  <2>2. DurableType
    <3>1. ends \in Logs
      BY DEF Logs
    <3>2. inbox \in [Turns -> InputStates] /\ runtimeIn \in [Jobs -> Inputs]
      BY DEF InputStates, Inputs
    <3> QED
      BY <2>1, <3>1, <3>2, Written DEF DurableType
  <2>3. ProcessType
    BY Written DEF ProcessType
  <2>4. OutsideType
    <3>1. hint \in [Notifiers -> Hints] /\ job \in [Jobs -> JobStates]
      BY DEF Hints, JobStates
    <3>2. stopper \in [Turns -> StopStates]
      BY DEF StopStates
    <3>3. budget \in 0..MaxEvents
      BY BackgroundAssumption
    <3>4. runs \in [Attempts -> Nat]
      OBVIOUS
    <3>5. /\ support \in BOOLEAN /\ susp \in BOOLEAN /\ suspending \in BOOLEAN
          /\ excl \in BOOLEAN /\ dropped \in BOOLEAN
          /\ conn \in {"off", "claimed", "granted"}
      OBVIOUS
    <3> QED
      BY <3>1, <3>2, <3>3, <3>4, <3>5 DEF OutsideType
  <2>5. row.state = "none" /\ row.turn = NoTurn
    BY <2>1 DEF EmptyRow
  <2>6. RowParked /\ NoMissedCompletion /\ StopKills
    BY <2>5 DEF RowParked, NoMissedCompletion, StopKills
  <2>7. ParkingBounded /\ PermitExclusive
    BY DEF ParkingBounded, PermitExclusive, Holding, Executing
  <2>8. ClaimsSpend
    BY <2>5, BackgroundAssumption DEF ClaimsSpend, Executing, Procs
  <2>9. MessagesAgree
    BY DEF MessagesAgree, Loaded, Executing
  <2> QED
    BY <2>2, <2>3, <2>4, <2>6, <2>7, <2>8, <2>9 DEF BgIInv, BgShape
<1>2. BgIInv /\ [BgNext]_bgVars => BgIInv'
  BY ShapeStep, NoMissedCompletionStep, ClaimsSpendStep, StopKillsStep, MessagesAgreeStep
  DEF BgIInv
<1> QED
  BY <1>1, <1>2, PTL DEF BgSpec

(***************************************************************************)
(* The state is well formed, and a parked revision is continued at most    *)
(* once whatever hints, reconnections, late workers and restarts try       *)
(* (ClaimContinuation, resumeBackground).                                  *)
(***************************************************************************)
THEOREM ContinuedAtMostOnce == BgSpec => []BgInv
<1>1. BgIInv => BgInv
  <2> SUFFICES ASSUME BgIInv PROVE BgInv
    OBVIOUS
  <2>1. BgTypeOK
    BY TypeParts DEF BgIInv, BgShape
  <2>2. ASSUME NEW a \in Attempts
        PROVE  runs[a] <= 1 /\ (pc[a] \in {"claimed"} \cup Executing => ~Current(a))
    <3>1. a[2] \in Nat
      BY ProcPair DEF Procs
    <3>2. row.rev \in Nat
      BY BackgroundAssumption DEF BgIInv, BgShape, DurableType, Rows, Revisions
    <3>3. runs[a] <= 1 /\ (pc[a] \in {"claimed"} \cup Executing => Spent(a))
      BY DEF BgIInv, ClaimsSpend
    <3>4. Spent(a) => ~Current(a)
      BY <3>1, <3>2 DEF Spent, Current
    <3> QED
      BY <3>3, <3>4
  <2> QED
    BY <2>1, <2>2 DEF BgInv, ContinuedOnce
<1> QED
  BY <1>1, BgInductive, PTL

(***************************************************************************)
(* When a targeted stop has returned, no worker that continues the stopped *)
(* turn runs with a live context (CancelTurn against resumeBackground).    *)
(***************************************************************************)
THEOREM StopReachesEveryAttempt == BgSpec => []StopReachesAttempts
<1>1. BgIInv => StopReachesAttempts
  BY DEF BgIInv, StopKills, StopReachesAttempts
<1> QED
  BY <1>1, BgInductive, PTL

(***************************************************************************)
(* The result of a job is in the saved messages whenever its receipt is    *)
(* durable, and never twice (CheckpointRuntimeInputs, job_wait, the saves  *)
(* around a crash).                                                        *)
(***************************************************************************)
THEOREM ResultDeliveredOnce == BgSpec => []ResultOnce
<1>1. BgIInv => ResultOnce
  BY DEF BgIInv, MessagesAgree, ResultOnce
<1> QED
  BY <1>1, BgInductive, PTL

(***************************************************************************)
(* No row waits for an input that is already there (ParkContinuation       *)
(* against RecordRuntimeInput).                                            *)
(***************************************************************************)
THEOREM NoCompletionMissed == BgSpec => []NoMissedCompletion
<1>1. BgIInv => NoMissedCompletion
  BY DEF BgIInv
<1> QED
  BY <1>1, BgInductive, PTL
=============================================================================
