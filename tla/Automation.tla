----------------------------- MODULE Automation -----------------------------
(***************************************************************************)
(* Scheduled tasks (internal/automation): the durable table of automations *)
(* and the daemon's one loop, which lists the due ones, dispatches each    *)
(* and waits for its turn to end, and then writes the outcome back.  Users *)
(* pause, enable, reschedule and delete automations meanwhile, and the     *)
(* daemon may die and come back.                                           *)
(*                                                                         *)
(* A time unit is RetryInterval.  The writes that follow a turn take       *)
(* milliseconds, so the clock stands still during them.                    *)
(***************************************************************************)
EXTENDS Integers, Sequences, FiniteSets, SequencesExt

CONSTANTS
    Automations,   \* ids
    Schedules,     \* the (type, sched) pairs a user may choose: a once
                   \* automation's scheduled_at, a recurring one's period
    MaxRetries,    \* MaxRetries
    Horizon,       \* bound: the last time of the model
    MaxRestarts,   \* bound: how often the daemon dies
    Events         \* which of Occurrences may happen

(***************************************************************************)
(*   editDuringTurn   users enable or reschedule an automation while its   *)
(*                    turn runs (pausing it is always possible);           *)
(*   racingUpdate     two calls of Update overlap;                         *)
(*   pauseWhenListed  users pause or delete an automation that the loop    *)
(*                    has listed as due and not dispatched yet.            *)
(***************************************************************************)
Occurrences == {"editDuringTurn", "racingUpdate", "pauseWhenListed"}

ScheduleTypes == {"once", "recurring"}

ASSUME AutomationAssumption ==
    /\ IsFiniteSet(Automations)
    /\ Schedules \subseteq ScheduleTypes \X (1..Horizon)
    /\ MaxRetries \in Nat \ {0}
    /\ Horizon \in Nat \ {0}
    /\ MaxRestarts \in Nat
    /\ Events \subseteq Occurrences

VARIABLES
    now,       \* the clock
    rows,      \* the table automations
    failures,  \* the failed runs in automation_runs since a run succeeded or
               \* was skipped by an active workflow, or a user revived the row
    over,      \* a run in automation_runs that is not a failed one is newer
               \* than the last time a user armed the automation
    restarts,  \* how often the daemon died
    at,        \* where the loop is
    due,       \* tick's list, from the one being fired on: ids and snapshots
    outcome,   \* how the turn being fired ended
    image,     \* the row as the loop's Update read it
    user       \* a user's Update between its read and its write

runs == <<failures, over>>
loopVars == <<at, due, outcome, image>>
vars == <<now, rows, runs, restarts, loopVars, user>>

Times == 0..(2 * Horizon)
Row == [status : {"none", "ACTIVE", "PAUSED", "COMPLETED"},
        type : ScheduleTypes, sched : Times, next : Times, lastRun : Times,
        retries : 0..MaxRetries, deleted : BOOLEAN]
\* A patch changes the status, or the schedule, or neither.
Patches == [status : {"ACTIVE", "PAUSED"}] \cup [schedule : Schedules]
RunStatuses == {"succeeded", "failed", "canceled", "skipped"}
LoopPlaces == {"idle", "fire", "dispatching", "reuse", "reusing", "ended",
               "writing", "advancing"}
NoRow == [status |-> "none", type |-> "once", sched |-> 0, next |-> 0,
          lastRun |-> 0, retries |-> 0, deleted |-> FALSE]
Nobody == [id |-> "none"]

(***************************************************************************)
(* Type correctness of the table, of the run history and of the loop; in   *)
(* particular the failure counter never exceeds MaxRetries.                *)
(***************************************************************************)
AutoTypeOK ==
    /\ now \in 0..Horizon
    /\ rows \in [Automations -> Row]
    /\ failures \in [Automations -> 0..(MaxRetries + 1)]
    /\ over \in [Automations -> BOOLEAN]
    /\ restarts \in 0..MaxRestarts
    /\ at \in LoopPlaces
    /\ due \in Seq([id : Automations, row : Row])
    /\ outcome \in RunStatuses \cup {"none"}
    /\ image \in Row
    /\ user = Nobody \/ user \in [id : Automations, patch : Patches, row : Row]

Init ==
    /\ now = 1
    /\ rows = [a \in Automations |-> NoRow]
    /\ failures = [a \in Automations |-> 0]
    /\ over = [a \in Automations |-> FALSE]
    /\ restarts = 0
    /\ at = "idle"
    /\ due = <<>>
    /\ outcome = "none"
    /\ image = NoRow
    /\ user = Nobody

-----------------------------------------------------------------------------
(* The store.                                                              *)

\* computeNextRunAt: a once automation's scheduled_at, whatever the time; a
\* recurring one's first time on its grid strictly after the given one.
NextRunAt(row, after) ==
    IF row.type = "once" THEN row.sched
    ELSE (after \div row.sched + 1) * row.sched

\* Mutant: an automation is due from the next millisecond on.
DueAfter(row, time) ==
    row.status = "ACTIVE" /\ ~row.deleted /\ row.next < time

\* NextDueAt's filter.
DueAt(row, time) ==
    row.status = "ACTIVE" /\ ~row.deleted /\ row.next <= time

\* NextDueAt: the due automations by next_run_at, equal times in any order.
DueLists ==
    LET orders == SetToSeqs({a \in Automations : DueAt(rows[a], now)})
        sorted == {q \in orders : \A i, j \in DOMAIN q :
                                     i < j => rows[q[i]].next <= rows[q[j]].next}
    IN  {[i \in DOMAIN q |-> [id |-> q[i], row |-> rows[q[i]]]] : q \in sorted}

\* RecordRun, for what the properties look at in the table of runs.
RecordRun(a, status) ==
    /\ over' = [over EXCEPT ![a] = @ \/ status # "failed"]
    /\ failures' = [failures EXCEPT ![a] =
                      CASE status = "failed" -> IF @ > MaxRetries THEN @ ELSE @ + 1
                        [] status = "canceled" -> @
                        [] OTHER -> 0]

\* Update's status patch: a revival resets the failure counter and computes
\* the next run from now (reArm).
WithStatus(row, patch) ==
    LET active == [row EXCEPT !.status = patch.status]
    IN  IF patch.status = "ACTIVE" /\ row.status # "ACTIVE"
        THEN [active EXCEPT !.retries = 0, !.next = NextRunAt(active, now)]
        ELSE active

\* Mutant: the next run is kept.
ScheduleOnly(row, patch) ==
    [row EXCEPT !.type = patch.schedule[1], !.sched = patch.schedule[2]]

\* Update's schedule patch: the next run is computed from the last one.
WithSchedule(row, patch) ==
    LET changed == [row EXCEPT !.type = patch.schedule[1],
                               !.sched = patch.schedule[2]]
    IN  [changed EXCEPT !.next = NextRunAt(changed, row.lastRun)]

\* Update's UPDATE statement writes every column but deleted_at and the run
\* count.
Store(a, row) ==
    rows' = [rows EXCEPT ![a] = [row EXCEPT !.deleted = rows[a].deleted]]

\* No other Update is between its read and its write.
Unraced(others) == "racingUpdate" \in Events \/ others

-----------------------------------------------------------------------------
(* The loop.                                                               *)

Fired == due[1].id
Snapshot == due[1].row

Tick ==
    /\ at = "idle"
    /\ Unraced(user = Nobody)
    /\ due' \in DueLists \ {<<>>}
    /\ at' = "fire"
    /\ UNCHANGED <<now, rows, runs, restarts, outcome, image, user>>

\* fire, up to Dispatch.  The running flag of automation_runtime_state, set
\* here and cleared later, is never read.
Fire ==
    /\ at = "fire"
    /\ at' = "dispatching"
    /\ UNCHANGED <<now, rows, runs, restarts, due, outcome, image, user>>

\* Dispatch returns when the turn is over, and the run is recorded.  Skipped
\* is the answer of a workflow whose previous run is still active.  A first
\* firing in reuse mode has a conversation id to write back.
DispatchEnds(status) ==
    /\ at = "dispatching"
    /\ outcome' = status
    /\ RecordRun(Fired, status)
    /\ \/ at' = "ended"
       \/ status = "succeeded" /\ at' = "reuse"
    /\ UNCHANGED <<now, rows, restarts, due, image, user>>

\* Update, up to its Get: of the conversation id, or of the outcome.
ReadRow ==
    /\ Unraced(user = Nobody)
    /\ \/ at = "reuse" /\ at' = "reusing"
       \/ at = "ended" /\ at' = "writing"
    /\ image' = rows[Fired]
    /\ UNCHANGED <<now, rows, runs, restarts, due, outcome, user>>

\* The conversation id is written, with the rest of the row as it was read.
WriteSession ==
    /\ at = "reusing"
    /\ at' = "ended"
    /\ Store(Fired, image)
    /\ UNCHANGED <<now, runs, restarts, due, outcome, image, user>>

Retries == Snapshot.retries + 1

\* Mutant: one retry too many.
CappedLate == outcome = "failed" /\ Retries > MaxRetries

\* A failure at the retry cap.
Capped == outcome = "failed" /\ Retries >= MaxRetries

\* Mutant: the status of the snapshot is written back.
SnapshotStatus ==
    CASE Capped /\ Snapshot.type = "recurring" -> "PAUSED"
      [] Capped \/ (outcome # "failed" /\ Snapshot.type = "once") -> "COMPLETED"
      [] OTHER -> Snapshot.status

\* Mutant: a once automation stays active.
StatusUnlessCapped ==
    CASE Capped /\ Snapshot.type = "recurring" -> "PAUSED"
      [] Capped -> "COMPLETED"
      [] OTHER -> image.status

\* The status fire writes: only a once automation that is over and a failure
\* at the cap change it.
StatusAfterFiring ==
    CASE Capped /\ Snapshot.type = "recurring" -> "PAUSED"
      [] Capped \/ (outcome # "failed" /\ Snapshot.type = "once") -> "COMPLETED"
      [] OTHER -> image.status

\* Update's UPDATE, with the outcome.
WriteOutcome ==
    /\ at = "writing"
    /\ at' = "advancing"
    /\ Store(Fired, [image EXCEPT
                       !.status = StatusAfterFiring,
                       !.retries = CASE outcome = "failed" -> Retries
                                     [] outcome = "canceled" -> @
                                     [] OTHER -> 0,
                       !.lastRun = now])
    /\ UNCHANGED <<now, runs, restarts, due, outcome, image, user>>

\* UpdateNextRunAt, the last write of fire.
AdvanceNextRun ==
    /\ at = "advancing"
    /\ Unraced(user = Nobody)
    /\ rows' = [rows EXCEPT ![Fired].next =
                  CASE outcome = "failed" -> IF Capped THEN 0 ELSE now + 1
                    [] outcome # "failed" /\ Snapshot.type = "recurring" ->
                         NextRunAt(Snapshot, now)
                    [] OTHER -> 0]
    /\ due' = Tail(due)
    /\ at' = IF Len(due) = 1 THEN "idle" ELSE "fire"
    /\ outcome' = "none"
    /\ image' = NoRow
    /\ UNCHANGED <<now, runs, restarts, user>>

-----------------------------------------------------------------------------
(* Users.                                                                  *)

InHand(a) == \E i \in 1..Len(due) : due[i].id = a
Listed(a) == \E i \in 1..Len(due) : due[i].id = a /\ (i > 1 \/ at = "fire")

Create(a, schedule) ==
    LET row == [NoRow EXCEPT !.status = "ACTIVE", !.type = schedule[1],
                             !.sched = schedule[2]]
    IN  /\ rows[a].status = "none"
        /\ rows' = [rows EXCEPT ![a] = [row EXCEPT !.next = NextRunAt(row, now)]]
        /\ UNCHANGED <<now, runs, restarts, loopVars, user>>

\* What a deployment lets users do to an automation the loop has in hand.
Timely(a, patch) ==
    IF patch = [status |-> "PAUSED"]
    THEN "pauseWhenListed" \in Events \/ ~Listed(a)
    ELSE "editDuringTurn" \in Events \/ ~InHand(a)

\* PATCH of an automation: Update, up to its Get.
UserReads(a, patch) ==
    /\ user = Nobody
    /\ rows[a].status # "none" /\ ~rows[a].deleted
    /\ Timely(a, patch)
    /\ Unraced(at \notin {"reusing", "writing"})
    /\ user' = [id |-> a, patch |-> patch, row |-> rows[a]]
    /\ UNCHANGED <<now, rows, runs, restarts, loopVars>>

\* Update's UPDATE.  Enabling and rescheduling arm the automation anew.
UserWrites ==
    /\ user # Nobody
    /\ user' = Nobody
    /\ IF "status" \in DOMAIN user.patch
       THEN Store(user.id, WithStatus(user.row, user.patch))
       ELSE Store(user.id, WithSchedule(user.row, user.patch))
    /\ LET revived == /\ user.patch = [status |-> "ACTIVE"]
                      /\ user.row.status # "ACTIVE"
           armed == revived \/ "schedule" \in DOMAIN user.patch
       IN  /\ failures' = IF revived THEN [failures EXCEPT ![user.id] = 0]
                                     ELSE failures
           /\ over' = IF armed THEN [over EXCEPT ![user.id] = FALSE] ELSE over
    /\ UNCHANGED <<now, restarts, loopVars>>

Delete(a) ==
    /\ rows[a].status # "none" /\ ~rows[a].deleted
    /\ "pauseWhenListed" \in Events \/ ~Listed(a)
    /\ rows' = [rows EXCEPT ![a].deleted = TRUE]
    /\ UNCHANGED <<now, runs, restarts, loopVars, user>>

-----------------------------------------------------------------------------
\* The clock.
Passes ==
    /\ now < Horizon
    /\ at \in {"idle", "fire", "dispatching"} /\ user = Nobody
    /\ now' = now + 1
    /\ UNCHANGED <<rows, runs, restarts, loopVars, user>>

\* SkipDue's effect on a row that is due at startup.
Skipped(row, time) ==
    [row EXCEPT !.next = IF row.type = "recurring" THEN NextRunAt(row, time)
                                                   ELSE 0]

\* The daemon dies, is down for a while, and reconciles before its loop
\* starts: what is overdue is recorded as skipped.
Restart ==
    /\ restarts < MaxRestarts
    /\ restarts' = restarts + 1
    /\ now' \in now..Horizon
    /\ rows' = [a \in Automations |->
                  IF DueAt(rows[a], now') THEN Skipped(rows[a], now')
                                          ELSE rows[a]]
    /\ over' = [a \in Automations |-> over[a] \/ DueAt(rows[a], now')]
    /\ UNCHANGED failures
    /\ at' = "idle" /\ due' = <<>> /\ outcome' = "none"
    /\ image' = NoRow /\ user' = Nobody

Loop ==
    \/ Tick \/ Fire \/ \E status \in RunStatuses : DispatchEnds(status)
    \/ ReadRow \/ WriteSession \/ WriteOutcome \/ AdvanceNextRun

Next ==
    \/ Loop
    \/ \E a \in Automations :
         \/ \E schedule \in Schedules : Create(a, schedule)
         \/ \E patch \in Patches : UserReads(a, patch)
         \/ Delete(a)
    \/ UserWrites
    \/ Passes
    \/ Restart

Spec == Init /\ [][Next]_vars

(***************************************************************************)
(* The loop's goroutine runs, and the turns and requests under way end.    *)
(* Fairness is strong for the loop because Unraced holds it back while a   *)
(* user's Update is under way, which nothing in the code does: there the   *)
(* loop's step is always possible.                                         *)
(***************************************************************************)
FairSpec == Spec /\ SF_vars(Loop) /\ WF_vars(UserWrites)

-----------------------------------------------------------------------------
(* Properties.                                                             *)

(***************************************************************************)
(* "Skip, don't re-fire" and "executed once, then finished": a once        *)
(* automation is not dispatched again after a run of it succeeded, was     *)
(* cancelled or was recorded as skipped, unless a user armed it anew.      *)
(***************************************************************************)
OnceDropped ==
    at = "dispatching" /\ Snapshot.type = "once" =>
       ~over[Fired]

(***************************************************************************)
(* The state is well formed, and what is over is not dispatched again.     *)
(***************************************************************************)
AutoInv == AutoTypeOK /\ OnceDropped

(***************************************************************************)
(* "A failed firing retries up to MaxRetries times": the loop stops an     *)
(* automation for its failures after exactly MaxRetries of them in a row,  *)
(* counted from the last time a user revived it.                           *)
(***************************************************************************)
CapAfterRetries ==
    [][ WriteOutcome /\ outcome = "failed" /\ rows[Fired].status = "ACTIVE" =>
          (rows'[Fired].status # "ACTIVE" <=> failures[Fired] = MaxRetries) ]_vars

(***************************************************************************)
(* "A pause performed during the turn must survive this bookkeeping        *)
(* write": only a user makes an automation active.                         *)
(***************************************************************************)
PauseSurvives ==
    [][ \A a \in Automations :
          rows[a].status # "ACTIVE" /\ rows'[a].status = "ACTIVE" =>
             rows[a].status = "none" \/ UserWrites ]_vars

(***************************************************************************)
(* A recurring automation that is active and not deleted, has no retry     *)
(* pending and is not in the loop's hands runs next at a time of its own   *)
(* schedule, also when the daemon died between the writes of fire.         *)
(***************************************************************************)
CadenceKept ==
    \A a \in Automations :
       LET row == rows[a]
       IN  /\ row.type = "recurring" /\ row.status = "ACTIVE" /\ ~row.deleted
           /\ row.retries = 0 /\ ~InHand(a)
           => row.next % row.sched = 0

(***************************************************************************)
(* "Pausing and enabling take effect immediately": what the loop starts is *)
(* active and not deleted.                                                 *)
(***************************************************************************)
PausedNotFired ==
    [][ Fire => rows[Fired].status = "ACTIVE" /\ ~rows[Fired].deleted ]_vars

(***************************************************************************)
(* An active automation whose time has come is dispatched, unless a user   *)
(* stops it first.                                                         *)
(***************************************************************************)
DueIsFired ==
    \A a \in Automations :
       rows[a].status = "ACTIVE" /\ ~rows[a].deleted /\ rows[a].next <= now
          ~> \/ at = "dispatching" /\ Fired = a
             \/ ~(/\ rows[a].status = "ACTIVE" /\ ~rows[a].deleted
                  /\ rows[a].next <= now)
=============================================================================
