-------------------------- MODULE AutomationProofs --------------------------
(***************************************************************************)
(* Proofs about Automation, for every finite set of automations, every set *)
(* of schedules, every cap of the retries and every horizon.               *)
(*                                                                         *)
(* The results form layers, each under the weakest hypothesis its argument *)
(* needs:                                                                  *)
(*   TableInv     whatever users do and however often the daemon dies;     *)
(*   CopiesInv    as long as two calls of Update do not overlap;           *)
(*   HandInv      ... and users do not rearm an automation in its turn;    *)
(*   HistoryInv   ... and the daemon does not die.                         *)
(***************************************************************************)
EXTENDS Automation, FiniteSetTheorems, TLAPS

\* A row that was created has a schedule, and an active one is below the cap.
SaneRows ==
    {r \in Row : /\ r.status # "none" => r.sched \in 1..Horizon
                 /\ r.lastRun \in 0..Horizon
                 /\ r.status = "ACTIVE" => r.retries < MaxRetries}

RealRows == {r \in SaneRows : r.status # "none"}

\* After Dispatch has returned, and between Update's read and its write.
AfterTurn == {"reuse", "reusing", "ended", "writing", "advancing"}
InUpdate == {"reusing", "writing"}

\* Every row and every copy of one is sane; the loop's list is of rows that
\* exist and were active.
TableInv ==
    /\ AutoTypeOK
    /\ \A a \in Automations : rows[a] \in SaneRows
    /\ image \in SaneRows
    /\ at \in InUpdate => image.status # "none"
    /\ user # Nobody => user.row \in RealRows
    /\ \A i \in DOMAIN due : /\ due[i].row \in SaneRows /\ due[i].row.status = "ACTIVE"
                             /\ rows[due[i].id].status # "none"
    /\ at = "idle" <=> due = <<>>
    /\ at \in AfterTurn => outcome \in RunStatuses

\* Writing one of the two over the other, as Update does, changes nothing.
SameRow(r, s) ==
    /\ r.status = s.status /\ r.type = s.type /\ r.sched = s.sched
    /\ r.next = s.next /\ r.lastRun = s.lastRun /\ r.retries = s.retries

\* No copy that will be written back is older than the row.
CopiesInv ==
    /\ at \in InUpdate => user = Nobody /\ SameRow(image, rows[Fired])
    /\ user # Nobody => SameRow(user.row, rows[user.id])

\* The failure counter after the turn being fired.
RetriesAfter ==
    CASE outcome = "failed" -> Retries
      [] outcome = "canceled" -> Snapshot.retries
      [] OTHER -> 0

\* The loop's list names an automation once.
ListedOnce == \A i, j \in DOMAIN due : due[i].id = due[j].id => i = j

\* Until the last write of fire, a row in hand has schedule and counter of its
\* snapshot, but for the outcome, and is overdue.
RowsAsListed ==
    \A i \in DOMAIN due :
       LET r == rows[due[i].id]
           s == due[i].row
       IN  /\ r.type = s.type /\ r.sched = s.sched /\ r.next <= now
           /\ r.retries = IF i = 1 /\ at = "advancing" THEN RetriesAfter ELSE s.retries

\* A user's write under way to an automation in hand is a pause.
OnlyPauses == user # Nobody /\ InHand(user.id) => user.patch = [status |-> "PAUSED"]

HandInv == ListedOnce /\ RowsAsListed /\ OnlyPauses /\ CadenceKept

\* The runs recorded for an automation out of the loop's hands agree with its
\* row: as many failures as its counter says, and an active once automation is
\* not over.
Settled(r, f, o) == r.status = "ACTIVE" => f = r.retries /\ (r.type = "once" => ~o)

TableHistory ==
    \A a \in Automations :
       /\ rows[a].status = "none" => failures[a] = 0 /\ ~over[a]
       /\ ~InHand(a) => Settled(rows[a], failures[a], over[a])

\* What waits in the list agrees with its snapshot.
ListHistory ==
    \A i \in DOMAIN due :
       i > 1 \/ at \in {"fire", "dispatching"} =>
           /\ failures[due[i].id] = due[i].row.retries
           /\ due[i].row.type = "once" => ~over[due[i].id]

\* What is being fired agrees with what fire is about to write.
FiredHistory ==
    at \in AfterTurn =>
        /\ failures[Fired] = RetriesAfter
        /\ Snapshot.type = "once" =>
              IF outcome = "failed" THEN ~over[Fired]
              ELSE at = "advancing" => rows[Fired].status # "ACTIVE"

HistoryInv == TableHistory /\ ListHistory /\ FiredHistory

-----------------------------------------------------------------------------
(* The operators of the store.                                             *)

Statuses == {"none", "ACTIVE", "PAUSED", "COMPLETED"}

\* A recurring automation's next run is on its grid, at most a period later.
LEMMA OnGrid ==
    ASSUME AutomationAssumption, NEW p \in 1..Horizon, NEW t \in 0..Horizon
    PROVE  /\ (t \div p + 1) * p \in Times
           /\ ((t \div p + 1) * p) % p = 0
<1> DEFINE q == t \div p
<1>1. t = p * q + (t % p) /\ q \in Nat /\ t % p \in 0..(p - 1)
    BY DEF AutomationAssumption
<1> HIDE DEF q
<1>2. (q + 1) * p = q * p + p /\ q * p \in Nat /\ q * p <= t
    BY <1>1
<1>3. ((q + 1) * p) % p = 0
    BY <1>1
<1>4. (q + 1) * p \in Times
    BY <1>2 DEF AutomationAssumption, Times
<1> QED
    BY <1>3, <1>4 DEF q

\* NextRunAt is a time, for every row that has a schedule.
LEMMA NextIsTime ==
    ASSUME AutomationAssumption, NEW r, r.type \in ScheduleTypes,
           r.sched \in 1..Horizon, NEW t \in 0..Horizon
    PROVE  /\ NextRunAt(r, t) \in Times
           /\ r.type = "recurring" => NextRunAt(r, t) % r.sched = 0
<1>1. CASE r.type = "once"
    BY <1>1 DEF NextRunAt, Times, AutomationAssumption
<1>2. CASE r.type = "recurring"
    BY <1>2, OnGrid, NextRunAt(r, t) = (t \div r.sched + 1) * r.sched DEF NextRunAt
<1> QED
    BY <1>1, <1>2 DEF ScheduleTypes

\* NoRow is a row that was never created.
LEMMA NoRowSane ==
    ASSUME AutomationAssumption
    PROVE  NoRow \in SaneRows /\ NoRow.status = "none"
BY DEF NoRow, SaneRows, Row, ScheduleTypes, Times, AutomationAssumption

\* A row of the table with some columns replaced.
LEMMA NextSet ==
    ASSUME NEW r \in Row, NEW t \in Times, NEW n, n = [r EXCEPT !.next = t]
    PROVE  /\ n \in Row /\ n.next = t
           /\ n.status = r.status /\ n.type = r.type /\ n.sched = r.sched
           /\ n.lastRun = r.lastRun /\ n.retries = r.retries /\ n.deleted = r.deleted
BY DEF Row

\* Marking a row deleted changes nothing else of it.
LEMMA DeletedSet ==
    ASSUME NEW r \in Row, NEW b \in BOOLEAN, NEW n, n = [r EXCEPT !.deleted = b]
    PROVE  n \in Row /\ n.deleted = b /\ SameRow(n, r)
BY DEF Row, SameRow

\* Writing the status of a row changes nothing else of it.
LEMMA StatusSet ==
    ASSUME NEW r \in Row, NEW s \in Statuses, NEW n, n = [r EXCEPT !.status = s]
    PROVE  /\ n \in Row /\ n.status = s
           /\ n.type = r.type /\ n.sched = r.sched /\ n.next = r.next
           /\ n.lastRun = r.lastRun /\ n.retries = r.retries /\ n.deleted = r.deleted
BY DEF Row, Statuses

\* SameRow is an equivalence, and it carries the sanity of a row.
LEMMA SameSane ==
    ASSUME NEW r \in Row, NEW s \in SaneRows, SameRow(r, s)
    PROVE  r \in SaneRows
BY DEF SameRow, SaneRows

\* Update's status patch: only a revival changes more than the status.
LEMMA StatusPatched ==
    ASSUME AutomationAssumption, now \in 0..Horizon, NEW r \in RealRows,
           NEW patch, patch.status \in {"ACTIVE", "PAUSED"},
           NEW n, n = WithStatus(r, patch)
    PROVE  /\ n \in RealRows /\ n.status = patch.status
           /\ n.type = r.type /\ n.sched = r.sched /\ n.lastRun = r.lastRun
           /\ IF patch.status = "ACTIVE" /\ r.status # "ACTIVE"
              THEN n.retries = 0 /\ (n.type = "recurring" => n.next % n.sched = 0)
              ELSE n.retries = r.retries /\ n.next = r.next
<1> DEFINE c == [r EXCEPT !.status = patch.status]
           t == NextRunAt(c, now)
<1>0. r \in SaneRows /\ r \in Row /\ r.status # "none" /\ r.sched \in 1..Horizon
      /\ r.lastRun \in 0..Horizon
    BY DEF RealRows, SaneRows
<1>1. /\ c \in Row /\ c.status = patch.status
      /\ c.type = r.type /\ c.sched = r.sched /\ c.next = r.next
      /\ c.lastRun = r.lastRun /\ c.retries = r.retries
    BY <1>0, StatusSet, patch.status \in Statuses DEF Statuses
<1> HIDE DEF c
<1>2. c.type \in ScheduleTypes /\ c.sched \in 1..Horizon
    BY <1>0, <1>1 DEF Row
<1>3. t \in Times /\ (c.type = "recurring" => t % c.sched = 0)
    BY <1>2, NextIsTime
<1> HIDE DEF t
<1>4. CASE patch.status = "ACTIVE" /\ r.status # "ACTIVE"
  <2>1. n = [c EXCEPT !.retries = 0, !.next = t]
    BY <1>4 DEF WithStatus, c, t
  <2>2. /\ n \in Row /\ n.retries = 0 /\ n.next = t
        /\ n.status = c.status /\ n.type = c.type /\ n.sched = c.sched
        /\ n.lastRun = c.lastRun
    BY <2>1, <1>1, <1>3, 0 \in 0..MaxRetries DEF Row, AutomationAssumption
  <2>3. n \in RealRows
    BY <2>2, <1>1, <1>0 DEF RealRows, SaneRows, AutomationAssumption
  <2> QED
    BY <2>2, <2>3, <1>4, <1>1, <1>3
<1>5. CASE ~(patch.status = "ACTIVE" /\ r.status # "ACTIVE")
  <2>1. n = c
    BY <1>5 DEF WithStatus, c
  <2>2. n \in RealRows
    BY <2>1, <1>1, <1>0, <1>5 DEF RealRows, SaneRows
  <2> QED
    BY <2>1, <2>2, <1>1, <1>5
<1> QED
    BY <1>4, <1>5

\* Update's schedule patch: a recurring automation is back on its grid.
LEMMA SchedulePatched ==
    ASSUME AutomationAssumption, NEW r \in RealRows,
           NEW patch, patch.schedule \in Schedules,
           NEW n, n = WithSchedule(r, patch)
    PROVE  /\ n \in RealRows /\ n.status = r.status /\ n.retries = r.retries
           /\ n.lastRun = r.lastRun
           /\ n.type = "recurring" => n.next % n.sched = 0
<1> DEFINE y == patch.schedule[1]
           s == patch.schedule[2]
           c == [r EXCEPT !.type = y, !.sched = s]
           t == NextRunAt(c, r.lastRun)
<1>0. r \in SaneRows /\ r \in Row /\ r.status # "none" /\ r.lastRun \in 0..Horizon
    BY DEF RealRows, SaneRows
<1>1. y \in ScheduleTypes /\ s \in 1..Horizon /\ s \in Times
    BY DEF AutomationAssumption, Times
<1>n. n = [c EXCEPT !.next = t]
    BY DEF WithSchedule
<1> HIDE DEF y, s
<1>2. /\ c \in Row /\ c.type = y /\ c.sched = s
      /\ c.status = r.status /\ c.next = r.next
      /\ c.lastRun = r.lastRun /\ c.retries = r.retries
    BY <1>0, <1>1 DEF Row
<1> HIDE DEF c
<1>3. t \in Times /\ (c.type = "recurring" => t % c.sched = 0)
    BY <1>0, <1>1, <1>2, NextIsTime
<1> HIDE DEF t
<1>4. /\ n \in Row /\ n.next = t
      /\ n.status = c.status /\ n.type = c.type /\ n.sched = c.sched
      /\ n.lastRun = c.lastRun /\ n.retries = c.retries
    BY <1>n, <1>2, <1>3, NextSet
<1>5. n \in RealRows
    BY <1>4, <1>2, <1>0, <1>1 DEF RealRows, SaneRows
<1> QED
    BY <1>5, <1>4, <1>3, <1>2

\* What is skipped at startup only gets another next run, on its grid.
OnlyNextMoved(n, r) ==
    /\ n \in RealRows /\ n.status = r.status /\ n.type = r.type
    /\ n.sched = r.sched /\ n.retries = r.retries
    /\ n.type = "recurring" => n.next % n.sched = 0

\* SkipDue does no more.
LEMMA RowSkipped ==
    ASSUME AutomationAssumption, NEW r \in RealRows, NEW t \in 0..Horizon
    PROVE  OnlyNextMoved(Skipped(r, t), r)
<1> DEFINE x == IF r.type = "recurring" THEN NextRunAt(r, t) ELSE 0
           n == Skipped(r, t)
<1>0. r \in SaneRows /\ r \in Row /\ r.status # "none" /\ r.sched \in 1..Horizon
      /\ r.type \in ScheduleTypes
    BY DEF RealRows, SaneRows, Row
<1>1. NextRunAt(r, t) \in Times /\ (r.type = "recurring" => NextRunAt(r, t) % r.sched = 0)
    BY <1>0, NextIsTime
<1>2. x \in Times /\ (r.type = "recurring" => x % r.sched = 0)
    BY <1>1, 0 \in Times DEF Times, AutomationAssumption
<1>3. n = [r EXCEPT !.next = x]
    BY DEF Skipped
<1> HIDE DEF x, n
<1>4. /\ n \in Row /\ n.next = x
      /\ n.status = r.status /\ n.type = r.type /\ n.sched = r.sched
      /\ n.lastRun = r.lastRun /\ n.retries = r.retries
    BY <1>0, <1>2, <1>3, NextSet
<1> QED
    BY <1>4, <1>0, <1>2 DEF RealRows, SaneRows, OnlyNextMoved, n

\* NextDueAt lists every automation that is due, once, as the row stands.
LEMMA DueListed ==
    ASSUME AutomationAssumption, rows \in [Automations -> Row], NEW d \in DueLists
    PROVE  /\ d \in Seq([id : Automations, row : Row])
           /\ \A i \in DOMAIN d : d[i].row = rows[d[i].id] /\ DueAt(d[i].row, now)
           /\ \A i, j \in DOMAIN d : d[i].id = d[j].id => i = j
<1> DEFINE S == {a \in Automations : DueAt(rows[a], now)}
           N == Cardinality(S)
<1>1. N \in Nat
    BY FS_Subset, FS_CardinalityType DEF AutomationAssumption
<1>2. PICK q \in SetToSeqs(S) : d = [i \in DOMAIN q |-> [id |-> q[i], row |-> rows[q[i]]]]
    BY DEF DueLists
<1>3. q \in [1..N -> S] /\ \A i, j \in 1..N : i # j => q[i] # q[j]
    BY DEF SetToSeqs
<1> HIDE DEF N
<1>4. DOMAIN d = 1..N /\ \A i \in 1..N : q[i] \in S /\ d[i] = [id |-> q[i], row |-> rows[q[i]]]
    BY <1>2, <1>3
<1>5. \A i \in 1..N : /\ d[i].id = q[i] /\ d[i].row = rows[q[i]]
                      /\ d[i] \in [id : Automations, row : Row] /\ DueAt(rows[q[i]], now)
    BY <1>4
<1>6. d \in [1..N -> [id : Automations, row : Row]]
    BY <1>2, <1>3, <1>4, <1>5
<1>7. \A i \in DOMAIN d : d[i].row = rows[d[i].id] /\ DueAt(d[i].row, now)
    BY <1>4, <1>5
<1>8. \A i, j \in DOMAIN d : d[i].id = d[j].id => i = j
    BY <1>3, <1>4, <1>5
<1>9. d \in Seq([id : Automations, row : Row])
  <2> DEFINE E == [id : Automations, row : Row]
  <2>1. d \in [1..N -> E]
    BY <1>6
  <2> HIDE DEF E
  <2>2. d \in Seq(E)
    BY <1>1, <2>1
  <2> QED
    BY <2>2 DEF E
<1> QED
    BY <1>7, <1>8, <1>9

\* The list without its first entry.
LEMMA TailOf ==
    ASSUME NEW S, NEW d \in Seq(S), d # <<>>
    PROVE  /\ Len(d) \in Nat \ {0} /\ DOMAIN d = 1..Len(d) /\ 1 \in DOMAIN d /\ d[1] \in S
           /\ Tail(d) \in Seq(S) /\ (Len(d) = 1 <=> Tail(d) = <<>>)
           /\ Len(Tail(d)) = Len(d) - 1 /\ DOMAIN Tail(d) = 1..(Len(d) - 1)
           /\ \A i \in DOMAIN Tail(d) : i + 1 \in DOMAIN d /\ Tail(d)[i] = d[i + 1]
<1>1. Len(d) \in Nat \ {0} /\ DOMAIN d = 1..Len(d)
    OBVIOUS
<1>2. Tail(d) \in Seq(S) /\ Len(Tail(d)) = Len(d) - 1
    BY <1>1
<1>3. DOMAIN Tail(d) = 1..(Len(d) - 1)
    BY <1>1, <1>2
<1>4. \A i \in 1..(Len(d) - 1) : Tail(d)[i] = d[i + 1]
    BY <1>1
<1>5. Len(d) = 1 <=> Tail(d) = <<>>
    BY <1>1, <1>2
<1> QED
    BY <1>1, <1>2, <1>3, <1>4, <1>5

-----------------------------------------------------------------------------
(* What the actions write.                                                 *)

\* A step puts a row that exists in place of automation a's.
Writes(a, n) == n \in RealRows /\ rows' = [rows EXCEPT ![a] = n]

\* Away from idle the loop is firing an automation that exists.
LEMMA LoopHasOne ==
    ASSUME AutomationAssumption, TableInv, at # "idle"
    PROVE  /\ due # <<>> /\ DOMAIN due = 1..Len(due) /\ Len(due) \in Nat \ {0}
           /\ 1 \in DOMAIN due
           /\ Fired \in Automations /\ rows[Fired] \in RealRows /\ rows[Fired] \in Row
           /\ Snapshot \in SaneRows /\ Snapshot.status = "ACTIVE"
           /\ Snapshot.type \in ScheduleTypes /\ Snapshot.sched \in 1..Horizon
           /\ Snapshot.retries \in Nat /\ Snapshot.retries < MaxRetries
<1>1. due # <<>> /\ due \in Seq([id : Automations, row : Row])
    BY DEF TableInv, AutoTypeOK
<1>2. /\ DOMAIN due = 1..Len(due) /\ Len(due) \in Nat \ {0} /\ 1 \in DOMAIN due
      /\ due[1] \in [id : Automations, row : Row]
    BY <1>1, TailOf
<1>3. Fired \in Automations /\ Snapshot \in Row
    BY <1>2 DEF Fired, Snapshot
<1>4. /\ Snapshot \in SaneRows /\ Snapshot.status = "ACTIVE"
      /\ rows[Fired] \in RealRows
    BY <1>2, <1>3 DEF TableInv, Fired, Snapshot, RealRows
<1>5. /\ Snapshot.type \in ScheduleTypes /\ Snapshot.sched \in 1..Horizon
      /\ Snapshot.retries \in Nat /\ Snapshot.retries < MaxRetries
    BY <1>3, <1>4 DEF SaneRows, Row
<1> QED
    BY <1>1, <1>2, <1>3, <1>4, <1>5 DEF RealRows, SaneRows

\* Every row is one of the table's.
LEMMA RowsAreRows ==
    ASSUME TableInv, NEW a \in Automations
    PROVE  rows[a] \in Row /\ rows[a] \in SaneRows /\ rows[a].deleted \in BOOLEAN
BY DEF TableInv, SaneRows, Row

\* Update's UPDATE of a row that exists.
LEMMA Stored ==
    ASSUME TableInv, NEW a \in Automations, NEW r \in RealRows, Store(a, r)
    PROVE  \E n : Writes(a, n) /\ SameRow(n, r) /\ n.deleted = rows[a].deleted
<1> DEFINE n == [r EXCEPT !.deleted = rows[a].deleted]
<1>1. r \in Row /\ r \in SaneRows /\ r.status # "none"
    BY DEF RealRows, SaneRows
<1>2. n \in Row /\ n.deleted = rows[a].deleted /\ SameRow(n, r)
    BY <1>1, RowsAreRows, DeletedSet
<1>3. rows' = [rows EXCEPT ![a] = n]
    BY DEF Store
<1> HIDE DEF n
<1>4. n \in RealRows
    BY <1>1, <1>2, SameSane DEF RealRows, SameRow
<1> QED
    BY <1>2, <1>3, <1>4 DEF Writes

\* The conversation id is written with the row as it was read.
LEMMA SessionWritten ==
    ASSUME AutomationAssumption, TableInv, WriteSession
    PROVE  \E n : Writes(Fired, n) /\ SameRow(n, image) /\ n.deleted = rows[Fired].deleted
<1>1. at = "reusing" /\ Store(Fired, image)
    BY DEF WriteSession
<1>2. image \in RealRows
    BY <1>1 DEF TableInv, InUpdate, RealRows
<1> QED
    BY <1>1, <1>2, LoopHasOne, Stored

\* The status that fire writes.
LEMMA StatusWritten ==
    ASSUME AutomationAssumption, TableInv, at = "writing"
    PROVE  /\ StatusAfterFiring \in Statuses \ {"none"}
           /\ StatusAfterFiring = "ACTIVE" => image.status = "ACTIVE"
           /\ Capped => StatusAfterFiring # "ACTIVE"
           /\ ~Capped /\ (outcome = "failed" \/ Snapshot.type # "once") =>
                 StatusAfterFiring = image.status
           /\ outcome # "failed" /\ Snapshot.type = "once" => StatusAfterFiring = "COMPLETED"
<1>1. image.status \in Statuses \ {"none"}
    BY DEF TableInv, InUpdate, SaneRows, Row, Statuses
<1>2. Snapshot.type \in {"once", "recurring"}
    BY LoopHasOne DEF ScheduleTypes
<1>3. Capped => outcome = "failed"
    BY DEF Capped
<1> QED
    BY <1>1, <1>2, <1>3 DEF StatusAfterFiring, Statuses

\* The outcome is written over the row as it was read.
LEMMA OutcomeWritten ==
    ASSUME AutomationAssumption, TableInv, WriteOutcome
    PROVE  \E n : /\ Writes(Fired, n) /\ n.deleted = rows[Fired].deleted
                  /\ n.status = StatusAfterFiring
                  /\ n.type = image.type /\ n.sched = image.sched /\ n.next = image.next
                  /\ n.retries = CASE outcome = "failed" -> Retries
                                   [] outcome = "canceled" -> image.retries
                                   [] OTHER -> 0
<1> DEFINE c == CASE outcome = "failed" -> Retries
                  [] outcome = "canceled" -> image.retries
                  [] OTHER -> 0
           r == [image EXCEPT !.status = StatusAfterFiring, !.retries = c, !.lastRun = now]
<1>1. at = "writing" /\ Store(Fired, r)
    BY DEF WriteOutcome
<1>2. /\ image \in SaneRows /\ image \in Row /\ image.status # "none"
      /\ image.retries \in 0..MaxRetries /\ image.sched \in 1..Horizon
    BY <1>1 DEF TableInv, InUpdate, SaneRows, Row
<1>3. now \in 0..Horizon /\ now \in Times
    BY DEF TableInv, AutoTypeOK, Times, AutomationAssumption
<1>4. c \in 0..MaxRetries
    BY <1>1, <1>2, LoopHasOne DEF Retries, AutomationAssumption
<1>5. StatusAfterFiring = "ACTIVE" => c < MaxRetries
  <2>1. CASE outcome = "failed"
    BY <2>1, <1>1, LoopHasOne, StatusWritten DEF Capped, Retries, AutomationAssumption
  <2>2. CASE outcome # "failed"
    BY <2>2, <1>1, <1>2, StatusWritten DEF SaneRows, AutomationAssumption
  <2> QED
    BY <2>1, <2>2
<1>6. c = CASE outcome = "failed" -> Retries
            [] outcome = "canceled" -> image.retries
            [] OTHER -> 0
    OBVIOUS
<1> HIDE DEF c
<1>7. /\ r \in Row /\ r.status = StatusAfterFiring /\ r.retries = c /\ r.lastRun = now
      /\ r.type = image.type /\ r.sched = image.sched /\ r.next = image.next
    BY <1>1, <1>2, <1>3, <1>4, StatusWritten, StatusAfterFiring \in Statuses
       DEF Row, Statuses
<1> HIDE DEF r
<1>8. r \in RealRows
    BY <1>7, <1>1, <1>2, <1>3, <1>5, StatusWritten DEF RealRows, SaneRows
<1>9. PICK n : Writes(Fired, n) /\ SameRow(n, r) /\ n.deleted = rows[Fired].deleted
    BY <1>1, <1>8, LoopHasOne, Stored
<1> QED
    BY <1>6, <1>7, <1>9 DEF SameRow

\* fire's last write: the next run of the snapshot's schedule, or a retry.
LEMMA NextAdvanced ==
    ASSUME AutomationAssumption, TableInv, AdvanceNextRun
    PROVE  \E n : /\ Writes(Fired, n) /\ n.deleted = rows[Fired].deleted
                  /\ n.status = rows[Fired].status /\ n.type = rows[Fired].type
                  /\ n.sched = rows[Fired].sched /\ n.retries = rows[Fired].retries
                  /\ outcome # "failed" /\ Snapshot.type = "recurring" =>
                        n.next % Snapshot.sched = 0
<1> DEFINE t == CASE outcome = "failed" -> IF Capped THEN 0 ELSE now + 1
                  [] outcome # "failed" /\ Snapshot.type = "recurring" ->
                       NextRunAt(Snapshot, now)
                  [] OTHER -> 0
           n == [rows[Fired] EXCEPT !.next = t]
<1>1. at = "advancing" /\ rows' = [rows EXCEPT ![Fired] = n]
    BY DEF AdvanceNextRun
<1>2. now \in 0..Horizon
    BY DEF TableInv, AutoTypeOK
<1>3. /\ NextRunAt(Snapshot, now) \in Times
      /\ Snapshot.type = "recurring" => NextRunAt(Snapshot, now) % Snapshot.sched = 0
    BY <1>1, <1>2, LoopHasOne, NextIsTime
<1>4. 0 \in Times /\ now + 1 \in Times
    BY <1>2 DEF Times, AutomationAssumption
<1>5. /\ t \in Times
      /\ outcome # "failed" /\ Snapshot.type = "recurring" => t % Snapshot.sched = 0
  <2>1. CASE outcome = "failed"
    BY <2>1, <1>4
  <2>2. CASE outcome # "failed" /\ Snapshot.type = "recurring"
    BY <2>2, <1>3
  <2>3. CASE outcome # "failed" /\ Snapshot.type # "recurring"
    BY <2>3, <1>4
  <2> QED
    BY <2>1, <2>2, <2>3
<1> HIDE DEF t
<1>6. /\ n \in Row /\ n.next = t
      /\ n.status = rows[Fired].status /\ n.type = rows[Fired].type
      /\ n.sched = rows[Fired].sched /\ n.lastRun = rows[Fired].lastRun
      /\ n.retries = rows[Fired].retries /\ n.deleted = rows[Fired].deleted
    BY <1>1, <1>5, LoopHasOne, NextSet
<1> HIDE DEF n
<1>7. n \in RealRows
    BY <1>1, <1>6, LoopHasOne DEF RealRows, SaneRows
<1> QED
    BY <1>1, <1>5, <1>6, <1>7 DEF Writes

\* A user's Update either patches the status or the schedule.
LEMMA PatchIs ==
    ASSUME NEW p \in Patches
    PROVE  \/ /\ DOMAIN p = {"status"} /\ p.status \in {"ACTIVE", "PAUSED"}
              /\ p = [status |-> "PAUSED"] <=> p.status = "PAUSED"
              /\ p = [status |-> "ACTIVE"] <=> p.status = "ACTIVE"
           \/ /\ DOMAIN p = {"schedule"} /\ p.schedule \in Schedules
              /\ p # [status |-> "PAUSED"] /\ p # [status |-> "ACTIVE"]
<1>1. CASE p \in [status : {"ACTIVE", "PAUSED"}]
  <2>1. p.status \in {"ACTIVE", "PAUSED"} /\ p = [status |-> p.status]
    BY <1>1
  <2>2. DOMAIN p = {"status"}
    BY <1>1
  <2>3. [status |-> "ACTIVE"].status = "ACTIVE" /\ [status |-> "PAUSED"].status = "PAUSED"
    OBVIOUS
  <2> QED
    BY <2>1, <2>2, <2>3
<1>2. CASE p \in [schedule : Schedules]
  <2>1. p.schedule \in Schedules /\ DOMAIN p = {"schedule"}
    BY <1>2
  <2>2. DOMAIN [status |-> "ACTIVE"] = {"status"} /\ DOMAIN [status |-> "PAUSED"] = {"status"}
    OBVIOUS
  <2> QED
    BY <2>1, <2>2
<1> QED
    BY <1>1, <1>2 DEF Patches

\* The user's write.
LEMMA UserWritten ==
    ASSUME AutomationAssumption, TableInv, UserWrites
    PROVE  /\ user.id \in Automations /\ user.patch \in Patches /\ user.row \in RealRows
           /\ \E n : /\ Writes(user.id, n) /\ n.deleted = rows[user.id].deleted
                     /\ IF "status" \in DOMAIN user.patch
                        THEN /\ n.status = user.patch.status
                             /\ n.type = user.row.type /\ n.sched = user.row.sched
                             /\ IF user.patch.status = "ACTIVE" /\ user.row.status # "ACTIVE"
                                THEN n.retries = 0 /\ (n.type = "recurring" => n.next % n.sched = 0)
                                ELSE n.retries = user.row.retries /\ n.next = user.row.next
                        ELSE /\ n.status = user.row.status /\ n.retries = user.row.retries
                             /\ n.type = "recurring" => n.next % n.sched = 0
<1>1. /\ user.id \in Automations /\ user.patch \in Patches /\ user.row \in RealRows
      /\ now \in 0..Horizon
    BY DEF UserWrites, TableInv, AutoTypeOK
<1>2. CASE "status" \in DOMAIN user.patch
  <2> DEFINE r == WithStatus(user.row, user.patch)
  <2>1. user.patch.status \in {"ACTIVE", "PAUSED"}
    BY <1>1, <1>2, PatchIs
  <2>2. /\ r \in RealRows /\ r.status = user.patch.status
        /\ r.type = user.row.type /\ r.sched = user.row.sched
        /\ IF user.patch.status = "ACTIVE" /\ user.row.status # "ACTIVE"
           THEN r.retries = 0 /\ (r.type = "recurring" => r.next % r.sched = 0)
           ELSE r.retries = user.row.retries /\ r.next = user.row.next
    BY <2>1, <1>1, StatusPatched
  <2>3. Store(user.id, r)
    BY <1>2 DEF UserWrites
  <2> HIDE DEF r
  <2>4. PICK n : Writes(user.id, n) /\ SameRow(n, r) /\ n.deleted = rows[user.id].deleted
    BY <1>1, <2>2, <2>3, Stored
  <2> QED
    BY <1>1, <1>2, <2>2, <2>4 DEF SameRow
<1>3. CASE "status" \notin DOMAIN user.patch
  <2> DEFINE r == WithSchedule(user.row, user.patch)
  <2>1. user.patch.schedule \in Schedules
    BY <1>1, <1>3, PatchIs
  <2>2. /\ r \in RealRows /\ r.status = user.row.status /\ r.retries = user.row.retries
        /\ r.type = "recurring" => r.next % r.sched = 0
    BY <2>1, <1>1, SchedulePatched
  <2>3. Store(user.id, r)
    BY <1>3 DEF UserWrites
  <2> HIDE DEF r
  <2>4. PICK n : Writes(user.id, n) /\ SameRow(n, r) /\ n.deleted = rows[user.id].deleted
    BY <1>1, <2>2, <2>3, Stored
  <2> QED
    BY <1>1, <1>3, <2>2, <2>4 DEF SameRow
<1> QED
    BY <1>2, <1>3

\* A new automation starts on its schedule, with no failures.
LEMMA RowCreated ==
    ASSUME AutomationAssumption, TableInv, NEW a \in Automations, NEW s \in Schedules,
           Create(a, s)
    PROVE  \E n : /\ Writes(a, n) /\ n.status = "ACTIVE" /\ n.retries = 0
                  /\ n.type = "recurring" => n.next % n.sched = 0
<1> DEFINE y == s[1]
           p == s[2]
           r == [NoRow EXCEPT !.status = "ACTIVE", !.type = y, !.sched = p]
           t == NextRunAt(r, now)
           n == [r EXCEPT !.next = t]
<1>1. y \in ScheduleTypes /\ p \in 1..Horizon /\ p \in Times /\ now \in 0..Horizon
    BY DEF AutomationAssumption, Times, TableInv, AutoTypeOK
<1>2. rows' = [rows EXCEPT ![a] = n]
    BY DEF Create
<1> HIDE DEF y, p
<1>3. /\ r \in Row /\ r.status = "ACTIVE" /\ r.type = y /\ r.sched = p
      /\ r.lastRun = 0 /\ r.retries = 0
  <2>1. 0 \in Times /\ 0 \in 0..MaxRetries
    BY DEF Times, AutomationAssumption
  <2> QED
    BY <1>1, <2>1 DEF NoRow, Row
<1> HIDE DEF r
<1>4. t \in Times /\ (r.type = "recurring" => t % r.sched = 0)
    BY <1>1, <1>3, NextIsTime
<1> HIDE DEF t
<1>5. /\ n \in Row /\ n.next = t /\ n.status = r.status /\ n.type = r.type
      /\ n.sched = r.sched /\ n.lastRun = r.lastRun /\ n.retries = r.retries
    BY <1>3, <1>4, NextSet
<1> HIDE DEF n
<1>6. n \in RealRows
    BY <1>1, <1>3, <1>5 DEF RealRows, SaneRows, AutomationAssumption
<1> QED
    BY <1>2, <1>3, <1>4, <1>5, <1>6 DEF Writes

\* A deleted row keeps everything else.
LEMMA RowDeleted ==
    ASSUME TableInv, NEW a \in Automations, Delete(a)
    PROVE  \E n : Writes(a, n) /\ SameRow(n, rows[a]) /\ n.deleted
<1> DEFINE n == [rows[a] EXCEPT !.deleted = TRUE]
<1>1. rows' = [rows EXCEPT ![a] = n] /\ rows[a].status # "none"
    BY DEF Delete
<1>2. n \in Row /\ n.deleted = TRUE /\ SameRow(n, rows[a])
    BY RowsAreRows, DeletedSet
<1> HIDE DEF n
<1>3. n \in RealRows
    BY <1>1, <1>2, RowsAreRows, SameSane DEF RealRows, SameRow
<1> QED
    BY <1>1, <1>2, <1>3 DEF Writes

\* Reconciliation at startup.
LEMMA RowsReconciled ==
    ASSUME AutomationAssumption, TableInv, Restart
    PROVE  /\ now' \in 0..Horizon
           /\ \A a \in Automations :
                 /\ rows'[a] \in SaneRows
                 /\ rows'[a].status = rows[a].status /\ rows'[a].type = rows[a].type
                 /\ rows'[a].sched = rows[a].sched /\ rows'[a].retries = rows[a].retries
                 /\ IF DueAt(rows[a], now')
                    THEN rows'[a].type = "recurring" => rows'[a].next % rows'[a].sched = 0
                    ELSE rows'[a] = rows[a]
<1>1. now' \in 0..Horizon
    BY DEF Restart, TableInv, AutoTypeOK, AutomationAssumption
<1>2. ASSUME NEW a \in Automations, ~DueAt(rows[a], now')
      PROVE  rows'[a] = rows[a] /\ rows'[a] \in SaneRows
    BY <1>2, RowsAreRows DEF Restart
<1>3. ASSUME NEW a \in Automations, DueAt(rows[a], now')
      PROVE  /\ rows'[a] \in SaneRows
             /\ rows'[a].status = rows[a].status /\ rows'[a].type = rows[a].type
             /\ rows'[a].sched = rows[a].sched /\ rows'[a].retries = rows[a].retries
             /\ rows'[a].type = "recurring" => rows'[a].next % rows'[a].sched = 0
  <2>1. rows'[a] = Skipped(rows[a], now')
    BY <1>3 DEF Restart
  <2>2. rows[a] \in RealRows
    BY <1>3, RowsAreRows DEF DueAt, RealRows
  <2>3. OnlyNextMoved(rows'[a], rows[a])
    BY <2>1, <2>2, <1>1, RowSkipped
  <2> QED
    BY <2>3 DEF RealRows, OnlyNextMoved
<1> QED
    BY <1>1, <1>2, <1>3

-----------------------------------------------------------------------------
(* The table, whatever users and the daemon do.                            *)

\* One row is replaced and the others are as they were.
LEMMA Rewritten ==
    ASSUME TableInv, NEW a \in Automations, NEW n, Writes(a, n)
    PROVE  /\ rows' \in [Automations -> Row]
           /\ \A b \in Automations : /\ rows'[b] \in SaneRows
                                     /\ rows[b].status # "none" => rows'[b].status # "none"
                                     /\ b # a => rows'[b] = rows[b]
           /\ rows'[a] = n /\ n \in RealRows /\ n \in Row
<1>1. rows \in [Automations -> Row] /\ \A b \in Automations : rows[b] \in SaneRows
    BY DEF TableInv, AutoTypeOK
<1>2. n \in RealRows /\ n \in SaneRows /\ n \in Row /\ n.status # "none"
    BY DEF Writes, RealRows, SaneRows
<1>3. rows' = [rows EXCEPT ![a] = n]
    BY DEF Writes
<1> QED
    BY <1>1, <1>2, <1>3

\* What a sequence holds, and so what the loop has in hand.
LEMMA EntryOf ==
    ASSUME NEW S, NEW d \in Seq(S), NEW i \in DOMAIN d
    PROVE  d[i] \in S
OBVIOUS

\* The loop's list is of automations, with rows.
LEMMA ListedAreAutomations ==
    ASSUME TableInv, NEW i \in DOMAIN due
    PROVE  due[i].id \in Automations /\ due[i].row \in Row
<1>1. due \in Seq([id : Automations, row : Row])
    BY DEF TableInv, AutoTypeOK
<1>2. due[i] \in [id : Automations, row : Row]
    BY <1>1, EntryOf, Zenon
<1> QED
    BY <1>2

\* The empty table is sane.
LEMMA TableInit ==
    ASSUME AutomationAssumption, Init
    PROVE  TableInv
<1>1. AutoTypeOK
  <2>1. due \in Seq([id : Automations, row : Row])
    BY DEF Init
  <2>2. rows \in [Automations -> Row] /\ image \in Row
    BY NoRowSane DEF Init, SaneRows
  <2>3. now \in 0..Horizon /\ restarts \in 0..MaxRestarts /\ 0 \in 0..(MaxRetries + 1)
    BY DEF Init, AutomationAssumption
  <2> QED
    BY <2>1, <2>2, <2>3 DEF Init, AutoTypeOK, LoopPlaces
<1>2. \A a \in Automations : rows[a] \in SaneRows
    BY NoRowSane DEF Init
<1> QED
    BY <1>1, <1>2, NoRowSane DEF Init, TableInv, InUpdate, AfterTurn

\* A step that writes at most one row that exists, and leaves the loop's list
\* and its copy of the row alone.
LEMMA TableWrite ==
    ASSUME AutomationAssumption, TableInv, NEW a \in Automations, NEW n, Writes(a, n),
           now' = now, restarts' = restarts, due' = due, outcome' = outcome, image' = image,
           failures' \in [Automations -> 0..(MaxRetries + 1)],
           over' \in [Automations -> BOOLEAN],
           at' \in LoopPlaces, at' = "idle" <=> at = "idle",
           at' \in InUpdate => at \in InUpdate, at' \in AfterTurn => at \in AfterTurn,
           user' = user \/ user' = Nobody
    PROVE  TableInv'
<1>1. /\ rows' \in [Automations -> Row]
      /\ \A b \in Automations : /\ rows'[b] \in SaneRows
                                /\ rows[b].status # "none" => rows'[b].status # "none"
    BY Rewritten
<1>2. AutoTypeOK'
    BY <1>1 DEF TableInv, AutoTypeOK
<1>3. \A i \in DOMAIN due' : /\ due'[i].row \in SaneRows /\ due'[i].row.status = "ACTIVE"
                             /\ rows'[due'[i].id].status # "none"
    BY <1>1, ListedAreAutomations DEF TableInv
<1>4. user' # Nobody => user'.row \in RealRows
    BY DEF TableInv
<1> QED
    BY <1>1, <1>2, <1>3, <1>4 DEF TableInv

\* The run history stays well formed.
LEMMA HistoryTyped ==
    ASSUME AutomationAssumption, TableInv, at = "dispatching",
           NEW status \in RunStatuses, RecordRun(Fired, status)
    PROVE  /\ failures' \in [Automations -> 0..(MaxRetries + 1)]
           /\ over' \in [Automations -> BOOLEAN]
<1> DEFINE f == failures[Fired]
           c == CASE status = "failed" -> IF f > MaxRetries THEN f ELSE f + 1
                  [] status = "canceled" -> f
                  [] OTHER -> 0
<1>0. Fired \in Automations
    BY LoopHasOne
<1>1. failures \in [Automations -> 0..(MaxRetries + 1)] /\ over \in [Automations -> BOOLEAN]
    BY DEF TableInv, AutoTypeOK
<1>2. f \in 0..(MaxRetries + 1)
    BY <1>0, <1>1
<1>3. failures' = [failures EXCEPT ![Fired] = c]
    BY DEF RecordRun
<1>4. c \in 0..(MaxRetries + 1)
  <2> HIDE DEF f
  <2> QED
    BY <1>2 DEF AutomationAssumption
<1>5. over' \in [Automations -> BOOLEAN]
  <2>1. over' = [over EXCEPT ![Fired] = over[Fired] \/ status # "failed"]
    BY DEF RecordRun
  <2>2. (over[Fired] \/ status # "failed") \in BOOLEAN
    OBVIOUS
  <2> QED
    BY <2>1, <2>2, <1>1, Zenon
<1> HIDE DEF c
<1> QED
    BY <1>1, <1>3, <1>4, <1>5

\* Every step keeps the table, the list and the copies sane.
LEMMA TableStep ==
    ASSUME AutomationAssumption, TableInv, [Next]_vars
    PROVE  TableInv'
<1>t. AutoTypeOK
    BY DEF TableInv
<1>1. CASE Tick
  <2>1. due' \in DueLists /\ due' # <<>> /\ rows \in [Automations -> Row]
    BY <1>1, <1>t DEF Tick, AutoTypeOK
  <2>2. /\ due' \in Seq([id : Automations, row : Row])
        /\ \A i \in DOMAIN due' : due'[i].row = rows[due'[i].id] /\ DueAt(due'[i].row, now)
    BY <2>1, DueListed
  <2>3. \A i \in DOMAIN due' : /\ due'[i].row \in SaneRows /\ due'[i].row.status = "ACTIVE"
                               /\ rows'[due'[i].id].status # "none"
    <3> SUFFICES ASSUME NEW i \in DOMAIN due'
                 PROVE  /\ due'[i].row \in SaneRows /\ due'[i].row.status = "ACTIVE"
                        /\ rows'[due'[i].id].status # "none"
        OBVIOUS
    <3>0. due'[i] \in [id : Automations, row : Row]
        BY <2>2, EntryOf, Zenon
    <3>1. due'[i].id \in Automations
        BY <3>0
    <3> QED
        BY <3>1, <2>2, <1>1 DEF TableInv, Tick, DueAt
  <2>4. AutoTypeOK'
    BY <2>2, <1>1, <1>t DEF Tick, AutoTypeOK, LoopPlaces, runs
  <2> QED
    BY <2>1, <2>3, <2>4, <1>1 DEF TableInv, Tick, InUpdate, AfterTurn
<1>2. CASE Fire
    BY <1>2 DEF Fire, TableInv, AutoTypeOK, LoopPlaces, InUpdate, AfterTurn, runs
<1>3. ASSUME NEW status \in RunStatuses, DispatchEnds(status)
      PROVE  TableInv'
  <2>1. /\ failures' \in [Automations -> 0..(MaxRetries + 1)]
        /\ over' \in [Automations -> BOOLEAN]
    BY <1>3, HistoryTyped DEF DispatchEnds
  <2>2. at' \in {"ended", "reuse"} /\ at = "dispatching" /\ outcome' = status
    BY <1>3 DEF DispatchEnds
  <2> QED
    BY <2>1, <2>2, <1>3 DEF DispatchEnds, TableInv, AutoTypeOK, LoopPlaces, InUpdate, AfterTurn
<1>4. CASE ReadRow
  <2>1. image' = rows[Fired] /\ rows[Fired] \in RealRows /\ at \in AfterTurn
    BY <1>4, LoopHasOne DEF ReadRow, AfterTurn
  <2> QED
    BY <2>1, <1>4 DEF ReadRow, TableInv, AutoTypeOK, LoopPlaces, InUpdate, AfterTurn, RealRows,
                      SaneRows, runs
<1>5. CASE WriteSession
  <2>1. PICK n : Writes(Fired, n)
    BY <1>5, SessionWritten
  <2>2. Fired \in Automations
    BY <1>5, LoopHasOne DEF WriteSession
  <2> QED
    BY <2>1, <2>2, <1>5, <1>t, TableWrite DEF WriteSession, AutoTypeOK, LoopPlaces, InUpdate,
                                             AfterTurn, runs
<1>6. CASE WriteOutcome
  <2>1. PICK n : Writes(Fired, n)
    BY <1>6, OutcomeWritten
  <2>2. Fired \in Automations
    BY <1>6, LoopHasOne DEF WriteOutcome
  <2> QED
    BY <2>1, <2>2, <1>6, <1>t, TableWrite DEF WriteOutcome, AutoTypeOK, LoopPlaces, InUpdate,
                                             AfterTurn, runs
<1>7. CASE AdvanceNextRun
  <2>1. PICK n : Writes(Fired, n)
    BY <1>7, NextAdvanced
  <2>2. Fired \in Automations /\ due # <<>>
    BY <1>7, LoopHasOne DEF AdvanceNextRun
  <2>3. /\ rows' \in [Automations -> Row]
        /\ \A b \in Automations : /\ rows'[b] \in SaneRows
                                  /\ rows[b].status # "none" => rows'[b].status # "none"
    BY <2>1, <2>2, Rewritten
  <2>4. due \in Seq([id : Automations, row : Row])
    BY <1>t DEF AutoTypeOK
  <2>5. /\ due' \in Seq([id : Automations, row : Row])
        /\ at' \in {"idle", "fire"} /\ (at' = "idle" <=> due' = <<>>)
        /\ \A i \in DOMAIN due' : i + 1 \in DOMAIN due /\ due'[i] = due[i + 1]
    BY <1>7, <2>2, <2>4, TailOf DEF AdvanceNextRun
  <2>6. \A i \in DOMAIN due' : /\ due'[i].row \in SaneRows /\ due'[i].row.status = "ACTIVE"
                               /\ rows'[due'[i].id].status # "none"
    BY <2>3, <2>5, ListedAreAutomations DEF TableInv
  <2>7. AutoTypeOK'
    BY <2>3, <2>5, <1>7, <1>t, NoRowSane DEF AdvanceNextRun, AutoTypeOK, LoopPlaces, SaneRows, runs
  <2>8. (user # Nobody => user.row \in RealRows)' /\ (image \in SaneRows)'
    BY <1>7, NoRowSane DEF AdvanceNextRun, TableInv
  <2> QED
    BY <2>3, <2>5, <2>6, <2>7, <2>8 DEF TableInv, InUpdate, AfterTurn
<1>8. ASSUME NEW a \in Automations, NEW s \in Schedules, Create(a, s)
      PROVE  TableInv'
  <2>1. PICK n : Writes(a, n)
    BY <1>8, RowCreated
  <2> QED
    BY <2>1, <1>8, <1>t, TableWrite DEF Create, AutoTypeOK, runs, loopVars
<1>9. ASSUME NEW a \in Automations, NEW patch \in Patches, UserReads(a, patch)
      PROVE  TableInv'
  <2>1. rows[a] \in RealRows /\ rows[a] \in Row
    BY <1>9, RowsAreRows DEF UserReads, RealRows
  <2>2. user' \in [id : Automations, patch : Patches, row : Row] /\ user'.row \in RealRows
    BY <1>9, <2>1 DEF UserReads
  <2>3. AutoTypeOK'
    BY <2>2, <1>9, <1>t DEF UserReads, AutoTypeOK, runs, loopVars
  <2> QED
    BY <2>2, <2>3, <1>9 DEF TableInv, UserReads, runs, loopVars
<1>10. ASSUME NEW a \in Automations, Delete(a)
       PROVE  TableInv'
  <2>1. PICK n : Writes(a, n)
    BY <1>10, RowDeleted
  <2> QED
    BY <2>1, <1>10, <1>t, TableWrite DEF Delete, AutoTypeOK, runs, loopVars
<1>11. CASE UserWrites
  <2>1. PICK n : Writes(user.id, n)
    BY <1>11, UserWritten
  <2>2. user.id \in Automations
    BY <1>11, UserWritten
  <2>3. failures' \in [Automations -> 0..(MaxRetries + 1)]
    BY <1>11, <1>t DEF UserWrites, AutoTypeOK, AutomationAssumption
  <2>4. over' \in [Automations -> BOOLEAN]
    BY <1>11, <1>t, Zenon DEF UserWrites, AutoTypeOK
  <2> QED
    BY <2>1, <2>2, <2>3, <2>4, <1>11, <1>t, TableWrite DEF UserWrites, AutoTypeOK, loopVars
<1>12. CASE Passes
    BY <1>12 DEF Passes, TableInv, AutoTypeOK, runs, loopVars, AutomationAssumption
<1>13. CASE Restart
  <2>1. /\ now' \in 0..Horizon
        /\ \A a \in Automations : rows'[a] \in SaneRows
    BY <1>13, RowsReconciled
  <2>2. rows' \in [Automations -> Row]
    BY <1>13, <2>1 DEF Restart, SaneRows
  <2>3. restarts' \in 0..MaxRestarts
    BY <1>13, <1>t DEF Restart, AutoTypeOK, AutomationAssumption
  <2>4. over' \in [Automations -> BOOLEAN]
    BY <1>13, <1>t, Zenon DEF Restart, AutoTypeOK, DueAt
  <2>5. AutoTypeOK'
    BY <2>1, <2>2, <2>3, <2>4, <1>13, <1>t, NoRowSane
       DEF Restart, AutoTypeOK, LoopPlaces, SaneRows
  <2> QED
    BY <2>1, <2>5, <1>13, NoRowSane DEF Restart, TableInv, InUpdate, AfterTurn
<1>14. CASE UNCHANGED vars
    BY <1>14 DEF vars, runs, loopVars, TableInv, AutoTypeOK
<1> QED
    BY <1>1, <1>2, <1>3, <1>4, <1>5, <1>6, <1>7, <1>8, <1>9, <1>10, <1>11, <1>12, <1>13, <1>14
       DEF Next, Loop

\* The table is well formed: AutoTypeOK, with every row and every copy of one
\* that the loop or a user holds below the cap as long as it is active.
THEOREM TableHolds == Spec => []TableInv
<1>1. Init => TableInv
    BY TableInit, AutomationAssumption
<1>2. TableInv /\ [Next]_vars => TableInv'
    BY TableStep, AutomationAssumption
<1> QED
    BY <1>1, <1>2, PTL DEF Spec

-----------------------------------------------------------------------------
(* Pauses survive, as long as two calls of Update do not overlap.          *)

\* CopiesInv holds of the empty table.
LEMMA CopiesInit ==
    ASSUME Init
    PROVE  CopiesInv
BY DEF Init, CopiesInv, InUpdate

\* No step makes a copy that will be written older than its row.
LEMMA CopiesStep ==
    ASSUME AutomationAssumption, "racingUpdate" \notin Events,
           TableInv, CopiesInv, [Next]_vars
    PROVE  CopiesInv'
<1>u. user # Nobody => user.id \in Automations /\ user.row.status # "none"
    BY DEF TableInv, AutoTypeOK, RealRows
<1>1. CASE Tick
    BY <1>1 DEF Tick, Unraced, CopiesInv, InUpdate
<1>2. CASE Fire
    BY <1>2 DEF Fire, CopiesInv, InUpdate, Fired
<1>3. ASSUME NEW status \in RunStatuses, DispatchEnds(status)
      PROVE  CopiesInv'
    BY <1>3 DEF DispatchEnds, CopiesInv, InUpdate
<1>4. CASE ReadRow
    BY <1>4 DEF ReadRow, Unraced, CopiesInv, Fired, SameRow
<1>5. CASE WriteSession
    BY <1>5 DEF WriteSession, CopiesInv, InUpdate
<1>6. CASE WriteOutcome
    BY <1>6 DEF WriteOutcome, CopiesInv, InUpdate
<1>7. CASE AdvanceNextRun
    BY <1>7 DEF AdvanceNextRun, Unraced, CopiesInv, InUpdate
<1>8. ASSUME NEW a \in Automations, NEW s \in Schedules, Create(a, s)
      PROVE  CopiesInv'
  <2>1. PICK n : Writes(a, n)
    BY <1>8, RowCreated
  <2>2. rows[a].status = "none" /\ at' = at /\ due' = due /\ image' = image /\ user' = user
    BY <1>8 DEF Create, loopVars
  <2>3. at \in InUpdate => a # Fired /\ Fired \in Automations
    BY <2>2, LoopHasOne DEF InUpdate, RealRows
  <2>4. user # Nobody => a # user.id
    BY <1>u, <2>2 DEF CopiesInv, SameRow
  <2>5. \A b \in Automations : b # a => rows'[b] = rows[b]
    BY <2>1, Rewritten
  <2> QED
    BY <1>u, <2>2, <2>3, <2>4, <2>5 DEF CopiesInv, Fired
<1>9. ASSUME NEW a \in Automations, NEW patch \in Patches, UserReads(a, patch)
      PROVE  CopiesInv'
  <2>1. user' = [id |-> a, patch |-> patch, row |-> rows[a]]
    BY <1>9 DEF UserReads
  <2>2. SameRow(user'.row, rows[user'.id])
    BY <2>1 DEF SameRow
  <2>3. at \notin {"reusing", "writing"} /\ at' = at /\ rows' = rows
    BY <1>9 DEF UserReads, Unraced, loopVars
  <2> QED
    BY <2>2, <2>3 DEF CopiesInv, InUpdate
<1>10. ASSUME NEW a \in Automations, Delete(a)
       PROVE  CopiesInv'
  <2>1. PICK n : Writes(a, n) /\ SameRow(n, rows[a])
    BY <1>10, RowDeleted
  <2>2. at' = at /\ due' = due /\ image' = image /\ user' = user
    BY <1>10 DEF Delete, loopVars
  <2>3. \A b \in Automations : SameRow(rows'[b], rows[b])
    BY <2>1, Rewritten DEF SameRow
  <2>4. at \in InUpdate => Fired \in Automations
    BY LoopHasOne DEF InUpdate
  <2> QED
    BY <1>u, <2>2, <2>3, <2>4 DEF CopiesInv, Fired, SameRow
<1>11. CASE UserWrites
    BY <1>11 DEF UserWrites, CopiesInv, loopVars
<1>12. CASE Passes
    BY <1>12 DEF Passes, CopiesInv, loopVars, Fired
<1>13. CASE Restart
    BY <1>13 DEF Restart, CopiesInv, InUpdate
<1>14. CASE UNCHANGED vars
    BY <1>14 DEF vars, loopVars, CopiesInv, Fired
<1> QED
    BY <1>1, <1>2, <1>3, <1>4, <1>5, <1>6, <1>7, <1>8, <1>9, <1>10, <1>11, <1>12, <1>13, <1>14
       DEF Next, Loop

\* As long as calls of Update do not overlap, each writes back the row as it
\* still stands.
THEOREM CopiesHold == "racingUpdate" \notin Events => (Spec => [](TableInv /\ CopiesInv))
<1> SUFFICES ASSUME "racingUpdate" \notin Events
             PROVE  Spec => [](TableInv /\ CopiesInv)
    OBVIOUS
<1>1. Init => TableInv /\ CopiesInv
    BY TableInit, CopiesInit, AutomationAssumption
<1>2. TableInv /\ CopiesInv /\ [Next]_vars => (TableInv /\ CopiesInv)'
    BY TableStep, CopiesStep, AutomationAssumption
<1> QED
    BY <1>1, <1>2, PTL DEF Spec

\* A step of the loop, of the clock, of a creation, a deletion or a restart
\* makes no automation active.
LEMMA OnlyUsersEnable ==
    ASSUME AutomationAssumption, TableInv, CopiesInv, [Next]_vars,
           NEW a \in Automations, rows[a].status # "ACTIVE", rows'[a].status = "ACTIVE"
    PROVE  rows[a].status = "none" \/ UserWrites
<1>0. SUFFICES ASSUME ~UserWrites, rows[a].status # "none"
               PROVE  rows'[a].status = rows[a].status \/ rows'[a].status # "ACTIVE"
    OBVIOUS
<1>1. CASE rows' = rows
    BY <1>1
<1>2. CASE WriteSession
  <2>1. PICK n : Writes(Fired, n) /\ SameRow(n, image)
    BY <1>2, SessionWritten
  <2>2. SameRow(image, rows[Fired]) /\ Fired \in Automations
    BY <1>2, LoopHasOne DEF WriteSession, CopiesInv, InUpdate
  <2>3. rows'[Fired] = n /\ (a # Fired => rows'[a] = rows[a])
    BY <2>1, <2>2, Rewritten
  <2> QED
    BY <2>1, <2>2, <2>3 DEF SameRow
<1>3. CASE WriteOutcome
  <2>1. PICK n : Writes(Fired, n) /\ n.status = StatusAfterFiring
    BY <1>3, OutcomeWritten
  <2>2. SameRow(image, rows[Fired]) /\ Fired \in Automations /\ at = "writing"
    BY <1>3, LoopHasOne DEF WriteOutcome, CopiesInv, InUpdate
  <2>3. rows'[Fired] = n /\ (a # Fired => rows'[a] = rows[a])
    BY <2>1, <2>2, Rewritten
  <2>4. StatusAfterFiring = "ACTIVE" => image.status = "ACTIVE"
    BY <2>2, StatusWritten
  <2> QED
    BY <2>1, <2>2, <2>3, <2>4 DEF SameRow
<1>4. CASE AdvanceNextRun
  <2>1. PICK n : Writes(Fired, n) /\ n.status = rows[Fired].status
    BY <1>4, NextAdvanced
  <2>2. Fired \in Automations
    BY <1>4, LoopHasOne DEF AdvanceNextRun
  <2> QED
    BY <2>1, <2>2, Rewritten
<1>5. ASSUME NEW b \in Automations, NEW s \in Schedules, Create(b, s)
      PROVE  rows'[a] = rows[a]
  <2>1. PICK n : Writes(b, n)
    BY <1>5, RowCreated
  <2> QED
    BY <2>1, <1>0, <1>5, Rewritten DEF Create
<1>6. ASSUME NEW b \in Automations, Delete(b)
      PROVE  rows'[a].status = rows[a].status
  <2>1. PICK n : Writes(b, n) /\ SameRow(n, rows[b])
    BY <1>6, RowDeleted
  <2> QED
    BY <2>1, Rewritten DEF SameRow
<1>7. CASE Restart
    BY <1>7, RowsReconciled
<1>8. ASSUME Tick \/ Fire \/ (\E status \in RunStatuses : DispatchEnds(status)) \/ ReadRow
             \/ (\E b \in Automations, patch \in Patches : UserReads(b, patch))
             \/ Passes \/ UNCHANGED vars
      PROVE  rows' = rows
    BY <1>8 DEF Tick, Fire, DispatchEnds, ReadRow, UserReads, Passes, vars
<1> QED
    BY <1>0, <1>1, <1>2, <1>3, <1>4, <1>5, <1>6, <1>7, <1>8 DEF Next, Loop

\* fire's writes never undo a pause: only a user makes an automation active.
THEOREM PauseNeverUndone == "racingUpdate" \notin Events => (Spec => PauseSurvives)
<1> SUFFICES ASSUME "racingUpdate" \notin Events
             PROVE  Spec => PauseSurvives
    OBVIOUS
<1>1. Spec => [](TableInv /\ CopiesInv)
    BY CopiesHold
<1>2. TableInv /\ CopiesInv /\ [Next]_vars =>
         [\A a \in Automations :
            rows[a].status # "ACTIVE" /\ rows'[a].status = "ACTIVE" =>
               rows[a].status = "none" \/ UserWrites]_vars
    BY OnlyUsersEnable, AutomationAssumption
<1> QED
    BY <1>1, <1>2, PTL DEF Spec, PauseSurvives

-----------------------------------------------------------------------------
(* The cadence is kept, as long as users also do not rearm an automation   *)
(* during its turn.                                                        *)

\* The row runs next at a time of its own schedule.
RowOnGrid(r) ==
    /\ r.type = "recurring" /\ r.status = "ACTIVE" /\ ~r.deleted /\ r.retries = 0
    => r.next % r.sched = 0

\* A copy of the row with the same schedule, next run and counter.
SameCadence(n, r) ==
    n.type = r.type /\ n.sched = r.sched /\ n.next = r.next /\ n.retries = r.retries

\* CadenceKept, by rows.
LEMMA CadenceByRow == CadenceKept <=> \A a \in Automations : ~InHand(a) => RowOnGrid(rows[a])
BY DEF CadenceKept, RowOnGrid

\* What is in the loop's hands.
LEMMA InHandIs ==
    ASSUME TableInv, NEW a
    PROVE  InHand(a) <=> \E i \in DOMAIN due : due[i].id = a
<1>1. due \in Seq([id : Automations, row : Row])
    BY DEF TableInv, AutoTypeOK
<1>2. DOMAIN due = 1..Len(due)
    BY <1>1
<1> QED
    BY <1>2 DEF InHand

\* HandInv holds of the empty table.
LEMMA HandInit ==
    ASSUME Init
    PROVE  HandInv
<1>1. DOMAIN due = {}
    BY DEF Init
<1>2. \A a \in Automations : rows[a] = NoRow
    BY DEF Init
<1>3. CadenceKept
    BY <1>2 DEF CadenceKept, NoRow
<1> QED
    BY <1>1, <1>3 DEF Init, HandInv, ListedOnce, RowsAsListed, OnlyPauses

\* A step that leaves table and list alone.
LEMMA HandQuiet ==
    ASSUME TableInv, HandInv, rows' = rows, due' = due, user' = user,
           now' \in Nat, now \in Nat, now <= now',
           at' = "advancing" <=> at = "advancing",
           at = "advancing" => outcome' = outcome
    PROVE  HandInv'
<1>1. ListedOnce' /\ OnlyPauses' /\ CadenceKept'
    BY DEF HandInv, ListedOnce, OnlyPauses, CadenceKept, InHand
<1>2. at = "advancing" => RetriesAfter' = RetriesAfter
    BY DEF RetriesAfter, Retries, Snapshot
<1>3. RowsAsListed'
  <2> SUFFICES ASSUME NEW i \in DOMAIN due
               PROVE  /\ rows[due[i].id].type = due[i].row.type
                      /\ rows[due[i].id].sched = due[i].row.sched
                      /\ rows[due[i].id].next <= now'
                      /\ rows[due[i].id].retries =
                            IF i = 1 /\ at' = "advancing" THEN RetriesAfter' ELSE due[i].row.retries
      BY DEF RowsAsListed
  <2>1. rows[due[i].id].next \in Nat
    BY ListedAreAutomations, RowsAreRows DEF Row, Times
  <2> QED
    BY <2>1, <1>2 DEF HandInv, RowsAsListed
<1> QED
    BY <1>1, <1>3 DEF HandInv

\* A step that writes one row, and neither moves the loop nor the clock.
LEMMA HandWrite ==
    ASSUME AutomationAssumption, TableInv, HandInv, NEW a \in Automations, NEW n, Writes(a, n),
           now' = now, due' = due, user' = user \/ user' = Nobody,
           at' = "advancing" <=> at = "advancing", outcome' = outcome,
           InHand(a) => SameCadence(n, rows[a]), ~InHand(a) => RowOnGrid(n)
    PROVE  HandInv'
<1>1. rows'[a] = n /\ \A b \in Automations : b # a => rows'[b] = rows[b]
    BY Rewritten
<1>2. ListedOnce' /\ OnlyPauses' /\ \A b : InHand(b)' <=> InHand(b)
    BY DEF HandInv, ListedOnce, OnlyPauses, InHand
<1>3. CadenceKept'
  <2>1. \A b \in Automations : ~InHand(b)' => RowOnGrid(rows'[b])
    BY <1>1, <1>2, CadenceByRow DEF HandInv
  <2> QED
    BY <2>1 DEF CadenceKept, RowOnGrid
<1>4. RetriesAfter' = RetriesAfter
    BY DEF RetriesAfter, Retries, Snapshot
<1>5. \A i \in DOMAIN due : SameCadence(rows'[due[i].id], rows[due[i].id])
    BY <1>1, InHandIs, ListedAreAutomations DEF SameCadence
<1>6. RowsAsListed'
    BY <1>4, <1>5 DEF HandInv, RowsAsListed, SameCadence
<1> QED
    BY <1>2, <1>3, <1>6 DEF HandInv

\* What the loop lists.
LEMMA HandTick ==
    ASSUME AutomationAssumption, "racingUpdate" \notin Events, TableInv, HandInv, Tick
    PROVE  HandInv'
<1>1. due' \in DueLists /\ rows \in [Automations -> Row] /\ due = <<>>
    BY DEF Tick, TableInv, AutoTypeOK
<1>2. /\ \A i \in DOMAIN due' : due'[i].row = rows[due'[i].id] /\ DueAt(due'[i].row, now)
      /\ \A i, j \in DOMAIN due' : due'[i].id = due'[j].id => i = j
    BY <1>1, DueListed
<1>3. rows' = rows /\ now' = now /\ at' = "fire" /\ user' = Nobody
    BY DEF Tick, Unraced
<1>4. RowsAsListed'
    BY <1>2, <1>3 DEF RowsAsListed, DueAt
<1>5. CadenceKept'
  <2>1. \A a : ~InHand(a)
    BY <1>1, InHandIs
  <2> QED
    BY <2>1, <1>3 DEF HandInv, CadenceKept
<1> QED
    BY <1>2, <1>3, <1>4, <1>5 DEF HandInv, ListedOnce, OnlyPauses

\* The outcome of the turn.
LEMMA HandOutcome ==
    ASSUME AutomationAssumption, TableInv, CopiesInv, HandInv, WriteOutcome
    PROVE  HandInv'
<1>0. at = "writing" /\ at' = "advancing" /\ due' = due /\ user' = user /\ now' = now
      /\ outcome' = outcome
    BY DEF WriteOutcome
<1>1. PICK n : /\ Writes(Fired, n)
               /\ n.type = image.type /\ n.sched = image.sched /\ n.next = image.next
               /\ n.retries = CASE outcome = "failed" -> Retries
                                [] outcome = "canceled" -> image.retries
                                [] OTHER -> 0
    BY OutcomeWritten
<1>2. /\ SameRow(image, rows[Fired]) /\ Fired \in Automations /\ 1 \in DOMAIN due
    BY <1>0, LoopHasOne DEF CopiesInv, InUpdate
<1>3. rows'[Fired] = n /\ \A b \in Automations : b # Fired => rows'[b] = rows[b]
    BY <1>1, <1>2, Rewritten
<1>4. ListedOnce' /\ OnlyPauses' /\ \A b : InHand(b)' <=> InHand(b)
    BY <1>0 DEF HandInv, ListedOnce, OnlyPauses, InHand
<1>5. CadenceKept'
  <2>1. InHand(Fired)
    BY <1>2, InHandIs DEF Fired
  <2> QED
    BY <2>1, <1>3, <1>4 DEF HandInv, CadenceKept
<1>6. image.retries = Snapshot.retries
    BY <1>0, <1>2 DEF HandInv, RowsAsListed, Fired, Snapshot, SameRow
<1>7. RetriesAfter' = n.retries
  <2>1. RetriesAfter' = RetriesAfter
    BY <1>0 DEF RetriesAfter, Retries, Snapshot
  <2> QED
    BY <2>1, <1>1, <1>6 DEF RetriesAfter
<1>8. RowsAsListed'
  <2> SUFFICES ASSUME NEW i \in DOMAIN due
               PROVE  /\ rows'[due[i].id].type = due[i].row.type
                      /\ rows'[due[i].id].sched = due[i].row.sched
                      /\ rows'[due[i].id].next <= now
                      /\ rows'[due[i].id].retries =
                            IF i = 1 THEN RetriesAfter' ELSE due[i].row.retries
      BY <1>0 DEF RowsAsListed
  <2>1. CASE i = 1
    BY <2>1, <1>1, <1>2, <1>3, <1>7 DEF HandInv, RowsAsListed, Fired, SameRow
  <2>2. CASE i # 1
    <3>1. due[i].id # Fired /\ due[i].id \in Automations
      BY <2>2, <1>2, ListedAreAutomations DEF HandInv, ListedOnce, Fired
    <3> QED
      BY <3>1, <2>2, <1>3 DEF HandInv, RowsAsListed
  <2> QED
    BY <2>1, <2>2
<1> QED
    BY <1>4, <1>5, <1>8 DEF HandInv

\* The list that AdvanceNextRun leaves.
LEMMA HandLeft ==
    ASSUME AutomationAssumption, TableInv, HandInv, AdvanceNextRun
    PROVE  /\ \A i \in DOMAIN due' : /\ i + 1 \in DOMAIN due /\ due'[i] = due[i + 1]
                                     /\ i + 1 # 1 /\ due[i + 1].id # Fired
           /\ InHand(Fired) /\ \A a : InHand(a)' <=> InHand(a) /\ a # Fired
           /\ at' \in {"idle", "fire"}
<1>1. at = "advancing" /\ due' = Tail(due) /\ at' \in {"idle", "fire"}
    BY DEF AdvanceNextRun
<1>2. due # <<>> /\ 1 \in DOMAIN due /\ DOMAIN due = 1..Len(due) /\ Len(due) \in Nat \ {0}
    BY <1>1, LoopHasOne
<1>3. due \in Seq([id : Automations, row : Row])
    BY DEF TableInv, AutoTypeOK
<1>4. /\ Len(due') = Len(due) - 1 /\ DOMAIN due' = 1..(Len(due) - 1)
      /\ \A i \in DOMAIN due' : i + 1 \in DOMAIN due /\ due'[i] = due[i + 1]
    BY <1>1, <1>2, <1>3, TailOf
<1>5. \A i \in DOMAIN due' : i + 1 # 1 /\ due[i + 1].id # Fired
    BY <1>2, <1>4 DEF HandInv, ListedOnce, Fired
<1>6. \A a : InHand(a)' <=> \E i \in DOMAIN due' : due'[i].id = a
    BY <1>2, <1>4 DEF InHand
<1>7. \A a : InHand(a) <=> \E i \in DOMAIN due : due[i].id = a
    BY InHandIs
<1>8. ASSUME NEW a, a # Fired
      PROVE  InHand(a)' <=> InHand(a)
  <2>1. ASSUME NEW i \in DOMAIN due, due[i].id = a
        PROVE  i - 1 \in DOMAIN due' /\ due'[i - 1].id = a
    <3>1. i # 1
      BY <2>1, <1>8 DEF Fired
    <3>2. i - 1 \in DOMAIN due' /\ (i - 1) + 1 = i
      BY <3>1, <1>2, <1>4
    <3>3. due'[i - 1] = due[(i - 1) + 1]
      BY <3>2, <1>4
    <3> QED
      BY <2>1, <3>2, <3>3
  <2> QED
    BY <2>1, <1>4, <1>6, <1>7
<1>9. InHand(Fired) /\ \A a : InHand(a)' => a # Fired
  <2>1. InHand(Fired)
    BY <1>2, <1>7 DEF Fired
  <2>2. \A i \in DOMAIN due' : due'[i].id # Fired
    BY <1>4, <1>5
  <2> QED
    BY <2>1, <2>2, <1>6
<1> QED
    BY <1>1, <1>4, <1>5, <1>8, <1>9

\* The last write of fire: the automation is back on its grid, or has a retry
\* pending, when the loop lets go of it.
LEMMA HandAdvance ==
    ASSUME AutomationAssumption, "racingUpdate" \notin Events, TableInv, HandInv, AdvanceNextRun
    PROVE  HandInv'
<1>0. at = "advancing" /\ now' = now /\ user' = Nobody
    BY DEF AdvanceNextRun, Unraced
<1>1. PICK n : /\ Writes(Fired, n)
               /\ n.type = rows[Fired].type
               /\ n.sched = rows[Fired].sched /\ n.retries = rows[Fired].retries
               /\ outcome # "failed" /\ Snapshot.type = "recurring" =>
                     n.next % Snapshot.sched = 0
    BY NextAdvanced
<1>2. Fired \in Automations /\ 1 \in DOMAIN due /\ Snapshot.retries \in Nat
    BY <1>0, LoopHasOne
<1>3. rows'[Fired] = n /\ \A b \in Automations : b # Fired => rows'[b] = rows[b]
    BY <1>1, <1>2, Rewritten
<1>4. /\ \A i \in DOMAIN due' : /\ i + 1 \in DOMAIN due /\ due'[i] = due[i + 1]
                                /\ i + 1 # 1 /\ due[i + 1].id # Fired
      /\ \A a : InHand(a)' <=> InHand(a) /\ a # Fired
      /\ at' \in {"idle", "fire"}
    BY HandLeft
<1>5. ListedOnce'
  <2> SUFFICES ASSUME NEW i \in DOMAIN due', NEW j \in DOMAIN due', due'[i].id = due'[j].id
               PROVE  i = j
      BY DEF ListedOnce
  <2>1. i + 1 = j + 1
    BY <1>4 DEF HandInv, ListedOnce
  <2>2. i \in Int /\ j \in Int
    <3>1. DOMAIN due' = 1..Len(due')
      <4>1. due' \in Seq([id : Automations, row : Row])
        BY <1>0, LoopHasOne, TailOf DEF AdvanceNextRun, TableInv, AutoTypeOK
      <4> QED
        BY <4>1
    <3> QED
      BY <3>1
  <2> QED
    BY <2>1, <2>2
<1>6. RowsAsListed'
  <2> SUFFICES ASSUME NEW i \in DOMAIN due'
               PROVE  /\ rows'[due'[i].id].type = due'[i].row.type
                      /\ rows'[due'[i].id].sched = due'[i].row.sched
                      /\ rows'[due'[i].id].next <= now'
                      /\ rows'[due'[i].id].retries = due'[i].row.retries
      BY <1>4 DEF RowsAsListed
  <2>1. /\ due'[i] = due[i + 1] /\ i + 1 \in DOMAIN due /\ i + 1 # 1
        /\ due[i + 1].id # Fired /\ due[i + 1].id \in Automations
    BY <1>4, ListedAreAutomations
  <2>2. rows'[due'[i].id] = rows[due[i + 1].id]
    BY <2>1, <1>3
  <2> QED
    BY <2>1, <2>2, <1>0 DEF HandInv, RowsAsListed
<1>7. RowOnGrid(n)
  <2>1. /\ rows[Fired].type = Snapshot.type /\ rows[Fired].sched = Snapshot.sched
        /\ rows[Fired].retries = RetriesAfter
    BY <1>0, <1>2 DEF HandInv, RowsAsListed, Fired, Snapshot
  <2>2. outcome = "failed" => n.retries # 0
    BY <2>1, <1>1, <1>2 DEF RetriesAfter, Retries
  <2> QED
    BY <2>1, <2>2, <1>1 DEF RowOnGrid
<1>8. CadenceKept'
  <2>1. \A b \in Automations : ~InHand(b)' => RowOnGrid(rows'[b])
    BY <1>3, <1>4, <1>7, CadenceByRow DEF HandInv
  <2> QED
    BY <2>1 DEF CadenceKept, RowOnGrid
<1> QED
    BY <1>0, <1>5, <1>6, <1>8 DEF HandInv, OnlyPauses

\* A restart puts whatever was in hand back on its grid.
LEMMA HandRestart ==
    ASSUME AutomationAssumption, TableInv, HandInv, Restart
    PROVE  HandInv'
<1>1. due' = <<>> /\ user' = Nobody /\ now' \in Nat /\ now <= now'
  <2>1. now \in 0..Horizon
    BY DEF TableInv, AutoTypeOK
  <2> QED
    BY <2>1 DEF Restart, AutomationAssumption
<1>2. DOMAIN due' = {}
    BY <1>1
<1>3. ASSUME NEW a \in Automations
      PROVE  RowOnGrid(rows'[a])
  <2>1. /\ rows'[a].status = rows[a].status /\ rows'[a].type = rows[a].type
        /\ IF DueAt(rows[a], now')
           THEN rows'[a].type = "recurring" => rows'[a].next % rows'[a].sched = 0
           ELSE rows'[a] = rows[a]
    BY RowsReconciled
  <2>2. CASE DueAt(rows[a], now')
    BY <2>1, <2>2 DEF RowOnGrid
  <2>3. CASE ~DueAt(rows[a], now') /\ ~InHand(a)
    BY <2>1, <2>3, CadenceByRow DEF HandInv
  <2>4. CASE ~DueAt(rows[a], now') /\ InHand(a)
    <3>1. rows[a].next <= now /\ rows[a].next \in Nat /\ now \in Nat
      <4>1. PICK i \in DOMAIN due : due[i].id = a
        BY <2>4, InHandIs
      <4>2. rows[a].next <= now
        BY <4>1 DEF HandInv, RowsAsListed
      <4>3. rows[a].next \in Nat
        BY RowsAreRows DEF Row, Times
      <4>4. now \in Nat
        BY DEF TableInv, AutoTypeOK
      <4> QED
        BY <4>2, <4>3, <4>4
    <3>2. rows[a].next <= now'
      BY <3>1, <1>1
    <3> QED
      BY <3>2, <2>1, <2>4 DEF RowOnGrid, DueAt
  <2> QED
    BY <2>2, <2>3, <2>4
<1>4. CadenceKept'
    BY <1>3 DEF CadenceKept, RowOnGrid
<1> QED
    BY <1>1, <1>2, <1>4 DEF HandInv, ListedOnce, RowsAsListed, OnlyPauses

\* What a user's write does to an automation in hand, and out of it.
LEMMA HandUser ==
    ASSUME AutomationAssumption, TableInv, CopiesInv, HandInv, UserWrites
    PROVE  \E n : /\ Writes(user.id, n)
                  /\ InHand(user.id) => SameCadence(n, rows[user.id]) /\ n.status = "PAUSED"
                  /\ ~InHand(user.id) => RowOnGrid(n)
<1>1. user.id \in Automations /\ user.patch \in Patches /\ user # Nobody
    BY UserWritten DEF UserWrites
<1>2. PICK n : /\ Writes(user.id, n) /\ n.deleted = rows[user.id].deleted
               /\ IF "status" \in DOMAIN user.patch
                  THEN /\ n.status = user.patch.status
                       /\ n.type = user.row.type /\ n.sched = user.row.sched
                       /\ IF user.patch.status = "ACTIVE" /\ user.row.status # "ACTIVE"
                          THEN n.retries = 0 /\ (n.type = "recurring" => n.next % n.sched = 0)
                          ELSE n.retries = user.row.retries /\ n.next = user.row.next
                  ELSE /\ n.status = user.row.status /\ n.retries = user.row.retries
                       /\ n.type = "recurring" => n.next % n.sched = 0
    BY UserWritten
<1>3. SameRow(user.row, rows[user.id])
    BY <1>1 DEF CopiesInv
<1>4. InHand(user.id) => SameCadence(n, rows[user.id]) /\ n.status = "PAUSED"
  <2>1. SUFFICES ASSUME user.patch = [status |-> "PAUSED"]
                 PROVE  SameCadence(n, rows[user.id]) /\ n.status = "PAUSED"
      BY <1>1 DEF HandInv, OnlyPauses
  <2>2. "status" \in DOMAIN user.patch /\ user.patch.status = "PAUSED"
    BY <2>1, <1>1, PatchIs
  <2> QED
    BY <2>2, <1>2, <1>3 DEF SameRow, SameCadence
<1>5. ASSUME ~InHand(user.id) PROVE RowOnGrid(n)
  <2>1. RowOnGrid(rows[user.id])
    BY <1>1, <1>5, CadenceByRow DEF HandInv
  <2>2. CASE "status" \notin DOMAIN user.patch
    BY <2>2, <1>2 DEF RowOnGrid
  <2>3. CASE "status" \in DOMAIN user.patch /\ user.patch.status = "ACTIVE" /\ user.row.status # "ACTIVE"
    BY <2>3, <1>2 DEF RowOnGrid
  <2>4. CASE "status" \in DOMAIN user.patch /\ ~(user.patch.status = "ACTIVE" /\ user.row.status # "ACTIVE")
    BY <2>1, <2>4, <1>2, <1>3 DEF RowOnGrid, SameRow
  <2> QED
    BY <2>2, <2>3, <2>4
<1> QED
    BY <1>2, <1>4, <1>5

\* No step takes a recurring automation off its grid.
LEMMA HandStep ==
    ASSUME AutomationAssumption, "racingUpdate" \notin Events, "editDuringTurn" \notin Events,
           TableInv, CopiesInv, HandInv, [Next]_vars
    PROVE  HandInv'
<1>n. now \in Nat
    BY DEF TableInv, AutoTypeOK
<1>1. CASE Tick
    BY <1>1, HandTick
<1>2. ASSUME Fire \/ (\E status \in RunStatuses : DispatchEnds(status)) \/ ReadRow \/ Passes
             \/ UNCHANGED vars
      PROVE  HandInv'
  <2>1. /\ rows' = rows /\ due' = due /\ user' = user /\ now' \in Nat /\ now <= now'
        /\ at' = "advancing" <=> at = "advancing"
        /\ at = "advancing" => outcome' = outcome
    BY <1>2, <1>n DEF Fire, DispatchEnds, ReadRow, Passes, vars, loopVars
  <2> QED
    BY <2>1, <1>n, HandQuiet
<1>3. CASE WriteSession
  <2>1. PICK n : Writes(Fired, n) /\ SameRow(n, image)
    BY <1>3, SessionWritten
  <2>2. /\ SameRow(image, rows[Fired]) /\ Fired \in Automations /\ 1 \in DOMAIN due
    BY <1>3, LoopHasOne DEF WriteSession, CopiesInv, InUpdate
  <2>3. InHand(Fired) /\ SameCadence(n, rows[Fired])
    BY <2>1, <2>2, InHandIs DEF SameRow, SameCadence, Fired
  <2> QED
    BY <2>1, <2>2, <2>3, <1>3, HandWrite DEF WriteSession
<1>4. CASE WriteOutcome
    BY <1>4, HandOutcome
<1>5. CASE AdvanceNextRun
    BY <1>5, HandAdvance
<1>6. ASSUME NEW a \in Automations, NEW s \in Schedules, Create(a, s)
      PROVE  HandInv'
  <2>1. PICK n : Writes(a, n) /\ (n.type = "recurring" => n.next % n.sched = 0)
    BY <1>6, RowCreated
  <2>2. ~InHand(a)
    BY <1>6, InHandIs DEF Create, TableInv
  <2> QED
    BY <2>1, <2>2, <1>6, HandWrite DEF Create, loopVars, RowOnGrid
<1>7. ASSUME NEW a \in Automations, NEW patch \in Patches, UserReads(a, patch)
      PROVE  HandInv'
  <2>1. user' = [id |-> a, patch |-> patch, row |-> rows[a]]
    BY <1>7 DEF UserReads
  <2>2. InHand(a) => patch = [status |-> "PAUSED"]
    BY <1>7 DEF UserReads, Timely
  <2>3. OnlyPauses'
    BY <2>1, <2>2, <1>7 DEF OnlyPauses, InHand, UserReads, loopVars
  <2>4. /\ rows' = rows /\ now' = now /\ due' = due /\ at' = at /\ outcome' = outcome
    BY <1>7 DEF UserReads, loopVars
  <2>5. RetriesAfter' = RetriesAfter
    BY <2>4 DEF RetriesAfter, Retries, Snapshot
  <2> QED
    BY <2>3, <2>4, <2>5 DEF HandInv, ListedOnce, RowsAsListed, CadenceKept, InHand
<1>8. ASSUME NEW a \in Automations, Delete(a)
      PROVE  HandInv'
  <2>1. PICK n : Writes(a, n) /\ SameRow(n, rows[a]) /\ n.deleted
    BY <1>8, RowDeleted
  <2>2. SameCadence(n, rows[a]) /\ RowOnGrid(n)
    BY <2>1 DEF SameRow, SameCadence, RowOnGrid
  <2> QED
    BY <2>1, <2>2, <1>8, HandWrite DEF Delete, loopVars
<1>9. CASE UserWrites
  <2>1. PICK n : /\ Writes(user.id, n)
                 /\ InHand(user.id) => SameCadence(n, rows[user.id])
                 /\ ~InHand(user.id) => RowOnGrid(n)
    BY <1>9, HandUser
  <2>2. user.id \in Automations
    BY <1>9, UserWritten
  <2> QED
    BY <2>1, <2>2, <1>9, HandWrite DEF UserWrites, loopVars
<1>10. CASE Restart
    BY <1>10, HandRestart
<1> QED
    BY <1>1, <1>2, <1>3, <1>4, <1>5, <1>6, <1>7, <1>8, <1>9, <1>10 DEF Next, Loop

\* What the layers up to the cadence say together.
THEOREM HandHolds ==
    "racingUpdate" \notin Events /\ "editDuringTurn" \notin Events =>
        (Spec => [](TableInv /\ CopiesInv /\ HandInv))
<1> SUFFICES ASSUME "racingUpdate" \notin Events, "editDuringTurn" \notin Events
             PROVE  Spec => [](TableInv /\ CopiesInv /\ HandInv)
    OBVIOUS
<1>1. Init => TableInv /\ CopiesInv /\ HandInv
    BY TableInit, CopiesInit, HandInit, AutomationAssumption
<1>2. TableInv /\ CopiesInv /\ HandInv /\ [Next]_vars => (TableInv /\ CopiesInv /\ HandInv)'
    BY TableStep, CopiesStep, HandStep, AutomationAssumption
<1> QED
    BY <1>1, <1>2, PTL DEF Spec

\* A recurring automation out of the loop's hands runs next at a time of its
\* own schedule, also after the daemon died between the writes of fire.
THEOREM CadenceAlwaysKept ==
    "racingUpdate" \notin Events /\ "editDuringTurn" \notin Events => (Spec => []CadenceKept)
<1> SUFFICES ASSUME "racingUpdate" \notin Events, "editDuringTurn" \notin Events
             PROVE  Spec => []CadenceKept
    OBVIOUS
<1>1. Spec => [](TableInv /\ CopiesInv /\ HandInv)
    BY HandHolds
<1>2. TableInv /\ CopiesInv /\ HandInv => CadenceKept
    BY DEF HandInv
<1> QED
    BY <1>1, <1>2, PTL

-----------------------------------------------------------------------------
(* What is over stays over and the cap counts, when the daemon also does   *)
(* not die.                                                                *)

\* HistoryInv holds of the empty table.
LEMMA HistoryInit ==
    ASSUME Init
    PROVE  HistoryInv
<1>1. DOMAIN due = {}
    BY DEF Init
<1>2. \A a \in Automations : rows[a] = NoRow /\ failures[a] = 0 /\ ~over[a]
    BY DEF Init
<1> QED
    BY <1>1, <1>2 DEF Init, HistoryInv, TableHistory, ListHistory, FiredHistory, Settled, NoRow,
                      AfterTurn

\* A step that leaves table, history and list alone.
LEMMA HistoryQuiet ==
    ASSUME HistoryInv, rows' = rows, failures' = failures, over' = over, due' = due,
           outcome' = outcome,
           at' \in AfterTurn => at \in AfterTurn, at' = "advancing" => at = "advancing",
           at' \in {"fire", "dispatching"} => at \in {"fire", "dispatching"}
    PROVE  HistoryInv'
<1>1. TableHistory'
    BY DEF HistoryInv, TableHistory, InHand
<1>2. ListHistory'
    BY DEF HistoryInv, ListHistory
<1>3. FiredHistory'
    BY DEF HistoryInv, FiredHistory, Fired, RetriesAfter, Retries, Snapshot
<1> QED
    BY <1>1, <1>2, <1>3 DEF HistoryInv

\* A step that writes one row, and its history if the loop does not have it.
LEMMA HistoryWrite ==
    ASSUME AutomationAssumption, TableInv, HistoryInv, NEW a \in Automations, NEW n, Writes(a, n),
           due' = due, outcome' = outcome,
           \A b \in Automations : b # a \/ InHand(a) =>
              failures'[b] = failures[b] /\ over'[b] = over[b],
           at' \in AfterTurn => at \in AfterTurn, at' = "advancing" => at = "advancing",
           at' \in {"fire", "dispatching"} => at \in {"fire", "dispatching"},
           InHand(a) /\ n.status = "ACTIVE" => rows[a].status = "ACTIVE",
           ~InHand(a) => Settled(n, failures'[a], over'[a])
    PROVE  HistoryInv'
<1>1. rows'[a] = n /\ n.status # "none" /\ \A b \in Automations : b # a => rows'[b] = rows[b]
    BY Rewritten DEF RealRows
<1>2. \A b : InHand(b)' <=> InHand(b)
    BY DEF InHand
<1>3. TableHistory'
    BY <1>1, <1>2 DEF HistoryInv, TableHistory
<1>4. \A i \in DOMAIN due : /\ due[i].id \in Automations
                            /\ failures'[due[i].id] = failures[due[i].id]
                            /\ over'[due[i].id] = over[due[i].id]
    BY InHandIs, ListedAreAutomations
<1>5. ListHistory'
    BY <1>4 DEF HistoryInv, ListHistory
<1>6. FiredHistory'
  <2>1. SUFFICES ASSUME at' \in AfterTurn
                 PROVE  FiredHistory'
      BY DEF FiredHistory
  <2>2. at \in AfterTurn /\ Fired \in Automations /\ 1 \in DOMAIN due /\ InHand(Fired)
    BY <2>1, LoopHasOne, InHandIs DEF AfterTurn, Fired
  <2>3. /\ failures'[Fired] = failures[Fired] /\ over'[Fired] = over[Fired]
        /\ rows'[Fired].status = "ACTIVE" => rows[Fired].status = "ACTIVE"
    BY <1>1, <2>2
  <2>4. /\ Fired' = Fired /\ Snapshot' = Snapshot
        /\ RetriesAfter' = RetriesAfter
    BY DEF Fired, RetriesAfter, Retries, Snapshot
  <2> QED
    BY <2>2, <2>3, <2>4 DEF HistoryInv, FiredHistory
<1> QED
    BY <1>3, <1>5, <1>6 DEF HistoryInv

\* What the loop lists has the history of its row.
LEMMA HistoryTick ==
    ASSUME AutomationAssumption, TableInv, HistoryInv, Tick
    PROVE  HistoryInv'
<1>1. due' \in DueLists /\ rows \in [Automations -> Row] /\ due = <<>>
    BY DEF Tick, TableInv, AutoTypeOK
<1>2. /\ due' \in Seq([id : Automations, row : Row])
      /\ \A i \in DOMAIN due' : due'[i].row = rows[due'[i].id] /\ DueAt(due'[i].row, now)
    BY <1>1, DueListed
<1>3. rows' = rows /\ failures' = failures /\ over' = over /\ at' = "fire"
    BY DEF Tick, runs
<1>4. \A a : ~InHand(a)
    BY <1>1, InHandIs
<1>5. TableHistory'
    BY <1>3, <1>4 DEF HistoryInv, TableHistory
<1>6. ListHistory'
  <2> SUFFICES ASSUME NEW i \in DOMAIN due'
               PROVE  /\ failures'[due'[i].id] = due'[i].row.retries
                      /\ due'[i].row.type = "once" => ~over'[due'[i].id]
      BY DEF ListHistory
  <2>1. due'[i] \in [id : Automations, row : Row]
    BY <1>2, EntryOf, Zenon
  <2>2. due'[i].id \in Automations
    BY <2>1
  <2>3. Settled(due'[i].row, failures[due'[i].id], over[due'[i].id])
    BY <2>2, <1>2, <1>4 DEF HistoryInv, TableHistory
  <2> QED
    BY <2>3, <1>2, <1>3 DEF Settled, DueAt
<1> QED
    BY <1>3, <1>5, <1>6 DEF HistoryInv, FiredHistory, AfterTurn

\* The run that RecordRun adds to the history.
LEMMA RunRecorded ==
    ASSUME AutomationAssumption, TableInv, NEW a \in Automations, NEW status \in RunStatuses,
           failures[a] <= MaxRetries, RecordRun(a, status)
    PROVE  /\ failures'[a] = CASE status = "failed" -> failures[a] + 1
                               [] status = "canceled" -> failures[a]
                               [] OTHER -> 0
           /\ over'[a] <=> over[a] \/ status # "failed"
           /\ \A b \in Automations : b # a =>
                 failures'[b] = failures[b] /\ over'[b] = over[b]
<1> DEFINE f == failures[a]
           c == CASE status = "failed" -> IF f > MaxRetries THEN f ELSE f + 1
                  [] status = "canceled" -> f
                  [] OTHER -> 0
           o == over[a] \/ status # "failed"
<1>1. failures \in [Automations -> 0..(MaxRetries + 1)] /\ over \in [Automations -> BOOLEAN]
    BY DEF TableInv, AutoTypeOK
<1>2. f \in Nat /\ ~(f > MaxRetries)
    BY <1>1 DEF AutomationAssumption
<1>3. failures' = [failures EXCEPT ![a] = c] /\ over' = [over EXCEPT ![a] = o]
    BY DEF RecordRun
<1>4. c = CASE status = "failed" -> f + 1
            [] status = "canceled" -> f
            [] OTHER -> 0
    BY <1>2
<1> HIDE DEF c
<1>5. failures'[a] = c /\ \A b \in Automations : b # a => failures'[b] = failures[b]
    BY <1>1, <1>3
<1>6. over'[a] = o /\ \A b \in Automations : b # a => over'[b] = over[b]
    BY <1>1, <1>3, Zenon
<1> QED
    BY <1>4, <1>5, <1>6

\* The end of the turn is in the history before fire has written it.
LEMMA HistoryRun ==
    ASSUME AutomationAssumption, TableInv, HandInv, HistoryInv,
           NEW status \in RunStatuses, DispatchEnds(status)
    PROVE  HistoryInv'
<1>0. /\ at = "dispatching" /\ at' \in {"ended", "reuse"} /\ outcome' = status
      /\ due' = due /\ rows' = rows /\ RecordRun(Fired, status)
    BY DEF DispatchEnds
<1>1. /\ Fired \in Automations /\ rows[Fired] \in RealRows /\ 1 \in DOMAIN due
      /\ Snapshot.retries \in Nat /\ Snapshot.retries < MaxRetries
      /\ DOMAIN due = 1..Len(due)
    BY <1>0, LoopHasOne
<1>2. failures[Fired] = Snapshot.retries /\ (Snapshot.type = "once" => ~over[Fired])
    BY <1>0, <1>1 DEF HistoryInv, ListHistory, Fired, Snapshot
<1>3. /\ failures'[Fired] = CASE status = "failed" -> failures[Fired] + 1
                              [] status = "canceled" -> failures[Fired]
                              [] OTHER -> 0
      /\ over'[Fired] <=> over[Fired] \/ status # "failed"
      /\ \A b \in Automations : b # Fired =>
            failures'[b] = failures[b] /\ over'[b] = over[b]
  <2>1. failures[Fired] <= MaxRetries
    BY <1>1, <1>2 DEF AutomationAssumption
  <2> QED
    BY <1>0, <1>1, <2>1, RunRecorded
<1>4. TableHistory'
  <2>1. InHand(Fired) /\ rows[Fired].status # "none"
    BY <1>1, InHandIs DEF Fired, RealRows
  <2>2. \A b : InHand(b)' <=> InHand(b)
    BY <1>0 DEF InHand
  <2> QED
    BY <1>0, <1>3, <2>1, <2>2 DEF HistoryInv, TableHistory
<1>5. ListHistory'
  <2> SUFFICES ASSUME NEW i \in DOMAIN due, i > 1
               PROVE  /\ failures'[due[i].id] = due[i].row.retries
                      /\ due[i].row.type = "once" => ~over'[due[i].id]
      BY <1>0 DEF ListHistory
  <2>1. due[i].id # Fired /\ due[i].id \in Automations
    BY <1>1, ListedAreAutomations DEF HandInv, ListedOnce, Fired
  <2> QED
    BY <2>1, <1>3 DEF HistoryInv, ListHistory
<1>6. FiredHistory'
  <2>1. Fired' = Fired /\ Snapshot' = Snapshot
    BY <1>0 DEF Fired, Snapshot
  <2>2. RetriesAfter' = CASE status = "failed" -> Snapshot.retries + 1
                          [] status = "canceled" -> Snapshot.retries
                          [] OTHER -> 0
    BY <1>0, <2>1 DEF RetriesAfter, Retries
  <2>3. failures'[Fired] = RetriesAfter'
    BY <1>2, <1>3, <2>2
  <2>4. Snapshot.type = "once" /\ status = "failed" => ~over'[Fired]
    BY <1>2, <1>3
  <2> QED
    BY <1>0, <2>1, <2>3, <2>4 DEF FiredHistory
<1> QED
    BY <1>4, <1>5, <1>6 DEF HistoryInv

\* fire's first write retires a once automation that is over.
LEMMA HistoryOutcome ==
    ASSUME AutomationAssumption, TableInv, CopiesInv, HistoryInv, WriteOutcome
    PROVE  HistoryInv'
<1>0. /\ at = "writing" /\ at' = "advancing" /\ due' = due /\ outcome' = outcome
      /\ failures' = failures /\ over' = over
    BY DEF WriteOutcome, runs
<1>1. PICK n : Writes(Fired, n) /\ n.status = StatusAfterFiring
    BY OutcomeWritten
<1>2. Fired \in Automations /\ 1 \in DOMAIN due /\ InHand(Fired)
    BY <1>0, LoopHasOne, InHandIs DEF Fired
<1>3. rows'[Fired] = n /\ n.status # "none" /\ \A b \in Automations : b # Fired => rows'[b] = rows[b]
    BY <1>1, <1>2, Rewritten DEF RealRows
<1>4. \A b : InHand(b)' <=> InHand(b)
    BY <1>0 DEF InHand
<1>5. TableHistory'
    BY <1>0, <1>2, <1>3, <1>4 DEF HistoryInv, TableHistory
<1>6. ListHistory'
    BY <1>0 DEF HistoryInv, ListHistory
<1>7. FiredHistory'
  <2>1. Fired' = Fired /\ Snapshot' = Snapshot /\ RetriesAfter' = RetriesAfter
    BY <1>0 DEF Fired, RetriesAfter, Retries, Snapshot
  <2>2. Snapshot.type = "once" /\ outcome # "failed" => n.status = "COMPLETED"
    BY <1>0, <1>1, StatusWritten
  <2> QED
    BY <1>0, <1>3, <2>1, <2>2 DEF HistoryInv, FiredHistory, AfterTurn
<1> QED
    BY <1>5, <1>6, <1>7 DEF HistoryInv

\* The loop lets go of an automation whose row says what its runs say.
LEMMA HistoryAdvance ==
    ASSUME AutomationAssumption, TableInv, HandInv, HistoryInv, AdvanceNextRun
    PROVE  HistoryInv'
<1>0. at = "advancing" /\ failures' = failures /\ over' = over
    BY DEF AdvanceNextRun, runs
<1>1. PICK n : /\ Writes(Fired, n) /\ n.status = rows[Fired].status
               /\ n.type = rows[Fired].type /\ n.retries = rows[Fired].retries
    BY NextAdvanced
<1>2. Fired \in Automations /\ 1 \in DOMAIN due
    BY <1>0, LoopHasOne
<1>3. rows'[Fired] = n /\ n.status # "none" /\ \A b \in Automations : b # Fired => rows'[b] = rows[b]
    BY <1>1, <1>2, Rewritten DEF RealRows
<1>4. /\ \A i \in DOMAIN due' : /\ i + 1 \in DOMAIN due /\ due'[i] = due[i + 1]
                                /\ i + 1 # 1 /\ due[i + 1].id # Fired
      /\ \A a : InHand(a)' <=> InHand(a) /\ a # Fired
      /\ at' \in {"idle", "fire"}
    BY HandLeft
<1>5. Settled(n, failures[Fired], over[Fired])
  <2>1. rows[Fired].type = Snapshot.type /\ rows[Fired].retries = RetriesAfter
    BY <1>0, <1>2 DEF HandInv, RowsAsListed, Fired, Snapshot
  <2>2. /\ failures[Fired] = RetriesAfter
        /\ Snapshot.type = "once" /\ rows[Fired].status = "ACTIVE" => ~over[Fired]
    BY <1>0 DEF HistoryInv, FiredHistory, AfterTurn
  <2> QED
    BY <1>1, <2>1, <2>2 DEF Settled
<1>6. TableHistory'
    BY <1>0, <1>3, <1>4, <1>5 DEF HistoryInv, TableHistory
<1>7. ListHistory'
  <2> SUFFICES ASSUME NEW i \in DOMAIN due'
               PROVE  /\ failures[due'[i].id] = due'[i].row.retries
                      /\ due'[i].row.type = "once" => ~over[due'[i].id]
      BY <1>0 DEF ListHistory
  <2>1. due'[i] = due[i + 1] /\ i + 1 \in DOMAIN due /\ i + 1 # 1
    BY <1>4
  <2>2. i + 1 > 1
    <3>1. DOMAIN due = 1..Len(due)
      BY <1>0, LoopHasOne
    <3> QED
      BY <2>1, <3>1
  <2> QED
    BY <2>1, <2>2 DEF HistoryInv, ListHistory
<1>8. FiredHistory'
    BY <1>4 DEF FiredHistory, AfterTurn
<1> QED
    BY <1>6, <1>7, <1>8 DEF HistoryInv

\* A user's write: enabling and rescheduling start the history anew.
LEMMA HistoryUser ==
    ASSUME AutomationAssumption, TableInv, CopiesInv, HandInv, HistoryInv, UserWrites
    PROVE  HistoryInv'
<1>1. user.id \in Automations /\ user.patch \in Patches /\ user # Nobody
    BY UserWritten DEF UserWrites
<1>2. PICK n : /\ Writes(user.id, n)
               /\ IF "status" \in DOMAIN user.patch
                  THEN /\ n.status = user.patch.status /\ n.type = user.row.type
                       /\ IF user.patch.status = "ACTIVE" /\ user.row.status # "ACTIVE"
                          THEN n.retries = 0
                          ELSE n.retries = user.row.retries
                  ELSE n.status = user.row.status /\ n.retries = user.row.retries
    BY UserWritten
<1>3. SameRow(user.row, rows[user.id])
    BY <1>1 DEF CopiesInv
<1> DEFINE revived == user.patch = [status |-> "ACTIVE"] /\ user.row.status # "ACTIVE"
           armed == revived \/ "schedule" \in DOMAIN user.patch
           a == user.id
<1>4. /\ failures' = IF revived THEN [failures EXCEPT ![a] = 0] ELSE failures
      /\ over' = IF armed THEN [over EXCEPT ![a] = FALSE] ELSE over
    BY DEF UserWrites
<1>5. failures \in [Automations -> 0..(MaxRetries + 1)] /\ over \in [Automations -> BOOLEAN]
    BY DEF TableInv, AutoTypeOK
<1>6. /\ revived <=> /\ "status" \in DOMAIN user.patch /\ user.patch.status = "ACTIVE"
                     /\ user.row.status # "ACTIVE"
      /\ armed <=> revived \/ "status" \notin DOMAIN user.patch
      /\ user.patch = [status |-> "PAUSED"] =>
            "status" \in DOMAIN user.patch /\ user.patch.status = "PAUSED"
    BY <1>1, PatchIs
<1>7. /\ failures'[a] = IF revived THEN 0 ELSE failures[a]
      /\ \A b \in Automations : b # a => failures'[b] = failures[b]
  <2> HIDE DEF revived
  <2> QED
    BY <1>1, <1>4, <1>5
<1>8. /\ over'[a] <=> ~armed /\ over[a]
      /\ \A b \in Automations : b # a => over'[b] = over[b]
  <2> HIDE DEF armed
  <2>1. CASE armed
    BY <2>1, <1>1, <1>4, <1>5, Zenon
  <2>2. CASE ~armed
    BY <2>2, <1>4
  <2> QED
    BY <2>1, <2>2
<1> HIDE DEF revived, armed
<1>9. ASSUME InHand(a)
      PROVE  ~revived /\ ~armed /\ n.status = "PAUSED"
    BY <1>9, <1>1, <1>2, <1>6 DEF HandInv, OnlyPauses
<1>10. ASSUME ~InHand(a)
       PROVE  Settled(n, failures'[a], over'[a])
  <2>1. Settled(rows[a], failures[a], over[a])
    BY <1>1, <1>10 DEF HistoryInv, TableHistory
  <2>2. CASE revived
    BY <2>2, <1>2, <1>6, <1>7, <1>8 DEF Settled
  <2>3. CASE ~revived /\ "status" \notin DOMAIN user.patch
    BY <2>1, <2>3, <1>2, <1>3, <1>6, <1>7, <1>8 DEF Settled, SameRow
  <2>4. CASE ~revived /\ "status" \in DOMAIN user.patch
    BY <2>1, <2>4, <1>2, <1>3, <1>6, <1>7, <1>8 DEF Settled, SameRow
  <2> QED
    BY <2>2, <2>3, <2>4
<1>11. \A b \in Automations : b # a \/ InHand(a) =>
           failures'[b] = failures[b] /\ over'[b] = over[b]
  <2>1. ASSUME InHand(a) PROVE failures' = failures /\ over' = over
    BY <2>1, <1>4, <1>9
  <2> QED
    BY <1>7, <1>8, <2>1
<1>12. due' = due /\ outcome' = outcome /\ at' = at
    BY DEF UserWrites, loopVars
<1> QED
    BY <1>1, <1>2, <1>9, <1>10, <1>11, <1>12, HistoryWrite

\* No step lets the runs and the rows disagree.
LEMMA HistoryStep ==
    ASSUME AutomationAssumption, MaxRestarts = 0,
           TableInv, CopiesInv, HandInv, HistoryInv, [Next]_vars
    PROVE  HistoryInv'
<1>1. CASE Tick
    BY <1>1, HistoryTick
<1>2. ASSUME Fire \/ ReadRow \/ Passes \/ UNCHANGED vars
             \/ \E a \in Automations, patch \in Patches : UserReads(a, patch)
      PROVE  HistoryInv'
  <2>1. /\ rows' = rows /\ failures' = failures /\ over' = over /\ due' = due
        /\ outcome' = outcome
        /\ at' \in AfterTurn => at \in AfterTurn
        /\ at' = "advancing" => at = "advancing"
        /\ at' \in {"fire", "dispatching"} => at \in {"fire", "dispatching"}
    BY <1>2 DEF Fire, ReadRow, Passes, UserReads, vars, runs, loopVars, AfterTurn
  <2> QED
    BY <2>1, HistoryQuiet
<1>3. ASSUME NEW status \in RunStatuses, DispatchEnds(status)
      PROVE  HistoryInv'
    BY <1>3, HistoryRun
<1>4. CASE WriteSession
  <2>1. PICK n : Writes(Fired, n) /\ SameRow(n, image)
    BY <1>4, SessionWritten
  <2>2. /\ SameRow(image, rows[Fired]) /\ Fired \in Automations /\ 1 \in DOMAIN due
    BY <1>4, LoopHasOne DEF WriteSession, CopiesInv, InUpdate
  <2>3. InHand(Fired) /\ n.status = rows[Fired].status
    BY <2>1, <2>2, InHandIs DEF SameRow, Fired
  <2>4. /\ due' = due /\ outcome' = outcome /\ failures' = failures /\ over' = over
        /\ at' = "ended" /\ at = "reusing"
    BY <1>4 DEF WriteSession, runs
  <2> QED
    BY <2>1, <2>2, <2>3, <2>4, HistoryWrite DEF AfterTurn
<1>5. CASE WriteOutcome
    BY <1>5, HistoryOutcome
<1>6. CASE AdvanceNextRun
    BY <1>6, HistoryAdvance
<1>7. ASSUME NEW a \in Automations, NEW s \in Schedules, Create(a, s)
      PROVE  HistoryInv'
  <2>1. PICK n : Writes(a, n) /\ n.retries = 0
    BY <1>7, RowCreated
  <2>2. /\ due' = due /\ outcome' = outcome /\ at' = at /\ failures' = failures /\ over' = over
        /\ rows[a].status = "none"
    BY <1>7 DEF Create, runs, loopVars
  <2>3. ~InHand(a)
    BY <2>2, InHandIs DEF TableInv
  <2>4. Settled(n, failures[a], over[a])
    BY <2>1, <2>2 DEF HistoryInv, TableHistory, Settled
  <2> QED
    BY <2>1, <2>2, <2>3, <2>4, HistoryWrite
<1>8. ASSUME NEW a \in Automations, Delete(a)
      PROVE  HistoryInv'
  <2>1. PICK n : Writes(a, n) /\ SameRow(n, rows[a])
    BY <1>8, RowDeleted
  <2>2. /\ due' = due /\ outcome' = outcome /\ at' = at /\ failures' = failures /\ over' = over
    BY <1>8 DEF Delete, runs, loopVars
  <2>3. ~InHand(a) => Settled(n, failures[a], over[a])
    BY <2>1 DEF HistoryInv, TableHistory, Settled, SameRow
  <2> QED
    BY <2>1, <2>2, <2>3, HistoryWrite DEF SameRow
<1>9. CASE UserWrites
    BY <1>9, HistoryUser
<1>10. ~Restart
    BY DEF Restart, TableInv, AutoTypeOK
<1> QED
    BY <1>1, <1>2, <1>3, <1>4, <1>5, <1>6, <1>7, <1>8, <1>9, <1>10 DEF Next, Loop

\* What is assumed of the environment where the history of the runs counts.
Undisturbed ==
    "racingUpdate" \notin Events /\ "editDuringTurn" \notin Events /\ MaxRestarts = 0

\* All the layers.
LEMMA HistoryHolds ==
    Undisturbed => (Spec => [](TableInv /\ CopiesInv /\ HandInv /\ HistoryInv))
<1> SUFFICES ASSUME "racingUpdate" \notin Events, "editDuringTurn" \notin Events, MaxRestarts = 0
             PROVE  Spec => [](TableInv /\ CopiesInv /\ HandInv /\ HistoryInv)
    BY DEF Undisturbed
<1>1. Init => TableInv /\ CopiesInv /\ HandInv /\ HistoryInv
    BY TableInit, CopiesInit, HandInit, HistoryInit, AutomationAssumption
<1>2. TableInv /\ CopiesInv /\ HandInv /\ HistoryInv /\ [Next]_vars =>
         (TableInv /\ CopiesInv /\ HandInv /\ HistoryInv)'
    BY TableStep, CopiesStep, HandStep, HistoryStep, AutomationAssumption
<1> QED
    BY <1>1, <1>2, PTL DEF Spec

\* A once automation whose run succeeded, was cancelled or was skipped is not
\* dispatched again until a user arms it anew.
THEOREM WhatIsOverStaysOver == Undisturbed => (Spec => []AutoInv)
<1> SUFFICES ASSUME Undisturbed
             PROVE  Spec => []AutoInv
    OBVIOUS
<1>1. Spec => [](TableInv /\ CopiesInv /\ HandInv /\ HistoryInv)
    BY HistoryHolds
<1>2. TableInv /\ CopiesInv /\ HandInv /\ HistoryInv => AutoInv
  <2> SUFFICES ASSUME TableInv, HistoryInv, at = "dispatching", Snapshot.type = "once"
               PROVE  ~over[Fired]
      BY DEF AutoInv, OnceDropped, TableInv
  <2>1. 1 \in DOMAIN due
    BY LoopHasOne, AutomationAssumption
  <2> QED
    BY <2>1 DEF HistoryInv, ListHistory, Fired, Snapshot
<1> QED
    BY <1>1, <1>2, PTL

\* The loop gives up after exactly MaxRetries failures in a row.
THEOREM GivesUpAtTheCap == Undisturbed => (Spec => CapAfterRetries)
<1> SUFFICES ASSUME Undisturbed
             PROVE  Spec => CapAfterRetries
    OBVIOUS
<1>1. Spec => [](TableInv /\ CopiesInv /\ HandInv /\ HistoryInv)
    BY HistoryHolds
<1>2. TableInv /\ CopiesInv /\ HandInv /\ HistoryInv /\ [Next]_vars =>
         [WriteOutcome /\ outcome = "failed" /\ rows[Fired].status = "ACTIVE" =>
            (rows'[Fired].status # "ACTIVE" <=> failures[Fired] = MaxRetries)]_vars
  <2> SUFFICES ASSUME TableInv, CopiesInv, HistoryInv,
                      WriteOutcome, outcome = "failed", rows[Fired].status = "ACTIVE"
               PROVE  rows'[Fired].status # "ACTIVE" <=> failures[Fired] = MaxRetries
      OBVIOUS
  <2>1. at = "writing"
    BY DEF WriteOutcome
  <2>2. /\ Fired \in Automations /\ Snapshot.retries \in Nat /\ Snapshot.retries < MaxRetries
        /\ SameRow(image, rows[Fired])
    BY <2>1, LoopHasOne, AutomationAssumption DEF CopiesInv, InUpdate
  <2>3. PICK n : Writes(Fired, n) /\ n.status = StatusAfterFiring
    BY OutcomeWritten, AutomationAssumption
  <2>4. rows'[Fired].status = StatusAfterFiring
    BY <2>2, <2>3, Rewritten
  <2>5. failures[Fired] = Snapshot.retries + 1
    BY <2>1 DEF HistoryInv, FiredHistory, AfterTurn, RetriesAfter, Retries
  <2>6. Capped <=> failures[Fired] = MaxRetries
    BY <2>2, <2>5, AutomationAssumption DEF Capped, Retries, AutomationAssumption
  <2>7. StatusAfterFiring # "ACTIVE" <=> Capped
    BY <2>1, <2>2, StatusWritten, AutomationAssumption DEF SameRow
  <2> QED
    BY <2>4, <2>6, <2>7
<1> QED
    BY <1>1, <1>2, PTL DEF Spec, CapAfterRetries
=============================================================================
