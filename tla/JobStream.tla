------------------------------ MODULE JobStream ------------------------------
(***************************************************************************)
(* A background command and what clients see of it: the registry that      *)
(* starts, waits for and cancels the process (internal/jobs/jobs.go), the  *)
(* sink that coalesces its output and writes the job's event log           *)
(* (internal/runtime/jobs_sink.go), the bus that fans events out           *)
(* (internal/conversation/subscription.go) and the bridge of every         *)
(* connection (internal/server/bridge.go, job_stream.go).                  *)
(*                                                                         *)
(* One job.  Four kinds of goroutines emit into its stream: the one that   *)
(* called Start and later waits for the process ("job"), the copier of the *)
(* process's output ("copier") and the timers of the sink.  Emitting is    *)
(* recording, which assigns the sequence number, then finding the bus,     *)
(* then fanning out, and no lock spans two of these.                       *)
(***************************************************************************)
EXTENDS Naturals, Sequences, FiniteSets, SequencesExt

CONSTANTS
    Clients,      \* devices that watch the job
    Timers,       \* goroutines of fired timers, bounds how many overlap
    MaxChunks,    \* bound: writes of the process
    FlushChunks,  \* jobFlushBytes, in chunks
    ChanSize,     \* the buffer of a subscription, 256 in the code
    MaxJoins      \* bound: connections of one client

ASSUME StreamAssumption ==
    /\ {MaxChunks, FlushChunks, ChanSize, MaxJoins} \subseteq Nat
    /\ Timers \cap {"job", "copier"} = {}

VARIABLES
    \* jobs.Job and its process
    pc,        \* where the goroutine of Start, then of Wait, is
    status,    \* Job.status
    snap,      \* the status in the snapshot handed to JobFinished
    proc,      \* the process: none, alive, ok, bad (its exit)
    killed,    \* the job's context is cancelled
    canceller, \* where Registry.Cancel is
    lease,     \* the execution lease is held
    done,      \* Job.done is closed
    written,   \* chunks written so far
    \* the sink
    pending,   \* the buffered output, in chunks
    timer,     \* the buffer's timer: none, set, fired
    hand,      \* the event an emitter is emitting
    stage,     \* how far it is
    seq,       \* the sequence number it was given
    target,    \* the bus it found
    log,       \* the job's partition of the event store
    \* subscriptions
    bus,       \* the bus in the manager's map, 0 when there is none
    nextBus,   \* buses created so far
    closed,    \* closed buses
    mapLock,   \* the client whose removeIfIdle holds the manager's lock
    at,        \* where a client's connection is
    mine,      \* the bus it got
    idle,      \* what its removeIfIdle read
    chan,      \* its channel
    \* the client's side
    view,      \* sequence numbers the client has
    base,      \* the log's length when it fetched the backlog
    lost,      \* frames dropped because its channel was full
    joins      \* connections so far

jobVars == <<pc, status, snap, proc, killed, canceller, lease, done, written>>
sinkVars == <<pending, timer, hand, stage, seq, target, log>>
busVars == <<bus, nextBus, closed, mapLock, at, mine, idle, chan>>
clientVars == <<view, base, lost, joins>>
streamVars == <<jobVars, sinkVars, busVars, clientVars>>

Emitters == {"job", "copier"} \cup Timers

Event(kind, chunks, s) == [kind |-> kind, chunks |-> chunks, status |-> s]
Nothing == Event("none", <<>>, "none")
Output(chunks) == Event("output", chunks, "none")

\* A connection that unsubscribes has left the subs of its bus.
Subscribed == {"open", "live"}

StreamInit ==
    /\ pc = "none" /\ status = "none" /\ snap = "none" /\ proc = "none"
    /\ killed = FALSE /\ canceller = "idle" /\ lease = FALSE /\ done = FALSE
    /\ written = 0
    /\ pending = <<>> /\ timer = "none"
    /\ hand = [e \in Emitters |-> Nothing]
    /\ stage = [e \in Emitters |-> "idle"]
    /\ seq = [e \in Emitters |-> 0]
    /\ target = [e \in Emitters |-> 0]
    /\ log = <<>>
    /\ bus = 0 /\ nextBus = 0 /\ closed = {} /\ mapLock = {}
    /\ at = [c \in Clients |-> "off"]
    /\ mine = [c \in Clients |-> 0]
    /\ idle = [c \in Clients |-> FALSE]
    /\ chan = [c \in Clients |-> <<>>]
    /\ view = [c \in Clients |-> {}]
    /\ base = [c \in Clients |-> 0]
    /\ lost = [c \in Clients |-> {}]
    /\ joins = [c \in Clients |-> 0]

-----------------------------------------------------------------------------
(***************************************************************************)
(* The sink.                                                               *)
(***************************************************************************)
Idle(e) == stage[e] = "idle"

\* emitChild begins; an empty span is not emitted.
Emitting(e, ev) ==
    /\ hand' = [hand EXCEPT ![e] = IF ev = Output(<<>>) THEN Nothing ELSE ev]
    /\ stage' = [stage EXCEPT ![e] = IF ev = Output(<<>>) THEN "idle" ELSE "taken"]

\* Mutant: the buffer is emitted but stays in the map.
TakeAndKeep(e, buf) ==
    /\ Emitting(e, Output(buf))
    /\ pending' = buf
    /\ timer' = "none"

\* Mutant: the next buffer finds the timer of the last one.
TakeKeepingTimer(e, buf) ==
    /\ Emitting(e, Output(buf))
    /\ pending' = <<>>
    /\ UNCHANGED timer

\* takeLocked and emitOutput: buf is detached, its timer stopped.
TakeLocked(e, buf) ==
    /\ Emitting(e, Output(buf))
    /\ pending' = <<>>
    /\ timer' = "none"

\* JobOutput, called by whoever writes: buffer, and flush by size or by time.
JobOutput(e) ==
    LET buf == Append(pending, written + 1)
    IN /\ written' = written + 1
       /\ IF Len(buf) >= FlushChunks THEN TakeLocked(e, buf)
          ELSE /\ pending' = buf
               /\ timer' = IF timer = "none" THEN "set" ELSE timer
               /\ UNCHANGED <<hand, stage>>

\* The timer runs out; its goroutine has not got the lock yet.
TimerFires(e) ==
    /\ Idle(e)
    /\ timer = "set"
    /\ timer' = "fired"
    /\ stage' = [stage EXCEPT ![e] = "fired"]
    /\ UNCHANGED <<jobVars, pending, hand, seq, target, log, busVars, clientVars>>

\* flush takes what is buffered now, possibly a newer buffer than its own.
TimerFlush(e) ==
    /\ stage[e] = "fired"
    /\ TakeLocked(e, pending)
    /\ UNCHANGED <<jobVars, seq, target, log, busVars, clientVars>>

\* record: the store assigns the next sequence number.
Record(e) ==
    /\ stage[e] = "taken"
    /\ log' = Append(log, hand[e])
    /\ seq' = [seq EXCEPT ![e] = Len(log) + 1]
    /\ stage' = [stage EXCEPT ![e] = "recorded"]
    /\ UNCHANGED <<jobVars, pending, timer, hand, target, busVars, clientVars>>

\* Mutant: the emitter keeps the bus it found first.
CachedBus(e) == IF target[e] = 0 THEN bus ELSE target[e]

\* dynamicEmitter looks the bus up for every event.
CurrentBus(e) == bus

Resolve(e) ==
    /\ stage[e] = "recorded"
    /\ mapLock = {}
    /\ target' = [target EXCEPT ![e] = CurrentBus(e)]
    /\ stage' = [stage EXCEPT ![e] = "resolved"]
    /\ UNCHANGED <<jobVars, pending, timer, hand, seq, log, busVars, clientVars>>

\* The subs of bus b.
Subs(b) == {c \in Clients : at[c] \in Subscribed /\ mine[c] = b /\ b \notin closed}

Full(c) == Len(chan[c]) >= ChanSize

\* sessionBus.Emit never blocks: a full channel loses the frame.
Fan(e) ==
    LET S == Subs(target[e])
    IN /\ stage[e] = "resolved"
       /\ chan' = [c \in Clients |-> IF c \in S /\ ~Full(c) THEN Append(chan[c], seq[e])
                                     ELSE chan[c]]
       /\ lost' = [c \in Clients |-> IF c \in S /\ Full(c) THEN lost[c] \cup {seq[e]}
                                     ELSE lost[c]]
       /\ hand' = [hand EXCEPT ![e] = Nothing]
       /\ seq' = [seq EXCEPT ![e] = 0]
       /\ stage' = [stage EXCEPT ![e] = "idle"]
       /\ UNCHANGED <<jobVars, pending, timer, target, log, bus, nextBus, closed, mapLock,
                      at, mine, idle, view, base, joins>>

-----------------------------------------------------------------------------
(***************************************************************************)
(* The job: Registry.Start, the goroutine that waits, Registry.Cancel and  *)
(* the process itself.                                                     *)
(***************************************************************************)
StreamSide == <<busVars, clientVars>>

Start ==
    /\ pc = "none"
    /\ pc' = "registered"
    /\ status' = "running"
    /\ UNCHANGED <<snap, proc, killed, canceller, lease, done, written, sinkVars, StreamSide>>

\* AcquireJobLease may refuse; JobStarted is called in either case.
Announce ==
    /\ pc = "registered"
    /\ lease' \in BOOLEAN
    /\ Emitting("job", Event("started", <<>>, "running"))
    /\ pc' = "announced"
    /\ UNCHANGED <<status, snap, proc, killed, canceller, done, written, pending, timer, seq,
                   target, log, StreamSide>>

\* Admission was refused, argv is malformed or exec fails; with a context
\* that is already cancelled it always fails.  The reason is output.
Refuse ==
    /\ pc = "announced" /\ Idle("job")
    /\ JobOutput("job")
    /\ pc' = "refused"
    /\ UNCHANGED <<status, snap, proc, killed, canceller, lease, done, seq, target, log,
                   StreamSide>>

Launch ==
    /\ pc = "announced" /\ Idle("job")
    /\ lease /\ ~killed
    /\ proc' = "alive"
    /\ pc' = "running"
    /\ UNCHANGED <<status, snap, killed, canceller, lease, done, written, sinkVars, StreamSide>>

\* Job.finish, after the lease was released.
FinishUnstarted ==
    /\ pc = "refused" /\ Idle("job")
    /\ lease' = FALSE
    /\ status' = "failed"
    /\ snap' = "failed"
    /\ done' = TRUE
    /\ pc' = "finishing"
    /\ UNCHANGED <<proc, killed, canceller, written, sinkVars, StreamSide>>

\* Mutant: the exit of the process wins over the cancellation.
StatusByExit == IF proc = "ok" THEN "exited" ELSE "failed"

\* The verdict of the goroutine that waited.
StatusAfterExit ==
    IF status = "canceled" THEN status ELSE IF proc = "ok" THEN "exited" ELSE "failed"

\* cmd.Wait returns when the process is gone and its output is copied.
Reap ==
    /\ pc = "running"
    /\ proc \in {"ok", "bad"}
    /\ Idle("copier")
    /\ status' = StatusAfterExit
    /\ snap' = StatusAfterExit
    /\ pc' = "finishing"
    /\ UNCHANGED <<proc, killed, canceller, lease, done, written, sinkVars, StreamSide>>

\* JobFinished: flush, then the closing bracket.
FinalFlush ==
    /\ pc = "finishing"
    /\ TakeLocked("job", pending)
    /\ pc' = "flushed"
    /\ UNCHANGED <<status, snap, proc, killed, canceller, lease, done, written, seq, target,
                   log, StreamSide>>

JobFinished ==
    /\ pc = "flushed" /\ Idle("job")
    /\ Emitting("job", Event("finished", <<>>, snap))
    /\ pc' = "published"
    /\ UNCHANGED <<status, snap, proc, killed, canceller, lease, done, written, pending,
                   timer, seq, target, log, StreamSide>>

\* The lease is released and done closed.
CloseDone ==
    /\ pc = "published" /\ Idle("job")
    /\ lease' = FALSE
    /\ done' = TRUE
    /\ pc' = "closed"
    /\ UNCHANGED <<status, snap, proc, killed, canceller, written, sinkVars, StreamSide>>

\* Registry.Cancel marks the job, then cancels its context.
CancelMark ==
    /\ canceller = "idle"
    /\ status = "running"
    /\ status' = "canceled"
    /\ canceller' = "marked"
    /\ UNCHANGED <<pc, snap, proc, killed, lease, done, written, sinkVars, StreamSide>>

CancelKill ==
    /\ canceller = "marked"
    /\ killed' = TRUE
    /\ canceller' = "returned"
    /\ UNCHANGED <<pc, status, snap, proc, lease, done, written, sinkVars, StreamSide>>

ProcessWrites ==
    /\ proc = "alive"
    /\ Idle("copier")
    /\ written < MaxChunks
    /\ JobOutput("copier")
    /\ UNCHANGED <<pc, status, snap, proc, killed, canceller, lease, done, seq, target, log,
                   StreamSide>>

ProcessExits ==
    /\ proc = "alive"
    /\ proc' \in {"ok", "bad"}
    /\ UNCHANGED <<pc, status, snap, killed, canceller, lease, done, written, sinkVars,
                   StreamSide>>

-----------------------------------------------------------------------------
(***************************************************************************)
(* Connections: ServeHTTP with Bridge.Run, SubscriptionManager.Subscribe   *)
(* and its unsubscribe function.                                           *)
(***************************************************************************)
ServerSide == <<jobVars, sinkVars>>

\* getOrCreate.
Join(c) ==
    /\ at[c] = "off"
    /\ joins[c] < MaxJoins
    /\ mapLock = {}
    /\ bus' = IF bus = 0 THEN nextBus + 1 ELSE bus
    /\ nextBus' = IF bus = 0 THEN nextBus + 1 ELSE nextBus
    /\ mine' = [mine EXCEPT ![c] = bus']
    /\ joins' = [joins EXCEPT ![c] = @ + 1]
    /\ at' = [at EXCEPT ![c] = "joining"]
    /\ UNCHANGED <<ServerSide, closed, mapLock, idle, chan, view, base, lost>>

\* sessionBus.Subscribe: a closed bus gives a closed channel.
Subscribe(c) ==
    /\ at[c] = "joining"
    /\ at' = [at EXCEPT ![c] = IF mine[c] \in closed THEN "eof" ELSE "open"]
    /\ UNCHANGED <<ServerSide, bus, nextBus, closed, mapLock, mine, idle, chan, clientVars>>

\* The newest event the client has.
Cursor(c) == CHOOSE k \in view[c] \cup {0} : \A l \in view[c] : l <= k

\* After hello the client fetches the events since its cursor.
Backlog(c) ==
    /\ at[c] = "open"
    /\ view' = [view EXCEPT ![c] = @ \cup (Cursor(c) + 1)..Len(log)]
    /\ base' = [base EXCEPT ![c] = Len(log)]
    /\ lost' = [lost EXCEPT ![c] = {}]
    /\ at' = [at EXCEPT ![c] = "live"]
    /\ UNCHANGED <<ServerSide, bus, nextBus, closed, mapLock, mine, idle, chan, joins>>

Pump(c) ==
    /\ at[c] = "live"
    /\ chan[c] # <<>>
    /\ view' = [view EXCEPT ![c] = @ \cup {Head(chan[c])}]
    /\ chan' = [chan EXCEPT ![c] = Tail(@)]
    /\ UNCHANGED <<ServerSide, bus, nextBus, closed, mapLock, at, mine, idle, base, lost, joins>>

\* The client goes away, or its channel was closed: unsubscribe.
Unsubscribe(c) ==
    /\ at[c] \in Subscribed \cup {"eof"}
    /\ at' = [at EXCEPT ![c] = "unsubscribed"]
    /\ chan' = [chan EXCEPT ![c] = <<>>]
    /\ UNCHANGED <<ServerSide, bus, nextBus, closed, mapLock, mine, idle, clientVars>>

\* subscriberCount() = 0, read without the lock of the bus.
NobodyLeft(c) == Subs(bus) = {}

\* removeIfIdle holds the manager's lock from here to RemoveIdle.
CheckIdle(c) ==
    /\ at[c] = "unsubscribed"
    /\ mapLock = {}
    /\ mapLock' = {c}
    /\ idle' = [idle EXCEPT ![c] = bus # 0 /\ NobodyLeft(c)]
    /\ at' = [at EXCEPT ![c] = "checked"]
    /\ UNCHANGED <<ServerSide, bus, nextBus, closed, mine, chan, clientVars>>

\* sessionBus.Close.
CloseBus(b) == closed' = closed \cup {b}

RemoveIdle(c) ==
    /\ at[c] = "checked"
    /\ mapLock' = {}
    /\ IF idle[c] THEN CloseBus(bus) /\ bus' = 0 ELSE UNCHANGED <<closed, bus>>
    /\ idle' = [idle EXCEPT ![c] = FALSE]
    /\ at' = [at EXCEPT ![c] = "off"]
    /\ UNCHANGED <<ServerSide, nextBus, mine, chan, clientVars>>

-----------------------------------------------------------------------------
EmitStep(e) == Record(e) \/ Resolve(e) \/ Fan(e)
TimerStep(e) == TimerFires(e) \/ TimerFlush(e)
JobStep ==
    \/ Announce \/ Launch \/ Refuse \/ FinishUnstarted
    \/ Reap \/ FinalFlush \/ JobFinished \/ CloseDone
LeaveStep(c) == CheckIdle(c) \/ RemoveIdle(c)

StreamNext ==
    \/ Start \/ JobStep \/ CancelMark \/ CancelKill \/ ProcessWrites \/ ProcessExits
    \/ \E e \in Emitters : EmitStep(e)
    \/ \E e \in Timers : TimerStep(e)
    \/ \E c \in Clients :
          \/ Join(c) \/ Subscribe(c) \/ Backlog(c) \/ Pump(c) \/ Unsubscribe(c)
          \/ LeaveStep(c)

StreamSpec == StreamInit /\ [][StreamNext]_streamVars

(***************************************************************************)
(* Goroutines run, timers fire, a killed process dies, and the manager's   *)
(* lock is always given back.  A process nobody kills may run for ever.    *)
(***************************************************************************)
StreamFairness ==
    /\ WF_streamVars(JobStep)
    /\ WF_streamVars(CancelKill)
    /\ WF_streamVars(killed /\ ProcessExits)
    /\ \A e \in Emitters : SF_streamVars(EmitStep(e))
    /\ \A e \in Timers : WF_streamVars(TimerStep(e))
    /\ \A c \in Clients : WF_streamVars(RemoveIdle(c))

StreamFairSpec == StreamSpec /\ StreamFairness

-----------------------------------------------------------------------------
(***************************************************************************)
(* Type correctness.                                                       *)
(***************************************************************************)
Chunks == Seq(1..(MaxChunks + 1))
EventType == [kind : {"none", "started", "output", "finished"}, chunks : Chunks,
              status : {"none", "running", "exited", "failed", "canceled"}]
StreamTypeOK ==
    /\ pc \in {"none", "registered", "announced", "refused", "running", "finishing",
               "flushed", "published", "closed"}
    /\ status \in {"none", "running", "exited", "failed", "canceled"}
    /\ snap \in {"none", "exited", "failed", "canceled"}
    /\ proc \in {"none", "alive", "ok", "bad"}
    /\ {killed, lease, done} \subseteq BOOLEAN
    /\ canceller \in {"idle", "marked", "returned"}
    /\ written \in 0..(MaxChunks + 1)
    /\ pending \in Chunks
    /\ timer \in {"none", "set", "fired"}
    /\ hand \in [Emitters -> EventType]
    /\ stage \in [Emitters -> {"idle", "fired", "taken", "recorded", "resolved"}]
    /\ seq \in [Emitters -> Nat]
    /\ target \in [Emitters -> 0..nextBus]
    /\ log \in Seq(EventType)
    /\ nextBus \in Nat /\ bus \in 0..nextBus /\ closed \subseteq 1..nextBus
    /\ mapLock \subseteq Clients
    /\ at \in [Clients -> Subscribed \cup {"off", "joining", "eof", "unsubscribed", "checked"}]
    /\ mine \in [Clients -> 0..nextBus]
    /\ idle \in [Clients -> BOOLEAN]
    /\ chan \in [Clients -> Seq(Nat)]
    /\ view \in [Clients -> SUBSET (1..Len(log))]
    /\ base \in [Clients -> Nat]
    /\ lost \in [Clients -> SUBSET Nat]
    /\ joins \in [Clients -> 0..MaxJoins]

(***************************************************************************)
(* Every chunk the process wrote is in exactly one place: buffered, in the *)
(* hands of one goroutine that will record it, or in the log; flushes by   *)
(* size, by time and at the end meet on one buffer (JobOutput, flush,      *)
(* JobFinished).                                                           *)
(***************************************************************************)
Unrecorded == {e \in Emitters : stage[e] = "taken"}
Positions(k, s) == {i \in DOMAIN s : s[i] = k}
Buffered(k) == {<<"buffer", 0, i>> : i \in Positions(k, pending)}
Held(k) == UNION {{<<"hand", e, i>> : i \in Positions(k, hand[e].chunks)} : e \in Unrecorded}
Logged(k) == UNION {{<<"log", n, i>> : i \in Positions(k, log[n].chunks)} : n \in DOMAIN log}
Whereabouts(k) == Buffered(k) \cup Held(k) \cup Logged(k)
ChunksAccounted == \A k \in 1..written : Cardinality(Whereabouts(k)) = 1

(***************************************************************************)
(* The state of jobs, sink and subscriptions is well formed, and no chunk is *)
(* lost or doubled.                                                        *)
(***************************************************************************)
StreamInv == StreamTypeOK /\ ChunksAccounted

(***************************************************************************)
(* A job that Cancel accepted is never published as a success, whichever   *)
(* way its exit and the cancellation race (Registry.Cancel against the     *)
(* goroutine of Start), and it is published once.                          *)
(***************************************************************************)
Published == {i \in DOMAIN log : log[i].kind = "finished"}
CancelNeverSuccess ==
    /\ Cardinality(Published) <= 1
    /\ canceller # "idle" => \A i \in Published : log[i].status # "exited"

(***************************************************************************)
(* A connected client misses no event after its backlog: each one is       *)
(* shown, in its channel, still to be fanned out to its bus, or was        *)
(* dropped because its channel was full.  This needs its bus to stay in    *)
(* the manager's map while others come and go (Subscribe, removeIfIdle,    *)
(* dynamicEmitter).                                                        *)
(***************************************************************************)
Coming(c, k) ==
    \E e \in Emitters : /\ seq[e] = k
                        /\ \/ stage[e] = "recorded"
                           \/ stage[e] = "resolved" /\ target[e] = mine[c]
NoMissedFrame ==
    \A c \in Clients :
        at[c] = "live" /\ mine[c] \notin closed =>
            \A k \in (base[c] + 1)..Len(log) :
                k \in view[c] \cup lost[c] \cup ToSet(chan[c]) \/ Coming(c, k)

(***************************************************************************)
(* Buffered output is never forgotten: while there is any, its timer runs, *)
(* the goroutine of a fired timer is about to take it, or the job ends and *)
(* its final flush is to come, whichever flushes overtake each other       *)
(* (JobOutput, flush, takeLocked, JobFinished).                            *)
(***************************************************************************)
BufferAttended ==
    pending # <<>> =>
        \/ timer = "set"
        \/ \E e \in Timers : stage[e] = "fired"
        \/ pc \in {"refused", "finishing"}

(***************************************************************************)
(* What a process writes reaches the log although the process may go on    *)
(* for ever without filling the buffer (the timer of JobOutput).           *)
(***************************************************************************)
OutputLogged ==
    \A k \in 1..MaxChunks : written >= k ~> Logged(k) # {}

(***************************************************************************)
(* A cancelled job comes to an end and says so: its closing bracket is     *)
(* logged and done is closed (Registry.Cancel, Start).                     *)
(***************************************************************************)
CancelledEnds == canceller = "marked" ~> Published # {} /\ done

(***************************************************************************)
(* A client that reconnects and fetches the events after its cursor has    *)
(* everything that was logged before (emitChild: the sequence number is on *)
(* the live frame so that the client's cursor works).                      *)
(***************************************************************************)
BacklogComplete == \A c \in Clients : at[c] = "live" => 1..base[c] \subseteq view[c]

(***************************************************************************)
(* The persisted stream carries the output in the order it was written.    *)
(***************************************************************************)
LoggedOutput == FlattenSeq([i \in DOMAIN log |-> log[i].chunks])
LogFaithful == \A i, j \in DOMAIN LoggedOutput : i < j => LoggedOutput[i] < LoggedOutput[j]

(***************************************************************************)
(* Whoever is unblocked by done finds the closing bracket already logged.  *)
(***************************************************************************)
DoneMeansPublished == done => Published # {}
=============================================================================
