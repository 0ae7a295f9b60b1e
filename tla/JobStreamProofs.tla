-------------------------- MODULE JobStreamProofs --------------------------
(***************************************************************************)
(* Proofs about JobStream, for every set of clients and of timers'         *)
(* goroutines and every size of the buffers.                               *)
(***************************************************************************)
EXTENDS JobStream, FiniteSetTheorems, WellFoundedInduction, TLAPS

\* Frames on their way have numbers the log has given out.
SeqsLogged ==
    /\ \A e \in Emitters : stage[e] \in {"recorded", "resolved"} => seq[e] \in 1..Len(log)
    /\ \A c \in Clients : chan[c] \in Seq(1..Len(log))

\* How far the job is decides what its process, its verdict and the emission
\* of its goroutine can be.
JobProgress ==
    /\ pc \in {"none", "registered", "announced"} => proc = "none" /\ written = 0
    /\ pc \in {"none", "registered", "running", "finishing"} => Idle("job")
    /\ pc \in {"none", "registered", "announced", "refused", "running"} <=> snap = "none"
    /\ snap # "none" => status = snap
    /\ pc = "none" => status = "none" /\ canceller = "idle"
    /\ canceller # "idle" => status = "canceled" \/ snap = "failed"

\* The closing bracket is emitted once, by the job's goroutine, with the
\* status of the snapshot.
Closing ==
    /\ Published # {} => pc \in {"published", "closed"}
    /\ \A i, j \in Published : i = j
    /\ \A i \in Published : log[i].status = snap
    /\ \A e \in Emitters :
          stage[e] = "taken" /\ hand[e].kind = "finished" =>
              e = "job" /\ pc = "published" /\ Published = {} /\ hand[e].status = snap

\* A buffer has a timer, and a timer that has fired a goroutine.
TimersKept ==
    /\ pending # <<>> => timer # "none"
    /\ timer = "fired" => \E e \in Timers : stage[e] = "fired"

\* One client at a time is inside removeIfIdle.
RemovalLocked ==
    \A c \in Clients : /\ at[c] = "checked" <=> c \in mapLock
                       /\ at[c] = "checked" => mapLock = {c}
                       /\ idle[c] => at[c] = "checked" /\ bus # 0

\* The bus of a connection is the one in the map, or it is closed.
BusShared ==
    \A c \in Clients : at[c] \in {"joining", "open", "live"} =>
        mine[c] # 0 /\ (mine[c] \notin closed => mine[c] = bus)

\* Every chunk written is in one place, a later one in none.
ChunksPlaced ==
    \A k \in Nat \ {0} : IF k <= written THEN \E p : Whereabouts(k) = {p}
                         ELSE Whereabouts(k) = {}

StreamIInv ==
    /\ StreamTypeOK
    /\ SeqsLogged
    /\ JobProgress /\ Closing
    /\ TimersKept
    /\ RemovalLocked /\ BusShared /\ NoMissedFrame
    /\ ChunksPlaced

-----------------------------------------------------------------------------
(***************************************************************************)
(* The types in groups that change together.                               *)
(***************************************************************************)
Statuses == {"none", "running", "exited", "failed", "canceled"}
PCs == {"none", "registered", "announced", "refused", "running", "finishing", "flushed",
        "published", "closed"}
Stages == {"idle", "fired", "taken", "recorded", "resolved"}
Places == Subscribed \cup {"off", "joining", "eof", "unsubscribed", "checked"}

JobTypes ==
    /\ pc \in PCs
    /\ status \in Statuses
    /\ snap \in {"none", "exited", "failed", "canceled"}
    /\ proc \in {"none", "alive", "ok", "bad"}
    /\ killed \in BOOLEAN /\ lease \in BOOLEAN /\ done \in BOOLEAN
    /\ canceller \in {"idle", "marked", "returned"}
    /\ written \in 0..(MaxChunks + 1)

SinkTypes ==
    /\ pending \in Chunks
    /\ timer \in {"none", "set", "fired"}
    /\ hand \in [Emitters -> EventType]
    /\ stage \in [Emitters -> Stages]
    /\ seq \in [Emitters -> Nat]
    /\ log \in Seq(EventType)

BusTypes ==
    /\ nextBus \in Nat
    /\ bus \in 0..nextBus
    /\ closed \subseteq 1..nextBus
    /\ mine \in [Clients -> 0..nextBus]
    /\ target \in [Emitters -> 0..nextBus]

ClientTypes ==
    /\ mapLock \subseteq Clients
    /\ at \in [Clients -> Places]
    /\ idle \in [Clients -> BOOLEAN]
    /\ chan \in [Clients -> Seq(Nat)]
    /\ base \in [Clients -> Nat]
    /\ lost \in [Clients -> SUBSET Nat]
    /\ joins \in [Clients -> 0..MaxJoins]

FrameTypes ==
    /\ view \in [Clients -> SUBSET (1..Len(log))]
    /\ SeqsLogged

Types == JobTypes /\ SinkTypes /\ BusTypes /\ ClientTypes /\ FrameTypes

\* What the groups amount to.
LEMMA TypeGroups ==
    StreamTypeOK /\ SeqsLogged <=> Types
BY DEF StreamTypeOK, Types, JobTypes, SinkTypes, BusTypes, ClientTypes, FrameTypes,
       Statuses, PCs, Stages, Places

\* Literals of the code, once.
LEMMA Written ==
    /\ "running" \in Statuses /\ "failed" \in Statuses /\ "canceled" \in Statuses
    /\ {"none", "exited", "failed", "canceled"} \subseteq Statuses
    /\ "registered" \in PCs /\ "announced" \in PCs /\ "refused" \in PCs /\ "running" \in PCs
    /\ "finishing" \in PCs /\ "flushed" \in PCs /\ "published" \in PCs /\ "closed" \in PCs
    /\ "idle" \in Stages /\ "fired" \in Stages /\ "taken" \in Stages
    /\ "recorded" \in Stages /\ "resolved" \in Stages
    /\ "joining" \in Places /\ "open" \in Places /\ "live" \in Places /\ "eof" \in Places
    /\ "unsubscribed" \in Places /\ "checked" \in Places /\ "off" \in Places
BY DEF Statuses, PCs, Stages, Places, Subscribed

(***************************************************************************)
(* Every non-empty set of numbers has a least element, so the cursor of a  *)
(* client, the greatest number it has, exists and is in the log.           *)
(***************************************************************************)
LEMMA LeastNumber ==
    ASSUME NEW S \in SUBSET Nat, S # {}
    PROVE  \E x \in S : \A y \in S : x <= y
<1>1. PICK R : /\ IsWellFoundedOn(R, Nat)
               /\ \A x, y \in Nat : x < y => <<x, y>> \in R
  <2>1. \A x, y \in Nat : x < y => <<x, y>> \in OpToRel(<, Nat)
    BY DEF OpToRel
  <2> QED
    BY <2>1, NatLessThanWellFounded, Zenon
<1>2. S \subseteq Nat
  OBVIOUS
<1>3. PICK x \in S : \A y \in S : ~(<<y, x>> \in R)
  <2>1. IsWellFoundedOn(R, Nat)
    BY <1>1
  <2>2. S # {}
    OBVIOUS
  <2> HIDE <1>1
  <2> QED
    BY <2>1, <2>2, <1>2, WFMin
<1>4. \A y \in S : ~(y < x)
  BY <1>1, <1>2, <1>3, Zenon
<1>5. \A y \in S : x <= y
  BY <1>2, <1>4
<1> QED
  BY <1>5, Zenon

\* A client's cursor is the newest event it has seen, or 0.
LEMMA CursorLogged ==
    ASSUME Types, NEW c \in Clients
    PROVE  /\ Cursor(c) \in view[c] \cup {0}
           /\ \A l \in view[c] : l <= Cursor(c)
           /\ Cursor(c) \in 0..Len(log)
<1> DEFINE V == view[c]
           U == {n \in Nat : \A l \in V : l <= n}
<1>1. Len(log) \in Nat /\ V \subseteq 1..Len(log)
  BY DEF Types, SinkTypes, FrameTypes
<1>2. Len(log) \in U /\ U \in SUBSET Nat
  BY <1>1
<1>3. PICK m \in U : \A n \in U : m <= n
  <2> HIDE DEF U
  <2> QED
    BY <1>2, LeastNumber
<1>4. m \in Nat /\ \A l \in V : l <= m
  BY <1>3
<1>5. m \in V \cup {0}
  <2>1. SUFFICES ASSUME m # 0, m \notin V PROVE FALSE
    OBVIOUS
  <2>2. m - 1 \in Nat /\ \A l \in V : l <= m - 1
    BY <1>1, <1>4, <2>1
  <2>3. m - 1 \in U
    BY <2>2
  <2> QED
    BY <1>3, <1>4, <2>3
<1>6. \E k \in V \cup {0} : \A l \in V : l <= k
  BY <1>4, <1>5
<1>7. Cursor(c) \in V \cup {0} /\ \A l \in V : l <= Cursor(c)
  BY <1>6, Zenon DEF Cursor
<1> QED
  BY <1>1, <1>7

(***************************************************************************)
(* The events of the stream and what emitting one changes.                 *)
(***************************************************************************)
LEMMA EventTypes ==
    /\ Nothing \in EventType
    /\ \A buf \in Chunks : Output(buf) \in EventType
    /\ \A s \in Statuses : /\ Event("started", <<>>, s) \in EventType
                           /\ Event("finished", <<>>, s) \in EventType
<1>1. <<>> \in Chunks
  BY DEF Chunks
<1> HIDE DEF Chunks
<1> QED
  BY <1>1 DEF EventType, Event, Nothing, Output, Statuses

\* Emitting puts an event, or nothing, into a hand.
LEMMA EmittingTypes ==
    ASSUME SinkTypes, NEW e \in Emitters, NEW ev \in EventType, Emitting(e, ev)
    PROVE  hand' \in [Emitters -> EventType] /\ stage' \in [Emitters -> Stages]
<1>1. (IF ev = Output(<<>>) THEN Nothing ELSE ev) \in EventType
  BY EventTypes
<1>2. (IF ev = Output(<<>>) THEN "idle" ELSE "taken") \in Stages
  BY Written
<1> QED
  BY <1>1, <1>2, Zenon DEF SinkTypes, Emitting

\* Taking the buffer leaves it empty and well typed.
LEMMA TakeLockedTypes ==
    ASSUME SinkTypes, NEW e \in Emitters, NEW buf \in Chunks, TakeLocked(e, buf)
    PROVE  /\ hand' \in [Emitters -> EventType] /\ stage' \in [Emitters -> Stages]
           /\ pending' \in Chunks /\ timer' \in {"none", "set", "fired"}
<1>1. <<>> \in Chunks
  BY DEF Chunks
<1>2. Output(buf) \in EventType
  BY EventTypes
<1>3. Emitting(e, Output(buf)) /\ pending' = <<>> /\ timer' = "none"
  BY DEF TakeLocked
<1> QED
  BY <1>1, <1>2, <1>3, EmittingTypes

\* So does writing a chunk, whether it flushes or not.
LEMMA JobOutputTypes ==
    ASSUME JobTypes, SinkTypes, NEW e \in Emitters, written <= MaxChunks, JobOutput(e)
    PROVE  /\ hand' \in [Emitters -> EventType] /\ stage' \in [Emitters -> Stages]
           /\ pending' \in Chunks /\ timer' \in {"none", "set", "fired"}
           /\ written' \in 0..(MaxChunks + 1)
<1> DEFINE buf == Append(pending, written + 1)
<1>0. MaxChunks \in Nat
  BY StreamAssumption
<1>1. written \in Nat /\ written + 1 \in 1..(MaxChunks + 1)
  BY <1>0 DEF JobTypes
<1>2. buf \in Chunks
  BY <1>1 DEF SinkTypes, Chunks
<1>3. written' = written + 1 /\ written' \in 0..(MaxChunks + 1)
  BY <1>0, <1>1 DEF JobOutput
<1>4. CASE Len(buf) >= FlushChunks
  <2>1. TakeLocked(e, buf)
    BY <1>4, Zenon DEF JobOutput
  <2> HIDE DEF buf
  <2> QED
    BY <1>2, <1>3, <2>1, TakeLockedTypes
<1>5. CASE ~(Len(buf) >= FlushChunks)
  <2>1. /\ pending' = buf
        /\ timer' = IF timer = "none" THEN "set" ELSE timer
        /\ UNCHANGED <<hand, stage>>
    BY <1>5, Zenon DEF JobOutput
  <2> HIDE DEF buf
  <2> QED
    BY <1>2, <1>3, <2>1 DEF SinkTypes
<1> QED
  BY <1>4, <1>5

-----------------------------------------------------------------------------
(***************************************************************************)
(* What a step leaves alone keeps its types.                               *)
(***************************************************************************)
LEMMA SinkFrame ==
    ASSUME Types, UNCHANGED sinkVars
    PROVE  SinkTypes' /\ target' = target /\ Len(log') = Len(log)
BY DEF Types, SinkTypes, sinkVars

\* What a step of the job leaves alone keeps its type.
LEMMA StreamSideFrame ==
    ASSUME Types, UNCHANGED StreamSide
    PROVE  ClientTypes' /\ UNCHANGED <<bus, nextBus, closed, mine, chan, view>>
BY DEF Types, ClientTypes, StreamSide, busVars, clientVars

\* What a step of a client leaves alone keeps its type.
LEMMA ServerSideFrame ==
    ASSUME Types, UNCHANGED ServerSide
    PROVE  JobTypes' /\ SinkTypes' /\ UNCHANGED <<target, log, seq, stage>>
BY DEF Types, JobTypes, SinkTypes, ServerSide, jobVars, sinkVars

\* The buses keep their types when none is made or closed.
LEMMA BusFrame ==
    ASSUME Types, UNCHANGED <<bus, nextBus, closed, mine, target>>
    PROVE  BusTypes'
BY DEF Types, BusTypes

\* No event is appended, and no emission gets further than it was.
LEMMA FrameFrame ==
    ASSUME Types, UNCHANGED <<log, seq, view, chan>>,
           \A e \in Emitters : stage'[e] \in {"recorded", "resolved"} =>
                                   stage[e] \in {"recorded", "resolved"}
    PROVE  FrameTypes'
BY DEF Types, FrameTypes, SeqsLogged

\* Emitting moves one emitter, to a place before the log.
LEMMA EmittingStages ==
    ASSUME SinkTypes, NEW e \in Emitters, NEW ev, Emitting(e, ev)
    PROVE  /\ \A f \in Emitters : f # e => stage'[f] = stage[f] /\ hand'[f] = hand[f]
           /\ stage'[e] = IF ev = Output(<<>>) THEN "idle" ELSE "taken"
           /\ hand'[e] = IF ev = Output(<<>>) THEN Nothing ELSE ev
           /\ stage'[e] \notin {"recorded", "resolved", "fired"}
BY DEF SinkTypes, Emitting

\* Writing a chunk moves at most one emitter, and none to the log.
LEMMA JobOutputStages ==
    ASSUME SinkTypes, NEW e \in Emitters, JobOutput(e)
    PROVE  /\ \A f \in Emitters : f # e => stage'[f] = stage[f] /\ hand'[f] = hand[f]
           /\ stage'[e] \in {"recorded", "resolved", "fired"} => stage'[e] = stage[e]
BY EmittingStages, Zenon DEF JobOutput, TakeLocked

\* Who emits.
LEMMA KnownEmitters ==
    "job" \in Emitters /\ "copier" \in Emitters /\ Timers \subseteq Emitters
BY DEF Emitters

(***************************************************************************)
(* The types, step by step: the sink.                                      *)
(***************************************************************************)
LEMMA SinkStepTypes ==
    ASSUME Types, NEW e \in Emitters, TimerFires(e) \/ TimerFlush(e) \/ EmitStep(e)
    PROVE  Types'
<1> USE DEF StreamSide
<1>0. Len(log) \in Nat /\ JobTypes /\ SinkTypes /\ BusTypes /\ ClientTypes /\ FrameTypes
  BY DEF Types, SinkTypes
<1>1. CASE TimerFires(e)
  <2>1. UNCHANGED <<jobVars, StreamSide, pending, hand, seq, target, log>>
    BY <1>1 DEF TimerFires
  <2>2. stage' = [stage EXCEPT ![e] = "fired"] /\ timer' = "fired"
    BY <1>1 DEF TimerFires
  <2>3. SinkTypes'
    BY <1>0, <2>1, <2>2, Written DEF SinkTypes
  <2>4. FrameTypes'
    BY <2>1, <2>2, <1>0, StreamSideFrame, FrameFrame DEF SinkTypes
  <2>5. JobTypes'
    BY <1>0, <2>1 DEF JobTypes, jobVars
  <2> QED
    BY <2>1, <2>3, <2>4, <2>5, StreamSideFrame, BusFrame, Zenon DEF Types
<1>2. CASE TimerFlush(e)
  <2>1. UNCHANGED <<jobVars, StreamSide, seq, target, log>>
    BY <1>2 DEF TimerFlush
  <2>2. TakeLocked(e, pending) /\ pending \in Chunks
    BY <1>0, <1>2 DEF TimerFlush, SinkTypes
  <2>3. SinkTypes'
    BY <1>0, <2>1, <2>2, TakeLockedTypes DEF SinkTypes
  <2>4. \A f \in Emitters : stage'[f] \in {"recorded", "resolved"} =>
                                   stage[f] \in {"recorded", "resolved"}
    BY <1>0, <2>2, EmittingStages DEF TakeLocked
  <2>5. FrameTypes'
    BY <2>1, <2>4, StreamSideFrame, FrameFrame, Zenon
  <2>6. JobTypes'
    BY <1>0, <2>1 DEF JobTypes, jobVars
  <2> QED
    BY <2>1, <2>3, <2>5, <2>6, StreamSideFrame, BusFrame, Zenon DEF Types
<1>3. CASE Record(e)
  <2>1. UNCHANGED <<jobVars, StreamSide, pending, timer, hand, target>>
    BY <1>3 DEF Record
  <2>2. /\ log' = Append(log, hand[e]) /\ seq' = [seq EXCEPT ![e] = Len(log) + 1]
        /\ stage' = [stage EXCEPT ![e] = "recorded"]
    BY <1>3 DEF Record
  <2>3. log' \in Seq(EventType) /\ Len(log') = Len(log) + 1
    BY <1>0, <2>2 DEF SinkTypes
  <2>4. SinkTypes'
    <3>1. seq' \in [Emitters -> Nat] /\ stage' \in [Emitters -> Stages]
      BY <1>0, <2>2, Written DEF SinkTypes
    <3> QED
      BY <1>0, <2>1, <2>3, <3>1 DEF SinkTypes
  <2>5. 1..Len(log) \subseteq 1..Len(log') /\ Len(log) + 1 \in 1..Len(log')
    BY <1>0, <2>3
  <2>6. FrameTypes'
    <3>1. view' \in [Clients -> SUBSET (1..Len(log'))]
      BY <1>0, <2>1, <2>5, StreamSideFrame DEF FrameTypes
    <3>2. \A f \in Emitters : stage'[f] \in {"recorded", "resolved"} => seq'[f] \in 1..Len(log')
      BY <1>0, <2>2, <2>5 DEF FrameTypes, SeqsLogged, SinkTypes
    <3>3. ASSUME NEW c \in Clients PROVE chan'[c] \in Seq(1..Len(log'))
      <4>1. chan'[c] = chan[c] /\ chan[c] \in Seq(1..Len(log))
        BY <1>0, <2>1, StreamSideFrame DEF FrameTypes, SeqsLogged
      <4> DEFINE A == 1..Len(log) B == 1..Len(log')
      <4>2. A \subseteq B /\ chan[c] \in Seq(A)
        BY <2>5, <4>1
      <4> HIDE DEF A, B
      <4>3. chan[c] \in Seq(B)
        BY <4>2
      <4> QED
        BY <4>1, <4>3 DEF B
    <3> QED
      BY <3>1, <3>2, <3>3 DEF FrameTypes, SeqsLogged
  <2>7. JobTypes'
    BY <1>0, <2>1 DEF JobTypes, jobVars
  <2> QED
    BY <2>1, <2>4, <2>6, <2>7, StreamSideFrame, BusFrame, Zenon DEF Types
<1>4. CASE Resolve(e)
  <2>1. UNCHANGED <<jobVars, StreamSide, pending, timer, hand, seq, log>>
    BY <1>4 DEF Resolve
  <2>2. /\ target' = [target EXCEPT ![e] = bus] /\ stage' = [stage EXCEPT ![e] = "resolved"]
        /\ stage[e] = "recorded"
    BY <1>4 DEF Resolve, CurrentBus
  <2>3. SinkTypes'
    BY <1>0, <2>1, <2>2, Written DEF SinkTypes
  <2>4. FrameTypes'
    BY <1>0, <2>1, <2>2, StreamSideFrame, FrameFrame DEF SinkTypes
  <2>5. BusTypes'
    BY <1>0, <2>1, <2>2, StreamSideFrame DEF BusTypes
  <2>6. JobTypes'
    BY <1>0, <2>1 DEF JobTypes, jobVars
  <2> QED
    BY <2>1, <2>3, <2>4, <2>5, <2>6, StreamSideFrame, Zenon DEF Types
<1>5. CASE Fan(e)
  <2> DEFINE S == Subs(target[e])
  <2>1. /\ UNCHANGED <<jobVars, pending, timer, target, log, bus, nextBus, closed, mapLock,
                       at, mine, idle, view, base, joins>>
        /\ chan' = [c \in Clients |-> IF c \in S /\ ~Full(c) THEN Append(chan[c], seq[e])
                                     ELSE chan[c]]
        /\ lost' = [c \in Clients |-> IF c \in S /\ Full(c) THEN lost[c] \cup {seq[e]}
                                     ELSE lost[c]]
        /\ hand' = [hand EXCEPT ![e] = Nothing]
        /\ seq' = [seq EXCEPT ![e] = 0]
        /\ stage' = [stage EXCEPT ![e] = "idle"]
        /\ stage[e] = "resolved"
    BY <1>5, Zenon DEF Fan
  <2> HIDE DEF S
  <2>2. seq[e] \in 1..Len(log) /\ seq[e] \in Nat
    BY <1>0, <2>1 DEF FrameTypes, SeqsLogged
  <2>3. SinkTypes'
    BY <1>0, <2>1, Written, EventTypes DEF SinkTypes
  <2>4. ClientTypes'
    BY <1>0, <2>1, <2>2 DEF ClientTypes
  <2>5. FrameTypes'
    <3>1. \A f \in Emitters : stage'[f] \in {"recorded", "resolved"} => seq'[f] \in 1..Len(log')
      BY <1>0, <2>1 DEF FrameTypes, SeqsLogged, SinkTypes
    <3>2. ASSUME NEW c \in Clients PROVE chan'[c] \in Seq(1..Len(log'))
      <4> DEFINE A == 1..Len(log)
      <4>1. chan[c] \in Seq(A) /\ seq[e] \in A /\ Len(log') = Len(log)
        BY <1>0, <2>1, <2>2 DEF FrameTypes, SeqsLogged
      <4>2. chan'[c] \in {Append(chan[c], seq[e]), chan[c]}
        BY <2>1
      <4>3. chan'[c] \in Seq(A)
        <5> HIDE DEF A
        <5>1. Append(chan[c], seq[e]) \in Seq(A)
          BY <4>1
        <5> QED
          BY <4>1, <4>2, <5>1, Zenon
      <4> QED
        BY <4>1, <4>3
    <3> QED
      BY <1>0, <2>1, <3>1, <3>2 DEF FrameTypes, SeqsLogged
  <2>6. JobTypes'
    BY <1>0, <2>1 DEF JobTypes, jobVars
  <2> QED
    BY <2>1, <2>3, <2>4, <2>5, <2>6, BusFrame, Zenon DEF Types
<1> QED
  BY <1>1, <1>2, <1>3, <1>4, <1>5 DEF EmitStep

(***************************************************************************)
(* The types: the job, its process and Registry.Cancel.                    *)
(***************************************************************************)
LEMMA JobSideTypes ==
    ASSUME Types, UNCHANGED <<StreamSide, seq, target, log>>, JobTypes', SinkTypes',
           \A e \in Emitters : stage'[e] \in {"recorded", "resolved"} => stage'[e] = stage[e]
    PROVE  Types'
<1>1. ClientTypes' /\ BusTypes'
  BY StreamSideFrame, BusFrame
<1>2. FrameTypes'
  BY StreamSideFrame, FrameFrame
<1> QED
  BY <1>1, <1>2 DEF Types

\* The steps that do not touch the sink.
LEMMA QuietTypes ==
    ASSUME Types, UNCHANGED <<sinkVars, StreamSide>>, JobTypes'
    PROVE  Types'
BY SinkFrame, JobSideTypes DEF sinkVars

\* The types, step by step: the job.
LEMMA JobStepTypes ==
    ASSUME Types, JobProgress,
           \/ Start \/ JobStep \/ CancelMark \/ CancelKill \/ ProcessWrites \/ ProcessExits
    PROVE  Types'
<1>0. JobTypes /\ SinkTypes
  BY DEF Types
<1>1. ASSUME Start \/ Launch \/ FinishUnstarted \/ CloseDone \/ CancelMark \/ CancelKill
                   \/ ProcessExits
      PROVE  Types'
  <2>1. UNCHANGED <<sinkVars, StreamSide>>
    BY <1>1 DEF Start, Launch, FinishUnstarted, CloseDone, CancelMark, CancelKill, ProcessExits
  <2>2. JobTypes'
    BY <1>0, <1>1, Written DEF JobTypes, Start, Launch, FinishUnstarted, CloseDone, CancelMark,
                               CancelKill, ProcessExits
  <2> QED
    BY <2>1, <2>2, QuietTypes
<1>2. CASE Reap
  <2>1. UNCHANGED <<sinkVars, StreamSide>>
    BY <1>2 DEF Reap
  <2>2. StatusAfterExit \in {"exited", "failed", "canceled"}
    BY DEF StatusAfterExit
  <2>3. JobTypes'
    BY <1>0, <1>2, <2>2, Written DEF JobTypes, Reap
  <2> QED
    BY <2>1, <2>3, QuietTypes
<1>3. CASE Announce
  <2> DEFINE ev == Event("started", <<>>, "running")
  <2>1. UNCHANGED <<StreamSide, pending, timer, seq, target, log>> /\ Emitting("job", ev)
    BY <1>3 DEF Announce
  <2>2. JobTypes'
    BY <1>0, <1>3, Written DEF JobTypes, Announce
  <2>3. ev \in EventType
    BY EventTypes, Written
  <2> HIDE DEF ev
  <2>4. SinkTypes'
    BY <1>0, <2>1, <2>3, EmittingTypes, KnownEmitters DEF SinkTypes
  <2> QED
    BY <1>0, <2>1, <2>2, <2>4, EmittingStages, JobSideTypes, KnownEmitters
<1>4. CASE JobFinished
  <2> DEFINE ev == Event("finished", <<>>, snap)
  <2>1. UNCHANGED <<StreamSide, pending, timer, seq, target, log>> /\ Emitting("job", ev)
    BY <1>4 DEF JobFinished
  <2>2. JobTypes'
    BY <1>0, <1>4, Written DEF JobTypes, JobFinished
  <2>3. ev \in EventType
    BY <1>0, EventTypes, Written DEF JobTypes
  <2> HIDE DEF ev
  <2>4. SinkTypes'
    BY <1>0, <2>1, <2>3, EmittingTypes, KnownEmitters DEF SinkTypes
  <2> QED
    BY <1>0, <2>1, <2>2, <2>4, EmittingStages, JobSideTypes, KnownEmitters
<1>5. CASE FinalFlush
  <2>1. UNCHANGED <<StreamSide, seq, target, log>> /\ TakeLocked("job", pending)
    BY <1>5 DEF FinalFlush
  <2>2. JobTypes'
    BY <1>0, <1>5, Written DEF JobTypes, FinalFlush
  <2>3. SinkTypes'
    BY <1>0, <2>1, TakeLockedTypes, KnownEmitters DEF SinkTypes
  <2>4. Emitting("job", Output(pending))
    BY <2>1 DEF TakeLocked
  <2> QED
    BY <1>0, <2>1, <2>2, <2>3, <2>4, EmittingStages, JobSideTypes, KnownEmitters
<1>6. ASSUME NEW e \in {"job", "copier"}, written <= MaxChunks, JobOutput(e),
             UNCHANGED <<status, snap, proc, killed, canceller, lease, done, seq, target, log,
                         StreamSide>>,
             pc' \in PCs
      PROVE  Types'
  <2>1. e \in Emitters
    BY KnownEmitters
  <2>2. JobTypes' /\ SinkTypes'
    BY <1>0, <1>6, <2>1, JobOutputTypes DEF JobTypes, SinkTypes
  <2> QED
    BY <1>0, <1>6, <2>1, <2>2, JobOutputStages, JobSideTypes
<1>7. CASE Refuse
  <2>1. written <= MaxChunks
    BY <1>7, StreamAssumption DEF Refuse, JobProgress
  <2> QED
    BY <1>6, <1>7, <2>1, Written DEF Refuse
<1>8. CASE ProcessWrites
  <2>1. written <= MaxChunks /\ pc' \in PCs
    BY <1>0, <1>8, StreamAssumption DEF ProcessWrites, JobTypes
  <2> QED
    BY <1>6, <1>8, <2>1 DEF ProcessWrites
<1> QED
  BY <1>1, <1>2, <1>3, <1>4, <1>5, <1>7, <1>8 DEF JobStep

(***************************************************************************)
(* The types: connections.                                                 *)
(***************************************************************************)
LEMMA ConnectionTypes ==
    ASSUME Types, RemovalLocked, NEW c \in Clients,
           \/ Join(c) \/ Subscribe(c) \/ Backlog(c) \/ Pump(c) \/ Unsubscribe(c)
           \/ CheckIdle(c) \/ RemoveIdle(c)
    PROVE  Types'
<1>0. /\ Len(log) \in Nat /\ JobTypes /\ SinkTypes /\ BusTypes /\ ClientTypes /\ FrameTypes
      /\ SeqsLogged
  BY DEF Types, SinkTypes, FrameTypes
<1>1. UNCHANGED ServerSide
  BY DEF Join, Subscribe, Backlog, Pump, Unsubscribe, CheckIdle, RemoveIdle
<1>2. JobTypes' /\ SinkTypes' /\ UNCHANGED <<target, log, seq, stage>>
  BY <1>1, ServerSideFrame
<1>3. CASE Join(c)
  <2>1. /\ bus' = IF bus = 0 THEN nextBus + 1 ELSE bus
        /\ nextBus' = IF bus = 0 THEN nextBus + 1 ELSE nextBus
        /\ mine' = [mine EXCEPT ![c] = bus']
        /\ joins[c] < MaxJoins
        /\ joins' = [joins EXCEPT ![c] = joins[c] + 1]
        /\ at' = [at EXCEPT ![c] = "joining"]
        /\ UNCHANGED <<closed, mapLock, idle, chan, view, base, lost>>
    BY <1>3 DEF Join
  <2>2. BusTypes'
    <3>1. nextBus' \in Nat /\ bus' \in 0..nextBus' /\ 0..nextBus \subseteq 0..nextBus'
                           /\ 1..nextBus \subseteq 1..nextBus'
      BY <1>0, <2>1 DEF BusTypes
    <3> QED
      BY <1>0, <1>2, <2>1, <3>1 DEF BusTypes
  <2>3. ClientTypes'
    <3>1. joins' \in [Clients -> 0..MaxJoins]
      BY <1>0, <2>1, StreamAssumption DEF ClientTypes
    <3>2. at' \in [Clients -> Places]
      BY <1>0, <2>1, Written DEF ClientTypes
    <3> QED
      BY <1>0, <2>1, <3>1, <3>2 DEF ClientTypes
  <2> QED
    BY <1>2, <2>1, <2>2, <2>3, FrameFrame DEF Types
<1>4. CASE Subscribe(c) \/ CheckIdle(c)
  <2>1. UNCHANGED <<bus, nextBus, closed, mine, chan, view>>
    BY <1>4 DEF Subscribe, CheckIdle, clientVars
  <2>2. ClientTypes'
    <3>1. CASE Subscribe(c)
      <4>1. (IF mine[c] \in closed THEN "eof" ELSE "open") \in Places
        BY Written
      <4> QED
        BY <1>0, <3>1, <4>1 DEF ClientTypes, Subscribe, clientVars
    <3>2. CASE CheckIdle(c)
      <4>1. (bus # 0 /\ NobodyLeft(c)) \in BOOLEAN
        OBVIOUS
      <4>2. idle' \in [Clients -> BOOLEAN]
        BY <1>0, <3>2, <4>1, Zenon DEF ClientTypes, CheckIdle
      <4> QED
        BY <1>0, <3>2, <4>2, Written DEF ClientTypes, CheckIdle, clientVars
    <3> QED
      BY <1>4, <3>1, <3>2
  <2> QED
    BY <1>2, <2>1, <2>2, BusFrame, FrameFrame DEF Types
<1>5. CASE Backlog(c)
  <2>1. /\ view' = [view EXCEPT ![c] = view[c] \cup (Cursor(c) + 1)..Len(log)]
        /\ base' = [base EXCEPT ![c] = Len(log)]
        /\ lost' = [lost EXCEPT ![c] = {}]
        /\ at' = [at EXCEPT ![c] = "live"]
        /\ UNCHANGED <<bus, nextBus, closed, mapLock, mine, idle, chan, joins>>
    BY <1>5 DEF Backlog
  <2>2. (Cursor(c) + 1)..Len(log) \subseteq 1..Len(log)
    BY <1>0, CursorLogged
  <2>3. ClientTypes'
    BY <1>0, <2>1, Written DEF ClientTypes
  <2>4. FrameTypes'
    BY <1>0, <1>2, <2>1, <2>2 DEF FrameTypes, SeqsLogged
  <2> QED
    BY <1>2, <2>1, <2>3, <2>4, BusFrame DEF Types
<1>6. CASE Pump(c)
  <2>1. /\ chan[c] # <<>>
        /\ view' = [view EXCEPT ![c] = view[c] \cup {Head(chan[c])}]
        /\ chan' = [chan EXCEPT ![c] = Tail(chan[c])]
        /\ UNCHANGED <<bus, nextBus, closed, mapLock, at, mine, idle, base, lost, joins>>
    BY <1>6 DEF Pump
  <2>2. chan[c] \in Seq(1..Len(log)) /\ chan[c] \in Seq(Nat) /\ chan \in [Clients -> Seq(Nat)]
    BY <1>0 DEF SeqsLogged, ClientTypes
  <2>3. Head(chan[c]) \in 1..Len(log) /\ Tail(chan[c]) \in Seq(1..Len(log))
        /\ Tail(chan[c]) \in Seq(Nat)
    BY <2>1, <2>2
  <2>4. ClientTypes'
    BY <1>0, <2>1, <2>3 DEF ClientTypes
  <2>5. FrameTypes'
    <3>1. view' \in [Clients -> SUBSET (1..Len(log))]
      BY <1>0, <2>1, <2>3 DEF FrameTypes
    <3>2. \A d \in Clients : chan'[d] \in Seq(1..Len(log))
      <4> DEFINE A == Seq(1..Len(log))
      <4>1. Tail(chan[c]) \in A /\ \A d \in Clients : chan[d] \in A
        BY <1>0, <2>3 DEF SeqsLogged
      <4> HIDE DEF A
      <4>2. \A d \in Clients : chan'[d] \in A
        BY <2>1, <2>2, <4>1
      <4> QED
        BY <4>2 DEF A
    <3> QED
      BY <1>0, <1>2, <3>1, <3>2 DEF FrameTypes, SeqsLogged
  <2> QED
    BY <1>2, <2>1, <2>4, <2>5, BusFrame DEF Types
<1>7. CASE Unsubscribe(c)
  <2>1. /\ at' = [at EXCEPT ![c] = "unsubscribed"]
        /\ chan' = [chan EXCEPT ![c] = <<>>]
        /\ UNCHANGED <<bus, nextBus, closed, mapLock, mine, idle, view, base, lost, joins>>
    BY <1>7 DEF Unsubscribe, clientVars
  <2>2. ClientTypes'
    BY <1>0, <2>1, Written DEF ClientTypes
  <2>3. FrameTypes'
    <3>1. \A d \in Clients : chan'[d] \in Seq(1..Len(log))
      <4> DEFINE A == Seq(1..Len(log))
      <4>1. <<>> \in A /\ \A d \in Clients : chan[d] \in A
        BY <1>0 DEF SeqsLogged
      <4> HIDE DEF A
      <4>2. \A d \in Clients : chan'[d] \in A
        BY <1>0, <2>1, <4>1 DEF ClientTypes
      <4> QED
        BY <4>2 DEF A
    <3> QED
      BY <1>0, <1>2, <2>1, <3>1 DEF FrameTypes, SeqsLogged
  <2> QED
    BY <1>2, <2>1, <2>2, <2>3, BusFrame DEF Types
<1>8. CASE RemoveIdle(c)
  <2>1. /\ mapLock' = {}
        /\ idle[c] => closed' = closed \cup {bus} /\ bus' = 0
        /\ ~idle[c] => UNCHANGED <<closed, bus>>
        /\ idle' = [idle EXCEPT ![c] = FALSE]
        /\ at' = [at EXCEPT ![c] = "off"]
        /\ UNCHANGED <<nextBus, mine, chan, view, base, lost, joins>>
    BY <1>8 DEF RemoveIdle, clientVars, CloseBus
  <2>2. BusTypes'
    <3>1. idle[c] => bus # 0
      BY DEF RemovalLocked
    <3>2. CASE idle[c]
      <4>1. closed' = closed \cup {bus} /\ bus' = 0 /\ bus # 0 /\ UNCHANGED <<nextBus, mine>>
        BY <2>1, <3>1, <3>2, Zenon
      <4> QED
        BY <1>0, <1>2, <4>1 DEF BusTypes
    <3>3. CASE ~idle[c]
      <4>1. UNCHANGED <<closed, bus, nextBus, mine>>
        BY <2>1, <3>3, Zenon
      <4> QED
        BY <1>2, <4>1, BusFrame
    <3> QED
      BY <3>2, <3>3
  <2>3. ClientTypes'
    BY <1>0, <2>1, Written DEF ClientTypes
  <2> QED
    BY <1>2, <2>1, <2>2, <2>3, FrameFrame DEF Types
<1> QED
  BY <1>3, <1>4, <1>5, <1>6, <1>7, <1>8

\* Every step keeps the types.
LEMMA TypesStep ==
    ASSUME Types, JobProgress, RemovalLocked, [StreamNext]_streamVars
    PROVE  Types'
<1>1. CASE UNCHANGED streamVars
  BY <1>1 DEF streamVars, jobVars, sinkVars, busVars, clientVars, Types, JobTypes, SinkTypes,
              BusTypes, ClientTypes, FrameTypes, SeqsLogged
<1>2. CASE StreamNext
  BY <1>2, SinkStepTypes, JobStepTypes, ConnectionTypes, KnownEmitters, Zenon
     DEF StreamNext, TimerStep, LeaveStep
<1> QED
  BY <1>1, <1>2

-----------------------------------------------------------------------------
(***************************************************************************)
(* The job's own steps in order, and what others do to its emission.       *)
(***************************************************************************)
LEMMA JobProgressStep ==
    ASSUME Types, JobProgress, [StreamNext]_streamVars
    PROVE  JobProgress'
<1>0. JobTypes /\ SinkTypes
  BY DEF Types
<1>1. ASSUME UNCHANGED jobVars, Idle("job") => Idle("job")' PROVE JobProgress'
  BY <1>1 DEF JobProgress, jobVars
<1>2. CASE UNCHANGED streamVars
  BY <1>1, <1>2 DEF streamVars, jobVars, sinkVars, Idle
<1>3. ASSUME NEW c \in Clients,
             \/ Join(c) \/ Subscribe(c) \/ Backlog(c) \/ Pump(c) \/ Unsubscribe(c)
             \/ LeaveStep(c)
      PROVE  JobProgress'
  <2>1. UNCHANGED ServerSide
    BY <1>3 DEF Join, Subscribe, Backlog, Pump, Unsubscribe, LeaveStep, CheckIdle, RemoveIdle
  <2> QED
    BY <1>1, <2>1 DEF ServerSide, jobVars, sinkVars, Idle
<1>4. ASSUME NEW e \in Timers, TimerStep(e) PROVE JobProgress'
  <2>1. UNCHANGED jobVars
    BY <1>4 DEF TimerStep, TimerFires, TimerFlush
  <2>2. e # "job" /\ e \in Emitters
    BY KnownEmitters, StreamAssumption
  <2>3. stage'["job"] = stage["job"]
    <3>1. CASE TimerFires(e)
      BY <1>0, <2>2, <3>1, KnownEmitters DEF TimerFires, SinkTypes
    <3>2. CASE TimerFlush(e)
      BY <1>0, <2>2, <3>2, KnownEmitters, EmittingStages DEF TimerFlush, TakeLocked
    <3> QED
      BY <1>4, <3>1, <3>2 DEF TimerStep
  <2> QED
    BY <1>1, <2>1, <2>3 DEF Idle
<1>5. ASSUME NEW e \in Emitters, EmitStep(e) PROVE JobProgress'
  <2>1. UNCHANGED jobVars /\ stage[e] # "idle"
    BY <1>5 DEF EmitStep, Record, Resolve, Fan
  <2>2. e # "job" => stage'["job"] = stage["job"]
    BY <1>0, <1>5, KnownEmitters DEF EmitStep, Record, Resolve, Fan, SinkTypes
  <2> QED
    BY <1>1, <2>1, <2>2 DEF Idle
<1>6. CASE Start \/ Launch \/ FinishUnstarted \/ CloseDone \/ CancelMark \/ CancelKill
           \/ ProcessExits
  <2>1. stage' = stage
    BY <1>6 DEF Start, Launch, FinishUnstarted, CloseDone, CancelMark, CancelKill,
                ProcessExits, sinkVars
  <2> QED
    BY <1>0, <1>6, <2>1 DEF JobProgress, JobTypes, Idle, Start, Launch, FinishUnstarted,
                            CloseDone, CancelMark, CancelKill, ProcessExits
<1>7. CASE Reap
  <2>1. stage' = stage
    BY <1>7 DEF Reap, sinkVars
  <2> QED
    BY <1>0, <1>7, <2>1 DEF JobProgress, JobTypes, Idle, Reap, StatusAfterExit
<1>8. CASE Announce \/ FinalFlush \/ JobFinished \/ Refuse
  BY <1>0, <1>8 DEF JobProgress, JobTypes, Announce, FinalFlush, JobFinished, Refuse
<1>9. CASE ProcessWrites
  <2>1. UNCHANGED <<pc, status, snap, proc, canceller>> /\ proc = "alive"
    BY <1>9 DEF ProcessWrites
  <2>2. stage'["job"] = stage["job"]
    BY <1>0, <1>9, KnownEmitters, JobOutputStages DEF ProcessWrites
  <2> QED
    BY <2>1, <2>2 DEF JobProgress, Idle
<1> QED
  BY <1>2, <1>3, <1>4, <1>5, <1>6, <1>7, <1>8, <1>9, Zenon DEF StreamNext, JobStep

(***************************************************************************)
(* Every buffer keeps a timer.                                             *)
(***************************************************************************)
LEMMA TimersKeptStep ==
    ASSUME Types, TimersKept, [StreamNext]_streamVars
    PROVE  TimersKept'
<1>0. SinkTypes /\ pending \in Chunks
  BY DEF Types, SinkTypes
\* The goroutine of a timer stays until it has taken the buffer.
<1>1. ASSUME UNCHANGED <<pending, timer>>,
             \A e \in Timers : stage[e] = "fired" => stage'[e] = "fired"
      PROVE  TimersKept'
  BY <1>1 DEF TimersKept
<1>2. ASSUME NEW e \in Emitters, NEW buf, TakeLocked(e, buf) PROVE TimersKept'
  BY <1>2 DEF TakeLocked, TimersKept
<1>3. ASSUME NEW e \in {"job", "copier"}, JobOutput(e) PROVE TimersKept'
  <2>1. e \in Emitters /\ e \notin Timers
    BY KnownEmitters, StreamAssumption
  <2>2. \/ TakeLocked(e, Append(pending, written + 1))
        \/ /\ timer' = IF timer = "none" THEN "set" ELSE timer
           /\ stage' = stage
    BY <1>3, Zenon DEF JobOutput
  <2>3. CASE TakeLocked(e, Append(pending, written + 1))
    BY <1>2, <2>1, <2>3
  <2>4. CASE /\ timer' = IF timer = "none" THEN "set" ELSE timer
             /\ stage' = stage
    BY <2>4 DEF TimersKept
  <2> QED
    BY <2>2, <2>3, <2>4
<1>4. CASE UNCHANGED sinkVars
  BY <1>1, <1>4 DEF sinkVars
<1>5. CASE \/ Start \/ Launch \/ FinishUnstarted \/ Reap \/ CloseDone \/ CancelMark
           \/ CancelKill \/ ProcessExits
           \/ \E c \in Clients : \/ Join(c) \/ Subscribe(c) \/ Backlog(c) \/ Pump(c)
                                 \/ Unsubscribe(c) \/ LeaveStep(c)
  <2>1. UNCHANGED sinkVars
    BY <1>5 DEF Start, Launch, FinishUnstarted, Reap, CloseDone, CancelMark, CancelKill,
                ProcessExits, Join, Subscribe, Backlog, Pump, Unsubscribe, LeaveStep,
                CheckIdle, RemoveIdle, ServerSide
  <2> QED
    BY <1>4, <2>1
<1>6. CASE Announce \/ JobFinished
  <2>1. PICK ev : Emitting("job", ev) /\ UNCHANGED <<pending, timer>>
    BY <1>6, Zenon DEF Announce, JobFinished
  <2>2. \A e \in Timers : stage'[e] = stage[e]
    BY <1>0, <2>1, EmittingStages, KnownEmitters, StreamAssumption
  <2> QED
    BY <1>1, <2>1, <2>2
<1>7. CASE FinalFlush \/ \E e \in Timers : TimerFlush(e)
  BY <1>2, <1>7, KnownEmitters DEF FinalFlush, TimerFlush
<1>8. CASE Refuse \/ ProcessWrites
  BY <1>3, <1>8 DEF Refuse, ProcessWrites
<1>9. ASSUME NEW e \in Timers, TimerFires(e) PROVE TimersKept'
  BY <1>0, <1>9, KnownEmitters DEF TimerFires, SinkTypes, TimersKept
<1>10. ASSUME NEW e \in Emitters, EmitStep(e) PROVE TimersKept'
  <2>1. /\ stage[e] # "fired" /\ UNCHANGED <<pending, timer>>
        /\ \A f \in Emitters : f # e => stage'[f] = stage[f]
    BY <1>0, <1>10 DEF EmitStep, Record, Resolve, Fan, SinkTypes
  <2> QED
    BY <1>1, <2>1, KnownEmitters
<1>11. CASE UNCHANGED streamVars
  BY <1>4, <1>11 DEF streamVars
<1> QED
  BY <1>5, <1>6, <1>7, <1>8, <1>9, <1>10, <1>11, Zenon DEF StreamNext, JobStep, TimerStep

-----------------------------------------------------------------------------
(***************************************************************************)
(* The closing bracket.  First: what is not a closing bracket changes      *)
(* nothing, whoever emits it.                                              *)
(***************************************************************************)
LEMMA ClosingFrame ==
    ASSUME Closing, UNCHANGED <<log, snap>>,
           pc' = pc \/ (Published = {} /\ pc # "published"),
           \A e \in Emitters : stage'[e] = "taken" /\ hand'[e].kind = "finished" =>
                                   stage[e] = "taken" /\ hand'[e] = hand[e]
    PROVE  Closing'
<1>1. Published' = Published
  BY DEF Published
<1> QED
  BY <1>1 DEF Closing

\* Output is no closing bracket.
LEMMA OutputKinds ==
    ASSUME SinkTypes, NEW e \in Emitters, NEW ev, Emitting(e, ev), ev.kind # "finished"
    PROVE  \A f \in Emitters : stage'[f] = "taken" /\ hand'[f].kind = "finished" =>
                                   stage[f] = "taken" /\ hand'[f] = hand[f]
<1>1. Nothing.kind # "finished"
  BY DEF Nothing, Event
<1> QED
  BY <1>1, EmittingStages

\* Writing a chunk emits no closing bracket.
LEMMA JobOutputKinds ==
    ASSUME SinkTypes, NEW e \in Emitters, JobOutput(e)
    PROVE  \A f \in Emitters : stage'[f] = "taken" /\ hand'[f].kind = "finished" =>
                                   stage[f] = "taken" /\ hand'[f] = hand[f]
<1> DEFINE buf == Append(pending, written + 1)
<1>1. Output(buf).kind # "finished"
  BY DEF Output, Event
<1>2. Emitting(e, Output(buf)) \/ UNCHANGED <<hand, stage>>
  BY Zenon DEF JobOutput, TakeLocked
<1> HIDE DEF buf
<1> QED
  BY <1>1, <1>2, OutputKinds

\* Every step keeps the closing bracket single and truthful.
LEMMA ClosingStep ==
    ASSUME Types, JobProgress, Closing, [StreamNext]_streamVars
    PROVE  Closing'
<1>0. SinkTypes /\ JobTypes /\ Len(log) \in Nat
  BY DEF Types, SinkTypes
<1>1. ASSUME UNCHANGED <<log, snap, pc, hand, stage>> PROVE Closing'
  BY <1>1, ClosingFrame
<1>2. CASE \/ CancelMark \/ CancelKill \/ ProcessExits \/ UNCHANGED streamVars
           \/ \E c \in Clients : \/ Join(c) \/ Subscribe(c) \/ Backlog(c) \/ Pump(c)
                                 \/ Unsubscribe(c) \/ LeaveStep(c)
  <2>1. UNCHANGED <<log, snap, pc, hand, stage>>
    BY <1>2 DEF CancelMark, CancelKill, ProcessExits, Join, Subscribe, Backlog, Pump,
                Unsubscribe, LeaveStep, CheckIdle, RemoveIdle, ServerSide, streamVars, jobVars,
                sinkVars
  <2> QED
    BY <1>1, <2>1
<1>3. CASE Start \/ Launch
  <2>1. UNCHANGED <<log, snap, hand, stage>> /\ pc \notin {"published", "closed"}
    BY <1>3 DEF Start, Launch, sinkVars
  <2>2. Published = {}
    BY <2>1 DEF Closing
  <2> QED
    BY <2>1, <2>2, ClosingFrame
\* Nothing is published when the snapshot is taken.
<1>4. CASE FinishUnstarted \/ Reap
  <2>1. UNCHANGED <<log, hand, stage>> /\ pc \notin {"published", "closed"}
    BY <1>4 DEF FinishUnstarted, Reap, sinkVars
  <2>2. Published = {} /\ Published' = Published
    BY <2>1 DEF Closing, Published
  <2> QED
    BY <2>1, <2>2 DEF Closing
<1>5. CASE Announce
  <2>1. UNCHANGED <<log, snap>> /\ pc \notin {"published", "closed"}
    BY <1>5 DEF Announce
  <2>2. Published = {}
    BY <2>1 DEF Closing
  <2>3. PICK ev : Emitting("job", ev) /\ ev.kind # "finished"
    <3>1. Event("started", <<>>, "running").kind # "finished"
      BY DEF Event
    <3> QED
      BY <1>5, <3>1, Zenon DEF Announce
  <2> QED
    BY <1>0, <2>1, <2>2, <2>3, OutputKinds, ClosingFrame, KnownEmitters
<1>6. CASE FinalFlush
  <2>1. UNCHANGED <<log, snap>> /\ pc \notin {"published", "closed"}
    BY <1>6 DEF FinalFlush
  <2>2. Published = {}
    BY <2>1 DEF Closing
  <2>3. Emitting("job", Output(pending)) /\ Output(pending).kind # "finished"
    BY <1>6 DEF FinalFlush, TakeLocked, Output, Event
  <2> QED
    BY <1>0, <2>1, <2>2, <2>3, OutputKinds, ClosingFrame, KnownEmitters
<1>7. CASE Refuse \/ ProcessWrites
  <2>1. /\ UNCHANGED <<log, snap>>
        /\ pc' = pc \/ pc \notin {"published", "closed"}
    BY <1>7 DEF Refuse, ProcessWrites
  <2>2. pc' = pc \/ (Published = {} /\ pc # "published")
    BY <2>1 DEF Closing
  <2>3. \E e \in Emitters : JobOutput(e)
    BY <1>7, KnownEmitters DEF Refuse, ProcessWrites
  <2> QED
    BY <1>0, <2>1, <2>2, <2>3, JobOutputKinds, ClosingFrame
<1>8. CASE JobFinished
  <2> DEFINE ev == Event("finished", <<>>, snap)
  <2>1. /\ UNCHANGED <<log, snap>> /\ pc = "flushed" /\ pc' = "published"
        /\ Emitting("job", ev)
    BY <1>8 DEF JobFinished
  <2>2. ev.kind = "finished" /\ ev.status = snap
    BY DEF Event
  <2> HIDE DEF ev
  <2>3. Published = {} /\ Published' = Published
    BY <2>1 DEF Closing, Published
  <2>4. \A e \in Emitters : e # "job" => ~(stage'[e] = "taken" /\ hand'[e].kind = "finished")
    BY <1>0, <2>1, EmittingStages, KnownEmitters DEF Closing
  <2>5. stage'["job"] = "taken" /\ hand'["job"].kind = "finished" => hand'["job"].status = snap'
    <3>1. Nothing.kind # "finished"
      BY DEF Nothing, Event
    <3> QED
      BY <1>0, <2>1, <2>2, <3>1, EmittingStages, KnownEmitters
  <2> QED
    BY <2>1, <2>3, <2>4, <2>5 DEF Closing
<1>9. CASE CloseDone
  <2>1. UNCHANGED <<log, snap, hand, stage>> /\ pc = "published" /\ pc' = "closed" /\ Idle("job")
    BY <1>9 DEF CloseDone, sinkVars
  <2>2. Published' = Published
    BY <2>1 DEF Published
  <2>3. \A e \in Emitters : ~(stage'[e] = "taken" /\ hand'[e].kind = "finished")
    BY <2>1 DEF Closing, Idle
  <2> QED
    BY <2>1, <2>2, <2>3 DEF Closing
<1>10. ASSUME NEW e \in Timers, TimerStep(e) PROVE Closing'
  <2>1. e \in Emitters /\ UNCHANGED <<log, snap, pc>>
    BY <1>10, KnownEmitters DEF TimerStep, TimerFires, TimerFlush, jobVars
  <2>2. \A f \in Emitters : stage'[f] = "taken" /\ hand'[f].kind = "finished" =>
                                stage[f] = "taken" /\ hand'[f] = hand[f]
    <3>1. CASE TimerFires(e)
      BY <1>0, <2>1, <3>1 DEF TimerFires, SinkTypes
    <3>2. CASE TimerFlush(e)
      <4>1. Emitting(e, Output(pending)) /\ Output(pending).kind # "finished"
        BY <3>2 DEF TimerFlush, TakeLocked, Output, Event
      <4> QED
        BY <1>0, <2>1, <4>1, OutputKinds
    <3> QED
      BY <1>10, <3>1, <3>2 DEF TimerStep
  <2> QED
    BY <2>1, <2>2, ClosingFrame
<1>11. ASSUME NEW e \in Emitters, Resolve(e) \/ Fan(e) PROVE Closing'
  <2>1. UNCHANGED <<log, snap, pc>>
    BY <1>11 DEF Resolve, Fan, jobVars
  <2>2. \A f \in Emitters : stage'[f] = "taken" /\ hand'[f].kind = "finished" =>
                                stage[f] = "taken" /\ hand'[f] = hand[f]
    BY <1>0, <1>11 DEF Resolve, Fan, SinkTypes
  <2> QED
    BY <2>1, <2>2, ClosingFrame
<1>12. ASSUME NEW e \in Emitters, Record(e) PROVE Closing'
  <2> DEFINE n == Len(log) + 1
  <2>1. /\ log' = Append(log, hand[e]) /\ UNCHANGED <<snap, pc, hand>>
        /\ stage[e] = "taken" /\ stage' = [stage EXCEPT ![e] = "recorded"]
    BY <1>12 DEF Record, jobVars
  <2>2. /\ DOMAIN log = 1..Len(log) /\ DOMAIN log' = 1..n /\ n \notin DOMAIN log
        /\ \A i \in DOMAIN log : log'[i] = log[i]
        /\ log'[n] = hand[e]
    BY <1>0, <2>1 DEF SinkTypes
  <2>3. Published' = IF hand[e].kind = "finished" THEN Published \cup {n} ELSE Published
    <3>1. DOMAIN log' = DOMAIN log \cup {n}
      BY <1>0, <2>2
    <3> HIDE DEF n
    <3> QED
      BY <2>2, <3>1 DEF Published
  <2>4. \A f \in Emitters : stage'[f] = "taken" => f # e /\ stage[f] = "taken"
    BY <1>0, <2>1 DEF SinkTypes
  <2>5. \A i \in Published : i \in DOMAIN log
    BY DEF Published
  <2> HIDE DEF n
  <2>6. CASE hand[e].kind = "finished"
    <3>1. e = "job" /\ pc = "published" /\ Published = {} /\ hand[e].status = snap
      BY <2>1, <2>6 DEF Closing
    <3>2. Published' = {n} /\ log'[n].status = snap'
      BY <2>1, <2>2, <2>3, <2>6, <3>1
    <3>3. \A f \in Emitters : ~(stage'[f] = "taken" /\ hand'[f].kind = "finished")
      BY <2>1, <2>4, <3>1 DEF Closing
    <3> QED
      BY <2>1, <3>1, <3>2, <3>3 DEF Closing
  <2>7. CASE hand[e].kind # "finished"
    BY <2>1, <2>2, <2>3, <2>4, <2>5, <2>7 DEF Closing
  <2> QED
    BY <2>6, <2>7
<1> QED
  BY <1>2, <1>3, <1>4, <1>5, <1>6, <1>7, <1>8, <1>9, <1>10, <1>11, <1>12, Zenon
     DEF StreamNext, JobStep, EmitStep

-----------------------------------------------------------------------------
(***************************************************************************)
(* removeIfIdle and the buses.                                             *)
(***************************************************************************)
LEMMA BusStep ==
    ASSUME Types, RemovalLocked, BusShared, [StreamNext]_streamVars
    PROVE  RemovalLocked' /\ BusShared'
<1>0. ClientTypes /\ BusTypes
  BY DEF Types
<1>1. ASSUME UNCHANGED <<bus, closed, mapLock, at, mine, idle>>
      PROVE  RemovalLocked' /\ BusShared'
  BY <1>1 DEF RemovalLocked, BusShared
<1>2. CASE \/ UNCHANGED streamVars
           \/ Start \/ JobStep \/ CancelMark \/ CancelKill \/ ProcessWrites \/ ProcessExits
           \/ \E e \in Emitters : EmitStep(e)
           \/ \E e \in Timers : TimerStep(e)
           \/ \E c \in Clients : Pump(c)
  <2>1. UNCHANGED <<bus, closed, mapLock, at, mine, idle>>
    BY <1>2 DEF streamVars, busVars, StreamSide, Start, JobStep, CancelMark, CancelKill,
                ProcessWrites, ProcessExits, Announce, Launch, Refuse, FinishUnstarted, Reap,
                FinalFlush, JobFinished, CloseDone, EmitStep, Record, Resolve, Fan, TimerStep,
                TimerFires, TimerFlush, Pump
  <2> QED
    BY <1>1, <2>1
<1>3. ASSUME NEW c \in Clients, Join(c) PROVE RemovalLocked' /\ BusShared'
  <2>1. /\ at[c] = "off" /\ mapLock = {}
        /\ bus' = IF bus = 0 THEN nextBus + 1 ELSE bus
        /\ mine' = [mine EXCEPT ![c] = bus']
        /\ at' = [at EXCEPT ![c] = "joining"]
        /\ UNCHANGED <<closed, mapLock, idle>>
    BY <1>3 DEF Join
  <2>2. bus' # 0
    BY <1>0, <2>1 DEF BusTypes
  <2>3. RemovalLocked'
    BY <1>0, <2>1, <2>2 DEF RemovalLocked, ClientTypes
  <2>4. \A d \in Clients \ {c} : at'[d] \in {"joining", "open", "live"} =>
            mine'[d] # 0 /\ (mine'[d] \notin closed' => mine'[d] = bus')
    BY <1>0, <2>1 DEF BusShared, ClientTypes, BusTypes
  <2>5. mine'[c] = bus'
    BY <1>0, <2>1 DEF BusTypes
  <2> QED
    BY <2>2, <2>3, <2>4, <2>5 DEF BusShared
<1>4. ASSUME NEW c \in Clients, Subscribe(c) \/ Backlog(c) \/ Unsubscribe(c)
      PROVE  RemovalLocked' /\ BusShared'
  <2>1. /\ at[c] \in {"joining", "open", "live", "eof"}
        /\ \E a \in {"eof", "open", "live", "unsubscribed"} :
              /\ at' = [at EXCEPT ![c] = a]
              /\ a \in {"open", "live"} => at[c] \in {"joining", "open", "live"}
        /\ UNCHANGED <<bus, closed, mapLock, mine, idle>>
    BY <1>4 DEF Subscribe, Backlog, Unsubscribe, Subscribed
  <2> QED
    BY <1>0, <2>1 DEF RemovalLocked, BusShared, ClientTypes
<1>5. ASSUME NEW c \in Clients, CheckIdle(c) PROVE RemovalLocked' /\ BusShared'
  <2>1. /\ at[c] = "unsubscribed" /\ mapLock = {} /\ mapLock' = {c}
        /\ idle' = [idle EXCEPT ![c] = bus # 0 /\ NobodyLeft(c)]
        /\ at' = [at EXCEPT ![c] = "checked"]
        /\ UNCHANGED <<bus, closed, mine>>
    BY <1>5 DEF CheckIdle
  <2>2. idle'[c] => bus # 0
    BY <1>0, <2>1, Zenon DEF ClientTypes
  <2>3. \A d \in Clients \ {c} : at'[d] = at[d] /\ idle'[d] = idle[d] /\ at[d] # "checked"
    BY <1>0, <2>1 DEF ClientTypes, RemovalLocked
  <2>4. at'[c] = "checked"
    BY <1>0, <2>1 DEF ClientTypes
  <2>5. RemovalLocked'
    BY <2>1, <2>2, <2>3, <2>4 DEF RemovalLocked
  <2> QED
    BY <2>1, <2>3, <2>4, <2>5 DEF BusShared
<1>6. ASSUME NEW c \in Clients, RemoveIdle(c) PROVE RemovalLocked' /\ BusShared'
  <2>1. /\ at[c] = "checked" /\ mapLock' = {}
        /\ idle[c] => closed' = closed \cup {bus} /\ bus' = 0
        /\ ~idle[c] => UNCHANGED <<closed, bus>>
        /\ idle' = [idle EXCEPT ![c] = FALSE]
        /\ at' = [at EXCEPT ![c] = "off"]
        /\ UNCHANGED mine
    BY <1>6 DEF RemoveIdle, CloseBus
  <2>2. \A d \in Clients \ {c} : at'[d] = at[d] /\ idle'[d] = idle[d] /\ at[d] # "checked"
    BY <1>0, <2>1 DEF ClientTypes, RemovalLocked
  <2>3. at'[c] = "off" /\ ~idle'[c]
    BY <1>0, <2>1 DEF ClientTypes
  <2>4. RemovalLocked'
    BY <2>1, <2>2, <2>3 DEF RemovalLocked
  <2>5. CASE idle[c]
    <3>1. closed' = closed \cup {bus} /\ bus' = 0
      BY <2>1, <2>5, Zenon
    <3> QED
      BY <2>1, <2>2, <2>3, <2>4, <3>1 DEF BusShared
  <2>6. CASE ~idle[c]
    <3>1. UNCHANGED <<closed, bus>>
      BY <2>1, <2>6, Zenon
    <3> QED
      BY <2>1, <2>2, <2>3, <2>4, <3>1 DEF BusShared
  <2> QED
    BY <2>5, <2>6
<1> QED
  BY <1>2, <1>3, <1>4, <1>5, <1>6, Zenon DEF StreamNext, LeaveStep

-----------------------------------------------------------------------------
(***************************************************************************)
(* No frame is missed.  Frames on their way stay on it, unless the step is *)
(* one of their emitter.                                                   *)
(***************************************************************************)
OnItsWay(e) == stage[e] \in {"recorded", "resolved"}

\* A step that reaches neither log, buses nor clients loses no frame.
LEMMA FramesFrame ==
    ASSUME NoMissedFrame, UNCHANGED <<log, at, mine, closed, base, view, lost, chan>>,
           \A e \in Emitters : OnItsWay(e) => /\ stage'[e] = stage[e] /\ seq'[e] = seq[e]
                                              /\ target'[e] = target[e]
    PROVE  NoMissedFrame'
<1>1. SUFFICES ASSUME NEW c \in Clients, at'[c] = "live", mine'[c] \notin closed',
                      NEW k \in (base'[c] + 1)..Len(log')
               PROVE  (k \in view[c] \cup lost[c] \cup ToSet(chan[c]) \/ Coming(c, k))'
  BY DEF NoMissedFrame
<1>2. k \in view[c] \cup lost[c] \cup ToSet(chan[c]) \/ Coming(c, k)
  BY <1>1 DEF NoMissedFrame
<1>3. CASE Coming(c, k)
  <2>1. Coming(c, k)'
    BY <1>3 DEF Coming, OnItsWay
  <2> QED
    BY <2>1
<1>4. CASE k \in view[c] \cup lost[c] \cup ToSet(chan[c])
  BY <1>4
<1> QED
  BY <1>2, <1>3, <1>4

\* The steps of one client leave the frames of the others alone.
LEMMA FramesOfOthers ==
    ASSUME NoMissedFrame, NEW c \in Clients, UNCHANGED <<log, stage, seq, target>>,
           closed \subseteq closed',
           \A d \in Clients \ {c} : /\ at'[d] = at[d] /\ mine'[d] = mine[d]
                                    /\ base'[d] = base[d] /\ view'[d] = view[d]
                                    /\ lost'[d] = lost[d] /\ chan'[d] = chan[d],
           at'[c] = "live" /\ mine'[c] \notin closed' =>
               \A k \in (base'[c] + 1)..Len(log') :
                   \/ k \in view'[c] \cup lost'[c] \cup ToSet(chan'[c])
                   \/ Coming(c, k)'
    PROVE  NoMissedFrame'
<1>1. SUFFICES ASSUME NEW d \in Clients \ {c}, at'[d] = "live", mine'[d] \notin closed',
                      NEW k \in (base'[d] + 1)..Len(log')
               PROVE  (k \in view[d] \cup lost[d] \cup ToSet(chan[d]) \/ Coming(d, k))'
  BY DEF NoMissedFrame
<1>2. k \in view[d] \cup lost[d] \cup ToSet(chan[d]) \/ Coming(d, k)
  BY <1>1 DEF NoMissedFrame
<1>3. CASE Coming(d, k)
  <2>1. Coming(d, k)'
    BY <1>3 DEF Coming
  <2> QED
    BY <2>1
<1>4. CASE k \in view[d] \cup lost[d] \cup ToSet(chan[d])
  BY <1>4
<1> QED
  BY <1>2, <1>3, <1>4

\* Reading a channel takes its head and leaves the rest.
LEMMA ChannelParts ==
    ASSUME NEW A, NEW q \in Seq(A)
    PROVE  /\ q # <<>> => ToSet(q) \subseteq {Head(q)} \cup ToSet(Tail(q))
           /\ \A x \in A : ToSet(Append(q, x)) = ToSet(q) \cup {x}
<1>1. DOMAIN q = 1..Len(q) /\ Len(q) \in Nat
  OBVIOUS
<1>2. ASSUME q # <<>> PROVE ToSet(q) \subseteq {Head(q)} \cup ToSet(Tail(q))
  <2>1. ASSUME NEW i \in DOMAIN q PROVE q[i] \in {Head(q)} \cup ToSet(Tail(q))
    <3>1. CASE i = 1
      BY <1>2, <3>1
    <3>2. CASE i # 1
      <4>1. i - 1 \in DOMAIN Tail(q) /\ Tail(q)[i - 1] = q[i]
        BY <1>1, <1>2, <2>1, <3>2
      <4> QED
        BY <4>1, Zenon DEF ToSet
    <3> QED
      BY <3>1, <3>2
  <2> QED
    BY <2>1 DEF ToSet
<1>3. ASSUME NEW x \in A PROVE ToSet(Append(q, x)) = ToSet(q) \cup {x}
  <2> DEFINE r == Append(q, x)
  <2>1. /\ DOMAIN r = DOMAIN q \cup {Len(q) + 1} /\ r[Len(q) + 1] = x
        /\ \A i \in DOMAIN q : r[i] = q[i]
    BY <1>1
  <2> HIDE DEF r
  <2>2. ToSet(r) = ToSet(q) \cup {x}
    BY <2>1 DEF ToSet
  <2> QED
    BY <2>2 DEF r
<1> QED
  BY <1>2, <1>3

\* No step loses a frame of a connected client.
LEMMA FramesStep ==
    ASSUME Types, JobProgress, BusShared, NoMissedFrame, [StreamNext]_streamVars
    PROVE  NoMissedFrame'
<1>0. /\ SinkTypes /\ BusTypes /\ ClientTypes /\ FrameTypes /\ SeqsLogged
      /\ Len(log) \in Nat
  BY DEF Types, SinkTypes, FrameTypes
<1> USE DEF StreamSide
<1>1. ASSUME UNCHANGED <<StreamSide, stage, seq, target, log>>
      PROVE  NoMissedFrame'
  BY <1>1, FramesFrame DEF busVars, clientVars, StreamSide
<1>2. CASE \/ UNCHANGED streamVars
           \/ Start \/ Launch \/ FinishUnstarted \/ Reap \/ CloseDone \/ CancelMark
           \/ CancelKill \/ ProcessExits
  <2>1. UNCHANGED <<StreamSide, stage, seq, target, log>>
    BY <1>2 DEF streamVars, sinkVars, Start, Launch, FinishUnstarted, Reap, CloseDone,
                CancelMark, CancelKill, ProcessExits
  <2> QED
    BY <1>1, <2>1
\* A goroutine that begins to emit had nothing on its way.
<1>3. ASSUME NEW e \in Emitters, ~OnItsWay(e), UNCHANGED <<StreamSide, seq, target, log>>,
             \A f \in Emitters : f # e => stage'[f] = stage[f]
      PROVE  NoMissedFrame'
  BY <1>3, FramesFrame DEF busVars, clientVars, StreamSide
<1>4. CASE Announce \/ JobFinished \/ FinalFlush
  <2>1. PICK ev : Emitting("job", ev) /\ UNCHANGED <<StreamSide, seq, target, log>>
    BY <1>4, Zenon DEF Announce, JobFinished, FinalFlush, TakeLocked
  <2>2. Idle("job")
    BY <1>4 DEF JobProgress, Announce, JobFinished, FinalFlush
  <2>3. "job" \in Emitters /\ ~OnItsWay("job")
    BY <2>2, KnownEmitters DEF Idle, OnItsWay
  <2>4. \A f \in Emitters : f # "job" => stage'[f] = stage[f]
    BY <1>0, <2>1, EmittingStages, KnownEmitters
  <2> QED
    BY <1>3, <2>1, <2>3, <2>4
<1>5. CASE Refuse \/ ProcessWrites
  <2>1. PICK e \in {"job", "copier"} : JobOutput(e) /\ Idle(e)
    BY <1>5, Zenon DEF Refuse, ProcessWrites
  <2>2. e \in Emitters /\ ~OnItsWay(e)
    BY <2>1, KnownEmitters DEF Idle, OnItsWay
  <2>3. UNCHANGED <<StreamSide, seq, target, log>>
    BY <1>5 DEF Refuse, ProcessWrites
  <2>4. \A f \in Emitters : f # e => stage'[f] = stage[f]
    BY <1>0, <2>1, <2>2, JobOutputStages
  <2> QED
    BY <1>3, <2>2, <2>3, <2>4
<1>6. ASSUME NEW e \in Timers, TimerStep(e) PROVE NoMissedFrame'
  <2>1. e \in Emitters /\ ~OnItsWay(e) /\ UNCHANGED <<StreamSide, seq, target, log>>
    BY <1>6, KnownEmitters DEF TimerStep, TimerFires, TimerFlush, Idle, OnItsWay
  <2>2. \A f \in Emitters : f # e => stage'[f] = stage[f]
    BY <1>0, <1>6, <2>1, EmittingStages DEF TimerStep, TimerFires, TimerFlush, TakeLocked, SinkTypes
  <2> QED
    BY <1>3, <2>1, <2>2
\* The emitter's own steps: the new event is on its way, it finds the bus of
\* every connection that is not closed, and it reaches channel or loss.
<1>7. ASSUME NEW e \in Emitters, Record(e) PROVE NoMissedFrame'
  <2>1. /\ UNCHANGED <<StreamSide, target>> /\ log' = Append(log, hand[e])
        /\ seq' = [seq EXCEPT ![e] = Len(log) + 1] /\ stage[e] = "taken"
        /\ stage' = [stage EXCEPT ![e] = "recorded"]
    BY <1>7 DEF Record
  <2>2. /\ UNCHANGED <<at, mine, closed, base, view, lost, chan>>
    BY <2>1 DEF StreamSide, busVars, clientVars
  <2>3. Len(log') = Len(log) + 1
    BY <1>0, <2>1 DEF SinkTypes
  <2>4. SUFFICES ASSUME NEW c \in Clients, at'[c] = "live", mine'[c] \notin closed',
                        NEW k \in (base'[c] + 1)..Len(log')
                 PROVE  (k \in view[c] \cup lost[c] \cup ToSet(chan[c]) \/ Coming(c, k))'
    BY DEF NoMissedFrame
  <2>5. CASE k = Len(log) + 1
    <3>1. seq'[e] = k /\ stage'[e] = "recorded"
      BY <1>0, <2>1, <2>5 DEF SinkTypes
    <3> QED
      BY <3>1 DEF Coming
  <2>6. CASE k # Len(log) + 1
    <3>1. base[c] \in Nat
      BY <1>0 DEF ClientTypes
    <3>2. k \in (base[c] + 1)..Len(log)
      BY <1>0, <2>2, <2>3, <2>4, <2>6, <3>1
    <3>3. k \in view[c] \cup lost[c] \cup ToSet(chan[c]) \/ Coming(c, k)
      BY <2>2, <2>4, <3>2 DEF NoMissedFrame
    <3>4. CASE Coming(c, k)
      <4>1. PICK f \in Emitters : /\ seq[f] = k
                                  /\ \/ stage[f] = "recorded"
                                     \/ stage[f] = "resolved" /\ target[f] = mine[c]
        BY <3>4 DEF Coming
      <4>2. seq'[f] = seq[f] /\ stage'[f] = stage[f]
        BY <1>0, <2>1, <4>1 DEF SinkTypes
      <4> QED
        BY <2>1, <2>2, <4>1, <4>2 DEF Coming
    <3>5. CASE k \in view[c] \cup lost[c] \cup ToSet(chan[c])
      BY <2>2, <3>5
    <3> QED
      BY <3>3, <3>4, <3>5
  <2> QED
    BY <2>5, <2>6
<1>8. ASSUME NEW e \in Emitters, Resolve(e) PROVE NoMissedFrame'
  <2>1. /\ UNCHANGED <<StreamSide, seq, log>> /\ target' = [target EXCEPT ![e] = bus]
        /\ stage[e] = "recorded" /\ stage' = [stage EXCEPT ![e] = "resolved"]
    BY <1>8 DEF Resolve, CurrentBus
  <2>2. /\ UNCHANGED <<at, mine, closed, base, view, lost, chan, bus>>
    BY <2>1 DEF StreamSide, busVars, clientVars
  <2>3. SUFFICES ASSUME NEW c \in Clients, at'[c] = "live", mine'[c] \notin closed',
                        NEW k \in (base'[c] + 1)..Len(log')
                 PROVE  (k \in view[c] \cup lost[c] \cup ToSet(chan[c]) \/ Coming(c, k))'
    BY DEF NoMissedFrame
  <2>4. mine[c] = bus
    BY <2>2, <2>3 DEF BusShared
  <2>5. k \in view[c] \cup lost[c] \cup ToSet(chan[c]) \/ Coming(c, k)
    BY <2>1, <2>2, <2>3 DEF NoMissedFrame
  <2>6. CASE Coming(c, k)
    <3>1. PICK f \in Emitters : /\ seq[f] = k
                                /\ \/ stage[f] = "recorded"
                                   \/ stage[f] = "resolved" /\ target[f] = mine[c]
      BY <2>6 DEF Coming
    <3>2. f # e => stage'[f] = stage[f] /\ target'[f] = target[f]
      BY <1>0, <2>1, <3>1 DEF SinkTypes, BusTypes
    <3>3. f = e => stage'[f] = "resolved" /\ target'[f] = mine[c]
      BY <1>0, <2>1, <2>4 DEF SinkTypes, BusTypes
    <3> QED
      BY <2>1, <2>2, <3>1, <3>2, <3>3 DEF Coming
  <2>7. CASE k \in view[c] \cup lost[c] \cup ToSet(chan[c])
    BY <2>2, <2>7
  <2> QED
    BY <2>5, <2>6, <2>7
<1>9. ASSUME NEW e \in Emitters, Fan(e) PROVE NoMissedFrame'
  <2> DEFINE S == Subs(target[e])
  <2>1. /\ UNCHANGED <<log, target, closed, at, mine, view, base>>
        /\ chan' = [c \in Clients |-> IF c \in S /\ ~Full(c) THEN Append(chan[c], seq[e])
                                     ELSE chan[c]]
        /\ lost' = [c \in Clients |-> IF c \in S /\ Full(c) THEN lost[c] \cup {seq[e]}
                                     ELSE lost[c]]
        /\ seq' = [seq EXCEPT ![e] = 0]
        /\ stage' = [stage EXCEPT ![e] = "idle"]
        /\ stage[e] = "resolved"
    BY <1>9, Zenon DEF Fan
  <2>2. SUFFICES ASSUME NEW c \in Clients, at'[c] = "live", mine'[c] \notin closed',
                        NEW k \in (base'[c] + 1)..Len(log')
                 PROVE  (k \in view[c] \cup lost[c] \cup ToSet(chan[c]) \/ Coming(c, k))'
    BY DEF NoMissedFrame
  <2>3. c \in S <=> mine[c] = target[e]
    BY <2>1, <2>2 DEF Subs, Subscribed
  <2> HIDE DEF S
  <2>4. chan[c] \in Seq(Nat) /\ seq[e] \in Nat
    BY <1>0 DEF ClientTypes, SinkTypes
  <2>5. /\ ToSet(chan[c]) \subseteq ToSet(chan'[c]) /\ lost[c] \subseteq lost'[c]
        /\ c \in S => seq[e] \in lost'[c] \cup ToSet(chan'[c])
    <3>1. ToSet(Append(chan[c], seq[e])) = ToSet(chan[c]) \cup {seq[e]}
      BY <2>4, ChannelParts
    <3>2. CASE c \in S /\ ~Full(c)
      <4>1. chan'[c] = Append(chan[c], seq[e]) /\ lost'[c] = lost[c]
        BY <2>1, <3>2
      <4> QED
        BY <3>1, <4>1
    <3>3. CASE c \in S /\ Full(c)
      BY <2>1, <3>3
    <3>4. CASE c \notin S
      BY <2>1, <3>4
    <3> QED
      BY <3>2, <3>3, <3>4
  <2>6. k \in view[c] \cup lost[c] \cup ToSet(chan[c]) \/ Coming(c, k)
    BY <2>1, <2>2 DEF NoMissedFrame
  <2>7. CASE Coming(c, k)
    <3>1. PICK f \in Emitters : /\ seq[f] = k
                                /\ \/ stage[f] = "recorded"
                                   \/ stage[f] = "resolved" /\ target[f] = mine[c]
      BY <2>7 DEF Coming
    <3>2. CASE f = e
      BY <2>1, <2>3, <2>5, <3>1, <3>2
    <3>3. CASE f # e
      <4>1. stage'[f] = stage[f] /\ seq'[f] = seq[f]
        BY <1>0, <2>1, <3>1, <3>3 DEF SinkTypes
      <4> QED
        BY <2>1, <3>1, <4>1 DEF Coming
    <3> QED
      BY <3>2, <3>3
  <2>8. CASE k \in view[c] \cup lost[c] \cup ToSet(chan[c])
    BY <2>1, <2>5, <2>8
  <2> QED
    BY <2>6, <2>7, <2>8
<1>10. ASSUME NEW c \in Clients,
              \/ Join(c) \/ Subscribe(c) \/ Backlog(c) \/ Pump(c) \/ Unsubscribe(c)
              \/ LeaveStep(c)
       PROVE  NoMissedFrame'
  <2>1. UNCHANGED ServerSide
    BY <1>10 DEF Join, Subscribe, Backlog, Pump, Unsubscribe, LeaveStep, CheckIdle, RemoveIdle
  <2>2. UNCHANGED <<log, stage, seq, target>>
    BY <2>1 DEF ServerSide, sinkVars
  <2>3. closed \subseteq closed'
    BY <1>10 DEF Join, Subscribe, Backlog, Pump, Unsubscribe, LeaveStep, CheckIdle, RemoveIdle,
                 CloseBus
  <2>4. \A d \in Clients \ {c} : at'[d] = at[d] /\ mine'[d] = mine[d]
    BY <1>0, <1>10 DEF Join, Subscribe, Backlog, Pump, Unsubscribe, LeaveStep, CheckIdle,
                       RemoveIdle, ClientTypes, BusTypes
  <2>5. \A d \in Clients \ {c} : /\ base'[d] = base[d] /\ view'[d] = view[d]
                                 /\ lost'[d] = lost[d] /\ chan'[d] = chan[d]
    BY <1>0, <1>10 DEF Join, Subscribe, Backlog, Pump, Unsubscribe, LeaveStep, CheckIdle,
                       RemoveIdle, ClientTypes, FrameTypes, clientVars
  <2>6. CASE Join(c) \/ Subscribe(c) \/ Unsubscribe(c) \/ LeaveStep(c)
    <3>1. at'[c] # "live"
      BY <1>0, <2>6 DEF Join, Subscribe, Unsubscribe, LeaveStep, CheckIdle, RemoveIdle,
                        ClientTypes
    <3> QED
      BY <2>2, <2>3, <2>4, <2>5, <3>1, FramesOfOthers
  <2>7. CASE Backlog(c)
    <3>1. base'[c] = Len(log)
      BY <1>0, <2>7 DEF Backlog, ClientTypes
    <3>2. (base'[c] + 1)..Len(log') = {}
      BY <1>0, <2>2, <3>1
    <3> QED
      BY <2>2, <2>3, <2>4, <2>5, <3>2, FramesOfOthers
  <2>8. CASE Pump(c)
    <3>1. /\ chan[c] # <<>> /\ view' = [view EXCEPT ![c] = view[c] \cup {Head(chan[c])}]
          /\ chan' = [chan EXCEPT ![c] = Tail(chan[c])]
          /\ UNCHANGED <<closed, at, mine, base, lost>>
      BY <2>8 DEF Pump
    <3>2. view'[c] = view[c] \cup {Head(chan[c])} /\ chan'[c] = Tail(chan[c])
      BY <1>0, <3>1 DEF ClientTypes, FrameTypes
    <3>3. ToSet(chan[c]) \subseteq {Head(chan[c])} \cup ToSet(Tail(chan[c]))
      BY <1>0, <3>1, ChannelParts DEF ClientTypes
    <3>4. ASSUME at'[c] = "live", mine'[c] \notin closed', NEW k \in (base'[c] + 1)..Len(log')
          PROVE  \/ k \in view'[c] \cup lost'[c] \cup ToSet(chan'[c])
                 \/ Coming(c, k)'
      <4>1. k \in view[c] \cup lost[c] \cup ToSet(chan[c]) \/ Coming(c, k)
        BY <2>2, <3>1, <3>4 DEF NoMissedFrame
      <4>2. Coming(c, k) => Coming(c, k)'
        BY <2>2, <3>1 DEF Coming
      <4> QED
        BY <3>1, <3>2, <3>3, <4>1, <4>2
    <3> QED
      BY <2>2, <2>3, <2>4, <2>5, <3>4, FramesOfOthers
  <2> QED
    BY <1>10, <2>6, <2>7, <2>8
<1> QED
  BY <1>2, <1>4, <1>5, <1>6, <1>7, <1>8, <1>9, <1>10, Zenon DEF StreamNext, JobStep, EmitStep

-----------------------------------------------------------------------------
(***************************************************************************)
(* Chunks.  Span(e) is what the goroutine e has taken and not recorded; a  *)
(* step moves a span from the buffer to a goroutine, or from there to the  *)
(* log.  At(t, n, P) are the positions P of the span n in t.               *)
(***************************************************************************)
Span(e) == IF stage[e] = "taken" THEN hand[e].chunks ELSE <<>>
At(t, n, P) == {<<t, n, i>> : i \in P}

HeldByOthers(k, e) ==
    UNION {At("hand", f, Positions(k, Span(f))) : f \in Emitters \ {e}}
PartsOf(k) ==
    /\ Buffered(k) = At("buffer", 0, Positions(k, pending))
    /\ Held(k) = UNION {At("hand", e, Positions(k, Span(e))) : e \in Emitters}
    /\ Logged(k) = UNION {At("log", n, Positions(k, log[n].chunks)) : n \in DOMAIN log}
    /\ \A e \in Emitters : Held(k) = At("hand", e, Positions(k, Span(e))) \cup HeldByOthers(k, e)

\* The places of a chunk, by emitter and by event.
LEMMA WhereaboutsParts ==
    \A k : PartsOf(k)
<1> TAKE k
<1>1. Buffered(k) = At("buffer", 0, Positions(k, pending))
  BY Zenon DEF Buffered, At
<1>2. Logged(k) = UNION {At("log", n, Positions(k, log[n].chunks)) : n \in DOMAIN log}
  BY Zenon DEF Logged, At
<1>3. \A e \in Emitters : e \notin Unrecorded => At("hand", e, Positions(k, Span(e))) = {}
  <2>1. Positions(k, <<>>) = {}
    BY DEF Positions
  <2> QED
    BY <2>1 DEF At, Unrecorded, Span
<1>4. \A e \in Unrecorded : /\ e \in Emitters
                            /\ At("hand", e, Positions(k, Span(e)))
                                 = {<<"hand", e, i>> : i \in Positions(k, hand[e].chunks)}
  BY Zenon DEF At, Unrecorded, Span
<1>5. Held(k) = UNION {At("hand", e, Positions(k, Span(e))) : e \in Emitters}
  <2> DEFINE F(e) == At("hand", e, Positions(k, Span(e)))
             G(e) == {<<"hand", e, i>> : i \in Positions(k, hand[e].chunks)}
  <2>1. Held(k) = UNION {G(e) : e \in Unrecorded}
    BY DEF Held
  <2>2. \A e \in Unrecorded : e \in Emitters /\ F(e) = G(e)
    BY <1>4
  <2>3. \A e \in Emitters : e \notin Unrecorded => F(e) = {}
    BY <1>3
  <2> HIDE DEF F, G
  <2>4. UNION {G(e) : e \in Unrecorded} = UNION {F(e) : e \in Emitters}
    BY <2>2, <2>3
  <2> QED
    BY <2>1, <2>4 DEF F
<1>6. ASSUME NEW e \in Emitters
      PROVE  Held(k) = At("hand", e, Positions(k, Span(e))) \cup HeldByOthers(k, e)
  <2> DEFINE F(f) == At("hand", f, Positions(k, Span(f)))
  <2>1. Held(k) = UNION {F(f) : f \in Emitters}
    BY <1>5
  <2>2. HeldByOthers(k, e) = UNION {F(f) : f \in Emitters \ {e}}
    BY DEF HeldByOthers
  <2> HIDE DEF F
  <2>3. UNION {F(f) : f \in Emitters} = F(e) \cup UNION {F(f) : f \in Emitters \ {e}}
    OBVIOUS
  <2> QED
    BY <2>1, <2>2, <2>3 DEF F
<1> QED
  BY <1>1, <1>2, <1>5, <1>6 DEF PartsOf

\* ... and after the step.
LEMMA WhereaboutsPartsNext ==
    (\A k : PartsOf(k))'
BY WhereaboutsParts, PTL

\* The places W become the places V, none added or lost.
AsMany(W, V) == ((\E p : W = {p}) => \E p : V = {p}) /\ (W = {} => V = {})

\* A span moves from n1 in t1 to n2 in t2; R are the places outside it.
LEMMA Relocated ==
    ASSUME NEW t1, NEW n1, NEW t2, NEW n2, NEW P, NEW R,
           \A i : <<t1, n1, i>> \notin R
    PROVE  AsMany(At(t1, n1, P) \cup R, At(t2, n2, P) \cup R)
<1>1. ASSUME NEW p, At(t1, n1, P) \cup R = {p}
      PROVE  \E q : At(t2, n2, P) \cup R = {q}
  <2>1. CASE P = {}
    <3>1. At(t1, n1, P) = {} /\ At(t2, n2, P) = {}
      BY <2>1 DEF At
    <3> QED
      BY <1>1, <3>1
  <2>2. ASSUME NEW i \in P PROVE \E q : At(t2, n2, P) \cup R = {q}
    <3>1. <<t1, n1, i>> \in At(t1, n1, P)
      BY DEF At
    <3>2. p = <<t1, n1, i>>
      BY <1>1, <3>1
    <3>3. R = {}
      BY <1>1, <3>2
    <3>4. \A j \in P : <<t1, n1, j>> = <<t1, n1, i>>
      BY <1>1, <3>2 DEF At
    <3>5. P = {i}
      BY <3>4
    <3>6. At(t2, n2, P) = {<<t2, n2, i>>}
      BY <3>5 DEF At
    <3> QED
      BY <3>3, <3>6
  <2> QED
    BY <2>1, <2>2
<1>2. ASSUME At(t1, n1, P) \cup R = {} PROVE At(t2, n2, P) \cup R = {}
  <2>1. P = {} /\ R = {}
    BY <1>2 DEF At
  <2> QED
    BY <2>1 DEF At
<1> QED
  BY <1>1, <1>2, Zenon DEF AsMany

\* Appending x to a span adds one position, of x.
LEMMA AppendedPositions ==
    ASSUME NEW A, NEW q \in Seq(A), NEW x \in A, NEW k
    PROVE  Positions(k, Append(q, x)) =
               Positions(k, q) \cup (IF k = x THEN {Len(q) + 1} ELSE {})
<1> DEFINE r == Append(q, x)
<1>1. /\ DOMAIN r = DOMAIN q \cup {Len(q) + 1} /\ r[Len(q) + 1] = x
      /\ \A i \in DOMAIN q : r[i] = q[i]
  OBVIOUS
<1> HIDE DEF r
<1>2. Positions(k, r) = Positions(k, q) \cup (IF k = x THEN {Len(q) + 1} ELSE {})
  BY <1>1 DEF Positions
<1> QED
  BY <1>2 DEF r

\* What ChunksPlaced says of chunk k when w chunks were written.
Placed(k, w, W) == IF k <= w THEN \E p : W = {p} ELSE W = {}

\* The buffer, with or without the next chunk, goes to one span.
LEMMA BufferMoved ==
    ASSUME Types, NEW k \in Nat \ {0}, NEW R, \A i : <<"buffer", 0, i>> \notin R,
           Placed(k, written, At("buffer", 0, Positions(k, pending)) \cup R),
           NEW t, NEW n, NEW buf,
           \/ buf = pending /\ written' = written
           \/ buf = Append(pending, written + 1) /\ written' = written + 1
    PROVE  Placed(k, written', At(t, n, Positions(k, buf)) \cup R)
<1> DEFINE P == Positions(k, pending)
<1>1. written \in Nat /\ pending \in Seq(Nat)
  BY StreamAssumption DEF Types, JobTypes, SinkTypes, Chunks
<1>2. AsMany(At("buffer", 0, P) \cup R, At(t, n, P) \cup R)
  <2> HIDE DEF P
  <2> QED
    BY Relocated, Zenon
<1>3. CASE buf = pending /\ written' = written
  <2>1. Positions(k, buf) = P
    BY <1>3
  <2> HIDE DEF P
  <2> QED
    BY <1>2, <1>3, <2>1, Zenon DEF Placed, AsMany, P
<1>4. CASE buf = Append(pending, written + 1) /\ written' = written + 1
  <2>1. Positions(k, buf) = P \cup (IF k = written + 1 THEN {Len(pending) + 1} ELSE {})
    BY <1>1, <1>4, AppendedPositions
  <2> HIDE DEF P
  <2>2. CASE k = written + 1
    <3>1. At("buffer", 0, P) \cup R = {}
      BY <1>1, <2>2 DEF Placed, P
    <3>2. P = {} /\ R = {}
      BY <3>1 DEF At
    <3>3. Positions(k, buf) = {Len(pending) + 1}
      BY <2>1, <2>2, <3>2
    <3>4. At(t, n, Positions(k, buf)) \cup R = {<<t, n, Len(pending) + 1>>}
      BY <3>2, <3>3 DEF At
    <3>5. k <= written'
      BY <1>1, <1>4, <2>2
    <3> QED
      BY <3>4, <3>5, Zenon DEF Placed
  <2>3. CASE k # written + 1
    <3>1. Positions(k, buf) = P
      BY <2>1, <2>3
    <3>2. k <= written' <=> k <= written
      BY <1>1, <1>4, <2>3
    <3> QED
      BY <1>2, <3>1, <3>2, Zenon DEF Placed, AsMany, P
  <2> QED
    BY <2>2, <2>3
<1> QED
  BY <1>3, <1>4

\* An empty span has no places.
LEMMA NothingAt ==
    ASSUME NEW t, NEW n, NEW k
    PROVE  At(t, n, Positions(k, <<>>)) = {}
<1>1. Positions(k, <<>>) = {}
  BY DEF Positions
<1> QED
  BY <1>1 DEF At

\* Only the buffer has places called buffer; only a goroutine has its own.
LEMMA PlacesApart ==
    ASSUME NEW k, NEW e \in Emitters
    PROVE  /\ \A i : <<"buffer", 0, i>> \notin Held(k) \cup Logged(k)
           /\ \A i : <<"hand", e, i>> \notin Buffered(k) \cup HeldByOthers(k, e) \cup Logged(k)
<1>1. \A p \in Held(k) : p[1] = "hand"
  BY DEF Held
<1>2. \A p \in Logged(k) : p[1] = "log"
  BY DEF Logged
<1>3. \A p \in Buffered(k) : p[1] = "buffer"
  BY DEF Buffered
<1>4. \A p \in HeldByOthers(k, e) : p[2] # e
  BY DEF HeldByOthers, At
<1>5. \A i : <<"buffer", 0, i>>[1] = "buffer" /\ <<"hand", e, i>>[1] = "hand"
             /\ <<"hand", e, i>>[2] = e
  OBVIOUS
<1> QED
  BY <1>1, <1>2, <1>3, <1>4, <1>5

(***************************************************************************)
(* The moves: none, into the buffer, from the buffer to a goroutine, from  *)
(* a goroutine to the log.                                                 *)
(***************************************************************************)
LEMMA ChunksStay ==
    ASSUME ChunksPlaced, UNCHANGED <<pending, log, written>>,
           \A e \in Emitters : Span(e)' = Span(e)
    PROVE  ChunksPlaced'
<1>1. ASSUME NEW k PROVE Whereabouts(k)' = Whereabouts(k)
  <2>1. Buffered(k)' = Buffered(k) /\ Logged(k)' = Logged(k)
    BY DEF Buffered, Logged
  <2>2. Held(k)' = UNION {At("hand", e, Positions(k, Span(e)')) : e \in Emitters}
    BY WhereaboutsPartsNext DEF PartsOf
  <2>3. Held(k) = UNION {At("hand", e, Positions(k, Span(e))) : e \in Emitters}
    BY WhereaboutsParts DEF PartsOf
  <2>4. Held(k)' = Held(k)
    BY <2>2, <2>3
  <2> QED
    BY <2>1, <2>4 DEF Whereabouts
<1> QED
  BY <1>1 DEF ChunksPlaced

\* A new chunk that is buffered is in the buffer only.
LEMMA ChunksBuffered ==
    ASSUME Types, ChunksPlaced, UNCHANGED log,
           \A e \in Emitters : Span(e)' = Span(e),
           pending' = Append(pending, written + 1), written' = written + 1
    PROVE  ChunksPlaced'
<1>1. SUFFICES ASSUME NEW k \in Nat \ {0}
               PROVE  Placed(k, written', Whereabouts(k)')
  BY DEF ChunksPlaced, Placed
<1> DEFINE R == Held(k) \cup Logged(k)
<1>2. Whereabouts(k) = At("buffer", 0, Positions(k, pending)) \cup R
  BY WhereaboutsParts DEF PartsOf, Whereabouts
<1>3. Whereabouts(k)' = At("buffer", 0, Positions(k, pending')) \cup R
  <2>1. Buffered(k)' = At("buffer", 0, Positions(k, pending'))
    BY WhereaboutsPartsNext DEF PartsOf
  <2>2. Logged(k)' = Logged(k)
    BY DEF Logged
  <2>3. Held(k)' = UNION {At("hand", e, Positions(k, Span(e)')) : e \in Emitters}
    BY WhereaboutsPartsNext DEF PartsOf
  <2>4. Held(k) = UNION {At("hand", e, Positions(k, Span(e))) : e \in Emitters}
    BY WhereaboutsParts DEF PartsOf
  <2>5. Held(k)' = Held(k)
    BY <2>3, <2>4
  <2> QED
    BY <2>1, <2>2, <2>5 DEF Whereabouts
<1>4. \A i : <<"buffer", 0, i>> \notin R
  BY PlacesApart, KnownEmitters
<1>5. Placed(k, written, At("buffer", 0, Positions(k, pending)) \cup R)
  BY <1>2 DEF ChunksPlaced, Placed
<1> HIDE DEF R
<1>6. Placed(k, written', At("buffer", 0, Positions(k, pending')) \cup R)
  BY <1>4, <1>5, BufferMoved, Zenon
<1> QED
  BY <1>3, <1>6

\* Taking the buffer, with a new chunk or without, moves its chunks.
LEMMA ChunksTaken ==
    ASSUME Types, ChunksPlaced, UNCHANGED log, NEW e \in Emitters, NEW buf,
           Span(e) = <<>>, Span(e)' = buf, \A f \in Emitters \ {e} : Span(f)' = Span(f),
           pending' = <<>>,
           \/ buf = pending /\ written' = written
           \/ buf = Append(pending, written + 1) /\ written' = written + 1
    PROVE  ChunksPlaced'
<1>1. SUFFICES ASSUME NEW k \in Nat \ {0}
               PROVE  Placed(k, written', Whereabouts(k)')
  BY DEF ChunksPlaced, Placed
<1> DEFINE R == HeldByOthers(k, e) \cup Logged(k)
<1>2. Whereabouts(k) = At("buffer", 0, Positions(k, pending)) \cup R
  <2>1. Held(k) = HeldByOthers(k, e)
    BY WhereaboutsParts, NothingAt DEF PartsOf
  <2>2. Buffered(k) = At("buffer", 0, Positions(k, pending))
    BY WhereaboutsParts DEF PartsOf
  <2> QED
    BY <2>1, <2>2 DEF Whereabouts
<1>3. Whereabouts(k)' = At("hand", e, Positions(k, buf)) \cup R
  <2>1. Buffered(k)' = {}
    BY NothingAt DEF Buffered, At
  <2>2. Logged(k)' = Logged(k)
    BY DEF Logged
  <2>3. Held(k)' = At("hand", e, Positions(k, buf)) \cup HeldByOthers(k, e)'
    BY WhereaboutsPartsNext DEF PartsOf
  <2>4. HeldByOthers(k, e)' = HeldByOthers(k, e)
    BY DEF HeldByOthers, At, Positions
  <2> QED
    BY <2>1, <2>2, <2>3, <2>4 DEF Whereabouts
<1>4. \A i : <<"buffer", 0, i>> \notin R
  <2>1. HeldByOthers(k, e) \subseteq Held(k)
    BY WhereaboutsParts DEF PartsOf
  <2> QED
    BY <2>1, PlacesApart
<1>5. Placed(k, written, At("buffer", 0, Positions(k, pending)) \cup R)
  BY <1>2 DEF ChunksPlaced, Placed
<1> HIDE DEF R
<1>6. Placed(k, written', At("hand", e, Positions(k, buf)) \cup R)
  BY <1>4, <1>5, BufferMoved, Zenon
<1> QED
  BY <1>3, <1>6

\* The places of chunk k in the log q.
LogPlaces(k, q) == UNION {At("log", m, Positions(k, q[m].chunks)) : m \in DOMAIN q}

\* The places that a new event adds to the log.
LEMMA LogExtended ==
    ASSUME NEW T, NEW q \in Seq(T), NEW ev \in T, NEW k
    PROVE  LogPlaces(k, Append(q, ev))
             = LogPlaces(k, q) \cup At("log", Len(q) + 1, Positions(k, ev.chunks))
<1> DEFINE r == Append(q, ev)
           n == Len(q) + 1
<1>1. /\ DOMAIN r = DOMAIN q \cup {n} /\ r[n] = ev /\ n \notin DOMAIN q
      /\ \A m \in DOMAIN q : r[m] = q[m]
  OBVIOUS
<1> DEFINE F(m) == At("log", m, Positions(k, q[m].chunks))
           G(m) == At("log", m, Positions(k, r[m].chunks))
<1> HIDE DEF r, n
<1>2. G(n) = At("log", n, Positions(k, ev.chunks)) /\ \A m \in DOMAIN q : G(m) = F(m)
  BY <1>1
<1>3. LogPlaces(k, r) = UNION {G(m) : m \in DOMAIN r}
      /\ LogPlaces(k, q) = UNION {F(m) : m \in DOMAIN q}
  BY DEF LogPlaces
<1>4. \A p : p \in LogPlaces(k, r) <=> \E m \in DOMAIN r : p \in G(m)
  BY <1>3, Zenon
<1>5. \A p : p \in LogPlaces(k, q) <=> \E m \in DOMAIN q : p \in F(m)
  BY <1>3, Zenon
<1> HIDE DEF F, G
<1>6. ASSUME NEW p PROVE p \in LogPlaces(k, r) <=> p \in LogPlaces(k, q) \/ p \in G(n)
  <2>1. ASSUME p \in LogPlaces(k, r) PROVE p \in LogPlaces(k, q) \/ p \in G(n)
    <3>1. PICK m \in DOMAIN r : p \in G(m)
      BY <1>4, <2>1, Zenon
    <3>2. m = n \/ m \in DOMAIN q
      BY <1>1
    <3> QED
      BY <1>2, <1>5, <3>1, <3>2, Zenon
  <2>2. n \in DOMAIN r /\ DOMAIN q \subseteq DOMAIN r
    BY <1>1
  <2>3. ASSUME p \in LogPlaces(k, q) PROVE p \in LogPlaces(k, r)
    <3>1. PICK m \in DOMAIN q : p \in F(m)
      BY <1>5, <2>3, Zenon
    <3>2. m \in DOMAIN r /\ p \in G(m)
      BY <1>2, <2>2, <3>1
    <3> QED
      BY <1>4, <3>2, Zenon
  <2>4. ASSUME p \in G(n) PROVE p \in LogPlaces(k, r)
    BY <1>4, <2>2, <2>4, Zenon
  <2> QED
    BY <2>1, <2>3, <2>4
<1>7. \A p : p \in LogPlaces(k, r) <=> p \in LogPlaces(k, q) \/ p \in G(n)
  BY <1>6
<1>8. LogPlaces(k, r) = LogPlaces(k, q) \cup G(n)
  <2> DEFINE A == LogPlaces(k, r)
             B == LogPlaces(k, q)
             C == G(n)
  <2>1. \A p : p \in A <=> p \in B \/ p \in C
    BY <1>7
  <2> HIDE DEF A, B, C
  <2>2. A = B \cup C
    BY <2>1
  <2> QED
    BY <2>2 DEF A, B, C
<1> QED
  BY <1>2, <1>8, Zenon DEF r, n

\* Recording a span moves its chunks from a hand to the log.
LEMMA ChunksRecorded ==
    ASSUME Types, ChunksPlaced, UNCHANGED <<pending, written>>, NEW e \in Emitters,
           log' = Append(log, hand[e]), Span(e) = hand[e].chunks, Span(e)' = <<>>,
           \A f \in Emitters \ {e} : Span(f)' = Span(f)
    PROVE  ChunksPlaced'
<1>1. SUFFICES ASSUME NEW k \in Nat \ {0}
               PROVE  Placed(k, written', Whereabouts(k)')
  BY DEF ChunksPlaced, Placed
<1> DEFINE R == Buffered(k) \cup HeldByOthers(k, e) \cup Logged(k)
           P == Positions(k, Span(e))
           n == Len(log) + 1
<1>2. Whereabouts(k) = At("hand", e, P) \cup R
  <2>1. Held(k) = At("hand", e, P) \cup HeldByOthers(k, e)
    BY WhereaboutsParts DEF PartsOf
  <2> QED
    BY <2>1 DEF Whereabouts
<1>3. Whereabouts(k)' = At("log", n, P) \cup R
  <2>1. Buffered(k)' = Buffered(k)
    BY DEF Buffered
  <2>2. Held(k)' = At("hand", e, Positions(k, <<>>)) \cup HeldByOthers(k, e)'
    BY WhereaboutsPartsNext DEF PartsOf
  <2>3. HeldByOthers(k, e)' = HeldByOthers(k, e)
    BY DEF HeldByOthers, At, Positions
  <2>4. Logged(k)' = Logged(k) \cup At("log", n, P)
    <3>1. log \in Seq(EventType) /\ hand[e] \in EventType
      BY DEF Types, SinkTypes
    <3>2. LogPlaces(k, log') = LogPlaces(k, log) \cup At("log", n, P)
      BY <3>1, LogExtended
    <3>3. Logged(k)' = LogPlaces(k, log') /\ Logged(k) = LogPlaces(k, log)
      BY WhereaboutsParts, WhereaboutsPartsNext DEF PartsOf, LogPlaces
    <3> QED
      BY <3>2, <3>3, Zenon
  <2> QED
    BY <2>1, <2>2, <2>3, <2>4, NothingAt DEF Whereabouts
<1>4. \A i : <<"hand", e, i>> \notin R
  BY PlacesApart
<1> HIDE DEF P, R, n
<1>5. AsMany(At("hand", e, P) \cup R, At("log", n, P) \cup R)
  BY <1>4, Relocated, Zenon
<1>6. Placed(k, written, Whereabouts(k))
  BY DEF ChunksPlaced, Placed
<1> QED
  BY <1>2, <1>3, <1>5, <1>6, Zenon DEF Placed, AsMany

\* What a goroutine holds after it has begun to emit.
LEMMA EmittingSpans ==
    ASSUME SinkTypes, NEW e \in Emitters, NEW ev, Emitting(e, ev)
    PROVE  /\ Span(e)' = ev.chunks
           /\ \A f \in Emitters \ {e} : Span(f)' = Span(f)
<1>1. Output(<<>>).chunks = <<>>
  BY DEF Output, Event
<1> QED
  BY <1>1, EmittingStages DEF Span

\* TakeLocked, by an emitter whose hands are free, moves the chunks.
LEMMA TakenChunks ==
    ASSUME Types, ChunksPlaced, UNCHANGED log, NEW e \in Emitters, NEW buf,
           stage[e] # "taken", TakeLocked(e, buf),
           \/ buf = pending /\ written' = written
           \/ buf = Append(pending, written + 1) /\ written' = written + 1
    PROVE  ChunksPlaced'
<1>1. SinkTypes /\ Emitting(e, Output(buf)) /\ pending' = <<>>
  BY DEF Types, TakeLocked
<1>2. Output(buf).chunks = buf
  BY DEF Output, Event
<1>3. Span(e) = <<>>
  BY DEF Span
<1>4. Span(e)' = buf /\ \A f \in Emitters \ {e} : Span(f)' = Span(f)
  BY <1>1, <1>2, EmittingSpans
<1> QED
  BY <1>1, <1>3, <1>4, ChunksTaken, Zenon

\* No step loses or doubles a chunk.
LEMMA ChunksStep ==
    ASSUME Types, JobProgress, ChunksPlaced, [StreamNext]_streamVars
    PROVE  ChunksPlaced'
<1>0. SinkTypes
  BY DEF Types
<1>1. ASSUME UNCHANGED <<pending, log, written, hand, stage>> PROVE ChunksPlaced'
  <2>1. \A e \in Emitters : Span(e)' = Span(e)
    BY <1>1 DEF Span
  <2> QED
    BY <1>1, <2>1, ChunksStay
<1>2. CASE \/ UNCHANGED streamVars
           \/ Start \/ Launch \/ FinishUnstarted \/ Reap \/ CloseDone \/ CancelMark
           \/ CancelKill \/ ProcessExits
           \/ \E c \in Clients : \/ Join(c) \/ Subscribe(c) \/ Backlog(c) \/ Pump(c)
                                 \/ Unsubscribe(c) \/ LeaveStep(c)
  <2>1. UNCHANGED <<pending, log, written, hand, stage>>
    BY <1>2 DEF streamVars, jobVars, sinkVars, Start, Launch, FinishUnstarted, Reap, CloseDone,
                CancelMark, CancelKill, ProcessExits, Join, Subscribe, Backlog, Pump,
                Unsubscribe, LeaveStep, CheckIdle, RemoveIdle, ServerSide
  <2> QED
    BY <1>1, <2>1
\* The brackets of the job carry no output.
<1>3. CASE Announce \/ JobFinished
  <2>1. PICK ev : Emitting("job", ev) /\ ev.chunks = <<>>
    <3>1. \A kind, s : Event(kind, <<>>, s).chunks = <<>>
      BY DEF Event
    <3> QED
      BY <1>3, <3>1, Zenon DEF Announce, JobFinished
  <2>2. stage["job"] # "taken" /\ UNCHANGED <<pending, log, written>>
    BY <1>3 DEF Announce, JobFinished, JobProgress, Idle
  <2>3. Span("job") = <<>> /\ Span("job")' = <<>>
        /\ \A f \in Emitters \ {"job"} : Span(f)' = Span(f)
    BY <1>0, <2>1, <2>2, EmittingSpans, KnownEmitters DEF Span
  <2>4. \A f \in Emitters : Span(f)' = Span(f)
    BY <2>3
  <2> QED
    BY <2>2, <2>4, ChunksStay
<1>4. CASE FinalFlush
  <2>1. TakeLocked("job", pending) /\ written' = written /\ log' = log /\ stage["job"] # "taken"
    BY <1>4 DEF FinalFlush, JobProgress, Idle
  <2> QED
    BY <2>1, TakenChunks, KnownEmitters, Zenon
<1>5. ASSUME NEW e \in Emitters, JobOutput(e), stage[e] # "taken", UNCHANGED log
      PROVE  ChunksPlaced'
  <2> DEFINE buf == Append(pending, written + 1)
  <2>1. \/ TakeLocked(e, buf) /\ written' = written + 1
        \/ pending' = buf /\ written' = written + 1 /\ UNCHANGED <<hand, stage>>
    BY <1>5, Zenon DEF JobOutput
  <2>2. CASE TakeLocked(e, buf) /\ written' = written + 1
    BY <1>5, <2>2, TakenChunks, Zenon
  <2>3. CASE pending' = buf /\ written' = written + 1 /\ UNCHANGED <<hand, stage>>
    <3>1. \A f \in Emitters : Span(f)' = Span(f)
      BY <2>3 DEF Span
    <3> QED
      BY <1>5, <2>3, <3>1, ChunksBuffered
  <2> QED
    BY <2>1, <2>2, <2>3
<1>6. CASE Refuse \/ ProcessWrites
  BY <1>5, <1>6, KnownEmitters DEF Refuse, ProcessWrites, Idle
<1>7. ASSUME NEW e \in Timers, TimerFires(e) PROVE ChunksPlaced'
  <2>1. /\ UNCHANGED <<pending, log, written, hand>> /\ stage[e] = "idle"
        /\ stage' = [stage EXCEPT ![e] = "fired"]
    BY <1>7 DEF TimerFires, jobVars, Idle
  <2>2. \A f \in Emitters : Span(f)' = Span(f)
    BY <1>0, <2>1 DEF Span, SinkTypes
  <2> QED
    BY <2>1, <2>2, ChunksStay
<1>8. ASSUME NEW e \in Timers, TimerFlush(e) PROVE ChunksPlaced'
  <2>1. /\ TakeLocked(e, pending) /\ written' = written /\ log' = log /\ stage[e] # "taken"
        /\ e \in Emitters
    BY <1>8, KnownEmitters DEF TimerFlush, jobVars
  <2> QED
    BY <2>1, TakenChunks, Zenon
<1>9. ASSUME NEW e \in Emitters, Record(e) PROVE ChunksPlaced'
  <2>1. /\ stage[e] = "taken" /\ log' = Append(log, hand[e])
        /\ stage' = [stage EXCEPT ![e] = "recorded"] /\ UNCHANGED <<pending, written, hand>>
    BY <1>9 DEF Record, jobVars
  <2>2. Span(e) = hand[e].chunks /\ Span(e)' = <<>>
        /\ \A f \in Emitters \ {e} : Span(f)' = Span(f)
    BY <1>0, <2>1 DEF Span, SinkTypes
  <2> QED
    BY <2>1, <2>2, ChunksRecorded
<1>10. ASSUME NEW e \in Emitters, Resolve(e) \/ Fan(e) PROVE ChunksPlaced'
  <2>1. /\ UNCHANGED <<pending, log, written>>
        /\ stage[e] # "taken" /\ stage'[e] # "taken"
        /\ \A f \in Emitters \ {e} : stage'[f] = stage[f] /\ hand'[f] = hand[f]
    BY <1>0, <1>10 DEF Resolve, Fan, jobVars, SinkTypes
  <2>2. \A f \in Emitters : Span(f)' = Span(f)
    BY <2>1 DEF Span
  <2> QED
    BY <2>1, <2>2, ChunksStay
<1> QED
  BY <1>2, <1>3, <1>4, <1>6, <1>7, <1>8, <1>9, <1>10, Zenon
     DEF StreamNext, JobStep, EmitStep, TimerStep

-----------------------------------------------------------------------------
(***************************************************************************)
(* The inductive invariant.                                                *)
(***************************************************************************)
LEMMA StreamInitially ==
    StreamInit => StreamIInv
<1> SUFFICES ASSUME StreamInit PROVE StreamIInv
  OBVIOUS
<1>1. MaxChunks \in Nat /\ MaxJoins \in Nat
  BY StreamAssumption
<1>2. Types
  <2>1. JobTypes
    <3>1. killed \in BOOLEAN /\ lease \in BOOLEAN /\ done \in BOOLEAN
      BY Zenon DEF StreamInit
    <3> QED
      BY <1>1, <3>1 DEF StreamInit, JobTypes, Statuses, PCs
  <2>2. BusTypes
    BY DEF StreamInit, BusTypes
  <2>3. SinkTypes
    BY EventTypes, Written DEF StreamInit, SinkTypes, Chunks
  <2>4. ClientTypes /\ FrameTypes
    BY <1>1, Written DEF StreamInit, ClientTypes, FrameTypes, SeqsLogged
  <2> QED
    BY <2>1, <2>2, <2>3, <2>4 DEF Types
<1>3. JobProgress /\ TimersKept /\ RemovalLocked /\ BusShared
  BY KnownEmitters DEF StreamInit, JobProgress, TimersKept, RemovalLocked, BusShared, Idle
<1>4. Closing
  BY DEF StreamInit, Closing, Published
<1>5. NoMissedFrame
  BY DEF StreamInit, NoMissedFrame
<1>6. ChunksPlaced
  <2>1. ASSUME NEW k PROVE Whereabouts(k) = {}
    BY DEF StreamInit, Whereabouts, Buffered, Held, Logged, Unrecorded, Positions
  <2>2. \A k \in Nat \ {0} : ~(k <= written)
    BY DEF StreamInit
  <2> QED
    BY <2>1, <2>2 DEF ChunksPlaced
<1> QED
  BY <1>2, <1>3, <1>4, <1>5, <1>6, TypeGroups DEF StreamIInv

\* The invariant of the stream is inductive.
LEMMA StreamIInvStep ==
    StreamIInv /\ [StreamNext]_streamVars => StreamIInv'
<1> SUFFICES ASSUME StreamIInv, [StreamNext]_streamVars PROVE StreamIInv'
  OBVIOUS
<1>1. /\ Types /\ JobProgress /\ Closing /\ TimersKept /\ RemovalLocked /\ BusShared
      /\ NoMissedFrame /\ ChunksPlaced
  BY TypeGroups DEF StreamIInv
<1>2. Types'
  BY <1>1, TypesStep
<1>3. StreamTypeOK' /\ SeqsLogged'
  BY <1>2 DEF StreamTypeOK, SeqsLogged, Types, JobTypes, SinkTypes, BusTypes, ClientTypes,
              FrameTypes, Statuses, PCs, Stages, Places
<1>4. JobProgress' /\ Closing' /\ TimersKept'
  BY <1>1, JobProgressStep, ClosingStep, TimersKeptStep
<1>5. RemovalLocked' /\ BusShared' /\ NoMissedFrame' /\ ChunksPlaced'
  BY <1>1, BusStep, FramesStep, ChunksStep
<1> QED
  BY <1>3, <1>4, <1>5 DEF StreamIInv

\* It holds in every reachable state.
LEMMA StreamIInvAlways ==
    StreamSpec => []StreamIInv
BY StreamInitially, StreamIInvStep, PTL DEF StreamSpec

(***************************************************************************)
(* No chunk of output is lost or doubled, in a well-formed state.          *)
(***************************************************************************)
THEOREM OutputAccountedFor ==
    StreamSpec => []StreamInv
<1>1. StreamIInv => StreamInv
  <2> SUFFICES ASSUME StreamIInv PROVE StreamInv
    OBVIOUS
  <2>1. written \in Nat
    BY StreamAssumption DEF StreamIInv, StreamTypeOK
  <2>2. ASSUME NEW k \in 1..written PROVE Cardinality(Whereabouts(k)) = 1
    <3>1. k \in Nat \ {0} /\ k <= written
      BY <2>1
    <3>2. PICK p : Whereabouts(k) = {p}
      BY <3>1 DEF StreamIInv, ChunksPlaced
    <3> QED
      BY <3>2, FS_Singleton
  <2> QED
    BY <2>2 DEF StreamIInv, StreamInv, ChunksAccounted
<1> QED
  BY <1>1, StreamIInvAlways, PTL

(***************************************************************************)
(* Buffered output always has a timer, or the goroutine of one, that will  *)
(* take it, whichever flushes overtake each other.                         *)
(***************************************************************************)
THEOREM BufferNeverForgotten ==
    StreamSpec => []BufferAttended
<1>1. StreamIInv => BufferAttended
  BY DEF StreamIInv, StreamTypeOK, TimersKept, BufferAttended
<1> QED
  BY <1>1, StreamIInvAlways, PTL

(***************************************************************************)
(* A job that Cancel accepted is never published as a success, and no job  *)
(* is published twice.                                                     *)
(***************************************************************************)
THEOREM CancelledNeverSucceeds ==
    StreamSpec => []CancelNeverSuccess
<1>1. StreamIInv => CancelNeverSuccess
  <2> SUFFICES ASSUME StreamIInv PROVE CancelNeverSuccess
    OBVIOUS
  <2>1. Closing /\ JobProgress
    BY DEF StreamIInv
  <2>2. Cardinality(Published) <= 1
    <3>1. CASE Published = {}
      <4>1. Cardinality(Published) = 0
        BY <3>1, FS_EmptySet
      <4> QED
        BY <4>1
    <3>2. CASE Published # {}
      <4>1. PICK i : i \in Published
        BY <3>2
      <4>2. Published = {i}
        BY <2>1, <4>1 DEF Closing
      <4>3. Cardinality(Published) = 1
        BY <4>2, FS_Singleton
      <4> QED
        BY <4>3
    <3> QED
      BY <3>1, <3>2
  <2>3. ASSUME canceller # "idle", NEW i \in Published PROVE log[i].status # "exited"
    <3>1. log[i].status = snap /\ pc \in {"published", "closed"}
      BY <2>1, <2>3 DEF Closing
    <3>2. snap # "none" /\ status = snap
      BY <2>1, <3>1 DEF JobProgress
    <3> QED
      BY <2>1, <2>3, <3>1, <3>2 DEF JobProgress
  <2> QED
    BY <2>2, <2>3 DEF CancelNeverSuccess
<1> QED
  BY <1>1, StreamIInvAlways, PTL

(***************************************************************************)
(* A connected client misses no event after its backlog but those its full *)
(* channel dropped.                                                        *)
(***************************************************************************)
THEOREM ClientMissesNothing ==
    StreamSpec => []NoMissedFrame
<1>1. StreamIInv => NoMissedFrame
  BY DEF StreamIInv
<1> QED
  BY <1>1, StreamIInvAlways, PTL
=============================================================================
