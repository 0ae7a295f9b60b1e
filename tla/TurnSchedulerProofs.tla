------------------------ MODULE TurnSchedulerProofs ------------------------
(***************************************************************************)
(* Proofs about TurnScheduler, for every set of sessions and turns, every  *)
(* assignment of turns to sessions and every limit.                        *)
(***************************************************************************)
EXTENDS TurnScheduler, SequenceTheorems, FiniteSetTheorems, WellFoundedInduction, TLAPS

(***************************************************************************)
(* The less-than relation of the naturals is contained in a well-founded   *)
(* one; stated with a bound relation, because the library names it with an *)
(* operator argument.                                                      *)
(***************************************************************************)
LEMMA LessThanWellFounded ==
    \E R : /\ IsWellFoundedOn(R, Nat)
           /\ \A x, y \in Nat : x < y => <<x, y>> \in R
<1>1. \A x, y \in Nat : x < y => <<x, y>> \in OpToRel(<, Nat)
  BY DEF OpToRel
<1> QED
  BY <1>1, NatLessThanWellFounded, Zenon

(***************************************************************************)
(* FirstOf returns the least element of a non-empty set of indexes.        *)
(***************************************************************************)
LEMMA FirstOfIsLeast ==
    ASSUME NEW S \in SUBSET Nat, S # {}
    PROVE  FirstOf(S) \in S /\ \A j \in S : FirstOf(S) <= j
<1>1. PICK R : /\ IsWellFoundedOn(R, Nat)
               /\ \A x, y \in Nat : x < y => <<x, y>> \in R
  BY LessThanWellFounded
<1>2. S \subseteq Nat
  OBVIOUS
<1>3. PICK x \in S : \A y \in S : ~(<<y, x>> \in R)
  <2>1. IsWellFoundedOn(R, Nat)
    BY <1>1
  <2>2. S # {}
    OBVIOUS
  <2> HIDE <1>1
  <2> QED
    BY <2>1, <2>2, <1>2, WFMin
<1>4. \A y \in S : ~(y < x)
  BY <1>1, <1>2, <1>3, Zenon
<1>5. \A y \in S : x <= y
  BY <1>2, <1>4
<1> QED
  BY <1>5, Zenon DEF FirstOf

(***************************************************************************)
(* Removing the entry at index i from a queue.                             *)
(***************************************************************************)
LEMMA WithoutProperties ==
    ASSUME NEW T, NEW q \in Seq(T), NEW i \in 1..Len(q)
    PROVE  /\ Without(q, i) \in Seq(T)
           /\ Len(Without(q, i)) = Len(q) - 1
           /\ \A j \in 1..(Len(q) - 1) :
                Without(q, i)[j] = IF j < i THEN q[j] ELSE q[j + 1]
<1>1. Len(q) \in Nat /\ Len(q) - 1 \in Nat
  OBVIOUS
<1>2. \A j \in 1..(Len(q) - 1) : (IF j < i THEN q[j] ELSE q[j + 1]) \in T
  <2> TAKE j \in 1..(Len(q) - 1)
  <2>1. j \in 1..Len(q) /\ j + 1 \in 1..Len(q)
    BY <1>1
  <2> QED
    BY <2>1
<1> QED
  BY <1>1, <1>2, IsASeq DEF Without

(***************************************************************************)
(* The two outcomes of dispatchLocked: an entry that was runnable has been *)
(* started, or nothing has changed because no permit or no runnable entry  *)
(* was left.                                                               *)
(***************************************************************************)
Started(q, run, act, i) ==
    /\ run < MaxRunning
    /\ i \in 1..Len(q)
    /\ Runnable(q, act, i)
    /\ pending' = Without(q, i)
    /\ granted' = [granted EXCEPT ![q[i]] = TRUE]
    /\ running' = run + 1
    /\ active' = [act EXCEPT ![SessionOf[q[i]]] = q[i]]
    /\ lastStart' = SessionOf[q[i]]

NothingStarted(q, run, act) ==
    /\ run < MaxRunning => RunnableIn(q, act) = {}
    /\ pending' = q
    /\ granted' = granted
    /\ running' = run
    /\ active' = act
    /\ lastStart' = lastStart

\* dispatchLocked starts one runnable entry or changes nothing.
LEMMA DispatchOutcomes ==
    ASSUME NEW q, Len(q) \in Nat, NEW run, NEW act, DispatchLocked(q, run, act)
    PROVE  NothingStarted(q, run, act) \/ \E i : Started(q, run, act, i)
<1> DEFINE R == RunnableIn(q, act)
           others == {i \in R : SessionOf[q[i]] # lastStart}
           i0 == NextRunnable(q, act)
<1>1. CASE run < MaxRunning /\ R # {}
  <2>1. R \in SUBSET Nat /\ others \in SUBSET Nat
    BY DEF RunnableIn
  <2>2. i0 \in R
    BY <1>1, <2>1, FirstOfIsLeast, Zenon DEF NextRunnable
  <2>3. i0 \in 1..Len(q) /\ Runnable(q, act, i0)
    BY <2>2 DEF RunnableIn
  <2>4. Started(q, run, act, i0)
    BY <1>1, <2>3, Zenon DEF DispatchLocked, Started
  <2> QED
    BY <2>4
<1>2. CASE ~(run < MaxRunning /\ R # {})
  BY <1>2, Zenon DEF DispatchLocked, NothingStarted
<1> QED
  BY <1>1, <1>2

-----------------------------------------------------------------------------
(* Type correctness.                                                       *)

\* dispatchLocked keeps the types of what it writes.
LEMMA DispatchTypes ==
    ASSUME TypeOK, NEW q \in Seq(Turns), NEW run \in Int,
           NEW act \in [Sessions -> Turns \cup {NoTurn}],
           DispatchLocked(q, run, act)
    PROVE  /\ pending' \in Seq(Turns)
           /\ running' \in Int
           /\ active' \in [Sessions -> Turns \cup {NoTurn}]
           /\ lastStart' \in Sessions \cup {NoSession}
           /\ granted' \in [Turns -> BOOLEAN]
<1>1. Len(q) \in Nat
  OBVIOUS
<1>2. CASE NothingStarted(q, run, act)
  BY <1>2 DEF NothingStarted, TypeOK
<1>3. ASSUME NEW i, Started(q, run, act, i)
      PROVE  /\ pending' \in Seq(Turns)
             /\ running' \in Int
             /\ active' \in [Sessions -> Turns \cup {NoTurn}]
             /\ lastStart' \in Sessions \cup {NoSession}
             /\ granted' \in [Turns -> BOOLEAN]
  <2>1. i \in 1..Len(q) /\ q[i] \in Turns
    BY <1>3 DEF Started
  <2>2. SessionOf[q[i]] \in Sessions
    BY <2>1, SchedulerAssumption
  <2>3. Without(q, i) \in Seq(Turns)
    BY <2>1, WithoutProperties
  <2> QED
    BY <1>3, <2>1, <2>2, <2>3 DEF Started, TypeOK
<1> QED
  BY <1>1, <1>2, <1>3, DispatchOutcomes

\* removePendingLocked leaves a queue of turns.
LEMMA RemovePendingType ==
    ASSUME TypeOK, NEW t
    PROVE  RemovePending(t) \in Seq(Turns)
<1>1. CASE Positions(pending, t) = {}
  BY <1>1 DEF RemovePending, TypeOK
<1>2. CASE Positions(pending, t) # {}
  <2>1. Positions(pending, t) \in SUBSET Nat
    BY DEF Positions
  <2>2. FirstOf(Positions(pending, t)) \in 1..Len(pending)
    BY <1>2, <2>1, FirstOfIsLeast DEF Positions
  <2> QED
    BY <1>2, <2>2, WithoutProperties DEF RemovePending, TypeOK
<1> QED
  BY <1>1, <1>2

\* releaseLocked keeps the types of what it writes.
LEMMA ReleaseLockedTypes ==
    ASSUME TypeOK, NEW t \in Turns, ReleaseLocked(t)
    PROVE  /\ pending' \in Seq(Turns)
           /\ running' \in Int
           /\ active' \in [Sessions -> Turns \cup {NoTurn}]
           /\ lastStart' \in Sessions \cup {NoSession}
           /\ granted' \in [Turns -> BOOLEAN]
           /\ released' \in [Turns -> BOOLEAN]
<1>1. CASE granted[t] /\ ~released[t]
  <2>1. [active EXCEPT ![SessionOf[t]] = NoTurn]
            \in [Sessions -> Turns \cup {NoTurn}]
    BY DEF TypeOK
  <2>2. pending \in Seq(Turns) /\ running - 1 \in Int
    BY DEF TypeOK
  <2>3. DispatchLocked(pending, running - 1,
                       [active EXCEPT ![SessionOf[t]] = NoTurn])
    BY <1>1 DEF ReleaseLocked
  <2>4. released' \in [Turns -> BOOLEAN]
    BY <1>1 DEF ReleaseLocked, TypeOK
  <2> QED
    BY <2>1, <2>2, <2>3, <2>4, DispatchTypes
<1>2. CASE ~(granted[t] /\ ~released[t])
  BY <1>2 DEF ReleaseLocked, TypeOK, schedVars
<1> QED
  BY <1>1, <1>2

\* The type invariant is inductive: one case per action.
LEMMA TypeOKStep == TypeOK /\ [Next]_vars => TypeOK'
<1> SUFFICES ASSUME TypeOK, [Next]_vars
             PROVE  TypeOK'
  OBVIOUS
<1> USE DEF TypeOK, CallerStates, Errors
<1>1. ASSUME NEW t \in Turns, Acquire(t)
      PROVE  TypeOK'
  <2>1. Append(pending, t) \in Seq(Turns)
    OBVIOUS
  <2>2. DispatchLocked(Append(pending, t), running, active)
    BY <1>1 DEF Acquire
  <2> HIDE DEF TypeOK
  <2>3. /\ pending' \in Seq(Turns)
        /\ running' \in Int
        /\ active' \in [Sessions -> Turns \cup {NoTurn}]
        /\ lastStart' \in Sessions \cup {NoSession}
        /\ granted' \in [Turns -> BOOLEAN]
    <3>1. running \in Int /\ active \in [Sessions -> Turns \cup {NoTurn}]
      BY DEF TypeOK
    <3> QED
      BY <2>1, <2>2, <3>1, DispatchTypes
  <2> QED
    BY <1>1, <2>3 DEF Acquire, TypeOK
<1>2. ASSUME NEW t \in Turns, AcquireRejected(t)
      PROVE  TypeOK'
  BY <1>2 DEF AcquireRejected, schedVars, turnVars
<1>3. ASSUME NEW t \in Turns, TakeReady(t)
      PROVE  TypeOK'
  BY <1>3 DEF TakeReady, schedVars, turnVars
<1>4. ASSUME NEW t \in Turns, TakeCtxDone(t)
      PROVE  TypeOK'
  <2>1. /\ pending' \in Seq(Turns)
        /\ running' \in Int
        /\ active' \in [Sessions -> Turns \cup {NoTurn}]
        /\ lastStart' \in Sessions \cup {NoSession}
        /\ granted' \in [Turns -> BOOLEAN]
        /\ released' \in [Turns -> BOOLEAN]
    <3> HIDE DEF TypeOK
    <3>1. CASE granted[t]
      BY <1>4, <3>1, ReleaseLockedTypes DEF TakeCtxDone
    <3>2. CASE ~granted[t]
      <4>1. /\ DispatchLocked(RemovePending(t), running, active)
            /\ released' = released
        BY <1>4, <3>2 DEF TakeCtxDone
      <4>2. running \in Int /\ active \in [Sessions -> Turns \cup {NoTurn}]
        BY DEF TypeOK
      <4>3. released' \in [Turns -> BOOLEAN]
        BY <4>1 DEF TypeOK
      <4> QED
        BY <4>1, <4>2, <4>3, RemovePendingType, DispatchTypes
    <3> QED
      BY <3>1, <3>2
  <2> QED
    BY <1>4, <2>1 DEF TakeCtxDone
<1>5. ASSUME NEW t \in Turns, Release(t)
      PROVE  TypeOK'
  <2> HIDE DEF TypeOK
  <2>1. ReleaseLocked(t)
    BY <1>5 DEF Release
  <2> QED
    BY <1>5, <2>1, ReleaseLockedTypes DEF Release, TypeOK
<1>6. ASSUME NEW t \in Turns, CancelContext(t)
      PROVE  TypeOK'
  BY <1>6 DEF CancelContext, schedVars, turnVars
<1>7. ASSUME NEW t \in Turns, NewRequest(t)
      PROVE  TypeOK'
  BY <1>7 DEF NewRequest, schedVars
<1>8. ASSUME NEW s \in Sessions, NEW id \in Turns \cup {NoTurn},
             CancelTurn(s, id)
      PROVE  TypeOK'
  <2> DEFINE matching == {i \in 1..Len(pending) :
                             /\ SessionOf[pending[i]] = s
                             /\ id \in {NoTurn, pending[i]}}
             i == FirstOf(matching)
  <2>1. matching \in SUBSET Nat /\ matching # {}
    BY <1>8 DEF CancelTurn
  <2>2. i \in 1..Len(pending)
    <3>1. i \in matching
      BY <2>1, FirstOfIsLeast
    <3> QED
      BY <3>1
  <2>3. Without(pending, i) \in Seq(Turns)
    BY <2>2, WithoutProperties
  <2>4. DispatchLocked(Without(pending, i), running, active)
    BY <1>8 DEF CancelTurn
  <2>5. err' \in [Turns -> Errors]
    BY <1>8 DEF CancelTurn
  <2> HIDE DEF TypeOK, i
  <2>6. running \in Int /\ active \in [Sessions -> Turns \cup {NoTurn}]
    BY DEF TypeOK
  <2>7. /\ pending' \in Seq(Turns)
        /\ running' \in Int
        /\ active' \in [Sessions -> Turns \cup {NoTurn}]
        /\ lastStart' \in Sessions \cup {NoSession}
        /\ granted' \in [Turns -> BOOLEAN]
    BY <2>3, <2>4, <2>6, DispatchTypes
  <2> QED
    BY <1>8, <2>5, <2>7 DEF CancelTurn, TypeOK
<1>9. ASSUME NEW s \in Sessions, ReleaseRunning(s)
      PROVE  TypeOK'
  <2>1. [active EXCEPT ![s] = NoTurn] \in [Sessions -> Turns \cup {NoTurn}]
    OBVIOUS
  <2>2. pending \in Seq(Turns) /\ running - 1 \in Int
    OBVIOUS
  <2>3. DispatchLocked(pending, running - 1, [active EXCEPT ![s] = NoTurn])
    BY <1>9 DEF ReleaseRunning
  <2>4. released' \in [Turns -> BOOLEAN]
    BY <1>9 DEF ReleaseRunning
  <2> HIDE DEF TypeOK
  <2> QED
    BY <1>9, <2>1, <2>2, <2>3, <2>4, DispatchTypes DEF ReleaseRunning, TypeOK
<1>10. ASSUME Shutdown
       PROVE  TypeOK'
  BY <1>10 DEF Shutdown
<1>11. CASE UNCHANGED vars
  BY <1>11 DEF vars, schedVars, turnVars
<1> QED
  BY <1>1, <1>2, <1>3, <1>4, <1>5, <1>6, <1>7, <1>8, <1>9, <1>10, <1>11
     DEF Next

\* The scheduler starts well typed.
LEMMA InitTypeOK == Init => TypeOK
<1> SUFFICES ASSUME Init PROVE TypeOK
  OBVIOUS
<1>1. pending \in Seq(Turns)
  BY DEF Init
<1>2. /\ shutdown \in BOOLEAN
      /\ granted \in [Turns -> BOOLEAN]
      /\ released \in [Turns -> BOOLEAN]
      /\ ctxDone \in [Turns -> BOOLEAN]
  BY Zenon DEF Init
<1>3. /\ running \in Int
      /\ lastStart \in Sessions \cup {NoSession}
      /\ active \in [Sessions -> Turns \cup {NoTurn}]
      /\ err \in [Turns -> Errors]
      /\ caller \in [Turns -> CallerStates]
  BY DEF Init, Errors, CallerStates
<1> QED
  BY <1>1, <1>2, <1>3 DEF TypeOK

(***************************************************************************)
(* Every reachable state of the scheduler is well typed: in particular     *)
(* dispatchLocked always finds the entry it starts, and the maps only ever *)
(* name queued turns and their sessions.                                   *)
(***************************************************************************)
THEOREM TypeCorrect == Spec => []TypeOK
  BY InitTypeOK, TypeOKStep, PTL DEF Spec

-----------------------------------------------------------------------------
(***************************************************************************)
(* The safety properties of TurnScheduler.                                 *)
(*                                                                         *)
(* The inductive invariant is a conjunction of relations between the       *)
(* queue, the map of running sessions and the fields of the turns.  Most   *)
(* actions establish these relations for the arguments with which they     *)
(* enter dispatchLocked, and DispatchKeeps says that dispatchLocked keeps  *)
(* them.                                                                   *)
(***************************************************************************)
InQueue(q, t) == \E i \in 1..Len(q) : q[i] = t

\* Who holds a permit: the turns the map names, each under its own session.
Owned(act, g, rel) ==
    /\ \A t \in Turns : (g[t] /\ ~rel[t]) <=> act[SessionOf[t]] = t
    /\ \A s \in Sessions : act[s] # NoTurn => SessionOf[act[s]] = s
    /\ \A t \in Turns : rel[t] => g[t]

\* Who is queued: the callers that wait and have not been woken, each once.
Waiting(q, g, c, e) ==
    /\ \A i, j \in 1..Len(q) : q[i] = q[j] => i = j
    /\ \A t \in Turns : InQueue(q, t) <=>
                          (c[t] = "waiting" /\ ~g[t] /\ e[t] = "nil")

\* What a caller may believe about its turn.
Told(g, rel, c, e) ==
    \A t \in Turns :
       /\ e[t] # "nil" => ~g[t]
       /\ c[t] = "holding" => g[t]
       /\ c[t] \in {"idle", "failed", "done"} => ~(g[t] /\ ~rel[t])
       /\ c[t] = "idle" => ~g[t] /\ e[t] = "nil"

\* The permit counter.
BusyIn(act) == {s \in Sessions : act[s] # NoTurn}
Counted(run, act) == run = Cardinality(BusyIn(act)) /\ run <= MaxRunning

\* With a permit free, every queued turn waits for its own session.
Stalled(q, run, act) ==
    run < MaxRunning => \A i \in 1..Len(q) : act[SessionOf[q[i]]] # NoTurn

\* One started turn will do: all that could start belongs to one session.
NearlyStalled(q, run, act) ==
    run + 1 < MaxRunning =>
       \E s \in Sessions : \A i \in 1..Len(q) :
          act[SessionOf[q[i]]] = NoTurn => SessionOf[q[i]] = s

(***************************************************************************)
(* The inductive invariant of the scheduler.                               *)
(***************************************************************************)
SafetyInv ==
    /\ TypeOK
    /\ Owned(active, granted, released)
    /\ Waiting(pending, granted, caller, err)
    /\ Told(granted, released, caller, err)
    /\ Counted(running, active)
    /\ Stalled(pending, running, active)

-----------------------------------------------------------------------------
(* Queues.                                                                 *)

(***************************************************************************)
(* Without(q, i) has lost the entry at i and nothing else.                 *)
(***************************************************************************)
LEMMA WithoutEntries ==
    ASSUME NEW q \in Seq(Turns), NEW i \in 1..Len(q),
           \A j, k \in 1..Len(q) : q[j] = q[k] => j = k
    PROVE  /\ \A j, k \in 1..Len(Without(q, i)) :
                Without(q, i)[j] = Without(q, i)[k] => j = k
           /\ \A t \in Turns :
                InQueue(Without(q, i), t) <=> InQueue(q, t) /\ t # q[i]
<1> DEFINE w == Without(q, i)
<1>1. /\ w \in Seq(Turns)
      /\ Len(w) = Len(q) - 1
      /\ \A j \in 1..(Len(q) - 1) : w[j] = IF j < i THEN q[j] ELSE q[j + 1]
  BY WithoutProperties
<1>2. Len(q) \in Nat /\ i \in Nat /\ i <= Len(q)
  OBVIOUS
<1> HIDE DEF w
<1>3. \A j, k \in 1..Len(w) : w[j] = w[k] => j = k
  <2> SUFFICES ASSUME NEW j \in 1..Len(w), NEW k \in 1..Len(w), w[j] = w[k]
               PROVE  j = k
    OBVIOUS
  <2> DEFINE a == IF j < i THEN j ELSE j + 1
             b == IF k < i THEN k ELSE k + 1
  <2>1. a \in 1..Len(q) /\ b \in 1..Len(q)
    BY <1>1, <1>2
  <2>2. w[j] = q[a] /\ w[k] = q[b]
    BY <1>1, <1>2
  <2>3. a = b
    BY <2>1, <2>2
  <2> QED
    BY <2>3, <1>1, <1>2
<1>4. ASSUME NEW t \in Turns, InQueue(w, t)
      PROVE  InQueue(q, t) /\ t # q[i]
  <2>1. PICK j \in 1..Len(w) : w[j] = t
    BY <1>4 DEF InQueue
  <2> DEFINE a == IF j < i THEN j ELSE j + 1
  <2>2. a \in 1..Len(q) /\ a # i
    BY <1>1, <1>2
  <2>3. q[a] = t
    BY <1>1, <1>2, <2>1
  <2> HIDE DEF a
  <2> QED
    BY <2>2, <2>3 DEF InQueue
<1>5. ASSUME NEW t \in Turns, InQueue(q, t), t # q[i]
      PROVE  InQueue(w, t)
  <2>1. PICK j \in 1..Len(q) : q[j] = t
    BY <1>5 DEF InQueue
  <2>2. j # i
    BY <1>5, <2>1
  <2> DEFINE a == IF j < i THEN j ELSE j - 1
  <2>3. a \in 1..Len(w) /\ w[a] = t
    BY <1>1, <1>2, <2>1, <2>2
  <2> HIDE DEF a
  <2> QED
    BY <2>3 DEF InQueue
<1> QED
  BY <1>3, <1>4, <1>5 DEF w

(***************************************************************************)
(* Appending a turn that is not queued.                                    *)
(***************************************************************************)
LEMMA AppendEntries ==
    ASSUME NEW q \in Seq(Turns), NEW t \in Turns, ~InQueue(q, t),
           \A j, k \in 1..Len(q) : q[j] = q[k] => j = k
    PROVE  /\ Append(q, t) \in Seq(Turns)
           /\ \A j, k \in 1..Len(Append(q, t)) :
                Append(q, t)[j] = Append(q, t)[k] => j = k
           /\ \A u \in Turns :
                InQueue(Append(q, t), u) <=> InQueue(q, u) \/ u = t
<1> DEFINE w == Append(q, t)
<1>1. /\ w \in Seq(Turns)
      /\ Len(w) = Len(q) + 1
      /\ \A j \in 1..Len(q) : w[j] = q[j]
      /\ w[Len(q) + 1] = t
      /\ Len(q) \in Nat
  OBVIOUS
<1> HIDE DEF w
<1>2. \A j, k \in 1..Len(w) : w[j] = w[k] => j = k
  BY <1>1 DEF InQueue
<1>3. \A u \in Turns : InQueue(w, u) <=> InQueue(q, u) \/ u = t
  BY <1>1 DEF InQueue
<1> QED
  BY <1>1, <1>2, <1>3 DEF w

-----------------------------------------------------------------------------
(* dispatchLocked keeps the relations.                                     *)

(***************************************************************************)
(* A started entry was queued, and its session was not running.            *)
(***************************************************************************)
LEMMA StartedEntry ==
    ASSUME NEW q \in Seq(Turns), NEW run, NEW act, NEW i, Started(q, run, act, i)
    PROVE  /\ i \in 1..Len(q)
           /\ q[i] \in Turns
           /\ SessionOf[q[i]] \in Sessions
           /\ act[SessionOf[q[i]]] = NoTurn
           /\ InQueue(q, q[i])
<1>1. i \in 1..Len(q) /\ act[SessionOf[q[i]]] = NoTurn
  BY DEF Started, Runnable
<1>2. q[i] \in Turns
  BY <1>1
<1> QED
  BY <1>1, <1>2, SchedulerAssumption DEF InQueue

\* A started entry gets the permit and the place of its session.
LEMMA DispatchGrants ==
    ASSUME TypeOK, NEW q \in Seq(Turns), NEW run,
           NEW act \in [Sessions -> Turns \cup {NoTurn}], NEW i,
           Started(q, run, act, i)
    PROVE  /\ \A t \in Turns : granted'[t] <=> (granted[t] \/ t = q[i])
           /\ \A s \in Sessions :
                active'[s] = IF s = SessionOf[q[i]] THEN q[i] ELSE act[s]
<1>1. q[i] \in Turns /\ SessionOf[q[i]] \in Sessions
  BY StartedEntry
<1>2. \A t \in Turns : granted'[t] <=> (granted[t] \/ t = q[i])
  <2>1. granted' = [granted EXCEPT ![q[i]] = TRUE]
    BY DEF Started
  <2>2. DOMAIN granted = Turns
    BY DEF TypeOK
  <2> QED
    BY <2>1, <2>2, Zenon
<1>3. \A s \in Sessions :
         active'[s] = IF s = SessionOf[q[i]] THEN q[i] ELSE act[s]
  BY <1>1 DEF Started
<1> QED
  BY <1>2, <1>3

\* dispatchLocked keeps the map naming the permit holders.
LEMMA DispatchOwned ==
    ASSUME TypeOK, NEW q \in Seq(Turns), NEW run,
           NEW act \in [Sessions -> Turns \cup {NoTurn}],
           NEW rel, NEW c, NEW e,
           Owned(act, granted, rel), Waiting(q, granted, c, e),
           DispatchLocked(q, run, act)
    PROVE  Owned(active', granted', rel)
<1>1. CASE NothingStarted(q, run, act)
  BY <1>1 DEF NothingStarted
<1>2. ASSUME NEW i, Started(q, run, act, i)
      PROVE  Owned(active', granted', rel)
  <2> DEFINE w == q[i]
  <2>1. /\ w \in Turns /\ SessionOf[w] \in Sessions
        /\ act[SessionOf[w]] = NoTurn /\ InQueue(q, w)
    BY <1>2, StartedEntry
  <2>2. /\ \A t \in Turns : granted'[t] <=> (granted[t] \/ t = w)
        /\ \A s \in Sessions : active'[s] = IF s = SessionOf[w] THEN w ELSE act[s]
    BY <1>2, DispatchGrants
  <2> HIDE DEF w
  <2>3. ~granted[w] /\ ~rel[w]
    BY <2>1 DEF Waiting, Owned
  <2>4. ASSUME NEW t \in Turns
        PROVE  (granted'[t] /\ ~rel[t]) <=> active'[SessionOf[t]] = t
    <3>1. SessionOf[t] \in Sessions /\ t # NoTurn
      BY SchedulerAssumption
    <3>2. (granted[t] /\ ~rel[t]) <=> act[SessionOf[t]] = t
      BY DEF Owned
    <3> QED
      BY <2>1, <2>2, <2>3, <3>1, <3>2
  <2>5. \A s \in Sessions : active'[s] # NoTurn => SessionOf[active'[s]] = s
    BY <2>2 DEF Owned
  <2>6. \A t \in Turns : rel[t] => granted'[t]
    BY <2>2 DEF Owned
  <2> QED
    BY <2>4, <2>5, <2>6 DEF Owned
<1> QED
  BY <1>1, <1>2, DispatchOutcomes

\* dispatchLocked takes out of the queue exactly the turn it wakes.
LEMMA DispatchWaiting ==
    ASSUME TypeOK, NEW q \in Seq(Turns), NEW run,
           NEW act \in [Sessions -> Turns \cup {NoTurn}], NEW c, NEW e,
           Waiting(q, granted, c, e), DispatchLocked(q, run, act)
    PROVE  Waiting(pending', granted', c, e)
<1>1. CASE NothingStarted(q, run, act)
  BY <1>1 DEF NothingStarted
<1>2. ASSUME NEW i, Started(q, run, act, i)
      PROVE  Waiting(pending', granted', c, e)
  <2>1. i \in 1..Len(q) /\ q[i] \in Turns
    BY <1>2, StartedEntry
  <2>2. \A t \in Turns : granted'[t] <=> (granted[t] \/ t = q[i])
    BY <1>2, DispatchGrants
  <2>3. pending' = Without(q, i)
    BY <1>2 DEF Started
  <2>4. /\ \A j, k \in 1..Len(pending') : pending'[j] = pending'[k] => j = k
        /\ \A t \in Turns : InQueue(pending', t) <=> InQueue(q, t) /\ t # q[i]
    <3>1. \A j, k \in 1..Len(q) : q[j] = q[k] => j = k
      BY DEF Waiting
    <3> QED
      BY <2>1, <2>3, <3>1, WithoutEntries
  <2>5. \A t \in Turns : InQueue(q, t) <=>
                            (c[t] = "waiting" /\ ~granted[t] /\ e[t] = "nil")
    BY DEF Waiting
  <2>6. \A t \in Turns : InQueue(pending', t) <=>
                            (c[t] = "waiting" /\ ~granted'[t] /\ e[t] = "nil")
    BY <2>2, <2>4, <2>5
  <2> QED
    BY <2>4, <2>6 DEF Waiting
<1> QED
  BY <1>1, <1>2, DispatchOutcomes

\* dispatchLocked grants only a turn whose caller waits without error.
LEMMA DispatchTold ==
    ASSUME TypeOK, NEW q \in Seq(Turns), NEW run,
           NEW act \in [Sessions -> Turns \cup {NoTurn}],
           NEW rel, NEW c, NEW e,
           Waiting(q, granted, c, e), Told(granted, rel, c, e),
           DispatchLocked(q, run, act)
    PROVE  Told(granted', rel, c, e)
<1>1. CASE NothingStarted(q, run, act)
  BY <1>1 DEF NothingStarted
<1>2. ASSUME NEW i, Started(q, run, act, i)
      PROVE  Told(granted', rel, c, e)
  <2> DEFINE w == q[i]
  <2>1. w \in Turns /\ InQueue(q, w)
    BY <1>2, StartedEntry
  <2>2. \A t \in Turns : granted'[t] <=> (granted[t] \/ t = w)
    BY <1>2, DispatchGrants
  <2> HIDE DEF w
  <2>3. c[w] = "waiting" /\ e[w] = "nil"
    BY <2>1 DEF Waiting
  <2> QED
    BY <2>2, <2>3 DEF Told
<1> QED
  BY <1>1, <1>2, DispatchOutcomes

(***************************************************************************)
(* The normalized limit is positive.                                       *)
(***************************************************************************)
LEMMA MaxRunningInt == MaxRunning \in Int /\ MaxRunning >= 1
  BY SchedulerAssumption DEF MaxRunning

\* Only finitely many sessions run.
LEMMA BusyFinite ==
    ASSUME NEW act
    PROVE  IsFiniteSet(BusyIn(act)) /\ Cardinality(BusyIn(act)) \in Nat
<1>1. BusyIn(act) \subseteq Sessions
  BY DEF BusyIn
<1> QED
  BY <1>1, SchedulerAssumption, FS_Subset, FS_CardinalityType

\* The counter follows the map.
LEMMA DispatchCounted ==
    ASSUME TypeOK, NEW q \in Seq(Turns), NEW run \in Int,
           NEW act \in [Sessions -> Turns \cup {NoTurn}],
           Counted(run, act), DispatchLocked(q, run, act)
    PROVE  Counted(running', active')
<1>1. CASE NothingStarted(q, run, act)
  BY <1>1 DEF NothingStarted
<1>2. ASSUME NEW i, Started(q, run, act, i)
      PROVE  Counted(running', active')
  <2> DEFINE s == SessionOf[q[i]]
  <2>1. q[i] \in Turns /\ s \in Sessions /\ act[s] = NoTurn
    BY <1>2, StartedEntry
  <2>2. \A r \in Sessions : active'[r] = IF r = s THEN q[i] ELSE act[r]
    <3>1. /\ \A t \in Turns : granted'[t] <=> (granted[t] \/ t = q[i])
          /\ \A r \in Sessions : active'[r] = IF r = s THEN q[i] ELSE act[r]
      BY <1>2, DispatchGrants
    <3> QED
      BY <3>1
  <2>3. run < MaxRunning /\ running' = run + 1
    BY <1>2 DEF Started
  <2> HIDE DEF s
  <2>4. q[i] # NoTurn
    BY <2>1, SchedulerAssumption
  <2>5. BusyIn(active') = BusyIn(act) \cup {s} /\ s \notin BusyIn(act)
    BY <2>1, <2>2, <2>4 DEF BusyIn
  <2>6. Cardinality(BusyIn(active')) = Cardinality(BusyIn(act)) + 1
    BY <2>5, BusyFinite, FS_AddElement
  <2> QED
    BY <2>3, <2>6, MaxRunningInt DEF Counted
<1> QED
  BY <1>1, <1>2, DispatchOutcomes

\* One started turn leaves nothing that could start.
LEMMA DispatchStalled ==
    ASSUME TypeOK, NEW q \in Seq(Turns), NEW run \in Int,
           NEW act \in [Sessions -> Turns \cup {NoTurn}],
           NearlyStalled(q, run, act), DispatchLocked(q, run, act)
    PROVE  Stalled(pending', running', active')
<1>1. ASSUME NothingStarted(q, run, act)
      PROVE  Stalled(pending', running', active')
  <2>1. pending' = q /\ running' = run /\ active' = act
    BY <1>1 DEF NothingStarted
  <2> SUFFICES ASSUME run < MaxRunning, NEW i \in 1..Len(q),
                      act[SessionOf[q[i]]] = NoTurn
               PROVE  FALSE
    BY <2>1 DEF Stalled
  <2>2. RunnableIn(q, act) = {}
    BY <1>1 DEF NothingStarted
  <2> DEFINE S == {j \in 1..Len(q) : SessionOf[q[j]] = SessionOf[q[i]]}
             f == FirstOf(S)
  <2>3. S \in SUBSET Nat /\ S # {}
    OBVIOUS
  <2>4. f \in S /\ \A j \in S : f <= j
    BY <2>3, FirstOfIsLeast
  <2> HIDE DEF f
  <2>5. f \in 1..Len(q) /\ SessionOf[q[f]] = SessionOf[q[i]]
    BY <2>4
  <2>6. ~hasEarlierSessionEntry(q, f)
    BY <2>4, <2>5 DEF hasEarlierSessionEntry
  <2> QED
    BY <2>2, <2>5, <2>6 DEF RunnableIn, Runnable
<1>2. ASSUME NEW i, Started(q, run, act, i)
      PROVE  Stalled(pending', running', active')
  <2> DEFINE s == SessionOf[q[i]]
  <2>1. i \in 1..Len(q) /\ q[i] \in Turns /\ s \in Sessions /\ act[s] = NoTurn
    BY <1>2, StartedEntry
  <2>2. \A r \in Sessions : active'[r] = IF r = s THEN q[i] ELSE act[r]
    <3>1. /\ \A t \in Turns : granted'[t] <=> (granted[t] \/ t = q[i])
          /\ \A r \in Sessions : active'[r] = IF r = s THEN q[i] ELSE act[r]
      BY <1>2, DispatchGrants
    <3> QED
      BY <3>1
  <2>3. running' = run + 1 /\ pending' = Without(q, i)
    BY <1>2 DEF Started
  <2>4. q[i] # NoTurn
    BY <2>1, SchedulerAssumption
  <2> SUFFICES ASSUME run + 1 < MaxRunning, NEW j \in 1..Len(pending')
               PROVE  active'[SessionOf[pending'[j]]] # NoTurn
    BY <2>3 DEF Stalled
  <2>5. PICK r \in Sessions : \A k \in 1..Len(q) :
                act[SessionOf[q[k]]] = NoTurn => SessionOf[q[k]] = r
    BY DEF NearlyStalled
  <2>6. s = r
    BY <2>1, <2>5
  <2>7. PICK k \in 1..Len(q) : pending'[j] = q[k]
    <3>1. /\ Len(pending') = Len(q) - 1
          /\ pending'[j] = IF j < i THEN q[j] ELSE q[j + 1]
      BY <2>1, <2>3, WithoutProperties
    <3>2. Len(q) \in Nat
      OBVIOUS
    <3> QED
      BY <3>1, <3>2
  <2>8. q[k] \in Turns /\ SessionOf[q[k]] \in Sessions
    BY SchedulerAssumption
  <2> QED
    BY <2>2, <2>4, <2>5, <2>6, <2>7, <2>8
<1> QED
  BY <1>1, <1>2, DispatchOutcomes

(***************************************************************************)
(* Between two critical sections nothing can start; a step that queues a   *)
(* turn of session s, or takes its permit back, lets only s start one.     *)
(***************************************************************************)
LEMMA OnlyOneSession ==
    ASSUME NEW q \in Seq(Turns), NEW run \in Int, NEW act,
           NEW q0, NEW run0 \in Int, NEW act0, NEW s \in Sessions,
           Stalled(q0, run0, act0), run0 <= run + 1,
           \A u \in Turns : InQueue(q, u) => InQueue(q0, u) \/ SessionOf[u] = s,
           \A r \in Sessions : r # s => act[r] = act0[r]
    PROVE  NearlyStalled(q, run, act)
<1> SUFFICES ASSUME run + 1 < MaxRunning, NEW i \in 1..Len(q),
                    act[SessionOf[q[i]]] = NoTurn, SessionOf[q[i]] # s
             PROVE  FALSE
  BY DEF NearlyStalled
<1>1. q[i] \in Turns /\ SessionOf[q[i]] \in Sessions /\ InQueue(q, q[i])
  BY SchedulerAssumption DEF InQueue
<1>2. PICK j \in 1..Len(q0) : q0[j] = q[i]
  BY <1>1 DEF InQueue
<1>3. run0 < MaxRunning
  BY MaxRunningInt
<1>4. act0[SessionOf[q0[j]]] # NoTurn
  BY <1>3 DEF Stalled
<1> QED
  BY <1>1, <1>2, <1>4

\* dispatchLocked carries all of the relations through.
LEMMA DispatchKeeps ==
    ASSUME TypeOK, NEW q \in Seq(Turns), NEW run \in Int,
           NEW act \in [Sessions -> Turns \cup {NoTurn}],
           NEW rel, NEW c, NEW e,
           Owned(act, granted, rel),
           Waiting(q, granted, c, e),
           Told(granted, rel, c, e),
           Counted(run, act),
           NearlyStalled(q, run, act),
           DispatchLocked(q, run, act)
    PROVE  /\ Owned(active', granted', rel)
           /\ Waiting(pending', granted', c, e)
           /\ Told(granted', rel, c, e)
           /\ Counted(running', active')
           /\ Stalled(pending', running', active')
<1>1. Owned(active', granted', rel)
  BY DispatchOwned
<1>2. Waiting(pending', granted', c, e)
  BY DispatchWaiting
<1>3. Told(granted', rel, c, e)
  BY DispatchTold
<1>4. Counted(running', active')
  BY DispatchCounted
<1>5. Stalled(pending', running', active')
  BY DispatchStalled
<1> QED
  BY <1>1, <1>2, <1>3, <1>4, <1>5

\* Taking back a permit, the counter follows the map.
LEMMA TakenBackCounted ==
    ASSUME NEW run \in Int, NEW act \in [Sessions -> Turns \cup {NoTurn}],
           Counted(run, act), NEW s \in Sessions, act[s] # NoTurn
    PROVE  Counted(run - 1, [act EXCEPT ![s] = NoTurn])
<1> DEFINE new == [act EXCEPT ![s] = NoTurn]
<1>1. BusyIn(new) = BusyIn(act) \ {s} /\ s \in BusyIn(act)
  BY DEF BusyIn
<1>2. Cardinality(BusyIn(new)) = Cardinality(BusyIn(act)) - 1
  BY <1>1, BusyFinite, FS_RemoveElement
<1> QED
  BY <1>2, MaxRunningInt DEF Counted

(***************************************************************************)
(* A permit is taken back and the queue dispatched, by release, by a       *)
(* cancelled wait or by ReleaseRunning.                                    *)
(***************************************************************************)
LEMMA TakeBackKeeps ==
    ASSUME SafetyInv, NEW t \in Turns, granted[t], ~released[t], NEW c,
           released' = [released EXCEPT ![t] = TRUE],
           DispatchLocked(pending, running - 1,
                          [active EXCEPT ![SessionOf[t]] = NoTurn]),
           Waiting(pending, granted, c, err),
           Told(granted, released', c, err)
    PROVE  /\ Owned(active', granted', released')
           /\ Waiting(pending', granted', c, err)
           /\ Told(granted', released', c, err)
           /\ Counted(running', active')
           /\ Stalled(pending', running', active')
<1> DEFINE s == SessionOf[t]
           act == [active EXCEPT ![s] = NoTurn]
<1>1. /\ TypeOK
      /\ Owned(active, granted, released)
      /\ Counted(running, active)
      /\ Stalled(pending, running, active)
  BY DEF SafetyInv
<1>2. /\ pending \in Seq(Turns)
      /\ running \in Int
      /\ running - 1 \in Int
      /\ active \in [Sessions -> Turns \cup {NoTurn}]
      /\ DOMAIN released = Turns
  BY <1>1 DEF TypeOK
<1>3. s \in Sessions /\ t # NoTurn
  BY SchedulerAssumption
<1>4. act \in [Sessions -> Turns \cup {NoTurn}]
  BY <1>2, <1>3
<1>5. \A r \in Sessions : act[r] = IF r = s THEN NoTurn ELSE active[r]
  BY <1>2, <1>3
<1>6. active[s] = t
  BY <1>1 DEF Owned
<1>7. \A u \in Turns : released'[u] <=> (released[u] \/ u = t)
  BY <1>2, Zenon
<1>8. DispatchLocked(pending, running - 1, act)
  OBVIOUS
<1>9. \A u \in Turns : SessionOf[u] \in Sessions /\ u # NoTurn
  BY SchedulerAssumption
<1> HIDE DEF act
<1>10. Owned(act, granted, released')
  <2>1. ASSUME NEW u \in Turns
        PROVE  (granted[u] /\ ~released'[u]) <=> act[SessionOf[u]] = u
    <3>1. (granted[u] /\ ~released[u]) <=> active[SessionOf[u]] = u
      BY <1>1 DEF Owned
    <3>2. SessionOf[u] \in Sessions /\ u # NoTurn
      BY <1>9
    <3> HIDE DEF s
    <3>3. CASE u = t
      BY <1>5, <1>3, <1>7, <3>2, <3>3 DEF s
    <3>4. CASE u # t
      <4>1. (granted[u] /\ ~released'[u]) <=> (granted[u] /\ ~released[u])
        BY <1>7, <3>4
      <4>2. act[SessionOf[u]] = u <=> active[SessionOf[u]] = u
        BY <1>5, <1>6, <3>2, <3>4
      <4> QED
        BY <3>1, <4>1, <4>2
    <3> QED
      BY <3>3, <3>4
  <2>2. \A r \in Sessions : act[r] # NoTurn => SessionOf[act[r]] = r
    BY <1>1, <1>5 DEF Owned
  <2>3. \A u \in Turns : released'[u] => granted[u]
    BY <1>1, <1>7 DEF Owned
  <2> QED
    BY <2>1, <2>2, <2>3 DEF Owned
<1>11. Counted(running - 1, act)
  BY <1>1, <1>2, <1>3, <1>6, TakenBackCounted DEF act
<1>12. NearlyStalled(pending, running - 1, act)
  <2>1. \A r \in Sessions : r # s => act[r] = active[r]
    BY <1>5
  <2>2. running <= (running - 1) + 1
    BY <1>2
  <2> HIDE DEF s
  <2> QED
    BY <1>1, <1>2, <1>3, <2>1, <2>2, OnlyOneSession
<1> QED
  BY <1>1, <1>2, <1>4, <1>8, <1>10, <1>11, <1>12, DispatchKeeps

-----------------------------------------------------------------------------
(* The actions.                                                            *)

\* The part of the invariant after a step that is not about types.
Kept == /\ Owned(active', granted', released')
        /\ Waiting(pending', granted', caller', err')
        /\ Told(granted', released', caller', err')
        /\ Counted(running', active')
        /\ Stalled(pending', running', active')

(***************************************************************************)
(* A caller leaves, giving up its permit if it still has it.               *)
(***************************************************************************)
LEMMA LeaveKeeps ==
    ASSUME SafetyInv, NEW t \in Turns, granted[t], ReleaseLocked(t),
           NEW x \in {"failed", "done"},
           caller' = [caller EXCEPT ![t] = x], err' = err
    PROVE  Kept
<1>1. /\ TypeOK
      /\ Owned(active, granted, released)
      /\ Waiting(pending, granted, caller, err)
      /\ Told(granted, released, caller, err)
      /\ Counted(running, active)
      /\ Stalled(pending, running, active)
  BY DEF SafetyInv
<1>2. \A u \in Turns : caller'[u] = IF u = t THEN x ELSE caller[u]
  BY <1>1 DEF TypeOK
<1>3. Waiting(pending, granted, caller', err)
  BY <1>1, <1>2 DEF Waiting
<1>4. CASE ~released[t]
  <2>1. /\ released' = [released EXCEPT ![t] = TRUE]
        /\ DispatchLocked(pending, running - 1,
                          [active EXCEPT ![SessionOf[t]] = NoTurn])
    BY <1>4 DEF ReleaseLocked
  <2>2. \A u \in Turns : released'[u] <=> (released[u] \/ u = t)
    <3>1. DOMAIN released = Turns
      BY <1>1 DEF TypeOK
    <3> QED
      BY <2>1, <3>1, Zenon
  <2>3. Told(granted, released', caller', err)
    BY <1>1, <1>2, <2>2 DEF Told
  <2>4. /\ Owned(active', granted', released')
        /\ Waiting(pending', granted', caller', err)
        /\ Told(granted', released', caller', err)
        /\ Counted(running', active')
        /\ Stalled(pending', running', active')
    BY <1>3, <1>4, <2>1, <2>3, TakeBackKeeps
  <2> QED
    BY <2>4 DEF Kept
<1>5. CASE released[t]
  <2>1. /\ pending' = pending /\ running' = running /\ active' = active
        /\ granted' = granted /\ released' = released
    BY <1>5 DEF ReleaseLocked, schedVars
  <2>2. Told(granted, released, caller', err)
    BY <1>1, <1>2, <1>5 DEF Told
  <2> QED
    BY <1>1, <1>3, <2>1, <2>2 DEF Kept
<1> QED
  BY <1>4, <1>5

\* A queued request and the dispatch that follows.
LEMMA AcquireKeeps ==
    ASSUME SafetyInv, NEW t \in Turns, Acquire(t)
    PROVE  Kept
<1> DEFINE q == Append(pending, t)
<1>1. /\ TypeOK
      /\ Owned(active, granted, released)
      /\ Waiting(pending, granted, caller, err)
      /\ Told(granted, released, caller, err)
      /\ Counted(running, active)
      /\ Stalled(pending, running, active)
  BY DEF SafetyInv
<1>2. /\ pending \in Seq(Turns) /\ running \in Int
      /\ active \in [Sessions -> Turns \cup {NoTurn}]
      /\ SessionOf[t] \in Sessions
  BY <1>1, SchedulerAssumption DEF TypeOK
<1>3. /\ caller[t] = "idle" /\ err' = err /\ released' = released
      /\ DispatchLocked(q, running, active)
  BY DEF Acquire
<1>4. \A u \in Turns : caller'[u] = IF u = t THEN "waiting" ELSE caller[u]
  BY <1>1 DEF Acquire, TypeOK
<1>5. ~InQueue(pending, t) /\ ~granted[t] /\ err[t] = "nil"
  BY <1>1, <1>3 DEF Waiting, Told
<1>6. /\ q \in Seq(Turns)
      /\ \A j, k \in 1..Len(q) : q[j] = q[k] => j = k
      /\ \A u \in Turns : InQueue(q, u) <=> InQueue(pending, u) \/ u = t
  <2>1. \A j, k \in 1..Len(pending) : pending[j] = pending[k] => j = k
    BY <1>1 DEF Waiting
  <2> QED
    BY <1>2, <1>5, <2>1, AppendEntries
<1> HIDE DEF q
<1>7. Waiting(q, granted, caller', err)
  BY <1>1, <1>4, <1>5, <1>6 DEF Waiting
<1>8. Told(granted, released, caller', err)
  BY <1>1, <1>4, <1>5 DEF Told
<1>9. NearlyStalled(q, running, active)
  <2>1. \A u \in Turns :
           InQueue(q, u) => InQueue(pending, u) \/ SessionOf[u] = SessionOf[t]
    BY <1>6
  <2>2. running <= running + 1
    BY <1>2
  <2> QED
    BY <1>1, <1>2, <1>6, <2>1, <2>2, OnlyOneSession
<1>10. /\ Owned(active', granted', released)
       /\ Waiting(pending', granted', caller', err)
       /\ Told(granted', released, caller', err)
       /\ Counted(running', active')
       /\ Stalled(pending', running', active')
  BY <1>1, <1>2, <1>3, <1>6, <1>7, <1>8, <1>9, DispatchKeeps
<1> QED
  BY <1>3, <1>10 DEF Kept

(***************************************************************************)
(* An entry is taken out of the queue and the queue dispatched.            *)
(***************************************************************************)
LEMMA RemoveKeeps ==
    ASSUME SafetyInv, NEW i \in 1..Len(pending), NEW c, NEW e,
           DispatchLocked(Without(pending, i), running, active),
           released' = released, caller' = c, err' = e,
           \A u \in Turns : u # pending[i] => c[u] = caller[u] /\ e[u] = err[u],
           c[pending[i]] # "waiting" \/ e[pending[i]] # "nil",
           c[pending[i]] \in {"waiting", "failed"}
    PROVE  Kept
<1> DEFINE t == pending[i]
           q == Without(pending, i)
<1>1. /\ TypeOK
      /\ Owned(active, granted, released)
      /\ Waiting(pending, granted, caller, err)
      /\ Told(granted, released, caller, err)
      /\ Counted(running, active)
      /\ Stalled(pending, running, active)
  BY DEF SafetyInv
<1>2. /\ pending \in Seq(Turns) /\ running \in Int
      /\ active \in [Sessions -> Turns \cup {NoTurn}]
  BY <1>1 DEF TypeOK
<1>3. t \in Turns /\ SessionOf[t] \in Sessions /\ InQueue(pending, t)
  <2>1. t \in Turns
    BY <1>2
  <2> QED
    BY <2>1, SchedulerAssumption DEF InQueue
<1>4. q \in Seq(Turns)
  BY <1>2, WithoutProperties
<1>5. /\ \A j, k \in 1..Len(q) : q[j] = q[k] => j = k
      /\ \A u \in Turns : InQueue(q, u) <=> InQueue(pending, u) /\ u # t
  <2>1. \A j, k \in 1..Len(pending) : pending[j] = pending[k] => j = k
    BY <1>1 DEF Waiting
  <2> QED
    BY <1>2, <2>1, WithoutEntries
<1>6. DispatchLocked(q, running, active)
  OBVIOUS
<1>7. /\ \A u \in Turns : u # t => c[u] = caller[u] /\ e[u] = err[u]
      /\ c[t] # "waiting" \/ e[t] # "nil"
      /\ c[t] \in {"waiting", "failed"}
  OBVIOUS
<1> HIDE DEF q, t
<1>8. ~granted[t]
  BY <1>1, <1>3 DEF Waiting
<1>9. Waiting(q, granted, c, e)
  BY <1>1, <1>3, <1>5, <1>7 DEF Waiting
<1>10. Told(granted, released, c, e)
  BY <1>1, <1>3, <1>7, <1>8 DEF Told
<1>11. NearlyStalled(q, running, active)
  <2>1. \A u \in Turns :
           InQueue(q, u) => InQueue(pending, u) \/ SessionOf[u] = SessionOf[t]
    BY <1>5
  <2>2. running <= running + 1
    BY <1>2
  <2> QED
    BY <1>1, <1>2, <1>3, <1>4, <2>1, <2>2, OnlyOneSession
<1>12. /\ Owned(active', granted', released)
       /\ Waiting(pending', granted', c, e)
       /\ Told(granted', released, c, e)
       /\ Counted(running', active')
       /\ Stalled(pending', running', active')
  BY <1>1, <1>2, <1>4, <1>6, <1>9, <1>10, <1>11, DispatchKeeps
<1> QED
  BY <1>12 DEF Kept

\* A cancelled wait, with or without a grant that came first.
LEMMA TakeCtxDoneKeeps ==
    ASSUME SafetyInv, NEW t \in Turns, TakeCtxDone(t)
    PROVE  Kept
<1>1. /\ TypeOK
      /\ Owned(active, granted, released)
      /\ Waiting(pending, granted, caller, err)
      /\ Told(granted, released, caller, err)
      /\ Counted(running, active)
      /\ Stalled(pending, running, active)
  BY DEF SafetyInv
<1>2. /\ caller[t] = "waiting" /\ err' = err
      /\ caller' = [caller EXCEPT ![t] = "failed"]
  BY DEF TakeCtxDone
<1>3. \A u \in Turns : caller'[u] = IF u = t THEN "failed" ELSE caller[u]
  BY <1>1, <1>2 DEF TypeOK
<1>4. CASE granted[t]
  <2>1. ReleaseLocked(t)
    BY <1>4 DEF TakeCtxDone
  <2> QED
    BY <1>2, <1>4, <2>1, LeaveKeeps
<1>5. CASE ~granted[t]
  <2> DEFINE P == Positions(pending, t)
  <2>1. DispatchLocked(RemovePending(t), running, active) /\ released' = released
    BY <1>5 DEF TakeCtxDone
  <2>2. CASE P = {}
    <3>1. RemovePending(t) = pending
      BY <2>2 DEF RemovePending
    <3>2. DispatchLocked(pending, running, active)
      BY <2>1, <3>1
    <3>3. ~InQueue(pending, t)
      BY <2>2 DEF InQueue, Positions
    <3>4. Waiting(pending, granted, caller', err)
      BY <1>1, <1>3, <3>3 DEF Waiting
    <3>5. Told(granted, released, caller', err)
      BY <1>1, <1>3, <1>5 DEF Told
    <3>6. /\ pending \in Seq(Turns) /\ running \in Int /\ running <= running + 1
          /\ active \in [Sessions -> Turns \cup {NoTurn}]
          /\ SessionOf[t] \in Sessions
      BY <1>1, SchedulerAssumption DEF TypeOK
    <3>7. NearlyStalled(pending, running, active)
      BY <1>1, <3>6, OnlyOneSession
    <3>8. /\ Owned(active', granted', released)
          /\ Waiting(pending', granted', caller', err)
          /\ Told(granted', released, caller', err)
          /\ Counted(running', active')
          /\ Stalled(pending', running', active')
      BY <1>1, <3>2, <3>4, <3>5, <3>6, <3>7, DispatchKeeps
    <3> QED
      BY <1>2, <2>1, <3>8 DEF Kept
  <2>3. CASE P # {}
    <3> DEFINE i == FirstOf(P)
    <3>1. P \in SUBSET Nat
      BY DEF Positions
    <3>2. i \in P
      BY <2>3, <3>1, FirstOfIsLeast
    <3>3. i \in 1..Len(pending) /\ pending[i] = t
      BY <3>2 DEF Positions
    <3>4. RemovePending(t) = Without(pending, i)
      BY <2>3 DEF RemovePending
    <3> HIDE DEF i, P
    <3>5. DispatchLocked(Without(pending, i), running, active)
      BY <2>1, <3>4
    <3>6. /\ \A u \in Turns : u # pending[i] =>
                caller'[u] = caller[u] /\ err'[u] = err[u]
          /\ caller'[pending[i]] = "failed"
      BY <1>2, <1>3, <3>3
    <3> QED
      BY <2>1, <3>3, <3>5, <3>6, RemoveKeeps
  <2> QED
    BY <2>2, <2>3
<1> QED
  BY <1>4, <1>5

\* A cancelled queued turn.
LEMMA CancelTurnKeeps ==
    ASSUME SafetyInv, NEW s \in Sessions, NEW id \in Turns \cup {NoTurn},
           CancelTurn(s, id)
    PROVE  Kept
<1> DEFINE matching == {i \in 1..Len(pending) :
                           /\ SessionOf[pending[i]] = s
                           /\ id \in {NoTurn, pending[i]}}
           i == FirstOf(matching)
<1>1. TypeOK /\ Waiting(pending, granted, caller, err)
  BY DEF SafetyInv
<1>2. matching \in SUBSET Nat /\ matching # {}
  BY DEF CancelTurn
<1>3. i \in 1..Len(pending)
  <2>1. i \in matching
    BY <1>2, FirstOfIsLeast
  <2> QED
    BY <2>1
<1>4. /\ err' = [err EXCEPT ![pending[i]] = "canceled"]
      /\ DispatchLocked(Without(pending, i), running, active)
      /\ released' = released /\ caller' = caller
  BY DEF CancelTurn
<1> HIDE DEF i
<1>5. pending[i] \in Turns /\ InQueue(pending, pending[i])
  BY <1>1, <1>3 DEF TypeOK, InQueue
<1>6. \A u \in Turns : err'[u] = IF u = pending[i] THEN "canceled" ELSE err[u]
  BY <1>1, <1>4 DEF TypeOK
<1>7. caller[pending[i]] = "waiting"
  BY <1>1, <1>5 DEF Waiting
<1>8. /\ \A u \in Turns : u # pending[i] =>
            caller'[u] = caller[u] /\ err'[u] = err[u]
      /\ caller'[pending[i]] # "waiting" \/ err'[pending[i]] # "nil"
      /\ caller'[pending[i]] \in {"waiting", "failed"}
  BY <1>4, <1>5, <1>6, <1>7
<1>9. /\ DispatchLocked(Without(pending, i), running, active)
      /\ released' = released
  BY <1>4
<1> QED
  BY <1>3, <1>8, <1>9, RemoveKeeps

\* A permit taken back from a running turn.
LEMMA ReleaseRunningKeeps ==
    ASSUME SafetyInv, NEW s \in Sessions, ReleaseRunning(s)
    PROVE  Kept
<1> DEFINE t == active[s]
<1>1. /\ TypeOK
      /\ Owned(active, granted, released)
      /\ Waiting(pending, granted, caller, err)
      /\ Told(granted, released, caller, err)
  BY DEF SafetyInv
<1>2. /\ t # NoTurn /\ granted[t] /\ ~released[t]
      /\ released' = [released EXCEPT ![t] = TRUE]
      /\ DispatchLocked(pending, running - 1, [active EXCEPT ![s] = NoTurn])
      /\ err' = err /\ caller' = caller
  BY DEF ReleaseRunning
<1>3. t \in Turns
  BY <1>1, <1>2 DEF TypeOK
<1>4. SessionOf[t] = s
  BY <1>1, <1>2 DEF Owned
<1> HIDE DEF t
<1>5. \A u \in Turns : released'[u] <=> (released[u] \/ u = t)
  <2>1. DOMAIN released = Turns
    BY <1>1 DEF TypeOK
  <2> QED
    BY <1>2, <2>1, Zenon
<1>6. Told(granted, released', caller, err)
  BY <1>1, <1>5 DEF Told
<1>7. DispatchLocked(pending, running - 1,
                     [active EXCEPT ![SessionOf[t]] = NoTurn])
  BY <1>2, <1>4
<1>8. /\ Owned(active', granted', released')
      /\ Waiting(pending', granted', caller, err)
      /\ Told(granted', released', caller, err)
      /\ Counted(running', active')
      /\ Stalled(pending', running', active')
  BY <1>1, <1>2, <1>3, <1>6, <1>7, TakeBackKeeps
<1> QED
  BY <1>2, <1>8 DEF Kept

\* Shutdown wakes every queued caller and empties the queue.
LEMMA ShutdownKeeps ==
    ASSUME SafetyInv, Shutdown
    PROVE  Kept
<1>1. /\ TypeOK
      /\ Owned(active, granted, released)
      /\ Waiting(pending, granted, caller, err)
      /\ Told(granted, released, caller, err)
      /\ Counted(running, active)
  BY DEF SafetyInv
<1>2. /\ pending' = <<>> /\ running' = running /\ active' = active
      /\ granted' = granted /\ released' = released /\ caller' = caller
      /\ err' = [t \in Turns |-> IF Positions(pending, t) # {} THEN "shutdown"
                                                               ELSE err[t]]
  BY DEF Shutdown
<1>3. \A t \in Turns : err'[t] = IF InQueue(pending, t) THEN "shutdown"
                                                        ELSE err[t]
  BY <1>2 DEF InQueue, Positions
<1>4. Len(pending') = 0
  BY <1>2
<1>5. Waiting(pending', granted, caller, err')
  BY <1>1, <1>3, <1>4 DEF Waiting, InQueue
<1>6. Told(granted, released, caller, err')
  BY <1>1, <1>3 DEF Told, Waiting
<1>7. Stalled(pending', running, active)
  BY <1>4 DEF Stalled
<1> QED
  BY <1>1, <1>2, <1>5, <1>6, <1>7 DEF Kept

(***************************************************************************)
(* The steps of a caller that touch no queue and no permit.                *)
(***************************************************************************)
LEMMA CallerKeeps ==
    ASSUME SafetyInv, NEW t \in Turns,
           AcquireRejected(t) \/ TakeReady(t) \/ CancelContext(t) \/ NewRequest(t)
    PROVE  Kept
<1>1. /\ TypeOK
      /\ Owned(active, granted, released)
      /\ Waiting(pending, granted, caller, err)
      /\ Told(granted, released, caller, err)
      /\ Counted(running, active)
      /\ Stalled(pending, running, active)
  BY DEF SafetyInv
<1>2. pending' = pending /\ running' = running /\ active' = active
  BY DEF AcquireRejected, TakeReady, CancelContext, NewRequest, schedVars
<1>3. DOMAIN caller = Turns /\ DOMAIN granted = Turns /\ DOMAIN released = Turns
      /\ DOMAIN err = Turns
  BY <1>1 DEF TypeOK
<1>4. CASE AcquireRejected(t)
  <2>1. /\ granted' = granted /\ released' = released /\ err' = err
        /\ caller[t] = "idle"
        /\ caller' = [caller EXCEPT ![t] = "failed"]
    BY <1>4 DEF AcquireRejected, turnVars
  <2>2. \A u \in Turns : caller'[u] = IF u = t THEN "failed" ELSE caller[u]
    BY <1>3, <2>1
  <2>3. Waiting(pending, granted, caller', err)
    BY <1>1, <2>1, <2>2 DEF Waiting
  <2>4. Told(granted, released, caller', err)
    BY <1>1, <2>1, <2>2 DEF Told
  <2> QED
    BY <1>1, <1>2, <2>1, <2>3, <2>4 DEF Kept
<1>5. CASE TakeReady(t)
  <2>1. /\ granted' = granted /\ released' = released /\ err' = err
        /\ caller[t] = "waiting" /\ (granted[t] \/ err[t] # "nil")
        /\ caller' = [caller EXCEPT ![t] = IF err[t] # "nil" THEN "failed"
                                                             ELSE "holding"]
    BY <1>5 DEF TakeReady, turnVars
  <2>2. \A u \in Turns : caller'[u] =
           IF u = t THEN (IF err[t] # "nil" THEN "failed" ELSE "holding")
                    ELSE caller[u]
    BY <1>3, <2>1
  <2>3. Waiting(pending, granted, caller', err)
    BY <1>1, <2>1, <2>2 DEF Waiting
  <2>4. Told(granted, released, caller', err)
    BY <1>1, <2>1, <2>2 DEF Told
  <2> QED
    BY <1>1, <1>2, <2>1, <2>3, <2>4 DEF Kept
<1>6. CASE CancelContext(t)
  BY <1>1, <1>2, <1>6 DEF Kept, CancelContext, turnVars
<1>7. CASE NewRequest(t)
  <2>1. /\ caller[t] \in {"failed", "done"}
        /\ granted' = [granted EXCEPT ![t] = FALSE]
        /\ released' = [released EXCEPT ![t] = FALSE]
        /\ err' = [err EXCEPT ![t] = "nil"]
        /\ caller' = [caller EXCEPT ![t] = "idle"]
    BY <1>7 DEF NewRequest
  <2>2. \A u \in Turns : /\ granted'[u] <=> granted[u] /\ u # t
                         /\ released'[u] <=> released[u] /\ u # t
    BY <1>3, <2>1, Zenon
  <2>3. \A u \in Turns : /\ err'[u] = IF u = t THEN "nil" ELSE err[u]
                         /\ caller'[u] = IF u = t THEN "idle" ELSE caller[u]
    BY <1>3, <2>1
  <2>4. ~(granted[t] /\ ~released[t])
    BY <1>1, <2>1 DEF Told
  <2>5. Owned(active, granted', released')
    BY <1>1, <2>2, <2>4 DEF Owned
  <2>6. Waiting(pending, granted', caller', err')
    BY <1>1, <2>1, <2>2, <2>3 DEF Waiting
  <2>7. Told(granted', released', caller', err')
    BY <1>1, <2>2, <2>3 DEF Told
  <2> QED
    BY <1>1, <1>2, <2>5, <2>6, <2>7 DEF Kept
<1> QED
  BY <1>4, <1>5, <1>6, <1>7

\* The end of a turn, also after its permit was taken back.
LEMMA ReleaseKeeps ==
    ASSUME SafetyInv, NEW t \in Turns, Release(t)
    PROVE  Kept
<1>1. /\ caller[t] = "holding" /\ err' = err /\ ReleaseLocked(t)
      /\ caller' = [caller EXCEPT ![t] = "done"]
  BY DEF Release
<1>2. granted[t]
  BY <1>1 DEF SafetyInv, Told
<1> QED
  BY <1>1, <1>2, LeaveKeeps

(***************************************************************************)
(* The invariant holds initially.                                          *)
(***************************************************************************)
LEMMA SafetyInvInit == Init => SafetyInv
<1> SUFFICES ASSUME Init PROVE SafetyInv
  OBVIOUS
<1>1. TypeOK
  BY InitTypeOK
<1>2. /\ \A t \in Turns : /\ ~granted[t] /\ ~released[t]
      /\ \A s \in Sessions : active[s] = NoTurn
  BY Zenon DEF Init
<1>3. \A t \in Turns : caller[t] = "idle" /\ err[t] = "nil"
  BY DEF Init
<1>4. Len(pending) = 0 /\ running = 0
  BY DEF Init
<1>5. \A t \in Turns : SessionOf[t] \in Sessions /\ t # NoTurn
  BY SchedulerAssumption
<1>6. Owned(active, granted, released)
  BY <1>2, <1>5 DEF Owned
<1>7. Waiting(pending, granted, caller, err)
  BY <1>3, <1>4 DEF Waiting, InQueue
<1>8. Told(granted, released, caller, err)
  BY <1>2, <1>3 DEF Told
<1>9. Counted(running, active)
  <2>1. BusyIn(active) = {}
    BY <1>2 DEF BusyIn
  <2> QED
    BY <1>4, <2>1, FS_EmptySet, MaxRunningInt DEF Counted
<1>10. Stalled(pending, running, active)
  BY <1>4 DEF Stalled
<1> QED
  BY <1>1, <1>6, <1>7, <1>8, <1>9, <1>10 DEF SafetyInv

\* Every step keeps the invariant: one case per action.
LEMMA SafetyInvStep == SafetyInv /\ [Next]_vars => SafetyInv'
<1> SUFFICES ASSUME SafetyInv, [Next]_vars
             PROVE  SafetyInv'
  OBVIOUS
<1>1. TypeOK'
  BY TypeOKStep DEF SafetyInv
<1>2. ASSUME NEW t \in Turns, Acquire(t)
      PROVE  Kept
  BY <1>2, AcquireKeeps
<1>3. ASSUME NEW t \in Turns,
             AcquireRejected(t) \/ TakeReady(t) \/ CancelContext(t) \/ NewRequest(t)
      PROVE  Kept
  BY <1>3, CallerKeeps
<1>4. ASSUME NEW t \in Turns, TakeCtxDone(t)
      PROVE  Kept
  BY <1>4, TakeCtxDoneKeeps
<1>5. ASSUME NEW t \in Turns, Release(t)
      PROVE  Kept
  BY <1>5, ReleaseKeeps
<1>6. ASSUME NEW s \in Sessions, NEW id \in Turns \cup {NoTurn},
             CancelTurn(s, id)
      PROVE  Kept
  BY <1>6, CancelTurnKeeps
<1>7. ASSUME NEW s \in Sessions, ReleaseRunning(s)
      PROVE  Kept
  BY <1>7, ReleaseRunningKeeps
<1>8. ASSUME Shutdown
      PROVE  Kept
  BY <1>8, ShutdownKeeps
<1>9. ASSUME UNCHANGED vars
      PROVE  Kept
  BY <1>9 DEF vars, schedVars, turnVars, Kept, SafetyInv
<1>10. Kept
  BY <1>2, <1>3, <1>4, <1>5, <1>6, <1>7, <1>8, <1>9 DEF Next
<1> QED
  BY <1>1, <1>10 DEF SafetyInv, Kept, Owned, Waiting, InQueue, Told, Counted,
                     BusyIn, Stalled

\* The invariant holds in every reachable state.
LEMMA SafetyInvariant == Spec => []SafetyInv
  BY SafetyInvInit, SafetyInvStep, PTL DEF Spec

-----------------------------------------------------------------------------
(* What the scheduler promises.                                            *)

(***************************************************************************)
(* One running turn per session within the global limit: the map of        *)
(* running sessions, the permits of the turns and the counter agree after  *)
(* every critical section, whichever of release, ReleaseRunning and a      *)
(* cancelled wait came first.                                              *)
(***************************************************************************)
THEOREM PermitsExactAlways == Spec => []PermitsExact
<1>1. SafetyInv => PermitsExact
  BY DEF SafetyInv, Owned, Counted, BusyIn, PermitsExact, HoldsPermit,
         RunningSessions
<1> QED
  BY <1>1, SafetyInvariant, PTL

(***************************************************************************)
(* No wake-up is lost: a caller blocked in Acquire is queued exactly once  *)
(* or its ready channel is closed, and no entry outlives its caller.       *)
(***************************************************************************)
THEOREM NoLostWakeupAlways == Spec => []NoLostWakeup
<1>1. SafetyInv => NoLostWakeup
  BY DEF SafetyInv, Waiting, InQueue, NoLostWakeup, Queued, Positions
<1> QED
  BY <1>1, SafetyInvariant, PTL

(***************************************************************************)
(* A caller that got an error or has released keeps no permit, and a turn  *)
(* woken with an error was never granted.                                  *)
(***************************************************************************)
THEOREM NoPermitLeakAlways == Spec => []NoPermitLeak
<1>1. SafetyInv => NoPermitLeak
  BY DEF SafetyInv, Told, NoPermitLeak, HoldsPermit
<1> QED
  BY <1>1, SafetyInvariant, PTL

(***************************************************************************)
(* One iteration of dispatchLocked is enough after every critical section: *)
(* an entry reported as waiting for global capacity waits with every       *)
(* permit in use, so no startable turn is left asleep.                     *)
(***************************************************************************)
THEOREM QueueReasonTruthfulAlways == Spec => []QueueReasonTruthful
<1>1. SafetyInv => QueueReasonTruthful
  <2> SUFFICES ASSUME SafetyInv, NEW i \in 1..Len(pending),
                      QueueReason(i) = "global_capacity"
               PROVE  running = MaxRunning
    BY DEF QueueReasonTruthful
  <2>1. active[SessionOf[pending[i]]] = NoTurn
    BY DEF QueueReason
  <2>2. ~(running < MaxRunning)
    BY <2>1 DEF SafetyInv, Stalled
  <2>3. running \in Int /\ running <= MaxRunning
    BY DEF SafetyInv, TypeOK, Counted
  <2> QED
    BY <2>2, <2>3, MaxRunningInt
<1> QED
  BY <1>1, SafetyInvariant, PTL

-----------------------------------------------------------------------------
(* First in, first out, inside a session.                                  *)

\* u stands ahead of t in q, unless one of them is not queued.
Ahead(q, u, t) ==
    \A k \in 1..Len(q) :
       q[k] = t => ~InQueue(q, u) \/ \E m \in 1..(k - 1) : q[m] = u

\* A started turn leaves behind no turn of its session that was ahead.
LEMMA DispatchOrder ==
    ASSUME TypeOK, NEW q \in Seq(Turns), NEW run,
           NEW act \in [Sessions -> Turns \cup {NoTurn}],
           \A j, k \in 1..Len(q) : q[j] = q[k] => j = k,
           DispatchLocked(q, run, act),
           NEW t \in Turns, NEW u \in Turns, ~granted[t], granted'[t],
           SessionOf[u] = SessionOf[t], Ahead(q, u, t)
    PROVE  ~InQueue(pending', u)
<1>1. ~NothingStarted(q, run, act)
  BY DEF NothingStarted
<1>2. PICK k : Started(q, run, act, k)
  BY <1>1, DispatchOutcomes
<1>3. k \in 1..Len(q) /\ q[k] \in Turns
  BY <1>2, StartedEntry
<1>4. t = q[k]
  <2>1. /\ \A x \in Turns : granted'[x] <=> (granted[x] \/ x = q[k])
        /\ \A s \in Sessions :
              active'[s] = IF s = SessionOf[q[k]] THEN q[k] ELSE act[s]
    BY <1>2, DispatchGrants
  <2> QED
    BY <2>1
<1>5. ~\E m \in 1..(k - 1) : SessionOf[q[m]] = SessionOf[q[k]]
  BY <1>2 DEF Started, Runnable, hasEarlierSessionEntry
<1>6. ~InQueue(q, u)
  BY <1>3, <1>4, <1>5 DEF Ahead
<1>7. pending' = Without(q, k)
  BY <1>2 DEF Started
<1> QED
  BY <1>3, <1>6, <1>7, WithoutEntries

\* A request that is appended changes nobody's order.
LEMMA AheadInAppend ==
    ASSUME NEW q \in Seq(Turns), NEW x \in Turns, NEW u, NEW t,
           NEW i \in 1..Len(q), q[i] = u, \A j \in Positions(q, t) : i < j
    PROVE  Ahead(Append(q, x), u, t)
<1> DEFINE w == Append(q, x)
<1>1. /\ Len(w) = Len(q) + 1
      /\ \A j \in 1..Len(q) : w[j] = q[j]
      /\ Len(q) \in Nat
  OBVIOUS
<1> HIDE DEF w
<1> SUFFICES ASSUME NEW k \in 1..Len(w), w[k] = t
             PROVE  i \in 1..(k - 1) /\ w[i] = u
  BY DEF Ahead, w
<1>2. CASE k \in 1..Len(q)
  BY <1>1, <1>2 DEF Positions
<1>3. CASE k = Len(q) + 1
  BY <1>1, <1>3
<1> QED
  BY <1>1, <1>2, <1>3

\* A removal changes nobody's order.
LEMMA AheadInWithout ==
    ASSUME NEW q \in Seq(Turns), NEW p \in 1..Len(q),
           \A j, k \in 1..Len(q) : q[j] = q[k] => j = k,
           NEW u \in Turns, NEW t,
           NEW i \in 1..Len(q), q[i] = u, \A j \in Positions(q, t) : i < j
    PROVE  Ahead(Without(q, p), u, t)
<1> DEFINE w == Without(q, p)
<1>1. /\ Len(w) = Len(q) - 1
      /\ \A j \in 1..(Len(q) - 1) : w[j] = IF j < p THEN q[j] ELSE q[j + 1]
  BY WithoutProperties
<1>2. InQueue(w, u) => u # q[p]
  BY WithoutEntries
<1>3. Len(q) \in Nat
  OBVIOUS
<1> HIDE DEF w
<1> SUFFICES ASSUME NEW k \in 1..Len(w), w[k] = t, InQueue(w, u)
             PROVE  \E m \in 1..(k - 1) : w[m] = u
  BY DEF Ahead, w
<1>4. i # p
  BY <1>2
<1> DEFINE m == IF i < p THEN i ELSE i - 1
           j == IF k < p THEN k ELSE k + 1
<1>5. j \in 1..Len(q) /\ q[j] = t
  BY <1>1, <1>3
<1>6. i < j
  BY <1>5 DEF Positions
<1>7. m \in 1..(k - 1)
  BY <1>1, <1>3, <1>4, <1>6
<1>8. w[m] = u
  BY <1>1, <1>3, <1>4, <1>7
<1> HIDE DEF m
<1> QED
  BY <1>7, <1>8

\* In the step that grants t, turns of its session ahead of it are gone.
LEMMA SessionFIFOStep ==
    ASSUME SafetyInv, [Next]_vars, NEW t \in Turns, NEW i \in 1..Len(pending),
           ~granted[t], granted'[t],
           SessionOf[pending[i]] = SessionOf[t],
           \A j \in Positions(pending, t) : i < j
    PROVE  ~InQueue(pending', pending[i])
<1> DEFINE u == pending[i]
<1>1. /\ TypeOK
      /\ pending \in Seq(Turns)
      /\ active \in [Sessions -> Turns \cup {NoTurn}]
      /\ \A s \in Sessions : [active EXCEPT ![s] = NoTurn]
                                \in [Sessions -> Turns \cup {NoTurn}]
      /\ DOMAIN granted = Turns
  BY DEF SafetyInv, TypeOK
<1>2. \A j, k \in 1..Len(pending) : pending[j] = pending[k] => j = k
  BY DEF SafetyInv, Waiting
<1>3. u \in Turns
  BY <1>1
<1>4. Ahead(pending, u, t)
  <2> SUFFICES ASSUME NEW k \in 1..Len(pending), pending[k] = t
               PROVE  i \in 1..(k - 1)
    BY DEF Ahead
  <2> QED
    BY DEF Positions
<1>5. granted' # granted
  OBVIOUS
<1> HIDE DEF u
<1>6. ASSUME NEW x \in Turns, Acquire(x)
      PROVE  ~InQueue(pending', u)
  <2>1. DispatchLocked(Append(pending, x), running, active)
    BY <1>6 DEF Acquire
  <2>2. ~InQueue(pending, x)
    BY <1>6 DEF Acquire, SafetyInv, Waiting
  <2>3. /\ Append(pending, x) \in Seq(Turns)
        /\ \A j, k \in 1..Len(Append(pending, x)) :
              Append(pending, x)[j] = Append(pending, x)[k] => j = k
    BY <1>1, <1>2, <2>2, AppendEntries
  <2>4. Ahead(Append(pending, x), u, t)
    BY <1>1, AheadInAppend DEF u
  <2> QED
    BY <1>1, <1>3, <2>1, <2>3, <2>4, DispatchOrder DEF u
<1>7. ASSUME NEW x \in Turns, ReleaseLocked(x)
      PROVE  ~InQueue(pending', u)
  <2>1. DispatchLocked(pending, running - 1,
                       [active EXCEPT ![SessionOf[x]] = NoTurn])
    BY <1>5, <1>7 DEF ReleaseLocked
  <2>2. [active EXCEPT ![SessionOf[x]] = NoTurn]
           \in [Sessions -> Turns \cup {NoTurn}]
    BY <1>1, SchedulerAssumption
  <2> QED
    BY <1>1, <1>2, <1>3, <1>4, <2>1, <2>2, DispatchOrder DEF u
<1>8. ASSUME NEW p \in 1..Len(pending),
             DispatchLocked(Without(pending, p), running, active)
      PROVE  ~InQueue(pending', u)
  <2>1. Without(pending, p) \in Seq(Turns)
    BY <1>1, WithoutProperties
  <2>2. \A j, k \in 1..Len(Without(pending, p)) :
           Without(pending, p)[j] = Without(pending, p)[k] => j = k
    BY <1>1, <1>2, WithoutEntries
  <2>3. Ahead(Without(pending, p), u, t)
    BY <1>1, <1>2, <1>3, AheadInWithout DEF u
  <2> QED
    BY <1>1, <1>3, <1>8, <2>1, <2>2, <2>3, DispatchOrder DEF u
<1>9. ASSUME NEW x \in Turns, TakeCtxDone(x)
      PROVE  ~InQueue(pending', u)
  <2>1. CASE granted[x]
    BY <1>7, <1>9, <2>1 DEF TakeCtxDone
  <2>2. CASE ~granted[x]
    <3>1. DispatchLocked(RemovePending(x), running, active)
      BY <1>9, <2>2 DEF TakeCtxDone
    <3>2. CASE Positions(pending, x) = {}
      <4>1. DispatchLocked(pending, running, active)
        BY <3>1, <3>2 DEF RemovePending
      <4> QED
        BY <1>1, <1>2, <1>3, <1>4, <4>1, DispatchOrder DEF u
    <3>3. CASE Positions(pending, x) # {}
      <4>1. Positions(pending, x) \in SUBSET Nat
        BY DEF Positions
      <4>2. FirstOf(Positions(pending, x)) \in 1..Len(pending)
        BY <3>3, <4>1, FirstOfIsLeast DEF Positions
      <4> QED
        BY <1>8, <3>1, <3>3, <4>2 DEF RemovePending
    <3> QED
      BY <3>2, <3>3
  <2> QED
    BY <2>1, <2>2
<1>10. ASSUME NEW x \in Turns, Release(x)
       PROVE  ~InQueue(pending', u)
  BY <1>7, <1>10 DEF Release
<1>11. ASSUME NEW x \in Turns,
              \/ AcquireRejected(x) \/ TakeReady(x)
              \/ CancelContext(x) \/ NewRequest(x)
       PROVE  FALSE
  <2>1. ~NewRequest(x)
    <3> SUFFICES ASSUME NewRequest(x) PROVE FALSE
      OBVIOUS
    <3>1. granted' = [granted EXCEPT ![x] = FALSE]
      BY DEF NewRequest
    <3> QED
      BY <1>1, <3>1, Zenon
  <2> QED
    BY <1>5, <1>11, <2>1 DEF AcquireRejected, TakeReady, CancelContext, turnVars
<1>12. ASSUME NEW s \in Sessions, NEW id \in Turns \cup {NoTurn},
              CancelTurn(s, id)
       PROVE  ~InQueue(pending', u)
  <2> DEFINE matching == {k \in 1..Len(pending) :
                             /\ SessionOf[pending[k]] = s
                             /\ id \in {NoTurn, pending[k]}}
  <2>1. matching \in SUBSET Nat /\ matching # {}
    BY <1>12 DEF CancelTurn
  <2>2. FirstOf(matching) \in 1..Len(pending)
    <3>1. FirstOf(matching) \in matching
      BY <2>1, FirstOfIsLeast
    <3> QED
      BY <3>1
  <2>3. DispatchLocked(Without(pending, FirstOf(matching)), running, active)
    BY <1>12 DEF CancelTurn
  <2> HIDE DEF matching
  <2> QED
    BY <1>8, <2>2, <2>3
<1>13. ASSUME NEW s \in Sessions, ReleaseRunning(s)
       PROVE  ~InQueue(pending', u)
  <2>1. DispatchLocked(pending, running - 1, [active EXCEPT ![s] = NoTurn])
    BY <1>13 DEF ReleaseRunning
  <2> QED
    BY <1>1, <1>2, <1>3, <1>4, <2>1, DispatchOrder DEF u
<1>14. ~Shutdown /\ ~UNCHANGED vars
  BY <1>5 DEF Shutdown, vars, turnVars
<1>15. ~InQueue(pending', u)
  BY <1>6, <1>9, <1>10, <1>11, <1>12, <1>13, <1>14 DEF Next
<1> QED
  BY <1>15 DEF u

(***************************************************************************)
(* Turns of one session are granted in the order in which they were        *)
(* queued: dispatchLocked never starts an entry that has an earlier one of *)
(* its session ahead of it, and removals keep the order.                   *)
(***************************************************************************)
THEOREM SessionFIFOAlways == Spec => SessionFIFO
<1> DEFINE A == \A t \in Turns, i \in 1..Len(pending) :
                  /\ ~granted[t] /\ granted'[t]
                  /\ SessionOf[pending[i]] = SessionOf[t]
                  /\ \A j \in Positions(pending, t) : i < j
                  => Positions(pending', pending[i]) = {}
<1>1. SafetyInv /\ [Next]_vars => A
  <2> SUFFICES ASSUME SafetyInv, [Next]_vars,
                      NEW t \in Turns, NEW i \in 1..Len(pending),
                      ~granted[t], granted'[t],
                      SessionOf[pending[i]] = SessionOf[t],
                      \A j \in Positions(pending, t) : i < j
               PROVE  Positions(pending', pending[i]) = {}
    OBVIOUS
  <2>1. ~InQueue(pending', pending[i])
    BY SessionFIFOStep
  <2> QED
    BY <2>1 DEF InQueue, Positions
<1> QED
  BY <1>1, SafetyInvariant, PTL DEF Spec, SessionFIFO

-----------------------------------------------------------------------------
(* The refinement of SessionQueues.                                        *)

\* What the abstract specification sees of queue q: who waits in what order.
Order(q) == [t \in Turns |-> AheadIn(q, t)]

\* u stands before t in q.
Before(q, u, t) == \E i, j \in 1..Len(q) : i < j /\ q[i] = u /\ q[j] = t

\* The sets of the refinement mapping, by entries of the queue.
LEMMA MappedQueue ==
    ASSUME NEW q \in Seq(Turns)
    PROVE  /\ QueuedIn(q) \subseteq Turns
           /\ \A t : t \in QueuedIn(q) <=> InQueue(q, t)
           /\ \A t, u : u \in AheadIn(q, t) <=>
                 u \in Turns /\ SessionOf[u] = SessionOf[t] /\ Before(q, u, t)
<1>1. \A i \in 1..Len(q) : q[i] \in Turns
  OBVIOUS
<1>2. \A t : t \in QueuedIn(q) <=> InQueue(q, t)
  BY DEF QueuedIn, InQueue
<1>3. QueuedIn(q) \subseteq Turns
  BY <1>1 DEF QueuedIn
<1>4. ASSUME NEW t, NEW u
      PROVE  Before(q, u, t) <=> \E i \in Positions(q, u), j \in Positions(q, t) : i < j
  BY DEF Before, Positions
<1>5. \A t, u : u \in AheadIn(q, t) <=>
         u \in Turns /\ SessionOf[u] = SessionOf[t] /\ Before(q, u, t)
  BY <1>4 DEF AheadIn
<1> QED
  BY <1>2, <1>3, <1>5

\* A turn that is appended stands behind everyone.
LEMMA BeforeInAppend ==
    ASSUME NEW q \in Seq(Turns), NEW t \in Turns, ~InQueue(q, t), NEW u, NEW x
    PROVE  Before(Append(q, t), u, x) <=>
              IF x = t THEN InQueue(q, u) ELSE Before(q, u, x)
<1> DEFINE w == Append(q, t)
<1>1. /\ Len(w) = Len(q) + 1 /\ Len(q) \in Nat
      /\ \A j \in 1..Len(q) : w[j] = q[j]
      /\ w[Len(q) + 1] = t
  OBVIOUS
<1> HIDE DEF w
<1>2. CASE x = t
  <2>1. ASSUME Before(w, u, x)
        PROVE  InQueue(q, u)
    <3>1. PICK i \in 1..Len(w), j \in 1..Len(w) : i < j /\ w[i] = u
      BY <2>1 DEF Before
    <3>2. i \in 1..Len(q)
      BY <3>1, <1>1
    <3> QED
      BY <3>1, <3>2, <1>1 DEF InQueue
  <2>2. ASSUME InQueue(q, u)
        PROVE  Before(w, u, x)
    <3>1. PICK i \in 1..Len(q) : q[i] = u
      BY <2>2 DEF InQueue
    <3>2. /\ i \in 1..Len(w) /\ Len(q) + 1 \in 1..Len(w) /\ i < Len(q) + 1
          /\ w[i] = u /\ w[Len(q) + 1] = x
      BY <3>1, <1>1, <1>2
    <3> QED
      BY <3>2 DEF Before
  <2> QED
    BY <1>2, <2>1, <2>2 DEF w
<1>3. CASE x # t
  <2>1. ASSUME Before(w, u, x)
        PROVE  Before(q, u, x)
    <3>1. PICK i \in 1..Len(w), j \in 1..Len(w) : i < j /\ w[i] = u /\ w[j] = x
      BY <2>1 DEF Before
    <3>2. j \in 1..Len(q) /\ i \in 1..Len(q)
      BY <3>1, <1>1, <1>3
    <3> QED
      BY <3>1, <3>2, <1>1 DEF Before
  <2>2. ASSUME Before(q, u, x)
        PROVE  Before(w, u, x)
    <3>1. PICK i \in 1..Len(q), j \in 1..Len(q) : i < j /\ q[i] = u /\ q[j] = x
      BY <2>2 DEF Before
    <3>2. i \in 1..Len(w) /\ j \in 1..Len(w) /\ w[i] = u /\ w[j] = x
      BY <3>1, <1>1
    <3> QED
      BY <3>1, <3>2 DEF Before
  <2> QED
    BY <1>3, <2>1, <2>2 DEF w
<1> QED
  BY <1>2, <1>3

\* A removal leaves the order of the others.
LEMMA BeforeInWithout ==
    ASSUME NEW q \in Seq(Turns), NEW p \in 1..Len(q),
           \A j, k \in 1..Len(q) : q[j] = q[k] => j = k,
           NEW u, NEW x
    PROVE  Before(Without(q, p), u, x) <=> Before(q, u, x) /\ u # q[p] /\ x # q[p]
<1> DEFINE w == Without(q, p)
<1>1. /\ Len(w) = Len(q) - 1 /\ Len(q) \in Nat
      /\ \A j \in 1..(Len(q) - 1) : w[j] = IF j < p THEN q[j] ELSE q[j + 1]
  <2>1. /\ Len(w) = Len(q) - 1
        /\ \A j \in 1..(Len(q) - 1) : w[j] = IF j < p THEN q[j] ELSE q[j + 1]
    BY WithoutProperties
  <2> QED
    BY <2>1
<1> HIDE DEF w
<1>2. ASSUME Before(w, u, x)
      PROVE  Before(q, u, x) /\ u # q[p] /\ x # q[p]
  <2>1. PICK i \in 1..Len(w), j \in 1..Len(w) : i < j /\ w[i] = u /\ w[j] = x
    BY <1>2 DEF Before
  <2> DEFINE a == IF i < p THEN i ELSE i + 1
             b == IF j < p THEN j ELSE j + 1
  <2>2. a \in 1..Len(q) /\ b \in 1..Len(q) /\ a < b /\ a # p /\ b # p
    BY <2>1, <1>1
  <2>3. q[a] = u /\ q[b] = x
    BY <2>1, <1>1
  <2> HIDE DEF a, b
  <2>4. Before(q, u, x)
    BY <2>2, <2>3 DEF Before
  <2> QED
    BY <2>2, <2>3, <2>4
<1>3. ASSUME Before(q, u, x), u # q[p], x # q[p]
      PROVE  Before(w, u, x)
  <2>1. PICK i \in 1..Len(q), j \in 1..Len(q) : i < j /\ q[i] = u /\ q[j] = x
    BY <1>3 DEF Before
  <2>2. i # p /\ j # p
    BY <2>1, <1>3
  <2> DEFINE a == IF i < p THEN i ELSE i - 1
             b == IF j < p THEN j ELSE j - 1
  <2>3. a \in 1..Len(w) /\ b \in 1..Len(w) /\ a < b
    BY <2>1, <2>2, <1>1
  <2>4. w[a] = u /\ w[b] = x
    BY <2>1, <2>2, <2>3, <1>1
  <2> HIDE DEF a, b
  <2> QED
    BY <2>3, <2>4 DEF Before
<1> QED
  BY <1>2, <1>3 DEF w

\* Joining, as the abstract specification sees it.
LEMMA MappedAppend ==
    ASSUME NEW q \in Seq(Turns), NEW t \in Turns, ~InQueue(q, t),
           \A j, k \in 1..Len(q) : q[j] = q[k] => j = k
    PROVE  /\ QueuedIn(Append(q, t)) = QueuedIn(q) \cup {t}
           /\ Order(Append(q, t)) =
                 [Order(q) EXCEPT ![t] = {u \in QueuedIn(q) : SessionOf[u] = SessionOf[t]}]
<1> DEFINE w == Append(q, t)
<1>1. w \in Seq(Turns) /\ \A u \in Turns : InQueue(w, u) <=> InQueue(q, u) \/ u = t
  BY AppendEntries
<1>2. \A u, x : Before(w, u, x) <=> IF x = t THEN InQueue(q, u) ELSE Before(q, u, x)
  BY BeforeInAppend
<1> HIDE DEF w
<1>3. QueuedIn(w) \subseteq Turns /\ QueuedIn(q) \subseteq Turns
  BY <1>1, MappedQueue
<1>4. QueuedIn(w) = QueuedIn(q) \cup {t}
  <2>1. \A u \in Turns : u \in QueuedIn(w) <=> u \in QueuedIn(q) \cup {t}
    BY <1>1, MappedQueue
  <2> QED
    BY <2>1, <1>3
<1>5. ASSUME NEW x \in Turns
      PROVE  AheadIn(w, x) = IF x = t THEN {u \in QueuedIn(q) : SessionOf[u] = SessionOf[t]}
                                      ELSE AheadIn(q, x)
  <2>1. CASE x = t
    <3>1. \A u : u \in AheadIn(w, x) <=>
             u \in QueuedIn(q) /\ SessionOf[u] = SessionOf[t]
      BY <2>1, <1>1, <1>2, <1>3, MappedQueue
    <3> QED
      BY <2>1, <3>1
  <2>2. CASE x # t
    <3>1. \A u : u \in AheadIn(w, x) <=> u \in AheadIn(q, x)
      BY <2>2, <1>1, <1>2, MappedQueue
    <3> QED
      BY <2>2, <3>1
  <2> QED
    BY <2>1, <2>2
<1>6. Order(w) = [Order(q) EXCEPT ![t] = {u \in QueuedIn(q) : SessionOf[u] = SessionOf[t]}]
  BY <1>5 DEF Order
<1> QED
  BY <1>4, <1>6 DEF w

\* Leaving and starting, as the abstract specification sees them.
LEMMA MappedWithout ==
    ASSUME NEW q \in Seq(Turns), NEW p \in 1..Len(q),
           \A j, k \in 1..Len(q) : q[j] = q[k] => j = k
    PROVE  /\ QueuedIn(Without(q, p)) = QueuedIn(q) \ {q[p]}
           /\ Order(Without(q, p)) = Promise!Without(Order(q), q[p])
<1> DEFINE w == Without(q, p)
           t == q[p]
<1>1. w \in Seq(Turns) /\ \A u \in Turns : InQueue(w, u) <=> InQueue(q, u) /\ u # t
  BY WithoutProperties, WithoutEntries
<1>2. \A u, x : Before(w, u, x) <=> Before(q, u, x) /\ u # t /\ x # t
  BY BeforeInWithout
<1> HIDE DEF w, t
<1>3. QueuedIn(w) \subseteq Turns /\ QueuedIn(q) \subseteq Turns
  BY <1>1, MappedQueue
<1>4. QueuedIn(w) = QueuedIn(q) \ {t}
  <2>1. \A u \in Turns : u \in QueuedIn(w) <=> u \in QueuedIn(q) \ {t}
    BY <1>1, MappedQueue
  <2> QED
    BY <2>1, <1>3
<1>5. ASSUME NEW x \in Turns
      PROVE  AheadIn(w, x) = IF x = t THEN {} ELSE AheadIn(q, x) \ {t}
  <2>1. \A u : u \in AheadIn(w, x) <=> u \in AheadIn(q, x) /\ u # t /\ x # t
    BY <1>1, <1>2, MappedQueue
  <2> QED
    BY <2>1
<1>6. Order(w) = Promise!Without(Order(q), t)
  BY <1>5 DEF Order, Promise!Without
<1> QED
  BY <1>4, <1>6 DEF w, t

\* The abstract permits are those of the counter.
LEMMA MappedPermits ==
    ASSUME NEW run, NEW act, Counted(run, act)
    PROVE  Promise!FreePermit(act) <=> run < MaxRunning
<1>1. Sessions \ Promise!Idle(act) = BusyIn(act)
  BY DEF Promise!Idle, BusyIn
<1>2. Promise!Cardinality(BusyIn(act)) = Cardinality(BusyIn(act))
  BY DEF Promise!Cardinality, Cardinality
<1> QED
  BY <1>1, <1>2 DEF Promise!FreePermit, Counted

\* A queue on which dispatchLocked's loop has ended leaves no permit idle.
LEMMA MappedStalled ==
    ASSUME NEW q \in Seq(Turns), NEW run, NEW act,
           Counted(run, act), Stalled(q, run, act)
    PROVE  Promise!WorkConserving(QueuedIn(q), act)
<1> SUFFICES ASSUME Promise!FreePermit(act), NEW t \in QueuedIn(q)
             PROVE  SessionOf[t] \notin Promise!Idle(act)
  BY DEF Promise!WorkConserving
<1>1. run < MaxRunning
  BY MappedPermits
<1>2. PICK i \in 1..Len(q) : q[i] = t
  BY DEF QueuedIn
<1>3. act[SessionOf[t]] # NoTurn
  BY <1>1, <1>2 DEF Stalled
<1> QED
  BY <1>3 DEF Promise!Idle

\* An entry with no earlier one of its session leads its session.
LEMMA MappedLeader ==
    ASSUME NEW q \in Seq(Turns), NEW i \in 1..Len(q),
           \A j, k \in 1..Len(q) : q[j] = q[k] => j = k,
           ~hasEarlierSessionEntry(q, i)
    PROVE  AheadIn(q, q[i]) = {}
<1> SUFFICES ASSUME NEW u \in AheadIn(q, q[i])
             PROVE  FALSE
  OBVIOUS
<1>1. SessionOf[u] = SessionOf[q[i]] /\ Before(q, u, q[i])
  BY MappedQueue
<1>2. PICK j \in 1..Len(q), k \in 1..Len(q) : j < k /\ q[j] = u /\ q[k] = q[i]
  BY <1>1 DEF Before
<1>3. k = i
  BY <1>2
<1>4. j \in 1..(i - 1)
  BY <1>2, <1>3
<1> QED
  BY <1>1, <1>2, <1>4 DEF hasEarlierSessionEntry

(***************************************************************************)
(* dispatchLocked settles the abstract queues: it starts a turn that leads *)
(* its session, or nothing, and leaves no permit idle.                     *)
(***************************************************************************)
LEMMA DispatchSettles ==
    ASSUME NEW q \in Seq(Turns),
           \A j, k \in 1..Len(q) : q[j] = q[k] => j = k,
           NEW run, NEW act, Counted(run, act),
           DispatchLocked(q, run, act), SafetyInv'
    PROVE  Promise!Settle(QueuedIn(q), Order(q), act)
<1>1. Promise!WorkConserving(QueuedIn(pending'), active')
  <2>1. /\ pending' \in Seq(Turns)
        /\ Counted(running', active')
        /\ Stalled(pending', running', active')
    BY DEF SafetyInv, TypeOK, Counted, BusyIn, Stalled
  <2> QED
    BY <2>1, MappedStalled
<1>2. CASE NothingStarted(q, run, act)
  <2>1. pending' = q /\ active' = act
    BY <1>2 DEF NothingStarted
  <2>2. Promise!StartNothing(QueuedIn(q), Order(q), act)
    BY <2>1 DEF Promise!StartNothing, Order
  <2> QED
    BY <1>1, <2>2 DEF Promise!Settle
<1>3. ASSUME NEW i, Started(q, run, act, i)
      PROVE  Promise!Settle(QueuedIn(q), Order(q), act)
  <2> DEFINE t == q[i]
  <2>1. /\ i \in 1..Len(q) /\ t \in Turns /\ SessionOf[t] \in Sessions
        /\ act[SessionOf[t]] = NoTurn /\ InQueue(q, t)
    BY <1>3, StartedEntry
  <2>2. Promise!FreePermit(act)
    BY <1>3, MappedPermits DEF Started
  <2>3. Order(q)[t] = {}
    <3>1. ~hasEarlierSessionEntry(q, i)
      BY <1>3 DEF Started, Runnable
    <3> QED
      BY <2>1, <3>1, MappedLeader DEF Order
  <2>4. SessionOf[t] \in Promise!Idle(act)
    BY <2>1 DEF Promise!Idle
  <2>5. t \in QueuedIn(q)
    BY <2>1, MappedQueue
  <2>6. pending' = Without(q, i) /\ active' = [act EXCEPT ![SessionOf[t]] = t]
    BY <1>3 DEF Started
  <2>7. /\ QueuedIn(pending') = QueuedIn(q) \ {t}
        /\ Order(pending') = Promise!Without(Order(q), t)
    BY <2>1, <2>6, MappedWithout
  <2> HIDE DEF t
  <2>8. Promise!Start(QueuedIn(q), Order(q), act, t)
    BY <2>2, <2>3, <2>4, <2>6, <2>7 DEF Promise!Start, Order
  <2> QED
    BY <1>1, <2>5, <2>8 DEF Promise!Settle
<1>4. Len(q) \in Nat
  OBVIOUS
<1> QED
  BY <1>2, <1>3, <1>4, DispatchOutcomes

-----------------------------------------------------------------------------
(* One step of the scheduler is one step of the abstract queues, or none.  *)

\* What the cases below take from the invariant.
LEMMA MappedState ==
    ASSUME SafetyInv
    PROVE  /\ pending \in Seq(Turns)
           /\ running \in Int
           /\ active \in [Sessions -> Turns \cup {NoTurn}]
           /\ shutdown \in BOOLEAN
           /\ \A i, j \in 1..Len(pending) : pending[i] = pending[j] => i = j
           /\ Counted(running, active)
           /\ Stalled(pending, running, active)
  BY DEF SafetyInv, TypeOK, Waiting

\* A step that leaves the scheduler alone.
LEMMA MappedStutter ==
    ASSUME pending' = pending, active' = active, shutdown' = shutdown
    PROVE  UNCHANGED Promise!vars
  BY DEF Promise!vars, QueuedIn, AheadIn, Positions

\* A permit is given up, by release, by a cancelled wait or by ReleaseRunning.
LEMMA MappedFinish ==
    ASSUME SafetyInv, SafetyInv', NEW s \in Sessions, active[s] # NoTurn,
           DispatchLocked(pending, running - 1, [active EXCEPT ![s] = NoTurn]),
           shutdown' = shutdown
    PROVE  Promise!Finish(s)
<1> DEFINE act == [active EXCEPT ![s] = NoTurn]
<1>1. Counted(running - 1, act)
  BY MappedState, TakenBackCounted
<1>2. DispatchLocked(pending, running - 1, act)
  OBVIOUS
<1> HIDE DEF act
<1>3. Promise!Settle(QueuedIn(pending), Order(pending), act)
  BY <1>1, <1>2, MappedState, DispatchSettles
<1> QED
  BY <1>3 DEF Promise!Finish, Order, act

\* A waiting turn is taken out of the queue.
LEMMA MappedLeave ==
    ASSUME SafetyInv, SafetyInv', NEW i \in 1..Len(pending),
           DispatchLocked(Without(pending, i), running, active),
           shutdown' = shutdown
    PROVE  \E t \in Turns : Promise!Leave(t)
<1> DEFINE q == Without(pending, i)
           t == pending[i]
<1>1. /\ pending \in Seq(Turns)
      /\ \A j, k \in 1..Len(pending) : pending[j] = pending[k] => j = k
      /\ Counted(running, active)
  BY MappedState
<1>2. q \in Seq(Turns) /\ \A j, k \in 1..Len(q) : q[j] = q[k] => j = k
  BY <1>1, WithoutProperties, WithoutEntries
<1>3. /\ QueuedIn(q) = QueuedIn(pending) \ {t}
      /\ Order(q) = Promise!Without(Order(pending), t)
  BY <1>1, MappedWithout
<1>4. t \in Turns /\ t \in QueuedIn(pending)
  BY <1>1 DEF QueuedIn
<1>5. DispatchLocked(q, running, active)
  OBVIOUS
<1> HIDE DEF q, t
<1>6. Promise!Settle(QueuedIn(q), Order(q), active)
  BY <1>1, <1>2, <1>5, DispatchSettles
<1>7. Promise!Leave(t)
  BY <1>3, <1>4, <1>6 DEF Promise!Leave, Order
<1> QED
  BY <1>4, <1>7

\* With nothing removed, dispatchLocked finds nothing to start.
LEMMA MappedIdleDispatch ==
    ASSUME SafetyInv, DispatchLocked(pending, running, active),
           shutdown' = shutdown
    PROVE  UNCHANGED Promise!vars
<1>1. ASSUME NEW i, Started(pending, running, active, i)
      PROVE  FALSE
  BY <1>1, MappedState DEF Started, Runnable, Stalled
<1>2. Len(pending) \in Nat
  BY MappedState
<1>3. NothingStarted(pending, running, active)
  BY <1>1, <1>2, DispatchOutcomes
<1> QED
  BY <1>3, MappedStutter DEF NothingStarted

\* Acquire lets its turn join the queue of its session.
LEMMA MappedJoin ==
    ASSUME SafetyInv, SafetyInv', NEW t \in Turns, Acquire(t)
    PROVE  Promise!Join(t)
<1> DEFINE q == Append(pending, t)
<1>1. /\ pending \in Seq(Turns)
      /\ \A j, k \in 1..Len(pending) : pending[j] = pending[k] => j = k
      /\ Counted(running, active)
  BY MappedState
<1>2. ~InQueue(pending, t)
  BY DEF Acquire, SafetyInv, Waiting
<1>3. q \in Seq(Turns) /\ \A j, k \in 1..Len(q) : q[j] = q[k] => j = k
  BY <1>1, <1>2, AppendEntries
<1>4. /\ QueuedIn(q) = QueuedIn(pending) \cup {t}
      /\ Order(q) = [Order(pending) EXCEPT ![t] =
                        {u \in QueuedIn(pending) : SessionOf[u] = SessionOf[t]}]
  BY <1>1, <1>2, MappedAppend
<1>5. DispatchLocked(q, running, active) /\ ~shutdown /\ shutdown' = shutdown
  BY DEF Acquire
<1>6. t \notin QueuedIn(pending)
  BY <1>1, <1>2, MappedQueue
<1>7. active[SessionOf[t]] # t
  BY DEF Acquire, SafetyInv, Told, Owned
<1> HIDE DEF q
<1>8. Promise!Settle(QueuedIn(q), Order(q), active)
  BY <1>1, <1>3, <1>5, DispatchSettles
<1> QED
  BY <1>4, <1>5, <1>6, <1>7, <1>8 DEF Promise!Join, Order

\* releaseLocked ends the session's turn, or does nothing.
LEMMA MappedRelease ==
    ASSUME SafetyInv, SafetyInv', NEW t \in Turns, ReleaseLocked(t),
           shutdown' = shutdown
    PROVE  Promise!Finish(SessionOf[t]) \/ UNCHANGED Promise!vars
<1>1. CASE granted[t] /\ ~released[t]
  <2>1. SessionOf[t] \in Sessions /\ t # NoTurn
    BY SchedulerAssumption
  <2>2. active[SessionOf[t]] = t
    BY <1>1 DEF SafetyInv, Owned
  <2> QED
    BY <1>1, <2>1, <2>2, MappedFinish DEF ReleaseLocked
<1>2. CASE ~(granted[t] /\ ~released[t])
  BY <1>2, MappedStutter DEF ReleaseLocked, schedVars
<1> QED
  BY <1>1, <1>2

\* A cancelled wait gives up its permit, leaves the queue, or does nothing.
LEMMA MappedTakeCtxDone ==
    ASSUME SafetyInv, SafetyInv', NEW t \in Turns, TakeCtxDone(t)
    PROVE  \/ Promise!Finish(SessionOf[t])
           \/ \E u \in Turns : Promise!Leave(u)
           \/ UNCHANGED Promise!vars
<1>0. shutdown' = shutdown
  BY DEF TakeCtxDone
<1>1. CASE granted[t]
  BY <1>0, <1>1, MappedRelease DEF TakeCtxDone
<1>2. CASE ~granted[t] /\ Positions(pending, t) = {}
  BY <1>0, <1>2, MappedIdleDispatch DEF TakeCtxDone, RemovePending
<1>3. CASE ~granted[t] /\ Positions(pending, t) # {}
  <2>1. FirstOf(Positions(pending, t)) \in 1..Len(pending)
    <3>1. Positions(pending, t) \in SUBSET Nat
      BY DEF Positions
    <3>2. FirstOf(Positions(pending, t)) \in Positions(pending, t)
      BY <1>3, <3>1, FirstOfIsLeast
    <3> QED
      BY <3>2 DEF Positions
  <2>2. DispatchLocked(Without(pending, FirstOf(Positions(pending, t))),
                       running, active)
    BY <1>3 DEF TakeCtxDone, RemovePending
  <2> QED
    BY <1>0, <2>1, <2>2, MappedLeave
<1> QED
  BY <1>1, <1>2, <1>3

\* CancelTurn takes the entry it finds out of the queue.
LEMMA MappedCancelTurn ==
    ASSUME SafetyInv, SafetyInv', NEW s \in Sessions,
           NEW id \in Turns \cup {NoTurn}, CancelTurn(s, id)
    PROVE  \E t \in Turns : Promise!Leave(t)
<1> DEFINE matching == {i \in 1..Len(pending) : /\ SessionOf[pending[i]] = s
                                                /\ id \in {NoTurn, pending[i]}}
<1>0. matching \in SUBSET Nat /\ matching # {}
  BY DEF CancelTurn
<1>1. FirstOf(matching) \in matching
  BY <1>0, FirstOfIsLeast
<1>2. FirstOf(matching) \in 1..Len(pending)
  BY <1>1
<1>3. /\ DispatchLocked(Without(pending, FirstOf(matching)), running, active)
      /\ shutdown' = shutdown
  BY DEF CancelTurn
<1> HIDE DEF matching
<1> QED
  BY <1>2, <1>3, MappedLeave

\* Shutdown empties the queues.
LEMMA MappedClose ==
    ASSUME Shutdown
    PROVE  Promise!Close
<1>1. pending' = <<>> /\ 1..Len(<<>>) = {}
  BY DEF Shutdown
<1>2. QueuedIn(pending') = {}
  BY <1>1 DEF QueuedIn
<1>3. \A t \in Turns : AheadIn(pending', t) = {}
  BY <1>1 DEF AheadIn, Positions
<1> QED
  BY <1>2, <1>3 DEF Shutdown, Promise!Close

\* Every step maps to a step or to a stutter.
LEMMA MappedStep ==
    ASSUME SafetyInv, SafetyInv', [Next]_vars
    PROVE  Promise!Next \/ UNCHANGED Promise!vars
<1>1. ASSUME NEW t \in Turns, Acquire(t)
      PROVE  Promise!Next
  BY <1>1, MappedJoin DEF Promise!Next
<1>2. ASSUME NEW t \in Turns,
             AcquireRejected(t) \/ TakeReady(t) \/ CancelContext(t) \/ NewRequest(t)
      PROVE  UNCHANGED Promise!vars
  BY <1>2, MappedStutter
     DEF AcquireRejected, TakeReady, CancelContext, NewRequest, schedVars
<1>3. ASSUME NEW t \in Turns, TakeCtxDone(t)
      PROVE  Promise!Next \/ UNCHANGED Promise!vars
  <2>1. SessionOf[t] \in Sessions
    BY SchedulerAssumption
  <2> QED
    BY <1>3, <2>1, MappedTakeCtxDone DEF Promise!Next
<1>4. ASSUME NEW t \in Turns, Release(t)
      PROVE  Promise!Next \/ UNCHANGED Promise!vars
  <2>1. SessionOf[t] \in Sessions
    BY SchedulerAssumption
  <2>2. ReleaseLocked(t) /\ shutdown' = shutdown
    BY <1>4 DEF Release
  <2> QED
    BY <2>1, <2>2, MappedRelease DEF Promise!Next
<1>5. ASSUME NEW s \in Sessions, NEW id \in Turns \cup {NoTurn}, CancelTurn(s, id)
      PROVE  Promise!Next
  BY <1>5, MappedCancelTurn DEF Promise!Next
<1>6. ASSUME NEW s \in Sessions, ReleaseRunning(s)
      PROVE  Promise!Next
  BY <1>6, MappedFinish DEF ReleaseRunning, Promise!Next
<1>7. ASSUME Shutdown
      PROVE  Promise!Next
  BY <1>7, MappedClose DEF Promise!Next
<1>8. CASE UNCHANGED vars
  BY <1>8, MappedStutter DEF vars, schedVars
<1> QED
  BY <1>1, <1>2, <1>3, <1>4, <1>5, <1>6, <1>7, <1>8 DEF Next

\* The initial states map to the initial state.
LEMMA MappedInit == Init => Promise!Init
<1> SUFFICES ASSUME Init PROVE Promise!Init
  OBVIOUS
<1>1. pending = <<>> /\ 1..Len(<<>>) = {}
  BY DEF Init
<1>2. QueuedIn(pending) = {}
  BY <1>1 DEF QueuedIn
<1>3. \A t \in Turns : AheadIn(pending, t) = {}
  BY <1>1 DEF AheadIn, Positions
<1> QED
  BY <1>2, <1>3 DEF Init, Promise!Init

(***************************************************************************)
(* The scheduler implements SessionQueues, whatever the sessions, turns    *)
(* and limit: every critical section of scheduler.go is one step of a      *)
(* queue for every session and bounded permits, or changes none of it.     *)
(***************************************************************************)
THEOREM SchedulerImplementsQueues == Spec => ImplementsSessionQueues
<1>1. SafetyInv /\ SafetyInv' /\ [Next]_vars => [Promise!Next]_(Promise!vars)
  BY MappedStep
<1> QED
  BY <1>1, MappedInit, SafetyInvariant, PTL
     DEF Spec, ImplementsSessionQueues, Promise!Spec
=============================================================================
