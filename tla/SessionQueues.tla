--------------------------- MODULE SessionQueues ---------------------------
(***************************************************************************)
(* What the turn scheduler promises its callers, without its data          *)
(* structure: the turns of a conversation wait in the order in which they  *)
(* joined and start in that order, a conversation has at most one owner of *)
(* a permit, permits are bounded process-wide, and a permit never lies     *)
(* idle while a conversation could use it.  Which of several conversations *)
(* that could start does start is left open.                               *)
(***************************************************************************)
EXTENDS Naturals, FiniteSets

CONSTANTS Sessions, Turns, SessionOf, Permits, NoTurn

VARIABLES
    waiting,  \* the turns that wait
    ahead,    \* ahead[t]: the waiting turns of t's session that joined before t
    owner,    \* owner[s]: the turn of session s that holds a permit
    open      \* new turns are admitted

vars == <<waiting, ahead, owner, open>>

Idle(o) == {s \in Sessions : o[s] = NoTurn}
FreePermit(o) == Cardinality(Sessions \ Idle(o)) < Permits

\* With a permit free, a turn waits only for the owner of its session.
WorkConserving(w, o) ==
    FreePermit(o) => \A t \in w : SessionOf[t] \notin Idle(o)

Init ==
    /\ waiting = {}
    /\ ahead = [t \in Turns |-> {}]
    /\ owner = [s \in Sessions |-> NoTurn]
    /\ open = TRUE

\* The order without turn t.
Without(h, t) == [u \in Turns |-> IF u = t THEN {} ELSE h[u] \ {t}]

\* Starting turn t, which leads its session, from waiting turns w in order h
\* with owners o.
Start(w, h, o, t) ==
    /\ FreePermit(o)
    /\ h[t] = {} /\ SessionOf[t] \in Idle(o)
    /\ waiting' = w \ {t}
    /\ ahead' = Without(h, t)
    /\ owner' = [o EXCEPT ![SessionOf[t]] = t]

StartNothing(w, h, o) == waiting' = w /\ ahead' = h /\ owner' = o

\* Every step of a caller ends by starting a turn where that is possible.
Settle(w, h, o) ==
    /\ \/ StartNothing(w, h, o)
       \/ \E t \in w : Start(w, h, o, t)
    /\ WorkConserving(waiting', owner')

Join(t) ==
    /\ open
    /\ t \notin waiting
    /\ owner[SessionOf[t]] # t
    /\ Settle(waiting \cup {t},
              [ahead EXCEPT ![t] = {u \in waiting : SessionOf[u] = SessionOf[t]}],
              owner)
    /\ UNCHANGED open

Leave(t) ==
    /\ t \in waiting
    /\ Settle(waiting \ {t}, Without(ahead, t), owner)
    /\ UNCHANGED open

Finish(s) ==
    /\ owner[s] # NoTurn
    /\ Settle(waiting, ahead, [owner EXCEPT ![s] = NoTurn])
    /\ UNCHANGED open

Close ==
    /\ open
    /\ open' = FALSE
    /\ waiting' = {}
    /\ ahead' = [t \in Turns |-> {}]
    /\ UNCHANGED owner

Next ==
    \/ \E t \in Turns : Join(t) \/ Leave(t)
    \/ \E s \in Sessions : Finish(s)
    \/ Close

Spec == Init /\ [][Next]_vars

\* The process dies: nobody waits or owns any more.
Crash ==
    /\ waiting' = {}
    /\ ahead' = [t \in Turns |-> {}]
    /\ owner' = [s \in Sessions |-> NoTurn]
    /\ UNCHANGED open

SpecWithCrashes == Init /\ [][Next \/ Crash]_vars
=============================================================================
