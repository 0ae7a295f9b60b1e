---------------------------- MODULE ControlPlane ----------------------------
(***************************************************************************)
(* The control plane that Runtime instances share: expiring leases on      *)
(* sessions (internal/controlplane/owner.go) and child sessions made once  *)
(* per request (spawn.go, target.go).                                      *)
(*                                                                         *)
(* Time is relative: a row keeps what is left of its lease, which goes     *)
(* below zero, and a statement keeps how old the clock reading is that it  *)
(* will use, because owner.go reads the clock before it gets the database. *)
(*                                                                         *)
(* There is one session, in the repository of every instance. It is the    *)
(* parent of every spawn call, and the source of a fork. All spawn calls   *)
(* are retries of one request for one child. No step reads the lease of    *)
(* the child, which is claimed like the other one: it is left out.         *)
(***************************************************************************)
EXTENDS Integers, FiniteSets

CONSTANTS
    Instances,  \* Runtime instances, each started at most once
    Calls,      \* attempts to spawn the child; each would name the child differently
    Overlap,    \* whether an attempt may begin while another one runs
    LeaseTTL,   \* length of a lease
    MaxLag,     \* longest wait for the database, less than LeaseTTL
    NoOne

ASSUME ControlAssumption ==
    /\ {LeaseTTL, MaxLag} \subseteq Nat
    /\ MaxLag < LeaseTTL
    /\ NoOne \notin Instances \cup Calls
    /\ Overlap \in BOOLEAN

VARIABLES
    up,     \* the manager of an instance
    owner,  \* session_owners: the instance of the session
    left,   \* what is left of that lease
    beat,   \* the heartbeat an instance is in: its ticker's or another's
    lag,    \* the age of the clock reading it uses
    at,     \* where a spawn call is
    host,   \* the instance that executes it
    edge,   \* session_spawn_edges: the child of the request
    open,   \* its status is open
    child,  \* the stored session: none, blank, reserved, ready
    work,   \* the child holds messages of its own
    answer  \* the child a call reported

leaseVars == <<up, owner, left, beat, lag>>
spawnVars == <<at, host, edge, open, child, work, answer>>
controlVars == <<leaseVars, spawnVars>>

ControlInit ==
    /\ up = [i \in Instances |-> "down"]
    /\ owner = NoOne /\ left = 0
    /\ beat = [i \in Instances |-> "none"]
    /\ lag = [i \in Instances |-> 0]
    /\ at = [k \in Calls |-> "idle"]
    /\ host = [k \in Calls |-> NoOne]
    /\ edge = NoOne /\ open = FALSE
    /\ child = "none" /\ work = FALSE
    /\ answer = [k \in Calls |-> NoOne]

-----------------------------------------------------------------------------
(***************************************************************************)
(* Rows of session_owners.                                                 *)
(***************************************************************************)
\* Mutant: a lease is taken over while it has a heartbeat to go.
ExpiredSoon(age) == left <= 1 - age

\* expires_at_ms <= now, for a clock reading of that age.
Expired(age) == left <= -age

\* The WHERE of the upsert.
Claimable(i, age) == owner \in {i, NoOne} \/ Expired(age)

Claim(i, age) == owner' = i /\ left' = LeaseTTL - age
Free == owner' = NoOne /\ left' = 0

\* Mutant: a heartbeat renews what the instance owns and claims nothing.
RenewExisting(i, age, ok) ==
    IF Expired(age) THEN Free ELSE IF owner = i THEN Claim(i, age) ELSE UNCHANGED <<owner, left>>

\* The transaction of Heartbeat: an expired row is deleted, then the session
\* is upserted; if the repository could not be listed (not ok), only a row of
\* i is renewed.
Renew(i, age, ok) ==
    LET mine == IF ok THEN Claimable(i, age) ELSE owner = i /\ ~Expired(age)
    IN IF mine THEN Claim(i, age)
       ELSE IF Expired(age) THEN Free ELSE UNCHANGED <<owner, left>>

Owns(i) == owner = i /\ ~Expired(0)

\* An instance that can still use its database.
Serving(i) == up[i] \in {"up", "closing", "released"}

-----------------------------------------------------------------------------
(***************************************************************************)
(* The manager: Start, Heartbeat, ClaimKnownSession, Close.                *)
(***************************************************************************)
\* Start performs a heartbeat before it serves; when that fails it stays down.
Start(i) ==
    /\ up[i] = "down"
    /\ Renew(i, 0, TRUE)
    /\ up' = [up EXCEPT ![i] = "up"]
    /\ UNCHANGED <<beat, lag, spawnVars>>

\* List the sessions and read the clock; heartbeatMu admits one at a time.
HeartbeatBegin(i, kind) ==
    /\ beat[i] = "none"
    /\ IF kind = "ticker" THEN up[i] = "up" ELSE Serving(i)
    /\ beat' = [beat EXCEPT ![i] = kind]
    /\ UNCHANGED <<up, owner, left, lag, spawnVars>>

HeartbeatEnd(i) ==
    /\ beat' = [beat EXCEPT ![i] = "none"]
    /\ lag' = [lag EXCEPT ![i] = 0]

HeartbeatCommit(i, ok) ==
    /\ beat[i] # "none"
    /\ Serving(i)
    /\ Renew(i, lag[i], ok)
    /\ HeartbeatEnd(i)
    /\ UNCHANGED <<up, spawnVars>>

\* A statement fails: the transaction is rolled back, or the database closed.
HeartbeatFail(i) ==
    /\ beat[i] # "none"
    /\ HeartbeatEnd(i)
    /\ UNCHANGED <<up, owner, left, spawnVars>>

\* A WebSocket attached to the session.
ClaimKnownSession(i) ==
    /\ Serving(i)
    /\ Claimable(i, 0)
    /\ Claim(i, 0)
    /\ UNCHANGED <<up, beat, lag, spawnVars>>

Close(i) ==
    /\ up[i] = "up"
    /\ up' = [up EXCEPT ![i] = "closing"]
    /\ UNCHANGED <<owner, left, beat, lag, spawnVars>>

\* After the goroutine of the ticker has ended.
ReleaseLeases(i) ==
    /\ up[i] = "closing"
    /\ beat[i] # "ticker"
    /\ IF owner = i THEN Free ELSE UNCHANGED <<owner, left>>
    /\ up' = [up EXCEPT ![i] = "released"]
    /\ UNCHANGED <<beat, lag, spawnVars>>

\* A call dies with its instance.
Abandon(i) ==
    /\ at' = [k \in Calls |-> IF host[k] = i THEN "failed" ELSE at[k]]
    /\ host' = [k \in Calls |-> IF host[k] = i THEN NoOne ELSE host[k]]

\* Every statement that waits fails.
CloseDatabase(i) ==
    /\ up[i] = "released"
    /\ up' = [up EXCEPT ![i] = "closed"]
    /\ HeartbeatEnd(i)
    /\ Abandon(i)
    /\ UNCHANGED <<owner, left, edge, open, child, work, answer>>

Crash(i) ==
    /\ up[i] \in {"up", "closing", "released"}
    /\ up' = [up EXCEPT ![i] = "crashed"]
    /\ HeartbeatEnd(i)
    /\ Abandon(i)
    /\ UNCHANGED <<owner, left, edge, open, child, work, answer>>

Waiting == {i \in Instances : beat[i] # "none"}

\* The database is not waited for longer than busy_timeout.
Tick ==
    /\ \A i \in Waiting : lag[i] < MaxLag
    /\ left' = IF owner # NoOne /\ left > -MaxLag THEN left - 1 ELSE left
    /\ lag' = [i \in Instances |-> IF i \in Waiting THEN lag[i] + 1 ELSE 0]
    /\ <<left, lag>>' # <<left, lag>>
    /\ UNCHANGED <<up, owner, beat, spawnVars>>

-----------------------------------------------------------------------------
(***************************************************************************)
(* Spawning: CreateSession and ForkSession with the steps of the target.   *)
(***************************************************************************)
Running(k) == at[k] \notin {"idle", "returned", "failed"}

Fail(k) ==
    /\ at' = [at EXCEPT ![k] = "failed"]
    /\ host' = [host EXCEPT ![k] = NoOne]

\* Mutant: the reservation of an earlier attempt is not read back.
ReservedByCall(k) == k

\* INSERT ... ON CONFLICT DO NOTHING, then SELECT.
ReservedChild(k) == IF edge = NoOne THEN k ELSE edge

\* The parent is owned; a fork is executed by the owner of its source.
Reserve(k, i) ==
    /\ at[k] = "idle"
    /\ Overlap \/ \A l \in Calls : ~Running(l)
    /\ up[i] = "up"
    /\ Owns(i)
    /\ edge' = ReservedChild(k)
    /\ host' = [host EXCEPT ![k] = i]
    /\ at' = [at EXCEPT ![k] = "reserved"]
    /\ UNCHANGED <<leaseVars, open, child, work, answer>>

\* createOwned or forkOwned check the lease once more.
SpawnOwned(k) ==
    /\ at[k] = "reserved"
    /\ \/ /\ Owns(host[k])
          /\ at' = [at EXCEPT ![k] = "owned"]
          /\ UNCHANGED host
       \/ /\ ~Owns(host[k])
          /\ Fail(k)
    /\ UNCHANGED <<leaseVars, edge, open, child, work, answer>>

\* A child that is ready is returned as it is.
LoadChild(k) ==
    /\ at[k] = "owned"
    /\ at' = [at EXCEPT ![k] = CASE child = "ready" -> "made"
                                 [] child = "none" -> "creating"
                                 [] OTHER -> "filling"]
    /\ UNCHANGED <<leaseVars, host, edge, open, child, work, answer>>

\* CreateWithID saves an empty session, whether or not there is one.
CreateWithID(k) ==
    /\ at[k] = "creating"
    /\ child' = "blank" /\ work' = FALSE
    /\ at' = [at EXCEPT ![k] = "created"]
    /\ UNCHANGED <<leaseVars, host, edge, open, answer>>

\* A fork marks the new session before it copies the history.
MarkReserved(k, fork) ==
    /\ at[k] = "created"
    /\ IF fork THEN child' = "reserved" /\ work' = FALSE ELSE UNCHANGED <<child, work>>
    /\ at' = [at EXCEPT ![k] = "filling"]
    /\ UNCHANGED <<leaseVars, host, edge, open, answer>>

\* The history and the ready mark are saved together; the source may refuse.
SaveReady(k) ==
    /\ at[k] = "filling"
    /\ child' = "ready" /\ work' = FALSE
    /\ at' = [at EXCEPT ![k] = "made"]
    /\ UNCHANGED <<leaseVars, host, edge, open, answer>>

RefuseSource(k) ==
    /\ at[k] = "filling"
    /\ Fail(k)
    /\ UNCHANGED <<leaseVars, edge, open, child, work, answer>>

\* completeSpawn comes after the child is saved.
CompleteSpawn(k) ==
    /\ at[k] = "made"
    /\ open' = TRUE
    /\ at' = [at EXCEPT ![k] = "completed"]
    /\ UNCHANGED <<leaseVars, host, edge, child, work, answer>>

\* The child is claimed for the caller (its lease is left out) and reported.
ReturnChild(k) ==
    /\ at[k] = "completed"
    /\ answer' = [answer EXCEPT ![k] = edge]
    /\ at' = [at EXCEPT ![k] = "returned"]
    /\ host' = [host EXCEPT ![k] = NoOne]
    /\ UNCHANGED <<leaseVars, edge, open, child, work>>

\* The answer of a remote owner is lost or late; its work is done.
LoseAnswer(k) ==
    /\ at[k] = "completed"
    /\ Fail(k)
    /\ UNCHANGED <<leaseVars, edge, open, child, work, answer>>

\* Somebody who was told of the child talks to it.
UseChild ==
    /\ \E k \in Calls : at[k] = "returned"
    /\ ~work
    /\ work' = TRUE
    /\ UNCHANGED <<leaseVars, at, host, edge, open, child, answer>>

SpawnStep(k) ==
    \/ SpawnOwned(k) \/ LoadChild(k) \/ CreateWithID(k)
    \/ \E fork \in BOOLEAN : MarkReserved(k, fork)
    \/ SaveReady(k) \/ RefuseSource(k) \/ CompleteSpawn(k) \/ ReturnChild(k) \/ LoseAnswer(k)

-----------------------------------------------------------------------------
ControlNext ==
    \/ \E i \in Instances :
          \/ Start(i) \/ HeartbeatFail(i) \/ \E ok \in BOOLEAN : HeartbeatCommit(i, ok)
          \/ \E kind \in {"ticker", "other"} : HeartbeatBegin(i, kind)
          \/ ClaimKnownSession(i) \/ Close(i) \/ ReleaseLeases(i) \/ CloseDatabase(i) \/ Crash(i)
    \/ Tick
    \/ \E k \in Calls : SpawnStep(k) \/ \E i \in Instances : Reserve(k, i)
    \/ UseChild

ControlSpec == ControlInit /\ [][ControlNext]_controlVars

(***************************************************************************)
(* The clock goes on, the ticker of a running instance ticks, the list of  *)
(* sessions does not fail for ever, a statement gets the database, and     *)
(* Close, which waits for no caller, ends.                                 *)
(***************************************************************************)
ControlFairness ==
    /\ WF_controlVars(Tick)
    /\ \A i \in Instances :
          /\ WF_controlVars(HeartbeatBegin(i, "ticker"))
          /\ SF_controlVars(HeartbeatCommit(i, TRUE))
          /\ WF_controlVars(ReleaseLeases(i) \/ CloseDatabase(i))

ControlFairSpec == ControlSpec /\ ControlFairness

-----------------------------------------------------------------------------
(***************************************************************************)
(* Type correctness.                                                       *)
(***************************************************************************)
ControlTypeOK ==
    /\ up \in [Instances -> {"down", "up", "closing", "released", "closed", "crashed"}]
    /\ owner \in Instances \cup {NoOne}
    /\ left \in -MaxLag..LeaseTTL
    /\ beat \in [Instances -> {"none", "ticker", "other"}]
    /\ lag \in [Instances -> 0..MaxLag]
    /\ at \in [Calls -> {"idle", "reserved", "owned", "creating", "created", "filling", "made",
                         "completed", "returned", "failed"}]
    /\ host \in [Calls -> Instances \cup {NoOne}]
    /\ edge \in Calls \cup {NoOne} /\ open \in BOOLEAN
    /\ child \in {"none", "blank", "reserved", "ready"} /\ work \in BOOLEAN
    /\ answer \in [Calls -> Calls \cup {NoOne}]

(***************************************************************************)
(* An unexpired lease cannot be stolen, although every statement compares  *)
(* it with a clock that was read before it waited for the database: it     *)
(* stays with its owner until it expires or its owner releases it          *)
(* (Heartbeat, ClaimKnownSession, releaseLeases).                          *)
(***************************************************************************)
LeaseNotStolen ==
    [][owner # NoOne /\ left > 0 =>
          \/ owner' = owner
          \/ owner' = NoOne /\ up[owner] = "closing" /\ up'[owner] = "released"]_controlVars

(***************************************************************************)
(* The session of an instance that crashed is reclaimed: while some        *)
(* instance stays up, a running instance owns the session again and again. *)
(***************************************************************************)
Reclaimed ==
    (\E j \in Instances : <>[](up[j] = "up")) =>
        []<>(owner # NoOne /\ up[owner] = "up" /\ left > 0)

(***************************************************************************)
(* A request makes one child: every attempt that is answered reports the   *)
(* same one, which is complete and whose edge is open, and an open edge    *)
(* means a complete child, wherever earlier attempts crashed or failed     *)
(* (reserveSpawn, CreateSession and ForkSession of the target).            *)
(***************************************************************************)
OneChild ==
    /\ \A k \in Calls : at[k] = "returned" => answer[k] = edge /\ open
    /\ \A k, l \in Calls : at[k] = "returned" /\ at[l] = "returned" => answer[k] = answer[l]
    /\ open => child = "ready"

(***************************************************************************)
(* The tables are well formed, and a request has one child.                *)
(***************************************************************************)
ControlInv == ControlTypeOK /\ OneChild

(***************************************************************************)
(* The same, while attempts of one request may overlap: a retry never      *)
(* takes away what the child has received.                                 *)
(***************************************************************************)
ChildKeepsWork == [][work => work']_controlVars

(***************************************************************************)
(* Graceful shutdown releases leases immediately: no row names an instance *)
(* whose manager is closed.                                                *)
(***************************************************************************)
ClosedOwnsNothing == \A i \in Instances : up[i] = "closed" => owner # i
=============================================================================
