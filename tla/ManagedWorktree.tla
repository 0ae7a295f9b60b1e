--------------------------- MODULE ManagedWorktree ---------------------------
(***************************************************************************)
(* One managed Git worktree (internal/managedworktree/manager.go): its     *)
(* durable reservation, the checkout and the branch Git keeps for it, the  *)
(* conversation that lives in it, and the calls that race on them: Create  *)
(* and its retries, Remove and its retries, the turns that hold a guard,   *)
(* and the reconciliation at startup.                                      *)
(*                                                                         *)
(* A call works on a copy of the record it read and writes the whole copy  *)
(* back: UpdateWorktree compares nothing.                                  *)
(***************************************************************************)
EXTENDS Naturals, FiniteSets

CONSTANTS
    Creates,    \* Create calls with the same client_request_id
    Removes,    \* Remove calls
    Requests,   \* their request ids
    Forced,     \* the requests that ask for force
    Turns,      \* turns of the conversation
    Overlap,    \* whether a Create may run while a Remove does
    MaxCrashes, \* bound on crashes
    Boot,       \* the reconciliation of the current process
    NoRequest

ASSUME WorktreeAssumption ==
    /\ MaxCrashes \in Nat
    /\ Overlap \in BOOLEAN
    /\ Forced \subseteq Requests
    /\ NoRequest \notin Requests
    /\ Boot \notin Creates \cup Removes

VARIABLES
    rec,       \* the row of managed_worktrees
    disk,      \* the checkout: absent, ok, moved (another branch), gone (a user deleted it)
    listed,    \* git worktree list names it
    branch,    \* its branch exists
    dirty,     \* the checkout holds uncommitted work
    sess,      \* the conversation: none, blank, or the state its metadata shows
    at,        \* where a call is
    copy,      \* the record it works on
    asks,      \* the request id of a Remove call
    turn,      \* where a turn is
    removing,  \* Manager.removing
    process,   \* down, booting, up
    crashes,   \* crashes so far
    consented  \* a forced removal was accepted

gitVars == <<disk, listed, branch, dirty>>
memory == <<at, copy, asks, turn, removing>>
worktreeVars == <<rec, gitVars, sess, memory, process, crashes, consented>>

Calls == Creates \cup Removes \cup {Boot}

NoRecord == [state |-> "none", code |-> "none", req |-> NoRequest, force |-> FALSE]
Wrote(r, state, code) == [r EXCEPT !.state = state, !.code = code]

WorktreeInit ==
    /\ rec = NoRecord
    /\ disk = "absent" /\ listed = FALSE /\ branch = FALSE /\ dirty = FALSE
    /\ sess = "none"
    /\ at = [c \in Calls |-> "idle"]
    /\ copy = [c \in Calls \cup Turns |-> NoRecord]
    /\ asks = [c \in Removes |-> NoRequest]
    /\ turn = [t \in Turns |-> "idle"]
    /\ removing = FALSE
    /\ process = "down"
    /\ crashes = 0
    /\ consented = FALSE

-----------------------------------------------------------------------------
Present == disk \in {"ok", "moved"}
Working(c) == at[c] \notin {"idle", "done"}
Guards == {t \in Turns : turn[t] \in {"guarded", "read", "running"}}

\* HasActivity: the scheduler holds a turn of the session.
Busy == \E t \in Turns : turn[t] # "idle"

Goto(c, label) == at' = [at EXCEPT ![c] = label]
Keep(c, r) == copy' = [copy EXCEPT ![c] = r]
Finish(c) == Goto(c, "done") /\ Keep(c, NoRecord)

\* Mutant: a removal does not look at the turns.
NoOtherRemoval == ~removing

\* beginRemoval succeeds.
MayRemove == ~removing /\ Guards = {}

-----------------------------------------------------------------------------
(***************************************************************************)
(* Startup: ListWorktrees, then reconcileRecord; only then is it serving.  *)
(***************************************************************************)
Startup ==
    /\ process = "down"
    /\ process' = "booting"
    /\ at' = [at EXCEPT ![Boot] = "reconcile"]
    /\ copy' = [copy EXCEPT ![Boot] = rec]
    /\ UNCHANGED <<rec, gitVars, sess, asks, turn, removing, crashes, consented>>

Serve ==
    /\ process = "booting"
    /\ ~Working(Boot)
    /\ process' = "up"
    /\ UNCHANGED <<rec, gitVars, sess, memory, crashes, consented>>

\* Create holds the lock of its client_request_id and looks the record up.
Create(c) ==
    /\ process = "up"
    /\ at[c] = "idle"
    /\ \A d \in Creates : ~Working(d)
    /\ Overlap \/ \A d \in Removes : ~Working(d)
    /\ Keep(c, rec)
    /\ Goto(c, IF rec.state = "none" THEN "reserve" ELSE "reconcile")
    /\ UNCHANGED <<rec, gitVars, sess, asks, turn, removing, process, crashes, consented>>

Reserve(c) ==
    /\ at[c] = "reserve"
    /\ rec' = [NoRecord EXCEPT !.state = "reserved"]
    /\ Keep(c, rec')
    /\ Goto(c, "provisioning")
    /\ UNCHANGED <<gitVars, sess, asks, turn, removing, process, crashes, consented>>

MarkProvisioning(c) ==
    /\ at[c] = "provisioning"
    /\ rec' = [copy[c] EXCEPT !.state = "provisioning"]
    /\ Keep(c, rec')
    /\ Goto(c, "provision")
    /\ UNCHANGED <<gitVars, sess, asks, turn, removing, process, crashes, consented>>

\* Mutant: the checkout alone makes the record ready.
ReadyAtOnce(c) == Goto(c, "write") /\ Keep(c, Wrote(copy[c], "ready", "none"))

\* The session comes before the ready record.
FinalizeReady(c) == Goto(c, "load") /\ UNCHANGED copy

\* provision: neither the path nor the branch may exist; then git worktree add,
\* which may fail before or after it made the branch.
Provision(c) ==
    /\ at[c] = "provision"
    /\ \/ /\ Present \/ branch
          /\ Keep(c, Wrote(copy[c], "failed", "conflict"))
          /\ Goto(c, "write")
          /\ UNCHANGED gitVars
       \/ /\ ~Present /\ ~branch
          /\ disk' = "ok" /\ listed' = TRUE /\ branch' = TRUE /\ dirty' = FALSE
          /\ FinalizeReady(c)
       \/ /\ ~Present /\ ~branch
          /\ branch' \in BOOLEAN
          /\ Keep(c, Wrote(copy[c], "failed", "other"))
          /\ Goto(c, "write")
          /\ UNCHANGED <<disk, listed, dirty>>
    /\ UNCHANGED <<rec, sess, asks, turn, removing, process, crashes, consented>>

\* The session is loaded or, when there is none, created.
LoadSession(c) ==
    /\ at[c] = "load"
    /\ sess' = IF sess = "none" THEN "blank" ELSE sess
    /\ Goto(c, "save")
    /\ UNCHANGED <<rec, gitVars, copy, asks, turn, removing, process, crashes, consented>>

\* attachSessionMetadata and Save.
SaveSession(c) ==
    /\ at[c] = "save"
    /\ sess' = "ready"
    /\ Keep(c, Wrote(copy[c], "ready", "none"))
    /\ Goto(c, "write")
    /\ UNCHANGED <<rec, gitVars, asks, turn, removing, process, crashes, consented>>

\* UpdateWorktree with the copy: ready, failed or missing. The session follows
\* a missing record when it can be loaded and saved; errors are ignored.
WriteBack(c) ==
    /\ at[c] = "write"
    /\ rec' = copy[c]
    /\ sess' \in {sess} \cup (IF copy[c].state = "missing" /\ sess # "none" THEN {"missing"} ELSE {})
    /\ Finish(c)
    /\ UNCHANGED <<gitVars, asks, turn, removing, process, crashes, consented>>

-----------------------------------------------------------------------------
(***************************************************************************)
(* reconcileRecord, at startup or in a repeated Create.                    *)
(***************************************************************************)
\* Mutant: a removal that was interrupted is left alone.
SettledOrRemoving(state) == state \in {"none", "removed", "removing"}

\* Nothing is left to do for a record in this state (none: there is no record).
Settled(state) == state \in {"none", "removed"}

ReconcileSettled(c) ==
    /\ at[c] = "reconcile"
    /\ Settled(copy[c].state)
    /\ Finish(c)
    /\ UNCHANGED <<rec, gitVars, sess, asks, turn, removing, process, crashes, consented>>

ReconcileRemoval(c) ==
    /\ at[c] = "reconcile"
    /\ ~Settled(copy[c].state)
    /\ copy[c].state \in {"removing", "remove_failed"}
    /\ \/ MayRemove /\ removing' = TRUE /\ Goto(c, "git_remove") /\ UNCHANGED copy
       \/ ~MayRemove /\ Finish(c) /\ UNCHANGED removing
    /\ UNCHANGED <<rec, gitVars, sess, asks, turn, process, crashes, consented>>

Provisional == {"reserved", "provisioning", "ready", "failed", "missing"}

\* verifyCheckout of an existing checkout: its branch must be the reserved one.
ReconcilePresent(c) ==
    /\ at[c] = "reconcile"
    /\ copy[c].state \in Provisional
    /\ Present
    /\ \/ disk = "ok" /\ FinalizeReady(c)
       \/ disk = "moved" /\ Goto(c, "write") /\ Keep(c, Wrote(copy[c], "failed", "conflict"))
    /\ UNCHANGED <<rec, gitVars, sess, asks, turn, removing, process, crashes, consented>>

ReconcileAbsent(c) ==
    /\ at[c] = "reconcile"
    /\ copy[c].state \in Provisional
    /\ ~Present
    /\ LET lost == copy[c].state \in {"ready", "missing"} \/ listed
           refused == copy[c].state = "failed" /\ copy[c].code = "conflict"
       IN \/ lost /\ Goto(c, "write") /\ Keep(c, Wrote(copy[c], "missing", "other"))
          \/ ~lost /\ refused /\ Finish(c)
          \/ ~lost /\ ~refused /\ Goto(c, "provisioning") /\ UNCHANGED copy
    /\ UNCHANGED <<rec, gitVars, sess, asks, turn, removing, process, crashes, consented>>

-----------------------------------------------------------------------------
(***************************************************************************)
(* Remove.                                                                 *)
(***************************************************************************)
\* Under the lock of the session: the record is read. A repeated request
\* resumes its removal or returns the record as it is.
Remove(c, q) ==
    /\ process = "up"
    /\ at[c] = "idle"
    /\ \A d \in Removes : ~Working(d)
    /\ Overlap \/ \A d \in Creates : ~Working(d)
    /\ asks' = [asks EXCEPT ![c] = q]
    /\ LET again == rec.req = q
           resumes == again /\ rec.state \in {"removing", "remove_failed"}
           ends == rec.state \in {"none", "removed"} \/ (again /\ ~resumes)
       IN \/ ends /\ Finish(c)
          \/ ~ends /\ Keep(c, rec) /\ Goto(c, IF resumes THEN "resume" ELSE "begin")
    /\ UNCHANGED <<rec, gitVars, sess, turn, removing, process, crashes, consented>>

ResumeRemoval(c) ==
    /\ at[c] = "resume"
    /\ \/ MayRemove /\ removing' = TRUE /\ Goto(c, "git_remove") /\ UNCHANGED copy
       \/ ~MayRemove /\ Finish(c) /\ UNCHANGED removing
    /\ UNCHANGED <<rec, gitVars, sess, asks, turn, process, crashes, consented>>

BeginRemoval(c) ==
    /\ at[c] = "begin"
    /\ \/ ~Busy /\ MayRemove /\ removing' = TRUE /\ Goto(c, "inspect") /\ UNCHANGED copy
       \/ (Busy \/ ~MayRemove) /\ Finish(c) /\ UNCHANGED removing
    /\ UNCHANGED <<rec, gitVars, sess, asks, turn, process, crashes, consented>>

\* Busy is asked again; then, without force, removalRisk: the checkout must be
\* there, on its branch and clean. Its new commits, too, may refuse the call.
Inspect(c) ==
    /\ at[c] = "inspect"
    /\ \/ /\ ~Busy
          /\ asks[c] \in Forced \/ (disk = "ok" /\ ~dirty)
          /\ Goto(c, "removing")
          /\ UNCHANGED <<copy, removing>>
       \/ /\ Busy \/ asks[c] \notin Forced
          /\ removing' = FALSE
          /\ Finish(c)
    /\ UNCHANGED <<rec, gitVars, sess, asks, turn, process, crashes, consented>>

WriteRemoving(c) ==
    /\ at[c] = "removing"
    /\ rec' = [state |-> "removing", code |-> "none", req |-> asks[c], force |-> asks[c] \in Forced]
    /\ consented' = (consented \/ asks[c] \in Forced)
    /\ Keep(c, rec')
    /\ Goto(c, "git_remove")
    /\ UNCHANGED <<gitVars, sess, asks, turn, removing, process, crashes>>

\* Mutant: the force of the request is not the one that was recorded.
AlwaysForce(c) == TRUE

\* git worktree remove gets --force.
UsesForce(c) == copy[c].force

\* Without force Git keeps a checkout with uncommitted work; it may also fail.
\* A failure counts only while Git still lists the checkout.
GitRemove(c) ==
    /\ at[c] = "git_remove"
    /\ \/ /\ listed
          /\ Present /\ dirty => UsesForce(c)
          /\ disk' = "absent" /\ listed' = FALSE /\ dirty' = FALSE
          /\ Keep(c, Wrote(copy[c], "removed", "none"))
       \/ /\ Keep(c, IF listed THEN Wrote(copy[c], "remove_failed", "other")
                               ELSE Wrote(copy[c], "removed", "none"))
          /\ UNCHANGED <<disk, listed, dirty>>
    /\ Goto(c, "removed")
    /\ UNCHANGED <<rec, branch, sess, asks, turn, removing, process, crashes, consented>>

\* The outcome is written and, if possible, shown by the session; endRemoval.
WriteRemoved(c) ==
    /\ at[c] = "removed"
    /\ rec' = copy[c]
    /\ sess' \in {sess} \cup (IF copy[c].state = "removed" /\ sess # "none" THEN {"removed"} ELSE {})
    /\ removing' = FALSE
    /\ Finish(c)
    /\ UNCHANGED <<gitVars, asks, turn, process, crashes, consented>>

-----------------------------------------------------------------------------
(***************************************************************************)
(* Turns: AcquireTurnGuard around the execution.                           *)
(***************************************************************************)
\* The scheduler holds a turn of the conversation.
TurnQueued(t) ==
    /\ process = "up"
    /\ turn[t] = "idle"
    /\ sess # "none"
    /\ turn' = [turn EXCEPT ![t] = "queued"]
    /\ UNCHANGED <<rec, gitVars, sess, at, copy, asks, removing, process, crashes, consented>>

TurnGuard(t) ==
    /\ turn[t] = "queued"
    /\ turn' = [turn EXCEPT ![t] = IF removing THEN "idle" ELSE "guarded"]
    /\ UNCHANGED <<rec, gitVars, sess, at, copy, asks, removing, process, crashes, consented>>

TurnRead(t) ==
    /\ turn[t] = "guarded"
    /\ turn' = [turn EXCEPT ![t] = IF rec.state = "ready" THEN "read" ELSE "idle"]
    /\ copy' = [copy EXCEPT ![t] = IF rec.state = "ready" THEN rec ELSE NoRecord]
    /\ UNCHANGED <<rec, gitVars, sess, at, asks, removing, process, crashes, consented>>

\* The checkout is looked at; a failure is recorded and the guard released.
TurnVerify(t) ==
    /\ turn[t] = "read"
    /\ \/ /\ disk = "ok"
          /\ turn' = [turn EXCEPT ![t] = "running"]
          /\ UNCHANGED <<rec, sess>>
       \/ /\ disk # "ok"
          /\ turn' = [turn EXCEPT ![t] = "idle"]
          /\ rec' = IF Present THEN Wrote(copy[t], "failed", "conflict")
                               ELSE Wrote(copy[t], "missing", "other")
          /\ sess' \in {sess} \cup (IF Present THEN {} ELSE {"missing"})
    /\ Keep(t, NoRecord)
    /\ UNCHANGED <<gitVars, at, asks, removing, process, crashes, consented>>

TurnWorks(t) ==
    /\ turn[t] = "running"
    /\ Present /\ ~dirty
    /\ dirty' = TRUE
    /\ UNCHANGED <<rec, disk, listed, branch, sess, memory, process, crashes, consented>>

TurnEnds(t) ==
    /\ turn[t] = "running"
    /\ turn' = [turn EXCEPT ![t] = "idle"]
    /\ UNCHANGED <<rec, gitVars, sess, at, copy, asks, removing, process, crashes, consented>>

\* A user works in the checkout, changes its branch or deletes it.
UserActs ==
    /\ Present
    /\ \/ dirty' = TRUE /\ ~dirty /\ UNCHANGED disk
       \/ disk' \in {"ok", "moved"} \ {disk} /\ UNCHANGED dirty
       \/ disk' = "gone" /\ dirty' = FALSE
    /\ UNCHANGED <<rec, listed, branch, sess, memory, process, crashes, consented>>

\* The memory of the process is lost; an interrupted git worktree add may have
\* left the branch behind. The calls that were answered stay answered.
Crash ==
    /\ process # "down"
    /\ crashes < MaxCrashes
    /\ crashes' = crashes + 1
    /\ process' = "down"
    /\ branch' \in {branch} \cup (IF \E c \in Calls : at[c] = "provision" THEN {TRUE} ELSE {})
    /\ at' = [c \in Calls |-> IF at[c] = "idle" THEN "idle" ELSE "done"]
    /\ copy' = [c \in Calls \cup Turns |-> NoRecord]
    /\ asks' = [c \in Removes |-> NoRequest]
    /\ turn' = [t \in Turns |-> "idle"]
    /\ removing' = FALSE
    /\ UNCHANGED <<rec, disk, listed, dirty, sess, consented>>

-----------------------------------------------------------------------------
CallStep(c) ==
    \/ Reserve(c) \/ MarkProvisioning(c) \/ Provision(c) \/ LoadSession(c) \/ SaveSession(c)
    \/ WriteBack(c) \/ ReconcileSettled(c) \/ ReconcileRemoval(c) \/ ReconcilePresent(c)
    \/ ReconcileAbsent(c) \/ ResumeRemoval(c) \/ BeginRemoval(c) \/ Inspect(c)
    \/ WriteRemoving(c) \/ GitRemove(c) \/ WriteRemoved(c)

TurnStep(t) == TurnGuard(t) \/ TurnRead(t) \/ TurnVerify(t) \/ TurnEnds(t)

WorktreeNext ==
    \/ Startup \/ Serve \/ Crash \/ UserActs
    \/ \E c \in Creates : Create(c)
    \/ \E c \in Removes, q \in Requests : Remove(c, q)
    \/ \E c \in Calls : CallStep(c)
    \/ \E t \in Turns : TurnQueued(t) \/ TurnStep(t) \/ TurnWorks(t)

WorktreeSpec == WorktreeInit /\ [][WorktreeNext]_worktreeVars

\* A process is started again, and whatever began in it goes on.
WorktreeFairness ==
    /\ WF_worktreeVars(Startup) /\ WF_worktreeVars(Serve)
    /\ \A c \in Calls : WF_worktreeVars(CallStep(c))
    /\ \A t \in Turns : WF_worktreeVars(TurnStep(t))

WorktreeFairSpec == WorktreeSpec /\ WorktreeFairness

-----------------------------------------------------------------------------
(***************************************************************************)
(* Type correctness, and the exclusion that endRemoval restores: the flag  *)
(* is set exactly while one call removes.                                  *)
(***************************************************************************)
WorktreeTypeOK ==
    /\ rec.state \in {"none", "removing", "remove_failed", "removed"} \cup Provisional
    /\ rec.code \in {"none", "conflict", "other"}
    /\ rec.req \in Requests \cup {NoRequest} /\ rec.force \in BOOLEAN
    /\ disk \in {"absent", "ok", "moved", "gone"}
    /\ {listed, branch, dirty, removing, consented} \subseteq BOOLEAN
    /\ sess \in {"none", "blank", "ready", "missing", "removed"}
    /\ asks \in [Removes -> Requests \cup {NoRequest}]
    /\ turn \in [Turns -> {"idle", "queued", "guarded", "read", "running"}]
    /\ Cardinality({c \in Calls : at[c] \in {"inspect", "removing", "git_remove", "removed"}})
          = (IF removing THEN 1 ELSE 0)

(***************************************************************************)
(* The Runtime never takes the checkout away from a turn: whatever Create  *)
(* retries, Remove retries and restarts do, a turn that passed             *)
(* AcquireTurnGuard keeps its checkout until it ends, unless a user        *)
(* deletes it (beginTurnGuard, beginRemoval).                              *)
(***************************************************************************)
TurnKeepsCheckout == \A t \in Turns : turn[t] = "running" => disk # "absent"

(***************************************************************************)
(* Uncommitted work is lost to the Runtime only after somebody asked for   *)
(* it: a checkout that is dirty is removed only if a forced removal was    *)
(* accepted before, also when the removal is resumed by another call or    *)
(* after a crash (Remove, finishRemoval).                                  *)
(***************************************************************************)
WorkKept == [][Present /\ dirty /\ disk' = "absent" => consented]_worktreeVars

(***************************************************************************)
(* A ready record stands for a complete worktree: the branch was made and  *)
(* the conversation was saved with its metadata, wherever an earlier       *)
(* attempt was interrupted (createLocked, finalizeReady).                  *)
(***************************************************************************)
ReadyComplete == rec.state = "ready" => branch /\ sess \notin {"none", "blank"}

(***************************************************************************)
(* The state is well formed, and ready records stand for complete worktrees. *)
(***************************************************************************)
WorktreeInv == WorktreeTypeOK /\ ReadyComplete

(***************************************************************************)
(* No record is left half-way: a reservation that is being provisioned or  *)
(* removed reaches a settled state, crashes included (Reconcile).          *)
(***************************************************************************)
HalfWaySettles ==
    rec.state \in {"reserved", "provisioning", "removing"} ~>
        rec.state \in {"ready", "failed", "missing", "removed", "remove_failed"}

(***************************************************************************)
(* "The request id and force decision are durable so a crash in the        *)
(* removing state can resume" (Remove): a record that is being removed     *)
(* stays so until its removal has an outcome.                              *)
(***************************************************************************)
RemovalDurable ==
    [][rec.state = "removing" => rec'.state \in {"removing", "removed", "remove_failed"}]_worktreeVars
=============================================================================
