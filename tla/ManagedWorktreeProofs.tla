------------------------ MODULE ManagedWorktreeProofs ------------------------
(***************************************************************************)
(* Proofs about ManagedWorktree, for any number of calls, requests, turns  *)
(* and crashes, whether or not Create and Remove overlap.                  *)
(***************************************************************************)
EXTENDS ManagedWorktree, FiniteSetTheorems, TLAPS

States == {"none", "removing", "remove_failed", "removed"} \cup Provisional
Records == [state : States, code : {"none", "conflict", "other"},
            req : Requests \cup {NoRequest}, force : BOOLEAN]
Labels == {"idle", "done", "reconcile", "reserve", "provisioning", "provision", "load", "save",
           "write", "resume", "begin", "inspect", "removing", "git_remove", "removed"}

\* Between beginRemoval and endRemoval.
Phase == {"inspect", "removing", "git_remove", "removed"}

TypeInv ==
    /\ rec \in Records
    /\ disk \in {"absent", "ok", "moved", "gone"}
    /\ listed \in BOOLEAN /\ branch \in BOOLEAN /\ dirty \in BOOLEAN
    /\ removing \in BOOLEAN /\ consented \in BOOLEAN
    /\ sess \in {"none", "blank", "ready", "missing", "removed"}
    /\ at \in [Calls -> Labels]
    /\ \A c \in Calls : at[c] \in {"resume", "begin", "inspect", "removing"} => c \in Removes
    /\ copy \in [Calls \cup Turns -> Records]
    /\ asks \in [Removes -> Requests \cup {NoRequest}]
    /\ turn \in [Turns -> {"idle", "queued", "guarded", "read", "running"}]

(***************************************************************************)
(* The records that calls and turns build are records.                     *)
(***************************************************************************)
LEMMA WroteType ==
    ASSUME NEW r \in Records, NEW s \in States, NEW e \in {"none", "conflict", "other"}
    PROVE  Wrote(r, s, e) \in Records /\ [r EXCEPT !.state = s] \in Records
BY DEF Wrote, Records

(***************************************************************************)
(* A conversation without a reservation has the empty record.              *)
(***************************************************************************)
LEMMA NoRecordType ==
    NoRecord \in Records /\ [NoRecord EXCEPT !.state = "reserved"] \in Records
BY DEF NoRecord, Records, States, Provisional

(***************************************************************************)
(* Type correctness is inductive: steps of calls.                          *)
(***************************************************************************)
LEMMA CallTypeStep ==
    ASSUME TypeInv, NEW c \in Calls, CallStep(c)
    PROVE  TypeInv'
<1> USE DEF TypeInv, Goto, Keep, Finish, gitVars
<1>1. CASE Reserve(c)
  <2>1. rec' \in Records
    BY <1>1, NoRecordType DEF Reserve
  <2> QED
    BY <1>1, <2>1 DEF Reserve, Labels
<1>2. CASE MarkProvisioning(c)
  <2>1. rec' \in Records
    BY <1>2, WroteType DEF MarkProvisioning, States, Provisional
  <2> QED
    BY <1>2, <2>1 DEF MarkProvisioning, Labels
<1> DEFINE W(s, e) == Wrote(copy[c], s, e)
<1>3. /\ W("ready", "none") \in Records /\ W("failed", "conflict") \in Records
      /\ W("failed", "other") \in Records /\ W("missing", "other") \in Records
      /\ W("removed", "none") \in Records /\ W("remove_failed", "other") \in Records
  BY WroteType DEF States, Provisional
<1> HIDE DEF W
<1>4. CASE Provision(c)
  <2>1. CASE Keep(c, W("failed", "conflict")) /\ Goto(c, "write") /\ UNCHANGED gitVars
    BY <1>3, <1>4, <2>1 DEF Provision, Labels
  <2>2. CASE /\ disk' = "ok" /\ listed' = TRUE /\ branch' = TRUE /\ dirty' = FALSE
             /\ FinalizeReady(c)
    BY <1>4, <2>2 DEF Provision, FinalizeReady, Labels
  <2>3. CASE /\ branch' \in BOOLEAN /\ Keep(c, W("failed", "other")) /\ Goto(c, "write")
             /\ UNCHANGED <<disk, listed, dirty>>
    BY <1>3, <1>4, <2>3 DEF Provision, Labels
  <2> QED
    BY <1>4, <2>1, <2>2, <2>3 DEF Provision, W
<1>5. CASE LoadSession(c)
  BY <1>5 DEF LoadSession, Labels
<1>6. CASE SaveSession(c)
  BY <1>3, <1>6 DEF SaveSession, Labels, W
<1>7. CASE WriteBack(c)
  BY <1>7, NoRecordType DEF WriteBack, Labels
<1>8. CASE ReconcileSettled(c)
  BY <1>8, NoRecordType DEF ReconcileSettled, Labels
<1>9. CASE ReconcileRemoval(c)
  BY <1>9, NoRecordType DEF ReconcileRemoval, Labels
<1>10. CASE ReconcilePresent(c)
  BY <1>3, <1>10 DEF ReconcilePresent, FinalizeReady, Labels, W
<1>11. CASE ReconcileAbsent(c)
  BY <1>3, <1>11, NoRecordType DEF ReconcileAbsent, Labels, W
<1>12. CASE ResumeRemoval(c)
  BY <1>12, NoRecordType DEF ResumeRemoval, Labels
<1>13. CASE BeginRemoval(c)
  BY <1>13, NoRecordType DEF BeginRemoval, Labels
<1>14. CASE Inspect(c)
  BY <1>14, NoRecordType DEF Inspect, Labels
<1>15. CASE WriteRemoving(c)
  <2>1. rec' \in Records
    BY <1>15 DEF WriteRemoving, Records, States
  <2>2. consented' \in BOOLEAN
    BY <1>15, Zenon DEF WriteRemoving
  <2> QED
    BY <1>15, <2>1, <2>2 DEF WriteRemoving, Labels
<1>16. CASE GitRemove(c)
  BY <1>3, <1>16 DEF GitRemove, Labels, W
<1>17. CASE WriteRemoved(c)
  BY <1>17, NoRecordType DEF WriteRemoved, Labels
<1> QED
  BY <1>1, <1>2, <1>4, <1>5, <1>6, <1>7, <1>8, <1>9, <1>10, <1>11, <1>12, <1>13, <1>14, <1>15,
     <1>16, <1>17 DEF CallStep

(***************************************************************************)
(* Type correctness is inductive: every step.                              *)
(***************************************************************************)
LEMMA TypeInvStep ==
    ASSUME TypeInv, [WorktreeNext]_worktreeVars
    PROVE  TypeInv'
<1> USE DEF TypeInv, Goto, Keep, Finish, gitVars, memory
<1>1. CASE Startup
  BY <1>1 DEF Startup, Calls, Labels
<1>2. CASE Serve
  BY <1>2 DEF Serve
<1>3. CASE Crash
  BY <1>3, NoRecordType DEF Crash, Labels
<1>4. CASE UserActs
  BY <1>4 DEF UserActs
<1>5. ASSUME NEW c \in Creates, Create(c) PROVE TypeInv'
  BY <1>5 DEF Create, Calls, Labels
<1>6. ASSUME NEW c \in Removes, NEW q \in Requests, Remove(c, q) PROVE TypeInv'
  BY <1>6, NoRecordType DEF Remove, Calls, Labels
<1>7. ASSUME NEW c \in Calls, CallStep(c) PROVE TypeInv'
  BY <1>7, CallTypeStep
<1>8. ASSUME NEW t \in Turns, TurnQueued(t) \/ TurnGuard(t) \/ TurnEnds(t) \/ TurnWorks(t)
      PROVE  TypeInv'
  <2>1. turn' \in [Turns -> {"idle", "queued", "guarded", "read", "running"}]
    BY <1>8 DEF TurnQueued, TurnGuard, TurnEnds, TurnWorks
  <2>2. dirty' \in BOOLEAN
    BY <1>8 DEF TurnQueued, TurnGuard, TurnEnds, TurnWorks
  <2>3. UNCHANGED <<rec, disk, listed, branch, sess, at, copy, asks, removing, consented>>
    BY <1>8 DEF TurnQueued, TurnGuard, TurnEnds, TurnWorks
  <2> QED
    BY <2>1, <2>2, <2>3
<1>9. ASSUME NEW t \in Turns, TurnRead(t) PROVE TypeInv'
  BY <1>9, NoRecordType DEF TurnRead
<1>10. ASSUME NEW t \in Turns, TurnVerify(t) PROVE TypeInv'
  <2>1. Wrote(copy[t], "failed", "conflict") \in Records
        /\ Wrote(copy[t], "missing", "other") \in Records
    BY WroteType DEF States, Provisional
  <2> QED
    BY <1>10, <2>1, NoRecordType DEF TurnVerify
<1>11. CASE UNCHANGED worktreeVars
  BY <1>11 DEF worktreeVars
<1> QED
  BY <1>1, <1>2, <1>3, <1>4, <1>5, <1>6, <1>7, <1>8, <1>9, <1>10, <1>11
     DEF WorktreeNext, TurnStep

-----------------------------------------------------------------------------
(***************************************************************************)
(* The exclusion of removals and turns: at most one call is between        *)
(* beginRemoval and endRemoval, exactly while the flag is set, and then no *)
(* turn holds a guard; a turn that passed the guard has a checkout, and a  *)
(* process that is down runs no call.                                      *)
(***************************************************************************)
ExclusionInv ==
    /\ process = "down" => \A c \in Calls : at[c] \in {"idle", "done"}
    /\ \A c, d \in Calls : at[c] \in Phase /\ at[d] \in Phase => c = d
    /\ \A c \in Calls : at[c] \in Phase => removing
    /\ removing => \E c \in Calls : at[c] \in Phase
    /\ removing => \A t \in Turns : turn[t] \notin {"guarded", "read", "running"}
    /\ \A t \in Turns : turn[t] = "running" => disk # "absent"

(***************************************************************************)
(* Steps of calls keep the exclusion (beginRemoval, endRemoval).           *)
(***************************************************************************)
LEMMA CallExclusionStep ==
    ASSUME TypeInv, ExclusionInv, NEW c \in Calls, CallStep(c)
    PROVE  ExclusionInv'
<1> USE DEF TypeInv, ExclusionInv, Goto, Keep, Finish, gitVars, Phase
<1>1. CASE Reserve(c) \/ MarkProvisioning(c) \/ LoadSession(c) \/ SaveSession(c) \/ WriteBack(c)
           \/ ReconcileSettled(c)
  BY <1>1 DEF Reserve, MarkProvisioning, LoadSession, SaveSession, WriteBack, ReconcileSettled
<1>2. CASE Provision(c)
  BY <1>2 DEF Provision, FinalizeReady
<1>3. CASE ReconcilePresent(c) \/ ReconcileAbsent(c)
  BY <1>3 DEF ReconcilePresent, ReconcileAbsent, FinalizeReady
<1>4. CASE ReconcileRemoval(c)
  BY <1>4 DEF ReconcileRemoval, MayRemove, Guards
<1>5. CASE ResumeRemoval(c)
  BY <1>5 DEF ResumeRemoval, MayRemove, Guards
<1>6. CASE BeginRemoval(c)
  BY <1>6 DEF BeginRemoval, MayRemove, Guards
<1>7. CASE Inspect(c)
  BY <1>7 DEF Inspect
<1>8. CASE WriteRemoving(c)
  BY <1>8 DEF WriteRemoving
<1>9. CASE GitRemove(c)
  BY <1>9 DEF GitRemove
<1>10. CASE WriteRemoved(c)
  BY <1>10 DEF WriteRemoved
<1> QED
  BY <1>1, <1>2, <1>3, <1>4, <1>5, <1>6, <1>7, <1>8, <1>9, <1>10 DEF CallStep

(***************************************************************************)
(* Every step keeps the exclusion (beginTurnGuard, beginRemoval).          *)
(***************************************************************************)
LEMMA ExclusionStep ==
    ASSUME TypeInv, ExclusionInv, [WorktreeNext]_worktreeVars
    PROVE  ExclusionInv'
<1> USE DEF TypeInv, ExclusionInv, Goto, Keep, Finish, gitVars, memory, Phase
<1>1. CASE Startup
  BY <1>1 DEF Startup, Calls
<1>2. CASE Serve
  BY <1>2 DEF Serve
<1>3. CASE Crash
  BY <1>3 DEF Crash
<1>4. CASE UserActs
  BY <1>4 DEF UserActs, Present
<1>5. ASSUME NEW c \in Creates, Create(c) PROVE ExclusionInv'
  BY <1>5 DEF Create, Calls
<1>6. ASSUME NEW c \in Removes, NEW q \in Requests, Remove(c, q) PROVE ExclusionInv'
  BY <1>6 DEF Remove, Calls
<1>7. ASSUME NEW c \in Calls, CallStep(c) PROVE ExclusionInv'
  BY <1>7, CallExclusionStep
<1>8. ASSUME NEW t \in Turns, TurnQueued(t) \/ TurnGuard(t) \/ TurnEnds(t) PROVE ExclusionInv'
  BY <1>8 DEF TurnQueued, TurnGuard, TurnEnds
<1>9. ASSUME NEW t \in Turns, TurnRead(t) PROVE ExclusionInv'
  BY <1>9 DEF TurnRead
<1>10. ASSUME NEW t \in Turns, TurnVerify(t) PROVE ExclusionInv'
  BY <1>10 DEF TurnVerify
<1>11. ASSUME NEW t \in Turns, TurnWorks(t) PROVE ExclusionInv'
  BY <1>11 DEF TurnWorks
<1>12. CASE UNCHANGED worktreeVars
  BY <1>12 DEF worktreeVars
<1> QED
  BY <1>1, <1>2, <1>3, <1>4, <1>5, <1>6, <1>7, <1>8, <1>9, <1>10, <1>11, <1>12
     DEF WorktreeNext, TurnStep

-----------------------------------------------------------------------------
(***************************************************************************)
(* A ready record, in the table or in the hands of a call, stands for a    *)
(* branch and a saved conversation; a call that is about to save the       *)
(* conversation has the branch.                                            *)
(***************************************************************************)
Complete == branch /\ sess \notin {"none", "blank"}
ReadyInv ==
    /\ Present => branch
    /\ \A c \in Calls : at[c] \in {"load", "save"} => branch
    /\ rec.state = "ready" => Complete
    /\ \A x \in Calls \cup Turns : copy[x].state = "ready" => Complete

(***************************************************************************)
(* The states of the records that steps build.                             *)
(***************************************************************************)
LEMMA WroteFields ==
    /\ \A r \in Records : \A s, e : Wrote(r, s, e).state = s /\ Wrote(r, s, e).force = r.force
    /\ NoRecord.state = "none" /\ NoRecord.force = FALSE
BY DEF Wrote, NoRecord, Records

(***************************************************************************)
(* Steps of calls keep it (provision, finalizeReady, reconcileRecord).     *)
(***************************************************************************)
LEMMA CallReadyStep ==
    ASSUME TypeInv, ReadyInv, NEW c \in Calls, CallStep(c)
    PROVE  ReadyInv'
<1> USE DEF TypeInv, ReadyInv, Complete, Present, Goto, Keep, Finish, gitVars
<1>1. CASE Reserve(c)
  BY <1>1 DEF Reserve, NoRecord
<1>2. CASE MarkProvisioning(c)
  <2>1. rec'.state = "provisioning"
    BY <1>2 DEF MarkProvisioning, Records
  <2> QED
    BY <1>2, <2>1 DEF MarkProvisioning
<1>3. CASE Provision(c)
  BY <1>3, WroteFields DEF Provision, FinalizeReady
<1>4. CASE LoadSession(c)
  BY <1>4 DEF LoadSession
<1>5. CASE SaveSession(c)
  BY <1>5, WroteFields DEF SaveSession
<1>6. CASE WriteBack(c)
  BY <1>6, WroteFields DEF WriteBack
<1>7. CASE ReconcileSettled(c)
  BY <1>7, WroteFields DEF ReconcileSettled
<1>8. CASE ReconcileRemoval(c)
  BY <1>8, WroteFields DEF ReconcileRemoval
<1>9. CASE ReconcilePresent(c)
  BY <1>9, WroteFields DEF ReconcilePresent, FinalizeReady
<1>10. CASE ReconcileAbsent(c)
  BY <1>10, WroteFields DEF ReconcileAbsent
<1>11. CASE ResumeRemoval(c) \/ BeginRemoval(c)
  BY <1>11, WroteFields DEF ResumeRemoval, BeginRemoval
<1>12. CASE Inspect(c)
  BY <1>12, WroteFields DEF Inspect
<1>13. CASE WriteRemoving(c)
  <2>1. rec'.state = "removing"
    BY <1>13 DEF WriteRemoving
  <2> QED
    BY <1>13, <2>1 DEF WriteRemoving
<1>14. CASE GitRemove(c)
  BY <1>14, WroteFields DEF GitRemove
<1>15. CASE WriteRemoved(c)
  BY <1>15, WroteFields DEF WriteRemoved
<1> QED
  BY <1>1, <1>2, <1>3, <1>4, <1>5, <1>6, <1>7, <1>8, <1>9, <1>10, <1>11, <1>12, <1>13, <1>14,
     <1>15 DEF CallStep

(***************************************************************************)
(* Every step keeps it.                                                    *)
(***************************************************************************)
LEMMA ReadyStep ==
    ASSUME TypeInv, ReadyInv, [WorktreeNext]_worktreeVars
    PROVE  ReadyInv'
<1> USE DEF TypeInv, ReadyInv, Complete, Present, Goto, Keep, Finish, gitVars, memory
<1>1. CASE Startup
  BY <1>1 DEF Startup, Calls
<1>2. CASE Serve
  BY <1>2 DEF Serve
<1>3. CASE Crash
  BY <1>3, WroteFields DEF Crash
<1>4. CASE UserActs
  BY <1>4 DEF UserActs
<1>5. ASSUME NEW c \in Creates, Create(c) PROVE ReadyInv'
  BY <1>5 DEF Create, Calls
<1>6. ASSUME NEW c \in Removes, NEW q \in Requests, Remove(c, q) PROVE ReadyInv'
  BY <1>6, WroteFields DEF Remove, Calls
<1>7. ASSUME NEW c \in Calls, CallStep(c) PROVE ReadyInv'
  BY <1>7, CallReadyStep
<1>8. ASSUME NEW t \in Turns, TurnQueued(t) \/ TurnGuard(t) \/ TurnEnds(t) \/ TurnWorks(t)
      PROVE  ReadyInv'
  BY <1>8 DEF TurnQueued, TurnGuard, TurnEnds, TurnWorks
<1>9. ASSUME NEW t \in Turns, TurnRead(t) PROVE ReadyInv'
  BY <1>9, WroteFields DEF TurnRead
<1>10. ASSUME NEW t \in Turns, TurnVerify(t) PROVE ReadyInv'
  BY <1>10, WroteFields DEF TurnVerify
<1>11. CASE UNCHANGED worktreeVars
  BY <1>11 DEF worktreeVars
<1> QED
  BY <1>1, <1>2, <1>3, <1>4, <1>5, <1>6, <1>7, <1>8, <1>9, <1>10, <1>11
     DEF WorktreeNext, TurnStep

-----------------------------------------------------------------------------
(***************************************************************************)
(* A force that is recorded, in the table or in the hands of a call, was   *)
(* asked for by a request that was accepted.                               *)
(***************************************************************************)
ConsentInv ==
    /\ rec.force => consented
    /\ \A x \in Calls \cup Turns : copy[x].force => consented

(***************************************************************************)
(* Only WriteRemoving records a force (Remove); every other step hands on  *)
(* the one it read.                                                        *)
(***************************************************************************)
LEMMA ConsentStep ==
    ASSUME TypeInv, ConsentInv, [WorktreeNext]_worktreeVars
    PROVE  ConsentInv'
<1> USE DEF TypeInv, ConsentInv, Goto, Keep, Finish, gitVars, memory
<1>1. CASE Startup \/ Serve \/ UserActs
  BY <1>1 DEF Startup, Serve, UserActs, Calls
<1>2. CASE Crash
  BY <1>2, WroteFields DEF Crash
<1>3. ASSUME NEW c \in Creates, Create(c) PROVE ConsentInv'
  BY <1>3 DEF Create, Calls
<1>4. ASSUME NEW c \in Removes, NEW q \in Requests, Remove(c, q) PROVE ConsentInv'
  BY <1>4, WroteFields DEF Remove, Calls
<1>5. ASSUME NEW c \in Calls, CallStep(c) PROVE ConsentInv'
  <2>1. CASE Reserve(c)
    BY <2>1 DEF Reserve, NoRecord
  <2>2. CASE MarkProvisioning(c)
    <3>1. rec'.force = copy[c].force
      BY <2>2 DEF MarkProvisioning, Records
    <3> QED
      BY <2>2, <3>1 DEF MarkProvisioning
  <2>3. CASE Provision(c) \/ ReconcilePresent(c)
    BY <2>3, WroteFields DEF Provision, ReconcilePresent, FinalizeReady
  <2>4. CASE LoadSession(c) \/ SaveSession(c)
    BY <2>4, WroteFields DEF LoadSession, SaveSession
  <2>5. CASE WriteBack(c)
    BY <2>5, WroteFields DEF WriteBack
  <2>6. CASE ReconcileSettled(c) \/ ReconcileRemoval(c)
    BY <2>6, WroteFields DEF ReconcileSettled, ReconcileRemoval
  <2>7. CASE ReconcileAbsent(c)
    BY <2>7, WroteFields DEF ReconcileAbsent
  <2>8. CASE ResumeRemoval(c) \/ BeginRemoval(c) \/ Inspect(c)
    BY <2>8, WroteFields DEF ResumeRemoval, BeginRemoval, Inspect
  <2>9. CASE WriteRemoving(c)
    <3>1. rec'.force = (asks[c] \in Forced)
      BY <2>9 DEF WriteRemoving
    <3> QED
      BY <2>9, <3>1 DEF WriteRemoving
  <2>10. CASE GitRemove(c)
    BY <2>10, WroteFields DEF GitRemove
  <2>11. CASE WriteRemoved(c)
    BY <2>11, WroteFields DEF WriteRemoved
  <2> QED
    BY <1>5, <2>1, <2>2, <2>3, <2>4, <2>5, <2>6, <2>7, <2>8, <2>9, <2>10, <2>11 DEF CallStep
<1>6. ASSUME NEW t \in Turns, TurnQueued(t) \/ TurnGuard(t) \/ TurnEnds(t) \/ TurnWorks(t)
      PROVE  ConsentInv'
  BY <1>6 DEF TurnQueued, TurnGuard, TurnEnds, TurnWorks
<1>7. ASSUME NEW t \in Turns, TurnRead(t) PROVE ConsentInv'
  BY <1>7, WroteFields DEF TurnRead
<1>8. ASSUME NEW t \in Turns, TurnVerify(t) PROVE ConsentInv'
  BY <1>8, WroteFields DEF TurnVerify
<1>9. CASE UNCHANGED worktreeVars
  BY <1>9 DEF worktreeVars
<1> QED
  BY <1>1, <1>2, <1>3, <1>4, <1>5, <1>6, <1>7, <1>8, <1>9 DEF WorktreeNext, TurnStep

-----------------------------------------------------------------------------
\* The inductive invariant.
WorktreeIInv == TypeInv /\ ExclusionInv /\ ReadyInv /\ ConsentInv

(***************************************************************************)
(* The four parts together are an inductive invariant.                     *)
(***************************************************************************)
THEOREM WorktreeInductive == WorktreeSpec => []WorktreeIInv
<1>1. WorktreeInit => WorktreeIInv
  <2> SUFFICES ASSUME WorktreeInit PROVE WorktreeIInv
    OBVIOUS
  <2>1. NoRecord.state = "none" /\ ~NoRecord.force /\ NoRecord \in Records
    BY WroteFields, NoRecordType
  <2>2. /\ listed \in BOOLEAN /\ branch \in BOOLEAN /\ dirty \in BOOLEAN
        /\ removing \in BOOLEAN /\ consented \in BOOLEAN
    BY Zenon DEF WorktreeInit
  <2>3. TypeInv
    BY <2>1, <2>2 DEF WorktreeInit, TypeInv, Labels
  <2>4. ExclusionInv
    BY DEF WorktreeInit, ExclusionInv, Phase
  <2>5. ReadyInv /\ ConsentInv
    BY <2>1 DEF WorktreeInit, ReadyInv, ConsentInv, Present
  <2> QED
    BY <2>3, <2>4, <2>5 DEF WorktreeIInv
<1>2. WorktreeIInv /\ [WorktreeNext]_worktreeVars => WorktreeIInv'
  BY TypeInvStep, ExclusionStep, ReadyStep, ConsentStep DEF WorktreeIInv
<1> QED
  BY <1>1, <1>2, PTL DEF WorktreeSpec

(***************************************************************************)
(* The Runtime never takes the checkout away from a turn, for any number   *)
(* of calls, turns and crashes (beginTurnGuard, beginRemoval).             *)
(***************************************************************************)
THEOREM TurnKeepsCheckoutAlways == WorktreeSpec => []TurnKeepsCheckout
<1>1. WorktreeIInv => TurnKeepsCheckout
  BY DEF WorktreeIInv, ExclusionInv, TurnKeepsCheckout
<1> QED
  BY <1>1, WorktreeInductive, PTL

(***************************************************************************)
(* The state is well formed, one call at a time removes, and a ready       *)
(* record stands for a complete worktree.                                  *)
(***************************************************************************)
THEOREM WorktreeInvAlways == WorktreeSpec => []WorktreeInv
<1>1. ASSUME WorktreeIInv PROVE WorktreeInv
  <2> DEFINE S == {c \in Calls : at[c] \in Phase}
  <2>1. Cardinality(S) = (IF removing THEN 1 ELSE 0)
    <3>1. CASE removing
      <4>1. PICK c \in Calls : at[c] \in Phase
        BY <1>1, <3>1 DEF WorktreeIInv, ExclusionInv
      <4>2. S = {c}
        BY <1>1, <4>1 DEF WorktreeIInv, ExclusionInv
      <4> HIDE DEF S
      <4> QED
        BY <3>1, <4>2, FS_Singleton
    <3>2. CASE ~removing
      <4>1. S = {}
        BY <1>1, <3>2 DEF WorktreeIInv, ExclusionInv
      <4> HIDE DEF S
      <4> QED
        BY <3>2, <4>1, FS_EmptySet
    <3> QED
      BY <3>1, <3>2
  <2>2. ReadyComplete
    BY <1>1 DEF WorktreeIInv, ReadyInv, Complete, ReadyComplete
  <2>3. WorktreeTypeOK
    BY <1>1, <2>1 DEF WorktreeIInv, TypeInv, WorktreeTypeOK, Records, States, Phase
  <2> QED
    BY <2>2, <2>3 DEF WorktreeInv
<1> QED
  BY <1>1, WorktreeInductive, PTL

(***************************************************************************)
(* Uncommitted work is removed only after a forced removal was accepted,   *)
(* also when another call or a restart finishes it (finishRemoval).        *)
(***************************************************************************)
THEOREM WorkKeptAlways == WorktreeSpec => WorkKept
<1>1. ASSUME WorktreeIInv, WorktreeNext, Present, dirty, disk' = "absent" PROVE consented
  <2> USE <1>1 DEF WorktreeIInv, TypeInv, Present
  <2>1. PICK c \in Calls : GitRemove(c)
    BY DEF WorktreeNext, Startup, Serve, Crash, UserActs, Create, Remove, CallStep, TurnStep,
           Reserve, MarkProvisioning, Provision, LoadSession, SaveSession, WriteBack,
           ReconcileSettled, ReconcileRemoval, ReconcilePresent, ReconcileAbsent, ResumeRemoval,
           BeginRemoval, Inspect, WriteRemoving, WriteRemoved, TurnQueued, TurnGuard, TurnRead,
           TurnVerify, TurnEnds, TurnWorks, gitVars
  <2>2. copy[c].force
    BY <2>1 DEF GitRemove, UsesForce
  <2> QED
    BY <2>2 DEF ConsentInv
<1>2. WorktreeIInv /\ [WorktreeNext]_worktreeVars =>
        [Present /\ dirty /\ disk' = "absent" => consented]_worktreeVars
  BY <1>1
<1> QED
  BY <1>2, WorktreeInductive, PTL DEF WorktreeSpec, WorkKept
=============================================================================
