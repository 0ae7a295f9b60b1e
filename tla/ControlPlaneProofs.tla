------------------------- MODULE ControlPlaneProofs -------------------------
(***************************************************************************)
(* Proofs about ControlPlane, for every set of instances and of attempts,  *)
(* every length of a lease and every wait for the database shorter than a  *)
(* lease.                                                                  *)
(***************************************************************************)
EXTENDS ControlPlane, TLAPS

(***************************************************************************)
(* Type correctness is inductive.                                          *)
(***************************************************************************)
LEMMA TypeStep ==
    ASSUME ControlTypeOK, [ControlNext]_controlVars
    PROVE  ControlTypeOK'
<1> USE ControlAssumption DEF ControlTypeOK, leaseVars, spawnVars
<1>1. ASSUME NEW i \in Instances, Start(i) PROVE ControlTypeOK'
  <2>1. owner' \in Instances \cup {NoOne} /\ left' \in -MaxLag..LeaseTTL
    BY <1>1 DEF Start, Renew, Claimable, Claim, Free, Expired
  <2> QED
    BY <1>1, <2>1 DEF Start
<1>2. ASSUME NEW i \in Instances, NEW kind \in {"ticker", "other"}, HeartbeatBegin(i, kind)
      PROVE  ControlTypeOK'
  BY <1>2 DEF HeartbeatBegin
<1>3. ASSUME NEW i \in Instances, NEW ok \in BOOLEAN, HeartbeatCommit(i, ok)
      PROVE  ControlTypeOK'
  <2>1. owner' \in Instances \cup {NoOne} /\ left' \in -MaxLag..LeaseTTL
    BY <1>3 DEF HeartbeatCommit, Renew, Claimable, Claim, Free, Expired
  <2> QED
    BY <1>3, <2>1 DEF HeartbeatCommit, HeartbeatEnd
<1>4. ASSUME NEW i \in Instances, HeartbeatFail(i) PROVE ControlTypeOK'
  BY <1>4 DEF HeartbeatFail, HeartbeatEnd
<1>5. ASSUME NEW i \in Instances, ClaimKnownSession(i) PROVE ControlTypeOK'
  BY <1>5 DEF ClaimKnownSession, Claim
<1>6. ASSUME NEW i \in Instances, Close(i) \/ ReleaseLeases(i) PROVE ControlTypeOK'
  BY <1>6 DEF Close, ReleaseLeases, Free
<1>7. ASSUME NEW i \in Instances, CloseDatabase(i) \/ Crash(i) PROVE ControlTypeOK'
  <2>1. /\ at' \in [Calls -> {"idle", "reserved", "owned", "creating", "created", "filling",
                              "made", "completed", "returned", "failed"}]
        /\ host' \in [Calls -> Instances \cup {NoOne}]
    BY <1>7 DEF CloseDatabase, Crash, Abandon
  <2> QED
    BY <1>7, <2>1 DEF CloseDatabase, Crash, HeartbeatEnd
<1>8. CASE Tick
  <2>1. left' \in -MaxLag..LeaseTTL
    BY <1>8 DEF Tick
  <2>2. lag' \in [Instances -> 0..MaxLag]
    BY <1>8 DEF Tick, Waiting
  <2> QED
    BY <1>8, <2>1, <2>2 DEF Tick
<1>9. ASSUME NEW k \in Calls, SpawnStep(k) PROVE ControlTypeOK'
  <2>1. CASE SpawnOwned(k)
    BY <2>1 DEF SpawnOwned, Fail
  <2>2. CASE LoadChild(k)
    BY <2>2 DEF LoadChild
  <2>3. CASE CreateWithID(k) \/ \E fork \in BOOLEAN : MarkReserved(k, fork)
    BY <2>3 DEF CreateWithID, MarkReserved
  <2>4. CASE SaveReady(k) \/ RefuseSource(k)
    BY <2>4 DEF SaveReady, RefuseSource, Fail
  <2>5. CASE CompleteSpawn(k)
    BY <2>5 DEF CompleteSpawn
  <2>6. CASE ReturnChild(k)
    BY <2>6 DEF ReturnChild
  <2>7. CASE LoseAnswer(k)
    BY <2>7 DEF LoseAnswer, Fail
  <2> QED
    BY <1>9, <2>1, <2>2, <2>3, <2>4, <2>5, <2>6, <2>7 DEF SpawnStep
<1>10. ASSUME NEW k \in Calls, NEW i \in Instances, Reserve(k, i) PROVE ControlTypeOK'
  BY <1>10 DEF Reserve, ReservedChild
<1>11. CASE UseChild
  BY <1>11 DEF UseChild
<1>12. CASE UNCHANGED controlVars
  BY <1>12 DEF controlVars
<1> QED
  BY <1>1, <1>2, <1>3, <1>4, <1>5, <1>6, <1>7, <1>8, <1>9, <1>10, <1>11, <1>12 DEF ControlNext

(***************************************************************************)
(* The tables of the control plane are well formed.                        *)
(***************************************************************************)
THEOREM ControlTypeCorrect == ControlSpec => []ControlTypeOK
<1>1. ControlInit => ControlTypeOK
  <2> SUFFICES ASSUME ControlInit PROVE ControlTypeOK
    OBVIOUS
  <2>1. left \in -MaxLag..LeaseTTL /\ lag \in [Instances -> 0..MaxLag]
    BY ControlAssumption DEF ControlInit
  <2>2. open \in BOOLEAN /\ work \in BOOLEAN
    BY Zenon DEF ControlInit
  <2> QED
    BY <2>1, <2>2 DEF ControlInit, ControlTypeOK
<1>2. ControlTypeOK /\ [ControlNext]_controlVars => ControlTypeOK'
  BY TypeStep
<1> QED
  BY <1>1, <1>2, PTL DEF ControlSpec

(***************************************************************************)
(* No step takes a lease that has time left, other than the release of its *)
(* own owner: the age of a clock reading only makes a lease look younger.  *)
(***************************************************************************)
LEMMA LeaseStep ==
    ASSUME ControlTypeOK, ControlNext, owner # NoOne, left > 0
    PROVE  \/ owner' = owner
           \/ owner' = NoOne /\ up[owner] = "closing" /\ up'[owner] = "released"
<1> DEFINE Goal == \/ owner' = owner
                   \/ owner' = NoOne /\ up[owner] = "closing" /\ up'[owner] = "released"
<1> USE ControlAssumption DEF ControlTypeOK, leaseVars
<1>1. ASSUME NEW i \in Instances, Start(i) PROVE Goal
  BY <1>1 DEF Start, Renew, Claimable, Claim, Free, Expired
<1>2. ASSUME NEW i \in Instances, NEW ok \in BOOLEAN, HeartbeatCommit(i, ok) PROVE Goal
  BY <1>2 DEF HeartbeatCommit, Renew, Claimable, Claim, Free, Expired
<1>3. ASSUME NEW i \in Instances, ClaimKnownSession(i) PROVE Goal
  BY <1>3 DEF ClaimKnownSession, Claimable, Claim, Expired
<1>4. ASSUME NEW i \in Instances, ReleaseLeases(i) PROVE Goal
  BY <1>4 DEF ReleaseLeases, Free
<1>5. ASSUME NEW i \in Instances,
             \/ HeartbeatFail(i) \/ Close(i) \/ CloseDatabase(i) \/ Crash(i)
             \/ \E kind \in {"ticker", "other"} : HeartbeatBegin(i, kind)
      PROVE  Goal
  BY <1>5 DEF HeartbeatFail, Close, CloseDatabase, Crash, HeartbeatBegin
<1>6. CASE Tick \/ UseChild
  BY <1>6 DEF Tick, UseChild
<1>7. ASSUME NEW k \in Calls, SpawnStep(k) \/ \E i \in Instances : Reserve(k, i) PROVE Goal
  BY <1>7 DEF SpawnStep, SpawnOwned, LoadChild, CreateWithID, MarkReserved, SaveReady,
              RefuseSource, CompleteSpawn, ReturnChild, LoseAnswer, Reserve
<1> QED
  BY <1>1, <1>2, <1>3, <1>4, <1>5, <1>6, <1>7 DEF ControlNext

(***************************************************************************)
(* An unexpired lease cannot be stolen, for any number of instances, any   *)
(* length of a lease and any wait for the database shorter than it.        *)
(***************************************************************************)
THEOREM LeaseNotStolenAlways == ControlSpec => LeaseNotStolen
<1>1. ControlTypeOK /\ [ControlNext]_controlVars =>
        [owner # NoOne /\ left > 0 =>
           \/ owner' = owner
           \/ owner' = NoOne /\ up[owner] = "closing" /\ up'[owner] = "released"]_controlVars
  BY LeaseStep
<1> QED
  BY <1>1, ControlTypeCorrect, PTL DEF ControlSpec, LeaseNotStolen

(***************************************************************************)
(* The invariant behind OneChild, while attempts of a request follow each  *)
(* other: one attempt runs, it has a reservation, the child is written     *)
(* only while the edge is not open, and it is opened after that.           *)
(***************************************************************************)
SpawnInv ==
    /\ \A k, l \in Calls : Running(k) /\ Running(l) => k = l
    /\ \A k \in Calls : at[k] \notin {"idle", "failed"} => edge # NoOne
    /\ \A k \in Calls : at[k] \in {"creating", "created", "filling"} => ~open
    /\ \A k \in Calls : at[k] \in {"made", "completed"} => child = "ready"
    /\ \A k \in Calls : at[k] \in {"completed", "returned"} => open
    /\ \A k \in Calls : at[k] = "returned" => answer[k] = edge
    /\ open => child = "ready"

(***************************************************************************)
(* SpawnInv is inductive while attempts do not overlap: a step of the      *)
(* target (CreateWithID, Save, completeSpawn) finds no other attempt.      *)
(***************************************************************************)
LEMMA SpawnInvStep ==
    ASSUME ControlTypeOK, SpawnInv, ~Overlap, [ControlNext]_controlVars
    PROVE  SpawnInv'
<1> USE ControlAssumption DEF ControlTypeOK, SpawnInv, Running
<1>1. ASSUME NEW i \in Instances,
             \/ Start(i) \/ HeartbeatFail(i) \/ ClaimKnownSession(i) \/ Close(i)
             \/ ReleaseLeases(i) \/ \E ok \in BOOLEAN : HeartbeatCommit(i, ok)
             \/ \E kind \in {"ticker", "other"} : HeartbeatBegin(i, kind)
      PROVE  SpawnInv'
  <2>1. UNCHANGED spawnVars
    BY <1>1 DEF Start, HeartbeatFail, ClaimKnownSession, Close, ReleaseLeases, HeartbeatCommit,
                HeartbeatBegin
  <2> QED
    BY <2>1 DEF spawnVars
<1>2. ASSUME NEW i \in Instances, CloseDatabase(i) \/ Crash(i) PROVE SpawnInv'
  BY <1>2 DEF CloseDatabase, Crash, Abandon
<1>3. ASSUME NEW k \in Calls, NEW i \in Instances, Reserve(k, i) PROVE SpawnInv'
  BY <1>3 DEF Reserve, ReservedChild
<1>4. ASSUME NEW k \in Calls, SpawnStep(k) PROVE SpawnInv'
  <2>1. CASE SpawnOwned(k)
    BY <2>1 DEF SpawnOwned, Fail
  <2>2. CASE LoadChild(k)
    BY <2>2 DEF LoadChild
  <2>3. CASE CreateWithID(k)
    BY <2>3 DEF CreateWithID
  <2>4. CASE \E fork \in BOOLEAN : MarkReserved(k, fork)
    BY <2>4 DEF MarkReserved
  <2>5. CASE SaveReady(k)
    BY <2>5 DEF SaveReady
  <2>6. CASE RefuseSource(k) \/ LoseAnswer(k)
    BY <2>6 DEF RefuseSource, LoseAnswer, Fail
  <2>7. CASE CompleteSpawn(k)
    BY <2>7 DEF CompleteSpawn
  <2>8. CASE ReturnChild(k)
    BY <2>8 DEF ReturnChild
  <2> QED
    BY <1>4, <2>1, <2>2, <2>3, <2>4, <2>5, <2>6, <2>7, <2>8 DEF SpawnStep
<1>5. CASE Tick \/ UseChild
  BY <1>5 DEF Tick, UseChild, spawnVars
<1>6. CASE UNCHANGED controlVars
  BY <1>6 DEF controlVars, spawnVars
<1> QED
  BY <1>1, <1>2, <1>3, <1>4, <1>5, <1>6 DEF ControlNext

(***************************************************************************)
(* A request makes one child, for any number of attempts and instances,    *)
(* while its attempts do not overlap.                                      *)
(***************************************************************************)
THEOREM OneChildAlways == ~Overlap => (ControlSpec => []ControlInv)
<1> SUFFICES ASSUME ~Overlap PROVE ControlSpec => []ControlInv
  OBVIOUS
<1>1. ControlInit => SpawnInv
  BY DEF ControlInit, SpawnInv, Running
<1>2. ControlTypeOK /\ SpawnInv /\ [ControlNext]_controlVars => SpawnInv'
  BY SpawnInvStep
<1>3. ControlTypeOK /\ SpawnInv => ControlInv
  BY DEF SpawnInv, ControlInv, OneChild
<1> QED
  BY <1>1, <1>2, <1>3, ControlTypeCorrect, PTL DEF ControlSpec
=============================================================================
