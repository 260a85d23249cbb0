--------------------------- MODULE LifecycleProofs ---------------------------
(***************************************************************************)
(* Proofs about Lifecycle, for every number of replicas and workers and    *)
(* every choice of the leader election's durations that satisfies          *)
(* TimesAssumption.                                                        *)
(***************************************************************************)
EXTENDS Lifecycle, TLAPS

-----------------------------------------------------------------------------
(* The inductive invariant.  OneActive says nothing of leases; what keeps   *)
(* two leaders apart is that a working one holds the lease and that no      *)
(* candidate can have waited for longer than the holder has been idle.      *)

\* A replica whose controllers are started has acquired the lease and may have given
\* it up, but le.Run has not returned; its workers are at work only between the sync
\* of the caches and wg.Wait.
WorksAsHolder ==
    \A r \in Replicas : /\ Running(r) => le[r] \in {"renew", "lost", "released"}
                        /\ busy[r] > 0 => pc[r] \in {"run", "drain"}

\* An elector that renews has the lease, it has not been idle for too long, and no
\* candidate has known the lease for longer than that.
HolderIsSafe ==
    \A r \in Replicas : Leads(r) =>
        /\ holder = r
        /\ idle[r] <= Deadline + Slack
        /\ \A s \in Replicas \ {r} : news[s] \/ age[s] <= idle[r]

IndInv == TypeOK /\ WorksAsHolder /\ HolderIsSafe

-----------------------------------------------------------------------------

\* The durations as the steps use them.
LEMMA Durations ==
    /\ LeaseDuration \in Nat /\ Deadline \in Nat /\ Slack \in Nat
    /\ Deadline + Slack \in Nat /\ Deadline + Slack < LeaseDuration
BY TimesAssumption DEF Deadline

\* The initial state: nobody holds the lease, nobody works.
LEMMA InitInv == Init => IndInv
<1> SUFFICES ASSUME Init PROVE IndInv
  OBVIOUS
<1>1. TypeOK
  BY Durations, BoundsAssumption DEF Init, TypeOK, PcValues, LeValues
<1>2. WorksAsHolder
  BY DEF Init, WorksAsHolder, Running
<1>3. HolderIsSafe
  BY DEF Init, HolderIsSafe, Leads
<1> QED
  BY <1>1, <1>2, <1>3 DEF IndInv

\* The types of what a process leaves behind when it ends.
LEMMA ExitType ==
    ASSUME TypeOK, NEW r \in Replicas, Exit(r)
    PROVE  /\ pc' \in [Replicas -> PcValues] /\ le' \in [Replicas -> LeValues]
           /\ stopCh' \in [Replicas -> BOOLEAN]
           /\ age' \in [Replicas -> 0 .. LeaseDuration] /\ idle' \in [Replicas -> 0 .. LeaseDuration]
           /\ items' \in [Replicas -> 0 .. MaxItems] /\ busy' \in [Replicas -> 0 .. Workers]
<1> USE DEF TypeOK, Exit
<1>1. pc' \in [Replicas -> PcValues] /\ le' \in [Replicas -> LeValues]
  BY DEF PcValues, LeValues
<1>2. stopCh' \in [Replicas -> BOOLEAN]
  OBVIOUS
<1>3. age' \in [Replicas -> 0 .. LeaseDuration] /\ idle' \in [Replicas -> 0 .. LeaseDuration]
  BY Durations
<1>4. items' \in [Replicas -> 0 .. MaxItems] /\ busy' \in [Replicas -> 0 .. Workers]
  BY BoundsAssumption
<1> QED
  BY <1>1, <1>2, <1>3, <1>4

\* Every step of a replica, and a tick, keeps the types.
LEMMA TypeStep == ASSUME IndInv, [Next]_vars PROVE TypeOK'
<1> USE Durations, BoundsAssumption DEF TypeOK, PcValues, LeValues
<1>0. TypeOK
  BY DEF IndInv
<1>1. ASSUME NEW r \in Replicas, ElectorStep(r) PROVE TypeOK'
  <2>1. CASE Observe(r)
    BY <1>0, <2>1 DEF Observe, workVars
  <2>2. CASE Acquire(r)
    BY <1>0, <2>2 DEF Acquire, WriteLease, workVars
  <2>3. CASE Renew(r)
    BY <1>0, <2>3 DEF Renew, WriteLease, Fault, NoFault, workVars
  <2>4. CASE StopRenewing(r)
    BY <1>0, <2>4 DEF StopRenewing, leaseVars, workVars
  <2>5. CASE Release(r)
    <3>1. holder' \in Replicas \cup {Nobody} /\ news' \in [Replicas -> BOOLEAN]
      BY <1>0, <2>5 DEF Release, WriteLease, leaseVars
    <3> QED
      BY <1>0, <2>5, <3>1 DEF Release, timeVars, workVars
  <2>6. CASE StopAcquiring(r)
    BY <1>0, <2>6 DEF StopAcquiring, leaseVars, timeVars, workVars
  <2>7. CASE OnStoppedLeading(r)
    <3>1. UNCHANGED <<signals, faults>>
      BY <2>7 DEF OnStoppedLeading
    <3>2. CASE Exit(r) /\ KeepLease(r)
      BY <1>0, <3>1, <3>2, ExitType DEF KeepLease
    <3>3. CASE /\ le' = [le EXCEPT ![r] = "stopped"]
               /\ UNCHANGED <<leaseVars, pc, timeVars, stopCh, workVars>>
      BY <1>0, <3>1, <3>3 DEF leaseVars, timeVars, workVars
    <3> QED
      BY <2>7, <3>2, <3>3, Zenon DEF OnStoppedLeading
  <2> QED
    BY <1>1, <2>1, <2>2, <2>3, <2>4, <2>5, <2>6, <2>7 DEF ElectorStep
<1>2. ASSUME NEW r \in Replicas, MainStep(r) PROVE TypeOK'
  <2>1. CASE Return(r)
    BY <1>0, <2>1, ExitType DEF Return, KeepLease
  <2>2. CASE \E p \in PcValues : RunStep(r, p)
    BY <1>0, <2>2 DEF RunStep, leaseVars, timeVars, workVars
  <2> QED
    BY <1>2, <2>1, <2>2 DEF MainStep, StartControllers, Interrupt, CachesSynced, NotSynced,
        Drain, CancelElection
<1>3. ASSUME NEW r \in Replicas, WorkerStep(r) PROVE TypeOK'
  <2>1. CASE Enqueue(r)
    BY <1>0, <2>1 DEF Enqueue, WorkStep, leaseVars, timeVars
  <2>2. CASE StartWork(r)
    BY <1>0, <2>2 DEF StartWork, WorkStep, leaseVars, timeVars
  <2>3. CASE FinishWork(r)
    BY <1>0, <2>3 DEF FinishWork, WorkStep, leaseVars, timeVars
  <2> QED
    BY <1>3, <2>1, <2>2, <2>3 DEF WorkerStep
<1>4. ASSUME NEW r \in Replicas, Signal(r) PROVE TypeOK'
  <2>1. signals' \in 0 .. MaxSignals /\ UNCHANGED faults
    BY <1>0, <1>4 DEF Signal
  <2>2. \/ Exit(r) /\ KeepLease(r)
        \/ /\ stopCh' = [stopCh EXCEPT ![r] = TRUE]
           /\ UNCHANGED <<pc, le, leaseVars, timeVars, workVars>>
    BY <1>4, Zenon DEF Signal
  <2>3. CASE Exit(r) /\ KeepLease(r)
    BY <1>0, <2>1, <2>3, ExitType DEF KeepLease
  <2>4. CASE /\ stopCh' = [stopCh EXCEPT ![r] = TRUE]
             /\ UNCHANGED <<pc, le, leaseVars, timeVars, workVars>>
    BY <1>0, <2>1, <2>4 DEF leaseVars, timeVars, workVars
  <2> QED
    BY <2>2, <2>3, <2>4
<1>5. ASSUME NEW r \in Replicas, Crash(r) PROVE TypeOK'
  BY <1>0, <1>5, ExitType DEF Crash, KeepLease, Fault
<1>6. ASSUME NEW r \in Replicas, Restart(r) PROVE TypeOK'
  BY <1>0, <1>6 DEF Restart, leaseVars, timeVars, workVars
<1>7. CASE Tick
  BY <1>0, <1>7 DEF Tick, Older, leaseVars, workVars
<1>8. CASE UNCHANGED vars
  BY <1>0, <1>8 DEF vars
<1> QED
  BY <1>1, <1>2, <1>3, <1>4, <1>5, <1>6, <1>7, <1>8 DEF Next

\* A replica that works keeps the elector running until its workers are done; a
\* process that ends takes its workers with it.
LEMMA WorksStep == ASSUME IndInv, [Next]_vars PROVE WorksAsHolder'
<1> USE DEF WorksAsHolder, Running
<1>0. TypeOK /\ WorksAsHolder /\ TypeOK'
  BY TypeStep DEF IndInv
<1>a. /\ pc \in [Replicas -> PcValues] /\ busy \in [Replicas -> Nat]
      /\ le \in [Replicas -> LeValues]
  BY <1>0, BoundsAssumption DEF TypeOK
<1>1. ASSUME NEW r \in Replicas, ElectorStep(r) PROVE WorksAsHolder'
  <2>1. CASE Observe(r)
    BY <1>0, <2>1 DEF Observe, workVars
  <2>2. CASE Acquire(r)
    BY <1>0, <1>a, <2>2 DEF Acquire, workVars, Candidate
  <2>3. CASE Renew(r)
    BY <1>0, <2>3 DEF Renew, workVars
  <2>4. CASE StopRenewing(r)
    BY <1>0, <1>a, <2>4 DEF StopRenewing, workVars
  <2>5. CASE Release(r)
    BY <1>0, <1>a, <2>5 DEF Release, workVars
  <2>6. CASE StopAcquiring(r)
    BY <1>0, <1>a, <2>6 DEF StopAcquiring, workVars
  <2>7. CASE OnStoppedLeading(r)
    BY <1>0, <1>a, <2>7 DEF OnStoppedLeading, Exit, workVars
  <2> QED
    BY <1>1, <2>1, <2>2, <2>3, <2>4, <2>5, <2>6, <2>7 DEF ElectorStep
<1>2. ASSUME NEW r \in Replicas, MainStep(r) PROVE WorksAsHolder'
  <2> USE DEF RunStep, workVars
  <2>1. CASE StartControllers(r)
    BY <1>0, <1>a, <2>1 DEF StartControllers
  <2>2. CASE Interrupt(r)
    BY <1>0, <1>a, <2>2 DEF Interrupt
  <2>3. CASE CachesSynced(r)
    BY <1>0, <1>a, <2>3 DEF CachesSynced
  <2>4. CASE NotSynced(r)
    BY <1>0, <1>a, <2>4 DEF NotSynced
  <2>5. CASE Drain(r)
    BY <1>0, <1>a, <2>5 DEF Drain
  <2>6. CASE CancelElection(r)
    BY <1>0, <1>a, <2>6 DEF CancelElection, Drained
  <2>7. CASE Return(r)
    BY <1>0, <1>a, <2>7 DEF Return, Exit
  <2> QED
    BY <1>2, <2>1, <2>2, <2>3, <2>4, <2>5, <2>6, <2>7 DEF MainStep
<1>3. ASSUME NEW r \in Replicas, WorkerStep(r) PROVE WorksAsHolder'
  BY <1>0, <1>a, <1>3 DEF WorkerStep, Enqueue, StartWork, FinishWork, WorkStep
<1>4. ASSUME NEW r \in Replicas, Signal(r) PROVE WorksAsHolder'
  BY <1>0, <1>a, <1>4 DEF Signal, Exit, workVars
<1>5. ASSUME NEW r \in Replicas, Crash(r) PROVE WorksAsHolder'
  BY <1>0, <1>a, <1>5 DEF Crash, Exit
<1>6. ASSUME NEW r \in Replicas, Restart(r) PROVE WorksAsHolder'
  BY <1>0, <1>a, <1>6 DEF Restart, workVars
<1>7. CASE Tick
  BY <1>0, <1>7 DEF Tick, workVars
<1>8. CASE UNCHANGED vars
  BY <1>0, <1>8 DEF vars
<1> QED
  BY <1>1, <1>2, <1>3, <1>4, <1>5, <1>6, <1>7, <1>8 DEF Next

\* A lease that its holder has kept alive is not taken from it: the candidate would
\* have had to wait for longer than the holder has been idle.
LEMMA HolderStep == ASSUME IndInv, [Next]_vars PROVE HolderIsSafe'
<1> USE DEF HolderIsSafe, Leads, Electing
<1>0. TypeOK /\ HolderIsSafe
  BY DEF IndInv
<1>a. /\ pc \in [Replicas -> PcValues] /\ le \in [Replicas -> LeValues]
      /\ idle \in [Replicas -> Nat] /\ age \in [Replicas -> Nat]
      /\ news \in [Replicas -> BOOLEAN]
  BY <1>0, Durations DEF TypeOK
<1>1. ASSUME NEW r \in Replicas, ElectorStep(r) PROVE HolderIsSafe'
  <2>1. CASE Observe(r)
    BY <1>0, <1>a, <2>1 DEF Observe, Candidate
  <2>2. CASE Acquire(r)
    <3>1. \A s \in Replicas : Leads(s) => s = r
      BY <1>0, <1>a, <2>2, ReplicasAssumption, Durations DEF Acquire, Expired
    <3> QED
      BY <1>0, <1>a, <2>2, <3>1, Durations DEF Acquire, WriteLease
  <2>3. CASE Renew(r)
    BY <1>0, <1>a, <2>3, Durations DEF Renew, WriteLease
  <2>4. CASE StopRenewing(r)
    BY <1>0, <1>a, <2>4 DEF StopRenewing, leaseVars
  <2>5. CASE Release(r)
    \* A lease that is released is nobody's, so no other elector renews it.
    <3>1. CASE holder = r /\ WriteLease(Nobody)
      <4>1. \A s \in Replicas : ~ Leads(s)'
        BY <1>0, <1>a, <2>5, <3>1 DEF Release
      <4> QED
        BY <4>1
    <3>2. CASE UNCHANGED leaseVars
      BY <1>0, <1>a, <2>5, <3>2 DEF Release, leaseVars, timeVars
    <3> QED
      BY <2>5, <3>1, <3>2 DEF Release
  <2>6. CASE StopAcquiring(r)
    BY <1>0, <1>a, <2>6 DEF StopAcquiring, leaseVars, timeVars
  <2>7. CASE OnStoppedLeading(r)
    BY <1>0, <1>a, <2>7 DEF OnStoppedLeading, Exit, KeepLease, leaseVars, timeVars
  <2> QED
    BY <1>1, <2>1, <2>2, <2>3, <2>4, <2>5, <2>6, <2>7 DEF ElectorStep
<1>2. ASSUME NEW r \in Replicas, MainStep(r) PROVE HolderIsSafe'
  <2>1. CASE Return(r)
    BY <1>0, <1>a, <2>1 DEF Return, Exit, KeepLease
  <2>2. CASE Electing(r) /\ \E p \in PcValues : RunStep(r, p)
    BY <1>0, <1>a, <2>2 DEF RunStep, leaseVars, timeVars
  <2> QED
    BY <1>2, <2>1, <2>2 DEF MainStep, StartControllers, Interrupt, CachesSynced, NotSynced,
        Drain, CancelElection, PcValues
<1>3. ASSUME NEW r \in Replicas, WorkerStep(r) PROVE HolderIsSafe'
  BY <1>0, <1>3 DEF WorkerStep, Enqueue, StartWork, FinishWork, WorkStep, leaseVars, timeVars
<1>4. ASSUME NEW r \in Replicas, Signal(r) PROVE HolderIsSafe'
  BY <1>0, <1>a, <1>4 DEF Signal, Exit, KeepLease, leaseVars, timeVars
<1>5. ASSUME NEW r \in Replicas, Crash(r) PROVE HolderIsSafe'
  BY <1>0, <1>a, <1>5 DEF Crash, Exit, KeepLease
<1>6. ASSUME NEW r \in Replicas, Restart(r) PROVE HolderIsSafe'
  BY <1>0, <1>a, <1>6 DEF Restart, leaseVars, timeVars
<1>7. CASE Tick
  <2>1. \A r \in Replicas : Leads(r) => /\ idle[r] < Deadline + Slack
                                        /\ idle'[r] = idle[r] + 1
    BY <1>0, <1>a, <1>7, Durations DEF Tick, Older
  <2>2. \A r \in Replicas : age'[r] <= age[r] + 1
    BY <1>a, <1>7, Durations DEF Tick, Older
  <2>3. UNCHANGED <<holder, news, pc, le>> /\ age' \in [Replicas -> Nat]
    BY <1>a, <1>7, Durations DEF Tick, leaseVars, Older
  <2> QED
    BY <1>0, <1>a, <2>1, <2>2, <2>3, Durations
<1>8. CASE UNCHANGED vars
  BY <1>0, <1>8 DEF vars
<1> QED
  BY <1>1, <1>2, <1>3, <1>4, <1>5, <1>6, <1>7, <1>8 DEF Next

LEMMA NextInv == IndInv /\ [Next]_vars => IndInv'
BY TypeStep, WorksStep, HolderStep DEF IndInv

LEMMA SpecInv == Spec => []IndInv
<1>1. Init => IndInv
  BY InitInv
<1>2. IndInv /\ [Next]_vars => IndInv'
  BY NextInv
<1> QED
  BY <1>1, <1>2, PTL DEF Spec

-----------------------------------------------------------------------------

\* A replica at work whose elector has not given up is the holder of the lease.
LEMMA ActiveHolds ==
    ASSUME IndInv, NEW r \in Replicas, ActiveAsLeader(r) PROVE Leads(r) /\ holder = r
BY DEF IndInv, WorksAsHolder, HolderIsSafe, ActiveAsLeader, GivenUp, Active, Running, Leads,
       Electing

\* Options.Run keeps its variables in their types, for every number of replicas.
THEOREM TypeCorrect == Spec => []TypeOK
<1>1. IndInv => TypeOK
  BY DEF IndInv
<1> QED
  BY <1>1, SpecInv, PTL

\* Two replicas of the Deployment never have controllers at work at the same time,
\* apart from a replica that gave the lease up and has not reached its Fatalf yet.
THEOREM AloneAtWork == Spec => []OneActive
<1>1. IndInv => OneActive
  BY ActiveHolds DEF OneActive
<1> QED
  BY <1>1, SpecInv, PTL

-----------------------------------------------------------------------------
(* Lifecycle implements Leadership, apart from its fairness. *)

Leader == IF \E r \in Replicas : ActiveAsLeader(r) THEN CHOOSE r \in Replicas : ActiveAsLeader(r) ELSE Nobody

\* The replica that works as a leader is the leader of the abstract lock.
LEMMA LeaderIsActive ==
    ASSUME IndInv
    PROVE  /\ Leader = Nobody \/ (Leader \in Replicas /\ ActiveAsLeader(Leader))
           /\ \A r \in Replicas : ActiveAsLeader(r) => Leader = r
<1>1. \A r, s \in Replicas : ActiveAsLeader(r) /\ ActiveAsLeader(s) => r = s
  BY ActiveHolds
<1> HIDE DEF ActiveAsLeader
<1> QED
  BY <1>1 DEF Leader

\* Only a replica that holds the lease starts its controllers.
LEMMA StartsAsHolder ==
    ASSUME IndInv, [Next]_vars, NEW r \in Replicas, ~ ActiveAsLeader(r), ActiveAsLeader(r)'
    PROVE  holder = r
<1> USE DEF ActiveAsLeader, GivenUp, Electing, Active, Running
<1>a. /\ pc \in [Replicas -> PcValues] /\ le \in [Replicas -> LeValues]
      /\ busy \in [Replicas -> Nat] /\ items \in [Replicas -> Nat]
  BY BoundsAssumption DEF IndInv, TypeOK
<1>b. WorksAsHolder
  BY DEF IndInv
<1>1. ASSUME NEW s \in Replicas, ElectorStep(s) PROVE FALSE
  <2>1. CASE Observe(s) \/ Renew(s)
    BY <2>1, <1>a DEF Observe, Renew, workVars
  <2>2. CASE Acquire(s)
    BY <2>2, <1>a, <1>b DEF Acquire, Candidate, WorksAsHolder, workVars
  <2>3. CASE StopRenewing(s) \/ Release(s) \/ StopAcquiring(s)
    BY <2>3, <1>a, <1>b DEF StopRenewing, Release, StopAcquiring, WorksAsHolder, workVars
  <2>4. CASE OnStoppedLeading(s)
    BY <2>4, <1>a, <1>b DEF OnStoppedLeading, Exit, WorksAsHolder, workVars
  <2> QED
    BY <1>1, <2>1, <2>2, <2>3, <2>4 DEF ElectorStep
<1>2. ASSUME NEW s \in Replicas, WorkerStep(s) PROVE FALSE
  BY <1>2, <1>a DEF WorkerStep, Enqueue, StartWork, FinishWork, WorkStep
<1>3. ASSUME NEW s \in Replicas, Signal(s) \/ Crash(s) \/ Restart(s) PROVE FALSE
  BY <1>3, <1>a, <1>b DEF Signal, Crash, Restart, Exit, WorksAsHolder, workVars
<1>4. ASSUME NEW s \in Replicas, MainStep(s) PROVE holder = r
  <2>1. CASE StartControllers(s)
    <3>1. r = s /\ Leads(s)
      BY <2>1, <1>a DEF StartControllers, RunStep, workVars, Leads, Electing
    <3> QED
      BY <3>1 DEF IndInv, HolderIsSafe
  <2>2. CASE ~ StartControllers(s)
    BY <1>4, <2>2, <1>a, <1>b DEF MainStep, Interrupt, CachesSynced, NotSynced, Drain,
        CancelElection, Drained, Return, Exit, RunStep, WorksAsHolder, workVars
  <2> QED
    BY <2>1, <2>2
<1>5. ~ Tick /\ ~ UNCHANGED vars
  BY DEF Tick, vars, workVars
<1> QED
  BY <1>1, <1>2, <1>3, <1>4, <1>5 DEF Next

\* The controllers of the replicas take turns the way the users of a lock do: one
\* step never passes the work from one replica to another.
THEOREM ImplementsLock == Spec => Service!Init /\ [][Service!Next]_Leader
<1>1. Init => Service!Init
  BY DEF Init, Service!Init, ActiveAsLeader, Active, Running
<1>2. IndInv /\ IndInv' /\ [Next]_vars => [Service!Next]_Leader
  <2> SUFFICES ASSUME IndInv, IndInv', [Next]_vars, Leader' # Leader
               PROVE  Service!Next
    OBVIOUS
  <2>1. Leader = Nobody \/ Leader' = Nobody
    <3> SUFFICES ASSUME Leader # Nobody, Leader' # Nobody PROVE FALSE
      OBVIOUS
    <3>1. Leader \in Replicas /\ ActiveAsLeader(Leader)
      BY LeaderIsActive
    <3>2. PICK s \in Replicas : s = Leader' /\ ActiveAsLeader(s)'
      BY DEF Leader
    <3>3. ~ ActiveAsLeader(s)
      BY <3>2, LeaderIsActive
    <3>4. holder = s /\ holder = Leader
      BY <3>1, <3>2, <3>3, StartsAsHolder, ActiveHolds
    <3> QED
      BY <3>2, <3>4
  <2>2. Leader' \in Replicas \cup {Nobody}
    BY DEF Leader
  <2> QED
    BY <2>1, <2>2 DEF Service!Next, Service!Start, Service!Stop, Leader
<1> QED
  BY <1>1, <1>2, SpecInv, PTL DEF Spec
=============================================================================
