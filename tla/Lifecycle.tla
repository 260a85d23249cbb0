----------------------------- MODULE Lifecycle -------------------------------
(***************************************************************************)
(* The controller process (pkg/cmd/openshift-acme-controller): leader      *)
(* election, the two controllers, signals (pkg/signals) and the order of   *)
(* shutting down, for several replicas of the Deployment.                  *)
(*                                                                         *)
(* Options.Run waits for the lease, starts the controllers, and on a       *)
(* signal first lets them finish and only then cancels the elector, which  *)
(* releases the lease.  An elector that cannot renew gives up, releases    *)
(* the lease if it still can, and only then OnStoppedLeading ends the      *)
(* process; its controllers run on until that moment.                      *)
(*                                                                         *)
(* Time passes in ticks.  A candidate takes over a lease that it has not   *)
(* seen change for LeaseDuration; a leader that could not renew gives up   *)
(* RenewDeadline after the renewal that RetryPeriod made it start.  How    *)
(* long it takes from there to the end of the process is left open: the    *)
(* release is a call to the API server that just failed to answer.         *)
(***************************************************************************)
EXTENDS Naturals, FiniteSets

CONSTANTS
    Replicas,
    Nobody,         \* an empty holder identity
    LeaseDuration, RenewDeadline, RetryPeriod,
    Slack,          \* longest time by which the timeout of a renewal is noticed late
    Workers,        \* workers of the controllers of one replica
    MaxItems,       \* bound: keys in the queues of a replica
    MaxSignals,     \* bound: signals to replicas
    MaxFaults       \* bound: crashes, failed or unanswered writes of the lease

Deadline == RetryPeriod + RenewDeadline

\* The library only checks that RenewDeadline is less than LeaseDuration and more
\* than RetryPeriod; the defaults of 60, 35 and 10 seconds leave 15 for Slack.
ASSUME TimesAssumption ==
    /\ LeaseDuration \in Nat /\ RenewDeadline \in Nat /\ RetryPeriod \in Nat /\ Slack \in Nat
    /\ RetryPeriod < RenewDeadline
    /\ Deadline + Slack < LeaseDuration
ASSUME ReplicasAssumption == Nobody \notin Replicas
ASSUME BoundsAssumption   == /\ Workers \in Nat \ {0} /\ MaxItems \in Nat
                             /\ MaxSignals \in Nat /\ MaxFaults \in Nat

VARIABLES
    holder,   \* API server: holder identity of the lease
    pc,       \* where Options.Run of a replica stands
    le,       \* its leader elector
    news,     \* the lease has changed since the replica last looked at it
    age,      \* time since the replica saw the lease change
    idle,     \* time since the leader's last renewal that succeeded
    stopCh,   \* the first signal was received
    items,    \* keys in the queues of its controllers
    busy,     \* workers in a sync
    signals,
    faults

leaseVars == <<holder, news>>
timeVars  == <<age, idle>>
workVars  == <<items, busy>>
vars == <<holder, pc, le, news, age, idle, stopCh, items, busy, signals, faults>>

-----------------------------------------------------------------------------
(* Data. *)

\* "elect": select on leChan and stopCh; "sync": the controllers wait for their
\* caches; "run": their workers run; "drain": ctx is cancelled, wg.Wait; "cancel":
\* leCancel was called, leWg.Wait.
PcValues == {"elect", "sync", "run", "drain", "cancel", "exited"}

\* "acquire" and "renew": le.Run is in its loop of that name; "lost": renew has
\* ended, the lease is to be released; "released": OnStoppedLeading is next;
\* "stopped": le.Run has returned.
LeValues == {"acquire", "renew", "lost", "released", "stopped"}

TypeOK ==
    /\ holder \in Replicas \cup {Nobody}
    /\ pc \in [Replicas -> PcValues]
    /\ le \in [Replicas -> LeValues]
    /\ news \in [Replicas -> BOOLEAN]
    /\ age \in [Replicas -> 0 .. LeaseDuration]
    /\ idle \in [Replicas -> 0 .. LeaseDuration]
    /\ stopCh \in [Replicas -> BOOLEAN]
    /\ items \in [Replicas -> 0 .. MaxItems] /\ busy \in [Replicas -> 0 .. Workers]
    /\ signals \in 0 .. MaxSignals /\ faults \in 0 .. MaxFaults

\* The controllers of r are started and not known to have stopped.
Running(r) == pc[r] \in {"sync", "run", "drain"}

\* A controller of r may act on the cluster.
Active(r) == Running(r) \/ busy[r] > 0

Fault   == faults < MaxFaults /\ faults' = faults + 1
NoFault == UNCHANGED faults

-----------------------------------------------------------------------------
(* The leader elector. *)

WriteLease(h) == holder' = h /\ news' = [r \in Replicas |-> TRUE]

\* The elector of r runs: the process does, and leCtx is not cancelled.
Electing(r) == pc[r] \in {"elect", "sync", "run", "drain"}
Candidate(r) == Electing(r) /\ le[r] = "acquire"
Leads(r) == Electing(r) /\ le[r] = "renew"

\* A candidate reads the lease and finds it changed.
Observe(r) ==
    /\ Candidate(r) /\ news[r]
    /\ news' = [news EXCEPT ![r] = FALSE] /\ age' = [age EXCEPT ![r] = 0]
    /\ UNCHANGED <<holder, pc, le, idle, stopCh, workVars, signals, faults>>

\* A candidate reads the lease and finds it free or expired.
ExpiredEarly(r) == ~ news[r] /\ age[r] >= Deadline
Expired(r) == ~ news[r] /\ age[r] >= LeaseDuration

Acquire(r) ==
    /\ Candidate(r)
    /\ holder = Nobody \/ Expired(r)
    /\ WriteLease(r)
    /\ le' = [le EXCEPT ![r] = "renew"]
    /\ age' = [age EXCEPT ![r] = 0] /\ idle' = [idle EXCEPT ![r] = 0]
    /\ UNCHANGED <<pc, stopCh, workVars, signals, faults>>

\* The write succeeds, or succeeds without an answer.
Renew(r) ==
    /\ Leads(r) /\ holder = r
    /\ WriteLease(r)
    /\ \/ NoFault /\ idle' = [idle EXCEPT ![r] = 0]
       \/ Fault /\ UNCHANGED idle
    /\ UNCHANGED <<pc, le, age, stopCh, workVars, signals>>

\* What is left of a replica when its process has ended.
Exit(r) ==
    /\ pc' = [pc EXCEPT ![r] = "exited"] /\ le' = [le EXCEPT ![r] = "stopped"]
    /\ stopCh' = [stopCh EXCEPT ![r] = FALSE]
    /\ age' = [age EXCEPT ![r] = 0] /\ idle' = [idle EXCEPT ![r] = 0]
    /\ items' = [items EXCEPT ![r] = 0] /\ busy' = [busy EXCEPT ![r] = 0]

\* The lease stays as it is; a process that starts again looks at it anew.
KeepLease(r) == UNCHANGED holder /\ news' = [news EXCEPT ![r] = TRUE]

\* The renewal has timed out, or leCtx is cancelled: renew ends.
StopRenewing(r) ==
    /\ le[r] = "renew"
    /\ \/ Leads(r) /\ idle[r] >= Deadline
       \/ pc[r] = "cancel"
    /\ le' = [le EXCEPT ![r] = "lost"] /\ idle' = [idle EXCEPT ![r] = 0]
    /\ UNCHANGED <<leaseVars, pc, age, stopCh, workVars, signals, faults>>

\* ReleaseOnCancel: the lease is written with an empty holder, if the call gets
\* through and nobody else has written it since.
Release(r) ==
    /\ le[r] = "lost"
    /\ le' = [le EXCEPT ![r] = "released"]
    /\ \/ holder = r /\ WriteLease(Nobody)
       \/ UNCHANGED leaseVars
    /\ UNCHANGED <<pc, timeVars, stopCh, workVars, signals, faults>>

\* leCtx is cancelled before the lease was acquired: acquire ends.
StopAcquiring(r) ==
    /\ le[r] = "acquire" /\ pc[r] = "cancel"
    /\ le' = [le EXCEPT ![r] = "released"]
    /\ UNCHANGED <<leaseVars, pc, timeVars, stopCh, workVars, signals, faults>>

\* OnStoppedLeading: while leCtx is alive, the lease was lost: Fatal.  Otherwise
\* le.Run returns.
OnStoppedLeading(r) ==
    /\ le[r] = "released"
    /\ \/ pc[r] # "cancel" /\ Exit(r) /\ KeepLease(r)
       \/ /\ pc[r] = "cancel" /\ le' = [le EXCEPT ![r] = "stopped"]
          /\ UNCHANGED <<leaseVars, pc, timeVars, stopCh, workVars>>
    /\ UNCHANGED <<signals, faults>>

-----------------------------------------------------------------------------
(* Options.Run. *)

RunStep(r, next) ==
    /\ pc' = [pc EXCEPT ![r] = next]
    /\ UNCHANGED <<leaseVars, le, timeVars, stopCh, workVars, signals, faults>>

\* leChan is closed: the controllers are started, even if stopCh is closed too, or
\* the lease is lost by now.
StartControllers(r) ==
    pc[r] = "elect" /\ le[r] \in {"renew", "lost", "released"} /\ RunStep(r, "sync")

\* WaitForNamedCacheSync returns true, the workers start.
CachesSynced(r) == pc[r] = "sync" /\ RunStep(r, "run")

\* It returns false: no worker starts, keys stay in the queues, nobody to wait for.
NotSynced(r) == pc[r] = "sync" /\ stopCh[r] /\ RunStep(r, "cancel")

\* "Interrupted before leaderelection".
InterruptLate(r) == pc[r] = "elect" /\ stopCh[r] /\ le[r] = "renew" /\ RunStep(r, "cancel")
Interrupt(r) == pc[r] = "elect" /\ stopCh[r] /\ RunStep(r, "cancel")

\* The signal cancels ctx: the controllers shut their queues down, the deferred
\* function waits for them.
Drain(r) == pc[r] = "run" /\ stopCh[r] /\ RunStep(r, "drain")

\* wg.Wait returns when every worker has returned, then leCancel is called.
DrainedEarly(r) == items[r] = 0
Drained(r) == items[r] = 0 /\ busy[r] = 0

CancelElection(r) == pc[r] = "drain" /\ Drained(r) /\ RunStep(r, "cancel")

\* leWg.Wait returns.
Return(r) ==
    /\ pc[r] = "cancel" /\ le[r] = "stopped"
    /\ Exit(r)
    /\ KeepLease(r)
    /\ UNCHANGED <<signals, faults>>

-----------------------------------------------------------------------------
(* Run, runWorker and processNextItem of the controllers. *)

WorkStep(r, i, b) ==
    /\ items' = [items EXCEPT ![r] = i] /\ busy' = [busy EXCEPT ![r] = b]
    /\ UNCHANGED <<leaseVars, pc, le, timeVars, stopCh, signals, faults>>

\* An informer event; the queues take no key after ShutDown.
Enqueue(r) == pc[r] \in {"sync", "run"} /\ items[r] < MaxItems /\ WorkStep(r, items[r] + 1, busy[r])

\* queue.Get, also of the keys that are left after ShutDown.
StartWorkUnlimited(r) ==
    /\ pc[r] \in {"run", "drain"} /\ items[r] > 0
    /\ WorkStep(r, items[r] - 1, busy[r] + 1)
StartWork(r) ==
    /\ pc[r] \in {"run", "drain"} /\ items[r] > 0 /\ busy[r] < Workers
    /\ WorkStep(r, items[r] - 1, busy[r] + 1)

FinishWork(r) == busy[r] > 0 /\ WorkStep(r, items[r], busy[r] - 1)

-----------------------------------------------------------------------------
(* Signals, the kubelet, and time. *)

\* The second signal ends the process.
Signal(r) ==
    /\ pc[r] # "exited" /\ signals < MaxSignals /\ signals' = signals + 1
    /\ \/ /\ ~ stopCh[r] /\ stopCh' = [stopCh EXCEPT ![r] = TRUE]
          /\ UNCHANGED <<pc, le, leaseVars, timeVars, workVars>>
       \/ stopCh[r] /\ Exit(r) /\ KeepLease(r)
    /\ UNCHANGED faults

Crash(r) == pc[r] # "exited" /\ Fault /\ Exit(r) /\ KeepLease(r) /\ UNCHANGED signals

\* The kubelet starts the process again.
Restart(r) ==
    /\ pc[r] = "exited"
    /\ pc' = [pc EXCEPT ![r] = "elect"] /\ le' = [le EXCEPT ![r] = "acquire"]
    /\ UNCHANGED <<leaseVars, timeVars, stopCh, workVars, signals, faults>>

Older(t) == IF t < LeaseDuration THEN t + 1 ELSE t

\* No elector goes on for longer than Slack after it had to give up.
Tick ==
    /\ \A r \in Replicas : Leads(r) => idle[r] < Deadline + Slack
    /\ age' = [r \in Replicas |-> IF Candidate(r) /\ ~ news[r] THEN Older(age[r]) ELSE age[r]]
    /\ idle' = [r \in Replicas |-> IF Leads(r) THEN Older(idle[r]) ELSE idle[r]]
    /\ UNCHANGED <<leaseVars, pc, le, stopCh, workVars, signals, faults>>

-----------------------------------------------------------------------------
(* Specification. *)

Init ==
    /\ holder = Nobody
    /\ pc = [r \in Replicas |-> "elect"] /\ le = [r \in Replicas |-> "acquire"]
    /\ news = [r \in Replicas |-> TRUE]
    /\ age = [r \in Replicas |-> 0] /\ idle = [r \in Replicas |-> 0]
    /\ stopCh = [r \in Replicas |-> FALSE]
    /\ items = [r \in Replicas |-> 0] /\ busy = [r \in Replicas |-> 0]
    /\ signals = 0 /\ faults = 0

ElectorStep(r) == \/ Observe(r) \/ Acquire(r) \/ Renew(r) \/ StopRenewing(r)
                  \/ Release(r) \/ StopAcquiring(r) \/ OnStoppedLeading(r)

MainStep(r) == \/ StartControllers(r) \/ Interrupt(r) \/ CachesSynced(r) \/ NotSynced(r)
               \/ Drain(r) \/ CancelElection(r) \/ Return(r)

WorkerStep(r) == Enqueue(r) \/ StartWork(r) \/ FinishWork(r)

Next == \/ \E r \in Replicas : \/ ElectorStep(r) \/ MainStep(r) \/ WorkerStep(r)
                               \/ Signal(r) \/ Crash(r) \/ Restart(r)
        \/ Tick

Spec == Init /\ [][Next]_vars

\* Goroutines get to run, a call to the API server and a sync return, time passes,
\* the kubelet restarts what has ended; a replica that acquires the lease again and
\* again gets round to starting its controllers before the lease is lost.  Nothing
\* is assumed of signals, faults, renewals and new keys.
Fairness ==
    /\ \A r \in Replicas :
          /\ WF_vars(Observe(r)) /\ WF_vars(Acquire(r)) /\ WF_vars(StopRenewing(r))
          /\ WF_vars(Release(r)) /\ WF_vars(StopAcquiring(r)) /\ WF_vars(OnStoppedLeading(r))
          /\ WF_vars(MainStep(r)) /\ SF_vars(Leads(r) /\ StartControllers(r))
          /\ WF_vars(StartWork(r)) /\ WF_vars(FinishWork(r)) /\ WF_vars(Restart(r))
    /\ WF_vars(Tick)

FairSpec == Spec /\ Fairness

-----------------------------------------------------------------------------
(* Properties. *)

\* The elector of r has lost the lease and is on its way to the Fatalf.
GivenUp(r) == Electing(r) /\ le[r] \in {"lost", "released"}

\* A controller of r may act on the cluster, and its elector has not lost the lease.
ActiveAsLeader(r) == Active(r) /\ ~ GivenUp(r)

\* The controllers write without a resource version and rely on being alone.  Two
\* replicas whose electors have not given up are never at work at the same time,
\* not while one shuts down or renews the lease without an answer.  A replica that
\* could not renew may overlap with the next one, from its release of the lease (or
\* the lease's end) to its Fatalf: ReleaseOnCancel comes before OnStoppedLeading.
OneActive == \A r, s \in Replicas : ActiveAsLeader(r) /\ ActiveAsLeader(s) => r = s

\* Wherever a signal finds the process, before, during or after the election, it
\* ends: nobody waits for somebody who waits for him.  So does the process of an
\* elector that has given up, whatever its controllers are doing: the overlap that
\* OneActive leaves out comes to an end.
ProcessEnds == \A r \in Replicas : stopCh[r] \/ GivenUp(r) ~> pc[r] = "exited"

Service == INSTANCE Leadership
               WITH leader <- IF \E r \in Replicas : ActiveAsLeader(r)
                              THEN CHOOSE r \in Replicas : ActiveAsLeader(r) ELSE Nobody

\* Leases, deadlines and the order of shutting down implement a lock: replicas take
\* turns in working as leaders, and after a crash, a shutdown or a lost lease
\* another one takes over in the end.
ImplementsLeadership == Service!Spec

=============================================================================
