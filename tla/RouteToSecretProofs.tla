------------------------- MODULE RouteToSecretProofs -------------------------
(***************************************************************************)
(* Proofs about RouteToSecret: the types are kept, and the controller      *)
(* never writes to a Secret that has no Route as its controller, for any   *)
(* number of Routes and Secrets, any annotations and any lag.              *)
(*                                                                         *)
(* The caches may be arbitrarily stale, so the argument is not about them: *)
(* an Update is only set out on for a Secret read with a Route as its      *)
(* owner (JobsOK), and the API server takes it only if the Secret still is *)
(* the version read (Accepts).                                             *)
(***************************************************************************)
EXTENDS RouteToSecret, TLAPS

IndInv == TypeOK /\ JobsOK

\* The records and sequences that actions write have their types.
LEMMA Types ==
    /\ NoRoute \in Route /\ NoSecret \in Secret /\ Idle \in Job /\ Nobody \in Owner
    /\ Idle.todo = "none" /\ NoSecret.owner = Nobody
BY NamesAssumption DEF NoRoute, Route, NoSecret, Secret, Idle, Job, Nobody, Owner

\* What Desired builds is a Secret owned by the Route of the key.
LEMMA DesiredType ==
    ASSUME TypeOK, NEW r \in RouteNames, NEW base \in Secret
    PROVE  Desired(r, base) \in Secret
<1>1. rcache[r] \in Route
  BY DEF TypeOK
<1>2. rcache[r].uid \in Nat /\ rcache[r].cert \in Nat
  BY <1>1 DEF Route
<1> QED BY <1>2 DEF Desired, Secret, Owner

\* Storing a typed Secret or Route and queueing it for the informer keeps the
\* types of the API server's state.
LEMMA WriteSecretType ==
    ASSUME TypeOK, NEW s \in SecretNames, NEW v \in Secret, WriteSecret(s, v)
    PROVE  /\ routes' \in [RouteNames -> Route] /\ secrets' \in [SecretNames -> Secret]
           /\ rwatch' \in [RouteNames -> Seq(Route)] /\ swatch' \in [SecretNames -> Seq(Secret)]
<1>1. Append(swatch[s], v) \in Seq(Secret)
  BY DEF TypeOK
<1> QED BY <1>1 DEF TypeOK, WriteSecret

\* Likewise for a Route.
LEMMA WriteRouteType ==
    ASSUME TypeOK, NEW r \in RouteNames, NEW v \in Route, WriteRoute(r, v)
    PROVE  /\ routes' \in [RouteNames -> Route] /\ secrets' \in [SecretNames -> Secret]
           /\ rwatch' \in [RouteNames -> Seq(Route)] /\ swatch' \in [SecretNames -> Seq(Secret)]
<1>1. Append(rwatch[r], v) \in Seq(Route)
  BY DEF TypeOK
<1> QED BY <1>1 DEF TypeOK, WriteRoute

\* The initial states satisfy the invariant.
LEMMA InitInv == Init => IndInv
<1> SUFFICES ASSUME Init PROVE IndInv
  OBVIOUS
<1>1. PICK names \in [RouteNames -> SecretNames \cup {NoName}] :
         routes = [r \in RouteNames |-> NewRoute(1, names[r], 1)]
  BY DEF Init
<1>2. ASSUME NEW r \in RouteNames PROVE NewRoute(1, names[r], 1) \in Route
  BY <1>1 DEF NewRoute, Route
<1>3. routes \in [RouteNames -> Route]
  BY <1>1, <1>2
<1>4. <<>> \in Seq(Route) /\ <<>> \in Seq(Secret)
  OBVIOUS
<1>5. rwatch \in [RouteNames -> Seq(Route)] /\ swatch \in [SecretNames -> Seq(Secret)]
  BY <1>4 DEF Init
<1>6. secrets \in [SecretNames -> Secret] /\ job \in [RouteNames -> Job]
  BY Types DEF Init
<1>7. edits \in 0 .. MaxEdits /\ faults \in 0 .. MaxFaults
  <2>1. edits = 0 /\ faults = 0
    BY DEF Init
  <2> QED BY <2>1, BoundsAssumption
<1>8. queue \subseteq RouteNames /\ retry \subseteq RouteNames
  BY DEF Init
<1>9. rcache \in [RouteNames -> Route] /\ scache \in [SecretNames -> Secret]
  BY <1>3, <1>6 DEF Init
<1>10. JobsOK
  BY Types DEF Init, JobsOK
<1> QED BY <1>3, <1>5, <1>6, <1>7, <1>8, <1>9, <1>10 DEF IndInv, TypeOK

\* A sync reads the caches and decides.
LEMMA StartSyncInv ==
    ASSUME IndInv, NEW r \in RouteNames, StartSync(r)
    PROVE  IndInv'
<1>1. Found(r) \in Secret /\ rcache[r] \in Route /\ r \in SecretNames
  BY NamesAssumption DEF IndInv, TypeOK, Found
<1>2. Desired(r, Found(r)) \in Secret
  BY <1>1, DesiredType DEF IndInv
<1>3. /\ UNCHANGED <<routes, secrets, rwatch, swatch, rcache, scache, edits, faults>>
      /\ queue' \subseteq RouteNames /\ retry' \subseteq RouteNames
  BY DEF StartSync, IndInv, TypeOK, apiVars, cacheVars
<1>4. ~ NothingToSync(r) => rcache[r].secretName \in SecretNames
  BY <1>1 DEF NothingToSync, HasSyncSecretName, Route
<1>5. Resolves(Found(r).owner) => Found(r).owner # Nobody
  BY DEF Resolves
<1>6. \/ UNCHANGED job
      \/ \E j \in Job : /\ job' = [job EXCEPT ![r] = j]
                        /\ j.todo = "create" => ~ j.base.exists
                        /\ j.todo = "update" => j.base.owner # Nobody
  <2>1. CASE /\ ~ NothingToSync(r) /\ ~ Found(r).exists
             /\ job' = [job EXCEPT ![r] = [todo |-> "create", name |-> rcache[r].secretName,
                                      base |-> Found(r), new |-> Desired(r, Found(r))]]
    <3> DEFINE j == [todo |-> "create", name |-> rcache[r].secretName,
                     base |-> Found(r), new |-> Desired(r, Found(r))]
    <3>1. j \in Job
      BY <1>1, <1>2, <1>4, <2>1 DEF Job
    <3>2. j.todo = "create" /\ j.base = Found(r)
      OBVIOUS
    <3> QED BY <2>1, <3>1, <3>2
  <2>2. CASE /\ Resolves(Found(r).owner)
             /\ job' = [job EXCEPT ![r] = [todo |-> "update", name |-> r,
                                      base |-> Found(r), new |-> Desired(r, Found(r))]]
    <3> DEFINE j == [todo |-> "update", name |-> r,
                     base |-> Found(r), new |-> Desired(r, Found(r))]
    <3>1. j \in Job
      BY <1>1, <1>2, <2>2 DEF Job
    <3>2. j.todo = "update" /\ j.base = Found(r)
      OBVIOUS
    <3> QED BY <1>5, <2>2, <3>1, <3>2
  <2> QED BY <2>1, <2>2 DEF StartSync
<1>7. job' \in [RouteNames -> Job] /\ JobsOK'
  BY <1>6 DEF IndInv, TypeOK, JobsOK
<1> QED BY <1>3, <1>7 DEF IndInv, TypeOK

\* The write of a sync.
LEMMA FinishSyncInv ==
    ASSUME IndInv, NEW r \in RouteNames, FinishSync(r)
    PROVE  IndInv'
<1>1. job[r] \in Job /\ job[r] # Idle
  BY DEF FinishSync, IndInv, TypeOK
<1>2. job[r].name \in SecretNames /\ job[r].new \in Secret
  BY <1>1 DEF Job
<1>3. /\ routes' \in [RouteNames -> Route] /\ secrets' \in [SecretNames -> Secret]
      /\ rwatch' \in [RouteNames -> Seq(Route)] /\ swatch' \in [SecretNames -> Seq(Secret)]
  <2>1. CASE WriteSecret(job[r].name, job[r].new)
    BY <1>2, <2>1, WriteSecretType DEF IndInv
  <2>2. CASE UNCHANGED apiVars
    BY <2>2 DEF apiVars, IndInv, TypeOK
  <2> QED BY <2>1, <2>2 DEF FinishSync
<1>4. faults' \in 0 .. MaxFaults
  BY BoundsAssumption DEF FinishSync, Fault, NoFault, IndInv, TypeOK
<1>5. /\ UNCHANGED <<rcache, scache, edits>> /\ queue' \subseteq RouteNames
      /\ retry' \subseteq RouteNames
  BY DEF FinishSync, IndInv, TypeOK, cacheVars
<1>6. job' \in [RouteNames -> Job] /\ JobsOK'
  BY Types DEF FinishSync, IndInv, TypeOK, JobsOK
<1> QED BY <1>3, <1>4, <1>5, <1>6 DEF IndInv, TypeOK

\* Steps that leave the jobs alone need only keep the types.
LEMMA JobsKept ==
    ASSUME JobsOK, UNCHANGED job
    PROVE  JobsOK'
BY DEF JobsOK

\* Informers and the queue.
LEMMA QueueInv ==
    ASSUME IndInv, NEW r \in RouteNames, DeliverRoute(r) \/ Resync(r) \/ RetryFires(r)
    PROVE  IndInv'
<1>1. CASE DeliverRoute(r)
  <2>1. Head(rwatch[r]) \in Route /\ Tail(rwatch[r]) \in Seq(Route)
    BY <1>1 DEF DeliverRoute, IndInv, TypeOK
  <2>2. TypeOK'
    BY <1>1, <2>1 DEF DeliverRoute, IndInv, TypeOK
  <2> QED BY <1>1, <2>2, JobsKept DEF DeliverRoute, IndInv
<1>2. CASE Resync(r) \/ RetryFires(r)
  BY <1>2, JobsKept DEF Resync, RetryFires, IndInv, TypeOK, apiVars, cacheVars
<1> QED BY <1>1, <1>2

\* A Secret event puts only Routes into the queue.
LEMMA DeliverSecretInv ==
    ASSUME IndInv, NEW s \in SecretNames, DeliverSecret(s)
    PROVE  IndInv'
<1>1. Head(swatch[s]) \in Secret /\ Tail(swatch[s]) \in Seq(Secret)
  BY DEF DeliverSecret, IndInv, TypeOK
<1>2. scache[s].owner \in Owner /\ Head(swatch[s]).owner \in Owner
  BY <1>1 DEF IndInv, TypeOK, Secret
<1>3. \A o \in Owner : OwnersToEnqueue(o) \subseteq RouteNames
  BY DEF OwnersToEnqueue, Resolves, Owner, Nobody
<1>4. TypeOK'
  BY <1>1, <1>2, <1>3 DEF DeliverSecret, IndInv, TypeOK
<1> QED BY <1>4, JobsKept DEF DeliverSecret, IndInv

\* A restart empties the queue and reads everything anew.
LEMMA CrashInv ==
    ASSUME IndInv, Crash
    PROVE  IndInv'
<1>1. <<>> \in Seq(Route) /\ <<>> \in Seq(Secret)
  OBVIOUS
<1>2. rwatch' \in [RouteNames -> Seq(Route)] /\ swatch' \in [SecretNames -> Seq(Secret)]
  BY <1>1 DEF Crash
<1>3. job' \in [RouteNames -> Job] /\ JobsOK'
  BY Types DEF Crash, JobsOK
<1>4. faults' \in 0 .. MaxFaults
  BY BoundsAssumption DEF Crash, Fault, IndInv, TypeOK
<1> QED BY <1>2, <1>3, <1>4 DEF Crash, IndInv, TypeOK

\* Users, the provisioning loop and the garbage collector.
LEMMA UserInv ==
    ASSUME IndInv, NEW r \in RouteNames, UserStep(r)
    PROVE  IndInv'
<1>1. routes[r] \in Route
  BY DEF IndInv, TypeOK
<1>2. \E v \in Route : WriteRoute(r, v)
  <2>1. CASE NewCertificate(r)
    BY <1>1, <2>1 DEF NewCertificate, Route
  <2>2. CASE Annotate(r)
    <3>1. PICK n \in Annotations[r] : WriteRoute(r, [routes[r] EXCEPT !.secretName = n])
      BY <2>2 DEF Annotate
    <3>2. n \in SecretNames \cup {NoName}
      BY NamesAssumption
    <3>3. [routes[r] EXCEPT !.secretName = n] \in Route
      BY <1>1, <3>2 DEF Route
    <3> QED BY <3>1, <3>3
  <2>3. CASE ToggleManaged(r)
    BY <1>1, <2>3 DEF ToggleManaged, Route
  <2>4. CASE DeleteRoute(r)
    BY <1>1, <2>4, NamesAssumption DEF DeleteRoute, Route, NoRoute
  <2>5. CASE RecreateRoute(r)
    <3>1. PICK n \in Annotations[r] : WriteRoute(r, NewRoute(routes[r].uid + 1, n, 0))
      BY <2>5 DEF RecreateRoute
    <3>2. n \in SecretNames \cup {NoName} /\ routes[r].uid + 1 \in Nat
      BY <1>1, NamesAssumption DEF Route
    <3>3. NewRoute(routes[r].uid + 1, n, 0) \in Route
      BY <3>2 DEF Route, NewRoute
    <3> QED BY <3>1, <3>3
  <2> QED BY <2>1, <2>2, <2>3, <2>4, <2>5 DEF UserStep
<1>3. Edit
  BY DEF UserStep, NewCertificate, Annotate, ToggleManaged, DeleteRoute, RecreateRoute
<1>4. UNCHANGED <<rcache, scache, queue, retry, job, faults>> /\ edits' \in 0 .. MaxEdits
  BY <1>3, BoundsAssumption DEF Edit, IndInv, TypeOK, cacheVars, syncVars
<1> QED BY <1>2, <1>4, WriteRouteType, JobsKept DEF IndInv, TypeOK

\* Users and the garbage collector write typed Secrets and decide on no job.
LEMMA SecretWriterInv ==
    ASSUME IndInv, NEW s \in SecretNames, UserSecret(s) \/ CollectGarbage(s)
    PROVE  IndInv'
<1>1. secrets[s] \in Secret
  BY DEF IndInv, TypeOK
<1>2. \E v \in Secret : WriteSecret(s, v)
  <2>1. CASE UserSecret(s)
    BY <1>1, <2>1, Types DEF UserSecret, Secret
  <2>2. CASE CollectGarbage(s)
    BY <2>2, Types DEF CollectGarbage
  <2> QED BY <2>1, <2>2
<1>3. UNCHANGED <<rcache, scache, queue, retry, job, faults>> /\ edits' \in 0 .. MaxEdits
  BY BoundsAssumption DEF UserSecret, CollectGarbage, Edit, IndInv, TypeOK, cacheVars, syncVars
<1> QED BY <1>2, <1>3, WriteSecretType, JobsKept DEF IndInv, TypeOK

\* Every step keeps the invariant.
LEMMA NextInv == IndInv /\ [Next]_vars => IndInv'
<1> SUFFICES ASSUME IndInv, [Next]_vars PROVE IndInv'
  OBVIOUS
<1>1. CASE UNCHANGED vars
  BY <1>1 DEF vars, IndInv, TypeOK, JobsOK
<1>2. CASE Next
  BY <1>2, StartSyncInv, FinishSyncInv, QueueInv, DeliverSecretInv, CrashInv, UserInv,
     SecretWriterInv DEF Next, Sync
<1> QED BY <1>1, <1>2

\* Types are kept, and every pending Update was decided on for a Secret with a
\* Route as its controller: syncRouteToSecret returns early otherwise.
THEOREM Invariance == Spec => []IndInv
BY InitInv, NextInv, PTL DEF Spec

\* The state of the Route-to-Secret loop has its types: in particular a sync never
\* sets out to write without a name from the annotation.
THEOREM TypeCorrect == Spec => []TypeOK
<1>1. IndInv => TypeOK
  BY DEF IndInv
<1> QED BY <1>1, Invariance, PTL

\* One step: a Secret without a Route as its controller changes only by a user's
\* edit.  Create needs a free name, Update the version it was decided on.
LEMMA ForeignStep ==
    ASSUME IndInv, [Next]_vars, NEW s \in SecretNames,
           secrets[s].exists, secrets[s].owner = Nobody, secrets'[s] # secrets[s]
    PROVE  edits' # edits
<1>1. ASSUME NEW t \in SecretNames, NEW v, WriteSecret(t, v) PROVE t = s
  BY <1>1 DEF WriteSecret, IndInv, TypeOK
<1>2. ASSUME NEW r \in RouteNames, FinishSync(r) PROVE FALSE
  <2>1. job[r] \in Job /\ job[r] # Idle
    BY <1>2 DEF FinishSync, IndInv, TypeOK
  <2>2. job[r].todo \in {"create", "update"} /\ job[r].name \in SecretNames
    BY <2>1 DEF Job
  <2>3. Accepts(job[r]) /\ WriteSecret(job[r].name, job[r].new)
    BY <1>2 DEF FinishSync, apiVars
  <2>4. secrets[s] = job[r].base
    BY <1>1, <2>2, <2>3 DEF Accepts
  <2> QED BY <2>2, <2>4 DEF IndInv, JobsOK
<1>3. ASSUME NEW t \in SecretNames, CollectGarbage(t) PROVE FALSE
  <2>1. t = s
    BY <1>1, <1>3 DEF CollectGarbage
  <2> QED BY <1>3, <2>1 DEF CollectGarbage
<1>4. ASSUME NEW t \in SecretNames, UserSecret(t) PROVE edits' # edits
  BY <1>4 DEF UserSecret, Edit, IndInv, TypeOK
<1>5. ASSUME NEW r \in RouteNames, StartSync(r) \/ UserStep(r) PROVE FALSE
  BY <1>5 DEF StartSync, UserStep, NewCertificate, Annotate, ToggleManaged, DeleteRoute,
     RecreateRoute, WriteRoute, apiVars
<1>6. ASSUME NEW r \in RouteNames, DeliverRoute(r) \/ Resync(r) \/ RetryFires(r) PROVE FALSE
  BY <1>6 DEF DeliverRoute, Resync, RetryFires, apiVars
<1>7. ASSUME NEW t \in SecretNames, DeliverSecret(t) PROVE FALSE
  BY <1>7 DEF DeliverSecret
<1>8. ~ Crash /\ ~ UNCHANGED vars
  BY DEF Crash, vars
<1> QED BY <1>2, <1>3, <1>4, <1>5, <1>6, <1>7, <1>8 DEF Next, Sync

\* The controller keeps off Secrets that have no Route as their controller, in
\* every namespace and however far its informers lag.
THEOREM ForeignSecretsUntouchedHolds == Spec => ForeignSecretsUntouched
<1>1. IndInv /\ [Next]_vars
        => [\A s \in SecretNames :
              secrets[s].exists /\ secrets[s].owner = Nobody /\ secrets'[s] # secrets[s]
                 => edits' # edits]_vars
  BY ForeignStep
<1> QED BY <1>1, Invariance, PTL DEF Spec, ForeignSecretsUntouched
=============================================================================
