---------------------------- MODULE RouteToSecret ----------------------------
(***************************************************************************)
(* The second loop of pkg/controller/route: a Route annotated with         *)
(* acme.openshift.io/secret-name has its certificate copied into a Secret. *)
(* The Routes and Secrets are those of one namespace, so that a name is a  *)
(* key.                                                                    *)
(*                                                                         *)
(* Objects are read from two informers that trail the API server           *)
(* independently; the one write of a sync is a step of its own.  Workers   *)
(* serve different keys at the same time, one key never twice.             *)
(***************************************************************************)
EXTENDS Naturals, Sequences

CONSTANTS
    RouteNames,
    SecretNames, \* the Routes' own names among them
    NoName,      \* no annotation; no owner
    Annotations, \* [RouteNames -> values of GetSyncSecretName users choose from]
    MaxEdits,    \* bound: changes by users and by the provisioning loop
    MaxLag,      \* bound: versions of one object an informer may trail behind
    MaxFaults    \* bound: failed calls and restarts

ASSUME NamesAssumption ==
    /\ RouteNames \subseteq SecretNames /\ NoName \notin SecretNames
    /\ \A r \in RouteNames : Annotations[r] \subseteq SecretNames \cup {NoName}
ASSUME BoundsAssumption == MaxEdits \in Nat /\ MaxLag \in Nat \ {0} /\ MaxFaults \in Nat

VARIABLES
    routes,     \* API server: the Routes
    secrets,    \* API server: the Secrets
    rwatch,     \* versions of each Route that the informer has not delivered
    swatch,     \* versions of each Secret that the informer has not delivered
    rcache,     \* the Routes in the indexer
    scache,     \* the Secrets in the indexer
    queue,      \* keys in routesToSecretsQueue
    retry,      \* keys with a pending AddRateLimited
    job,        \* the write that the sync of a key is about to make
    edits,
    faults

apiVars   == <<routes, secrets, rwatch, swatch>>
cacheVars == <<rcache, scache>>
syncVars  == <<queue, retry, job>>
vars == <<routes, secrets, rwatch, swatch, rcache, scache, queue, retry, job, edits, faults>>

-----------------------------------------------------------------------------
(* Data. *)

\* cert numbers the contents of spec.tls (0: spec.tls is nil).
Route == [exists : BOOLEAN, uid : Nat, managed : BOOLEAN,
          secretName : SecretNames \cup {NoName}, cert : Nat]
NoRoute == [exists |-> FALSE, uid |-> 0, managed |-> FALSE, secretName |-> NoName, cert |-> 0]

\* A Secret with its controller reference, if that names a Route.
Nobody == [name |-> NoName, uid |-> 0]
Owner  == {Nobody} \cup [name : RouteNames, uid : Nat]
Secret == [exists : BOOLEAN, owner : Owner, cert : Nat]
NoSecret == [exists |-> FALSE, owner |-> Nobody, cert |-> 0]

\* The Create or Update that a sync has decided on, from the version it read.
Idle == [todo |-> "none", name |-> NoName, base |-> NoSecret, new |-> NoSecret]
Job  == {Idle} \cup [todo : {"create", "update"}, name : SecretNames,
                     base : Secret, new : Secret]

TypeOK ==
    /\ routes \in [RouteNames -> Route] /\ secrets \in [SecretNames -> Secret]
    /\ rwatch \in [RouteNames -> Seq(Route)] /\ swatch \in [SecretNames -> Seq(Secret)]
    /\ rcache \in [RouteNames -> Route] /\ scache \in [SecretNames -> Secret]
    /\ queue \subseteq RouteNames /\ retry \subseteq RouteNames
    /\ job \in [RouteNames -> Job]
    /\ edits \in 0 .. MaxEdits /\ faults \in 0 .. MaxFaults

-----------------------------------------------------------------------------
(* Helpers of the controller. *)

IsManaged(r) == r.exists /\ r.managed

\* enqueueRoute puts the key into this queue only for an annotated Route.
HasSyncSecretNameIgnored(r) == TRUE
HasSyncSecretName(r) == r.secretName # NoName

\* resolveControllerRef: the Route in the cache that a controller reference
\* names, if it is still that Route.
ResolvesUnowned(owner) ==
    \A r \in {owner.name} \ {NoName} : rcache[r].exists /\ rcache[r].uid = owner.uid
Resolves(owner) == /\ owner # Nobody
                   /\ rcache[owner.name].exists /\ rcache[owner.name].uid = owner.uid

\* Type, owner and data of the Secret for Route r as the cache has it.
DesiredKeepsData(r, base) ==
    [base EXCEPT !.exists = TRUE, !.owner = [name |-> r, uid |-> rcache[r].uid]]
Desired(r, base) ==
    [base EXCEPT !.exists = TRUE, !.owner = [name |-> r, uid |-> rcache[r].uid],
                 !.cert = rcache[r].cert]

\* updateSecret and deleteSecret: the Route that an event on a Secret with this
\* owner puts into the queue.
OwnersToEnqueue(owner) ==
    {r \in RouteNames : Resolves(owner) /\ r = owner.name /\ HasSyncSecretName(rcache[r])}

-----------------------------------------------------------------------------
(* API server. *)

WriteRoute(r, v) ==
    /\ Len(rwatch[r]) < MaxLag
    /\ routes' = [routes EXCEPT ![r] = v]
    /\ rwatch' = [rwatch EXCEPT ![r] = Append(@, v)]
    /\ UNCHANGED <<secrets, swatch>>

WriteSecret(s, v) ==
    /\ Len(swatch[s]) < MaxLag
    /\ secrets' = [secrets EXCEPT ![s] = v]
    /\ swatch' = [swatch EXCEPT ![s] = Append(@, v)]
    /\ UNCHANGED <<routes, rwatch>>

Fault   == faults < MaxFaults /\ faults' = faults + 1
NoFault == UNCHANGED faults

-----------------------------------------------------------------------------
(* syncRouteToSecret. *)

\* Nothing to copy: the Route is gone, has no TLS section or no annotation.
NothingToSync(r) ==
    \/ ~ rcache[r].exists \/ rcache[r].cert = 0 \/ ~ HasSyncSecretName(rcache[r])

\* The Secret is looked up under the key of the Route, not under the name in the
\* annotation.
Found(r) == scache[r]

\* What a sync of key r does after reading the caches: nothing, fail because the
\* Secret found belongs to no Route, or set out to write.
StartSync(r) ==
    LET base == Found(r)
        new  == Desired(r, base)
    IN
    /\ r \in queue /\ job[r] = Idle
    /\ queue' = queue \ {r}
    /\ \/ /\ \/ NothingToSync(r)
             \/ base.exists /\ Resolves(base.owner) /\ new = base
          /\ UNCHANGED <<retry, job>>
       \/ /\ ~ NothingToSync(r) /\ base.exists /\ ~ Resolves(base.owner)
          /\ retry' = retry \cup {r} /\ UNCHANGED job
       \/ /\ ~ NothingToSync(r) /\ ~ base.exists
          /\ job' = [job EXCEPT ![r] = [todo |-> "create", name |-> rcache[r].secretName,
                                        base |-> base, new |-> new]]
          /\ UNCHANGED retry
       \/ /\ ~ NothingToSync(r) /\ base.exists /\ Resolves(base.owner) /\ new # base
          /\ job' = [job EXCEPT ![r] = [todo |-> "update", name |-> r,
                                        base |-> base, new |-> new]]
          /\ UNCHANGED retry
    /\ UNCHANGED <<apiVars, cacheVars, edits, faults>>

\* The API server refuses a Create of a name in use, and an Update of a Secret
\* that is no longer the version the controller read.
Accepts(j) == secrets[j.name] = j.base

\* Create or Update.  processNextRouteToSecretItem retries after an error.
FinishSync(r) ==
    LET j == job[r] IN
    /\ j # Idle
    /\ job' = [job EXCEPT ![r] = Idle]
    /\ \/ Accepts(j) /\ WriteSecret(j.name, j.new) /\ NoFault /\ UNCHANGED retry
       \/ Accepts(j) /\ WriteSecret(j.name, j.new) /\ Fault /\ retry' = retry \cup {r}
       \/ ~ Accepts(j) /\ UNCHANGED apiVars /\ NoFault /\ retry' = retry \cup {r}
       \/ Fault /\ UNCHANGED apiVars /\ retry' = retry \cup {r}
    /\ UNCHANGED <<cacheVars, queue, edits>>

-----------------------------------------------------------------------------
(* Informers and queue. *)

\* addRoute, updateRoute, deleteRoute: a deletion is judged by the object known
\* before.
DeliverRoute(r) ==
    LET v   == Head(rwatch[r])
        obj == IF v.exists THEN v ELSE rcache[r]
    IN
    /\ rwatch[r] # <<>>
    /\ rcache' = [rcache EXCEPT ![r] = v]
    /\ rwatch' = [rwatch EXCEPT ![r] = Tail(@)]
    /\ queue' = IF IsManaged(obj) /\ HasSyncSecretName(obj) THEN queue \cup {r} ELSE queue
    /\ UNCHANGED <<routes, secrets, swatch, scache, retry, job, edits, faults>>

\* updateSecret, deleteSecret.  There is no handler for an added Secret.
DeliverSecret(s) ==
    LET v == Head(swatch[s]) IN
    /\ swatch[s] # <<>>
    /\ scache' = [scache EXCEPT ![s] = v]
    /\ swatch' = [swatch EXCEPT ![s] = Tail(@)]
    /\ queue' = IF scache[s].exists
                THEN queue \cup OwnersToEnqueue(IF v.exists THEN v.owner ELSE scache[s].owner)
                ELSE queue
    /\ UNCHANGED <<routes, secrets, rwatch, rcache, retry, job, edits, faults>>

\* The Route informer's periodic resync calls updateRoute.
Resync(r) ==
    /\ IsManaged(rcache[r]) /\ HasSyncSecretName(rcache[r]) /\ r \notin queue
    /\ queue' = queue \cup {r}
    /\ UNCHANGED <<apiVars, cacheVars, retry, job, edits, faults>>

RetryFires(r) ==
    /\ r \in retry
    /\ retry' = retry \ {r} /\ queue' = queue \cup {r}
    /\ UNCHANGED <<apiVars, cacheVars, job, edits, faults>>

\* A new process lists everything and adds the annotated, managed Routes.
Crash ==
    /\ Fault
    /\ rcache' = routes /\ scache' = secrets
    /\ rwatch' = [r \in RouteNames |-> <<>>] /\ swatch' = [s \in SecretNames |-> <<>>]
    /\ queue' = {r \in RouteNames : IsManaged(routes[r]) /\ HasSyncSecretName(routes[r])}
    /\ retry' = {} /\ job' = [r \in RouteNames |-> Idle]
    /\ UNCHANGED <<routes, secrets, edits>>

-----------------------------------------------------------------------------
(* Users, the provisioning loop, the garbage collector. *)

Edit == /\ edits < MaxEdits /\ edits' = edits + 1
        /\ UNCHANGED <<cacheVars, syncVars, faults>>

\* The provisioning loop stores the certificate of another order.
NewCertificate(r) ==
    /\ IsManaged(routes[r]) /\ Edit
    /\ WriteRoute(r, [routes[r] EXCEPT !.cert = @ + 1])

Annotate(r) ==
    /\ routes[r].exists /\ Edit
    /\ \E n \in Annotations[r] \ {routes[r].secretName} :
          WriteRoute(r, [routes[r] EXCEPT !.secretName = n])

ToggleManaged(r) ==
    /\ routes[r].exists /\ Edit
    /\ WriteRoute(r, [routes[r] EXCEPT !.managed = ~ @])

DeleteRoute(r) ==
    /\ routes[r].exists /\ Edit
    /\ WriteRoute(r, [NoRoute EXCEPT !.uid = routes[r].uid])

NewRoute(uid, name, cert) ==
    [exists |-> TRUE, uid |-> uid, managed |-> TRUE, secretName |-> name, cert |-> cert]

RecreateRoute(r) ==
    /\ ~ routes[r].exists /\ Edit
    /\ \E n \in Annotations[r] :
          WriteRoute(r, NewRoute(routes[r].uid + 1, n, 0))

\* A user creates a Secret, changes its data, takes the owner away or deletes it.
UserSecret(s) ==
    /\ Edit
    /\ \E v \in IF secrets[s].exists
                THEN {[secrets[s] EXCEPT !.cert = 0], [secrets[s] EXCEPT !.owner = Nobody],
                      NoSecret} \ {secrets[s]}
                ELSE {[NoSecret EXCEPT !.exists = TRUE]} :
          WriteSecret(s, v)

CollectGarbage(s) ==
    LET o == secrets[s].owner IN
    /\ secrets[s].exists /\ o # Nobody
    /\ ~ (routes[o.name].exists /\ routes[o.name].uid = o.uid)
    /\ WriteSecret(s, NoSecret)
    /\ UNCHANGED <<cacheVars, syncVars, edits, faults>>

-----------------------------------------------------------------------------
(* Specification. *)

\* Every Route is managed and has a certificate; no Secret exists.
Init ==
    /\ \E names \in [RouteNames -> SecretNames \cup {NoName}] :
          /\ \A r \in RouteNames : names[r] \in Annotations[r]
          /\ routes = [r \in RouteNames |-> NewRoute(1, names[r], 1)]
    /\ secrets = [s \in SecretNames |-> NoSecret]
    /\ rwatch = [r \in RouteNames |-> <<>>] /\ swatch = [s \in SecretNames |-> <<>>]
    /\ rcache = routes /\ scache = secrets
    /\ queue = {r \in RouteNames : HasSyncSecretName(routes[r])} /\ retry = {}
    /\ job = [r \in RouteNames |-> Idle]
    /\ edits = 0 /\ faults = 0

Sync(r) == StartSync(r) \/ FinishSync(r)

UserStep(r) == \/ NewCertificate(r) \/ Annotate(r) \/ ToggleManaged(r)
               \/ DeleteRoute(r) \/ RecreateRoute(r)

Next == \/ \E r \in RouteNames : Sync(r) \/ DeliverRoute(r) \/ Resync(r) \/ RetryFires(r)
                                     \/ UserStep(r)
        \/ \E s \in SecretNames : DeliverSecret(s) \/ UserSecret(s) \/ CollectGarbage(s)
        \/ Crash

\* Workers, informers, delayed adds, the resync and the garbage collector run.
Fairness ==
    /\ \A r \in RouteNames : /\ WF_vars(Sync(r)) /\ WF_vars(DeliverRoute(r))
                             /\ WF_vars(Resync(r)) /\ WF_vars(RetryFires(r))
    /\ \A s \in SecretNames : WF_vars(DeliverSecret(s)) /\ WF_vars(CollectGarbage(s))

Spec == Init /\ [][Next]_vars

FairSpec == Spec /\ Fairness

-----------------------------------------------------------------------------
(* Properties. *)

\* What a sync has decided to write: a Create is for a Secret that was not there,
\* an Update for one that had a Route as its controller when it was read.
JobsOK ==
    \A r \in RouteNames :
        /\ job[r].todo = "create" => ~ job[r].base.exists
        /\ job[r].todo = "update" => job[r].base.owner # Nobody

\* The controller keeps off Secrets that have no Route as their controller: only
\* users change those, however stale the cache that sync decided on.
ForeignSecretsUntouched ==
    [][\A s \in SecretNames :
          secrets[s].exists /\ secrets[s].owner = Nobody /\ secrets'[s] # secrets[s]
             => edits' # edits]_vars

\* "the controller will synchronize the Route certificates into a Secret": once
\* users and faults are over, the Secret named by the annotation holds the
\* certificate of the Route, unless it is somebody else's.
SecretFollowsRoute ==
    \A r \in RouteNames :
        <>[](IsManaged(routes[r]) /\ HasSyncSecretName(routes[r]) /\ routes[r].cert # 0
               => LET s == secrets[routes[r].secretName] IN
                  s.exists /\ (s.cert = routes[r].cert \/ s.owner = Nobody))
=============================================================================
