------------------------------ MODULE Exposers -------------------------------
(***************************************************************************)
(* The exposer of an http-01 challenge (pkg/controller/route): a Route, a  *)
(* Secret, a ReplicaSet and a Service of the same name, which sync looks   *)
(* up in four informers that trail the API server independently, creates   *)
(* when missing, and checks before it accepts the challenge; and the       *)
(* exposer processes in the pods of the ReplicaSet                         *)
(* (pkg/cmd/openshift-acme-exposer, pkg/httpserver).                       *)
(*                                                                         *)
(* The name is a hash of host and token, so the model follows one name, of *)
(* one managed Route.  Module RouteController has the rest of sync and     *)
(* only the stage of the exposer.                                          *)
(***************************************************************************)
EXTENDS ExposerResources, FiniteSets

CONSTANTS
    Pods,       \* the replicas of the ReplicaSet
    RangeLists, \* LimitRange items of the namespace at one time or another, as listed
    MaxOrders,  \* bound: orders that bring the challenge
    MaxStale,   \* bound: informers that trail behind at the same time
    MaxMishaps  \* bound: failed calls and pods, deletions and other LimitRanges

ASSUME RangesAssumption == RangeLists \subseteq Seq(RangeItems)
ASSUME BoundsAssumption == MaxOrders \in Nat \ {0} /\ MaxStale \in Nat \ {0} /\ MaxMishaps \in Nat

VARIABLES
    alive,      \* the managed Route exists
    obj,        \* API server: the four objects
    cache,      \* the four objects in the indexers
    ranges,     \* the LimitRange items of the namespace
    pods,       \* the exposer process in each pod
    queued,     \* the key waits in rc.queue, or has a delayed add pending
    pc,         \* where the sync of the key stands
    exposerRoute, \* sync: the exposer Route it has read or created
    exposerRS,  \* sync: the ReplicaSet it has read or created
    challenge,  \* ACME server: the challenge
    cleanup,    \* of the exposer after the order has ended
    uids,       \* API server: UIDs given to exposer Routes
    orders,
    mishaps

syncVars == <<pc, exposerRoute, exposerRS>>
caVars   == <<challenge, cleanup, orders>>
vars == <<alive, obj, cache, ranges, pods, queued, pc, exposerRoute, exposerRS,
          challenge, cleanup, uids, orders, mishaps>>

-----------------------------------------------------------------------------
(* Data. *)

Kinds == {"route", "secret", "rs", "service"}

\* owner is the controller reference: the managed Route (0) for the exposer
\* Route, the UID of the exposer Route for the other three.  ready: the Route is
\* admitted; status of the ReplicaSet is up to date and all its pods available.
Object == [exists : BOOLEAN, uid : Nat, owner : Nat, ready : BOOLEAN,
           request : Nat, limit : Nat]
Nothing == [exists |-> FALSE, uid |-> 0, owner |-> 0, ready |-> FALSE,
            request |-> 0, limit |-> 0]

PcValues == Kinds \cup {"idle", "check", "accept"}

\* "hung": the process could not listen and waits for a signal.
PodStates == {"none", "serving", "hung"}

TypeOK ==
    /\ alive \in BOOLEAN
    /\ obj \in [Kinds -> Object] /\ cache \in [Kinds -> Object]
    /\ ranges \in RangeLists
    /\ pods \in [Pods -> PodStates]
    /\ queued \in BOOLEAN
    /\ pc \in PcValues /\ exposerRoute \in Object /\ exposerRS \in Object
    /\ pc \notin {"idle", "route"} => exposerRoute.exists
    /\ challenge \in {"pending", "processing", "done"}
    /\ cleanup \in {"none", "due", "done", "failed"}
    /\ uids \in Nat
    /\ orders \in 1 .. MaxOrders /\ mishaps \in 0 .. MaxMishaps

-----------------------------------------------------------------------------
(* Shared steps. *)

Mishap   == mishaps < MaxMishaps /\ mishaps' = mishaps + 1
NoMishap == UNCHANGED mishaps

EndSync   == pc' = "idle" /\ exposerRoute' = Nothing /\ exposerRS' = Nothing
ReturnNil == EndSync /\ UNCHANGED queued
ReturnErr == EndSync /\ queued' = TRUE

\* rc.queue.AddAfter(key, 15s), and out of the switch.
Requeue == EndSync /\ queued' = TRUE

\* Deleting the ReplicaSet ends its pods: the exposer gets a signal and shuts
\* down, or is killed.
PodsOf(o) == IF o["rs"].exists THEN pods ELSE [p \in Pods |-> "none"]

SetObj(o) == /\ Cardinality({k \in Kinds : cache[k] # o[k]}) <= MaxStale
             /\ obj' = o /\ pods' = PodsOf(o)

-----------------------------------------------------------------------------
(* sync: looking up, creating and checking one object after the other. *)

\* The exposer Route comes first: the other three are owned by it.
FirstKindSecret == "secret"
FirstKind == "route"
NextKind(k) == CASE k = "route"  -> "secret" [] k = "secret"  -> "rs"
                 [] k = "rs"     -> "service" [] k = "service" -> "check"

OwnerOf(k) == IF k = "route" THEN 0 ELSE exposerRoute.uid

\* adjustContainerResourceRequirements for each state of the namespace.
Resources == [items \in RangeLists |-> Adjusted(items)]

\* The object that sync would create.
Desired(k) ==
    LET new == [Nothing EXCEPT !.exists = TRUE, !.owner = OwnerOf(k)]
        req == Resources[ranges]
    IN  CASE k = "route" -> [new EXCEPT !.uid = uids + 1]
          [] k = "rs"    -> [new EXCEPT !.request = req.request, !.limit = req.limit]
          [] OTHER       -> new

\* metav1.IsControlledBy, and the exposer id, which is that of the name.
ControlledByRoute(o, k) == o.owner = 0
Controlled(o, k) == o.owner = OwnerOf(k)

\* Sync goes on with object o of kind k, or gives up because it is not its own.
Hold(o, k) ==
    IF Controlled(o, k)
    THEN /\ pc' = NextKind(k)
         /\ exposerRoute' = IF k = "route" THEN o ELSE exposerRoute
         /\ exposerRS' = IF k = "rs" THEN o ELSE exposerRS
         /\ UNCHANGED queued
    ELSE ReturnErr

\* The Create of the object that the lister did not find.
Create(k) ==
    \/ /\ ~ obj[k].exists /\ NoMishap
       /\ SetObj([obj EXCEPT ![k] = Desired(k)])
       /\ uids' = IF k = "route" THEN uids + 1 ELSE uids
       /\ Hold(Desired(k), k)
    \/ obj[k].exists /\ NoMishap /\ ReturnErr /\ UNCHANGED <<obj, pods, uids>>  \* AlreadyExists
    \/ Mishap /\ ReturnErr /\ UNCHANGED <<obj, pods, uids>>

\* Before the ReplicaSet, the LimitRanges may refuse it: no error, no requeue.
Obtain(k) ==
    /\ pc = k
    /\ \/ /\ k = "rs" /\ Resources[ranges].failed
          /\ NoMishap /\ ReturnNil /\ UNCHANGED <<obj, pods, uids>>
       \/ /\ ~ (k = "rs" /\ Resources[ranges].failed)
          /\ \/ cache[k].exists /\ NoMishap /\ Hold(cache[k], k) /\ UNCHANGED <<obj, pods, uids>>
             \/ ~ cache[k].exists /\ Create(k)
    /\ UNCHANGED <<alive, cache, ranges, caVars>>

\* The path of a request: an admitted Route, a Service, a pod that listens.
Reachable == /\ obj["route"].exists /\ obj["route"].ready /\ obj["service"].exists
             /\ \E p \in Pods : pods[p] = "serving"

\* The three checks before Accept: admitted, available, and ValidateExposedToken.
CheckedUnserved == exposerRoute.ready /\ exposerRS.ready
Checked == exposerRoute.ready /\ exposerRS.ready /\ Reachable

\* The balancer may pick a pod that does not answer.
Validate ==
    /\ pc = "check"
    /\ \/ Checked /\ NoMishap /\ pc' = "accept" /\ UNCHANGED <<exposerRoute, exposerRS, queued>>
       \/ ~ Checked /\ NoMishap /\ Requeue
       \/ (\E p \in Pods : pods[p] # "serving") /\ NoMishap /\ Requeue
       \/ Mishap /\ Requeue
    /\ UNCHANGED <<alive, obj, cache, ranges, pods, caVars, uids>>

Accept ==
    /\ pc = "accept"
    /\ \/ challenge = "pending" /\ NoMishap /\ challenge' = "processing" /\ Requeue
       \/ challenge # "pending" /\ NoMishap /\ ReturnErr /\ UNCHANGED challenge
       \/ Mishap /\ ReturnErr /\ UNCHANGED challenge
    /\ UNCHANGED <<alive, obj, cache, ranges, pods, cleanup, orders, uids>>

\* Start of a sync, as far as it concerns the exposer.  One that finds the challenge
\* in the hands of the ACME server only adds the key again.
StartSync ==
    /\ pc = "idle" /\ queued
    /\ \/ alive /\ challenge = "pending" /\ pc' = FirstKind /\ queued' = FALSE
       \/ /\ ~ alive \/ (challenge = "done" /\ cleanup # "due")
          /\ queued' = FALSE /\ UNCHANGED pc
    /\ UNCHANGED <<alive, obj, cache, ranges, pods, exposerRoute, exposerRS, caVars, uids,
                   mishaps>>

\* The first sync after the order has ended deletes what is labelled with the UID
\* of the managed Route, which is only the exposer Route.
DeleteSecretOnly == SetObj([obj EXCEPT !["secret"] = Nothing])
DeleteExposers == SetObj([obj EXCEPT !["route"] = Nothing])

Cleanup ==
    /\ pc = "idle" /\ queued /\ queued' = FALSE
    /\ alive /\ challenge = "done" /\ cleanup = "due"
    /\ \/ NoMishap /\ DeleteExposers /\ cleanup' = "done"
       \/ Mishap /\ UNCHANGED <<obj, pods>> /\ cleanup' = "failed"
    /\ UNCHANGED <<alive, cache, ranges, syncVars, challenge, orders, uids>>

-----------------------------------------------------------------------------
(* Informers and queue. *)

\* An event on the ReplicaSet enqueues the managed Route (enqueueOwningRoute); the
\* other kinds have no handler that does.
Deliver(k) ==
    /\ cache[k] # obj[k]
    /\ cache' = [cache EXCEPT ![k] = obj[k]]
    /\ queued' = (queued \/ (k = "rs" /\ alive))
    /\ UNCHANGED <<alive, obj, ranges, pods, syncVars, caVars, uids, mishaps>>

\* An event on the managed Route, or the resync of its informer.  One that comes
\* during a sync is one right after it: the queue hands out a key again only then.
Wake ==
    /\ pc = "idle" /\ alive /\ ~ queued
    /\ queued' = TRUE
    /\ UNCHANGED <<alive, obj, cache, ranges, pods, syncVars, caVars, uids, mishaps>>

-----------------------------------------------------------------------------
(* The cluster and the exposer processes. *)

ClusterStep == UNCHANGED <<alive, cache, ranges, queued, syncVars, caVars, uids>>

RouterAdmits ==
    /\ obj["route"].exists /\ ~ obj["route"].ready /\ NoMishap
    /\ SetObj([obj EXCEPT !["route"].ready = TRUE])
    /\ ClusterStep

\* The ReplicaSet controller reports its pods available; pods that it could not
\* create do not count, and a process counts whether or not it listens.
RSAvailable ==
    /\ obj["rs"].exists /\ ~ obj["rs"].ready /\ NoMishap
    /\ SetObj([obj EXCEPT !["rs"].ready = TRUE])
    /\ ClusterStep

\* The LimitRanger admits a pod.
Admissible ==
    /\ obj["rs"].exists
    /\ \A k \in DOMAIN ranges : /\ MinMet(obj["rs"], ranges[k]) /\ MaxMet(obj["rs"], ranges[k])
                                /\ RatioMet(obj["rs"], ranges[k])

\* The pod is created, with the Secret mounted.  The process parses the file and
\* serves the token; or it cannot listen, and wg.Wait waits for the goroutine that
\* waits for a signal.
ProcessRuns(p) ==
    /\ pods[p] = "none" /\ Admissible /\ obj["secret"].exists
    /\ \/ NoMishap /\ pods' = [pods EXCEPT ![p] = "serving"]
       \/ Mishap /\ pods' = [pods EXCEPT ![p] = "hung"]
    /\ UNCHANGED obj
    /\ ClusterStep

\* The pod is evicted or its node lost.
PodDies(p) ==
    /\ pods[p] # "none" /\ Mishap
    /\ pods' = [pods EXCEPT ![p] = "none"] /\ UNCHANGED obj
    /\ ClusterStep

\* The garbage collector removes what has no owner any more.
Orphan(k) == /\ obj[k].exists
             /\ IF k = "route" THEN ~ alive
                ELSE ~ obj["route"].exists \/ obj["route"].uid # obj[k].owner

CollectGarbage(k) ==
    /\ Orphan(k) /\ NoMishap
    /\ SetObj([obj EXCEPT ![k] = Nothing])
    /\ ClusterStep

-----------------------------------------------------------------------------
(* Users and the ACME server. *)

DeleteObject(k) ==
    /\ obj[k].exists /\ Mishap
    /\ SetObj([obj EXCEPT ![k] = Nothing])
    /\ UNCHANGED <<alive, cache, ranges, queued, syncVars, caVars, uids>>

DeleteRoute ==
    /\ alive /\ Mishap /\ alive' = FALSE
    /\ UNCHANGED <<obj, cache, ranges, pods, queued, syncVars, caVars, uids>>

ChangeRanges ==
    /\ Mishap /\ ranges' \in RangeLists \ {ranges}
    /\ UNCHANGED <<alive, obj, cache, pods, queued, syncVars, caVars, uids>>

CAStep == UNCHANGED <<alive, obj, cache, ranges, pods, queued, syncVars, uids, mishaps>>

\* The server decides on an accepted challenge.
CADecides == /\ challenge = "processing" /\ challenge' = "done" /\ cleanup' = "due"
             /\ UNCHANGED orders /\ CAStep

\* The order expires before the challenge is accepted.
CAExpires == /\ challenge = "pending" /\ challenge' = "done" /\ cleanup' = "due"
             /\ UNCHANGED orders /\ CAStep

\* The next order of the Route reuses the authorization; its status patch is an
\* event on the Route.
NewOrder ==
    /\ pc = "idle" /\ alive /\ challenge = "done" /\ cleanup # "due" /\ orders < MaxOrders
    /\ challenge' = "pending" /\ cleanup' = "none" /\ orders' = orders + 1
    /\ queued' = TRUE
    /\ UNCHANGED <<alive, obj, cache, ranges, pods, syncVars, uids, mishaps>>

-----------------------------------------------------------------------------
(* Specification. *)

Init ==
    /\ alive = TRUE /\ ranges \in RangeLists
    /\ obj = [k \in Kinds |-> Nothing] /\ cache = obj
    /\ pods = [p \in Pods |-> "none"]
    /\ queued = TRUE
    /\ pc = "idle" /\ exposerRoute = Nothing /\ exposerRS = Nothing
    /\ challenge = "pending" /\ cleanup = "none"
    /\ uids = 0 /\ orders = 1 /\ mishaps = 0

SyncStep == StartSync \/ Cleanup \/ (\E k \in Kinds : Obtain(k)) \/ Validate \/ Accept

Next ==
    \/ SyncStep \/ Wake
    \/ RouterAdmits \/ RSAvailable
    \/ \E p \in Pods : ProcessRuns(p) \/ PodDies(p)
    \/ \E k \in Kinds : Deliver(k) \/ CollectGarbage(k) \/ DeleteObject(k)
    \/ DeleteRoute \/ ChangeRanges \/ CADecides \/ CAExpires \/ NewOrder

Spec == Init /\ [][Next]_vars

\* The controller, the informers, with the resync of the Route informer, and the
\* cluster keep running.  When the balancer has a pod that serves and one that does
\* not, it does not pick the second for ever.
Fairness ==
    /\ WF_vars(SyncStep) /\ WF_vars(Wake) /\ SF_vars(Validate /\ pc' = "accept")
    /\ WF_vars(RouterAdmits) /\ WF_vars(RSAvailable)
    /\ \A p \in Pods : WF_vars(ProcessRuns(p))
    /\ \A k \in Kinds : WF_vars(Deliver(k)) /\ WF_vars(CollectGarbage(k))

FairSpec == Spec /\ Fairness

-----------------------------------------------------------------------------
(* Properties. *)

\* "We need to watch LimitRanges to respect Min and Max values on exposer pods".
\* Whatever LimitRanges there are and in whatever order they are listed: every
\* minimum is obeyed; every maximum is, or the pod is refused, or a later item has a
\* minimum above that maximum; every MaxLimitRequestRatio is, or it is missed by the
\* rounding of RatioRounded; and the request never gets above the limit, in a
\* ReplicaSet neither.
RangesRespected == FitsAllRanges /\ obj["rs"].request <= obj["rs"].limit

\* Although four stale listers may show parts of an exposer that is being removed,
\* and Creates fail for parts that they do not show yet, and one of the pods may hang,
\* the challenge is accepted in the end (or expires); unless the LimitRanges refuse
\* the pods, in sync or in the LimitRanger, or no process listens.
ChallengeAccepted ==
    <>[](\/ challenge # "pending" \/ ~ alive
         \/ Resources[ranges].failed
         \/ obj["rs"].exists /\ ~ Admissible
         \/ \A p \in Pods : pods[p] = "hung")

\* sync and the cleanup delete only the exposer Route; the rest is left to the
\* garbage collector, even when a sync on a stale lister created it for an exposer
\* Route that was already gone.  Once the managed Route is deleted, or an order has
\* ended and the cleanup did not fail, no part is left.
NothingLeft ==
    <>[](~ alive \/ (challenge = "done" /\ cleanup = "done") => \A k \in Kinds : ~ obj[k].exists)

\* The exposer as one thing.
Stage ==
    CASE Reachable                                  -> "up"
      [] ~ obj["route"].exists                      -> "none"
      [] ~ Reachable /\ obj["route"].exists         ->
            IF \A k \in Kinds \ {"route"} : obj[k].exists /\ obj[k].owner = obj["route"].uid
            THEN "created" ELSE "partial"

Contract == INSTANCE ExposerContract
                WITH stage <- Stage, vouched <- (pc = "accept"), challenge <- challenge

\* Four objects, four listers and the pods together behave like one exposer that is
\* put up, may fall apart, and vouches for the challenge only when it answers.
ImplementsContract == Contract!Spec
=============================================================================
