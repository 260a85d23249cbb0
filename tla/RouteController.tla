--------------------------- MODULE RouteController ---------------------------
(***************************************************************************)
(* The provisioning loop of openshift-acme (pkg/controller/route): how the *)
(* controller keeps the certificate of one managed Route fresh.            *)
(*                                                                         *)
(* The controller keeps no state of its own about a Route: what it knows   *)
(* of the ACME order in flight is the status annotation of the Route.  It  *)
(* reads the Route from an informer cache that trails the API server, and  *)
(* writes the annotation back with a merge patch that carries no resource  *)
(* version.  A sync is a sequence of calls to the API server and to the    *)
(* ACME server; every call is a step of its own here, so that users, the   *)
(* router, the ACME server, the informer and a crash can come in between.  *)
(*                                                                         *)
(* The work queue never hands one key to two workers, and syncs of two     *)
(* Routes share nothing but read-only issuer data, so the model follows a  *)
(* single key.                                                             *)
(***************************************************************************)
EXTENDS Naturals, Sequences, FiniteSets

CONSTANTS
    Hosts,      \* host names a user may write into spec.host
    NoHost,     \* "no router admitted the Route"
    MaxTries,   \* attempts of retry.RetryOnConflict (retry.DefaultRetry: 5)
    MaxOrders,  \* bound: orders the ACME server grants before it rate-limits
    MaxLag,     \* bound: route versions the informer may trail behind
    MaxEdits,   \* bound: edits by users, refusals by the router
    MaxFaults   \* bound: failed calls and crashes

ASSUME HostsAssumption  == NoHost \notin Hosts
ASSUME BoundsAssumption == /\ MaxTries  \in Nat \ {0}
                           /\ MaxOrders \in Nat \ {0}
                           /\ MaxLag    \in Nat \ {0}
                           /\ MaxEdits  \in Nat
                           /\ MaxFaults \in Nat

VARIABLES
    route,      \* the Route stored by the API server
    watch,      \* versions of it that the informer has not delivered yet
    cache,      \* the Route in the informer's indexer
    dirty,      \* the key waits in rc.queue
    timer,      \* a delayed add of the key is pending (AddAfter, AddRateLimited)
    pc,         \* where the sync of the key stands; "idle" when none runs
    snap,       \* sync: routeReadOnly
    st,         \* sync: status.ProvisioningStatus, the working copy
    fresh,      \* sync: freshRoute inside RetryOnConflict
    tries,      \* sync: attempts made by RetryOnConflict
    nOrders,    \* ACME server: orders created so far
    orders,     \* ACME server: state, identifier and authorization of each
    limited,    \* ACME server: it has refused an order for its rate limit
    due,        \* certificates, named by their order, in their renewal period
    exposers,   \* exposer Routes with the objects they own
    edits,
    faults

apiVars   == <<route, watch>>
queueVars == <<dirty, timer>>
syncVars  == <<pc, snap, st, fresh, tries>>
caVars    == <<nOrders, orders, limited>>
envVars   == <<due, edits>>
vars == <<route, watch, cache, dirty, timer, pc, snap, st, fresh, tries,
          nOrders, orders, limited, due, exposers, edits, faults>>

-----------------------------------------------------------------------------
(* Data. *)

Orders == 1 .. MaxOrders

\* Order.Status on the ACME server.  "expired" stands for expired, revoked and
\* deactivated, which sync treats alike; "gone" is an order the server answers
\* with 404.
LiveStates     == {"pending", "ready", "processing"}
TerminalStates == {"valid", "invalid", "expired", "gone"}

\* ProvisioningStatus: OrderURI (0 is ""), OrderStatus ("none" is ""), Failures.
Status == [uri      : 0 .. MaxOrders,
           os       : {"none"} \cup LiveStates \cup {"valid", "invalid", "expired"},
           failures : Nat]
NoStatus == [uri |-> 0, os |-> "none", failures |-> 0]

\* What sync reads and writes of a Route.  admitted is the host a router
\* recorded in status.ingress when it set the condition Admitted=True, cert the
\* order that issued spec.tls.certificate (0: none).
Version == [exists   : BOOLEAN,
            uid      : Nat,
            host     : Hosts \cup {NoHost},
            managed  : BOOLEAN,
            admitted : Hosts \cup {NoHost},
            cert     : 0 .. MaxOrders,
            st       : Status]
NoRoute == [exists |-> FALSE, uid |-> 0, host |-> NoHost, managed |-> FALSE,
            admitted |-> NoHost, cert |-> 0, st |-> NoStatus]

Order == [state : LiveStates \cup TerminalStates,
          host  : Hosts \cup {NoHost},
          authz : {"pending", "processing", "valid", "invalid"}]
NoOrder == [state |-> "gone", host |-> NoHost, authz |-> "pending"]

\* An exposer Route is named by a hash of host and challenge path, hence by
\* order and host; uid is its owner.  "partial": some of Secret, ReplicaSet and
\* Service are missing; "created": all exist; "up": the Route is admitted, the
\* ReplicaSet available and the token served, so ValidateExposedToken succeeds.
\* refused is a history bit: the last sync that got as far as the pods could not
\* fit them into the LimitRanges of the namespace.
Exposer == [order : Orders, host : Hosts, uid : Nat,
            stage : {"partial", "created", "up"}, refused : BOOLEAN]

PcValues == {"idle", "authorize", "getOrder", "getAuthz", "expose", "accept",
             "finalize", "getFresh", "update", "cleanupReturn", "cleanupPatch",
             "patch"}

TypeOK ==
    /\ route \in Version /\ cache \in Version
    /\ watch \in Seq(Version)
    /\ dirty \in BOOLEAN /\ timer \in BOOLEAN
    /\ pc \in PcValues
    /\ snap \in Version /\ fresh \in Version /\ st \in Status
    /\ tries \in 0 .. MaxTries
    /\ nOrders \in 0 .. MaxOrders
    /\ orders \in [Orders -> Order]
    /\ limited \in BOOLEAN
    /\ due \subseteq Orders
    /\ exposers \subseteq Exposer
    /\ edits \in 0 .. MaxEdits /\ faults \in 0 .. MaxFaults

-----------------------------------------------------------------------------
(* Helpers of the controller. *)

\* util.IsManaged on an object the informer knows.
IsManaged(r) == r.exists /\ r.managed

\* routeutil.IsAdmitted: there is a condition Admitted in status.ingress and each
\* one is True.  The host a router recorded next to it is not compared with
\* spec.host.
IsAdmitted(r) == r.admitted # NoHost

\* needsCertKey returns no reason: a certificate for this host that is not due.
GoodCert(r) == r.cert # 0 /\ orders[r.cert].host = r.host /\ r.cert \notin due
NeedsCert(r) == ~ GoodCert(r)

\* Statuses that make sync carry on with an order although the certificate in
\* place is still good.
OrderInFlight(s) == s.os \in LiveStates

ClearOrder(s) == [s EXCEPT !.uri = 0, !.os = "none"]

\* The switch on OrderStatus before a certificate is requested.  The backoff
\* computed above it is always zero, so a failed order is never delayed here;
\* module OrderRetry keeps the clock.
CleanPreviousOrderEager(s) == IF s.os = "ready" THEN s ELSE ClearOrder(s)
CleanPreviousOrderKeep(s) == IF s.os \in {"none", "valid"} THEN ClearOrder(s) ELSE s
CleanPreviousOrder(s) == IF OrderInFlight(s) THEN s ELSE ClearOrder(s)

\* The OrderStatus just read from the ACME server goes into the working copy.
ObserveAndCharge(s, os) == [s EXCEPT !.os = os, !.failures = @ + 1]
Observe(s, os) == [s EXCEPT !.os = os]

\* Failures += 1 unless the stored status was the same already.
ChargeFailure(s, os) ==
    [s EXCEPT !.os = os, !.failures = IF os # s.os THEN @ + 1 ELSE @]

-----------------------------------------------------------------------------
(* Steps shared by the actions. *)

\* The API server stores r and queues it for the informer.  A write that
\* changes nothing produces no watch event.
Write(r) ==
    IF r = route
    THEN UNCHANGED apiVars
    ELSE /\ Len(watch) < MaxLag
         /\ route' = r
         /\ watch' = Append(watch, r)

\* A call fails, or the process does.
Fault == /\ faults < MaxFaults
         /\ faults' = faults + 1
NoFault == UNCHANGED faults

EndSync == /\ pc' = "idle"
           /\ snap' = NoRoute /\ st' = NoStatus /\ fresh' = NoRoute /\ tries' = 0

\* processNextRouteItem after sync returned nil: Forget, Done.
ReturnNil == EndSync /\ UNCHANGED queueVars

\* processNextRouteItem after sync returned an error: AddRateLimited, Done.
ReturnErr == EndSync /\ timer' = TRUE /\ UNCHANGED dirty

\* Go on to another call of the same sync with working status s.
Goto(next, s) == /\ pc' = next
                 /\ st' = s
                 /\ UNCHANGED <<snap, fresh, tries>>

Continue(next, s) == Goto(next, s) /\ UNCHANGED queueVars

\* rc.queue.AddAfter(key, 15s), then updateStatus.
PatchOnly(s) == Goto("patch", s) /\ UNCHANGED queueVars
RequeueAndPatch(s) == Goto("patch", s) /\ timer' = TRUE /\ UNCHANGED dirty

-----------------------------------------------------------------------------
(* sync: the part that reads only the cache.                               *)

StartSync == pc = "idle" /\ dirty /\ dirty' = FALSE

\* The Route is gone, not managed, or not admitted: nothing to do.
SkipSync ==
    /\ StartSync
    /\ ~ (IsManaged(cache) /\ IsAdmitted(cache))
    /\ UNCHANGED <<apiVars, cache, timer, syncVars, caVars, envVars, exposers, faults>>

\* requeueAfter is positive for a good certificate: AddAfter(key, requeueAfter).
ScheduleNothing == UNCHANGED timer
ScheduleRenewal == timer' = TRUE

\* The certificate is good and no order is in flight: schedule the next check
\* for the moment the renewal threshold is reached, and drop what is left of a
\* finished order.
HealthySync ==
    /\ StartSync
    /\ IsManaged(cache) /\ IsAdmitted(cache)
    /\ ~ NeedsCert(cache) /\ ~ OrderInFlight(cache.st)
    /\ ScheduleRenewal
    /\ IF ClearOrder(cache.st) = cache.st
       THEN UNCHANGED syncVars
       ELSE /\ pc' = "patch" /\ snap' = cache /\ st' = ClearOrder(cache.st)
            /\ UNCHANGED <<fresh, tries>>
    /\ UNCHANGED <<apiVars, cache, caVars, envVars, exposers, faults>>

\* A certificate is needed or an order is in flight: tidy the status and turn
\* to the ACME server, unless the issuer or its account key cannot be found.
OrderSync ==
    LET s == CleanPreviousOrder(cache.st) IN
    /\ StartSync
    /\ IsManaged(cache) /\ IsAdmitted(cache)
    /\ NeedsCert(cache) \/ OrderInFlight(cache.st)
    /\ \/ /\ NoFault
          /\ pc' = IF s.uri = 0 THEN "authorize" ELSE "getOrder"
          /\ snap' = cache /\ st' = s
          /\ UNCHANGED <<fresh, tries, timer>>
       \/ Fault /\ timer' = TRUE /\ UNCHANGED syncVars
    /\ UNCHANGED <<apiVars, cache, caVars, envVars, exposers>>

-----------------------------------------------------------------------------
(* sync: conversation with the ACME server.                                *)

\* The server opens an order for the host of the Route that sync read.  It may
\* be ready at once when the server reuses an earlier authorization.
GrantOrder(state) ==
    /\ nOrders < MaxOrders
    /\ nOrders' = nOrders + 1
    /\ orders' = [orders EXCEPT ![nOrders + 1] =
                     [state |-> state, host |-> snap.host,
                      authz |-> IF state = "ready" THEN "valid" ELSE "pending"]]
    /\ UNCHANGED limited

\* AuthorizeOrder, and what becomes of its answer: stored by the status patch,
\* or lost, or an error, or the server's rate limit.
Authorize ==
    /\ pc = "authorize"
    /\ \/ /\ NoFault
          /\ \E state \in {"pending", "ready"} :
                /\ GrantOrder(state)
                /\ Continue("patch", [st EXCEPT !.uri = nOrders + 1, !.os = state])
       \/ Fault /\ GrantOrder("pending") /\ ReturnErr
       \/ Fault /\ UNCHANGED caVars /\ ReturnErr
       \/ /\ NoFault
          /\ nOrders = MaxOrders /\ limited' = TRUE
          /\ ReturnErr /\ UNCHANGED <<nOrders, orders>>
    /\ UNCHANGED <<apiVars, cache, envVars, exposers>>

\* GetOrder and the switch on order.Status.
GetOrder ==
    LET state == orders[st.uri].state IN
    /\ pc = "getOrder"
    /\ \/ Fault /\ ReturnErr
       \/ /\ NoFault
          /\ \/ state = "gone"       /\ Continue("patch", [st EXCEPT !.uri = 0])
             \/ state = "pending"    /\ Continue("getAuthz", Observe(st, state))
             \/ state = "processing" /\ RequeueAndPatch(Observe(st, state))
             \/ state = "ready"      /\ Continue("finalize", Observe(st, state))
             \/ state = "valid"      /\ Continue("cleanupPatch",
                                                 ClearOrder(ChargeFailure(st, state)))
             \/ state \in {"invalid", "expired"}
                                     /\ Continue("cleanupPatch", ChargeFailure(st, state))
    /\ UNCHANGED <<apiVars, cache, caVars, envVars, exposers>>

\* GetAuthorization for the order's one identifier.  A pending authorization
\* has a challenge that waits for us ("pending") or that the server is checking
\* ("processing"); any other authorization is passed over.
GetAuthz ==
    LET authz == orders[st.uri].authz IN
    /\ pc = "getAuthz"
    /\ \/ Fault /\ ReturnErr
       \/ /\ NoFault
          /\ \/ authz = "pending"    /\ Continue("expose", st)
             \/ authz = "processing" /\ RequeueAndPatch(st)
             \/ authz \in {"valid", "invalid"} /\ Continue("patch", st)
    /\ UNCHANGED <<apiVars, cache, caVars, envVars, exposers>>

\* The exposer Route, Secret, ReplicaSet and Service for the challenge: look
\* them up, create what is missing, wait until they serve the token.
ExposersFor(id, host) == {e \in exposers : e.order = id /\ e.host = host}

StagesOf(es) == IF es = {} THEN {"partial"} ELSE {e.stage : e \in es}

PutExposer(stage, refused) ==
    exposers' = (exposers \ ExposersFor(st.uri, snap.host))
                  \cup {[order |-> st.uri, host |-> snap.host, uid |-> snap.uid,
                         stage |-> stage, refused |-> refused]}

\* The LimitRanges are looked at in every sync, before the ReplicaSet is: when the
\* pods do not fit, sync returns nil with neither requeue nor status update, even
\* if the pods of an earlier sync run.
Expose ==
    LET mine    == ExposersFor(st.uri, snap.host)
        foreign == \E e \in mine : e.uid # snap.uid
    IN
    /\ pc = "expose"
    /\ \/ foreign /\ NoFault /\ ReturnErr /\ UNCHANGED exposers
       \/ /\ ~ foreign
          /\ \E stage \in StagesOf(mine) :
             \/ Fault /\ PutExposer(stage, TRUE) /\ ReturnNil
             \/ /\ stage = "partial"
                /\ \/ NoFault /\ PutExposer("created", FALSE) /\ RequeueAndPatch(st)
                   \/ Fault /\ PutExposer("partial", FALSE) /\ ReturnErr
             \/ /\ stage # "partial" /\ PutExposer(stage, FALSE)
                /\ \/ NoFault /\ stage # "up" /\ RequeueAndPatch(st)
                   \/ NoFault /\ stage = "up" /\ Continue("accept", st)
                   \/ Fault /\ RequeueAndPatch(st)      \* the self validation fails
       \/ Fault /\ ReturnErr /\ UNCHANGED exposers \* an error, or AlreadyExists for a stale lister
    /\ UNCHANGED <<apiVars, cache, caVars, envVars>>

\* Accept the challenge; the server starts to check it, even if its answer is lost.
Accept ==
    LET o == orders[st.uri] IN
    /\ pc = "accept"
    /\ \/ /\ o.state = "pending" /\ o.authz = "pending"
          /\ orders' = [orders EXCEPT ![st.uri].authz = "processing"]
          /\ \/ NoFault /\ RequeueAndPatch(st)
             \/ Fault /\ ReturnErr
       \/ /\ ~ (o.state = "pending" /\ o.authz = "pending") /\ NoFault
          /\ ReturnErr /\ UNCHANGED orders
       \/ Fault /\ ReturnErr /\ UNCHANGED orders
    /\ UNCHANGED <<apiVars, cache, nOrders, limited, envVars, exposers>>

\* CreateOrderCert with a CSR for the host sync read; the private key lives in
\* this sync only.  The call waits for the certificate; when it fails after the
\* CSR was taken, the server goes on issuing.
Finalize ==
    LET o        == orders[st.uri]
        accepted == o.state = "ready" /\ o.host = snap.host
    IN
    /\ pc = "finalize"
    /\ \/ /\ accepted /\ NoFault
          /\ orders' = [orders EXCEPT ![st.uri].state = "valid"]
          /\ Continue("getFresh", [st EXCEPT !.os = "valid", !.failures = 0])
       \/ /\ accepted /\ Fault
          /\ orders' = [orders EXCEPT ![st.uri].state = "processing"]
          /\ ReturnErr
       \/ ~ accepted /\ NoFault /\ ReturnErr /\ UNCHANGED orders
       \/ Fault /\ ReturnErr /\ UNCHANGED orders
    /\ UNCHANGED <<apiVars, cache, nOrders, limited, envVars, exposers>>

-----------------------------------------------------------------------------
(* sync: writing the result.                                               *)

\* freshRoute := Get, inside RetryOnConflict.
GetFresh ==
    /\ pc = "getFresh"
    /\ \/ /\ route.exists /\ NoFault
          /\ pc' = "update" /\ fresh' = route /\ tries' = tries + 1
          /\ UNCHANGED <<snap, st, queueVars>>
       \/ ~ route.exists /\ NoFault /\ ReturnErr
       \/ Fault /\ ReturnErr
    /\ UNCHANGED <<apiVars, cache, caVars, envVars, exposers>>

RetriesLeftOffByOne == tries <= MaxTries
RetriesLeft == tries < MaxTries

\* Update of freshRoute with the certificate and the status together.  Unlike
\* the status patch it carries a resource version and so conflicts with a Route
\* that changed since GetFresh.  A call that fails may have stored it all the same.
Update ==
    /\ pc = "update"
    /\ \/ /\ fresh = route
          /\ Write([fresh EXCEPT !.cert = st.uri, !.st = st])
          /\ \/ NoFault /\ Continue("cleanupReturn", st)
             \/ Fault /\ ReturnErr
       \/ /\ fresh # route /\ NoFault /\ UNCHANGED apiVars
          /\ IF route.exists /\ RetriesLeft
             THEN Continue("getFresh", st)
             ELSE ReturnErr
       \/ Fault /\ ReturnErr /\ UNCHANGED apiVars
    /\ UNCHANGED <<cache, caVars, envVars, exposers>>

\* CleanupExposerObjects: delete what is labelled with the UID of the Route.
\* An error is logged and otherwise ignored.
DeleteNothing(uid) == UNCHANGED exposers
DeleteExposers(uid) == exposers' = {e \in exposers : e.uid # uid}

Cleanup ==
    /\ pc \in {"cleanupReturn", "cleanupPatch"}
    /\ \/ NoFault /\ DeleteExposers(snap.uid)
       \/ Fault /\ UNCHANGED exposers
    /\ IF pc = "cleanupPatch" THEN Continue("patch", st) ELSE ReturnNil
    /\ UNCHANGED <<apiVars, cache, caVars, envVars>>

\* updateStatus.  Its shortcut for an unchanged annotation is never taken: it
\* compares a YAML text with the JSON text of an earlier patch, and where Update
\* left YAML (OrderStatus valid) sync always changes OrderStatus.
Patch ==
    /\ pc = "patch"
    /\ \/ /\ route.exists
          /\ Write([route EXCEPT !.st = st])
          /\ \/ NoFault /\ ReturnNil
             \/ Fault /\ ReturnErr
       \/ ~ route.exists /\ NoFault /\ ReturnErr /\ UNCHANGED apiVars
       \/ Fault /\ ReturnErr /\ UNCHANGED apiVars
    /\ UNCHANGED <<cache, caVars, envVars, exposers>>

-----------------------------------------------------------------------------
(* Informer and work queue.                                                *)

\* The informer stores the next version and calls addRoute, updateRoute or
\* deleteRoute; a deletion is judged by the object that was known before.
Deliver ==
    LET v == Head(watch) IN
    /\ watch # <<>>
    /\ cache' = v
    /\ watch' = Tail(watch)
    /\ dirty' = (dirty \/ IsManaged(IF v.exists THEN v ELSE cache))
    /\ UNCHANGED <<route, timer, syncVars, caVars, envVars, exposers, faults>>

\* updateRoute without a change: the informer's resync, or enqueueOwningRoute
\* for an event on the exposer ReplicaSet.
Resync ==
    /\ IsManaged(cache) /\ ~ dirty
    /\ dirty' = TRUE
    /\ UNCHANGED <<apiVars, cache, timer, syncVars, caVars, envVars, exposers, faults>>

\* The delay of AddAfter or AddRateLimited is over.
TimerFires ==
    /\ timer
    /\ timer' = FALSE /\ dirty' = TRUE
    /\ UNCHANGED <<apiVars, cache, syncVars, caVars, envVars, exposers, faults>>

\* The process dies or loses its lease; a new one lists the Routes and adds the
\* managed ones to an empty queue.
Crash ==
    /\ Fault
    /\ EndSync
    /\ cache' = route /\ watch' = <<>>
    /\ timer' = FALSE /\ dirty' = IsManaged(route)
    /\ UNCHANGED <<route, caVars, envVars, exposers>>

-----------------------------------------------------------------------------
(* Users and the router.                                                   *)

Edit == edits < MaxEdits /\ edits' = edits + 1

OtherWrite(r) ==
    /\ Write(r)
    /\ UNCHANGED <<cache, queueVars, syncVars, caVars, due, exposers, faults>>

RouterAdmits ==
    /\ route.exists /\ route.admitted # route.host
    /\ OtherWrite([route EXCEPT !.admitted = route.host]) /\ UNCHANGED edits

RouterRejects ==
    /\ route.exists /\ route.admitted # NoHost
    /\ Edit /\ OtherWrite([route EXCEPT !.admitted = NoHost])

ChangeHost ==
    /\ route.exists /\ Edit
    /\ \E h \in Hosts \ {route.host} : OtherWrite([route EXCEPT !.host = h])

ToggleManaged ==
    /\ route.exists /\ Edit
    /\ OtherWrite([route EXCEPT !.managed = ~ @])

DeleteRoute ==
    /\ route.exists /\ Edit
    /\ OtherWrite([NoRoute EXCEPT !.uid = route.uid])

NewRoute(uid, host) ==
    [NoRoute EXCEPT !.exists = TRUE, !.uid = uid, !.host = host, !.managed = TRUE]

RecreateRoute ==
    /\ ~ route.exists /\ Edit
    /\ \E h \in Hosts : OtherWrite(NewRoute(route.uid + 1, h))

\* Time passes until a certificate enters its renewal period.
CertAges ==
    /\ route.cert # 0 /\ route.cert \notin due
    /\ due' = due \cup {route.cert}
    /\ UNCHANGED <<apiVars, cache, queueVars, syncVars, caVars, exposers, edits, faults>>

-----------------------------------------------------------------------------
(* The ACME server and the cluster, on their own.                          *)

CAStep(o, field) ==
    /\ orders' = [orders EXCEPT ![o] = field]
    /\ UNCHANGED <<apiVars, cache, queueVars, syncVars, nOrders, limited, envVars,
                   exposers>>

\* The server checks the accepted challenge.
CAValidate(o) ==
    /\ orders[o].state = "pending" /\ orders[o].authz = "processing" /\ NoFault
    /\ \E a \in {"valid", "invalid"} : CAStep(o, [orders[o] EXCEPT !.authz = a])

\* The verdict on the authorization becomes the state of the order.
CAAdvance(o) ==
    /\ orders[o].state = "pending" /\ NoFault
    /\ \/ orders[o].authz = "valid"   /\ CAStep(o, [orders[o] EXCEPT !.state = "ready"])
       \/ orders[o].authz = "invalid" /\ CAStep(o, [orders[o] EXCEPT !.state = "invalid"])

\* The server issues the certificate for a CSR it took.
CAIssue(o) ==
    /\ orders[o].state = "processing" /\ NoFault
    /\ \E s \in {"valid", "invalid"} : CAStep(o, [orders[o] EXCEPT !.state = s])

CAExpire(o) ==
    /\ orders[o].state \in {"pending", "ready"} /\ NoFault
    /\ CAStep(o, [orders[o] EXCEPT !.state = "expired"])

\* The server no longer knows an order.
CAForget(o) ==
    /\ o <= nOrders /\ orders[o].state # "gone" /\ Fault
    /\ CAStep(o, [orders[o] EXCEPT !.state = "gone"])

\* Exposer pods run and the router serves them.
ExposerUp ==
    /\ \E e \in exposers :
          /\ e.stage = "created"
          /\ exposers' = (exposers \ {e}) \cup {[e EXCEPT !.stage = "up"]}
    /\ UNCHANGED <<apiVars, cache, queueVars, syncVars, caVars, envVars, faults>>

\* The garbage collector removes exposers whose owner is gone.
CollectGarbage ==
    /\ \E e \in exposers :
          /\ ~ (route.exists /\ route.uid = e.uid)
          /\ exposers' = exposers \ {e}
    /\ UNCHANGED <<apiVars, cache, queueVars, syncVars, caVars, envVars, faults>>

-----------------------------------------------------------------------------
(* Specification. *)

Init ==
    /\ \E h \in Hosts : route = NewRoute(1, h)
    /\ watch = <<>> /\ cache = route
    /\ dirty = TRUE /\ timer = FALSE
    /\ pc = "idle" /\ snap = NoRoute /\ st = NoStatus /\ fresh = NoRoute /\ tries = 0
    /\ nOrders = 0 /\ orders = [o \in Orders |-> NoOrder] /\ limited = FALSE
    /\ due = {} /\ exposers = {}
    /\ edits = 0 /\ faults = 0

SyncStart == SkipSync \/ HealthySync \/ OrderSync

SyncCall == \/ Authorize \/ GetOrder \/ GetAuthz \/ Expose \/ Accept \/ Finalize
            \/ GetFresh \/ Update \/ Cleanup \/ Patch

SyncStep == SyncStart \/ SyncCall

UserStep == RouterRejects \/ ChangeHost \/ ToggleManaged \/ DeleteRoute \/ RecreateRoute

CAStepFor(o) == CAValidate(o) \/ CAAdvance(o) \/ CAIssue(o) \/ CAExpire(o)

OtherStep == \/ Deliver \/ Resync \/ TimerFires \/ Crash
             \/ RouterAdmits \/ UserStep \/ CertAges
             \/ \E o \in Orders : CAStepFor(o) \/ CAForget(o)
             \/ ExposerUp \/ CollectGarbage

Next == SyncStep \/ OtherStep

\* Workers, the informer and the delaying queue run as long as the process
\* does; the router, the ACME server and the cluster answer in the end.  Nothing
\* is assumed of users, of certificates ageing, of faults.
Fairness ==
    /\ WF_vars(SyncStep) /\ WF_vars(Deliver) /\ WF_vars(TimerFires) /\ WF_vars(Resync)
    /\ WF_vars(RouterAdmits) /\ WF_vars(ExposerUp) /\ WF_vars(CollectGarbage)
    /\ \A o \in Orders : WF_vars(CAStepFor(o))

Spec == Init /\ [][Next]_vars

FairSpec == Spec /\ Fairness

\* The behaviours in which a sync starts only when the informer has delivered
\* every version of the Route.  Nothing in the code waits for that; the
\* difference to Spec is what stale caches cost.
FreshNext == \/ watch = <<>> /\ SyncStart
             \/ SyncCall \/ OtherStep

FreshSpec == Init /\ [][FreshNext]_vars /\ Fairness

-----------------------------------------------------------------------------
(* Properties. *)

\* Among the first n orders of ords, those that came to an end.
Ended(ords, n) == {o \in 1 .. n : ords[o].state \in TerminalStates}

\* Failures in the status annotation drives the backoff.  However often one
\* failed order is observed (by syncs on stale caches, after lost patches, after
\* a restart), it is charged once: Failures never exceeds the number of orders
\* that came to an end on the ACME server.
FailuresChargedOnce == route.st.failures <= Cardinality(Ended(orders, nOrders))

\* A Route with a good certificate and no order in flight produces no events,
\* so the renewal depends on the queue alone.  Whatever happened before, as soon
\* as the informer shows such a Route its key is queued or has a delayed add.
RenewalScheduled ==
    IsManaged(cache) /\ IsAdmitted(cache) /\ ~ NeedsCert(cache) /\ ~ OrderInFlight(cache.st)
        => dirty \/ timer

\* "We are waiting for external event, make sure we requeue": while an order is in
\* flight and the informer is up to date, the key is queued, delayed or being
\* synced.  Two early returns leave a gap, which only the informer's resync (or an
\* event on the exposer ReplicaSet) closes: the authorization was decided between
\* GetOrder and GetAuthorization, or the last sync that got as far as the exposer
\* pods was turned away by a LimitRange, which may happen at any stage.
ProgressScheduled ==
    IsManaged(cache) /\ IsAdmitted(cache) /\ OrderInFlight(cache.st) /\ watch = <<>>
        => \/ dirty \/ timer \/ pc # "idle"
           \/ orders[cache.st.uri].authz \in {"valid", "invalid"}
           \/ \E e \in exposers : e.order = cache.st.uri /\ e.refused

\* A sync that works on the current version of the Route never opens an order
\* while the ACME server still works on the one the annotation names.
NoSecondOrder ==
    [][nOrders' # nOrders /\ snap = route /\ route.st.uri # 0
         => orders[route.st.uri].state \in TerminalStates]_vars

\* Once users and faults leave the Route alone, it ends up with a certificate
\* for its host that is not due and no order in flight, and stays so; unless the
\* ACME server refuses to open orders, or nobody wants a certificate.
Converges ==
    <>[](\/ limited
         \/ ~ IsManaged(route)
         \/ IsAdmitted(route) /\ ~ NeedsCert(route) /\ ~ OrderInFlight(route.st))

\* The temporary objects do not outlive provisioning when no call fails and the
\* Route stays managed.
ExposersRemoved == <>[](limited \/ ~ IsManaged(route) \/ exposers = {})

-----------------------------------------------------------------------------
(* What sync relies on from one call to the next: the invariant behind the    *)
(* proofs in RouteControllerProofs.                                            *)

\* A stored status names no order that was never opened; it calls an order ended
\* only if it has ended; and its failures are covered by ended orders other than
\* the one it still follows.
ChargedOrders(s, ords, n) ==
    IF OrderInFlight(s) THEN Ended(ords, n) \ {s.uri} ELSE Ended(ords, n)

StatusOK(s, ords, n) ==
    /\ s.uri <= n
    /\ s.os = "none" => s.uri = 0
    /\ ~ OrderInFlight(s) /\ s.uri # 0 => ords[s.uri].state \in TerminalStates
    /\ s.failures <= Cardinality(ChargedOrders(s, ords, n))

VersionOK(v, ords, n) == /\ v.exists => v.host \in Hosts
                         /\ v.cert <= n
                         /\ StatusOK(v.st, ords, n)

\* Every copy of the Route, wherever it is held.
VersionsOK ==
    /\ VersionOK(route, orders, nOrders)
    /\ VersionOK(cache, orders, nOrders)
    /\ VersionOK(snap, orders, nOrders)
    /\ \A i \in 1 .. Len(watch) : VersionOK(watch[i], orders, nOrders)

FollowsOrder == {"getOrder", "getAuthz", "expose", "accept", "finalize"}
HoldsCert    == {"getFresh", "update", "cleanupReturn"}

SyncOK ==
    /\ StatusOK(st, orders, nOrders)
    /\ pc # "idle" => snap.exists
    /\ pc \in FollowsOrder \cup HoldsCert => st.uri # 0
    /\ pc \in FollowsOrder => OrderInFlight(st)
    /\ pc \notin HoldsCert => tries = 0
    /\ pc = "getFresh" => tries < MaxTries
    /\ pc = "authorize" => \/ snap.st.uri = 0
                           \/ orders[snap.st.uri].state \in TerminalStates

IndInv == TypeOK /\ VersionsOK /\ SyncOK

-----------------------------------------------------------------------------
(* What comments of the code say, and the code does not keep.                  *)

\* "We need to store the order URI immediately to prevent loosing it on error":
\* a live order is in the annotation, or in the hands of the running sync, unless
\* the Route and its annotation were deleted.
OrderNeverLost ==
    \A o \in 1 .. nOrders :
        orders[o].state \in LiveStates
            => \/ route.st.uri = o \/ (pc # "idle" /\ st.uri = o)
               \/ ~ route.exists \/ route.uid # 1

=============================================================================
