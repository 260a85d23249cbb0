# A TLA+ model of openshift-acme

openshift-acme keeps the TLS certificates of annotated OpenShift Routes fresh.
It is a Kubernetes controller: it watches Routes, Secrets and a few other
objects, talks to an ACME server (RFC 8555), and writes certificates back into
the Routes. This directory holds TLA+ modules of the parts of it that carry
state, TLC configurations that check them on small instances, and TLAPS proofs
of the properties that matter most for every instance.

Paths like `route.go:572` are in `pkg/controller/route/` unless said otherwise.
`PROJECT.json` maps every definition to the lines it models.

## The system

| Component | State it keeps | Operations | Talks to |
|---|---|---|---|
| Provisioning loop (`route.go`, `sync`) | none of its own: the status annotation of the Route (`OrderURI`, `OrderStatus`, `Failures`, times); a work queue with delayed entries | event handlers, one sync per queued key, delayed and rate-limited adds | API server, informer caches, ACME server, exposer objects |
| Renewal schedule (`proactiveRenewalThreshold`, `needsCertKey`) | the delayed queue entry | decide whether a certificate is due, and when to look again | the loop above |
| Retry of failed orders (`route.go:571-625`) | `Failures`, `StartedAt`, `EarliestAttemptAt` | backoff, delayed entry | the loop above |
| Route to Secret loop (`syncRouteToSecret`) | a second queue | copy the certificate into a Secret, keep off Secrets of others | API server, two informer caches |
| ACME account controller (`pkg/controller/issuer/acme`) | issuer ConfigMap, key Secret | register, refresh and store the account | API server, ACME server |
| Issuer selection (`pkg/controllerutils`) | none | pick the issuer ConfigMap and its key for a Route | informer caches |
| Exposer objects and their resources (`route.go:738-1081, 1645-1738`) | exposer Route, Secret, ReplicaSet, Service | create, wait, self-validate, clean up; fit LimitRanges | API server |
| Exposer process (`pkg/cmd/openshift-acme-exposer`, `pkg/httpserver`) | map from URI to response | serve the token, stop on a signal | router, ACME server |
| Profile transport (`route.go:1494-1617`) | the newOrder URL, for one client of one sync | rewrite the newOrder request | ACME server |
| Controller process (`pkg/cmd/openshift-acme-controller`) | leader lease, wait groups | elect, start informers and controllers, shut down | API server |

What makes this hard:

* **Stale reads.** Every decision is taken on an informer cache that trails the
  API server; the status patch carries no resource version, so a sync may act
  on, and overwrite, what it has not seen.
* **Many calls per sync.** A sync makes up to a dozen calls to two servers, each
  of which can fail, time out after taking effect, or be the last one before a
  crash. Users, the router and the ACME server act in between.
* **Private key in memory.** The key of a certificate exists only inside the
  sync that requested it.
* **Wake-ups.** A Route that needs no change produces no events. Progress and
  renewal hang on delayed queue entries, which do not survive a restart.
* **Time.** Renewal thresholds, backoff, clocks of successive leaders, leases.
* **No resync, few handlers.** The informers of the account controller never
  resync, and an added Secret, a Service or an exposer Route wakes nobody.
* **Several objects for one thing.** An exposer is four objects seen through four
  listers; an account is a ConfigMap and a Secret seen through two.

What makes each part correct:

* Provisioning: one live order at a time; a failed order is counted once; every
  managed and admitted Route ends up with a good certificate for its host;
  temporary objects go away; certificates are requested only for hosts the
  Route owns.
* Renewal: no certificate runs out, none is renewed much too early, the key is
  always woken in time.
* Retry: failed orders are retried, and not at once.
* Route to Secret: the Secret follows the Route; Secrets of others are untouched.
* Accounts: a recorded account has its key stored; an issuer is never left
  unfinished with nothing scheduled; in the end every issuer is usable.
* Issuer selection: every sync of a Route gets the same issuer.
* Exposers: a challenge is accepted only after its token was seen served, and is
  accepted in the end; nothing is left behind; pods respect the LimitRanges.
* Process: two replicas never work as leaders at the same time, the process ends
  after a signal and after a lost lease, and somebody takes over.

## Modules

| Module | What it is |
|---|---|
| `RouteController` | the provisioning loop of one Route, with API server, informer, queue, ACME server, exposers, users, crashes |
| `MCRouteController` | hosts as model values, specifications with a fixed first host for TLC |
| `RouteControllerProofs` | inductive invariant and theorems |
| `CertRenewal` | renewal threshold and delayed queue entry on a clock |
| `CertRenewalProofs` | theorems about it |
| `OrderRetry` | backoff and retry on the clocks of successive leaders |
| `OrderRetryProofs` | theorems about it |
| `RouteToSecret` | copying certificates into Secrets, several Routes and Secrets of a namespace |
| `MCRouteToSecret` | which Secret names the annotations may hold |
| `RouteToSecretProofs` | theorems about it |
| `AccountController` | the ACME account controller: issuers, key Secrets, two informers, ACME server, users, crashes |
| `AccountControllerProofs` | theorems about it and about `IssuerSelection` |
| `IssuerSelection` | extends `AccountController` by what `IssuerForObject` returns in each of its states |
| `MCIssuerSelection` | the ConfigMaps there are at first |
| `ExposerResources` | LimitRange arithmetic, as operators |
| `Exposers` | the four objects of one exposer, their listers, pods and processes; extends `ExposerResources` |
| `ExposerContract` | abstract: the exposer as one thing with stages, which `Exposers` implements |
| `MCExposers` | LimitRange items and lists for TLC |
| `ExposersProofs` | theorems about `Exposers` and `ExposerResources`, and the refinement of `ExposerContract` |
| `Lifecycle` | the controller process of several replicas: election, start, signals, shutdown |
| `Leadership` | abstract: a lock with takeover, which `Lifecycle` implements |
| `LifecycleProofs` | theorems about it |
| `Induction` | induction for sets of numbers, and the existence of recursively defined functions; used by the proofs |

### RouteController and the code

One action per call that `sync` makes: `pc` names the call the sync is about to
make, `snap` is `routeReadOnly`, `st` the working copy of the provisioning
status, `fresh` and `tries` belong to `RetryOnConflict`. The part of `sync`
that reads only the cache is one step (`SkipSync`, `HealthySync`, `OrderSync`).

| Code | Action |
|---|---|
| early returns 536-564 | `SkipSync` |
| certificate is good, 582-604 | `HealthySync` |
| certificate is needed, issuer and key are found, 606-659 | `OrderSync` |
| `AuthorizeOrder`, 661-677 | `Authorize` |
| `GetOrder` and the switch on its status, 679-700, 1107-1113, 1193-1236 | `GetOrder` |
| `GetAuthorization`, challenge status, 704-739, 1092-1098 | `GetAuthz` |
| exposer objects, availability, self validation, 738-1081 | `Expose` |
| `Accept`, 1083-1090 | `Accept` |
| `CreateOrderCert`, 1115-1154 | `Finalize` |
| `RetryOnConflict`, 1156-1183 | `GetFresh`, `Update` |
| `CleanupExposerObjects`, 1342-1363 | `Cleanup` |
| `updateStatus`, 486-522 | `Patch` |
| `addRoute`, `updateRoute`, `deleteRoute` | `Deliver`, `Resync` |
| `AddAfter`, `AddRateLimited`, `processNextRouteItem` | `timer`, `TimerFires`, `ReturnNil`, `ReturnErr` |

Abstractions. A certificate is named by the order that issued it; whether it is
due is an event here (`CertAges`) and a clock in `CertRenewal`. Order states
expired, revoked and deactivated are one, since `sync` treats them alike. The
four exposer objects are one object in stages partial, created, up. An order has
one authorization (`acme.DomainIDs(domain)` has one identifier). All delayed
adds of the key are one flag `timer`. `StartedAt`, `EarliestAttemptAt` and
`ObservedGeneration` are left out: in this module they would only add events.
The shortcut of `updateStatus` for an unchanged annotation is never taken (it
compares YAML with JSON), so `Patch` always calls the server; a patch that
changes nothing produces no event. `Update` conflicts when the stored Route
differs from the one read; a change back to the same content is not told apart.

`Fault` bounds everything that goes wrong: calls that fail, calls that succeed
and whose answer is lost (`AuthorizeOrder`, `Accept`, `CreateOrderCert`, `Update`,
the patch), a crash, an order the server forgets, and a LimitRange that refuses
the exposer. The last can happen at every stage, since the LimitRanges are applied
before the ReplicaSet is looked up (964-973); `refused` on an exposer is a history
bit that says the last sync to look at it was turned away there.

### RouteToSecret and the code

`StartSync` reads both caches and decides (`syncRouteToSecret` up to the write),
`FinishSync` makes the one write and does what `processNextRouteToSecretItem`
does with its result. The read of the Route and the read of the Secret are one
step; the two informers lag independently, so every combination of versions is
met anyway. `DeliverSecret` is `updateSecret` and `deleteSecret`: an added Secret
has no handler. A Route being deleted counts as deleted.

### CertRenewal and OrderRetry

`CertRenewal` keeps the integer divisions of the code. `SyncRenew` stands for a
whole order; `late` counts how long the key has been queued, and `Latency`
bounds it. `OrderRetry` keeps times relative to now, so its clock never ends;
`NewLeader` moves to another clock and an empty queue.

### AccountController, IssuerSelection and the code

Paths are in `pkg/controller/issuer/acme/` and `pkg/controllerutils/`.

| Code | Action or operator |
|---|---|
| `sync` up to its first call | `StartSync` |
| key generation and `Register` | `Register` |
| `Secrets.Create` and the return after it | `CreateSecret` |
| `GetReg` | `GetReg` |
| `ConfigMaps.Update` | `UpdateConfigMap` |
| `addConfigMap`, `updateConfigMap`, `deleteConfigMap` | `DeliverConfigMap` |
| `deleteSecret` | `DeliverSecret` |
| `processNextItem` | `ReturnNil`, `ReturnErr`, `RetryFires` |
| `getIssuerConfigMapsForObject` | `Candidates` |
| the function given to `sort.Slice`, and `sort.Slice` | `Less`, `Sorted` |
| `IssuerForObject` | `Chosen`, `Usable` |

An account is the number of its key, contacts are model values. The YAML of an
issuer is taken to have the form that `yaml.Marshal` gives it, so that `Update`
is skipped exactly when no field changes. `UpdateReg` is not an action: its guard
is never true (see below). Global issuers are in the namespace of the local ones:
both lists are concatenated and sorted together, so that only the union matters.
`ApplyIssuer` gives what it creates the next creation time. `RegisterFails`
covers a registration whose answer is lost: the account exists, its key does not.

### Exposers and the code

`Obtain(k)` is the lookup and the Create of one of the four objects
(`route.go:756-1054`), with the resources of the ReplicaSet from
`ExposerResources` (`adjustContainerResourceRequirements`, 1645-1738); `Validate`
is the checks before `Accept` (1056-1081); `Cleanup` is `CleanupExposerObjects`.
`ProcessRuns` is the exposer binary: it serves the file that the controller
wrote, or fails to listen and hangs until it is deleted. The router, the
ReplicaSet controller, the LimitRanger and the garbage collector are external.
One exposer name is followed, since names are hashes of host and token; a second
order may bring it back. Memory and CPU are handled alike and independently, and
are one resource. `Admissible` is the LimitRanger, which checks minimum, maximum
and the exact ratio of limit and request; the controller rounds the ratio, so what
it asks for may still be refused. The rest of `sync` is `RouteController`'s, which
has an exposer of its own: put up in one step as far as the calls succeed, in
stages partial, created and up, and never falling apart. `ExposerContract` is not
that exposer but the contract of `Exposers` by itself.

### Lifecycle and the code

`pc` is the place of `Options.Run` (`openshift-acme-controller.go:257-381`),
`le` the state of the leader elector, which is external and modelled from how
client-go's elector is configured there. `stopCh` is the channel of
`pkg/signals`; the second signal ends the process. `Drained` is the `wg.Wait` of
the deferred function, `CancelElection` its `leCancel`, `Return` its `leWg.Wait`.
Work is counted: keys queued, workers in a sync. Ticks are the only time; `age`
and `idle` stop at `LeaseDuration`, beyond which nothing tells them apart.

The end of an election is three steps, as in the library: `StopRenewing` (the
renewal timed out, or `leCtx` is cancelled), `Release` (`ReleaseOnCancel`, which
may fail), and `OnStoppedLeading`, which ends the process with Fatalf unless
`leCtx` is cancelled. Between the first and the last the controllers run on, and
nothing bounds the time. So a replica that lost its lease can be at work together
with its successor; TLC reaches such states. `ActiveAsLeader` leaves such a replica
out: `OneActive` says that there is no other overlap, and `ProcessEnds` that this
one comes to an end.

`TimesAssumption` says that a leader that cannot renew notices it before its lease
expires: `RetryPeriod + RenewDeadline + Slack < LeaseDuration`, where `Slack` is how
late the timeout of the renewal may be acted upon. The defaults of the flags, 10,
35 and 60 s, leave 15 s for that; the release and the exit need not fit into them.
Other flags may leave nothing, and then two electors can both believe to lead.

## Runs

`tlc -config X.cfg M`. Deadlock checking is off, except for `Lifecycle`, because
the system may rest: a deleted or unmanaged Route or a settled issuer leaves its
controller idle (and the clock of `CertRenewal` ends at `MaxTime`).

| Configuration | Bounds | Result |
|---|---|---|
| `RouteFaults` | 1 host, 2 orders, lag 1, 1 fault | `FailuresChargedOnce`, `RenewalScheduled`, `ProgressScheduled`, `NoSecondOrder`, `Converges` hold |
| `RouteEdits` | 2 hosts, 2 orders, lag 1, 2 edits, caches caught up | `TypeOK`, `OrderNeverLost`, `Converges`, `ExposersRemoved` hold |
| `RouteOrderLost` | stale caches, no fault | `OrderNeverLost` **violated** |
| `CertRenewal` | lifetimes 9 to 17, four hashes, 30 ticks | `NeverLapses`, `WakesInTime`, `RenewedLate` hold |
| `OrderRetry` | 3 failures, 2 elections, skew 3 | `TypeOK`, `RetryHappens` hold |
| `OrderBackoff` | same | `RetriesBackOff` **violated** |
| `RouteToSecret` | 1 Route, default name, 4 edits, lag 2, 1 fault | `TypeOK`, `ForeignSecretsUntouched`, `SecretFollowsRoute` hold |
| `SecretOtherName` | annotation names another Secret, 1 edit | `SecretFollowsRoute` **violated** |
| `Accounts` | 2 issuers, 3 accounts, lag 2, 1 edit, 1 fault | `TypeOK`, `SettledOrScheduled`, `RecordedAccountWasStored`, `StableChoice`, `IssuersUsable` hold |
| `AccountContacts` | 1 issuer, 1 edit, no fault | `ContactsFollowUser` **violated** |
| `Exposers` | 2 pods, 2 orders, 2 of 4 informers behind, 1 mishap, 2 namespaces; all lists of up to 2 of 72 LimitRange items | `TypeOK`, `RangesRespected`, `ChallengeAccepted`, `NothingLeft`, `ImplementsContract` hold |
| `Lifecycle` | 2 replicas, 1 worker, 1 key, 2 signals, 1 fault | `TypeOK`, `OneActive`, `ProcessEnds`, `ImplementsLeadership` hold |

Why the bounds are enough. Two orders give one that fails or is lost and one that
follows it; the rate limit of the server, reached with the last order, is a
disjunct of `Converges`. Lag 1 is enough for a sync that has not seen its own
last patch; for the safety properties the proofs cover every lag. Two attempts
instead of five let `RetryOnConflict` both retry and give up. The lifetimes in
`CertRenewal` cover every remainder of the two divisions; the proofs cover the
rest. With the default Secret name no Route can touch another one's Secret
through the annotation, so one Route suffices there.

Two issuers may name one Secret, compete for it, and differ in number and age
both ways; three accounts allow one that is lost, one for each Secret, and the
rate limit. Two LimitRange items are what it takes for one to adjust what the other
has adjusted, in both orders; the items have minima and maxima below, between and
above request and limit, and none that the API server would not take. The two
namespaces are one in which the pods run and one that refuses them, and a mishap
may change one into the other. Two pods are the replicas of the code, one of which
may hang or die. Two stale informers show any two parts of an exposer at different
times, and two orders let the second meet the remains of the first. Two replicas
of the controller are one at work and one that takes over; a signal may come first
and second, and the fault is a crash or an unanswered renewal; a leader that never
renews, and a release that fails, need no fault. The durations of `Lifecycle` are
the smallest ones that satisfy `TimesAssumption` with a Slack of a tick.

### What the violated properties say

Each states what a comment, a flag or the README says; PROJECT.json quotes it.

* `OrderNeverLost` (`route.go:671`): after `AuthorizeOrder` and its patch, a sync
  on a cache that has not seen the patch opens another order; its patch
  overwrites the URI of the first. `RouteEdits` shows that stale caches are the
  only cause when no call fails.
* `RetriesBackOff` (`route.go:572`): `0 * initial` is zero, whatever the number
  of failures.
* `SecretFollowsRoute` with another name (`README.md:47`): the Secret is looked
  up under the Route's key.
* `ContactsFollowUser` (`acme.go:401`): the guard compares a `[64]byte` with a
  `[]byte`, which `DeepEqual` never finds equal, so `UpdateReg` is dead code.

`ExposersRemoved` is stated for caches that have caught up. With stale caches it
fails: a sync that sees a finished order clears the status while another order
is already pending, and the exposers of that order are never cleaned up. A failed
cleanup is never repeated (`route.go:1187`); `NothingLeft` exempts it.
`ProgressScheduled` exempts two cases: GetOrder answers pending, the authorization
has been decided meanwhile, and `continue` skips the `AddAfter` (`route.go:716`);
and a LimitRange that refuses the exposer pods ends the sync without a requeue
(`route.go:972`), whether or not the exposer is there already. `Converges` still
holds thanks to the informer's 12-hour resync.

`RangesRespected` names what `adjustContainerResourceRequirements` does not
achieve. A ratio may be missed by the rounding to thousandths (`RatioRounded`): for
a limit of 100m and a ratio of 3 the request becomes 33m, the observed ratio is
3.03 and the LimitRanger refuses the pods; such a namespace is exempt from
`ChallengeAccepted`. And a maximum is compared only with what earlier items ask
for, so that one below a later minimum is ignored without an error
(`RaisedLater`); in the other order of the two items the exposer is refused.

`StableChoice` holds as long as number and age do not contradict each other; when
they do, the comparator (`controllerutils.go:79`) puts each of two issuers before
the other and the choice depends on the order of a Go map.

### Refinements

`ImplementsContract` maps the four objects and the pods of `Exposers` to a stage
(none, partial, created, up), and the place of the sync between `Validate` and
`Accept` to `vouched`: the exposer is built and falls apart part by part, and no
challenge is accepted unless its token was seen served. The contract is about the
exposer alone; `RouteController` works with a coarser one and does not instantiate
it. `ImplementsLeadership` maps the replica that works as a leader, its lease not
given up, to the holder of a lock, with its liveness: whenever nobody works,
somebody starts.

## Fairness

Weak fairness of `SyncStep` (a worker serves the key; every call returns, as the
60-second context of ACME calls makes it do), of `Deliver` and `Resync` (informer
goroutines, resync period 12 h), of `TimerFires` (delaying queue), of the router,
the ACME server and the cluster (they answer in the end). Users, certificates
ageing and faults have none. The self validation has an HTTP client without
timeout (`controllerutils.go:132`); the model assumes it returns. In
`RouteToSecret`, workers, informers, resync, retries and the garbage collector
are fair; in `OrderRetry`, the worker, the delaying queue and the clock.

In `AccountController`, workers, both informers and the retries are fair; there
is no resync to rely on. In `Exposers`, also the cluster's controllers, and
strongly a self validation that succeeds: the balancer does not pick a pod that
does not answer for ever; the ACME server need not decide. In `Lifecycle`, the goroutines of a process, the
kubelet and time are weakly fair; `StartControllers` of a replica that leads is
strongly fair, because one that acquires the lease again and again gets round to
starting its controllers before the lease is lost once more. The calls of a release
return. `Renew` has no fairness: a leader
whose renewals never get through gives up.

## Proofs

Everything in this section is proved for every value of the constants, from the
named assumptions of the modules, which only give constants their types and say
that there are finitely many issuers, with four exceptions: `TimesAssumption` of `CertRenewal` says a renewal takes less
than a third of any lifetime and NotBefore is backdated by less than half of it;
`TimesAssumption` of `Lifecycle` is the inequality above; `ManifestsAssumption`
of `AccountController` says that users write no account status; `ItemsAssumption`
of `ExposerResources` says that a LimitRange has no ratio below one and no minimum
above its own maximum, which the API server refuses, and that an exposer asks for
something.

**RouteControllerProofs.** `Invariance` shows `IndInv`: types; `VersionsOK`; and
`SyncOK`. `FailuresChargedOnce` is not inductive: a stale copy of the Route may
be written back at any time, so every copy (API server, events on their way,
cache, snapshot of the sync) has to satisfy `StatusOK`. Its core is that the
failures of a status are covered by ended orders *other than the one it still
follows* (`ChargedOrders`): only then is there room to charge that order when it
ends. Orders only move towards an end, so no copy becomes wrong by waiting.
From it follow `TypeCorrect`, `FailuresChargedOnceHolds` and
`NoSecondOrderHolds`. `RenewalScheduledHolds` adds that time only makes a
certificate worse (`NextAges`): a Route that looks healthy in the cache became so
by a delivery, which queues the key, and only `HealthySync` takes it from the
queue, arming the timer.

`ProgressScheduledHolds` needs to know at each call of a sync why the key will be
looked at again when the sync ends (`SyncProgress`): by then it is queued or
delayed, the status it is about to patch differs from the stored one, so that the
patch is an event, or the order is not in flight any more. What is left over is
named: the authorization was decided between `GetOrder` and `GetAuthorization`
(`Decided`), or a LimitRange refused the exposer pods (`Refused`), at any stage. It rests on
`CacheTrailsHolds`: the stored Route is the last event on its way to the informer,
or else what the cache holds, so no wake-up by an event is lost.

`OrderNeverLostFresh` is about `FreshSpec`, where a sync starts on a cache that has
caught up. `OrderInv` says that the annotation stays what the sync has read until
it writes (nobody else writes it), that a sync about to open an order works on a
status without one, and that every live order is annotated or in the hands of
the sync. Its hypothesis `faults = 0` is needed: an `AuthorizeOrder` whose answer
is lost leaves an order nobody knows. The run `RouteEdits` checks the same
statement, and `RouteOrderLost` shows that it fails on stale caches.

**CertRenewalProofs.** `ThresholdInWindow` bounds the threshold between a third
and a half of the lifetime. `IndInv` says that an idle key has a timer no later
than the renewal point, and a queued one is at most `late` past it. Hence
`NeverLapsesHolds`, `WakesInTimeHolds`, `RenewedLateHolds`.

**OrderRetryProofs.** `BackoffIsZero` is the reason behind the run `OrderBackoff`:
whatever the initial value, the factor and the number of failures, the loop
multiplies a zero. So a retry waits only for the skew between the clocks of two
leaders (`OnlySkewDelays`), which also bounds the delayed entry (`TypeCorrect`).

**RouteToSecretProofs.** The argument avoids the caches: an Update is decided on
only for a Secret read with a Route as its owner (`JobsOK`), and the API server
takes it only if the Secret is still that version. Hence `TypeCorrect` and
`ForeignSecretsUntouchedHolds`.

**AccountControllerProofs.** A URI reaches a ConfigMap from the key of a cached
Secret, over a sync that may be delayed and a ConfigMap that may be stale. So
`IndInv` says of every version of every object, wherever it is (API server,
watch, cache, interrupted sync), that it names only accounts whose key was
stored; `stored` only grows, so no copy becomes wrong by waiting (`KeptGrows`).
Hence `TypeCorrect` and `KeysAreStored`. `NoMissedWakeUp` needs `WakeInv`, which
drops what `SettledOrScheduled` supposes of the informers and counts an
undelivered version of the ConfigMap as a wake-up to come: `sync` returns nil
only for a settled issuer or after a write, which is delivered; and a Secret that
a settled issuer names is only lost by a delivery that queues the issuer.

`StableChoiceHolds` is about the sort, for any number of issuers and negative
priorities too. The comparator is no order in general; where no two issuers
contradict each other it is a total one (`BeforeTotal`, `BeforeTransitive`). Only
the first element of the sorted list is used, so the induction over the inserted
elements carries `FirstOf`: the first one comes before all others inserted so far.
It does not need the rest to be sorted. (`sort.Slice` is an insertion sort for up
to 12 elements; for more, any sort by a total order gives the same first one.)

**ExposersProofs.** `RangesFit` covers every list of LimitRange items, of any
length and with any numbers. `QuoBounds` says that `quoMilliRoundHalfDown` is
within half a unit of the quotient; so a request that is replaced for a ratio only
grows, stays below the limit, and fits the ratio up to that rounding
(`KeepRatioOK`). The induction over the items carries `SuitsUpto`: requests and
limits only grow, so no minimum is undone; a limit grows only to a minimum that is
above the request too, and then the two are equal and suit every ratio
(`RatioOfEqual`), while a request that grows under the same limit suits it all the
more (`RatioMonotone`); a maximum is missed without an error only if a later
minimum is above it. `IndInv` of
the state machine adds that every owner reference names a UID already given out
(`UidsOK`), and that the ReplicaSet's limit covers its request. Hence `TypeCorrect`
and `RangesRespectedHolds`.

`ContractImplemented` is the refinement: every step changes the stage as
`ExposerContract` allows or not at all. The one thing that could go wrong is an
exposer Route that appears with all the rest in place, remains of an earlier
exposer that a stale lister showed; `NewRoute` excludes it, since the parts name
the UID of their owner, and a new Route has a UID that no part names.

**Induction.** The provers cannot use an induction rule with a predicate as its
parameter. `SetInduction` and `BoundedInduction` state it for a set of numbers,
proved from the existence of a least element; `Recursion` gives the function that a
first value and a step determine, so that what a recursive function computes
(`Backoff`, `Adjustments`, `Sorted`) can be proved.

**LifecycleProofs.** `WorksAsHolder` says that a replica with controllers at
work has an elector that renews or is on its way to the Fatalf; `HolderIsSafe` says
that an elector that renews holds the lease, and that no candidate has known the
lease for longer than the holder has been without a renewal, so that nobody finds
it expired before the holder has given up. Nothing is said of the time that the
release and the exit take. Together with types they are inductive; `AloneAtWork`
follows, and `ImplementsLock` shows that `Spec` implements the initial condition
and the steps of `Leadership` (its fairness is left to TLC).

Only model-checked: `Converges`, `ExposersRemoved`, `RetryHappens`,
`SecretFollowsRoute`, `IssuersUsable`, `ChallengeAccepted`, `NothingLeft`,
`ProcessEnds` and the fairness of `ImplementsLeadership` (liveness under fairness
is out of the prover's reach). `OrderNeverLost` in a run with faults is not
claimed.

## Not modelled

* The profile transport: it rewrites the bytes of one request of one client, and
  its outcome, that `AuthorizeOrder` succeeds or fails, is in `RouteController`.
* Flags, `Validate` and `Complete` of both commands, and the choice of an informer
  factory by namespace: configuration without state.
* Parsing of certificates, keys, YAML and the exposer's response file; logging and
  events; version output.
* A status or certificate that cannot be decoded makes every sync fail until a user
  repairs it; Routes in that state are not among the initial states.
* Two Routes that name one Secret: any Route passes as its owner
  (`route.go:1291`), and nothing is promised about whose certificate it holds.
* The duration of single calls.

## Plan

Done: the controllers, the exposers, the controller process, their runs, and a
theorem for every invariant and, fairness aside, every refinement that a run
checks. What is left,
in this order:

1. The safety half of the liveness properties as invariants: the delayed entry of
   `OrderRetry` for `RetryHappens`, the wake-ups of `RouteToSecret` for
   `SecretFollowsRoute`.
2. An abstract `CertService` (a Route has no certificate, a good one or a due
   one, and at most one order is charged), which `RouteController` implements
   under a refinement mapping.
3. Full sortedness of `Sorted` where the comparator is an order, which no property
   needs so far.
