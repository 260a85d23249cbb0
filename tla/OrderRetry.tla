------------------------------ MODULE OrderRetry ------------------------------
(***************************************************************************)
(* When sync retries a failed order: the backoff computed from Failures,   *)
(* EarliestAttemptAt, and the delayed queue entry that is to bring the     *)
(* Route back, on the clocks of successive leaders.  RouteController       *)
(* leaves this out: there a failed order is followed by another at once.   *)
(*                                                                         *)
(* Times are kept relative to now, so that the clock never ends: age is    *)
(* time.Now() - StartedAt on the leader's clock.  It is negative after a   *)
(* leader whose clock runs ahead handed over to one whose clock does not.  *)
(***************************************************************************)
EXTENDS Integers

CONSTANTS
    BackoffInitial,  \* --cert-order-backoff-initial, in ticks
    BackoffMax,      \* --cert-order-backoff-max, in ticks
    MaxSkew,         \* bound: how far the clock of a leader may run ahead
    MaxAge,          \* bound: ages beyond it are not told apart
    MaxFailures,     \* bound: failed orders in a row
    MaxElections     \* bound: changes of the leader

ASSUME BackoffAssumption == BackoffInitial \in Nat \ {0} /\ BackoffMax \in Nat \ {0}
ASSUME BoundsAssumption == /\ MaxSkew \in Nat /\ MaxElections \in Nat
                           /\ MaxFailures \in Nat \ {0}
                           /\ MaxAge \in Nat /\ MaxAge > BackoffMax

VARIABLES
    phase,      \* OrderStatus: "none", "open" (in flight), "failed", "done"
    failures,   \* Failures
    age,        \* now - StartedAt
    skew,       \* how far the leader's clock runs ahead
    queued,     \* the key waits in the queue
    armed,      \* the delaying queue holds an entry for the key,
    wait,       \* due after this many ticks
    elections

vars == <<phase, failures, age, skew, queued, armed, wait, elections>>

TypeOK ==
    /\ phase \in {"none", "open", "failed", "done"}
    /\ failures \in 0 .. MaxFailures
    /\ age \in -MaxSkew .. MaxAge
    /\ skew \in 0 .. MaxSkew
    /\ queued \in BOOLEAN /\ armed \in BOOLEAN
    /\ wait \in 0 .. MaxSkew + BackoffMax
    /\ elections \in 0 .. MaxElections

-----------------------------------------------------------------------------

\* The loop of sync: start from a duration of zero, multiply once per failure,
\* stop at the maximum.
Backoff[f \in 0 .. MaxFailures] ==
    IF f = 0 THEN 0
    ELSE LET b == Backoff[f - 1] * BackoffInitial
         IN  IF b >= BackoffMax THEN BackoffMax ELSE b

\* time.Until(EarliestAttemptAt)
Delay == Backoff[failures] - age

\* sync opens an order: the first one, or one after a failure whose delay is over.
OpenOrder ==
    /\ queued
    /\ phase = "none" \/ (phase = "failed" /\ Delay <= 0)
    /\ phase' = "open" /\ age' = 0
    /\ queued' = TRUE               \* the stored status is an event for the key
    /\ UNCHANGED <<failures, skew, armed, wait, elections>>

\* AddAfter(key, delay), the earlier of two delays prevailing.
ForgetRetry == UNCHANGED <<armed, wait>>
ScheduleRetry ==
    /\ armed' = TRUE
    /\ wait' = IF armed /\ wait < Delay THEN wait ELSE Delay

\* sync comes too early.
TooEarlyUnguarded ==
    /\ queued /\ phase = "failed"
    /\ ScheduleRetry
    /\ queued' = FALSE
    /\ UNCHANGED <<phase, failures, age, skew, elections>>
TooEarly ==
    /\ queued /\ phase = "failed" /\ Delay > 0
    /\ ScheduleRetry
    /\ queued' = FALSE
    /\ UNCHANGED <<phase, failures, age, skew, elections>>

\* sync reads from the ACME server how the order ended.
ObserveFailure ==
    /\ queued /\ phase = "open" /\ failures < MaxFailures
    /\ phase' = "failed" /\ failures' = failures + 1
    /\ queued' = TRUE
    /\ UNCHANGED <<age, skew, armed, wait, elections>>

ObserveSuccess ==
    /\ queued /\ phase = "open"
    /\ phase' = "done" /\ failures' = 0
    /\ queued' = FALSE
    /\ UNCHANGED <<age, skew, armed, wait, elections>>

\* The delay is over.
Fire ==
    /\ armed /\ wait = 0
    /\ armed' = FALSE /\ queued' = (phase # "done")
    /\ UNCHANGED <<phase, failures, age, skew, wait, elections>>

\* Another replica takes over, with an empty queue and its own clock, and lists
\* the Routes.
NewLeader ==
    /\ elections < MaxElections /\ elections' = elections + 1
    /\ \E s \in 0 .. MaxSkew :
          /\ skew' = s
          /\ age + s - skew \in -MaxSkew .. MaxAge
          /\ age' = age + s - skew
    /\ queued' = (phase # "done") /\ armed' = FALSE /\ wait' = 0
    /\ UNCHANGED <<phase, failures>>

Tick ==
    /\ ~ (armed /\ wait = 0)
    /\ age' = IF age < MaxAge THEN age + 1 ELSE age
    /\ wait' = IF armed THEN wait - 1 ELSE wait
    /\ UNCHANGED <<phase, failures, skew, queued, armed, elections>>

Init ==
    /\ phase = "none" /\ failures = 0 /\ age = MaxAge
    /\ skew \in 0 .. MaxSkew
    /\ queued = TRUE /\ armed = FALSE /\ wait = 0 /\ elections = 0

Sync == OpenOrder \/ TooEarly \/ ObserveFailure \/ ObserveSuccess

Next == Sync \/ Fire \/ NewLeader \/ Tick

\* A worker serves the queue, delays end and the clock runs.
Fairness == WF_vars(Sync) /\ WF_vars(Fire) /\ WF_vars(Tick)

Spec == Init /\ [][Next]_vars /\ Fairness

-----------------------------------------------------------------------------
(* Properties. *)

\* Every failed order is followed by another attempt: the entry that TooEarly
\* leaves in the delaying queue, or the list of the next leader, brings the key
\* back although nothing about the Route changes meanwhile.
RetryHappens == [](phase = "failed" => <>(phase = "open"))

\* "Initial value for the exponential backoff guarding retrying failed orders.":
\* an order that follows a failed one is opened no sooner than BackoffInitial
\* after its predecessor.
RetriesBackOff == [][phase = "failed" /\ phase' = "open" => age >= BackoffInitial]_vars
=============================================================================
