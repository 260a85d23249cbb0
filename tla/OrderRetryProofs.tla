--------------------------- MODULE OrderRetryProofs --------------------------
(***************************************************************************)
(* Proofs about OrderRetry: what the backoff loop computes for every value *)
(* of the two flags and every number of failures, and type correctness.    *)
(***************************************************************************)
EXTENDS OrderRetry, Induction

\* One round of the loop.
Longer(d) == IF d * BackoffInitial >= BackoffMax THEN BackoffMax ELSE d * BackoffInitial

\* The recursive definition of the backoff describes a function: the loop ends.
LEMMA BackoffDefined ==
    Backoff = [f \in 0 .. MaxFailures |->
                  IF f = 0 THEN 0
                  ELSE LET b == Backoff[f - 1] * BackoffInitial
                       IN  IF b >= BackoffMax THEN BackoffMax ELSE b]
<1> USE BackoffAssumption, BoundsAssumption
<1> DEFINE step == [f \in 1 .. MaxFailures |-> [d \in Nat |-> Longer(d)]]
           Body(b) == [f \in 0 .. MaxFailures |->
                         IF f = 0 THEN 0
                         ELSE LET x == b[f - 1] * BackoffInitial
                              IN  IF x >= BackoffMax THEN BackoffMax ELSE x]
<1>1. \A d \in Nat : Longer(d) \in Nat
  BY DEF Longer
<1>2. step \in [1 .. MaxFailures -> [Nat -> Nat]]
  BY <1>1
<1>3. PICK b \in [0 .. MaxFailures -> Nat] :
         b[0] = 0 /\ \A f \in 1 .. MaxFailures : b[f] = step[f][b[f - 1]]
  <2>1. MaxFailures \in Nat /\ 0 \in Nat
    OBVIOUS
  <2> HIDE DEF step
  <2>2. \E b : Iterates(b, MaxFailures, Nat, 0, step)
    BY <1>2, <2>1, Recursion
  <2> QED
    BY <2>2 DEF Iterates
<1>4. ASSUME NEW f \in 1 .. MaxFailures
      PROVE  b[f] = Longer(b[f - 1])
  <2>1. b[f - 1] \in Nat
    BY <1>3
  <2>2. step[f][b[f - 1]] = Longer(b[f - 1])
    BY <2>1
  <2> QED
    BY <1>3, <2>2
<1>5. ASSUME NEW f \in 0 .. MaxFailures PROVE b[f] = Body(b)[f]
  <2>1. CASE f = 0
    BY <1>3, <2>1
  <2>2. CASE f # 0
    <3>1. f \in 1 .. MaxFailures
      BY <2>2
    <3>2. Body(b)[f] = Longer(b[f - 1])
      BY <2>2 DEF Longer
    <3> QED
      BY <1>4, <3>1, <3>2
  <2> QED
    BY <2>1, <2>2
<1>6. b = Body(b)
  BY <1>3, <1>5
<1> HIDE DEF Body
<1>7. Backoff = CHOOSE x : x = Body(x)
  BY DEF Backoff, Body
<1>8. Backoff = Body(Backoff)
  BY <1>6, <1>7
<1> QED
  BY <1>8 DEF Body

\* The backoff after any number of failures is zero, whatever the two flags say:
\* the loop multiplies a duration that starts at zero.  This is why a retry does not
\* wait for --cert-order-backoff-initial.
THEOREM BackoffIsZero == \A f \in 0 .. MaxFailures : Backoff[f] = 0
<1> USE BackoffAssumption, BoundsAssumption
<1> DEFINE S == {f \in 0 .. MaxFailures : Backoff[f] = 0}
<1>1. 0 \in S
  BY BackoffDefined
<1>2. ASSUME NEW f \in 1 .. MaxFailures, f - 1 \in S PROVE f \in S
  <2>1. Backoff[f - 1] = 0 /\ f # 0 /\ f \in 0 .. MaxFailures
    BY <1>2
  <2>2. 0 * BackoffInitial = 0 /\ ~ (0 >= BackoffMax)
    OBVIOUS
  <2>3. Backoff[f] = 0
    BY <2>1, <2>2, BackoffDefined
  <2> QED
    BY <2>1, <2>3
<1>3. 0 .. MaxFailures \subseteq S
  <2>1. MaxFailures \in Nat
    OBVIOUS
  <2> HIDE DEF S
  <2> QED
    BY <1>1, <1>2, <2>1, BoundedInduction
<1> QED
  BY <1>3

\* In a state of the right type the delay is what the clocks differ by.
LEMMA DelayIsAge == TypeOK => Delay = - age
<1> SUFFICES ASSUME TypeOK PROVE Delay = - age
  OBVIOUS
<1>1. Backoff[failures] = 0
  BY BackoffIsZero DEF TypeOK
<1>2. age \in Int
  BY BoundsAssumption DEF TypeOK
<1> QED
  BY <1>1, <1>2 DEF Delay

\* A step keeps the types; a delay counts down from what is at most the skew.
LEMMA TypeStep == TypeOK /\ [Next]_vars => TypeOK'
<1> SUFFICES ASSUME TypeOK, [Next]_vars PROVE TypeOK'
  OBVIOUS
<1> USE BackoffAssumption, BoundsAssumption
<1>1. CASE UNCHANGED vars
  BY <1>1 DEF vars, TypeOK
<1>2. CASE OpenOrder
  BY <1>2 DEF OpenOrder, TypeOK
<1>3. CASE TooEarly
  <2>1. /\ UNCHANGED <<phase, failures, age, skew, elections>>
        /\ queued' = FALSE /\ armed' = TRUE
    BY <1>3 DEF TooEarly, ScheduleRetry
  <2>2. wait' = wait \/ wait' = - age
    BY <1>3, DelayIsAge DEF TooEarly, ScheduleRetry
  <2>3. - age > 0
    BY <1>3, DelayIsAge DEF TooEarly
  <2>4. wait' \in 0 .. MaxSkew + BackoffMax
    BY <2>2, <2>3 DEF TypeOK
  <2> QED
    BY <2>1, <2>4 DEF TypeOK
<1>4. CASE ObserveFailure
  BY <1>4 DEF ObserveFailure, TypeOK
<1>5. CASE ObserveSuccess
  <2>1. 0 \in 0 .. MaxFailures
    OBVIOUS
  <2> QED
    BY <1>5, <2>1 DEF ObserveSuccess, TypeOK
<1>6. CASE Fire
  BY <1>6 DEF Fire, TypeOK
<1>7. CASE NewLeader
  <2>1. /\ UNCHANGED <<phase, failures>> /\ wait' = 0
        /\ skew' \in 0 .. MaxSkew /\ age' \in - MaxSkew .. MaxAge
        /\ elections' \in 0 .. MaxElections
    BY <1>7 DEF NewLeader, TypeOK
  <2>2. queued' \in BOOLEAN /\ armed' \in BOOLEAN
    BY <1>7, Zenon DEF NewLeader
  <2>3. 0 \in 0 .. MaxSkew + BackoffMax
    OBVIOUS
  <2> QED
    BY <2>1, <2>2, <2>3 DEF TypeOK
<1>8. CASE Tick
  <2>1. wait' \in 0 .. MaxSkew + BackoffMax
    <3>1. CASE armed
      BY <1>8, <3>1 DEF Tick, TypeOK
    <3>2. CASE ~ armed
      BY <1>8, <3>2 DEF Tick, TypeOK
    <3> QED
      BY <3>1, <3>2
  <2>2. age' \in - MaxSkew .. MaxAge
    BY <1>8 DEF Tick, TypeOK
  <2> QED
    BY <1>8, <2>1, <2>2 DEF Tick, TypeOK
<1> QED
  BY <1>1, <1>2, <1>3, <1>4, <1>5, <1>6, <1>7, <1>8 DEF Next, Sync

\* Type correctness: a delayed entry is never longer than the largest skew between
\* two leaders and the longest backoff, and never negative.
THEOREM TypeCorrect == Spec => []TypeOK
<1>1. Init => TypeOK
  <2> SUFFICES ASSUME Init PROVE TypeOK
    OBVIOUS
  <2>1. /\ failures \in 0 .. MaxFailures /\ age \in - MaxSkew .. MaxAge
        /\ skew \in 0 .. MaxSkew /\ wait \in 0 .. MaxSkew + BackoffMax
        /\ elections \in 0 .. MaxElections
    BY BackoffAssumption, BoundsAssumption DEF Init
  <2> QED
    BY <2>1 DEF Init, TypeOK
<1> QED
  BY <1>1, TypeStep, PTL DEF Spec

\* sync postpones a failed order only when StartedAt lies in its future, that is
\* after a leader whose clock ran ahead: skew delays a retry, the backoff never does.
THEOREM OnlySkewDelays == Spec => [](Delay > 0 => age < 0)
<1>1. TypeOK => (Delay > 0 => age < 0)
  BY DelayIsAge, BoundsAssumption DEF TypeOK
<1> QED
  BY <1>1, TypeCorrect, PTL
=============================================================================
