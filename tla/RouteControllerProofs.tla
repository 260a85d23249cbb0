------------------------ MODULE RouteControllerProofs ------------------------
(***************************************************************************)
(* Proofs about RouteController, for every set of hosts and every bound.   *)
(***************************************************************************)
EXTENDS RouteController, FiniteSetTheorems, SequenceTheorems, TLAPS

-----------------------------------------------------------------------------
(* Constants and data. *)

\* The idle values of the registers are well-formed.
LEMMA DataTypes ==
    /\ NoStatus \in Status
    /\ NoRoute \in Version
    /\ NoOrder \in Order
BY BoundsAssumption
   DEF NoStatus, Status, NoRoute, Version, NoOrder, Order, LiveStates, TerminalStates

\* The orders that ended are finitely many.
LEMMA EndedFinite ==
    ASSUME NEW ords, NEW n \in Nat
    PROVE  IsFiniteSet(Ended(ords, n))
<1>1. IsFiniteSet(1 .. n)
  BY FS_Interval
<1>2. Ended(ords, n) \subseteq 1 .. n
  BY DEF Ended
<1> QED
  BY <1>1, <1>2, FS_Subset

\* A status that was well-founded stays so while orders are opened and ended:
\* ended orders do not come back to life.
LEMMA StatusMonotone ==
    ASSUME NEW x \in [Orders -> Order], NEW y \in [Orders -> Order],
           NEW n \in 0 .. MaxOrders, NEW m \in 0 .. MaxOrders,
           n <= m,
           \A o \in 1 .. n : x[o].state \in TerminalStates => y[o].state \in TerminalStates,
           NEW s \in Status, StatusOK(s, x, n)
    PROVE  StatusOK(s, y, m)
<1> USE BoundsAssumption
<1>1. n \in Nat /\ m \in Nat
  OBVIOUS
<1>2. Ended(x, n) \subseteq Ended(y, m)
  BY <1>1 DEF Ended
<1>3. ChargedOrders(s, x, n) \subseteq ChargedOrders(s, y, m)
  BY <1>2 DEF ChargedOrders
<1>4. IsFiniteSet(ChargedOrders(s, y, m))
  <2>1. IsFiniteSet(Ended(y, m))
    BY <1>1, EndedFinite
  <2>2. ChargedOrders(s, y, m) \subseteq Ended(y, m)
    BY DEF ChargedOrders
  <2> QED
    BY <2>1, <2>2, FS_Subset
<1>5. /\ Cardinality(ChargedOrders(s, x, n)) \in Nat
      /\ Cardinality(ChargedOrders(s, y, m)) \in Nat
      /\ Cardinality(ChargedOrders(s, x, n)) <= Cardinality(ChargedOrders(s, y, m))
  <2>1. IsFiniteSet(ChargedOrders(s, x, n))
    BY <1>3, <1>4, FS_Subset
  <2> QED
    BY <1>3, <1>4, <2>1, FS_Subset, FS_CardinalityType
<1>6. s.failures \in Nat /\ s.uri \in 0 .. MaxOrders
  BY DEF Status
<1>7. s.uri <= m /\ (s.os = "none" => s.uri = 0)
  BY <1>1, <1>6 DEF StatusOK
<1>8. ~ OrderInFlight(s) /\ s.uri # 0 => y[s.uri].state \in TerminalStates
  BY <1>1, <1>6 DEF StatusOK
<1>9. s.failures <= Cardinality(ChargedOrders(s, y, m))
  BY <1>5, <1>6 DEF StatusOK
<1> QED
  BY <1>7, <1>8, <1>9 DEF StatusOK

\* The same for a whole version of the Route.
LEMMA VersionMonotone ==
    ASSUME NEW x \in [Orders -> Order], NEW y \in [Orders -> Order],
           NEW n \in 0 .. MaxOrders, NEW m \in 0 .. MaxOrders,
           n <= m,
           \A o \in 1 .. n : x[o].state \in TerminalStates => y[o].state \in TerminalStates,
           NEW v \in Version, VersionOK(v, x, n)
    PROVE  VersionOK(v, y, m)
<1>1. v.st \in Status
  BY DEF Version
<1>2. StatusOK(v.st, x, n)
  BY DEF VersionOK
<1>3. StatusOK(v.st, y, m)
  BY <1>1, <1>2, StatusMonotone
<1>4. v.cert <= m
  BY BoundsAssumption DEF VersionOK, Version
<1> QED
  BY <1>3, <1>4 DEF VersionOK

-----------------------------------------------------------------------------
(* What the operations on a status preserve. *)

\* The empty status.
LEMMA NoStatusOK ==
    ASSUME NEW n \in Nat, NEW ords \in [Orders -> Order]
    PROVE  StatusOK(NoStatus, ords, n)
<1>1. Cardinality(Ended(ords, n)) \in Nat
  BY EndedFinite, FS_CardinalityType
<1>2. ChargedOrders(NoStatus, ords, n) = Ended(ords, n)
  BY DEF ChargedOrders, NoStatus, OrderInFlight, LiveStates
<1> QED
  BY <1>1, <1>2 DEF StatusOK, NoStatus

\* Dropping the order from a status.
LEMMA ClearOrderOK ==
    ASSUME NEW ords \in [Orders -> Order], NEW n \in 0 .. MaxOrders,
           NEW s \in Status, StatusOK(s, ords, n)
    PROVE  /\ ClearOrder(s) \in Status
           /\ StatusOK(ClearOrder(s), ords, n)
<1> USE BoundsAssumption
<1>1. n \in Nat
  OBVIOUS
<1>2. /\ ClearOrder(s).uri = 0
      /\ ClearOrder(s).os = "none"
      /\ ClearOrder(s).failures = s.failures
  BY DEF ClearOrder, Status
<1>3. ClearOrder(s) \in Status
  <2>1. 0 \in 0 .. MaxOrders
    OBVIOUS
  <2>2. s = [uri |-> s.uri, os |-> s.os, failures |-> s.failures]
    BY DEF Status
  <2> QED
    BY <2>1, <2>2 DEF ClearOrder, Status
<1>4. s.failures <= Cardinality(Ended(ords, n))
  <2>1. IsFiniteSet(Ended(ords, n))
    BY <1>1, EndedFinite
  <2>2. ChargedOrders(s, ords, n) \subseteq Ended(ords, n)
    BY DEF ChargedOrders
  <2>3. /\ Cardinality(ChargedOrders(s, ords, n)) <= Cardinality(Ended(ords, n))
        /\ Cardinality(ChargedOrders(s, ords, n)) \in Nat
        /\ Cardinality(Ended(ords, n)) \in Nat
    BY <2>1, <2>2, FS_Subset, FS_CardinalityType
  <2> QED
    BY <2>3 DEF StatusOK, Status
<1>5. ChargedOrders(ClearOrder(s), ords, n) = Ended(ords, n)
  BY <1>2 DEF ChargedOrders, OrderInFlight, LiveStates
<1> QED
  BY <1>1, <1>2, <1>3, <1>4, <1>5 DEF StatusOK

\* Charging an order that ended, once.
LEMMA ChargeFailureOK ==
    ASSUME NEW ords \in [Orders -> Order], NEW n \in 0 .. MaxOrders,
           NEW s \in Status, StatusOK(s, ords, n), OrderInFlight(s), s.uri # 0,
           NEW os \in {"valid", "invalid", "expired"}, ords[s.uri].state = os
    PROVE  /\ ChargeFailure(s, os) \in Status
           /\ StatusOK(ChargeFailure(s, os), ords, n)
<1> USE BoundsAssumption
<1>1. n \in Nat
  OBVIOUS
<1>2. os # s.os
  BY DEF OrderInFlight, LiveStates
<1>3. /\ ChargeFailure(s, os).uri = s.uri
      /\ ChargeFailure(s, os).os = os
      /\ ChargeFailure(s, os).failures = s.failures + 1
  BY <1>2 DEF ChargeFailure, Status
<1>4. ChargeFailure(s, os) \in Status
  <2>1. s.failures + 1 \in Nat
    BY DEF Status
  <2> QED
    BY <1>2, <2>1 DEF ChargeFailure, Status
<1>5. s.uri \in Ended(ords, n)
  BY <1>1 DEF Ended, TerminalStates, StatusOK, Status
<1>6. IsFiniteSet(Ended(ords, n))
  BY <1>1, EndedFinite
<1>7. Cardinality(Ended(ords, n) \ {s.uri}) = Cardinality(Ended(ords, n)) - 1
  BY <1>5, <1>6, FS_RemoveElement
<1>8. Cardinality(Ended(ords, n)) \in Nat
  BY <1>6, FS_CardinalityType
<1>9. s.failures <= Cardinality(Ended(ords, n) \ {s.uri})
  BY DEF StatusOK, ChargedOrders
<1>10. s.failures + 1 <= Cardinality(Ended(ords, n))
  BY <1>7, <1>8, <1>9 DEF Status
<1>11. ~ OrderInFlight(ChargeFailure(s, os))
  BY <1>3 DEF OrderInFlight, LiveStates
<1>12. ChargedOrders(ChargeFailure(s, os), ords, n) = Ended(ords, n)
  BY <1>11 DEF ChargedOrders
<1>13. s.uri <= n
  BY DEF StatusOK
<1> QED
  BY <1>3, <1>4, <1>10, <1>11, <1>12, <1>13 DEF StatusOK, TerminalStates

\* An order just opened is followed by a status with the failures of before.
LEMMA FollowNewOrderOK ==
    ASSUME NEW ords \in [Orders -> Order], NEW n \in 0 .. MaxOrders, n < MaxOrders,
           NEW s \in Status, StatusOK(s, ords, n), NEW os \in LiveStates,
           NEW new \in Order, new.state = os
    PROVE  LET t == [s EXCEPT !.uri = n + 1, !.os = os]
               x == [ords EXCEPT ![n + 1] = new]
           IN  /\ x \in [Orders -> Order]
               /\ t \in Status
               /\ StatusOK(t, x, n + 1)
<1> DEFINE t == [s EXCEPT !.uri = n + 1, !.os = os]
           x == [ords EXCEPT ![n + 1] = new]
<1> USE BoundsAssumption
<1>1. n \in Nat /\ n + 1 \in Orders /\ n + 1 \in 0 .. MaxOrders
  BY DEF Orders
<1>2. x \in [Orders -> Order]
  BY <1>1
<1>3. t.uri = n + 1 /\ t.os = os /\ t.failures = s.failures
  BY DEF Status
<1>4. t \in Status
  BY <1>1 DEF Status
<1>5. \A o \in 1 .. n : x[o] = ords[o]
  BY <1>1 DEF Orders
<1>6. Ended(ords, n) \subseteq Ended(x, n + 1) \ {n + 1}
  BY <1>1, <1>5 DEF Ended
<1>7. ChargedOrders(s, ords, n) \subseteq ChargedOrders(t, x, n + 1)
  BY <1>3, <1>6 DEF ChargedOrders, OrderInFlight
<1>8. IsFiniteSet(ChargedOrders(t, x, n + 1))
  <2>1. IsFiniteSet(Ended(x, n + 1))
    BY <1>1, EndedFinite
  <2>2. ChargedOrders(t, x, n + 1) \subseteq Ended(x, n + 1)
    BY DEF ChargedOrders
  <2> QED
    BY <2>1, <2>2, FS_Subset
<1>9. /\ Cardinality(ChargedOrders(s, ords, n)) <= Cardinality(ChargedOrders(t, x, n + 1))
      /\ Cardinality(ChargedOrders(s, ords, n)) \in Nat
      /\ Cardinality(ChargedOrders(t, x, n + 1)) \in Nat
  BY <1>7, <1>8, FS_Subset, FS_CardinalityType
<1>10. s.failures \in Nat /\ s.failures <= Cardinality(ChargedOrders(s, ords, n))
  BY DEF StatusOK, Status
<1>11. t.failures <= Cardinality(ChargedOrders(t, x, n + 1))
  BY <1>3, <1>9, <1>10
<1>12. StatusOK(t, x, n + 1)
  BY <1>1, <1>3, <1>11 DEF StatusOK, OrderInFlight, LiveStates
<1> QED
  BY <1>2, <1>4, <1>12

-----------------------------------------------------------------------------
(* The invariant, one lemma per action or group of like actions. *)

\* A write of a well-formed version leaves the Route and the watch well-formed.
LEMMA WriteOK ==
    ASSUME TypeOK, VersionsOK, NEW r \in Version, VersionOK(r, orders, nOrders), Write(r)
    PROVE  /\ route' \in Version
           /\ watch' \in Seq(Version)
           /\ VersionOK(route', orders, nOrders)
           /\ \A i \in 1 .. Len(watch') : VersionOK(watch'[i], orders, nOrders)
<1>1. CASE r = route
  BY <1>1 DEF Write, apiVars, TypeOK, VersionsOK
<1>2. CASE r # route
  <2>1. route' = r /\ watch' = Append(watch, r)
    BY <1>2 DEF Write
  <2>2. watch' \in Seq(Version) /\ Len(watch') = Len(watch) + 1
    BY <2>1 DEF TypeOK
  <2>3. ASSUME NEW i \in 1 .. Len(watch')
        PROVE  VersionOK(watch'[i], orders, nOrders)
    <3>1. CASE i \in 1 .. Len(watch)
      <4>1. watch'[i] = watch[i]
        BY <2>1, <3>1 DEF TypeOK
      <4> QED
        BY <3>1, <4>1 DEF VersionsOK
    <3>2. CASE i = Len(watch) + 1
      <4>1. watch'[i] = r
        BY <2>1, <3>2 DEF TypeOK
      <4> QED
        BY <4>1
    <3> QED
      BY <2>2, <3>1, <3>2 DEF TypeOK
  <2> QED
    BY <2>1, <2>2, <2>3
<1> QED
  BY <1>1, <1>2

\* The registers of an idle worker.
LEMMA EndSyncOK ==
    ASSUME IndInv, EndSync
    PROVE  /\ pc' = "idle" /\ tries' = 0 /\ tries' \in 0 .. MaxTries
           /\ snap' = NoRoute /\ snap' \in Version /\ fresh' \in Version
           /\ st' = NoStatus /\ st' \in Status
           /\ \A n \in Nat : \A ords \in [Orders -> Order] :
                 StatusOK(st', ords, n) /\ VersionOK(snap', ords, n)
<1> USE BoundsAssumption
<1>1. /\ pc' = "idle" /\ tries' = 0 /\ tries' \in 0 .. MaxTries
      /\ snap' = NoRoute /\ snap' \in Version /\ fresh' \in Version
      /\ st' = NoStatus /\ st' \in Status
  BY DataTypes DEF EndSync
<1> QED
  BY <1>1, NoStatusOK DEF VersionOK, NoRoute

\* A sync that has nothing to do changes only the queue.
LEMMA SkipSyncInv == IndInv /\ SkipSync => IndInv'
<1> SUFFICES ASSUME IndInv, SkipSync PROVE IndInv'
  OBVIOUS
<1>1. TypeOK'
  BY DEF IndInv, TypeOK, SkipSync, StartSync, apiVars, syncVars, caVars, envVars
<1>2. VersionsOK'
  BY DEF IndInv, VersionsOK, SkipSync, apiVars, syncVars, caVars
<1>3. SyncOK'
  BY DEF IndInv, SyncOK, SkipSync, syncVars, caVars
<1> QED
  BY <1>1, <1>2, <1>3 DEF IndInv

\* The merge patch stores a status that names only orders the server opened, over
\* whatever version of the Route is there.
LEMMA PatchInv == IndInv /\ Patch => IndInv'
<1> SUFFICES ASSUME IndInv, Patch PROVE IndInv'
  OBVIOUS
<1>1. UNCHANGED <<cache, nOrders, orders, limited, due, exposers, edits>>
  BY DEF Patch, caVars, envVars
<1>2. faults' \in 0 .. MaxFaults
  BY BoundsAssumption DEF Patch, Fault, NoFault, IndInv, TypeOK
<1>3. EndSync /\ dirty' \in BOOLEAN /\ timer' \in BOOLEAN
  BY DEF Patch, ReturnNil, ReturnErr, queueVars, IndInv, TypeOK
<1>4. /\ route' \in Version /\ watch' \in Seq(Version)
      /\ VersionOK(route', orders, nOrders)
      /\ \A i \in 1 .. Len(watch') : VersionOK(watch'[i], orders, nOrders)
  <2> DEFINE r == [route EXCEPT !.st = st]
  <2>1. CASE UNCHANGED apiVars
    BY <2>1 DEF apiVars, IndInv, TypeOK, VersionsOK
  <2>2. CASE route.exists /\ Write(r)
    <3>1. r \in Version
      BY DEF IndInv, TypeOK, Version
    <3>2. VersionOK(r, orders, nOrders)
      BY DEF IndInv, TypeOK, Version, VersionsOK, SyncOK, VersionOK
    <3> QED
      BY <2>2, <3>1, <3>2, WriteOK DEF IndInv
  <2> QED
    BY <2>1, <2>2 DEF Patch
<1>5. TypeOK'
  BY <1>1, <1>2, <1>3, <1>4, EndSyncOK DEF IndInv, TypeOK, PcValues
<1>6. VersionsOK' /\ SyncOK'
  BY <1>1, <1>3, <1>4, EndSyncOK, BoundsAssumption
     DEF IndInv, TypeOK, VersionsOK, SyncOK, FollowsOrder, HoldsCert
<1> QED
  BY <1>5, <1>6 DEF IndInv

\* Clearing a finished order keeps its failures covered by ended orders.
LEMMA HealthySyncInv == IndInv /\ HealthySync => IndInv'
<1> SUFFICES ASSUME IndInv, HealthySync PROVE IndInv'
  OBVIOUS
<1> USE BoundsAssumption
<1>1. UNCHANGED <<route, watch, cache, nOrders, orders, limited, due, exposers, edits, faults>>
  BY DEF HealthySync, apiVars, caVars, envVars
<1>2. dirty' \in BOOLEAN /\ timer' \in BOOLEAN
  BY DEF HealthySync, StartSync, ScheduleRenewal
<1>3. pc = "idle" /\ tries = 0 /\ cache.exists /\ cache \in Version /\ cache.st \in Status
  BY DEF HealthySync, StartSync, IsManaged, IndInv, TypeOK, SyncOK, HoldsCert, Version
<1>4. ClearOrder(cache.st) \in Status /\ StatusOK(ClearOrder(cache.st), orders, nOrders)
  BY <1>3, ClearOrderOK DEF IndInv, TypeOK, VersionsOK, VersionOK
<1>5. CASE UNCHANGED syncVars
  <2>1. TypeOK'
    BY <1>1, <1>2, <1>5 DEF syncVars, IndInv, TypeOK
  <2>2. VersionsOK' /\ SyncOK'
    BY <1>1, <1>5 DEF syncVars, IndInv, VersionsOK, SyncOK
  <2> QED
    BY <2>1, <2>2 DEF IndInv
<1>6. CASE /\ pc' = "patch" /\ snap' = cache /\ st' = ClearOrder(cache.st)
           /\ UNCHANGED <<fresh, tries>>
  <2>1. TypeOK'
    BY <1>1, <1>2, <1>3, <1>4, <1>6 DEF IndInv, TypeOK, PcValues
  <2>2. VersionsOK'
    BY <1>1, <1>6 DEF IndInv, VersionsOK
  <2>3. SyncOK'
    BY <1>1, <1>3, <1>4, <1>6 DEF SyncOK, FollowsOrder, HoldsCert
  <2> QED
    BY <2>1, <2>2, <2>3 DEF IndInv
<1> QED
  BY <1>5, <1>6 DEF HealthySync

\* The order sync goes on with is in flight; sync asks for another only when the
\* Route it read names none or an ended one.
LEMMA OrderSyncInv == IndInv /\ OrderSync => IndInv'
<1> SUFFICES ASSUME IndInv, OrderSync PROVE IndInv'
  OBVIOUS
<1> USE BoundsAssumption
<1> DEFINE s == CleanPreviousOrder(cache.st)
<1>1. UNCHANGED <<route, watch, cache, nOrders, orders, limited, due, exposers, edits>>
  BY DEF OrderSync, apiVars, caVars, envVars
<1>2. dirty' \in BOOLEAN /\ timer' \in BOOLEAN /\ faults' \in 0 .. MaxFaults
  <2>1. dirty' \in BOOLEAN /\ timer' \in BOOLEAN
    BY Zenon DEF OrderSync, StartSync, IndInv, TypeOK
  <2>2. faults' \in 0 .. MaxFaults
    BY DEF OrderSync, Fault, NoFault, IndInv, TypeOK
  <2> QED
    BY <2>1, <2>2
<1>3. pc = "idle" /\ tries = 0 /\ cache.exists /\ cache \in Version /\ cache.st \in Status
  BY DEF OrderSync, StartSync, IsManaged, IndInv, TypeOK, SyncOK, HoldsCert, Version
<1>4. StatusOK(cache.st, orders, nOrders)
  BY DEF IndInv, VersionsOK, VersionOK
<1>5. s \in Status /\ StatusOK(s, orders, nOrders)
  <2>1. ClearOrder(cache.st) \in Status /\ StatusOK(ClearOrder(cache.st), orders, nOrders)
    BY <1>3, <1>4, ClearOrderOK DEF IndInv, TypeOK
  <2> QED
    BY <1>3, <1>4, <2>1 DEF CleanPreviousOrder
<1>6. /\ s.uri # 0 => OrderInFlight(s)
      /\ s.uri = 0 => \/ cache.st.uri = 0
                      \/ orders[cache.st.uri].state \in TerminalStates
  BY <1>3, <1>4 DEF CleanPreviousOrder, ClearOrder, StatusOK, Status
<1>7. CASE UNCHANGED syncVars
  <2>1. TypeOK'
    BY <1>1, <1>2, <1>7 DEF syncVars, IndInv, TypeOK
  <2>2. VersionsOK' /\ SyncOK'
    BY <1>1, <1>7 DEF syncVars, IndInv, VersionsOK, SyncOK
  <2> QED
    BY <2>1, <2>2 DEF IndInv
<1>8. CASE /\ pc' = IF s.uri = 0 THEN "authorize" ELSE "getOrder"
           /\ snap' = cache /\ st' = s
           /\ UNCHANGED <<fresh, tries>>
  <2>1. TypeOK'
    BY <1>1, <1>2, <1>3, <1>5, <1>8 DEF IndInv, TypeOK, PcValues
  <2>2. VersionsOK'
    BY <1>1, <1>8 DEF IndInv, VersionsOK
  <2>3. SyncOK'
    BY <1>1, <1>3, <1>5, <1>6, <1>8 DEF SyncOK, FollowsOrder, HoldsCert
  <2> QED
    BY <2>1, <2>2, <2>3 DEF IndInv
<1> QED
  BY <1>7, <1>8 DEF OrderSync

\* Steps that end the sync and change nothing the API server or the ACME server
\* holds.
LEMMA ReturnInv ==
    ASSUME IndInv, EndSync, UNCHANGED <<route, watch, cache, caVars, envVars>>,
           dirty' \in BOOLEAN, timer' \in BOOLEAN, faults' \in 0 .. MaxFaults,
           exposers' \subseteq Exposer
    PROVE  IndInv'
<1>1. TypeOK'
  BY EndSyncOK DEF IndInv, TypeOK, PcValues, caVars, envVars
<1>2. VersionsOK' /\ SyncOK'
  BY EndSyncOK, BoundsAssumption
     DEF IndInv, TypeOK, VersionsOK, SyncOK, FollowsOrder, HoldsCert, caVars
<1> QED
  BY <1>1, <1>2 DEF IndInv

\* Steps that go on to another call of the sync and change nothing the API server
\* or the ACME server holds.
LEMMA GotoInv ==
    ASSUME IndInv, UNCHANGED <<route, watch, cache, caVars, envVars>>,
           dirty' \in BOOLEAN, timer' \in BOOLEAN, faults' \in 0 .. MaxFaults,
           exposers' \subseteq Exposer,
           NEW next \in PcValues \ {"idle", "authorize", "getFresh"}, NEW s \in Status,
           Goto(next, s), pc # "idle", StatusOK(s, orders, nOrders),
           next \in FollowsOrder \cup HoldsCert => s.uri # 0,
           next \in FollowsOrder => OrderInFlight(s),
           next \notin HoldsCert => tries = 0
    PROVE  IndInv'
<1>1. pc' = next /\ st' = s /\ UNCHANGED <<snap, fresh, tries>>
  BY DEF Goto
<1>2. TypeOK'
  BY <1>1 DEF IndInv, TypeOK, caVars, envVars
<1>3. VersionsOK'
  BY <1>1 DEF IndInv, VersionsOK, caVars
<1>4. SyncOK'
  BY <1>1 DEF IndInv, SyncOK, caVars
<1> QED
  BY <1>2, <1>3, <1>4 DEF IndInv

\* Charging the order that just ended is covered by that order, which the status
\* no longer follows afterwards.
LEMMA GetOrderInv == IndInv /\ GetOrder => IndInv'
<1> SUFFICES ASSUME IndInv, GetOrder PROVE IndInv'
  OBVIOUS
<1> USE BoundsAssumption
<1> DEFINE state == orders[st.uri].state
<1>1. UNCHANGED <<route, watch, cache, caVars, envVars>> /\ exposers' \subseteq Exposer
  BY DEF GetOrder, apiVars, IndInv, TypeOK
<1>2. faults' \in 0 .. MaxFaults /\ dirty' \in BOOLEAN /\ timer' \in BOOLEAN
  <2>1. dirty' \in BOOLEAN /\ timer' \in BOOLEAN
    BY Zenon DEF GetOrder, ReturnErr, Continue, RequeueAndPatch, queueVars, IndInv, TypeOK
  <2>2. faults' \in 0 .. MaxFaults
    BY DEF GetOrder, Fault, NoFault, IndInv, TypeOK
  <2> QED
    BY <2>1, <2>2
<1>3. /\ pc = "getOrder" /\ tries = 0 /\ st \in Status /\ st.uri # 0 /\ OrderInFlight(st)
      /\ StatusOK(st, orders, nOrders)
      /\ orders \in [Orders -> Order] /\ nOrders \in 0 .. MaxOrders
  BY DEF GetOrder, IndInv, TypeOK, SyncOK, FollowsOrder, HoldsCert
<1>4. CASE ReturnErr
  BY <1>1, <1>2, <1>4, ReturnInv DEF ReturnErr
<1>5. CASE Continue("patch", [st EXCEPT !.uri = 0])
  <2> DEFINE s == [st EXCEPT !.uri = 0]
  <2>1. s \in Status /\ s.uri = 0 /\ s.os = st.os /\ s.failures = st.failures
    BY <1>3 DEF Status
  <2>2. OrderInFlight(s) /\ s.os # "none"
    BY <1>3, <2>1 DEF OrderInFlight, LiveStates
  <2>3. s.failures <= Cardinality(ChargedOrders(s, orders, nOrders))
    <3>1. IsFiniteSet(Ended(orders, nOrders))
      BY <1>3, EndedFinite
    <3>2. /\ ChargedOrders(st, orders, nOrders) \subseteq ChargedOrders(s, orders, nOrders)
          /\ ChargedOrders(s, orders, nOrders) \subseteq Ended(orders, nOrders)
      BY <1>3, <2>1, <2>2 DEF ChargedOrders, Ended
    <3>3. IsFiniteSet(ChargedOrders(s, orders, nOrders))
      BY <3>1, <3>2, FS_Subset
    <3>4. /\ Cardinality(ChargedOrders(st, orders, nOrders))
               <= Cardinality(ChargedOrders(s, orders, nOrders))
          /\ Cardinality(ChargedOrders(st, orders, nOrders)) \in Nat
          /\ Cardinality(ChargedOrders(s, orders, nOrders)) \in Nat
      BY <3>2, <3>3, FS_Subset, FS_CardinalityType
    <3> QED
      BY <1>3, <2>1, <3>4 DEF StatusOK, Status
  <2>4. StatusOK(s, orders, nOrders)
    BY <1>3, <2>1, <2>2, <2>3 DEF StatusOK
  <2> QED
    BY <1>1, <1>2, <1>3, <1>5, <2>1, <2>4, GotoInv
       DEF Continue, PcValues, FollowsOrder, HoldsCert
<1>6. ASSUME NEW next \in {"getAuthz", "patch", "finalize"},
             state \in LiveStates, Goto(next, Observe(st, state))
      PROVE  IndInv'
  <2> DEFINE s == Observe(st, state)
  <2>1. s \in Status /\ s.uri = st.uri /\ s.os = state /\ s.failures = st.failures
    BY <1>3, <1>6 DEF Observe, Status
  <2>2. OrderInFlight(s) /\ s.os # "none"
    BY <1>6, <2>1 DEF OrderInFlight, LiveStates
  <2>3. StatusOK(s, orders, nOrders)
    BY <1>3, <2>1, <2>2 DEF StatusOK, ChargedOrders
  <2> QED
    BY <1>1, <1>2, <1>3, <1>6, <2>1, <2>2, <2>3, GotoInv
       DEF PcValues, FollowsOrder, HoldsCert
<1>7. ASSUME state \in {"valid", "invalid", "expired"}
      PROVE  LET s == ChargeFailure(st, state) IN
             /\ s \in Status /\ StatusOK(s, orders, nOrders)
             /\ ClearOrder(s) \in Status /\ StatusOK(ClearOrder(s), orders, nOrders)
  <2>1. /\ ChargeFailure(st, state) \in Status
        /\ StatusOK(ChargeFailure(st, state), orders, nOrders)
    BY <1>3, <1>7, ChargeFailureOK
  <2> QED
    BY <1>3, <2>1, ClearOrderOK
<1>8. CASE state = "valid" /\ Continue("cleanupPatch", ClearOrder(ChargeFailure(st, state)))
  BY <1>1, <1>2, <1>3, <1>7, <1>8, GotoInv DEF Continue, PcValues, FollowsOrder, HoldsCert
<1>9. CASE state \in {"invalid", "expired"} /\ Continue("cleanupPatch", ChargeFailure(st, state))
  BY <1>1, <1>2, <1>3, <1>7, <1>9, GotoInv DEF Continue, PcValues, FollowsOrder, HoldsCert
<1> QED
  BY <1>4, <1>5, <1>6, <1>8, <1>9
     DEF GetOrder, Continue, RequeueAndPatch, LiveStates

\* Reading the authorization changes no status.
LEMMA GetAuthzInv == IndInv /\ GetAuthz => IndInv'
<1> SUFFICES ASSUME IndInv, GetAuthz PROVE IndInv'
  OBVIOUS
<1> USE BoundsAssumption
<1>1. UNCHANGED <<route, watch, cache, caVars, envVars>> /\ exposers' \subseteq Exposer
  BY DEF GetAuthz, apiVars, IndInv, TypeOK
<1>2. dirty' \in BOOLEAN /\ timer' \in BOOLEAN
  BY Zenon DEF GetAuthz, ReturnErr, Continue, RequeueAndPatch, queueVars, IndInv, TypeOK
<1>3. faults' \in 0 .. MaxFaults
  BY DEF GetAuthz, Fault, NoFault, IndInv, TypeOK
<1>4. /\ pc = "getAuthz" /\ tries = 0 /\ st \in Status /\ st.uri # 0 /\ OrderInFlight(st)
      /\ StatusOK(st, orders, nOrders)
  BY DEF GetAuthz, IndInv, TypeOK, SyncOK, FollowsOrder, HoldsCert
<1>5. CASE ReturnErr
  BY <1>1, <1>2, <1>3, <1>5, ReturnInv DEF ReturnErr
<1>6. ASSUME NEW next \in {"expose", "patch"}, Goto(next, st)
      PROVE  IndInv'
  BY <1>1, <1>2, <1>3, <1>4, <1>6, GotoInv DEF PcValues, FollowsOrder, HoldsCert
<1> QED
  BY <1>5, <1>6 DEF GetAuthz, Continue, RequeueAndPatch

\* Creating exposer objects touches neither Route nor status.
LEMMA ExposeInv == IndInv /\ Expose => IndInv'
<1> SUFFICES ASSUME IndInv, Expose PROVE IndInv'
  OBVIOUS
<1> USE BoundsAssumption
<1>1. UNCHANGED <<route, watch, cache, caVars, envVars>>
  BY DEF Expose, apiVars
<1>2. dirty' \in BOOLEAN /\ timer' \in BOOLEAN
  BY Zenon DEF Expose, ReturnErr, ReturnNil, Continue, RequeueAndPatch, queueVars,
               IndInv, TypeOK
<1>3. faults' \in 0 .. MaxFaults
  <2>1. Fault \/ NoFault
    BY Zenon DEF Expose
  <2> QED
    BY <2>1 DEF Fault, NoFault, IndInv, TypeOK
<1>4. /\ pc = "expose" /\ tries = 0 /\ st \in Status /\ st.uri # 0 /\ OrderInFlight(st)
      /\ StatusOK(st, orders, nOrders)
  BY DEF Expose, IndInv, TypeOK, SyncOK, FollowsOrder, HoldsCert
<1>5. exposers' \subseteq Exposer
  <2>1. st.uri \in Orders /\ snap.host \in Hosts /\ snap.uid \in Nat
    <3>1. st.uri \in Orders
      BY <1>4 DEF Orders, Status
    <3>2. snap.exists
      BY <1>4 DEF IndInv, SyncOK
    <3> QED
      BY <3>1, <3>2 DEF IndInv, TypeOK, VersionsOK, VersionOK, Version
  <2>2. ASSUME NEW stage \in {"partial", "created", "up"}, NEW refused \in BOOLEAN,
               PutExposer(stage, refused)
        PROVE  exposers' \subseteq Exposer
    BY <2>1, <2>2 DEF PutExposer, Exposer, IndInv, TypeOK
  <2>3. StagesOf(ExposersFor(st.uri, snap.host)) \subseteq {"partial", "created", "up"}
    BY DEF StagesOf, ExposersFor, Exposer, IndInv, TypeOK
  <2>4. \/ UNCHANGED exposers
        \/ \E stage \in {"partial", "created", "up"}, refused \in BOOLEAN : PutExposer(stage, refused)
    BY <2>3 DEF Expose
  <2> QED
    BY <2>2, <2>4 DEF IndInv, TypeOK
<1>6. CASE ReturnErr \/ ReturnNil
  BY <1>1, <1>2, <1>3, <1>5, <1>6, ReturnInv DEF ReturnErr, ReturnNil
<1>7. ASSUME NEW next \in {"accept", "patch"}, Goto(next, st)
      PROVE  IndInv'
  BY <1>1, <1>2, <1>3, <1>4, <1>5, <1>7, GotoInv DEF PcValues, FollowsOrder, HoldsCert
<1> QED
  BY <1>6, <1>7 DEF Expose, Continue, RequeueAndPatch

\* Steps of the sync that open orders or move them on at the ACME server.
CAGrows ==
    /\ nOrders' \in 0 .. MaxOrders /\ nOrders <= nOrders'
    /\ orders' \in [Orders -> Order]
    /\ limited' \in BOOLEAN
    /\ \A o \in 1 .. nOrders :
          orders[o].state \in TerminalStates => orders'[o].state \in TerminalStates

\* Every copy of the Route stays well-founded under such a step.
LEMMA CopiesGrow ==
    ASSUME IndInv, CAGrows
    PROVE  /\ VersionOK(route, orders', nOrders')
           /\ VersionOK(cache, orders', nOrders')
           /\ VersionOK(snap, orders', nOrders')
           /\ \A i \in 1 .. Len(watch) : VersionOK(watch[i], orders', nOrders')
           /\ StatusOK(st, orders', nOrders')
           /\ snap.st.uri # 0 /\ orders[snap.st.uri].state \in TerminalStates
                => orders'[snap.st.uri].state \in TerminalStates
<1>1. ASSUME NEW v \in Version, VersionOK(v, orders, nOrders)
      PROVE  VersionOK(v, orders', nOrders')
  BY <1>1, VersionMonotone DEF CAGrows, IndInv, TypeOK
<1>2. StatusOK(st, orders', nOrders')
  BY StatusMonotone DEF CAGrows, IndInv, TypeOK, SyncOK
<1>3. /\ VersionOK(route, orders', nOrders')
      /\ VersionOK(cache, orders', nOrders')
      /\ VersionOK(snap, orders', nOrders')
  BY <1>1 DEF IndInv, TypeOK, VersionsOK
<1>4. ASSUME NEW i \in 1 .. Len(watch)
      PROVE  VersionOK(watch[i], orders', nOrders')
  <2>1. watch[i] \in Version
    BY DEF IndInv, TypeOK
  <2> QED
    BY <1>1, <2>1 DEF IndInv, VersionsOK
<1>5. snap.st.uri # 0 /\ orders[snap.st.uri].state \in TerminalStates
         => orders'[snap.st.uri].state \in TerminalStates
  <2>1. snap.st.uri \in 0 .. MaxOrders /\ snap.st.uri <= nOrders
    BY DEF IndInv, TypeOK, Version, Status, VersionsOK, VersionOK, StatusOK
  <2> QED
    BY <2>1, BoundsAssumption DEF CAGrows, IndInv, TypeOK
<1> QED
  BY <1>2, <1>3, <1>4, <1>5

\* Such a step, when the sync returns.
LEMMA ReturnCAInv ==
    ASSUME IndInv, CAGrows, EndSync,
           UNCHANGED <<route, watch, cache, due, exposers, edits>>,
           dirty' \in BOOLEAN, timer' \in BOOLEAN, faults' \in 0 .. MaxFaults
    PROVE  IndInv'
<1>1. TypeOK'
  BY EndSyncOK DEF IndInv, TypeOK, PcValues, CAGrows
<1>2. nOrders' \in Nat /\ orders' \in [Orders -> Order]
  BY BoundsAssumption DEF CAGrows
<1>3. VersionsOK' /\ SyncOK'
  BY <1>2, CopiesGrow, EndSyncOK DEF VersionsOK, SyncOK, FollowsOrder, HoldsCert
<1> QED
  BY <1>1, <1>3 DEF IndInv

\* Such a step, when the sync goes on.
LEMMA GotoCAInv ==
    ASSUME IndInv, CAGrows,
           UNCHANGED <<route, watch, cache, due, exposers, edits>>,
           dirty' \in BOOLEAN, timer' \in BOOLEAN, faults' \in 0 .. MaxFaults,
           NEW next \in {"patch", "getFresh"}, NEW s \in Status,
           Goto(next, s), pc # "idle", tries = 0, StatusOK(s, orders', nOrders'),
           next = "getFresh" => s.uri # 0
    PROVE  IndInv'
<1>1. pc' = next /\ st' = s /\ UNCHANGED <<snap, fresh, tries>>
  BY DEF Goto
<1>2. TypeOK'
  BY <1>1 DEF IndInv, TypeOK, CAGrows, PcValues
<1>3. VersionsOK'
  BY <1>1, CopiesGrow DEF VersionsOK
<1>4. SyncOK'
  BY <1>1, BoundsAssumption DEF IndInv, SyncOK, FollowsOrder, HoldsCert
<1> QED
  BY <1>2, <1>3, <1>4 DEF IndInv

\* A new order is not among the ended ones, so no status becomes wrong by it.
LEMMA AuthorizeInv == IndInv /\ Authorize => IndInv'
<1> SUFFICES ASSUME IndInv, Authorize PROVE IndInv'
  OBVIOUS
<1> USE BoundsAssumption
<1>1. UNCHANGED <<route, watch, cache, due, exposers, edits>>
  BY DEF Authorize, apiVars, envVars
<1>2. dirty' \in BOOLEAN /\ timer' \in BOOLEAN
  BY Zenon DEF Authorize, ReturnErr, Continue, queueVars, IndInv, TypeOK
<1>3. faults' \in 0 .. MaxFaults
  BY DEF Authorize, Fault, NoFault, IndInv, TypeOK
<1>4. /\ pc = "authorize" /\ tries = 0 /\ st \in Status /\ StatusOK(st, orders, nOrders)
      /\ orders \in [Orders -> Order] /\ nOrders \in 0 .. MaxOrders
      /\ snap.host \in Hosts \cup {NoHost}
  BY DEF Authorize, IndInv, TypeOK, SyncOK, HoldsCert, Version
<1>5. ASSUME NEW state \in {"pending", "ready"}, GrantOrder(state)
      PROVE  /\ CAGrows
             /\ [st EXCEPT !.uri = nOrders + 1, !.os = state] \in Status
             /\ StatusOK([st EXCEPT !.uri = nOrders + 1, !.os = state], orders', nOrders')
  <2> DEFINE new == [state |-> state, host |-> snap.host,
                     authz |-> IF state = "ready" THEN "valid" ELSE "pending"]
             t == [st EXCEPT !.uri = nOrders + 1, !.os = state]
  <2>1. new \in Order /\ new.state = state /\ state \in LiveStates
    BY <1>4 DEF Order, LiveStates
  <2>2. /\ nOrders < MaxOrders /\ nOrders' = nOrders + 1
        /\ orders' = [orders EXCEPT ![nOrders + 1] = new] /\ limited' = limited
    BY <1>5 DEF GrantOrder
  <2> HIDE DEF new
  <2>3. orders' \in [Orders -> Order] /\ t \in Status /\ StatusOK(t, orders', nOrders')
    BY <1>4, <2>1, <2>2, FollowNewOrderOK
  <2>4. \A o \in 1 .. nOrders : orders'[o] = orders[o]
    BY <1>4, <2>2 DEF Orders
  <2>5. CAGrows
    BY <1>4, <2>2, <2>3, <2>4 DEF CAGrows, IndInv, TypeOK
  <2> QED
    BY <2>3, <2>5
<1>6. ASSUME NEW state \in {"pending", "ready"}, GrantOrder(state),
             Continue("patch", [st EXCEPT !.uri = nOrders + 1, !.os = state])
      PROVE  IndInv'
  BY <1>1, <1>2, <1>3, <1>4, <1>5, <1>6, GotoCAInv DEF Continue
<1>7. CASE GrantOrder("pending") /\ ReturnErr
  BY <1>1, <1>2, <1>3, <1>5, <1>7, ReturnCAInv DEF ReturnErr
<1>8. CASE UNCHANGED caVars /\ ReturnErr
  <2>1. CAGrows
    BY <1>4, <1>8 DEF caVars, CAGrows, IndInv, TypeOK
  <2> QED
    BY <1>1, <1>2, <1>3, <1>8, <2>1, ReturnCAInv DEF ReturnErr
<1>9. CASE limited' = TRUE /\ ReturnErr /\ UNCHANGED <<nOrders, orders>>
  <2>1. CAGrows
    BY <1>4, <1>9 DEF CAGrows
  <2> QED
    BY <1>1, <1>2, <1>3, <1>9, <2>1, ReturnCAInv DEF ReturnErr
<1> QED
  BY <1>6, <1>7, <1>8, <1>9 DEF Authorize

\* Accepting the challenge ends no order.
LEMMA AcceptInv == IndInv /\ Accept => IndInv'
<1> SUFFICES ASSUME IndInv, Accept PROVE IndInv'
  OBVIOUS
<1> USE BoundsAssumption
<1>1. UNCHANGED <<route, watch, cache, due, exposers, edits, nOrders, limited>>
  BY DEF Accept, apiVars, envVars
<1>2. dirty' \in BOOLEAN /\ timer' \in BOOLEAN
  BY Zenon DEF Accept, ReturnErr, RequeueAndPatch, IndInv, TypeOK
<1>3. faults' \in 0 .. MaxFaults
  BY DEF Accept, Fault, NoFault, IndInv, TypeOK
<1>4. /\ pc = "accept" /\ tries = 0 /\ st \in Status /\ st.uri # 0
      /\ st.uri \in Orders
      /\ orders \in [Orders -> Order] /\ nOrders \in 0 .. MaxOrders
  BY DEF Accept, IndInv, TypeOK, SyncOK, FollowsOrder, HoldsCert, Status, Orders
<1>5. CASE UNCHANGED orders /\ ReturnErr
  <2>1. CAGrows
    BY <1>1, <1>4, <1>5 DEF CAGrows, IndInv, TypeOK
  <2> QED
    BY <1>1, <1>2, <1>3, <1>5, <2>1, ReturnCAInv DEF ReturnErr
<1>6. CASE /\ orders' = [orders EXCEPT ![st.uri].authz = "processing"]
           /\ RequeueAndPatch(st) \/ ReturnErr
  <2>1. orders' \in [Orders -> Order] /\ \A o \in Orders : orders'[o].state = orders[o].state
    BY <1>4, <1>6 DEF Order
  <2>2. \A o \in 1 .. nOrders : o \in Orders
    BY <1>4 DEF Orders
  <2>3. CAGrows
    BY <1>1, <1>4, <2>1, <2>2 DEF CAGrows, IndInv, TypeOK
  <2>4. StatusOK(st, orders', nOrders')
    BY <2>3, CopiesGrow
  <2>5. CASE RequeueAndPatch(st)
    BY <1>1, <1>2, <1>3, <1>4, <2>3, <2>4, <2>5, GotoCAInv DEF RequeueAndPatch
  <2>6. CASE ReturnErr
    BY <1>1, <1>2, <1>3, <2>3, <2>6, ReturnCAInv DEF ReturnErr
  <2> QED
    BY <1>6, <2>5, <2>6
<1> QED
  BY <1>5, <1>6 DEF Accept

\* The order that Finalize ends is the one the working status now calls valid,
\* with no failures to cover.
LEMMA FinalizeInv == IndInv /\ Finalize => IndInv'
<1> SUFFICES ASSUME IndInv, Finalize PROVE IndInv'
  OBVIOUS
<1> USE BoundsAssumption
<1>1. UNCHANGED <<route, watch, cache, due, exposers, edits, nOrders, limited>>
  BY DEF Finalize, apiVars, envVars
<1>2. dirty' \in BOOLEAN /\ timer' \in BOOLEAN
  BY Zenon DEF Finalize, ReturnErr, Continue, queueVars, IndInv, TypeOK
<1>3. faults' \in 0 .. MaxFaults
  BY DEF Finalize, Fault, NoFault, IndInv, TypeOK
<1>4. /\ pc = "finalize" /\ tries = 0 /\ st \in Status /\ st.uri # 0
      /\ st.uri \in Orders /\ st.uri <= nOrders
      /\ orders \in [Orders -> Order] /\ nOrders \in 0 .. MaxOrders
  BY DEF Finalize, IndInv, TypeOK, SyncOK, StatusOK, FollowsOrder, HoldsCert, Status, Orders
<1>5. CASE UNCHANGED orders /\ ReturnErr
  <2>1. CAGrows
    BY <1>1, <1>4, <1>5 DEF CAGrows, IndInv, TypeOK
  <2> QED
    BY <1>1, <1>2, <1>3, <1>5, <2>1, ReturnCAInv DEF ReturnErr
<1>6. ASSUME NEW new \in {"valid", "processing"},
             orders[st.uri].state = "ready",
             orders' = [orders EXCEPT ![st.uri].state = new]
      PROVE  CAGrows /\ orders'[st.uri].state = new
  <2>1. /\ orders' \in [Orders -> Order]
        /\ orders'[st.uri].state = new
        /\ \A o \in Orders \ {st.uri} : orders'[o] = orders[o]
    BY <1>4, <1>6 DEF Order, LiveStates, TerminalStates
  <2>2. \A o \in 1 .. nOrders : o \in Orders
    BY <1>4 DEF Orders
  <2>3. "ready" \notin TerminalStates
    BY DEF TerminalStates
  <2> QED
    BY <1>1, <1>4, <1>6, <2>1, <2>2, <2>3 DEF CAGrows, IndInv, TypeOK
<1>7. CASE /\ orders[st.uri].state = "ready"
           /\ orders' = [orders EXCEPT ![st.uri].state = "processing"]
           /\ ReturnErr
  BY <1>1, <1>2, <1>3, <1>6, <1>7, ReturnCAInv DEF ReturnErr
<1>8. CASE /\ orders[st.uri].state = "ready"
           /\ orders' = [orders EXCEPT ![st.uri].state = "valid"]
           /\ Continue("getFresh", [st EXCEPT !.os = "valid", !.failures = 0])
  <2> DEFINE s == [st EXCEPT !.os = "valid", !.failures = 0]
  <2>1. CAGrows /\ orders'[st.uri].state = "valid"
    BY <1>6, <1>8
  <2>2. s \in Status /\ s.uri = st.uri /\ s.os = "valid" /\ s.failures = 0
    BY <1>4 DEF Status
  <2>3. ~ OrderInFlight(s) /\ "valid" \in TerminalStates
    BY <2>2 DEF OrderInFlight, LiveStates, TerminalStates
  <2>4. Cardinality(Ended(orders', nOrders')) \in Nat
    BY <2>1, EndedFinite, FS_CardinalityType DEF CAGrows
  <2>5. StatusOK(s, orders', nOrders')
    BY <1>1, <1>4, <2>1, <2>2, <2>3, <2>4 DEF StatusOK, ChargedOrders
  <2> QED
    BY <1>1, <1>2, <1>3, <1>4, <1>8, <2>1, <2>2, <2>5, GotoCAInv DEF Continue
<1> QED
  BY <1>5, <1>7, <1>8 DEF Finalize

\* Each attempt of RetryOnConflict is counted, and starts only below the limit.
LEMMA GetFreshInv == IndInv /\ GetFresh => IndInv'
<1> SUFFICES ASSUME IndInv, GetFresh PROVE IndInv'
  OBVIOUS
<1> USE BoundsAssumption
<1>1. UNCHANGED <<route, watch, cache, caVars, envVars>> /\ exposers' \subseteq Exposer
  BY DEF GetFresh, apiVars, IndInv, TypeOK
<1>2. dirty' \in BOOLEAN /\ timer' \in BOOLEAN
  BY Zenon DEF GetFresh, ReturnErr, queueVars, IndInv, TypeOK
<1>3. faults' \in 0 .. MaxFaults
  BY DEF GetFresh, Fault, NoFault, IndInv, TypeOK
<1>4. CASE ReturnErr
  BY <1>1, <1>2, <1>3, <1>4, ReturnInv DEF ReturnErr
<1>5. CASE /\ pc' = "update" /\ fresh' = route /\ tries' = tries + 1
           /\ UNCHANGED <<snap, st, queueVars>>
  <2>1. pc = "getFresh" /\ tries < MaxTries /\ tries \in 0 .. MaxTries
    BY DEF GetFresh, IndInv, TypeOK, SyncOK
  <2>2. tries' \in 0 .. MaxTries
    BY <1>5, <2>1
  <2>3. TypeOK'
    BY <1>1, <1>2, <1>3, <1>5, <2>2 DEF IndInv, TypeOK, PcValues, caVars, envVars
  <2>4. VersionsOK'
    BY <1>1, <1>5 DEF IndInv, VersionsOK, caVars
  <2>5. SyncOK'
    BY <1>1, <1>5, <2>1 DEF IndInv, SyncOK, FollowsOrder, HoldsCert, caVars
  <2> QED
    BY <2>3, <2>4, <2>5 DEF IndInv
<1> QED
  BY <1>4, <1>5 DEF GetFresh

\* Update stores the certificate of an order that was opened, or counts an attempt.
LEMMA UpdateInv == IndInv /\ Update => IndInv'
<1> SUFFICES ASSUME IndInv, Update PROVE IndInv'
  OBVIOUS
<1> USE BoundsAssumption
<1>1. UNCHANGED <<cache, caVars, envVars, exposers>>
  BY DEF Update
<1>2. dirty' \in BOOLEAN /\ timer' \in BOOLEAN
  BY Zenon DEF Update, ReturnErr, Continue, queueVars, IndInv, TypeOK
<1>3. faults' \in 0 .. MaxFaults
  BY DEF Update, Fault, NoFault, IndInv, TypeOK
<1>4. pc = "update" /\ st \in Status /\ st.uri # 0 /\ StatusOK(st, orders, nOrders)
  BY DEF Update, IndInv, TypeOK, SyncOK, FollowsOrder, HoldsCert
<1>5. CASE UNCHANGED apiVars /\ ReturnErr
  BY <1>1, <1>2, <1>3, <1>5, ReturnInv DEF ReturnErr, apiVars, IndInv, TypeOK
<1>6. CASE UNCHANGED apiVars /\ RetriesLeft /\ Continue("getFresh", st)
  <2>1. pc' = "getFresh" /\ UNCHANGED <<st, snap, fresh, tries>> /\ tries < MaxTries
    BY <1>6 DEF Continue, Goto, RetriesLeft
  <2>2. TypeOK'
    BY <1>1, <1>2, <1>3, <1>6, <2>1 DEF IndInv, TypeOK, PcValues, apiVars, caVars, envVars
  <2>3. VersionsOK'
    BY <1>1, <1>6, <2>1 DEF IndInv, VersionsOK, apiVars, caVars
  <2>4. SyncOK'
    BY <1>1, <1>4, <2>1 DEF IndInv, SyncOK, FollowsOrder, HoldsCert, caVars
  <2> QED
    BY <2>2, <2>3, <2>4 DEF IndInv
<1>7. CASE /\ fresh = route
           /\ Write([fresh EXCEPT !.cert = st.uri, !.st = st])
           /\ Continue("cleanupReturn", st) \/ ReturnErr
  <2> DEFINE r == [fresh EXCEPT !.cert = st.uri, !.st = st]
  <2>2. r \in Version
    BY <1>4 DEF IndInv, TypeOK, Version, Status
  <2>3. VersionOK(r, orders, nOrders)
    <3>1. r.cert <= nOrders /\ r.st = st
      BY <1>4 DEF IndInv, TypeOK, Version, StatusOK
    <3>2. r.exists => r.host \in Hosts
      BY <1>7 DEF IndInv, TypeOK, Version, VersionsOK, VersionOK
    <3> QED
      BY <1>4, <3>1, <3>2 DEF VersionOK
  <2>4. /\ route' \in Version /\ watch' \in Seq(Version)
        /\ VersionOK(route', orders, nOrders)
        /\ \A i \in 1 .. Len(watch') : VersionOK(watch'[i], orders, nOrders)
    BY <1>7, <2>2, <2>3, WriteOK DEF IndInv
  <2>5. CASE Continue("cleanupReturn", st)
    <3>1. pc' = "cleanupReturn" /\ UNCHANGED <<st, snap, fresh, tries>>
      BY <2>5 DEF Continue, Goto
    <3>2. TypeOK'
      BY <1>1, <1>2, <1>3, <2>4, <3>1 DEF IndInv, TypeOK, PcValues, caVars, envVars
    <3>3. VersionsOK'
      BY <1>1, <2>4, <3>1 DEF IndInv, VersionsOK, caVars
    <3>4. SyncOK'
      BY <1>1, <1>4, <3>1 DEF IndInv, SyncOK, FollowsOrder, HoldsCert, caVars
    <3> QED
      BY <3>2, <3>3, <3>4 DEF IndInv
  <2>6. CASE ReturnErr
    <3>1. EndSync
      BY <2>6 DEF ReturnErr
    <3>2. TypeOK'
      BY <1>1, <1>2, <1>3, <2>4, <3>1, EndSyncOK DEF IndInv, TypeOK, PcValues, caVars, envVars
    <3>3. VersionsOK' /\ SyncOK'
      BY <1>1, <2>4, <3>1, EndSyncOK
         DEF IndInv, TypeOK, VersionsOK, SyncOK, FollowsOrder, HoldsCert, caVars
    <3> QED
      BY <3>2, <3>3 DEF IndInv
  <2> QED
    BY <1>7, <2>5, <2>6
<1> QED
  BY <1>5, <1>6, <1>7 DEF Update

\* Deleting exposer objects touches neither Route nor status.
LEMMA CleanupInv == IndInv /\ Cleanup => IndInv'
<1> SUFFICES ASSUME IndInv, Cleanup PROVE IndInv'
  OBVIOUS
<1> USE BoundsAssumption
<1>1. UNCHANGED <<route, watch, cache, caVars, envVars>> /\ exposers' \subseteq Exposer
  BY DEF Cleanup, DeleteExposers, apiVars, IndInv, TypeOK
<1>2. dirty' \in BOOLEAN /\ timer' \in BOOLEAN
  BY Zenon DEF Cleanup, ReturnNil, Continue, queueVars, IndInv, TypeOK
<1>3. faults' \in 0 .. MaxFaults
  BY DEF Cleanup, Fault, NoFault, IndInv, TypeOK
<1>4. CASE ReturnNil
  BY <1>1, <1>2, <1>3, <1>4, ReturnInv DEF ReturnNil
<1>5. CASE pc = "cleanupPatch" /\ Continue("patch", st)
  <2>1. tries = 0 /\ st \in Status /\ StatusOK(st, orders, nOrders)
    BY <1>5 DEF IndInv, TypeOK, SyncOK, HoldsCert
  <2> QED
    BY <1>1, <1>2, <1>3, <1>5, <2>1, GotoInv DEF Continue, PcValues, FollowsOrder, HoldsCert
<1> QED
  BY <1>4, <1>5 DEF Cleanup

\* The informer and the queue.
LEMMA InformerInv == IndInv /\ (Deliver \/ Resync \/ TimerFires \/ Crash) => IndInv'
<1> USE BoundsAssumption
<1>1. ASSUME IndInv, Deliver PROVE IndInv'
  <2>1. /\ UNCHANGED <<route, timer, syncVars, caVars, envVars, exposers, faults>>
        /\ cache' = Head(watch) /\ watch' = Tail(watch) /\ watch # <<>>
    BY <1>1 DEF Deliver
  <2>2. /\ Len(watch) \in Nat \ {0} /\ Head(watch) = watch[1] /\ watch[1] \in Version
        /\ Tail(watch) \in Seq(Version) /\ Len(Tail(watch)) = Len(watch) - 1
        /\ \A i \in 1 .. Len(Tail(watch)) : Tail(watch)[i] = watch[i + 1]
    BY <1>1, <2>1 DEF IndInv, TypeOK
  <2>3. dirty' \in BOOLEAN
    BY <1>1 DEF Deliver
  <2>4. TypeOK'
    BY <1>1, <2>1, <2>2, <2>3 DEF IndInv, TypeOK, syncVars, caVars, envVars
  <2>5. VersionOK(cache', orders, nOrders)
    BY <1>1, <2>1, <2>2 DEF IndInv, VersionsOK
  <2>6. ASSUME NEW i \in 1 .. Len(watch')
        PROVE  VersionOK(watch'[i], orders, nOrders)
    <3>1. watch'[i] = watch[i + 1] /\ i + 1 \in 1 .. Len(watch)
      BY <2>1, <2>2
    <3> QED
      BY <1>1, <3>1 DEF IndInv, VersionsOK
  <2>7. VersionsOK'
    BY <1>1, <2>1, <2>5, <2>6 DEF IndInv, VersionsOK, syncVars, caVars
  <2>8. SyncOK'
    BY <1>1, <2>1 DEF IndInv, SyncOK, syncVars, caVars
  <2> QED
    BY <2>4, <2>7, <2>8 DEF IndInv
<1>2. ASSUME IndInv, Resync \/ TimerFires PROVE IndInv'
  <2>1. UNCHANGED <<apiVars, cache, syncVars, caVars, envVars, exposers, faults>>
    BY <1>2 DEF Resync, TimerFires
  <2>2. dirty' \in BOOLEAN /\ timer' \in BOOLEAN
    BY <1>2, Zenon DEF Resync, TimerFires, IndInv, TypeOK
  <2>3. TypeOK'
    BY <1>2, <2>1, <2>2 DEF IndInv, TypeOK, apiVars, syncVars, caVars, envVars
  <2>4. VersionsOK' /\ SyncOK'
    BY <1>2, <2>1 DEF IndInv, VersionsOK, SyncOK, apiVars, syncVars, caVars
  <2> QED
    BY <2>3, <2>4 DEF IndInv
<1>3. ASSUME IndInv, Crash PROVE IndInv'
  <2>1. /\ UNCHANGED <<route, caVars, envVars, exposers>> /\ EndSync
        /\ cache' = route /\ watch' = <<>>
    BY <1>3 DEF Crash
  <2>2. faults' \in 0 .. MaxFaults
    BY <1>3 DEF Crash, Fault, IndInv, TypeOK
  <2>3. dirty' \in BOOLEAN /\ timer' \in BOOLEAN
    <3>1. route.exists \in BOOLEAN /\ route.managed \in BOOLEAN
      BY <1>3 DEF IndInv, TypeOK, Version
    <3> QED
      BY <1>3, <3>1 DEF Crash, IsManaged
  <2>4. TypeOK'
    BY <1>3, <2>1, <2>2, <2>3, EndSyncOK DEF IndInv, TypeOK, PcValues, caVars, envVars
  <2>5. VersionsOK' /\ SyncOK'
    BY <1>3, <2>1, EndSyncOK
       DEF IndInv, TypeOK, VersionsOK, SyncOK, FollowsOrder, HoldsCert, caVars
  <2> QED
    BY <2>4, <2>5 DEF IndInv
<1> QED
  BY <1>1, <1>2, <1>3

\* Users and the router write versions of their own.
LEMMA OtherWriteInv ==
    ASSUME IndInv, NEW r \in Version, VersionOK(r, orders, nOrders), OtherWrite(r),
           edits' \in 0 .. MaxEdits
    PROVE  IndInv'
<1>1. UNCHANGED <<cache, queueVars, syncVars, caVars, due, exposers, faults>> /\ Write(r)
  BY DEF OtherWrite
<1>2. /\ route' \in Version /\ watch' \in Seq(Version)
      /\ VersionOK(route', orders, nOrders)
      /\ \A i \in 1 .. Len(watch') : VersionOK(watch'[i], orders, nOrders)
  BY <1>1, WriteOK DEF IndInv
<1>3. TypeOK'
  BY <1>1, <1>2 DEF IndInv, TypeOK, queueVars, syncVars, caVars
<1>4. VersionsOK' /\ SyncOK'
  BY <1>1, <1>2 DEF IndInv, VersionsOK, SyncOK, syncVars, caVars
<1> QED
  BY <1>3, <1>4 DEF IndInv

\* Users and the router never write a status of their own.
LEMMA UserInv == IndInv /\ (RouterAdmits \/ UserStep) => IndInv'
<1> USE BoundsAssumption
<1>1. ASSUME IndInv, RouterAdmits PROVE IndInv'
  <2> DEFINE r == [route EXCEPT !.admitted = route.host]
  <2>1. r \in Version /\ VersionOK(r, orders, nOrders)
    BY <1>1 DEF IndInv, TypeOK, VersionsOK, VersionOK, Version
  <2> QED
    BY <1>1, <2>1, OtherWriteInv DEF RouterAdmits, IndInv, TypeOK
<1>2. ASSUME IndInv, Edit PROVE edits' \in 0 .. MaxEdits
  BY <1>2 DEF Edit, IndInv, TypeOK
<1>3. ASSUME IndInv, RouterRejects PROVE IndInv'
  <2> DEFINE r == [route EXCEPT !.admitted = NoHost]
  <2>1. r \in Version /\ VersionOK(r, orders, nOrders)
    BY <1>3 DEF IndInv, TypeOK, VersionsOK, VersionOK, Version
  <2> QED
    BY <1>2, <1>3, <2>1, OtherWriteInv DEF RouterRejects
<1>4. ASSUME IndInv, ChangeHost PROVE IndInv'
  <2>1. PICK h \in Hosts : OtherWrite([route EXCEPT !.host = h])
    BY <1>4 DEF ChangeHost
  <2> DEFINE r == [route EXCEPT !.host = h]
  <2>2. r \in Version /\ VersionOK(r, orders, nOrders)
    BY <1>4 DEF IndInv, TypeOK, VersionsOK, VersionOK, Version
  <2> QED
    BY <1>2, <1>4, <2>1, <2>2, OtherWriteInv DEF ChangeHost
<1>5. ASSUME IndInv, ToggleManaged PROVE IndInv'
  <2> DEFINE r == [route EXCEPT !.managed = ~ @]
  <2>1. r \in Version
    BY <1>5 DEF IndInv, TypeOK, Version
  <2>2. VersionOK(r, orders, nOrders)
    BY <1>5 DEF IndInv, TypeOK, VersionsOK, VersionOK, Version
  <2> QED
    BY <1>2, <1>5, <2>1, <2>2, OtherWriteInv DEF ToggleManaged
<1>7. ASSUME IndInv, DeleteRoute PROVE IndInv'
  <2> DEFINE r == [NoRoute EXCEPT !.uid = route.uid]
  <2>1. r \in Version /\ ~ r.exists /\ r.cert = 0 /\ r.st = NoStatus
    BY <1>7, DataTypes DEF IndInv, TypeOK, Version, NoRoute
  <2>2. VersionOK(r, orders, nOrders)
    BY <1>7, <2>1, NoStatusOK DEF IndInv, TypeOK, VersionOK
  <2> QED
    BY <1>2, <1>7, <2>1, <2>2, OtherWriteInv DEF DeleteRoute
<1>8. ASSUME IndInv, RecreateRoute PROVE IndInv'
  <2>1. PICK h \in Hosts : OtherWrite(NewRoute(route.uid + 1, h))
    BY <1>8 DEF RecreateRoute
  <2> DEFINE r == NewRoute(route.uid + 1, h)
  <2>2. r \in Version /\ r.host = h /\ r.cert = 0 /\ r.st = NoStatus
    <3>1. route.uid + 1 \in Nat
      BY <1>8 DEF IndInv, TypeOK, Version
    <3> QED
      BY <3>1, DataTypes DEF Version, NoRoute, NewRoute
  <2>3. VersionOK(r, orders, nOrders)
    BY <1>8, <2>2, NoStatusOK DEF IndInv, TypeOK, VersionOK
  <2> QED
    BY <1>2, <1>8, <2>1, <2>2, <2>3, OtherWriteInv DEF RecreateRoute
<1> QED
  BY <1>1, <1>3, <1>4, <1>5, <1>7, <1>8 DEF UserStep

\* The ACME server and the cluster on their own.
LEMMA CAStepInv ==
    ASSUME IndInv, NEW o \in Orders, NEW new \in Order, CAStep(o, new),
           faults' \in 0 .. MaxFaults,
           orders[o].state \in TerminalStates => new.state \in TerminalStates
    PROVE  IndInv'
<1> USE BoundsAssumption
<1>1. /\ UNCHANGED <<apiVars, cache, queueVars, syncVars, nOrders, limited, envVars, exposers>>
      /\ orders' = [orders EXCEPT ![o] = new]
  BY DEF CAStep
<1>2. orders' \in [Orders -> Order] /\ orders \in [Orders -> Order]
  BY <1>1 DEF IndInv, TypeOK
<1>3. \A p \in Orders : orders[p].state \in TerminalStates => orders'[p].state \in TerminalStates
  BY <1>1, <1>2
<1>4. CAGrows
  BY <1>1, <1>2, <1>3 DEF CAGrows, IndInv, TypeOK, Orders
<1>5. TypeOK'
  BY <1>1, <1>2 DEF IndInv, TypeOK, apiVars, queueVars, syncVars, envVars
<1>6. VersionsOK'
  BY <1>1, <1>4, CopiesGrow DEF VersionsOK, apiVars, syncVars
<1>7. SyncOK'
  BY <1>1, <1>4, CopiesGrow DEF IndInv, SyncOK, syncVars
<1> QED
  BY <1>5, <1>6, <1>7 DEF IndInv

\* Steps of the ACME server on its own only move orders towards their end, which
\* keeps every count of ended orders.
LEMMA CAInv ==
    ASSUME IndInv, NEW o \in Orders, CAStepFor(o) \/ CAForget(o)
    PROVE  IndInv'
<1> USE BoundsAssumption
<1>1. orders[o] \in Order
  BY DEF IndInv, TypeOK
<1>2. faults' \in 0 .. MaxFaults
  BY DEF CAStepFor, CAValidate, CAAdvance, CAIssue, CAExpire, CAForget, Fault, NoFault,
         IndInv, TypeOK
<1>3. CASE CAValidate(o)
  <2>1. PICK a \in {"valid", "invalid"} : CAStep(o, [orders[o] EXCEPT !.authz = a])
    BY <1>3 DEF CAValidate
  <2>2. /\ [orders[o] EXCEPT !.authz = a] \in Order
        /\ [orders[o] EXCEPT !.authz = a].state = orders[o].state
    BY <1>1 DEF Order
  <2> QED
    BY <1>2, <2>1, <2>2, CAStepInv
<1>4. ASSUME NEW s \in LiveStates \cup TerminalStates, CAStep(o, [orders[o] EXCEPT !.state = s]),
             orders[o].state \in LiveStates \/ s = "gone"
      PROVE  IndInv'
  <2>1. [orders[o] EXCEPT !.state = s] \in Order /\ [orders[o] EXCEPT !.state = s].state = s
    BY <1>1 DEF Order
  <2>2. orders[o].state \in TerminalStates => s \in TerminalStates
    BY <1>4 DEF LiveStates, TerminalStates
  <2> QED
    BY <1>2, <1>4, <2>1, <2>2, CAStepInv
<1>5. CASE CAAdvance(o)
  BY <1>4, <1>5 DEF CAAdvance, LiveStates, TerminalStates
<1>6. CASE CAIssue(o)
  BY <1>4, <1>6 DEF CAIssue, LiveStates, TerminalStates
<1>7. CASE CAExpire(o)
  BY <1>4, <1>7 DEF CAExpire, LiveStates, TerminalStates
<1>8. CASE CAForget(o)
  BY <1>4, <1>8 DEF CAForget, TerminalStates
<1> QED
  BY <1>3, <1>5, <1>6, <1>7, <1>8 DEF CAStepFor

\* Certificates ageing, pods starting and garbage collection touch no status.
LEMMA ClusterInv == IndInv /\ (CertAges \/ ExposerUp \/ CollectGarbage) => IndInv'
<1> SUFFICES ASSUME IndInv, CertAges \/ ExposerUp \/ CollectGarbage PROVE IndInv'
  OBVIOUS
<1>1. UNCHANGED <<apiVars, cache, queueVars, syncVars, caVars, edits, faults>>
  BY DEF CertAges, ExposerUp, CollectGarbage, envVars
<1>2. due' \subseteq Orders
  BY BoundsAssumption
     DEF CertAges, ExposerUp, CollectGarbage, envVars, Orders, Version, IndInv, TypeOK
<1>3. exposers' \subseteq Exposer
  <2>1. CASE ExposerUp
    <3>1. PICK e \in exposers : exposers' = (exposers \ {e}) \cup {[e EXCEPT !.stage = "up"]}
      BY <2>1 DEF ExposerUp
    <3>2. [e EXCEPT !.stage = "up"] \in Exposer
      BY DEF Exposer, IndInv, TypeOK
    <3> QED
      BY <3>1, <3>2 DEF IndInv, TypeOK
  <2>2. CASE CertAges \/ CollectGarbage
    BY <2>2 DEF CertAges, CollectGarbage, IndInv, TypeOK
  <2> QED
    BY <2>1, <2>2
<1>4. TypeOK'
  BY <1>1, <1>2, <1>3 DEF IndInv, TypeOK, apiVars, queueVars, syncVars, caVars
<1>5. VersionsOK' /\ SyncOK'
  BY <1>1 DEF IndInv, VersionsOK, SyncOK, apiVars, syncVars, caVars
<1> QED
  BY <1>4, <1>5 DEF IndInv

-----------------------------------------------------------------------------
(* Theorems. *)

\* A new Route has an empty status.
LEMMA InitInv == Init => IndInv
<1> SUFFICES ASSUME Init PROVE IndInv
  OBVIOUS
<1> USE BoundsAssumption
<1>1. PICK h \in Hosts : route = NewRoute(1, h)
  BY DEF Init
<1>2. route \in Version /\ route.host = h /\ route.cert = 0 /\ route.st = NoStatus
  BY <1>1, DataTypes DEF NewRoute, NoRoute, Version
<1>3. TypeOK
  <2>1. watch \in Seq(Version) /\ cache \in Version
    BY <1>2 DEF Init
  <2>2. orders \in [Orders -> Order]
    BY DataTypes DEF Init
  <2>3. nOrders \in 0 .. MaxOrders /\ tries \in 0 .. MaxTries
        /\ edits \in 0 .. MaxEdits /\ faults \in 0 .. MaxFaults
    BY DEF Init
  <2>4. dirty \in BOOLEAN /\ timer \in BOOLEAN /\ limited \in BOOLEAN
    BY DEF Init
  <2> QED
    BY <1>2, <2>1, <2>2, <2>3, <2>4, DataTypes DEF Init, TypeOK, PcValues
<1>4. nOrders \in Nat /\ orders \in [Orders -> Order]
  BY <1>3 DEF TypeOK
<1>5. StatusOK(NoStatus, orders, nOrders)
  BY <1>4, NoStatusOK
<1>6. VersionsOK
  <2>1. VersionOK(NoRoute, orders, nOrders)
    BY <1>4, <1>5 DEF VersionOK, NoRoute
  <2>2. VersionOK(route, orders, nOrders)
    BY <1>2, <1>4, <1>5 DEF VersionOK
  <2> QED
    BY <2>1, <2>2 DEF Init, VersionsOK
<1>7. SyncOK
  BY <1>5 DEF Init, SyncOK, FollowsOrder, HoldsCert
<1> QED
  BY <1>3, <1>6, <1>7 DEF IndInv

\* Every step keeps the invariant.
LEMMA NextInv == IndInv /\ [Next]_vars => IndInv'
<1>1. ASSUME IndInv, UNCHANGED vars PROVE IndInv'
  BY <1>1 DEF vars, IndInv, TypeOK, VersionsOK, SyncOK
<1>2. ASSUME IndInv, SyncStep PROVE IndInv'
  BY <1>2, SkipSyncInv, HealthySyncInv, OrderSyncInv, AuthorizeInv, GetOrderInv, GetAuthzInv,
     ExposeInv, AcceptInv, FinalizeInv, GetFreshInv, UpdateInv, CleanupInv, PatchInv
     DEF SyncStep, SyncStart, SyncCall
<1>3. ASSUME IndInv, NEW o \in Orders, CAStepFor(o) \/ CAForget(o) PROVE IndInv'
  BY <1>3, CAInv
<1> QED
  BY <1>1, <1>2, <1>3, InformerInv, UserInv, ClusterInv DEF Next, OtherStep

\* The invariant that ties every copy of the Route, wherever it is held, to what
\* the ACME server knows, and the registers of sync to the call it stands at.
THEOREM Invariance == Spec => []IndInv
  BY InitInv, NextInv, PTL DEF Spec

\* Type correctness of the provisioning loop; in particular RetryOnConflict
\* never exceeds its attempts and every exposer belongs to an order and a host.
THEOREM TypeCorrect == Spec => []TypeOK
<1>1. IndInv => TypeOK
  BY DEF IndInv
<1> QED
  BY <1>1, Invariance, PTL

\* However stale the caches and whatever calls fail, an order is charged to
\* Failures at most once.
THEOREM FailuresChargedOnceHolds == Spec => []FailuresChargedOnce
<1>1. IndInv => FailuresChargedOnce
  <2> SUFFICES ASSUME IndInv PROVE FailuresChargedOnce
    OBVIOUS
  <2>1. route.st \in Status /\ StatusOK(route.st, orders, nOrders) /\ nOrders \in Nat
    BY BoundsAssumption DEF IndInv, TypeOK, Version, VersionsOK, VersionOK
  <2>2. IsFiniteSet(Ended(orders, nOrders))
    BY <2>1, EndedFinite
  <2>3. ChargedOrders(route.st, orders, nOrders) \subseteq Ended(orders, nOrders)
    BY DEF ChargedOrders
  <2>4. /\ Cardinality(ChargedOrders(route.st, orders, nOrders))
             <= Cardinality(Ended(orders, nOrders))
        /\ Cardinality(ChargedOrders(route.st, orders, nOrders)) \in Nat
        /\ Cardinality(Ended(orders, nOrders)) \in Nat
    BY <2>2, <2>3, FS_Subset, FS_CardinalityType
  <2> QED
    BY <2>1, <2>4 DEF FailuresChargedOnce, StatusOK, Status
<1> QED
  BY <1>1, Invariance, PTL

\* A sync on the current version of the Route opens no second order while the
\* one in the annotation is alive.
THEOREM NoSecondOrderHolds == Spec => NoSecondOrder
<1> DEFINE Step == nOrders' # nOrders /\ snap = route /\ route.st.uri # 0
                     => orders[route.st.uri].state \in TerminalStates
<1>1. IndInv /\ [Next]_vars => [Step]_vars
  <2> SUFFICES ASSUME IndInv, Next, nOrders' # nOrders, snap = route, route.st.uri # 0
               PROVE  orders[route.st.uri].state \in TerminalStates
    OBVIOUS
  <2>1. pc = "authorize"
    BY DEF Next, OtherStep, SyncStep, SyncStart, SyncCall, UserStep, CAStepFor,
         SkipSync, HealthySync, OrderSync, Authorize,
           GetOrder, GetAuthz, Expose, Accept, Finalize, GetFresh, Update, Cleanup, Patch,
           Deliver, Resync, TimerFires, Crash, RouterAdmits, RouterRejects, ChangeHost,
           ToggleManaged, DeleteRoute, RecreateRoute, OtherWrite, CertAges, CAValidate,
           CAAdvance, CAIssue, CAExpire, CAForget, CAStep, ExposerUp, CollectGarbage, caVars
  <2> QED
    BY <2>1 DEF IndInv, SyncOK
<1> QED
  BY <1>1, Invariance, PTL DEF Spec, NoSecondOrder


-----------------------------------------------------------------------------
(* The next renewal check is always scheduled. *)

\* Time and the ACME server only ever make a certificate worse: it stays bound to
\* its host, and due once it is due.
CertsOnlyAge ==
    /\ due \subseteq due'
    /\ \A o \in 1 .. nOrders : orders'[o].host = orders[o].host

\* No step makes a certificate good again that was due, or gives an opened order
\* another host: a good certificate in the cache can only become due.
LEMMA NextAges == IndInv /\ Next => CertsOnlyAge
<1> SUFFICES ASSUME IndInv, Next PROVE CertsOnlyAge
  OBVIOUS
<1> USE BoundsAssumption
<1>1. due \subseteq due'
  BY DEF Next, OtherStep, SyncStep, SyncStart, SyncCall, UserStep, CAStepFor,
         SkipSync, HealthySync, OrderSync, Authorize,
         GetOrder, GetAuthz, Expose, Accept, Finalize, GetFresh, Update, Cleanup, Patch,
         Deliver, Resync, TimerFires, Crash, RouterAdmits, RouterRejects, ChangeHost,
         ToggleManaged, DeleteRoute, RecreateRoute, OtherWrite, CertAges, CAValidate,
         CAAdvance, CAIssue, CAExpire, CAForget, CAStep, ExposerUp, CollectGarbage, envVars
<1>2. /\ orders \in [Orders -> Order] /\ nOrders \in 0 .. MaxOrders
      /\ \A o \in 1 .. nOrders : o \in Orders /\ o # nOrders + 1
  BY DEF IndInv, TypeOK, Orders
<1>3. CASE UNCHANGED orders
  BY <1>1, <1>3 DEF CertsOnlyAge
<1>4. CASE Authorize
  <2>1. \/ UNCHANGED orders
        \/ \E new \in [state : {"pending", "ready"}, host : {snap.host},
                       authz : {"valid", "pending"}] :
              orders' = [orders EXCEPT ![nOrders + 1] = new]
    BY <1>4 DEF Authorize, GrantOrder, caVars
  <2> QED
    BY <1>1, <1>2, <2>1 DEF CertsOnlyAge
<1>5. CASE Accept \/ Finalize
  <2>1. \/ UNCHANGED orders
        \/ orders' = [orders EXCEPT ![st.uri].authz = "processing"]
        \/ orders' = [orders EXCEPT ![st.uri].state = "valid"]
        \/ orders' = [orders EXCEPT ![st.uri].state = "processing"]
    BY <1>5 DEF Accept, Finalize
  <2> QED
    BY <1>1, <1>2, <2>1 DEF CertsOnlyAge, Order
<1>6. ASSUME NEW o \in Orders, CAStepFor(o) \/ CAForget(o) PROVE CertsOnlyAge
  <2>1. \E new : orders' = [orders EXCEPT ![o] = new] /\ new.host = orders[o].host
    BY <1>2, <1>6
       DEF CAStepFor, CAValidate, CAAdvance, CAIssue, CAExpire, CAForget, CAStep, Order
  <2> QED
    BY <1>1, <1>2, <2>1 DEF CertsOnlyAge
<1>7. CASE ~ (Authorize \/ Accept \/ Finalize \/ \E o \in Orders : CAStepFor(o) \/ CAForget(o))
  <2>1. UNCHANGED orders
    BY <1>7 DEF Next, OtherStep, SyncStep, SyncStart, SyncCall, UserStep, SkipSync,
         HealthySync, OrderSync,
         GetOrder, GetAuthz, Expose, GetFresh, Update, Cleanup, Patch,
         Deliver, Resync, TimerFires, Crash, RouterAdmits, RouterRejects, ChangeHost,
         ToggleManaged, DeleteRoute, RecreateRoute, OtherWrite, CertAges,
         ExposerUp, CollectGarbage, caVars
  <2> QED
    BY <1>3, <2>1
<1> QED
  BY <1>4, <1>5, <1>6, <1>7

\* A step that keeps the cached Route and what is queued for its key.
LEMMA RenewalKept ==
    ASSUME IndInv, RenewalScheduled, CertsOnlyAge, UNCHANGED cache,
           dirty \/ timer => dirty' \/ timer'
    PROVE  RenewalScheduled'
<1>1. cache \in Version /\ cache.cert \in 0 .. MaxOrders /\ cache.cert <= nOrders
  BY DEF IndInv, TypeOK, VersionsOK, VersionOK, Version
<1>2. cache.cert # 0 => cache.cert \in 1 .. nOrders
  BY <1>1, BoundsAssumption DEF IndInv, TypeOK
<1>3. GoodCert(cache)' => GoodCert(cache)
  BY <1>2 DEF GoodCert, CertsOnlyAge
<1> QED
  BY <1>3 DEF RenewalScheduled, NeedsCert

\* One step: a Route whose certificate is good keeps its wake-up, because only a
\* sync takes the key from the queue and HealthySync arms the timer.
LEMMA RenewalStep == IndInv /\ RenewalScheduled /\ [Next]_vars => RenewalScheduled'
<1> SUFFICES ASSUME IndInv, RenewalScheduled, [Next]_vars PROVE RenewalScheduled'
  OBVIOUS
<1>1. CASE UNCHANGED vars
  BY <1>1 DEF vars, RenewalScheduled, NeedsCert, GoodCert
<1>2. CASE SkipSync
  BY <1>2 DEF SkipSync, RenewalScheduled
<1>3. CASE HealthySync
  BY <1>3 DEF HealthySync, ScheduleRenewal, RenewalScheduled
<1>4. CASE OrderSync
  BY <1>4 DEF OrderSync, RenewalScheduled, NeedsCert, GoodCert, caVars, envVars
<1>5. CASE Deliver
  BY <1>5 DEF Deliver, RenewalScheduled, IsManaged
<1>6. CASE Crash
  BY <1>6 DEF Crash, RenewalScheduled
<1>7. CASE Next /\ UNCHANGED cache /\ (dirty \/ timer => dirty' \/ timer')
  BY <1>7, NextAges, RenewalKept
<1>8. ASSUME Next, ~ (SkipSync \/ HealthySync \/ OrderSync \/ Deliver \/ Crash)
      PROVE  UNCHANGED cache /\ (dirty \/ timer => dirty' \/ timer')
  <2>1. UNCHANGED cache
    BY <1>8 DEF Next, OtherStep, SyncStep, SyncStart, SyncCall, UserStep, CAStepFor, Authorize,
         GetOrder, GetAuthz, Expose, Accept, Finalize, GetFresh, Update, Cleanup, Patch,
         Resync, TimerFires, RouterAdmits, RouterRejects, ChangeHost,
         ToggleManaged, DeleteRoute, RecreateRoute, OtherWrite, CertAges, CAValidate,
         CAAdvance, CAIssue, CAExpire, CAForget, CAStep, ExposerUp, CollectGarbage
  <2> DEFINE Kept == dirty' = dirty /\ (timer' = timer \/ timer' = TRUE)
  <2>2. Authorize => Kept
    BY Zenon DEF Authorize, ReturnErr, Continue, queueVars
  <2>3. GetOrder => Kept
    BY Zenon DEF GetOrder, ReturnErr, Continue, RequeueAndPatch, queueVars
  <2>4. GetAuthz => Kept
    BY Zenon DEF GetAuthz, ReturnErr, Continue, RequeueAndPatch, queueVars
  <2>5. Expose => Kept
    BY Zenon DEF Expose, ReturnErr, ReturnNil, Continue, RequeueAndPatch, queueVars
  <2>6. Accept => Kept
    BY Zenon DEF Accept, ReturnErr, RequeueAndPatch
  <2>7. Finalize => Kept
    BY Zenon DEF Finalize, ReturnErr, Continue, queueVars
  <2>8. GetFresh => Kept
    BY Zenon DEF GetFresh, ReturnErr, queueVars
  <2>9. Update => Kept
    BY Zenon DEF Update, ReturnErr, Continue, queueVars
  <2>10. Cleanup => Kept
    BY Zenon DEF Cleanup, ReturnNil, Continue, queueVars
  <2>11. Patch => Kept
    BY Zenon DEF Patch, ReturnErr, ReturnNil, queueVars
  <2>12. CertAges \/ ExposerUp \/ CollectGarbage => Kept
    BY DEF CertAges, ExposerUp, CollectGarbage, queueVars
  <2>13. RouterAdmits \/ UserStep => Kept
    BY DEF UserStep, RouterAdmits, RouterRejects, ChangeHost, ToggleManaged, DeleteRoute,
           RecreateRoute, OtherWrite, queueVars
  <2>14. \A o \in Orders : CAStepFor(o) \/ CAForget(o) => Kept
    BY DEF CAStepFor, CAValidate, CAAdvance, CAIssue, CAExpire, CAForget, CAStep, queueVars
  <2>15. Resync \/ TimerFires => dirty' = TRUE
    BY DEF Resync, TimerFires
  <2>16. Kept \/ dirty' = TRUE
    BY <1>8, <2>2, <2>3, <2>4, <2>5, <2>6, <2>7, <2>8,
       <2>9, <2>10, <2>11, <2>12, <2>13, <2>14, <2>15
       DEF Next, OtherStep, SyncStep, SyncStart, SyncCall
  <2> QED
    BY <2>1, <2>16
<1> QED
  BY <1>1, <1>2, <1>3, <1>4, <1>5, <1>6, <1>7, <1>8

\* Whatever happened before, a Route the informer shows with a good certificate
\* and no order in flight is queued or has a delayed add pending.
THEOREM RenewalScheduledHolds == Spec => []RenewalScheduled
<1>1. Init => RenewalScheduled
  BY DEF Init, RenewalScheduled
<1> QED
  BY <1>1, RenewalStep, Invariance, PTL DEF Spec

-----------------------------------------------------------------------------
(* An order in flight is never left without a wake-up. *)

\* The newest version on its way to the informer is the stored one; with nothing
\* on its way, the indexer holds it.
CacheTrails == IF watch = <<>> THEN cache = route ELSE watch[Len(watch)] = route

\* A step touches the Route only through Write, and the indexer only through the
\* informer.
LEMMA ApiSteps ==
    ASSUME Next, ~ Deliver, ~ Crash
    PROVE  UNCHANGED cache /\ (UNCHANGED apiVars \/ \E r : Write(r))
<1>1. UNCHANGED cache
  BY DEF Next, OtherStep, SyncStep, SyncStart, SyncCall, UserStep, CAStepFor,
         SkipSync, HealthySync, OrderSync, Authorize,
         GetOrder, GetAuthz, Expose, Accept, Finalize, GetFresh, Update, Cleanup, Patch,
         Resync, TimerFires, RouterAdmits, RouterRejects, ChangeHost,
         ToggleManaged, DeleteRoute, RecreateRoute, OtherWrite, CertAges, CAValidate,
         CAAdvance, CAIssue, CAExpire, CAForget, CAStep, ExposerUp, CollectGarbage
<1>2. CASE Update \/ Patch
  BY <1>1, <1>2, Zenon DEF Update, Patch
<1>3. CASE RouterAdmits \/ UserStep
  BY <1>1, <1>3, Zenon DEF UserStep, RouterAdmits, RouterRejects, ChangeHost,
         ToggleManaged, DeleteRoute, RecreateRoute, OtherWrite
<1>4. CASE ~ (Update \/ Patch \/ RouterAdmits \/ UserStep)
  <2>1. UNCHANGED apiVars
    BY <1>4 DEF Next, OtherStep, SyncStep, SyncStart, SyncCall, CAStepFor,
         SkipSync, HealthySync, OrderSync, Authorize,
         GetOrder, GetAuthz, Expose, Accept, Finalize, GetFresh, Cleanup,
         Resync, TimerFires, CertAges, CAValidate,
         CAAdvance, CAIssue, CAExpire, CAForget, CAStep, ExposerUp, CollectGarbage
  <2> QED
    BY <1>1, <2>1
<1> QED
  BY <1>2, <1>3, <1>4

\* The informer delivers every version in order.
LEMMA TrailsStep == IndInv /\ CacheTrails /\ [Next]_vars => CacheTrails'
<1> SUFFICES ASSUME IndInv, CacheTrails, [Next]_vars PROVE CacheTrails'
  OBVIOUS
<1>1. CASE UNCHANGED <<apiVars, cache>>
  BY <1>1 DEF CacheTrails, apiVars
<1>2. CASE UNCHANGED vars
  BY <1>1, <1>2 DEF vars, apiVars
<1>3. CASE Next /\ Crash
  BY <1>3 DEF Crash, CacheTrails
<1>4. CASE Next /\ Deliver
  <2>1. /\ watch \in Seq(Version) /\ watch # <<>>
        /\ watch' = Tail(watch) /\ cache' = Head(watch) /\ route' = route
    BY <1>4 DEF Deliver, IndInv, TypeOK
  <2>2. watch[Len(watch)] = route
    BY <2>1 DEF CacheTrails
  <2>3. CASE Len(watch) = 1
    BY <2>1, <2>2, <2>3 DEF CacheTrails
  <2>4. CASE Len(watch) # 1
    <3>1. Len(watch') = Len(watch) - 1 /\ Len(watch') >= 1 /\ watch' \in Seq(Version)
      BY <2>1, <2>4
    <3>2. watch'[Len(watch')] = watch[Len(watch)]
      BY <2>1, <2>4, <3>1
    <3>3. watch' # <<>>
      BY <3>1
    <3> QED
      BY <2>1, <2>2, <3>2, <3>3 DEF CacheTrails
  <2> QED
    BY <2>3, <2>4
<1>5. CASE Next /\ ~ Deliver /\ ~ Crash
  <2>1. UNCHANGED cache /\ (UNCHANGED apiVars \/ \E r : Write(r))
    BY <1>5, ApiSteps
  <2>2. ASSUME NEW r, Write(r), r # route PROVE CacheTrails'
    <3>1. watch \in Seq(Version) /\ route' \in Version
      BY NextInv DEF IndInv, TypeOK
    <3>2. route' = r /\ watch' = Append(watch, route')
      BY <2>2 DEF Write
    <3>3. watch' # <<>> /\ watch'[Len(watch')] = route'
      BY <3>1, <3>2
    <3> QED
      BY <3>3 DEF CacheTrails
  <2> QED
    BY <1>1, <2>1, <2>2 DEF Write
<1> QED
  BY <1>2, <1>3, <1>4, <1>5

\* The sync under way works on what the indexer shows, or the key is queued again.
Seen == cache = snap \/ dirty \/ ~ IsManaged(cache)

\* The ACME server has decided on the authorization of order o.
Decided(o) == o \in Orders /\ orders[o].authz \in {"valid", "invalid"}

\* The last sync could not fit the pods for the challenge of the order that the
\* indexer names into the LimitRanges.
Refused == \E e \in exposers : /\ e.order = cache.st.uri /\ e.uid = cache.uid
                               /\ e.refused

\* What a sync carries towards its end, so that it leaves a wake-up behind.
SyncProgress ==
    /\ pc # "idle" => Seen
    /\ pc \in FollowsOrder => st.uri = snap.st.uri
    /\ pc \in HoldsCert => st.os = "valid"
    /\ pc = "cleanupReturn" => ~ OrderInFlight(route.st)
    /\ pc = "cleanupPatch" => ~ OrderInFlight(st)
    /\ pc = "patch" => \/ ~ OrderInFlight(st) \/ dirty \/ timer
                       \/ Decided(st.uri) \/ st.uri # snap.st.uri

\* What is left when no sync runs and the informer is up to date.
Stranded == /\ pc = "idle" /\ watch = <<>> /\ ~ dirty /\ ~ timer
            /\ IsManaged(cache) /\ IsAdmitted(cache) /\ OrderInFlight(cache.st)
IdleProgress == Stranded => Decided(cache.st.uri) \/ Refused

ProgressInv == SyncProgress /\ IdleProgress

\* A sync that returns and leaves a wake-up, or nothing to wake up for.
LEMMA ReturnProgress ==
    ASSUME EndSync, ~ Stranded' \/ Decided(cache.st.uri)' \/ Refused'
    PROVE  ProgressInv'
BY DEF EndSync, ProgressInv, SyncProgress, IdleProgress, FollowsOrder, HoldsCert

\* AddRateLimited is a wake-up.
LEMMA ReturnErrProgress == ReturnErr => ProgressInv'
<1> SUFFICES ASSUME ReturnErr PROVE ProgressInv'
  OBVIOUS
<1>1. EndSync /\ ~ Stranded'
  BY DEF ReturnErr, Stranded
<1> QED
  BY <1>1, ReturnProgress

\* A sync that goes on to its next call.
LEMMA GotoProgress ==
    ASSUME ProgressInv, pc # "idle", NEW next \in PcValues \ {"idle", "cleanupReturn"}, NEW s,
           Goto(next, s), UNCHANGED <<cache, dirty>>,
           next \in FollowsOrder => s.uri = snap.st.uri,
           next \in HoldsCert => s.os = "valid",
           next = "cleanupPatch" => ~ OrderInFlight(s),
           next = "patch" => \/ ~ OrderInFlight(s) \/ dirty \/ timer'
                             \/ Decided(s.uri)' \/ s.uri # snap.st.uri
    PROVE  ProgressInv'
<1>1. pc' = next /\ st' = s /\ snap' = snap
  BY DEF Goto
<1>2. Seen'
  BY <1>1 DEF ProgressInv, SyncProgress, Seen, IsManaged
<1>3. IdleProgress'
  BY <1>1 DEF IdleProgress, Stranded
<1>4. SyncProgress'
  BY <1>1, <1>2 DEF SyncProgress, OrderInFlight
<1> QED
  BY <1>3, <1>4 DEF ProgressInv

\* The start of a sync.
LEMMA SyncStartProgress == IndInv /\ ProgressInv /\ SyncStart => ProgressInv'
<1> USE DEF ProgressInv
<1>1. ASSUME IndInv, ProgressInv, SkipSync PROVE ProgressInv'
  <2>1. UNCHANGED <<cache, pc, snap, st, route>> /\ pc = "idle"
    BY <1>1 DEF SkipSync, StartSync, syncVars, apiVars
  <2>2. SyncProgress'
    BY <2>1 DEF SyncProgress, FollowsOrder, HoldsCert
  <2>3. IdleProgress'
    BY <1>1, <2>1 DEF SkipSync, IdleProgress, Stranded, IsManaged, IsAdmitted
  <2> QED
    BY <2>2, <2>3
<1>2. ASSUME IndInv, ProgressInv, HealthySync PROVE ProgressInv'
  <2>1. UNCHANGED <<cache, route>> /\ pc = "idle" /\ timer' = TRUE
    BY <1>2 DEF HealthySync, StartSync, apiVars, ScheduleRenewal
  <2>2. IdleProgress'
    BY <2>1 DEF IdleProgress, Stranded
  <2>3. CASE UNCHANGED syncVars
    BY <2>1, <2>2, <2>3 DEF SyncProgress, FollowsOrder, HoldsCert, syncVars
  <2>4. CASE pc' = "patch" /\ snap' = cache /\ st' = ClearOrder(cache.st)
    <3>1. Seen'
      BY <2>1, <2>4 DEF Seen
    <3> QED
      BY <2>1, <2>2, <2>4, <3>1 DEF SyncProgress, FollowsOrder, HoldsCert
  <2> QED
    BY <1>2, <2>3, <2>4 DEF HealthySync
<1>3. ASSUME IndInv, ProgressInv, OrderSync PROVE ProgressInv'
  <2> DEFINE s == CleanPreviousOrder(cache.st)
  <2>1. UNCHANGED <<cache, route>> /\ pc = "idle"
    BY <1>3 DEF OrderSync, StartSync, apiVars
  <2>2. CASE timer' = TRUE /\ UNCHANGED syncVars
    BY <2>1, <2>2
       DEF SyncProgress, FollowsOrder, HoldsCert, syncVars, IdleProgress, Stranded
  <2>3. CASE /\ pc' = IF s.uri = 0 THEN "authorize" ELSE "getOrder"
             /\ snap' = cache /\ st' = s
    <3>1. s.uri # 0 => s.uri = cache.st.uri
      BY DEF CleanPreviousOrder, ClearOrder, IndInv, TypeOK, Version, Status
    <3>2. Seen'
      BY <2>1, <2>3 DEF Seen
    <3>3. IdleProgress'
      BY <2>3 DEF IdleProgress, Stranded
    <3> QED
      BY <2>3, <3>1, <3>2, <3>3 DEF SyncProgress, FollowsOrder, HoldsCert
  <2> QED
    BY <1>3, <2>2, <2>3 DEF OrderSync
<1> QED
  BY <1>1, <1>2, <1>3 DEF SyncStart

\* The calls to the ACME server.
LEMMA AcmeProgress ==
    IndInv /\ ProgressInv /\ (Authorize \/ GetOrder \/ GetAuthz \/ Accept \/ Finalize)
        => ProgressInv'
<1> USE BoundsAssumption
<1>1. ASSUME IndInv, ProgressInv, Authorize PROVE ProgressInv'
  <2>1. /\ pc = "authorize" /\ UNCHANGED cache /\ st \in Status
        /\ snap.st.uri \in 0 .. MaxOrders /\ snap.st.uri <= nOrders /\ nOrders \in 0 .. MaxOrders
    BY <1>1 DEF Authorize, IndInv, TypeOK, Version, Status, VersionsOK, VersionOK, StatusOK
  <2>2. CASE ReturnErr
    BY <2>2, ReturnErrProgress
  <2>3. ASSUME NEW state \in {"pending", "ready"},
               Continue("patch", [st EXCEPT !.uri = nOrders + 1, !.os = state])
        PROVE  ProgressInv'
    <3> DEFINE s == [st EXCEPT !.uri = nOrders + 1, !.os = state]
    <3>1. s.uri # snap.st.uri
      BY <2>1 DEF Status
    <3>2. Goto("patch", s) /\ UNCHANGED dirty
      BY <2>3 DEF Continue, queueVars
    <3> HIDE DEF s
    <3> QED
      BY <1>1, <2>1, <3>1, <3>2, GotoProgress DEF PcValues, FollowsOrder, HoldsCert
  <2> QED
    BY <1>1, <2>2, <2>3 DEF Authorize
<1>2. ASSUME IndInv, ProgressInv, GetOrder PROVE ProgressInv'
  <2> DEFINE state == orders[st.uri].state
  <2>1. /\ pc = "getOrder" /\ UNCHANGED cache /\ st \in Status
        /\ st.uri = snap.st.uri /\ st.uri # 0
    BY <1>2 DEF GetOrder, IndInv, TypeOK, SyncOK, ProgressInv, SyncProgress, FollowsOrder
  <2>2. CASE ReturnErr
    BY <2>2, ReturnErrProgress
  <2>3. CASE Continue("patch", [st EXCEPT !.uri = 0])
    <3> DEFINE s == [st EXCEPT !.uri = 0]
    <3>1. s.uri # snap.st.uri
      BY <2>1 DEF Status
    <3>2. Goto("patch", s) /\ UNCHANGED dirty
      BY <2>3 DEF Continue, queueVars
    <3> HIDE DEF s
    <3> QED
      BY <1>2, <2>1, <3>1, <3>2, GotoProgress DEF PcValues, FollowsOrder, HoldsCert
  <2>4. ASSUME NEW next \in {"getAuthz", "finalize"}, Continue(next, Observe(st, state))
        PROVE  ProgressInv'
    <3>1. Observe(st, state).uri = snap.st.uri
      BY <2>1 DEF Observe, Status
    <3>2. Goto(next, Observe(st, state)) /\ UNCHANGED dirty
      BY <2>4 DEF Continue, queueVars
    <3> QED
      BY <1>2, <2>1, <3>1, <3>2, GotoProgress DEF PcValues, FollowsOrder, HoldsCert
  <2>5. CASE RequeueAndPatch(Observe(st, state))
    <3>1. Goto("patch", Observe(st, state)) /\ timer' = TRUE /\ UNCHANGED dirty
      BY <2>5 DEF RequeueAndPatch
    <3> QED
      BY <1>2, <2>1, <3>1, GotoProgress DEF PcValues, FollowsOrder, HoldsCert
  <2>6. ASSUME NEW s \in Status, s.os \in {"none", "invalid", "expired"},
               Continue("cleanupPatch", s)
        PROVE  ProgressInv'
    <3>1. ~ OrderInFlight(s)
      BY <2>6 DEF OrderInFlight, LiveStates
    <3>2. Goto("cleanupPatch", s) /\ UNCHANGED dirty
      BY <2>6 DEF Continue, queueVars
    <3> QED
      BY <1>2, <2>1, <3>1, <3>2, GotoProgress DEF PcValues, FollowsOrder, HoldsCert
  <2>7. ASSUME state \in {"valid", "invalid", "expired"}
        PROVE  /\ ChargeFailure(st, state) \in Status /\ ChargeFailure(st, state).os = state
               /\ ClearOrder(ChargeFailure(st, state)) \in Status
               /\ ClearOrder(ChargeFailure(st, state)).os = "none"
    <3>1. st.failures + 1 \in Nat
      BY <2>1 DEF Status
    <3>2. ChargeFailure(st, state) \in Status /\ ChargeFailure(st, state).os = state
      BY <2>1, <2>7, <3>1 DEF ChargeFailure, Status
    <3>3. ASSUME NEW s \in Status PROVE ClearOrder(s) \in Status /\ ClearOrder(s).os = "none"
      <4>1. s = [uri |-> s.uri, os |-> s.os, failures |-> s.failures]
        BY DEF Status
      <4>2. 0 \in 0 .. MaxOrders
        OBVIOUS
      <4> QED
        BY <4>1, <4>2 DEF ClearOrder, Status
    <3> QED
      BY <3>2, <3>3
  <2> QED
    BY <1>2, <2>2, <2>3, <2>4, <2>5, <2>6, <2>7 DEF GetOrder
<1>3. ASSUME IndInv, ProgressInv, GetAuthz PROVE ProgressInv'
  <2>1. /\ pc = "getAuthz" /\ UNCHANGED <<cache, orders>> /\ st \in Status
        /\ st.uri = snap.st.uri /\ st.uri \in Orders
    BY <1>3 DEF GetAuthz, IndInv, TypeOK, SyncOK, ProgressInv, SyncProgress, FollowsOrder,
                Status, Orders, caVars
  <2>2. CASE ReturnErr
    BY <2>2, ReturnErrProgress
  <2>3. CASE Continue("expose", st)
    BY <1>3, <2>1, <2>3, GotoProgress
       DEF PcValues, FollowsOrder, HoldsCert, Continue, queueVars
  <2>4. CASE RequeueAndPatch(st)
    <3>1. Goto("patch", st) /\ timer' = TRUE /\ UNCHANGED dirty
      BY <2>4 DEF RequeueAndPatch
    <3> QED
      BY <1>3, <2>1, <3>1, GotoProgress DEF PcValues, FollowsOrder, HoldsCert
  <2>5. CASE orders[st.uri].authz \in {"valid", "invalid"} /\ Continue("patch", st)
    <3>1. Decided(st.uri) /\ UNCHANGED <<dirty, st>>
      BY <2>1, <2>5 DEF Decided, Continue, queueVars, Goto
    <3>2. Decided(st.uri)'
      BY <2>1, <3>1 DEF Decided
    <3> QED
      BY <1>3, <2>1, <2>5, <3>1, <3>2, GotoProgress
         DEF PcValues, FollowsOrder, HoldsCert, Continue
  <2> QED
    BY <1>3, <2>2, <2>3, <2>4, <2>5 DEF GetAuthz
<1>4. ASSUME IndInv, ProgressInv, Accept PROVE ProgressInv'
  <2>1. CASE ReturnErr
    BY <2>1, ReturnErrProgress
  <2>2. CASE RequeueAndPatch(st)
    <3>1. Goto("patch", st) /\ timer' = TRUE /\ UNCHANGED <<cache, dirty>> /\ pc = "accept"
      BY <1>4, <2>2 DEF RequeueAndPatch, Accept
    <3> QED
      BY <1>4, <3>1, GotoProgress DEF PcValues, FollowsOrder, HoldsCert
  <2> QED
    BY <1>4, <2>1, <2>2 DEF Accept
<1>5. ASSUME IndInv, ProgressInv, Finalize PROVE ProgressInv'
  <2>1. CASE ReturnErr
    BY <2>1, ReturnErrProgress
  <2>2. CASE Continue("getFresh", [st EXCEPT !.os = "valid", !.failures = 0])
    <3> DEFINE s == [st EXCEPT !.os = "valid", !.failures = 0]
    <3>1. Goto("getFresh", s) /\ UNCHANGED <<cache, dirty>> /\ pc = "finalize"
      BY <1>5, <2>2 DEF Continue, Finalize, queueVars
    <3>2. s.os = "valid"
      BY <1>5 DEF IndInv, TypeOK, Status
    <3> HIDE DEF s
    <3> QED
      BY <1>5, <3>1, <3>2, GotoProgress DEF PcValues, FollowsOrder, HoldsCert
  <2> QED
    BY <1>5, <2>1, <2>2 DEF Finalize
<1> QED
  BY <1>1, <1>2, <1>3, <1>4, <1>5

\* The exposer objects: a sync that pods are refused to leaves its mark on them,
\* whether it found them complete or not.
LEMMA ExposeProgress == IndInv /\ ProgressInv /\ Expose => ProgressInv'
<1> SUFFICES ASSUME IndInv, ProgressInv, Expose PROVE ProgressInv'
  OBVIOUS
<1>1. /\ pc = "expose" /\ UNCHANGED <<cache, orders>>
      /\ st.uri = snap.st.uri /\ Seen
  BY DEF Expose, ProgressInv, SyncProgress, FollowsOrder, caVars
<1>2. CASE ReturnErr
  BY <1>2, ReturnErrProgress
<1>3. CASE RequeueAndPatch(st)
  <2>1. Goto("patch", st) /\ timer' = TRUE /\ UNCHANGED dirty
    BY <1>3 DEF RequeueAndPatch
  <2> QED
    BY <1>1, <2>1, GotoProgress DEF PcValues, FollowsOrder, HoldsCert
<1>4. CASE Continue("accept", st)
  BY <1>1, <1>4, GotoProgress DEF PcValues, FollowsOrder, HoldsCert, Continue, queueVars
<1>5. ASSUME NEW stage, PutExposer(stage, TRUE), ReturnNil PROVE ProgressInv'
  <2>1. EndSync /\ UNCHANGED <<dirty, timer>>
    BY <1>5 DEF ReturnNil, queueVars
  <2> DEFINE e == [order |-> st.uri, host |-> snap.host, uid |-> snap.uid,
                   stage |-> stage, refused |-> TRUE]
  <2>2. e \in exposers' /\ e.order = st.uri /\ e.uid = snap.uid /\ e.refused
    BY <1>5 DEF PutExposer
  <2> HIDE DEF e
  <2>3. Stranded' => cache = snap
    BY <1>1, <2>1 DEF Seen, Stranded, IsManaged
  <2>4. Stranded' => Refused'
    BY <1>1, <2>2, <2>3 DEF Refused
  <2> QED
    BY <2>1, <2>4, ReturnProgress
<1> QED
  BY <1>2, <1>3, <1>4, <1>5 DEF Expose

\* The writes at the end of a sync.  When the status patch changes the annotation,
\* the informer will tell; when it changes nothing, the sync followed the order
\* the indexer names and left a wake-up for it.
LEMMA WriteProgress ==
    ASSUME IndInv, CacheTrails, ProgressInv, GetFresh \/ Update \/ Cleanup \/ Patch
    PROVE  ProgressInv'
<1>1. CASE ReturnErr
  BY <1>1, ReturnErrProgress
<1>2. CASE GetFresh /\ ~ ReturnErr
  <2>1. /\ pc = "getFresh" /\ pc' = "update"
        /\ UNCHANGED <<cache, snap, st, dirty>>
    BY <1>2 DEF GetFresh, queueVars
  <2>2. Seen' /\ st'.os = "valid"
    BY <2>1 DEF ProgressInv, SyncProgress, Seen, HoldsCert, IsManaged
  <2> QED
    BY <2>1, <2>2
       DEF ProgressInv, SyncProgress, IdleProgress, Stranded, FollowsOrder, HoldsCert
<1>3. CASE Update /\ ~ ReturnErr
  <2>1. pc = "update" /\ UNCHANGED cache /\ st.os = "valid" /\ Seen
    BY <1>3 DEF Update, ProgressInv, SyncProgress, HoldsCert
  <2>2. CASE Continue("getFresh", st)
    BY <2>1, <2>2, GotoProgress DEF PcValues, FollowsOrder, HoldsCert, Continue, queueVars
  <2>3. CASE /\ Write([fresh EXCEPT !.cert = st.uri, !.st = st])
             /\ Continue("cleanupReturn", st)
    <3>1. pc' = "cleanupReturn" /\ UNCHANGED <<st, snap, dirty>>
      BY <2>3 DEF Continue, Goto, queueVars
    <3>2. route' = [fresh EXCEPT !.cert = st.uri, !.st = st]
      BY <2>3 DEF Write, apiVars
    <3>3. route'.st = st
      BY <3>2 DEF IndInv, TypeOK, Version
    <3>4. Seen'
      BY <2>1, <3>1 DEF Seen, IsManaged
    <3> QED
      BY <2>1, <3>1, <3>3, <3>4
         DEF ProgressInv, SyncProgress, IdleProgress, Stranded, FollowsOrder, HoldsCert,
             OrderInFlight, LiveStates
  <2> QED
    BY <1>3, <2>2, <2>3 DEF Update
<1>4. CASE Cleanup
  <2>1. UNCHANGED <<cache, apiVars, orders>>
    BY <1>4 DEF Cleanup, caVars
  <2>2. CASE pc = "cleanupPatch" /\ Continue("patch", st)
    <3>1. ~ OrderInFlight(st)
      BY <2>2 DEF ProgressInv, SyncProgress
    <3> QED
      BY <2>1, <2>2, <3>1, GotoProgress
         DEF PcValues, FollowsOrder, HoldsCert, Continue, queueVars
  <2>3. CASE pc = "cleanupReturn" /\ ReturnNil
    <3>1. ~ OrderInFlight(route.st)
      BY <2>3 DEF ProgressInv, SyncProgress
    <3>2. ~ Stranded'
      BY <2>1, <3>1 DEF CacheTrails, Stranded, apiVars
    <3> QED
      BY <2>3, <3>2, ReturnProgress DEF ReturnNil
  <2> QED
    BY <1>4, <2>2, <2>3 DEF Cleanup
<1>5. CASE Patch /\ ~ ReturnErr
  <2> DEFINE r == [route EXCEPT !.st = st]
  <2>1. /\ pc = "patch" /\ UNCHANGED <<cache, orders>> /\ Write(r)
        /\ EndSync /\ UNCHANGED <<dirty, timer>>
    BY <1>5 DEF Patch, caVars, ReturnNil, queueVars
  <2>2. r.st = st
    BY DEF IndInv, TypeOK, Version
  <2> HIDE DEF r
  <2>3. ASSUME Stranded' PROVE Decided(cache.st.uri)'
    <3>1. r = route /\ watch = <<>>
      <4>1. watch \in Seq(Version) /\ route' \in Version
        BY <1>5, NextInv DEF Next, SyncStep, SyncCall, IndInv, TypeOK
      <4>2. watch' = <<>>
        BY <2>3 DEF Stranded
      <4>3. r # route => watch' = Append(watch, route')
        BY <2>1 DEF Write
      <4>4. Append(watch, route') # <<>>
        BY <4>1, AppendProperties
      <4>5. r = route
        BY <4>2, <4>3, <4>4
      <4> QED
        BY <2>1, <4>2, <4>5 DEF Write, apiVars
    <3>2. cache = route /\ cache.st = st
      BY <2>2, <3>1 DEF CacheTrails
    <3>3. ~ dirty /\ ~ timer /\ IsManaged(cache) /\ OrderInFlight(cache.st)
      BY <2>1, <2>3 DEF Stranded, IsManaged
    <3>4. cache = snap
      BY <2>1, <3>3 DEF ProgressInv, SyncProgress, Seen
    <3>5. Decided(st.uri)
      BY <2>1, <3>2, <3>3, <3>4 DEF ProgressInv, SyncProgress
    <3> QED
      BY <2>1, <3>2, <3>5 DEF Decided
  <2> QED
    BY <2>1, <2>3, ReturnProgress
<1> QED
  BY <1>1, <1>2, <1>3, <1>4, <1>5

\* A step of others that leaves the sync and its queue alone.
LEMMA OtherProgress ==
    ASSUME IndInv, ProgressInv, UNCHANGED <<cache, queueVars, syncVars>>,
           OrderInFlight(route'.st) => OrderInFlight(route.st),
           Stranded' => watch = <<>>,
           \A o \in Orders : Decided(o) => Decided(o)',
           Stranded /\ Refused => Refused'
    PROVE  ProgressInv'
<1>1. UNCHANGED <<cache, dirty, timer, pc, snap, st>>
  BY DEF queueVars, syncVars
<1>2. Decided(st.uri) => Decided(st.uri)'
  BY <1>1 DEF Decided
<1>3. Seen => Seen'
  BY <1>1 DEF Seen, IsManaged
<1>4. SyncProgress'
  BY <1>1, <1>2, <1>3 DEF ProgressInv, SyncProgress, OrderInFlight
<1>5. Stranded' => Stranded
  BY <1>1 DEF Stranded, IsManaged, IsAdmitted, OrderInFlight
<1>6. Decided(cache.st.uri) => Decided(cache.st.uri)'
  BY <1>1 DEF Decided
<1>7. IdleProgress'
  BY <1>5, <1>6 DEF ProgressInv, IdleProgress
<1> QED
  BY <1>4, <1>7 DEF ProgressInv

\* Users and the router write the Route, but no status with an order in flight.
LEMMA UserProgress ==
    ASSUME IndInv, ProgressInv, RouterAdmits \/ UserStep
    PROVE  ProgressInv'
<1>1. UNCHANGED <<cache, queueVars, syncVars, orders, exposers>>
  BY DEF UserStep, RouterAdmits, RouterRejects, ChangeHost, ToggleManaged, DeleteRoute,
         RecreateRoute, OtherWrite, caVars
<1>2. PICK r : Write(r) /\ (r.st = route.st \/ r.st = NoStatus)
  <2>1. CASE RouterAdmits
    BY <2>1 DEF RouterAdmits, OtherWrite, IndInv, TypeOK, Version
  <2>2. CASE RouterRejects
    BY <2>2 DEF RouterRejects, OtherWrite, IndInv, TypeOK, Version
  <2>3. CASE ChangeHost
    BY <2>3 DEF ChangeHost, OtherWrite, IndInv, TypeOK, Version
  <2>4. CASE ToggleManaged
    BY <2>4 DEF ToggleManaged, OtherWrite, IndInv, TypeOK, Version
  <2>5. CASE DeleteRoute
    BY <2>5 DEF DeleteRoute, OtherWrite, NoRoute
  <2>6. CASE RecreateRoute
    <3>1. PICK h \in Hosts : Write(NewRoute(route.uid + 1, h))
      BY <2>6 DEF RecreateRoute, OtherWrite
    <3>2. NewRoute(route.uid + 1, h).st = NoStatus
      BY DEF NewRoute, NoRoute
    <3> QED
      BY <3>1, <3>2
  <2> QED
    BY <2>1, <2>2, <2>3, <2>4, <2>5, <2>6 DEF UserStep
<1>3. OrderInFlight(route'.st) => OrderInFlight(route.st)
  BY <1>2 DEF Write, apiVars, OrderInFlight, NoStatus, LiveStates
<1>4. Stranded' => watch = <<>>
  <2>1. watch \in Seq(Version) /\ route' \in Version
    BY NextInv DEF Next, OtherStep, IndInv, TypeOK
  <2>2. Append(watch, route') # <<>>
    BY <2>1, AppendProperties
  <2> QED
    BY <1>2, <2>2 DEF Stranded, Write, apiVars
<1>5. Refused => Refused'
  BY <1>1 DEF Refused
<1>6. \A o \in Orders : Decided(o) => Decided(o)'
  BY <1>1 DEF Decided
<1> QED
  BY <1>1, <1>3, <1>4, <1>5, <1>6, OtherProgress

\* What the ACME server has decided stays decided.
LEMMA CAProgress ==
    ASSUME IndInv, ProgressInv, NEW o \in Orders, CAStepFor(o) \/ CAForget(o)
    PROVE  ProgressInv'
<1>1. UNCHANGED <<route, watch, cache, queueVars, syncVars, exposers>>
  BY DEF CAStepFor, CAValidate, CAAdvance, CAIssue, CAExpire, CAForget, CAStep, apiVars
<1>2. \E new : /\ orders' = [orders EXCEPT ![o] = new]
               /\ orders[o].authz \in {"valid", "invalid"} => new.authz = orders[o].authz
  <2>1. orders[o] \in Order
    BY DEF IndInv, TypeOK
  <2> QED
    BY <2>1 DEF CAStepFor, CAValidate, CAAdvance, CAIssue, CAExpire, CAForget, CAStep, Order
<1>3. \A p \in Orders : Decided(p) => Decided(p)'
  BY <1>2 DEF Decided, IndInv, TypeOK
<1>4. Refused => Refused'
  BY <1>1 DEF Refused
<1>5. Stranded' => watch = <<>>
  BY <1>1 DEF Stranded
<1> QED
  BY <1>1, <1>3, <1>4, <1>5, OtherProgress

\* Garbage collection spares the objects of the Route that the indexer shows.
LEMMA ClusterProgress ==
    ASSUME IndInv, CacheTrails, ProgressInv, CertAges \/ ExposerUp \/ CollectGarbage
    PROVE  ProgressInv'
<1>1. UNCHANGED <<route, watch, cache, queueVars, syncVars, orders>>
  BY DEF CertAges, ExposerUp, CollectGarbage, apiVars, caVars
<1>2. \A p \in Orders : Decided(p) => Decided(p)'
  BY <1>1 DEF Decided
<1>3. Stranded' => watch = <<>>
  BY <1>1 DEF Stranded
<1>4. Stranded /\ Refused => Refused'
  <2>1. CASE CertAges
    BY <2>1 DEF CertAges, Refused
  <2>2. CASE ExposerUp
    <3> SUFFICES ASSUME Refused PROVE Refused'
      OBVIOUS
    <3>1. PICK r \in exposers : r.order = cache.st.uri /\ r.uid = cache.uid /\ r.refused
      BY DEF Refused
    <3>2. PICK e \in exposers : exposers' = (exposers \ {e}) \cup {[e EXCEPT !.stage = "up"]}
      BY <2>2 DEF ExposerUp
    <3>3. CASE r = e
      <4> DEFINE u == [e EXCEPT !.stage = "up"]
      <4>1. u \in exposers' /\ u.order = r.order /\ u.uid = r.uid /\ u.refused = r.refused
        BY <3>2, <3>3 DEF IndInv, TypeOK, Exposer
      <4> QED
        BY <1>1, <3>1, <4>1 DEF Refused
    <3>4. CASE r # e
      BY <1>1, <3>1, <3>2, <3>4 DEF Refused
    <3> QED
      BY <3>3, <3>4
  <2>3. CASE CollectGarbage
    BY <1>1, <2>3 DEF CollectGarbage, Refused, Stranded, CacheTrails, IsManaged
  <2> QED
    BY <2>1, <2>2, <2>3
<1> QED
  BY <1>1, <1>2, <1>3, <1>4, OtherProgress

\* The informer and the queue only add wake-ups, and a restart queues the key.
LEMMA InformerProgress ==
    ASSUME IndInv, ProgressInv, Deliver \/ Resync \/ TimerFires \/ Crash
    PROVE  ProgressInv'
<1>1. CASE Resync \/ TimerFires
  <2>1. dirty' = TRUE /\ UNCHANGED <<route, cache, pc, snap, st>>
    BY <1>1 DEF Resync, TimerFires, apiVars, syncVars
  <2> QED
    BY <2>1 DEF ProgressInv, SyncProgress, Seen, IdleProgress, Stranded, OrderInFlight
<1>2. CASE Crash
  <2>1. EndSync /\ cache' = route /\ dirty' = IsManaged(route)
    BY <1>2 DEF Crash
  <2>2. ~ Stranded'
    BY <2>1 DEF Stranded, IsManaged
  <2> QED
    BY <2>1, <2>2, ReturnProgress
<1>3. CASE Deliver
  <2> DEFINE v == Head(watch)
  <2>1. /\ UNCHANGED <<route, pc, snap, st, timer, orders>> /\ cache' = v
        /\ dirty' = (dirty \/ IsManaged(IF v.exists THEN v ELSE cache))
    BY <1>3 DEF Deliver, syncVars, caVars
  <2> HIDE DEF v
  <2>2. IsManaged(cache)' => dirty'
    BY <2>1 DEF IsManaged
  <2>3. dirty => dirty'
    BY <2>1
  <2>4. SyncProgress'
    BY <2>1, <2>2, <2>3 DEF ProgressInv, SyncProgress, Seen, OrderInFlight, Decided
  <2>5. IdleProgress'
    BY <2>2 DEF IdleProgress, Stranded
  <2> QED
    BY <2>4, <2>5 DEF ProgressInv
<1> QED
  BY <1>1, <1>2, <1>3

\* Every step keeps the wake-ups.
LEMMA ProgressStep ==
    IndInv /\ CacheTrails /\ ProgressInv /\ [Next]_vars => ProgressInv'
<1> SUFFICES ASSUME IndInv, CacheTrails, ProgressInv, [Next]_vars PROVE ProgressInv'
  OBVIOUS
<1>1. CASE UNCHANGED vars
  BY <1>1 DEF vars, ProgressInv, SyncProgress, Seen, IdleProgress, Stranded, Decided,
              Refused, OrderInFlight, IsManaged, IsAdmitted
<1>2. CASE SyncStep
  BY <1>2, SyncStartProgress, AcmeProgress, ExposeProgress, WriteProgress
     DEF SyncStep, SyncCall
<1>3. CASE OtherStep
  BY <1>3, InformerProgress, UserProgress, CAProgress, ClusterProgress DEF OtherStep
<1> QED
  BY <1>1, <1>2, <1>3 DEF Next

\* The informer never loses the stored version of the Route.
THEOREM CacheTrailsHolds == Spec => []CacheTrails
<1>1. Init => CacheTrails
  BY DEF Init, CacheTrails
<1> QED
  BY <1>1, TrailsStep, Invariance, PTL DEF Spec

\* While an order is in flight and the informer is up to date, the key is queued,
\* delayed or being synced; the two gaps that only a resync closes are named.
THEOREM ProgressScheduledHolds == Spec => []ProgressScheduled
<1>1. Init => ProgressInv
  BY DEF Init, ProgressInv, SyncProgress, IdleProgress, Stranded, FollowsOrder, HoldsCert
<1>2. ProgressInv => ProgressScheduled
  BY DEF ProgressInv, IdleProgress, Stranded, Decided, Refused, ProgressScheduled
<1> QED
  BY <1>1, <1>2, ProgressStep, Invariance, CacheTrailsHolds, PTL DEF Spec

-----------------------------------------------------------------------------
(* Without faults and stale caches, no live order is lost. *)

\* The annotation that named the first order went with its Route.
Gone == ~ route.exists \/ route.uid # 1

\* A sync gives up the order it found in the annotation only when that one ended.
Dropped == st.uri # snap.st.uri
              => snap.st.uri = 0 \/ orders[snap.st.uri].state \in TerminalStates

\* A live order is in the annotation or in the hands of the running sync.
LiveHeld == \A o \in 1 .. nOrders :
               orders[o].state \in LiveStates
                  => Gone \/ route.st.uri = o \/ (pc # "idle" /\ st.uri = o)

\* Until it writes the certificate, a sync knows the annotation as it is stored.
OrderInv ==
    /\ route.uid >= 1
    /\ pc # "idle" => Dropped
    /\ pc \notin {"idle", "cleanupReturn"} /\ ~ Gone => route.st = snap.st
    /\ pc = "authorize" => st.uri = 0
    /\ LiveHeld

\* Orders only move towards their end.
OrdersEnd == /\ UNCHANGED nOrders
             /\ \A o \in 1 .. nOrders :
                   /\ orders'[o].state \in LiveStates => orders[o].state \in LiveStates
                   /\ orders[o].state \in TerminalStates => orders'[o].state \in TerminalStates

\* The orders that sync and the API server name have been opened.
LEMMA NamedOrders ==
    ASSUME IndInv
    PROVE  /\ nOrders \in Nat
           /\ snap.st.uri # 0 => snap.st.uri \in 1 .. nOrders
           /\ st.uri # 0 => st.uri \in 1 .. nOrders
           /\ route.uid \in Nat
<1>1. nOrders \in Nat /\ route.uid \in Nat
  BY BoundsAssumption DEF IndInv, TypeOK, Version
<1>2. snap.st \in Status /\ StatusOK(snap.st, orders, nOrders)
  BY DEF IndInv, TypeOK, Version, VersionsOK, VersionOK
<1>3. st \in Status /\ StatusOK(st, orders, nOrders)
  BY DEF IndInv, TypeOK, SyncOK
<1>4. ASSUME NEW s \in Status, s.uri <= nOrders, s.uri # 0 PROVE s.uri \in 1 .. nOrders
  <2>1. s.uri \in 0 .. MaxOrders
    BY DEF Status
  <2> QED
    BY <1>1, <1>4, <2>1, BoundsAssumption
<1> QED
  BY <1>1, <1>2, <1>3, <1>4 DEF StatusOK

\* An order is not both live and ended.
LEMMA LiveOrEnded == \A s : ~ (s \in LiveStates /\ s \in TerminalStates)
BY DEF LiveStates, TerminalStates

\* A sync that goes on to its next call.
LEMMA GotoOrder ==
    ASSUME IndInv, OrderInv, pc \notin {"idle", "cleanupReturn"},
           NEW next, next \notin {"idle", "authorize"}, NEW s, Goto(next, s),
           UNCHANGED route, OrdersEnd,
           s.uri # st.uri => st.uri = 0 \/ orders'[st.uri].state \in TerminalStates
    PROVE  OrderInv'
<1>1. pc' = next /\ st' = s /\ snap' = snap /\ Gone' = Gone
  BY DEF Goto, Gone
<1>2. Dropped'
  BY <1>1, NamedOrders DEF OrderInv, Dropped, OrdersEnd
<1>3. LiveHeld'
  <2> SUFFICES ASSUME NEW o \in 1 .. nOrders, orders'[o].state \in LiveStates
               PROVE  Gone \/ route.st.uri = o \/ s.uri = o
    BY <1>1 DEF LiveHeld, OrdersEnd
  <2>1. Gone \/ route.st.uri = o \/ st.uri = o
    BY DEF OrderInv, LiveHeld, OrdersEnd
  <2>2. st.uri = o => s.uri = o
    BY NamedOrders, LiveOrEnded
  <2> QED
    BY <2>1, <2>2
<1> QED
  BY <1>1, <1>2, <1>3 DEF OrderInv

\* A sync that returns: what it held is stored, or gone, or has ended.
LEMMA ReturnOrder ==
    ASSUME IndInv, OrderInv, EndSync, UNCHANGED <<route, nOrders, orders>>,
           \/ Gone \/ st.uri = 0 \/ st.uri = route.st.uri
           \/ orders[st.uri].state \in TerminalStates
    PROVE  OrderInv'
<1>1. pc' = "idle" /\ Gone' = Gone
  BY DEF EndSync, Gone
<1>2. LiveHeld'
  <2> SUFFICES ASSUME NEW o \in 1 .. nOrders, orders[o].state \in LiveStates
               PROVE  Gone \/ route.st.uri = o
    BY <1>1 DEF LiveHeld
  <2>1. Gone \/ route.st.uri = o \/ st.uri = o
    BY DEF OrderInv, LiveHeld
  <2> QED
    BY <2>1, NamedOrders, LiveOrEnded
<1> QED
  BY <1>1, <1>2 DEF OrderInv

\* A sync that starts from the stored version drops an order only if it ended.
LEMMA StartOrder ==
    ASSUME IndInv, OrderInv, pc = "idle", cache = route, UNCHANGED <<route, nOrders, orders>>,
           NEW s, pc' # "idle", snap' = cache, st' = s, pc' = "authorize" => s.uri = 0,
           s = cache.st \/ (s.uri = 0 /\ ~ OrderInFlight(cache.st))
    PROVE  OrderInv'
<1>1. Gone' = Gone
  BY DEF Gone
<1>2. Dropped'
  BY DEF Dropped, IndInv, VersionsOK, VersionOK, StatusOK
<1>3. LiveHeld'
  BY <1>1 DEF OrderInv, LiveHeld
<1> QED
  BY <1>1, <1>2, <1>3 DEF OrderInv

\* The informer is up to date, so sync starts from the stored annotation.
LEMMA SyncStartOrder ==
    ASSUME IndInv, CacheTrails, OrderInv, NoFault, watch = <<>>, SyncStart, faults = 0
    PROVE  OrderInv'
<1>1. cache = route /\ pc = "idle" /\ UNCHANGED <<route, nOrders, orders>>
  BY DEF CacheTrails, SyncStart, SkipSync, HealthySync, OrderSync, StartSync, apiVars, caVars
<1>2. ClearOrder(cache.st).uri = 0
  BY DEF ClearOrder, IndInv, TypeOK, Version, Status
<1>3. CASE UNCHANGED syncVars
  BY <1>1, <1>3 DEF syncVars, OrderInv, Dropped, LiveHeld, Gone
<1>4. CASE HealthySync /\ ~ UNCHANGED syncVars
  <2>1. /\ pc' = "patch" /\ snap' = cache /\ st' = ClearOrder(cache.st)
        /\ ~ OrderInFlight(cache.st)
    BY <1>4 DEF HealthySync
  <2> QED
    BY <1>1, <1>2, <2>1, StartOrder
<1>5. CASE OrderSync /\ ~ UNCHANGED syncVars
  <2> DEFINE s == CleanPreviousOrder(cache.st)
  <2>1. /\ pc' = IF s.uri = 0 THEN "authorize" ELSE "getOrder"
        /\ snap' = cache /\ st' = s
    BY <1>5 DEF OrderSync
  <2>2. s = cache.st \/ (s.uri = 0 /\ ~ OrderInFlight(cache.st))
    BY <1>2 DEF CleanPreviousOrder
  <2> HIDE DEF s
  <2> QED
    BY <1>1, <2>1, <2>2, StartOrder
<1> QED
  BY <1>3, <1>4, <1>5 DEF SyncStart, SkipSync

\* No fault has been counted and none is being counted.
Faultless == faults = 0 /\ faults' = 0

\* Without a fault counted, no call fails and the process does not die.
LEMMA FaultlessSteps == Faultless => ~ Fault
BY DEF Faultless, Fault

\* A new order is in the hands of the sync, which held none.
LEMMA AuthorizeOrder ==
    ASSUME IndInv, OrderInv, Authorize, Faultless
    PROVE  OrderInv'
<1>1. /\ pc = "authorize" /\ st.uri = 0 /\ st \in Status /\ UNCHANGED route
      /\ Gone' = Gone /\ orders \in [Orders -> Order] /\ nOrders \in 0 .. MaxOrders
  BY DEF Authorize, OrderInv, IndInv, TypeOK, apiVars, Gone
<1>2. CASE ReturnErr /\ UNCHANGED <<nOrders, orders>>
  BY <1>1, <1>2, ReturnOrder DEF ReturnErr
<1>3. ASSUME NEW state \in {"pending", "ready"}, GrantOrder(state),
             Continue("patch", [st EXCEPT !.uri = nOrders + 1, !.os = state])
      PROVE  OrderInv'
  <2>1. pc' = "patch" /\ snap' = snap /\ st'.uri = nOrders + 1 /\ nOrders' = nOrders + 1
    BY <1>1, <1>3 DEF Continue, Goto, GrantOrder, Status
  <2>2. \A o \in 1 .. nOrders : orders'[o] = orders[o]
    BY <1>1, <1>3, BoundsAssumption DEF GrantOrder, Orders
  <2>3. Dropped'
    BY <1>1, <2>1, <2>2, NamedOrders DEF Dropped, IndInv, SyncOK
  <2>4. LiveHeld'
    <3> SUFFICES ASSUME NEW o \in 1 .. nOrders + 1, orders'[o].state \in LiveStates
                 PROVE  Gone \/ route.st.uri = o \/ nOrders + 1 = o
      BY <1>1, <2>1 DEF LiveHeld
    <3>1. CASE o \in 1 .. nOrders
      BY <1>1, <2>2, <3>1, NamedOrders DEF OrderInv, LiveHeld
    <3> QED
      BY <3>1, NamedOrders
  <2> QED
    BY <1>1, <2>1, <2>3, <2>4 DEF OrderInv
<1> QED
  BY <1>2, <1>3, FaultlessSteps DEF Authorize

\* While a sync follows an order, that order is the one in the annotation.
LEMMA FollowsStored ==
    ASSUME OrderInv, ProgressInv, pc \in FollowsOrder
    PROVE  pc \notin {"idle", "cleanupReturn"} /\ (Gone \/ st.uri = route.st.uri)
BY DEF OrderInv, ProgressInv, SyncProgress, FollowsOrder

\* The calls to the ACME server keep hold of the order while it lives.
LEMMA AcmeOrder ==
    ASSUME IndInv, ProgressInv, OrderInv, Faultless,
           GetOrder \/ GetAuthz \/ Expose \/ Accept \/ Finalize
    PROVE  OrderInv'
<1>1. /\ pc \in FollowsOrder /\ UNCHANGED <<route, nOrders>>
      /\ st \in Status /\ st.uri \in Orders /\ orders \in [Orders -> Order]
      /\ pc \notin {"idle", "cleanupReturn"} /\ (Gone \/ st.uri = route.st.uri)
  <2>1. pc \in FollowsOrder /\ UNCHANGED <<route, nOrders>>
    BY DEF GetOrder, GetAuthz, Expose, Accept, Finalize, FollowsOrder, apiVars, caVars
  <2> QED
    BY <2>1, FollowsStored, BoundsAssumption DEF IndInv, TypeOK, SyncOK, Status, Orders
<1>2. ASSUME UNCHANGED orders PROVE OrdersEnd
  BY <1>1, <1>2 DEF OrdersEnd
<1>3. CASE ReturnErr /\ UNCHANGED orders
  BY <1>1, <1>3, ReturnOrder DEF ReturnErr
<1>4. ASSUME NEW next \in PcValues \ {"idle", "authorize"}, NEW s, Goto(next, s),
             OrdersEnd, s.uri = st.uri
      PROVE  OrderInv'
  BY <1>1, <1>4, GotoOrder
<1>5. CASE GetOrder
  <2> DEFINE state == orders[st.uri].state
  <2>1. UNCHANGED orders
    BY <1>5 DEF GetOrder, caVars
  <2>2. OrdersEnd
    BY <1>2, <2>1
  <2>3. CASE ReturnErr
    BY <1>3, <2>1, <2>3
  <2>4. ASSUME NEW next \in PcValues \ {"idle", "authorize"}, NEW s, Goto(next, s),
               state \in TerminalStates
        PROVE  OrderInv'
    BY <1>1, <2>1, <2>2, <2>4, GotoOrder
  <2>5. Observe(st, state).uri = st.uri
    BY <1>1 DEF Observe, Status
  <2> QED
    BY <1>4, <1>5, <2>2, <2>3, <2>4, <2>5
       DEF GetOrder, Continue, RequeueAndPatch, PcValues, TerminalStates
<1>6. CASE GetAuthz
  <2>1. UNCHANGED orders
    BY <1>6 DEF GetAuthz, caVars
  <2> QED
    BY <1>2, <1>3, <1>4, <1>6, <2>1 DEF GetAuthz, Continue, RequeueAndPatch, PcValues
<1>7. CASE Expose
  <2>1. UNCHANGED orders
    BY <1>7 DEF Expose, caVars
  <2> QED
    BY <1>2, <1>3, <1>4, <1>7, <2>1, FaultlessSteps
       DEF Expose, Continue, RequeueAndPatch, PcValues
<1>8. CASE Accept
  <2>1. CASE orders' = [orders EXCEPT ![st.uri].authz = "processing"] /\ RequeueAndPatch(st)
    <3>1. OrdersEnd
      BY <1>1, <2>1, NamedOrders DEF OrdersEnd, Order
    <3> QED
      BY <1>4, <2>1, <3>1 DEF RequeueAndPatch, PcValues
  <2> QED
    BY <1>3, <1>8, <2>1, FaultlessSteps DEF Accept
<1>9. CASE Finalize
  <2>1. CASE /\ orders' = [orders EXCEPT ![st.uri].state = "valid"]
             /\ Continue("getFresh", [st EXCEPT !.os = "valid", !.failures = 0])
    <3>1. OrdersEnd
      BY <1>1, <2>1, NamedOrders DEF OrdersEnd, Order, LiveStates, TerminalStates
    <3>2. [st EXCEPT !.os = "valid", !.failures = 0].uri = st.uri
      BY <1>1 DEF Status
    <3> QED
      BY <1>4, <2>1, <3>1, <3>2 DEF Continue, PcValues
  <2> QED
    BY <1>3, <1>9, <2>1, FaultlessSteps DEF Finalize
<1> QED
  BY <1>5, <1>6, <1>7, <1>8, <1>9

\* The writes replace the annotation only when the order it names has ended.
LEMMA WriteOrder ==
    ASSUME IndInv, ProgressInv, OrderInv, Faultless, GetFresh \/ Update \/ Cleanup \/ Patch
    PROVE  OrderInv'
<1>1. UNCHANGED <<nOrders, orders>> /\ OrdersEnd /\ pc # "idle"
  BY DEF GetFresh, Update, Cleanup, Patch, caVars, OrdersEnd
<1>2. pc \in HoldsCert => orders[st.uri].state \in TerminalStates
  BY DEF IndInv, SyncOK, StatusOK, ProgressInv, SyncProgress, OrderInFlight, LiveStates
<1>3. ASSUME ReturnErr, UNCHANGED route, pc \in HoldsCert \/ ~ route.exists
      PROVE  OrderInv'
  BY <1>1, <1>2, <1>3, ReturnOrder DEF ReturnErr, Gone
<1>4. CASE GetFresh
  <2>1. UNCHANGED route /\ pc = "getFresh" /\ pc \in HoldsCert
    BY <1>4 DEF GetFresh, apiVars, HoldsCert
  <2>2. CASE ReturnErr
    BY <1>3, <2>1, <2>2
  <2>3. CASE pc' = "update" /\ UNCHANGED <<snap, st>>
    BY <1>1, <2>1, <2>3 DEF OrderInv, Dropped, LiveHeld, Gone
  <2> QED
    BY <1>4, <2>2, <2>3 DEF GetFresh
<1>5. ASSUME NEW r \in Version, r.st = st, r.exists = route.exists, r.uid = route.uid,
             Write(r), pc \in {"update", "patch"}, pc' = "idle" \/ pc' = "cleanupReturn",
             pc' # "idle" => UNCHANGED <<st, snap>>
      PROVE  OrderInv'
  <2>1. route' = r /\ Gone' = Gone
    BY <1>5 DEF Write, apiVars, Gone
  <2>2. LiveHeld'
    <3> SUFFICES ASSUME NEW o \in 1 .. nOrders, orders[o].state \in LiveStates, ~ Gone
                 PROVE  st.uri = o
      BY <1>1, <1>5, <2>1 DEF LiveHeld
    <3>1. route.st.uri = o \/ st.uri = o
      BY DEF OrderInv, LiveHeld
    <3>2. route.st = snap.st /\ Dropped
      BY <1>5 DEF OrderInv
    <3> QED
      BY <3>1, <3>2, LiveOrEnded, NamedOrders DEF Dropped
  <2>3. (pc # "idle" => Dropped)'
    BY <1>1, <1>5 DEF OrderInv, Dropped
  <2> QED
    BY <1>5, <2>1, <2>2, <2>3 DEF OrderInv
<1>6. CASE Update
  <2>1. pc = "update" /\ pc \in HoldsCert
    BY <1>6 DEF Update, HoldsCert
  <2>2. CASE ReturnErr /\ UNCHANGED apiVars
    BY <1>3, <2>1, <2>2 DEF apiVars
  <2>3. CASE Continue("getFresh", st) /\ UNCHANGED apiVars
    BY <1>1, <2>1, <2>3, GotoOrder DEF Continue, apiVars
  <2>4. CASE /\ fresh = route /\ Write([fresh EXCEPT !.cert = st.uri, !.st = st])
             /\ Continue("cleanupReturn", st)
    <3> DEFINE r == [fresh EXCEPT !.cert = st.uri, !.st = st]
    <3>1. r \in Version /\ r.st = st /\ r.exists = route.exists /\ r.uid = route.uid
      BY <2>4 DEF IndInv, TypeOK, Version, Status
    <3> HIDE DEF r
    <3> QED
      BY <1>5, <2>1, <2>4, <3>1 DEF Continue, Goto, r
  <2> QED
    BY <1>6, <2>2, <2>3, <2>4, FaultlessSteps DEF Update
<1>7. CASE Cleanup
  <2>1. UNCHANGED route
    BY <1>7 DEF Cleanup, apiVars
  <2>2. CASE pc = "cleanupPatch" /\ Continue("patch", st)
    BY <1>1, <2>1, <2>2, GotoOrder DEF Continue
  <2>3. CASE pc = "cleanupReturn" /\ ReturnNil
    BY <1>1, <1>2, <2>1, <2>3, ReturnOrder DEF ReturnNil, HoldsCert
  <2> QED
    BY <1>7, <2>2, <2>3 DEF Cleanup
<1>8. CASE Patch
  <2>1. CASE ReturnErr /\ UNCHANGED apiVars /\ ~ route.exists
    BY <1>3, <2>1 DEF apiVars
  <2>2. CASE Write([route EXCEPT !.st = st]) /\ ReturnNil
    <3> DEFINE r == [route EXCEPT !.st = st]
    <3>1. r \in Version /\ r.st = st /\ r.exists = route.exists /\ r.uid = route.uid
      BY DEF IndInv, TypeOK, Version, Status
    <3>2. pc = "patch" /\ pc' = "idle" /\ Write(r)
      BY <1>8, <2>2 DEF Patch, ReturnNil, EndSync
    <3> HIDE DEF r
    <3> QED
      BY <1>5, <3>1, <3>2
  <2> QED
    BY <1>8, <2>1, <2>2, FaultlessSteps DEF Patch
<1> QED
  BY <1>4, <1>6, <1>7, <1>8

\* Users, the router, the informer, the cluster and the ACME server lose nothing.
LEMMA OtherOrder ==
    ASSUME IndInv, OrderInv, Faultless, OtherStep
    PROVE  OrderInv'
<1>1. CASE Deliver \/ Resync \/ TimerFires \/ CertAges \/ ExposerUp \/ CollectGarbage
  <2>1. UNCHANGED <<route, pc, snap, st, nOrders, orders>>
    BY <1>1 DEF Deliver, Resync, TimerFires, CertAges, ExposerUp, CollectGarbage, apiVars,
                syncVars, caVars
  <2> QED
    BY <2>1 DEF OrderInv, Dropped, LiveHeld, Gone
<1>2. CASE RouterAdmits \/ UserStep
  <2>1. UNCHANGED <<pc, snap, st, nOrders, orders>>
    BY <1>2 DEF UserStep, RouterAdmits, RouterRejects, ChangeHost, ToggleManaged, DeleteRoute,
                RecreateRoute, OtherWrite, caVars, syncVars
  <2>2. /\ route'.uid >= 1
        /\ Gone' \/ (route'.st = route.st /\ Gone' = Gone)
    <3>0. route \in Version /\ route.uid \in Nat /\ route.uid >= 1
      BY DEF IndInv, TypeOK, Version, OrderInv
    <3>1. ASSUME NEW r, Write(r) PROVE route' = r
      BY <3>1 DEF Write, apiVars
    <3>2. CASE RouterAdmits
      BY <3>0, <3>1, <3>2 DEF RouterAdmits, OtherWrite, Version, Gone
    <3>3. CASE RouterRejects
      BY <3>0, <3>1, <3>3 DEF RouterRejects, OtherWrite, Version, Gone
    <3>4. CASE ChangeHost
      BY <3>0, <3>1, <3>4 DEF ChangeHost, OtherWrite, Version, Gone
    <3>5. CASE ToggleManaged
      BY <3>0, <3>1, <3>5 DEF ToggleManaged, OtherWrite, Version, Gone
    <3>6. CASE DeleteRoute
      BY <3>0, <3>1, <3>6 DEF DeleteRoute, OtherWrite, NoRoute, Gone
    <3>7. CASE RecreateRoute
      <4>1. PICK h \in Hosts : route' = NewRoute(route.uid + 1, h)
        BY <3>1, <3>7 DEF RecreateRoute, OtherWrite
      <4>2. route'.uid = route.uid + 1
        BY <4>1 DEF NewRoute, NoRoute
      <4> QED
        BY <3>0, <4>2 DEF Gone
    <3> QED
      BY <1>2, <3>2, <3>3, <3>4, <3>5, <3>6, <3>7 DEF UserStep
  <2> QED
    BY <2>1, <2>2 DEF OrderInv, Dropped, LiveHeld
<1>3. ASSUME NEW o \in Orders, CAStepFor(o) \/ CAForget(o) PROVE OrderInv'
  <2>1. UNCHANGED <<route, pc, snap, st, nOrders>> /\ Gone' = Gone
    BY <1>3 DEF CAStepFor, CAValidate, CAAdvance, CAIssue, CAExpire, CAForget, CAStep, apiVars,
                syncVars, Gone
  <2>2. OrdersEnd
    <3>1. orders \in [Orders -> Order] /\ 1 .. nOrders \subseteq Orders
      BY BoundsAssumption DEF IndInv, TypeOK, Orders
    <3>2. \E new : /\ orders' = [orders EXCEPT ![o] = new]
                   /\ new.state \in LiveStates => orders[o].state \in LiveStates
                   /\ orders[o].state \in TerminalStates => new.state \in TerminalStates
      BY <1>3, <3>1 DEF CAStepFor, CAValidate, CAAdvance, CAIssue, CAExpire, CAForget, CAStep,
                   Order, LiveStates, TerminalStates
    <3> QED
      BY <2>1, <3>1, <3>2 DEF OrdersEnd
  <2>3. Dropped => Dropped'
    BY <2>1, <2>2, NamedOrders DEF Dropped, OrdersEnd
  <2>4. LiveHeld'
    BY <2>1, <2>2 DEF OrderInv, LiveHeld, OrdersEnd
  <2> QED
    BY <2>1, <2>3, <2>4 DEF OrderInv
<1> QED
  BY <1>1, <1>2, <1>3, FaultlessSteps DEF OtherStep, Crash

\* Every step without a fault keeps hold of the live orders.
LEMMA OrderStep ==
    IndInv /\ CacheTrails /\ ProgressInv /\ (faults = 0 => OrderInv) /\ [FreshNext]_vars
        => (faults = 0 => OrderInv)'
<1> SUFFICES ASSUME IndInv, CacheTrails, ProgressInv, faults = 0 => OrderInv, [FreshNext]_vars,
                    faults' = 0
             PROVE  OrderInv'
  OBVIOUS
<1>1. CASE UNCHANGED vars
  BY <1>1 DEF vars, OrderInv, Dropped, LiveHeld, Gone
<1>2. CASE FreshNext
  <2>1. faults \in Nat /\ (faults' = faults \/ faults' = faults + 1)
    <3>1. SyncStep => faults' = faults \/ faults' = faults + 1
      BY DEF SyncStep, SyncStart, SyncCall, SkipSync, HealthySync, OrderSync, Authorize,
         GetOrder, GetAuthz, Expose, Accept, Finalize, GetFresh, Update, Cleanup, Patch,
         Fault, NoFault
    <3>2. OtherStep => faults' = faults \/ faults' = faults + 1
      BY DEF OtherStep, UserStep, CAStepFor, Deliver, Resync, TimerFires, Crash, RouterAdmits,
         RouterRejects, ChangeHost, ToggleManaged, DeleteRoute, RecreateRoute, OtherWrite,
         CertAges, CAValidate, CAAdvance, CAIssue, CAExpire, CAForget, CAStep, ExposerUp,
         CollectGarbage, Fault, NoFault
    <3> QED
      BY <1>2, <3>1, <3>2, BoundsAssumption DEF FreshNext, SyncStep, IndInv, TypeOK
  <2>2. Faultless /\ OrderInv /\ NoFault
    BY <2>1 DEF Faultless, NoFault
  <2> QED
    BY <1>2, <2>2, SyncStartOrder, AuthorizeOrder, AcmeOrder, WriteOrder, OtherOrder
       DEF FreshNext, SyncCall, Faultless
<1> QED
  BY <1>1, <1>2

\* "We need to store the order URI immediately to prevent loosing it on error": as
\* long as no call fails and syncs start from an informer that is up to date, a live
\* order is in the annotation or in the hands of the running sync.
THEOREM OrderNeverLostFresh == FreshSpec => [](faults = 0 => OrderNeverLost)
<1>1. Init => IndInv /\ CacheTrails /\ ProgressInv /\ (faults = 0 => OrderInv)
  <2>1. Init => CacheTrails
    BY DEF Init, CacheTrails
  <2>2. Init => ProgressInv
    BY DEF Init, ProgressInv, SyncProgress, IdleProgress, Stranded, FollowsOrder, HoldsCert
  <2>3. Init => OrderInv
    BY DEF Init, OrderInv, LiveHeld, NewRoute, NoRoute
  <2> QED
    BY <2>1, <2>2, <2>3, InitInv
<1>2. [FreshNext]_vars => [Next]_vars
  BY DEF FreshNext, Next, SyncStep
<1>3. OrderInv => OrderNeverLost
  BY DEF OrderInv, LiveHeld, Gone, OrderNeverLost
<1> QED
  BY <1>1, <1>2, <1>3, NextInv, TrailsStep, ProgressStep, OrderStep, PTL DEF FreshSpec
=============================================================================
