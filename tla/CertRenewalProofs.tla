-------------------------- MODULE CertRenewalProofs --------------------------
(***************************************************************************)
(* Proofs about CertRenewal, for every set of lifetimes and hashes.        *)
(***************************************************************************)
EXTENDS CertRenewal, TLAPS

\* The threshold lies in [lifetime/3, lifetime/2]; the upper end is only met by
\* lifetimes whose window is empty.
THEOREM ThresholdInWindow ==
    ASSUME NEW l \in Nat, NEW h \in Nat
    PROVE  /\ ProactiveRenewalThreshold(l, h) \in Nat
           /\ l \div 3 <= ProactiveRenewalThreshold(l, h)
           /\ ProactiveRenewalThreshold(l, h) <= l \div 2
           /\ l \div 2 > l \div 3 => ProactiveRenewalThreshold(l, h) < l \div 2
<1> DEFINE w == l \div 2 - l \div 3
<1>1. l \div 2 \in Nat /\ l \div 3 \in Nat /\ l \div 3 <= l \div 2 /\ w \in Nat
  OBVIOUS
<1>2. w # 0 => h % w \in 0 .. w - 1
  <2>1. \A k \in Nat \ {0} : h % k \in 0 .. k - 1
    OBVIOUS
  <2> QED
    BY <1>1, <2>1
<1>3. CASE w = 0
  BY <1>1, <1>3 DEF ProactiveRenewalThreshold
<1>4. CASE w # 0
  <2>1. ProactiveRenewalThreshold(l, h) = l \div 3 + (h % w)
    BY <1>4 DEF ProactiveRenewalThreshold
  <2> HIDE DEF w
  <2>2. h % w \in Nat /\ h % w < w
    BY <1>1, <1>2, <1>4
  <2>3. w = l \div 2 - l \div 3
    BY DEF w
  <2> QED
    BY <1>1, <2>1, <2>2, <2>3
<1> QED
  BY <1>3, <1>4

\* What the steps need to know of a certificate with a lifetime the server
\* issues: how its threshold and the permitted delays compare.
LEMMA CertFacts ==
    ASSUME NEW c \in Certificate, Lifetime(c) \in Lifetimes
    PROVE  LET l == Lifetime(c) IN
           /\ l \in Nat /\ c.notAfter = c.notBefore + l
           /\ c.notBefore \in Nat /\ c.notAfter \in Nat
           /\ Threshold(c) \in Nat
           /\ l \div 3 <= Threshold(c) /\ 2 * Threshold(c) <= l
           /\ l \div 3 \in Nat
           /\ Latency < l \div 3 /\ 2 * Backdate < l
           /\ Backdate \in Nat /\ Latency \in Nat
<1> DEFINE l == Lifetime(c)
<1>1. l \in Nat /\ c.notBefore \in Nat /\ c.notAfter \in Nat /\ c.hash \in Nat
  BY LifetimesAssumption DEF Certificate
<1>2. c.notAfter = c.notBefore + l
  BY <1>1 DEF Lifetime
<1>3. Latency < l \div 3 /\ 2 * Backdate < l /\ Backdate \in Nat /\ Latency \in Nat
  BY TimesAssumption
<1> HIDE DEF l
<1>4. /\ ProactiveRenewalThreshold(l, c.hash) \in Nat
      /\ l \div 3 <= ProactiveRenewalThreshold(l, c.hash)
      /\ ProactiveRenewalThreshold(l, c.hash) <= l \div 2
  BY <1>1, ThresholdInWindow
<1>5. 2 * (l \div 2) <= l /\ l \div 3 \in Nat /\ l \div 2 \in Nat
  BY <1>1
<1>6. 2 * ProactiveRenewalThreshold(l, c.hash) <= l
  BY <1>1, <1>4, <1>5
<1> QED
  BY <1>1, <1>2, <1>3, <1>4, <1>5, <1>6 DEF l, Threshold

\* needsCertKey, for an instant since NotBefore: the certificate is due from its
\* renewal point on and not before.
LEMMA TurnsAtRenewalPoint ==
    ASSUME NEW c \in Certificate, Lifetime(c) \in Lifetimes,
           NEW t \in Nat, c.notBefore <= t
    PROVE  NeedsCertKey(c, t) <=> c.notAfter - Threshold(c) <= t
BY CertFacts DEF NeedsCertKey

\* A certificate just issued is not due.
LEMMA NewCertNotDue ==
    ASSUME NEW t \in Nat, NEW l \in Lifetimes, NEW h \in Hashes,
           NEW b \in 0 .. Backdate, b <= t
    PROVE  LET c == [notBefore |-> t - b, notAfter |-> t - b + l, hash |-> h] IN
           /\ c \in Certificate /\ Lifetime(c) \in Lifetimes /\ c.notBefore <= t
           /\ t < c.notAfter - Threshold(c)
           /\ ~ NeedsCertKey(c, t)
<1> DEFINE c == [notBefore |-> t - b, notAfter |-> t - b + l, hash |-> h]
<1>1. l \in Nat /\ h \in Nat /\ b \in Nat /\ b <= Backdate
  BY LifetimesAssumption, TimesAssumption
<1>2. c \in Certificate /\ Lifetime(c) = l /\ c.notBefore = t - b /\ c.notBefore <= t
  BY <1>1 DEF Certificate, Lifetime
<1>3. c.notAfter = t - b + l
  OBVIOUS
<1> HIDE DEF c
<1>4. t < c.notAfter - Threshold(c)
  BY <1>1, <1>2, <1>3, CertFacts
<1>5. ~ NeedsCertKey(c, t)
  BY <1>1, <1>2, <1>4, TurnsAtRenewalPoint, CertFacts
<1> QED
  BY <1>2, <1>4, <1>5 DEF c

-----------------------------------------------------------------------------

\* The first certificate is installed with its key queued, before its renewal point.
LEMMA InitInv == Init => IndInv
<1> SUFFICES ASSUME Init PROVE IndInv
  OBVIOUS
<1>1. PICK l \in Lifetimes, h \in Hashes : cert = [notBefore |-> 0, notAfter |-> l, hash |-> h]
  BY DEF Init
<1>2. l \in Nat /\ h \in Nat /\ Backdate \in Nat /\ Latency \in Nat
  BY LifetimesAssumption, TimesAssumption
<1>3. cert \in Certificate /\ Lifetime(cert) = l /\ cert.notBefore = 0 /\ cert.notAfter = l
  BY <1>1, <1>2 DEF Certificate, Lifetime
<1>4. TypeOK
  <2>1. armed \in BOOLEAN /\ queued \in BOOLEAN
    BY DEF Init
  <2>2. now \in Nat /\ wake \in Nat /\ late \in 0 .. Latency
    BY <1>2 DEF Init
  <2> QED
    BY <1>3, <2>1, <2>2 DEF TypeOK
<1>5. now <= RenewalPoint + late
  BY <1>2, <1>3, CertFacts DEF RenewalPoint, Init
<1>6. Lifetime(cert) \in Lifetimes /\ cert.notBefore <= now
  BY <1>2, <1>3 DEF Init
<1> QED
  BY <1>4, <1>5, <1>6 DEF Init, IndInv

\* No step leaves the key without a wake-up before the renewal point.
LEMMA NextInv == IndInv /\ [Next]_vars => IndInv'
<1> SUFFICES ASSUME IndInv, [Next]_vars PROVE IndInv'
  OBVIOUS
<1>1. /\ now \in Nat /\ cert \in Certificate /\ wake \in Nat /\ late \in Nat
      /\ Latency \in Nat /\ late <= Latency
      /\ Lifetime(cert) \in Lifetimes /\ cert.notBefore <= now
  BY TimesAssumption DEF IndInv, TypeOK
<1>2. Threshold(cert) \in Nat /\ RenewalPoint \in Nat
  BY <1>1, CertFacts DEF RenewalPoint
<1>3. CASE SyncHealthy
  <2>1. UNCHANGED <<now, cert>> /\ queued' = FALSE /\ late' = 0 /\ armed' = TRUE
    BY <1>3 DEF SyncHealthy, AddAfter
  <2>2. now < RenewalPoint
    BY <1>1, <1>2, <1>3, TurnsAtRenewalPoint, CertFacts DEF SyncHealthy, RenewalPoint
  <2>3. now + RequeueAfter(cert, now) = RenewalPoint
    BY <1>1, <1>2, CertFacts DEF RequeueAfter, RenewalPoint
  <2>4. wake' \in Nat /\ now <= wake' /\ wake' <= RenewalPoint
    BY <1>1, <1>2, <1>3, <2>2, <2>3 DEF SyncHealthy, AddAfter, IndInv
  <2>5. RenewalPoint' = RenewalPoint
    BY <2>1 DEF RenewalPoint
  <2>6. TypeOK'
    <3>1. armed' \in BOOLEAN /\ queued' \in BOOLEAN
      BY <2>1
    <3>2. late' \in 0 .. Latency
      BY <1>1, <2>1
    <3> QED
      BY <1>1, <2>1, <2>4, <3>1, <3>2 DEF TypeOK
  <2> QED
    BY <1>1, <2>1, <2>4, <2>5, <2>6 DEF IndInv
<1>4. CASE SyncRenew
  <2>1. PICK l \in Lifetimes, h \in Hashes, b \in 0 .. Backdate :
           /\ b <= now
           /\ cert' = [notBefore |-> now - b, notAfter |-> now - b + l, hash |-> h]
    BY <1>4 DEF SyncRenew
  <2>2. /\ cert' \in Certificate /\ Lifetime(cert') \in Lifetimes /\ cert'.notBefore <= now
        /\ now < cert'.notAfter - Threshold(cert')
    BY <1>1, <2>1, NewCertNotDue
  <2>3. UNCHANGED <<now, armed, wake, queued>> /\ late' = 0 /\ queued
    BY <1>4 DEF SyncRenew
  <2>4. cert'.notAfter - Threshold(cert') \in Nat
    BY <1>1, <2>2, CertFacts
  <2> QED
    BY <1>1, <2>2, <2>3, <2>4 DEF IndInv, TypeOK, RenewalPoint
<1>5. CASE Fire \/ Event \/ Restart
  <2>1. UNCHANGED <<now, cert, wake, late>> /\ queued' = TRUE
    BY <1>5 DEF Fire, Event, Restart
  <2>2. armed' \in BOOLEAN /\ (armed' => armed)
    BY <1>5, Zenon DEF Fire, Event, Restart, IndInv, TypeOK
  <2>3. now <= RenewalPoint + late
    BY <1>1, <1>2 DEF IndInv
  <2>4. RenewalPoint' = RenewalPoint
    BY <2>1 DEF RenewalPoint
  <2>5. TypeOK'
    BY <2>1, <2>2 DEF IndInv, TypeOK
  <2> QED
    BY <1>1, <2>1, <2>2, <2>3, <2>4, <2>5 DEF IndInv
<1>6. CASE Tick
  <2>1. UNCHANGED <<cert, armed, wake, queued>> /\ now' = now + 1 /\ (armed => now < wake)
    BY <1>1, <1>6 DEF Tick, IndInv, TypeOK
  <2>2. RenewalPoint' = RenewalPoint
    BY <2>1 DEF RenewalPoint
  <2>3. late' \in 0 .. Latency /\ late' = IF queued THEN late + 1 ELSE late
    BY <1>1, <1>6 DEF Tick
  <2>4. TypeOK'
    <3>1. armed' \in BOOLEAN /\ queued' \in BOOLEAN
      BY <2>1 DEF IndInv, TypeOK
    <3>2. now' \in Nat /\ wake' \in Nat /\ cert' \in Certificate
      BY <1>1, <2>1
    <3> QED
      BY <2>3, <3>1, <3>2 DEF TypeOK
  <2>5. Lifetime(cert') \in Lifetimes /\ cert'.notBefore <= now'
    BY <1>1, <2>1 DEF Certificate
  <2>6. armed' => now' <= wake'
    BY <1>1, <2>1
  <2>7. ~ queued' => armed' /\ wake' <= RenewalPoint'
    BY <2>1, <2>2 DEF IndInv
  <2>8. queued' => now' <= RenewalPoint' + late'
    BY <1>1, <1>2, <2>1, <2>2, <2>3 DEF IndInv
  <2> QED
    BY <2>4, <2>5, <2>6, <2>7, <2>8 DEF IndInv
<1>7. CASE UNCHANGED vars
  BY <1>7 DEF vars, IndInv, TypeOK, RenewalPoint
<1> QED
  BY <1>3, <1>4, <1>5, <1>6, <1>7 DEF Next

\* Either the key is queued in time, or a timer will queue it by the renewal point.
THEOREM Invariance == Spec => []IndInv
  BY InitInv, NextInv, PTL DEF Spec

\* No certificate runs out while renewals take less than a third of its lifetime.
THEOREM NeverLapsesHolds == Spec => []NeverLapses
<1>1. IndInv => NeverLapses
  <2> SUFFICES ASSUME IndInv PROVE now < cert.notAfter
    BY DEF NeverLapses
  <2>1. /\ now \in Nat /\ cert \in Certificate /\ wake \in Nat /\ late \in Nat
        /\ Latency \in Nat /\ late <= Latency /\ Lifetime(cert) \in Lifetimes
    BY TimesAssumption DEF IndInv, TypeOK
  <2>2. now <= RenewalPoint + late
    BY <2>1, CertFacts DEF IndInv, RenewalPoint
  <2> QED
    BY <2>1, <2>2, CertFacts DEF RenewalPoint
<1> QED
  BY <1>1, Invariance, PTL

\* The key is queued no later than needsCertKey turns.
THEOREM WakesInTimeHolds == Spec => []WakesInTime
<1>1. IndInv => WakesInTime
  <2> SUFFICES ASSUME IndInv, ~ queued, NEW t \in now .. cert.notAfter, NeedsCertKey(cert, t)
               PROVE  wake <= t
    BY DEF WakesInTime, IndInv
  <2>1. /\ now \in Nat /\ cert \in Certificate /\ wake \in Nat
        /\ Lifetime(cert) \in Lifetimes /\ cert.notBefore <= now
    BY DEF IndInv, TypeOK
  <2>2. t \in Nat /\ cert.notBefore <= t
    BY <2>1, CertFacts
  <2>3. RenewalPoint <= t
    BY <2>1, <2>2, TurnsAtRenewalPoint DEF RenewalPoint
  <2> QED
    BY <2>1, <2>2, <2>3, CertFacts DEF IndInv, RenewalPoint
<1> QED
  BY <1>1, Invariance, PTL

\* A certificate lives at least half of its lifetime, and its successor is not
\* due at once.
THEOREM RenewedLateHolds == Spec => RenewedLate
<1> DEFINE Late == cert' # cert => /\ 2 * (cert.notAfter - now) <= Lifetime(cert)
                                   /\ ~ NeedsCertKey(cert', now)
<1>1. IndInv /\ [Next]_vars => [Late]_vars
  <2> SUFFICES ASSUME IndInv, Next, cert' # cert
               PROVE  /\ 2 * (cert.notAfter - now) <= Lifetime(cert)
                      /\ ~ NeedsCertKey(cert', now)
    OBVIOUS
  <2>1. SyncRenew
    BY DEF Next, SyncHealthy, Fire, Event, Restart, Tick
  <2>2. /\ now \in Nat /\ cert \in Certificate
        /\ Lifetime(cert) \in Lifetimes /\ cert.notBefore <= now
    BY DEF IndInv, TypeOK
  <2>3. cert.notAfter - Threshold(cert) <= now
    BY <2>1, <2>2, TurnsAtRenewalPoint DEF SyncRenew
  <2>4. 2 * (cert.notAfter - now) <= Lifetime(cert)
    BY <2>2, <2>3, CertFacts
  <2>5. PICK l \in Lifetimes, h \in Hashes, b \in 0 .. Backdate :
           /\ b <= now
           /\ cert' = [notBefore |-> now - b, notAfter |-> now - b + l, hash |-> h]
    BY <2>1 DEF SyncRenew
  <2>6. ~ NeedsCertKey(cert', now)
    BY <2>2, <2>5, NewCertNotDue
  <2> QED
    BY <2>4, <2>6
<1> QED
  BY <1>1, Invariance, PTL DEF Spec, RenewedLate
=============================================================================
