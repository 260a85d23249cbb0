----------------------------- MODULE CertRenewal -----------------------------
(***************************************************************************)
(* When a certificate is renewed: proactiveRenewalThreshold, needsCertKey  *)
(* and the delayed queue entry that sync leaves behind for a Route with a  *)
(* good certificate, on a clock.  RouteController treats "the certificate  *)
(* is due" as an event that may happen at any time; this module says when. *)
(*                                                                         *)
(* Times are multiples of the Go clock's unit; divisions round down as     *)
(* those of time.Duration do for positive values.                          *)
(***************************************************************************)
EXTENDS Naturals

CONSTANTS
    Lifetimes,  \* NotAfter - NotBefore of certificates the ACME server issues
    Hashes,     \* the first 64 bits of sha256 over the DER encoding
    Backdate,   \* how far in the past the server may set NotBefore
    Latency,    \* bound: from a queued key to the certificate it leads to
    MaxTime     \* bound: last instant of the clock

ASSUME LifetimesAssumption == Lifetimes \subseteq Nat /\ Hashes \subseteq Nat
ASSUME TimesAssumption ==
    /\ Backdate \in Nat /\ Latency \in Nat /\ MaxTime \in Nat
    /\ \A l \in Lifetimes : Latency < l \div 3 /\ 2 * Backdate < l

VARIABLES
    now,        \* the clock
    cert,       \* the certificate in the Route
    armed,      \* the delaying queue holds an entry for the key,
    wake,       \* due at this time
    queued,     \* the key waits in the queue, or an order is under way for it,
    late        \* for this long

vars == <<now, cert, armed, wake, queued, late>>

Certificate == [notBefore : Nat, notAfter : Nat, hash : Nat]

TypeOK ==
    /\ now \in Nat
    /\ cert \in Certificate
    /\ armed \in BOOLEAN /\ wake \in Nat
    /\ queued \in BOOLEAN /\ late \in 0 .. Latency

-----------------------------------------------------------------------------
(* The decision. *)

Lifetime(c) == c.notAfter - c.notBefore

\* A point of [lifetime/3, lifetime/2), spread by the hash of the certificate.
ProactiveThresholdOffByOne(l, hash) == l \div 3 + (hash % (l \div 2)) + 1
ProactiveRenewalThreshold(l, hash) ==
    LET window == l \div 2 - l \div 3 IN
    IF window = 0 THEN l \div 3 ELSE l \div 3 + (hash % window)

Threshold(c) == ProactiveRenewalThreshold(Lifetime(c), c.hash)

\* The reasons of needsCertKey that depend on the time: expired (or not valid
\* yet), in the renewal period, past the proactive point.
NeedsCertKey(c, t) ==
    \/ t < c.notBefore \/ t > c.notAfter
    \/ c.notAfter - t <= Lifetime(c) \div 3
    \/ c.notAfter - t <= Threshold(c)

\* The delay needsCertKey returns for a good certificate.
RequeueAfterExpiry(c, t) == c.notAfter - t
RequeueAfterDeadline(c, t) == (c.notAfter - t) - Lifetime(c) \div 3
RequeueAfter(c, t) == (c.notAfter - t) - Threshold(c)

-----------------------------------------------------------------------------
(* Sync, the queue and time. *)

\* AddAfter: the delaying queue keeps the earlier of two times for a key.
AddAfter(t) ==
    /\ armed' = TRUE
    /\ wake' = IF armed /\ wake < t THEN wake ELSE t

\* sync finds a good certificate and schedules the next check.
SyncHealthy ==
    /\ queued /\ ~ NeedsCertKey(cert, now)
    /\ AddAfter(now + RequeueAfter(cert, now))
    /\ queued' = FALSE /\ late' = 0
    /\ UNCHANGED <<now, cert>>

\* sync finds a certificate that is due; the order it opens ends with a new one
\* in the Route, which is an event for the key.
SyncRenew ==
    /\ queued /\ NeedsCertKey(cert, now)
    /\ \E l \in Lifetimes, h \in Hashes, b \in 0 .. Backdate :
          /\ b <= now
          /\ cert' = [notBefore |-> now - b, notAfter |-> now - b + l, hash |-> h]
    /\ late' = 0
    /\ UNCHANGED <<now, armed, wake, queued>>

\* The delay is over.
Fire ==
    /\ armed /\ wake <= now
    /\ armed' = FALSE /\ queued' = TRUE
    /\ UNCHANGED <<now, cert, wake, late>>

\* A resync or any other event for the Route.
Event ==
    /\ ~ queued
    /\ queued' = TRUE
    /\ UNCHANGED <<now, cert, armed, wake, late>>

\* A new process has an empty queue and lists all Routes.
Restart ==
    /\ armed
    /\ armed' = FALSE /\ queued' = TRUE
    /\ UNCHANGED <<now, cert, wake, late>>

\* Time passes.  A delay that is over fires first, and a queued key is served
\* within Latency.
Tick ==
    /\ now < MaxTime
    /\ ~ (armed /\ wake <= now)
    /\ queued => late < Latency
    /\ now' = now + 1
    /\ late' = IF queued THEN late + 1 ELSE late
    /\ UNCHANGED <<cert, armed, wake, queued>>

Init ==
    /\ now = Backdate
    /\ \E l \in Lifetimes, h \in Hashes :
          cert = [notBefore |-> 0, notAfter |-> l, hash |-> h]
    /\ armed = FALSE /\ wake = 0
    /\ queued = TRUE /\ late = 0

Next == SyncHealthy \/ SyncRenew \/ Fire \/ Event \/ Restart \/ Tick

Spec == Init /\ [][Next]_vars

-----------------------------------------------------------------------------
(* Properties. *)

\* The certificate in the Route never runs out, whatever events and restarts
\* occur, as long as a renewal takes less than a third of the lifetime.
NeverLapses == now < cert.notAfter

\* A certificate is not replaced before half of its lifetime is over, and the
\* one that replaces it is not due at once: renewals cannot chase each other.
RenewedLate ==
    [][cert' # cert => /\ 2 * (cert.notAfter - now) <= Lifetime(cert)
                       /\ ~ NeedsCertKey(cert', now)]_vars

\* A key that is not queued will be, no later than the first instant at which
\* needsCertKey turns; neither a timer left by an earlier certificate nor a lost
\* one can postpone that.
WakesInTime ==
    ~ queued => armed /\ \A t \in now .. cert.notAfter : NeedsCertKey(cert, t) => wake <= t

-----------------------------------------------------------------------------
(* The invariant behind the proofs in CertRenewalProofs.                       *)

\* The instant at which needsCertKey turns.
RenewalPoint == cert.notAfter - Threshold(cert)

IndInv ==
    /\ TypeOK
    /\ Lifetime(cert) \in Lifetimes /\ cert.notBefore <= now
    /\ armed => now <= wake
    /\ ~ queued => armed /\ wake <= RenewalPoint
    /\ queued => now <= RenewalPoint + late
=============================================================================
