-------------------------- MODULE ExposerResources ---------------------------
(***************************************************************************)
(* adjustContainerResourceRequirements (pkg/controller/route): what an     *)
(* exposer pod asks for under the LimitRanges of its namespace.  Memory    *)
(* and CPU are treated alike and independently; this is one of the two, in *)
(* thousandths of its unit.                                                *)
(***************************************************************************)
EXTENDS Naturals, Sequences

CONSTANTS
    Asked,      \* request and limit of an exposer without LimitRanges
    NoMax,      \* an item without max
    RangeItems, \* items that LimitRanges may have
    MaxItems    \* bound: items in a namespace

\* An item of type Container or Pod; the others are skipped.  ratio is
\* MaxLimitRequestRatio in thousandths, 0 when there is none; the API server takes
\* none below one, and no minimum above the maximum of the same item.
ASSUME ItemsAssumption ==
    /\ RangeItems \subseteq [min : Nat, max : Nat \cup {NoMax}, ratio : Nat]
    /\ \A it \in RangeItems : /\ it.ratio = 0 \/ it.ratio >= 1000
                              /\ it.max = NoMax \/ it.min <= it.max
    /\ Asked \in [request : Nat \ {0}, limit : Nat] /\ Asked.request <= Asked.limit
    /\ NoMax \notin Nat /\ MaxItems \in Nat

\* quoMilliRoundHalfDown on quantities that are not negative.
QuoMilliRoundHalfDown(num, denom) ==
    LET n == num * 1000 IN
    IF denom = 0 THEN 0
    ELSE n \div denom + (IF 2 * (n % denom) > denom THEN 1 ELSE 0)

Above(v, it) == it.max # NoMax /\ v > it.max

\* What is below the minimum is raised to it.  The comparison with the maximum is
\* with the value before, of the request and of the limit.
RaiseLimitOnly(req, it) ==
    [req EXCEPT !.limit  = IF @ < it.min THEN it.min ELSE @,
                !.failed = @ \/ Above(req.request, it) \/ Above(req.limit, it)]
Raise(req, it) ==
    [request |-> IF req.request < it.min THEN it.min ELSE req.request,
     limit   |-> IF req.limit < it.min THEN it.min ELSE req.limit,
     failed  |-> req.failed \/ Above(req.request, it) \/ Above(req.limit, it)]

\* A request too small for the ratio is replaced by limit / ratio.
KeepRatio(req, it) ==
    IF it.ratio # 0 /\ QuoMilliRoundHalfDown(req.limit, req.request) > it.ratio
    THEN [req EXCEPT !.request = QuoMilliRoundHalfDown(req.limit, it.ratio)]
    ELSE req

Adjust(req, it) == KeepRatio(Raise(req, it), it)

\* All items of all LimitRanges, in the order of the lister: the requirements after
\* each of them.
Adjustments(items) ==
    LET run[k \in 0 .. Len(items)] ==
            IF k = 0
            THEN [request |-> Asked.request, limit |-> Asked.limit, failed |-> FALSE]
            ELSE Adjust(run[k - 1], items[k])
    IN  run

Adjusted(items) == Adjustments(items)[Len(items)]

-----------------------------------------------------------------------------
(* What one item asks for, as the LimitRanger checks it on every pod. *)

MinMet(req, it) == it.min <= req.request /\ it.min <= req.limit
MaxMet(req, it) == ~ Above(req.request, it) /\ ~ Above(req.limit, it)

\* limit / request is exact here, not rounded.
RatioMet(req, it) == it.ratio = 0 \/ 1000 * req.limit <= it.ratio * req.request

-----------------------------------------------------------------------------
(* What adjustContainerResourceRequirements achieves. *)

\* A ratio that is missed by rounding: by at most half a thousandth of the unit of
\* the request, which KeepRatio has rounded down, or of the ratio, which it has
\* rounded down before it compared.  33 for a limit of 100 and a ratio of 3 is one:
\* KeepRatio leaves that behind, and the LimitRanger refuses it.
RatioRounded(req, it) ==
    \/ 2 * (1000 * req.limit) <= it.ratio * (2 * req.request + 1)
    \/ 2 * (1000 * req.limit) <= (2 * it.ratio + 1) * req.request

\* A maximum is compared only with what the items before it ask for.  A minimum that
\* comes later and is above it is obeyed, and nothing fails.
RaisedLater(items, k) == \E l \in k + 1 .. Len(items) : Above(items[l].min, items[k])

FitsRanges(items) ==
    LET req == Adjusted(items) IN
    /\ req.request <= req.limit
    /\ \A k \in DOMAIN items :
          /\ MinMet(req, items[k])
          /\ RatioMet(req, items[k]) \/ RatioRounded(req, items[k])
          /\ req.failed \/ MaxMet(req, items[k]) \/ RaisedLater(items, k)

\* FitsRanges for every list of LimitRange items, in every order.
FitsAllRanges ==
    \A n \in 0 .. MaxItems : \A items \in [1 .. n -> RangeItems] : FitsRanges(items)
=============================================================================
