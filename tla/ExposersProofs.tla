--------------------------- MODULE ExposersProofs ----------------------------
(***************************************************************************)
(* Proofs about Exposers and ExposerResources, for every list of           *)
(* LimitRange items, every number of pods and every bound.                 *)
(***************************************************************************)
EXTENDS Exposers, Induction, SequenceTheorems

-----------------------------------------------------------------------------
(* Rounding. *)

\* A larger factor makes no smaller product.
LEMMA TimesMonotone ==
    ASSUME NEW a \in Int, NEW b \in Int, NEW c \in Nat, a <= b
    PROVE  a * c <= b * c
<1>1. (b - a) * c >= 0
  OBVIOUS
<1>2. (b - a) * c = b * c - a * c
  OBVIOUS
<1> QED
  BY <1>1, <1>2

\* quoMilliRoundHalfDown is within half a unit of the exact quotient.
LEMMA QuoBounds ==
    ASSUME NEW num \in Nat, NEW denom \in Nat \ {0}
    PROVE  LET q == QuoMilliRoundHalfDown(num, denom) IN
           /\ q \in Nat
           /\ (2 * q - 1) * denom < 2 * (1000 * num)
           /\ 2 * (1000 * num) <= (2 * q + 1) * denom
<1> DEFINE n == num * 1000
           f == n \div denom
           r == n % denom
           q == QuoMilliRoundHalfDown(num, denom)
<1>1. n \in Nat /\ n = 1000 * num
  OBVIOUS
<1>2. f \in Nat /\ r \in 0 .. denom - 1 /\ n = f * denom + r
  BY <1>1
<1>3. q = f + (IF 2 * r > denom THEN 1 ELSE 0)
  BY DEF QuoMilliRoundHalfDown
<1> HIDE DEF n, f, r, q
<1>4. CASE 2 * r > denom
  <2>1. q = f + 1 /\ q \in Nat
    BY <1>2, <1>3, <1>4
  <2>2. (2 * q - 1) * denom = 2 * (f * denom) + denom
    BY <1>2, <2>1
  <2>3. (2 * q + 1) * denom = 2 * (f * denom) + 3 * denom
    BY <1>2, <2>1
  <2>4. f * denom \in Nat
    BY <1>2
  <2> QED
    BY <1>1, <1>2, <1>4, <2>1, <2>2, <2>3, <2>4 DEF q
<1>5. CASE ~ (2 * r > denom)
  <2>1. q = f
    BY <1>2, <1>3, <1>5
  <2>2. (2 * q - 1) * denom = 2 * (f * denom) - denom
    BY <1>2, <2>1
  <2>3. (2 * q + 1) * denom = 2 * (f * denom) + denom
    BY <1>2, <2>1
  <2>4. f * denom \in Nat
    BY <1>2
  <2> QED
    BY <1>1, <1>2, <1>5, <2>1, <2>2, <2>3, <2>4 DEF q
<1> QED
  BY <1>4, <1>5

-----------------------------------------------------------------------------
(* One LimitRange item. *)

\* Requirements as they are passed from item to item.
Req == [request : Nat \ {0}, limit : Nat, failed : BOOLEAN]

Item == {it \in [min : Nat, max : Nat \cup {NoMax}, ratio : {0} \cup {r \in Nat : r >= 1000}] :
            it.max = NoMax \/ it.min <= it.max}

\* The ratio of an item holds, up to the rounding.
RatioKept(req, it) == RatioMet(req, it) \/ RatioRounded(req, it)

\* An item of a LimitRange is one that the lemmas below speak of.
LEMMA ItemTypes == RangeItems \subseteq Item
BY ItemsAssumption DEF Item

\* A request that is replaced for the ratio becomes larger, not larger than the
\* limit, and the ratio holds up to the rounding, replaced or not.
LEMMA KeepRatioOK ==
    ASSUME NEW req \in Req, NEW it \in Item, req.request <= req.limit
    PROVE  LET new == KeepRatio(req, it) IN
           /\ new \in Req /\ new.limit = req.limit /\ new.failed = req.failed
           /\ req.request <= new.request /\ new.request <= new.limit
           /\ RatioKept(new, it)
<1> DEFINE x == req.request
           n == 1000 * req.limit
           R == it.ratio
           Q == QuoMilliRoundHalfDown(req.limit, x)
           q == QuoMilliRoundHalfDown(req.limit, R)
           new == KeepRatio(req, it)
<1>1. x \in Nat \ {0} /\ req.limit \in Nat /\ n \in Nat /\ R \in Nat
      /\ req.failed \in BOOLEAN
      /\ req = [request |-> req.request, limit |-> req.limit, failed |-> req.failed]
  BY DEF Req, Item
<1>2. CASE R = 0
  BY <1>1, <1>2 DEF KeepRatio, RatioKept, RatioMet
<1>3. CASE R # 0 /\ ~ (Q > R)
  <2>1. new = req
    BY <1>3 DEF KeepRatio
  <2>2. Q \in Nat /\ 2 * n <= (2 * Q + 1) * x
    BY <1>1, QuoBounds
  <2> HIDE DEF Q
  <2>3. 2 * Q + 1 <= 2 * R + 1 /\ 2 * Q + 1 \in Int /\ 2 * R + 1 \in Int
    BY <1>1, <1>3, <2>2
  <2>4. (2 * Q + 1) * x <= (2 * R + 1) * x
    BY <1>1, <2>3, TimesMonotone
  <2>5. 2 * n <= (2 * R + 1) * x
    BY <1>1, <2>2, <2>3, <2>4
  <2> QED
    BY <1>1, <2>1, <2>5 DEF RatioKept, RatioRounded
<1>4. CASE R # 0 /\ Q > R
  <2>1. new = [request |-> q, limit |-> req.limit, failed |-> req.failed]
    BY <1>1, <1>4 DEF KeepRatio
  <2>2. Q \in Nat /\ (2 * Q - 1) * x < 2 * n
    BY <1>1, QuoBounds
  <2>3. q \in Nat /\ (2 * q - 1) * R < 2 * n /\ 2 * n <= (2 * q + 1) * R
    BY <1>1, <1>4, QuoBounds
  <2>4. R >= 1000
    BY <1>4 DEF Item
  <2> HIDE DEF Q, q
  <2>5. (2 * R + 1) * x < 2 * n
    <3>1. 2 * R + 1 <= 2 * Q - 1 /\ 2 * R + 1 \in Int /\ 2 * Q - 1 \in Int
      BY <1>1, <1>4, <2>2
    <3>2. (2 * R + 1) * x <= (2 * Q - 1) * x
      BY <1>1, <3>1, TimesMonotone
    <3> QED
      BY <1>1, <2>2, <3>1, <3>2
  <2>6. x <= q
    <3> SUFFICES ASSUME q + 1 <= x PROVE FALSE
      BY <1>1, <2>3
    <3>1. 2 * q + 1 <= 2 * x /\ 2 * q + 1 \in Int /\ 2 * x \in Int
      BY <1>1, <2>3
    <3>2. (2 * q + 1) * R <= (2 * x) * R
      BY <1>1, <3>1, TimesMonotone
    <3>3. (2 * x) * R <= (2 * R + 1) * x
      BY <1>1
    <3> QED
      BY <1>1, <2>3, <2>5, <3>1, <3>2, <3>3
  <2>7. q <= req.limit
    <3> SUFFICES ASSUME req.limit + 1 <= q PROVE FALSE
      BY <1>1, <2>3
    <3>1. 2 * req.limit <= 2 * q - 1 /\ 2 * req.limit \in Int /\ 2 * q - 1 \in Int
      BY <1>1, <2>3
    <3>2. (2 * req.limit) * R <= (2 * q - 1) * R
      BY <1>1, <3>1, TimesMonotone
    <3>3. 1000 * (2 * req.limit) <= R * (2 * req.limit)
      BY <1>1, <2>4, TimesMonotone
    <3> QED
      BY <1>1, <2>3, <3>1, <3>2, <3>3
  <2>8. new \in Req /\ new.request = q /\ new.limit = req.limit /\ new.failed = req.failed
    BY <1>1, <2>1, <2>3, <2>6 DEF Req
  <2>9. RatioKept(new, it)
    <3>1. (2 * q + 1) * R = R * (2 * q + 1)
      BY <1>1, <2>3
    <3>2. 2 * n <= R * (2 * new.request + 1)
      BY <2>3, <2>8, <3>1
    <3> QED
      BY <2>8, <3>2 DEF RatioKept, RatioRounded
  <2> QED
    BY <2>6, <2>7, <2>8, <2>9
<1> QED
  BY <1>2, <1>3, <1>4

\* What is below the minimum is raised to it, and nothing else.
LEMMA RaiseOK ==
    ASSUME NEW req \in Req, NEW it \in Item, req.request <= req.limit
    PROVE  LET new == Raise(req, it) IN
           /\ new \in Req /\ new.request <= new.limit
           /\ req.request <= new.request /\ req.limit <= new.limit /\ it.min <= new.request
           /\ new.limit = req.limit \/ (new.limit = it.min /\ new.request = new.limit)
           /\ new.failed = (req.failed \/ Above(req.request, it) \/ Above(req.limit, it))
<1> DEFINE new == Raise(req, it)
<1>1. /\ req.request \in Nat \ {0} /\ req.limit \in Nat /\ req.failed \in BOOLEAN
      /\ it.min \in Nat
  BY DEF Req, Item
<1>2. /\ new.request = IF req.request < it.min THEN it.min ELSE req.request
      /\ new.limit = IF req.limit < it.min THEN it.min ELSE req.limit
      /\ new.failed = (req.failed \/ Above(req.request, it) \/ Above(req.limit, it))
      /\ new = [request |-> new.request, limit |-> new.limit, failed |-> new.failed]
  BY DEF Raise
<1>3. new.failed \in BOOLEAN
  BY <1>2
<1> HIDE DEF new
<1>4. new.request \in Nat \ {0} /\ new.limit \in Nat
  BY <1>1, <1>2
<1>5. new \in Req
  BY <1>2, <1>3, <1>4 DEF Req
<1>6. /\ new.request <= new.limit
      /\ req.request <= new.request /\ req.limit <= new.limit /\ it.min <= new.request
      /\ new.limit = req.limit \/ (new.limit = it.min /\ new.request = new.limit)
  BY <1>1, <1>2
<1> QED
  BY <1>2, <1>5, <1>6 DEF new

\* One item of a LimitRange.
LEMMA AdjustOK ==
    ASSUME NEW req \in Req, NEW it \in Item, req.request <= req.limit
    PROVE  LET new == Adjust(req, it) IN
           /\ new \in Req /\ new.request <= new.limit
           /\ req.request <= new.request /\ req.limit <= new.limit /\ it.min <= new.request
           /\ new.limit = req.limit \/ (new.limit = it.min /\ new.request = new.limit)
           /\ new.failed = (req.failed \/ Above(req.request, it) \/ Above(req.limit, it))
           /\ RatioKept(new, it)
<1> DEFINE mid == Raise(req, it)
           new == Adjust(req, it)
<1>1. /\ mid \in Req /\ mid.request <= mid.limit
      /\ req.request <= mid.request /\ req.limit <= mid.limit /\ it.min <= mid.request
      /\ mid.limit = req.limit \/ (mid.limit = it.min /\ mid.request = mid.limit)
      /\ mid.failed = (req.failed \/ Above(req.request, it) \/ Above(req.limit, it))
  BY RaiseOK
<1>2. new = KeepRatio(mid, it)
  BY DEF Adjust
<1> HIDE DEF mid, new
<1>3. /\ new \in Req /\ new.limit = mid.limit /\ new.failed = mid.failed
      /\ mid.request <= new.request /\ new.request <= new.limit
      /\ RatioKept(new, it)
  BY <1>1, <1>2, KeepRatioOK
<1>4. req.request \in Nat /\ mid.request \in Nat /\ new.request \in Nat /\ it.min \in Nat
  BY <1>1, <1>3 DEF Req, Item
<1>5. /\ req.request <= new.request /\ it.min <= new.request
      /\ new.limit = req.limit \/ (new.limit = it.min /\ new.request = new.limit)
  BY <1>1, <1>3, <1>4
<1> QED
  BY <1>1, <1>3, <1>5 DEF new

\* A request that equals the limit suits every ratio.
LEMMA RatioOfEqual ==
    ASSUME NEW req \in Req, NEW it \in Item, req.request = req.limit
    PROVE  RatioKept(req, it)
<1>1. req.limit \in Nat /\ it.ratio \in Nat /\ (it.ratio = 0 \/ 1000 <= it.ratio)
  BY DEF Req, Item
<1>2. CASE it.ratio = 0
  BY <1>2 DEF RatioKept, RatioMet
<1>3. CASE 1000 <= it.ratio
  <2>1. 1000 * req.limit <= it.ratio * req.limit
    BY <1>1, <1>3, TimesMonotone
  <2> QED
    BY <2>1 DEF RatioKept, RatioMet
<1> QED
  BY <1>1, <1>2, <1>3

\* A larger request under the same limit suits a ratio all the more.
LEMMA RatioMonotone ==
    ASSUME NEW old \in Req, NEW new \in Req, NEW it \in Item,
           old.limit = new.limit, old.request <= new.request, RatioKept(old, it)
    PROVE  RatioKept(new, it)
<1> DEFINE x == old.request
           y == new.request
           R == it.ratio
           m == 1000 * old.limit
<1>1. x \in Nat /\ y \in Nat /\ R \in Nat /\ m \in Nat /\ x <= y
  BY DEF Req, Item
<1>2. R * (2 * x + 1) <= R * (2 * y + 1)
  <2>1. 2 * x + 1 \in Int /\ 2 * y + 1 \in Int /\ 2 * x + 1 <= 2 * y + 1
    BY <1>1
  <2>2. (2 * x + 1) * R <= (2 * y + 1) * R
    BY <1>1, <2>1, TimesMonotone
  <2> QED
    BY <1>1, <2>1, <2>2
<1>3. (2 * R + 1) * x <= (2 * R + 1) * y
  <2>1. x * (2 * R + 1) <= y * (2 * R + 1)
    BY <1>1, TimesMonotone
  <2> QED
    BY <1>1, <2>1
<1>4. R * x <= R * y
  <2>1. x * R <= y * R
    BY <1>1, TimesMonotone
  <2> QED
    BY <1>1, <2>1
<1>5. /\ R * (2 * x + 1) \in Int /\ R * (2 * y + 1) \in Int /\ R * x \in Int /\ R * y \in Int
      /\ (2 * R + 1) * x \in Int /\ (2 * R + 1) * y \in Int
      /\ m \in Int /\ 2 * m \in Int
  BY <1>1
<1>6. R = 0 \/ m <= R * x \/ 2 * m <= R * (2 * x + 1) \/ 2 * m <= (2 * R + 1) * x
  BY DEF RatioKept, RatioMet, RatioRounded
<1>7. R = 0 \/ m <= R * y \/ 2 * m <= R * (2 * y + 1) \/ 2 * m <= (2 * R + 1) * y
  BY <1>2, <1>3, <1>4, <1>5, <1>6
<1> QED
  BY <1>7 DEF RatioKept, RatioMet, RatioRounded

-----------------------------------------------------------------------------
(* All items, one after the other. *)

\* Requirements with a request that the limit covers.
Covered == {req \in Req : req.request <= req.limit}

Start == [request |-> Asked.request, limit |-> Asked.limit, failed |-> FALSE]

\* Without LimitRanges the limit of an exposer covers its request.
LEMMA StartCovered == Start \in Covered
BY ItemsAssumption DEF Start, Covered, Req

\* A list of items as a function.
LEMMA ItemsAreSeq ==
    ASSUME NEW n \in Nat, NEW items \in [1 .. n -> RangeItems]
    PROVE  items \in Seq(RangeItems) /\ Len(items) = n /\ DOMAIN items = 1 .. n
<1>1. items \in Seq(RangeItems)
  BY SeqDef
<1>2. DOMAIN items = 1 .. Len(items) /\ Len(items) \in Nat /\ DOMAIN items = 1 .. n
  BY <1>1, LenProperties
<1>3. Len(items) = n
  <2>1. \A k \in Int : k \in 1 .. Len(items) <=> k \in 1 .. n
    BY <1>2
  <2> QED
    BY <1>2, <2>1
<1> QED
  BY <1>1, <1>2, <1>3

\* The requirements after each item are determined by the ones before.
LEMMA AdjustmentsDefined ==
    ASSUME NEW items \in Seq(RangeItems)
    PROVE  LET run == Adjustments(items) IN
           /\ run \in [0 .. Len(items) -> Covered]
           /\ run[0] = Start
           /\ \A k \in 1 .. Len(items) : run[k] = Adjust(run[k - 1], items[k])
<1> DEFINE n == Len(items)
           Body(r) == [k \in 0 .. n |-> IF k = 0 THEN Start ELSE Adjust(r[k - 1], items[k])]
           step == [k \in 1 .. n |-> [req \in Covered |-> Adjust(req, items[k])]]
           run == Adjustments(items)
<1>1. n \in Nat /\ \A k \in 1 .. n : items[k] \in Item
  BY ItemTypes, LenProperties, ElementOfSeq
<1>2. step \in [1 .. n -> [Covered -> Covered]]
  <2>1. \A k \in 1 .. n : \A req \in Covered : Adjust(req, items[k]) \in Covered
    BY <1>1, AdjustOK DEF Covered
  <2> QED
    BY <2>1
<1>3. PICK r : Iterates(r, n, Covered, Start, step)
  <2> HIDE DEF step, n
  <2> QED
    BY <1>1, <1>2, StartCovered, Recursion
<1>4. r \in [0 .. n -> Covered] /\ r[0] = Start
  BY <1>3 DEF Iterates
<1>5. ASSUME NEW k \in 1 .. n PROVE r[k] = Adjust(r[k - 1], items[k])
  <2>1. k - 1 \in 0 .. n
    BY <1>1
  <2>2. r[k - 1] \in Covered
    BY <1>4, <2>1
  <2>3. r[k] = step[k][r[k - 1]]
    BY <1>3 DEF Iterates
  <2> QED
    BY <2>2, <2>3
<1> HIDE DEF step
<1>6. r = Body(r)
  <2>1. ASSUME NEW k \in 0 .. n PROVE r[k] = Body(r)[k]
    <3>1. CASE k = 0
      BY <1>4, <3>1
    <3>2. CASE k # 0
      <4>1. k \in 1 .. n
        BY <1>1, <3>2
      <4> QED
        BY <1>5, <3>2, <4>1
    <3> QED
      BY <3>1, <3>2
  <2> QED
    BY <1>4, <2>1
<1>7. run = CHOOSE x : x = Body(x)
  BY DEF Adjustments, Start
<1> HIDE DEF Body, run
<1>8. run = Body(run)
  BY <1>6, <1>7
<1>9. run = [k \in 0 .. n |-> IF k = 0 THEN Start ELSE Adjust(run[k - 1], items[k])]
  BY <1>8 DEF Body
<1> DEFINE S == {k \in 0 .. n : run[k] \in Covered}
<1>10. 0 \in S
  BY <1>1, <1>9, StartCovered
<1>11. ASSUME NEW k \in 1 .. n, k - 1 \in S PROVE k \in S
  <2>1. run[k] = Adjust(run[k - 1], items[k])
    BY <1>1, <1>9
  <2>2. run[k] \in Covered
    BY <1>1, <1>11, <2>1, AdjustOK DEF Covered
  <2> QED
    BY <1>1, <2>2
<1>12. 0 .. n \subseteq S
  <2> HIDE DEF S, n
  <2> QED
    BY <1>1, <1>10, <1>11, BoundedInduction
<1>13. run \in [0 .. n -> Covered]
  <2>1. \A k \in 0 .. n : run[k] \in Covered
    BY <1>12
  <2> QED
    BY <1>9, <2>1
<1>14. run[0] = Start /\ \A k \in 1 .. n : run[k] = Adjust(run[k - 1], items[k])
  BY <1>1, <1>9
<1> QED
  BY <1>13, <1>14 DEF run

\* What the items up to k ask for holds after item k.  Requests and limits only grow,
\* and a limit grows to a minimum, which the request then equals: no ratio suffers from
\* it.  A maximum does if it is below that minimum.
SuitsUpto(items, run, k) ==
    \A l \in 1 .. k :
        /\ items[l].min <= run[k].request
        /\ RatioKept(run[k], items[l])
        /\ \/ run[k].failed \/ ~ Above(run[k].limit, items[l])
           \/ \E m \in l + 1 .. k : Above(items[m].min, items[l])

\* The requirements that suit the items so far are adjusted to suit the next one too.
LEMMA SuitsStep ==
    ASSUME NEW items \in Seq(RangeItems), NEW k \in 1 .. Len(items),
           NEW run \in [0 .. Len(items) -> Covered],
           run[k] = Adjust(run[k - 1], items[k]), SuitsUpto(items, run, k - 1)
    PROVE  SuitsUpto(items, run, k)
<1> DEFINE old == run[k - 1]
           new == run[k]
           it == items[k]
<1>1. /\ Len(items) \in Nat /\ DOMAIN items = 1 .. Len(items)
      /\ \A l \in 1 .. Len(items) : items[l] \in Item
  BY ItemTypes, LenProperties, ElementOfSeq
<1>2. k - 1 \in 0 .. Len(items) /\ k \in 0 .. Len(items)
  BY <1>1
<1>3. old \in Req /\ old.request <= old.limit /\ it \in Item
  BY <1>1, <1>2 DEF Covered
<1>4. /\ new \in Req /\ new.request <= new.limit
      /\ old.request <= new.request /\ old.limit <= new.limit /\ it.min <= new.request
      /\ new.limit = old.limit \/ (new.limit = it.min /\ new.request = new.limit)
      /\ new.failed = (old.failed \/ Above(old.request, it) \/ Above(old.limit, it))
      /\ RatioKept(new, it)
  BY <1>3, AdjustOK
<1>5. /\ old.request \in Nat /\ new.request \in Nat /\ old.limit \in Nat /\ new.limit \in Nat
      /\ it.min \in Nat /\ (it.max = NoMax \/ (it.max \in Nat /\ it.min <= it.max))
  BY <1>3, <1>4 DEF Req, Item
<1> HIDE DEF old, new
<1>6. ASSUME NEW l \in 1 .. k - 1
      PROVE  /\ items[l].min <= new.request
             /\ RatioKept(new, items[l])
             /\ \/ new.failed \/ ~ Above(new.limit, items[l])
                \/ \E m \in l + 1 .. k : Above(items[m].min, items[l])
  <2>1. l \in 1 .. Len(items) /\ k \in l + 1 .. k
    BY <1>1
  <2>2. items[l] \in Item /\ items[l].min \in Nat
    BY <1>1, <2>1 DEF Item
  <2>3. /\ items[l].min <= old.request
        /\ RatioKept(old, items[l])
        /\ \/ old.failed \/ ~ Above(old.limit, items[l])
           \/ \E m \in l + 1 .. k - 1 : Above(items[m].min, items[l])
    BY DEF SuitsUpto, old
  <2>4. items[l].min <= new.request
    BY <1>4, <1>5, <2>2, <2>3
  <2>5. CASE new.limit = old.limit
    <3>1. RatioKept(new, items[l])
      BY <1>3, <1>4, <2>2, <2>3, <2>5, RatioMonotone
    <3>2. \A m \in l + 1 .. k - 1 : m \in l + 1 .. k
      BY <1>1
    <3>3. old.failed => new.failed
      BY <1>4, Zenon
    <3> QED
      BY <2>3, <2>4, <2>5, <3>1, <3>2, <3>3, Zenon
  <2>6. CASE new.limit = it.min /\ new.request = new.limit
    <3>1. RatioKept(new, items[l])
      BY <1>4, <2>2, <2>6, RatioOfEqual
    <3>2. ~ Above(new.limit, items[l]) \/ Above(it.min, items[l])
      BY <2>6, Zenon
    <3> QED
      BY <2>1, <2>4, <3>1, <3>2, Zenon
  <2> QED
    BY <1>4, <2>5, <2>6
<1>7. new.failed \/ ~ Above(new.limit, it)
  <2>1. CASE new.limit = old.limit
    <3>1. Above(old.limit, it) => new.failed
      BY <1>4, Zenon
    <3> QED
      BY <2>1, <3>1, Zenon
  <2>2. CASE new.limit = it.min
    BY <1>5, <2>2 DEF Above
  <2> QED
    BY <1>4, <2>1, <2>2
<1>8. \A l \in 1 .. k : l \in 1 .. k - 1 \/ l = k
  BY <1>1
<1> QED
  BY <1>4, <1>6, <1>7, <1>8, Zenon DEF SuitsUpto, new

\* The requirements suit every item.
LEMMA SuitsAll ==
    ASSUME NEW items \in Seq(RangeItems)
    PROVE  SuitsUpto(items, Adjustments(items), Len(items))
<1> DEFINE n == Len(items)
           run == Adjustments(items)
           S == {k \in 0 .. n : SuitsUpto(items, run, k)}
<1>1. n \in Nat
  BY LenProperties
<1>2. /\ run \in [0 .. n -> Covered]
      /\ \A k \in 1 .. n : run[k] = Adjust(run[k - 1], items[k])
  BY AdjustmentsDefined
<1> HIDE DEF run
<1>3. 0 \in S
  BY <1>1 DEF SuitsUpto
<1>4. ASSUME NEW k \in 1 .. n, k - 1 \in S PROVE k \in S
  <2>1. SuitsUpto(items, run, k)
    BY <1>2, <1>4, SuitsStep
  <2> QED
    BY <1>1, <2>1
<1>5. 0 .. n \subseteq S
  <2> HIDE DEF S, n
  <2> QED
    BY <1>1, <1>3, <1>4, BoundedInduction
<1>6. n \in S
  BY <1>1, <1>5
<1> QED
  BY <1>6 DEF run

\* What an exposer asks for, whatever the items are.
LEMMA AdjustedCovered ==
    ASSUME NEW items \in Seq(RangeItems)
    PROVE  Adjusted(items) \in Covered
<1>1. Len(items) \in 0 .. Len(items)
  BY LenProperties
<1> QED
  BY <1>1, AdjustmentsDefined DEF Adjusted

\* What an exposer asks for under every list of LimitRange items: the request is no
\* larger than the limit, every minimum is obeyed, every ratio is up to rounding, and
\* every maximum is unless the exposer is refused or a later item has a minimum above
\* that maximum.
THEOREM RangesFit == \A items \in Seq(RangeItems) : FitsRanges(items)
<1> SUFFICES ASSUME NEW items \in Seq(RangeItems) PROVE FitsRanges(items)
  OBVIOUS
<1> DEFINE n == Len(items)
           run == Adjustments(items)
           req == Adjusted(items)
<1>1. req = run[n] /\ DOMAIN items = 1 .. n
  BY LenProperties DEF Adjusted
<1>2. req \in Req /\ req.request <= req.limit
  BY AdjustedCovered DEF Covered
<1>3. SuitsUpto(items, run, n)
  BY SuitsAll
<1> HIDE DEF run, req
<1>4. ASSUME NEW k \in 1 .. n
      PROVE  /\ MinMet(req, items[k])
             /\ RatioMet(req, items[k]) \/ RatioRounded(req, items[k])
             /\ req.failed \/ MaxMet(req, items[k]) \/ RaisedLater(items, k)
  <2>1. items[k] \in Item
    BY ItemTypes, ElementOfSeq
  <2>2. /\ items[k].min <= req.request
        /\ RatioKept(req, items[k])
        /\ \/ req.failed \/ ~ Above(req.limit, items[k])
           \/ \E m \in k + 1 .. n : Above(items[m].min, items[k])
    BY <1>1, <1>3 DEF SuitsUpto
  <2>3. /\ req.request \in Nat /\ req.limit \in Nat /\ items[k].min \in Nat
        /\ items[k].max # NoMax => items[k].max \in Nat
    BY <1>2, <2>1 DEF Req, Item
  <2>4. MinMet(req, items[k])
    BY <1>2, <2>2, <2>3 DEF MinMet
  <2>5. ~ Above(req.limit, items[k]) => MaxMet(req, items[k])
    BY <1>2, <2>3 DEF Above, MaxMet
  <2> QED
    BY <2>2, <2>4, <2>5, Zenon DEF RatioKept, RaisedLater
<1> QED
  BY <1>1, <1>2, <1>4, Zenon DEF FitsRanges, req

-----------------------------------------------------------------------------
(* The invariant of the state machine. *)

\* UIDs and owner references name exposer Routes that were created.
UidsOK ==
    /\ obj["route"].uid <= uids /\ cache["route"].uid <= uids /\ exposerRoute.uid <= uids
    /\ \A k \in Kinds : obj[k].owner <= uids

\* What the ReplicaSet asks for.
RequestCovered == obj["rs"].request <= obj["rs"].limit

IndInv == TypeOK /\ UidsOK /\ RequestCovered

\* An object that does not exist.
LEMMA NothingOK ==
    /\ Nothing \in Object /\ ~ Nothing.exists
    /\ Nothing.uid = 0 /\ Nothing.owner = 0 /\ Nothing.request = 0 /\ Nothing.limit = 0
BY DEF Nothing, Object

\* The object that sync creates: not ready yet, and of an owner with a known UID.
LEMMA DesiredOK ==
    ASSUME IndInv, NEW k \in Kinds
    PROVE  /\ Desired(k) \in Object /\ Desired(k).exists /\ ~ Desired(k).ready
           /\ Desired(k).owner <= uids
           /\ Desired(k).uid = IF k = "route" THEN uids + 1 ELSE 0
           /\ Desired(k).request <= Desired(k).limit
<1> DEFINE new == [Nothing EXCEPT !.exists = TRUE, !.owner = OwnerOf(k)]
           req == Resources[ranges]
<1>1. OwnerOf(k) \in Nat /\ OwnerOf(k) <= uids /\ uids \in Nat /\ uids + 1 \in Nat
  BY DEF OwnerOf, IndInv, TypeOK, UidsOK, Object
<1>2. req.request \in Nat /\ req.limit \in Nat /\ req.request <= req.limit
  <2>1. ranges \in RangeLists /\ ranges \in Seq(RangeItems) /\ req = Adjusted(ranges)
    BY RangesAssumption DEF IndInv, TypeOK, Resources
  <2> QED
    BY <2>1, AdjustedCovered DEF Covered, Req
<1>3. /\ new \in Object /\ new.exists /\ ~ new.ready /\ new.owner = OwnerOf(k)
      /\ new.uid = 0 /\ new.request = 0 /\ new.limit = 0
  <2>1. new \in Object
    BY <1>1, NothingOK DEF Object
  <2> QED
    BY <2>1 DEF Nothing
<1> HIDE DEF new, req
<1>4. CASE k = "route"
  <2>1. Desired(k) = [new EXCEPT !.uid = uids + 1]
    BY <1>4 DEF Desired, new, req
  <2>2. Desired(k) \in Object
    BY <1>1, <1>3, <2>1 DEF Object
  <2>3. /\ Desired(k).exists /\ ~ Desired(k).ready /\ Desired(k).owner = OwnerOf(k)
        /\ Desired(k).uid = uids + 1 /\ Desired(k).request = 0 /\ Desired(k).limit = 0
    BY <1>3, <2>1 DEF Object
  <2> QED
    BY <1>1, <1>4, <2>2, <2>3
<1>5. CASE k = "rs"
  <2>1. Desired(k) = [new EXCEPT !.request = req.request, !.limit = req.limit]
    BY <1>5 DEF Desired, new, req
  <2>2. Desired(k) \in Object
    BY <1>2, <1>3, <2>1 DEF Object
  <2>3. /\ Desired(k).exists /\ ~ Desired(k).ready /\ Desired(k).owner = OwnerOf(k)
        /\ Desired(k).uid = 0
        /\ Desired(k).request = req.request /\ Desired(k).limit = req.limit
    BY <1>3, <2>1 DEF Object
  <2> QED
    BY <1>1, <1>2, <1>5, <2>2, <2>3
<1>6. CASE k \in {"secret", "service"}
  <2>1. Desired(k) = new
    BY <1>6 DEF Desired, new, req
  <2> QED
    BY <1>1, <1>3, <1>6, <2>1 DEF Object
<1> QED
  BY <1>4, <1>5, <1>6 DEF Kinds

\* Writing one of the four objects.
LEMMA SetObjOK ==
    ASSUME IndInv, NEW k \in Kinds, NEW o \in Object, SetObj([obj EXCEPT ![k] = o])
    PROVE  /\ obj' = [obj EXCEPT ![k] = o] /\ obj' \in [Kinds -> Object]
           /\ obj'[k] = o /\ \A j \in Kinds \ {k} : obj'[j] = obj[j]
           /\ pods' \in [Pods -> PodStates]
BY DEF SetObj, PodsOf, PodStates, IndInv, TypeOK

\* Removing or updating an object, with everything else but the counters as it was.
LEMMA ObjectInv ==
    ASSUME IndInv, NEW k \in Kinds, NEW o \in Object, SetObj([obj EXCEPT ![k] = o]),
           UNCHANGED <<alive, cache, ranges, exposerRoute, exposerRS, pc, challenge, uids, orders>>,
           queued' \in BOOLEAN, cleanup' \in {"none", "due", "done", "failed"},
           mishaps' \in 0 .. MaxMishaps,
           o.owner <= uids, k = "route" => o.uid <= uids, k = "rs" => o.request <= o.limit
    PROVE  IndInv'
<1>1. /\ obj' \in [Kinds -> Object] /\ obj'[k] = o /\ \A j \in Kinds \ {k} : obj'[j] = obj[j]
      /\ pods' \in [Pods -> PodStates]
  BY SetObjOK
<1>2. TypeOK'
  BY <1>1 DEF IndInv, TypeOK
<1>3. UidsOK'
  BY <1>1 DEF IndInv, UidsOK, Kinds
<1>4. RequestCovered'
  BY <1>1 DEF IndInv, RequestCovered, Kinds
<1> QED
  BY <1>2, <1>3, <1>4 DEF IndInv

\* Steps that leave the objects and the ones in the indexers alone.
LEMMA OtherInv ==
    ASSUME IndInv, UNCHANGED <<obj, cache, uids>>, ranges' \in RangeLists,
           alive' \in BOOLEAN, pods' \in [Pods -> PodStates], queued' \in BOOLEAN,
           pc' \in PcValues, exposerRoute' \in Object, exposerRS' \in Object,
           pc' \notin {"idle", "route"} => exposerRoute'.exists, exposerRoute'.uid <= uids,
           challenge' \in {"pending", "processing", "done"},
           cleanup' \in {"none", "due", "done", "failed"},
           orders' \in 1 .. MaxOrders, mishaps' \in 0 .. MaxMishaps
    PROVE  IndInv'
<1>1. TypeOK'
  BY DEF IndInv, TypeOK
<1>2. UidsOK' /\ RequestCovered'
  BY DEF IndInv, UidsOK, RequestCovered
<1> QED
  BY <1>1, <1>2 DEF IndInv

\* The registers of an idle worker.
LEMMA EndSyncOK ==
    ASSUME IndInv, EndSync
    PROVE  /\ pc' = "idle" /\ exposerRoute' \in Object /\ exposerRS' \in Object
           /\ exposerRoute'.uid <= uids
<1>1. 0 <= uids
  BY DEF IndInv, TypeOK
<1> QED
  BY <1>1, NothingOK DEF EndSync

\* Sync goes on with an object, or gives up.
LEMMA HoldOK ==
    ASSUME IndInv, NEW k \in Kinds, pc = k, NEW o \in Object, o.exists, Hold(o, k)
    PROVE  /\ pc' \in PcValues \ {"accept"} /\ queued' \in BOOLEAN
           /\ exposerRoute' \in Object /\ exposerRS' \in Object
           /\ pc' \notin {"idle", "route"} => exposerRoute'.exists
           /\ exposerRoute'.uid <= uids \/ (k = "route" /\ exposerRoute'.uid = o.uid)
<1>1. CASE ReturnErr
  BY <1>1, EndSyncOK DEF ReturnErr, PcValues, Kinds
<1>2. CASE /\ pc' = NextKind(k)
           /\ exposerRoute' = IF k = "route" THEN o ELSE exposerRoute
           /\ exposerRS' = IF k = "rs" THEN o ELSE exposerRS
           /\ UNCHANGED queued
  <2>1. NextKind(k) \in {"secret", "rs", "service", "check"}
    BY DEF NextKind, Kinds
  <2>2. k # "route" => exposerRoute.exists
    BY DEF IndInv, TypeOK, Kinds
  <2>3. exposerRoute' \in Object /\ exposerRS' \in Object /\ exposerRoute'.exists
    BY <1>2, <2>2 DEF IndInv, TypeOK
  <2>4. exposerRoute'.uid <= uids \/ (k = "route" /\ exposerRoute'.uid = o.uid)
    BY <1>2 DEF IndInv, UidsOK
  <2>5. queued' \in BOOLEAN
    BY <1>2 DEF IndInv, TypeOK
  <2> QED
    BY <1>2, <2>1, <2>3, <2>4, <2>5 DEF PcValues, Kinds
<1> QED
  BY <1>1, <1>2 DEF Hold

\* Mishaps are counted.
LEMMA MishapOK == IndInv /\ (Mishap \/ NoMishap) => mishaps' \in 0 .. MaxMishaps
BY BoundsAssumption DEF IndInv, TypeOK, Mishap, NoMishap

\* Looking up or creating one of the objects.
LEMMA ObtainInv ==
    ASSUME IndInv, NEW k \in Kinds, Obtain(k)
    PROVE  IndInv' /\ pc' # "accept"
<1>1. /\ pc = k /\ UNCHANGED <<alive, cache, ranges, challenge, cleanup, orders>>
      /\ mishaps' \in 0 .. MaxMishaps
  <2>1. Mishap \/ NoMishap
    BY DEF Obtain, Create
  <2> QED
    BY <2>1, MishapOK DEF Obtain, caVars
<1>2. ASSUME ReturnNil \/ ReturnErr PROVE EndSync /\ queued' \in BOOLEAN
  BY <1>2 DEF ReturnNil, ReturnErr, IndInv, TypeOK
<1>3. ASSUME ReturnNil \/ ReturnErr, UNCHANGED <<obj, pods, uids>>
      PROVE  IndInv' /\ pc' # "accept"
  <2>1. EndSync /\ queued' \in BOOLEAN
    BY <1>2, <1>3
  <2>2. /\ pc' = "idle" /\ exposerRoute' \in Object /\ exposerRS' \in Object
        /\ exposerRoute'.uid <= uids
    BY <2>1, EndSyncOK
  <2> QED
    BY <1>1, <1>3, <2>1, <2>2, OtherInv DEF IndInv, TypeOK, PcValues
<1>4. CASE cache[k].exists /\ Hold(cache[k], k) /\ UNCHANGED <<obj, pods, uids>>
  <2>1. cache[k] \in Object /\ (k = "route" => cache[k].uid <= uids)
    BY DEF IndInv, TypeOK, UidsOK
  <2>2. /\ pc' \in PcValues \ {"accept"} /\ queued' \in BOOLEAN
        /\ exposerRoute' \in Object /\ exposerRS' \in Object
        /\ pc' \notin {"idle", "route"} => exposerRoute'.exists
        /\ exposerRoute'.uid <= uids
    BY <1>1, <1>4, <2>1, HoldOK
  <2> QED
    BY <1>1, <1>4, <2>2, OtherInv DEF IndInv, TypeOK
<1>5. CASE /\ SetObj([obj EXCEPT ![k] = Desired(k)])
           /\ uids' = IF k = "route" THEN uids + 1 ELSE uids
           /\ Hold(Desired(k), k)
  <2> DEFINE o == Desired(k)
  <2>1. /\ o \in Object /\ o.exists /\ o.owner <= uids
        /\ o.uid = IF k = "route" THEN uids + 1 ELSE 0
        /\ o.request <= o.limit
    BY DesiredOK
  <2> HIDE DEF o
  <2>2. /\ pc' \in PcValues \ {"accept"} /\ queued' \in BOOLEAN
        /\ exposerRoute' \in Object /\ exposerRS' \in Object
        /\ pc' \notin {"idle", "route"} => exposerRoute'.exists
        /\ exposerRoute'.uid <= uids \/ (k = "route" /\ exposerRoute'.uid = o.uid)
    BY <1>1, <1>5, <2>1, HoldOK DEF o
  <2>3. /\ obj' \in [Kinds -> Object] /\ obj'[k] = o /\ \A j \in Kinds \ {k} : obj'[j] = obj[j]
        /\ pods' \in [Pods -> PodStates]
    BY <1>5, <2>1, SetObjOK DEF o
  <2>4. uids \in Nat /\ uids' \in Nat /\ uids <= uids' /\ (k = "route" => uids' = uids + 1)
    BY <1>5 DEF IndInv, TypeOK
  <2>5. TypeOK'
    BY <1>1, <2>2, <2>3, <2>4 DEF IndInv, TypeOK
  <2>6. UidsOK'
    <3>1. cache["route"].uid \in Nat /\ obj["route"].uid \in Nat /\ exposerRoute'.uid \in Nat
          /\ o.owner \in Nat /\ o.uid \in Nat /\ \A j \in Kinds : obj[j].owner \in Nat
      BY <2>1, <2>2 DEF IndInv, TypeOK, Object, Kinds
    <3>2. cache["route"].uid <= uids' /\ exposerRoute'.uid <= uids'
      BY <2>1, <2>2, <2>4, <3>1 DEF IndInv, UidsOK
    <3>3. obj'["route"].uid <= uids'
      BY <2>1, <2>3, <2>4, <3>1 DEF IndInv, UidsOK, Kinds
    <3>4. \A j \in Kinds : obj'[j].owner <= uids'
      BY <2>1, <2>3, <2>4, <3>1 DEF IndInv, UidsOK
    <3> QED
      BY <1>1, <3>2, <3>3, <3>4 DEF UidsOK
  <2>7. RequestCovered'
    BY <2>1, <2>3 DEF IndInv, RequestCovered, Kinds
  <2> QED
    BY <2>2, <2>5, <2>6, <2>7 DEF IndInv
<1> QED
  BY <1>3, <1>4, <1>5 DEF Obtain, Create

\* The other steps of sync.
LEMMA SyncInv ==
    ASSUME IndInv, StartSync \/ Cleanup \/ Validate \/ Accept
    PROVE  IndInv'
<1>1. CASE StartSync
  <2>1. /\ UNCHANGED <<alive, obj, cache, ranges, pods, exposerRoute, exposerRS, challenge,
                       cleanup, orders, uids, mishaps>>
        /\ pc' \in {"idle", "route"} /\ queued' = FALSE
    BY <1>1 DEF StartSync, FirstKind, caVars
  <2> QED
    BY <2>1, OtherInv DEF IndInv, TypeOK, UidsOK, PcValues, Kinds
<1>2. CASE Cleanup
  <2>1. /\ UNCHANGED <<alive, cache, ranges, pc, exposerRoute, exposerRS, challenge, orders, uids>>
        /\ queued' = FALSE /\ cleanup' \in {"done", "failed"} /\ (Mishap \/ NoMishap)
    BY <1>2 DEF Cleanup, syncVars
  <2>2. mishaps' \in 0 .. MaxMishaps
    BY <2>1, MishapOK
  <2>3. CASE UNCHANGED <<obj, pods>>
    BY <2>1, <2>2, <2>3, OtherInv DEF IndInv, TypeOK, UidsOK
  <2>4. CASE DeleteExposers
    <3>1. "route" \in Kinds /\ 0 <= uids
      BY DEF Kinds, IndInv, TypeOK
    <3> QED
      BY <2>1, <2>2, <2>4, <3>1, NothingOK, ObjectInv DEF DeleteExposers
  <2> QED
    BY <1>2, <2>3, <2>4 DEF Cleanup
<1>3. CASE Validate
  <2>1. UNCHANGED <<alive, obj, cache, ranges, pods, challenge, cleanup, orders, uids>>
        /\ (Mishap \/ NoMishap) /\ pc = "check"
    BY <1>3 DEF Validate, caVars
  <2>2. mishaps' \in 0 .. MaxMishaps
    BY <2>1, MishapOK
  <2>3. CASE Requeue
    <3>1. EndSync /\ queued' = TRUE
      BY <2>3 DEF Requeue
    <3> QED
      BY <2>1, <2>2, <3>1, EndSyncOK, OtherInv DEF IndInv, TypeOK, PcValues
  <2>4. CASE pc' = "accept" /\ UNCHANGED <<exposerRoute, exposerRS, queued>>
    BY <2>1, <2>2, <2>4, OtherInv DEF IndInv, TypeOK, UidsOK, PcValues
  <2> QED
    BY <1>3, <2>3, <2>4 DEF Validate
<1>4. CASE Accept
  <2>1. /\ UNCHANGED <<alive, obj, cache, ranges, pods, cleanup, orders, uids>>
        /\ (Mishap \/ NoMishap) /\ EndSync /\ queued' = TRUE
        /\ challenge' \in {"pending", "processing", "done"}
    BY <1>4 DEF Accept, Requeue, ReturnErr, IndInv, TypeOK
  <2> QED
    BY <2>1, MishapOK, EndSyncOK, OtherInv DEF IndInv, TypeOK, PcValues
<1> QED
  BY <1>1, <1>2, <1>3, <1>4

\* The informers, the cluster, users and the ACME server.
LEMMA EnvironmentInv ==
    ASSUME IndInv, Wake \/ DeleteRoute \/ ChangeRanges \/ CADecides \/ CAExpires \/ NewOrder
    PROVE  IndInv'
<1>1. UNCHANGED <<obj, cache, pods, uids, exposerRoute, exposerRS, pc>>
  BY DEF Wake, DeleteRoute, ChangeRanges, CADecides, CAExpires, NewOrder, CAStep, syncVars
<1>2. mishaps' \in 0 .. MaxMishaps
  <2>1. Mishap \/ NoMishap
    BY DEF Wake, DeleteRoute, ChangeRanges, CADecides, CAExpires, NewOrder, CAStep, NoMishap
  <2> QED
    BY <2>1, MishapOK
<1>3. ranges' \in RangeLists
  BY DEF Wake, DeleteRoute, ChangeRanges, CADecides, CAExpires, NewOrder, CAStep, IndInv, TypeOK
<1>4. alive' \in BOOLEAN /\ queued' \in BOOLEAN
  BY DEF Wake, DeleteRoute, ChangeRanges, CADecides, CAExpires, NewOrder, CAStep, IndInv, TypeOK
<1>5. /\ challenge' \in {"pending", "processing", "done"}
      /\ cleanup' \in {"none", "due", "done", "failed"}
      /\ orders' \in 1 .. MaxOrders
  BY BoundsAssumption
     DEF Wake, DeleteRoute, ChangeRanges, CADecides, CAExpires, NewOrder, CAStep, caVars,
         IndInv, TypeOK
<1> QED
  BY <1>1, <1>2, <1>3, <1>4, <1>5, OtherInv DEF IndInv, TypeOK, UidsOK

\* An event reaches the indexer.
LEMMA DeliverInv ==
    ASSUME IndInv, NEW k \in Kinds, Deliver(k)
    PROVE  IndInv'
<1>1. /\ UNCHANGED <<alive, obj, ranges, pods, pc, exposerRoute, exposerRS, challenge, cleanup,
                     orders, uids, mishaps>>
      /\ cache' = [cache EXCEPT ![k] = obj[k]]
  BY DEF Deliver, syncVars, caVars
<1>2. queued' \in BOOLEAN
  BY Zenon DEF Deliver
<1>3. cache' \in [Kinds -> Object] /\ cache'["route"] \in {cache["route"], obj["route"]}
  BY <1>1 DEF IndInv, TypeOK, Kinds
<1>4. TypeOK'
  BY <1>1, <1>2, <1>3 DEF IndInv, TypeOK
<1>5. UidsOK' /\ RequestCovered'
  BY <1>1, <1>3 DEF IndInv, UidsOK, RequestCovered
<1> QED
  BY <1>4, <1>5 DEF IndInv

\* The router, the ReplicaSet controller, the garbage collector and users change one
\* object at a time.
LEMMA ClusterInv ==
    ASSUME IndInv,
           \/ RouterAdmits \/ RSAvailable
           \/ \E k \in Kinds : CollectGarbage(k) \/ DeleteObject(k)
    PROVE  IndInv'
<1>1. /\ UNCHANGED <<alive, cache, ranges, queued, pc, exposerRoute, exposerRS, challenge,
                     cleanup, orders, uids>>
      /\ Mishap \/ NoMishap
  BY DEF RouterAdmits, RSAvailable, CollectGarbage, DeleteObject, ClusterStep, syncVars, caVars
<1>2. mishaps' \in 0 .. MaxMishaps
  BY <1>1, MishapOK
<1>3. ASSUME NEW k \in Kinds, NEW o \in Object, SetObj([obj EXCEPT ![k] = o]),
             o.owner <= uids, k = "route" => o.uid <= uids, k = "rs" => o.request <= o.limit
      PROVE  IndInv'
  BY <1>1, <1>2, <1>3, ObjectInv DEF IndInv, TypeOK
<1>4. ASSUME NEW k \in Kinds, SetObj([obj EXCEPT ![k].ready = TRUE]) PROVE IndInv'
  <2> DEFINE o == [obj[k] EXCEPT !.ready = TRUE]
  <2>1. obj[k] \in Object
    BY DEF IndInv, TypeOK
  <2>2. /\ o \in Object /\ o.owner = obj[k].owner /\ o.uid = obj[k].uid
        /\ o.request = obj[k].request /\ o.limit = obj[k].limit
    BY <2>1 DEF Object
  <2>3. /\ o.owner <= uids
        /\ k = "route" => o.uid <= uids
        /\ k = "rs" => o.request <= o.limit
    BY <2>2 DEF IndInv, UidsOK, RequestCovered
  <2>4. SetObj([obj EXCEPT ![k] = o])
    BY <1>4
  <2> HIDE DEF o
  <2> QED
    BY <1>3, <2>2, <2>3, <2>4
<1>5. CASE RouterAdmits
  BY <1>4, <1>5 DEF RouterAdmits, Kinds
<1>6. CASE RSAvailable
  BY <1>4, <1>6 DEF RSAvailable, Kinds
<1>7. CASE \E k \in Kinds : CollectGarbage(k) \/ DeleteObject(k)
  <2>1. PICK k \in Kinds : CollectGarbage(k) \/ DeleteObject(k)
    BY <1>7
  <2>2. SetObj([obj EXCEPT ![k] = Nothing])
    BY <2>1 DEF CollectGarbage, DeleteObject
  <2>3. /\ Nothing \in Object /\ Nothing.owner <= uids /\ Nothing.uid <= uids
        /\ Nothing.request <= Nothing.limit
    BY NothingOK DEF IndInv, TypeOK
  <2> QED
    BY <1>3, <2>2, <2>3
<1> QED
  BY <1>5, <1>6, <1>7

\* The exposer processes.
LEMMA ProcessInv ==
    ASSUME IndInv, \E p \in Pods : ProcessRuns(p) \/ PodDies(p)
    PROVE  IndInv'
<1>1. /\ UNCHANGED <<alive, obj, cache, ranges, queued, pc, exposerRoute, exposerRS, challenge,
                     cleanup, orders, uids>>
      /\ Mishap \/ NoMishap
  BY DEF ProcessRuns, PodDies, ClusterStep, syncVars, caVars
<1>2. mishaps' \in 0 .. MaxMishaps
  BY <1>1, MishapOK
<1>3. pods' \in [Pods -> PodStates]
  BY DEF ProcessRuns, PodDies, IndInv, TypeOK, PodStates
<1> QED
  BY <1>1, <1>2, <1>3, OtherInv DEF IndInv, TypeOK, UidsOK

\* A namespace without an exposer.
LEMMA InitInv == Init => IndInv
<1> SUFFICES ASSUME Init PROVE IndInv
  OBVIOUS
<1>1. TypeOK
  BY NothingOK, BoundsAssumption DEF Init, TypeOK, PodStates, PcValues
<1>2. UidsOK /\ RequestCovered
  BY NothingOK DEF Init, UidsOK, RequestCovered, Kinds
<1> QED
  BY <1>1, <1>2 DEF IndInv

\* Every step keeps the invariant.
LEMMA StepInv == IndInv /\ [Next]_vars => IndInv'
<1> SUFFICES ASSUME IndInv, [Next]_vars PROVE IndInv'
  OBVIOUS
<1>1. CASE UNCHANGED vars
  BY <1>1 DEF vars, IndInv, TypeOK, UidsOK, RequestCovered
<1>2. CASE \E k \in Kinds : Obtain(k)
  BY <1>2, ObtainInv
<1>3. CASE StartSync \/ Cleanup \/ Validate \/ Accept
  BY <1>3, SyncInv
<1>4. CASE Wake \/ DeleteRoute \/ ChangeRanges \/ CADecides \/ CAExpires \/ NewOrder
  BY <1>4, EnvironmentInv
<1>5. CASE \E k \in Kinds : Deliver(k)
  BY <1>5, DeliverInv
<1>6. CASE \/ RouterAdmits \/ RSAvailable
           \/ \E k \in Kinds : CollectGarbage(k) \/ DeleteObject(k)
  BY <1>6, ClusterInv
<1>7. CASE \E p \in Pods : ProcessRuns(p) \/ PodDies(p)
  BY <1>7, ProcessInv
<1> QED
  BY <1>1, <1>2, <1>3, <1>4, <1>5, <1>6, <1>7 DEF Next, SyncStep

\* The invariant holds in every state of every behaviour.
LEMMA InvHolds == Spec => []IndInv
BY InitInv, StepInv, PTL DEF Spec

\* The state has its type, whatever order the listers, the API server, the pods and
\* the ACME server take their steps in; from the second object on, sync works for an
\* exposer Route that it holds.
THEOREM TypeCorrect == Spec => []TypeOK
<1>1. IndInv => TypeOK
  BY DEF IndInv
<1> QED
  BY <1>1, InvHolds, PTL

\* adjustContainerResourceRequirements obeys every minimum, every ratio up to rounding
\* and, unless it refuses the exposer, every maximum that no later minimum exceeds, for
\* every list of items; and no ReplicaSet asks for more than its limit.
THEOREM RangesRespectedHolds == Spec => []RangesRespected
<1>1. FitsAllRanges
  <2> SUFFICES ASSUME NEW n \in 0 .. MaxItems, NEW items \in [1 .. n -> RangeItems]
               PROVE  FitsRanges(items)
    BY DEF FitsAllRanges
  <2>1. n \in Nat
    BY ItemsAssumption
  <2>2. items \in Seq(RangeItems)
    BY <2>1, ItemsAreSeq
  <2> QED
    BY <2>2, RangesFit
<1>2. IndInv => RangesRespected
  BY <1>1 DEF IndInv, RangesRespected, RequestCovered
<1> QED
  BY <1>2, InvHolds, PTL

-----------------------------------------------------------------------------
(* The four objects and the pods as one exposer. *)

\* The exposer has one stage, and none exactly when there is no exposer Route.
LEMMA StageOK ==
    /\ Stage \in {"none", "partial", "created", "up"}
    /\ Stage = "none" <=> ~ obj["route"].exists
    /\ Stage = "up" <=> Reachable
BY DEF Stage, Reachable

\* The stage depends on the objects and the pods only.
LEMMA SameStage == UNCHANGED <<obj, pods>> => Stage' = Stage
BY DEF Stage, Reachable

\* The stage may change in any way, except that an exposer Route appears together
\* with the rest.
LEMMA StageStep ==
    ASSUME Stage = "none" => Stage' \in {"none", "partial"},
           UNCHANGED challenge, UNCHANGED (pc = "accept")
    PROVE  [Contract!Next]_Contract!vars
<1>1. Stage \in {"none", "partial", "created", "up"}
  BY StageOK
<1>2. Stage' \in {"none", "partial", "created", "up"}
  BY DEF Stage, Reachable
<1>3. CASE Stage' = Stage
  BY <1>3 DEF Contract!vars
<1>4. CASE Stage' # Stage
  BY <1>1, <1>2, <1>4 DEF Contract!Next, Contract!Build, Contract!Decay
<1> QED
  BY <1>3, <1>4

\* What happens to one object without the Route being created.
LEMMA NoNewRoute ==
    ASSUME obj'["route"].exists => obj["route"].exists,
           UNCHANGED challenge, UNCHANGED (pc = "accept")
    PROVE  [Contract!Next]_Contract!vars
<1>1. Stage = "none" => ~ obj["route"].exists
  BY StageOK
<1>2. ~ obj'["route"].exists => Stage' = "none"
  BY DEF Stage, Reachable
<1> QED
  BY <1>1, <1>2, StageStep

\* A created exposer Route is not admitted yet, and no other part can name its UID as
\* the owner: they all name earlier ones.
LEMMA NewRoute ==
    ASSUME IndInv, SetObj([obj EXCEPT !["route"] = Desired("route")])
    PROVE  Stage' = "partial"
<1> DEFINE o == Desired("route")
<1>1. "route" \in Kinds /\ "secret" \in Kinds \ {"route"}
  BY DEF Kinds
<1>2. o \in Object /\ o.exists /\ ~ o.ready /\ o.uid = uids + 1
  BY <1>1, DesiredOK
<1> HIDE DEF o
<1>3. obj'["route"] = o /\ obj'["secret"] = obj["secret"]
  BY <1>1, <1>2, SetObjOK DEF o
<1>4. obj["secret"].owner \in Nat /\ obj["secret"].owner <= uids /\ uids \in Nat
  BY <1>1 DEF IndInv, TypeOK, UidsOK, Object
<1>5. obj'["secret"].owner # obj'["route"].uid
  BY <1>2, <1>3, <1>4
<1>6. ~ Reachable' /\ obj'["route"].exists
  BY <1>2, <1>3 DEF Reachable
<1> QED
  BY <1>1, <1>5, <1>6 DEF Stage

\* Looking up or creating an object.
LEMMA ObtainStep ==
    ASSUME IndInv, NEW k \in Kinds, Obtain(k)
    PROVE  [Contract!Next]_Contract!vars
<1>1. /\ pc # "accept" /\ pc' # "accept" /\ UNCHANGED challenge
  BY ObtainInv DEF Obtain, Kinds, caVars
<1>2. CASE UNCHANGED <<obj, pods>>
  BY <1>1, <1>2, NoNewRoute
<1>3. CASE SetObj([obj EXCEPT ![k] = Desired(k)])
  <2>1. CASE k = "route"
    BY <1>1, <1>3, <2>1, NewRoute, StageStep
  <2>2. CASE k # "route"
    <3>1. obj' = [obj EXCEPT ![k] = Desired(k)] /\ obj'["route"] = obj["route"]
      BY <1>3, <2>2 DEF SetObj, IndInv, TypeOK, Kinds
    <3> QED
      BY <1>1, <3>1, NoNewRoute
  <2> QED
    BY <2>1, <2>2
<1> QED
  BY <1>2, <1>3 DEF Obtain, Create

\* Removing an object, or its becoming ready.
LEMMA SetObjStep ==
    ASSUME IndInv, NEW k \in Kinds,
           \/ SetObj([obj EXCEPT ![k] = Nothing])
           \/ obj[k].exists /\ SetObj([obj EXCEPT ![k].ready = TRUE]),
           UNCHANGED <<pc, challenge>>
    PROVE  [Contract!Next]_Contract!vars
<1>1. obj["route"] \in Object /\ obj[k] \in Object /\ "route" \in Kinds /\ ~ Nothing.exists
  BY NothingOK DEF IndInv, TypeOK, Kinds
<1>2. CASE obj' = [obj EXCEPT ![k] = Nothing]
  BY <1>1, <1>2, NoNewRoute DEF IndInv, TypeOK
<1>3. CASE obj[k].exists /\ obj' = [obj EXCEPT ![k].ready = TRUE]
  BY <1>1, <1>3, NoNewRoute DEF IndInv, TypeOK, Object
<1> QED
  BY <1>2, <1>3 DEF SetObj

\* The checks of the exposer: the token is seen served, or the sync ends.
LEMMA ValidateStep == Validate => [Contract!Next]_Contract!vars
<1> SUFFICES ASSUME Validate PROVE [Contract!Next]_Contract!vars
  OBVIOUS
<1>1. pc = "check" /\ UNCHANGED <<obj, pods, challenge>>
  BY DEF Validate, caVars
<1>2. Stage' = Stage
  BY <1>1, SameStage
<1>3. CASE Checked /\ pc' = "accept"
  <2>1. Stage = "up"
    BY <1>3, StageOK DEF Checked
  <2> QED
    BY <1>1, <1>2, <1>3, <2>1 DEF Contract!Next, Contract!Vouch
<1>4. CASE pc' = "idle"
  BY <1>1, <1>2, <1>4 DEF Contract!vars
<1> QED
  BY <1>3, <1>4 DEF Validate, Requeue, EndSync

\* Only a sync that has seen the token served accepts the challenge.
LEMMA AcceptStep == Accept => [Contract!Next]_Contract!vars
<1> SUFFICES ASSUME Accept PROVE [Contract!Next]_Contract!vars
  OBVIOUS
<1>1. pc = "accept" /\ pc' = "idle" /\ UNCHANGED <<obj, pods>>
  BY DEF Accept, Requeue, ReturnErr, EndSync
<1>2. Stage' = Stage
  BY <1>1, SameStage
<1>3. CASE challenge = "pending" /\ challenge' = "processing"
  BY <1>1, <1>2, <1>3 DEF Contract!Next, Contract!Accept
<1>4. CASE UNCHANGED challenge
  BY <1>1, <1>2, <1>4 DEF Contract!Next, Contract!Unvouch
<1> QED
  BY <1>3, <1>4 DEF Accept

\* The ACME server decides on the challenge, and a later order brings it again.
LEMMA ServerStep == CADecides \/ CAExpires \/ NewOrder => [Contract!Next]_Contract!vars
<1> SUFFICES ASSUME CADecides \/ CAExpires \/ NewOrder PROVE [Contract!Next]_Contract!vars
  OBVIOUS
<1>1. UNCHANGED <<obj, pods, pc>>
  BY DEF CADecides, CAExpires, NewOrder, CAStep, syncVars
<1>2. Stage' = Stage
  BY <1>1, SameStage
<1>3. CASE CADecides \/ CAExpires
  BY <1>1, <1>2, <1>3 DEF CADecides, CAExpires, Contract!Next, Contract!Decide
<1>4. CASE NewOrder
  BY <1>1, <1>2, <1>4 DEF NewOrder, Contract!Next, Contract!Reopen
<1> QED
  BY <1>3, <1>4

\* Every step of the four objects, their listers and the pods is a step of the one
\* exposer, or none.
LEMMA StepRefines == IndInv /\ [Next]_vars => [Contract!Next]_Contract!vars
<1> SUFFICES ASSUME IndInv, [Next]_vars PROVE [Contract!Next]_Contract!vars
  OBVIOUS
<1>1. CASE UNCHANGED <<obj, pods, challenge>> /\ UNCHANGED (pc = "accept")
  BY <1>1, NoNewRoute
<1>2. CASE UNCHANGED vars \/ Wake \/ DeleteRoute \/ ChangeRanges \/ \E k \in Kinds : Deliver(k)
  BY <1>1, <1>2 DEF vars, Wake, DeleteRoute, ChangeRanges, Deliver, syncVars, caVars
<1>3. CASE StartSync
  BY <1>1, <1>3 DEF StartSync, FirstKind, caVars
<1>4. CASE Cleanup
  <2>1. UNCHANGED <<pc, challenge>> /\ "route" \in Kinds
    BY <1>4 DEF Cleanup, syncVars, Kinds
  <2>2. CASE UNCHANGED <<obj, pods>>
    BY <1>1, <2>1, <2>2
  <2>3. CASE SetObj([obj EXCEPT !["route"] = Nothing])
    BY <2>1, <2>3, SetObjStep
  <2> QED
    BY <1>4, <2>2, <2>3 DEF Cleanup, DeleteExposers
<1>5. CASE \E k \in Kinds : Obtain(k)
  BY <1>5, ObtainStep
<1>6. CASE Validate \/ Accept
  BY <1>6, ValidateStep, AcceptStep
<1>7. CASE CADecides \/ CAExpires \/ NewOrder
  BY <1>7, ServerStep
<1>8. CASE RouterAdmits \/ RSAvailable
  BY <1>8, SetObjStep DEF RouterAdmits, RSAvailable, ClusterStep, syncVars, caVars, Kinds
<1>9. CASE \E k \in Kinds : CollectGarbage(k) \/ DeleteObject(k)
  BY <1>9, SetObjStep DEF CollectGarbage, DeleteObject, ClusterStep, syncVars, caVars
<1>10. CASE \E p \in Pods : ProcessRuns(p) \/ PodDies(p)
  <2>1. UNCHANGED <<obj, pc, challenge>>
    BY <1>10 DEF ProcessRuns, PodDies, ClusterStep, syncVars, caVars
  <2> QED
    BY <2>1, NoNewRoute
<1> QED
  BY <1>2, <1>3, <1>4, <1>5, <1>6, <1>7, <1>8, <1>9, <1>10 DEF Next, SyncStep

\* Four objects behind four listers that trail independently, and the pods, go
\* through the stages of one exposer only, and sync accepts a challenge only after
\* it has seen that exposer up.
THEOREM ContractImplemented == Spec => ImplementsContract
<1>1. Init => Contract!Init
  <2> SUFFICES ASSUME Init PROVE Contract!Init
    OBVIOUS
  <2>1. ~ obj["route"].exists /\ pc # "accept" /\ challenge = "pending"
    BY NothingOK DEF Init, Kinds
  <2> QED
    BY <2>1, StageOK DEF Contract!Init
<1> QED
  BY <1>1, InvHolds, StepRefines, PTL DEF Spec, ImplementsContract, Contract!Spec
=============================================================================
