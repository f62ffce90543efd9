--------------------------- MODULE GopCacheProofs ---------------------------
(* The cache keeps its books and its budget for every configuration.       *)
EXTENDS GopCache, TLAPS, WellFoundedInduction, NaturalsInduction, SequenceTheorems

(* Every non-empty set of naturals has a least element: induction in the   *)
(* form the provers can use, with a set in place of a predicate.           *)
LEMMA LeastElement ==
    ASSUME NEW T, T \subseteq Nat, T # {}
    PROVE  \E m \in T : \A n \in T : m <= n
<1>1. IsWellFoundedOn(OpToRel(<, Nat), Nat)
  BY NatLessThanWellFounded
<1>2. PICK m \in T : \A n \in T : <<n, m>> \notin OpToRel(<, Nat)
  BY <1>1, WFMin, Zenon
<1>3. \A n \in T : ~(n < m)
  BY <1>2 DEF OpToRel
<1> QED BY <1>3

(* What trim_locked's loop has left after k pops is the total less the     *)
(* bytes of the first k groups.                                            *)
LEMMA BytesLeftTotals ==
    ASSUME NEW g \in Seq(CachedGop), NEW b \in Nat,
           NEW acc \in [0..Len(g) -> Nat], Totals(g, b, acc)
    PROVE  \A k \in 0..Len(g) : BytesLeft(g, b)[k] = b - acc[k]
<1> DEFINE Dom == 0..Len(g)
           Step(f) == [k \in Dom |-> IF k = 0 THEN b ELSE f[k - 1] - g[k].bytes]
           F == [k \in Dom |-> b - acc[k]]
           left == BytesLeft(g, b)
<1> Len(g) \in Nat /\ g \in [1..Len(g) -> CachedGop]
  OBVIOUS
<1>1. ASSUME NEW k \in Dom \ {0}
      PROVE  /\ k \in 1..Len(g)
             /\ g[k].bytes \in Nat
             /\ acc[k] = acc[k - 1] + g[k].bytes
             /\ k - 1 \in Dom
  <2>1. k \in 1..Len(g) /\ k - 1 \in Dom
    OBVIOUS
  <2>2. g[k] \in CachedGop
    BY <2>1
  <2>3. g[k].bytes \in Nat
    BY <2>2 DEF CachedGop
  <2> QED BY <2>1, <2>3 DEF Totals
<1>2. F = Step(F)
  <2>1. ASSUME NEW k \in Dom
        PROVE  F[k] = IF k = 0 THEN b ELSE F[k - 1] - g[k].bytes
    <3>1. CASE k = 0
      BY <3>1 DEF Totals
    <3>2. CASE k # 0
      <4>1. k - 1 \in Dom /\ g[k].bytes \in Nat /\ acc[k] = acc[k - 1] + g[k].bytes
        BY <3>2, <1>1
      <4>2. F[k] = b - acc[k] /\ F[k - 1] = b - acc[k - 1]
        BY <4>1
      <4> QED BY <3>2, <4>1, <4>2
    <3> QED BY <3>1, <3>2
  <2> QED BY <2>1
<1>3. left = Step(left)
  <2>1. left = CHOOSE f : f = Step(f)
    BY DEF BytesLeft
  <2> HIDE DEF left, F, Step
  <2> QED BY <2>1, <1>2
<1>4. \A k \in Dom : left[k] = Step(left)[k]
  BY <1>3
<1> HIDE DEF left
<1> DEFINE Bad == {k \in Dom : left[k] # b - acc[k]}
<1>5. CASE Bad = {}
  BY <1>5 DEF left
<1>6. CASE Bad # {}
  <2>1. PICK m \in Bad : \A n \in Bad : m <= n
    <3>1. Bad \subseteq Nat
      OBVIOUS
    <3> HIDE DEF Bad
    <3> QED BY <3>1, <1>6, LeastElement
  <2>2. m # 0
    <3>1. left[0] = b /\ acc[0] = 0
      BY <1>4 DEF Totals
    <3> QED BY <3>1
  <2>3. m - 1 \in Dom /\ left[m - 1] = b - acc[m - 1]
    BY <2>1, <2>2, <1>1
  <2>4. left[m] = left[m - 1] - g[m].bytes
    BY <2>2, <1>4
  <2>5. g[m].bytes \in Nat /\ acc[m] = acc[m - 1] + g[m].bytes
    BY <2>2, <1>1
  <2>6. left[m] = b - acc[m]
    BY <2>3, <2>4, <2>5
  <2> QED BY <2>6
<1> QED BY <1>5, <1>6

(* trim_locked stops before it reaches the newest group, if that group     *)
(* alone is inside the byte budget.                                        *)
LEMMA PopsStops ==
    ASSUME NEW g \in Seq(CachedGop), g # <<>>, NEW b \in Nat,
           NEW acc \in [0..Len(g) -> Nat], Totals(g, b, acc),
           MaxGops # 0, g[Len(g)].bytes <= MaxBytes
    PROVE  /\ Pops(g, b) \in 0..(Len(g) - 1)
           /\ BytesLeft(g, b)[Pops(g, b)] = b - acc[Pops(g, b)]
           /\ ~OverLimit(g, Pops(g, b), b - acc[Pops(g, b)])
<1> DEFINE n == Len(g)
           Over(k) == OverLimit(g, k, BytesLeft(g, b)[k])
           Free == {k \in 0..n : ~Over(k)}
<1>1. n \in Nat /\ n >= 1 /\ g[n] \in CachedGop /\ g[n].bytes \in Nat
  <2>1. n \in Nat /\ n >= 1 /\ g[n] \in CachedGop
    OBVIOUS
  <2> QED BY <2>1 DEF CachedGop
<1>2. \A k \in 0..n : BytesLeft(g, b)[k] = b - acc[k]
  BY BytesLeftTotals
<1>3. n - 1 \in Free
  <2>1. b - acc[n - 1] = g[n].bytes
    BY <1>1 DEF Totals
  <2>2. BytesLeft(g, b)[n - 1] = g[n].bytes
    BY <1>1, <1>2, <2>1
  <2>3. ~(g[n].bytes > MaxBytes) /\ ~(n - (n - 1) > MaxGops) /\ ~(n - (n - 1) > 1)
    BY <1>1, ConfigAssumption
  <2> QED BY <1>1, <2>2, <2>3 DEF OverLimit
<1>4. PICK m \in Free : \A k \in Free : m <= k
  <2>1. Free \subseteq Nat
    BY <1>1
  <2> HIDE DEF Free
  <2> QED BY <2>1, <1>3, LeastElement
<1>5. m \in 0..n /\ ~Over(m) /\ \A i \in 0..(m - 1) : Over(i)
  BY <1>1, <1>4
<1>6. /\ Pops(g, b) \in 0..n
      /\ ~Over(Pops(g, b))
      /\ \A i \in 0..(Pops(g, b) - 1) : Over(i)
  <2> HIDE DEF Over
  <2>1. Pops(g, b) = CHOOSE k \in 0..n : ~Over(k) /\ \A i \in 0..(k - 1) : Over(i)
    BY DEF Pops, Over
  <2> QED BY <2>1, <1>5
<1>7. Pops(g, b) # n
  BY <1>1, <1>3, <1>6
<1> QED BY <1>1, <1>2, <1>6, <1>7

(* Popping k groups takes their bytes off every later prefix total. *)
LEMMA TotalsAfterPops ==
    ASSUME NEW g \in Seq(CachedGop), NEW b \in Nat,
           NEW acc \in [0..Len(g) -> Nat], Totals(g, b, acc),
           NEW k \in 0..(Len(g) - 1)
    PROVE  LET h == SubSeq(g, k + 1, Len(g))
           IN  /\ b - acc[k] \in Nat
               /\ \E sum \in [0..Len(h) -> 0..(b - acc[k])] : Totals(h, b - acc[k], sum)
<1> DEFINE h == SubSeq(g, k + 1, Len(g))
           sum == [i \in 0..Len(h) |-> acc[i + k] - acc[k]]
<1>1. Len(g) \in Nat /\ k \in Nat /\ k < Len(g)
  OBVIOUS
<1>2. Len(h) = Len(g) - k /\ \A i \in 1..Len(h) : h[i] = g[i + k]
  BY <1>1
<1>3. \A i \in 0..Len(h) : i + k \in 0..Len(g)
  BY <1>1, <1>2
<1>4. \A i \in 0..Len(h) : acc[i + k] \in Nat /\ acc[k] <= acc[i + k] /\ acc[i + k] <= b
  <2>1. \A i \in 0..Len(h) : acc[i + k] \in Nat
    BY <1>3
  <2>2. \A i \in 0..Len(h) : acc[k] <= acc[i + k]
    BY <1>1, <1>3 DEF Totals
  <2>3. \A i \in 0..Len(h) : acc[i + k] <= acc[Len(g)]
    BY <1>1, <1>3 DEF Totals
  <2> QED BY <2>1, <2>2, <2>3 DEF Totals
<1>5. acc[k] \in Nat /\ b - acc[k] \in Nat
  BY <1>1, <1>2, <1>4
<1>6. sum \in [0..Len(h) -> 0..(b - acc[k])]
  <2>1. ASSUME NEW i \in 0..Len(h)
        PROVE  acc[i + k] - acc[k] \in 0..(b - acc[k])
    <3>1. acc[i + k] \in Nat /\ acc[k] <= acc[i + k] /\ acc[i + k] <= b
      BY <1>4
    <3> QED BY <3>1, <1>5
  <2> QED BY <2>1
<1>7. sum[0] = 0 /\ sum[Len(h)] = b - acc[k]
  BY <1>1, <1>2, <1>5 DEF Totals
<1>8. ASSUME NEW i \in 1..Len(h)
      PROVE  sum[i] = sum[i - 1] + h[i].bytes
  <2>1. i \in 0..Len(h) /\ i - 1 \in 0..Len(h) /\ (i - 1) + k = (i + k) - 1 /\ i + k \in 1..Len(g)
    BY <1>1, <1>2
  <2>2. acc[i + k] = acc[(i + k) - 1] + g[i + k].bytes
    BY <2>1 DEF Totals
  <2>3. g[i + k].bytes \in Nat
    <3>1. g[i + k] \in CachedGop
      BY <2>1
    <3> QED BY <3>1 DEF CachedGop
  <2>4. sum[i] = acc[i + k] - acc[k] /\ sum[i - 1] = acc[(i + k) - 1] - acc[k]
    BY <2>1
  <2>5. acc[(i + k) - 1] \in Nat
    BY <2>1, <1>4
  <2> QED BY <2>2, <2>3, <2>4, <2>5, <1>2, <1>5
<1>9. \A i, j \in 0..Len(h) : i <= j => sum[i] <= sum[j]
  <2> SUFFICES ASSUME NEW i \in 0..Len(h), NEW j \in 0..Len(h), i <= j
               PROVE  sum[i] <= sum[j]
    OBVIOUS
  <2>1. acc[i + k] <= acc[j + k]
    BY <1>1, <1>3 DEF Totals
  <2> QED BY <2>1, <1>4, <1>5
<1>10. Totals(h, b - acc[k], sum)
  <2> HIDE DEF sum, h
  <2> QED BY <1>7, <1>8, <1>9 DEF Totals
<1> HIDE DEF sum
<1> QED BY <1>5, <1>6, <1>10

(* A group pushed at the back, or grown there, adds its bytes to the last  *)
(* total only.                                                             *)
LEMMA TotalsAfterPush ==
    ASSUME NEW g \in Seq(CachedGop), NEW b \in Nat,
           NEW acc \in [0..Len(g) -> Nat], Totals(g, b, acc), NEW x \in CachedGop
    PROVE  \E sum \in [0..Len(Append(g, x)) -> Nat] :
               Totals(Append(g, x), b + x.bytes, sum)
<1> DEFINE h == Append(g, x)
           sum == [i \in 0..Len(h) |-> IF i <= Len(g) THEN acc[i] ELSE b + x.bytes]
<1>1. /\ Len(g) \in Nat
      /\ Len(h) = Len(g) + 1
      /\ h[Len(h)] = x
      /\ \A i \in 1..Len(g) : h[i] = g[i]
  OBVIOUS
<1>2. x.bytes \in Nat
  BY DEF CachedGop
<1>3. sum \in [0..Len(h) -> Nat] /\ sum[0] = 0 /\ sum[Len(h)] = b + x.bytes
  BY <1>1, <1>2 DEF Totals
<1>4. \A i \in 1..Len(h) : sum[i] = sum[i - 1] + h[i].bytes
  BY <1>1, <1>2 DEF Totals
<1>5. \A i \in 0..Len(g) : acc[i] <= b
  BY <1>1 DEF Totals
<1>6. ASSUME NEW i \in 0..Len(h), NEW j \in 0..Len(h), i <= j
      PROVE  sum[i] <= sum[j]
  <2>1. CASE j <= Len(g)
    <3>1. i \in 0..Len(g) /\ j \in 0..Len(g)
      BY <2>1, <1>6, <1>1
    <3>2. acc[i] <= acc[j]
      BY <3>1, <1>6 DEF Totals
    <3> QED BY <3>1, <3>2
  <2>2. CASE j = Len(h) /\ i <= Len(g)
    <3>1. i \in 0..Len(g) /\ acc[i] \in Nat
      BY <2>2, <1>1
    <3>2. acc[i] <= b
      BY <3>1, <1>5
    <3> QED BY <2>2, <3>1, <3>2, <1>1, <1>2
  <2>3. CASE i = Len(h) /\ j = Len(h)
    BY <2>3, <1>1, <1>2
  <2> QED BY <1>1, <1>6, <2>1, <2>2, <2>3
<1> HIDE DEF sum, h
<1>7. Totals(h, b + x.bytes, sum)
  BY <1>3, <1>4, <1>6 DEF Totals
<1> QED BY <1>3, <1>7 DEF h

LEMMA TotalsAfterGrowth ==
    ASSUME NEW g \in Seq(CachedGop), g # <<>>, NEW b \in Nat,
           NEW acc \in [0..Len(g) -> Nat], Totals(g, b, acc),
           NEW x \in CachedGop, NEW d \in Nat, x.bytes = g[Len(g)].bytes + d
    PROVE  \E sum \in [0..Len([g EXCEPT ![Len(g)] = x]) -> Nat] :
               Totals([g EXCEPT ![Len(g)] = x], b + d, sum)
<1>1. Len(g) \in Nat /\ Len(g) >= 1 /\ g \in [1..Len(g) -> CachedGop]
  OBVIOUS
<1>2. PICK n \in Nat : n = Len(g)
  BY <1>1
<1> DEFINE h == [g EXCEPT ![n] = x]
           sum == [i \in 0..n |-> IF i < n THEN acc[i] ELSE b + d]
<1>3. n \in 1..Len(g)
  BY <1>1, <1>2
<1>len. h \in Seq(CachedGop) /\ Len(h) = n /\ \A i \in 1..n : h[i] = IF i = n THEN x ELSE g[i]
  <2>1. /\ h \in Seq(CachedGop)
        /\ Len(h) = Len(g)
        /\ \A i \in 1..Len(g) : h[i] = IF i = n THEN x ELSE g[i]
    BY <1>3, ExceptSeq
  <2> QED BY <1>2, <2>1
<1> HIDE DEF h
<1>4. h[n] = x /\ \A i \in 1..(n - 1) : h[i] = g[i]
  <2>1. n \in 1..n /\ \A i \in 1..(n - 1) : i \in 1..n /\ i # n
    BY <1>3
  <2> QED BY <2>1, <1>len, Zenon
<1>5. /\ n >= 1
      /\ acc \in [0..n -> Nat]
      /\ acc[0] = 0 /\ acc[n] = b
      /\ \A i \in 1..n : acc[i] = acc[i - 1] + g[i].bytes
      /\ \A i, j \in 0..n : i <= j => acc[i] <= acc[j]
  BY <1>1, <1>2 DEF Totals
<1>6. g[n].bytes \in Nat
  <2>1. g[n] \in CachedGop
    BY <1>1, <1>2
  <2> QED BY <2>1 DEF CachedGop
<1>7. /\ sum \in [0..n -> Nat]
      /\ \A i \in 0..(n - 1) : sum[i] = acc[i]
      /\ sum[n] = b + d
  BY <1>5
<1> HIDE DEF sum
<1>8. ASSUME NEW i \in 1..n
      PROVE  sum[i] = sum[i - 1] + h[i].bytes
  <2>1. sum[i - 1] = acc[i - 1] /\ acc[i] = acc[i - 1] + g[i].bytes /\ acc[i - 1] \in Nat
    BY <1>5, <1>7
  <2>2. CASE i < n
    <3>1. i \in 0..(n - 1) /\ i \in 1..(n - 1)
      BY <2>2
    <3>2. sum[i] = acc[i] /\ h[i] = g[i]
      BY <3>1, <1>4, <1>7
    <3> QED BY <2>1, <3>2
  <2>3. CASE i = n
    <3>1. b = acc[n - 1] + g[n].bytes /\ h[n].bytes = g[n].bytes + d
      BY <2>1, <2>3, <1>2, <1>4, <1>5
    <3>2. sum[n] = b + d /\ sum[n - 1] = acc[n - 1] /\ acc[n - 1] \in Nat
      BY <2>1, <2>3, <1>7
    <3> QED BY <2>3, <3>1, <3>2, <1>6
  <2> QED BY <2>2, <2>3
<1>9. ASSUME NEW i \in 0..n, NEW j \in 0..n, i <= j
      PROVE  sum[i] <= sum[j]
  <2>1. acc[i] <= acc[j] /\ acc[i] <= acc[n] /\ acc[i] \in Nat
    BY <1>5, <1>9
  <2>2. CASE j < n
    <3>1. i \in 0..(n - 1) /\ j \in 0..(n - 1)
      BY <2>2, <1>9
    <3> QED BY <2>1, <3>1, <1>7
  <2>3. CASE j = n /\ i < n
    <3>1. sum[i] = acc[i] /\ sum[j] = b + d /\ acc[i] <= b
      BY <2>1, <2>3, <1>5, <1>7
    <3> QED BY <3>1, <2>1
  <2>4. CASE i = n
    BY <2>4, <1>5, <1>7, <1>9
  <2> QED BY <2>2, <2>3, <2>4
<1>10. Totals(h, b + d, sum)
  BY <1>len, <1>5, <1>7, <1>8, <1>9 DEF Totals
<1> QED BY <1>2, <1>len, <1>7, <1>10 DEF h

(* What trim_locked leaves, whatever push gave it. *)
LEMMA TrimKeepsBudget ==
    ASSUME NEW g \in Seq(CachedGop), g # <<>>, NEW b \in Nat,
           \E acc \in [0..Len(g) -> Nat] : Totals(g, b, acc),
           MaxGops # 0, g[Len(g)].bytes <= MaxBytes,
           MaxDurationMs > 0 =>
               g[Len(g)].end_pts_ms - g[Len(g)].start_pts_ms <= MaxDurationMs,
           trim_locked(g, b)
    PROVE  /\ gops_' \in Seq(CachedGop)
           /\ gops_' # <<>>
           /\ bytes_' \in Nat
           /\ BytesAccounted'
           /\ WithinBudget'
           /\ \A i \in DOMAIN gops_' : \E j \in DOMAIN g : gops_'[i] = g[j]
           /\ gops_'[Len(gops_')] = g[Len(g)]
<1>1. PICK acc \in [0..Len(g) -> Nat] : Totals(g, b, acc)
  OBVIOUS
<1>2. PICK n \in Nat : n = Len(g) /\ n >= 1 /\ DOMAIN g = 1..n
  OBVIOUS
<1>3. PICK k \in 0..(n - 1) :
          /\ ~OverLimit(g, k, b - acc[k])
          /\ gops_' = SubSeq(g, k + 1, n)
          /\ bytes_' = b - acc[k]
  <2>1. /\ Pops(g, b) \in 0..(Len(g) - 1)
        /\ BytesLeft(g, b)[Pops(g, b)] = b - acc[Pops(g, b)]
        /\ ~OverLimit(g, Pops(g, b), b - acc[Pops(g, b)])
    BY <1>1, PopsStops
  <2> QED BY <1>2, <2>1 DEF trim_locked
<1>4. /\ gops_' \in Seq(CachedGop)
      /\ Len(gops_') = n - k
      /\ \A i \in 1..(n - k) : gops_'[i] = g[i + k]
  <2>1. k + 1 \in 1..n + 1 /\ n \in 0..n
    BY <1>2, <1>3
  <2> QED BY <1>2, <1>3, <2>1
<1>5. gops_' # <<>> /\ n - k >= 1
  <2>1. n - k >= 1
    BY <1>2, <1>3
  <2>2. Len(gops_') # 0
    BY <1>3, <1>4, <2>1
  <2> QED BY <2>1, <2>2, EmptySeq
<1>6. bytes_' \in Nat /\ BytesAccounted'
  <2>1. /\ b - acc[k] \in Nat
        /\ \E sum \in [0..Len(gops_') -> 0..(b - acc[k])] : Totals(gops_', b - acc[k], sum)
    BY <1>1, <1>2, <1>3, TotalsAfterPops
  <2> QED BY <1>3, <2>1 DEF BytesAccounted
<1>7. DOMAIN gops_' = 1..(n - k)
  <2>1. DOMAIN gops_' = 1..Len(gops_')
    BY <1>4, LenProperties
  <2> QED BY <1>4, <2>1
<1>8. \A i \in DOMAIN gops_' : \E j \in DOMAIN g : gops_'[i] = g[j]
  <2> SUFFICES ASSUME NEW i \in 1..(n - k)
               PROVE  \E j \in 1..n : gops_'[i] = g[j]
    BY <1>2, <1>7
  <2>1. i + k \in 1..n
    BY <1>2, <1>3
  <2> QED BY <2>1, <1>4
<1>9. gops_'[Len(gops_')] = g[n] /\ gops_'[1] = g[k + 1]
  <2>1. n - k \in 1..(n - k) /\ 1 \in 1..(n - k) /\ (n - k) + k = n /\ 1 + k = k + 1
    BY <1>3, <1>5
  <2> QED BY <2>1, <1>4
<1>10. WithinBudget'
  <2>1. n - k <= MaxGops /\ b - acc[k] <= MaxBytes
    <3>1. ~(n - k > MaxGops) /\ ~(b - acc[k] > MaxBytes)
      BY <1>2, <1>3 DEF OverLimit
    <3> QED BY <3>1, <1>1, <1>2, <1>3, <1>6, ConfigAssumption
  <2>2. ASSUME MaxDurationMs > 0
        PROVE  g[n].end_pts_ms - g[k + 1].start_pts_ms <= MaxDurationMs
    <3>1. CASE n - k > 1
      <4>1. ~(g[n].end_pts_ms - g[k + 1].start_pts_ms > MaxDurationMs)
        BY <1>2, <1>3, <2>2, <3>1 DEF OverLimit
      <4>2. g[n] \in CachedGop /\ g[k + 1] \in CachedGop
        BY <1>2, <1>3
      <4>3. g[n].end_pts_ms \in Nat /\ g[k + 1].start_pts_ms \in Nat
        BY <4>2 DEF CachedGop
      <4> QED BY <4>1, <4>3, ConfigAssumption
    <3>2. CASE k = n - 1
      <4>1. k + 1 = n
        BY <3>2, <1>2
      <4> QED BY <4>1, <1>2, <2>2
    <3> QED BY <1>2, <1>3, <3>1, <3>2
  <2> QED BY <1>3, <1>4, <1>9, <2>1, <2>2 DEF WithinBudget
<1> QED BY <1>2, <1>4, <1>5, <1>6, <1>8, <1>9, <1>10

(* A group stays one as more frames are published. *)
LEMMA IsGopLater ==
    ASSUME NEW fs \in Seq(Frame), NEW n \in Nat, IsGop(fs, n)
    PROVE  IsGop(fs, n + 1)
<1>1. ASSUME NEW j \in DOMAIN fs
      PROVE  fs[j].seq <= n + 1
  <2>1. fs[j] \in Frame /\ fs[j].seq <= n
    BY DEF IsGop
  <2>2. fs[j].seq \in Nat
    BY <2>1 DEF Frame
  <2> QED BY <2>1, <2>2
<1> QED BY <1>1 DEF IsGop

Inv == TypeOK /\ BytesAccounted /\ WithinBudget /\ KeyFirst

(* What a push that caches frame f leaves of Inv: g is the deque and b the *)
(* byte count push hands to trim_locked, the newest group ending in f.     *)
LEMMA AcceptedPush ==
    ASSUME Inv, NEW f \in Frame, f.seq = published + 1,
           published' = published + 1,
           NEW g \in Seq(CachedGop), g # <<>>, NEW b \in Nat,
           \E acc \in [0..Len(g) -> Nat] : Totals(g, b, acc),
           MaxGops # 0, g[Len(g)].bytes <= MaxBytes,
           MaxDurationMs > 0 =>
               g[Len(g)].end_pts_ms - g[Len(g)].start_pts_ms <= MaxDurationMs,
           \A j \in DOMAIN g : IsGop(g[j].frames, published + 1),
           g[Len(g)].frames[Len(g[Len(g)].frames)] = f,
           trim_locked(g, b)
    PROVE  /\ gops_' \in Seq(CachedGop) /\ bytes_' \in Nat
           /\ BytesAccounted' /\ WithinBudget' /\ KeyFirst'
           /\ gops_' # <<>>
           /\ LET fs == gops_'[Len(gops_')].frames IN fs[Len(fs)].seq = published'
<1>1. /\ gops_' \in Seq(CachedGop)
      /\ gops_' # <<>>
      /\ bytes_' \in Nat
      /\ BytesAccounted'
      /\ WithinBudget'
      /\ \A i \in DOMAIN gops_' : \E j \in DOMAIN g : gops_'[i] = g[j]
      /\ gops_'[Len(gops_')] = g[Len(g)]
  BY TrimKeepsBudget
<1>2. KeyFirst'
  BY <1>1 DEF KeyFirst
<1> QED BY <1>1, <1>2

LEMMA StartGopInv ==
    ASSUME Inv, NEW f \in Frame, f.seq = published + 1, published' = published + 1,
           StartGop(f)
    PROVE  /\ gops_' \in Seq(CachedGop) /\ bytes_' \in Nat
           /\ BytesAccounted' /\ WithinBudget' /\ KeyFirst'
           /\ gops_' # <<>>
           /\ LET fs == gops_'[Len(gops_')].frames IN fs[Len(fs)].seq = published'
<1> DEFINE x == NewGop(f)
           g == Append(gops_, x)
           b == bytes_ + f.size
<1>1. /\ f.pts \in Nat /\ f.size \in Nat /\ f.seq \in Nat
      /\ f.video /\ f.key
      /\ f.size <= MaxBytes /\ MaxGops # 0
      /\ gops_ \in Seq(CachedGop) /\ bytes_ \in Nat /\ published \in Nat
  BY DEF StartGop, Cacheable, Frame, Inv, TypeOK
<1>2. <<f>> \in Seq(Frame) /\ Len(<<f>>) = 1 /\ <<f>>[1] = f
  OBVIOUS
<1>3. x \in CachedGop /\ x.bytes = f.size /\ x.frames = <<f>>
      /\ x.start_pts_ms = f.pts /\ x.end_pts_ms = f.pts
  BY <1>1, <1>2 DEF NewGop, CachedGop
<1> HIDE DEF x
<1>4. /\ g \in Seq(CachedGop)
      /\ Len(g) = Len(gops_) + 1
      /\ g[Len(g)] = x
      /\ \A i \in 1..Len(gops_) : g[i] = gops_[i]
  BY <1>1, <1>3
<1>5. b \in Nat
  BY <1>1
<1>6. \E acc \in [0..Len(g) -> Nat] : Totals(g, b, acc)
  <2>1. PICK acc \in [0..Len(gops_) -> 0..bytes_] : Totals(gops_, bytes_, acc)
    BY DEF Inv, BytesAccounted
  <2>2. acc \in [0..Len(gops_) -> Nat]
    BY <1>1, <2>1
  <2> QED BY <1>1, <1>3, <2>1, <2>2, TotalsAfterPush
<1>7. \A j \in DOMAIN g : IsGop(g[j].frames, published + 1)
  <2>1. IsGop(x.frames, published + 1)
    BY <1>1, <1>2, <1>3 DEF IsGop
  <2>2. ASSUME NEW j \in 1..Len(gops_)
        PROVE  IsGop(g[j].frames, published + 1)
    <3>1. g[j] = gops_[j] /\ gops_[j] \in CachedGop /\ IsGop(gops_[j].frames, published)
      BY <1>1, <1>4 DEF Inv, KeyFirst
    <3>2. gops_[j].frames \in Seq(Frame)
      BY <3>1 DEF CachedGop
    <3> QED BY <3>1, <3>2, <1>1, IsGopLater
  <2>3. \A j \in DOMAIN g : j \in 1..Len(gops_) \/ j = Len(g)
    BY <1>1, <1>4
  <2> QED BY <2>1, <2>2, <2>3, <1>4
<1>8. g # <<>> /\ trim_locked(g, b)
  BY <1>1, <1>4 DEF StartGop, x
<1>9. MaxDurationMs > 0 => g[Len(g)].end_pts_ms - g[Len(g)].start_pts_ms <= MaxDurationMs
  BY <1>1, <1>3, <1>4, ConfigAssumption
<1>10. g[Len(g)].frames[Len(g[Len(g)].frames)] = f /\ g[Len(g)].bytes <= MaxBytes
  BY <1>1, <1>2, <1>3, <1>4
<1> HIDE DEF g, b
<1> QED BY <1>1, <1>4, <1>5, <1>6, <1>7, <1>8, <1>9, <1>10, AcceptedPush

LEMMA ExtendGopInv ==
    ASSUME Inv, NEW f \in Frame, f.seq = published + 1, published' = published + 1,
           ExtendGop(f)
    PROVE  /\ gops_' \in Seq(CachedGop) /\ bytes_' \in Nat
           /\ BytesAccounted' /\ WithinBudget' /\ KeyFirst'
           /\ gops_' # <<>>
           /\ LET fs == gops_'[Len(gops_')].frames IN fs[Len(fs)].seq = published'
<1>1. /\ f.pts \in Nat /\ f.size \in Nat /\ f.seq \in Nat
      /\ f.video /\ ~f.key
      /\ f.size <= MaxBytes /\ MaxGops # 0
      /\ gops_ \in Seq(CachedGop) /\ bytes_ \in Nat /\ published \in Nat
      /\ gops_ # <<>>
  BY DEF ExtendGop, Cacheable, Frame, Inv, TypeOK
<1>2. PICK n \in Nat : n = Len(gops_) /\ n >= 1 /\ n \in 1..Len(gops_) /\ DOMAIN gops_ = 1..n
  BY <1>1
<1>3. PICK o \in CachedGop : o = gops_[n]
  BY <1>1, <1>2
<1> DEFINE x == Extended(o, f)
           g == [gops_ EXCEPT ![n] = x]
           b == bytes_ + f.size
<1>4. Fits(o, f) /\ IsGop(o.frames, published)
  BY <1>2, <1>3 DEF ExtendGop, Inv, KeyFirst
<1>5. /\ o.frames \in Seq(Frame) /\ o.bytes \in Nat /\ o.start_pts_ms \in Nat
      /\ Append(o.frames, f) \in Seq(Frame)
  <2>1. o.frames \in Seq(Frame) /\ o.bytes \in Nat /\ o.start_pts_ms \in Nat
    BY <1>3 DEF CachedGop
  <2> QED BY <2>1, AppendProperties
<1>6. x \in CachedGop /\ x.bytes = o.bytes + f.size /\ x.frames = Append(o.frames, f)
      /\ x.start_pts_ms = o.start_pts_ms /\ x.end_pts_ms = f.pts
  <2>1. o.bytes + f.size \in Nat
    BY <1>1, <1>5
  <2>2. x = [frames |-> Append(o.frames, f), start_pts_ms |-> o.start_pts_ms,
             end_pts_ms |-> f.pts, bytes |-> o.bytes + f.size]
    BY DEF Extended
  <2>3. x \in CachedGop
    BY <1>1, <1>5, <2>1, <2>2 DEF CachedGop
  <2> QED BY <2>2, <2>3
<1>7. IsGop(x.frames, published + 1)
  <2>1. PICK m \in Nat : m = Len(o.frames) /\ m >= 1 /\ DOMAIN o.frames = 1..m
    BY <1>4, <1>5 DEF IsGop
  <2>2. DOMAIN x.frames = 1..(m + 1) /\ x.frames[m + 1] = f
        /\ \A j \in 1..m : x.frames[j] = o.frames[j]
    <3>1. /\ Len(x.frames) = Len(o.frames) + 1
          /\ \A j \in 1..Len(o.frames) : x.frames[j] = o.frames[j]
          /\ x.frames[Len(o.frames) + 1] = f
      BY <1>5, <1>6, AppendProperties
    <3>2. DOMAIN x.frames = 1..Len(x.frames)
      BY <1>5, <1>6, LenProperties
    <3> QED BY <3>1, <3>2, <2>1
  <2>3. ASSUME NEW j \in 1..m
        PROVE  o.frames[j].seq \in Nat
    <3>1. o.frames[j] \in Frame
      BY <1>5, <2>1
    <3> QED BY <3>1 DEF Frame
  <2>4. x.frames # <<>>
    BY <1>5, <1>6, AppendProperties
  <2>5. ASSUME NEW j \in 1..(m + 1)
        PROVE  /\ x.frames[j].video
               /\ x.frames[j].key <=> j = 1
               /\ x.frames[j].seq <= published + 1
    <3>1. CASE j \in 1..m
      <4>1. /\ o.frames[j].video /\ (o.frames[j].key <=> j = 1)
            /\ o.frames[j].seq <= published
        BY <3>1, <1>4, <2>1 DEF IsGop
      <4>2. x.frames[j] = o.frames[j] /\ o.frames[j].seq \in Nat
        BY <3>1, <2>2, <2>3
      <4> QED BY <4>1, <4>2, <1>1
    <3>2. CASE j = m + 1
      BY <3>2, <1>1, <2>1, <2>2
    <3> QED BY <3>1, <3>2, <2>1
  <2>6. ASSUME NEW j \in 1..(m + 1), NEW k \in 1..(m + 1), j < k
        PROVE  x.frames[j].seq < x.frames[k].seq
    <3>1. j \in 1..m
      BY <2>1, <2>6
    <3>2. CASE k \in 1..m
      <4>1. o.frames[j].seq < o.frames[k].seq
        BY <3>1, <3>2, <2>1, <2>6, <1>4 DEF IsGop
      <4> QED BY <4>1, <3>1, <3>2, <2>2
    <3>3. CASE k = m + 1
      <4>1. o.frames[j].seq <= published /\ o.frames[j].seq \in Nat
        BY <3>1, <2>1, <2>3, <1>4 DEF IsGop
      <4> QED BY <4>1, <3>1, <3>3, <2>2, <1>1
    <3> QED BY <3>2, <3>3, <2>1
  <2> QED BY <2>2, <2>4, <2>5, <2>6 DEF IsGop
<1> HIDE DEF x
<1>8. /\ g \in Seq(CachedGop)
      /\ Len(g) = n
      /\ \A i \in 1..n : g[i] = IF i = n THEN x ELSE gops_[i]
  <2>1. /\ g \in Seq(CachedGop)
        /\ Len(g) = Len(gops_)
        /\ \A i \in 1..Len(gops_) : g[i] = IF i = n THEN x ELSE gops_[i]
    BY <1>1, <1>2, <1>6, ExceptSeq
  <2> QED BY <1>2, <2>1
<1>9. b \in Nat
  BY <1>1
<1>10. \E acc \in [0..Len(g) -> Nat] : Totals(g, b, acc)
  <2>1. PICK acc \in [0..Len(gops_) -> 0..bytes_] : Totals(gops_, bytes_, acc)
    BY DEF Inv, BytesAccounted
  <2>2. acc \in [0..Len(gops_) -> Nat]
    BY <1>1, <2>1
  <2> QED BY <1>1, <1>2, <1>3, <1>6, <2>1, <2>2, TotalsAfterGrowth
<1>11. trim_locked(g, b)
  BY <1>2, <1>3 DEF ExtendGop, x
<1> HIDE DEF g
<1>12. g[n] = x /\ g # <<>> /\ DOMAIN g = 1..n
  <2>1. n \in 1..n /\ DOMAIN g = 1..n
    BY <1>2, <1>8, LenProperties
  <2>2. g[n] = x
    BY <2>1, <1>8, Zenon
  <2> QED BY <2>1, <2>2, <1>2, <1>8, EmptySeq
<1>13. \A j \in DOMAIN g : IsGop(g[j].frames, published + 1)
  <2> SUFFICES ASSUME NEW j \in 1..n
               PROVE  IsGop(g[j].frames, published + 1)
    BY <1>12
  <2>1. CASE j = n
    BY <2>1, <1>7, <1>12
  <2>2. CASE j # n
    <3>1. g[j] = gops_[j]
      BY <2>2, <1>8, Zenon
    <3>2. gops_[j] \in CachedGop /\ IsGop(gops_[j].frames, published)
      BY <1>1, <1>2 DEF Inv, KeyFirst
    <3>3. gops_[j].frames \in Seq(Frame)
      BY <3>2 DEF CachedGop
    <3> QED BY <3>1, <3>2, <3>3, <1>1, IsGopLater
  <2> QED BY <2>1, <2>2
<1>14. g[n].bytes <= MaxBytes
  BY <1>1, <1>4, <1>5, <1>6, <1>12, ConfigAssumption DEF Fits
<1>15. MaxDurationMs > 0 => g[n].end_pts_ms - g[n].start_pts_ms <= MaxDurationMs
  BY <1>4, <1>6, <1>12 DEF Fits
<1>16. g[n].frames[Len(g[n].frames)] = f
  BY <1>5, <1>6, <1>12
<1> HIDE DEF b
<1> QED BY <1>1, <1>8, <1>9, <1>10, <1>11, <1>12, <1>13, <1>14, <1>15, <1>16, AcceptedPush

LEMMA RejectInv ==
    ASSUME Inv, published' = published + 1, UNCHANGED <<gops_, bytes_>>
    PROVE  /\ gops_' \in Seq(CachedGop) /\ bytes_' \in Nat
           /\ BytesAccounted' /\ WithinBudget' /\ KeyFirst'
<1>1. published \in Nat /\ gops_ \in Seq(CachedGop) /\ bytes_ \in Nat
  BY DEF Inv, TypeOK
<1>2. ASSUME NEW i \in DOMAIN gops_
      PROVE  IsGop(gops_[i].frames, published + 1)
  <2>1. gops_[i] \in CachedGop /\ IsGop(gops_[i].frames, published)
    BY <1>1 DEF Inv, KeyFirst
  <2>2. gops_[i].frames \in Seq(Frame)
    BY <2>1 DEF CachedGop
  <2> QED BY <1>1, <2>1, <2>2, IsGopLater
<1>3. KeyFirst'
  BY <1>2 DEF KeyFirst
<1> QED BY <1>1, <1>3 DEF Inv, BytesAccounted, WithinBudget

(* One step of the cache: the invariant, and what a push that changes the  *)
(* cache leaves at the back.                                               *)
LEMMA StepInv ==
    ASSUME Inv, Next
    PROVE  /\ Inv'
           /\ <<gops_, bytes_>>' # <<gops_, bytes_>> =>
                 /\ gops_' # <<>>
                 /\ LET fs == gops_'[Len(gops_')].frames IN fs[Len(fs)].seq = published'
<1>1. PICK video \in BOOLEAN, key \in BOOLEAN, size \in Sizes, step \in PtsSteps :
          push([video |-> video, key |-> key, size |-> size,
                pts |-> lastPts + step, seq |-> published + 1])
  BY DEF Next
<1> DEFINE f == [video |-> video, key |-> key, size |-> size,
                 pts |-> lastPts + step, seq |-> published + 1]
<1>2. /\ published \in Nat /\ lastPts \in Nat /\ lastKey \in 0..published
      /\ size \in Nat /\ step \in Nat
  BY ConfigAssumption DEF Inv, TypeOK
<1>3. f \in Frame /\ f.seq = published + 1 /\ f.pts \in Nat
  BY <1>2 DEF Frame
<1> HIDE DEF f
<1>4. /\ published' = published + 1
      /\ lastPts' = f.pts
      /\ lastKey' = f.seq \/ lastKey' = lastKey
      /\ StartGop(f) \/ ExtendGop(f) \/ Reject(f)
  BY <1>1 DEF push, f
<1>5. published' \in Nat /\ lastPts' \in Nat /\ lastKey' \in 0..published'
  BY <1>2, <1>3, <1>4
<1>6. CASE StartGop(f)
  BY <1>3, <1>4, <1>5, <1>6, StartGopInv DEF Inv, TypeOK
<1>7. CASE ExtendGop(f)
  BY <1>3, <1>4, <1>5, <1>7, ExtendGopInv DEF Inv, TypeOK
<1>8. CASE Reject(f)
  BY <1>4, <1>5, <1>8, RejectInv DEF Reject, Inv, TypeOK
<1> QED BY <1>4, <1>6, <1>7, <1>8

(* The cache keeps its books, its budget and its groups for every          *)
(* configuration (gop_cache.cpp): bytes_ is the sum of the groups' bytes   *)
(* and stays within max_bytes, there are never more than max_gops groups   *)
(* nor a span above max_duration_ms, and every group starts at its key.    *)
THEOREM CacheInvariant == Spec => [](TypeOK /\ BytesAccounted /\ WithinBudget /\ KeyFirst)
<1>1. Init => Inv
  <2> SUFFICES ASSUME Init PROVE Inv
    OBVIOUS
  <2>1. gops_ = <<>> /\ bytes_ = 0 /\ published = 0 /\ lastPts = 0 /\ lastKey = 0
    BY DEF Init
  <2>2. TypeOK
    BY <2>1 DEF TypeOK
  <2>3. BytesAccounted
    <3> DEFINE acc == [i \in 0..0 |-> 0]
    <3>1. acc \in [0..Len(gops_) -> 0..bytes_] /\ Totals(gops_, bytes_, acc)
      BY <2>1 DEF Totals
    <3> HIDE DEF acc
    <3> QED BY <3>1 DEF BytesAccounted
  <2>4. WithinBudget /\ KeyFirst
    BY <2>1, ConfigAssumption DEF WithinBudget, KeyFirst
  <2> QED BY <2>2, <2>3, <2>4 DEF Inv
<1>2. Inv /\ [Next]_vars => Inv'
  <2>1. ASSUME Inv, UNCHANGED vars PROVE Inv'
    BY <2>1 DEF Inv, TypeOK, BytesAccounted, WithinBudget, KeyFirst, vars
  <2> QED BY <2>1, StepInv
<1> QED BY <1>1, <1>2, PTL DEF Spec, Inv

(* No sequence of pushes leaves the cache with a frame, a size or a        *)
(* timestamp out of its range.                                             *)
THEOREM CacheIsTyped == Spec => []TypeOK
  BY CacheInvariant, PTL

(* After every push trim_locked has brought the cache within max_gops,     *)
(* max_bytes and max_duration_ms, whichever of them was exceeded first.    *)
THEOREM CacheKeepsBudget == Spec => []WithinBudget
  BY CacheInvariant, PTL

(* An accepted push always survives its own trim (gop_cache.cpp:53-61).    *)
THEOREM NewestAlwaysKept == Spec => NewestKept
<1>1. Spec => []Inv
  BY CacheInvariant, PTL DEF Inv
<1>2. Inv /\ [Next]_vars =>
        [ <<gops_, bytes_>>' # <<gops_, bytes_>> =>
          /\ gops_' # <<>>
          /\ LET fs == gops_'[Len(gops_')].frames
             IN  fs[Len(fs)].seq = published' ]_vars
  BY StepInv DEF vars
<1> QED BY <1>1, <1>2, PTL DEF Spec, NewestKept
=============================================================================
