------------------------- MODULE SegmentStoreProofs -------------------------
(***************************************************************************)
(* The recording on the card for any number of days, segments and crashes: *)
(* what the retention keeps is what is there, and the index of a session   *)
(* says so.                                                                *)
(*                                                                         *)
(* An operation of the recorder is a list of effects, carried out one by   *)
(* one.  The first part is about the lists: what each operator of the      *)
(* recorder adds to them.  The second is about their execution, the third  *)
(* about the types, the uploader's and the server's among them, the fourth *)
(* about what the cloud keeps, and the fifth about what it has in the end. *)
(***************************************************************************)
EXTENDS SegmentStore, FiniteSetTheorems, TLAPS, WellFoundedInduction, NaturalsInduction

Item == [seg : Segs, dur : Nat]
Playlist == [day : Days \cup {NoDay}, list : Seq(Segs), ended : BOOLEAN]
Effects ==
    [op : {"create"}, key : Segs \cup {InitKey(d) : d \in Days}, listing : {None}]
    \cup [op : {"unlink", "put", "del"}, key : Keys, listing : {None}]
    \cup [op : {"index"}, key : {IndexKey(d) : d \in Days}, listing : Listing]
Recorder == [kept : Seq(Item), pl : Playlist, curDay : Days \cup {NoDay}, session : BOOLEAN,
             open : Segs \cup {None}, ops : Seq(Effects)]

-----------------------------------------------------------------------------
(* Every non-empty set of naturals has a least element: induction in the   *)
(* form the provers can use, with a set in place of a predicate.           *)
LEMMA LeastElement ==
  ASSUME NEW T, T \subseteq Nat, T # {}
  PROVE  \E m \in T : \A n \in T : m <= n
<1>1. IsWellFoundedOn(OpToRel(<, Nat), Nat)
  BY NatLessThanWellFounded
<1>2. PICK m \in T : \A n \in T : <<n, m>> \notin OpToRel(<, Nat)
  BY <1>1, WFMin, Zenon
<1>3. \A n \in T : ~(n < m)
  BY <1>2 DEF OpToRel
<1> QED BY <1>3

(* Induction up to n: what holds of 0 and of the next holds of n. *)
LEMMA Climb ==
  ASSUME NEW n \in Nat, NEW T, 0 \in T, \A i \in 1..n : i - 1 \in T => i \in T
  PROVE  \A i \in 0..n : i \in T
<1> DEFINE Bad == {i \in 0..n : i \notin T}
<1>1. CASE Bad = {}
  BY <1>1
<1>2. CASE Bad # {}
  <2>1. Bad \subseteq Nat
    OBVIOUS
  <2>2. PICK m \in Bad : \A i \in Bad : m <= i
    <3> HIDE DEF Bad
    <3> QED BY <1>2, <2>1, LeastElement
  <2>3. m # 0
    BY <2>2
  <2>4. m \in 1..n /\ m - 1 \in 0..n /\ m - 1 \notin Bad
    BY <2>2, <2>3
  <2> QED BY <2>2, <2>4
<1> QED BY <1>1, <1>2

-----------------------------------------------------------------------------
(* Keys.                                                                   *)

LEMMA KeyFacts ==
  /\ \A d, n : /\ Seg(d, n) = <<"seg", d, n>> /\ DayOf(Seg(d, n)) = d /\ Kind(Seg(d, n)) = "seg"
               /\ Seg(d, n)[3] = n
  /\ \A d : Kind(InitKey(d)) = "init" /\ DayOf(InitKey(d)) = d
  /\ \A d : Kind(IndexKey(d)) = "index" /\ DayOf(IndexKey(d)) = d
BY DEF Seg, InitKey, IndexKey, Kind, DayOf

LEMMA SegFacts ==
  /\ \A s \in Segs : /\ Kind(s) = "seg" /\ DayOf(s) \in Days /\ s[3] \in 1..MaxSegs
                     /\ s = Seg(DayOf(s), s[3]) /\ s # None
  /\ \A d \in Days : InitKey(d) \in Keys /\ IndexKey(d) \in Keys
  /\ Segs \subseteq Keys
  /\ \A d : InitKey(d) \notin Segs /\ IndexKey(d) \notin Segs
  /\ \A d, e : InitKey(d) # IndexKey(e)
  /\ \A d, e : IndexKey(d) = IndexKey(e) => d = e
<1>1. ASSUME NEW s \in Segs
      PROVE  /\ Kind(s) = "seg" /\ DayOf(s) \in Days /\ s[3] \in 1..MaxSegs
             /\ s = Seg(DayOf(s), s[3]) /\ s # None
  <2>1. PICK d \in Days, n \in 1..MaxSegs : s = Seg(d, n)
    BY DEF Segs
  <2>2. s # None
    BY <2>1 DEF Seg, None
  <2> QED BY <2>1, <2>2, KeyFacts
<1>2. \A d : Kind(InitKey(d)) # "seg" /\ Kind(IndexKey(d)) # "seg"
  BY KeyFacts
<1>3. \A d, e : InitKey(d) # IndexKey(e) /\ (IndexKey(d) = IndexKey(e) => d = e)
  BY KeyFacts DEF InitKey, IndexKey, Kind, DayOf
<1> QED BY <1>1, <1>2, <1>3 DEF Keys

-----------------------------------------------------------------------------
(* The kept segments of a day.                                             *)

(* Is s kept? *)
In(kept, s) == \E i \in 1..Len(kept) : kept[i].seg = s
Distinct(kept) == \A i, j \in 1..Len(kept) : kept[i].seg = kept[j].seg => i = j
Among(list, s) == \E i \in 1..Len(list) : list[i] = s

Next1(q, d, i, found) ==
    IF DayOf(q[i].seg) = d THEN Append(found, q[i].seg) ELSE found
Selects(q, d, f) == f[0] = <<>> /\ \A i \in 1..Len(q) : f[i] = Next1(q, d, i, f[i - 1])

LEMMA ItemFacts == \A q \in Seq(Item) : \A i \in 1..Len(q) : q[i] \in Item /\ q[i].seg \in Segs
<1>1. \A x \in Item : x.seg \in Segs
  BY DEF Item
<1>2. \A q \in Seq(Item) : \A i \in 1..Len(q) : q[i] \in Item
  OBVIOUS
<1> QED BY <1>1, <1>2

LEMMA SelectionExists ==
  ASSUME NEW q \in Seq(Item), NEW d
  PROVE  \E f \in [0..Len(q) -> Seq(Segs)] : Selects(q, d, f)
<1> DEFINE n == Len(q)
           OK(m, f) == f[0] = <<>> /\ \A i \in 1..m : f[i] = Next1(q, d, i, f[i - 1])
           T == {m \in 0..n : \E f \in [0..m -> Seq(Segs)] : OK(m, f)}
<1>1. n \in Nat /\ \A i \in 1..n : q[i].seg \in Segs
  BY ItemFacts
<1>2. 0 \in T
  <2> DEFINE f == [i \in 0..0 |-> <<>>]
  <2>1. f \in [0..0 -> Seq(Segs)] /\ OK(0, f)
    OBVIOUS
  <2> HIDE DEF f
  <2> QED BY <1>1, <2>1
<1>3. ASSUME NEW m \in 1..n, m - 1 \in T PROVE m \in T
  <2>1. PICK f \in [0..(m - 1) -> Seq(Segs)] : OK(m - 1, f)
    BY <1>3
  <2> DEFINE new == Next1(q, d, m, f[m - 1])
             g == [i \in 0..m |-> IF i = m THEN new ELSE f[i]]
  <2>2. m \in Nat /\ m - 1 \in 0..(m - 1) /\ m >= 1
    BY <1>1
  <2>3. new \in Seq(Segs)
    BY <1>1, <2>1, <2>2 DEF Next1
  <2> HIDE DEF new
  <2>4. g \in [0..m -> Seq(Segs)]
    BY <2>1, <2>2, <2>3
  <2>5. g[0] = <<>> /\ g[m] = new /\ \A i \in 0..(m - 1) : g[i] = f[i]
    BY <2>1, <2>2
  <2> HIDE DEF g
  <2>6. ASSUME NEW i \in 1..m PROVE g[i] = Next1(q, d, i, g[i - 1])
    <3>1. CASE i = m
      BY <2>2, <2>5, <3>1 DEF new
    <3>2. CASE i # m
      <4>1. i \in 1..(m - 1) /\ i - 1 \in 0..(m - 1) /\ i \in 0..(m - 1)
        BY <2>2, <3>2
      <4> QED BY <2>1, <2>5, <4>1
    <3> QED BY <3>1, <3>2
  <2>7. OK(m, g)
    BY <2>5, <2>6
  <2> HIDE DEF OK
  <2> QED BY <1>1, <2>4, <2>7
<1>4. n \in T
  <2> HIDE DEF T
  <2>1. \A i \in 0..n : i \in T
    BY <1>1, <1>2, <1>3, Climb
  <2> QED BY <1>1, <2>1
<1> QED BY <1>4 DEF Selects

(* The recursion of the model is the one. *)
LEMMA OfDayIs ==
  ASSUME NEW q \in Seq(Item), NEW d, NEW f \in [0..Len(q) -> Seq(Segs)], Selects(q, d, f)
  PROVE  OfDay(q, d) = f[Len(q)]
<1> DEFINE Dom == 0..Len(q)
           Step(g) == [i \in Dom |->
                         IF i = 0 THEN <<>>
                         ELSE IF DayOf(q[i].seg) = d THEN Append(g[i - 1], q[i].seg) ELSE g[i - 1]]
           upTo == CHOOSE g : g = Step(g)
<1>1. Len(q) \in Nat
  OBVIOUS
<1>2. f = Step(f)
  <2>1. f[0] = <<>> /\ \A i \in 1..Len(q) : f[i] = Next1(q, d, i, f[i - 1])
    BY DEF Selects
  <2>2. ASSUME NEW i \in Dom PROVE f[i] = Step(f)[i]
    <3>1. CASE i = 0
      BY <2>1, <3>1
    <3>2. CASE i # 0
      <4>1. i \in 1..Len(q)
        BY <1>1, <3>2
      <4> QED BY <2>1, <3>2, <4>1 DEF Next1
    <3> QED BY <3>1, <3>2
  <2>3. f = [i \in Dom |-> f[i]] /\ Step(f) = [i \in Dom |-> Step(f)[i]]
    OBVIOUS
  <2> HIDE DEF Step
  <2> QED BY <2>2, <2>3
<1>3. upTo = Step(upTo)
  <2> HIDE DEF Step
  <2> QED BY <1>2
<1>4. OfDay(q, d) = upTo[Len(q)]
  BY DEF OfDay
<1>5. upTo[0] = <<>> /\ \A i \in 1..Len(q) : upTo[i] = Next1(q, d, i, upTo[i - 1])
  <2> HIDE DEF upTo
  <2>1. \A i \in Dom : upTo[i] = Step(upTo)[i]
    <3> HIDE DEF Step
    <3> QED BY <1>3
  <2>2. upTo[0] = <<>>
    BY <1>1, <2>1
  <2>3. ASSUME NEW i \in 1..Len(q) PROVE upTo[i] = Next1(q, d, i, upTo[i - 1])
    <3>1. i \in Dom /\ i # 0
      BY <1>1
    <3> QED BY <2>1, <3>1 DEF Next1
  <2> QED BY <2>2, <2>3
<1> HIDE DEF upTo
<1> DEFINE T == {i \in 0..Len(q) : upTo[i] = f[i]}
<1>6. 0 \in T
  BY <1>1, <1>5 DEF Selects
<1>7. ASSUME NEW i \in 1..Len(q), i - 1 \in T PROVE i \in T
  BY <1>1, <1>5, <1>7 DEF Selects
<1>8. Len(q) \in T
  <2> HIDE DEF T
  <2>1. \A i \in 0..Len(q) : i \in T
    BY <1>1, <1>6, <1>7, Climb
  <2> QED BY <1>1, <2>1
<1> QED BY <1>4, <1>8

LEMMA OfDayEmpty == \A d : OfDay(<<>>, d) = <<>>
<1> SUFFICES ASSUME NEW d PROVE OfDay(<<>>, d) = <<>>
  OBVIOUS
<1>1. <<>> \in Seq(Item) /\ Len(<<>>) = 0
  OBVIOUS
<1>2. PICK f \in [0..Len(<<>>) -> Seq(Segs)] : Selects(<<>>, d, f)
  BY <1>1, SelectionExists
<1>3. OfDay(<<>>, d) = f[Len(<<>>)]
  BY <1>1, <1>2, OfDayIs
<1> QED BY <1>1, <1>2, <1>3 DEF Selects

(* A day's segments are kept and of that day. *)
LEMMA OfDayListed ==
  ASSUME NEW q \in Seq(Item), NEW d
  PROVE  /\ OfDay(q, d) \in Seq(Segs)
         /\ \A s : Among(OfDay(q, d), s) => In(q, s) /\ DayOf(s) = d
<1>1. PICK f \in [0..Len(q) -> Seq(Segs)] : Selects(q, d, f)
  BY SelectionExists
<1>2. OfDay(q, d) = f[Len(q)]
  BY <1>1, OfDayIs
<1>3. Len(q) \in Nat /\ Len(q) \in 0..Len(q)
  OBVIOUS
<1> DEFINE Fine(x) == \A s : Among(x, s) => In(q, s) /\ DayOf(s) = d
           T == {i \in 0..Len(q) : Fine(f[i])}
<1>4. 0 \in T
  BY <1>1, <1>3 DEF Selects, Among
<1>5. ASSUME NEW i \in 1..Len(q), i - 1 \in T PROVE i \in T
  <2>1. f[i] = Next1(q, d, i, f[i - 1]) /\ i - 1 \in 0..Len(q)
    BY <1>1, <1>3 DEF Selects
  <2>2. CASE DayOf(q[i].seg) # d
    BY <1>3, <1>5, <2>1, <2>2 DEF Next1
  <2>3. CASE DayOf(q[i].seg) = d
    <3> DEFINE x == f[i - 1]
    <3>1. x \in Seq(Segs) /\ Fine(x) /\ f[i] = Append(x, q[i].seg)
      BY <1>1, <1>5, <2>1, <2>3 DEF Next1
    <3> HIDE DEF x
    <3>2. ASSUME NEW s, Among(f[i], s) PROVE In(q, s) /\ DayOf(s) = d
      <4>1. PICK k \in 1..Len(f[i]) : f[i][k] = s
        BY <3>2 DEF Among
      <4>2. Len(x) \in Nat /\ Len(f[i]) = Len(x) + 1
        BY <3>1
      <4>3. CASE k = Len(x) + 1
        <5>1. s = q[i].seg
          BY <3>1, <4>1, <4>2, <4>3
        <5> QED BY <2>3, <5>1 DEF In
      <4>4. CASE k # Len(x) + 1
        <5>1. k \in 1..Len(x) /\ x[k] = s
          BY <3>1, <4>1, <4>2, <4>4
        <5> QED BY <3>1, <5>1 DEF Among
      <4> QED BY <4>3, <4>4
    <3> QED BY <1>3, <3>2
  <2> QED BY <2>2, <2>3
<1>6. Len(q) \in T
  <2> HIDE DEF T
  <2>1. \A i \in 0..Len(q) : i \in T
    BY <1>3, <1>4, <1>5, Climb
  <2> QED BY <1>3, <2>1
<1> QED BY <1>1, <1>2, <1>3, <1>6

(* Every kept segment of the day is listed. *)
LEMMA OfDayAll ==
  ASSUME NEW q \in Seq(Item), NEW d, NEW s, In(q, s), DayOf(s) = d
  PROVE  Among(OfDay(q, d), s)
<1>1. PICK f \in [0..Len(q) -> Seq(Segs)] : Selects(q, d, f)
  BY SelectionExists
<1>2. OfDay(q, d) = f[Len(q)]
  BY <1>1, OfDayIs
<1>3. Len(q) \in Nat /\ Len(q) \in 0..Len(q)
  OBVIOUS
<1> DEFINE Got(i) == (\E k \in 1..i : q[k].seg = s) => Among(f[i], s)
           T == {i \in 0..Len(q) : Got(i)}
<1>4. 0 \in T
  BY <1>3
<1>5. ASSUME NEW i \in 1..Len(q), i - 1 \in T PROVE i \in T
  <2> DEFINE x == f[i - 1]
  <2>1. f[i] = Next1(q, d, i, x) /\ x \in Seq(Segs) /\ Got(i - 1)
    BY <1>1, <1>3, <1>5 DEF Selects
  <2>2. f[i] = IF DayOf(q[i].seg) = d THEN Append(x, q[i].seg) ELSE x
    BY <2>1 DEF Next1
  <2>3. ASSUME Among(x, s) PROVE Among(f[i], s)
    <3>1. PICK k \in 1..Len(x) : x[k] = s
      BY <2>3 DEF Among
    <3>2. CASE DayOf(q[i].seg) = d
      <4>1. k \in 1..Len(f[i]) /\ f[i][k] = s
        <5> HIDE DEF x
        <5> QED BY <2>1, <2>2, <3>1, <3>2
      <4> QED BY <4>1 DEF Among
    <3>3. CASE DayOf(q[i].seg) # d
      BY <2>2, <2>3, <3>3
    <3> QED BY <3>2, <3>3
  <2>4. ASSUME q[i].seg = s PROVE Among(f[i], s)
    <3>1. f[i] = Append(x, s)
      BY <2>2, <2>4
    <3>2. Len(f[i]) \in 1..Len(f[i]) /\ f[i][Len(f[i])] = s
      <4> HIDE DEF x
      <4> QED BY <2>1, <3>1
    <3> QED BY <3>2 DEF Among
  <2>5. ASSUME NEW k \in 1..i, q[k].seg = s PROVE Among(f[i], s)
    <3>1. k = i \/ k \in 1..(i - 1)
      OBVIOUS
    <3> QED BY <2>1, <2>3, <2>4, <2>5, <3>1
  <2> QED BY <1>3, <2>5
<1>6. Len(q) \in T
  <2> HIDE DEF T
  <2>1. \A i \in 0..Len(q) : i \in T
    BY <1>3, <1>4, <1>5, Climb
  <2> QED BY <1>3, <2>1
<1> QED BY <1>2, <1>6 DEF In

-----------------------------------------------------------------------------
(* What a list of effects does to the segment files and to the index of a  *)
(* day d, whose file says l before the first effect.                       *)

Creates(ops, s) == \E i \in 1..Len(ops) : ops[i].op = "create" /\ ops[i].key = s
Unlink(e, s) == e.op = "unlink" /\ e.key = s
Unlinks(ops, s) == \E i \in 1..Len(ops) : Unlink(ops[i], s)

(* The effect writes the index of d; it writes or removes it. *)
Writes(e, d) == e.op = "index" /\ e.key = IndexKey(d)
Touches(e, d) == e.op \in {"index", "unlink"} /\ e.key = IndexKey(d)

(* After effect i (none is done when i is 0) the index has just been       *)
(* written and lists s; it is begun anew later; it is written again before *)
(* effect j.                                                               *)
Lists(ops, l, d, i, s) ==
    IF i = 0 THEN l # None /\ Among(l.list, s)
    ELSE Writes(ops[i], d) /\ Among(ops[i].listing.list, s)
BeginsAfter(ops, d, i) ==
    \E k \in 1..Len(ops) : k > i /\ Writes(ops[k], d) /\ ops[k].listing.list = <<>>
WritesBetween(ops, d, i, j) == \E k \in 1..Len(ops) : i < k /\ k < j /\ Writes(ops[k], d)

(* Once the index is begun, it never lists a file that is not there. *)
Sound(ops, d, files, l) ==
    \A i \in 0..Len(ops), s \in Segs :
        Lists(ops, l, d, i, s) /\ ~BeginsAfter(ops, d, i) =>
            /\ s \in files
            /\ \A j \in 1..Len(ops) : Unlink(ops[j], s) => WritesBetween(ops, d, i, j)

(* In the end the index says list, and is not ended. *)
Says(l, list) == l.list = list /\ ~l.ended
LastWrite(ops, d, list, l, p) ==
    /\ IF p = 0 THEN l # None /\ Says(l, list) ELSE Writes(ops[p], d) /\ Says(ops[p].listing, list)
    /\ \A k \in 1..Len(ops) : k > p => ~Touches(ops[k], d)
Shown(ops, d, list, l) == \E p \in 0..Len(ops) : LastWrite(ops, d, list, l, p)

-----------------------------------------------------------------------------
(* The recorder within an operation that began with these files, and,      *)
(* while it has a session, with these indexes.                             *)

(* Every kept segment is a file that is not to be removed, and what is     *)
(* removed was one.                                                        *)
KeepsFiles(r, files) ==
    \A s \in Segs : /\ In(r.kept, s) <=> (s \in files /\ ~Unlinks(r.ops, s))
                    /\ Unlinks(r.ops, s) => s \in files

Between(r, files) ==
    /\ r \in Recorder
    /\ r.pl.day = NoDay => r.pl.list = <<>>
    /\ r.open = None
    /\ Distinct(r.kept)
    /\ \A s \in Segs : ~Creates(r.ops, s)
    /\ KeepsFiles(r, files)

IndexFollows(r, files, indexes) ==
    /\ r.curDay \in Days /\ r.pl.day = r.curDay
    /\ r.pl.list = OfDay(r.kept, r.curDay) /\ r.pl.ended = FALSE
    /\ Sound(r.ops, r.curDay, files, indexes[r.curDay])
    /\ Shown(r.ops, r.curDay, r.pl.list, indexes[r.curDay])

Fine(r, files, indexes) ==
    Between(r, files) /\ (r.session => IndexFollows(r, files, indexes))

(* The same with a segment open or not: as an operation leaves it, and     *)
(* between any two of its effects.                                         *)
FilesFollow(r, files) ==
    /\ \A s \in Segs : Creates(r.ops, s) => s = r.open
    /\ \A s \in Segs : (In(r.kept, s) \/ s = r.open)
                         <=> ((s \in files \/ Creates(r.ops, s)) /\ ~Unlinks(r.ops, s))

Consistent(r, files, indexes) ==
    /\ r \in Recorder
    /\ r.pl.day = NoDay => r.pl.list = <<>>
    /\ Distinct(r.kept)
    /\ r.open # None => r.session /\ DayOf(r.open) = r.curDay /\ ~In(r.kept, r.open)
    /\ FilesFollow(r, files)
    /\ r.session => IndexFollows(r, files, indexes)

(* The segments that exist, or are about to. *)
Recorded == (disk \cap Segs) \cup ({rec.open} \ {None})

(* The inductive invariant: while the process runs, files and indexes are  *)
(* consistent with the recorder through what is left of its operation, and *)
(* a segment's number is used once, whatever the day.                      *)
StoreInv ==
    /\ rec \in Recorder /\ rec.ops = <<>> /\ todo \in Seq(Effects)
    /\ process \in {"down", "up", "stopping"}
    /\ process = "down" => rec = NewRecorder /\ todo = <<>>
    /\ process # "down" => Consistent([rec EXCEPT !.ops = todo], disk, listing)
    /\ \A s, t \in Recorded : s[3] = t[3] => s = t
    /\ \A s \in Recorded : s[3] <= segCount
    /\ disk \subseteq Keys /\ today \in Days /\ segCount \in Nat
    /\ listing \in [Days -> Listing \cup {None}]

-----------------------------------------------------------------------------
(* The lists.                                                              *)

LEMMA ConcatFacts ==
  ASSUME NEW S, NEW a \in Seq(S), NEW b \in Seq(S)
  PROVE  /\ a \o b \in Seq(S) /\ Len(a \o b) = Len(a) + Len(b)
         /\ Len(a) \in Nat /\ Len(b) \in Nat
         /\ \A i \in 1..Len(a) : (a \o b)[i] = a[i]
         /\ \A i \in 1..Len(b) : (a \o b)[Len(a) + i] = b[i]
OBVIOUS

LEMMA EffectFacts ==
  /\ \A e \in Effects : e.op = "index" => e.listing \in Listing /\ \E d \in Days : e.key = IndexKey(d)
  /\ \A e \in Effects : e.op = "create" => Kind(e.key) # "index"
  /\ \A e \in Effects : e.op # "index" => e.listing = None
  /\ \A e \in Effects : e.op \in {"create", "unlink", "index", "put", "del"} /\ e.key \in Keys
  /\ \A k \in Keys : \A op \in {"unlink", "put", "del"} : Effect(op, k) \in Effects
  /\ \A k \in Segs \cup {InitKey(d) : d \in Days} : Effect("create", k) \in Effects
  /\ \A op, k : Effect(op, k).op = op /\ Effect(op, k).key = k
<1>1. \A d \in Days : IndexKey(d) \in Keys /\ InitKey(d) \in Keys
  BY SegFacts
<1>2. ASSUME NEW k \in Segs \cup {InitKey(d) : d \in Days} PROVE Kind(k) # "index" /\ k \in Keys
  BY SegFacts, KeyFacts
<1>3. ASSUME NEW e \in Effects
      PROVE  /\ e.op = "index" => e.listing \in Listing /\ \E d \in Days : e.key = IndexKey(d)
             /\ e.op = "create" => Kind(e.key) # "index"
             /\ e.op # "index" => e.listing = None
             /\ e.op \in {"create", "unlink", "index", "put", "del"} /\ e.key \in Keys
  BY <1>1, <1>2 DEF Effects
<1>4. /\ \A k \in Keys : \A op \in {"unlink", "put", "del"} : Effect(op, k) \in Effects
      /\ \A k \in Segs \cup {InitKey(d) : d \in Days} : Effect("create", k) \in Effects
  BY DEF Effects, Effect
<1>5. \A op, k : Effect(op, k).op = op /\ Effect(op, k).key = k
  BY DEF Effect
<1> QED BY <1>3, <1>4, <1>5

LEMMA RewriteFacts ==
  /\ \A d \in Days, list \in Seq(Segs), ended \in BOOLEAN, whole \in BOOLEAN :
        Rewrite(d, list, ended, whole) \in Effects
  /\ \A d, list, ended, whole :
        /\ Rewrite(d, list, ended, whole).op = "index"
        /\ Rewrite(d, list, ended, whole).key = IndexKey(d)
        /\ Rewrite(d, list, ended, whole).listing.list = list
        /\ Rewrite(d, list, ended, whole).listing.ended = ended
BY DEF Rewrite, Effects, Listing

LEMMA DoFacts ==
  ASSUME NEW r \in Recorder, NEW b \in Seq(Effects)
  PROVE  /\ Do(r, b) \in Recorder /\ Do(r, b).ops = r.ops \o b
         /\ r.ops \in Seq(Effects)
         /\ Do(r, b).kept = r.kept /\ Do(r, b).pl = r.pl /\ Do(r, b).curDay = r.curDay
         /\ Do(r, b).session = r.session /\ Do(r, b).open = r.open
<1> DEFINE c == r.ops \o b
<1>1. r.ops \in Seq(Effects)
  BY DEF Recorder
<1>2. c \in Seq(Effects)
  BY <1>1, ConcatFacts
<1> HIDE DEF c
<1>3. Do(r, b) = [r EXCEPT !.ops = c]
  BY DEF Do, c
<1>4. /\ [r EXCEPT !.ops = c] \in Recorder /\ [r EXCEPT !.ops = c].ops = c
      /\ [r EXCEPT !.ops = c].kept = r.kept /\ [r EXCEPT !.ops = c].pl = r.pl
      /\ [r EXCEPT !.ops = c].curDay = r.curDay /\ [r EXCEPT !.ops = c].session = r.session
      /\ [r EXCEPT !.ops = c].open = r.open
  BY <1>2 DEF Recorder
<1> QED BY <1>1, <1>3, <1>4 DEF c

LEMMA RecorderFacts ==
  ASSUME NEW r \in Recorder
  PROVE  /\ r.kept \in Seq(Item) /\ r.pl \in Playlist /\ r.curDay \in Days \cup {NoDay}
         /\ r.session \in BOOLEAN /\ r.open \in Segs \cup {None} /\ r.ops \in Seq(Effects)
         /\ r.pl.day \in Days \cup {NoDay} /\ r.pl.list \in Seq(Segs) /\ r.pl.ended \in BOOLEAN
BY DEF Recorder, Playlist

-----------------------------------------------------------------------------
(* The kept segments grow at the end and shrink at the front.              *)

LEMMA OfDayAppend ==
  ASSUME NEW q \in Seq(Item), NEW x \in Item, NEW d
  PROVE  OfDay(Append(q, x), d)
           = IF DayOf(x.seg) = d THEN Append(OfDay(q, d), x.seg) ELSE OfDay(q, d)
<1> DEFINE n == Len(q)
           p == Append(q, x)
<1>1. n \in Nat /\ p \in Seq(Item) /\ Len(p) = n + 1 /\ p[n + 1] = x
      /\ \A i \in 1..n : p[i] = q[i]
  OBVIOUS
<1> HIDE DEF p
<1>2. PICK f \in [0..Len(p) -> Seq(Segs)] : Selects(p, d, f)
  BY <1>1, SelectionExists
<1> DEFINE g == [i \in 0..n |-> f[i]]
<1>3. g \in [0..n -> Seq(Segs)]
  BY <1>1, <1>2
<1>4. \A i \in 0..n : g[i] = f[i]
  OBVIOUS
<1> HIDE DEF g
<1>5. Selects(q, d, g)
  <2>1. g[0] = <<>>
    BY <1>1, <1>2, <1>4 DEF Selects
  <2>2. ASSUME NEW i \in 1..n PROVE g[i] = Next1(q, d, i, g[i - 1])
    <3>1. i \in 0..n /\ i - 1 \in 0..n /\ i \in 1..Len(p)
      BY <1>1
    <3>2. f[i] = Next1(p, d, i, f[i - 1])
      BY <1>2, <3>1 DEF Selects
    <3> QED BY <1>1, <1>4, <3>1, <3>2 DEF Next1
  <2> QED BY <2>1, <2>2 DEF Selects
<1>6. OfDay(q, d) = g[n]
  BY <1>3, <1>5, OfDayIs
<1>7. OfDay(p, d) = f[n + 1]
  BY <1>1, <1>2, OfDayIs
<1>8. f[n + 1] = Next1(p, d, n + 1, f[n])
  <2>1. n + 1 \in 1..Len(p) /\ (n + 1) - 1 = n
    BY <1>1
  <2> QED BY <1>2, <2>1 DEF Selects
<1>9. OfDay(q, d) = f[n]
  BY <1>1, <1>4, <1>6
<1> QED BY <1>1, <1>7, <1>8, <1>9 DEF Next1, p

LEMMA OfDayTail ==
  ASSUME NEW q \in Seq(Item), q # <<>>, NEW d
  PROVE  OfDay(q, d) = (IF DayOf(Head(q).seg) = d THEN <<Head(q).seg>> ELSE <<>>) \o OfDay(Tail(q), d)
<1> DEFINE n == Len(q)
           t == Tail(q)
           s == Head(q).seg
           pre == IF DayOf(s) = d THEN <<s>> ELSE <<>>
<1>1. n \in Nat /\ n > 0 /\ t \in Seq(Item) /\ Len(t) = n - 1 /\ q[1] = Head(q)
      /\ \A i \in 1..(n - 1) : t[i] = q[i + 1]
  OBVIOUS
<1>2. s \in Segs
  BY <1>1, ItemFacts
<1>3. q[1].seg = s
  BY <1>1
<1> HIDE DEF t, s
<1>4. pre \in Seq(Segs)
  BY <1>2
<1>5. PICK g \in [0..Len(t) -> Seq(Segs)] : Selects(t, d, g)
  BY <1>1, SelectionExists
<1>6. /\ g[0] = <<>> /\ \A i \in 1..(n - 1) : g[i] = Next1(t, d, i, g[i - 1])
      /\ \A i \in 0..(n - 1) : g[i] \in Seq(Segs)
  BY <1>1, <1>5 DEF Selects
<1>7. pre = Next1(q, d, 1, <<>>)
  BY <1>2, <1>3 DEF Next1
<1> HIDE DEF pre
<1> DEFINE f == [i \in 0..n |-> IF i = 0 THEN <<>> ELSE pre \o g[i - 1]]
<1>8. f \in [0..n -> Seq(Segs)]
  <2>1. \A i \in 1..n : pre \o g[i - 1] \in Seq(Segs)
    BY <1>1, <1>4, <1>6
  <2> QED BY <1>1, <2>1
<1>9. f[0] = <<>> /\ \A i \in 1..n : f[i] = pre \o g[i - 1]
  BY <1>1
<1> HIDE DEF f
<1>10. ASSUME NEW i \in 1..n PROVE f[i] = Next1(q, d, i, f[i - 1])
  <2>1. CASE i = 1
    <3>0. i - 1 = 0
      BY <2>1
    <3>1. f[i] = pre \o <<>> /\ f[i - 1] = <<>>
      BY <1>6, <1>9, <3>0
    <3> QED BY <1>4, <1>7, <2>1, <3>1
  <2>2. CASE i # 1
    <3> DEFINE y == g[i - 2]
    <3>1. i - 1 \in 1..n /\ i - 1 \in 1..(n - 1) /\ i - 2 \in 0..(n - 1) /\ i - 2 = (i - 1) - 1
          /\ (i - 1) + 1 = i
      BY <1>1, <2>2
    <3>2. f[i] = pre \o g[i - 1] /\ f[i - 1] = pre \o y /\ g[i - 1] = Next1(t, d, i - 1, y)
      BY <1>6, <1>9, <3>1
    <3>3. t[i - 1] = q[i] /\ y \in Seq(Segs) /\ q[i].seg \in Segs
      BY <1>1, <1>6, <3>1, ItemFacts
    <3> HIDE DEF y
    <3>4. CASE DayOf(q[i].seg) = d
      <4>1. g[i - 1] = Append(y, q[i].seg)
        BY <3>2, <3>3, <3>4 DEF Next1
      <4>2. pre \o Append(y, q[i].seg) = Append(pre \o y, q[i].seg)
        BY ONLY <1>4, <3>3
      <4> QED BY <3>2, <3>4, <4>1, <4>2 DEF Next1
    <3>5. CASE DayOf(q[i].seg) # d
      BY <3>2, <3>3, <3>5 DEF Next1
    <3> QED BY <3>4, <3>5
  <2> QED BY <2>1, <2>2
<1>11. Selects(q, d, f)
  BY <1>9, <1>10 DEF Selects
<1>12. OfDay(q, d) = f[n]
  BY <1>8, <1>11, OfDayIs
<1>13. OfDay(t, d) = g[n - 1]
  BY <1>1, <1>5, OfDayIs
<1> QED BY <1>1, <1>9, <1>12, <1>13 DEF pre, s, t

(* What dropping the oldest segment does to a day without a copy of it. *)
LEMMA OfDayDrop ==
  ASSUME NEW q \in Seq(Item), q # <<>>, NEW d
  PROVE  /\ DayOf(Head(q).seg) = d =>
               /\ OfDay(q, d) # <<>> /\ Head(OfDay(q, d)) = Head(q).seg
               /\ Tail(OfDay(q, d)) = OfDay(Tail(q), d)
         /\ DayOf(Head(q).seg) # d => OfDay(q, d) = OfDay(Tail(q), d)
<1> DEFINE s == Head(q).seg
           y == OfDay(Tail(q), d)
<1>1. Tail(q) \in Seq(Item) /\ q[1] = Head(q) /\ 1 \in 1..Len(q)
  OBVIOUS
<1>2. s \in Segs /\ y \in Seq(Segs)
  BY <1>1, ItemFacts, OfDayListed
<1>3. OfDay(q, d) = (IF DayOf(s) = d THEN <<s>> ELSE <<>>) \o y
  BY OfDayTail
<1> HIDE DEF s, y
<1>4. <<s>> \o y # <<>> /\ Head(<<s>> \o y) = s /\ Tail(<<s>> \o y) = y /\ <<>> \o y = y
  BY ONLY <1>2
<1> QED BY <1>3, <1>4 DEF s, y

-----------------------------------------------------------------------------
(* More effects.                                                           *)

LEMMA ConcatSplit ==
  ASSUME NEW a \in Seq(Effects), NEW b \in Seq(Effects), NEW i \in 1..Len(a \o b)
  PROVE  \/ i \in 1..Len(a) /\ (a \o b)[i] = a[i]
         \/ i > Len(a) /\ i - Len(a) \in 1..Len(b) /\ (a \o b)[i] = b[i - Len(a)]
BY ConcatFacts

LEMMA ConcatOps ==
  ASSUME NEW a \in Seq(Effects), NEW b \in Seq(Effects), NEW s
  PROVE  /\ Unlinks(a \o b, s) <=> (Unlinks(a, s) \/ Unlinks(b, s))
         /\ Creates(a \o b, s) <=> (Creates(a, s) \/ Creates(b, s))
<1> DEFINE c == a \o b
<1>1. /\ Len(c) = Len(a) + Len(b) /\ Len(a) \in Nat /\ Len(b) \in Nat
      /\ \A i \in 1..Len(a) : c[i] = a[i]
      /\ \A i \in 1..Len(b) : c[Len(a) + i] = b[i]
  BY ConcatFacts
<1>2. \A i \in 1..Len(c) :
         \/ i \in 1..Len(a) /\ c[i] = a[i]
         \/ i > Len(a) /\ i - Len(a) \in 1..Len(b) /\ c[i] = b[i - Len(a)]
  BY ConcatSplit
<1> HIDE DEF c
<1>3. \A i \in 1..Len(a) : i \in 1..Len(c)
  BY <1>1
<1>4. \A i \in 1..Len(b) : Len(a) + i \in 1..Len(c)
  BY <1>1
<1>5. Unlinks(c, s) => Unlinks(a, s) \/ Unlinks(b, s)
  BY <1>2 DEF Unlinks
<1>6. Unlinks(a, s) => Unlinks(c, s)
  BY <1>1, <1>3 DEF Unlinks
<1>7. Unlinks(b, s) => Unlinks(c, s)
  BY <1>1, <1>4 DEF Unlinks
<1>8. Creates(c, s) => Creates(a, s) \/ Creates(b, s)
  BY <1>2 DEF Creates
<1>9. Creates(a, s) => Creates(c, s)
  BY <1>1, <1>3 DEF Creates
<1>10. Creates(b, s) => Creates(c, s)
  BY <1>1, <1>4 DEF Creates
<1> QED BY <1>5, <1>6, <1>7, <1>8, <1>9, <1>10 DEF c

(* Effects that leave the index alone, and remove no file it lists. *)
LEMMA AppendQuiet ==
  ASSUME NEW a \in Seq(Effects), NEW b \in Seq(Effects), NEW d, NEW files, NEW l, NEW list,
         Sound(a, d, files, l), Shown(a, d, list, l),
         \A i \in 1..Len(b) : ~Touches(b[i], d),
         \A s \in Segs : Among(list, s) => ~Unlinks(b, s)
  PROVE  Sound(a \o b, d, files, l) /\ Shown(a \o b, d, list, l)
<1> DEFINE c == a \o b
           n == Len(a)
<1>1. /\ Len(c) = n + Len(b) /\ n \in Nat /\ Len(b) \in Nat
      /\ \A i \in 1..n : c[i] = a[i]
      /\ \A i \in 1..n : i \in 1..Len(c)
  BY ConcatFacts
<1>2. \A i \in 1..Len(c) :
         \/ i \in 1..n /\ c[i] = a[i]
         \/ i > n /\ i - n \in 1..Len(b) /\ c[i] = b[i - n]
  BY ConcatSplit
<1> HIDE DEF c, n
<1>3. \A i \in 1..Len(c) : Touches(c[i], d) => i \in 1..n /\ c[i] = a[i]
  BY <1>2
<1>4. PICK p \in 0..n : LastWrite(a, d, list, l, p)
  BY DEF Shown, n
<1>5. LastWrite(c, d, list, l, p)
  <2>1. p # 0 => p \in 1..n /\ c[p] = a[p]
    BY <1>1
  <2>2. \A k \in 1..Len(c) : k > p => ~Touches(c[k], d)
    BY <1>3, <1>4 DEF LastWrite, n
  <2> QED BY <1>4, <2>1, <2>2 DEF LastWrite
<1>6. Shown(c, d, list, l)
  BY <1>1, <1>5 DEF Shown
<1>7. ASSUME NEW i \in 0..Len(c), NEW s \in Segs, Lists(c, l, d, i, s), ~BeginsAfter(c, d, i)
      PROVE  /\ s \in files
             /\ \A j \in 1..Len(c) : Unlink(c[j], s) => WritesBetween(c, d, i, j)
  <2>1. i # 0 => i \in 1..n /\ c[i] = a[i] /\ Writes(a[i], d)
    BY <1>1, <1>3, <1>7 DEF Lists, Writes, Touches
  <2>2. i \in 0..n /\ Lists(a, l, d, i, s)
    BY <1>1, <1>7, <2>1 DEF Lists
  <2>3. ~BeginsAfter(a, d, i)
    BY <1>1, <1>7 DEF BeginsAfter, n
  <2>4. s \in files /\ \A j \in 1..n : Unlink(a[j], s) => WritesBetween(a, d, i, j)
    BY <2>2, <2>3 DEF Sound, n
  <2>5. ASSUME NEW j \in 1..Len(c), Unlink(c[j], s) PROVE WritesBetween(c, d, i, j)
    <3>1. CASE j \in 1..n /\ c[j] = a[j]
      <4>1. WritesBetween(a, d, i, j)
        BY <2>4, <2>5, <3>1
      <4>2. PICK k \in 1..n : i < k /\ k < j /\ Writes(a[k], d)
        BY <4>1 DEF WritesBetween, n
      <4> QED BY <1>1, <4>2 DEF WritesBetween
    <3>2. CASE j > n /\ j - n \in 1..Len(b) /\ c[j] = b[j - n]
      <4>1. Unlinks(b, s)
        BY <2>5, <3>2 DEF Unlinks
      <4>2. ~Among(list, s)
        BY <4>1
      <4>3. i # p
        BY <2>2, <1>4, <4>2 DEF LastWrite, Lists, Says
      <4>4. ~(i > p)
        BY <1>1, <1>4, <2>1, <2>2 DEF LastWrite, Writes, Touches, n
      <4>5. i < p /\ p \in 1..n /\ Writes(a[p], d)
        BY <1>1, <1>4, <2>2, <4>3, <4>4 DEF LastWrite
      <4>6. p \in 1..Len(c) /\ p < j /\ Writes(c[p], d)
        BY <1>1, <3>2, <4>5
      <4> QED BY <4>5, <4>6 DEF WritesBetween
    <3> QED BY <1>2, <3>1, <3>2
  <2> QED BY <2>4, <2>5
<1>8. Sound(c, d, files, l)
  BY <1>7 DEF Sound
<1> QED BY <1>6, <1>8 DEF c

(* Effects that write the index, remove no file, and end with a write;     *)
(* they need not care for the index when one of them begins it.            *)
LEMMA AppendWrites ==
  ASSUME NEW a \in Seq(Effects), NEW b \in Seq(Effects), NEW d, NEW files, NEW l, NEW list,
         \A i \in 1..Len(b), s \in Segs :
            Writes(b[i], d) /\ Among(b[i].listing.list, s) => s \in files /\ ~Unlinks(a, s),
         \A s \in Segs : ~Unlinks(b, s),
         \/ Sound(a, d, files, l)
         \/ \E k \in 1..Len(b) : Writes(b[k], d) /\ b[k].listing.list = <<>>,
         NEW p \in 1..Len(b), LastWrite(b, d, list, l, p)
  PROVE  Sound(a \o b, d, files, l) /\ Shown(a \o b, d, list, l)
<1> DEFINE c == a \o b
           n == Len(a)
<1>1. /\ Len(c) = n + Len(b) /\ n \in Nat /\ Len(b) \in Nat
      /\ \A i \in 1..n : c[i] = a[i]
      /\ \A i \in 1..n : i \in 1..Len(c)
      /\ \A i \in 1..Len(b) : c[n + i] = b[i] /\ n + i \in 1..Len(c)
  BY ConcatFacts
<1>2. \A i \in 1..Len(c) :
         \/ i \in 1..n /\ c[i] = a[i]
         \/ i > n /\ i - n \in 1..Len(b) /\ c[i] = b[i - n]
  BY ConcatSplit
<1> HIDE DEF c, n
<1>3. LastWrite(c, d, list, l, n + p)
  <2>1. n + p # 0 /\ c[n + p] = b[p]
    BY <1>1
  <2>2. ASSUME NEW k \in 1..Len(c), k > n + p PROVE ~Touches(c[k], d)
    <3>1. k - n \in 1..Len(b) /\ k - n > p /\ c[k] = b[k - n]
      BY <1>1, <1>2, <2>2
    <3> QED BY <3>1 DEF LastWrite
  <2>3. p # 0
    OBVIOUS
  <2> QED BY <2>1, <2>2, <2>3 DEF LastWrite
<1>4. Shown(c, d, list, l)
  <2>1. n + p \in 0..Len(c)
    BY <1>1
  <2> QED BY <1>3, <2>1 DEF Shown
<1>5. ASSUME NEW i \in 0..Len(c), NEW s \in Segs, Lists(c, l, d, i, s), ~BeginsAfter(c, d, i)
      PROVE  /\ s \in files
             /\ \A j \in 1..Len(c) : Unlink(c[j], s) => WritesBetween(c, d, i, j)
  <2>1. CASE i \in 0..n
    <3>1. ASSUME NEW k \in 1..Len(b), Writes(b[k], d), b[k].listing.list = <<>> PROVE FALSE
      <4>1. n + k \in 1..Len(c) /\ n + k > i /\ c[n + k] = b[k]
        BY <1>1, <2>1
      <4> QED BY <1>5, <3>1, <4>1 DEF BeginsAfter
    <3>2. Sound(a, d, files, l)
      BY <3>1
    <3>3. Lists(a, l, d, i, s)
      BY <1>1, <1>5, <2>1 DEF Lists
    <3>4. ~BeginsAfter(a, d, i)
      BY <1>1, <1>5 DEF BeginsAfter, n
    <3>5. s \in files /\ \A j \in 1..n : Unlink(a[j], s) => WritesBetween(a, d, i, j)
      BY <2>1, <3>2, <3>3, <3>4 DEF Sound, n
    <3>6. ASSUME NEW j \in 1..Len(c), Unlink(c[j], s) PROVE WritesBetween(c, d, i, j)
      <4>1. j \in 1..n /\ c[j] = a[j]
        BY <1>2, <3>6 DEF Unlinks
      <4>2. WritesBetween(a, d, i, j)
        BY <3>5, <3>6, <4>1
      <4>3. PICK k \in 1..n : i < k /\ k < j /\ Writes(a[k], d)
        BY <4>2 DEF WritesBetween, n
      <4> QED BY <1>1, <4>3 DEF WritesBetween
    <3> QED BY <3>5, <3>6
  <2>2. CASE i \notin 0..n
    <3>1. i \in 1..Len(c) /\ i - n \in 1..Len(b) /\ c[i] = b[i - n] /\ i # 0
      BY <1>1, <1>2, <2>2
    <3>2. s \in files /\ ~Unlinks(a, s)
      BY <1>5, <3>1 DEF Lists
    <3>3. \A j \in 1..Len(c) : ~Unlink(c[j], s)
      BY <1>2, <3>2 DEF Unlinks, n
    <3> QED BY <3>2, <3>3
  <2> QED BY <2>1, <2>2
<1>6. Sound(c, d, files, l)
  BY <1>5 DEF Sound
<1> QED BY <1>4, <1>6 DEF c

-----------------------------------------------------------------------------
(* The effects of the recorder's operators.                                *)

LEMMA RebuildFacts ==
  ASSUME NEW r, r.kept \in Seq(Item), NEW d \in Days
  PROVE  /\ Rebuild(r, d) \in Seq(Effects)
         /\ Len(Rebuild(r, d)) = Len(KeptOf(r, d)) + 1 /\ Len(KeptOf(r, d)) \in Nat
         /\ \A i \in 1..(Len(KeptOf(r, d)) + 1) :
               /\ Rebuild(r, d)[i].op = "index" /\ Rebuild(r, d)[i].key = IndexKey(d)
               /\ Rebuild(r, d)[i].listing.list = SubSeq(KeptOf(r, d), 1, i - 1)
               /\ Rebuild(r, d)[i].listing.ended = FALSE
<1> DEFINE list == KeptOf(r, d)
           n == Len(list) + 1
           e(i) == Rewrite(d, SubSeq(list, 1, i - 1), FALSE, i = n)
<1>1. list \in Seq(Segs)
  BY OfDayListed DEF KeptOf
<1> HIDE DEF list
<1>2. Len(list) \in Nat /\ n \in Nat /\ \A i \in 1..n : SubSeq(list, 1, i - 1) \in Seq(Segs)
  BY <1>1
<1>3. ASSUME NEW i \in 1..n PROVE e(i) \in Effects
  <2>1. (i = n) \in BOOLEAN /\ FALSE \in BOOLEAN
    OBVIOUS
  <2> QED BY <1>2, <2>1, RewriteFacts
<1>4. \A i \in 1..n : /\ e(i).op = "index" /\ e(i).key = IndexKey(d)
                      /\ e(i).listing.list = SubSeq(list, 1, i - 1)
                      /\ e(i).listing.ended = FALSE
  BY DEF Rewrite
<1>5. Rebuild(r, d) = [i \in 1..n |-> e(i)]
  BY DEF Rebuild, list
<1> HIDE DEF e
<1>6. [i \in 1..n |-> e(i)] \in Seq(Effects) /\ Len([i \in 1..n |-> e(i)]) = n
  BY <1>2, <1>3
<1>7. \A i \in 1..n : [j \in 1..n |-> e(j)][i] = e(i)
  OBVIOUS
<1> QED BY <1>2, <1>4, <1>5, <1>6, <1>7 DEF list

(* The folder of an earlier day: no segment is created or removed, and no  *)
(* other day's index is touched.                                           *)
LEMMA FolderFacts ==
  ASSUME NEW r \in Recorder, NEW d \in Days
  PROVE  /\ FolderEffects(r, d) \in Seq(Effects)
         /\ \A i \in 1..Len(FolderEffects(r, d)) :
               /\ FolderEffects(r, d)[i].op # "create"
               /\ FolderEffects(r, d)[i].op = "unlink" => FolderEffects(r, d)[i].key \notin Segs
               /\ FolderEffects(r, d)[i].key = InitKey(d) \/ FolderEffects(r, d)[i].key = IndexKey(d)
               /\ d # r.curDay
<1> DEFINE b == FolderEffects(r, d)
           Good(e) == /\ e.op # "create" /\ (e.op = "unlink" => e.key \notin Segs)
                      /\ e.key = InitKey(d) \/ e.key = IndexKey(d)
<1>1. InitKey(d) \in Keys /\ IndexKey(d) \in Keys /\ InitKey(d) \notin Segs /\ IndexKey(d) \notin Segs
  BY SegFacts
<1>2. r.kept \in Seq(Item)
  BY RecorderFacts
<1>3. CASE d = r.curDay
  BY <1>3 DEF FolderEffects
<1>4. CASE d # r.curDay /\ KeptOf(r, d) = <<>>
  <2> DEFINE e1 == Effect("unlink", InitKey(d))
             e2 == Effect("unlink", IndexKey(d))
             e3 == Effect("del", InitKey(d))
             e4 == Effect("del", IndexKey(d))
  <2>1. /\ e1 \in Effects /\ e2 \in Effects /\ e3 \in Effects /\ e4 \in Effects
        /\ Good(e1) /\ Good(e2) /\ Good(e3) /\ Good(e4)
    BY <1>1, EffectFacts
  <2>2. b = <<e1, e2, e3, e4>>
    BY <1>4 DEF FolderEffects
  <2> HIDE DEF e1, e2, e3, e4, Good
  <2>3. b \in Seq(Effects) /\ \A i \in 1..Len(b) : Good(b[i])
    BY <2>1, <2>2
  <2> QED BY <1>4, <2>3 DEF Good
<1>5. CASE d # r.curDay /\ KeptOf(r, d) # <<>>
  <2> DEFINE a == Rebuild(r, d)
             e1 == Rewrite(d, KeptOf(r, d), TRUE, TRUE)
             e2 == Effect("put", IndexKey(d))
             c == <<e1, e2>>
  <2>1. a \in Seq(Effects) /\ \A i \in 1..Len(a) : Good(a[i])
    BY <1>2, RebuildFacts
  <2>2. KeptOf(r, d) \in Seq(Segs)
    BY <1>2, OfDayListed DEF KeptOf
  <2>3. e1 \in Effects /\ e1.op = "index" /\ e1.key = IndexKey(d)
    BY <2>2 DEF Rewrite, Effects, Listing
  <2>9. e2 \in Effects /\ Good(e1) /\ Good(e2)
    <3> HIDE DEF e1
    <3> QED BY <1>1, <2>3, EffectFacts
  <2>4. b = a \o c
    BY <1>5 DEF FolderEffects
  <2> HIDE DEF a, e1, e2, b, Good
  <2>5. c \in Seq(Effects) /\ Len(c) = 2 /\ c[1] = e1 /\ c[2] = e2
    BY <2>3, <2>9
  <2>6. \A i \in 1..Len(c) : Good(c[i])
    <3> HIDE DEF c
    <3>1. \A i \in 1..Len(c) : i = 1 \/ i = 2
      BY <2>5
    <3> QED BY <2>9, <2>5, <3>1
  <2> HIDE DEF c
  <2>7. b \in Seq(Effects)
    BY <2>1, <2>4, <2>5, ConcatFacts
  <2>8. \A i \in 1..Len(b) : Good(b[i])
    BY <2>1, <2>4, <2>5, <2>6, ConcatSplit
  <2> QED BY <1>5, <2>7, <2>8 DEF Good, b
<1> QED BY <1>3, <1>4, <1>5

(* drop_front_if drops s, x being what it leaves, with the effects b. *)
IsListedFirst(pl, s) == pl.list # <<>> /\ Head(pl.list) = s
DropEffects(pl, s) ==
    IF IsListedFirst(pl, s) THEN <<Rewrite(pl.day, Tail(pl.list), pl.ended, TRUE)>> ELSE <<>>
Drops(r, s, x, b) ==
    /\ x \in Recorder /\ b \in Seq(Effects) /\ x.ops = r.ops \o b
    /\ \A t : ~Unlinks(b, t) /\ ~Creates(b, t)
    /\ x.kept = r.kept /\ x.curDay = r.curDay /\ x.session = r.session /\ x.open = r.open
    /\ x.pl.day = r.pl.day /\ x.pl.ended = r.pl.ended
    /\ x.pl.list = (IF IsListedFirst(r.pl, s) THEN Tail(r.pl.list) ELSE r.pl.list)
    /\ x.pl.day = NoDay => x.pl.list = <<>>

LEMMA DropListedFacts ==
  ASSUME NEW r \in Recorder, r.pl.day = NoDay => r.pl.list = <<>>, NEW s
  PROVE  Drops(r, s, DropListed(r, s), DropEffects(r.pl, s))
<1> DEFINE cut == r.pl.list # <<>> /\ Head(r.pl.list) = s
           list == Tail(r.pl.list)
           e == Rewrite(r.pl.day, list, r.pl.ended, TRUE)
<1>1. /\ r.pl \in Playlist /\ r.pl.day \in Days \cup {NoDay} /\ r.pl.list \in Seq(Segs)
      /\ r.pl.ended \in BOOLEAN /\ r.ops \in Seq(Effects)
  BY RecorderFacts
<1>2. CASE ~cut
  <2>1. DropListed(r, s) = r
    BY <1>2 DEF DropListed
  <2>2. r.ops \o <<>> = r.ops
    BY <1>1
  <2>3. <<>> \in Seq(Effects) /\ \A t : ~Unlinks(<<>>, t) /\ ~Creates(<<>>, t)
    BY DEF Unlinks, Creates
  <2>4. DropEffects(r.pl, s) = <<>> /\ ~IsListedFirst(r.pl, s)
    BY <1>2 DEF DropEffects, IsListedFirst
  <2> HIDE DEF cut
  <2> QED BY <2>1, <2>2, <2>3, <2>4 DEF Drops
<1>3. CASE cut
  <2>1. list \in Seq(Segs) /\ r.pl.day \in Days
    BY <1>1, <1>3
  <2> HIDE DEF list
  <2>2. e \in Effects /\ e.op = "index"
    BY <1>1, <2>1 DEF Rewrite, Effects, Listing
  <2> DEFINE pl == [r.pl EXCEPT !.list = list]
  <2>3. pl \in Playlist /\ pl.day = r.pl.day /\ pl.ended = r.pl.ended /\ pl.list = list
    BY <1>1, <2>1 DEF Playlist
  <2>4. PlaylistRewrite(pl) = e
    BY <2>3 DEF PlaylistRewrite
  <2>5. DropListed(r, s) = Do([r EXCEPT !.pl = pl], <<PlaylistRewrite(pl)>>)
    BY <1>3 DEF DropListed, list
  <2> HIDE DEF pl, e, cut
  <2> DEFINE y == [r EXCEPT !.pl = pl]
             b == <<e>>
  <2>6. /\ y \in Recorder /\ y.pl = pl /\ y.kept = r.kept /\ y.curDay = r.curDay
        /\ y.session = r.session /\ y.open = r.open /\ y.ops = r.ops
    BY <2>3 DEF Recorder
  <2>7. b \in Seq(Effects) /\ Len(b) = 1 /\ b[1] = e
    BY <2>2
  <2>8. DropListed(r, s) = Do(y, b)
    BY <2>4, <2>5
  <2> HIDE DEF y, b
  <2>9. \A t : ~Unlinks(b, t) /\ ~Creates(b, t)
    <3>1. \A i \in 1..Len(b) : i = 1
      BY <2>7
    <3> QED BY <2>2, <2>7, <3>1 DEF Unlinks, Unlink, Creates
  <2>10. /\ Do(y, b) \in Recorder /\ Do(y, b).ops = r.ops \o b
         /\ Do(y, b).kept = r.kept /\ Do(y, b).pl = pl /\ Do(y, b).curDay = r.curDay
         /\ Do(y, b).session = r.session /\ Do(y, b).open = r.open
    <3>1. y \in Recorder
      BY <2>6
    <3>2. /\ Do(y, b) \in Recorder /\ Do(y, b).ops = y.ops \o b
          /\ Do(y, b).kept = y.kept /\ Do(y, b).pl = y.pl /\ Do(y, b).curDay = y.curDay
          /\ Do(y, b).session = y.session /\ Do(y, b).open = y.open
      BY <2>7, <3>1, DoFacts, Zenon
    <3> QED BY <2>6, <3>2
  <2>11. r.pl.day # NoDay
    BY <2>1, StoreAssumption DEF Days, NoDay
  <2>12. b = DropEffects(r.pl, s) /\ IsListedFirst(r.pl, s) /\ list = Tail(r.pl.list)
    BY <1>3 DEF b, e, list, cut, DropEffects, IsListedFirst
  <2> QED BY <2>3, <2>7, <2>8, <2>9, <2>10, <2>11, <2>12 DEF Drops
<1> QED BY <1>2, <1>3

-----------------------------------------------------------------------------
(* The retention.                                                          *)

LEMMA DropOldestFine ==
  ASSUME NEW r, NEW files, NEW indexes, Fine(r, files, indexes), r.kept # <<>>
  PROVE  Fine(DropOldest(r), files, indexes) /\ DropOldest(r).kept = Tail(r.kept)
<1> DEFINE q == r.kept
           t == Tail(q)
           s == Head(q).seg
           day == DayOf(s)
           r1 == [r EXCEPT !.kept = t]
           r2 == DropListed(r1, s)
           u == <<Effect("unlink", s), Effect("del", s)>>
           r3 == Do(r2, u)
           v == FolderEffects(r3, day)
           r4 == Do(r3, v)
           cut == IsListedFirst(r.pl, s)
           b == DropEffects(r.pl, s)
<1>1. /\ r \in Recorder /\ (r.pl.day = NoDay => r.pl.list = <<>>) /\ r.open = None
      /\ Distinct(q) /\ (\A x \in Segs : ~Creates(r.ops, x))
      /\ \A x \in Segs : /\ In(q, x) <=> (x \in files /\ ~Unlinks(r.ops, x))
                         /\ Unlinks(r.ops, x) => x \in files
  BY DEF Fine, Between, KeepsFiles
<1>2. q \in Seq(Item) /\ r.ops \in Seq(Effects)
  BY <1>1, RecorderFacts
<1>3. /\ t \in Seq(Item) /\ Len(q) \in Nat /\ Len(q) > 0 /\ Len(t) = Len(q) - 1 /\ q[1] = Head(q)
      /\ \A i \in 1..Len(t) : t[i] = q[i + 1]
  BY <1>2
<1>4. s \in Segs /\ day \in Days
  BY <1>2, <1>3, ItemFacts, SegFacts
<1>5. s \in Keys /\ \A d : s # InitKey(d) /\ s # IndexKey(d)
  BY <1>4, SegFacts
<1>6. \A x : In(t, x) <=> (In(q, x) /\ x # s)
  <2>1. ASSUME NEW x, In(t, x) PROVE In(q, x) /\ x # s
    <3>1. PICK i \in 1..Len(t) : t[i].seg = x
      BY <2>1 DEF In
    <3>2. i + 1 \in 1..Len(q) /\ 1 \in 1..Len(q) /\ i + 1 # 1 /\ q[i + 1].seg = x
      BY <1>3, <3>1
    <3>3. q[1].seg = s
      BY <1>3
    <3> QED BY <1>1, <3>2, <3>3 DEF In, Distinct
  <2>2. ASSUME NEW x, In(q, x), x # s PROVE In(t, x)
    <3>1. PICK i \in 1..Len(q) : q[i].seg = x
      BY <2>2 DEF In
    <3>2. i # 1
      BY <1>3, <2>2, <3>1
    <3>3. i - 1 \in 1..Len(t) /\ t[i - 1] = q[i]
      BY <1>3, <3>2
    <3> QED BY <3>1, <3>3 DEF In
  <2> QED BY <2>1, <2>2
<1>7. Distinct(t)
  <2> SUFFICES ASSUME NEW i \in 1..Len(t), NEW j \in 1..Len(t), t[i].seg = t[j].seg PROVE i = j
    BY DEF Distinct
  <2>1. i + 1 \in 1..Len(q) /\ j + 1 \in 1..Len(q) /\ q[i + 1].seg = q[j + 1].seg
    BY <1>3
  <2>2. i + 1 = j + 1
    BY <1>1, <2>1 DEF Distinct
  <2> QED BY <2>2
<1>8. /\ DropOldest(r) = r4
  BY DEF DropOldest
<1>9. q # <<>> /\ (r.session => IndexFollows(r, files, indexes))
  BY DEF Fine
<1> HIDE DEF q, t, s, day, r1, r2, u, r3, v, r4
<1>10. /\ r1 \in Recorder /\ r1.kept = t /\ r1.pl = r.pl /\ r1.ops = r.ops /\ r1.curDay = r.curDay
       /\ r1.session = r.session /\ r1.open = r.open
  BY <1>1, <1>3 DEF r1, Recorder
<1>11. /\ r2 \in Recorder /\ b \in Seq(Effects) /\ r2.ops = r.ops \o b
       /\ \A x : ~Unlinks(b, x) /\ ~Creates(b, x)
       /\ r2.kept = t /\ r2.curDay = r.curDay /\ r2.session = r.session /\ r2.open = r.open
       /\ r2.pl.day = r.pl.day /\ r2.pl.ended = r.pl.ended
       /\ r2.pl.list = (IF cut THEN Tail(r.pl.list) ELSE r.pl.list)
       /\ r2.pl.day = NoDay => r2.pl.list = <<>>
  <2>1. r1.pl.day = NoDay => r1.pl.list = <<>>
    BY <1>1, <1>10
  <2>2. r1 \in Recorder /\ r2 = DropListed(r1, s)
    BY <1>10 DEF r2
  <2>3. Drops(r1, s, r2, DropEffects(r1.pl, s))
    BY <2>1, <2>2, DropListedFacts
  <2> QED BY <1>10, <2>3 DEF Drops
<1>12. /\ u \in Seq(Effects) /\ \A i \in 1..Len(u) : u[i].op \in {"unlink", "del"} /\ u[i].key = s
       /\ \A x : Unlinks(u, x) <=> x = s
       /\ \A x : ~Creates(u, x)
  <2> DEFINE e1 == Effect("unlink", s)
             e2 == Effect("del", s)
  <2>1. e1 \in Effects /\ e2 \in Effects /\ e1.op = "unlink" /\ e2.op = "del" /\ e1.key = s /\ e2.key = s
    BY <1>5, EffectFacts
  <2>2. u = <<e1, e2>>
    BY DEF u
  <2> HIDE DEF e1, e2
  <2>3. u \in Seq(Effects) /\ Len(u) = 2 /\ u[1] = e1 /\ u[2] = e2
    BY <2>1, <2>2
  <2>4. \A i \in 1..Len(u) : i = 1 \/ i = 2
    BY <2>3
  <2>5. 1 \in 1..Len(u)
    BY <2>3
  <2> QED BY <2>1, <2>3, <2>4, <2>5 DEF Unlinks, Unlink, Creates
<1>13. /\ r3 \in Recorder /\ r3.ops = r2.ops \o u /\ r2.ops \in Seq(Effects)
       /\ r3.kept = r2.kept /\ r3.pl = r2.pl /\ r3.curDay = r2.curDay
       /\ r3.session = r2.session /\ r3.open = r2.open
  BY <1>11, <1>12, DoFacts DEF r3
<1>14. /\ v \in Seq(Effects)
       /\ \A i \in 1..Len(v) :
               /\ v[i].op # "create" /\ (v[i].op = "unlink" => v[i].key \notin Segs)
               /\ v[i].key = InitKey(day) \/ v[i].key = IndexKey(day)
               /\ day # r3.curDay
  BY <1>4, <1>13, FolderFacts DEF v
<1>15. \A x \in Segs : ~Unlinks(v, x) /\ ~Creates(v, x)
  BY <1>14 DEF Unlinks, Unlink, Creates
<1>16. /\ r4 \in Recorder /\ r4.ops = r3.ops \o v /\ r3.ops \in Seq(Effects)
       /\ r4.kept = r3.kept /\ r4.pl = r3.pl /\ r4.curDay = r3.curDay
       /\ r4.session = r3.session /\ r4.open = r3.open
  BY <1>13, <1>14, DoFacts DEF r4
<1>17. ASSUME NEW x \in Segs
       PROVE  /\ Unlinks(r2.ops, x) <=> Unlinks(r.ops, x)
              /\ Unlinks(r3.ops, x) <=> (Unlinks(r.ops, x) \/ x = s)
              /\ Unlinks(r4.ops, x) <=> (Unlinks(r.ops, x) \/ x = s)
              /\ ~Creates(r4.ops, x)
  <2>1. /\ Unlinks(r2.ops, x) <=> Unlinks(r.ops, x)
        /\ Creates(r2.ops, x) <=> Creates(r.ops, x)
    <3> HIDE DEF b
    <3>1. /\ Unlinks(r.ops \o b, x) <=> (Unlinks(r.ops, x) \/ Unlinks(b, x))
          /\ Creates(r.ops \o b, x) <=> (Creates(r.ops, x) \/ Creates(b, x))
      BY <1>2, <1>11, ConcatOps
    <3>2. r2.ops = r.ops \o b /\ ~Unlinks(b, x) /\ ~Creates(b, x)
      BY <1>11
    <3> QED BY <3>1, <3>2
  <2>2. /\ Unlinks(r3.ops, x) <=> (Unlinks(r2.ops, x) \/ Unlinks(u, x))
        /\ Creates(r3.ops, x) <=> (Creates(r2.ops, x) \/ Creates(u, x))
    BY <1>12, <1>13, ConcatOps
  <2>3. /\ Unlinks(r4.ops, x) <=> (Unlinks(r3.ops, x) \/ Unlinks(v, x))
        /\ Creates(r4.ops, x) <=> (Creates(r3.ops, x) \/ Creates(v, x))
    BY <1>14, <1>16, ConcatOps
  <2> QED BY <1>1, <1>12, <1>15, <2>1, <2>2, <2>3
<1>18. KeepsFiles(r4, files)
  <2> SUFFICES ASSUME NEW x \in Segs
               PROVE  /\ In(r4.kept, x) <=> (x \in files /\ ~Unlinks(r4.ops, x))
                      /\ Unlinks(r4.ops, x) => x \in files
    BY DEF KeepsFiles
  <2>1. r4.kept = t
    BY <1>11, <1>13, <1>16
  <2>2. In(q, s)
    BY <1>3 DEF In, s
  <2> QED BY <1>1, <1>6, <1>17, <2>1, <2>2
<1>19. Between(r4, files)
  BY <1>1, <1>7, <1>11, <1>13, <1>16, <1>17, <1>18 DEF Between
<1>20. ASSUME r.session PROVE IndexFollows(r4, files, indexes)
  <2> DEFINE d == r.curDay
             l == indexes[d]
             list == OfDay(t, d)
             kt == OfDay(q, d)
  <2>1. /\ d \in Days /\ r.pl.day = d /\ r.pl.list = kt /\ r.pl.ended = FALSE
        /\ Sound(r.ops, d, files, l) /\ Shown(r.ops, d, kt, l)
    BY <1>9, <1>20 DEF IndexFollows, q
  <2>2. /\ day = d => kt # <<>> /\ Head(kt) = s /\ Tail(kt) = list
        /\ day # d => kt = list
    BY <1>2, <1>9, OfDayDrop DEF t, s, day
  <2>3. list \in Seq(Segs) /\ \A x : Among(list, x) => In(t, x) /\ DayOf(x) = d
    BY <1>3, OfDayListed
  <2>4. kt \in Seq(Segs) /\ \A x : Among(kt, x) => In(q, x) /\ DayOf(x) = d
    BY <1>2, OfDayListed
  <2>5. kt # <<>> => DayOf(Head(kt)) = d
    <3>1. kt # <<>> => Among(kt, Head(kt))
      <4> HIDE DEF kt
      <4> QED BY <2>4 DEF Among
    <3> QED BY <2>4, <3>1
  <2>6. cut <=> day = d
    BY <2>1, <2>2, <2>5 DEF day, IsListedFirst
  <2>7. r2.pl.list = list
    BY <1>11, <2>1, <2>2, <2>6
  <2>8. Sound(r2.ops, d, files, l) /\ Shown(r2.ops, d, list, l)
    <3>1. CASE day # d
      <4>1. b = <<>>
        BY <2>6, <3>1 DEF DropEffects
      <4>2. r2.ops = r.ops
        <5>1. r.ops \o <<>> = r.ops
          BY <1>2
        <5> HIDE DEF b
        <5> QED BY <1>11, <4>1, <5>1
      <4> QED BY <2>1, <2>2, <3>1, <4>2
    <3>2. CASE day = d
      <4> DEFINE e == Rewrite(d, list, FALSE, TRUE)
      <4>1. b = <<e>>
        BY <2>1, <2>2, <2>6, <3>2 DEF DropEffects
      <4>2. e.op = "index" /\ e.key = IndexKey(d) /\ e.listing.list = list /\ e.listing.ended = FALSE
        BY DEF Rewrite
      <4>3. Len(b) = 1 /\ b[1] = e /\ 1 \in 1..Len(b) /\ \A i \in 1..Len(b) : i = 1
        <5> HIDE DEF e, b
        <5>1. b = <<e>>
          BY <4>1
        <5> QED BY <5>1
      <4> HIDE DEF b, e, l, list, d
      <4>4. \A i \in 1..Len(b), x \in Segs :
                Writes(b[i], d) /\ Among(b[i].listing.list, x) => x \in files /\ ~Unlinks(r.ops, x)
        BY <1>1, <1>6, <2>3, <4>2, <4>3
      <4>5. LastWrite(b, d, list, l, 1)
        BY <4>2, <4>3 DEF LastWrite, Writes, Says
      <4>6. Sound(r.ops \o b, d, files, l) /\ Shown(r.ops \o b, d, list, l)
        BY <1>2, <1>11, <2>1, <4>3, <4>4, <4>5, AppendWrites
      <4> QED BY <1>11, <4>6
    <3> QED BY <3>1, <3>2
  <2>9. Sound(r3.ops, d, files, l) /\ Shown(r3.ops, d, list, l)
    <3>1. \A i \in 1..Len(u) : ~Touches(u[i], d)
      BY <1>5, <1>12 DEF Touches
    <3>2. \A x \in Segs : Among(list, x) => ~Unlinks(u, x)
      BY <1>6, <1>12, <2>3
    <3> HIDE DEF d, l, list
    <3> QED BY <1>12, <1>13, <2>8, <3>1, <3>2, AppendQuiet
  <2>10. Sound(r4.ops, d, files, l) /\ Shown(r4.ops, d, list, l)
    <3>1. \A i \in 1..Len(v) : ~Touches(v[i], d)
      <4>1. ASSUME NEW i \in 1..Len(v), Touches(v[i], d) PROVE FALSE
        <5>1. v[i].key = IndexKey(d) /\ day # d /\ (v[i].key = InitKey(day) \/ v[i].key = IndexKey(day))
          BY <1>11, <1>13, <1>14, <4>1 DEF Touches
        <5> QED BY <5>1, SegFacts
      <4> QED BY <4>1
    <3>2. \A x \in Segs : Among(list, x) => ~Unlinks(v, x)
      BY <1>15
    <3> HIDE DEF d, l, list
    <3> QED BY <1>14, <1>16, <2>9, <3>1, <3>2, AppendQuiet
  <2>11. r4.curDay = d /\ r4.pl.day = d /\ r4.pl.list = list /\ r4.pl.ended = FALSE /\ r4.kept = t
    BY <1>11, <1>13, <1>16, <2>1, <2>7
  <2> QED BY <2>1, <2>10, <2>11 DEF IndexFollows
<1>21. r4.session = r.session /\ r4.kept = t
  BY <1>11, <1>13, <1>16
<1>22. Fine(r4, files, indexes)
  BY <1>19, <1>20, <1>21 DEF Fine
<1> QED BY <1>8, <1>21, <1>22 DEF q, t

(* Too much is kept only if more than one segment is. *)
LEMMA OverRetain ==
  ASSUME NEW kept, over_retain(kept)
  PROVE  Len(kept) > 1 /\ kept # <<>>
<1>1. Len(kept) > 1
  BY Zenon DEF over_retain
<1>2. ~(Len(<<>>) > 1)
  OBVIOUS
<1> QED BY <1>1, <1>2

(* The rounds of the retention end, and what a round keeps they keep: S    *)
(* are the recorders of which it holds.                                    *)
LEMMA PruneKeeps ==
  ASSUME NEW S, S \subseteq Recorder, NEW r \in S,
         \A x \in S : over_retain(x.kept) => DropOldest(x) \in S /\ DropOldest(x).kept = Tail(x.kept)
  PROVE  prune_retained(r) \in S
<1> DEFINE q == r.kept
           n == Len(q)
           Enough(m) == /\ ~over_retain(SubSeq(r.kept, m + 1, Len(r.kept)))
                        /\ \A i \in 0..(m - 1) : over_retain(SubSeq(r.kept, i + 1, Len(r.kept)))
           rounds == CHOOSE m \in 0..Len(r.kept) : Enough(m)
           Step(g) == [i \in 0..rounds |-> IF i = 0 THEN r ELSE DropOldest(g[i - 1])]
           after == CHOOSE g : g = Step(g)
           Good(x, i) == x \in S /\ x.kept = SubSeq(q, i + 1, n)
<1>1. r \in Recorder /\ q \in Seq(Item) /\ n \in Nat
  BY RecorderFacts
<1>2. \E m \in 0..n : Enough(m)
  <2> DEFINE T == {m \in 0..n : ~over_retain(SubSeq(q, m + 1, n))}
  <2>1. n \in T
    <3>1. Len(SubSeq(q, n + 1, n)) = 0
      BY <1>1
    <3>2. ~over_retain(SubSeq(q, n + 1, n))
      <4> DEFINE e == SubSeq(q, n + 1, n)
      <4>1. ~(Len(e) > 1)
        BY <3>1
      <4> HIDE DEF e
      <4>2. ~over_retain(e)
        BY <4>1, Zenon DEF over_retain
      <4> QED BY <4>2 DEF e
    <3> QED BY <1>1, <3>2
  <2>2. T \subseteq Nat
    BY <1>1
  <2>3. PICK m \in T : \A i \in T : m <= i
    <3> HIDE DEF T
    <3> QED BY <2>1, <2>2, LeastElement
  <2>4. m \in 0..n /\ ~over_retain(SubSeq(q, m + 1, n))
    OBVIOUS
  <2>5. ASSUME NEW i \in 0..(m - 1) PROVE over_retain(SubSeq(q, i + 1, n))
    <3>1. i \in 0..n /\ ~(m <= i)
      BY <1>1, <2>4
    <3> QED BY <2>3, <3>1
  <2> QED BY <2>4, <2>5
<1>3. rounds \in 0..n /\ \A i \in 0..(rounds - 1) : over_retain(SubSeq(q, i + 1, n))
  <2>1. rounds \in 0..n /\ Enough(rounds)
    <3> HIDE DEF Enough
    <3> QED BY <1>2
  <2> HIDE DEF rounds
  <2> QED BY <2>1
<1>4. prune_retained(r) = after[rounds]
  BY DEF prune_retained
<1> HIDE DEF rounds
<1>5. rounds \in Nat /\ rounds <= n
  BY <1>1, <1>3
<1>6. ASSUME NEW x, NEW i \in 1..rounds, Good(x, i - 1)
      PROVE  Good(DropOldest(x), i) /\ DropOldest(x) \in Recorder
  <2>1. i - 1 \in 0..(rounds - 1) /\ (i - 1) + 1 = i /\ i <= n /\ i \in Nat /\ i >= 1
    BY <1>1, <1>5
  <2>2. x \in S /\ x.kept = SubSeq(q, i, n) /\ over_retain(SubSeq(q, i, n))
    BY <1>3, <1>6, <2>1
  <2>3. DropOldest(x) \in S /\ DropOldest(x).kept = Tail(x.kept)
    BY <2>2
  <2>4. Tail(SubSeq(q, i, n)) = SubSeq(q, i + 1, n)
    BY <1>1, <2>1
  <2> QED BY <2>2, <2>3, <2>4
<1>7. Good(r, 0)
  BY <1>1
<1> HIDE DEF Good, q, n
<1>8. \E f : f = Step(f)
  <2> DEFINE OK(m, f) == /\ f[0] = r /\ \A i \in 1..m : f[i] = DropOldest(f[i - 1])
                         /\ \A i \in 0..m : Good(f[i], i)
             T == {m \in 0..rounds : \E f \in [0..m -> Recorder] : OK(m, f)}
  <2>1. 0 \in T
    <3> DEFINE f == [i \in 0..0 |-> r]
    <3>1. f \in [0..0 -> Recorder] /\ OK(0, f)
      BY <1>1, <1>7
    <3> HIDE DEF f
    <3> QED BY <1>5, <3>1
  <2>2. ASSUME NEW m \in 1..rounds, m - 1 \in T PROVE m \in T
    <3>1. PICK f \in [0..(m - 1) -> Recorder] : OK(m - 1, f)
      BY <2>2
    <3> DEFINE new == DropOldest(f[m - 1])
               g == [i \in 0..m |-> IF i = m THEN new ELSE f[i]]
    <3>2. m \in Nat /\ m - 1 \in 0..(m - 1) /\ m >= 1 /\ m \in 0..rounds
      BY <1>5
    <3>3. new \in Recorder /\ Good(new, m)
      BY <1>6, <3>1, <3>2
    <3> HIDE DEF new
    <3>4. g \in [0..m -> Recorder]
      BY <3>1, <3>2, <3>3
    <3>5. g[0] = r /\ g[m] = new /\ \A i \in 0..(m - 1) : g[i] = f[i]
      BY <3>1, <3>2
    <3> HIDE DEF g
    <3>6. ASSUME NEW i \in 1..m PROVE g[i] = DropOldest(g[i - 1])
      <4>1. CASE i = m
        BY <3>2, <3>5, <4>1 DEF new
      <4>2. CASE i # m
        <5>1. i \in 1..(m - 1) /\ i - 1 \in 0..(m - 1) /\ i \in 0..(m - 1)
          BY <3>2, <4>2
        <5> QED BY <3>1, <3>5, <5>1
      <4> QED BY <4>1, <4>2
    <3>7. ASSUME NEW i \in 0..m PROVE Good(g[i], i)
      <4>1. CASE i = m
        BY <3>3, <3>5, <4>1
      <4>2. CASE i # m
        <5>1. i \in 0..(m - 1)
          BY <3>2, <4>2
        <5> QED BY <3>1, <3>5, <5>1
      <4> QED BY <4>1, <4>2
    <3>8. OK(m, g)
      BY <3>5, <3>6, <3>7
    <3> HIDE DEF OK
    <3> QED BY <3>2, <3>4, <3>8
  <2>3. rounds \in T
    <3> HIDE DEF T
    <3>1. \A i \in 0..rounds : i \in T
      BY <1>5, <2>1, <2>2, Climb
    <3> QED BY <1>5, <3>1
  <2>4. PICK f \in [0..rounds -> Recorder] : OK(rounds, f)
    BY <2>3
  <2>5. ASSUME NEW i \in 0..rounds PROVE f[i] = Step(f)[i]
    <3>1. CASE i = 0
      BY <2>4, <3>1
    <3>2. CASE i # 0
      <4>1. i \in 1..rounds
        BY <1>5, <3>2
      <4> QED BY <2>4, <3>2, <4>1
    <3> QED BY <3>1, <3>2
  <2>6. f = [i \in 0..rounds |-> f[i]] /\ Step(f) = [i \in 0..rounds |-> Step(f)[i]]
    OBVIOUS
  <2> HIDE DEF Step
  <2> QED BY <2>5, <2>6
<1>9. after = Step(after)
  <2> HIDE DEF Step
  <2> QED BY <1>8
<1>10. after[0] = r /\ \A i \in 1..rounds : after[i] = DropOldest(after[i - 1])
  <2> HIDE DEF after
  <2>1. \A i \in 0..rounds : after[i] = Step(after)[i]
    <3> HIDE DEF Step
    <3> QED BY <1>9
  <2>2. after[0] = r
    BY <1>5, <2>1
  <2>3. ASSUME NEW i \in 1..rounds PROVE after[i] = DropOldest(after[i - 1])
    <3>1. i \in 0..rounds /\ i # 0
      BY <1>5
    <3> QED BY <2>1, <3>1
  <2> QED BY <2>2, <2>3
<1> HIDE DEF after
<1> DEFINE T == {i \in 0..rounds : Good(after[i], i)}
<1>11. 0 \in T
  BY <1>5, <1>7, <1>10
<1>12. ASSUME NEW i \in 1..rounds, i - 1 \in T PROVE i \in T
  BY <1>5, <1>6, <1>10, <1>12
<1>13. rounds \in T
  <2> HIDE DEF T
  <2>1. \A i \in 0..rounds : i \in T
    BY <1>5, <1>11, <1>12, Climb
  <2> QED BY <1>5, <2>1
<1> QED BY <1>4, <1>13 DEF Good

LEMMA PruneFine ==
  ASSUME NEW r, NEW files, NEW indexes, Fine(r, files, indexes)
  PROVE  Fine(prune_retained(r), files, indexes)
<1> DEFINE S == {x \in Recorder : Fine(x, files, indexes)}
<1>1. S \subseteq Recorder /\ r \in S
  BY DEF Fine, Between
<1>2. ASSUME NEW x \in S, over_retain(x.kept)
      PROVE  DropOldest(x) \in S /\ DropOldest(x).kept = Tail(x.kept)
  <2>1. Fine(DropOldest(x), files, indexes) /\ DropOldest(x).kept = Tail(x.kept)
    BY <1>2, OverRetain, DropOldestFine
  <2>2. DropOldest(x) \in Recorder
    BY <2>1 DEF Fine, Between
  <2> QED BY <2>1, <2>2
<1>3. prune_retained(r) \in S
  <2> HIDE DEF S
  <2> QED BY <1>1, <1>2, PruneKeeps
<1> QED BY <1>3

-----------------------------------------------------------------------------
(* The other operators.                                                    *)

LEMMA ConcatAssoc ==
  ASSUME NEW a \in Seq(Effects), NEW b \in Seq(Effects), NEW c \in Seq(Effects)
  PROVE  (a \o b) \o c = a \o (b \o c)
OBVIOUS

LEMMA NoEffects == \A s : ~Unlinks(<<>>, s) /\ ~Creates(<<>>, s)
BY DEF Unlinks, Creates

(* Requests to the uploader change no file. *)
LEMMA FinePuts ==
  ASSUME NEW r, NEW files, NEW indexes, Fine(r, files, indexes),
         NEW b \in Seq(Effects), \A i \in 1..Len(b) : b[i].op = "put"
  PROVE  Fine(Do(r, b), files, indexes)
<1> DEFINE x == Do(r, b)
<1>1. /\ r \in Recorder /\ (r.pl.day = NoDay => r.pl.list = <<>>) /\ r.open = None
      /\ Distinct(r.kept) /\ (\A s \in Segs : ~Creates(r.ops, s)) /\ KeepsFiles(r, files)
      /\ (r.session => IndexFollows(r, files, indexes))
  BY DEF Fine, Between
<1>2. /\ x \in Recorder /\ x.ops = r.ops \o b /\ r.ops \in Seq(Effects)
      /\ x.kept = r.kept /\ x.pl = r.pl /\ x.curDay = r.curDay
      /\ x.session = r.session /\ x.open = r.open
  BY <1>1, DoFacts
<1> HIDE DEF x
<1>3. \A s : ~Unlinks(b, s) /\ ~Creates(b, s)
  BY DEF Unlinks, Unlink, Creates
<1>4. \A s : /\ Unlinks(x.ops, s) <=> Unlinks(r.ops, s)
             /\ Creates(x.ops, s) <=> Creates(r.ops, s)
  BY <1>2, <1>3, ConcatOps
<1>5. KeepsFiles(x, files)
  BY <1>1, <1>2, <1>4 DEF KeepsFiles
<1>6. Between(x, files)
  BY <1>1, <1>2, <1>4, <1>5 DEF Between
<1>7. ASSUME x.session PROVE IndexFollows(x, files, indexes)
  <2> DEFINE l == indexes[r.curDay]
             list == r.pl.list
             d == r.curDay
  <2>1. Sound(r.ops, d, files, l) /\ Shown(r.ops, d, list, l)
    BY <1>1, <1>2, <1>7 DEF IndexFollows
  <2>2. \A i \in 1..Len(b) : ~Touches(b[i], d)
    BY DEF Touches
  <2> HIDE DEF l, list, d
  <2>3. Sound(x.ops, d, files, l) /\ Shown(x.ops, d, list, l)
    BY <1>2, <1>3, <2>1, <2>2, AppendQuiet
  <2> QED BY <1>1, <1>2, <1>7, <2>3 DEF IndexFollows, l, list, d
<1> QED BY <1>6, <1>7 DEF Fine, x

LEMMA PutFacts ==
  ASSUME NEW k \in Keys
  PROVE  /\ <<Effect("put", k)>> \in Seq(Effects) /\ Len(<<Effect("put", k)>>) = 1
         /\ \A i \in 1..Len(<<Effect("put", k)>>) : <<Effect("put", k)>>[i].op = "put"
<1> DEFINE e == Effect("put", k)
<1>1. e \in Effects /\ e.op = "put"
  BY EffectFacts
<1> HIDE DEF e
<1>2. <<e>> \in Seq(Effects) /\ Len(<<e>>) = 1 /\ <<e>>[1] = e
  BY <1>1
<1>3. \A i \in 1..Len(<<e>>) : i = 1
  BY <1>2
<1>4. \A i \in 1..Len(<<e>>) : <<e>>[i].op = "put"
  BY <1>1, <1>2, <1>3
<1> QED BY <1>2, <1>4 DEF e

(* The open segment joins the kept ones, the index, and what the retention *)
(* looks at.                                                               *)
LEMMA CloseFine ==
  ASSUME NEW r, NEW files, NEW indexes, Consistent(r, files, indexes), r.ops = <<>>,
         NEW dur \in Durations
  PROVE  Fine(CloseSegment(r, dur), files, indexes)
<1>1. /\ r \in Recorder /\ (r.pl.day = NoDay => r.pl.list = <<>>) /\ Distinct(r.kept)
      /\ (r.open # None => r.session /\ DayOf(r.open) = r.curDay /\ ~In(r.kept, r.open))
      /\ FilesFollow(r, files)
      /\ (r.session => IndexFollows(r, files, indexes))
  BY DEF Consistent
<1>2. /\ r.kept \in Seq(Item) /\ r.pl \in Playlist /\ r.open \in Segs \cup {None}
      /\ r.pl.list \in Seq(Segs)
  BY <1>1, RecorderFacts
<1>3. \A s \in Segs : (In(r.kept, s) \/ s = r.open) <=> s \in files
  BY <1>1, NoEffects DEF FilesFollow
<1>4. CASE r.open = None
  <2>1. CloseSegment(r, dur) = r
    BY <1>4 DEF CloseSegment
  <2>2. KeepsFiles(r, files)
    BY <1>3, <1>4, SegFacts, NoEffects DEF KeepsFiles
  <2> QED BY <1>1, <1>4, <2>1, <2>2, NoEffects DEF Fine, Between
<1>5. CASE r.open # None
  <2> DEFINE o == r.open
             d == r.curDay
             l == indexes[d]
             x == [seg |-> o, dur |-> dur]
             list == Append(r.pl.list, o)
             pl == [r.pl EXCEPT !.list = list, !.ended = FALSE]
             kept == Append(r.kept, x)
             r1 == [r EXCEPT !.pl = pl, !.open = None, !.kept = kept]
             e1 == Rewrite(d, list, FALSE, TRUE)
             e2 == Effect("put", o)
             u == <<e1, e2>>
             r2 == Do(r1, u)
             r3 == prune_retained(r2)
             v == <<Effect("put", IndexKey(d))>>
  <2>1. /\ d \in Days /\ r.pl.day = d /\ r.pl.list = OfDay(r.kept, d) /\ r.pl.ended = FALSE
        /\ Sound(r.ops, d, files, l) /\ Shown(r.ops, d, r.pl.list, l)
    BY <1>1, <1>5 DEF IndexFollows
  <2>2. o \in Segs /\ x \in Item /\ x.seg = o
    BY <1>2, <1>5, StoreAssumption DEF Item
  <2>3. list \in Seq(Segs) /\ kept \in Seq(Item) /\ Len(kept) = Len(r.kept) + 1
        /\ kept[Len(r.kept) + 1] = x /\ \A i \in 1..Len(r.kept) : kept[i] = r.kept[i]
    BY <1>2, <2>2
  <2>4. OfDay(kept, d) = list
    BY <1>1, <1>2, <1>5, <2>1, <2>2, OfDayAppend
  <2>5. pl \in Playlist /\ pl.day = d /\ pl.list = list /\ pl.ended = FALSE
    BY <1>2, <2>1, <2>3 DEF Playlist
  <2>6. PlaylistRewrite(pl) = e1
    BY <2>5 DEF PlaylistRewrite
  <2>7. CloseSegment(r, dur) = Do(r3, v)
    <3>1. CloseSegment(r, dur) =
            Do(prune_retained(Do([r EXCEPT !.pl = pl, !.open = None, !.kept = Append(@, x)],
                                 <<PlaylistRewrite(pl), Effect("put", o)>>)),
               <<Effect("put", IndexKey(pl.day))>>)
      BY <1>5 DEF CloseSegment
    <3>2. [r EXCEPT !.pl = pl, !.open = None, !.kept = Append(@, x)] = r1
      BY <1>1 DEF Recorder
    <3> QED BY <2>5, <2>6, <3>1, <3>2
  <2> HIDE DEF x, list, pl, kept
  <2>8. /\ r1 \in Recorder /\ r1.kept = kept /\ r1.pl = pl /\ r1.open = None /\ r1.ops = <<>>
        /\ r1.curDay = d /\ r1.session = r.session
    BY <1>1, <2>3, <2>5 DEF Recorder
  <2>9. /\ e1 \in Effects /\ e1.op = "index" /\ e1.key = IndexKey(d)
        /\ e1.listing.list = list /\ e1.listing.ended = FALSE
    BY <2>1, <2>3 DEF Rewrite, Effects, Listing
  <2>10. e2 \in Effects /\ e2.op = "put"
    BY <2>2, SegFacts, EffectFacts
  <2> HIDE DEF r1, e1, e2
  <2>11. u \in Seq(Effects) /\ Len(u) = 2 /\ u[1] = e1 /\ u[2] = e2
    BY <2>9, <2>10
  <2>12. \A i \in 1..Len(u) : i = 1 \/ i = 2
    BY <2>11
  <2> HIDE DEF u
  <2>13. \A s : ~Unlinks(u, s) /\ ~Creates(u, s)
    BY <2>9, <2>10, <2>11, <2>12 DEF Unlinks, Unlink, Creates
  <2>14. /\ r2 \in Recorder /\ r2.ops = <<>> \o u /\ r2.kept = kept /\ r2.pl = pl /\ r2.curDay = d
         /\ r2.session = r.session /\ r2.open = None
    <3>1. r1 \in Recorder
      BY <2>8
    <3>2. /\ Do(r1, u) \in Recorder /\ Do(r1, u).ops = r1.ops \o u
          /\ Do(r1, u).kept = r1.kept /\ Do(r1, u).pl = r1.pl /\ Do(r1, u).curDay = r1.curDay
          /\ Do(r1, u).session = r1.session /\ Do(r1, u).open = r1.open
      BY <2>11, <3>1, DoFacts, Zenon
    <3> QED BY <2>8, <3>2
  <2>15. r2.ops = u
    BY <2>11, <2>14
  <2> HIDE DEF r2
  <2>16. \A s \in Segs : In(kept, s) <=> (In(r.kept, s) \/ s = o)
    <3>1. ASSUME NEW s, In(kept, s) PROVE In(r.kept, s) \/ s = o
      <4>1. PICK i \in 1..Len(kept) : kept[i].seg = s
        BY <3>1 DEF In
      <4>2. i = Len(r.kept) + 1 \/ i \in 1..Len(r.kept)
        BY <1>2, <2>3
      <4> QED BY <2>2, <2>3, <4>1, <4>2 DEF In
    <3>2. ASSUME NEW s, In(r.kept, s) PROVE In(kept, s)
      <4>1. PICK i \in 1..Len(r.kept) : r.kept[i].seg = s
        BY <3>2 DEF In
      <4>2. i \in 1..Len(kept)
        BY <1>2, <2>3
      <4> QED BY <2>3, <4>1, <4>2 DEF In
    <3>3. In(kept, o)
      <4>1. Len(r.kept) + 1 \in 1..Len(kept)
        BY <1>2, <2>3
      <4> QED BY <2>2, <2>3, <4>1 DEF In
    <3> QED BY <3>1, <3>2, <3>3
  <2>17. Distinct(kept)
    <3> SUFFICES ASSUME NEW i \in 1..Len(kept), NEW j \in 1..Len(kept), kept[i].seg = kept[j].seg
                 PROVE  i = j
      BY DEF Distinct
    <3>1. /\ i = Len(r.kept) + 1 \/ (i \in 1..Len(r.kept) /\ kept[i] = r.kept[i])
          /\ j = Len(r.kept) + 1 \/ (j \in 1..Len(r.kept) /\ kept[j] = r.kept[j])
      BY <1>2, <2>3
    <3>2. \A k \in 1..Len(r.kept) : r.kept[k].seg # o
      BY <1>1, <1>5 DEF In
    <3> QED BY <1>1, <2>2, <2>3, <3>1, <3>2 DEF Distinct
  <2>18. KeepsFiles(r2, files)
    BY <1>3, <2>13, <2>14, <2>15, <2>16 DEF KeepsFiles
  <2>19. pl.day # NoDay
    BY <2>1, <2>5, StoreAssumption DEF Days, NoDay
  <2>20. Between(r2, files)
    BY <2>13, <2>14, <2>15, <2>17, <2>18, <2>19 DEF Between
  <2>21. Sound(u, d, files, l) /\ Shown(u, d, list, l)
    <3>1. \A s : Among(list, s) => In(kept, s)
      BY <2>3, <2>4, OfDayListed
    <3>2. \A i \in 1..Len(u), s \in Segs :
            Writes(u[i], d) /\ Among(u[i].listing.list, s) => s \in files /\ ~Unlinks(<<>>, s)
      BY <1>3, <2>9, <2>10, <2>11, <2>12, <2>16, <3>1, NoEffects DEF Writes
    <3>3. LastWrite(u, d, list, l, 1)
      BY <2>9, <2>10, <2>11, <2>12 DEF LastWrite, Writes, Says, Touches
    <3>4. 1 \in 1..Len(u) /\ <<>> \in Seq(Effects)
      BY <2>11
    <3> HIDE DEF l, d
    <3>5. Sound(<<>> \o u, d, files, l) /\ Shown(<<>> \o u, d, list, l)
      BY <2>1, <2>11, <2>13, <3>2, <3>3, <3>4, AppendWrites
    <3>6. <<>> \o u = u
      BY <2>11
    <3> QED BY <3>5, <3>6
  <2>22. IndexFollows(r2, files, indexes)
    BY <2>1, <2>4, <2>5, <2>14, <2>15, <2>21 DEF IndexFollows
  <2>23. Fine(r2, files, indexes)
    BY <2>20, <2>22 DEF Fine
  <2>24. Fine(r3, files, indexes)
    BY <2>23, PruneFine
  <2>25. IndexKey(d) \in Keys
    BY <2>1, SegFacts
  <2>26. v \in Seq(Effects) /\ \A i \in 1..Len(v) : v[i].op = "put"
    BY <2>25, PutFacts
  <2> HIDE DEF r3, v
  <2>27. Fine(Do(r3, v), files, indexes)
    BY <2>24, <2>26, FinePuts
  <2> QED BY <2>7, <2>27
<1> QED BY <1>4, <1>5

LEMMA BetweenDo ==
  ASSUME NEW r, NEW files, Between(r, files), NEW b \in Seq(Effects),
         \A s \in Segs : ~Unlinks(b, s) /\ ~Creates(b, s)
  PROVE  Between(Do(r, b), files)
<1> DEFINE x == Do(r, b)
<1>1. /\ r \in Recorder /\ (r.pl.day = NoDay => r.pl.list = <<>>) /\ r.open = None
      /\ Distinct(r.kept) /\ (\A s \in Segs : ~Creates(r.ops, s)) /\ KeepsFiles(r, files)
  BY DEF Between
<1>2. /\ x \in Recorder /\ x.ops = r.ops \o b /\ r.ops \in Seq(Effects)
      /\ x.kept = r.kept /\ x.pl = r.pl /\ x.open = r.open
  BY <1>1, DoFacts
<1> HIDE DEF x
<1>3. \A s \in Segs : /\ Unlinks(x.ops, s) <=> Unlinks(r.ops, s)
                      /\ Creates(x.ops, s) <=> Creates(r.ops, s)
  BY <1>2, ConcatOps
<1>4. KeepsFiles(x, files)
  BY <1>1, <1>2, <1>3 DEF KeepsFiles
<1>5. Between(x, files)
  BY <1>1, <1>2, <1>3, <1>4 DEF Between
<1> QED BY <1>5 DEF x

(* What is said of the playlist and the session has no part in Between. *)
LEMMA BetweenWith ==
  ASSUME NEW r, NEW files, Between(r, files), NEW x \in Recorder,
         x.kept = r.kept, x.open = r.open, x.ops = r.ops, x.pl.day = NoDay => x.pl.list = <<>>
  PROVE  Between(x, files)
BY DEF Between, KeepsFiles

LEMMA EndBetween ==
  ASSUME NEW r, NEW files, Between(r, files)
  PROVE  Between(EndPlaylist(r), files) /\ EndPlaylist(r).curDay = r.curDay
<1>1. /\ r \in Recorder /\ (r.pl.day = NoDay => r.pl.list = <<>>)
  BY DEF Between
<1>2. /\ r.pl \in Playlist /\ r.pl.day \in Days \cup {NoDay} /\ r.pl.list \in Seq(Segs)
      /\ r.pl.ended \in BOOLEAN
  BY <1>1, RecorderFacts
<1>3. CASE r.pl.day = NoDay
  BY <1>3 DEF EndPlaylist
<1>4. CASE r.pl.day # NoDay
  <2> DEFINE pl == [r.pl EXCEPT !.ended = TRUE]
             x == [r EXCEPT !.pl = pl]
             e == Rewrite(r.pl.day, r.pl.list, TRUE, TRUE)
             a == IF r.pl.ended THEN <<>> ELSE <<e>>
             c == <<Effect("put", IndexKey(r.pl.day))>>
             b == a \o c
  <2>1. r.pl.day \in Days
    BY <1>2, <1>4
  <2>2. pl \in Playlist /\ pl.day = r.pl.day /\ pl.list = r.pl.list /\ pl.ended = TRUE
    BY <1>2 DEF Playlist
  <2>3. PlaylistRewrite(pl) = e
    BY <2>2 DEF PlaylistRewrite
  <2>4. EndPlaylist(r) = Do(x, b)
    BY <1>4, <2>2, <2>3 DEF EndPlaylist
  <2> HIDE DEF pl
  <2>5. /\ x \in Recorder /\ x.kept = r.kept /\ x.open = r.open /\ x.ops = r.ops /\ x.pl = pl
        /\ x.curDay = r.curDay
    BY <1>1, <2>2 DEF Recorder
  <2>6. e \in Effects /\ e.op = "index"
    BY <1>2, <2>1 DEF Rewrite, Effects, Listing
  <2> HIDE DEF e
  <2>7. a \in Seq(Effects) /\ \A i \in 1..Len(a) : a[i].op = "index"
    <3>1. <<>> \in Seq(Effects) /\ \A i \in 1..Len(<<>>) : <<>>[i].op = "index"
      OBVIOUS
    <3>2. <<e>> \in Seq(Effects) /\ Len(<<e>>) = 1 /\ <<e>>[1] = e
      BY <2>6
    <3>3. \A i \in 1..Len(<<e>>) : i = 1
      BY <3>2
    <3>4. \A i \in 1..Len(<<e>>) : <<e>>[i].op = "index"
      BY <2>6, <3>2, <3>3
    <3> QED BY <3>1, <3>2, <3>4
  <2>8. c \in Seq(Effects) /\ \A i \in 1..Len(c) : c[i].op = "put"
    BY <2>1, SegFacts, PutFacts
  <2> HIDE DEF a, c
  <2>9. b \in Seq(Effects)
    BY <2>7, <2>8, ConcatFacts
  <2>10. \A s \in Segs : ~Unlinks(b, s) /\ ~Creates(b, s)
    <3>1. \A i \in 1..Len(b) : b[i].op \in {"index", "put"}
      BY <2>7, <2>8, ConcatSplit
    <3> QED BY <3>1 DEF Unlinks, Unlink, Creates
  <2> HIDE DEF b, x
  <2>11. Between(x, files)
    BY <1>1, <2>2, <2>5, BetweenWith
  <2>12. Between(Do(x, b), files)
    BY <2>9, <2>10, <2>11, BetweenDo
  <2>13. Do(x, b).curDay = x.curDay
    BY <2>5, <2>9, DoFacts
  <2> QED BY <2>4, <2>5, <2>12, <2>13
<1> QED BY <1>3, <1>4

(* A session that begins need not care for what the index said. *)
LEMMA BeginFine ==
  ASSUME NEW r, NEW files, NEW indexes, Between(r, files), NEW d \in Days
  PROVE  /\ Fine(BeginSession(r, d), files, indexes)
         /\ BeginSession(r, d).session /\ BeginSession(r, d).curDay = d
<1> DEFINE list == KeptOf(r, d)
           n == Len(list) + 1
           l == indexes[d]
           pl == [day |-> d, list |-> list, ended |-> FALSE]
           x == [r EXCEPT !.pl = pl, !.curDay = d, !.session = TRUE]
           a == <<Effect("create", InitKey(d))>>
           b == Rebuild(r, d)
           e1 == Effect("put", InitKey(d))
           e2 == Effect("put", IndexKey(d))
           c == <<e1, e2>>
           ops == (a \o b) \o c
           y == Do(x, ops)
<1>1. /\ r \in Recorder /\ (r.pl.day = NoDay => r.pl.list = <<>>) /\ r.open = None
      /\ Distinct(r.kept) /\ (\A s \in Segs : ~Creates(r.ops, s)) /\ KeepsFiles(r, files)
  BY DEF Between
<1>2. r.kept \in Seq(Item) /\ r.ops \in Seq(Effects)
  BY <1>1, RecorderFacts
<1>3. list \in Seq(Segs) /\ \A s : Among(list, s) => In(r.kept, s)
  BY <1>2, OfDayListed DEF KeptOf
<1>4. BeginSession(r, d) = y
  BY DEF BeginSession
<1>5. /\ b \in Seq(Effects) /\ Len(b) = n /\ n \in Nat /\ n >= 1
      /\ \A i \in 1..n : /\ b[i].op = "index" /\ b[i].key = IndexKey(d)
                         /\ b[i].listing.list = SubSeq(list, 1, i - 1)
                         /\ b[i].listing.ended = FALSE
  <2>1. /\ b \in Seq(Effects) /\ Len(b) = n /\ Len(list) \in Nat
        /\ \A i \in 1..n : /\ b[i].op = "index" /\ b[i].key = IndexKey(d)
                           /\ b[i].listing.list = SubSeq(list, 1, i - 1)
                           /\ b[i].listing.ended = FALSE
    BY <1>2, RebuildFacts, Zenon
  <2> HIDE DEF b, list
  <2> QED BY <2>1
<1>6. InitKey(d) \in Keys /\ IndexKey(d) \in Keys /\ InitKey(d) \notin Segs /\ InitKey(d) # IndexKey(d)
  BY SegFacts
<1>7. /\ a \in Seq(Effects) /\ \A i \in 1..Len(a) : a[i].op = "create" /\ a[i].key = InitKey(d)
  <2> DEFINE e == Effect("create", InitKey(d))
  <2>1. e \in Effects /\ e.op = "create" /\ e.key = InitKey(d)
    BY EffectFacts
  <2>2. a = <<e>>
    OBVIOUS
  <2> HIDE DEF e, a
  <2>3. a \in Seq(Effects) /\ Len(a) = 1 /\ a[1] = e
    BY <2>1, <2>2
  <2>4. \A i \in 1..Len(a) : i = 1
    BY <2>3
  <2> QED BY <2>1, <2>3, <2>4
<1>8. c \in Seq(Effects) /\ \A i \in 1..Len(c) : c[i].op = "put"
  <2>1. e1 \in Effects /\ e2 \in Effects /\ e1.op = "put" /\ e2.op = "put"
    BY <1>6, EffectFacts
  <2> HIDE DEF e1, e2
  <2>2. c \in Seq(Effects) /\ Len(c) = 2 /\ c[1] = e1 /\ c[2] = e2
    BY <2>1
  <2>3. \A i \in 1..Len(c) : i = 1 \/ i = 2
    BY <2>2
  <2> QED BY <2>1, <2>2, <2>3
<1>9. Among(list, Head(list)) \/ list = <<>>
  BY <1>3 DEF Among
<1>10. pl \in Playlist /\ pl.day = d /\ pl.list = list /\ pl.ended = FALSE
  BY <1>3 DEF Playlist
<1>11. d # NoDay
  BY StoreAssumption DEF Days, NoDay
<1>12. list = OfDay(r.kept, d)
  BY DEF KeptOf
<1> HIDE DEF list, pl, a, b, c
<1>13. /\ x \in Recorder /\ x.kept = r.kept /\ x.open = r.open /\ x.ops = r.ops /\ x.pl = pl
       /\ x.curDay = d /\ x.session = TRUE
  BY <1>1, <1>10 DEF Recorder
<1>14. /\ ops \in Seq(Effects) /\ a \o b \in Seq(Effects)
       /\ \A i \in 1..Len(ops) : /\ ops[i].op \in {"create", "index", "put"}
                                 /\ ops[i].op = "create" => ops[i].key = InitKey(d)
  <2>1. a \o b \in Seq(Effects)
    BY <1>5, <1>7, ConcatFacts
  <2>2. \A i \in 1..Len(a \o b) : /\ (a \o b)[i].op \in {"create", "index"}
                                  /\ (a \o b)[i].op = "create" => (a \o b)[i].key = InitKey(d)
    BY <1>5, <1>7, ConcatSplit
  <2> DEFINE ab == a \o b
  <2> HIDE DEF ab
  <2>3. /\ ab \in Seq(Effects)
        /\ \A i \in 1..Len(ab) : /\ ab[i].op \in {"create", "index"}
                                 /\ ab[i].op = "create" => ab[i].key = InitKey(d)
    BY <2>1, <2>2 DEF ab
  <2>4. ab \o c \in Seq(Effects)
    BY <1>8, <2>3, ConcatFacts
  <2>5. \A i \in 1..Len(ab \o c) :
            /\ (ab \o c)[i].op \in {"create", "index", "put"}
            /\ (ab \o c)[i].op = "create" => (ab \o c)[i].key = InitKey(d)
    BY <1>8, <2>3, ConcatSplit
  <2>6. ops = ab \o c
    BY DEF ab
  <2> HIDE DEF ops
  <2> QED BY <2>1, <2>4, <2>5, <2>6, Zenon
<1>15. \A s \in Segs : ~Unlinks(ops, s) /\ ~Creates(ops, s)
  <2> HIDE DEF ops
  <2> QED BY <1>6, <1>14 DEF Unlinks, Unlink, Creates
<1>16. Between(x, files)
  <2> HIDE DEF x
  <2> QED BY <1>10, <1>11, <1>13, BetweenWith
<1>17. Between(y, files)
  <2> HIDE DEF x, ops
  <2> QED BY <1>14, <1>15, <1>16, BetweenDo
<1>18. /\ y.kept = r.kept /\ y.pl = pl /\ y.curDay = d /\ y.session = TRUE /\ y.ops = r.ops \o ops
  <2> HIDE DEF x, ops
  <2>1. x \in Recorder
    BY <1>13
  <2>2. /\ y.ops = x.ops \o ops /\ y.kept = x.kept /\ y.pl = x.pl /\ y.curDay = x.curDay
        /\ y.session = x.session
    BY <1>14, <2>1, DoFacts, Zenon
  <2> HIDE DEF y
  <2> QED BY <1>13, <2>2
<1>19. y.ops = ((r.ops \o a) \o b) \o c
  <2>1. r.ops \o ops = (r.ops \o (a \o b)) \o c
    BY <1>2, <1>8, <1>14, ConcatAssoc
  <2>2. r.ops \o (a \o b) = (r.ops \o a) \o b
    BY <1>2, <1>5, <1>7, ConcatAssoc
  <2> HIDE DEF ops, y
  <2> QED BY <1>18, <2>1, <2>2
<1> DEFINE ra == r.ops \o a
<1>20. /\ ra \in Seq(Effects)
       /\ \A s \in Segs : Unlinks(ra, s) <=> Unlinks(r.ops, s)
  <2>1. \A s \in Segs : ~Unlinks(a, s)
    BY <1>7 DEF Unlinks, Unlink
  <2>2. ra \in Seq(Effects)
    BY <1>2, <1>7, ConcatFacts
  <2>3. \A s : Unlinks(ra, s) <=> (Unlinks(r.ops, s) \/ Unlinks(a, s))
    BY <1>2, <1>7, ConcatOps
  <2> QED BY <2>1, <2>2, <2>3
<1> HIDE DEF ra
<1>21. Sound(ra \o b, d, files, l) /\ Shown(ra \o b, d, list, l)
  <2>1. ASSUME NEW i \in 1..Len(b), NEW s \in Segs, Writes(b[i], d), Among(b[i].listing.list, s)
        PROVE  s \in files /\ ~Unlinks(ra, s)
    <3>1. b[i].listing.list = SubSeq(list, 1, i - 1) /\ i \in 1..n
      BY <1>5
    <3>2. Among(list, s)
      <4>1. Among(SubSeq(list, 1, i - 1), s)
        BY <2>1, <3>1
      <4>2. \A k \in 1..Len(SubSeq(list, 1, i - 1)) :
                k \in 1..Len(list) /\ SubSeq(list, 1, i - 1)[k] = list[k]
        BY <1>3, <1>5, <3>1
      <4> QED BY <4>1, <4>2 DEF Among
    <3>3. In(r.kept, s)
      BY <1>3, <3>2
    <3> QED BY <1>1, <1>20, <3>3 DEF KeepsFiles
  <2>2. \A s \in Segs : ~Unlinks(b, s)
    BY <1>5 DEF Unlinks, Unlink
  <2>3. 1 \in 1..Len(b) /\ n \in 1..Len(b)
    BY <1>5
  <2>4. Writes(b[1], d) /\ b[1].listing.list = <<>>
    <3>1. SubSeq(list, 1, 1 - 1) = <<>>
      BY <1>3
    <3> QED BY <1>5, <2>3, <3>1 DEF Writes
  <2>5. LastWrite(b, d, list, l, n)
    <3>1. SubSeq(list, 1, n - 1) = list
      BY <1>3
    <3>2. Writes(b[n], d) /\ Says(b[n].listing, list)
      BY <1>5, <2>3, <3>1 DEF Writes, Says
    <3>3. n # 0 /\ \A k \in 1..Len(b) : ~(k > n)
      BY <1>5
    <3> QED BY <3>2, <3>3 DEF LastWrite
  <2> HIDE DEF n, l
  <2>6. \A i \in 1..Len(b), s \in Segs :
            Writes(b[i], d) /\ Among(b[i].listing.list, s) => s \in files /\ ~Unlinks(ra, s)
    BY <2>1
  <2> QED BY <1>5, <1>20, <2>2, <2>3, <2>4, <2>5, <2>6, AppendWrites
<1>22. Sound((ra \o b) \o c, d, files, l) /\ Shown((ra \o b) \o c, d, list, l)
  <2> DEFINE rab == ra \o b
  <2>1. rab \in Seq(Effects)
    BY <1>5, <1>20, ConcatFacts
  <2>2. \A i \in 1..Len(c) : ~Touches(c[i], d)
    BY <1>8 DEF Touches
  <2>3. \A s \in Segs : Among(list, s) => ~Unlinks(c, s)
    BY <1>8 DEF Unlinks, Unlink
  <2>4. Sound(rab, d, files, l) /\ Shown(rab, d, list, l)
    BY <1>21
  <2> HIDE DEF rab, l
  <2>5. Sound(rab \o c, d, files, l) /\ Shown(rab \o c, d, list, l)
    BY <1>8, <2>1, <2>2, <2>3, <2>4, AppendQuiet
  <2> QED BY <2>5 DEF rab
<1>23. IndexFollows(y, files, indexes)
  <2> HIDE DEF y, x, ops
  <2> QED BY <1>10, <1>12, <1>18, <1>19, <1>22 DEF IndexFollows, ra
<1> HIDE DEF y
<1> QED BY <1>4, <1>17, <1>18, <1>23 DEF Fine

LEMMA FineConsistent ==
  ASSUME NEW r, NEW files, NEW indexes, Fine(r, files, indexes)
  PROVE  Consistent(r, files, indexes)
BY SegFacts DEF Fine, Between, KeepsFiles, Consistent, FilesFollow

(* A segment of the session's day is opened. *)
LEMMA OpenFine ==
  ASSUME NEW r, NEW files, NEW indexes, Fine(r, files, indexes), r.session,
         NEW s \in Segs, DayOf(s) = r.curDay, s \notin files
  PROVE  /\ Consistent(Do([r EXCEPT !.open = s], <<Effect("create", s)>>), files, indexes)
         /\ Do([r EXCEPT !.open = s], <<Effect("create", s)>>).open = s
<1> DEFINE x == [r EXCEPT !.open = s]
           e == Effect("create", s)
           b == <<e>>
           opened == Do(x, b)
<1>1. /\ r \in Recorder /\ (r.pl.day = NoDay => r.pl.list = <<>>) /\ r.open = None
      /\ Distinct(r.kept) /\ (\A t \in Segs : ~Creates(r.ops, t))
      /\ (\A t \in Segs : /\ In(r.kept, t) <=> (t \in files /\ ~Unlinks(r.ops, t))
                          /\ Unlinks(r.ops, t) => t \in files)
      /\ IndexFollows(r, files, indexes)
  BY DEF Fine, Between, KeepsFiles
<1>2. /\ x \in Recorder /\ x.kept = r.kept /\ x.pl = r.pl /\ x.curDay = r.curDay
      /\ x.session = r.session /\ x.ops = r.ops /\ x.open = s
  BY <1>1 DEF Recorder
<1>3. e \in Effects /\ e.op = "create" /\ e.key = s
  BY EffectFacts
<1> HIDE DEF x, e
<1>4. b \in Seq(Effects) /\ Len(b) = 1 /\ b[1] = e
  BY <1>3
<1>5. \A i \in 1..Len(b) : i = 1
  BY <1>4
<1>6. \A t : ~Unlinks(b, t) /\ (Creates(b, t) <=> t = s)
  <2>1. 1 \in 1..Len(b)
    BY <1>4
  <2> HIDE DEF b
  <2> QED BY <1>3, <1>4, <1>5, <2>1 DEF Unlinks, Unlink, Creates
<1> HIDE DEF b
<1>7. /\ opened \in Recorder /\ opened.ops = r.ops \o b /\ r.ops \in Seq(Effects)
      /\ opened.kept = r.kept /\ opened.pl = r.pl /\ opened.curDay = r.curDay
      /\ opened.session = r.session /\ opened.open = s
  <2>1. /\ opened \in Recorder /\ opened.ops = x.ops \o b /\ x.ops \in Seq(Effects)
        /\ opened.kept = x.kept /\ opened.pl = x.pl /\ opened.curDay = x.curDay
        /\ opened.session = x.session /\ opened.open = x.open
    BY <1>2, <1>4, DoFacts
  <2> HIDE DEF opened
  <2> QED BY <1>2, <2>1
<1> HIDE DEF opened
<1>8. Consistent(opened, files, indexes)
  <2>1. \A t : /\ Unlinks(opened.ops, t) <=> Unlinks(r.ops, t)
               /\ Creates(opened.ops, t) <=> (Creates(r.ops, t) \/ t = s)
    BY <1>4, <1>6, <1>7, ConcatOps
  <2>2. FilesFollow(opened, files)
    BY <1>1, <1>7, <2>1 DEF FilesFollow
  <2>3. ~In(opened.kept, opened.open)
    BY <1>1, <1>7
  <2>4. IndexFollows(opened, files, indexes)
    <3> DEFINE d == r.curDay
               l == indexes[d]
               list == r.pl.list
    <3>1. Sound(r.ops, d, files, l) /\ Shown(r.ops, d, list, l)
      BY <1>1 DEF IndexFollows
    <3>2. \A i \in 1..Len(b) : ~Touches(b[i], d)
      BY <1>3, <1>4, <1>5 DEF Touches
    <3>3. \A t \in Segs : Among(list, t) => ~Unlinks(b, t)
      BY <1>6
    <3> HIDE DEF d, l, list
    <3>4. Sound(opened.ops, d, files, l) /\ Shown(opened.ops, d, list, l)
      BY <1>4, <1>7, <3>1, <3>2, <3>3, AppendQuiet
    <3> QED BY <1>1, <1>7, <3>4 DEF IndexFollows, l, list, d
  <2> QED BY <1>1, <1>7, <2>2, <2>3, <2>4 DEF Consistent
<1> QED BY <1>7, <1>8 DEF opened, b, x, e

(* Whatever the clock and the files do, a session that is there afterwards *)
(* is the segment's.                                                       *)
LEMMA OpenedConsistent ==
  ASSUME NEW r, NEW files, NEW indexes, Fine(r, files, indexes),
         NEW day \in Days, NEW day2 \in Days, NEW s, NEW outcome,
         outcome = "ok" => s \in Segs /\ DayOf(s) = day /\ s \notin files
  PROVE  /\ Consistent(Opened(r, day, day2, s, outcome), files, indexes)
         /\ Opened(r, day, day2, s, outcome).open \in {None} \cup (IF outcome = "ok" THEN {s} ELSE {})
<1> DEFINE left == IF r.session /\ day # r.curDay
                   THEN [EndPlaylist(r) EXCEPT !.session = FALSE, !.curDay = NoDay] ELSE r
           ensured == IF left.session THEN left ELSE BeginSession(left, day2)
           back == EndPlaylist(ensured)
           ready == IF day = ensured.curDay THEN ensured ELSE BeginSession(back, day)
           gone == [back EXCEPT !.session = FALSE]
           opened == Do([ready EXCEPT !.open = s], <<Effect("create", s)>>)
           result == Opened(r, day, day2, s, outcome)
<1>1. \/ result = left \/ result = gone \/ result = ready
      \/ result = opened /\ outcome = "ok"
  <2>1. Opened(r, day, day2, s, outcome) =
          CASE outcome = "no session" /\ ~left.session -> left
            [] outcome = "no day session" /\ day # ensured.curDay -> gone
            [] outcome = "ok" -> opened
            [] OTHER -> ready
    BY DEF Opened
  <2> HIDE DEF left, ensured, gone, opened, ready
  <2>2. CASE outcome = "no session" /\ ~left.session
    BY <2>1, <2>2
  <2>3. CASE outcome = "no day session" /\ day # ensured.curDay
    BY <2>1, <2>3
  <2>4. CASE outcome = "ok"
    BY <2>1, <2>4
  <2>5. CASE /\ ~(outcome = "no session" /\ ~left.session)
             /\ ~(outcome = "no day session" /\ day # ensured.curDay) /\ outcome # "ok"
    BY <2>1, <2>5
  <2> QED BY <2>2, <2>3, <2>4, <2>5
<1> HIDE DEF result
<1>2. Between(r, files) /\ r \in Recorder
  BY DEF Fine, Between
<1>3. ASSUME NEW z, Between(z, files), NEW w \in Recorder, w.kept = z.kept, w.open = z.open,
             w.ops = z.ops, w.pl = z.pl, w.session = FALSE
      PROVE  Fine(w, files, indexes)
  <2>1. w.pl.day = NoDay => w.pl.list = <<>>
    BY <1>3 DEF Between
  <2>2. Between(w, files)
    BY <1>3, <2>1, BetweenWith
  <2> QED BY <1>3, <2>2 DEF Fine
<1>4. Fine(left, files, indexes) /\ (left.session => left.curDay = day)
  <2>1. CASE r.session /\ day # r.curDay
    <3> DEFINE z == EndPlaylist(r)
    <3>1. Between(z, files) /\ z \in Recorder
      BY <1>2, EndBetween DEF Between
    <3> HIDE DEF z
    <3> DEFINE w == [z EXCEPT !.session = FALSE, !.curDay = NoDay]
    <3>2. /\ w \in Recorder /\ w.kept = z.kept /\ w.open = z.open /\ w.ops = z.ops
          /\ w.pl = z.pl /\ w.session = FALSE
      BY <3>1 DEF Recorder
    <3>3. left = w
      BY <2>1 DEF z
    <3> HIDE DEF w, left
    <3> QED BY <1>3, <3>1, <3>2, <3>3
  <2>2. CASE ~(r.session /\ day # r.curDay)
    BY <2>2
  <2> QED BY <2>1, <2>2
<1> HIDE DEF left
<1>5. Between(left, files) /\ left \in Recorder
  BY <1>4 DEF Fine, Between
<1>6. Fine(ensured, files, indexes) /\ ensured.session
  BY <1>4, <1>5, BeginFine
<1> HIDE DEF ensured
<1>7. Between(ensured, files)
  BY <1>6 DEF Fine
<1>8. Between(back, files) /\ back \in Recorder
  BY <1>7, EndBetween DEF Between
<1> HIDE DEF back
<1>9. Fine(gone, files, indexes)
  <2>1. /\ gone \in Recorder /\ gone.kept = back.kept /\ gone.open = back.open
        /\ gone.ops = back.ops /\ gone.pl = back.pl /\ gone.session = FALSE
    BY <1>8 DEF Recorder
  <2> HIDE DEF gone
  <2> QED BY <1>3, <1>8, <2>1
<1> HIDE DEF gone
<1>10. Fine(ready, files, indexes) /\ ready.session /\ ready.curDay = day
  BY <1>6, <1>8, BeginFine
<1> HIDE DEF ready
<1>11. ready.open = None
  BY <1>10 DEF Fine, Between
<1>12. ASSUME outcome = "ok" PROVE Consistent(opened, files, indexes) /\ opened.open = s
  BY <1>10, <1>12, OpenFine
<1>13. left.open = None /\ gone.open = None /\ ready.open = None
  BY <1>4, <1>9, <1>11 DEF Fine, Between
<1>14. Consistent(result, files, indexes)
  BY <1>1, <1>4, <1>9, <1>10, <1>12, FineConsistent
<1>15. result.open \in {None} \cup (IF outcome = "ok" THEN {s} ELSE {})
  BY <1>1, <1>12, <1>13
<1> QED BY <1>14, <1>15 DEF result

-----------------------------------------------------------------------------
(* What start finds.                                                       *)

Sorted(found) == \A i, j \in DOMAIN found : i < j => found[i][3] < found[j][3]

LEMMA ScanExists ==
  ASSUME NEW files, files \subseteq Segs, \A s, t \in files : s[3] = t[3] => s = t
  PROVE  /\ Cardinality(files) \in Nat
         /\ \E found \in [1..Cardinality(files) -> files] :
               (\A s \in files : \E i \in 1..Cardinality(files) : found[i] = s) /\ Sorted(found)
<1> DEFINE Up(m) == {s \in files : s[3] <= m}
           All(found, set, n) == (\A s \in set : \E i \in 1..n : found[i] = s) /\ Sorted(found)
           OK(set) == /\ IsFiniteSet(set) /\ Cardinality(set) \in Nat
                      /\ \E found \in [1..Cardinality(set) -> set] : All(found, set, Cardinality(set))
           T == {m \in 0..MaxSegs : OK(Up(m))}
<1>1. MaxSegs \in Nat /\ \A s \in files : s[3] \in 1..MaxSegs
  BY SegFacts, StoreAssumption
<1>2. ASSUME NEW set, NEW n \in Nat, IsFiniteSet(set), Cardinality(set) = n,
             NEW f \in [1..n -> set], All(f, set, n)
      PROVE  OK(set)
  <2> HIDE DEF All
  <2> QED BY <1>2
<1>3. 0 \in T
  <2>1. Up(0) = {}
    BY <1>1
  <2>2. IsFiniteSet({}) /\ Cardinality({}) = 0
    BY FS_EmptySet
  <2>3. <<>> \in [1..0 -> {}] /\ Sorted(<<>>)
    BY DEF Sorted
  <2>4. All(<<>>, {}, 0)
    BY <2>3
  <2>5. OK({})
    <3> HIDE DEF OK, All
    <3>1. 0 \in Nat
      OBVIOUS
    <3> QED BY <1>2, <2>2, <2>3, <2>4, <3>1, Zenon
  <2> HIDE DEF OK, Up
  <2> QED BY <1>1, <2>1, <2>5
<1>4. ASSUME NEW m \in 1..MaxSegs, m - 1 \in T PROVE m \in T
  <2> DEFINE set == Up(m - 1)
             n == Cardinality(set)
  <2>1. m \in 0..MaxSegs /\ m \in Nat /\ OK(set)
    <3> HIDE DEF OK, Up
    <3> QED BY <1>1, <1>4
  <2>2. CASE \A s \in files : s[3] # m
    <3>1. \A s \in files : s[3] <= m <=> s[3] <= m - 1
      BY <1>1, <2>1, <2>2
    <3>2. Up(m) = set
      BY <3>1
    <3> HIDE DEF OK, set, Up
    <3> QED BY <2>1, <3>2
  <2>3. ASSUME NEW z \in files, z[3] = m PROVE m \in T
    <3>1. \A s \in files : s[3] <= m <=> (s[3] <= m - 1 \/ s = z)
      BY <1>1, <2>1, <2>3
    <3>2. Up(m) = set \cup {z}
      BY <3>1
    <3>3. z \notin set /\ \A s \in set : s[3] < m
      BY <1>1, <2>1, <2>3
    <3> HIDE DEF Up, set
    <3>4. /\ IsFiniteSet(set \cup {z}) /\ Cardinality(set \cup {z}) = n + 1 /\ n \in Nat
      BY <2>1, <3>3, FS_AddElement
    <3>5. PICK f \in [1..n -> set] : All(f, set, n)
      BY <2>1
    <3> HIDE DEF n
    <3> DEFINE g == [i \in 1..(n + 1) |-> IF i = n + 1 THEN z ELSE f[i]]
    <3>6. /\ g \in [1..(n + 1) -> set \cup {z}] /\ DOMAIN g = 1..(n + 1)
          /\ g[n + 1] = z /\ \A i \in 1..n : g[i] = f[i] /\ f[i] \in set
      BY <3>4, <3>5
    <3> HIDE DEF g
    <3>7. Sorted(g)
      <4> SUFFICES ASSUME NEW i \in 1..(n + 1), NEW j \in 1..(n + 1), i < j
                   PROVE  g[i][3] < g[j][3]
        BY <3>6 DEF Sorted
      <4>1. i \in 1..n /\ g[i] = f[i] /\ f[i] \in set
        BY <3>4, <3>6
      <4>2. CASE j = n + 1
        BY <2>3, <3>3, <3>6, <4>1, <4>2
      <4>3. CASE j # n + 1
        <5>1. j \in 1..n /\ g[j] = f[j]
          BY <3>4, <3>6, <4>3
        <5>2. f[i][3] < f[j][3]
          BY <3>5, <4>1, <5>1 DEF Sorted
        <5> QED BY <4>1, <5>1, <5>2
      <4> QED BY <4>2, <4>3
    <3>8. \A s \in set \cup {z} : \E i \in 1..(n + 1) : g[i] = s
      <4>1. n + 1 \in 1..(n + 1) /\ \A i \in 1..n : i \in 1..(n + 1)
        BY <3>4
      <4>2. \A s \in set : \E i \in 1..n : f[i] = s
        BY <3>5 DEF n
      <4> QED BY <3>6, <4>1, <4>2
    <3>9. All(g, set \cup {z}, n + 1)
      BY <3>7, <3>8
    <3>10. OK(set \cup {z})
      <4> HIDE DEF OK, All
      <4> QED BY <1>2, <3>4, <3>6, <3>9
    <3> HIDE DEF OK
    <3> QED BY <2>1, <3>2, <3>10
  <2> QED BY <2>2, <2>3
<1>5. MaxSegs \in T
  <2> HIDE DEF T
  <2>1. \A m \in 0..MaxSegs : m \in T
    BY <1>1, <1>3, <1>4, Climb
  <2> QED BY <1>1, <2>1
<1>6. Up(MaxSegs) = files
  BY <1>1
<1>7. OK(files)
  <2> HIDE DEF OK, Up
  <2> QED BY <1>5, <1>6
<1> QED BY <1>7

LEMMA ScannedFacts ==
  ASSUME NEW files, files \subseteq Segs, \A s, t \in files : s[3] = t[3] => s = t
  PROVE  /\ Cardinality(files) \in Nat
         /\ Scanned(files) \in [1..Cardinality(files) -> files]
         /\ \A s \in files : \E i \in 1..Cardinality(files) : Scanned(files)[i] = s
         /\ Sorted(Scanned(files))
<1> DEFINE n == Cardinality(files)
           Good(found) == Range(found) = files
                          /\ \A i, j \in DOMAIN found : i < j => found[i][3] < found[j][3]
<1>1. n \in Nat
  BY ScanExists
<1>2. PICK f \in [1..n -> files] : (\A s \in files : \E i \in 1..n : f[i] = s) /\ Sorted(f)
  BY ScanExists
<1>3. Range(f) = files
  <2> HIDE DEF n
  <2> QED BY <1>2 DEF Range
<1>4. Good(f)
  BY <1>2, <1>3 DEF Sorted
<1>5. Scanned(files) = CHOOSE found \in [1..n -> files] : Good(found)
  BY DEF Scanned
<1> HIDE DEF Good, n
<1>6. Scanned(files) \in [1..n -> files] /\ Good(Scanned(files))
  BY <1>4, <1>5
<1>7. \A s \in files : \E i \in 1..n : Scanned(files)[i] = s
  BY <1>6 DEF Good, Range
<1>8. Sorted(Scanned(files))
  BY <1>6 DEF Good, Sorted
<1> QED BY <1>1, <1>6, <1>7, <1>8 DEF n

LEMMA NewRecorderFacts ==
  /\ NewRecorder \in Recorder /\ NewRecorder.pl.day = NoDay /\ NewRecorder.pl.list = <<>>
  /\ NewRecorder.open = None /\ NewRecorder.ops = <<>> /\ NewRecorder.session = FALSE
<1> DEFINE pl == [day |-> NoDay, list |-> <<>>, ended |-> FALSE]
<1>1. <<>> \in Seq(Segs) /\ <<>> \in Seq(Item) /\ <<>> \in Seq(Effects)
  OBVIOUS
<1>2. pl \in Playlist /\ pl.day = NoDay /\ pl.list = <<>>
  BY <1>1 DEF Playlist
<1>3. NewRecorder = [kept |-> <<>>, pl |-> pl, curDay |-> NoDay, session |-> FALSE, open |-> None,
                     ops |-> <<>>]
  BY DEF NewRecorder
<1> HIDE DEF pl
<1> QED BY <1>1, <1>2, <1>3 DEF Recorder

(* The recorder of a start before it drops anything. *)
Found(files) ==
    LET found == Scanned(files \cap Segs)
    IN  [NewRecorder EXCEPT !.kept = [i \in DOMAIN found |-> [seg |-> found[i], dur |-> SegmentSec]]]

LEMMA FoundFine ==
  ASSUME NEW files, NEW indexes, \A s, t \in files \cap Segs : s[3] = t[3] => s = t
  PROVE  Fine(Found(files), files, indexes) /\ Found(files).pl.day = NoDay /\ Found(files).ops = <<>>
<1> DEFINE set == files \cap Segs
           n == Cardinality(set)
           found == Scanned(set)
           kept == [i \in DOMAIN found |-> [seg |-> found[i], dur |-> SegmentSec]]
           r == [NewRecorder EXCEPT !.kept = kept]
<1>1. /\ n \in Nat /\ found \in [1..n -> set]
      /\ (\A s \in set : \E i \in 1..n : found[i] = s) /\ Sorted(found)
  <2>1. set \subseteq Segs /\ \A s, t \in set : s[3] = t[3] => s = t
    OBVIOUS
  <2> HIDE DEF set
  <2> QED BY <2>1, ScannedFacts
<1> HIDE DEF found, n
<1>2. DOMAIN found = 1..n /\ \A i \in 1..n : found[i] \in set
  BY <1>1
<1>3. kept \in Seq(Item) /\ Len(kept) = n /\ \A i \in 1..n : kept[i].seg = found[i]
  <2>1. SegmentSec \in Nat /\ kept = [i \in 1..n |-> [seg |-> found[i], dur |-> SegmentSec]]
    BY <1>2, StoreAssumption
  <2>2. \A i \in 1..n : [seg |-> found[i], dur |-> SegmentSec] \in Item
    BY <1>2, <2>1 DEF Item
  <2> HIDE DEF kept
  <2> QED BY <1>1, <2>1, <2>2
<1> HIDE DEF kept
<1>4. /\ r \in Recorder /\ r.kept = kept /\ r.pl.day = NoDay /\ r.pl.list = <<>> /\ r.open = None
      /\ r.ops = <<>> /\ r.session = FALSE
  <2>1. NewRecorder \in Recorder /\ NewRecorder.pl.day = NoDay /\ NewRecorder.pl.list = <<>>
        /\ NewRecorder.open = None /\ NewRecorder.ops = <<>> /\ NewRecorder.session = FALSE
    BY NewRecorderFacts
  <2> QED BY <1>3, <2>1 DEF Recorder
<1>5. Distinct(kept)
  <2> SUFFICES ASSUME NEW i \in 1..n, NEW j \in 1..n, kept[i].seg = kept[j].seg PROVE i = j
    BY <1>3 DEF Distinct
  <2>1. found[i] = found[j] /\ found[i] \in Segs
    BY <1>2, <1>3
  <2>2. found[i][3] \in Nat /\ found[j][3] = found[i][3]
    BY <2>1, SegFacts, StoreAssumption
  <2>3. ~(i < j) /\ ~(j < i)
    BY <1>2, <1>1, <2>2 DEF Sorted
  <2> QED BY <2>3
<1>6. \A s \in Segs : In(kept, s) <=> s \in files
  BY <1>1, <1>2, <1>3 DEF In
<1> HIDE DEF r
<1>7. Fine(r, files, indexes)
  BY <1>4, <1>5, <1>6, NoEffects DEF Fine, Between, KeepsFiles
<1>8. Found(files) = r
  BY DEF Found, r, kept, found
<1> QED BY <1>4, <1>7, <1>8

LEMMA StartFine ==
  ASSUME NEW files, NEW indexes, \A s, t \in files \cap Segs : s[3] = t[3] => s = t
  PROVE  Fine(prune_retained(Found(files)), files, indexes)
BY FoundFine, PruneFine

-----------------------------------------------------------------------------
(* The effects carried out.                                                *)

FilesAfter(e, files) ==
    IF e.op \in {"create", "index"} THEN files \cup {e.key}
    ELSE IF e.op = "unlink" THEN files \ {e.key} ELSE files
IndexesAfter(e, indexes) ==
    IF Kind(e.key) = "index" /\ e.op \in {"index", "unlink"}
    THEN [indexes EXCEPT ![DayOf(e.key)] = e.listing] ELSE indexes

LEMMA ListingFacts == \A l \in Listing : l # None /\ l.list \in Seq(Segs) /\ l.ended \in BOOLEAN
BY DEF Listing, None

LEMMA IndexAfter ==
  ASSUME NEW e \in Effects, NEW indexes \in [Days -> Listing \cup {None}], NEW d \in Days
  PROVE  /\ IndexesAfter(e, indexes) \in [Days -> Listing \cup {None}]
         /\ IndexesAfter(e, indexes)[d] = IF Touches(e, d) THEN e.listing ELSE indexes[d]
<1>1. e.op \in {"create", "unlink", "index", "put", "del"} /\ e.key \in Keys
      /\ e.listing \in Listing \cup {None}
  BY EffectFacts
<1>2. Kind(e.key) = "index" => \E x \in Days : e.key = IndexKey(x)
  BY <1>1, SegFacts, KeyFacts DEF Keys
<1>3. CASE ~(Kind(e.key) = "index" /\ e.op \in {"index", "unlink"})
  <2>1. ~Touches(e, d)
    BY <1>3, KeyFacts DEF Touches
  <2> QED BY <1>3, <2>1 DEF IndexesAfter
<1>4. CASE Kind(e.key) = "index" /\ e.op \in {"index", "unlink"}
  <2>1. PICK x \in Days : e.key = IndexKey(x)
    BY <1>2, <1>4
  <2>2. DayOf(e.key) = x /\ (Touches(e, d) <=> x = d)
    BY <1>4, <2>1, KeyFacts, SegFacts DEF Touches
  <2>3. IndexesAfter(e, indexes) = [indexes EXCEPT ![x] = e.listing]
    BY <1>4, <2>2 DEF IndexesAfter
  <2> QED BY <1>1, <2>2, <2>3
<1> QED BY <1>3, <1>4

LEMMA StepConsistent ==
  ASSUME NEW r, NEW files, NEW indexes \in [Days -> Listing \cup {None}],
         Consistent(r, files, indexes), r.ops # <<>>, NEW x \in Recorder,
         x.ops = Tail(r.ops), x.kept = r.kept, x.pl = r.pl, x.curDay = r.curDay,
         x.session = r.session, x.open = r.open
  PROVE  Consistent(x, FilesAfter(Head(r.ops), files), IndexesAfter(Head(r.ops), indexes))
<1> DEFINE e == Head(r.ops)
           ops == r.ops
           rest == Tail(r.ops)
           n == Len(rest)
           files2 == FilesAfter(e, files)
<1>1. /\ r \in Recorder /\ (r.pl.day = NoDay => r.pl.list = <<>>) /\ Distinct(r.kept)
      /\ (r.open # None => r.session /\ DayOf(r.open) = r.curDay /\ ~In(r.kept, r.open))
      /\ FilesFollow(r, files)
      /\ (r.session => IndexFollows(r, files, indexes))
  BY DEF Consistent
<1>2. ops \in Seq(Effects)
  BY <1>1, RecorderFacts
<1>3. /\ e \in Effects /\ rest \in Seq(Effects) /\ n \in Nat /\ Len(ops) = n + 1 /\ ops[1] = e
      /\ \A i \in 1..n : rest[i] = ops[i + 1] /\ i + 1 \in 1..Len(ops)
  BY <1>2
<1>4. /\ e.op \in {"create", "unlink", "index", "put", "del"} /\ e.key \in Keys
      /\ e.op = "index" => e.listing \in Listing /\ \E d \in Days : e.key = IndexKey(d)
      /\ e.op # "index" => e.listing = None
  BY <1>3, EffectFacts
<1>5. \A i \in 1..Len(ops) : i = 1 \/ (i - 1 \in 1..n /\ rest[i - 1] = ops[i])
  BY <1>3
<1> HIDE DEF e, ops, rest, n
<1>6. \A s : /\ Unlinks(ops, s) <=> (Unlink(e, s) \/ Unlinks(rest, s))
             /\ Creates(ops, s) <=> ((e.op = "create" /\ e.key = s) \/ Creates(rest, s))
  <2>1. 1 \in 1..Len(ops)
    BY <1>3
  <2>2. \A s : Unlinks(ops, s) => (Unlink(e, s) \/ Unlinks(rest, s))
    BY <1>3, <1>5 DEF Unlinks, n
  <2>3. \A s : (Unlink(e, s) \/ Unlinks(rest, s)) => Unlinks(ops, s)
    BY <1>3, <2>1 DEF Unlinks, n
  <2>4. \A s : Creates(ops, s) => ((e.op = "create" /\ e.key = s) \/ Creates(rest, s))
    BY <1>3, <1>5 DEF Creates, n
  <2>5. \A s : ((e.op = "create" /\ e.key = s) \/ Creates(rest, s)) => Creates(ops, s)
    BY <1>3, <2>1 DEF Creates, n
  <2> QED BY <2>2, <2>3, <2>4, <2>5
<1>7. \A s \in Segs : s \in files2 <=> ((s \in files \/ (e.op = "create" /\ e.key = s)) /\ ~Unlink(e, s))
  <2>1. \A s \in Segs : e.op = "index" => e.key # s
    BY <1>4, SegFacts
  <2> QED BY <1>4, <2>1 DEF FilesAfter, Unlink
<1> HIDE DEF files2
<1>8. FilesFollow(x, files2)
  BY <1>1, <1>6, <1>7 DEF FilesFollow, ops, rest
<1>9. ASSUME r.session PROVE IndexFollows(x, files2, IndexesAfter(e, indexes))
  <2> DEFINE d == r.curDay
             l == indexes[d]
             l2 == IndexesAfter(e, indexes)[d]
             list == r.pl.list
  <2>1. /\ d \in Days /\ r.pl.day = d /\ list = OfDay(r.kept, d) /\ r.pl.ended = FALSE
        /\ Sound(ops, d, files, l) /\ Shown(ops, d, list, l)
    BY <1>1, <1>9 DEF IndexFollows, ops
  <2>2. l2 = IF Touches(e, d) THEN e.listing ELSE l
    BY <1>3, <2>1, IndexAfter
  <2>3. Touches(e, d) /\ l2 # None => Writes(e, d)
    BY <1>4, <2>2 DEF Touches, Writes
  <2>4. Writes(e, d) => Touches(e, d) /\ l2 = e.listing /\ l2 # None
    BY <1>4, <2>2, ListingFacts DEF Touches, Writes
  <2> HIDE DEF l, l2, d, list
  <2>5. Sound(rest, d, files2, l2)
    <3> SUFFICES ASSUME NEW i \in 0..n, NEW s \in Segs, Lists(rest, l2, d, i, s),
                        ~BeginsAfter(rest, d, i)
                 PROVE  /\ s \in files2
                        /\ \A j \in 1..n : Unlink(rest[j], s) => WritesBetween(rest, d, i, j)
      BY DEF Sound, n
    <3> DEFINE at == IF i = 0 /\ ~Touches(e, d) THEN 0 ELSE i + 1
    <3>1. at \in 0..Len(ops) /\ (at = i + 1 \/ (at = 0 /\ i = 0 /\ ~Writes(e, d)))
      BY <1>3, <2>4
    <3>2. Lists(ops, l, d, at, s)
      <4>1. CASE i = 0 /\ ~Touches(e, d)
        BY <2>2, <4>1 DEF Lists
      <4>2. CASE i = 0 /\ Touches(e, d)
        <5>1. l2 # None /\ Among(l2.list, s)
          BY <4>2 DEF Lists
        <5>2. Writes(ops[1], d) /\ Among(ops[1].listing.list, s) /\ at = 1
          BY <1>3, <2>3, <2>4, <4>2, <5>1
        <5> QED BY <5>2 DEF Lists
      <4>3. CASE i # 0
        <5>1. i \in 1..n /\ at = i + 1 /\ at # 0 /\ rest[i] = ops[i + 1]
          BY <1>3, <4>3
        <5> QED BY <4>3, <5>1 DEF Lists
      <4> QED BY <4>1, <4>2, <4>3
    <3>3. ~BeginsAfter(ops, d, at)
      <4> SUFFICES ASSUME NEW k \in 1..Len(ops), k > at, Writes(ops[k], d), ops[k].listing.list = <<>>
                   PROVE  FALSE
        BY DEF BeginsAfter
      <4>1. k # 1
        BY <1>3, <3>1
      <4>2. k - 1 \in 1..n /\ rest[k - 1] = ops[k] /\ k - 1 > i
        BY <1>3, <1>5, <3>1, <4>1
      <4> QED BY <4>2 DEF BeginsAfter, n
    <3> HIDE DEF at
    <3>4. s \in files /\ \A j \in 1..Len(ops) : Unlink(ops[j], s) => WritesBetween(ops, d, at, j)
      BY <2>1, <3>1, <3>2, <3>3 DEF Sound
    <3>5. ~Unlink(e, s)
      <4>1. ~WritesBetween(ops, d, at, 1)
        BY <3>1 DEF WritesBetween
      <4>2. 1 \in 1..Len(ops)
        BY <1>3
      <4> QED BY <1>3, <3>4, <4>1, <4>2
    <3>6. ASSUME NEW j \in 1..n, Unlink(rest[j], s) PROVE WritesBetween(rest, d, i, j)
      <4>1. WritesBetween(ops, d, at, j + 1)
        BY <1>3, <3>4, <3>6
      <4>2. PICK k \in 1..Len(ops) : at < k /\ k < j + 1 /\ Writes(ops[k], d)
        BY <4>1 DEF WritesBetween
      <4>3. k # 1
        BY <1>3, <3>1, <4>2
      <4>4. k - 1 \in 1..n /\ rest[k - 1] = ops[k] /\ i < k - 1 /\ k - 1 < j
        <5>1. k - 1 \in 1..n /\ rest[k - 1] = ops[k]
          BY <1>5, <4>3
        <5>2. i < k - 1 /\ k - 1 < j
          BY <1>3, <3>1, <4>2, <4>3
        <5> QED BY <5>1, <5>2
      <4> QED BY <4>2, <4>4 DEF WritesBetween, n
    <3> QED BY <1>7, <3>4, <3>5, <3>6
  <2>6. Shown(rest, d, list, l2)
    <3>1. PICK p \in 0..Len(ops) : LastWrite(ops, d, list, l, p)
      BY <2>1 DEF Shown
    <3>2. ASSUME NEW k \in 1..n, k + 1 > p PROVE ~Touches(rest[k], d)
      BY <1>3, <3>1, <3>2 DEF LastWrite
    <3>3. CASE p = 0
      <4>1. ~Touches(e, d)
        <5>1. 1 \in 1..Len(ops) /\ 1 > p
          BY <1>3, <3>3
        <5> QED BY <1>3, <3>1, <5>1 DEF LastWrite
      <4>2. LastWrite(rest, d, list, l2, 0)
        BY <1>3, <2>2, <3>1, <3>2, <3>3, <4>1 DEF LastWrite, n
      <4> QED BY <1>3, <4>2 DEF Shown, n
    <3>4. CASE p = 1
      <4>1. Writes(e, d) /\ Says(e.listing, list)
        BY <1>3, <3>1, <3>4 DEF LastWrite
      <4>2. LastWrite(rest, d, list, l2, 0)
        BY <1>3, <2>4, <3>2, <3>4, <4>1 DEF LastWrite, n
      <4> QED BY <1>3, <4>2 DEF Shown, n
    <3>5. CASE p # 0 /\ p # 1
      <4>1. p - 1 \in 1..n /\ p - 1 # 0 /\ p - 1 \in 0..n /\ rest[p - 1] = ops[p]
        BY <1>3, <1>5, <3>5
      <4>2. \A k \in 1..n : k > p - 1 => ~Touches(rest[k], d)
        BY <1>3, <3>2, <4>1
      <4>3. LastWrite(rest, d, list, l2, p - 1)
        BY <3>1, <3>5, <4>1, <4>2 DEF LastWrite, n
      <4> QED BY <4>1, <4>3 DEF Shown, n
    <3> QED BY <3>3, <3>4, <3>5
  <2> QED BY <2>1, <2>5, <2>6 DEF IndexFollows, l2, d, list, rest
<1>10. Consistent(x, files2, IndexesAfter(e, indexes))
  BY <1>1, <1>8, <1>9 DEF Consistent
<1> QED BY <1>10 DEF e, files2

-----------------------------------------------------------------------------
(* The invariant.                                                          *)

LEMMA TodoFacts ==
  ASSUME NEW r \in Recorder
  PROVE  /\ [r EXCEPT !.ops = <<>>] \in Recorder /\ [r EXCEPT !.ops = <<>>].ops = <<>>
         /\ [[r EXCEPT !.ops = <<>>] EXCEPT !.ops = r.ops] = r
         /\ [r EXCEPT !.ops = <<>>].open = r.open
         /\ r.ops \in Seq(Effects)
         /\ r.ops = <<>> => [r EXCEPT !.ops = <<>>] = r
<1>1. r.ops \in Seq(Effects) /\ <<>> \in Seq(Effects)
  BY DEF Recorder
<1>2. [r EXCEPT !.ops = <<>>] \in Recorder
  BY <1>1 DEF Recorder
<1>3. [r EXCEPT !.ops = <<>>].ops = <<>> /\ [r EXCEPT !.ops = <<>>].open = r.open
  BY DEF Recorder
<1>4. [[r EXCEPT !.ops = <<>>] EXCEPT !.ops = r.ops] = r
  BY DEF Recorder
<1>5. r.ops = <<>> => [r EXCEPT !.ops = <<>>] = r
  BY DEF Recorder
<1> QED BY <1>1, <1>2, <1>3, <1>4, <1>5

(* An operation that ends in a consistent recorder, about to carry out its *)
(* effects.                                                                *)
LEMMA RunsConsistent ==
  ASSUME NEW r, Consistent(r, disk, listing), Runs(r), process' # "down", disk' = disk,
         listing' = listing
  PROVE  /\ rec' \in Recorder /\ rec'.ops = <<>> /\ todo' \in Seq(Effects) /\ rec'.open = r.open
         /\ Consistent([rec' EXCEPT !.ops = todo'], disk', listing')
<1>1. r \in Recorder
  BY DEF Consistent
<1>2. rec' = [r EXCEPT !.ops = <<>>] /\ todo' = r.ops
  BY DEF Runs
<1> QED BY <1>1, <1>2, TodoFacts

LEMMA StoreInit == Init => StoreInv
<1> SUFFICES ASSUME Init PROVE StoreInv
  OBVIOUS
<1>1. /\ disk = {} /\ listing = [d \in Days |-> None] /\ rec = NewRecorder /\ todo = <<>>
      /\ process = "down" /\ today = 1 /\ segCount = 0
  BY DEF Init
<1>2. rec \in Recorder /\ rec.ops = <<>> /\ rec.open = None
  BY <1>1, NewRecorderFacts
<1>3. Recorded = {}
  BY <1>1, <1>2 DEF Recorded
<1>4. today \in Days
  BY <1>1, StoreAssumption DEF Days
<1>5. listing \in [Days -> Listing \cup {None}]
  BY <1>1
<1> QED BY <1>1, <1>2, <1>3, <1>4, <1>5 DEF StoreInv

LEMMA StoreStep == StoreInv /\ [Next]_storeVars => StoreInv'
<1> SUFFICES ASSUME StoreInv, [Next]_storeVars PROVE StoreInv'
  OBVIOUS
<1>1. /\ rec \in Recorder /\ rec.ops = <<>> /\ todo \in Seq(Effects)
      /\ process \in {"down", "up", "stopping"}
      /\ (process = "down" => rec = NewRecorder /\ todo = <<>>)
      /\ (process # "down" => Consistent([rec EXCEPT !.ops = todo], disk, listing))
      /\ (\A s, t \in Recorded : s[3] = t[3] => s = t)
      /\ (\A s \in Recorded : s[3] <= segCount)
      /\ disk \subseteq Keys /\ today \in Days /\ segCount \in Nat
      /\ listing \in [Days -> Listing \cup {None}]
  BY DEF StoreInv
<1>2. Recorded \subseteq Segs
  BY <1>1, RecorderFacts DEF Recorded
(* It is enough that no new segment is among the recorded ones. *)
<1>3. ASSUME /\ rec' \in Recorder /\ rec'.ops = <<>> /\ todo' \in Seq(Effects)
             /\ process' \in {"down", "up", "stopping"}
             /\ (process' = "down" => rec' = NewRecorder /\ todo' = <<>>)
             /\ (process' # "down" => Consistent([rec' EXCEPT !.ops = todo'], disk', listing')),
             disk' \subseteq Keys /\ listing' \in [Days -> Listing \cup {None}],
             Recorded' \subseteq Recorded, today' = today, segCount' = segCount
      PROVE  StoreInv'
  <2>1. (\A s, t \in Recorded' : s[3] = t[3] => s = t) /\ (\A s \in Recorded' : s[3] <= segCount')
    BY <1>1, <1>3
  <2> QED BY <1>1, <1>3, <2>1 DEF StoreInv
<1>4. ASSUME AtRest PROVE Consistent(rec, disk, listing)
  <2>1. todo = <<>> /\ process # "down"
    BY <1>4 DEF AtRest
  <2>2. [rec EXCEPT !.ops = <<>>] = rec
    BY <1>1, TodoFacts
  <2> QED BY <1>1, <2>1, <2>2
<1>5. CASE Start
  <2> DEFINE r == prune_retained(Found(disk))
  <2>1. process' = "up" /\ Runs(r) /\ UNCHANGED <<disk, listing, today, segCount>>
    BY <1>5 DEF Start, Found
  <2>2. Fine(r, disk, listing)
    BY <1>1, StartFine DEF Recorded
  <2> HIDE DEF r
  <2>3. Consistent(r, disk, listing) /\ r.open = None
    BY <2>2, FineConsistent DEF Fine, Between
  <2>4. /\ rec' \in Recorder /\ rec'.ops = <<>> /\ todo' \in Seq(Effects) /\ rec'.open = None
        /\ Consistent([rec' EXCEPT !.ops = todo'], disk', listing')
    BY <2>1, <2>3, RunsConsistent
  <2>5. Recorded' \subseteq Recorded
    BY <2>1, <2>4 DEF Recorded
  <2> QED BY <1>1, <1>3, <2>1, <2>4, <2>5
(* The key frame's step, for dates the provers can reason about. *)
<1>6. ASSUME AtRest, process' = process, disk' = disk, listing' = listing,
             NEW dur \in Durations, NEW day \in Days, NEW day2 \in Days, NEW outcome,
             segCount' = segCount + (IF outcome = "ok" THEN 1 ELSE 0), segCount' <= MaxSegs,
             Runs(Opened(CloseSegment(rec, dur), day, day2, Seg(day, segCount + 1), outcome)),
             today' = day2
      PROVE  StoreInv'
  <2>1. process # "down"
    BY <1>6 DEF AtRest
  <2> DEFINE closed == CloseSegment(rec, dur)
             s == Seg(day, segCount + 1)
             r == Opened(closed, day, day2, s, outcome)
  <2>2. Consistent(rec, disk, listing)
    BY <1>4, <1>6
  <2>3. Fine(closed, disk, listing)
    BY <1>1, <2>2, CloseFine
  <2>4. s[3] = segCount + 1 /\ DayOf(s) = day
    BY KeyFacts
  <2>5. outcome = "ok" => s \in Segs /\ segCount' = segCount + 1
    <3>1. outcome = "ok" => segCount' = segCount + 1 /\ segCount + 1 \in 1..MaxSegs
      BY <1>1, <1>6, StoreAssumption
    <3> QED BY <3>1 DEF Segs
  <2> HIDE DEF closed, s
  <2>6. s \in Segs => s \notin disk
    <3>1. ~(segCount + 1 <= segCount)
      BY <1>1
    <3>2. \A t \in disk \cap Segs : t[3] <= segCount
      BY <1>1 DEF Recorded
    <3> QED BY <2>4, <3>1, <3>2
  <2>7. /\ Consistent(r, disk, listing)
        /\ r.open \in {None} \cup (IF outcome = "ok" THEN {s} ELSE {})
    BY <2>3, <2>4, <2>5, <2>6, OpenedConsistent
  <2>8. Runs(r)
    BY <1>6 DEF closed, s
  <2> HIDE DEF r
  <2>9. /\ rec' \in Recorder /\ rec'.ops = <<>> /\ todo' \in Seq(Effects) /\ rec'.open = r.open
         /\ Consistent([rec' EXCEPT !.ops = todo'], disk', listing')
    BY <1>6, <2>1, <2>7, <2>8, RunsConsistent
  <2>10. \A t \in Recorded' : t \in Recorded \/ (t = s /\ outcome = "ok")
    BY <1>6, <2>7, <2>9 DEF Recorded
  <2>11. segCount' \in Nat /\ segCount <= segCount' /\ (outcome = "ok" => segCount' = segCount + 1)
    <3>1. segCount \in Nat
      BY <1>1
    <3>2. segCount' = segCount + 1 \/ (segCount' = segCount /\ outcome # "ok")
      <4>1. CASE outcome = "ok"
        BY <1>6, <4>1
      <4>2. CASE outcome # "ok"
        BY <1>6, <3>1, <4>2
      <4> QED BY <4>1, <4>2
    <3> QED BY <3>1, <3>2
  <2>12. \A t \in Recorded : t[3] \in Nat /\ t[3] <= segCount
    <3>1. \A t \in Segs : t[3] \in Nat
      BY SegFacts, StoreAssumption
    <3>2. \A t \in Recorded : t[3] <= segCount
      BY <1>1
    <3> QED BY <1>2, <3>1, <3>2
  <2>13. ASSUME NEW t \in Recorded' PROVE t[3] <= segCount'
    <3>1. CASE t \in Recorded
      <4>1. t[3] \in Nat /\ t[3] <= segCount /\ segCount \in Nat
        BY <1>1, <2>12, <3>1
      <4> QED BY <2>11, <4>1
    <3>2. CASE t = s /\ outcome = "ok"
      BY <2>4, <2>11, <3>2
    <3> QED BY <2>10, <3>1, <3>2
  <2>14. ASSUME NEW t \in Recorded', NEW u \in Recorded', t[3] = u[3] PROVE t = u
    <3>1. \A z \in Recorded : z[3] # s[3]
      <4>1. segCount \in Nat
        BY <1>1
      <4> QED BY <2>4, <2>12, <4>1
    <3>2. CASE t \in Recorded /\ u \in Recorded
      BY <1>1, <2>14, <3>2
    <3> QED BY <2>10, <2>14, <3>1, <3>2
  <2>15. /\ disk' \subseteq Keys /\ today' \in Days
         /\ listing' \in [Days -> Listing \cup {None}]
         /\ process' \in {"down", "up", "stopping"} /\ process' # "down"
    BY <1>1, <1>6, <2>1
  <2>16. \A t, u \in Recorded' : t[3] = u[3] => t = u
    BY <2>14
  <2>17. \A t \in Recorded' : t[3] <= segCount'
    BY <2>13
  <2> QED BY <2>9, <2>11, <2>15, <2>16, <2>17 DEF StoreInv
<1>7. CASE KeyFrame
  <2>1. \A x \in today..MaxDay : x \in Days
    BY <1>1, StoreAssumption DEF Days
  <2>2. AtRest /\ process' = process /\ disk' = disk /\ listing' = listing
    BY <1>7 DEF KeyFrame
  <2>3. PICK dur \in Durations, day \in today..MaxDay, day2 \in today..MaxDay,
             outcome \in {"ok", "no session", "no day session", "no segment"} :
          /\ segCount' = segCount + (IF outcome = "ok" THEN 1 ELSE 0)
          /\ segCount' <= MaxSegs
          /\ Runs(Opened(CloseSegment(rec, dur), day, day2, Seg(day, segCount + 1), outcome))
          /\ today' = day2
    BY <1>7 DEF KeyFrame
  <2>4. day \in Days /\ day2 \in Days
    BY <2>1, Zenon
  <2> QED BY <1>6, <2>2, <2>3, <2>4, Zenon
<1>8. CASE Stop
  <2>1. PICK dur \in Durations :
          Runs([EndPlaylist(EndPlaylist(CloseSegment(rec, dur))) EXCEPT !.session = FALSE])
    BY <1>8 DEF Stop
  <2>2. AtRest /\ process' = "stopping" /\ UNCHANGED <<disk, listing, today, segCount>>
    BY <1>8 DEF Stop
  <2> DEFINE y == EndPlaylist(EndPlaylist(CloseSegment(rec, dur)))
             r == [y EXCEPT !.session = FALSE]
  <2>3. Consistent(rec, disk, listing)
    BY <1>4, <2>2
  <2>4. Fine(CloseSegment(rec, dur), disk, listing)
    BY <1>1, <2>3, CloseFine
  <2>5. Between(y, disk)
    BY <2>4, EndBetween DEF Fine
  <2> HIDE DEF y
  <2>6. /\ r \in Recorder /\ r.kept = y.kept /\ r.open = y.open /\ r.ops = y.ops /\ r.pl = y.pl
        /\ r.session = FALSE
    BY <2>5 DEF Between, Recorder
  <2>7. Runs(r)
    BY <2>1 DEF y
  <2> HIDE DEF r
  <2>8. Between(r, disk)
    <3>1. r.pl.day = NoDay => r.pl.list = <<>>
      BY <2>5, <2>6 DEF Between
    <3> QED BY <2>5, <2>6, <3>1, BetweenWith
  <2>9. Fine(r, disk, listing)
    BY <2>6, <2>8 DEF Fine
  <2>10. Consistent(r, disk, listing) /\ r.open = None
    BY <2>8, <2>9, FineConsistent DEF Between
  <2>11. /\ rec' \in Recorder /\ rec'.ops = <<>> /\ todo' \in Seq(Effects) /\ rec'.open = None
         /\ Consistent([rec' EXCEPT !.ops = todo'], disk', listing')
    BY <2>2, <2>7, <2>10, RunsConsistent
  <2>12. Recorded' \subseteq Recorded
    BY <2>2, <2>11 DEF Recorded
  <2> QED BY <1>1, <1>3, <2>2, <2>11, <2>12
<1>9. CASE Stopped
  <2>1. /\ process' = "down" /\ rec' = NewRecorder /\ todo = <<>>
        /\ UNCHANGED <<disk, listing, todo, today, segCount>>
    BY <1>9 DEF Stopped
  <2>2. Recorded' \subseteq Recorded
    BY <2>1, NewRecorderFacts DEF Recorded
  <2> QED BY <1>1, <1>3, <2>1, <2>2, NewRecorderFacts
<1>10. CASE WriterStep
  <2> DEFINE e == Head(todo)
             r == [rec EXCEPT !.ops = todo]
             x == [rec EXCEPT !.ops = Tail(todo)]
  <2>1. /\ todo # <<>> /\ todo' = Tail(todo)
        /\ disk' = FilesAfter(e, disk) /\ listing' = IndexesAfter(e, listing)
        /\ UNCHANGED <<rec, process, today, segCount>>
    BY <1>10 DEF WriterStep, FilesAfter, IndexesAfter
  <2>2. process # "down" /\ Consistent(r, disk, listing)
    BY <1>1, <2>1
  <2>3. Tail(todo) \in Seq(Effects) /\ e \in Effects /\ 1 \in 1..Len(todo) /\ todo[1] = e
    BY <1>1, <2>1
  <2>4. /\ r.ops = todo /\ x \in Recorder /\ x.ops = Tail(todo) /\ x.kept = r.kept /\ x.pl = r.pl
        /\ x.curDay = r.curDay /\ x.session = r.session /\ x.open = r.open /\ r.open = rec.open
    BY <1>1, <2>3 DEF Recorder
  <2> HIDE DEF r, x
  <2>5. Consistent(x, FilesAfter(e, disk), IndexesAfter(e, listing))
    <3>1. r.ops # <<>> /\ x.ops = Tail(r.ops) /\ e = Head(r.ops)
      BY <2>1, <2>4
    <3> HIDE DEF e
    <3> QED BY <1>1, <2>2, <2>4, <3>1, StepConsistent
  <2>6. [rec' EXCEPT !.ops = todo'] = x
    BY <2>1 DEF x
  <2>7. e.key \in Keys /\ e.op = "create" /\ e.key \in Segs => e.key = rec.open
    <3>1. e.op = "create" => Creates(r.ops, e.key)
      BY <2>3, <2>4 DEF Creates
    <3> QED BY <2>2, <2>4, <3>1 DEF Consistent, FilesFollow
  <2>8. e.key \in Keys /\ (e.op = "index" => e.key \notin Segs)
    BY <2>3, EffectFacts, SegFacts
  <2> HIDE DEF e
  <2>9. disk' \subseteq Keys /\ Recorded' \subseteq Recorded
    <3>1. disk' \subseteq disk \cup {e.key}
      BY <2>1 DEF FilesAfter
    <3>2. e.key \in disk' /\ e.key \notin disk => e.op \in {"create", "index"}
      BY <2>1 DEF FilesAfter
    <3>3. \A t \in disk' \cap Segs : t \in disk \/ t = rec.open
      BY <2>7, <2>8, <3>1, <3>2
    <3>4. \A t \in Recorded' : t \in Recorded
      BY <2>1, <3>3, SegFacts DEF Recorded
    <3> QED BY <1>1, <2>8, <3>1, <3>4
  <2>10. listing' \in [Days -> Listing \cup {None}]
    <3>1. 1 \in Days
      BY StoreAssumption DEF Days
    <3> QED BY <1>1, <2>1, <2>3, <3>1, IndexAfter DEF e
  <2>11. Consistent([rec' EXCEPT !.ops = todo'], disk', listing')
    BY <2>1, <2>5, <2>6
  <2> QED BY <1>1, <1>3, <2>1, <2>2, <2>3, <2>9, <2>10, <2>11
<1>11. CASE UploaderStep \/ CommitLate
  <2>1. UNCHANGED <<disk, listing, rec, todo, process, today, segCount>>
    BY <1>11 DEF UploaderStep, CommitLate, Take, Send, Answered, Unanswered
  <2> QED BY <1>1, <2>1 DEF StoreInv, Recorded
<1>12. CASE Crash
  <2>1. /\ process' = "down" /\ rec' = NewRecorder /\ todo' = <<>>
        /\ UNCHANGED <<disk, listing, today, segCount>>
    BY <1>12 DEF Crash
  <2>2. Recorded' \subseteq Recorded
    BY <2>1, NewRecorderFacts DEF Recorded
  <2>3. <<>> \in Seq(Effects)
    OBVIOUS
  <2> QED BY <1>1, <1>3, <2>1, <2>2, <2>3, NewRecorderFacts
<1>13. CASE UNCHANGED storeVars
  <2>1. UNCHANGED <<disk, listing, rec, todo, process, today, segCount>>
    BY <1>13 DEF storeVars
  <2> QED BY <1>1, <2>1 DEF StoreInv, Recorded
<1> QED BY <1>5, <1>7, <1>8, <1>9, <1>10, <1>11, <1>12, <1>13 DEF Next

(* What is kept, what the folder holds and what the index says stay        *)
(* consistent through every effect, fault and restart.                     *)
THEOREM StoreInvariant == Spec => []StoreInv
<1>1. Init => StoreInv
  BY StoreInit
<1>2. StoreInv /\ [Next]_storeVars => StoreInv'
  BY StoreStep
<1> QED BY <1>1, <1>2, PTL DEF Spec

LEMMA InvImpliesExact == StoreInv => SessionIndexIsExact
<1> SUFFICES ASSUME StoreInv PROVE SessionIndexIsExact
  OBVIOUS
<1> DEFINE r == [rec EXCEPT !.ops = todo]
<1>1. /\ rec \in Recorder /\ todo \in Seq(Effects) /\ (process = "down" => rec = NewRecorder)
      /\ (process # "down" => Consistent(r, disk, listing))
      /\ listing \in [Days -> Listing \cup {None}]
  BY DEF StoreInv
<1>2. /\ r.kept = rec.kept /\ r.pl = rec.pl /\ r.curDay = rec.curDay /\ r.session = rec.session
      /\ r.open = rec.open /\ r.ops = todo
  BY <1>1 DEF Recorder
<1>3. rec.kept \in Seq(Item) /\ rec.open \in Segs \cup {None}
  BY <1>1, RecorderFacts
<1> HIDE DEF r
<1> DEFINE d == rec.curDay
           l == listing[d]
           list == rec.pl.list
<1>4. ASSUME rec.session
      PROVE  /\ process # "down" /\ d \in Days /\ list = KeptOf(rec, d)
             /\ Sound(todo, d, disk, l) /\ Shown(todo, d, list, l)
  <2>1. process # "down"
    BY <1>1, <1>4, NewRecorderFacts
  <2>2. IndexFollows(r, disk, listing)
    BY <1>1, <1>2, <1>4, <2>1 DEF Consistent
  <2> QED BY <1>2, <2>1, <2>2 DEF IndexFollows, KeptOf
<1>5. ASSUME rec.session, l # None, ~BeginsIndex PROVE Range(l.list) \subseteq disk
  <2>1. l.list \in Seq(Segs)
    BY <1>1, <1>4, <1>5, ListingFacts
  <2>2. ~BeginsAfter(todo, d, 0)
    BY <1>1, <1>5 DEF BeginsAfter, BeginsIndex, Writes
  <2>3. ASSUME NEW s \in Range(l.list) PROVE s \in disk
    <3>1. PICK i \in 1..Len(l.list) : l.list[i] = s
      BY <2>1 DEF Range
    <3>2. s \in Segs /\ Among(l.list, s)
      BY <2>1, <3>1 DEF Among
    <3>3. Lists(todo, l, d, 0, s) /\ 0 \in 0..Len(todo)
      BY <1>1, <1>5, <3>2 DEF Lists
    <3> HIDE DEF d, l
    <3> QED BY <1>4, <1>5, <2>2, <3>2, <3>3 DEF Sound
  <2> QED BY <2>3
<1>6. ASSUME AtRest
      PROVE  disk \cap Segs = {rec.kept[i].seg : i \in DOMAIN rec.kept} \cup ({rec.open} \ {None})
  <2>1. todo = <<>> /\ process # "down"
    BY <1>6 DEF AtRest
  <2>2. FilesFollow(r, disk)
    BY <1>1, <2>1 DEF Consistent
  <2>3. \A s \in Segs : (In(rec.kept, s) \/ s = rec.open) <=> s \in disk
    BY <1>2, <2>1, <2>2, NoEffects DEF FilesFollow
  <2>4. DOMAIN rec.kept = 1..Len(rec.kept) /\ \A i \in 1..Len(rec.kept) : rec.kept[i].seg \in Segs
    BY <1>3, ItemFacts
  <2> DEFINE kept == {rec.kept[i].seg : i \in DOMAIN rec.kept}
  <2>5. \A s : s \in kept <=> In(rec.kept, s)
    BY <2>4 DEF In
  <2>6. kept \subseteq Segs
    BY <2>4
  <2> HIDE DEF kept
  <2>7. \A s \in Segs : s # None
    BY SegFacts
  <2>8. ASSUME NEW s PROVE s \in disk \cap Segs <=> s \in kept \cup ({rec.open} \ {None})
    <3>1. CASE s \in Segs
      BY <2>3, <2>5, <2>7, <3>1
    <3>2. CASE s \notin Segs
      BY <1>3, <2>6, <3>2
    <3> QED BY <3>1, <3>2
  <2>9. disk \cap Segs = kept \cup ({rec.open} \ {None})
    BY <2>8
  <2> QED BY <2>9 DEF kept
<1>7. ASSUME AtRest, rec.session PROVE l.list = KeptOf(rec, d) /\ ~l.ended
  <2>1. todo = <<>>
    BY <1>7 DEF AtRest
  <2>2. PICK p \in 0..Len(todo) : LastWrite(todo, d, list, l, p)
    BY <1>4, <1>7 DEF Shown
  <2>3. p = 0
    BY <2>1
  <2> QED BY <1>4, <1>7, <2>2, <2>3 DEF LastWrite, Says
<1> QED BY <1>5, <1>6, <1>7 DEF SessionIndexIsExact

(* From the begin of a session's index on, the index of the day never      *)
(* lists a file that is not there, whatever is dropped, and between        *)
(* operations it lists exactly the day's kept segments, and every segment  *)
(* file is kept or being written (segment_recorder.cpp:388-428,451-497).   *)
THEOREM IndexIsExact == Spec => []SessionIndexIsExact
BY StoreInvariant, InvImpliesExact, PTL

-----------------------------------------------------------------------------
(* The types, and what makes them so: an index that exists says something, *)
(* and a request that carries an index carries what it said.               *)

Request == [key : Keys, remove : BOOLEAN, sent : BOOLEAN, body : Listing \cup {None}, tries : Nat]
Carries(req) == ~req.remove /\ Kind(req.key) = "index" => req.body # None

TypesInv ==
    /\ cloud \subseteq Keys /\ missed \subseteq Keys
    /\ cloudListing \in [Days -> Listing \cup {None}]
    /\ \A d \in Days : /\ IndexKey(d) \in disk => listing[d] # None
                       /\ IndexKey(d) \in cloud => cloudListing[d] # None
    /\ queue \in Seq([key : Keys, remove : BOOLEAN]) /\ Len(queue) <= MaxQueued
    /\ job # None => job \in Request /\ job.tries < MaxRetries /\ (job.sent => Carries(job))
    /\ late \subseteq Request /\ \A req \in late : Carries(req)

LEMMA IndexKeys ==
  ASSUME NEW k \in Keys, Kind(k) = "index"
  PROVE  DayOf(k) \in Days /\ k = IndexKey(DayOf(k))
BY SegFacts, KeyFacts DEF Keys

(* The server carries a request out. *)
LEMMA CommitTypes ==
  ASSUME NEW req \in Request, Carries(req), Commit(req), cloud \subseteq Keys,
         cloudListing \in [Days -> Listing \cup {None}],
         \A d \in Days : IndexKey(d) \in cloud => cloudListing[d] # None
  PROVE  /\ cloud' \subseteq Keys /\ cloudListing' \in [Days -> Listing \cup {None}]
         /\ \A d \in Days : IndexKey(d) \in cloud' => cloudListing'[d] # None
<1>1. req.key \in Keys /\ req.body \in Listing \cup {None}
  BY DEF Request
<1>2. /\ cloud' = (IF req.remove THEN cloud \ {req.key} ELSE cloud \cup {req.key}) \ Pruned(req)
      /\ cloudListing' = IF Kind(req.key) = "index"
                         THEN [cloudListing EXCEPT ![DayOf(req.key)] = req.body] ELSE cloudListing
  BY DEF Commit
<1>3. cloud' \subseteq Keys
  BY <1>1, <1>2
<1>4. cloudListing' \in [Days -> Listing \cup {None}]
  BY <1>1, <1>2
<1>5. ASSUME NEW d \in Days, IndexKey(d) \in cloud' PROVE cloudListing'[d] # None
  <2>1. CASE Kind(req.key) = "index" /\ DayOf(req.key) = d
    <3>1. req.key = IndexKey(d)
      BY <1>1, <2>1, IndexKeys
    <3>2. ~req.remove
      BY <1>2, <1>5, <3>1
    <3>3. cloudListing'[d] = req.body
      BY <1>2, <2>1
    <3> QED BY <2>1, <3>2, <3>3 DEF Carries
  <2>2. CASE ~(Kind(req.key) = "index" /\ DayOf(req.key) = d)
    <3>1. req.key # IndexKey(d)
      BY <2>2, KeyFacts
    <3>2. IndexKey(d) \in cloud
      BY <1>2, <1>5, <3>1
    <3>3. cloudListing'[d] = cloudListing[d]
      BY <1>2, <2>2
    <3> QED BY <3>2, <3>3
  <2> QED BY <2>1, <2>2
<1> QED BY <1>3, <1>4, <1>5

LEMMA FailedTypes ==
  ASSUME NEW undone, undone \subseteq Keys, job \in Request, missed \subseteq Keys, Failed(undone)
  PROVE  /\ missed' \subseteq Keys
         /\ job' # None => job' \in Request /\ job'.tries < MaxRetries /\ ~job'.sent
<1>1. Retries \in Nat /\ Retries <= MaxRetries
  BY StoreAssumption DEF Retries
<1>2. CASE job.tries + 1 < Retries
  <2>1. /\ job' = [job EXCEPT !.sent = FALSE, !.body = None, !.tries = @ + 1]
        /\ missed' = missed \cup undone
    BY <1>2 DEF Failed
  <2>2. job.tries \in Nat
    BY DEF Request
  <2> DEFINE t == job.tries + 1
  <2>3. t \in Nat /\ t < MaxRetries
    BY <1>1, <1>2, <2>2, StoreAssumption
  <2>4. job' = [job EXCEPT !.sent = FALSE, !.body = None, !.tries = t]
    BY <2>1
  <2> HIDE DEF t
  <2>5. job' \in Request /\ job'.tries = t /\ job'.sent = FALSE
    BY <2>3, <2>4 DEF Request
  <2> QED BY <2>1, <2>3, <2>5
<1>3. CASE ~(job.tries + 1 < Retries)
  <2>1. /\ job' = None
        /\ missed' = missed \cup undone
                     \cup (IF job.remove \/ job.key \in disk THEN {job.key} ELSE {})
    BY <1>3 DEF Failed
  <2>2. job.key \in Keys
    BY DEF Request
  <2> QED BY <2>1, <2>2
<1> QED BY <1>2, <1>3

LEMMA TypesInit == Init => TypesInv
<1> SUFFICES ASSUME Init PROVE TypesInv
  OBVIOUS
<1>1. <<>> \in Seq([key : Keys, remove : BOOLEAN]) /\ Len(<<>>) = 0
  OBVIOUS
<1> QED BY <1>1, StoreAssumption DEF Init, TypesInv

LEMMA TypesStep == StoreInv /\ TypesInv /\ [Next]_storeVars => TypesInv'
<1> SUFFICES ASSUME StoreInv, TypesInv, [Next]_storeVars PROVE TypesInv'
  OBVIOUS
<1> DEFINE Items == [key : Keys, remove : BOOLEAN]
<1>1. /\ cloud \subseteq Keys /\ missed \subseteq Keys
      /\ cloudListing \in [Days -> Listing \cup {None}]
      /\ (\A d \in Days : IndexKey(d) \in disk => listing[d] # None)
      /\ (\A d \in Days : IndexKey(d) \in cloud => cloudListing[d] # None)
      /\ queue \in Seq(Items) /\ Len(queue) <= MaxQueued
      /\ (job # None => job \in Request /\ job.tries < MaxRetries /\ (job.sent => Carries(job)))
      /\ late \subseteq Request /\ (\A req \in late : Carries(req))
  BY DEF TypesInv
<1>2. /\ rec \in Recorder /\ todo \in Seq(Effects) /\ disk \subseteq Keys
      /\ listing \in [Days -> Listing \cup {None}]
  BY DEF StoreInv
(* The three parts: the card's indexes, the uploader, the server. *)
<1>3. ASSUME \A d \in Days : IndexKey(d) \in disk' => listing'[d] # None,
             queue' \in Seq(Items) /\ Len(queue') <= MaxQueued /\ missed' \subseteq Keys,
             job' # None => job' \in Request /\ job'.tries < MaxRetries /\ (job'.sent => Carries(job')),
             late' \subseteq Request /\ (\A req \in late' : Carries(req)),
             cloud' \subseteq Keys /\ cloudListing' \in [Days -> Listing \cup {None}],
             \A d \in Days : IndexKey(d) \in cloud' => cloudListing'[d] # None
      PROVE  TypesInv'
  BY <1>3 DEF TypesInv, Carries
<1> HIDE DEF Items
<1>4. CASE Start \/ KeyFrame \/ Stop \/ Stopped
  <2>1. UNCHANGED <<disk, listing, queue, job, cloud, cloudListing, late, missed>>
    BY <1>4 DEF Start, KeyFrame, Stop, Stopped
  <2> QED BY <1>1, <1>3, <2>1
<1>5. CASE WriterStep
  <2> DEFINE e == Head(todo)
  <2>1. /\ todo # <<>> /\ disk' = FilesAfter(e, disk) /\ listing' = IndexesAfter(e, listing)
        /\ (e.op \in {"put", "del"} => Enqueue(e))
        /\ (e.op \notin {"put", "del"} => UNCHANGED <<queue, missed>>)
        /\ UNCHANGED <<job, cloud, cloudListing, late>>
    BY <1>5 DEF WriterStep, FilesAfter, IndexesAfter
  <2>2. e \in Effects
    BY <1>2, <2>1
  <2> HIDE DEF e
  <2>3. /\ e.key \in Keys /\ (e.op = "create" => Kind(e.key) # "index")
        /\ (e.op = "index" => e.listing \in Listing)
    BY <2>2, EffectFacts
  <2>4. ASSUME NEW d \in Days, IndexKey(d) \in disk' PROVE listing'[d] # None
    <3>1. listing'[d] = IF Touches(e, d) THEN e.listing ELSE listing[d]
      BY <1>2, <2>1, <2>2, IndexAfter
    <3>2. CASE e.op = "index" /\ e.key = IndexKey(d)
      BY <2>3, <3>1, <3>2, ListingFacts DEF Touches
    <3>3. CASE ~(e.op = "index" /\ e.key = IndexKey(d))
      <4>1. e.op = "create" => e.key # IndexKey(d)
        BY <2>3, KeyFacts
      <4>2. IndexKey(d) \in disk /\ ~(e.op = "unlink" /\ e.key = IndexKey(d))
        BY <2>1, <2>4, <3>3, <4>1 DEF FilesAfter
      <4> QED BY <1>1, <3>1, <3>3, <4>2 DEF Touches
    <3> QED BY <3>2, <3>3
  <2>5. queue' \in Seq(Items) /\ Len(queue') <= MaxQueued /\ missed' \subseteq Keys
    <3>1. CASE UNCHANGED <<queue, missed>>
      BY <1>1, <3>1
    <3>2. CASE Enqueue(e)
      <4> DEFINE new == [key |-> e.key, remove |-> e.op = "del"]
      <4>1. new \in Items
        BY <2>3 DEF Items
      <4> HIDE DEF new
      <4>2. CASE Len(queue) < MaxQueued
        <5>1. queue' = Append(queue, new) /\ missed' = missed
          BY <3>2, <4>2 DEF Enqueue, new
        <5> QED BY <1>1, <4>1, <4>2, <5>1, StoreAssumption
      <4>3. CASE ~(Len(queue) < MaxQueued)
        <5>1. queue' = queue /\ missed' = missed \cup {e.key}
          BY <3>2, <4>3 DEF Enqueue
        <5> QED BY <1>1, <2>3, <5>1
      <4> QED BY <4>2, <4>3
    <3> QED BY <2>1, <3>1, <3>2
  <2> QED BY <1>1, <1>3, <2>1, <2>4, <2>5
<1>6. CASE Take
  <2>1. /\ queue # <<>> /\ queue' = Tail(queue)
        /\ job' = [key |-> Head(queue).key, remove |-> Head(queue).remove, sent |-> FALSE,
                   body |-> None, tries |-> 0]
        /\ UNCHANGED <<disk, listing, cloud, cloudListing, late, missed>>
    BY <1>6 DEF Take
  <2>2. queue' \in Seq(Items) /\ Len(queue') <= MaxQueued /\ Head(queue) \in Items
    BY <1>1, <2>1, StoreAssumption
  <2>3. job' \in Request /\ job'.tries = 0 /\ job'.sent = FALSE
    BY <2>1, <2>2 DEF Items, Request
  <2>4. 0 < MaxRetries
    BY StoreAssumption
  <2> QED BY <1>1, <1>3, <2>1, <2>2, <2>3, <2>4
<1>7. CASE Send
  <2>1. /\ job # None /\ job \in Request /\ job.tries < MaxRetries
        /\ UNCHANGED <<disk, listing, queue, cloud, cloudListing, late>>
    BY <1>1, <1>7 DEF Send
  <2>2. CASE job.remove \/ job.key \in disk
    <3> DEFINE body == IF ~job.remove /\ Kind(job.key) = "index"
                       THEN listing[DayOf(job.key)] ELSE None
    <3>1. job' = [job EXCEPT !.sent = TRUE, !.body = body] /\ missed' = missed \ {job.key}
      BY <1>7, <2>2 DEF Send
    <3>2. job.key \in Keys
      BY <2>1 DEF Request
    <3>3. /\ body \in Listing \cup {None}
          /\ ~job.remove /\ Kind(job.key) = "index" => body # None
      BY <1>1, <1>2, <2>2, <3>2, IndexKeys
    <3> HIDE DEF body
    <3>4. /\ job' \in Request /\ job'.tries = job.tries /\ job'.key = job.key
          /\ job'.remove = job.remove /\ job'.body = body
      BY <2>1, <3>1, <3>3 DEF Request
    <3>5. Carries(job')
      BY <3>3, <3>4 DEF Carries
    <3> QED BY <1>1, <1>3, <2>1, <3>1, <3>4, <3>5
  <2>3. CASE ~(job.remove \/ job.key \in disk)
    <3>1. Failed({})
      BY <1>7, <2>3 DEF Send
    <3>2. /\ missed' \subseteq Keys
          /\ job' # None => job' \in Request /\ job'.tries < MaxRetries /\ ~job'.sent
      BY <1>1, <2>1, <3>1, FailedTypes
    <3> QED BY <1>1, <1>3, <2>1, <3>2
  <2> QED BY <2>2, <2>3
<1>8. CASE Answered
  <2>1. /\ job # None /\ job \in Request /\ Carries(job) /\ Commit(job) /\ job' = None
        /\ missed' = (missed \ Repaired(job)) \cup Undone(job)
        /\ UNCHANGED <<disk, listing, queue, late>>
    BY <1>1, <1>8 DEF Answered
  <2>2. Undone(job) \subseteq Keys
    BY <1>2 DEF Undone
  <2>3. /\ cloud' \subseteq Keys /\ cloudListing' \in [Days -> Listing \cup {None}]
        /\ \A d \in Days : IndexKey(d) \in cloud' => cloudListing'[d] # None
    BY <1>1, <2>1, CommitTypes
  <2>4. missed' \subseteq Keys
    BY <1>1, <2>1, <2>2
  <2> QED BY <1>1, <1>3, <2>1, <2>3, <2>4
<1>9. CASE Unanswered
  <2>1. /\ job # None /\ job \in Request /\ Carries(job)
        /\ UNCHANGED <<disk, listing, queue>>
    BY <1>1, <1>9 DEF Unanswered
  <2>2. CASE Commit(job) /\ Failed(Undone(job)) /\ UNCHANGED late
    <3>1. Undone(job) \subseteq Keys
      BY <1>2 DEF Undone
    <3>2. /\ cloud' \subseteq Keys /\ cloudListing' \in [Days -> Listing \cup {None}]
          /\ \A d \in Days : IndexKey(d) \in cloud' => cloudListing'[d] # None
      BY <1>1, <2>1, <2>2, CommitTypes
    <3>3. /\ missed' \subseteq Keys
          /\ job' # None => job' \in Request /\ job'.tries < MaxRetries /\ ~job'.sent
      BY <1>1, <2>1, <2>2, <3>1, FailedTypes
    <3> QED BY <1>1, <1>3, <2>1, <2>2, <3>2, <3>3
  <2>3. CASE Failed({}) /\ late' \in {late, late \cup {job}} /\ UNCHANGED <<cloud, cloudListing>>
    <3>1. /\ missed' \subseteq Keys
          /\ job' # None => job' \in Request /\ job'.tries < MaxRetries /\ ~job'.sent
      BY <1>1, <2>1, <2>3, FailedTypes
    <3>2. late' \subseteq Request /\ \A req \in late' : Carries(req)
      BY <1>1, <2>1, <2>3
    <3> QED BY <1>1, <1>3, <2>1, <2>3, <3>1, <3>2
  <2> QED BY <1>9, <2>2, <2>3 DEF Unanswered
<1>10. CASE CommitLate
  <2>1. PICK req \in late :
          /\ late' = late \ {req}
          /\ Commit(req)
          /\ missed' = missed \cup {req.key} \cup Pruned(req)
          /\ UNCHANGED <<disk, listing, queue, job>>
    BY <1>10 DEF CommitLate
  <2>2. req \in Request /\ Carries(req) /\ req.key \in Keys /\ Pruned(req) \subseteq Keys
    BY <1>1 DEF Request, Pruned
  <2>3. /\ cloud' \subseteq Keys /\ cloudListing' \in [Days -> Listing \cup {None}]
        /\ \A d \in Days : IndexKey(d) \in cloud' => cloudListing'[d] # None
    BY <1>1, <2>1, <2>2, CommitTypes
  <2>4. missed' \subseteq Keys /\ late' \subseteq Request /\ \A x \in late' : Carries(x)
    BY <1>1, <2>1, <2>2
  <2> QED BY <1>1, <1>3, <2>1, <2>3, <2>4
<1>11. CASE Crash
  <2>1. /\ queue' = <<>> /\ job' = None
        /\ missed' = missed \cup {todo[i].key : i \in DOMAIN todo}
                            \cup {queue[i].key : i \in DOMAIN queue}
                            \cup (IF job = None THEN {} ELSE {job.key})
                            \cup ({rec.open} \ {None})
        /\ UNCHANGED <<disk, listing, cloud, cloudListing, late>>
    BY <1>11 DEF Crash
  <2>2. {todo[i].key : i \in DOMAIN todo} \subseteq Keys
    <3>1. \A i \in DOMAIN todo : todo[i] \in Effects
      BY <1>2
    <3> QED BY <3>1, EffectFacts
  <2>3. {queue[i].key : i \in DOMAIN queue} \subseteq Keys
    <3>1. \A i \in DOMAIN queue : queue[i] \in Items
      BY <1>1
    <3> QED BY <3>1 DEF Items
  <2>4. (IF job = None THEN {} ELSE {job.key}) \subseteq Keys
    BY <1>1 DEF Request
  <2>5. {rec.open} \ {None} \subseteq Keys
    BY <1>2, RecorderFacts, SegFacts
  <2>6. missed' \subseteq Keys
    BY <1>1, <2>1, <2>2, <2>3, <2>4, <2>5
  <2>7. <<>> \in Seq(Items) /\ Len(<<>>) <= MaxQueued
    BY StoreAssumption
  <2> QED BY <1>1, <1>3, <2>1, <2>6, <2>7
<1>12. CASE UNCHANGED storeVars
  BY <1>1, <1>3, <1>12 DEF storeVars
<1> QED BY <1>4, <1>5, <1>6, <1>7, <1>8, <1>9, <1>10, <1>11, <1>12 DEF Next, UploaderStep

(* Files, indexes, requests and what is missed stay what they are, an      *)
(* index that exists says something, the queue keeps its limit and no      *)
(* request is tried too often.                                             *)
THEOREM StoreIsTyped == Spec => []StoreTypeOK
<1>1. Init => StoreInv /\ TypesInv
  BY StoreInit, TypesInit
<1>2. (StoreInv /\ TypesInv) /\ [Next]_storeVars => (StoreInv /\ TypesInv)'
  BY StoreStep, TypesStep
<1>3. StoreInv /\ TypesInv => StoreTypeOK
  <2> SUFFICES ASSUME StoreInv, TypesInv PROVE StoreTypeOK
    OBVIOUS
  <2>1. \A i \in DOMAIN todo : todo[i].op \in {"create", "unlink", "index", "put", "del"}
    <3>1. \A i \in DOMAIN todo : todo[i] \in Effects
      BY DEF StoreInv
    <3> QED BY <3>1, EffectFacts
  <2>2. \A d \in Days : /\ listing[d] # None => listing[d] \in Listing
                        /\ cloudListing[d] # None => cloudListing[d] \in Listing
    BY DEF StoreInv, TypesInv
  <2>3. job # None => job.key \in Keys /\ job.tries < MaxRetries
    BY DEF TypesInv, Request
  <2> QED BY <2>1, <2>2, <2>3 DEF StoreInv, TypesInv, StoreTypeOK
<1> QED BY <1>1, <1>2, <1>3, PTL DEF Spec

-----------------------------------------------------------------------------
(* What the cloud keeps.  First, the order of requests among the effects   *)
(* of an operation.  D are the days whose index needs no rewrite, o is the *)
(* segment that is closed, files are those it began with.                  *)

Before(ops, j, d) == \E k \in 1..Len(ops) : k < j /\ Touches(ops[k], d)
Current(ops, D) == D \cup {d \in Days : \E k \in 1..Len(ops) : Touches(ops[k], d)}

(* An index that says it leaves nothing out lists s. *)
Mentions(l, s) == l # None /\ l.whole => Among(l.list, s)

(* An index is uploaded once it is current, a closed segment once it is    *)
(* listed, and it is deleted with its file.                                *)
OrderedAt(ops, j, D, o) ==
    /\ \A d \in Days : ops[j].op = "put" /\ ops[j].key = IndexKey(d) => d \in D \/ Before(ops, j, d)
    /\ \A s \in Segs : ops[j].op = "put" /\ ops[j].key = s => s = o /\ Before(ops, j, DayOf(s))
    /\ \A s \in Segs : ops[j].op = "del" /\ ops[j].key = s => Unlinks(ops, s)
Ordered(ops, D, o) == \A j \in 1..Len(ops) : OrderedAt(ops, j, D, o)

(* No index leaves out a segment that is kept in the end. *)
ListsAll(e, kept) ==
    \A s \in Segs : e.op = "index" /\ e.key = IndexKey(DayOf(s)) /\ In(kept, s)
                      => Mentions(e.listing, s)
Complete(ops, kept) == \A i \in 1..Len(ops) : ListsAll(ops[i], kept)

Posted(r, D, o, files) ==
    /\ r \in Recorder
    /\ r.pl.day = NoDay => r.pl.list = <<>>
    /\ r.pl.day # NoDay => r.pl.list = OfDay(r.kept, r.pl.day) /\ r.pl.day \in Current(r.ops, D)
    /\ Ordered(r.ops, D, o)
    /\ Complete(r.ops, r.kept)
    /\ \A s \in Segs : In(r.kept, s) \/ Unlinks(r.ops, s) => s \in files

LEMMA CurrentConcat ==
  ASSUME NEW a \in Seq(Effects), NEW b \in Seq(Effects), NEW D
  PROVE  Current(a, D) \subseteq Current(a \o b, D) /\ Current(b, Current(a, D)) = Current(a \o b, D)
<1> DEFINE c == a \o b
<1>1. /\ \A i \in 1..Len(a) : i \in 1..Len(c) /\ c[i] = a[i]
      /\ \A i \in 1..Len(b) : Len(a) + i \in 1..Len(c) /\ c[Len(a) + i] = b[i]
  BY ConcatFacts
<1>2. \A i \in 1..Len(c) :
         \/ i \in 1..Len(a) /\ c[i] = a[i]
         \/ i > Len(a) /\ i - Len(a) \in 1..Len(b) /\ c[i] = b[i - Len(a)]
  BY ConcatSplit
<1> HIDE DEF c
<1>3. \A d : (\E k \in 1..Len(c) : Touches(c[k], d))
               <=> \/ \E k \in 1..Len(a) : Touches(a[k], d)
                   \/ \E k \in 1..Len(b) : Touches(b[k], d)
  <2> SUFFICES ASSUME NEW d
               PROVE  (\E k \in 1..Len(c) : Touches(c[k], d))
                        <=> \/ \E k \in 1..Len(a) : Touches(a[k], d)
                            \/ \E k \in 1..Len(b) : Touches(b[k], d)
    OBVIOUS
  <2>1. ASSUME NEW k \in 1..Len(c), Touches(c[k], d)
        PROVE  \/ \E i \in 1..Len(a) : Touches(a[i], d)
               \/ \E i \in 1..Len(b) : Touches(b[i], d)
    BY <1>2, <2>1
  <2>2. ASSUME NEW k \in 1..Len(a), Touches(a[k], d) PROVE \E i \in 1..Len(c) : Touches(c[i], d)
    BY <1>1, <2>2
  <2>3. ASSUME NEW k \in 1..Len(b), Touches(b[k], d) PROVE \E i \in 1..Len(c) : Touches(c[i], d)
    BY <1>1, <2>3
  <2> QED BY <2>1, <2>2, <2>3
<1> QED BY <1>3 DEF Current, c

LEMMA OrderedConcat ==
  ASSUME NEW a \in Seq(Effects), NEW b \in Seq(Effects), NEW D, NEW o,
         Ordered(a, D, o), Ordered(b, Current(a, D), o)
  PROVE  Ordered(a \o b, D, o)
<1> DEFINE c == a \o b
           n == Len(a)
<1>1. /\ n \in Nat
      /\ \A i \in 1..n : i \in 1..Len(c) /\ c[i] = a[i]
      /\ \A i \in 1..Len(b) : n + i \in 1..Len(c) /\ c[n + i] = b[i]
  BY ConcatFacts
<1>2. \A i \in 1..Len(c) :
         \/ i \in 1..n /\ c[i] = a[i]
         \/ i > n /\ i - n \in 1..Len(b) /\ c[i] = b[i - n]
  BY ConcatSplit
<1>3. \A s : Unlinks(a, s) \/ Unlinks(b, s) => Unlinks(c, s)
  BY ConcatOps
<1>4. \A i \in 1..n : i < n + 1
  BY <1>1
<1> HIDE DEF c, n
<1>5. ASSUME NEW j \in 1..n, NEW d, Before(a, j, d) PROVE Before(c, j, d)
  BY <1>1, <1>5 DEF Before, n
<1>6. ASSUME NEW j \in 1..Len(b), NEW d, Before(b, j, d) PROVE Before(c, n + j, d)
  <2>1. PICK k \in 1..Len(b) : k < j /\ Touches(b[k], d)
    BY <1>6 DEF Before
  <2>2. n + k \in 1..Len(c) /\ n + k < n + j /\ Touches(c[n + k], d)
    BY <1>1, <2>1
  <2> QED BY <2>2 DEF Before
<1>7. ASSUME NEW j \in 1..Len(b), NEW d, d \in Current(a, D) PROVE d \in D \/ Before(c, n + j, d)
  <2>1. CASE d \in D
    BY <2>1
  <2>2. CASE d \notin D
    <3>1. PICK k \in 1..n : Touches(a[k], d)
      BY <1>7, <2>2 DEF Current, n
    <3>2. k \in 1..Len(c) /\ k < n + j /\ Touches(c[k], d)
      BY <1>1, <3>1
    <3> QED BY <3>2 DEF Before
  <2> QED BY <2>1, <2>2
<1>8. ASSUME NEW j \in 1..Len(c) PROVE OrderedAt(c, j, D, o)
  <2>1. CASE j \in 1..n /\ c[j] = a[j]
    <3>1. OrderedAt(a, j, D, o)
      BY <2>1 DEF Ordered, n
    <3> QED BY <1>3, <1>5, <2>1, <3>1 DEF OrderedAt
  <2>2. CASE j > n /\ j - n \in 1..Len(b) /\ c[j] = b[j - n]
    <3> DEFINE i == j - n
    <3>1. i \in 1..Len(b) /\ c[j] = b[i] /\ n + i = j
      BY <1>1, <2>2
    <3> HIDE DEF i
    <3>2. OrderedAt(b, i, Current(a, D), o)
      BY <3>1 DEF Ordered
    <3>3. \A d : Before(b, i, d) => Before(c, j, d)
      BY <1>6, <3>1
    <3>4. \A d : d \in Current(a, D) => d \in D \/ Before(c, j, d)
      BY <1>7, <3>1
    <3> QED BY <1>3, <3>1, <3>2, <3>3, <3>4 DEF OrderedAt
  <2> QED BY <1>2, <2>1, <2>2
<1> QED BY <1>8 DEF Ordered, c

LEMMA CompleteConcat ==
  ASSUME NEW a \in Seq(Effects), NEW b \in Seq(Effects), NEW kept, Complete(a, kept), Complete(b, kept)
  PROVE  Complete(a \o b, kept)
<1> DEFINE c == a \o b
<1>1. \A i \in 1..Len(c) : \/ i \in 1..Len(a) /\ c[i] = a[i]
                           \/ i > Len(a) /\ i - Len(a) \in 1..Len(b) /\ c[i] = b[i - Len(a)]
  BY ConcatSplit
<1> HIDE DEF c
<1>2. ASSUME NEW i \in 1..Len(c) PROVE ListsAll(c[i], kept)
  BY <1>1 DEF Complete
<1> QED BY <1>2 DEF Complete, c

(* Nothing is asked for that needs an order. *)
LEMMA Unasked ==
  ASSUME NEW b, NEW D, NEW o,
         \A j \in 1..Len(b) : b[j].op \in {"put", "del"} => b[j].key \notin Segs,
         \A j \in 1..Len(b) : \A d \in Days : b[j].op = "put" /\ b[j].key = IndexKey(d) => d \in D
  PROVE  Ordered(b, D, o)
BY DEF Ordered, OrderedAt

LEMMA Unwritten ==
  ASSUME NEW b, NEW kept, \A j \in 1..Len(b) : b[j].op # "index"
  PROVE  Complete(b, kept)
BY DEF Complete, ListsAll

(* More effects, with the files they remove among the old ones. *)
LEMMA PostedDo ==
  ASSUME NEW r, NEW D, NEW o, NEW files, Posted(r, D, o, files), NEW b \in Seq(Effects),
         Ordered(b, Current(r.ops, D), o), Complete(b, r.kept),
         \A s \in Segs : Unlinks(b, s) => s \in files
  PROVE  Posted(Do(r, b), D, o, files)
<1> DEFINE x == Do(r, b)
<1>1. /\ r \in Recorder /\ (r.pl.day = NoDay => r.pl.list = <<>>)
      /\ (r.pl.day # NoDay => r.pl.list = OfDay(r.kept, r.pl.day) /\ r.pl.day \in Current(r.ops, D))
      /\ Ordered(r.ops, D, o) /\ Complete(r.ops, r.kept)
      /\ \A s \in Segs : In(r.kept, s) \/ Unlinks(r.ops, s) => s \in files
  BY DEF Posted
<1>2. /\ x \in Recorder /\ x.ops = r.ops \o b /\ r.ops \in Seq(Effects)
      /\ x.kept = r.kept /\ x.pl = r.pl
  BY <1>1, DoFacts
<1> HIDE DEF x
<1>3. Ordered(x.ops, D, o)
  BY <1>1, <1>2, OrderedConcat
<1>4. Complete(x.ops, x.kept)
  BY <1>1, <1>2, CompleteConcat
<1>5. x.pl.day # NoDay => x.pl.day \in Current(x.ops, D)
  BY <1>1, <1>2, CurrentConcat
<1>6. \A s \in Segs : Unlinks(x.ops, s) => Unlinks(r.ops, s) \/ Unlinks(b, s)
  BY <1>2, ConcatOps
<1> QED BY <1>1, <1>2, <1>3, <1>4, <1>5, <1>6 DEF Posted, x

(* The lists of effects that the recorder adds. *)
LEMMA RewriteListsAll ==
  ASSUME NEW kept \in Seq(Item), NEW d, NEW e, e.op = "index", e.key = IndexKey(d),
         e.listing.list = OfDay(kept, d)
  PROVE  ListsAll(e, kept)
<1>1. ASSUME NEW s \in Segs, e.key = IndexKey(DayOf(s)), In(kept, s) PROVE Among(e.listing.list, s)
  <2>1. DayOf(s) = d
    BY <1>1, SegFacts
  <2> QED BY <1>1, <2>1, OfDayAll
<1> QED BY <1>1 DEF ListsAll, Mentions

LEMMA RebuildComplete ==
  ASSUME NEW r, r.kept \in Seq(Item), NEW d \in Days
  PROVE  Complete(Rebuild(r, d), r.kept)
<1> DEFINE list == KeptOf(r, d)
           n == Len(list) + 1
           b == Rebuild(r, d)
<1>1. list = OfDay(r.kept, d) /\ list \in Seq(Segs)
  BY OfDayListed DEF KeptOf
<1>2. /\ Len(b) = n /\ Len(list) \in Nat
      /\ \A i \in 1..n : /\ b[i].op = "index" /\ b[i].key = IndexKey(d)
                         /\ b[i].listing.list = SubSeq(list, 1, i - 1)
  BY RebuildFacts
<1>3. \A i \in 1..n : b[i].listing.whole = (i = n)
  BY DEF Rebuild, Rewrite
<1> HIDE DEF list, b
<1>4. ASSUME NEW i \in 1..Len(b) PROVE ListsAll(b[i], r.kept)
  <2>1. CASE i = n
    <3>1. SubSeq(list, 1, n - 1) = list
      BY <1>1
    <3>2. b[n].op = "index" /\ b[n].key = IndexKey(d) /\ b[n].listing.list = list
      BY <1>2, <3>1
    <3> QED BY <1>1, <2>1, <3>2, RewriteListsAll
  <2>2. CASE i # n
    BY <1>2, <1>3, <2>2 DEF ListsAll, Mentions
  <2> QED BY <2>1, <2>2
<1> QED BY <1>4 DEF Complete, b

LEMMA FolderPosts ==
  ASSUME NEW r \in Recorder, NEW d \in Days, NEW D, NEW o
  PROVE  Ordered(FolderEffects(r, d), D, o) /\ Complete(FolderEffects(r, d), r.kept)
<1> DEFINE b == FolderEffects(r, d)
<1>1. InitKey(d) \in Keys /\ IndexKey(d) \in Keys /\ InitKey(d) \notin Segs /\ IndexKey(d) \notin Segs
  BY SegFacts
<1>2. r.kept \in Seq(Item)
  BY RecorderFacts
<1>3. CASE d = r.curDay
  BY <1>3 DEF FolderEffects, Ordered, Complete
<1>4. CASE d # r.curDay /\ KeptOf(r, d) = <<>>
  <2> DEFINE e1 == Effect("unlink", InitKey(d))
             e2 == Effect("unlink", IndexKey(d))
             e3 == Effect("del", InitKey(d))
             e4 == Effect("del", IndexKey(d))
             Good(e) == e.op \in {"unlink", "del"} /\ e.key \notin Segs
  <2>1. Good(e1) /\ Good(e2) /\ Good(e3) /\ Good(e4)
    BY <1>1, EffectFacts
  <2>2. b = <<e1, e2, e3, e4>>
    BY <1>4 DEF FolderEffects
  <2> HIDE DEF e1, e2, e3, e4, Good, b
  <2>3. \A i \in 1..Len(b) : Good(b[i])
    BY <2>1, <2>2
  <2> QED BY <2>3, Unasked, Unwritten DEF Good, b
<1>5. CASE d # r.curDay /\ KeptOf(r, d) # <<>>
  <2> DEFINE a == Rebuild(r, d)
             e1 == Rewrite(d, KeptOf(r, d), TRUE, TRUE)
             e2 == Effect("put", IndexKey(d))
             c == <<e1, e2>>
  <2>1. a \in Seq(Effects) /\ \A i \in 1..Len(a) : a[i].op = "index"
    BY <1>2, RebuildFacts
  <2>2. KeptOf(r, d) \in Seq(Segs) /\ KeptOf(r, d) = OfDay(r.kept, d)
    BY <1>2, OfDayListed DEF KeptOf
  <2>3. e1 \in Effects /\ e1.op = "index" /\ e1.key = IndexKey(d) /\ e1.listing.list = OfDay(r.kept, d)
    BY <2>2 DEF Rewrite, Effects, Listing
  <2>4. e2 \in Effects /\ e2.op = "put" /\ e2.key = IndexKey(d)
    <3> HIDE DEF e1
    <3> QED BY <1>1, EffectFacts
  <2>5. b = a \o c
    BY <1>5 DEF FolderEffects
  <2>6. Complete(a, r.kept)
    BY <1>2, RebuildComplete
  <2> HIDE DEF a, e1, e2, b
  <2>7. c \in Seq(Effects) /\ Len(c) = 2 /\ c[1] = e1 /\ c[2] = e2
    BY <2>3, <2>4
  <2>8. 1 \in 1..Len(c) /\ \A i \in 1..Len(c) : i = 1 \/ i = 2
    BY <2>7
  <2> HIDE DEF c
  <2>9. Ordered(a, D, o)
    BY <2>1, Unasked
  <2>10. \A DD : Ordered(c, DD, o)
    <3>1. Before(c, 2, d)
      BY <2>3, <2>7, <2>8 DEF Before, Touches
    <3>2. \A e : IndexKey(d) = IndexKey(e) => e = d
      BY SegFacts
    <3>3. \A DD : OrderedAt(c, 1, DD, o) /\ OrderedAt(c, 2, DD, o)
      BY <1>1, <2>3, <2>4, <2>7, <3>1, <3>2 DEF OrderedAt
    <3> QED BY <2>8, <3>3 DEF Ordered
  <2>11. Complete(c, r.kept)
    <3>1. ListsAll(c[1], r.kept)
      BY <1>2, <2>3, <2>7, RewriteListsAll
    <3>2. ListsAll(c[2], r.kept)
      BY <2>4, <2>7 DEF ListsAll
    <3> QED BY <2>8, <3>1, <3>2 DEF Complete
  <2>12. Ordered(a \o c, D, o)
    BY <2>1, <2>7, <2>9, <2>10, OrderedConcat
  <2>13. Complete(a \o c, r.kept)
    BY <2>1, <2>6, <2>7, <2>11, CompleteConcat
  <2> QED BY <2>5, <2>12, <2>13 DEF b
<1> QED BY <1>3, <1>4, <1>5

LEMMA DropPosted ==
  ASSUME NEW r, NEW D, NEW o, NEW files, Posted(r, D, o, files), r.kept # <<>>
  PROVE  Posted(DropOldest(r), D, o, files) /\ DropOldest(r).kept = Tail(r.kept)
<1> DEFINE q == r.kept
           t == Tail(q)
           s == Head(q).seg
           day == DayOf(s)
           r1 == [r EXCEPT !.kept = t]
           r2 == DropListed(r1, s)
           u == <<Effect("unlink", s), Effect("del", s)>>
           r3 == Do(r2, u)
           v == FolderEffects(r3, day)
           r4 == Do(r3, v)
           cut == IsListedFirst(r.pl, s)
           b == DropEffects(r.pl, s)
<1>1. /\ r \in Recorder /\ (r.pl.day = NoDay => r.pl.list = <<>>)
      /\ (r.pl.day # NoDay => r.pl.list = OfDay(q, r.pl.day) /\ r.pl.day \in Current(r.ops, D))
      /\ Ordered(r.ops, D, o) /\ Complete(r.ops, q)
      /\ \A x \in Segs : In(q, x) \/ Unlinks(r.ops, x) => x \in files
  BY DEF Posted
<1>2. q \in Seq(Item) /\ r.ops \in Seq(Effects) /\ r.pl.day \in Days \cup {NoDay}
  BY <1>1, RecorderFacts
<1>3. /\ t \in Seq(Item) /\ Len(q) \in Nat /\ Len(q) > 0 /\ Len(t) = Len(q) - 1 /\ q[1] = Head(q)
      /\ \A i \in 1..Len(t) : t[i] = q[i + 1]
  BY <1>2
<1>4. s \in Segs /\ day \in Days /\ In(q, s)
  <2>1. 1 \in 1..Len(q)
    BY <1>3
  <2> QED BY <1>2, <1>3, <2>1, ItemFacts, SegFacts DEF In
<1>5. s \in Keys
  BY <1>4, SegFacts
<1>6. \A x : In(t, x) => In(q, x)
  <2> SUFFICES ASSUME NEW x, In(t, x) PROVE In(q, x)
    OBVIOUS
  <2>1. PICK i \in 1..Len(t) : t[i].seg = x
    BY DEF In
  <2>2. i + 1 \in 1..Len(q) /\ q[i + 1].seg = x
    BY <1>3, <2>1
  <2> QED BY <2>2 DEF In
<1>7. DropOldest(r) = r4
  BY DEF DropOldest
<1>8. \A d : /\ day = d => /\ OfDay(q, d) # <<>> /\ Head(OfDay(q, d)) = s
                           /\ Tail(OfDay(q, d)) = OfDay(t, d)
             /\ day # d => OfDay(q, d) = OfDay(t, d)
  BY <1>2, OfDayDrop
<1>9. q # <<>>
  OBVIOUS
<1> HIDE DEF q, t, s, day, r1, r2, u, r3, v, r4
<1>10. /\ r1 \in Recorder /\ r1.kept = t /\ r1.pl = r.pl /\ r1.ops = r.ops
  BY <1>1, <1>3 DEF r1, Recorder
<1>11. /\ r2 \in Recorder /\ b \in Seq(Effects) /\ r2.ops = r.ops \o b
       /\ (\A x : ~Unlinks(b, x))
       /\ r2.kept = t /\ r2.pl.day = r.pl.day
       /\ r2.pl.list = (IF cut THEN Tail(r.pl.list) ELSE r.pl.list)
       /\ (r2.pl.day = NoDay => r2.pl.list = <<>>)
  <2>1. r1.pl.day = NoDay => r1.pl.list = <<>>
    BY <1>1, <1>10
  <2>2. r1 \in Recorder /\ r2 = DropListed(r1, s)
    BY <1>10 DEF r2
  <2>3. Drops(r1, s, r2, DropEffects(r1.pl, s))
    BY <2>1, <2>2, DropListedFacts
  <2> QED BY <1>10, <2>3 DEF Drops
<1>12. r.pl.day # NoDay => r2.pl.list = OfDay(t, r.pl.day)
  <2> SUFFICES ASSUME r.pl.day # NoDay PROVE r2.pl.list = OfDay(t, r.pl.day)
    OBVIOUS
  <2> DEFINE d == r.pl.day
             kt == OfDay(q, d)
  <2>1. r.pl.list = kt
    BY <1>1
  <2>2. kt \in Seq(Segs) /\ \A x : Among(kt, x) => DayOf(x) = d
    BY <1>2, OfDayListed
  <2>3. kt # <<>> => DayOf(Head(kt)) = d
    <3>1. kt # <<>> => Among(kt, Head(kt))
      <4> HIDE DEF kt
      <4> QED BY <2>2 DEF Among
    <3> QED BY <2>2, <3>1
  <2>4. cut <=> day = d
    BY <1>8, <2>1, <2>3 DEF day, IsListedFirst
  <2> QED BY <1>8, <1>11, <2>1, <2>4
<1>13. (\A j \in 1..Len(b) : b[j].op = "index") /\ Complete(b, t)
  <2>1. CASE ~cut
    <3>1. b = <<>>
      BY <2>1 DEF DropEffects
    <3> QED BY <3>1 DEF Complete
  <2>2. CASE cut
    <3> DEFINE e == Rewrite(r.pl.day, Tail(r.pl.list), r.pl.ended, TRUE)
    <3>1. b = <<e>>
      BY <2>2 DEF DropEffects
    <3>2. e.op = "index" /\ e.key = IndexKey(r.pl.day) /\ e.listing.list = Tail(r.pl.list)
      BY DEF Rewrite
    <3>3. r.pl.day # NoDay
      BY <1>1, <2>2 DEF IsListedFirst
    <3>4. e.listing.list = OfDay(t, r.pl.day)
      BY <1>11, <1>12, <2>2, <3>2, <3>3
    <3>5. ListsAll(e, t)
      <4> HIDE DEF e
      <4> QED BY <1>3, <3>2, <3>4, RewriteListsAll
    <3> HIDE DEF e, b
    <3>6. Len(b) = 1 /\ b[1] = e
      BY <3>1
    <3>7. \A j \in 1..Len(b) : j = 1
      BY <3>6
    <3> QED BY <3>2, <3>5, <3>6, <3>7 DEF Complete
  <2> QED BY <2>1, <2>2
<1> HIDE DEF b, cut
<1>14. Posted(r2, D, o, files)
  <2>1. Ordered(b, Current(r.ops, D), o)
    BY <1>13, Unasked
  <2>2. Ordered(r2.ops, D, o)
    BY <1>1, <1>2, <1>11, <2>1, OrderedConcat
  <2>3. Complete(r.ops, t)
    BY <1>1, <1>6 DEF Complete, ListsAll
  <2>4. Complete(r2.ops, t)
    BY <1>2, <1>11, <1>13, <2>3, CompleteConcat
  <2>5. Current(r.ops, D) \subseteq Current(r2.ops, D)
    BY <1>2, <1>11, CurrentConcat
  <2>6. \A x : Unlinks(r2.ops, x) => Unlinks(r.ops, x)
    BY <1>2, <1>11, ConcatOps
  <2> QED BY <1>1, <1>6, <1>11, <1>12, <2>2, <2>4, <2>5, <2>6 DEF Posted
<1>15. /\ u \in Seq(Effects) /\ (\A i \in 1..Len(u) : u[i].op \in {"unlink", "del"} /\ u[i].key = s)
       /\ \A x : Unlinks(u, x) <=> x = s
  <2> DEFINE e1 == Effect("unlink", s)
             e2 == Effect("del", s)
  <2>1. e1 \in Effects /\ e2 \in Effects /\ e1.op = "unlink" /\ e2.op = "del" /\ e1.key = s /\ e2.key = s
    BY <1>5, EffectFacts
  <2>2. u = <<e1, e2>>
    BY DEF u
  <2> HIDE DEF e1, e2
  <2>3. u \in Seq(Effects) /\ Len(u) = 2 /\ u[1] = e1 /\ u[2] = e2
    BY <2>1, <2>2
  <2>4. \A i \in 1..Len(u) : i = 1 \/ i = 2
    BY <2>3
  <2>5. 1 \in 1..Len(u)
    BY <2>3
  <2> QED BY <2>1, <2>3, <2>4, <2>5 DEF Unlinks, Unlink
<1>16. Posted(r3, D, o, files)
  <2>1. \A DD : Ordered(u, DD, o)
    BY <1>15 DEF Ordered, OrderedAt
  <2>2. Complete(u, r2.kept)
    BY <1>15, Unwritten
  <2>3. \A x \in Segs : Unlinks(u, x) => x \in files
    BY <1>1, <1>4, <1>15
  <2> QED BY <1>14, <1>15, <2>1, <2>2, <2>3, PostedDo DEF r3
<1>17. r3 \in Recorder /\ r3.kept = t
  <2>1. Do(r2, u).kept = r2.kept
    BY <1>11, <1>15, DoFacts
  <2> QED BY <1>11, <1>16, <2>1 DEF Posted, r3
<1>18. /\ v \in Seq(Effects)
       /\ \A i \in 1..Len(v) : v[i].op = "unlink" => v[i].key \notin Segs
  BY <1>4, <1>17, FolderFacts DEF v
<1>19. Posted(r4, D, o, files)
  <2>1. Ordered(v, Current(r3.ops, D), o) /\ Complete(v, r3.kept)
    BY <1>4, <1>17, FolderPosts DEF v
  <2>2. \A x \in Segs : ~Unlinks(v, x)
    BY <1>18 DEF Unlinks, Unlink
  <2> QED BY <1>16, <1>18, <2>1, <2>2, PostedDo DEF r4
<1>20. r4.kept = t
  <2>1. Do(r3, v).kept = r3.kept
    BY <1>17, <1>18, DoFacts
  <2> QED BY <1>17, <2>1 DEF r4
<1> QED BY <1>7, <1>19, <1>20 DEF q, t

LEMMA PrunePosted ==
  ASSUME NEW r, NEW D, NEW o, NEW files, Posted(r, D, o, files)
  PROVE  Posted(prune_retained(r), D, o, files)
<1> DEFINE S == {x \in Recorder : Posted(x, D, o, files)}
<1>1. S \subseteq Recorder /\ r \in S
  BY DEF Posted
<1>2. ASSUME NEW x \in S, over_retain(x.kept)
      PROVE  DropOldest(x) \in S /\ DropOldest(x).kept = Tail(x.kept)
  <2>1. Posted(DropOldest(x), D, o, files) /\ DropOldest(x).kept = Tail(x.kept)
    BY <1>2, OverRetain, DropPosted
  <2>2. DropOldest(x) \in Recorder
    BY <2>1 DEF Posted
  <2> QED BY <2>1, <2>2
<1>3. prune_retained(r) \in S
  <2> HIDE DEF S
  <2> QED BY <1>1, <1>2, PruneKeeps
<1> QED BY <1>3

(* What is said of the session, or whether the playlist has ended, has no  *)
(* part in Posted.                                                         *)
LEMMA PostedWith ==
  ASSUME NEW r, NEW D, NEW o, NEW files, Posted(r, D, o, files), NEW x \in Recorder,
         x.kept = r.kept, x.ops = r.ops, x.pl.day = r.pl.day, x.pl.list = r.pl.list
  PROVE  Posted(x, D, o, files)
BY DEF Posted

LEMMA ClosePosted ==
  ASSUME NEW r, NEW files, NEW indexes, Consistent(r, files, indexes), r.ops = <<>>,
         r.pl.day # NoDay => r.pl.list = OfDay(r.kept, r.pl.day), NEW dur \in Durations
  PROVE  Posted(CloseSegment(r, dur), {r.pl.day}, r.open, files)
<1>1. /\ r \in Recorder /\ (r.pl.day = NoDay => r.pl.list = <<>>)
      /\ (r.open # None => r.session /\ DayOf(r.open) = r.curDay)
      /\ FilesFollow(r, files)
      /\ (r.session => IndexFollows(r, files, indexes))
  BY DEF Consistent
<1>2. /\ r.kept \in Seq(Item) /\ r.pl \in Playlist /\ r.open \in Segs \cup {None}
      /\ r.pl.list \in Seq(Segs) /\ r.pl.day \in Days \cup {NoDay}
  BY <1>1, RecorderFacts
<1>3. \A s \in Segs : (In(r.kept, s) \/ s = r.open) <=> s \in files
  BY <1>1, NoEffects DEF FilesFollow
<1>4. CASE r.open = None
  <2>1. CloseSegment(r, dur) = r
    BY <1>4 DEF CloseSegment
  <2>2. Ordered(r.ops, {r.pl.day}, r.open) /\ Complete(r.ops, r.kept)
    BY DEF Ordered, Complete
  <2>3. r.pl.day # NoDay => r.pl.day \in Current(r.ops, {r.pl.day})
    BY DEF Current
  <2> QED BY <1>1, <1>3, <2>1, <2>2, <2>3, NoEffects DEF Posted
<1>5. CASE r.open # None
  <2> DEFINE o == r.open
             d == r.curDay
             x == [seg |-> o, dur |-> dur]
             list == Append(r.pl.list, o)
             pl == [r.pl EXCEPT !.list = list, !.ended = FALSE]
             kept == Append(r.kept, x)
             r1 == [r EXCEPT !.pl = pl, !.open = None, !.kept = kept]
             e1 == Rewrite(d, list, FALSE, TRUE)
             e2 == Effect("put", o)
             u == <<e1, e2>>
             r2 == Do(r1, u)
             r3 == prune_retained(r2)
             v == <<Effect("put", IndexKey(d))>>
  <2>1. d \in Days /\ r.pl.day = d /\ r.pl.list = OfDay(r.kept, d)
    BY <1>1, <1>5 DEF IndexFollows
  <2>2. o \in Segs /\ x \in Item /\ x.seg = o /\ DayOf(o) = d
    BY <1>1, <1>2, <1>5, StoreAssumption DEF Item
  <2>3. list \in Seq(Segs) /\ kept \in Seq(Item) /\ Len(kept) = Len(r.kept) + 1
        /\ kept[Len(r.kept) + 1] = x /\ \A i \in 1..Len(r.kept) : kept[i] = r.kept[i]
    BY <1>2, <2>2
  <2>4. OfDay(kept, d) = list
    BY <1>2, <2>1, <2>2, OfDayAppend
  <2>5. pl \in Playlist /\ pl.day = d /\ pl.list = list /\ pl.ended = FALSE
    BY <1>2, <2>1, <2>3 DEF Playlist
  <2>6. PlaylistRewrite(pl) = e1
    BY <2>5 DEF PlaylistRewrite
  <2>7. CloseSegment(r, dur) = Do(r3, v)
    <3>1. CloseSegment(r, dur) =
            Do(prune_retained(Do([r EXCEPT !.pl = pl, !.open = None, !.kept = Append(@, x)],
                                 <<PlaylistRewrite(pl), Effect("put", o)>>)),
               <<Effect("put", IndexKey(pl.day))>>)
      BY <1>5 DEF CloseSegment
    <3>2. [r EXCEPT !.pl = pl, !.open = None, !.kept = Append(@, x)] = r1
      BY <1>1 DEF Recorder
    <3> QED BY <2>5, <2>6, <3>1, <3>2
  <2> HIDE DEF x, list, pl, kept
  <2>8. r1 \in Recorder /\ r1.kept = kept /\ r1.pl = pl /\ r1.ops = <<>>
    BY <1>1, <2>3, <2>5 DEF Recorder
  <2>9. /\ e1 \in Effects /\ e1.op = "index" /\ e1.key = IndexKey(d) /\ e1.listing.list = list
    BY <2>1, <2>3 DEF Rewrite, Effects, Listing
  <2>10. e2 \in Effects /\ e2.op = "put" /\ e2.key = o
    BY <2>2, SegFacts, EffectFacts
  <2> HIDE DEF r1, e1, e2
  <2>11. u \in Seq(Effects) /\ Len(u) = 2 /\ u[1] = e1 /\ u[2] = e2
    BY <2>9, <2>10
  <2>12. 1 \in 1..Len(u) /\ \A i \in 1..Len(u) : i = 1 \/ i = 2
    BY <2>11
  <2> HIDE DEF u
  <2>13. \A s \in Segs : In(kept, s) => s \in files
    <3> SUFFICES ASSUME NEW s \in Segs, In(kept, s) PROVE In(r.kept, s) \/ s = o
      BY <1>3
    <3>1. PICK i \in 1..Len(kept) : kept[i].seg = s
      BY DEF In
    <3>2. i = Len(r.kept) + 1 \/ i \in 1..Len(r.kept)
      BY <1>2, <2>3
    <3> QED BY <2>2, <2>3, <3>1, <3>2 DEF In
  <2>14. pl.day # NoDay
    BY <2>1, <2>5, StoreAssumption DEF Days, NoDay
  <2>15. Posted(r1, {d}, o, files)
    <3>1. Ordered(r1.ops, {d}, o) /\ Complete(r1.ops, r1.kept)
      BY <2>8 DEF Ordered, Complete
    <3>2. \A s \in Segs : ~Unlinks(r1.ops, s)
      BY <2>8, NoEffects
    <3> QED BY <2>4, <2>5, <2>8, <2>13, <2>14, <3>1, <3>2 DEF Posted, Current
  <2>16. Posted(r2, {d}, o, files)
    <3>1. Before(u, 2, d)
      BY <2>9, <2>11, <2>12 DEF Before, Touches
    <3>2. \A DD : OrderedAt(u, 1, DD, o) /\ OrderedAt(u, 2, DD, o)
      BY <2>2, <2>9, <2>10, <2>11, <3>1, SegFacts DEF OrderedAt
    <3>3. \A DD : Ordered(u, DD, o)
      BY <2>12, <3>2 DEF Ordered
    <3>4. ListsAll(e1, kept)
      BY <2>3, <2>4, <2>9, RewriteListsAll
    <3>5. ListsAll(e2, kept)
      BY <2>10 DEF ListsAll
    <3>6. Complete(u, r1.kept)
      BY <2>8, <2>11, <2>12, <3>4, <3>5 DEF Complete
    <3>7. \A s : ~Unlinks(u, s)
      BY <2>9, <2>10, <2>11, <2>12 DEF Unlinks, Unlink
    <3> QED BY <2>11, <2>15, <3>3, <3>6, <3>7, PostedDo
  <2> HIDE DEF r2
  <2>17. Posted(r3, {d}, o, files)
    BY <2>16, PrunePosted
  <2>18. IndexKey(d) \in Keys
    BY <2>1, SegFacts
  <2>19. /\ v \in Seq(Effects) /\ \A i \in 1..Len(v) : v[i].op = "put" /\ v[i].key = IndexKey(d)
    <3> DEFINE e == Effect("put", IndexKey(d))
    <3>1. e \in Effects /\ e.op = "put" /\ e.key = IndexKey(d)
      BY <2>18, EffectFacts
    <3> HIDE DEF e
    <3>2. <<e>> \in Seq(Effects) /\ Len(<<e>>) = 1 /\ <<e>>[1] = e
      BY <3>1
    <3>3. \A i \in 1..Len(<<e>>) : i = 1
      BY <3>2
    <3>4. \A i \in 1..Len(<<e>>) : <<e>>[i].op = "put" /\ <<e>>[i].key = IndexKey(d)
      BY <3>1, <3>2, <3>3
    <3> QED BY <3>2, <3>4 DEF e
  <2> HIDE DEF r3, v
  <2>20. Posted(Do(r3, v), {d}, o, files)
    <3>1. d \in Current(r3.ops, {d})
      BY DEF Current
    <3>2. Ordered(v, Current(r3.ops, {d}), o)
      BY <2>19, <3>1, SegFacts, Unasked
    <3>3. Complete(v, r3.kept)
      BY <2>19, Unwritten
    <3>4. \A s : ~Unlinks(v, s)
      BY <2>19 DEF Unlinks, Unlink
    <3> QED BY <2>17, <2>19, <3>2, <3>3, <3>4, PostedDo
  <2> QED BY <2>1, <2>7, <2>20
<1> QED BY <1>4, <1>5

LEMMA EndPosted ==
  ASSUME NEW r, NEW D, NEW o, NEW files, Posted(r, D, o, files)
  PROVE  Posted(EndPlaylist(r), D, o, files) /\ EndPlaylist(r).kept = r.kept
<1>1. /\ r \in Recorder /\ (r.pl.day = NoDay => r.pl.list = <<>>)
      /\ (r.pl.day # NoDay => r.pl.list = OfDay(r.kept, r.pl.day) /\ r.pl.day \in Current(r.ops, D))
  BY DEF Posted
<1>2. /\ r.pl \in Playlist /\ r.pl.day \in Days \cup {NoDay} /\ r.pl.list \in Seq(Segs)
      /\ r.pl.ended \in BOOLEAN /\ r.kept \in Seq(Item)
  BY <1>1, RecorderFacts
<1>3. CASE r.pl.day = NoDay
  BY <1>3 DEF EndPlaylist
<1>4. CASE r.pl.day # NoDay
  <2> DEFINE d == r.pl.day
             pl == [r.pl EXCEPT !.ended = TRUE]
             x == [r EXCEPT !.pl = pl]
             e == Rewrite(d, r.pl.list, TRUE, TRUE)
             e2 == Effect("put", IndexKey(d))
             a == IF r.pl.ended THEN <<>> ELSE <<e>>
             c == <<e2>>
             b == a \o c
  <2>1. d \in Days
    BY <1>2, <1>4
  <2>2. pl \in Playlist /\ pl.day = d /\ pl.list = r.pl.list /\ pl.ended = TRUE
    BY <1>2 DEF Playlist
  <2>3. PlaylistRewrite(pl) = e
    BY <2>2 DEF PlaylistRewrite
  <2>4. EndPlaylist(r) = Do(x, b)
    BY <1>4, <2>2, <2>3 DEF EndPlaylist
  <2> HIDE DEF pl
  <2>5. x \in Recorder /\ x.kept = r.kept /\ x.ops = r.ops /\ x.pl = pl
    BY <1>1, <2>2 DEF Recorder
  <2>6. e \in Effects /\ e.op = "index" /\ e.key = IndexKey(d) /\ e.listing.list = OfDay(r.kept, d)
    BY <1>1, <1>2, <1>4, <2>1 DEF Rewrite, Effects, Listing
  <2>7. e2 \in Effects /\ e2.op = "put" /\ e2.key = IndexKey(d)
    BY <2>1, SegFacts, EffectFacts
  <2> HIDE DEF x, e, e2
  <2>8. a \in Seq(Effects) /\ (\A i \in 1..Len(a) : a[i].op = "index") /\ Complete(a, r.kept)
    <3>1. <<>> \in Seq(Effects) /\ (\A i \in 1..Len(<<>>) : <<>>[i].op = "index")
          /\ Complete(<<>>, r.kept)
      BY DEF Complete
    <3>2. <<e>> \in Seq(Effects) /\ Len(<<e>>) = 1 /\ <<e>>[1] = e
      BY <2>6
    <3>3. \A i \in 1..Len(<<e>>) : i = 1
      BY <3>2
    <3>4. ListsAll(e, r.kept)
      BY <1>2, <2>6, RewriteListsAll
    <3>5. (\A i \in 1..Len(<<e>>) : <<e>>[i].op = "index") /\ Complete(<<e>>, r.kept)
      BY <2>6, <3>2, <3>3, <3>4 DEF Complete
    <3> QED BY <3>1, <3>2, <3>5
  <2>9. c \in Seq(Effects) /\ Len(c) = 1 /\ c[1] = e2
    BY <2>7
  <2>10. \A i \in 1..Len(c) : i = 1
    BY <2>9
  <2> HIDE DEF a, c
  <2>11. Complete(c, r.kept)
    BY <2>7, <2>9, <2>10, Unwritten
  <2>12. b \in Seq(Effects) /\ Complete(b, r.kept)
    BY <2>8, <2>9, <2>11, ConcatFacts, CompleteConcat
  <2>13. \A i \in 1..Len(b) : b[i].op = "index" \/ (b[i].op = "put" /\ b[i].key = IndexKey(d))
    BY <2>7, <2>8, <2>9, <2>10, ConcatSplit
  <2> HIDE DEF b
  <2>14. Ordered(b, Current(x.ops, D), o)
    BY <1>1, <1>4, <2>5, <2>13, SegFacts, Unasked
  <2>15. \A s : ~Unlinks(b, s)
    BY <2>13 DEF Unlinks, Unlink
  <2>16. Posted(x, D, o, files)
    BY <2>2, <2>5, PostedWith
  <2>17. Posted(Do(x, b), D, o, files)
    BY <2>5, <2>12, <2>14, <2>15, <2>16, PostedDo
  <2>18. Do(x, b).kept = x.kept
    BY <2>5, <2>12, DoFacts
  <2> QED BY <2>4, <2>5, <2>17, <2>18
<1> QED BY <1>3, <1>4

LEMMA BeginPosted ==
  ASSUME NEW r, NEW D, NEW o, NEW files, Posted(r, D, o, files), NEW d \in Days
  PROVE  Posted(BeginSession(r, d), D, o, files)
<1> DEFINE list == KeptOf(r, d)
           pl == [day |-> d, list |-> list, ended |-> FALSE]
           x == [r EXCEPT !.pl = pl, !.curDay = d, !.session = TRUE]
           a == <<Effect("create", InitKey(d))>>
           b == Rebuild(r, d)
           e1 == Effect("put", InitKey(d))
           e2 == Effect("put", IndexKey(d))
           c == <<e1, e2>>
           ab == a \o b
           ops == ab \o c
           y == Do(x, ops)
           X == Current(r.ops, D)
<1>1. /\ r \in Recorder /\ Ordered(r.ops, D, o) /\ Complete(r.ops, r.kept)
      /\ \A s \in Segs : In(r.kept, s) \/ Unlinks(r.ops, s) => s \in files
  BY DEF Posted
<1>2. r.kept \in Seq(Item) /\ r.ops \in Seq(Effects)
  BY <1>1, RecorderFacts
<1>3. list \in Seq(Segs) /\ list = OfDay(r.kept, d)
  BY <1>2, OfDayListed DEF KeptOf
<1>4. BeginSession(r, d) = y
  BY DEF BeginSession
<1>5. /\ b \in Seq(Effects) /\ 1 \in 1..Len(b) /\ Complete(b, r.kept)
      /\ \A i \in 1..Len(b) : b[i].op = "index" /\ b[i].key = IndexKey(d)
  <2>1. /\ b \in Seq(Effects) /\ Len(b) = Len(list) + 1 /\ Len(list) \in Nat
        /\ \A i \in 1..(Len(list) + 1) : b[i].op = "index" /\ b[i].key = IndexKey(d)
    BY <1>2, RebuildFacts, Zenon
  <2>2. Complete(b, r.kept)
    BY <1>2, RebuildComplete
  <2> HIDE DEF b, list
  <2> QED BY <2>1, <2>2
<1>6. InitKey(d) \in Keys /\ IndexKey(d) \in Keys
      /\ InitKey(d) \notin Segs /\ IndexKey(d) \notin Segs
      /\ (\A k \in Days : IndexKey(d) = IndexKey(k) => k = d)
      /\ \A k : InitKey(d) # IndexKey(k)
  BY SegFacts
<1>7. a \in Seq(Effects) /\ \A i \in 1..Len(a) : a[i].op = "create"
  <2> DEFINE e == Effect("create", InitKey(d))
  <2>1. e \in Effects /\ e.op = "create"
    BY EffectFacts
  <2>2. a = <<e>>
    OBVIOUS
  <2> HIDE DEF e, a
  <2>3. a \in Seq(Effects) /\ Len(a) = 1 /\ a[1] = e
    BY <2>1, <2>2
  <2>4. \A i \in 1..Len(a) : i = 1
    BY <2>3
  <2> QED BY <2>1, <2>3, <2>4
<1>8. /\ c \in Seq(Effects)
      /\ \A i \in 1..Len(c) : /\ c[i].op = "put"
                              /\ c[i].key = InitKey(d) \/ c[i].key = IndexKey(d)
  <2>1. e1 \in Effects /\ e2 \in Effects /\ e1.op = "put" /\ e2.op = "put"
        /\ e1.key = InitKey(d) /\ e2.key = IndexKey(d)
    BY <1>6, EffectFacts
  <2> HIDE DEF e1, e2
  <2>2. c \in Seq(Effects) /\ Len(c) = 2 /\ c[1] = e1 /\ c[2] = e2
    BY <2>1
  <2>3. \A i \in 1..Len(c) : i = 1 \/ i = 2
    BY <2>2
  <2> QED BY <2>1, <2>2, <2>3
<1>9. pl \in Playlist /\ pl.day = d /\ pl.list = list
  BY <1>3 DEF Playlist
<1>10. d # NoDay
  BY StoreAssumption DEF Days, NoDay
<1> HIDE DEF list, pl, a, b, c
<1>11. x \in Recorder /\ x.kept = r.kept /\ x.ops = r.ops /\ x.pl = pl
  BY <1>1, <1>9 DEF Recorder
<1>12. ab \in Seq(Effects) /\ \A i \in 1..Len(ab) : ab[i].op \in {"create", "index"}
  <2>1. ab \in Seq(Effects)
    BY <1>5, <1>7, ConcatFacts
  <2>2. \A i \in 1..Len(ab) : ab[i].op \in {"create", "index"}
    BY <1>5, <1>7, ConcatSplit
  <2> QED BY <2>1, <2>2
<1>13. d \in Current(ab, X)
  <2>1. \A Y : d \in Current(b, Y)
    BY <1>5 DEF Current, Touches
  <2>2. Current(b, Current(a, X)) = Current(ab, X)
    BY <1>5, <1>7, CurrentConcat
  <2> QED BY <2>1, <2>2
<1>14. Complete(ab, r.kept)
  <2>1. Complete(a, r.kept)
    BY <1>7, Unwritten
  <2> QED BY <1>5, <1>7, <2>1, CompleteConcat
<1> HIDE DEF ab, X, x
<1>15. /\ ops \in Seq(Effects) /\ Ordered(ops, X, o) /\ Complete(ops, r.kept) /\ d \in Current(ops, X)
       /\ \A s : ~Unlinks(ops, s)
  <2>1. Ordered(ab, X, o)
    BY <1>12, Unasked
  <2>2. Ordered(c, Current(ab, X), o)
    BY <1>6, <1>8, <1>13, Unasked
  <2>3. Complete(c, r.kept)
    BY <1>8, Unwritten
  <2>4. ops \in Seq(Effects)
    BY <1>8, <1>12, ConcatFacts
  <2>5. Ordered(ops, X, o) /\ Complete(ops, r.kept)
    BY <1>8, <1>12, <1>14, <2>1, <2>2, <2>3, OrderedConcat, CompleteConcat
  <2>6. d \in Current(ops, X)
    BY <1>8, <1>12, <1>13, CurrentConcat
  <2>7. \A s : ~Unlinks(ab, s) /\ ~Unlinks(c, s)
    BY <1>8, <1>12 DEF Unlinks, Unlink
  <2>8. \A s : Unlinks(ops, s) <=> (Unlinks(ab, s) \/ Unlinks(c, s))
    BY <1>8, <1>12, ConcatOps
  <2> QED BY <2>4, <2>5, <2>6, <2>7, <2>8
<1> HIDE DEF ops
<1>16. y \in Recorder /\ y.ops = r.ops \o ops /\ y.kept = r.kept /\ y.pl = pl
  <2>1. y \in Recorder /\ y.ops = x.ops \o ops /\ y.kept = x.kept /\ y.pl = x.pl
    BY <1>11, <1>15, DoFacts, Zenon
  <2> HIDE DEF y
  <2> QED BY <1>11, <2>1
<1> HIDE DEF y
<1>17. Ordered(y.ops, D, o) /\ Complete(y.ops, y.kept)
  BY <1>1, <1>2, <1>15, <1>16, OrderedConcat, CompleteConcat DEF X
<1>18. d \in Current(y.ops, D)
  BY <1>2, <1>15, <1>16, CurrentConcat DEF X
<1>19. \A s : Unlinks(y.ops, s) => Unlinks(r.ops, s)
  BY <1>2, <1>15, <1>16, ConcatOps
<1> QED BY <1>1, <1>3, <1>4, <1>9, <1>10, <1>16, <1>17, <1>18, <1>19 DEF Posted

LEMMA OpenPosted ==
  ASSUME NEW r, NEW D, NEW o, NEW files, Posted(r, D, o, files), NEW s \in Segs
  PROVE  Posted(Do([r EXCEPT !.open = s], <<Effect("create", s)>>), D, o, files)
<1> DEFINE x == [r EXCEPT !.open = s]
           e == Effect("create", s)
           b == <<e>>
<1>1. r \in Recorder
  BY DEF Posted
<1>2. x \in Recorder /\ x.kept = r.kept /\ x.ops = r.ops /\ x.pl = r.pl
  BY <1>1 DEF Recorder
<1>3. e \in Effects /\ e.op = "create"
  BY EffectFacts
<1> HIDE DEF x, e
<1>4. b \in Seq(Effects) /\ Len(b) = 1 /\ b[1] = e
  BY <1>3
<1>5. \A i \in 1..Len(b) : i = 1
  BY <1>4
<1> HIDE DEF b
<1>6. \A i \in 1..Len(b) : b[i].op = "create"
  BY <1>3, <1>4, <1>5
<1>7. Posted(x, D, o, files)
  BY <1>2, PostedWith
<1>8. Ordered(b, Current(x.ops, D), o) /\ Complete(b, x.kept) /\ \A t : ~Unlinks(b, t)
  BY <1>6, Unasked, Unwritten DEF Unlinks, Unlink
<1>9. Posted(Do(x, b), D, o, files)
  BY <1>4, <1>7, <1>8, PostedDo
<1> QED BY <1>9 DEF x, b, e

LEMMA OpenedPosted ==
  ASSUME NEW r, NEW D, NEW o, NEW files, Posted(r, D, o, files),
         NEW day \in Days, NEW day2 \in Days, NEW s, NEW outcome, outcome = "ok" => s \in Segs
  PROVE  Posted(Opened(r, day, day2, s, outcome), D, o, files)
<1> DEFINE left == IF r.session /\ day # r.curDay
                   THEN [EndPlaylist(r) EXCEPT !.session = FALSE, !.curDay = NoDay] ELSE r
           ensured == IF left.session THEN left ELSE BeginSession(left, day2)
           back == EndPlaylist(ensured)
           ready == IF day = ensured.curDay THEN ensured ELSE BeginSession(back, day)
           gone == [back EXCEPT !.session = FALSE]
           opened == Do([ready EXCEPT !.open = s], <<Effect("create", s)>>)
           result == Opened(r, day, day2, s, outcome)
<1>1. \/ result = left \/ result = gone \/ result = ready
      \/ result = opened /\ outcome = "ok"
  <2>1. Opened(r, day, day2, s, outcome) =
          CASE outcome = "no session" /\ ~left.session -> left
            [] outcome = "no day session" /\ day # ensured.curDay -> gone
            [] outcome = "ok" -> opened
            [] OTHER -> ready
    BY DEF Opened
  <2> HIDE DEF left, ensured, gone, opened, ready
  <2>2. CASE outcome = "no session" /\ ~left.session
    BY <2>1, <2>2
  <2>3. CASE outcome = "no day session" /\ day # ensured.curDay
    BY <2>1, <2>3
  <2>4. CASE outcome = "ok"
    BY <2>1, <2>4
  <2>5. CASE /\ ~(outcome = "no session" /\ ~left.session)
             /\ ~(outcome = "no day session" /\ day # ensured.curDay) /\ outcome # "ok"
    BY <2>1, <2>5
  <2> QED BY <2>2, <2>3, <2>4, <2>5
<1> HIDE DEF result
<1>2. Posted(left, D, o, files)
  <2>1. CASE r.session /\ day # r.curDay
    <3> DEFINE z == EndPlaylist(r)
    <3>1. Posted(z, D, o, files) /\ z \in Recorder
      BY EndPosted DEF Posted
    <3> HIDE DEF z
    <3> DEFINE w == [z EXCEPT !.session = FALSE, !.curDay = NoDay]
    <3>2. w \in Recorder /\ w.kept = z.kept /\ w.ops = z.ops /\ w.pl = z.pl
      BY <3>1 DEF Recorder
    <3>3. left = w
      BY <2>1 DEF z
    <3> HIDE DEF w, left
    <3> QED BY <3>1, <3>2, <3>3, PostedWith
  <2>2. CASE ~(r.session /\ day # r.curDay)
    BY <2>2
  <2> QED BY <2>1, <2>2
<1> HIDE DEF left
<1>3. Posted(ensured, D, o, files)
  BY <1>2, BeginPosted
<1> HIDE DEF ensured
<1>4. Posted(back, D, o, files) /\ back \in Recorder
  BY <1>3, EndPosted DEF Posted
<1> HIDE DEF back
<1>5. Posted(gone, D, o, files)
  <2>1. gone \in Recorder /\ gone.kept = back.kept /\ gone.ops = back.ops /\ gone.pl = back.pl
    BY <1>4 DEF Recorder
  <2> HIDE DEF gone
  <2> QED BY <1>4, <2>1, PostedWith
<1> HIDE DEF gone
<1>6. Posted(ready, D, o, files)
  BY <1>3, <1>4, BeginPosted
<1> HIDE DEF ready
<1>7. ASSUME outcome = "ok" PROVE Posted(opened, D, o, files)
  BY <1>6, <1>7, OpenPosted
<1> HIDE DEF opened
<1> QED BY <1>1, <1>2, <1>5, <1>6, <1>7 DEF result

LEMMA StartPosted ==
  ASSUME NEW files, \A s, t \in files \cap Segs : s[3] = t[3] => s = t
  PROVE  Posted(prune_retained(Found(files)), {}, None, files)
<1> DEFINE r == Found(files)
<1>1. Fine(r, files, <<>>) /\ r.pl.day = NoDay /\ r.ops = <<>>
  BY FoundFine
<1> HIDE DEF r
<1>2. /\ r \in Recorder /\ (r.pl.day = NoDay => r.pl.list = <<>>)
      /\ \A s \in Segs : In(r.kept, s) => s \in files
  BY <1>1 DEF Fine, Between, KeepsFiles
<1>3. Ordered(r.ops, {}, None) /\ Complete(r.ops, r.kept) /\ \A s : ~Unlinks(r.ops, s)
  BY <1>1, NoEffects DEF Ordered, Complete
<1>4. Posted(r, {}, None, files)
  BY <1>1, <1>2, <1>3 DEF Posted
<1> QED BY <1>4, PrunePosted DEF r

-----------------------------------------------------------------------------
(* The state: the operation under way, the queue, the request in hand, the *)
(* requests that may still be carried out late, and the cloud.             *)

Queued(k, del) == \E i \in 1..Len(queue) : queue[i].key = k /\ queue[i].remove = del
InHand(k, del) == job # None /\ job.key = k /\ job.remove = del
Puts(ops, k) == \E i \in 1..Len(ops) : ops[i].op = "put" /\ ops[i].key = k
Dels(ops, k) == \E i \in 1..Len(ops) : ops[i].op = "del" /\ ops[i].key = k

(* The cloud has s, or may yet get it from a request that is out; or from  *)
(* one that waits.  Its removal is asked for.  Day d's index waits.        *)
Stored(s) == s \in cloud \/ \E req \in late : req.key = s /\ ~req.remove
Requested(s) == Stored(s) \/ Queued(s, FALSE) \/ InHand(s, FALSE)
Dropped(s) == Dels(todo, s) \/ Queued(s, TRUE) \/ InHand(s, TRUE)
Announced(d) == Queued(IndexKey(d), FALSE) \/ InHand(IndexKey(d), FALSE)

(* The index of day d lists what is kept and the cloud may have. *)
UpToDate(d) ==
    \A s \in Segs : In(rec.kept, s) /\ DayOf(s) = d /\ Requested(s) => Mentions(listing[d], s)
TouchedLater(d) == \E k \in 1..Len(todo) : Touches(todo[k], d)

(* A request is for a segment closed earlier; what is dropped is not kept. *)
RequestsAreOld ==
    \A s \in Segs : Requested(s) \/ Dropped(s) \/ Puts(todo, s) => s[3] <= segCount /\ s # rec.open
DroppedAreGone == \A s \in Segs : Dropped(s) => ~In(rec.kept, s)

(* A kept segment is listed before it is asked for; an index is up to date *)
(* when it is asked for, and stays so until it is sent.                    *)
ListedFirst ==
    \A j \in 1..Len(todo), s \in Segs :
        todo[j].op = "put" /\ todo[j].key = s /\ In(rec.kept, s) =>
            Before(todo, j, DayOf(s)) \/ Mentions(listing[DayOf(s)], s)
CurrentFirst ==
    \A j \in 1..Len(todo), d \in Days :
        todo[j].op = "put" /\ todo[j].key = IndexKey(d) => Before(todo, j, d) \/ UpToDate(d)
PlaylistIsCurrent == \A d \in Days : rec.pl.day = d => TouchedLater(d) \/ UpToDate(d)
AnnouncedAreCurrent == \A d \in Days : Announced(d) => UpToDate(d)

(* An index that was sent whole lists every kept segment the cloud has. *)
SentIsCurrent ==
    job # None /\ job.sent /\ ~job.remove /\ Kind(job.key) = "index" =>
        \A s \in Segs : In(rec.kept, s) /\ DayOf(s) = DayOf(job.key) /\ Stored(s)
                          => Mentions(job.body, s)

RetainInv ==
    /\ process = "down" => queue = <<>> /\ job = None
    /\ rec.pl.day # NoDay => rec.pl.list = OfDay(rec.kept, rec.pl.day)
    /\ Complete(todo, rec.kept)
    /\ RequestsAreOld /\ DroppedAreGone
    /\ ListedFirst /\ CurrentFirst /\ PlaylistIsCurrent /\ AnnouncedAreCurrent
    /\ SentIsCurrent

LEMMA RetainInit == Init => RetainInv
<1> SUFFICES ASSUME Init PROVE RetainInv
  OBVIOUS
<1>1. /\ rec = NewRecorder /\ todo = <<>> /\ queue = <<>> /\ job = None /\ cloud = {} /\ late = {}
  BY DEF Init
<1>2. Len(todo) = 0 /\ Len(queue) = 0 /\ rec.pl.day = NoDay
  BY <1>1, NewRecorderFacts
<1>3. \A k, del : ~Queued(k, del) /\ ~InHand(k, del)
  BY <1>1, <1>2 DEF Queued, InHand
<1>4. \A s : ~Requested(s) /\ ~Dropped(s) /\ ~Puts(todo, s)
  <2>1. \A s : ~Stored(s)
    BY <1>1 DEF Stored
  <2>2. \A s : ~Dels(todo, s) /\ ~Puts(todo, s)
    BY <1>2 DEF Dels, Puts
  <2> QED BY <1>3, <2>1, <2>2 DEF Requested, Dropped
<1>5. RequestsAreOld /\ DroppedAreGone /\ AnnouncedAreCurrent
  BY <1>3, <1>4 DEF RequestsAreOld, DroppedAreGone, AnnouncedAreCurrent, Announced
<1>6. ListedFirst /\ CurrentFirst /\ Complete(todo, rec.kept)
  BY <1>2 DEF ListedFirst, CurrentFirst, Complete
<1>7. PlaylistIsCurrent
  BY <1>4 DEF PlaylistIsCurrent, UpToDate
<1>8. SentIsCurrent
  BY <1>1 DEF SentIsCurrent
<1> QED BY <1>1, <1>2, <1>5, <1>6, <1>7, <1>8 DEF RetainInv

(* An operation begins: what its effects are and what was true before it.  *)
LEMMA RetainOperation ==
  ASSUME NEW r, NEW D, NEW o, Posted(r, D, o, disk), Consistent(r, disk, listing), Runs(r),
         UNCHANGED <<listing, queue, job, cloud, late>>, process' # "down",
         \A d \in Days : d \in D \/ Announced(d) =>
            \A s \in Segs : In(r.kept, s) /\ DayOf(s) = d /\ Requested(s) => Mentions(listing[d], s),
         \A s \in Segs : Queued(s, TRUE) \/ InHand(s, TRUE) => ~In(r.kept, s),
         job # None /\ job.sent /\ ~job.remove /\ Kind(job.key) = "index" =>
            \A s \in Segs : In(r.kept, s) /\ DayOf(s) = DayOf(job.key) /\ Stored(s)
                              => Mentions(job.body, s),
         \A s \in Segs : Requested(s) \/ Queued(s, TRUE) \/ InHand(s, TRUE) \/ s = o \/ s \in disk
                           => s[3] <= segCount' /\ s # r.open
  PROVE  RetainInv'
<1>1. /\ r \in Recorder /\ (r.pl.day # NoDay => r.pl.list = OfDay(r.kept, r.pl.day))
      /\ (r.pl.day # NoDay => r.pl.day \in Current(r.ops, D))
      /\ Ordered(r.ops, D, o) /\ Complete(r.ops, r.kept)
      /\ \A s \in Segs : In(r.kept, s) \/ Unlinks(r.ops, s) => s \in disk
  BY DEF Posted
<1>2. FilesFollow(r, disk)
  BY DEF Consistent
<1>3. /\ todo' = r.ops /\ rec'.kept = r.kept /\ rec'.pl = r.pl /\ rec'.open = r.open
      /\ todo' \in Seq(Effects)
  BY <1>1, RecorderFacts DEF Runs, Recorder
<1>4. /\ \A k, del : Queued(k, del)' <=> Queued(k, del)
      /\ \A k, del : InHand(k, del)' <=> InHand(k, del)
      /\ \A s : Stored(s)' <=> Stored(s)
  BY DEF Queued, InHand, Stored
<1>5. \A s : Requested(s)' <=> Requested(s)
  BY <1>4 DEF Requested
<1>6. \A s : Dropped(s)' => Dels(r.ops, s) \/ Queued(s, TRUE) \/ InHand(s, TRUE)
  BY <1>3, <1>4 DEF Dropped
<1>7. \A s \in Segs : Dels(r.ops, s) => Unlinks(r.ops, s) /\ s \in disk /\ ~In(r.kept, s)
  <2>1. \A s \in Segs : Dels(r.ops, s) => Unlinks(r.ops, s)
    BY <1>1 DEF Dels, Ordered, OrderedAt
  <2> QED BY <1>1, <1>2, <2>1 DEF FilesFollow
<1>8. \A s \in Segs : Puts(r.ops, s) => s = o
  BY <1>1 DEF Puts, Ordered, OrderedAt
<1>9. RequestsAreOld'
  <2> SUFFICES ASSUME NEW s \in Segs, (Requested(s) \/ Dropped(s) \/ Puts(todo, s))'
               PROVE  s[3] <= segCount' /\ s # rec'.open
    BY DEF RequestsAreOld
  <2>1. Requested(s) \/ Queued(s, TRUE) \/ InHand(s, TRUE) \/ s = o \/ s \in disk
    BY <1>3, <1>5, <1>6, <1>7, <1>8
  <2> QED BY <1>3, <2>1
<1>10. DroppedAreGone'
  <2> SUFFICES ASSUME NEW s \in Segs, Dropped(s)' PROVE ~In(rec'.kept, s)
    BY DEF DroppedAreGone
  <2> QED BY <1>3, <1>6, <1>7
<1>11. ASSUME NEW d \in Days, d \in D \/ Announced(d) PROVE UpToDate(d)'
  <2> SUFFICES ASSUME NEW s \in Segs, In(r.kept, s), DayOf(s) = d, Requested(s)
               PROVE  Mentions(listing[d], s)
    BY <1>3, <1>5 DEF UpToDate
  <2> QED BY <1>11
<1>12. ListedFirst'
  <2> SUFFICES ASSUME NEW j \in 1..Len(r.ops), NEW s \in Segs, r.ops[j].op = "put", r.ops[j].key = s
               PROVE  Before(r.ops, j, DayOf(s))
    BY <1>3 DEF ListedFirst
  <2> QED BY <1>1 DEF Ordered, OrderedAt
<1>13. CurrentFirst'
  <2> SUFFICES ASSUME NEW j \in 1..Len(r.ops), NEW d \in Days, r.ops[j].op = "put",
                      r.ops[j].key = IndexKey(d)
               PROVE  Before(r.ops, j, d) \/ UpToDate(d)'
    BY <1>3 DEF CurrentFirst
  <2>1. d \in D \/ Before(r.ops, j, d)
    BY <1>1 DEF Ordered, OrderedAt
  <2> QED BY <1>11, <2>1
<1>14. PlaylistIsCurrent'
  <2> SUFFICES ASSUME NEW d \in Days, r.pl.day = d PROVE TouchedLater(d)' \/ UpToDate(d)'
    BY <1>3 DEF PlaylistIsCurrent
  <2>1. d # NoDay
    BY StoreAssumption DEF Days, NoDay
  <2>2. d \in D \/ \E k \in 1..Len(r.ops) : Touches(r.ops[k], d)
    BY <1>1, <2>1 DEF Current
  <2> QED BY <1>3, <1>11, <2>2 DEF TouchedLater
<1>15. AnnouncedAreCurrent'
  <2>1. \A d : Announced(d)' => Announced(d)
    BY <1>4 DEF Announced
  <2> QED BY <1>11, <2>1 DEF AnnouncedAreCurrent
<1>16. SentIsCurrent'
  BY <1>3, <1>4 DEF SentIsCurrent
<1> QED BY <1>1, <1>3, <1>9, <1>10, <1>12, <1>13, <1>14, <1>15, <1>16 DEF RetainInv

(* At rest the recorder goes on: nothing is kept that was not kept or open. *)
LEMMA RetainAtRest ==
  ASSUME StoreInv, RetainInv, AtRest, NEW r, Consistent(r, disk, listing),
         Posted(r, {rec.pl.day}, rec.open, disk), Runs(r),
         UNCHANGED <<listing, queue, job, cloud, late>>, process' # "down",
         segCount' \in Nat, segCount <= segCount', r.open \in Segs => segCount < r.open[3]
  PROVE  RetainInv'
<1>1. /\ rec \in Recorder /\ rec.ops = <<>> /\ todo = <<>> /\ process # "down" /\ segCount \in Nat
      /\ \A s \in Recorded : s[3] <= segCount
  BY DEF StoreInv, AtRest
<1>2. FilesFollow([rec EXCEPT !.ops = <<>>], disk) /\ [rec EXCEPT !.ops = <<>>] = rec
  BY <1>1, TodoFacts DEF StoreInv, Consistent
<1>3. \A s \in Segs : s \in disk => In(rec.kept, s) \/ s = rec.open
  BY <1>1, <1>2, NoEffects DEF FilesFollow
<1>4. \A s \in Segs : In(r.kept, s) => s \in disk
  BY DEF Posted
<1>5. rec.open \in Segs \cup {None} /\ r.open \in Segs \cup {None}
  BY <1>1, RecorderFacts DEF Consistent
<1>6. \A s \in Segs : s[3] \in Nat /\ s # None
  BY SegFacts, StoreAssumption
<1>7. \A s \in Segs : Requested(s) \/ Dropped(s) => s[3] <= segCount /\ s # rec.open
  BY DEF RetainInv, RequestsAreOld
<1>8. \A s \in Segs : In(r.kept, s) /\ (Requested(s) \/ Dropped(s)) => In(rec.kept, s)
  BY <1>3, <1>4, <1>7
<1>9. ASSUME NEW d \in Days, d \in {rec.pl.day} \/ Announced(d), NEW s \in Segs, In(r.kept, s),
             DayOf(s) = d, Requested(s)
      PROVE  Mentions(listing[d], s)
  <2>1. ~TouchedLater(d)
    BY <1>1 DEF TouchedLater
  <2>2. UpToDate(d)
    BY <1>9, <2>1 DEF RetainInv, PlaylistIsCurrent, AnnouncedAreCurrent
  <2> QED BY <1>8, <1>9, <2>2 DEF UpToDate
<1>10. \A s \in Segs : Queued(s, TRUE) \/ InHand(s, TRUE) => ~In(r.kept, s)
  BY <1>8 DEF Dropped, RetainInv, DroppedAreGone
<1>11. job # None /\ job.sent /\ ~job.remove /\ Kind(job.key) = "index" =>
          \A s \in Segs : In(r.kept, s) /\ DayOf(s) = DayOf(job.key) /\ Stored(s)
                            => Mentions(job.body, s)
  BY <1>8 DEF Requested, RetainInv, SentIsCurrent
<1>12. ASSUME NEW s \in Segs,
              Requested(s) \/ Queued(s, TRUE) \/ InHand(s, TRUE) \/ s = rec.open \/ s \in disk
       PROVE  s[3] <= segCount' /\ s # r.open
  <2>1. s \in Recorded \/ Requested(s) \/ Dropped(s)
    BY <1>6, <1>12 DEF Recorded, Dropped
  <2>2. s[3] <= segCount
    BY <1>1, <1>7, <2>1
  <2>3. s[3] \in Nat
    BY <1>6
  <2>4. s[3] <= segCount'
    BY <1>1, <2>2, <2>3
  <2>5. s # r.open
    BY <1>1, <2>2, <2>3
  <2> QED BY <2>4, <2>5
<1>13. \A s \in Segs : Requested(s) \/ Queued(s, TRUE) \/ InHand(s, TRUE) \/ s = rec.open \/ s \in disk
                         => s[3] <= segCount' /\ s # r.open
  BY <1>12
<1>14. \A d \in Days : d \in {rec.pl.day} \/ Announced(d) =>
          \A s \in Segs : In(r.kept, s) /\ DayOf(s) = d /\ Requested(s) => Mentions(listing[d], s)
  BY <1>9
<1> QED BY <1>10, <1>11, <1>13, <1>14, RetainOperation

(* A start finds no queue. *)
LEMMA RetainStart == StoreInv /\ RetainInv /\ Start => RetainInv'
<1> SUFFICES ASSUME StoreInv, RetainInv, Start PROVE RetainInv'
  OBVIOUS
<1> DEFINE r == prune_retained(Found(disk))
           D == {}
           o == None
<1>1. process = "down" /\ process' = "up" /\ Runs(r)
      /\ UNCHANGED <<listing, queue, job, cloud, late, segCount>>
  BY DEF Start, Found
<1>2. /\ rec = NewRecorder /\ segCount \in Nat /\ (\A s \in Recorded : s[3] <= segCount)
      /\ \A s, t \in Recorded : s[3] = t[3] => s = t
  BY <1>1 DEF StoreInv
<1>3. \A s, t \in disk \cap Segs : s[3] = t[3] => s = t
  BY <1>2 DEF Recorded
<1>4. Posted(r, D, o, disk)
  BY <1>3, StartPosted
<1>5. Fine(r, disk, listing)
  BY <1>3, StartFine
<1> HIDE DEF r, D, o
<1>6. Consistent(r, disk, listing) /\ r.open = None
  BY <1>5, FineConsistent DEF Fine, Between
<1>7. queue = <<>> /\ job = None
  BY <1>1 DEF RetainInv
<1>8. \A k, del : ~Queued(k, del) /\ ~InHand(k, del)
  <2>1. Len(queue) = 0
    BY <1>7
  <2> QED BY <1>7, <2>1 DEF Queued, InHand
<1>9. \A s \in Segs : Requested(s) \/ Queued(s, TRUE) \/ InHand(s, TRUE) \/ s = o \/ s \in disk
                        => s[3] <= segCount' /\ s # r.open
  <2>1. \A s \in Segs : Requested(s) => s[3] <= segCount
    BY DEF RetainInv, RequestsAreOld
  <2>2. \A s \in Segs : s # None
    BY SegFacts
  <2> QED BY <1>1, <1>2, <1>6, <1>8, <2>1, <2>2 DEF Recorded, o
<1>10. \A d \in Days : d \in D \/ Announced(d) =>
          \A s \in Segs : In(r.kept, s) /\ DayOf(s) = d /\ Requested(s) => Mentions(listing[d], s)
  BY <1>8 DEF Announced, D
<1>11. \A s \in Segs : Queued(s, TRUE) \/ InHand(s, TRUE) => ~In(r.kept, s)
  BY <1>8
<1>12. job # None /\ job.sent /\ ~job.remove /\ Kind(job.key) = "index" =>
          \A s \in Segs : In(r.kept, s) /\ DayOf(s) = DayOf(job.key) /\ Stored(s)
                            => Mentions(job.body, s)
  BY <1>7
<1>13. process' # "down" /\ UNCHANGED <<listing, queue, job, cloud, late>>
  BY <1>1
<1> QED BY <1>1, <1>4, <1>6, <1>9, <1>10, <1>11, <1>12, <1>13, RetainOperation

LEMMA RetainKeyFrame == StoreInv /\ RetainInv /\ KeyFrame => RetainInv'
<1> SUFFICES ASSUME StoreInv, RetainInv, KeyFrame PROVE RetainInv'
  OBVIOUS
<1>1. /\ AtRest /\ process' # "down" /\ UNCHANGED <<listing, queue, job, cloud, late>>
  BY DEF KeyFrame, AtRest
<1>2. /\ rec \in Recorder /\ rec.ops = <<>> /\ segCount \in Nat
      /\ (\A s \in Recorded : s[3] <= segCount)
      /\ today \in Days /\ [rec EXCEPT !.ops = <<>>] = rec /\ todo = <<>> /\ process # "down"
  BY <1>1, TodoFacts DEF StoreInv, AtRest
<1>3. Consistent(rec, disk, listing)
  BY <1>2 DEF StoreInv
(* The dates, as the provers can reason about them. *)
<1>4. ASSUME NEW dur \in Durations, NEW day \in Days, NEW day2 \in Days, NEW outcome,
             segCount' = segCount + (IF outcome = "ok" THEN 1 ELSE 0), segCount' <= MaxSegs,
             Runs(Opened(CloseSegment(rec, dur), day, day2, Seg(day, segCount + 1), outcome))
      PROVE  RetainInv'
  <2> DEFINE closed == CloseSegment(rec, dur)
             s == Seg(day, segCount + 1)
             r == Opened(closed, day, day2, s, outcome)
  <2>1. Fine(closed, disk, listing)
    BY <1>2, <1>3, CloseFine
  <2>2. Posted(closed, {rec.pl.day}, rec.open, disk)
    BY <1>2, <1>3, ClosePosted DEF RetainInv
  <2>3. s[3] = segCount + 1 /\ DayOf(s) = day
    BY KeyFacts
  <2>4. /\ segCount' \in Nat /\ segCount <= segCount'
        /\ (outcome = "ok" => segCount + 1 \in 1..MaxSegs)
    <3>1. CASE outcome = "ok"
      <4>1. segCount' = segCount + 1
        BY <1>4, <3>1
      <4> QED BY <1>2, <1>4, <3>1, <4>1, StoreAssumption
    <3>2. CASE outcome # "ok"
      <4>1. segCount' = segCount + 0
        BY <1>4, <3>2
      <4> QED BY <1>2, <3>2, <4>1
    <3> QED BY <3>1, <3>2
  <2>5. outcome = "ok" => s \in Segs
    BY <2>4 DEF Segs
  <2>6. Runs(r)
    BY <1>4
  <2> HIDE DEF closed, s
  <2>7. s \in Segs => s \notin disk
    <3>1. ~(segCount + 1 <= segCount)
      BY <1>2
    <3>2. \A t \in disk \cap Segs : t[3] <= segCount
      BY <1>2 DEF Recorded
    <3> QED BY <2>3, <3>1, <3>2
  <2>8. /\ Consistent(r, disk, listing)
        /\ r.open \in {None} \cup (IF outcome = "ok" THEN {s} ELSE {})
    BY <2>1, <2>3, <2>5, <2>7, OpenedConsistent
  <2>9. Posted(r, {rec.pl.day}, rec.open, disk)
    BY <2>2, <2>5, OpenedPosted
  <2> HIDE DEF r
  <2>10. r.open \in Segs => segCount < r.open[3]
    <3>1. r.open \in Segs => r.open = s
      BY <2>8, SegFacts
    <3>2. segCount < segCount + 1
      BY <1>2
    <3> QED BY <2>3, <3>1, <3>2
  <2> QED BY <1>1, <2>4, <2>6, <2>8, <2>9, <2>10, RetainAtRest
<1>5. \A x \in today..MaxDay : x \in Days
  BY <1>2, StoreAssumption DEF Days
<1>6. PICK dur \in Durations, day \in today..MaxDay, day2 \in today..MaxDay,
           outcome \in {"ok", "no session", "no day session", "no segment"} :
        /\ segCount' = segCount + (IF outcome = "ok" THEN 1 ELSE 0)
        /\ segCount' <= MaxSegs
        /\ Runs(Opened(CloseSegment(rec, dur), day, day2, Seg(day, segCount + 1), outcome))
  BY DEF KeyFrame
<1>7. day \in Days /\ day2 \in Days
  BY <1>5, Zenon
<1> QED BY <1>4, <1>6, <1>7, Zenon

LEMMA RetainStop == StoreInv /\ RetainInv /\ Stop => RetainInv'
<1> SUFFICES ASSUME StoreInv, RetainInv, Stop PROVE RetainInv'
  OBVIOUS
<1>1. /\ AtRest /\ process' # "down" /\ UNCHANGED <<listing, queue, job, cloud, late, segCount>>
  BY DEF Stop
<1>2. /\ rec \in Recorder /\ rec.ops = <<>> /\ segCount \in Nat
      /\ [rec EXCEPT !.ops = <<>>] = rec /\ todo = <<>> /\ process # "down"
  BY <1>1, TodoFacts DEF StoreInv, AtRest
<1>3. Consistent(rec, disk, listing)
  BY <1>2 DEF StoreInv
<1>4. PICK dur \in Durations :
        Runs([EndPlaylist(EndPlaylist(CloseSegment(rec, dur))) EXCEPT !.session = FALSE])
  BY DEF Stop
<1> DEFINE closed == CloseSegment(rec, dur)
           y == EndPlaylist(EndPlaylist(closed))
           r == [y EXCEPT !.session = FALSE]
<1>5. Fine(closed, disk, listing)
  BY <1>2, <1>3, CloseFine
<1>6. Posted(closed, {rec.pl.day}, rec.open, disk)
  BY <1>2, <1>3, ClosePosted DEF RetainInv
<1>7. Runs(r)
  BY <1>4
<1> HIDE DEF closed
<1>8. Between(y, disk)
  BY <1>5, EndBetween DEF Fine
<1>9. Posted(y, {rec.pl.day}, rec.open, disk)
  BY <1>6, EndPosted
<1> HIDE DEF y
<1>10. /\ r \in Recorder /\ r.kept = y.kept /\ r.open = y.open /\ r.ops = y.ops /\ r.pl = y.pl
       /\ r.session = FALSE
  BY <1>8 DEF Between, Recorder
<1> HIDE DEF r
<1>11. Between(r, disk)
  <2>1. r.pl.day = NoDay => r.pl.list = <<>>
    BY <1>8, <1>10 DEF Between
  <2> QED BY <1>8, <1>10, <2>1, BetweenWith
<1>12. Consistent(r, disk, listing) /\ r.open = None
  BY <1>10, <1>11, FineConsistent DEF Fine, Between
<1>13. Posted(r, {rec.pl.day}, rec.open, disk)
  BY <1>9, <1>10, PostedWith
<1>14. segCount' \in Nat /\ segCount <= segCount' /\ (r.open \in Segs => segCount < r.open[3])
  BY <1>1, <1>2, <1>12, SegFacts
<1> QED BY <1>1, <1>7, <1>12, <1>13, <1>14, RetainAtRest

(* A process that is not there asks for nothing. *)
LEMMA RetainDown ==
  ASSUME RetainInv, rec' = NewRecorder, todo' = <<>>, queue' = <<>>, job' = None,
         UNCHANGED <<cloud, late, segCount>>
  PROVE  RetainInv'
<1>1. Len(todo') = 0 /\ Len(queue') = 0 /\ rec'.pl.day = NoDay /\ rec'.open = None
  BY NewRecorderFacts
<1>2. \A s : ~In(rec'.kept, s)
  BY DEF In, NewRecorder
<1>3. \A k, del : ~Queued(k, del)' /\ ~InHand(k, del)'
  BY <1>1 DEF Queued, InHand
<1>4. \A s : Stored(s)' <=> Stored(s)
  BY DEF Stored
<1>5. \A s : ~Dels(todo, s)' /\ ~Puts(todo, s)'
  BY <1>1 DEF Dels, Puts
<1>6. RequestsAreOld'
  <2> SUFFICES ASSUME NEW s \in Segs, (Requested(s) \/ Dropped(s) \/ Puts(todo, s))'
               PROVE  s[3] <= segCount /\ s # None
    BY <1>1 DEF RequestsAreOld
  <2>1. Requested(s)
    BY <1>3, <1>4, <1>5 DEF Requested, Dropped
  <2> QED BY <2>1, SegFacts DEF RetainInv, RequestsAreOld
<1>7. DroppedAreGone'
  BY <1>2 DEF DroppedAreGone
<1>8. ListedFirst' /\ CurrentFirst' /\ Complete(todo', rec'.kept)
  BY <1>1 DEF ListedFirst, CurrentFirst, Complete
<1>9. \A d : UpToDate(d)'
  BY <1>2 DEF UpToDate
<1>10. PlaylistIsCurrent' /\ AnnouncedAreCurrent' /\ SentIsCurrent'
  BY <1>9 DEF PlaylistIsCurrent, AnnouncedAreCurrent, SentIsCurrent
<1> QED BY <1>1, <1>6, <1>7, <1>8, <1>10 DEF RetainInv

(* The writer's next effect. *)
LEMMA RetainWriter == StoreInv /\ TypesInv /\ RetainInv /\ WriterStep => RetainInv'
<1> SUFFICES ASSUME StoreInv, TypesInv, RetainInv, WriterStep PROVE RetainInv'
  OBVIOUS
<1> DEFINE e == Head(todo)
           n == Len(todo')
           new == [key |-> e.key, remove |-> e.op = "del"]
<1>1. /\ todo # <<>> /\ todo' = Tail(todo) /\ listing' = IndexesAfter(e, listing)
      /\ (e.op \in {"put", "del"} => Enqueue(e))
      /\ (e.op \notin {"put", "del"} => UNCHANGED <<queue, missed>>)
      /\ UNCHANGED <<rec, process, job, cloud, late, segCount>>
  BY DEF WriterStep, IndexesAfter
<1>2. /\ todo \in Seq(Effects) /\ listing \in [Days -> Listing \cup {None}] /\ rec \in Recorder
      /\ (process = "down" => todo = <<>>)
      /\ queue \in Seq([key : Keys, remove : BOOLEAN])
  BY DEF StoreInv, TypesInv
<1>3. /\ e \in Effects /\ n \in Nat /\ Len(todo) = n + 1 /\ todo[1] = e /\ 1 \in 1..Len(todo)
      /\ \A i \in 1..n : todo'[i] = todo[i + 1] /\ i + 1 \in 1..Len(todo)
      /\ \A i \in 1..Len(todo) : i = 1 \/ (i - 1 \in 1..n /\ todo'[i - 1] = todo[i])
  BY <1>1, <1>2
<1>4. /\ Complete(todo, rec.kept) /\ RequestsAreOld /\ DroppedAreGone
      /\ ListedFirst /\ CurrentFirst /\ PlaylistIsCurrent /\ AnnouncedAreCurrent
      /\ SentIsCurrent
      /\ (rec.pl.day # NoDay => rec.pl.list = OfDay(rec.kept, rec.pl.day))
  BY DEF RetainInv
<1>5. process # "down"
  BY <1>1, <1>2
<1>6. queue' = queue \/ (e.op \in {"put", "del"} /\ queue' = Append(queue, new))
  BY <1>1 DEF Enqueue
<1>7. \A k \in Keys, del \in BOOLEAN :
         Queued(k, del)' => Queued(k, del) \/ (e.op \in {"put", "del"} /\ k = e.key /\ del = (e.op = "del"))
  <2> SUFFICES ASSUME NEW i \in 1..Len(queue')
               PROVE  \/ \E j \in 1..Len(queue) : queue'[i] = queue[j]
                      \/ /\ e.op \in {"put", "del"}
                         /\ queue'[i].key = e.key /\ queue'[i].remove = (e.op = "del")
    BY DEF Queued
  <2>1. CASE queue' = queue
    BY <2>1
  <2>2. CASE e.op \in {"put", "del"} /\ queue' = Append(queue, new)
    <3>1. new \in [key : Keys, remove : BOOLEAN] /\ new.key = e.key /\ new.remove = (e.op = "del")
      BY <1>3, EffectFacts
    <3> HIDE DEF new, e
    <3>2. i = Len(queue) + 1 \/ (i \in 1..Len(queue) /\ queue'[i] = queue[i])
      BY <1>2, <2>2, <3>1
    <3>3. i = Len(queue) + 1 => queue'[i] = new
      BY <1>2, <2>2, <3>1
    <3> QED BY <2>2, <3>1, <3>2, <3>3
  <2> QED BY <1>6, <2>1, <2>2
<1> HIDE DEF e, n, new
<1>8. \A d \in Days : listing'[d] = IF Touches(e, d) THEN e.listing ELSE listing[d]
  BY <1>1, <1>2, <1>3, IndexAfter
<1>9. /\ \A s : Stored(s)' <=> Stored(s)
      /\ \A k, del : InHand(k, del)' <=> InHand(k, del)
  BY <1>1 DEF Stored, InHand
<1>10. \A s \in Segs : Requested(s)' => Requested(s) \/ (e.op = "put" /\ e.key = s)
  <2>1. \A s \in Segs : s \in Keys
    BY SegFacts
  <2>2. \A s \in Segs : Queued(s, FALSE)' => Queued(s, FALSE) \/ (e.op = "put" /\ e.key = s)
    BY <1>7, <2>1
  <2> QED BY <1>9, <2>2 DEF Requested
<1>11. \A s \in Segs : Dropped(s)' => Dropped(s)
  <2>1. \A s \in Segs : s \in Keys
    BY SegFacts
  <2>2. \A s \in Segs : Queued(s, TRUE)' => Queued(s, TRUE) \/ (e.op = "del" /\ e.key = s)
    BY <1>7, <2>1
  <2>3. \A s : e.op = "del" /\ e.key = s => Dels(todo, s)
    BY <1>3 DEF Dels
  <2>4. \A s : Dels(todo', s) => Dels(todo, s)
    BY <1>3 DEF Dels, n
  <2>5. \A s : Dropped(s)' <=> Dels(todo', s) \/ Queued(s, TRUE)' \/ InHand(s, TRUE)'
    BY DEF Dropped, Dels
  <2> QED BY <1>9, <2>2, <2>3, <2>4, <2>5 DEF Dropped
<1>12. \A s : Puts(todo', s) => Puts(todo, s)
  BY <1>3 DEF Puts, n
<1>13. \A s : e.op = "put" /\ e.key = s => Puts(todo, s)
  BY <1>3 DEF Puts
<1>14. RequestsAreOld'
  <2> SUFFICES ASSUME NEW s \in Segs, Requested(s)' \/ Dropped(s)' \/ Puts(todo', s)
               PROVE  s[3] <= segCount /\ s # rec.open
    BY <1>1 DEF RequestsAreOld, Puts
  <2>1. Requested(s) \/ Dropped(s) \/ Puts(todo, s)
    BY <1>10, <1>11, <1>12, <1>13
  <2> QED BY <1>4, <2>1 DEF RequestsAreOld
<1>15. DroppedAreGone'
  BY <1>1, <1>4, <1>11 DEF DroppedAreGone
(* The index that the effect writes, if it does, lists what is kept. *)
<1>16. ASSUME NEW d \in Days, Touches(e, d), NEW s \in Segs, In(rec.kept, s), DayOf(s) = d
       PROVE  Mentions(listing'[d], s)
  <2>1. listing'[d] = e.listing
    BY <1>8, <1>16
  <2>2. CASE e.op = "index"
    <3>1. ListsAll(e, rec.kept) /\ e.key = IndexKey(d)
      BY <1>3, <1>4, <1>16 DEF Complete, Touches
    <3> QED BY <1>16, <2>1, <2>2, <3>1 DEF ListsAll
  <2>3. CASE e.op # "index"
    BY <1>3, <2>1, <2>3, EffectFacts DEF Mentions
  <2> QED BY <2>2, <2>3
<1>17. ASSUME NEW s \in Segs, In(rec.kept, s), e.op = "put", e.key = s
       PROVE  Mentions(listing[DayOf(s)], s)
  <2>1. ~Before(todo, 1, DayOf(s))
    BY <1>3 DEF Before
  <2> QED BY <1>3, <1>4, <1>17, <2>1 DEF ListedFirst
<1>18. ASSUME NEW d \in Days, UpToDate(d) \/ Touches(e, d) PROVE UpToDate(d)'
  <2> SUFFICES ASSUME NEW s \in Segs, In(rec.kept, s), DayOf(s) = d, Requested(s)'
               PROVE  Mentions(listing'[d], s)
    BY <1>1 DEF UpToDate
  <2>1. CASE Touches(e, d)
    BY <1>16, <2>1
  <2>2. CASE ~Touches(e, d)
    <3>1. listing'[d] = listing[d] /\ UpToDate(d)
      BY <1>8, <1>18, <2>2
    <3> QED BY <1>10, <1>17, <3>1 DEF UpToDate
  <2> QED BY <2>1, <2>2
<1>19. ASSUME NEW j \in 1..n, NEW d, Before(todo, j + 1, d) PROVE Touches(e, d) \/ Before(todo', j, d)
  <2>1. PICK k \in 1..Len(todo) : k < j + 1 /\ Touches(todo[k], d)
    BY <1>19 DEF Before
  <2>2. CASE k = 1
    BY <1>3, <2>1, <2>2
  <2>3. CASE k # 1
    <3>1. k - 1 \in 1..n /\ todo'[k - 1] = todo[k]
      BY <1>3, <2>3
    <3>2. k - 1 < j
      BY <1>3, <2>1, <3>1
    <3> QED BY <2>1, <3>1, <3>2 DEF Before, n
  <2> QED BY <2>2, <2>3
<1>20. ListedFirst'
  <2> SUFFICES ASSUME NEW j \in 1..n, NEW s \in Segs, todo'[j].op = "put", todo'[j].key = s,
                      In(rec.kept, s)
               PROVE  Before(todo', j, DayOf(s)) \/ Mentions(listing'[DayOf(s)], s)
    BY <1>1 DEF ListedFirst, Before, n
  <2>1. j + 1 \in 1..Len(todo) /\ todo[j + 1].op = "put" /\ todo[j + 1].key = s
    BY <1>3
  <2>2. Before(todo, j + 1, DayOf(s)) \/ Mentions(listing[DayOf(s)], s)
    BY <1>4, <2>1 DEF ListedFirst
  <2>3. DayOf(s) \in Days
    BY SegFacts
  <2>4. CASE Touches(e, DayOf(s))
    BY <1>16, <2>3, <2>4
  <2>5. CASE ~Touches(e, DayOf(s))
    BY <1>8, <1>19, <2>2, <2>3, <2>5
  <2> QED BY <2>4, <2>5
<1>21. CurrentFirst'
  <2> SUFFICES ASSUME NEW j \in 1..n, NEW d \in Days, todo'[j].op = "put", todo'[j].key = IndexKey(d)
               PROVE  Before(todo', j, d) \/ UpToDate(d)'
    BY DEF CurrentFirst, Before, n
  <2>1. j + 1 \in 1..Len(todo) /\ todo[j + 1].op = "put" /\ todo[j + 1].key = IndexKey(d)
    BY <1>3
  <2>2. Before(todo, j + 1, d) \/ UpToDate(d)
    BY <1>4, <2>1 DEF CurrentFirst
  <2> QED BY <1>18, <1>19, <2>2
<1>22. PlaylistIsCurrent'
  <2> SUFFICES ASSUME NEW d \in Days, rec.pl.day = d PROVE TouchedLater(d)' \/ UpToDate(d)'
    BY <1>1 DEF PlaylistIsCurrent
  <2>1. TouchedLater(d) \/ UpToDate(d)
    BY <1>4 DEF PlaylistIsCurrent
  <2>2. TouchedLater(d) => Touches(e, d) \/ TouchedLater(d)'
    BY <1>3 DEF TouchedLater, n
  <2> QED BY <1>18, <2>1, <2>2
<1>23. AnnouncedAreCurrent'
  <2> SUFFICES ASSUME NEW d \in Days, Announced(d)' PROVE UpToDate(d)'
    BY DEF AnnouncedAreCurrent
  <2>1. IndexKey(d) \in Keys
    BY SegFacts
  <2>2. Announced(d) \/ (e.op = "put" /\ e.key = IndexKey(d))
    BY <1>7, <1>9, <2>1 DEF Announced
  <2>3. ASSUME e.op = "put", e.key = IndexKey(d) PROVE UpToDate(d)
    <3>1. ~Before(todo, 1, d)
      BY <1>3 DEF Before
    <3> QED BY <1>3, <1>4, <2>3, <3>1 DEF CurrentFirst
  <2> QED BY <1>4, <1>18, <2>2, <2>3 DEF AnnouncedAreCurrent
<1>24. SentIsCurrent'
  BY <1>1, <1>4, <1>9 DEF SentIsCurrent
<1>25. Complete(todo', rec'.kept)
  BY <1>1, <1>3, <1>4 DEF Complete, n
<1> QED BY <1>1, <1>4, <1>5, <1>14, <1>15, <1>20, <1>21, <1>22, <1>23, <1>24, <1>25 DEF RetainInv

(* No request is added: it goes from the queue to the worker's hand, from  *)
(* there to the server.                                                    *)
LEMMA RetainFewer ==
  ASSUME RetainInv, UNCHANGED <<listing, rec, todo, process, segCount>>,
         process = "down" => UNCHANGED <<queue, job>>,
         \A s \in Segs : Requested(s)' => Requested(s),
         \A s \in Segs : Queued(s, TRUE)' \/ InHand(s, TRUE)' => Queued(s, TRUE) \/ InHand(s, TRUE),
         \A d \in Days : Announced(d)' => Announced(d),
         SentIsCurrent'
  PROVE  RetainInv'
<1>1. /\ Complete(todo, rec.kept) /\ RequestsAreOld /\ DroppedAreGone
      /\ ListedFirst /\ CurrentFirst /\ PlaylistIsCurrent /\ AnnouncedAreCurrent
      /\ (rec.pl.day # NoDay => rec.pl.list = OfDay(rec.kept, rec.pl.day))
      /\ (process = "down" => queue = <<>> /\ job = None)
  BY DEF RetainInv
<1>2. \A s \in Segs : Dropped(s)' => Dropped(s)
  BY DEF Dropped, Dels
<1>3. \A d \in Days : UpToDate(d) => UpToDate(d)'
  BY DEF UpToDate
<1>4. RequestsAreOld'
  BY <1>1, <1>2 DEF RequestsAreOld, Puts
<1>5. DroppedAreGone'
  BY <1>1, <1>2 DEF DroppedAreGone
<1>6. ListedFirst'
  BY <1>1 DEF ListedFirst, Before
<1>7. CurrentFirst'
  <2> SUFFICES ASSUME NEW j \in 1..Len(todo), NEW d \in Days, todo[j].op = "put",
                      todo[j].key = IndexKey(d)
               PROVE  Before(todo, j, d) \/ UpToDate(d)'
    BY DEF CurrentFirst, Before
  <2> QED BY <1>1, <1>3 DEF CurrentFirst
<1>8. PlaylistIsCurrent'
  <2> SUFFICES ASSUME NEW d \in Days, rec.pl.day = d PROVE TouchedLater(d)' \/ UpToDate(d)'
    BY DEF PlaylistIsCurrent
  <2> QED BY <1>1, <1>3 DEF PlaylistIsCurrent, TouchedLater
<1>9. AnnouncedAreCurrent'
  BY <1>1, <1>3 DEF AnnouncedAreCurrent
<1> QED BY <1>1, <1>4, <1>5, <1>6, <1>7, <1>8, <1>9 DEF RetainInv

(* What the server carries out is no more than what was requested. *)
LEMMA CommitStored ==
  ASSUME NEW req, Commit(req)
  PROVE  \A s : s \in cloud' => s \in cloud \/ (s = req.key /\ ~req.remove)
BY DEF Commit

LEMMA FailedJob ==
  ASSUME NEW undone, job \in Request, Failed(undone)
  PROVE  job' # None => /\ job'.key = job.key /\ job'.remove = job.remove /\ job'.sent = FALSE
<1>1. CASE job.tries + 1 < Retries
  <2> DEFINE t == job.tries + 1
  <2>1. t \in Nat
    BY DEF Request
  <2>2. job' = [job EXCEPT !.sent = FALSE, !.body = None, !.tries = t]
    BY <1>1 DEF Failed
  <2> HIDE DEF t
  <2> QED BY <2>1, <2>2 DEF Request
<1>2. CASE ~(job.tries + 1 < Retries)
  BY <1>2 DEF Failed
<1> QED BY <1>1, <1>2

LEMMA RetainTake == StoreInv /\ TypesInv /\ RetainInv /\ Take => RetainInv'
<1> SUFFICES ASSUME StoreInv, TypesInv, RetainInv, Take PROVE RetainInv'
  OBVIOUS
<1>1. /\ process # "down" /\ job = None /\ queue # <<>> /\ queue' = Tail(queue)
      /\ job' = [key |-> Head(queue).key, remove |-> Head(queue).remove, sent |-> FALSE,
                 body |-> None, tries |-> 0]
      /\ UNCHANGED <<listing, rec, todo, process, segCount, cloud, late>>
  BY DEF Take
<1>2. queue \in Seq([key : Keys, remove : BOOLEAN])
  BY DEF TypesInv
<1>3. /\ 1 \in 1..Len(queue) /\ queue[1] = Head(queue)
      /\ \A i \in 1..Len(queue') : i + 1 \in 1..Len(queue) /\ queue'[i] = queue[i + 1]
  BY <1>1, <1>2
<1>4. job'.key = queue[1].key /\ job'.remove = queue[1].remove /\ job'.sent = FALSE
  BY <1>1, <1>3
<1>5. \A k, del : Queued(k, del)' => Queued(k, del)
  BY <1>3 DEF Queued
<1>6. \A k, del : InHand(k, del)' => Queued(k, del)
  BY <1>3, <1>4 DEF Queued, InHand
<1>7. \A s : Stored(s)' <=> Stored(s)
  BY <1>1 DEF Stored
<1>8. \A s \in Segs : Requested(s)' => Requested(s)
  BY <1>5, <1>6, <1>7 DEF Requested
<1>9. \A d \in Days : Announced(d)' => Announced(d)
  BY <1>5, <1>6 DEF Announced
<1>10. SentIsCurrent'
  BY <1>4 DEF SentIsCurrent
<1> QED BY <1>1, <1>5, <1>6, <1>8, <1>9, <1>10, RetainFewer

(* The index that is read is up to date. *)
LEMMA RetainSend == StoreInv /\ TypesInv /\ RetainInv /\ Send => RetainInv'
<1> SUFFICES ASSUME StoreInv, TypesInv, RetainInv, Send PROVE RetainInv'
  OBVIOUS
<1>1. /\ job # None /\ job \in Request
      /\ UNCHANGED <<listing, rec, todo, process, segCount, queue, cloud, late>>
  BY DEF TypesInv, Send
<1>2. process # "down" /\ AnnouncedAreCurrent
  BY <1>1 DEF RetainInv
<1>3. /\ job' # None => job'.key = job.key /\ job'.remove = job.remove
      /\ job' # None /\ job'.sent /\ ~job'.remove /\ Kind(job'.key) = "index" =>
            job'.body = listing[DayOf(job.key)]
  <2>1. CASE job.remove \/ job.key \in disk
    <3> DEFINE body == IF ~job.remove /\ Kind(job.key) = "index"
                       THEN listing[DayOf(job.key)] ELSE None
    <3>1. job' = [job EXCEPT !.sent = TRUE, !.body = body]
      BY <2>1 DEF Send
    <3>2. ~job.remove /\ Kind(job.key) = "index" => body = listing[DayOf(job.key)]
      OBVIOUS
    <3> HIDE DEF body
    <3>3. job'.key = job.key /\ job'.remove = job.remove /\ job'.body = body
      BY <1>1, <3>1 DEF Request
    <3> QED BY <3>2, <3>3
  <2>2. CASE ~(job.remove \/ job.key \in disk)
    <3>1. Failed({})
      BY <2>2 DEF Send
    <3> QED BY <1>1, <3>1, FailedJob
  <2> QED BY <2>1, <2>2
<1>4. \A k, del : Queued(k, del)' <=> Queued(k, del)
  BY <1>1 DEF Queued
<1>5. \A k, del : InHand(k, del)' => InHand(k, del)
  BY <1>1, <1>3 DEF InHand
<1>6. \A s : Stored(s)' <=> Stored(s)
  BY <1>1 DEF Stored
<1>7. \A s \in Segs : Requested(s)' => Requested(s)
  BY <1>4, <1>5, <1>6 DEF Requested
<1>8. \A d \in Days : Announced(d)' => Announced(d)
  BY <1>4, <1>5 DEF Announced
<1>9. SentIsCurrent'
  <2> SUFFICES ASSUME job' # None, job'.sent, ~job'.remove, Kind(job'.key) = "index",
                      NEW s \in Segs, In(rec.kept, s), DayOf(s) = DayOf(job'.key), Stored(s)
               PROVE  Mentions(job'.body, s)
    BY <1>1, <1>6 DEF SentIsCurrent
  <2> DEFINE d == DayOf(job.key)
  <2>1. job.key \in Keys /\ Kind(job.key) = "index" /\ job'.body = listing[d] /\ ~job.remove
        /\ DayOf(s) = d
    BY <1>1, <1>3 DEF Request
  <2>2. d \in Days /\ job.key = IndexKey(d)
    BY <2>1, IndexKeys
  <2> HIDE DEF d
  <2>3. job.remove = FALSE
    BY <1>1, <2>1 DEF Request
  <2>4. InHand(IndexKey(d), FALSE)
    BY <1>1, <2>2, <2>3 DEF InHand
  <2>5. UpToDate(d)
    BY <1>2, <2>2, <2>4 DEF AnnouncedAreCurrent, Announced
  <2>6. Requested(s)
    BY DEF Requested
  <2> QED BY <2>1, <2>5, <2>6 DEF UpToDate
<1> QED BY <1>1, <1>2, <1>4, <1>5, <1>7, <1>8, <1>9, RetainFewer

(* The job is answered, or not. *)
LEMMA RetainAnswer == StoreInv /\ TypesInv /\ RetainInv /\ (Answered \/ Unanswered) => RetainInv'
<1> SUFFICES ASSUME StoreInv, TypesInv, RetainInv, Answered \/ Unanswered PROVE RetainInv'
  OBVIOUS
<1>1. /\ job # None /\ job.sent /\ job \in Request
      /\ UNCHANGED <<listing, rec, todo, process, segCount, queue>>
  BY DEF TypesInv, Answered, Unanswered
<1>2. process # "down"
  BY <1>1 DEF RetainInv
<1>3. /\ job' # None => job'.key = job.key /\ job'.remove = job.remove /\ job'.sent = FALSE
      /\ (Commit(job) /\ late' = late) \/ (cloud' = cloud /\ late' \in {late, late \cup {job}})
  <2>1. CASE Answered
    BY <2>1 DEF Answered
  <2>2. CASE Unanswered
    BY <1>1, <2>2, FailedJob DEF Unanswered
  <2> QED BY <2>1, <2>2
<1>4. \A k, del : Queued(k, del)' <=> Queued(k, del)
  BY <1>1 DEF Queued
<1>5. \A k, del : InHand(k, del)' => InHand(k, del)
  BY <1>1, <1>3 DEF InHand
<1>6. \A s : Stored(s)' => Stored(s) \/ InHand(s, FALSE)
  <2> SUFFICES ASSUME NEW s, Stored(s)', ~Stored(s) PROVE s = job.key /\ ~job.remove
    BY <1>1 DEF InHand, Request
  <2>1. CASE Commit(job) /\ late' = late
    BY <2>1, CommitStored DEF Stored
  <2>2. CASE cloud' = cloud /\ late' \in {late, late \cup {job}}
    BY <2>2 DEF Stored
  <2> QED BY <1>3, <2>1, <2>2
<1>7. \A s \in Segs : Requested(s)' => Requested(s)
  BY <1>4, <1>5, <1>6 DEF Requested
<1>8. \A d \in Days : Announced(d)' => Announced(d)
  BY <1>4, <1>5 DEF Announced
<1>9. SentIsCurrent'
  BY <1>3 DEF SentIsCurrent
<1> QED BY <1>1, <1>2, <1>4, <1>5, <1>7, <1>8, <1>9, RetainFewer

LEMMA RetainLate == StoreInv /\ TypesInv /\ RetainInv /\ CommitLate => RetainInv'
<1> SUFFICES ASSUME StoreInv, TypesInv, RetainInv, CommitLate PROVE RetainInv'
  OBVIOUS
<1>1. UNCHANGED <<listing, rec, todo, process, segCount, queue, job>>
  BY DEF CommitLate
<1>2. PICK req \in late : late' = late \ {req} /\ Commit(req)
  BY DEF CommitLate
<1>3. \A k, del : /\ Queued(k, del)' <=> Queued(k, del)
                  /\ InHand(k, del)' <=> InHand(k, del)
  BY <1>1 DEF Queued, InHand
<1>4. \A s : Stored(s)' => Stored(s)
  BY <1>2, CommitStored DEF Stored
<1>5. \A s \in Segs : Requested(s)' => Requested(s)
  BY <1>3, <1>4 DEF Requested
<1>6. \A d \in Days : Announced(d)' => Announced(d)
  BY <1>3 DEF Announced
<1>7. SentIsCurrent'
  BY <1>1, <1>4 DEF SentIsCurrent, RetainInv
<1> QED BY <1>1, <1>3, <1>5, <1>6, <1>7, RetainFewer

LEMMA RetainStep == StoreInv /\ TypesInv /\ RetainInv /\ [Next]_storeVars => RetainInv'
<1> SUFFICES ASSUME StoreInv, TypesInv, RetainInv, [Next]_storeVars PROVE RetainInv'
  OBVIOUS
<1>1. CASE Start
  BY <1>1, RetainStart
<1>2. CASE KeyFrame
  BY <1>2, RetainKeyFrame
<1>3. CASE Stop
  BY <1>3, RetainStop
<1>4. CASE Stopped
  <2>1. /\ rec' = NewRecorder /\ todo' = <<>> /\ queue' = <<>> /\ job' = None
        /\ UNCHANGED <<cloud, late, segCount>>
    BY <1>4 DEF Stopped
  <2> QED BY <2>1, RetainDown
<1>5. CASE WriterStep
  BY <1>5, RetainWriter
<1>6. CASE Take
  BY <1>6, RetainTake
<1>7. CASE Send
  BY <1>7, RetainSend
<1>8. CASE Answered \/ Unanswered
  BY <1>8, RetainAnswer
<1>9. CASE CommitLate
  BY <1>9, RetainLate
<1>10. CASE Crash
  <2>1. /\ rec' = NewRecorder /\ todo' = <<>> /\ queue' = <<>> /\ job' = None
        /\ UNCHANGED <<cloud, late, segCount>>
    BY <1>10 DEF Crash
  <2> QED BY <2>1, RetainDown
<1>11. CASE UNCHANGED storeVars
  <2>1. UNCHANGED <<listing, rec, todo, process, segCount, queue, job, cloud, late>>
    BY <1>11 DEF storeVars
  <2>2. \A k, del : /\ Queued(k, del)' <=> Queued(k, del)
                    /\ InHand(k, del)' <=> InHand(k, del)
    BY <2>1 DEF Queued, InHand
  <2>3. \A s : Stored(s)' <=> Stored(s)
    BY <2>1 DEF Stored
  <2>4. /\ \A s \in Segs : Requested(s)' => Requested(s)
        /\ \A d \in Days : Announced(d)' => Announced(d)
    BY <2>2, <2>3 DEF Requested, Announced
  <2>5. SentIsCurrent'
    BY <2>1, <2>3 DEF SentIsCurrent, RetainInv
  <2> QED BY <2>1, <2>2, <2>4, <2>5, RetainFewer
<1> QED BY <1>1, <1>2, <1>3, <1>4, <1>5, <1>6, <1>7, <1>8, <1>9, <1>10, <1>11 DEF Next, UploaderStep

(* A kept segment leaves the cloud only by an index that was being rebuilt *)
(* when it was read, or by an old request carried out late: no order of    *)
(* uploads, drops, indexes, crashes and retries takes it                   *)
(* (hls_playlist.cpp:8-33, record_http.js:30-59).                          *)
THEOREM RetainedIsMirrored == Spec => RetainedLeavesCloudOnlyByTornIndex
<1>1. Init => StoreInv /\ TypesInv /\ RetainInv
  BY StoreInit, TypesInit, RetainInit
<1>2. (StoreInv /\ TypesInv /\ RetainInv) /\ [Next]_storeVars => (StoreInv /\ TypesInv /\ RetainInv)'
  BY StoreStep, TypesStep, RetainStep
<1>3. StoreInv /\ TypesInv /\ RetainInv /\ [Next]_storeVars =>
        [\A i \in DOMAIN rec.kept :
            rec.kept[i].seg \in cloud \ cloud' =>
                \/ late' # late
                \/ job # None /\ job.sent /\ job.body # None /\ ~job.body.whole]_storeVars
  <2> SUFFICES ASSUME StoreInv, TypesInv, RetainInv, Next, NEW i \in DOMAIN rec.kept,
                      rec.kept[i].seg \in cloud \ cloud', late' = late
               PROVE  job # None /\ job.sent /\ job.body # None /\ ~job.body.whole
    OBVIOUS
  <2> DEFINE s == rec.kept[i].seg
  <2>1. s \in Segs /\ In(rec.kept, s)
    <3>1. rec.kept \in Seq(Item)
      BY RecorderFacts DEF StoreInv
    <3>2. i \in 1..Len(rec.kept)
      BY <3>1
    <3> QED BY <3>1, <3>2, ItemFacts DEF In
  <2>2. s \in cloud /\ s \notin cloud'
    OBVIOUS
  <2> HIDE DEF s
  <2>3. ~CommitLate
    <3>1. CommitLate => \E req \in late : late' = late \ {req}
      BY DEF CommitLate
    <3> QED BY <3>1
  <2>4. job # None /\ job.sent /\ Commit(job)
    <3>1. cloud' # cloud
      BY <2>2
    <3> QED BY <2>3, <3>1 DEF Next, UploaderStep, Start, KeyFrame, Stop, Stopped, WriterStep, Take,
                              Send, Answered, Unanswered, Crash
  <2>5. job \in Request /\ Carries(job)
    BY <2>4 DEF TypesInv
  <2>6. ~(job.remove /\ job.key = s)
    <3>1. ~Dropped(s)
      BY <2>1 DEF RetainInv, DroppedAreGone
    <3>2. ~InHand(s, TRUE)
      BY <3>1 DEF Dropped
    <3> QED BY <2>4, <2>5, <3>2 DEF InHand, Request
  <2>7. s \in Pruned(job)
    BY <2>2, <2>4, <2>6 DEF Commit
  <2>8. /\ ~job.remove /\ Kind(job.key) = "index" /\ DayOf(s) = DayOf(job.key)
        /\ s \notin Range(job.body.list)
    BY <2>7 DEF Pruned
  <2>9. job.body # None /\ job.body.list \in Seq(Segs)
    BY <2>5, <2>8, ListingFacts DEF Carries, Request
  <2>10. ~Among(job.body.list, s)
    BY <2>8, <2>9 DEF Among, Range
  <2>11. Mentions(job.body, s)
    <3>1. Stored(s)
      BY <2>2 DEF Stored
    <3> QED BY <2>1, <2>4, <2>8, <3>1 DEF RetainInv, SentIsCurrent
  <2> QED BY <2>4, <2>9, <2>10, <2>11 DEF Mentions
<1> QED BY <1>1, <1>2, <1>3, PTL DEF Spec, RetainedLeavesCloudOnlyByTornIndex

-----------------------------------------------------------------------------
(* What the cloud has in the end.  First, the effects of an operation      *)
(* again: a key is made, its change is asked for, its deletion is.         *)

Makes(e, k) == e.op \in {"create", "index"} /\ e.key = k
Remakes(ops, k) == \E i \in 1..Len(ops) : Makes(ops[i], k)
Settles(e, k) == e.op \in {"put", "unlink"} /\ e.key = k
Deletes(e, k) == e.op = "del" /\ e.key = k

(* The keys of day d's folder other than its segments. *)
Folder(d) == {InitKey(d), IndexKey(d)}

(* What is removed does not come back, and is asked to be deleted; only    *)
(* that, or what is gone, is.                                              *)
RemovedForGood(ops) ==
    \A i \in 1..Len(ops) : \A k \in Keys : Unlink(ops[i], k) =>
        /\ \E j \in 1..Len(ops) : i < j /\ Deletes(ops[j], k)
        /\ \A j \in 1..Len(ops) : i < j => ~Makes(ops[j], k)
RemovedFirst(ops, gone) ==
    \A i \in 1..Len(ops) : \A k \in Keys : Deletes(ops[i], k) =>
        k \in gone \/ \E j \in 1..Len(ops) : j < i /\ Unlink(ops[j], k)

(* Whatever is made is asked for afterwards, but for the keys owed. *)
AskedFor(ops, owed) ==
    \A i \in 1..Len(ops) : \A k \in Keys \ owed : Makes(ops[i], k) =>
        \E j \in 1..Len(ops) : i < j /\ Settles(ops[j], k)

Closed(ops, owed) == RemovedForGood(ops) /\ RemovedFirst(ops, {}) /\ AskedFor(ops, owed)

LEMMA ConcatMakes ==
  ASSUME NEW a \in Seq(Effects), NEW b \in Seq(Effects), NEW k
  PROVE  /\ Remakes(a \o b, k) <=> (Remakes(a, k) \/ Remakes(b, k))
         /\ Dels(a \o b, k) <=> (Dels(a, k) \/ Dels(b, k))
<1> DEFINE c == a \o b
<1>1. /\ \A i \in 1..Len(a) : i \in 1..Len(c) /\ c[i] = a[i]
      /\ \A i \in 1..Len(b) : Len(a) + i \in 1..Len(c) /\ c[Len(a) + i] = b[i]
  BY ConcatFacts
<1>2. \A i \in 1..Len(c) :
         \/ i \in 1..Len(a) /\ c[i] = a[i]
         \/ i > Len(a) /\ i - Len(a) \in 1..Len(b) /\ c[i] = b[i - Len(a)]
  BY ConcatSplit
<1> HIDE DEF c
<1>3. Remakes(c, k) => Remakes(a, k) \/ Remakes(b, k)
  BY <1>2 DEF Remakes
<1>4. Remakes(a, k) \/ Remakes(b, k) => Remakes(c, k)
  BY <1>1 DEF Remakes
<1>5. Dels(c, k) => Dels(a, k) \/ Dels(b, k)
  BY <1>2 DEF Dels
<1>6. Dels(a, k) \/ Dels(b, k) => Dels(c, k)
  BY <1>1 DEF Dels
<1> QED BY <1>3, <1>4, <1>5, <1>6 DEF c

(* One list after the other: the second settles what the first owes and it *)
(* does not, and makes nothing that the first removes.                     *)
LEMMA ClosedConcat ==
  ASSUME NEW a \in Seq(Effects), NEW b \in Seq(Effects), NEW X, NEW Y, Closed(a, X), Closed(b, Y),
         \A k \in (X \cap Keys) \ Y : \E j \in 1..Len(b) : Settles(b[j], k),
         \A k \in Keys : Unlinks(a, k) => ~Remakes(b, k)
  PROVE  Closed(a \o b, Y)
<1> DEFINE c == a \o b
           n == Len(a)
<1>1. /\ n \in Nat
      /\ \A i \in 1..n : i \in 1..Len(c) /\ c[i] = a[i]
      /\ \A i \in 1..Len(b) : n + i \in 1..Len(c) /\ c[n + i] = b[i]
  BY ConcatFacts
<1>2. \A i \in 1..Len(c) :
         \/ i \in 1..n /\ c[i] = a[i]
         \/ i > n /\ i - n \in 1..Len(b) /\ c[i] = b[i - n]
  BY ConcatSplit
<1>3. /\ RemovedForGood(a) /\ RemovedFirst(a, {}) /\ AskedFor(a, X)
      /\ RemovedForGood(b) /\ RemovedFirst(b, {}) /\ AskedFor(b, Y)
  BY DEF Closed
<1>4. Len(b) \in Nat
  BY ConcatFacts
<1> HIDE DEF c, n
<1>5. ASSUME NEW i \in 1..Len(c), NEW k \in Keys, Unlink(c[i], k)
      PROVE  /\ \E j \in 1..Len(c) : i < j /\ Deletes(c[j], k)
             /\ \A j \in 1..Len(c) : i < j => ~Makes(c[j], k)
  <2>1. CASE i \in 1..n /\ c[i] = a[i]
    <3>1. PICK j \in 1..n : i < j /\ Deletes(a[j], k)
      BY <1>3, <1>5, <2>1 DEF RemovedForGood, n
    <3>2. j \in 1..Len(c) /\ i < j /\ Deletes(c[j], k)
      BY <1>1, <3>1
    <3>3. ~Remakes(b, k)
      BY <1>5, <2>1 DEF Unlinks, n
    <3>4. ASSUME NEW m \in 1..Len(c), i < m PROVE ~Makes(c[m], k)
      <4>1. CASE m \in 1..n /\ c[m] = a[m]
        BY <1>3, <1>5, <2>1, <3>4, <4>1 DEF RemovedForGood, n
      <4>2. CASE m - n \in 1..Len(b) /\ c[m] = b[m - n]
        BY <3>3, <4>2 DEF Remakes
      <4> QED BY <1>2, <4>1, <4>2
    <3> QED BY <3>2, <3>4
  <2>2. CASE i > n /\ i - n \in 1..Len(b) /\ c[i] = b[i - n]
    <3>1. PICK j \in 1..Len(b) : i - n < j /\ Deletes(b[j], k)
      BY <1>3, <1>5, <2>2 DEF RemovedForGood
    <3>2. n + j \in 1..Len(c) /\ i < n + j /\ Deletes(c[n + j], k)
      BY <1>1, <2>2, <3>1
    <3>3. ASSUME NEW m \in 1..Len(c), i < m PROVE ~Makes(c[m], k)
      <4>1. m - n \in 1..Len(b) /\ c[m] = b[m - n] /\ i - n < m - n
        BY <1>1, <1>2, <2>2, <3>3
      <4> QED BY <1>3, <1>5, <2>2, <4>1 DEF RemovedForGood
    <3> QED BY <3>2, <3>3
  <2> QED BY <1>2, <2>1, <2>2
<1>6. ASSUME NEW i \in 1..Len(c), NEW k \in Keys, Deletes(c[i], k)
      PROVE  \E j \in 1..Len(c) : j < i /\ Unlink(c[j], k)
  <2>1. CASE i \in 1..n /\ c[i] = a[i]
    <3>1. PICK j \in 1..n : j < i /\ Unlink(a[j], k)
      BY <1>3, <1>6, <2>1 DEF RemovedFirst, n
    <3> QED BY <1>1, <3>1
  <2>2. CASE i > n /\ i - n \in 1..Len(b) /\ c[i] = b[i - n]
    <3>1. PICK j \in 1..Len(b) : j < i - n /\ Unlink(b[j], k)
      BY <1>3, <1>6, <2>2 DEF RemovedFirst
    <3>2. n + j \in 1..Len(c) /\ n + j < i /\ Unlink(c[n + j], k)
      BY <1>1, <2>2, <3>1
    <3> QED BY <3>2
  <2> QED BY <1>2, <2>1, <2>2
<1>7. ASSUME NEW i \in 1..Len(c), NEW k \in Keys \ Y, Makes(c[i], k)
      PROVE  \E j \in 1..Len(c) : i < j /\ Settles(c[j], k)
  <2>1. CASE i \in 1..n /\ c[i] = a[i] /\ k \in X
    <3>1. PICK j \in 1..Len(b) : Settles(b[j], k)
      BY <2>1
    <3>2. n + j \in 1..Len(c) /\ i < n + j /\ Settles(c[n + j], k)
      BY <1>1, <2>1, <3>1
    <3> QED BY <3>2
  <2>2. CASE i \in 1..n /\ c[i] = a[i] /\ k \notin X
    <3>1. PICK j \in 1..n : i < j /\ Settles(a[j], k)
      BY <1>3, <1>7, <2>2 DEF AskedFor, n
    <3> QED BY <1>1, <3>1
  <2>3. CASE i > n /\ i - n \in 1..Len(b) /\ c[i] = b[i - n]
    <3>1. PICK j \in 1..Len(b) : i - n < j /\ Settles(b[j], k)
      BY <1>3, <1>7, <2>3 DEF AskedFor
    <3>2. n + j \in 1..Len(c) /\ i < n + j /\ Settles(c[n + j], k)
      BY <1>1, <2>3, <3>1
    <3> QED BY <3>2
  <2> QED BY <1>2, <2>1, <2>2, <2>3
<1> QED BY <1>5, <1>6, <1>7 DEF Closed, RemovedForGood, RemovedFirst, AskedFor, c

(* A list that removes and deletes nothing, and makes nothing but X. *)
LEMMA MakingClosed ==
  ASSUME NEW b, NEW X,
         \A i \in 1..Len(b) : b[i].op \in {"create", "index", "put"},
         \A i \in 1..Len(b) : b[i].op \in {"create", "index"} => b[i].key \in X
  PROVE  Closed(b, X)
BY DEF Closed, RemovedForGood, RemovedFirst, AskedFor, Unlink, Deletes, Makes

LEMMA EmptyClosed == \A X : Closed(<<>>, X)
BY DEF Closed, RemovedForGood, RemovedFirst, AskedFor

LEMMA MoreOwed ==
  ASSUME NEW ops, NEW X, NEW Y, Closed(ops, X), X \subseteq Y
  PROVE  Closed(ops, Y)
BY DEF Closed, AskedFor

LEMMA FolderKeys ==
  /\ \A d \in Days : \A k \in Folder(d) : k \in Keys /\ k \notin Segs /\ DayOf(k) = d
  /\ \A k \in Keys : k \in Segs \/ \E d \in Days : k \in Folder(d)
<1>1. \A d : DayOf(InitKey(d)) = d /\ DayOf(IndexKey(d)) = d
  BY KeyFacts
<1> QED BY <1>1, SegFacts DEF Folder, Keys

-----------------------------------------------------------------------------
(* The recorder and the days.  A day is retired when it is past and the    *)
(* recorder has nothing to do with it any more.                            *)

Retired(r, t, d) ==
    /\ d < t /\ r.pl.day # d /\ r.curDay # d
    /\ \A i \in 1..Len(r.kept) : DayOf(r.kept[i].seg) # d

(* The kept segments are in the order of their days, none later than t. *)
InDayOrder(kept, t) ==
    \A i \in 1..Len(kept) :
        /\ DayOf(kept[i].seg) <= t
        /\ \A j \in 1..Len(kept) : i < j => DayOf(kept[i].seg) <= DayOf(kept[j].seg)

(* The recorder within an operation that begins on day t0 and ends on day  *)
(* t: what is still owed, the days retired before it, and the keys asked   *)
(* for by now.                                                             *)
Answers(r, t0, t, owed, past, asked) ==
    /\ r \in Recorder
    /\ Closed(r.ops, owed)
    /\ InDayOrder(r.kept, t0) /\ r.pl.day <= t /\ r.curDay <= t
    /\ \A d \in Days : (d \in past \/ \E k \in Folder(d) : Dels(r.ops, k)) => Retired(r, t0, d)
    /\ \A d \in past \cap Days : \A k \in Folder(d) : ~Remakes(r.ops, k)
    /\ \A k \in asked : \E j \in 1..Len(r.ops) : Settles(r.ops[j], k)

(* More effects, which make no file of a retired day and none that has     *)
(* been removed, and delete only the files of retired days.                *)
LEMMA AnswersAdd ==
  ASSUME NEW r, NEW t0, NEW t, NEW X, NEW past, NEW asked, Answers(r, t0, t, X, past, asked),
         NEW x \in Recorder, NEW b \in Seq(Effects), NEW Y, x.ops = r.ops \o b,
         InDayOrder(x.kept, t0), x.pl.day <= t, x.curDay <= t,
         \A d \in Days : Retired(r, t0, d) => Retired(x, t0, d),
         Closed(b, Y), \A k \in (X \cap Keys) \ Y : \E j \in 1..Len(b) : Settles(b[j], k),
         \A k \in Keys : Remakes(b, k) =>
            (k \in Segs /\ ~Unlinks(r.ops, k)) \/ \E d \in Days : k \in Folder(d) /\ ~Retired(r, t0, d),
         \A d \in Days : \A k \in Folder(d) : Dels(b, k) => Retired(x, t0, d)
  PROVE  /\ Answers(x, t0, t, Y, past, asked)
         /\ \A k : (\E j \in 1..Len(b) : Settles(b[j], k)) =>
                      \E j \in 1..Len(x.ops) : Settles(x.ops[j], k)
<1>1. /\ r \in Recorder /\ Closed(r.ops, X)
      /\ \A d \in Days : (d \in past \/ \E k \in Folder(d) : Dels(r.ops, k)) => Retired(r, t0, d)
      /\ \A d \in past \cap Days : \A k \in Folder(d) : ~Remakes(r.ops, k)
      /\ \A k \in asked : \E j \in 1..Len(r.ops) : Settles(r.ops[j], k)
  BY DEF Answers
<1>2. r.ops \in Seq(Effects)
  BY <1>1, RecorderFacts
<1>3. ASSUME NEW k \in Keys, Unlinks(r.ops, k) PROVE ~Remakes(b, k)
  <2>1. Dels(r.ops, k)
    BY <1>1, <1>3 DEF Closed, RemovedForGood, Unlinks, Dels, Deletes
  <2> QED BY <1>1, <1>3, <2>1
<1>4. Closed(x.ops, Y)
  BY <1>1, <1>2, <1>3, ClosedConcat
<1>5. \A k : /\ Remakes(x.ops, k) <=> (Remakes(r.ops, k) \/ Remakes(b, k))
             /\ Dels(x.ops, k) <=> (Dels(r.ops, k) \/ Dels(b, k))
  BY <1>2, ConcatMakes
<1>6. ASSUME NEW d \in Days, d \in past \/ \E k \in Folder(d) : Dels(x.ops, k)
      PROVE  Retired(x, t0, d)
  BY <1>1, <1>5, <1>6
<1>7. ASSUME NEW d \in past \cap Days, NEW k \in Folder(d) PROVE ~Remakes(x.ops, k)
  <2>1. k \in Keys /\ k \notin Segs /\ \A e \in Days : k \in Folder(e) => e = d
    BY <1>7, FolderKeys
  <2>2. Retired(r, t0, d) /\ ~Remakes(r.ops, k)
    BY <1>1, <1>7
  <2>3. ~Remakes(b, k)
    BY <2>1, <2>2
  <2> QED BY <1>5, <2>2, <2>3
<1>8. /\ \A j \in 1..Len(r.ops) : j \in 1..Len(x.ops) /\ x.ops[j] = r.ops[j]
      /\ \A j \in 1..Len(b) : Len(r.ops) + j \in 1..Len(x.ops) /\ x.ops[Len(r.ops) + j] = b[j]
  BY <1>2, ConcatFacts
<1>9. \A k \in asked : \E j \in 1..Len(x.ops) : Settles(x.ops[j], k)
  BY <1>1, <1>8
<1>10. \A k : (\E j \in 1..Len(b) : Settles(b[j], k)) =>
                 \E j \in 1..Len(x.ops) : Settles(x.ops[j], k)
  BY <1>8
<1> QED BY <1>4, <1>6, <1>7, <1>9, <1>10 DEF Answers

(* The same with nothing new but the recorder's members. *)
LEMMA AnswersWith ==
  ASSUME NEW r, NEW t0, NEW t, NEW X, NEW past, NEW asked, Answers(r, t0, t, X, past, asked),
         NEW x \in Recorder, x.ops = r.ops, InDayOrder(x.kept, t0), x.pl.day <= t, x.curDay <= t,
         \A d \in Days : Retired(r, t0, d) => Retired(x, t0, d)
  PROVE  Answers(x, t0, t, X, past, asked)
BY DEF Answers

LEMMA AnswersMore ==
  ASSUME NEW r, NEW t0, NEW t, NEW X, NEW Y, NEW past, NEW asked, Answers(r, t0, t, X, past, asked),
         X \subseteq Y
  PROVE  Answers(r, t0, t, Y, past, asked)
BY MoreOwed DEF Answers

LEMMA FolderCloses ==
  ASSUME NEW r \in Recorder, NEW d \in Days
  PROVE  LET b == FolderEffects(r, d) IN
         /\ b \in Seq(Effects) /\ Closed(b, {})
         /\ \A k : Remakes(b, k) => k = IndexKey(d) /\ KeptOf(r, d) # <<>>
         /\ \A k : Dels(b, k) => k \in Folder(d) /\ d # r.curDay /\ KeptOf(r, d) = <<>>
<1> DEFINE b == FolderEffects(r, d)
<1>1. InitKey(d) \in Keys /\ IndexKey(d) \in Keys /\ InitKey(d) # IndexKey(d)
  BY SegFacts
<1>2. r.kept \in Seq(Item)
  BY RecorderFacts
<1>3. b \in Seq(Effects)
  BY FolderFacts
<1>4. CASE d = r.curDay
  <2>1. b = <<>>
    BY <1>4 DEF FolderEffects
  <2> HIDE DEF b
  <2>2. Closed(b, {}) /\ \A k : ~Remakes(b, k) /\ ~Dels(b, k)
    BY <2>1, EmptyClosed DEF Remakes, Dels
  <2> QED BY <1>3, <2>2 DEF b
<1>5. CASE d # r.curDay /\ KeptOf(r, d) = <<>>
  <2> DEFINE e1 == Effect("unlink", InitKey(d))
             e2 == Effect("unlink", IndexKey(d))
             e3 == Effect("del", InitKey(d))
             e4 == Effect("del", IndexKey(d))
  <2>1. /\ e1.op = "unlink" /\ e2.op = "unlink" /\ e3.op = "del" /\ e4.op = "del"
        /\ e1.key = InitKey(d) /\ e2.key = IndexKey(d) /\ e3.key = InitKey(d) /\ e4.key = IndexKey(d)
    BY EffectFacts
  <2>2. b = <<e1, e2, e3, e4>>
    BY <1>5 DEF FolderEffects
  <2> HIDE DEF e1, e2, e3, e4, b
  <2>3. Len(b) = 4 /\ b[1] = e1 /\ b[2] = e2 /\ b[3] = e3 /\ b[4] = e4
    BY <2>2
  <2>4. \A i \in 1..Len(b) : i = 1 \/ i = 2 \/ i = 3 \/ i = 4
    BY <2>3
  <2>5. 1 \in 1..Len(b) /\ 2 \in 1..Len(b) /\ 3 \in 1..Len(b) /\ 4 \in 1..Len(b)
    BY <2>3
  <2>6. \A i \in 1..Len(b) : b[i].op \in {"unlink", "del"} /\ b[i].key \in Folder(d)
    BY <2>1, <2>3, <2>4 DEF Folder
  <2>7. RemovedForGood(b)
    <3> SUFFICES ASSUME NEW i \in 1..Len(b), NEW k \in Keys, Unlink(b[i], k)
                 PROVE  /\ \E j \in 1..Len(b) : i < j /\ Deletes(b[j], k)
                        /\ \A j \in 1..Len(b) : i < j => ~Makes(b[j], k)
      BY DEF RemovedForGood
    <3>1. (i = 1 /\ k = InitKey(d)) \/ (i = 2 /\ k = IndexKey(d))
      BY <2>1, <2>3, <2>4 DEF Unlink
    <3>2. Deletes(b[3], InitKey(d)) /\ Deletes(b[4], IndexKey(d))
      BY <2>1, <2>3 DEF Deletes
    <3>3. \E j \in 1..Len(b) : i < j /\ Deletes(b[j], k)
      BY <2>5, <3>1, <3>2
    <3> QED BY <2>6, <3>3 DEF Makes
  <2>8. RemovedFirst(b, {})
    <3> SUFFICES ASSUME NEW i \in 1..Len(b), NEW k \in Keys, Deletes(b[i], k)
                 PROVE  \E j \in 1..Len(b) : j < i /\ Unlink(b[j], k)
      BY DEF RemovedFirst
    <3>1. (i = 3 /\ k = InitKey(d)) \/ (i = 4 /\ k = IndexKey(d))
      BY <2>1, <2>3, <2>4 DEF Deletes
    <3>2. Unlink(b[1], InitKey(d)) /\ Unlink(b[2], IndexKey(d))
      BY <2>1, <2>3 DEF Unlink
    <3> QED BY <2>5, <3>1, <3>2
  <2>9. AskedFor(b, {}) /\ \A k : ~Remakes(b, k)
    BY <2>6 DEF AskedFor, Makes, Remakes
  <2>10. \A k : Dels(b, k) => k \in Folder(d)
    BY <2>6 DEF Dels
  <2> QED BY <1>3, <1>5, <2>7, <2>8, <2>9, <2>10 DEF Closed, b
<1>6. CASE d # r.curDay /\ KeptOf(r, d) # <<>>
  <2> DEFINE a == Rebuild(r, d)
             e1 == Rewrite(d, KeptOf(r, d), TRUE, TRUE)
             e2 == Effect("put", IndexKey(d))
             c == <<e1, e2>>
  <2>1. a \in Seq(Effects) /\ \A i \in 1..Len(a) : a[i].op = "index" /\ a[i].key = IndexKey(d)
    BY <1>2, RebuildFacts
  <2>2. KeptOf(r, d) \in Seq(Segs)
    BY <1>2, OfDayListed DEF KeptOf
  <2>3. e1 \in Effects /\ e1.op = "index" /\ e1.key = IndexKey(d)
    BY <2>2 DEF Rewrite, Effects, Listing
  <2>4. e2 \in Effects /\ e2.op = "put" /\ e2.key = IndexKey(d)
    BY <1>1, EffectFacts
  <2>5. b = a \o c
    BY <1>6 DEF FolderEffects
  <2> HIDE DEF a, e1, e2, b
  <2>6. c \in Seq(Effects) /\ Len(c) = 2 /\ c[1] = e1 /\ c[2] = e2
    BY <2>3, <2>4
  <2>7. 1 \in 1..Len(c) /\ 2 \in 1..Len(c) /\ \A i \in 1..Len(c) : i = 1 \/ i = 2
    BY <2>6
  <2> HIDE DEF c
  <2>8. Closed(a, {IndexKey(d)})
    BY <2>1, MakingClosed
  <2>9. Settles(c[2], IndexKey(d))
    BY <2>4, <2>6 DEF Settles
  <2>10. Closed(c, {})
    <3>1. \A i \in 1..Len(c) : c[i].op \in {"index", "put"} /\ c[i].key = IndexKey(d)
      BY <2>3, <2>4, <2>6, <2>7
    <3>2. RemovedForGood(c) /\ RemovedFirst(c, {})
      BY <3>1 DEF RemovedForGood, RemovedFirst, Unlink, Deletes
    <3>3. \A i \in 1..Len(c) : \A k : Makes(c[i], k) => i < 2 /\ k = IndexKey(d)
      BY <2>3, <2>4, <2>6, <2>7 DEF Makes
    <3>4. AskedFor(c, {})
      BY <2>7, <2>9, <3>3 DEF AskedFor
    <3> QED BY <3>2, <3>4 DEF Closed
  <2>11. \A k : ~Unlinks(a, k)
    BY <2>1 DEF Unlinks, Unlink
  <2>12. Closed(b, {})
    <3>1. \A k \in ({IndexKey(d)} \cap Keys) \ {} : \E j \in 1..Len(c) : Settles(c[j], k)
      BY <2>7, <2>9
    <3>2. \A k \in Keys : Unlinks(a, k) => ~Remakes(c, k)
      BY <2>11
    <3>3. Closed(a \o c, {})
      BY <2>1, <2>6, <2>8, <2>10, <3>1, <3>2, ClosedConcat
    <3> QED BY <2>5, <3>3
  <2>13. \A i \in 1..Len(b) : b[i].op \in {"index", "put"} /\ b[i].key = IndexKey(d)
    <3>1. \A i \in 1..Len(c) : c[i].op \in {"index", "put"} /\ c[i].key = IndexKey(d)
      BY <2>3, <2>4, <2>6, <2>7
    <3>2. \A i \in 1..Len(a \o c) :
             (a \o c)[i].op \in {"index", "put"} /\ (a \o c)[i].key = IndexKey(d)
      <4> SUFFICES ASSUME NEW i \in 1..Len(a \o c)
                   PROVE  (a \o c)[i].op \in {"index", "put"} /\ (a \o c)[i].key = IndexKey(d)
        OBVIOUS
      <4>1. \/ i \in 1..Len(a) /\ (a \o c)[i] = a[i]
            \/ i - Len(a) \in 1..Len(c) /\ (a \o c)[i] = c[i - Len(a)]
        BY <2>1, <2>6, ConcatSplit
      <4> QED BY <2>1, <3>1, <4>1
    <3> QED BY <2>5, <3>2
  <2>14. \A k : (Remakes(b, k) => k = IndexKey(d)) /\ ~Dels(b, k)
    BY <2>13 DEF Remakes, Makes, Dels
  <2> QED BY <1>3, <1>6, <2>12, <2>14 DEF b
<1> QED BY <1>4, <1>5, <1>6

(* The oldest segment goes, another staying: its day is then retired, or   *)
(* has a segment left, or is the session's.                                *)
Prunes(r, t0, t, owed, past, asked) ==
    /\ Answers(r, t0, t, owed, past, asked)
    /\ r.pl.day = NoDay => r.pl.list = <<>>
    /\ r.pl.day \in {NoDay, r.curDay}
    /\ r.pl.day # NoDay => IndexKey(r.pl.day) \in owed

LEMMA DropPrunes ==
  ASSUME NEW r, NEW t0 \in Nat, NEW t, NEW X, NEW past, NEW asked, Prunes(r, t0, t, X, past, asked),
         Len(r.kept) > 1
  PROVE  /\ Prunes(DropOldest(r), t0, t, X, past, asked) /\ DropOldest(r).kept = Tail(r.kept)
         /\ DropOldest(r).pl.day = r.pl.day /\ DropOldest(r).curDay = r.curDay
         /\ DropOldest(r).session = r.session /\ DropOldest(r).open = r.open
<1> DEFINE q == r.kept
           k2 == Tail(q)
           s == Head(q).seg
           day == DayOf(s)
           r1 == [r EXCEPT !.kept = k2]
           r2 == DropListed(r1, s)
           u == <<Effect("unlink", s), Effect("del", s)>>
           r3 == Do(r2, u)
           v == FolderEffects(r3, day)
           r4 == Do(r3, v)
           b == DropEffects(r.pl, s)
<1>1. /\ Answers(r, t0, t, X, past, asked) /\ r \in Recorder
      /\ (r.pl.day = NoDay => r.pl.list = <<>>) /\ r.pl.day \in {NoDay, r.curDay}
      /\ (r.pl.day # NoDay => IndexKey(r.pl.day) \in X)
      /\ InDayOrder(q, t0) /\ r.pl.day <= t /\ r.curDay <= t
  BY DEF Prunes, Answers
<1>2. q \in Seq(Item) /\ r.ops \in Seq(Effects) /\ r.pl.day \in Days \cup {NoDay}
  BY <1>1, RecorderFacts
<1>3. /\ k2 \in Seq(Item) /\ Len(q) \in Nat /\ Len(q) > 1 /\ Len(k2) = Len(q) - 1 /\ q[1] = Head(q)
      /\ \A i \in 1..Len(k2) : i + 1 \in 1..Len(q) /\ k2[i] = q[i + 1]
  BY <1>2
<1>4. s \in Segs /\ day \in Days /\ q[1].seg = s
  <2>1. 1 \in 1..Len(q)
    BY <1>3
  <2> QED BY <1>2, <1>3, <2>1, ItemFacts, SegFacts
<1>5. s \in Keys
  BY <1>4, SegFacts
<1>6. DropOldest(r) = r4
  BY DEF DropOldest
<1>7. InDayOrder(k2, t0)
  <2>1. \A i, j \in 1..Len(k2) : i < j => i + 1 < j + 1
    BY <1>3
  <2> QED BY <1>1, <1>3, <2>1 DEF InDayOrder
<1> HIDE DEF q, k2, s, day, r1, r2, u, r3, v, r4, b
<1>8. /\ r1 \in Recorder /\ r1.kept = k2 /\ r1.pl = r.pl /\ r1.ops = r.ops /\ r1.curDay = r.curDay
      /\ r1.session = r.session /\ r1.open = r.open
  BY <1>1, <1>3 DEF r1, Recorder
<1>9. /\ r2 \in Recorder /\ b \in Seq(Effects) /\ r2.ops = r.ops \o b
      /\ r2.kept = k2 /\ r2.pl.day = r.pl.day /\ r2.curDay = r.curDay
      /\ r2.session = r.session /\ r2.open = r.open
      /\ (r2.pl.day = NoDay => r2.pl.list = <<>>)
  <2>1. r1.pl.day = NoDay => r1.pl.list = <<>>
    BY <1>1, <1>8
  <2>2. r1 \in Recorder /\ r2 = DropListed(r1, s)
    BY <1>8 DEF r2
  <2>3. Drops(r1, s, r2, DropEffects(r1.pl, s))
    BY <2>1, <2>2, DropListedFacts
  <2> QED BY <1>8, <2>3 DEF Drops, b
<1>10. \A i \in 1..Len(b) : b[i].op = "index" /\ b[i].key = IndexKey(r.pl.day) /\ r.pl.day \in Days
  <2>1. CASE ~IsListedFirst(r.pl, s)
    BY <2>1 DEF DropEffects, b
  <2>2. CASE IsListedFirst(r.pl, s)
    <3> DEFINE e == Rewrite(r.pl.day, Tail(r.pl.list), r.pl.ended, TRUE)
    <3>1. b = <<e>>
      BY <2>2 DEF DropEffects, b
    <3>2. e.op = "index" /\ e.key = IndexKey(r.pl.day)
      BY DEF Rewrite
    <3>3. r.pl.day \in Days
      BY <1>1, <1>2, <2>2 DEF IsListedFirst
    <3> HIDE DEF e
    <3>4. Len(b) = 1 /\ b[1] = e
      BY <3>1
    <3>5. \A i \in 1..Len(b) : i = 1
      BY <3>4
    <3> QED BY <3>2, <3>3, <3>4, <3>5
  <2> QED BY <2>1, <2>2
(* From here on, only the recorder's days matter. *)
<1>11. \A z : /\ \A d \in Days : Retired(r, t0, d) => d # day
              /\ z.kept = k2 /\ z.pl.day = r.pl.day /\ z.curDay = r.curDay =>
                    \A d \in Days : /\ Retired(r, t0, d) => Retired(z, t0, d)
                                    /\ Retired(r2, t0, d) => Retired(z, t0, d)
  <2>1. \A d : Retired(r, t0, d) => d # day
    <3>1. 1 \in 1..Len(r.kept) /\ DayOf(r.kept[1].seg) = day
      BY <1>3, <1>4 DEF q, day
    <3> QED BY <3>1 DEF Retired
  <2>2. \A z, d : z.kept = k2 /\ z.pl.day = r.pl.day /\ z.curDay = r.curDay /\ Retired(r, t0, d)
                    => Retired(z, t0, d)
    BY <1>3 DEF Retired, q
  <2>3. \A z, d : z.kept = k2 /\ z.pl.day = r.pl.day /\ z.curDay = r.curDay /\ Retired(r2, t0, d)
                    => Retired(z, t0, d)
    BY <1>9 DEF Retired
  <2> QED BY <2>1, <2>2, <2>3
<1>12. Answers(r2, t0, t, X, past, asked)
  <2>1. Closed(b, X)
    <3>1. \A i \in 1..Len(b) : b[i].op \in {"create", "index", "put"}
      BY <1>10
    <3>2. \A i \in 1..Len(b) : b[i].key \in X
      BY <1>1, <1>10, StoreAssumption DEF Days, NoDay
    <3> QED BY <3>1, <3>2, MakingClosed
  <2>2. \A k \in Keys : Remakes(b, k) => \E d \in Days : k \in Folder(d) /\ ~Retired(r, t0, d)
    BY <1>10 DEF Remakes, Makes, Folder, Retired
  <2>3. \A k : ~Dels(b, k)
    BY <1>10 DEF Dels
  <2>4. \A d \in Days : Retired(r, t0, d) => Retired(r2, t0, d)
    BY <1>9, <1>11
  <2> QED BY <1>1, <1>7, <1>9, <2>1, <2>2, <2>3, <2>4, AnswersAdd
<1>13. /\ u \in Seq(Effects) /\ Closed(u, X)
       /\ \A k : ~Remakes(u, k) /\ (Dels(u, k) => k = s)
  <2> DEFINE e1 == Effect("unlink", s)
             e2 == Effect("del", s)
  <2>1. e1 \in Effects /\ e2 \in Effects /\ e1.op = "unlink" /\ e2.op = "del" /\ e1.key = s /\ e2.key = s
    BY <1>5, EffectFacts
  <2>2. u = <<e1, e2>>
    BY DEF u
  <2> HIDE DEF e1, e2
  <2>3. u \in Seq(Effects) /\ Len(u) = 2 /\ u[1] = e1 /\ u[2] = e2
    BY <2>1, <2>2
  <2>4. \A i \in 1..Len(u) : i = 1 \/ i = 2
    BY <2>3
  <2>5. 1 \in 1..Len(u) /\ 2 \in 1..Len(u)
    BY <2>3
  <2>6. Unlink(u[1], s) /\ Deletes(u[2], s)
    BY <2>1, <2>3 DEF Unlink, Deletes
  <2>7. \A i \in 1..Len(u) : \A k : /\ Unlink(u[i], k) => i = 1 /\ k = s
                                    /\ Deletes(u[i], k) => i = 2 /\ k = s
                                    /\ ~Makes(u[i], k)
    BY <2>1, <2>3, <2>4 DEF Unlink, Deletes, Makes
  <2>8. RemovedForGood(u) /\ RemovedFirst(u, {}) /\ AskedFor(u, X)
    <3>1. RemovedForGood(u)
      <4> SUFFICES ASSUME NEW i \in 1..Len(u), NEW k \in Keys, Unlink(u[i], k)
                   PROVE  /\ \E j \in 1..Len(u) : i < j /\ Deletes(u[j], k)
                          /\ \A j \in 1..Len(u) : i < j => ~Makes(u[j], k)
        BY DEF RemovedForGood
      <4>1. i = 1 /\ k = s
        BY <2>7
      <4>2. 1 < 2 /\ \A j \in 1..Len(u) : ~Makes(u[j], k)
        BY <2>7
      <4> QED BY <2>5, <2>6, <4>1, <4>2
    <3>2. RemovedFirst(u, {})
      <4> SUFFICES ASSUME NEW i \in 1..Len(u), NEW k \in Keys, Deletes(u[i], k)
                   PROVE  \E j \in 1..Len(u) : j < i /\ Unlink(u[j], k)
        BY DEF RemovedFirst
      <4>1. i = 2 /\ k = s
        BY <2>7
      <4> QED BY <2>5, <2>6, <4>1
    <3> QED BY <2>7, <3>1, <3>2 DEF AskedFor
  <2>9. \A k : ~Remakes(u, k) /\ (Dels(u, k) => k = s)
    BY <2>7 DEF Remakes, Dels, Deletes
  <2> QED BY <2>3, <2>8, <2>9 DEF Closed
<1>14. /\ r3 \in Recorder /\ r3.ops = r2.ops \o u /\ r3.kept = k2 /\ r3.pl = r2.pl
       /\ r3.curDay = r.curDay /\ r3.session = r.session /\ r3.open = r.open
  <2>1. /\ r3 \in Recorder /\ r3.ops = r2.ops \o u /\ r3.kept = r2.kept /\ r3.pl = r2.pl
        /\ r3.curDay = r2.curDay /\ r3.session = r2.session /\ r3.open = r2.open
    BY <1>9, <1>13, DoFacts DEF r3
  <2> QED BY <1>9, <2>1
<1>15. Answers(r3, t0, t, X, past, asked)
  <2>1. \A d \in Days : Retired(r2, t0, d) => Retired(r3, t0, d)
    BY <1>9, <1>11, <1>14
  <2>2. \A d \in Days : \A k \in Folder(d) : ~Dels(u, k)
    BY <1>4, <1>13, FolderKeys
  <2> QED BY <1>1, <1>7, <1>9, <1>12, <1>13, <1>14, <2>1, <2>2, AnswersAdd
<1>16. /\ v \in Seq(Effects) /\ Closed(v, {})
       /\ \A k : Remakes(v, k) => k = IndexKey(day) /\ KeptOf(r3, day) # <<>>
       /\ \A k : Dels(v, k) => k \in Folder(day) /\ day # r3.curDay /\ KeptOf(r3, day) = <<>>
  <2>1. r3 \in Recorder
    BY <1>14
  <2> QED BY <1>4, <2>1, FolderCloses DEF v
<1>17. /\ r4 \in Recorder /\ r4.ops = r3.ops \o v /\ r4.kept = k2 /\ r4.pl = r3.pl
       /\ r4.curDay = r.curDay /\ r4.session = r.session /\ r4.open = r.open
  <2>1. /\ r4 \in Recorder /\ r4.ops = r3.ops \o v /\ r4.kept = r3.kept /\ r4.pl = r3.pl
        /\ r4.curDay = r3.curDay /\ r4.session = r3.session /\ r4.open = r3.open
    BY <1>14, <1>16, DoFacts DEF r4
  <2> QED BY <1>14, <2>1
<1>18. /\ KeptOf(r3, day) # <<>> => ~Retired(r3, t0, day)
       /\ KeptOf(r3, day) = <<>> => \A i \in 1..Len(k2) : DayOf(k2[i].seg) # day
  <2>1. KeptOf(r3, day) = OfDay(k2, day) /\ OfDay(k2, day) \in Seq(Segs)
    BY <1>3, <1>14, OfDayListed DEF KeptOf
  <2>2. ASSUME KeptOf(r3, day) # <<>> PROVE ~Retired(r3, t0, day)
    <3>1. Among(OfDay(k2, day), OfDay(k2, day)[1])
      BY <2>1, <2>2 DEF Among
    <3>2. In(k2, OfDay(k2, day)[1]) /\ DayOf(OfDay(k2, day)[1]) = day
      BY <1>3, <3>1, OfDayListed
    <3> QED BY <1>14, <3>2 DEF In, Retired
  <2>3. ASSUME KeptOf(r3, day) = <<>>, NEW i \in 1..Len(k2), DayOf(k2[i].seg) = day PROVE FALSE
    <3>1. In(k2, k2[i].seg) /\ k2[i].seg \in Segs
      BY <1>3, ItemFacts DEF In
    <3>2. Among(OfDay(k2, day), k2[i].seg)
      BY <1>3, <2>3, <3>1, OfDayAll
    <3> QED BY <2>1, <2>3, <3>2 DEF Among
  <2> QED BY <2>2, <2>3
<1>19. Answers(r4, t0, t, X, past, asked)
  <2>1. Closed(v, X)
    BY <1>16, MoreOwed
  <2>2. \A d \in Days : Retired(r3, t0, d) => Retired(r4, t0, d)
    BY <1>14, <1>17 DEF Retired
  <2>3. \A k \in Keys : Remakes(v, k) => \E d \in Days : k \in Folder(d) /\ ~Retired(r3, t0, d)
    BY <1>4, <1>16, <1>18 DEF Folder
  <2>4. ASSUME NEW d \in Days, NEW k \in Folder(d), Dels(v, k) PROVE Retired(r4, t0, d)
    <3>1. d = day /\ day # r.curDay /\ \A i \in 1..Len(k2) : DayOf(k2[i].seg) # day
      BY <1>4, <1>14, <1>16, <1>18, <2>4, FolderKeys
    <3>2. day < t0
      <4>1. 1 \in 1..Len(k2) /\ k2[1] = q[2] /\ 1 \in 1..Len(q) /\ 2 \in 1..Len(q)
        BY <1>3
      <4>2. DayOf(q[2].seg) \in Days
        BY <1>2, <4>1, ItemFacts, SegFacts
      <4>3. day <= DayOf(q[2].seg) /\ DayOf(q[2].seg) <= t0
        BY <1>1, <1>4, <4>1 DEF InDayOrder, day
      <4>4. DayOf(q[2].seg) # day
        BY <3>1, <4>1
      <4>5. day \in Nat /\ DayOf(q[2].seg) \in Nat
        BY <1>4, <4>2 DEF Days
      <4> QED BY <4>3, <4>4, <4>5
    <3>3. r.pl.day # day
      BY <1>1, <1>4, <3>1, StoreAssumption DEF Days, NoDay
    <3> QED BY <1>9, <1>14, <1>17, <3>1, <3>2, <3>3 DEF Retired
  <2>5. InDayOrder(r4.kept, t0) /\ r4.pl.day <= t /\ r4.curDay <= t
    BY <1>1, <1>7, <1>9, <1>14, <1>17
  <2>6. r4 \in Recorder /\ r4.ops = r3.ops \o v
    BY <1>17
  <2> QED BY <1>15, <1>16, <2>1, <2>2, <2>3, <2>4, <2>5, <2>6, AnswersAdd
<1>20. Prunes(r4, t0, t, X, past, asked)
  BY <1>1, <1>9, <1>14, <1>17, <1>19 DEF Prunes
<1> QED BY <1>6, <1>9, <1>14, <1>17, <1>20 DEF q, k2

LEMMA PrunePrunes ==
  ASSUME NEW r, NEW t0 \in Nat, NEW t, NEW X, NEW past, NEW asked, Prunes(r, t0, t, X, past, asked)
  PROVE  Prunes(prune_retained(r), t0, t, X, past, asked)
<1> DEFINE S == {x \in Recorder : Prunes(x, t0, t, X, past, asked)}
<1>1. S \subseteq Recorder /\ r \in S
  BY DEF Prunes, Answers
<1>2. ASSUME NEW x \in S, over_retain(x.kept)
      PROVE  DropOldest(x) \in S /\ DropOldest(x).kept = Tail(x.kept)
  <2>1. Len(x.kept) > 1
    BY <1>2, OverRetain
  <2>2. Prunes(DropOldest(x), t0, t, X, past, asked) /\ DropOldest(x).kept = Tail(x.kept)
    BY <1>2, <2>1, DropPrunes
  <2>3. DropOldest(x) \in Recorder
    BY <2>2 DEF Prunes, Answers
  <2> QED BY <2>2, <2>3
<1>3. prune_retained(r) \in S
  <2> HIDE DEF S
  <2> QED BY <1>1, <1>2, PruneKeeps
<1> QED BY <1>3

(* The open segment is listed and asked for, and so is the index.          *)
LEMMA CloseAnswers ==
  ASSUME NEW r, NEW t0 \in Nat, NEW t, NEW past, NEW asked, Answers(r, t0, t, {}, past, asked),
         r.open # None => /\ r.pl.day = r.curDay /\ r.curDay \in Days /\ DayOf(r.open) = r.curDay
                          /\ r.curDay <= t0 /\ InDayOrder(r.kept, r.curDay),
         NEW dur \in Durations
  PROVE  /\ Answers(CloseSegment(r, dur), t0, t, {}, past, asked)
         /\ r.open # None => Answers(CloseSegment(r, dur), t0, t, {}, past, asked \cup {r.open})
<1>1. /\ r \in Recorder /\ InDayOrder(r.kept, t0) /\ r.pl.day <= t /\ r.curDay <= t
  BY DEF Answers
<1>2. /\ r.kept \in Seq(Item) /\ r.pl \in Playlist /\ r.open \in Segs \cup {None}
      /\ r.pl.list \in Seq(Segs) /\ r.ops \in Seq(Effects)
  BY <1>1, RecorderFacts
<1>3. CASE r.open = None
  <2>1. CloseSegment(r, dur) = r
    BY <1>3 DEF CloseSegment
  <2> QED BY <1>3, <2>1
<1>4. CASE r.open # None
  <2> DEFINE o == r.open
             d == r.curDay
             x == [seg |-> o, dur |-> dur]
             list == Append(r.pl.list, o)
             pl == [r.pl EXCEPT !.list = list, !.ended = FALSE]
             kept == Append(r.kept, x)
             r1 == [r EXCEPT !.pl = pl, !.open = None, !.kept = kept]
             e1 == PlaylistRewrite(pl)
             e2 == Effect("put", o)
             u == <<e1, e2>>
             r2 == Do(r1, u)
             r3 == prune_retained(r2)
             v == <<Effect("put", IndexKey(d))>>
             mark == asked \cup {o}
  <2>1. o \in Segs /\ d \in Days /\ r.pl.day = d /\ DayOf(o) = d /\ d <= t0 /\ InDayOrder(r.kept, d)
    BY <1>2, <1>4
  <2>2. list \in Seq(Segs) /\ x \in Item /\ x.seg = o /\ o \in Keys /\ IndexKey(d) \in Keys /\ d # NoDay
    BY <1>2, <2>1, StoreAssumption, SegFacts DEF Item, Days, NoDay
  <2> HIDE DEF x, list
  <2>3. /\ kept \in Seq(Item) /\ Len(r.kept) \in Nat /\ Len(kept) = Len(r.kept) + 1
        /\ kept[Len(r.kept) + 1] = x /\ \A i \in 1..Len(r.kept) : kept[i] = r.kept[i]
    BY <1>2, <2>2
  <2>4. pl \in Playlist /\ pl.day = d /\ pl.list = list /\ pl.ended = FALSE
    BY <1>2, <2>1, <2>2 DEF Playlist
  <2>5. CloseSegment(r, dur) = Do(r3, v)
    BY <1>4, <2>1, <2>4 DEF CloseSegment, x, list
  <2> HIDE DEF pl, kept
  <2>6. /\ r1 \in Recorder /\ r1.kept = kept /\ r1.pl = pl /\ r1.open = None /\ r1.ops = r.ops
        /\ r1.curDay = d /\ r1.session = r.session
    BY <1>1, <2>1, <2>3, <2>4 DEF Recorder
  <2>7. e1 \in Effects /\ e1.op = "index" /\ e1.key = IndexKey(d)
    BY <2>1, <2>2, <2>4 DEF PlaylistRewrite, Rewrite, Effects, Listing
  <2>8. e2 \in Effects /\ e2.op = "put" /\ e2.key = o
    BY <2>2, EffectFacts
  <2> HIDE DEF e1, e2, r1
  <2>9. u \in Seq(Effects) /\ Len(u) = 2 /\ u[1] = e1 /\ u[2] = e2
    BY <2>7, <2>8
  <2>10. 2 \in 1..Len(u) /\ \A i \in 1..Len(u) : i = 1 \/ i = 2
    BY <2>9
  <2> HIDE DEF u
  <2>11. /\ r2 \in Recorder /\ r2.ops = r.ops \o u /\ r2.kept = kept /\ r2.pl = pl
         /\ r2.curDay = d /\ r2.open = None
    <3>1. /\ r2 \in Recorder /\ r2.ops = r1.ops \o u /\ r2.kept = r1.kept /\ r2.pl = r1.pl
          /\ r2.curDay = r1.curDay /\ r2.open = r1.open
      BY <2>6, <2>9, DoFacts
    <3> HIDE DEF r2
    <3> QED BY <2>6, <3>1
  <2> HIDE DEF r2
  <2>12. InDayOrder(kept, t0)
    <3>1. \A i \in 1..Len(kept) : \/ i \in 1..Len(r.kept) /\ kept[i] = r.kept[i]
                                  \/ i = Len(r.kept) + 1 /\ kept[i].seg = o
      BY <2>2, <2>3
    <3>2. \A i \in 1..Len(r.kept) : /\ DayOf(r.kept[i].seg) <= d /\ DayOf(r.kept[i].seg) <= t0
                                    /\ \A j \in 1..Len(r.kept) :
                                          i < j => DayOf(r.kept[i].seg) <= DayOf(r.kept[j].seg)
      BY <1>1, <2>1 DEF InDayOrder
    <3>3. \A j \in 1..Len(r.kept) : ~(Len(r.kept) + 1 < j)
      BY <2>3
    <3>4. \A i \in 1..Len(kept) : DayOf(kept[i].seg) <= t0
      BY <2>1, <3>1, <3>2
    <3>5. ASSUME NEW i \in 1..Len(kept), NEW j \in 1..Len(kept), i < j
          PROVE  DayOf(kept[i].seg) <= DayOf(kept[j].seg)
      <4>1. i \in 1..Len(r.kept) /\ kept[i] = r.kept[i]
        BY <3>1, <3>3, <3>5
      <4> QED BY <2>1, <3>1, <3>2, <3>5, <4>1
    <3> QED BY <3>4, <3>5 DEF InDayOrder
  <2>13. \A e \in Days : Retired(r, t0, e) => Retired(r2, t0, e)
    <3>1. \A i \in 1..Len(kept) : \/ i \in 1..Len(r.kept) /\ kept[i] = r.kept[i]
                                  \/ kept[i].seg = o
      BY <2>2, <2>3
    <3> QED BY <2>1, <2>4, <2>11, <3>1 DEF Retired
  <2>14. \A i \in 1..Len(u) : /\ u[i].op \in {"create", "index", "put"}
                              /\ u[i].op \in {"create", "index"} => u[i].key \in {IndexKey(d)}
    BY <2>7, <2>8, <2>9, <2>10
  <2>15. Closed(u, {IndexKey(d)}) /\ \A k : ~Dels(u, k) /\ (Remakes(u, k) => k = IndexKey(d))
    <3>1. Closed(u, {IndexKey(d)})
      BY <2>14, MakingClosed
    <3> QED BY <2>14, <3>1 DEF Dels, Remakes, Makes
  <2>16. Settles(u[2], o)
    BY <2>8, <2>9 DEF Settles
  <2>17. Answers(r2, t0, t, {IndexKey(d)}, past, mark)
    <3>1. \A k \in Keys : Remakes(u, k) => \E e \in Days : k \in Folder(e) /\ ~Retired(r, t0, e)
      BY <2>1, <2>15 DEF Folder, Retired
    <3>2. InDayOrder(r2.kept, t0) /\ r2.pl.day <= t /\ r2.curDay <= t
      BY <1>1, <2>1, <2>4, <2>11, <2>12
    <3>3. Answers(r2, t0, t, {IndexKey(d)}, past, asked)
          /\ \A k : (\E j \in 1..Len(u) : Settles(u[j], k)) =>
                       \E j \in 1..Len(r2.ops) : Settles(r2.ops[j], k)
      <4> DEFINE Y == {IndexKey(d)}
      <4>1. Answers(r, t0, t, Y, past, asked)
        BY AnswersMore
      <4>2. \A e \in Days : \A k \in Folder(e) : Dels(u, k) => Retired(r2, t0, e)
        BY <2>15
      <4>3. \A k \in Keys : Remakes(u, k) =>
               (k \in Segs /\ ~Unlinks(r.ops, k)) \/ \E e \in Days : k \in Folder(e) /\ ~Retired(r, t0, e)
        BY <3>1
      <4>4. r2 \in Recorder /\ r2.ops = r.ops \o u /\ u \in Seq(Effects) /\ Closed(u, Y)
        BY <2>9, <2>11, <2>15
      <4>5. \A k \in (Y \cap Keys) \ Y : \E j \in 1..Len(u) : Settles(u[j], k)
        OBVIOUS
      <4> HIDE DEF Y
      <4>6. Answers(r2, t0, t, Y, past, asked)
            /\ \A k : (\E j \in 1..Len(u) : Settles(u[j], k)) =>
                         \E j \in 1..Len(r2.ops) : Settles(r2.ops[j], k)
        BY <2>13, <3>2, <4>1, <4>2, <4>3, <4>4, <4>5, AnswersAdd
      <4> QED BY <4>6 DEF Y
    <3>4. \A k \in mark : \E j \in 1..Len(r2.ops) : Settles(r2.ops[j], k)
      BY <2>10, <2>16, <3>3 DEF Answers
    <3> HIDE DEF mark
    <3> QED BY <3>3, <3>4 DEF Answers
  <2> HIDE DEF mark
  <2>18. Prunes(r2, t0, t, {IndexKey(d)}, past, mark)
    BY <2>2, <2>4, <2>11, <2>17 DEF Prunes
  <2>19. Answers(r3, t0, t, {IndexKey(d)}, past, mark)
    BY <2>18, PrunePrunes DEF Prunes
  <2> HIDE DEF r3
  <2>20. v \in Seq(Effects) /\ Len(v) = 1 /\ \A i \in 1..Len(v) : v[i].op = "put"
    BY <2>2, PutFacts
  <2>21. v[1] = Effect("put", IndexKey(d)) /\ Settles(v[1], IndexKey(d)) /\ 1 \in 1..Len(v)
    BY <2>20, EffectFacts DEF Settles
  <2> HIDE DEF v
  <2>22. Answers(Do(r3, v), t0, t, {}, past, mark)
    <3>1. Closed(v, {}) /\ \A k : ~Remakes(v, k) /\ ~Dels(v, k)
      <4>1. Closed(v, {})
        BY <2>20, MakingClosed
      <4> QED BY <2>20, <4>1 DEF Remakes, Makes, Dels
    <3>2. r3 \in Recorder /\ InDayOrder(r3.kept, t0) /\ r3.pl.day <= t /\ r3.curDay <= t
      BY <2>19 DEF Answers
    <3> DEFINE z == Do(r3, v)
    <3>3. z \in Recorder /\ z.ops = r3.ops \o v /\ z.kept = r3.kept /\ z.pl = r3.pl /\ z.curDay = r3.curDay
      BY <2>20, <3>2, DoFacts
    <3> HIDE DEF z
    <3>4. \A e \in Days : Retired(r3, t0, e) => Retired(z, t0, e)
      BY <3>3 DEF Retired
    <3>5. \A k \in ({IndexKey(d)} \cap Keys) \ {} : \E j \in 1..Len(v) : Settles(v[j], k)
      BY <2>21
    <3>6. InDayOrder(z.kept, t0) /\ z.pl.day <= t /\ z.curDay <= t
      BY <3>2, <3>3
    <3>7. /\ \A e \in Days : \A k \in Folder(e) : Dels(v, k) => Retired(z, t0, e)
          /\ \A k \in Keys : Remakes(v, k) =>
                (k \in Segs /\ ~Unlinks(r3.ops, k))
                \/ \E e \in Days : k \in Folder(e) /\ ~Retired(r3, t0, e)
      BY <3>1
    <3>8. Answers(z, t0, t, {}, past, mark)
      BY <2>19, <2>20, <3>1, <3>3, <3>4, <3>5, <3>6, <3>7, AnswersAdd
    <3> QED BY <3>8 DEF z
  <2>23. Answers(Do(r3, v), t0, t, {}, past, asked)
    BY <2>22 DEF Answers, mark
  <2> QED BY <2>5, <2>22, <2>23 DEF mark
<1> QED BY <1>3, <1>4

(* A day that is not retired has its index written and asked for. *)
LEMMA EndAnswers ==
  ASSUME NEW r, NEW t0, NEW t, NEW X, NEW past, NEW asked, Answers(r, t0, t, X, past, asked)
  PROVE  Answers(EndPlaylist(r), t0, t, X, past, asked)
<1>1. r \in Recorder /\ InDayOrder(r.kept, t0) /\ r.pl.day <= t /\ r.curDay <= t
  BY DEF Answers
<1>2. /\ r.pl \in Playlist /\ r.pl.day \in Days \cup {NoDay} /\ r.pl.list \in Seq(Segs)
      /\ r.pl.ended \in BOOLEAN
  BY <1>1, RecorderFacts
<1>3. CASE r.pl.day = NoDay
  BY <1>3 DEF EndPlaylist
<1>4. CASE r.pl.day # NoDay
  <2> DEFINE d == r.pl.day
             pl == [r.pl EXCEPT !.ended = TRUE]
             x == [r EXCEPT !.pl = pl]
             e == Rewrite(d, r.pl.list, TRUE, TRUE)
             e2 == Effect("put", IndexKey(d))
             a == IF r.pl.ended THEN <<>> ELSE <<e>>
             c == <<e2>>
             b == a \o c
             y == Do(x, b)
  <2>1. d \in Days /\ IndexKey(d) \in Keys
    BY <1>2, <1>4, SegFacts
  <2>2. pl \in Playlist /\ pl.day = d /\ pl.list = r.pl.list /\ pl.ended = TRUE
    BY <1>2 DEF Playlist
  <2>3. PlaylistRewrite(pl) = e
    BY <2>2 DEF PlaylistRewrite
  <2>4. EndPlaylist(r) = y
    BY <1>4, <2>2, <2>3 DEF EndPlaylist
  <2> HIDE DEF pl
  <2>5. x \in Recorder /\ x.kept = r.kept /\ x.ops = r.ops /\ x.pl = pl /\ x.curDay = r.curDay
    BY <1>1, <2>2 DEF Recorder
  <2>6. e \in Effects /\ e.op = "index" /\ e.key = IndexKey(d)
    BY <1>2, <2>1 DEF Rewrite, Effects, Listing
  <2> HIDE DEF e, x
  <2>7. a \in Seq(Effects) /\ \A i \in 1..Len(a) : a[i].op = "index" /\ a[i].key = IndexKey(d)
    <3>1. <<>> \in Seq(Effects) /\ \A i \in 1..Len(<<>>) : FALSE
      OBVIOUS
    <3>2. <<e>> \in Seq(Effects) /\ Len(<<e>>) = 1 /\ <<e>>[1] = e
      BY <2>6
    <3>3. \A i \in 1..Len(<<e>>) : i = 1
      BY <3>2
    <3>4. \A i \in 1..Len(<<e>>) : <<e>>[i].op = "index" /\ <<e>>[i].key = IndexKey(d)
      BY <2>6, <3>2, <3>3
    <3> QED BY <3>1, <3>2, <3>4
  <2>8. c \in Seq(Effects) /\ Len(c) = 1 /\ \A i \in 1..Len(c) : c[i].op = "put"
    BY <2>1, PutFacts
  <2>9. Settles(c[1], IndexKey(d)) /\ 1 \in 1..Len(c)
    BY <2>8, EffectFacts DEF Settles
  <2> HIDE DEF a, c
  <2>10. b \in Seq(Effects) /\ Closed(b, X)
    <3>1. Closed(a, {IndexKey(d)})
      BY <2>7, MakingClosed
    <3>2. Closed(c, X)
      BY <2>8, MakingClosed
    <3>3. \A k \in ({IndexKey(d)} \cap Keys) \ X : \E j \in 1..Len(c) : Settles(c[j], k)
      BY <2>9
    <3>4. \A k \in Keys : Unlinks(a, k) => ~Remakes(c, k)
      BY <2>7 DEF Unlinks, Unlink
    <3> QED BY <2>7, <2>8, <3>1, <3>2, <3>3, <3>4, ConcatFacts, ClosedConcat
  <2>11. \A k : (Remakes(b, k) => k = IndexKey(d)) /\ ~Dels(b, k)
    <3>1. \A k : (Remakes(a, k) => k = IndexKey(d)) /\ ~Dels(a, k) /\ ~Remakes(c, k) /\ ~Dels(c, k)
      BY <2>7, <2>8 DEF Remakes, Makes, Dels
    <3> QED BY <2>7, <2>8, <3>1, ConcatMakes
  <2> HIDE DEF b
  <2>12. /\ y \in Recorder /\ y.ops = r.ops \o b /\ y.kept = r.kept /\ y.pl = pl
         /\ y.curDay = r.curDay
    <3>1. y \in Recorder /\ y.ops = x.ops \o b /\ y.kept = x.kept /\ y.pl = x.pl /\ y.curDay = x.curDay
      BY <2>5, <2>10, DoFacts
    <3> HIDE DEF y
    <3> QED BY <2>5, <3>1
  <2> HIDE DEF y
  <2>13. \A f \in Days : Retired(r, t0, f) => Retired(y, t0, f)
    BY <2>2, <2>12 DEF Retired
  <2>14. \A k \in Keys : Remakes(b, k) => \E f \in Days : k \in Folder(f) /\ ~Retired(r, t0, f)
    BY <2>1, <2>11 DEF Folder, Retired
  <2>15. InDayOrder(y.kept, t0) /\ y.pl.day <= t /\ y.curDay <= t
    BY <1>1, <2>2, <2>12
  <2>16. Answers(y, t0, t, X, past, asked)
    BY <2>10, <2>11, <2>12, <2>13, <2>14, <2>15, AnswersAdd
  <2> QED BY <2>4, <2>16
<1> QED BY <1>3, <1>4

(* A session begins on a day that has come. *)
LEMMA BeginAnswers ==
  ASSUME NEW r, NEW t0 \in Nat, NEW t, NEW X, NEW past, NEW asked, Answers(r, t0, t, X, past, asked),
         NEW d \in Days, t0 <= d, d <= t
  PROVE  Answers(BeginSession(r, d), t0, t, X, past, asked)
<1> DEFINE list == KeptOf(r, d)
           pl == [day |-> d, list |-> list, ended |-> FALSE]
           x == [r EXCEPT !.pl = pl, !.curDay = d, !.session = TRUE]
           a == <<Effect("create", InitKey(d))>>
           b == Rebuild(r, d)
           e1 == Effect("put", InitKey(d))
           e2 == Effect("put", IndexKey(d))
           c == <<e1, e2>>
           ab == a \o b
           ops == ab \o c
           y == Do(x, ops)
<1>1. r \in Recorder /\ InDayOrder(r.kept, t0) /\ r.pl.day <= t /\ r.curDay <= t
  BY DEF Answers
<1>2. r.kept \in Seq(Item) /\ r.ops \in Seq(Effects)
  BY <1>1, RecorderFacts
<1>3. list \in Seq(Segs)
  BY <1>2, OfDayListed DEF KeptOf
<1>4. BeginSession(r, d) = y
  BY DEF BeginSession
<1>5. b \in Seq(Effects) /\ \A i \in 1..Len(b) : b[i].op = "index" /\ b[i].key = IndexKey(d)
  BY <1>2, RebuildFacts
<1>6. InitKey(d) \in Keys /\ IndexKey(d) \in Keys
  BY SegFacts
<1>7. a \in Seq(Effects) /\ \A i \in 1..Len(a) : a[i].op = "create" /\ a[i].key = InitKey(d)
  <2> DEFINE e == Effect("create", InitKey(d))
  <2>1. e \in Effects /\ e.op = "create" /\ e.key = InitKey(d)
    BY EffectFacts
  <2>2. a = <<e>>
    OBVIOUS
  <2> HIDE DEF e, a
  <2>3. a \in Seq(Effects) /\ Len(a) = 1 /\ a[1] = e
    BY <2>1, <2>2
  <2>4. \A i \in 1..Len(a) : i = 1
    BY <2>3
  <2> QED BY <2>1, <2>3, <2>4
<1>8. /\ c \in Seq(Effects) /\ \A i \in 1..Len(c) : c[i].op = "put"
      /\ \E j \in 1..Len(c) : Settles(c[j], InitKey(d))
      /\ \E j \in 1..Len(c) : Settles(c[j], IndexKey(d))
  <2>1. e1 \in Effects /\ e2 \in Effects /\ e1.op = "put" /\ e2.op = "put"
        /\ e1.key = InitKey(d) /\ e2.key = IndexKey(d)
    BY <1>6, EffectFacts
  <2> HIDE DEF e1, e2
  <2>2. c \in Seq(Effects) /\ Len(c) = 2 /\ c[1] = e1 /\ c[2] = e2
    BY <2>1
  <2>3. 1 \in 1..Len(c) /\ 2 \in 1..Len(c) /\ \A i \in 1..Len(c) : i = 1 \/ i = 2
    BY <2>2
  <2>4. Settles(c[1], InitKey(d)) /\ Settles(c[2], IndexKey(d))
    BY <2>1, <2>2 DEF Settles
  <2> QED BY <2>1, <2>2, <2>3, <2>4
<1>9. pl \in Playlist /\ pl.day = d /\ pl.list = list
  BY <1>3 DEF Playlist
<1> HIDE DEF list, pl, a, b, c
<1>10. x \in Recorder /\ x.kept = r.kept /\ x.ops = r.ops /\ x.pl = pl /\ x.curDay = d
  BY <1>1, <1>9 DEF Recorder
<1>11. ab \in Seq(Effects) /\ \A i \in 1..Len(ab) : ab[i].op \in {"create", "index"} /\ ab[i].key \in Folder(d)
  <2>1. \A i \in 1..Len(a) : a[i].op \in {"create", "index"} /\ a[i].key \in Folder(d)
    BY <1>7 DEF Folder
  <2>2. \A i \in 1..Len(b) : b[i].op \in {"create", "index"} /\ b[i].key \in Folder(d)
    BY <1>5 DEF Folder
  <2>3. ab \in Seq(Effects)
    BY <1>5, <1>7, ConcatFacts
  <2>4. ASSUME NEW i \in 1..Len(ab)
        PROVE  ab[i].op \in {"create", "index"} /\ ab[i].key \in Folder(d)
    <3>1. \/ i \in 1..Len(a) /\ ab[i] = a[i]
          \/ i - Len(a) \in 1..Len(b) /\ ab[i] = b[i - Len(a)]
      BY <1>5, <1>7, ConcatSplit
    <3> QED BY <2>1, <2>2, <3>1
  <2> QED BY <2>3, <2>4
<1> HIDE DEF ab, x
<1>12. ops \in Seq(Effects) /\ Closed(ops, X)
  <2>1. Closed(ab, Folder(d))
    BY <1>11, MakingClosed
  <2>2. Closed(c, X)
    BY <1>8, MakingClosed
  <2>3. \A k \in (Folder(d) \cap Keys) \ X : \E j \in 1..Len(c) : Settles(c[j], k)
    BY <1>8 DEF Folder
  <2>4. \A k \in Keys : Unlinks(ab, k) => ~Remakes(c, k)
    BY <1>11 DEF Unlinks, Unlink
  <2> QED BY <1>8, <1>11, <2>1, <2>2, <2>3, <2>4, ConcatFacts, ClosedConcat
<1>13. \A k : (Remakes(ops, k) => k \in Folder(d)) /\ ~Dels(ops, k)
  <2>1. \A k : (Remakes(ab, k) => k \in Folder(d)) /\ ~Dels(ab, k) /\ ~Remakes(c, k) /\ ~Dels(c, k)
    BY <1>8, <1>11 DEF Remakes, Makes, Dels
  <2> QED BY <1>8, <1>11, <2>1, ConcatMakes
<1> HIDE DEF ops
<1>14. /\ y \in Recorder /\ y.ops = r.ops \o ops /\ y.kept = r.kept /\ y.pl = pl
       /\ y.curDay = d
  <2>1. y \in Recorder /\ y.ops = x.ops \o ops /\ y.kept = x.kept /\ y.pl = x.pl /\ y.curDay = x.curDay
    BY <1>10, <1>12, DoFacts, Zenon
  <2> HIDE DEF y
  <2> QED BY <1>10, <2>1
<1> HIDE DEF y
<1>15. \A f \in Days : Retired(r, t0, f) => Retired(y, t0, f)
  BY <1>9, <1>14 DEF Retired, Days
<1>16. \A k \in Keys : Remakes(ops, k) => \E f \in Days : k \in Folder(f) /\ ~Retired(r, t0, f)
  <2>1. ~Retired(r, t0, d)
    BY DEF Retired, Days
  <2> QED BY <1>13, <2>1
<1>17. InDayOrder(y.kept, t0) /\ y.pl.day <= t /\ y.curDay <= t
  BY <1>1, <1>9, <1>14
<1>18. Answers(y, t0, t, X, past, asked)
  BY <1>12, <1>13, <1>14, <1>15, <1>16, <1>17, AnswersAdd
<1> QED BY <1>4, <1>18

(* A segment that was not removed in this operation is created, and owed.  *)
LEMMA OpenAnswers ==
  ASSUME NEW r, NEW t0, NEW t, NEW past, NEW asked, NEW s \in Segs,
         Answers(r, t0, t, {s}, past, asked), ~Unlinks(r.ops, s)
  PROVE  Answers(Do([r EXCEPT !.open = s], <<Effect("create", s)>>), t0, t, {s}, past, asked)
<1> DEFINE x == [r EXCEPT !.open = s]
           e == Effect("create", s)
           b == <<e>>
           y == Do(x, b)
<1>1. r \in Recorder /\ InDayOrder(r.kept, t0) /\ r.pl.day <= t /\ r.curDay <= t
  BY DEF Answers
<1>2. x \in Recorder /\ x.kept = r.kept /\ x.ops = r.ops /\ x.pl = r.pl /\ x.curDay = r.curDay
  BY <1>1 DEF Recorder
<1>3. e \in Effects /\ e.op = "create" /\ e.key = s
  BY EffectFacts
<1> HIDE DEF x, e
<1>4. b \in Seq(Effects) /\ Len(b) = 1 /\ b[1] = e
  BY <1>3
<1>5. \A i \in 1..Len(b) : i = 1
  BY <1>4
<1> HIDE DEF b
<1>6. \A i \in 1..Len(b) : b[i].op = "create" /\ b[i].key = s
  BY <1>3, <1>4, <1>5
<1>7. Closed(b, {s}) /\ \A k : (Remakes(b, k) => k = s) /\ ~Dels(b, k)
  <2>1. Closed(b, {s})
    BY <1>6, MakingClosed
  <2> QED BY <1>6, <2>1 DEF Remakes, Makes, Dels
<1>8. y \in Recorder /\ y.ops = r.ops \o b /\ y.kept = r.kept /\ y.pl = r.pl /\ y.curDay = r.curDay
  <2>1. y \in Recorder /\ y.ops = x.ops \o b /\ y.kept = x.kept /\ y.pl = x.pl /\ y.curDay = x.curDay
    BY <1>2, <1>4, DoFacts
  <2> HIDE DEF y
  <2> QED BY <1>2, <2>1
<1> HIDE DEF y
<1>9. \A f \in Days : Retired(r, t0, f) => Retired(y, t0, f)
  BY <1>8 DEF Retired
<1>10. InDayOrder(y.kept, t0) /\ y.pl.day <= t /\ y.curDay <= t
  BY <1>1, <1>8
<1>11. Answers(y, t0, t, {s}, past, asked)
  BY <1>4, <1>7, <1>8, <1>9, <1>10, AnswersAdd
<1> QED BY <1>11 DEF y, b, x, e

LEMMA OpenedAnswers ==
  ASSUME NEW r, NEW t0 \in Nat, NEW t \in Nat, NEW past, NEW asked, Answers(r, t0, t, {}, past, asked),
         NEW day \in Days, NEW day2 \in Days, t0 <= day, day <= day2, day2 <= t, NEW s, NEW outcome,
         outcome = "ok" => /\ s \in Segs
                           /\ Opened(r, day, day2, s, outcome).open = s =>
                                 ~Unlinks(Opened(r, day, day2, s, outcome).ops, s)
  PROVE  Answers(Opened(r, day, day2, s, outcome), t0, t,
                 {Opened(r, day, day2, s, outcome).open}, past, asked)
<1> DEFINE left == IF r.session /\ day # r.curDay
                   THEN [EndPlaylist(r) EXCEPT !.session = FALSE, !.curDay = NoDay] ELSE r
           ensured == IF left.session THEN left ELSE BeginSession(left, day2)
           back == EndPlaylist(ensured)
           ready == IF day = ensured.curDay THEN ensured ELSE BeginSession(back, day)
           gone == [back EXCEPT !.session = FALSE]
           x == [ready EXCEPT !.open = s]
           opened == Do(x, <<Effect("create", s)>>)
           result == Opened(r, day, day2, s, outcome)
<1>1. \/ result = left \/ result = gone \/ result = ready
      \/ result = opened /\ outcome = "ok"
  <2>1. Opened(r, day, day2, s, outcome) =
          CASE outcome = "no session" /\ ~left.session -> left
            [] outcome = "no day session" /\ day # ensured.curDay -> gone
            [] outcome = "ok" -> opened
            [] OTHER -> ready
    BY DEF Opened
  <2> HIDE DEF left, ensured, gone, opened, ready
  <2>2. CASE outcome = "no session" /\ ~left.session
    BY <2>1, <2>2
  <2>3. CASE outcome = "no day session" /\ day # ensured.curDay
    BY <2>1, <2>3
  <2>4. CASE outcome = "ok"
    BY <2>1, <2>4
  <2>5. CASE /\ ~(outcome = "no session" /\ ~left.session)
             /\ ~(outcome = "no day session" /\ day # ensured.curDay) /\ outcome # "ok"
    BY <2>1, <2>5
  <2> QED BY <2>2, <2>3, <2>4, <2>5
<1> HIDE DEF result
<1>2. t0 <= day2 /\ day <= t
  BY DEF Days
<1>3. Answers(left, t0, t, {}, past, asked)
  <2>1. CASE r.session /\ day # r.curDay
    <3> DEFINE z == EndPlaylist(r)
    <3>1. Answers(z, t0, t, {}, past, asked)
      BY EndAnswers
    <3>2. z \in Recorder /\ InDayOrder(z.kept, t0) /\ z.pl.day <= t
      BY <3>1 DEF Answers
    <3> HIDE DEF z
    <3> DEFINE w == [z EXCEPT !.session = FALSE, !.curDay = NoDay]
    <3>3. w \in Recorder /\ w.kept = z.kept /\ w.ops = z.ops /\ w.pl = z.pl /\ w.curDay = NoDay
      BY <3>2 DEF Recorder
    <3>4. left = w
      BY <2>1 DEF z
    <3> HIDE DEF w, left
    <3>5. \A d \in Days : Retired(z, t0, d) => Retired(w, t0, d)
      BY <3>3 DEF Retired, Days, NoDay
    <3>6. InDayOrder(w.kept, t0) /\ w.pl.day <= t /\ w.curDay <= t
      BY <3>2, <3>3 DEF NoDay
    <3>7. Answers(w, t0, t, {}, past, asked)
      BY <3>1, <3>3, <3>5, <3>6, AnswersWith
    <3> QED BY <3>4, <3>7
  <2>2. CASE ~(r.session /\ day # r.curDay)
    BY <2>2
  <2> QED BY <2>1, <2>2
<1> HIDE DEF left
<1>4. Answers(ensured, t0, t, {}, past, asked)
  <2>1. Answers(BeginSession(left, day2), t0, t, {}, past, asked)
    BY <1>2, <1>3, BeginAnswers
  <2> QED BY <1>3, <2>1
<1> HIDE DEF ensured
<1>5. Answers(back, t0, t, {}, past, asked)
  BY <1>4, EndAnswers
<1>6. back \in Recorder /\ InDayOrder(back.kept, t0) /\ back.pl.day <= t /\ back.curDay <= t
  BY <1>5 DEF Answers
<1> HIDE DEF back
<1>7. Answers(gone, t0, t, {}, past, asked)
  <2>1. /\ gone \in Recorder /\ gone.kept = back.kept /\ gone.ops = back.ops /\ gone.pl = back.pl
        /\ gone.curDay = back.curDay
    BY <1>6 DEF Recorder
  <2> HIDE DEF gone
  <2>2. \A d \in Days : Retired(back, t0, d) => Retired(gone, t0, d)
    BY <2>1 DEF Retired
  <2>3. InDayOrder(gone.kept, t0) /\ gone.pl.day <= t /\ gone.curDay <= t
    BY <1>6, <2>1
  <2> QED BY <1>5, <2>1, <2>2, <2>3, AnswersWith
<1> HIDE DEF gone
<1>8. Answers(ready, t0, t, {}, past, asked)
  <2>1. Answers(BeginSession(back, day), t0, t, {}, past, asked)
    BY <1>2, <1>5, BeginAnswers
  <2> QED BY <1>4, <2>1
<1> HIDE DEF ready
<1>9. ASSUME result = opened, outcome = "ok"
      PROVE  Answers(opened, t0, t, {opened.open}, past, asked)
  <2> DEFINE e == Effect("create", s)
             b == <<e>>
  <2>1. ready \in Recorder /\ s \in Segs
    BY <1>8, <1>9 DEF Answers
  <2>2. x \in Recorder /\ x.ops = ready.ops /\ x.open = s
    BY <2>1 DEF Recorder
  <2>3. e \in Effects
    BY <2>1, EffectFacts
  <2> HIDE DEF e, x
  <2>4. b \in Seq(Effects)
    BY <2>3
  <2> HIDE DEF b
  <2>5. Do(x, b).ops = ready.ops \o b /\ Do(x, b).open = s /\ ready.ops \in Seq(Effects)
    <3>1. Do(x, b).ops = x.ops \o b /\ Do(x, b).open = x.open
      BY <2>2, <2>4, DoFacts
    <3> QED BY <2>1, <2>2, <3>1, RecorderFacts
  <2>6. opened = Do(x, b)
    BY DEF b, e
  <2>7. ~Unlinks(opened.ops, s)
    <3>1. opened.open = s
      BY <2>5, <2>6
    <3> QED BY <1>9, <3>1 DEF result
  <2>8. ~Unlinks(ready.ops, s)
    <3>1. Unlinks(ready.ops \o b, s) <=> Unlinks(ready.ops, s) \/ Unlinks(b, s)
      BY <2>4, <2>5, ConcatOps
    <3> QED BY <2>5, <2>6, <2>7, <3>1
  <2>9. Answers(ready, t0, t, {s}, past, asked)
    BY <1>8, AnswersMore
  <2>10. Answers(opened, t0, t, {s}, past, asked)
    BY <2>1, <2>8, <2>9, OpenAnswers DEF x
  <2> QED BY <2>5, <2>6, <2>10
<1> HIDE DEF opened
<1>10. \A z : Answers(z, t0, t, {}, past, asked) => Answers(z, t0, t, {z.open}, past, asked)
  BY AnswersMore
<1>11. Answers(result, t0, t, {result.open}, past, asked)
  BY <1>1, <1>3, <1>7, <1>8, <1>9, <1>10
<1> QED BY <1>11 DEF result

(* What start finds is in the order of the segments' numbers, and so of    *)
(* their days.                                                             *)
LEMMA StartAnswers ==
  ASSUME NEW files, NEW t \in Nat, \A s1, s2 \in files \cap Segs : s1[3] = s2[3] => s1 = s2,
         \A s1, s2 \in files \cap Segs :
            DayOf(s1) <= t /\ (s1[3] < s2[3] => DayOf(s1) <= DayOf(s2))
  PROVE  Answers(prune_retained(Found(files)), t, t, {}, {}, {})
<1> DEFINE set == files \cap Segs
           found == Scanned(set)
           kept == [i \in DOMAIN found |-> [seg |-> found[i], dur |-> SegmentSec]]
           r == Found(files)
           n == Cardinality(set)
<1>1. n \in Nat /\ found \in [1..n -> set] /\ Sorted(found)
  <2>1. set \subseteq Segs /\ \A s1, s2 \in set : s1[3] = s2[3] => s1 = s2
    OBVIOUS
  <2> HIDE DEF set
  <2> QED BY <2>1, ScannedFacts
<1>2. Fine(r, files, <<>>) /\ r.pl.day = NoDay /\ r.ops = <<>>
  BY FoundFine
<1>3. r = [NewRecorder EXCEPT !.kept = kept]
  BY DEF Found
<1>4. r.kept = kept /\ r.curDay = NoDay
  BY <1>3 DEF NewRecorder
<1>5. r \in Recorder /\ (r.pl.day = NoDay => r.pl.list = <<>>)
  BY <1>2 DEF Fine, Between
<1> HIDE DEF found, n
<1>6. DOMAIN found = 1..n /\ \A i \in 1..n : found[i] \in set
  BY <1>1
<1>7. Len(kept) = n /\ \A i \in 1..n : kept[i].seg = found[i]
  BY <1>1, <1>6
<1> HIDE DEF r, kept
<1>8. InDayOrder(kept, t)
  <2>1. \A i \in 1..n : DayOf(found[i]) <= t
    BY <1>6
  <2>2. \A i, j \in 1..n : i < j => found[i][3] < found[j][3]
    BY <1>6, <1>1 DEF Sorted
  <2>3. \A i, j \in 1..n : i < j => DayOf(found[i]) <= DayOf(found[j])
    BY <1>6, <2>2
  <2> HIDE DEF set
  <2> QED BY <1>7, <2>1, <2>3 DEF InDayOrder
<1>9. Closed(r.ops, {}) /\ \A k : ~Dels(r.ops, k)
  BY <1>2, EmptyClosed DEF Dels
<1>10. Answers(r, t, t, {}, {}, {})
  BY <1>2, <1>4, <1>5, <1>8, <1>9 DEF Answers, NoDay
<1>11. Prunes(r, t, t, {}, {}, {})
  BY <1>2, <1>5, <1>10 DEF Prunes
<1>12. Prunes(prune_retained(r), t, t, {}, {}, {})
  BY <1>11, PrunePrunes
<1> QED BY <1>12 DEF Prunes, r

-----------------------------------------------------------------------------
(* The state: the days of what is on the card, what is gone for good, and  *)
(* what the cloud has of every key.                                        *)

LEMMA NoneIsNoKey == None \notin Keys
<1>1. \A d : InitKey(d) # None /\ IndexKey(d) # None
  BY DEF InitKey, IndexKey, None
<1> QED BY <1>1, SegFacts DEF Keys

Chronological(r, t) ==
    /\ InDayOrder(r.kept, t) /\ r.pl.day <= t /\ r.curDay <= t
    /\ r.open # None => InDayOrder(r.kept, DayOf(r.open))

(* A later segment is of the same day or of a later one. *)
DaysAdvance ==
    \A s, t \in Recorded : DayOf(s) <= today /\ (s[3] < t[3] => DayOf(s) <= DayOf(t))

(* What is asked to be deleted is gone, and no file of a day in use is. *)
Absent == {k \in Keys : k \notin disk /\ ~Remakes(todo, k)}
DeletedAreAbsent ==
    /\ RemovedFirst(todo, Absent)
    /\ \A k \in Keys : Queued(k, TRUE) \/ InHand(k, TRUE) => k \in Absent
DeletedAreRetired == \A d \in Days : \A k \in Folder(d) : Dropped(k) => Retired(rec, today, d)

(* The cloud has the file k as it is on the card, or a request is out that *)
(* brings it there, or one will be.  A file that is gone is not there, or  *)
(* its deletion is asked for.                                              *)
Matches(k, l) == Kind(k) = "index" => l = listing[DayOf(k)]
Copied(k) == k \in cloud /\ Matches(k, cloudListing[DayOf(k)])
Delivered(k) ==
    IF InHand(k, FALSE) /\ job.sent THEN Matches(k, job.body) ELSE Copied(k) \/ InHand(k, FALSE)
AskedLater(k) == \E i \in 1..Len(todo) : Settles(todo[i], k)
Coming(k) == Delivered(k) \/ Queued(k, FALSE) \/ AskedLater(k)
Leaving(k) == Dropped(k) \/ (k \notin cloud /\ ~(InHand(k, FALSE) /\ job.sent))
Mirrored ==
    \A k \in Keys \ (missed \cup {rec.open}) : IF k \in disk THEN Coming(k) ELSE Leaving(k)

MirrorInv ==
    /\ process = "stopping" => rec.open = None
    /\ DaysAdvance /\ Chronological(rec, today)
    /\ RemovedForGood(todo) /\ AskedFor(todo, {rec.open})
    /\ DeletedAreAbsent /\ DeletedAreRetired
    /\ Mirrored

LEMMA MirrorInit == Init => MirrorInv
<1> SUFFICES ASSUME Init PROVE MirrorInv
  OBVIOUS
<1>1. /\ rec = NewRecorder /\ todo = <<>> /\ queue = <<>> /\ job = None /\ cloud = {} /\ disk = {}
      /\ process = "down" /\ today = 1
  BY DEF Init
<1>2. /\ Len(todo) = 0 /\ Len(queue) = 0 /\ rec.open = None /\ rec.pl.day = NoDay
      /\ rec.curDay = NoDay /\ rec.kept = <<>>
  BY <1>1, NewRecorderFacts DEF NewRecorder
<1>3. \A k, del : ~Queued(k, del) /\ ~InHand(k, del)
  BY <1>1, <1>2 DEF Queued, InHand
<1>4. \A k : ~Dropped(k)
  <2>1. \A k : ~Dels(todo, k)
    BY <1>2 DEF Dels
  <2> QED BY <1>3, <2>1 DEF Dropped
<1>5. DaysAdvance
  BY <1>1, <1>2 DEF DaysAdvance, Recorded
<1>6. Chronological(rec, today)
  BY <1>1, <1>2 DEF Chronological, InDayOrder, NoDay
<1>7. RemovedForGood(todo) /\ RemovedFirst(todo, Absent) /\ AskedFor(todo, {rec.open})
  BY <1>2 DEF RemovedForGood, RemovedFirst, AskedFor
<1>8. Mirrored
  BY <1>1, <1>3 DEF Mirrored, Leaving
<1> QED BY <1>1, <1>3, <1>4, <1>5, <1>6, <1>7, <1>8 DEF MirrorInv, DeletedAreAbsent, DeletedAreRetired

(* An operation begins: what its effects are and what was true before it.  *)
LEMMA MirrorOperation ==
  ASSUME StoreInv, RetainInv, MirrorInv, NEW r, NEW past, NEW asked,
         Answers(r, today, today', {r.open}, past, asked), Consistent(r, disk, listing), Runs(r),
         todo = <<>>, UNCHANGED <<disk, listing, queue, job, cloud, cloudListing, missed>>,
         process' = "stopping" => r.open = None, today' \in Nat, today <= today',
         \A d \in Days : \A k \in Folder(d) : Dropped(k) => d \in past,
         rec.open \in Segs => rec.open \in disk /\ rec.open \in asked,
         r.open \in Segs => /\ today <= DayOf(r.open) /\ DayOf(r.open) <= today'
                            /\ segCount < r.open[3]
  PROVE  MirrorInv'
<1>1. /\ r \in Recorder /\ Closed(r.ops, {r.open})
      /\ InDayOrder(r.kept, today) /\ r.pl.day <= today' /\ r.curDay <= today'
      /\ \A d \in Days : (d \in past \/ \E k \in Folder(d) : Dels(r.ops, k)) => Retired(r, today, d)
      /\ \A d \in past \cap Days : \A k \in Folder(d) : ~Remakes(r.ops, k)
      /\ \A k \in asked : \E j \in 1..Len(r.ops) : Settles(r.ops[j], k)
  BY DEF Answers
<1>2. /\ DaysAdvance /\ DeletedAreAbsent /\ DeletedAreRetired /\ Mirrored
  BY DEF MirrorInv
<1>3. /\ todo' = r.ops /\ rec'.kept = r.kept /\ rec'.pl = r.pl /\ rec'.open = r.open
      /\ rec'.curDay = r.curDay /\ r.kept \in Seq(Item)
  BY <1>1, RecorderFacts DEF Runs, Recorder
<1>4. /\ \A k, del : Queued(k, del)' <=> Queued(k, del)
      /\ \A k, del : InHand(k, del)' <=> InHand(k, del)
  BY DEF Queued, InHand
<1>5. /\ today \in Days /\ today \in Nat /\ segCount \in Nat /\ rec \in Recorder
      /\ \A s \in Recorded : s[3] <= segCount
  BY DEF StoreInv, Days
<1>6. rec.open \in Segs \cup {None} /\ r.open \in Segs \cup {None}
  BY <1>1, <1>5, RecorderFacts
<1>7. Len(todo) = 0
  OBVIOUS
<1>8. \A k : Dropped(k) <=> Queued(k, TRUE) \/ InHand(k, TRUE)
  BY <1>7 DEF Dropped, Dels
<1>9. \A k : Dropped(k)' <=> Dels(r.ops, k) \/ Dropped(k)
  BY <1>3, <1>4, <1>8 DEF Dropped, Dels
<1>10. ASSUME NEW i \in 1..Len(r.kept) PROVE DayOf(r.kept[i].seg) \in Nat
  BY <1>3, ItemFacts, SegFacts DEF Days
<1>11. ASSUME NEW t \in Nat, today <= t PROVE InDayOrder(r.kept, t)
  BY <1>1, <1>5, <1>10, <1>11 DEF InDayOrder
<1>12. Chronological(rec', today')
  <2>1. r.open # None => DayOf(r.open) \in Nat /\ today <= DayOf(r.open)
    BY <1>6, SegFacts DEF Days
  <2> QED BY <1>1, <1>3, <1>11, <2>1 DEF Chronological
<1>13. DaysAdvance'
  <2>1. \A s \in Recorded' : s \in Recorded \/ (s = r.open /\ s \in Segs)
    BY <1>3, <1>6 DEF Recorded
  <2>2. \A s \in Recorded : s \in Segs
    BY <1>6 DEF Recorded
  <2>3. \A s \in Segs : DayOf(s) \in Nat /\ s[3] \in Nat
    BY SegFacts, StoreAssumption DEF Days
  <2>4. ASSUME NEW s \in Recorded', NEW t \in Recorded'
        PROVE  DayOf(s) <= today' /\ (s[3] < t[3] => DayOf(s) <= DayOf(t))
    <3>1. s \in Recorded => DayOf(s) <= today
      BY <1>2 DEF DaysAdvance
    <3>2. s \in Recorded /\ t \in Recorded => (s[3] < t[3] => DayOf(s) <= DayOf(t))
      BY <1>2 DEF DaysAdvance
    <3>3. s \in Segs /\ t \in Segs
      BY <2>1, <2>2
    <3>4. /\ s \in Recorded => s[3] <= segCount
          /\ t \in Recorded => t[3] <= segCount
      BY <1>5
    <3>5. DayOf(s) \in Nat /\ s[3] \in Nat /\ DayOf(t) \in Nat /\ t[3] \in Nat
      BY <2>3, <3>3
    <3>6. CASE s \in Recorded /\ t \in Recorded
      BY <1>5, <3>1, <3>2, <3>5, <3>6
    <3>7. CASE s \in Recorded /\ t = r.open
      BY <1>5, <3>1, <3>3, <3>5, <3>7
    <3>8. CASE s = r.open /\ t \in Recorded
      BY <1>5, <3>3, <3>4, <3>5, <3>8
    <3>9. CASE s = r.open /\ t = r.open
      BY <3>3, <3>5, <3>9
    <3> QED BY <2>1, <3>6, <3>7, <3>8, <3>9
  <2> QED BY <2>4 DEF DaysAdvance
<1>14. RemovedForGood(todo') /\ AskedFor(todo', {rec'.open}) /\ RemovedFirst(todo', Absent')
  <2>1. RemovedFirst(r.ops, {}) => \A X : RemovedFirst(r.ops, X)
    BY DEF RemovedFirst
  <2> QED BY <1>1, <1>3, <2>1 DEF Closed
(* What is dropped is not made again. *)
<1>15. ASSUME NEW k \in Keys, Dropped(k) PROVE k \in Absent'
  <2>1. k \notin disk
    BY <1>2, <1>8, <1>15 DEF DeletedAreAbsent, Absent
  <2>2. ~Remakes(r.ops, k)
    <3>1. CASE k \in Segs
      <4>1. k[3] <= segCount /\ k[3] \in Nat
        BY <1>15, <3>1, SegFacts, StoreAssumption DEF RetainInv, RequestsAreOld
      <4>2. k # r.open
        BY <1>5, <3>1, <4>1
      <4>3. ~Creates(r.ops, k)
        BY <3>1, <4>2 DEF Consistent, FilesFollow
      <4>4. \A i \in 1..Len(r.ops) : r.ops[i].op = "index" => r.ops[i].key # k
        BY <1>1, <3>1, RecorderFacts, EffectFacts, SegFacts
      <4> QED BY <4>3, <4>4 DEF Remakes, Makes, Creates
    <3>2. CASE k \notin Segs
      <4>1. PICK d \in Days : k \in Folder(d)
        BY <3>2, FolderKeys
      <4>2. d \in past
        BY <1>15, <4>1
      <4> QED BY <1>1, <4>1, <4>2
    <3> QED BY <3>1, <3>2
  <2> QED BY <1>3, <2>1, <2>2 DEF Absent, Remakes
<1>16. DeletedAreAbsent'
  BY <1>4, <1>8, <1>14, <1>15 DEF DeletedAreAbsent, RemovedFirst
<1>17. DeletedAreRetired'
  <2> SUFFICES ASSUME NEW d \in Days, NEW k \in Folder(d), Dropped(k)'
               PROVE  Retired(rec', today', d)
    BY DEF DeletedAreRetired, Retired
  <2>1. Retired(r, today, d)
    BY <1>1, <1>9
  <2>2. d < today'
    BY <1>5, <2>1 DEF Retired, Days
  <2> QED BY <1>3, <2>1, <2>2 DEF Retired
<1>18. Mirrored'
  <2> SUFFICES ASSUME NEW k \in Keys, k \notin missed, k # rec'.open
               PROVE  IF k \in disk THEN Coming(k)' ELSE Leaving(k)'
    BY DEF Mirrored
  <2>1. CASE k = rec.open
    <3>1. k \in disk /\ k \in asked
      BY <1>6, <2>1, NoneIsNoKey
    <3>2. AskedLater(k)'
      BY <1>1, <1>3, <3>1 DEF AskedLater
    <3> QED BY <3>1, <3>2 DEF Coming
  <2>2. CASE k # rec.open
    <3>1. IF k \in disk THEN Coming(k) ELSE Leaving(k)
      BY <1>2, <2>2 DEF Mirrored
    <3>2. ~AskedLater(k)
      BY <1>7 DEF AskedLater
    <3>3. Delivered(k) <=> Delivered(k)'
      BY <1>4 DEF Delivered, Matches, Copied
    <3>4. CASE k \in disk
      BY <1>4, <3>1, <3>2, <3>3, <3>4 DEF Coming
    <3>5. CASE k \notin disk
      BY <1>4, <1>9, <3>1, <3>5 DEF Leaving
    <3> QED BY <3>4, <3>5
  <2> QED BY <2>1, <2>2
<1> QED BY <1>3, <1>12, <1>13, <1>14, <1>16, <1>17, <1>18 DEF MirrorInv

LEMMA MirrorStart == StoreInv /\ RetainInv /\ MirrorInv /\ Start => MirrorInv'
<1> SUFFICES ASSUME StoreInv, RetainInv, MirrorInv, Start PROVE MirrorInv'
  OBVIOUS
<1> DEFINE r == prune_retained(Found(disk))
<1>1. /\ process = "down" /\ process' = "up" /\ Runs(r) /\ todo = <<>>
      /\ UNCHANGED <<disk, listing, queue, job, cloud, cloudListing, missed, today>>
  BY DEF Start, Found
<1>2. /\ rec = NewRecorder /\ today \in Nat /\ rec.open = None
      /\ \A s, t \in Recorded : s[3] = t[3] => s = t
  BY <1>1, NewRecorderFacts DEF StoreInv, Days
<1>3. /\ \A s, t \in disk \cap Segs : s[3] = t[3] => s = t
      /\ \A s, t \in disk \cap Segs : DayOf(s) <= today /\ (s[3] < t[3] => DayOf(s) <= DayOf(t))
  BY <1>2 DEF Recorded, MirrorInv, DaysAdvance
<1>4. Answers(r, today, today, {}, {}, {})
  BY <1>2, <1>3, StartAnswers
<1>5. Fine(r, disk, listing)
  BY <1>3, StartFine
<1> HIDE DEF r
<1>6. Consistent(r, disk, listing) /\ r.open = None
  BY <1>5, FineConsistent DEF Fine, Between
<1>7. Answers(r, today, today', {r.open}, {}, {})
  BY <1>1, <1>4, AnswersMore
<1>8. \A k : ~Dropped(k)
  <2>1. queue = <<>> /\ job = None
    BY <1>1 DEF RetainInv
  <2>2. Len(queue) = 0 /\ Len(todo) = 0
    BY <1>1, <2>1
  <2> QED BY <2>1, <2>2 DEF Dropped, Dels, Queued, InHand
<1>9. \A s \in Segs : s # None
  BY SegFacts
<1> QED BY <1>1, <1>2, <1>6, <1>7, <1>8, <1>9, MirrorOperation

(* At rest the open segment is there, and closing it answers. *)
LEMMA MirrorAtRest ==
  ASSUME StoreInv, RetainInv, MirrorInv, AtRest, NEW t \in Nat, today <= t, NEW dur \in Durations
  PROVE  /\ rec \in Recorder /\ rec.ops = <<>> /\ Consistent(rec, disk, listing)
         /\ \E past, asked :
               /\ Answers(CloseSegment(rec, dur), today, t, {}, past, asked)
               /\ \A d \in Days : \A k \in Folder(d) : Dropped(k) => d \in past
               /\ rec.open \in Segs => rec.open \in disk /\ rec.open \in asked
<1> DEFINE past == {d \in Days : \E k \in Folder(d) : Dropped(k)}
<1>1. /\ rec \in Recorder /\ rec.ops = <<>> /\ today \in Days /\ today \in Nat
      /\ [rec EXCEPT !.ops = <<>>] = rec /\ todo = <<>> /\ process # "down"
  <2>1. /\ rec \in Recorder /\ rec.ops = <<>> /\ today \in Days /\ todo = <<>>
        /\ process # "down"
    BY DEF StoreInv, AtRest
  <2>2. today \in Nat
    BY <2>1 DEF Days
  <2> QED BY <2>1, <2>2, TodoFacts
<1>2. Consistent(rec, disk, listing)
  BY <1>1 DEF StoreInv
<1>3. /\ rec.kept \in Seq(Item) /\ rec.open \in Segs \cup {None}
      /\ rec.pl.day \in Days \cup {NoDay} /\ rec.curDay \in Days \cup {NoDay}
  BY <1>1, RecorderFacts
<1>4. /\ InDayOrder(rec.kept, today) /\ rec.pl.day <= today /\ rec.curDay <= today
      /\ (rec.open # None => InDayOrder(rec.kept, DayOf(rec.open)))
  BY DEF MirrorInv, Chronological
<1>5. rec.pl.day <= t /\ rec.curDay <= t
  BY <1>1, <1>3, <1>4 DEF Days, NoDay
<1>6. \A d \in past : Retired(rec, today, d)
  BY DEF MirrorInv, DeletedAreRetired
<1> HIDE DEF past
<1>7. Closed(rec.ops, {}) /\ (\A k : ~Dels(rec.ops, k) /\ ~Remakes(rec.ops, k))
  BY <1>1, EmptyClosed DEF Dels, Remakes
<1>8. Answers(rec, today, t, {}, past, {})
  BY <1>1, <1>4, <1>5, <1>6, <1>7 DEF Answers
<1>9. rec.open # None => /\ rec.pl.day = rec.curDay /\ rec.curDay \in Days
                         /\ DayOf(rec.open) = rec.curDay /\ rec.curDay <= today
                         /\ InDayOrder(rec.kept, rec.curDay)
  BY <1>2, <1>4 DEF Consistent, IndexFollows
<1> DEFINE z == CloseSegment(rec, dur)
<1>10. /\ Answers(z, today, t, {}, past, {})
       /\ rec.open # None => Answers(z, today, t, {}, past, {} \cup {rec.open})
  BY <1>1, <1>8, <1>9, CloseAnswers
<1>11. rec.open \in Segs => rec.open \in disk /\ rec.open # None
  BY <1>1, <1>2, NoEffects, SegFacts DEF Consistent, FilesFollow
<1>12. \A d \in Days : \A k \in Folder(d) : Dropped(k) => d \in past
  BY DEF past
<1> HIDE DEF z
<1>13. \E asked : Answers(z, today, t, {}, past, asked) /\ (rec.open \in Segs => rec.open \in asked)
  <2>1. CASE rec.open = None
    BY <1>10, <1>11, <2>1
  <2>2. CASE rec.open # None
    BY <1>10, <2>2
  <2> QED BY <2>1, <2>2
<1> QED BY <1>1, <1>2, <1>11, <1>12, <1>13 DEF z

LEMMA MirrorKeyFrame == StoreInv /\ RetainInv /\ MirrorInv /\ KeyFrame => MirrorInv'
<1> SUFFICES ASSUME StoreInv, RetainInv, MirrorInv, KeyFrame PROVE MirrorInv'
  OBVIOUS
<1>1. /\ AtRest /\ process' = "up"
      /\ UNCHANGED <<disk, listing, queue, job, cloud, cloudListing, missed>>
  BY DEF KeyFrame, AtRest
<1>2. /\ segCount \in Nat /\ (\A s \in Recorded : s[3] <= segCount)
      /\ today \in Days /\ today \in Nat /\ todo = <<>>
  BY <1>1 DEF StoreInv, AtRest, Days
<1>3. ASSUME NEW dur \in Durations, NEW day \in Days, NEW day2 \in Days, NEW outcome,
             today <= day, day <= day2, today' = day2,
             segCount' = segCount + (IF outcome = "ok" THEN 1 ELSE 0), segCount' <= MaxSegs,
             Runs(Opened(CloseSegment(rec, dur), day, day2, Seg(day, segCount + 1), outcome))
      PROVE  MirrorInv'
  <2> DEFINE closed == CloseSegment(rec, dur)
             s == Seg(day, segCount + 1)
             r == Opened(closed, day, day2, s, outcome)
  <2>1. day \in Nat /\ day2 \in Nat /\ today <= day2
    BY <1>2, <1>3 DEF Days
  <2>2. rec \in Recorder /\ rec.ops = <<>> /\ Consistent(rec, disk, listing)
    BY <1>1, <1>2, MirrorAtRest
  <2>3. PICK past, asked :
          /\ Answers(closed, today, day2, {}, past, asked)
          /\ \A d \in Days : \A k \in Folder(d) : Dropped(k) => d \in past
          /\ rec.open \in Segs => rec.open \in disk /\ rec.open \in asked
    BY <1>1, <2>1, MirrorAtRest
  <2>4. Fine(closed, disk, listing)
    BY <2>2, CloseFine
  <2>5. s[3] = segCount + 1 /\ DayOf(s) = day
    BY KeyFacts
  <2>6. outcome = "ok" => s \in Segs
    <3>1. CASE outcome = "ok"
      <4>1. segCount + 1 <= MaxSegs
        BY <1>3, <3>1
      <4>2. segCount + 1 \in 1..MaxSegs
        BY <1>2, <4>1, StoreAssumption
      <4> QED BY <4>2 DEF Segs
    <3> QED BY <3>1
  <2>7. Runs(r)
    BY <1>3
  <2> HIDE DEF closed, s
  <2>8. s \in Segs => s \notin disk
    <3>1. ~(segCount + 1 <= segCount)
      BY <1>2
    <3>2. \A t \in disk \cap Segs : t[3] <= segCount
      BY <1>2 DEF Recorded
    <3> QED BY <2>5, <3>1, <3>2
  <2>9. /\ Consistent(r, disk, listing)
        /\ r.open \in {None} \cup (IF outcome = "ok" THEN {s} ELSE {})
    BY <2>4, <2>5, <2>6, <2>8, OpenedConsistent
  <2>10. outcome = "ok" /\ r.open = s => ~Unlinks(r.ops, s)
    BY <2>6, <2>9 DEF Consistent, FilesFollow
  <2>11. Answers(r, today, day2, {r.open}, past, asked)
    BY <1>2, <1>3, <2>1, <2>3, <2>6, <2>10, OpenedAnswers
  <2> HIDE DEF r
  <2>12. r.open \in Segs => /\ today <= DayOf(r.open) /\ DayOf(r.open) <= today'
                            /\ segCount < r.open[3]
    <3>1. r.open \in Segs => r.open = s
      BY <2>9, SegFacts
    <3>2. segCount < segCount + 1
      BY <1>2
    <3> QED BY <1>3, <2>5, <3>1, <3>2
  <2> QED BY <1>1, <1>2, <1>3, <2>1, <2>3, <2>7, <2>9, <2>11, <2>12, MirrorOperation
<1>4. \A x \in today..MaxDay : x \in Days /\ today <= x
  BY <1>2, StoreAssumption DEF Days
<1>5. PICK dur \in Durations, day \in today..MaxDay, day2 \in today..MaxDay,
           outcome \in {"ok", "no session", "no day session", "no segment"} :
        /\ day <= day2
        /\ segCount' = segCount + (IF outcome = "ok" THEN 1 ELSE 0)
        /\ segCount' <= MaxSegs
        /\ Runs(Opened(CloseSegment(rec, dur), day, day2, Seg(day, segCount + 1), outcome))
        /\ today' = day2
  BY DEF KeyFrame
<1>6. day \in Days /\ day2 \in Days /\ today <= day
  BY <1>4, Zenon
<1> QED BY <1>3, <1>5, <1>6, Zenon

LEMMA MirrorStop == StoreInv /\ RetainInv /\ MirrorInv /\ Stop => MirrorInv'
<1> SUFFICES ASSUME StoreInv, RetainInv, MirrorInv, Stop PROVE MirrorInv'
  OBVIOUS
<1>1. /\ AtRest
      /\ UNCHANGED <<disk, listing, queue, job, cloud, cloudListing, missed, today>>
  BY DEF Stop
<1>2. today \in Nat /\ todo = <<>>
  BY <1>1 DEF StoreInv, AtRest, Days
<1>3. PICK dur \in Durations :
        Runs([EndPlaylist(EndPlaylist(CloseSegment(rec, dur))) EXCEPT !.session = FALSE])
  BY DEF Stop
<1> DEFINE closed == CloseSegment(rec, dur)
           y == EndPlaylist(EndPlaylist(closed))
           r == [y EXCEPT !.session = FALSE]
<1>4. rec \in Recorder /\ rec.ops = <<>> /\ Consistent(rec, disk, listing)
  BY <1>1, <1>2, MirrorAtRest
<1>5. PICK past, asked :
        /\ Answers(closed, today, today, {}, past, asked)
        /\ \A d \in Days : \A k \in Folder(d) : Dropped(k) => d \in past
        /\ rec.open \in Segs => rec.open \in disk /\ rec.open \in asked
  BY <1>1, <1>2, MirrorAtRest
<1>6. Fine(closed, disk, listing)
  BY <1>4, CloseFine
<1>7. Runs(r)
  BY <1>3
<1> HIDE DEF closed
<1>8. Between(y, disk)
  BY <1>6, EndBetween DEF Fine
<1>9. Answers(y, today, today, {}, past, asked)
  BY <1>5, EndAnswers
<1> HIDE DEF y
<1>10. /\ r \in Recorder /\ r.kept = y.kept /\ r.open = y.open /\ r.ops = y.ops /\ r.pl = y.pl
       /\ r.curDay = y.curDay /\ r.session = FALSE
  BY <1>8 DEF Between, Recorder
<1> HIDE DEF r
<1>11. Between(r, disk)
  <2>1. r.pl.day = NoDay => r.pl.list = <<>>
    BY <1>8, <1>10 DEF Between
  <2> QED BY <1>8, <1>10, <2>1, BetweenWith
<1>12. Consistent(r, disk, listing) /\ r.open = None
  BY <1>10, <1>11, FineConsistent DEF Fine, Between
<1>13. Answers(r, today, today, {}, past, asked)
  <2>1. \A d \in Days : Retired(y, today, d) => Retired(r, today, d)
    BY <1>10 DEF Retired
  <2>2. InDayOrder(r.kept, today) /\ r.pl.day <= today /\ r.curDay <= today
    BY <1>9, <1>10 DEF Answers
  <2> QED BY <1>9, <1>10, <2>1, <2>2, AnswersWith
<1>14. Answers(r, today, today', {r.open}, past, asked)
  BY <1>1, <1>13, AnswersMore
<1>15. /\ today' \in Nat /\ today <= today' /\ r.open \notin Segs
  BY <1>1, <1>2, <1>12, SegFacts
<1> QED BY <1>1, <1>2, <1>5, <1>7, <1>12, <1>14, <1>15, MirrorOperation

(* The process has gone, and nothing that it had to do is not missed. *)
LEMMA MirrorDown ==
  ASSUME StoreInv, MirrorInv, rec' = NewRecorder, todo' = <<>>, queue' = <<>>, job' = None,
         process' = "down", UNCHANGED <<disk, listing, cloud, cloudListing, today>>,
         missed \subseteq missed',
         \A k \in Keys \ missed' : /\ k # rec.open /\ ~AskedLater(k) /\ ~Dropped(k)
                                   /\ ~Queued(k, FALSE) /\ ~InHand(k, FALSE)
  PROVE  MirrorInv'
<1>1. /\ Len(todo') = 0 /\ Len(queue') = 0 /\ rec'.open = None /\ rec'.pl.day = NoDay
      /\ rec'.curDay = NoDay /\ rec'.kept = <<>>
  BY NewRecorderFacts DEF NewRecorder
<1>2. \A k, del : ~Queued(k, del)' /\ ~InHand(k, del)'
  BY <1>1 DEF Queued, InHand
<1>3. \A k : ~Dropped(k)'
  <2>1. \A k : ~Dels(todo', k)
    BY <1>1 DEF Dels
  <2> QED BY <1>2, <2>1 DEF Dropped, Dels
<1>4. today \in Nat
  BY DEF StoreInv, Days
<1>5. DaysAdvance'
  <2>1. Recorded' \subseteq Recorded
    BY <1>1 DEF Recorded
  <2> QED BY <2>1 DEF MirrorInv, DaysAdvance
<1>6. Chronological(rec', today')
  BY <1>1, <1>4 DEF Chronological, InDayOrder, NoDay
<1>7. RemovedForGood(todo') /\ RemovedFirst(todo', Absent') /\ AskedFor(todo', {rec'.open})
  BY <1>1 DEF RemovedForGood, RemovedFirst, AskedFor
<1>8. DeletedAreAbsent' /\ DeletedAreRetired'
  BY <1>2, <1>3, <1>7 DEF DeletedAreAbsent, DeletedAreRetired, RemovedFirst
<1>9. Mirrored'
  <2> SUFFICES ASSUME NEW k \in Keys, k \notin missed'
               PROVE  IF k \in disk THEN Coming(k)' ELSE Leaving(k)'
    BY DEF Mirrored
  <2>1. IF k \in disk THEN Coming(k) ELSE Leaving(k)
    BY DEF MirrorInv, Mirrored
  <2>2. CASE k \in disk
    <3>1. Copied(k)
      BY <2>1, <2>2 DEF Coming, Delivered
    <3>2. Copied(k)'
      BY <3>1 DEF Copied, Matches
    <3> QED BY <1>2, <2>2, <3>2 DEF Coming, Delivered
  <2>3. CASE k \notin disk
    BY <1>2, <2>1, <2>3 DEF Leaving
  <2> QED BY <2>2, <2>3
<1> QED BY <1>1, <1>5, <1>6, <1>7, <1>8, <1>9 DEF MirrorInv

LEMMA MirrorStopped == StoreInv /\ MirrorInv /\ Stopped => MirrorInv'
<1> SUFFICES ASSUME StoreInv, MirrorInv, Stopped PROVE MirrorInv'
  OBVIOUS
<1>1. /\ process = "stopping" /\ todo = <<>> /\ queue = <<>> /\ job = None
      /\ process' = "down" /\ rec' = NewRecorder
      /\ UNCHANGED <<disk, listing, todo, queue, job, cloud, cloudListing, today, missed>>
  BY DEF Stopped
<1>2. Len(todo) = 0 /\ Len(queue) = 0 /\ rec.open = None
  BY <1>1 DEF MirrorInv
<1>3. \A k : ~AskedLater(k) /\ ~Dropped(k) /\ ~Queued(k, FALSE) /\ ~InHand(k, FALSE)
  BY <1>1, <1>2 DEF AskedLater, Dropped, Dels, Queued, InHand
<1> QED BY <1>1, <1>2, <1>3, NoneIsNoKey, MirrorDown

LEMMA MirrorCrash == StoreInv /\ TypesInv /\ MirrorInv /\ Crash => MirrorInv'
<1> SUFFICES ASSUME StoreInv, TypesInv, MirrorInv, Crash PROVE MirrorInv'
  OBVIOUS
<1>1. /\ process' = "down" /\ rec' = NewRecorder /\ todo' = <<>> /\ queue' = <<>> /\ job' = None
      /\ UNCHANGED <<disk, listing, cloud, cloudListing, today>>
  BY DEF Crash
<1>2. missed' = missed \cup {todo[i].key : i \in DOMAIN todo}
                       \cup {queue[i].key : i \in DOMAIN queue}
                       \cup (IF job = None THEN {} ELSE {job.key})
                       \cup ({rec.open} \ {None})
  BY DEF Crash
<1>3. DOMAIN todo = 1..Len(todo) /\ DOMAIN queue = 1..Len(queue)
  BY DEF StoreInv, TypesInv
<1>4. ASSUME NEW k \in Keys, k \notin missed'
      PROVE  /\ k # rec.open /\ ~AskedLater(k) /\ ~Dropped(k)
             /\ ~Queued(k, FALSE) /\ ~InHand(k, FALSE)
  <2>1. k # rec.open
    BY <1>2, <1>4, NoneIsNoKey
  <2>2. \A i \in 1..Len(todo) : todo[i].key # k
    BY <1>2, <1>3, <1>4
  <2>3. \A i \in 1..Len(queue) : queue[i].key # k
    BY <1>2, <1>3, <1>4
  <2>4. \A del : ~InHand(k, del)
    BY <1>2, <1>4 DEF InHand
  <2>5. \A del : ~Queued(k, del)
    BY <2>3 DEF Queued
  <2>6. ~AskedLater(k) /\ ~Dels(todo, k)
    BY <2>2 DEF AskedLater, Dels, Settles
  <2> QED BY <2>1, <2>4, <2>5, <2>6 DEF Dropped
<1>5. missed \subseteq missed'
  BY <1>2
<1> QED BY <1>1, <1>4, <1>5, MirrorDown

(* The writer's next effect. *)
LEMMA MirrorWriter == StoreInv /\ TypesInv /\ MirrorInv /\ WriterStep => MirrorInv'
<1> SUFFICES ASSUME StoreInv, TypesInv, MirrorInv, WriterStep PROVE MirrorInv'
  OBVIOUS
<1> DEFINE e == Head(todo)
           n == Len(todo')
           new == [key |-> e.key, remove |-> e.op = "del"]
<1>1. /\ todo # <<>> /\ todo' = Tail(todo) /\ listing' = IndexesAfter(e, listing)
      /\ disk' = FilesAfter(e, disk)
      /\ (e.op \in {"put", "del"} => Enqueue(e))
      /\ (e.op \notin {"put", "del"} => UNCHANGED <<queue, missed>>)
      /\ UNCHANGED <<rec, process, job, cloud, cloudListing, today>>
  BY DEF WriterStep, IndexesAfter, FilesAfter
<1>2. /\ todo \in Seq(Effects) /\ listing \in [Days -> Listing \cup {None}] /\ rec \in Recorder
      /\ (process = "down" => todo = <<>>)
      /\ queue \in Seq([key : Keys, remove : BOOLEAN])
  BY DEF StoreInv, TypesInv
<1>3. /\ e \in Effects /\ n \in Nat /\ Len(todo) = n + 1 /\ todo[1] = e /\ 1 \in 1..Len(todo)
      /\ \A i \in 1..n : todo'[i] = todo[i + 1] /\ i + 1 \in 1..Len(todo)
      /\ \A i \in 1..Len(todo) : i = 1 \/ (i - 1 \in 1..n /\ todo'[i - 1] = todo[i])
  BY <1>1, <1>2
<1>4. /\ RemovedForGood(todo) /\ AskedFor(todo, {rec.open}) /\ RemovedFirst(todo, Absent)
      /\ \A k \in Keys : Queued(k, TRUE) \/ InHand(k, TRUE) => k \in Absent
      /\ DaysAdvance /\ DeletedAreRetired /\ Mirrored
  BY DEF MirrorInv, DeletedAreAbsent
<1>5. /\ \/ queue' = queue /\ (e.op \in {"put", "del"} => e.key \in missed')
         \/ e.op \in {"put", "del"} /\ queue' = Append(queue, new)
      /\ missed \subseteq missed'
  <2>1. CASE e.op \in {"put", "del"}
    BY <1>1, <2>1 DEF Enqueue
  <2>2. CASE e.op \notin {"put", "del"}
    BY <1>1, <2>2
  <2> QED BY <2>1, <2>2
<1>6. new \in [key : Keys, remove : BOOLEAN] /\ new.key = e.key /\ new.remove = (e.op = "del")
  BY <1>3, EffectFacts
<1>7. /\ e.op \in {"create", "unlink", "index", "put", "del"} /\ e.key \in Keys
      /\ (e.op = "index" => e.key \notin Segs)
  BY <1>3, EffectFacts, SegFacts
<1> HIDE DEF e, n, new
<1>8. ASSUME NEW k, NEW del \in BOOLEAN
      PROVE  /\ Queued(k, del) => Queued(k, del)'
             /\ Queued(k, del)' =>
                   Queued(k, del) \/ (e.op \in {"put", "del"} /\ k = e.key /\ del = (e.op = "del"))
             /\ e.op = (IF del THEN "del" ELSE "put") /\ k = e.key =>
                   Queued(k, del)' \/ k \in missed'
  <2>1. CASE queue' = queue /\ (e.op \in {"put", "del"} => e.key \in missed')
    BY <2>1 DEF Queued
  <2>2. CASE e.op \in {"put", "del"} /\ queue' = Append(queue, new)
    <3>1. /\ Len(queue') = Len(queue) + 1 /\ queue'[Len(queue) + 1] = new
          /\ \A i \in 1..Len(queue) : queue'[i] = queue[i]
          /\ Len(queue) \in Nat
      BY <1>2, <1>6, <2>2
    <3>2. \A i \in 1..Len(queue') : i \in 1..Len(queue) \/ i = Len(queue) + 1
      BY <3>1
    <3>3. Len(queue) + 1 \in 1..Len(queue') /\ \A i \in 1..Len(queue) : i \in 1..Len(queue')
      BY <3>1
    <3>4. Queued(k, del) => Queued(k, del)'
      BY <3>1, <3>3 DEF Queued
    <3>5. Queued(k, del)' => Queued(k, del) \/ (k = e.key /\ del = (e.op = "del"))
      BY <1>6, <3>1, <3>2 DEF Queued
    <3>6. e.op = (IF del THEN "del" ELSE "put") /\ k = e.key => Queued(k, del)'
      <4>1. e.op = (IF del THEN "del" ELSE "put") => new.remove = del
        BY <1>6
      <4> QED BY <1>6, <3>1, <3>3, <4>1 DEF Queued
    <3> QED BY <2>2, <3>4, <3>5, <3>6
  <2> QED BY <1>5, <2>1, <2>2
<1>9. \A k, del : InHand(k, del)' <=> InHand(k, del)
  BY <1>1 DEF InHand
(* The effects of todo', seen in todo. *)
<1>10. ASSUME NEW k
       PROVE  /\ Remakes(todo, k) <=> Makes(e, k) \/ Remakes(todo', k)
              /\ Dels(todo, k) <=> Deletes(e, k) \/ Dels(todo', k)
              /\ AskedLater(k) <=> Settles(e, k) \/ AskedLater(k)'
  <2>1. Remakes(todo, k) => Makes(e, k) \/ Remakes(todo', k)
    BY <1>3 DEF Remakes, n
  <2>2. Makes(e, k) \/ Remakes(todo', k) => Remakes(todo, k)
    BY <1>3 DEF Remakes, n
  <2>3. Dels(todo, k) => Deletes(e, k) \/ Dels(todo', k)
    BY <1>3 DEF Dels, Deletes, n
  <2>4. Deletes(e, k) \/ Dels(todo', k) => Dels(todo, k)
    BY <1>3 DEF Dels, Deletes, n
  <2>5. AskedLater(k) => Settles(e, k) \/ AskedLater(k)'
    BY <1>3 DEF AskedLater, n
  <2>6. Settles(e, k) \/ AskedLater(k)' => AskedLater(k)
    BY <1>3 DEF AskedLater, n
  <2> QED BY <2>1, <2>2, <2>3, <2>4, <2>5, <2>6
<1>11. ASSUME NEW k \in Keys, Makes(e, k), k # rec.open PROVE AskedLater(k)'
  <2>1. PICK j \in 1..Len(todo) : 1 < j /\ Settles(todo[j], k)
    BY <1>3, <1>4, <1>11 DEF AskedFor
  <2> QED BY <1>3, <2>1 DEF AskedLater, n
<1>12. ASSUME NEW k \in Keys, Unlink(e, k) PROVE Dels(todo', k) /\ ~Remakes(todo', k)
  <2>1. PICK j \in 1..Len(todo) : 1 < j /\ Deletes(todo[j], k)
    BY <1>3, <1>4, <1>12 DEF RemovedForGood
  <2>2. \A i \in 1..Len(todo) : 1 < i => ~Makes(todo[i], k)
    BY <1>3, <1>4, <1>12 DEF RemovedForGood
  <2>3. Dels(todo', k)
    BY <1>3, <2>1 DEF Dels, Deletes, n
  <2>4. \A i \in 1..n : 1 < i + 1
    BY <1>3
  <2>5. ~Remakes(todo', k)
    BY <1>3, <2>2, <2>4 DEF Remakes, n
  <2> QED BY <2>3, <2>5
<1>13. ASSUME NEW k \in Keys
       PROVE  k \in disk' <=> Makes(e, k) \/ (k \in disk /\ ~Unlink(e, k))
  BY <1>1, <1>7 DEF FilesAfter, Makes, Unlink
<1>14. ASSUME NEW k \in Keys, k \in Absent \/ Unlink(e, k) PROVE k \in Absent'
  <2>1. CASE k \in Absent
    <3>1. k \notin disk /\ ~Remakes(todo, k)
      BY <2>1 DEF Absent
    <3>2. k \notin disk' /\ ~Remakes(todo', k)
      BY <1>10, <1>13, <3>1
    <3> QED BY <3>2 DEF Absent, Remakes
  <2>2. CASE Unlink(e, k)
    <3>1. ~Makes(e, k)
      BY <2>2 DEF Unlink, Makes
    <3>2. k \notin disk' /\ ~Remakes(todo', k)
      BY <1>12, <1>13, <2>2, <3>1
    <3> QED BY <3>2 DEF Absent, Remakes
  <2> QED BY <1>14, <2>1, <2>2
<1>15. RemovedForGood(todo')
  <2> SUFFICES ASSUME NEW i \in 1..n, NEW k \in Keys, Unlink(todo'[i], k)
               PROVE  /\ \E j \in 1..n : i < j /\ Deletes(todo'[j], k)
                      /\ \A j \in 1..n : i < j => ~Makes(todo'[j], k)
    BY DEF RemovedForGood, n
  <2>1. i + 1 \in 1..Len(todo) /\ Unlink(todo[i + 1], k)
    BY <1>3
  <2>2. PICK j \in 1..Len(todo) : i + 1 < j /\ Deletes(todo[j], k)
    BY <1>4, <2>1 DEF RemovedForGood
  <2>3. \A m \in 1..Len(todo) : i + 1 < m => ~Makes(todo[m], k)
    BY <1>4, <2>1 DEF RemovedForGood
  <2>4. j - 1 \in 1..n /\ i < j - 1 /\ Deletes(todo'[j - 1], k)
    BY <1>3, <2>2
  <2>5. \A m \in 1..n : i < m => ~Makes(todo'[m], k)
    BY <1>3, <2>3
  <2> QED BY <2>4, <2>5
<1>16. AskedFor(todo', {rec.open})
  <2> SUFFICES ASSUME NEW i \in 1..n, NEW k \in Keys \ {rec.open}, Makes(todo'[i], k)
               PROVE  \E j \in 1..n : i < j /\ Settles(todo'[j], k)
    BY DEF AskedFor, n
  <2>1. i + 1 \in 1..Len(todo) /\ Makes(todo[i + 1], k)
    BY <1>3
  <2>2. PICK j \in 1..Len(todo) : i + 1 < j /\ Settles(todo[j], k)
    BY <1>4, <2>1 DEF AskedFor
  <2>3. j - 1 \in 1..n /\ i < j - 1 /\ Settles(todo'[j - 1], k)
    BY <1>3, <2>2
  <2> QED BY <2>3
<1>17. RemovedFirst(todo', Absent')
  <2> SUFFICES ASSUME NEW i \in 1..n, NEW k \in Keys, Deletes(todo'[i], k), k \notin Absent'
               PROVE  \E j \in 1..n : j < i /\ Unlink(todo'[j], k)
    BY DEF RemovedFirst, n
  <2>1. i + 1 \in 1..Len(todo) /\ Deletes(todo[i + 1], k)
    BY <1>3
  <2>2. k \notin Absent /\ ~Unlink(e, k)
    BY <1>14
  <2>3. PICK j \in 1..Len(todo) : j < i + 1 /\ Unlink(todo[j], k)
    BY <1>4, <2>1, <2>2 DEF RemovedFirst
  <2>4. j # 1
    BY <1>3, <2>2, <2>3
  <2>5. j - 1 \in 1..n /\ j - 1 < i /\ Unlink(todo'[j - 1], k)
    BY <1>3, <2>3, <2>4
  <2> QED BY <2>5
<1>18. ASSUME NEW k \in Keys, Deletes(e, k) PROVE k \in Absent
  BY <1>3, <1>4, <1>18 DEF RemovedFirst
<1>19. \A k \in Keys : (Queued(k, TRUE) \/ InHand(k, TRUE))' => k \in Absent'
  <2> SUFFICES ASSUME NEW k \in Keys, Queued(k, TRUE)' \/ InHand(k, TRUE)' PROVE k \in Absent'
    OBVIOUS
  <2>1. Queued(k, TRUE) \/ InHand(k, TRUE) \/ Deletes(e, k)
    BY <1>8, <1>9 DEF Deletes
  <2> QED BY <1>4, <1>14, <1>18, <2>1
<1>20. DeletedAreAbsent'
  BY <1>17, <1>19 DEF DeletedAreAbsent, RemovedFirst
<1>21. ASSUME NEW k \in Keys, Dropped(k)' PROVE Dropped(k)
  <2>1. Dels(todo', k) \/ Queued(k, TRUE)' \/ InHand(k, TRUE)'
    BY <1>21 DEF Dropped, Dels
  <2>2. Dels(todo, k) \/ Queued(k, TRUE) \/ InHand(k, TRUE)
    BY <1>8, <1>9, <1>10, <2>1 DEF Deletes
  <2> QED BY <2>2 DEF Dropped
<1>22. DeletedAreRetired'
  <2> SUFFICES ASSUME NEW d \in Days, NEW k \in Folder(d), Dropped(k)' PROVE Retired(rec, today, d)
    BY <1>1 DEF DeletedAreRetired
  <2>1. k \in Keys
    BY FolderKeys
  <2> QED BY <1>4, <1>21, <2>1 DEF DeletedAreRetired
<1>23. DaysAdvance'
  <2>1. Recorded' \subseteq Recorded
    <3> SUFFICES ASSUME NEW s \in disk' \cap Segs, s \notin disk PROVE s = rec.open /\ s # None
      BY <1>1 DEF Recorded
    <3>1. s \in Keys /\ s # None
      BY SegFacts
    <3>2. Makes(e, s)
      BY <1>13, <3>1
    <3>3. Creates(todo, s)
      BY <1>3, <1>7, <3>2 DEF Makes, Creates
    <3>4. process # "down"
      BY <1>1, <1>2
    <3> DEFINE r == [rec EXCEPT !.ops = todo]
    <3>5. Consistent(r, disk, listing) /\ r.ops = todo /\ r.open = rec.open
      BY <1>2, <3>4 DEF StoreInv, Recorder
    <3> HIDE DEF r
    <3> QED BY <3>1, <3>3, <3>5 DEF Consistent, FilesFollow
  <2> QED BY <1>1, <1>4, <2>1 DEF DaysAdvance
<1>24. Mirrored'
  <2> SUFFICES ASSUME NEW k \in Keys, k \notin missed', k # rec.open
               PROVE  IF k \in disk' THEN Coming(k)' ELSE Leaving(k)'
    BY <1>1 DEF Mirrored
  <2>1. CASE Makes(e, k)
    BY <1>11, <1>13, <2>1 DEF Coming
  <2>2. CASE Unlink(e, k)
    <3>1. ~Makes(e, k)
      BY <2>2 DEF Unlink, Makes
    <3>2. Dropped(k)'
      BY <1>12, <2>2 DEF Dropped, Dels
    <3> QED BY <1>13, <2>2, <3>1, <3>2 DEF Leaving
  <2>3. CASE ~Makes(e, k) /\ ~Unlink(e, k)
    <3>1. k \in disk' <=> k \in disk
      BY <1>13, <2>3
    <3>2. IF k \in disk THEN Coming(k) ELSE Leaving(k)
      BY <1>4, <1>5 DEF Mirrored
    <3>3. Kind(k) = "index" => listing'[DayOf(k)] = listing[DayOf(k)]
      <4> SUFFICES ASSUME Kind(k) = "index" PROVE listing'[DayOf(k)] = listing[DayOf(k)]
        OBVIOUS
      <4>1. DayOf(k) \in Days /\ k = IndexKey(DayOf(k))
        BY IndexKeys
      <4>2. ~Touches(e, DayOf(k))
        BY <2>3, <4>1 DEF Touches, Makes, Unlink
      <4> QED BY <1>1, <1>2, <1>3, <4>1, <4>2, IndexAfter
    <3>4. \A l : Matches(k, l) <=> (Kind(k) = "index" => l = listing'[DayOf(k)])
      BY <3>3 DEF Matches
    <3>5. Delivered(k) <=> Delivered(k)'
      BY <1>1, <1>9, <3>4 DEF Delivered, Copied, Matches
    <3>6. /\ e.op = "put" /\ k = e.key => Queued(k, FALSE)'
          /\ e.op = "del" /\ k = e.key => Queued(k, TRUE)'
      BY <1>8
    <3>7. CASE k \in disk
      <4>1. Settles(e, k) => Queued(k, FALSE)'
        BY <2>3, <3>6 DEF Settles, Unlink
      <4>2. Queued(k, FALSE) => Queued(k, FALSE)'
        BY <1>8
      <4> QED BY <1>10, <3>1, <3>2, <3>5, <3>7, <4>1, <4>2 DEF Coming
    <3>8. CASE k \notin disk
      <4>1. Deletes(e, k) => Queued(k, TRUE)'
        BY <3>6 DEF Deletes
      <4>2. Dropped(k) => Dropped(k)'
        <5>1. Dropped(k) => Dels(todo', k) \/ Queued(k, TRUE)' \/ InHand(k, TRUE)'
          BY <1>8, <1>9, <1>10, <4>1 DEF Dropped
        <5> QED BY <5>1 DEF Dropped, Dels
      <4> QED BY <1>1, <1>9, <3>1, <3>2, <3>8, <4>2 DEF Leaving
    <3> QED BY <3>7, <3>8
  <2> QED BY <2>1, <2>2, <2>3
<1>25. /\ process' = "stopping" => rec'.open = None
       /\ Chronological(rec', today')
  BY <1>1 DEF MirrorInv
<1> QED BY <1>1, <1>15, <1>16, <1>20, <1>22, <1>23, <1>24, <1>25 DEF MirrorInv

(* The uploader leaves the card alone, and its deletions get fewer. *)
LEMMA MirrorFewer ==
  ASSUME MirrorInv, UNCHANGED <<disk, listing, rec, todo, process, today>>,
         \A k \in Keys : Queued(k, TRUE)' \/ InHand(k, TRUE)' => Queued(k, TRUE) \/ InHand(k, TRUE),
         Mirrored'
  PROVE  MirrorInv'
<1>1. /\ process = "stopping" => rec.open = None
      /\ DaysAdvance /\ Chronological(rec, today)
      /\ RemovedForGood(todo) /\ AskedFor(todo, {rec.open})
      /\ DeletedAreAbsent /\ DeletedAreRetired
  BY DEF MirrorInv
<1>2. DaysAdvance'
  BY <1>1 DEF DaysAdvance, Recorded
<1>3. \A k : k \in Absent <=> k \in Absent'
  BY DEF Absent, Remakes
<1>4. DeletedAreAbsent'
  BY <1>1, <1>3 DEF DeletedAreAbsent, RemovedFirst
<1>5. DeletedAreRetired'
  <2> SUFFICES ASSUME NEW d \in Days, NEW k \in Folder(d), Dropped(k)' PROVE Retired(rec, today, d)
    BY DEF DeletedAreRetired
  <2>1. Dropped(k)
    BY FolderKeys DEF Dropped, Dels
  <2> QED BY <1>1, <2>1 DEF DeletedAreRetired
<1> QED BY <1>1, <1>2, <1>4, <1>5 DEF MirrorInv

LEMMA MirrorTake == StoreInv /\ TypesInv /\ MirrorInv /\ Take => MirrorInv'
<1> SUFFICES ASSUME StoreInv, TypesInv, MirrorInv, Take PROVE MirrorInv'
  OBVIOUS
<1>1. /\ job = None /\ queue # <<>> /\ queue' = Tail(queue)
      /\ job' = [key |-> Head(queue).key, remove |-> Head(queue).remove, sent |-> FALSE,
                 body |-> None, tries |-> 0]
      /\ UNCHANGED <<disk, listing, rec, todo, process, today, cloud, cloudListing, missed>>
  BY DEF Take
<1>2. queue \in Seq([key : Keys, remove : BOOLEAN])
  BY DEF TypesInv
<1>3. /\ 1 \in 1..Len(queue) /\ queue[1] = Head(queue)
      /\ \A i \in 1..Len(queue') : i + 1 \in 1..Len(queue) /\ queue'[i] = queue[i + 1]
      /\ \A i \in 1..Len(queue) : i = 1 \/ (i - 1 \in 1..Len(queue') /\ queue'[i - 1] = queue[i])
  BY <1>1, <1>2
<1>4. /\ job'.key = queue[1].key /\ job'.remove = queue[1].remove /\ job'.sent = FALSE
      /\ job' # None
  BY <1>1, <1>3 DEF None
<1>5. \A k, del : Queued(k, del)' \/ InHand(k, del)' <=> Queued(k, del)
  <2>1. \A k, del : Queued(k, del)' \/ InHand(k, del)' => Queued(k, del)
    BY <1>3, <1>4 DEF Queued, InHand
  <2>2. \A k, del : Queued(k, del) => Queued(k, del)' \/ InHand(k, del)'
    BY <1>3, <1>4 DEF Queued, InHand
  <2> QED BY <2>1, <2>2
<1>6. \A k, del : ~InHand(k, del)
  BY <1>1 DEF InHand
<1>7. Mirrored'
  <2> SUFFICES ASSUME NEW k \in Keys, k \notin missed, k # rec.open
               PROVE  IF k \in disk THEN Coming(k)' ELSE Leaving(k)'
    BY <1>1 DEF Mirrored
  <2>1. IF k \in disk THEN Coming(k) ELSE Leaving(k)
    BY DEF MirrorInv, Mirrored
  <2>2. /\ Copied(k) <=> Copied(k)'
        /\ AskedLater(k) <=> AskedLater(k)'
        /\ Delivered(k)' <=> Copied(k)' \/ InHand(k, FALSE)'
        /\ Delivered(k) <=> Copied(k)
    BY <1>1, <1>4, <1>6 DEF Copied, Matches, AskedLater, Delivered
  <2>3. Dropped(k) <=> Dropped(k)'
    BY <1>1, <1>5, <1>6 DEF Dropped, Dels
  <2> QED BY <1>1, <1>4, <1>5, <2>1, <2>2, <2>3 DEF Coming, Leaving
<1>8. \A k \in Keys : Queued(k, TRUE)' \/ InHand(k, TRUE)' => Queued(k, TRUE) \/ InHand(k, TRUE)
  BY <1>5
<1> QED BY <1>1, <1>7, <1>8, MirrorFewer

(* A key that the worker's request is not about, the cloud keeping it as   *)
(* it was.                                                                 *)
LEMMA MirrorElsewhere ==
  ASSUME Mirrored, NEW k \in Keys, k \notin missed, k # rec.open,
         UNCHANGED <<disk, listing, todo, queue>>,
         \A del : ~InHand(k, del) /\ ~InHand(k, del)',
         k \in cloud' <=> k \in cloud,
         Kind(k) = "index" => cloudListing'[DayOf(k)] = cloudListing[DayOf(k)]
  PROVE  IF k \in disk THEN Coming(k)' ELSE Leaving(k)'
<1>1. IF k \in disk THEN Coming(k) ELSE Leaving(k)
  BY DEF Mirrored
<1>2. Delivered(k) => Delivered(k)'
  BY DEF Delivered, Copied, Matches
<1>3. \A del : Queued(k, del) <=> Queued(k, del)'
  BY DEF Queued
<1>4. AskedLater(k) <=> AskedLater(k)'
  BY DEF AskedLater
<1>5. Dropped(k) => Dropped(k)'
  BY <1>3 DEF Dropped, Dels
<1> QED BY <1>1, <1>2, <1>3, <1>4, <1>5 DEF Coming, Leaving

(* What is left of a key's deletion when a request that puts it is done. *)
LEMMA MirrorStillLeaving ==
  ASSUME Mirrored, NEW k \in Keys, k \notin missed, k # rec.open, k \notin disk,
         UNCHANGED <<todo, queue>>, ~InHand(k, TRUE),
         k \notin cloud /\ ~(InHand(k, FALSE) /\ job.sent) =>
            k \notin cloud' /\ ~(InHand(k, FALSE) /\ job.sent)'
  PROVE  Leaving(k)'
<1>1. Leaving(k)
  BY DEF Mirrored
<1>2. Dropped(k) => Dropped(k)'
  BY DEF Dropped, Dels, Queued
<1> QED BY <1>1, <1>2 DEF Leaving

(* An attempt has failed. *)
LEMMA FailedMissed ==
  ASSUME NEW undone, job \in Request, Failed(undone)
  PROVE  /\ missed \subseteq missed' /\ undone \subseteq missed'
         /\ job' = None /\ (job.remove \/ job.key \in disk) => job.key \in missed'
<1>1. CASE job.tries + 1 < Retries
  <2> DEFINE tries == job.tries + 1
             x == [job EXCEPT !.sent = FALSE, !.body = None, !.tries = tries]
  <2>1. tries \in Nat
    BY DEF Request
  <2>2. x \in Request
    BY <2>1 DEF Request
  <2>3. job' = x /\ missed' = missed \cup undone
    BY <1>1 DEF Failed
  <2> HIDE DEF x
  <2>4. x # None
    BY <2>2 DEF Request, None
  <2> QED BY <2>3, <2>4
<1>2. CASE ~(job.tries + 1 < Retries)
  BY <1>2 DEF Failed
<1> QED BY <1>1, <1>2

LEMMA MirrorSend == StoreInv /\ TypesInv /\ MirrorInv /\ Send => MirrorInv'
<1> SUFFICES ASSUME StoreInv, TypesInv, MirrorInv, Send PROVE MirrorInv'
  OBVIOUS
<1>1. /\ job # None /\ job \in Request /\ Mirrored
      /\ UNCHANGED <<disk, listing, rec, todo, process, today, queue, cloud, cloudListing>>
  BY DEF TypesInv, Send, MirrorInv
<1>2. \A k, del : Queued(k, del)' <=> Queued(k, del)
  BY <1>1 DEF Queued
<1>3. CASE job.remove \/ job.key \in disk
  <2> DEFINE body == IF ~job.remove /\ Kind(job.key) = "index" THEN listing[DayOf(job.key)] ELSE None
  <2>1. job' = [job EXCEPT !.sent = TRUE, !.body = body] /\ missed' = missed \ {job.key}
    BY <1>3 DEF Send
  <2>2. ~job.remove /\ Kind(job.key) = "index" => body = listing[DayOf(job.key)]
    OBVIOUS
  <2> HIDE DEF body
  <2>3. /\ job'.key = job.key /\ job'.remove = job.remove /\ job'.body = body /\ job'.sent
        /\ job' # None
    <3>1. job'.key = job.key /\ job'.remove = job.remove /\ job'.body = body /\ job'.sent
      BY <1>1, <2>1 DEF Request
    <3>2. DOMAIN job' = DOMAIN job /\ "key" \in DOMAIN job
      BY <1>1, <2>1 DEF Request
    <3>3. DOMAIN None = {}
      BY DEF None
    <3> QED BY <3>1, <3>2, <3>3
  <2>4. \A k, del : InHand(k, del)' <=> InHand(k, del)
    BY <1>1, <2>3 DEF InHand
  <2>5. Mirrored'
    <3> SUFFICES ASSUME NEW k \in Keys, k \notin missed', k # rec.open
                 PROVE  IF k \in disk THEN Coming(k)' ELSE Leaving(k)'
      BY <1>1 DEF Mirrored
    <3>1. CASE k # job.key
      <4>1. k \notin missed
        BY <2>1, <3>1
      <4>2. \A del : ~InHand(k, del) /\ ~InHand(k, del)'
        BY <2>4, <3>1 DEF InHand
      <4> QED BY <1>1, <4>1, <4>2, MirrorElsewhere
    <3>2. CASE k = job.key /\ job.remove
      <4>1. InHand(k, TRUE)
        BY <1>1, <3>2 DEF InHand, Request
      <4>2. k \notin disk
        BY <4>1 DEF MirrorInv, DeletedAreAbsent, Absent
      <4>3. Dropped(k)'
        BY <2>4, <4>1 DEF Dropped
      <4> QED BY <4>2, <4>3 DEF Leaving
    <3>3. CASE k = job.key /\ ~job.remove
      <4>1. k \in disk
        BY <1>3, <3>3
      <4>2. Kind(k) = "index" => job'.body = listing'[DayOf(k)]
        BY <1>1, <2>2, <2>3, <3>3
      <4>3. Delivered(k)'
        <5>1. InHand(k, FALSE)
          BY <1>1, <3>3 DEF InHand, Request
        <5> QED BY <2>3, <2>4, <4>2, <5>1 DEF Delivered, Matches
      <4> QED BY <4>1, <4>3 DEF Coming
    <3> QED BY <3>1, <3>2, <3>3
  <2> QED BY <1>1, <1>2, <2>4, <2>5, MirrorFewer
<1>4. CASE ~(job.remove \/ job.key \in disk)
  <2>1. Failed({})
    BY <1>4 DEF Send
  <2>2. /\ missed \subseteq missed'
        /\ job' # None => job'.key = job.key /\ job'.remove = job.remove /\ job'.sent = FALSE
    BY <1>1, <2>1, FailedMissed, FailedJob
  <2>3. \A k, del : InHand(k, del)' => InHand(k, del)
    BY <1>1, <2>2 DEF InHand
  <2>4. Mirrored'
    <3> SUFFICES ASSUME NEW k \in Keys, k \notin missed', k # rec.open
                 PROVE  IF k \in disk THEN Coming(k)' ELSE Leaving(k)'
      BY <1>1 DEF Mirrored
    <3>1. k \notin missed
      BY <2>2
    <3>2. CASE k # job.key
      <4>1. \A del : ~InHand(k, del) /\ ~InHand(k, del)'
        BY <2>3, <3>2 DEF InHand
      <4> QED BY <1>1, <3>1, <4>1, MirrorElsewhere
    <3>3. CASE k = job.key
      <4>1. k \notin disk /\ ~InHand(k, TRUE)
        BY <1>4, <3>3 DEF InHand
      <4>2. ~(InHand(k, FALSE) /\ job.sent)'
        BY <2>2 DEF InHand
      <4> QED BY <1>1, <3>1, <4>1, <4>2, MirrorStillLeaving
    <3> QED BY <3>2, <3>3
  <2> QED BY <1>1, <1>2, <2>3, <2>4, MirrorFewer
<1> QED BY <1>3, <1>4

(* What the server carries out for one key, seen at another. *)
LEMMA CommitElsewhere ==
  ASSUME NEW req \in Request, Commit(req), cloudListing \in [Days -> Listing \cup {None}],
         NEW k \in Keys, k # req.key, k \notin Pruned(req)
  PROVE  /\ k \in cloud' <=> k \in cloud
         /\ Kind(k) = "index" => cloudListing'[DayOf(k)] = cloudListing[DayOf(k)]
<1>1. req.key \in Keys
  BY DEF Request
<1>2. k \in cloud' <=> k \in cloud
  BY DEF Commit
<1>3. ASSUME Kind(k) = "index" PROVE cloudListing'[DayOf(k)] = cloudListing[DayOf(k)]
  <2>1. DayOf(k) \in Days /\ k = IndexKey(DayOf(k))
    BY <1>3, IndexKeys
  <2>2. Kind(req.key) = "index" => DayOf(req.key) # DayOf(k)
    BY <1>1, <2>1, IndexKeys
  <2> QED BY <2>1, <2>2 DEF Commit
<1> QED BY <1>2, <1>3

LEMMA MirrorLate == StoreInv /\ TypesInv /\ MirrorInv /\ CommitLate => MirrorInv'
<1> SUFFICES ASSUME StoreInv, TypesInv, MirrorInv, CommitLate PROVE MirrorInv'
  OBVIOUS
<1>1. UNCHANGED <<disk, listing, rec, todo, process, queue, job, today>> /\ Mirrored
  BY DEF CommitLate, MirrorInv
<1>2. PICK req \in late : Commit(req) /\ missed' = missed \cup {req.key} \cup Pruned(req)
  BY DEF CommitLate
<1>3. req \in Request /\ cloudListing \in [Days -> Listing \cup {None}]
  BY DEF TypesInv
<1>4. \A k, del : /\ Queued(k, del)' <=> Queued(k, del)
                  /\ InHand(k, del)' <=> InHand(k, del)
  BY <1>1 DEF Queued, InHand
<1>5. Mirrored'
  <2> SUFFICES ASSUME NEW k \in Keys, k \notin missed', k # rec.open
               PROVE  IF k \in disk THEN Coming(k)' ELSE Leaving(k)'
    BY <1>1 DEF Mirrored
  <2>1. k \notin missed /\ k # req.key /\ k \notin Pruned(req)
    BY <1>2
  <2>2. /\ k \in cloud' <=> k \in cloud
        /\ Kind(k) = "index" => cloudListing'[DayOf(k)] = cloudListing[DayOf(k)]
    BY <1>2, <1>3, <2>1, CommitElsewhere
  <2>3. IF k \in disk THEN Coming(k) ELSE Leaving(k)
    BY <1>1, <2>1 DEF Mirrored
  <2>4. Delivered(k) => Delivered(k)'
    BY <1>1, <1>4, <2>2 DEF Delivered, Copied, Matches
  <2>5. AskedLater(k) <=> AskedLater(k)'
    BY <1>1 DEF AskedLater
  <2>6. Dropped(k) => Dropped(k)'
    BY <1>1, <1>4 DEF Dropped, Dels
  <2> QED BY <1>1, <1>4, <2>2, <2>3, <2>4, <2>5, <2>6 DEF Coming, Leaving
<1> QED BY <1>1, <1>4, <1>5, MirrorFewer

(* The server carries the worker's request out, seen at another key: an    *)
(* index takes a segment only when it was being rebuilt, when the card has *)
(* it no longer, or is about to lose it.                                   *)
LEMMA MirrorCommit ==
  ASSUME StoreInv, TypesInv, RetainInv, MirrorInv, job # None, job.sent, Commit(job),
         UNCHANGED <<disk, listing, rec, todo, queue>>,
         NEW k \in Keys, k # job.key, k # rec.open, k \notin Undone(job),
         k \notin missed \/ k \in Repaired(job),
         job' # None => job'.key = job.key
  PROVE  IF k \in disk THEN Coming(k)' ELSE Leaving(k)'
<1>1. /\ job \in Request /\ Carries(job) /\ Mirrored
      /\ cloudListing \in [Days -> Listing \cup {None}]
  BY DEF TypesInv, MirrorInv
<1>2. \A del : ~InHand(k, del) /\ ~InHand(k, del)'
  BY DEF InHand
<1>3. CASE k \in Pruned(job)
  <2>1. /\ ~job.remove /\ Kind(job.key) = "index" /\ k \in cloud /\ k \in Segs
        /\ DayOf(k) = DayOf(job.key) /\ k \notin Range(job.body.list)
    BY <1>3 DEF Pruned
  <2>2. k \notin cloud'
    BY <1>3 DEF Commit
  <2>3. CASE k \notin disk
    BY <1>2, <2>2, <2>3 DEF Leaving
  <2>4. CASE k \in disk
    <3>1. job.body # None /\ job.body.whole
      BY <1>1, <1>3, <2>1, <2>4 DEF Carries, Undone
    <3>2. job.body.list \in Seq(Segs)
      BY <1>1, <3>1, ListingFacts DEF Request
    <3>3. ~Among(job.body.list, k)
      BY <2>1, <3>2 DEF Among, Range
    <3>4. ~In(rec.kept, k)
      <4>1. Stored(k)
        BY <2>1 DEF Stored
      <4>2. ~Mentions(job.body, k)
        BY <3>1, <3>3 DEF Mentions
      <4> QED BY <2>1, <4>1, <4>2 DEF RetainInv, SentIsCurrent
    <3>5. process # "down"
      BY DEF RetainInv
    <3> DEFINE r == [rec EXCEPT !.ops = todo]
    <3>6. Consistent(r, disk, listing) /\ r.ops = todo /\ r.open = rec.open /\ r.kept = rec.kept
      BY <3>5 DEF StoreInv, Recorder
    <3> HIDE DEF r
    <3>7. Unlinks(todo, k)
      BY <2>1, <2>4, <3>4, <3>6 DEF Consistent, FilesFollow
    <3>8. AskedLater(k)'
      BY <3>7 DEF AskedLater, Unlinks, Unlink, Settles
    <3> QED BY <2>4, <3>8 DEF Coming
  <2> QED BY <2>3, <2>4
<1>4. CASE k \notin Pruned(job)
  <2>1. /\ k \in cloud' <=> k \in cloud
        /\ Kind(k) = "index" => cloudListing'[DayOf(k)] = cloudListing[DayOf(k)]
    BY <1>1, <1>4, CommitElsewhere
  <2>2. CASE k \notin missed
    BY <1>1, <1>2, <2>1, <2>2, MirrorElsewhere
  <2>3. CASE k \in Repaired(job)
    <3>1. k \notin disk /\ k \notin cloud
      BY <1>4, <2>3 DEF Repaired, Pruned
    <3> QED BY <1>2, <2>1, <3>1 DEF Leaving
  <2> QED BY <2>2, <2>3
<1> QED BY <1>3, <1>4

(* The job is answered, or not. *)
LEMMA MirrorAnswer ==
  StoreInv /\ TypesInv /\ RetainInv /\ MirrorInv /\ (Answered \/ Unanswered) => MirrorInv'
<1> SUFFICES ASSUME StoreInv, TypesInv, RetainInv, MirrorInv, Answered \/ Unanswered
             PROVE  MirrorInv'
  OBVIOUS
<1>1. /\ job # None /\ job.sent /\ job \in Request /\ Carries(job) /\ Mirrored
      /\ UNCHANGED <<disk, listing, rec, todo, process, today, queue>>
  BY DEF TypesInv, MirrorInv, Answered, Unanswered
<1>2. \/ /\ Commit(job) /\ job' = None /\ missed' = (missed \ Repaired(job)) \cup Undone(job)
      \/ /\ Commit(job) /\ Failed(Undone(job))
      \/ /\ Failed({}) /\ cloud' = cloud /\ cloudListing' = cloudListing
  <2>1. CASE Answered
    BY <2>1 DEF Answered
  <2>2. CASE Unanswered
    BY <2>2 DEF Unanswered
  <2> QED BY <2>1, <2>2
<1>3. job' # None => job'.key = job.key /\ job'.remove = job.remove /\ job'.sent = FALSE
  BY <1>1, <1>2, FailedJob
<1>4. /\ \A k, del : Queued(k, del)' <=> Queued(k, del)
      /\ \A k, del : InHand(k, del)' => InHand(k, del)
      /\ \A k : AskedLater(k)' <=> AskedLater(k)
  BY <1>1, <1>3 DEF Queued, InHand, AskedLater
<1>5. \A k, del : ~(InHand(k, del) /\ job.sent)'
  BY <1>3 DEF InHand
<1>6. \A k \in Repaired(job) : k \in Segs /\ k \notin disk /\ Kind(job.key) = "index"
  BY DEF Repaired
<1>7. \A k \in Pruned(job) : k \in Segs /\ Kind(job.key) = "index"
  BY DEF Pruned
<1>8. job.key \notin Repaired(job) /\ job.key \notin Pruned(job)
  BY <1>6, <1>7, SegFacts
(* The key of the request itself: a deleted key is gone, *)
<1>9. ASSUME NEW k \in Keys, k \notin missed', k = job.key, job.remove
      PROVE  IF k \in disk THEN Coming(k)' ELSE Leaving(k)'
  <2>1. InHand(k, TRUE)
    BY <1>1, <1>9 DEF InHand, Request
  <2>2. k \notin disk
    BY <2>1 DEF MirrorInv, DeletedAreAbsent, Absent
  <2>3. CASE Commit(job) /\ job' = None
    <3>1. k \notin cloud'
      BY <1>9, <2>3 DEF Commit
    <3> QED BY <1>5, <2>2, <3>1 DEF Leaving
  <2>4. CASE Failed(Undone(job)) \/ Failed({})
    <3>1. job' # None
      BY <1>1, <1>9, <2>4, FailedMissed
    <3>2. InHand(k, TRUE)'
      BY <1>3, <2>1, <3>1 DEF InHand
    <3> QED BY <2>2, <3>2 DEF Leaving, Dropped
  <2> QED BY <1>2, <2>3, <2>4
(* an uploaded one is there, or will be tried again.     *)
<1>10. ASSUME NEW k \in Keys, k \notin missed', k # rec.open, k = job.key, ~job.remove
       PROVE  IF k \in disk THEN Coming(k)' ELSE Leaving(k)'
  <2>1. k \notin missed
    BY <1>1, <1>2, <1>8, <1>10, FailedMissed
  <2>2. InHand(k, FALSE) /\ ~InHand(k, TRUE)
    BY <1>1, <1>10 DEF InHand, Request
  <2>3. CASE k \notin disk
    BY <1>1, <1>5, <2>1, <2>2, <2>3, <1>10, MirrorStillLeaving
  <2>4. CASE k \in disk
    <3>1. CASE Commit(job) /\ job' = None
      <4>1. Coming(k)
        BY <1>1, <1>10, <2>1, <2>4 DEF Mirrored
      <4>2. k \in cloud'
        BY <1>8, <1>10, <3>1 DEF Commit
      <4>3. Kind(k) = "index" => cloudListing'[DayOf(k)] = job.body
        <5> SUFFICES ASSUME Kind(k) = "index" PROVE cloudListing'[DayOf(k)] = job.body
          OBVIOUS
        <5>1. DayOf(k) \in Days
          BY IndexKeys
        <5>2. cloudListing \in [Days -> Listing \cup {None}]
          BY DEF TypesInv
        <5> QED BY <1>10, <3>1, <5>1, <5>2 DEF Commit
      <4>4. Delivered(k) => Delivered(k)'
        <5>1. Delivered(k) => Matches(k, job.body)
          BY <1>1, <2>2 DEF Delivered
        <5>2. Matches(k, job.body) => Copied(k)'
          BY <1>1, <4>2, <4>3 DEF Matches, Copied
        <5>3. Copied(k)' => Delivered(k)'
          BY <1>5 DEF Delivered
        <5> QED BY <5>1, <5>2, <5>3
      <4> QED BY <1>4, <2>4, <4>1, <4>4 DEF Coming
    <3>2. CASE Failed(Undone(job)) \/ Failed({})
      <4>1. job' # None
        BY <1>1, <1>10, <2>4, <3>2, FailedMissed
      <4>2. InHand(k, FALSE)'
        BY <1>3, <2>2, <4>1 DEF InHand
      <4>3. Delivered(k)'
        BY <1>5, <4>2 DEF Delivered
      <4> QED BY <2>4, <4>3 DEF Coming
    <3> QED BY <1>2, <3>1, <3>2
  <2> QED BY <2>3, <2>4
(* Another key. *)
<1>11. ASSUME NEW k \in Keys, k \notin missed', k # rec.open, k # job.key
       PROVE  IF k \in disk THEN Coming(k)' ELSE Leaving(k)'
  <2>1. CASE Commit(job) /\ job' = None /\ missed' = (missed \ Repaired(job)) \cup Undone(job)
    <3>1. k \notin Undone(job) /\ (k \notin missed \/ k \in Repaired(job))
      BY <1>11, <2>1
    <3> QED BY <1>1, <1>11, <2>1, <3>1, MirrorCommit
  <2>2. CASE Commit(job) /\ Failed(Undone(job))
    <3>1. k \notin Undone(job) /\ k \notin missed
      BY <1>1, <1>11, <2>2, FailedMissed
    <3> QED BY <1>1, <1>3, <1>11, <2>2, <3>1, MirrorCommit
  <2>3. CASE Failed({}) /\ cloud' = cloud /\ cloudListing' = cloudListing
    <3>1. k \notin missed
      BY <1>1, <1>11, <2>3, FailedMissed
    <3>2. \A del : ~InHand(k, del) /\ ~InHand(k, del)'
      BY <1>4, <1>11 DEF InHand
    <3> QED BY <1>1, <1>11, <2>3, <3>1, <3>2, MirrorElsewhere
  <2> QED BY <1>2, <2>1, <2>2, <2>3
<1>12. Mirrored'
  <2> SUFFICES ASSUME NEW k \in Keys, k \notin missed', k # rec.open
               PROVE  IF k \in disk THEN Coming(k)' ELSE Leaving(k)'
    BY <1>1 DEF Mirrored
  <2>1. job.remove \in BOOLEAN
    BY <1>1 DEF Request
  <2> QED BY <1>9, <1>10, <1>11, <2>1
<1> QED BY <1>1, <1>4, <1>12, MirrorFewer

LEMMA MirrorStep ==
  StoreInv /\ TypesInv /\ RetainInv /\ MirrorInv /\ [Next]_storeVars => MirrorInv'
<1> SUFFICES ASSUME StoreInv, TypesInv, RetainInv, MirrorInv, [Next]_storeVars PROVE MirrorInv'
  OBVIOUS
<1>1. CASE Start
  BY <1>1, MirrorStart
<1>2. CASE KeyFrame
  BY <1>2, MirrorKeyFrame
<1>3. CASE Stop
  BY <1>3, MirrorStop
<1>4. CASE Stopped
  BY <1>4, MirrorStopped
<1>5. CASE WriterStep
  BY <1>5, MirrorWriter
<1>6. CASE Take
  BY <1>6, MirrorTake
<1>7. CASE Send
  BY <1>7, MirrorSend
<1>8. CASE Answered \/ Unanswered
  BY <1>8, MirrorAnswer
<1>9. CASE CommitLate
  BY <1>9, MirrorLate
<1>10. CASE Crash
  BY <1>10, MirrorCrash
<1>11. CASE UNCHANGED storeVars
  <2>1. UNCHANGED <<disk, listing, rec, todo, process, today, queue, job, cloud, cloudListing, missed>>
    BY <1>11 DEF storeVars
  <2>2. \A k, del : /\ Queued(k, del)' <=> Queued(k, del)
                    /\ InHand(k, del)' <=> InHand(k, del)
    BY <2>1 DEF Queued, InHand
  <2>3. \A k : /\ AskedLater(k)' <=> AskedLater(k)
               /\ Delivered(k)' <=> Delivered(k)
               /\ Dropped(k)' <=> Dropped(k)
    BY <2>1, <2>2 DEF AskedLater, Delivered, Copied, Matches, Dropped, Dels
  <2>4. \A k : /\ Coming(k)' <=> Coming(k)
               /\ Leaving(k)' <=> Leaving(k)
    BY <2>1, <2>2, <2>3 DEF Coming, Leaving
  <2>5. Mirrored'
    BY <2>1, <2>4 DEF Mirrored, MirrorInv
  <2> QED BY <2>1, <2>2, <2>5, MirrorFewer
<1> QED BY <1>1, <1>2, <1>3, <1>4, <1>5, <1>6, <1>7, <1>8, <1>9, <1>10, <1>11 DEF Next, UploaderStep

(* With nothing under way, what was coming has arrived. *)
LEMMA InvImpliesMirrored == MirrorInv => MirroredUnlessMissed
<1> SUFFICES ASSUME MirrorInv, Quiet, NEW k \in Keys \ (missed \cup {rec.open})
             PROVE  /\ k \in disk <=> k \in cloud
                    /\ Kind(k) = "index" /\ k \in disk => cloudListing[DayOf(k)] = listing[DayOf(k)]
  BY DEF MirroredUnlessMissed
<1>1. Len(todo) = 0 /\ Len(queue) = 0 /\ job = None
  BY DEF Quiet
<1>2. \A del : ~Queued(k, del) /\ ~InHand(k, del)
  BY <1>1 DEF Queued, InHand
<1>3. ~AskedLater(k) /\ ~Dropped(k)
  <2>1. ~AskedLater(k) /\ ~Dels(todo, k)
    BY <1>1 DEF AskedLater, Dels
  <2> QED BY <1>2, <2>1 DEF Dropped
<1>4. IF k \in disk THEN Coming(k) ELSE Leaving(k)
  BY DEF MirrorInv, Mirrored
<1>5. k \in disk => Copied(k)
  BY <1>2, <1>3, <1>4 DEF Coming, Delivered
<1>6. k \notin disk => k \notin cloud
  BY <1>3, <1>4 DEF Leaving
<1> QED BY <1>5, <1>6 DEF Copied, Matches

(* With nothing under way, the cloud is a copy of the card: every file,    *)
(* every index as it is, and nothing else, but for the open segment and    *)
(* the keys whose last change was missed.  The order of an operation's     *)
(* effects, the retention that goes on behind the uploads, the retries and *)
(* what an index makes the server remove never lose a change               *)
(* (segment_recorder.cpp:388-497, http_segment_uploader.cpp:245-333,       *)
(* record_http.js:30-59).                                                  *)
THEOREM CloudMirrorsCard == Spec => []MirroredUnlessMissed
<1>1. Init => StoreInv /\ TypesInv /\ RetainInv /\ MirrorInv
  BY StoreInit, TypesInit, RetainInit, MirrorInit
<1>2. (StoreInv /\ TypesInv /\ RetainInv /\ MirrorInv) /\ [Next]_storeVars
        => (StoreInv /\ TypesInv /\ RetainInv /\ MirrorInv)'
  BY StoreStep, TypesStep, RetainStep, MirrorStep
<1>3. StoreInv /\ TypesInv /\ RetainInv /\ MirrorInv => MirroredUnlessMissed
  BY InvImpliesMirrored
<1> QED BY <1>1, <1>2, <1>3, PTL DEF Spec

(* While a deletion waits in the queue or is in the worker's hand, the     *)
(* card does not have the file: a folder that the retention emptied is not *)
(* begun anew behind its deletion, because days only advance, and neither  *)
(* is a segment's name used again (segment_recorder.cpp:388-428,           *)
(* http_segment_uploader.cpp:261-273).                                     *)
NothingPresentIsDeleted == \A k \in Keys \cap disk : ~Queued(k, TRUE) /\ ~InHand(k, TRUE)

THEOREM DeletesOnlyTheGone == Spec => []NothingPresentIsDeleted
<1>1. Init => StoreInv /\ TypesInv /\ RetainInv /\ MirrorInv
  BY StoreInit, TypesInit, RetainInit, MirrorInit
<1>2. (StoreInv /\ TypesInv /\ RetainInv /\ MirrorInv) /\ [Next]_storeVars
        => (StoreInv /\ TypesInv /\ RetainInv /\ MirrorInv)'
  BY StoreStep, TypesStep, RetainStep, MirrorStep
<1>3. StoreInv /\ TypesInv /\ RetainInv /\ MirrorInv => NothingPresentIsDeleted
  BY DEF MirrorInv, DeletedAreAbsent, Absent, NothingPresentIsDeleted
<1> QED BY <1>1, <1>2, <1>3, PTL DEF Spec
=============================================================================
