--------------------------- MODULE ArticleOrderProofs ---------------------------
(* Proofs about ArticleOrder: what the order wanted and the positions that        *)
(* realise it are, for a section of any size, and that the handler is right in    *)
(* what it says.                                                                  *)
EXTENDS MCServerParts, Sequences, FiniteSetTheorems, SequenceTheorems, WellFoundedInduction, TLAPS

N == Cardinality(Articles)

-----------------------------------------------------------------------------
(* Orders.                                                                        *)

\* The instance counts as this module does.
LEMMA CountsAlike ==
  /\ Order!IsFiniteSet(Articles) = IsFiniteSet(Articles)
  /\ Order!Cardinality(Articles) = Cardinality(Articles)
<1>1. Order!IsFiniteSet(Articles) = IsFiniteSet(Articles)
      BY DEF Order!IsFiniteSet, IsFiniteSet
<1>2. Order!Cardinality(Articles) = Cardinality(Articles)
      BY DEF Order!Cardinality, Cardinality
<1> QED BY <1>1, <1>2

LEMMA ArticlesFinite ==
  /\ N \in Nat /\ IsFiniteSet(Articles) /\ None \notin Articles
  /\ AutoOrder \in Order!Orders /\ None \notin Order!Results /\ None \notin Order!Orders
BY PartsAssumption, CountsAlike, FS_CardinalityType DEF N, Order!ArticleOrderAssumption

\* An order names every article once.
LEMMA OrderFacts ==
  ASSUME NEW o \in Order!Orders
  PROVE  /\ o \in [1 .. N -> Articles] /\ DOMAIN o = 1 .. N /\ Len(o) = N
         /\ \A i, j \in 1 .. N : o[i] = o[j] => i = j
         /\ \A x \in Articles : \E i \in 1 .. N : o[i] = x
<1>1. o \in [1 .. N -> Articles] /\ Order!IsInjective(o) BY CountsAlike DEF Order!Orders, N
<1>2. o \in Seq(Articles) BY <1>1, ArticlesFinite, SeqDef
<1>3. \A i, j \in 1 .. N : o[i] = o[j] => i = j BY <1>1 DEF Order!IsInjective
<1>4. o \in Injection(1 .. N, Articles) BY <1>1 DEF Injection, IsInjective, Order!IsInjective
<1>5. Cardinality(1 .. N) = Cardinality(Articles)
      BY ArticlesFinite, FS_Interval DEF N
<1>6. o \in Surjection(1 .. N, Articles) BY <1>4, <1>5, ArticlesFinite, FS_Injection
<1>7. \A x \in Articles : \E i \in 1 .. N : o[i] = x BY <1>6 DEF Surjection
<1>8. Len(o) = N
  <2>1. Len(o) \in Nat /\ DOMAIN o = 1 .. Len(o) BY <1>2, LenProperties
  <2>2. 1 .. Len(o) = 1 .. N BY <1>1, <2>1
  <2>3. ASSUME Len(o) < N PROVE FALSE
    <3>1. N \in 1 .. N /\ N \notin 1 .. Len(o) BY <2>1, <2>3, ArticlesFinite
    <3> QED BY <2>2, <3>1
  <2>4. ASSUME N < Len(o) PROVE FALSE
    <3>1. Len(o) \in 1 .. Len(o) /\ Len(o) \notin 1 .. N BY <2>1, <2>4, ArticlesFinite
    <3> QED BY <2>2, <3>1
  <2>5. ASSUME NEW l \in Nat, ~(l < N), ~(N < l) PROVE l = N BY <2>5, ArticlesFinite
  <2> QED BY <2>1, <2>3, <2>4, <2>5
<1> QED BY <1>1, <1>3, <1>7, <1>8

Place(o, x) == Order!IndexOf(o, x)

LEMMA PlaceFacts ==
  ASSUME NEW o \in Order!Orders
  PROVE  /\ \A x \in Articles : Place(o, x) \in 1 .. N /\ o[Place(o, x)] = x
         /\ \A i \in 1 .. N : Place(o, o[i]) = i
<1>1. ASSUME NEW x \in Articles PROVE Place(o, x) \in 1 .. N /\ o[Place(o, x)] = x
  <2>1. \E i \in DOMAIN o : o[i] = x BY OrderFacts
  <2>2. Place(o, x) \in DOMAIN o /\ o[Place(o, x)] = x BY <2>1 DEF Place, Order!IndexOf
  <2> QED BY <2>2, OrderFacts
<1>2. ASSUME NEW i \in 1 .. N PROVE Place(o, o[i]) = i
  <2>1. o[i] \in Articles BY OrderFacts
  <2>2. Place(o, o[i]) \in 1 .. N /\ o[Place(o, o[i])] = o[i] BY <1>1, <2>1
  <2> QED BY <2>2, OrderFacts
<1> QED BY <1>1, <1>2

-----------------------------------------------------------------------------
(* The order wanted: the place k of the moved article is taken out, and it is put *)
(* back at s.                                                                     *)

From(k, s, i) ==
    IF i = s THEN k
    ELSE IF i < s THEN (IF i < k THEN i ELSE i + 1)
    ELSE (IF i - 1 < k THEN i - 1 ELSE i)

LEMMA FromFacts ==
  ASSUME NEW n \in Nat, NEW k \in 1 .. n, NEW s \in 1 .. n
  PROVE  /\ \A i \in 1 .. n : From(k, s, i) \in 1 .. n
         /\ \A i \in 1 .. n : From(k, s, i) = k <=> i = s
         /\ \A i, j \in 1 .. n : i # s /\ j # s => (From(k, s, i) < From(k, s, j) <=> i < j)
BY DEF From

\* Where the moved article is put.
Slot(o, x, target) ==
    LET k == Order!IndexOf(o, x)
        rest == [i \in 1 .. N - 1 |-> IF i < k THEN o[i] ELSE o[i + 1]]
    IN  CASE target.to = "top" -> 1
          [] target.to = "bottom" -> N
          [] target.to = "before" -> Order!IndexOf(rest, target.ref)
          [] target.to = "after" -> Order!IndexOf(rest, target.ref) + 1

LEMMA TargetFacts ==
  ASSUME NEW target \in Order!Targets
  PROVE  \/ target.to \in {"top", "bottom"} /\ target.ref = None
         \/ target.to \in {"before", "after"} /\ target.ref \in Articles
BY DEF Order!Targets

\* The place of another article in the order without the moved one.
LEMMA RestFacts ==
  ASSUME NEW o \in Order!Orders, NEW x \in Articles, NEW y \in Articles, x # y,
         NEW k, k = Place(o, x), NEW rest,
         rest = [i \in 1 .. N - 1 |-> IF i < k THEN o[i] ELSE o[i + 1]]
  PROVE  /\ Order!IndexOf(rest, y) \in 1 .. N - 1
         /\ rest[Order!IndexOf(rest, y)] = y
<1> DEFINE m == Place(o, y)
           r == IF m < k THEN m ELSE m - 1
<1>1. k \in 1 .. N /\ m \in 1 .. N /\ o[k] = x /\ o[m] = y BY PlaceFacts
<1>2. m # k BY <1>1
<1>3. N \in Nat BY ArticlesFinite
<1>4. r \in 1 .. N - 1 /\ (IF r < k THEN r ELSE r + 1) = m BY <1>1, <1>2, <1>3
<1>5. rest[r] = y BY <1>1, <1>4
<1>6. DOMAIN rest = 1 .. N - 1 OBVIOUS
<1>7. \E i \in DOMAIN rest : rest[i] = y BY <1>4, <1>5, <1>6
<1> QED BY <1>6, <1>7 DEF Order!IndexOf

\* What is wanted is an order again, in which the moved article is where it was asked
\* to be and the others are as they were.
LEMMA Arranged ==
  ASSUME NEW o \in Order!Orders, NEW x \in Articles, NEW target \in Order!Targets,
         target.ref # x, NEW d, d = Order!arrangeDesiredOrder(o, x, target),
         NEW k, k = Place(o, x), NEW s, s = Slot(o, x, target)
  PROVE  /\ k \in 1 .. N /\ s \in 1 .. N /\ o[k] = x
         /\ d = [i \in 1 .. N |-> o[From(k, s, i)]]
         /\ d \in Order!Orders /\ Place(d, x) = s
<1> DEFINE rest == [i \in 1 .. N - 1 |-> IF i < k THEN o[i] ELSE o[i + 1]]
<1>1. N \in Nat /\ k \in 1 .. N /\ o[k] = x BY ArticlesFinite, PlaceFacts
<1>2. s \in 1 .. N
  <2>1. CASE target.to = "top" BY <1>1, <2>1 DEF Slot
  <2>2. CASE target.to = "bottom" BY <1>1, <2>2 DEF Slot
  <2>3. CASE target.to \in {"before", "after"}
    <3>1. target.ref \in Articles BY <2>3, TargetFacts
    <3>2. Order!IndexOf(rest, target.ref) \in 1 .. N - 1 BY <3>1, RestFacts
    <3>3. s \in {Order!IndexOf(rest, target.ref), Order!IndexOf(rest, target.ref) + 1}
          BY <2>3 DEF Slot, Place
    <3> HIDE DEF rest
    <3> QED BY <1>1, <3>2, <3>3
  <2> QED BY <2>1, <2>2, <2>3, TargetFacts
<1>3. Len(o) = N BY OrderFacts
<1>4. d = [i \in 1 .. N |-> IF i < s THEN rest[i] ELSE IF i = s THEN x ELSE rest[i - 1]]
      BY <1>3 DEF Order!arrangeDesiredOrder, Slot, Place
<1>5. ASSUME NEW i \in 1 .. N PROVE d[i] = o[From(k, s, i)]
  <2> HIDE DEF rest
  <2>0. d[i] = IF i < s THEN rest[i] ELSE IF i = s THEN x ELSE rest[i - 1] BY <1>4
  <2>1. CASE i = s BY <1>1, <1>2, <2>0, <2>1 DEF From
  <2>2. CASE i < s
    <3>1. d[i] = rest[i] /\ i \in 1 .. N - 1 BY <1>1, <1>2, <2>0, <2>2
    <3>2. rest[i] = IF i < k THEN o[i] ELSE o[i + 1] BY <3>1 DEF rest
    <3> QED BY <1>1, <1>2, <2>2, <3>1, <3>2 DEF From
  <2>3. CASE i > s
    <3>1. d[i] = rest[i - 1] /\ i - 1 \in 1 .. N - 1 BY <1>1, <1>2, <2>0, <2>3
    <3>2. i - 1 + 1 = i BY <1>1
    <3>3. rest[i - 1] = IF i - 1 < k THEN o[i - 1] ELSE o[i] BY <3>1, <3>2 DEF rest
    <3> QED BY <1>1, <1>2, <2>3, <3>1, <3>3 DEF From
  <2> QED BY <1>1, <1>2, <2>1, <2>2, <2>3
<1>6. d = [i \in 1 .. N |-> o[From(k, s, i)]] BY <1>4, <1>5
<1>7. \A i \in 1 .. N : From(k, s, i) \in 1 .. N BY <1>1, <1>2, FromFacts
<1>8. d \in [1 .. N -> Articles] BY <1>6, <1>7, OrderFacts
<1>9. ASSUME NEW i \in 1 .. N, NEW j \in 1 .. N, d[i] = d[j] PROVE i = j
  <2>1. o[From(k, s, i)] = o[From(k, s, j)] BY <1>5, <1>9
  <2>2. From(k, s, i) = From(k, s, j) BY <1>7, <2>1, OrderFacts
  <2> QED BY <1>1, <1>2, <2>2 DEF From
<1>10. d \in Order!Orders
       BY <1>8, <1>9, CountsAlike DEF Order!Orders, Order!IsInjective, N
<1>11. d[s] = x BY <1>1, <1>2, <1>5 DEF From
<1>12. Place(d, x) = s BY <1>2, <1>10, <1>11, PlaceFacts
<1> QED BY <1>1, <1>2, <1>6, <1>10, <1>12

-----------------------------------------------------------------------------
(* The positions that realise it.                                                 *)

\* Positions as Zendesk may hold them, by which the others of d are in order.
Sorted(d, s, pos) ==
    \A i, j \in 1 .. N : i < j /\ i # s /\ j # s => pos[d[i]] <= pos[d[j]]

\* The moved article goes after those before it, and each bumped one goes after the
\* one before.
LEMMA BumpedFacts ==
  ASSUME NEW d \in Order!Orders, NEW s \in 1 .. N, NEW pos \in [Articles -> Nat], Sorted(d, s, pos)
  PROVE  /\ \A i \in s .. N : Order!Bumped(d, s, pos, i) \in Nat
         /\ \A i, j \in s .. N : i < j => Order!Bumped(d, s, pos, i) < Order!Bumped(d, s, pos, j)
         /\ \A i \in 1 .. s - 1 : pos[d[i]] < Order!Bumped(d, s, pos, s)
<1> DEFINE m == IF s = 1 THEN -1 ELSE pos[d[s - 1]]
<1>1. N \in Nat /\ \A i \in 1 .. N : d[i] \in Articles /\ pos[d[i]] \in Nat
      BY ArticlesFinite, OrderFacts
<1>2. m + 1 \in Nat
  <2>1. CASE s = 1 BY <2>1
  <2>2. CASE s # 1
    <3>1. s - 1 \in 1 .. N BY <1>1, <2>2
    <3> QED BY <1>1, <2>2, <3>1
  <2> QED BY <2>1, <2>2
<1>3. m \in Int BY <1>1, <1>2
<1>4. \A i \in 1 .. s - 1 : pos[d[i]] <= m
  <2> SUFFICES ASSUME NEW i \in 1 .. s - 1 PROVE pos[d[i]] <= pos[d[s - 1]]
      BY <1>1
  <2>1. i \in 1 .. N /\ s - 1 \in 1 .. N /\ i <= s - 1 BY <1>1
  <2>2. CASE i = s - 1 BY <1>1, <2>1, <2>2
  <2>3. CASE i < s - 1 BY <1>1, <2>1, <2>3 DEF Sorted
  <2> QED BY <1>1, <2>1, <2>2, <2>3
<1>5. \A i \in s .. N : Order!Bumped(d, s, pos, i) = m + 1 + (i - s) BY DEF Order!Bumped
<1> HIDE DEF m
<1>6. \A i \in 1 .. s - 1 : pos[d[i]] < Order!Bumped(d, s, pos, s)
  <2>1. Order!Bumped(d, s, pos, s) = m + 1 BY <1>1, <1>3, <1>5
  <2> QED BY <1>1, <1>3, <1>4, <2>1
<1>7. \A i \in s .. N : Order!Bumped(d, s, pos, i) \in Nat BY <1>1, <1>2, <1>3, <1>5
<1>8. \A i, j \in s .. N : i < j => Order!Bumped(d, s, pos, i) < Order!Bumped(d, s, pos, j)
      BY <1>1, <1>3, <1>5
<1> QED BY <1>6, <1>7, <1>8

\* The last position is beyond all others.
LEMMA LastFacts ==
  ASSUME NEW d \in Order!Orders, NEW pos \in [Articles -> Nat], Sorted(d, N, pos), N >= 1
  PROVE  /\ Order!LastPosition(d, pos) \in Nat
         /\ \A i \in 1 .. N - 1 : pos[d[i]] < Order!LastPosition(d, pos)
<1> DEFINE others == {pos[d[i]] : i \in 1 .. N - 1} \cup {-1}
           Greatest(p) == p \in others /\ \A q \in others : q <= p
<1>1. N \in Nat /\ \A i \in 1 .. N : d[i] \in Articles /\ pos[d[i]] \in Nat
      BY ArticlesFinite, OrderFacts
<1>2. \A q \in others : q \in Int /\ q >= -1 BY <1>1
<1>3. \E p : Greatest(p)
  <2>1. CASE N = 1
    <3>1. others = {-1} BY <2>1
    <3>2. Greatest(-1) BY <3>1
    <3> QED BY <3>2
  <2>2. CASE N > 1
    <3>1. N - 1 \in 1 .. N - 1 /\ N - 1 \in 1 .. N BY <1>1, <2>2
    <3>2. pos[d[N - 1]] \in others BY <3>1
    <3>3. ASSUME NEW i \in 1 .. N - 1 PROVE pos[d[i]] <= pos[d[N - 1]]
      <4>1. CASE i = N - 1 BY <1>1, <3>1, <4>1
      <4>2. CASE i < N - 1 BY <1>1, <3>1, <4>2 DEF Sorted
      <4> QED BY <1>1, <4>1, <4>2
    <3>4. -1 <= pos[d[N - 1]] BY <1>1, <3>1
    <3>5. Greatest(pos[d[N - 1]]) BY <3>2, <3>3, <3>4
    <3> QED BY <3>5
  <2> QED BY <1>1, <2>1, <2>2
<1>4. PICK p : p = CHOOSE r \in others : \A q \in others : q <= r OBVIOUS
<1>5. Greatest(p) BY <1>3, <1>4
<1>6. Len(d) = N BY OrderFacts
<1>7. Order!LastPosition(d, pos) = 1 + p BY <1>4, <1>6 DEF Order!LastPosition
<1>8. p \in Int /\ p >= -1 BY <1>2, <1>5
<1>9. \A i \in 1 .. N - 1 : pos[d[i]] <= p BY <1>5
<1> HIDE DEF others
<1> QED BY <1>1, <1>7, <1>8, <1>9

\* What each article of d is to get: an order again that the moved article is in at its
\* place, and that the others keep.
Goes(d, s, normalize, pos, i) == Order!NewPosition(d, s, normalize, pos, i)

LEMMA CascadeFacts ==
  ASSUME NEW d \in Order!Orders, NEW s \in 1 .. N, NEW pos \in [Articles -> Nat],
         Sorted(d, s, pos), s # N
  PROVE  /\ \A i \in 1 .. N : Goes(d, s, FALSE, pos, i) \in Nat
         /\ \A i \in 1 .. N : i < s => Goes(d, s, FALSE, pos, i) < Goes(d, s, FALSE, pos, s)
         /\ \A i \in 1 .. N : s < i => Goes(d, s, FALSE, pos, s) < Goes(d, s, FALSE, pos, i)
         /\ \A i, j \in 1 .. N : i # s /\ j # s /\ pos[d[i]] < pos[d[j]] =>
                Goes(d, s, FALSE, pos, i) < Goes(d, s, FALSE, pos, j)
<1> DEFINE B(i) == Order!Bumped(d, s, pos, i)
           In(i) == Order!InCascade(d, s, pos, i)
           W(i) == Goes(d, s, FALSE, pos, i)
<1>1. N \in Nat /\ \A i \in 1 .. N : d[i] \in Articles /\ pos[d[i]] \in Nat
      BY ArticlesFinite, OrderFacts
<1>2. \A i \in 1 .. N : W(i) = IF In(i) THEN B(i) ELSE pos[d[i]]
      BY OrderFacts DEF Goes, Order!NewPosition
<1>3. In(s)
      BY <1>1 DEF Order!InCascade, Order!Blocks
<1>4. /\ \A i \in s .. N : B(i) \in Nat
      /\ \A i, j \in s .. N : i < j => B(i) < B(j)
      /\ \A i \in 1 .. s - 1 : pos[d[i]] < B(s)
      BY BumpedFacts
<1>5. \A i \in 1 .. N : In(i) => i \in s .. N BY DEF Order!InCascade
\* Past the cascade, an article clears all that is bumped.
<1>6. ASSUME NEW i \in s .. N, In(i), NEW j \in s .. N, ~In(j)
      PROVE  i < j /\ B(i) < pos[d[j]]
  <2>1. PICK e \in s .. j : ~Order!Blocks(d, s, pos, e) BY <1>1, <1>6 DEF Order!InCascade
  <2>2. e \in Int /\ s <= e /\ e <= j /\ e # s BY <1>1, <2>1 DEF Order!Blocks
  <2>3. ~(e <= i)
    <3>1. ASSUME e <= i PROVE FALSE
      <4>1. e \in s .. i BY <1>1, <2>2, <3>1
      <4> QED BY <1>6, <2>1, <4>1 DEF Order!InCascade
    <3> QED BY <3>1
  <2>4. e \in 1 .. N /\ e - 1 \in s .. N /\ i <= e - 1 BY <1>1, <2>2, <2>3
  <2>5. ~(pos[d[e]] <= B(e - 1)) BY <2>1, <2>2 DEF Order!Blocks
  <2>6. B(e - 1) < pos[d[e]] BY <1>1, <1>4, <2>4, <2>5
  <2>7. B(i) <= B(e - 1)
    <3>1. CASE i = e - 1 BY <1>4, <3>1
    <3>2. CASE i < e - 1 BY <1>4, <2>4, <3>2
    <3> QED BY <2>2, <2>4, <3>1, <3>2
  <2>8. pos[d[e]] <= pos[d[j]]
    <3>1. CASE e = j BY <1>1, <2>4, <3>1
    <3>2. CASE e < j BY <1>1, <2>2, <2>4, <3>2 DEF Sorted
    <3> QED BY <2>2, <3>1, <3>2
  <2>9. B(i) \in Nat /\ B(e - 1) \in Nat /\ pos[d[e]] \in Nat /\ pos[d[j]] \in Nat /\ i \in Int
        BY <1>1, <1>4, <2>4
  <2> QED BY <2>2, <2>4, <2>6, <2>7, <2>8, <2>9
<1>7. \A i \in s .. N, j \in s .. N : ~In(i) /\ i < j => ~In(j)
      BY <1>1 DEF Order!InCascade
<1> HIDE DEF B, In, W
<1>8. \A i \in 1 .. N : W(i) \in Nat BY <1>1, <1>2, <1>4, <1>5
<1>9. \A i \in 1 .. N : i < s => W(i) < W(s)
  <2> TAKE i \in 1 .. N
  <2> HAVE i < s
  <2>1. i \in 1 .. s - 1 /\ ~(i \in s .. N) BY <1>1
  <2>2. W(i) = pos[d[i]] /\ W(s) = B(s) BY <1>2, <1>3, <1>5, <2>1
  <2> QED BY <1>4, <2>1, <2>2
<1>10. \A i \in 1 .. N : s < i => W(s) < W(i)
  <2> TAKE i \in 1 .. N
  <2> HAVE s < i
  <2>1. i \in s .. N /\ s \in s .. N BY <1>1
  <2>2. W(s) = B(s) BY <1>2, <1>3
  <2>3. CASE In(i) BY <1>2, <1>4, <2>1, <2>2, <2>3
  <2>4. CASE ~In(i) BY <1>2, <1>3, <1>6, <2>1, <2>2, <2>4
  <2> QED BY <2>3, <2>4
<1>11. \A i, j \in 1 .. N : i # s /\ j # s /\ pos[d[i]] < pos[d[j]] => W(i) < W(j)
  <2> TAKE i, j \in 1 .. N
  <2> HAVE i # s /\ j # s /\ pos[d[i]] < pos[d[j]]
  <2>1. i < j
    <3>1. ASSUME j < i PROVE FALSE BY <1>1, <3>1 DEF Sorted
    <3>2. ASSUME i = j PROVE FALSE BY <1>1, <3>2
    <3> QED BY <1>1, <3>1, <3>2
  <2>2. CASE j < s
    <3>1. ~(i \in s .. N) /\ ~(j \in s .. N) BY <1>1, <2>1, <2>2
    <3> QED BY <1>2, <1>5, <3>1
  <2>3. CASE i < s /\ s < j
    <3>1. W(i) < W(s) /\ W(s) < W(j) BY <1>9, <1>10, <2>3
    <3>2. W(i) \in Nat /\ W(s) \in Nat /\ W(j) \in Nat BY <1>8
    <3> QED BY <3>1, <3>2
  <2>4. CASE s < i
    <3>1. i \in s .. N /\ j \in s .. N BY <1>1, <2>1, <2>4
    <3>2. CASE In(i) /\ In(j) BY <1>2, <1>4, <2>1, <3>1, <3>2
    <3>3. CASE In(i) /\ ~In(j) BY <1>2, <1>6, <3>1, <3>3
    <3>4. CASE ~In(i)
      <4>1. ~In(j) BY <1>7, <2>1, <3>1, <3>4
      <4> QED BY <1>2, <3>4, <4>1
    <3> QED BY <3>2, <3>3, <3>4
  <2> QED BY <1>1, <2>1, <2>2, <2>3, <2>4
<1> QED BY <1>8, <1>9, <1>10, <1>11 DEF W

LEMMA GoesFacts ==
  ASSUME NEW d \in Order!Orders, NEW s \in 1 .. N, NEW pos \in [Articles -> Nat],
         Sorted(d, s, pos), NEW normalize \in BOOLEAN
  PROVE  /\ \A i \in 1 .. N : Goes(d, s, normalize, pos, i) \in Nat
         /\ \A i \in 1 .. N : i < s => Goes(d, s, normalize, pos, i) < Goes(d, s, normalize, pos, s)
         /\ \A i \in 1 .. N : s < i => Goes(d, s, normalize, pos, s) < Goes(d, s, normalize, pos, i)
         /\ \A i, j \in 1 .. N : i # s /\ j # s /\ pos[d[i]] < pos[d[j]] =>
                Goes(d, s, normalize, pos, i) < Goes(d, s, normalize, pos, j)
<1>1. N \in Nat /\ Len(d) = N /\ \A i \in 1 .. N : d[i] \in Articles /\ pos[d[i]] \in Nat
      BY ArticlesFinite, OrderFacts
<1>2. CASE normalize
  <2>1. \A i \in 1 .. N : Goes(d, s, normalize, pos, i) = i - 1
        BY <1>2 DEF Goes, Order!NewPosition
  <2>2. ASSUME NEW i \in 1 .. N, NEW j \in 1 .. N, i # s, j # s, pos[d[i]] < pos[d[j]] PROVE i < j
    <3>1. ASSUME j < i PROVE FALSE BY <1>1, <2>2, <3>1 DEF Sorted
    <3>2. ASSUME i = j PROVE FALSE BY <1>1, <2>2, <3>2
    <3> QED BY <1>1, <3>1, <3>2
  <2> QED BY <1>1, <2>1, <2>2
<1>3. CASE ~normalize /\ s # N
  <2>1. normalize = FALSE BY <1>3
  <2> QED BY <1>3, <2>1, CascadeFacts
<1>4. CASE ~normalize /\ s = N
  <2> DEFINE last == Order!LastPosition(d, pos)
  <2>1. last \in Nat /\ \A i \in 1 .. N - 1 : pos[d[i]] < last BY <1>1, <1>4, LastFacts
  <2>2. ASSUME NEW i \in 1 .. N - 1 PROVE Goes(d, s, normalize, pos, i) = pos[d[i]] /\ i \in 1 .. N
        BY <1>1, <1>4 DEF Goes, Order!NewPosition
  <2>3. Goes(d, s, normalize, pos, s) = IF pos[d[s]] < last THEN last ELSE pos[d[s]]
        BY <1>1, <1>4 DEF Goes, Order!NewPosition
  <2> HIDE DEF last
  <2>4. \A i \in 1 .. N : i # s => i \in 1 .. N - 1 BY <1>1, <1>4
  <2>5. \A i \in 1 .. N : Goes(d, s, normalize, pos, i) \in Nat BY <1>1, <2>1, <2>2, <2>3, <2>4
  <2>6. \A i \in 1 .. N : i < s => Goes(d, s, normalize, pos, i) < Goes(d, s, normalize, pos, s)
    <3> TAKE i \in 1 .. N
    <3> HAVE i < s
    <3>1. i \in 1 .. N - 1 BY <1>1, <1>4
    <3>2. pos[d[i]] < last /\ Goes(d, s, normalize, pos, i) = pos[d[i]] BY <2>1, <2>2, <3>1
    <3>3. pos[d[i]] \in Nat /\ pos[d[s]] \in Nat BY <1>1
    <3> QED BY <2>1, <2>3, <3>2, <3>3
  <2>7. \A i \in 1 .. N : ~(s < i) BY <1>1, <1>4
  <2>8. \A i, j \in 1 .. N : i # s /\ j # s /\ pos[d[i]] < pos[d[j]] =>
            Goes(d, s, normalize, pos, i) < Goes(d, s, normalize, pos, j)
        BY <2>2, <2>4
  <2> QED BY <2>5, <2>6, <2>7, <2>8
<1> QED BY <1>2, <1>3, <1>4

-----------------------------------------------------------------------------
(* What they are good for.                                                        *)

\* Where the article the move is relative to comes in the order wanted.
LEMMA SlotFacts ==
  ASSUME NEW o \in Order!Orders, NEW x \in Articles, NEW target \in Order!Targets,
         target.ref # x, NEW d, d = Order!arrangeDesiredOrder(o, x, target),
         NEW s, s = Place(d, x)
  PROVE  /\ target.to = "top" => s = 1
         /\ target.to = "bottom" => s = N
         /\ target.to = "before" => s < Place(d, target.ref)
         /\ target.to = "after" => Place(d, target.ref) < s
<1> DEFINE k == Place(o, x)
           rest == [i \in 1 .. N - 1 |-> IF i < k THEN o[i] ELSE o[i + 1]]
           r == Order!IndexOf(rest, target.ref)
<1>1. /\ s = Slot(o, x, target) /\ k \in 1 .. N /\ s \in 1 .. N /\ N \in Nat
      /\ d = [i \in 1 .. N |-> o[From(k, s, i)]] /\ d \in Order!Orders
      BY Arranged, ArticlesFinite
<1>2. target.to = "top" => s = 1 BY <1>1 DEF Slot
<1>3. target.to = "bottom" => s = N BY <1>1 DEF Slot
<1>4. ASSUME target.to \in {"before", "after"}
      PROVE  r \in 1 .. N - 1 /\ target.ref = IF r < k THEN o[r] ELSE o[r + 1]
  <2>1. target.ref \in Articles BY <1>4, TargetFacts
  <2>2. r \in 1 .. N - 1 /\ rest[r] = target.ref BY <2>1, RestFacts
  <2> QED BY <2>2
<1>5. target.to = "before" => s = r BY <1>1 DEF Slot, Place
<1>6. target.to = "after" => s = r + 1 BY <1>1 DEF Slot, Place
<1> HIDE DEF rest, r, k
<1>7. ASSUME target.to = "before" PROVE s < Place(d, target.ref)
  <2>1. s + 1 \in 1 .. N /\ s \in Int /\ From(k, s, s + 1) = IF s < k THEN s ELSE s + 1
        BY <1>1, <1>4, <1>5, <1>7 DEF From
  <2>2. d[s + 1] = target.ref BY <1>1, <1>4, <1>5, <1>7, <2>1
  <2>3. Place(d, target.ref) = s + 1 BY <1>1, <2>1, <2>2, PlaceFacts
  <2> QED BY <2>1, <2>3
<1>8. ASSUME target.to = "after" PROVE Place(d, target.ref) < s
  <2>1. r \in 1 .. N /\ r \in Int /\ From(k, s, r) = IF r < k THEN r ELSE r + 1
        BY <1>1, <1>4, <1>6, <1>8 DEF From
  <2>2. d[r] = target.ref BY <1>1, <1>4, <1>8, <2>1
  <2>3. Place(d, target.ref) = r BY <1>1, <2>1, <2>2, PlaceFacts
  <2> QED BY <1>6, <1>8, <2>1, <2>3
<1> QED BY <1>2, <1>3, <1>7, <1>8

\* The writes derived from an order shown: the positions they lead to keep the others
\* as they were, and whatever order Zendesk shows by them has the moved article where
\* it was asked to be.
THEOREM WritesFacts ==
  ASSUME NEW o \in Order!Orders, NEW x \in Articles, NEW target \in Order!Targets,
         target.ref # x, NEW normalize \in BOOLEAN,
         NEW pos \in [Articles -> Nat], Order!Shows(o, pos),
         NEW d, d = Order!arrangeDesiredOrder(o, x, target),
         NEW w, w = Order!computePositionWrites(d, x, normalize, pos)
  PROVE  /\ d \in Order!Orders /\ w \in [Articles -> Nat]
         /\ \A y, z \in Articles \ {x} : pos[y] < pos[z] => w[y] < w[z]
         /\ \A shown \in Order!Orders :
                Order!Shows(shown, w) => Order!isPlacedAsRequested(shown, x, target)
<1> DEFINE k == Place(o, x)
           s == Place(d, x)
<1>1. /\ s = Slot(o, x, target) /\ k \in 1 .. N /\ s \in 1 .. N /\ N \in Nat
      /\ d = [i \in 1 .. N |-> o[From(k, s, i)]] /\ d \in Order!Orders
      BY Arranged, ArticlesFinite
<1>2. Sorted(d, s, pos)
  <2> SUFFICES ASSUME NEW i \in 1 .. N, NEW j \in 1 .. N, i < j, i # s, j # s
               PROVE  pos[d[i]] <= pos[d[j]]
      BY DEF Sorted
  <2> HIDE DEF k, s
  <2>1. From(k, s, i) \in 1 .. N /\ From(k, s, j) \in 1 .. N /\ From(k, s, i) < From(k, s, j)
        BY <1>1, FromFacts
  <2>2. d[i] = o[From(k, s, i)] /\ d[j] = o[From(k, s, j)] BY <1>1
  <2> QED BY <2>1, <2>2, OrderFacts DEF Order!Shows
<1>3. /\ \A i \in 1 .. N : Goes(d, s, normalize, pos, i) \in Nat
      /\ \A i \in 1 .. N : i < s => Goes(d, s, normalize, pos, i) < Goes(d, s, normalize, pos, s)
      /\ \A i \in 1 .. N : s < i => Goes(d, s, normalize, pos, s) < Goes(d, s, normalize, pos, i)
      /\ \A i, j \in 1 .. N : i # s /\ j # s /\ pos[d[i]] < pos[d[j]] =>
             Goes(d, s, normalize, pos, i) < Goes(d, s, normalize, pos, j)
      BY <1>1, <1>2, GoesFacts
<1>4. w = [y \in Articles |-> Goes(d, s, normalize, pos, Place(d, y))]
      BY DEF Order!computePositionWrites, Goes, Place
<1>5. \A y \in Articles : Place(d, y) \in 1 .. N /\ d[Place(d, y)] = y BY <1>1, PlaceFacts
<1>6. \A y \in Articles \ {x} : Place(d, y) # s BY <1>5
<1>7. w \in [Articles -> Nat] BY <1>3, <1>4, <1>5
<1>8. \A y, z \in Articles \ {x} : pos[y] < pos[z] => w[y] < w[z]
  <2> TAKE y, z \in Articles \ {x}
  <2> HAVE pos[y] < pos[z]
  <2>1. w[y] = Goes(d, s, normalize, pos, Place(d, y)) /\ w[z] = Goes(d, s, normalize, pos, Place(d, z))
        BY <1>4
  <2> HIDE DEF s
  <2> QED BY <1>3, <1>5, <1>6, <2>1
<1>9. \A y \in Articles : Place(d, y) < s => w[y] < w[x] BY <1>3, <1>4, <1>5
<1>10. \A y \in Articles : s < Place(d, y) => w[x] < w[y] BY <1>3, <1>4, <1>5
<1>11. /\ target.to = "top" => s = 1
       /\ target.to = "bottom" => s = N
       /\ target.to = "before" => s < Place(d, target.ref)
       /\ target.to = "after" => Place(d, target.ref) < s
       BY SlotFacts
<1> HIDE DEF s, k
<1>12. ASSUME NEW shown \in Order!Orders, Order!Shows(shown, w)
       PROVE  Order!isPlacedAsRequested(shown, x, target)
  <2> DEFINE i == Place(shown, x)
  <2>0. \A e, f \in 1 .. N : e < f => w[shown[e]] <= w[shown[f]] BY <1>12, OrderFacts DEF Order!Shows
  <2>1. /\ \A y \in Articles : Place(shown, y) \in 1 .. N /\ shown[Place(shown, y)] = y
        /\ \A e \in 1 .. N : Place(shown, shown[e]) = e
        /\ \A e \in 1 .. N : shown[e] \in Articles
    <3>1. \A e \in 1 .. N : shown[e] \in Articles BY OrderFacts
    <3> QED BY <3>1, PlaceFacts
  \* A lesser position is shown earlier.
  <2>2. ASSUME NEW y \in Articles, NEW z \in Articles, w[y] < w[z]
        PROVE  Place(shown, y) < Place(shown, z)
    <3>1. Place(shown, y) \in 1 .. N /\ Place(shown, z) \in 1 .. N BY <2>1
    <3>2. ASSUME Place(shown, z) < Place(shown, y) PROVE FALSE
      <4>1. w[z] <= w[y] BY <2>0, <2>1, <3>1, <3>2
      <4> QED BY <1>7, <2>2, <4>1
    <3>3. ASSUME Place(shown, z) = Place(shown, y) PROVE FALSE
      <4>1. y = z BY <2>1, <3>3
      <4> QED BY <1>7, <2>2, <4>1
    <3> QED BY <1>1, <3>1, <3>2, <3>3
  <2>3. i \in 1 .. N /\ Len(shown) = N BY <2>1, OrderFacts
  <2>4. CASE target.to = "top"
    <3>1. s = 1 BY <1>11, <2>4
    <3>2. ASSUME i # 1 PROVE FALSE
      <4>1. 1 \in 1 .. N /\ shown[1] \in Articles /\ Place(shown, shown[1]) = 1 BY <1>1, <2>1
      <4>2. shown[1] \in Articles \ {x} BY <3>2, <4>1
      <4>3. s < Place(d, shown[1]) BY <1>1, <1>5, <1>6, <3>1, <4>2
      <4>4. i < 1 BY <1>10, <2>2, <4>1, <4>3
      <4> QED BY <2>3, <4>4
    <3> QED BY <2>4, <3>2 DEF Order!isPlacedAsRequested, Place
  <2>5. CASE target.to = "bottom"
    <3>1. s = N BY <1>11, <2>5
    <3>2. ASSUME i # N PROVE FALSE
      <4>1. N \in 1 .. N /\ shown[N] \in Articles /\ Place(shown, shown[N]) = N BY <1>1, <2>1
      <4>2. shown[N] \in Articles \ {x} BY <3>2, <4>1
      <4>3. Place(d, shown[N]) < s BY <1>1, <1>5, <1>6, <3>1, <4>2
      <4>4. N < i BY <1>9, <2>2, <4>1, <4>3
      <4> QED BY <1>1, <2>3, <4>4
    <3> QED BY <2>3, <2>5, <3>2 DEF Order!isPlacedAsRequested, Place
  <2>6. CASE target.to = "before"
    <3>1. target.ref \in Articles BY <2>6, TargetFacts
    <3>2. s < Place(d, target.ref) BY <1>11, <2>6
    <3>3. i < Place(shown, target.ref) BY <1>10, <2>2, <3>1, <3>2
    <3> QED BY <2>6, <3>3 DEF Order!isPlacedAsRequested, Place
  <2>7. CASE target.to = "after"
    <3>1. target.ref \in Articles BY <2>7, TargetFacts
    <3>2. Place(d, target.ref) < s BY <1>11, <2>7
    <3>3. Place(shown, target.ref) < i BY <1>9, <2>2, <3>1, <3>2
    <3>4. Place(shown, target.ref) \in 1 .. N BY <2>1, <3>1
    <3>5. i > Place(shown, target.ref) BY <1>1, <2>3, <3>3, <3>4
    <3> QED BY <2>7, <3>5 DEF Order!isPlacedAsRequested, Place
  <2> QED BY <2>4, <2>5, <2>6, <2>7, TargetFacts
<1> QED BY <1>1, <1>7, <1>8, <1>12

-----------------------------------------------------------------------------
(* The handler: in a section ordered by position, what is written is what the     *)
(* order read led to, and what it answers is said once all is written.            *)

Calls ==
    [moved : Articles, target : Order!Targets, normalize : BOOLEAN,
     order : Order!Orders, desired : Order!Orders, found : [Articles -> Nat],
     since : [Articles -> Nat], writes : [Articles -> Nat],
     answer : Order!Results \cup {None}, at : {"writing", "answered"}]

\* A call is to do what follows from the order and the positions it found.
Derived(req) ==
    /\ req.target.ref # req.moved
    /\ Order!Shows(req.order, req.found)
    /\ req.desired = Order!arrangeDesiredOrder(req.order, req.moved, req.target)
    /\ req.writes = Order!computePositionWrites(req.desired, req.moved, req.normalize, req.found)

\* And it says it is done when the positions are those wanted.
Says(req, pos) ==
    /\ req.at = "writing" => req.answer = None
    /\ req.answer \in {"unchanged", "moved"} => pos = req.writes
    /\ req.answer # "automatic"

OrderInv ==
    auto = None =>
        /\ position \in [Articles -> Nat]
        /\ \/ call = [at |-> "none"]
           \/ call \in Calls /\ Derived(call) /\ Says(call, position)

LEMMA OrderFromInit == Init => OrderInv
<1> SUFFICES ASSUME Init PROVE OrderInv OBVIOUS
<1>1. CASE part = "order"
  <2>1. Order!Init BY <1>1 DEF Init
  <2>2. position \in [Articles -> 0 .. MaxPosition] /\ MaxPosition \in Nat
        BY <2>1, PartsAssumption DEF Order!Init, Order!ArticleOrderAssumption
  <2>3. position \in [Articles -> Nat] BY <2>2
  <2> QED BY <2>1, <2>3 DEF OrderInv, Order!Init
<1>2. CASE part # "order"
  <2>1. position = [x \in Articles |-> 0] /\ call = [at |-> "none"] BY <1>2 DEF Init
  <2>2. position \in [Articles -> Nat] BY <2>1
  <2> QED BY <2>1, <2>2 DEF OrderInv
<1> QED BY <1>1, <1>2

\* Orders shown by positions contradict none of them.
LEMMA ShownFacts ==
  ASSUME NEW o \in Order!Orders, NEW pos \in [Articles -> Nat], Order!Shows(o, pos)
  PROVE  ~Order!hasPositionInversion(o, pos)
<1>1. N \in Nat /\ Len(o) = N /\ DOMAIN o = 1 .. N /\ \A i \in 1 .. N : o[i] \in Articles
      BY ArticlesFinite, OrderFacts
<1>2. SUFFICES ASSUME NEW i \in 2 .. N, pos[o[i - 1]] > pos[o[i]] PROVE FALSE
      BY <1>1 DEF Order!hasPositionInversion
<1>3. i - 1 \in 1 .. N /\ i \in 1 .. N /\ i - 1 < i BY <1>1
<1>4. pos[o[i - 1]] <= pos[o[i]] BY <1>1, <1>3 DEF Order!Shows
<1>5. pos[o[i - 1]] \in Nat /\ pos[o[i]] \in Nat BY <1>1, <1>3
<1> QED BY <1>2, <1>4, <1>5

\* A call that reads the order.
LEMMA ReadsKeep ==
  ASSUME auto = None, position \in [Articles -> Nat], auto' = auto,
         NEW x \in Articles, NEW target \in Order!Targets, target.ref # x,
         NEW normalize \in BOOLEAN, NEW confirm, NEW o \in Order!Shown,
         NEW since \in [Articles -> Nat],
         Order!Reads(x, target, normalize, confirm, o, since)
  PROVE  OrderInv'
<1> DEFINE d == Order!arrangeDesiredOrder(o, x, target)
           w == Order!computePositionWrites(d, x, normalize, position)
           changed == {y \in Articles : w[y] # position[y]}
<1>1. o \in Order!Orders /\ Order!Shows(o, position) BY DEF Order!Shown
<1>2. d \in Order!Orders /\ w \in [Articles -> Nat] BY <1>1, WritesFacts
<1>3. ~Order!hasPositionInversion(o, position) BY <1>1, ShownFacts
<1>4. PICK answer :
        /\ answer = CASE changed = {} -> "unchanged"
                      [] changed # {} /\ Order!hasPositionInversion(o, position) -> "automatic"
                      [] OTHER -> IF Order!Cardinality(changed) > ConfirmThreshold /\ ~confirm
                                  THEN "unconfirmed" ELSE None
        /\ call' = [moved |-> x, target |-> target, normalize |-> normalize,
                    order |-> o, desired |-> d, found |-> position, since |-> since,
                    writes |-> w, answer |-> answer,
                    at |-> IF answer = None THEN "writing" ELSE "answered"]
      BY DEF Order!Reads
<1>5. position' = position BY DEF Order!Reads
<1>6. changed = {} => position = w BY <1>2
<1> HIDE DEF d, w, changed
<1>7. \/ answer = "unchanged" /\ changed = {}
      \/ answer \in {"unconfirmed", None}
      BY <1>3, <1>4
<1>8. "unchanged" # "automatic" /\ None \notin {"automatic", "unchanged", "moved", "unconfirmed"}
      /\ {"unchanged", "unconfirmed"} \subseteq Order!Results
      BY ArticlesFinite DEF Order!Results
<1>9. call' \in Calls BY <1>1, <1>2, <1>4, <1>7, <1>8 DEF Calls
<1>10. Derived(call') BY <1>1, <1>4 DEF Derived, d, w
<1>11. Says(call', position') BY <1>4, <1>5, <1>6, <1>7, <1>8 DEF Says
<1> QED BY <1>5, <1>9, <1>10, <1>11 DEF OrderInv

\* What is left to write is none when the positions are those wanted.
LEMMA PendingFacts ==
  ASSUME call \in Calls, position \in [Articles -> Nat]
  PROVE  /\ \A i \in Order!Pending : call.desired[i] \in Articles /\ call.writes[call.desired[i]] \in Nat
         /\ Order!Pending = {} => position = call.writes
<1>1. call.desired \in Order!Orders /\ call.writes \in [Articles -> Nat] BY DEF Calls
<1>2. /\ DOMAIN call.desired = 1 .. N /\ \A i \in 1 .. N : call.desired[i] \in Articles
      /\ \A x \in Articles : \E i \in 1 .. N : call.desired[i] = x
      BY <1>1, OrderFacts
<1>3. \A i \in Order!Pending : call.desired[i] \in Articles /\ call.writes[call.desired[i]] \in Nat
      BY <1>1, <1>2 DEF Order!Pending
<1>4. ASSUME Order!Pending = {} PROVE position = call.writes
  <2>1. \A x \in Articles : position[x] = call.writes[x] BY <1>2, <1>4 DEF Order!Pending
  <2> QED BY <1>1, <2>1
<1> QED BY <1>3, <1>4

LEMMA OrderStep ==
  ASSUME OrderInv, Order!Next
  PROVE  OrderInv'
<1>1. SUFFICES ASSUME auto = None, auto' = auto PROVE OrderInv'
  <2>0. ASSUME NEW x, NEW target, NEW normalize, NEW confirm, NEW o, NEW since,
               Order!Reads(x, target, normalize, confirm, o, since)
        PROVE  auto' = auto
        BY <2>0 DEF Order!Reads
  <2>1. auto' = auto
        BY <2>0 DEF Order!Next, Order!Reorder, Order!Rerun, Order!WritePosition,
               Order!WriteFails, Order!Verify, Order!VerifyFails
  <2> QED BY <1>1, <2>1 DEF OrderInv
<1>2. position \in [Articles -> Nat] BY <1>1 DEF OrderInv
<1>3. ASSUME call.at # "none" PROVE call \in Calls /\ Derived(call) /\ Says(call, position)
  <2>1. call # [at |-> "none"] BY <1>3
  <2> QED BY <1>1, <2>1 DEF OrderInv
<1>4. ASSUME NEW x \in Articles, NEW target \in Order!Targets, NEW normalize \in BOOLEAN,
             NEW confirm \in BOOLEAN, Order!Reorder(x, target, normalize, confirm)
      PROVE  OrderInv'
  <2>1. target.ref # x BY <1>4 DEF Order!Reorder
  <2>2. PICK o \in Order!Shown : Order!Reads(x, target, normalize, confirm, o, position)
        BY <1>4 DEF Order!Reorder
  <2> QED BY <1>1, <1>2, <2>1, <2>2, ReadsKeep
<1>5. CASE Order!Rerun
  <2>1. call \in Calls /\ Derived(call) BY <1>3, <1>5 DEF Order!Rerun
  <2>2. /\ call.moved \in Articles /\ call.target \in Order!Targets /\ call.normalize \in BOOLEAN
        /\ call.since \in [Articles -> Nat] /\ call.target.ref # call.moved
        BY <2>1 DEF Calls, Derived
  <2>3. PICK o \in Order!Shown :
          Order!Reads(call.moved, call.target, call.normalize, TRUE, o, call.since)
        BY <1>5 DEF Order!Rerun
  <2> QED BY <1>1, <1>2, <2>2, <2>3, ReadsKeep
<1>6. ASSUME call.at = "writing"
      PROVE  call \in Calls /\ Derived(call) /\ Says(call, position) /\ call.answer = None
  <2>1. call \in Calls /\ Derived(call) /\ Says(call, position) BY <1>3, <1>6
  <2> QED BY <1>6, <2>1 DEF Says
<1>7. None \notin {"unchanged", "moved", "automatic"} BY ArticlesFinite DEF Order!Results
<1>8. CASE Order!WritePosition
  <2>1. call' = call /\ call.at = "writing" BY <1>8 DEF Order!WritePosition
  <2>2. PICK i \in Order!Pending :
          position' = [position EXCEPT ![call.desired[i]] = call.writes[call.desired[i]]]
        BY <1>8 DEF Order!WritePosition
  <2>3. position' \in [Articles -> Nat] BY <1>2, <1>6, <2>1, <2>2, PendingFacts
  <2>4. Says(call, position') BY <1>6, <1>7, <2>1 DEF Says
  <2> QED BY <1>6, <2>1, <2>3, <2>4 DEF OrderInv
<1>9. ASSUME NEW answer \in {"failed", "moved"}, call.at = "writing", Order!Ends(answer),
             position' \in [Articles -> Nat], answer = "moved" => position' = call.writes
      PROVE  OrderInv'
  <2>1. call \in Calls /\ Derived(call) BY <1>6, <1>9
  <2>2. call' = [call EXCEPT !.at = "answered", !.answer = answer] BY <1>9 DEF Order!Ends
  <2>3. call' \in Calls BY <2>1, <2>2, <1>9 DEF Calls, Order!Results
  <2>4. /\ call'.moved = call.moved /\ call'.target = call.target
        /\ call'.normalize = call.normalize /\ call'.order = call.order
        /\ call'.desired = call.desired /\ call'.found = call.found
        /\ call'.writes = call.writes /\ call'.answer = answer /\ call'.at = "answered"
        BY <2>1, <2>2 DEF Calls
  <2>5. Derived(call') BY <2>1, <2>4 DEF Derived
  <2>6. Says(call', position') BY <1>9, <2>4 DEF Says
  <2> QED BY <1>9, <2>3, <2>5, <2>6 DEF OrderInv
<1>10. CASE Order!WriteFails
  <2>1. call.at = "writing" /\ Order!Ends("failed") BY <1>10 DEF Order!WriteFails
  <2>2. PICK i \in Order!Pending :
          position' \in {position,
                         [position EXCEPT ![call.desired[i]] = call.writes[call.desired[i]]]}
        BY <1>10 DEF Order!WriteFails
  <2>3. position' \in [Articles -> Nat] BY <1>2, <1>6, <2>1, <2>2, PendingFacts
  <2> QED BY <1>9, <2>1, <2>3
\* Once all is written, every order shown has the article where it was to go.
<1>11. CASE Order!Verify
  <2>1. call.at = "writing" /\ Order!Pending = {} /\ position' = position
        BY <1>11 DEF Order!Verify
  <2>2. PICK o \in Order!Shown :
          Order!Ends(IF Order!isPlacedAsRequested(o, call.moved, call.target)
                     THEN "moved" ELSE "automatic")
        BY <1>11 DEF Order!Verify
  <2>3. call \in Calls /\ Derived(call) BY <1>6, <2>1
  <2>4. position = call.writes BY <1>2, <2>1, <2>3, PendingFacts
  <2>5. o \in Order!Orders /\ Order!Shows(o, call.writes) BY <1>1, <2>4 DEF Order!Shown
  <2>6. Order!isPlacedAsRequested(o, call.moved, call.target)
        BY <2>3, <2>5, WritesFacts DEF Calls, Derived
  <2>7. Order!Ends("moved") BY <2>2, <2>6
  <2> QED BY <1>2, <1>9, <2>1, <2>4, <2>7
<1>12. CASE Order!VerifyFails
  <2>1. call.at = "writing" /\ Order!Ends("failed") /\ position' = position
        BY <1>12 DEF Order!VerifyFails
  <2> QED BY <1>2, <1>9, <2>1
<1> QED BY <1>4, <1>5, <1>8, <1>10, <1>11, <1>12 DEF Order!Next

\* What the handler of reorder_article says of the order is true and remains so, in a
\* section of any size ordered by position: an article said to be moved, or to be in
\* its place already, is there in every order Zendesk may show; the others keep the
\* order their positions told; and the section is never said to be automatic.
THEOREM ReorderTrue == Spec => []ReorderIsTrue
<1>1. ASSUME OrderInv, [Next]_vars PROVE OrderInv'
  <2>1. CASE OrderNext BY <1>1, <2>1, OrderStep DEF OrderNext
  <2>2. CASE FilesNext \/ OverlayNext \/ ProcessNext \/ ServerNext \/ vars' = vars
    <3>1. auto' = auto /\ position' = position /\ call' = call
          BY <2>2 DEF FilesNext, OverlayNext, ProcessNext, ServerNext, Only, vars, order
    <3> QED BY <1>1, <3>1 DEF OrderInv
  <2> QED BY <1>1, <2>1, <2>2 DEF Next
<1>2. ASSUME OrderInv PROVE ReorderIsTrue
  <2>1. ASSUME auto = None, Order!Answered({"moved", "unchanged"})
        PROVE  /\ call \in Calls /\ Derived(call) /\ position = call.writes
    <3>1. call.at = "answered" /\ call.answer \in {"moved", "unchanged"} BY <2>1 DEF Order!Answered
    <3>2. call # [at |-> "none"] BY <3>1
    <3> QED BY <1>2, <2>1, <3>1, <3>2 DEF OrderInv, Says
  <2>2. Order!PlacedForGood
    <3> SUFFICES ASSUME auto = None, Order!Answered({"moved", "unchanged"}), NEW o \in Order!Shown
                 PROVE  Order!isPlacedAsRequested(o, call.moved, call.target)
        BY DEF Order!PlacedForGood
    <3>1. call \in Calls /\ Derived(call) /\ position = call.writes BY <2>1
    <3>2. o \in Order!Orders /\ Order!Shows(o, call.writes) BY <3>1 DEF Order!Shown
    <3> QED BY <3>1, <3>2, WritesFacts DEF Calls, Derived
  <2>3. Order!OthersKeepTheirOrder
    <3> SUFFICES ASSUME auto = None, Order!Answered({"moved"})
                 PROVE  Order!KeepTheirOrder(call.found)
        BY DEF Order!OthersKeepTheirOrder
    <3>1. Order!Answered({"moved", "unchanged"}) BY DEF Order!Answered
    <3>2. call \in Calls /\ Derived(call) /\ position = call.writes BY <2>1, <3>1
    <3>3. \A y, z \in Articles \ {call.moved} :
             call.found[y] < call.found[z] => call.writes[y] < call.writes[z]
          BY <3>2, WritesFacts DEF Calls, Derived
    <3> QED BY <3>2, <3>3 DEF Order!KeepTheirOrder
  <2>4. Order!ManualNeverCalledAutomatic
    <3> SUFFICES ASSUME auto = None, Order!Answered({"automatic"}) PROVE FALSE
        BY DEF Order!ManualNeverCalledAutomatic
    <3>1. call.at = "answered" /\ call.answer = "automatic" BY DEF Order!Answered
    <3>2. call # [at |-> "none"] BY <3>1
    <3> QED BY <1>2, <3>1, <3>2 DEF OrderInv, Says
  <2> QED BY <2>2, <2>3, <2>4 DEF ReorderIsTrue, Order!ReorderIsTrue
<1> QED BY OrderFromInit, <1>1, <1>2, PTL DEF Spec

-----------------------------------------------------------------------------
(* Types.  In a section ordered automatically the positions follow no order, but  *)
(* a finite number of them still has a greatest.                                  *)

\* By the least counterexample.
LEMMA Greatest ==
  ASSUME NEW n \in Nat, n # 0, NEW f \in [1 .. n -> Int]
  PROVE  \E m \in 1 .. n : \A i \in 1 .. n : f[i] <= f[m]
<1> DEFINE Bad(k) == ~(\E m \in 1 .. k : \A i \in 1 .. k : f[i] <= f[m])
           T == {k \in 1 .. n : Bad(k)}
<1>1. SUFFICES ASSUME n \in T PROVE FALSE OBVIOUS
<1>2. PICK k \in T : \A j \in T : ~(j < k)
  <2>1. IsWellFoundedOn(OpToRel(<, Nat), Nat) BY NatLessThanWellFounded
  <2>2. T \subseteq Nat /\ T # {}
    <3> HIDE DEF Bad
    <3> QED BY <1>1
  <2>3. PICK k \in T : \A j \in T : ~(<<j, k>> \in OpToRel(<, Nat)) BY <2>1, <2>2, WFMin
  <2> HIDE DEF T
  <2>4. \A j \in T : ~(j < k) BY <2>2, <2>3 DEF OpToRel
  <2> QED BY <2>4
<1>3. k \in 1 .. n /\ k \in Nat OBVIOUS
<1>4. CASE k = 1 BY <1>4
<1>5. CASE k # 1
  <2>1. k - 1 \in 1 .. n /\ k - 1 < k BY <1>3, <1>5
  <2>2. k - 1 \notin T BY <1>2, <2>1
  <2>3. PICK m \in 1 .. k - 1 : \A i \in 1 .. k - 1 : f[i] <= f[m] BY <2>1, <2>2
  <2>4. \A i \in 1 .. k : i \in 1 .. k - 1 \/ i = k BY <1>3
  <2>5. m \in 1 .. k /\ k \in 1 .. k /\ m \in 1 .. n BY <1>3
  <2>6. \A i \in 1 .. k : i \in 1 .. n /\ f[i] \in Int BY <1>3
  <2>7. CASE f[m] <= f[k]
    <3>1. \A i \in 1 .. k : f[i] <= f[k] BY <2>3, <2>4, <2>5, <2>6, <2>7
    <3> QED BY <2>5, <3>1
  <2>8. CASE ~(f[m] <= f[k])
    <3>1. \A i \in 1 .. k : f[i] <= f[m] BY <2>3, <2>4, <2>5, <2>6, <2>8
    <3> QED BY <2>5, <3>1
  <2> QED BY <2>7, <2>8
<1> QED BY <1>4, <1>5

LEMMA WritesTyped ==
  ASSUME NEW d \in Order!Orders, NEW x \in Articles, NEW pos \in [Articles -> Nat],
         NEW normalize \in BOOLEAN
  PROVE  Order!computePositionWrites(d, x, normalize, pos) \in [Articles -> Nat]
<1> DEFINE s == Place(d, x)
           last == Order!LastPosition(d, pos)
<1>1. N \in Nat /\ s \in 1 .. N /\ Len(d) = N /\ \A i \in 1 .. N : d[i] \in Articles /\ pos[d[i]] \in Nat
  <2>1. s \in 1 .. N BY PlaceFacts
  <2>2. Len(d) = N /\ \A i \in 1 .. N : d[i] \in Articles BY OrderFacts
  <2> QED BY <2>1, <2>2, ArticlesFinite
<1>2. last \in Nat
  <2> DEFINE others == {pos[d[i]] : i \in 1 .. N - 1} \cup {-1}
             Top(p) == p \in others /\ \A q \in others : q <= p
  <2>1. \A q \in others : q \in Int /\ q >= -1 BY <1>1
  <2>2. \E p : Top(p)
    <3>1. CASE N = 1
      <4>1. others = {-1} BY <3>1
      <4>2. Top(-1) BY <4>1
      <4> QED BY <4>2
    <3>2. CASE N # 1
      <4> DEFINE f == [i \in 1 .. N - 1 |-> pos[d[i]]]
      <4>1. f \in [1 .. N - 1 -> Int] /\ N - 1 \in Nat /\ N - 1 # 0 BY <1>1, <3>2
      <4> HIDE DEF f
      <4>2. PICK m \in 1 .. N - 1 : \A i \in 1 .. N - 1 : f[i] <= f[m] BY <4>1, Greatest
      <4>3. \A i \in 1 .. N - 1 : f[i] = pos[d[i]] BY DEF f
      <4>4. pos[d[m]] \in others /\ -1 <= pos[d[m]] BY <1>1
      <4>5. \A i \in 1 .. N - 1 : pos[d[i]] <= pos[d[m]] BY <4>2, <4>3
      <4>6. Top(pos[d[m]]) BY <4>4, <4>5
      <4> QED BY <4>6
    <3> QED BY <3>1, <3>2
  <2>3. PICK p : p = CHOOSE r \in others : \A q \in others : q <= r OBVIOUS
  <2>4. Top(p) BY <2>2, <2>3
  <2>5. last = 1 + p BY <1>1, <2>3 DEF Order!LastPosition
  <2>6. p \in Int /\ p >= -1 BY <2>1, <2>4
  <2> HIDE DEF others, last
  <2> QED BY <2>5, <2>6
<1>3. \A i \in s .. N : Order!Bumped(d, s, pos, i) \in Nat
  <2>1. CASE s = 1 BY <1>1, <2>1 DEF Order!Bumped
  <2>2. CASE s # 1
    <3>1. s - 1 \in 1 .. N BY <1>1, <2>2
    <3>2. pos[d[s - 1]] \in Nat BY <1>1, <3>1
    <3> HIDE DEF s
    <3> QED BY <1>1, <2>2, <3>2 DEF Order!Bumped
  <2> QED BY <2>1, <2>2
<1>4. \A i \in 1 .. N : Goes(d, s, normalize, pos, i) \in Nat
  <2> SUFFICES ASSUME NEW i \in 1 .. N PROVE Goes(d, s, normalize, pos, i) \in Nat
      OBVIOUS
  <2>1. Order!InCascade(d, s, pos, i) => i \in s .. N BY <1>1 DEF Order!InCascade
  <2>2. Goes(d, s, normalize, pos, i) \in
            {i - 1, last, pos[d[i]]} \cup
            (IF Order!InCascade(d, s, pos, i) THEN {Order!Bumped(d, s, pos, i)} ELSE {})
        BY <1>1 DEF Goes, Order!NewPosition
  <2> HIDE DEF s, last
  <2> QED BY <1>1, <1>2, <1>3, <2>1, <2>2
<1>5. \A y \in Articles : Place(d, y) \in 1 .. N BY PlaceFacts
<1> QED BY <1>4, <1>5 DEF Order!computePositionWrites, Goes, Place

OrderTyped ==
    /\ auto \in {None, AutoOrder} /\ failures \in 0 .. MaxFailures
    /\ position \in [Articles -> Nat]
    /\ \/ call = [at |-> "none"]
       \/ /\ call \in Calls /\ call.target.ref # call.moved
          /\ IF call.at = "writing" THEN call.answer = None ELSE call.answer \in Order!Results

LEMMA OrderTypedStep ==
  ASSUME OrderTyped, Order!Next PROVE OrderTyped'
<1>1. /\ auto \in {None, AutoOrder} /\ failures \in 0 .. MaxFailures
      /\ position \in [Articles -> Nat]
      BY DEF OrderTyped
<1>2. MaxFailures \in Nat BY PartsAssumption DEF Order!ArticleOrderAssumption
<1>3. ASSUME call.at # "none"
      PROVE  /\ call \in Calls /\ call.target.ref # call.moved
             /\ IF call.at = "writing" THEN call.answer = None ELSE call.answer \in Order!Results
  <2>1. call # [at |-> "none"] BY <1>3
  <2> QED BY <2>1 DEF OrderTyped
<1>4. ASSUME NEW x \in Articles, NEW target \in Order!Targets, target.ref # x,
             NEW normalize \in BOOLEAN, NEW confirm, NEW o \in Order!Shown,
             NEW since \in [Articles -> Nat],
             Order!Reads(x, target, normalize, confirm, o, since)
      PROVE  OrderTyped'
  <2> DEFINE d == Order!arrangeDesiredOrder(o, x, target)
             w == Order!computePositionWrites(d, x, normalize, position)
  <2>1. o \in Order!Orders BY <1>1, ArticlesFinite DEF Order!Shown
  <2>2. d \in Order!Orders BY <1>4, <2>1, Arranged
  <2>3. w \in [Articles -> Nat] BY <1>1, <2>2, WritesTyped
  <2> HIDE DEF d, w
  <2>4. PICK answer :
          /\ answer \in {"unchanged", "automatic", "unconfirmed", None}
          /\ call' = [moved |-> x, target |-> target, normalize |-> normalize,
                      order |-> o, desired |-> d, found |-> position, since |-> since,
                      writes |-> w, answer |-> answer,
                      at |-> IF answer = None THEN "writing" ELSE "answered"]
        BY <1>4 DEF Order!Reads, d, w
  <2>5. None \notin Order!Results
        /\ {"unchanged", "automatic", "unconfirmed"} \subseteq Order!Results
        BY ArticlesFinite DEF Order!Results
  <2>6. call' \in Calls BY <1>1, <1>4, <2>1, <2>2, <2>3, <2>4, <2>5 DEF Calls
  <2>7. /\ call'.target.ref # call'.moved
        /\ IF call'.at = "writing" THEN call'.answer = None ELSE call'.answer \in Order!Results
        BY <1>4, <2>4, <2>5
  <2>8. auto' = auto /\ position' = position /\ failures' = failures BY <1>4 DEF Order!Reads
  <2> QED BY <1>1, <2>6, <2>7, <2>8 DEF OrderTyped
<1>5. ASSUME NEW x \in Articles, NEW target \in Order!Targets, NEW normalize \in BOOLEAN,
             NEW confirm \in BOOLEAN, Order!Reorder(x, target, normalize, confirm)
      PROVE  OrderTyped'
  <2>1. target.ref # x BY <1>5 DEF Order!Reorder
  <2>2. PICK o \in Order!Shown : Order!Reads(x, target, normalize, confirm, o, position)
        BY <1>5 DEF Order!Reorder
  <2> QED BY <1>1, <1>4, <2>1, <2>2
<1>6. CASE Order!Rerun
  <2>1. call.at # "none" BY <1>6 DEF Order!Rerun
  <2>2. /\ call.moved \in Articles /\ call.target \in Order!Targets /\ call.normalize \in BOOLEAN
        /\ call.since \in [Articles -> Nat] /\ call.target.ref # call.moved
        BY <1>3, <2>1 DEF Calls
  <2>3. PICK o \in Order!Shown :
          Order!Reads(call.moved, call.target, call.normalize, TRUE, o, call.since)
        BY <1>6 DEF Order!Rerun
  <2> QED BY <1>4, <2>2, <2>3
<1>7. CASE Order!WritePosition
  <2>1. call' = call /\ call.at = "writing" /\ auto' = auto /\ failures' = failures
        BY <1>7 DEF Order!WritePosition
  <2>2. PICK i \in Order!Pending :
          position' = [position EXCEPT ![call.desired[i]] = call.writes[call.desired[i]]]
        BY <1>7 DEF Order!WritePosition
  <2>3. position' \in [Articles -> Nat] BY <1>1, <1>3, <2>1, <2>2, PendingFacts
  <2> QED BY <1>1, <1>3, <2>1, <2>3 DEF OrderTyped
<1>8. ASSUME NEW answer \in Order!Results, call.at = "writing", Order!Ends(answer),
             position' \in [Articles -> Nat], failures' \in 0 .. MaxFailures, auto' = auto
      PROVE  OrderTyped'
  <2>1. call \in Calls /\ call.target.ref # call.moved BY <1>3, <1>8
  <2>2. call' = [call EXCEPT !.at = "answered", !.answer = answer] BY <1>8 DEF Order!Ends
  <2>3. call' \in Calls BY <2>1, <2>2, <1>8 DEF Calls
  <2>4. /\ call'.moved = call.moved /\ call'.target = call.target
        /\ call'.answer = answer /\ call'.at = "answered"
        BY <2>1, <2>2 DEF Calls
  <2> QED BY <1>1, <1>8, <2>1, <2>3, <2>4 DEF OrderTyped
<1>9. {"failed", "moved", "automatic"} \subseteq Order!Results BY DEF Order!Results
<1>10. ASSUME failures < MaxFailures, failures' = failures + 1
       PROVE  failures' \in 0 .. MaxFailures
       BY <1>1, <1>2, <1>10
<1>11. CASE Order!WriteFails
  <2>1. /\ call.at = "writing" /\ Order!Ends("failed") /\ auto' = auto
        /\ failures < MaxFailures /\ failures' = failures + 1
        BY <1>11 DEF Order!WriteFails
  <2>2. PICK i \in Order!Pending :
          position' \in {position,
                         [position EXCEPT ![call.desired[i]] = call.writes[call.desired[i]]]}
        BY <1>11 DEF Order!WriteFails
  <2>3. position' \in [Articles -> Nat] BY <1>1, <1>3, <2>1, <2>2, PendingFacts
  <2> QED BY <1>8, <1>9, <1>10, <2>1, <2>3
<1>12. CASE Order!Verify
  <2>1. /\ call.at = "writing" /\ position' = position /\ auto' = auto /\ failures' = failures
        BY <1>12 DEF Order!Verify
  <2>2. Order!Ends("moved") \/ Order!Ends("automatic")
        BY <1>12 DEF Order!Verify
  <2> QED BY <1>1, <1>8, <1>9, <2>1, <2>2
<1>13. CASE Order!VerifyFails
  <2>1. /\ call.at = "writing" /\ Order!Ends("failed") /\ position' = position
        /\ auto' = auto /\ failures < MaxFailures /\ failures' = failures + 1
        BY <1>13 DEF Order!VerifyFails
  <2> QED BY <1>1, <1>8, <1>9, <1>10, <2>1
<1> QED BY <1>5, <1>6, <1>7, <1>11, <1>12, <1>13 DEF Order!Next

\* Every reachable state of a reorder is well typed, in a section ordered automatically
\* as well: no position written is negative (LastPosition and Bumped of
\* computePositionWrites).
THEOREM ReorderTyped == Spec => []Order!TypeOK
<1>1. Init => OrderTyped
  <2> SUFFICES ASSUME Init PROVE OrderTyped OBVIOUS
  <2>1. MaxFailures \in Nat /\ MaxPosition \in Nat
        BY PartsAssumption DEF Order!ArticleOrderAssumption
  <2>2. CASE part = "order"
    <3>1. position \in [Articles -> 0 .. MaxPosition] BY <2>2 DEF Init, Order!Init
    <3>2. position \in [Articles -> Nat] BY <2>1, <3>1
    <3> QED BY <2>1, <2>2, <3>2 DEF Init, Order!Init, OrderTyped
  <2>3. CASE part # "order"
    <3>1. position = [x \in Articles |-> 0] /\ call = [at |-> "none"] /\ auto = None /\ failures = 0
          BY <2>3 DEF Init
    <3>2. position \in [Articles -> Nat] BY <3>1
    <3> QED BY <2>1, <3>1, <3>2 DEF OrderTyped
  <2> QED BY <2>2, <2>3
<1>2. ASSUME OrderTyped, [Next]_vars PROVE OrderTyped'
  <2>1. CASE OrderNext BY <1>2, <2>1, OrderTypedStep DEF OrderNext
  <2>2. CASE FilesNext \/ OverlayNext \/ ProcessNext \/ ServerNext \/ vars' = vars
    <3>1. auto' = auto /\ position' = position /\ call' = call /\ failures' = failures
          BY <2>2 DEF FilesNext, OverlayNext, ProcessNext, ServerNext, Only, vars, order
    <3> QED BY <1>2, <3>1 DEF OrderTyped
  <2> QED BY <1>2, <2>1, <2>2 DEF Next
<1>3. ASSUME OrderTyped PROVE Order!TypeOK
  <2>1. CASE call = [at |-> "none"] BY <1>3, <2>1 DEF OrderTyped, Order!TypeOK
  <2>2. CASE call # [at |-> "none"]
    <3>1. call \in Calls /\ IF call.at = "writing" THEN call.answer = None ELSE call.answer \in Order!Results
          BY <1>3, <2>2 DEF OrderTyped
    <3>2. /\ call.moved \in Articles /\ call.target \in Order!Targets /\ call.normalize \in BOOLEAN
          /\ call.order \in Order!Orders /\ call.desired \in Order!Orders
          /\ call.found \in [Articles -> Nat] /\ call.writes \in [Articles -> Nat]
          /\ call.since \in [Articles -> Nat] /\ call.at \in {"writing", "answered"}
          BY <3>1 DEF Calls
    <3> QED BY <1>3, <3>1, <3>2 DEF OrderTyped, Order!TypeOK
  <2> QED BY <2>1, <2>2
<1> QED BY <1>1, <1>2, <1>3, PTL DEF Spec
=============================================================================
