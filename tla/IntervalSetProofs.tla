------------------------- MODULE IntervalSetProofs -------------------------
(***************************************************************************)
(* Proofs about IntervalSet: whatever calls are made on a                  *)
(* CanonicalIntervalSet, its list stays canonical and its two binary       *)
(* searches return the indices their comments promise, for every range of  *)
(* values and every placing of the address families in it; and it          *)
(* implements ValueSet.                                                    *)
(***************************************************************************)
EXTENDS IntervalSet, TLAPS

(***************************************************************************)
(* Intervals.                                                              *)
(***************************************************************************)

\* The fields of an interval are integers in order.
LEMMA IntervalFields ==
  ASSUME NEW a \in Interval
  PROVE  /\ a.start \in Values /\ a.end \in Values
         /\ a.start \in Int /\ a.end \in Int
         /\ a.start =< a.end
         /\ a = Iv(a.start, a.end)
         /\ \A t \in Tops : ~(a.start =< t /\ t < a.end)
  BY ValuesAssumption DEF Interval, Iv

\* What makes a pair of values an interval.
LEMMA IvInterval ==
  ASSUME NEW s \in Values, NEW e \in Values, s =< e,
         \A t \in Tops : ~(s =< t /\ t < e)
  PROVE  /\ Iv(s, e) \in Interval
         /\ Iv(s, e).start = s /\ Iv(s, e).end = e
  BY DEF Interval, Iv

\* Succ and Pred move a value by at most one, and keep the order.
LEMMA SuccPred ==
  ASSUME NEW v \in Values, NEW w \in Values
  PROVE  /\ v \in Int /\ Succ(v) \in Int /\ Pred(v) \in Int
         /\ v =< Succ(v) /\ Succ(v) =< v + 1
         /\ v - 1 =< Pred(v) /\ Pred(v) =< v
         /\ v =< w => Pred(v) =< Pred(w) /\ Succ(v) =< Succ(w)
  BY ValuesAssumption DEF Succ, Pred

\* v is at least two below w, or the two are in different families, exactly
\* when this is seen from w's side.
LEMMA PredSuccDual ==
  ASSUME NEW v \in Values, NEW w \in Values
  PROVE  v < Pred(w) <=> w > Succ(v)
  BY ValuesAssumption, FamiliesAssumption DEF Succ, Pred

\* The order seen from the other side.
LEMMA HigherIsLower ==
  ASSUME NEW a \in Interval, NEW b \in Interval
  PROVE  Higher(a, b) <=> Lower(b, a)
  BY IntervalFields, PredSuccDual DEF Higher, Lower

\* Lower is inherited by the parts of the two intervals.
LEMMA LowerWithin ==
  ASSUME NEW a \in Interval, NEW b \in Interval,
         NEW c \in Interval, NEW d \in Interval,
         Within(a, b), Within(c, d), Lower(b, d)
  PROVE  Lower(a, c)
  <1>1. Pred(d.start) =< Pred(c.start) /\ Pred(d.start) \in Int
        /\ Pred(c.start) \in Int
    BY IntervalFields, SuccPred DEF Within
  <1> QED
    BY <1>1, IntervalFields DEF Within, Lower

\* A lower interval also starts and ends before the other.
LEMMA LowerOrdered ==
  ASSUME NEW a \in Interval, NEW b \in Interval, Lower(a, b)
  PROVE  a.end < b.start /\ a.start =< b.start /\ a.end =< b.end
  <1>1. Pred(b.start) =< b.start /\ Pred(b.start) \in Int
    BY IntervalFields, SuccPred
  <1> QED
    BY <1>1, IntervalFields DEF Lower

\* An interval lower than one that is lower than a third is lower than the third.
LEMMA LowerTransitive ==
  ASSUME NEW a \in Interval, NEW b \in Interval, NEW c \in Interval,
         Lower(a, b), Lower(b, c)
  PROVE  Lower(a, c)
  <1>1. Pred(b.start) =< b.start /\ Pred(b.start) \in Int
        /\ Pred(c.start) \in Int
    BY IntervalFields, SuccPred
  <1> QED
    BY <1>1, IntervalFields DEF Lower

\* No interval of a canonical list is lower than itself.
LEMMA LowerIrreflexive ==
  ASSUME NEW a \in Interval, NEW b \in Interval, Lower(a, b)
  PROVE  ~Lower(b, a) /\ ~Higher(a, b)
  <1>1. Pred(b.start) =< b.start /\ Pred(b.start) \in Int
        /\ Pred(a.start) =< a.start /\ Pred(a.start) \in Int
    BY IntervalFields, SuccPred
  <1>2. ~Lower(b, a)
    BY <1>1, IntervalFields DEF Lower
  <1> QED
    BY <1>2, HigherIsLower

\* Two intervals neither of which is lower than the other overlap or touch,
\* and are of one address family.
LEMMA Near ==
  ASSUME NEW a \in Interval, NEW x \in Interval,
         ~Lower(a, x), ~Higher(a, x)
  PROVE  /\ Overlaps(a, x) \/ Touches(a, x)
         /\ \A t \in Tops : a.end =< t <=> x.end =< t
  <1>1. a.end >= Pred(x.start) /\ a.start =< Succ(x.end)
    BY IntervalFields, SuccPred DEF Lower, Higher
  <1>2. Overlaps(a, x) \/ Touches(a, x)
    <2>1. CASE a.end < x.start
      <3>1. x.start \notin Bottoms /\ a.end = x.start - 1
        BY <1>1, <2>1, IntervalFields DEF Pred
      <3>2. a.end \notin Tops
        BY <3>1, IntervalFields, FamiliesAssumption
      <3> QED
        BY <2>1, <3>1, <3>2, IntervalFields DEF Touches, Succ
    <2>2. CASE x.end < a.start
      <3>1. x.end \notin Tops /\ a.start = x.end + 1
        BY <1>1, <2>2, IntervalFields DEF Succ
      <3> QED
        BY <2>2, <3>1, IntervalFields DEF Touches, Succ
    <2> QED
      BY <2>1, <2>2, IntervalFields DEF Overlaps
  <1>3. ASSUME NEW t \in Tops, a.end =< t, x.end > t
        PROVE FALSE
    <2>1. x.start > t /\ t \in Values /\ t \in Int
      BY <1>3, IntervalFields, FamiliesAssumption, ValuesAssumption
    <2>2. x.start \notin Bottoms /\ x.start = t + 1
      BY <1>1, <1>3, <2>1, IntervalFields DEF Pred
    <2> QED
      BY <2>1, <2>2, IntervalFields, FamiliesAssumption
  <1>4. ASSUME NEW t \in Tops, x.end =< t, a.end > t
        PROVE FALSE
    <2>1. a.start > t /\ t \in Values /\ t \in Int
      BY <1>4, IntervalFields, FamiliesAssumption, ValuesAssumption
    <2>2. x.end \notin Tops /\ a.start =< x.end + 1
      BY <1>1, <1>4, <2>1, IntervalFields DEF Succ
    <2>3. x.end = t
      BY <1>4, <2>1, <2>2, IntervalFields
    <2> QED
      BY <2>2, <2>3
  <1>5. \A t \in Tops : t \in Int
    BY FamiliesAssumption, ValuesAssumption
  <1> QED
    BY <1>2, <1>3, <1>4, <1>5, IntervalFields

\* The pieces that are left of an interval are intervals within it; the first
\* of two is lower than the second.
LEMMA SubPieces ==
  ASSUME NEW a \in Interval, NEW b \in Interval
  PROVE  LET p == IntervalSub(a, b)
         IN  /\ IsCanonical(p)
             /\ \A i \in 1 .. Len(p) : Within(p[i], a)
  <1> DEFINE p == IntervalSub(a, b)
  <1>a. Within(a, a)
    BY IntervalFields DEF Within
  <1>0. /\ a.start < b.start /\ b.start =< a.end =>
             /\ Pred(b.start) = b.start - 1
             /\ Iv(a.start, b.start - 1) \in Interval
        /\ a.start =< b.end /\ b.end < a.end =>
             /\ Succ(b.end) = b.end + 1
             /\ Iv(b.end + 1, a.end) \in Interval
    <2>1. ASSUME a.start < b.start, b.start =< a.end
          PROVE  /\ Pred(b.start) = b.start - 1
                 /\ Iv(a.start, b.start - 1) \in Interval
      <3>1. b.start - 1 \in Values
        BY <2>1, IntervalFields, RangeAssumption
      <3>2. b.start \notin Bottoms
        BY <2>1, <3>1, IntervalFields, FamiliesAssumption
      <3>3. \A t \in Tops : ~(a.start =< t /\ t < b.start - 1)
        BY <2>1, IntervalFields, FamiliesAssumption, ValuesAssumption
      <3> QED
        BY <2>1, <3>1, <3>2, <3>3, IntervalFields, IvInterval DEF Pred
    <2>2. ASSUME a.start =< b.end, b.end < a.end
          PROVE  /\ Succ(b.end) = b.end + 1
                 /\ Iv(b.end + 1, a.end) \in Interval
      <3>1. b.end + 1 \in Values
        BY <2>2, IntervalFields, RangeAssumption
      <3>2. b.end \notin Tops
        BY <2>2, IntervalFields
      <3>3. \A t \in Tops : ~(b.end + 1 =< t /\ t < a.end)
        BY <2>2, IntervalFields, FamiliesAssumption, ValuesAssumption
      <3> QED
        BY <2>2, <3>1, <3>2, <3>3, IntervalFields, IvInterval DEF Succ
    <2> QED
      BY <2>1, <2>2
  <1>1. CASE ~Overlaps(a, b)
    <2>1. p = <<a>>
      BY <1>1 DEF IntervalSub
    <2> QED
      BY <1>a, <2>1 DEF IsCanonical
  <1>2. CASE Overlaps(a, b) /\ IsSubset(a, b)
    <2>1. p = << >>
      BY <1>2 DEF IntervalSub
    <2> QED
      BY <2>1 DEF IsCanonical
  <1>3. CASE Overlaps(a, b) /\ a.start < b.start /\ a.end > b.end
    <2> DEFINE x == Iv(a.start, b.start - 1)
               y == Iv(b.end + 1, a.end)
    <2>1. a.start =< b.end /\ b.start =< a.end
      BY <1>3, IntervalFields
    <2>2. p = <<x, y>> /\ x \in Interval /\ y \in Interval
      BY <1>0, <1>3, <2>1, IntervalFields DEF IntervalSub, IsSubset
    <2>3. b.end + 1 \notin Bottoms
      <3>1. b.end + 1 \in Values
        BY <1>3, <2>1, IntervalFields, RangeAssumption
      <3>2. b.end + 1 \in Bottoms => b.end \in Tops
        BY <3>1, IntervalFields, FamiliesAssumption
      <3> QED
        BY <1>3, <2>1, <3>2, IntervalFields
    <2>4. Lower(x, y)
      BY <2>3, IntervalFields DEF Lower, Pred, Iv
    <2>5. Within(x, a) /\ Within(y, a)
      BY <1>3, <2>1, IntervalFields DEF Within, Iv
    <2> HIDE DEF x, y
    <2> QED
      BY <2>2, <2>4, <2>5 DEF IsCanonical
  <1>4. CASE Overlaps(a, b) /\ a.start < b.start /\ ~(a.end > b.end)
    <2> DEFINE x == Iv(a.start, b.start - 1)
    <2>1. b.start =< a.end
      BY <1>4, IntervalFields DEF Overlaps
    <2>2. p = <<x>> /\ x \in Interval
      BY <1>0, <1>4, <2>1, IntervalFields
         DEF IntervalSub, IsSubset, Lesser
    <2>3. Within(x, a)
      BY <2>1, IntervalFields DEF Within, Iv
    <2> HIDE DEF x
    <2> QED
      BY <2>2, <2>3 DEF IsCanonical
  <1>5. CASE Overlaps(a, b) /\ ~(a.start < b.start) /\ ~IsSubset(a, b)
    <2> DEFINE y == Iv(b.end + 1, a.end)
    <2>1. a.start =< b.end /\ b.end < a.end
      BY <1>5, IntervalFields DEF Overlaps, IsSubset
    <2>2. p = <<y>> /\ y \in Interval
      BY <1>0, <1>5, <2>1, IntervalFields
         DEF IntervalSub, IsSubset, Greater
    <2>3. Within(y, a)
      BY <2>1, IntervalFields DEF Within, Iv
    <2> HIDE DEF y
    <2> QED
      BY <2>2, <2>3 DEF IsCanonical
  <1>6. a.start < b.start => ~IsSubset(a, b)
    BY IntervalFields DEF IsSubset
  <1> QED
    BY <1>1, <1>2, <1>3, <1>4, <1>5, <1>6

\* The intersection of two intervals is an interval within both.
LEMMA AndPieces ==
  ASSUME NEW a \in Interval, NEW b \in Interval
  PROVE  LET p == IntervalAnd(a, b)
         IN  \/ p = << >>
             \/ \E x \in Interval :
                  p = <<x>> /\ Within(x, a) /\ Within(x, b)
  <1> DEFINE s == Greater(a.start, b.start)
             e == Lesser(a.end, b.end)
  <1>1. s \in Values /\ e \in Values /\ s >= a.start /\ s >= b.start
        /\ e =< a.end /\ e =< b.end
    BY IntervalFields DEF Greater, Lesser
  <1>a. s \in Int /\ e \in Int
    BY <1>1, ValuesAssumption
  <1>b. IntervalAnd(a, b) = IF e < s THEN << >> ELSE <<Iv(s, e)>>
    BY DEF IntervalAnd
  <1> HIDE DEF s, e
  <1>2. CASE e < s
    BY <1>2, <1>b
  <1>3. CASE ~(e < s)
    <2>1. \A t \in Tops : ~(s =< t /\ t < e)
      BY <1>1, <1>a, IntervalFields, ValuesAssumption, FamiliesAssumption
    <2>2. Iv(s, e) \in Interval /\ Iv(s, e).start = s /\ Iv(s, e).end = e
      BY <1>1, <1>a, <1>3, <2>1, IvInterval
    <2>3. IntervalAnd(a, b) = <<Iv(s, e)>>
      BY <1>3, <1>b
    <2> QED
      BY <1>1, <2>2, <2>3 DEF Within
  <1> QED
    BY <1>2, <1>3

(***************************************************************************)
(* Lists of intervals.                                                     *)
(***************************************************************************)

\* An element of a canonical list is an interval.
LEMMA CanonicalElement ==
  ASSUME NEW s, IsCanonical(s), NEW i \in 1 .. Len(s)
  PROVE  s[i] \in Interval
  BY DEF IsCanonical

\* Putting one canonical list after another all of whose intervals are higher.
LEMMA ConcatCanonical ==
  ASSUME NEW s, NEW p, IsCanonical(s), IsCanonical(p),
         \A i \in 1 .. Len(s), n \in 1 .. Len(p) : Lower(s[i], p[n])
  PROVE  /\ IsCanonical(s \o p)
         /\ Len(s \o p) = Len(s) + Len(p)
         /\ \A i \in 1 .. Len(s \o p) :
              (s \o p)[i] = IF i =< Len(s) THEN s[i] ELSE p[i - Len(s)]
  <1> DEFINE r == s \o p
  <1>0. s \in Seq(Interval) /\ p \in Seq(Interval)
        /\ Len(s) \in Nat /\ Len(p) \in Nat
    BY DEF IsCanonical
  <1>1. /\ r \in Seq(Interval) /\ Len(r) = Len(s) + Len(p)
        /\ \A i \in 1 .. Len(r) :
             r[i] = IF i =< Len(s) THEN s[i] ELSE p[i - Len(s)]
    BY <1>0
  <1> HIDE DEF r
  <1>2. ASSUME NEW i \in 1 .. Len(r), NEW n \in 1 .. Len(r), i < n
        PROVE  Lower(r[i], r[n])
    <2>1. CASE n =< Len(s)
      BY <1>0, <1>1, <1>2, <2>1 DEF IsCanonical
    <2>2. CASE i =< Len(s) /\ n > Len(s)
      <3>1. r[i] = s[i] /\ r[n] = p[n - Len(s)]
            /\ i \in 1 .. Len(s) /\ n - Len(s) \in 1 .. Len(p)
        BY <1>0, <1>1, <1>2, <2>2
      <3> QED
        BY <3>1
    <2>3. CASE i > Len(s)
      <3>1. r[i] = p[i - Len(s)] /\ r[n] = p[n - Len(s)]
            /\ i - Len(s) \in 1 .. Len(p) /\ n - Len(s) \in 1 .. Len(p)
            /\ i - Len(s) < n - Len(s)
        BY <1>0, <1>1, <1>2, <2>3
      <3> QED
        BY <3>1 DEF IsCanonical
    <2> QED
      BY <1>0, <1>1, <1>2, <2>1, <2>2, <2>3
  <1>3. IsCanonical(r)
    BY <1>1, <1>2 DEF IsCanonical
  <1> QED
    BY <1>1, <1>3 DEF r

\* A list of one interval is canonical.
LEMMA SingleCanonical ==
  ASSUME NEW x \in Interval
  PROVE  IsCanonical(<<x>>) /\ Len(<<x>>) = 1 /\ <<x>>[1] = x
  BY DEF IsCanonical

\* Replacing a stretch of a canonical list by an interval that is higher than
\* what precedes the stretch and lower than what follows it.
LEMMA ReplaceCanonical ==
  ASSUME NEW s, IsCanonical(s),
         NEW from \in 0 .. Len(s), NEW to \in from .. Len(s),
         NEW x \in Interval,
         \A i \in 1 .. Len(s) : i =< from => Lower(s[i], x),
         \A i \in 1 .. Len(s) : i > to => Lower(x, s[i])
  PROVE  IsCanonical(Replace(s, from, to, x))
  <1> DEFINE a == SubSeq(s, 1, from)
             c == SubSeq(s, to + 1, Len(s))
  <1>0. s \in Seq(Interval) /\ Len(s) \in Nat /\ from \in Nat /\ to \in Nat
    BY DEF IsCanonical
  <1>1. /\ a \in Seq(Interval) /\ Len(a) = from
        /\ \A i \in 1 .. from : a[i] = s[i]
    BY <1>0
  <1>2. /\ c \in Seq(Interval) /\ Len(c) = Len(s) - to
        /\ \A i \in 1 .. Len(s) - to : c[i] = s[to + i] /\ to + i \in 1 .. Len(s)
    BY <1>0
  <1> HIDE DEF a, c
  <1>3. IsCanonical(a)
    BY <1>0, <1>1 DEF IsCanonical
  <1>4. IsCanonical(c)
    BY <1>0, <1>2 DEF IsCanonical
  <1>5. /\ IsCanonical(a \o <<x>>) /\ Len(a \o <<x>>) = from + 1
        /\ \A i \in 1 .. from + 1 :
             (a \o <<x>>)[i] = IF i =< from THEN s[i] ELSE x
    <2>1. \A i \in 1 .. Len(a), n \in 1 .. Len(<<x>>) : Lower(a[i], <<x>>[n])
      BY <1>0, <1>1, SingleCanonical
    <2> QED
      BY <1>0, <1>1, <1>3, <2>1, SingleCanonical, ConcatCanonical
  <1>6. \A i \in 1 .. Len(a \o <<x>>), n \in 1 .. Len(c) :
          Lower((a \o <<x>>)[i], c[n])
    <2> SUFFICES ASSUME NEW i \in 1 .. from + 1, NEW n \in 1 .. Len(s) - to
                 PROVE  Lower((a \o <<x>>)[i], c[n])
      BY <1>2, <1>5
    <2>1. c[n] = s[to + n] /\ to + n \in 1 .. Len(s) /\ to + n > to
      BY <1>0, <1>2
    <2>2. CASE i = from + 1
      BY <1>5, <2>1, <2>2
    <2>3. CASE i =< from
      <3>1. (a \o <<x>>)[i] = s[i] /\ i \in 1 .. Len(s) /\ i < to + n
        BY <1>0, <1>5, <2>3
      <3> QED
        BY <2>1, <3>1 DEF IsCanonical
    <2>4. i = from + 1 \/ i =< from
      BY <1>0
    <2> QED
      BY <2>2, <2>3, <2>4
  <1>7. Replace(s, from, to, x) = (a \o <<x>>) \o c
    BY DEF Replace, a, c
  <1> QED
    BY <1>4, <1>5, <1>6, <1>7, ConcatCanonical

\* The heart of add_interval: from the two indices the searches promise, the
\* three insertions and the merge all keep the list canonical.
LEMMA SplicedCanonical ==
  ASSUME NEW s, IsCanonical(s), NEW x \in Interval,
         NEW l, NEW r, LeftExact(s, x, l), RightExact(s, x, r)
  PROVE  IsCanonical(Spliced(s, x, l, r))
  <1>0. s \in Seq(Interval) /\ Len(s) \in Nat
        /\ l \in Int /\ r \in Int /\ -1 =< l /\ l < Len(s)
        /\ -1 =< r /\ r < Len(s)
    BY DEF IsCanonical, LeftExact, RightExact
  <1>1. \A i \in 1 .. Len(s) : i =< l + 1 <=> Lower(s[i], x)
    BY DEF LeftExact
  <1>2. \A i \in 1 .. Len(s) : (r >= 0 /\ i >= r + 1) <=> Lower(x, s[i])
    BY CanonicalElement, HigherIsLower DEF RightExact
  <1>3. r >= 0 => l < r
    <2>1. ASSUME r >= 0, l >= r PROVE FALSE
      <3>1. r + 1 \in 1 .. Len(s) /\ Lower(s[r + 1], x) /\ Lower(x, s[r + 1])
        BY <1>0, <1>1, <1>2, <2>1
      <3> QED
        BY <3>1, CanonicalElement, LowerIrreflexive
    <2> QED
      BY <1>0, <2>1
  <1>4. CASE l >= 0 /\ r >= 0 /\ r - l = 1
    <2>1. Spliced(s, x, l, r) = Replace(s, l + 1, l + 1, x)
      BY <1>4 DEF Spliced
    <2>2. \A i \in 1 .. Len(s) : i > l + 1 => Lower(x, s[i])
      BY <1>0, <1>2, <1>4
    <2>3. l + 1 \in 0 .. Len(s) /\ l + 1 \in l + 1 .. Len(s)
      BY <1>0
    <2> QED
      BY <1>1, <2>1, <2>2, <2>3, ReplaceCanonical
  <1>5. CASE l = -1 /\ r = 0
    <2>1. Spliced(s, x, l, r) = Replace(s, 0, 0, x)
      BY <1>5 DEF Spliced
    <2>2. \A i \in 1 .. Len(s) : i > 0 => Lower(x, s[i])
      BY <1>0, <1>2, <1>5
    <2>3. 0 \in 0 .. Len(s) /\ \A i \in 1 .. Len(s) : i =< 0 => Lower(s[i], x)
      BY <1>0
    <2> QED
      BY <2>1, <2>2, <2>3, ReplaceCanonical
  <1>6. CASE r = -1 /\ l = Len(s) - 1
    <2>1. Spliced(s, x, l, r) = Append(s, x)
      BY <1>0, <1>6 DEF Spliced
    <2>2. Append(s, x) = s \o <<x>>
      BY <1>0
    <2>3. \A i \in 1 .. Len(s), n \in 1 .. Len(<<x>>) : Lower(s[i], <<x>>[n])
      BY <1>0, <1>1, <1>6
    <2> QED
      BY <2>1, <2>2, <2>3, SingleCanonical, ConcatCanonical
  <1>7. CASE /\ ~(l >= 0 /\ r >= 0 /\ r - l = 1)
             /\ ~(l = -1 /\ r = 0)
             /\ ~(r = -1 /\ l = Len(s) - 1)
    <2> DEFINE first == l + 1
               last  == IF r >= 0 THEN r - 1 ELSE Len(s) - 1
               a     == s[first + 1]
               b     == s[last + 1]
               start == IF Overlaps(a, x) \/ Touches(a, x)
                          THEN Lesser(x.start, a.start) ELSE x.start
               end   == IF Overlaps(b, x) \/ Touches(b, x)
                          THEN Greater(x.end, b.end) ELSE x.end
    <2>1. Spliced(s, x, l, r) = Replace(s, first, last + 1, Iv(start, end))
      BY <1>7 DEF Spliced, Merged
    <2>2. first \in Int /\ last \in Int /\ 0 =< first /\ first =< last
          /\ last < Len(s)
      BY <1>0, <1>3, <1>7
    <2>3. a \in Interval /\ b \in Interval
      BY <2>2, <1>0, CanonicalElement
    <2>4. first + 1 \in 1 .. Len(s) /\ last + 1 \in 1 .. Len(s)
          /\ ~(first + 1 =< l + 1) /\ ~(last + 1 =< l + 1)
          /\ ~(r >= 0 /\ first + 1 >= r + 1)
          /\ ~(r >= 0 /\ last + 1 >= r + 1)
      BY <1>0, <2>2
    <2>5. ~Lower(a, x) /\ ~Higher(a, x) /\ ~Lower(b, x) /\ ~Higher(b, x)
      BY <1>1, <1>2, <2>3, <2>4, HigherIsLower
    <2>6. start = Lesser(x.start, a.start) /\ end = Greater(x.end, b.end)
      BY <2>3, <2>5, Near
    <2>7. \A i \in 1 .. Len(s) : i =< first => Lower(s[i], x) /\ Lower(s[i], a)
      BY <1>0, <1>1, <2>2, <2>4 DEF IsCanonical
    <2>8. \A i \in 1 .. Len(s) : i > last + 1 => Lower(x, s[i]) /\ Lower(b, s[i])
      BY <1>0, <1>2, <2>2, <2>4 DEF IsCanonical
    <2>9. a.end =< b.end /\ a.start =< b.start
      <3>1. CASE first = last
        BY <3>1, <2>3, IntervalFields
      <3>2. CASE first < last
        <4>1. Lower(a, b)
          BY <1>0, <2>2, <2>4, <3>2 DEF IsCanonical
        <4> QED
          BY <2>3, <4>1, LowerOrdered
      <3> QED
        BY <2>2, <3>1, <3>2
    <2>10. /\ start \in {x.start, a.start} /\ start =< x.start /\ start =< a.start
           /\ end \in {x.end, b.end} /\ end >= x.end /\ end >= b.end
      BY <2>3, <2>6, IntervalFields DEF Lesser, Greater
    <2> HIDE DEF first, last, a, b, start, end
    <2>11. \A t \in Tops : ~(start =< t /\ t < end)
      <3>1. \A t \in Tops : t \in Int
        BY FamiliesAssumption, ValuesAssumption
      <3>2. \A t \in Tops : (a.end =< t <=> x.end =< t)
                            /\ (b.end =< t <=> x.end =< t)
        BY <2>3, <2>5, Near
      <3>3. \A t \in Tops : (a.start =< t <=> a.end =< t)
                            /\ (x.start =< t <=> x.end =< t)
        BY <2>3, <3>1, IntervalFields
      <3> QED
        BY <2>3, <2>10, <3>1, <3>2, <3>3, IntervalFields
    <2>12. /\ Iv(start, end) \in Interval
           /\ Iv(start, end).start = start /\ Iv(start, end).end = end
      BY <2>3, <2>10, <2>11, IntervalFields, IvInterval
    <2>13. \A i \in 1 .. Len(s) : i =< first => Lower(s[i], Iv(start, end))
      BY <2>7, <2>10, <2>12 DEF Lower
    <2>14. \A i \in 1 .. Len(s) : i > last + 1 => Lower(Iv(start, end), s[i])
      BY <2>8, <2>10, <2>12 DEF Lower
    <2>15. first \in 0 .. Len(s) /\ last + 1 \in first .. Len(s)
      BY <1>0, <2>2
    <2> QED
      BY <2>1, <2>12, <2>13, <2>14, <2>15, ReplaceCanonical
  <1> QED
    BY <1>4, <1>5, <1>6, <1>7

(***************************************************************************)
(* The inductive invariant.                                                *)
(***************************************************************************)

\* The empty list is canonical.
LEMMA EmptyCanonical == IsCanonical(<< >>)
  BY DEF IsCanonical

\* The invariant holds initially.
LEMMA InitInv ==
  ASSUME Init
  PROVE  IInv
  <1>1. TypeOK
    <2> USE DEF Init
    <2>1. set \in Seq(Interval) /\ acc \in Seq(Interval)
      OBVIOUS
    <2>2. before \subseteq Values /\ result \in BOOLEAN /\ key = NoKey
      OBVIOUS
    <2> QED
      BY <2>1, <2>2 DEF TypeOK
  <1>2. Canonical /\ IsCanonical(other)
    BY EmptyCanonical DEF Init, Canonical
  <1>3. ControlInv /\ SearchInv /\ SearchExact /\ HoleInv /\ AndInv
    BY DEF Init, ControlInv, SearchInv, SearchExact, HoleInv, AndInv
  <1> QED
    BY <1>1, <1>2, <1>3 DEF IInv

\* A call starts with canonical operands and canonical loop state.
LEMMA CallInv ==
  ASSUME IInv, NEW o \in Ops, NEW s \in Operands, Call(o, s)
  PROVE  IInv'
  <1> USE DEF Call, search
  <1>0. s \in Seq(Interval)
    BY OperandsAssumption DEF IsCanonical
  <1>1. TypeOK'
    BY <1>0 DEF IInv, TypeOK, Ops, Contents
  <1>2. Canonical' /\ IsCanonical(other')
    BY OperandsAssumption DEF IInv, Canonical
  <1>3. ControlInv'
    BY DEF IInv, ControlInv, Ops
  <1>4. SearchInv' /\ SearchExact'
    BY DEF SearchInv, SearchExact, Ops
  <1>5. HoleInv' /\ AndInv'
    <2>1. j = 0 /\ k = 0 /\ acc = << >>
      BY DEF IInv, ControlInv
    <2>2. Len(set) \in Nat /\ Len(s) \in Nat
      BY OperandsAssumption DEF IInv, Canonical, IsCanonical
    <2> QED
      BY <2>1, <2>2, EmptyCanonical DEF HoleInv, AndInv, Ops
  <1> QED
    BY <1>1, <1>2, <1>3, <1>4, <1>5 DEF IInv

\* A call that returns: only the list it leaves behind matters.
LEMMA ReturnInv ==
  ASSUME IInv, NEW r \in BOOLEAN, Return(r), IsCanonical(set'),
         \/ SearchOver
         \/ UNCHANGED <<key, search>>
  PROVE  IInv'
  <1> USE DEF Return
  <1>1. TypeOK'
    BY DEF IInv, TypeOK, SearchOver, search, IsCanonical, NoKey
  <1>2. ControlInv' /\ SearchInv' /\ SearchExact' /\ HoleInv' /\ AndInv'
    BY DEF ControlInv, SearchInv, SearchExact, HoleInv, AndInv
  <1> QED
    BY <1>1, <1>2, EmptyCanonical DEF IInv, Canonical

\* The first interval of an empty set.
LEMMA AddFirstInv ==
  ASSUME IInv, AddFirst
  PROVE  IInv'
  <1> USE DEF AddFirst, search
  <1>1. other[k + 1] \in Interval
    BY DEF IInv, TypeOK, IsCanonical
  <1>2. IsCanonical(set')
    BY <1>1, SingleCanonical
  <1>3. TypeOK'
    BY <1>2 DEF IInv, TypeOK, IsCanonical
  <1>4. ControlInv' /\ SearchInv' /\ SearchExact' /\ HoleInv' /\ AndInv'
    BY DEF IInv, ControlInv, SearchInv, SearchExact, HoleInv, AndInv
  <1> QED
    BY <1>2, <1>3, <1>4 DEF IInv, Canonical

\* The two binary searches of add_interval start at the ends of the list.
LEMMA AddStartInv ==
  ASSUME IInv, AddStart
  PROVE  IInv'
  <1> USE DEF AddStart
  <1>1. other[k + 1] \in Interval /\ set \in Seq(Interval) /\ Len(set) \in Nat
    BY DEF IInv, TypeOK, IsCanonical
  <1>2. TypeOK'
    BY <1>1 DEF IInv, TypeOK
  <1>3. ControlInv' /\ SearchExact' /\ HoleInv' /\ AndInv'
    BY DEF IInv, ControlInv, SearchExact, HoleInv, AndInv
  <1>4. SearchInv'
    BY <1>1 DEF IInv, ControlInv, SearchInv, Searched
  <1> QED
    BY <1>2, <1>3, <1>4 DEF IInv, Canonical

\* In a canonical list, what precedes a lower interval is lower, and what
\* follows a higher one is higher.
LEMMA Monotone ==
  ASSUME NEW s, IsCanonical(s), NEW x \in Interval,
         NEW i \in 1 .. Len(s), NEW n \in 1 .. Len(s), i =< n
  PROVE  /\ Lower(s[n], x) => Lower(s[i], x)
         /\ Higher(s[i], x) => Higher(s[n], x)
  <1>1. s[i] \in Interval /\ s[n] \in Interval /\ Len(s) \in Nat
    BY DEF IsCanonical
  <1>2. CASE i = n
    BY <1>2
  <1>3. CASE i < n
    <2>1. Lower(s[i], s[n])
      BY <1>3 DEF IsCanonical
    <2> QED
      BY <1>1, <2>1, LowerTransitive, HigherIsLower
  <1> QED
    BY <1>1, <1>2, <1>3

\* The middle of a range of a binary search lies in the range.
LEMMA Middle ==
  ASSUME NEW a \in Nat, NEW b \in Nat, a < b
  PROVE  /\ (a + b) \div 2 \in Nat
         /\ a =< (a + b) \div 2 /\ (a + b) \div 2 < b
  OBVIOUS

\* Where find_interval_left is: what IInv says of the list it searches.
LEMMA FindLeftState ==
  ASSUME IInv, pc = "find_left"
  PROVE  /\ IsCanonical(Searched) /\ key \in Interval
         /\ low \in Nat /\ high \in Nat /\ Len(Searched) \in Nat
         /\ low =< high /\ high =< Len(Searched) /\ 0 < Len(Searched)
         /\ \A i \in 1 .. Len(Searched) : i > high => ~Lower(Searched[i], key)
         /\ low > 0 => low < Len(Searched) /\ Lower(Searched[low + 1], key)
  <1>1. IsCanonical(Searched)
    BY DEF IInv, Canonical, Searched
  <1>2. Len(Searched) \in Nat /\ (Searched # << >> => 0 < Len(Searched))
    BY <1>1 DEF IsCanonical
  <1> QED
    BY <1>1, <1>2 DEF IInv, TypeOK, SearchInv

\* A search that returns an exact index leaves the invariant in place.
LEMMA FoundLeftInv ==
  ASSUME IInv, pc = "find_left", NEW l, LeftExact(Searched, key, l),
         FoundLeft(l)
  PROVE  IInv'
  <1> USE DEF FoundLeft
  <1>1. l \in Int /\ set \in Seq(Interval) /\ Len(set) \in Nat
    BY FindLeftState DEF LeftExact, IInv, TypeOK
  <1>2. TypeOK'
    BY <1>1 DEF IInv, TypeOK
  <1>3. SearchInv' /\ SearchExact'
    BY <1>1, FindLeftState
       DEF IInv, ControlInv, SearchInv, SearchExact, Searched
  <1>4. ControlInv' /\ HoleInv' /\ AndInv'
    BY DEF IInv, ControlInv, HoleInv, AndInv
  <1> QED
    BY <1>2, <1>3, <1>4 DEF IInv, Canonical

\* A step of the search for the leftmost overlapped interval.
LEMMA FindLeftInv ==
  ASSUME IInv, FindLeft
  PROVE  IInv'
  <1> DEFINE s   == Searched
             mid == Mid
  <1>0. pc = "find_left"
    BY DEF FindLeft
  <1>1. CASE low # high /\ Lower(s[mid + 1], key)
    <2>1. mid \in Nat /\ low =< mid /\ mid < high
      BY <1>0, <1>1, FindLeftState, Middle DEF Mid
    <2>2. mid + 1 \in 1 .. Len(s)
      BY <1>0, <2>1, FindLeftState
    <2>3. \A i \in 1 .. Len(s) : i =< mid + 1 => Lower(s[i], key)
      BY <1>0, <1>1, <2>2, FindLeftState, Monotone
    <2>4. CASE LastLower(s, mid)
      <3>1. \A i \in 1 .. Len(s) : i > mid + 1 => ~Lower(s[i], key)
        <4> SUFFICES ASSUME NEW i \in 1 .. Len(s), i > mid + 1
                     PROVE  ~Lower(s[i], key)
          OBVIOUS
        <4>1. mid + 2 \in 1 .. Len(s) /\ mid + 2 =< i /\ mid # Len(s) - 1
          BY <1>0, <2>1, FindLeftState
        <4> QED
          BY <1>0, <2>4, <4>1, FindLeftState, Monotone DEF LastLower
      <3>2. LeftExact(Searched, key, mid)
        BY <1>0, <2>1, <2>2, <2>3, <3>1, FindLeftState DEF LeftExact
      <3>3. FoundLeft(mid)
        BY <1>1, <2>4 DEF FindLeft
      <3> QED
        BY <1>0, <3>2, <3>3, FoundLeftInv
    <2>5. CASE ~LastLower(s, mid)
      <3>1. /\ low' = mid + 1
            /\ UNCHANGED <<set, other, op, pc, j, k, acc, key, high, left,
                           right, before, result>>
        BY <1>1, <2>5 DEF FindLeft, FoundLeft, LowPast, LowMoves
      <3>2. low' \in Nat /\ low' =< high' /\ low' < Len(s)
            /\ Lower(s[low' + 1], key)
        BY <1>0, <2>1, <2>2, <2>5, <3>1, FindLeftState DEF LastLower
      <3>3. Searched' = s
        BY <3>1 DEF Searched
      <3>4. SearchInv'
        BY <1>0, <3>1, <3>2, <3>3, FindLeftState DEF IInv, SearchInv
      <3>5. TypeOK' /\ ControlInv' /\ SearchExact' /\ HoleInv' /\ AndInv'
        BY <1>0, <3>1, <3>2
           DEF IInv, TypeOK, ControlInv, SearchExact, HoleInv, AndInv
      <3> QED
        BY <3>1, <3>4, <3>5 DEF IInv, Canonical
    <2> QED
      BY <2>4, <2>5
  <1>2. CASE low # high /\ ~Lower(s[mid + 1], key)
    <2>1. mid \in Nat /\ low =< mid /\ mid < high /\ mid + 1 \in 1 .. Len(s)
      BY <1>0, <1>2, FindLeftState, Middle DEF Mid
    <2>2. /\ high' = mid
          /\ UNCHANGED <<set, other, op, pc, j, k, acc, key, low, left,
                         right, before, result>>
      BY <1>2 DEF FindLeft, HighTo
    <2>3. \A i \in 1 .. Len(s) : i > mid => ~Lower(s[i], key)
      <3> SUFFICES ASSUME NEW i \in 1 .. Len(s), i > mid
                   PROVE  ~Lower(s[i], key)
        OBVIOUS
      <3>1. mid + 1 =< i
        BY <2>1
      <3> QED
        BY <1>0, <1>2, <2>1, <3>1, FindLeftState, Monotone
    <2>4. Searched' = s
      BY <2>2 DEF Searched
    <2>5. SearchInv'
      BY <1>0, <2>1, <2>2, <2>3, <2>4, FindLeftState DEF IInv, SearchInv
    <2>6. TypeOK' /\ ControlInv' /\ SearchExact' /\ HoleInv' /\ AndInv'
      BY <1>0, <2>1, <2>2
         DEF IInv, TypeOK, ControlInv, SearchExact, HoleInv, AndInv
    <2> QED
      BY <2>2, <2>5, <2>6 DEF IInv, Canonical
  <1>3. CASE low = high
    <2>1. low = 0
      BY <1>0, <1>3, FindLeftState
    <2>2. \A i \in 1 .. Len(s) : ~Lower(s[i], key)
      BY <1>0, <1>3, <2>1, FindLeftState
    <2>3. FoundLeft(-1)
      <3> DEFINE i == LowInside(s)
      <3>1. FoundLeft(IF Lower(s[i + 1], key) THEN i ELSE -1)
        BY <1>3 DEF FindLeft
      <3>2. i + 1 \in 1 .. Len(s)
        BY <1>0, <2>1, FindLeftState DEF LowInside
      <3> QED
        BY <2>2, <3>1, <3>2
    <2>4. LeftExact(Searched, key, -1)
      BY <1>0, <2>2, FindLeftState DEF LeftExact
    <2> QED
      BY <1>0, <2>3, <2>4, FoundLeftInv
  <1> QED
    BY <1>1, <1>2, <1>3

\* The search for the rightmost overlapped interval changes its own bounds only.
LEMMA FindRightState ==
  ASSUME IInv, pc = "find_right"
  PROVE  /\ IsCanonical(set) /\ key \in Interval
         /\ low \in Nat /\ high \in Nat /\ Len(set) \in Nat
         /\ low =< high /\ high =< Len(set) /\ 0 < Len(set)
         /\ \A i \in 1 .. Len(set) : i =< low => ~Higher(set[i], key)
         /\ high < Len(set) => high > 0 /\ Higher(set[high], key)
  <1>1. IsCanonical(set) /\ Searched = set
    BY DEF IInv, Canonical, ControlInv, Searched
  <1>2. Len(set) \in Nat /\ (set # << >> => 0 < Len(set))
    BY <1>1 DEF IsCanonical
  <1> QED
    BY <1>1, <1>2 DEF IInv, TypeOK, SearchInv

\* Whatever exact index the second search ends with, the splice can start.
LEMMA FoundRightInv ==
  ASSUME IInv, pc = "find_right", NEW r, RightExact(set, key, r),
         FoundRight(r)
  PROVE  IInv'
  <1> USE DEF FoundRight
  <1>1. r \in Int /\ Len(set) \in Nat
    BY FindRightState DEF RightExact
  <1>2. TypeOK'
    BY <1>1 DEF IInv, TypeOK
  <1>3. SearchInv' /\ SearchExact'
    BY FindRightState DEF IInv, ControlInv, SearchInv, SearchExact, Searched
  <1>4. ControlInv' /\ HoleInv' /\ AndInv'
    BY DEF IInv, ControlInv, HoleInv, AndInv
  <1> QED
    BY <1>2, <1>3, <1>4 DEF IInv, Canonical

\* A step of the search for the rightmost overlapped interval.
LEMMA FindRightInv ==
  ASSUME IInv, FindRight
  PROVE  IInv'
  <1> DEFINE mid == Mid
  <1>0. pc = "find_right"
    BY DEF FindRight
  <1>1. CASE low # high /\ Higher(set[mid + 1], key)
    <2>1. mid \in Nat /\ low =< mid /\ mid < high /\ mid + 1 \in 1 .. Len(set)
      BY <1>0, <1>1, FindRightState, Middle DEF Mid
    <2>2. \A i \in 1 .. Len(set) : i >= mid + 1 => Higher(set[i], key)
      BY <1>0, <1>1, <2>1, FindRightState, Monotone
    <2>3. CASE FirstHigher(set, mid)
      <3>1. \A i \in 1 .. Len(set) : i < mid + 1 => ~Higher(set[i], key)
        <4> SUFFICES ASSUME NEW i \in 1 .. Len(set), i < mid + 1
                     PROVE  ~Higher(set[i], key)
          OBVIOUS
        <4>1. mid \in 1 .. Len(set) /\ i =< mid /\ mid # 0
          BY <1>0, <2>1, FindRightState
        <4> QED
          BY <1>0, <2>3, <4>1, FindRightState, Monotone DEF FirstHigher
      <3>2. RightExact(set, key, mid)
        BY <1>0, <2>1, <2>2, <3>1, FindRightState DEF RightExact
      <3>3. FoundRight(mid)
        BY <1>1, <2>3 DEF FindRight
      <3> QED
        BY <1>0, <3>2, <3>3, FoundRightInv
    <2>4. CASE ~FirstHigher(set, mid)
      <3>1. /\ high' = mid
            /\ UNCHANGED <<set, other, op, pc, j, k, acc, key, low, left,
                           right, before, result>>
        BY <1>1, <2>4 DEF FindRight, HighTo
      <3>2. Searched' = set
        BY <1>0, <3>1 DEF IInv, ControlInv, Searched
      <3>3. SearchInv'
        BY <1>0, <2>1, <2>4, <3>1, <3>2, FindRightState
           DEF IInv, SearchInv, FirstHigher
      <3>4. TypeOK' /\ ControlInv' /\ SearchExact' /\ HoleInv' /\ AndInv'
        BY <1>0, <2>1, <3>1
           DEF IInv, TypeOK, ControlInv, SearchExact, HoleInv, AndInv
      <3> QED
        BY <3>1, <3>3, <3>4 DEF IInv, Canonical
    <2> QED
      BY <2>3, <2>4
  <1>2. CASE low # high /\ ~Higher(set[mid + 1], key)
    <2>1. mid \in Nat /\ low =< mid /\ mid < high /\ mid + 1 \in 1 .. Len(set)
      BY <1>0, <1>2, FindRightState, Middle DEF Mid
    <2>2. /\ low' = mid + 1
          /\ UNCHANGED <<set, other, op, pc, j, k, acc, key, high, left,
                         right, before, result>>
      BY <1>2 DEF FindRight, LowPast, LowMoves
    <2>3. \A i \in 1 .. Len(set) : i =< mid + 1 => ~Higher(set[i], key)
      BY <1>0, <1>2, <2>1, FindRightState, Monotone
    <2>4. Searched' = set
      BY <1>0, <2>2 DEF IInv, ControlInv, Searched
    <2>5. SearchInv'
      BY <1>0, <2>1, <2>2, <2>3, <2>4, FindRightState DEF IInv, SearchInv
    <2>6. TypeOK' /\ ControlInv' /\ SearchExact' /\ HoleInv' /\ AndInv'
      BY <1>0, <2>1, <2>2
         DEF IInv, TypeOK, ControlInv, SearchExact, HoleInv, AndInv
    <2> QED
      BY <2>2, <2>5, <2>6 DEF IInv, Canonical
  <1>3. CASE low = high
    <2>1. low = Len(set)
      BY <1>0, <1>3, FindRightState
    <2>2. \A i \in 1 .. Len(set) : ~Higher(set[i], key)
      BY <1>0, <1>3, <2>1, FindRightState
    <2>3. FoundRight(-1)
      <3> DEFINE i == LowInside(set)
      <3>1. FoundRight(IF Higher(set[i + 1], key) THEN i ELSE -1)
        BY <1>3 DEF FindRight
      <3>2. i + 1 \in 1 .. Len(set)
        BY <1>0, <2>1, FindRightState DEF LowInside
      <3> QED
        BY <2>2, <3>1, <3>2
    <2>4. RightExact(set, key, -1)
      BY <1>0, <2>2, FindRightState DEF RightExact
    <2> QED
      BY <1>0, <2>3, <2>4, FoundRightInv
  <1> QED
    BY <1>1, <1>2, <1>3

\* Replacing the overlapped intervals by the merged one.
LEMMA SpliceInv ==
  ASSUME IInv, Splice
  PROVE  IInv'
  <1> USE DEF Splice
  <1>1. IsCanonical(set')
    BY SplicedCanonical DEF IInv, Canonical, SearchInv, SearchExact
  <1>2. TypeOK'
    BY <1>1 DEF IInv, TypeOK, SearchOver, IsCanonical
  <1>3. ControlInv' /\ SearchInv' /\ SearchExact' /\ HoleInv' /\ AndInv'
    BY DEF IInv, ControlInv, SearchInv, SearchExact, HoleInv, AndInv
  <1> QED
    BY <1>1, <1>2, <1>3 DEF IInv, Canonical

\* A step of the loop of add_hole.
LEMMA HoleStepInv ==
  ASSUME IInv, HoleStep
  PROVE  IInv'
  <1> DEFINE a == set[j + 1]
             p == IntervalSub(a, other[k + 1])
  <1> USE DEF HoleStep, search
  <1>1. /\ IsCanonical(set) /\ IsCanonical(other) /\ IsCanonical(acc)
        /\ j \in Nat /\ k \in Nat /\ Len(set) \in Nat /\ Len(other) \in Nat
        /\ j + 1 \in 1 .. Len(set) /\ k + 1 \in 1 .. Len(other)
        /\ a \in Interval /\ other[k + 1] \in Interval
        /\ \A i \in 1 .. Len(acc) : \E n \in 1 .. j : Within(acc[i], set[n])
    BY DEF IInv, TypeOK, Canonical, HoleInv, IsCanonical
  <1>2. IsCanonical(p) /\ \A i \in 1 .. Len(p) : Within(p[i], a)
    BY <1>1, SubPieces
  <1> HIDE DEF p
  <1>3. ASSUME NEW i \in 1 .. Len(acc), NEW n \in 1 .. Len(p)
        PROVE  Lower(acc[i], p[n])
    <2>1. PICK m \in 1 .. j : Within(acc[i], set[m])
      BY <1>1
    <2>2. m \in 1 .. Len(set) /\ m < j + 1
      BY <1>1
    <2>3. set[m] \in Interval /\ Lower(set[m], a)
      BY <1>1, <2>2 DEF IsCanonical
    <2>4. acc[i] \in Interval /\ p[n] \in Interval /\ Within(p[n], a)
      BY <1>1, <1>2, CanonicalElement
    <2> QED
      BY <1>1, <2>1, <2>3, <2>4, LowerWithin
  <1>4. /\ IsCanonical(acc') /\ Len(acc') = Len(acc) + Len(p)
        /\ \A i \in 1 .. Len(acc') :
             acc'[i] = IF i =< Len(acc) THEN acc[i] ELSE p[i - Len(acc)]
    BY <1>1, <1>2, <1>3, ConcatCanonical DEF p
  <1>5. HoleInv'
    <2>1. ASSUME NEW i \in 1 .. Len(acc')
          PROVE  \E n \in 1 .. j + 1 : Within(acc'[i], set[n])
      <3>0. Len(acc) \in Nat /\ Len(p) \in Nat
        BY <1>1, <1>2 DEF IsCanonical
      <3>1. CASE i =< Len(acc)
        <4>1. PICK n \in 1 .. j : Within(acc[i], set[n])
          BY <1>1, <3>0, <3>1
        <4>2. acc'[i] = acc[i]
          BY <1>4, <3>1
        <4>3. n \in 1 .. j + 1
          BY <1>1
        <4> HIDE DEF HoleStep
        <4> QED
          BY <4>1, <4>2, <4>3
      <3>2. CASE i > Len(acc)
        <4>1. i - Len(acc) \in 1 .. Len(p) /\ acc'[i] = p[i - Len(acc)]
          BY <1>4, <3>0, <3>2
        <4>2. Within(acc'[i], set[j + 1])
          BY <1>2, <4>1
        <4> QED
          BY <1>1, <4>2
      <3> QED
        BY <3>0, <3>1, <3>2
    <2>2. j' = j + 1 /\ k' = k /\ set' = set /\ other' = other
          /\ j + 1 =< Len(set) /\ k =< Len(other)
      BY <1>1
    <2> HIDE DEF HoleStep
    <2> QED
      BY <1>4, <2>1, <2>2 DEF HoleInv
  <1>6. TypeOK'
    BY <1>1, <1>4 DEF IInv, TypeOK, IsCanonical
  <1>7. ControlInv' /\ SearchInv' /\ SearchExact' /\ AndInv'
    BY DEF IInv, ControlInv, SearchInv, SearchExact, AndInv
  <1> QED
    BY <1>1, <1>5, <1>6, <1>7 DEF IInv, Canonical

\* The end of the loop of add_hole.
LEMMA HoleDoneInv ==
  ASSUME IInv, HoleDone
  PROVE  IInv'
  <1> USE DEF HoleDone, search
  <1>1. IsCanonical(acc) /\ k \in Nat /\ Len(other) \in Nat /\ acc \in Seq(Interval)
    BY DEF IInv, TypeOK, HoleInv, IsCanonical
  <1>2. TypeOK'
    BY <1>1 DEF IInv, TypeOK
  <1>3. HoleInv'
    BY <1>1, EmptyCanonical DEF HoleInv, IsCanonical
  <1>4. ControlInv' /\ SearchInv' /\ SearchExact' /\ AndInv'
    BY DEF IInv, ControlInv, SearchInv, SearchExact, AndInv
  <1> QED
    BY <1>1, <1>2, <1>3, <1>4 DEF IInv, Canonical

\* A step of the sweep of __iand__.
LEMMA AndStepInv ==
  ASSUME IInv, AndStep
  PROVE  IInv'
  <1> DEFINE a == set[j + 1]
             b == other[k + 1]
             p == IntervalAnd(a, b)
  <1> USE DEF AndStep, search
  <1>1. /\ IsCanonical(set) /\ IsCanonical(other) /\ IsCanonical(acc)
        /\ j \in Nat /\ k \in Nat /\ Len(set) \in Nat /\ Len(other) \in Nat
        /\ j + 1 \in 1 .. Len(set) /\ k + 1 \in 1 .. Len(other)
        /\ a \in Interval /\ b \in Interval
    BY DEF IInv, TypeOK, Canonical, AndInv, IsCanonical
  <1>a. \A i \in 1 .. Len(acc) :
             \/ \E n \in 1 .. j : Within(acc[i], set[n])
             \/ Within(acc[i], a) /\ \E m \in 1 .. k : Within(acc[i], other[m])
    BY DEF IInv, AndInv
  <1>b. /\ \A n \in 1 .. j : /\ n \in 1 .. Len(set) /\ n < j + 1
        /\ \A m \in 1 .. k : /\ m \in 1 .. Len(other) /\ m < k + 1
                             /\ m \in 1 .. k + 1
        /\ k + 1 \in 1 .. k + 1
    BY <1>1
  <1>2. CASE p = << >>
    <2>1. acc' = acc
      BY <1>1, <1>2 DEF IsCanonical
    <2>2. AndInv'
      <3>1. \A m \in 1 .. k : m \in 1 .. k + 1
        BY <1>1
      <3> QED
        BY <1>1, <1>a, <2>1, <3>1 DEF AndInv
    <2>3. TypeOK'
      BY <1>1, <2>1 DEF IInv, TypeOK
    <2>4. ControlInv' /\ SearchInv' /\ SearchExact' /\ HoleInv'
      BY DEF IInv, ControlInv, SearchInv, SearchExact, HoleInv
    <2> QED
      BY <2>2, <2>3, <2>4 DEF IInv, Canonical
  <1>3. ASSUME NEW x \in Interval, p = <<x>>, Within(x, a), Within(x, b)
        PROVE  IInv'
    <2>1. ASSUME NEW i \in 1 .. Len(acc)
          PROVE  Lower(acc[i], x)
      <3>1. acc[i] \in Interval
        BY <1>1, CanonicalElement
      <3>2. CASE \E n \in 1 .. j : Within(acc[i], set[n])
        <4>1. PICK n \in 1 .. j : Within(acc[i], set[n])
          BY <3>2
        <4>2. set[n] \in Interval /\ Lower(set[n], a)
          BY <1>1, <1>b DEF IsCanonical
        <4> QED
          BY <1>1, <1>3, <3>1, <4>1, <4>2, LowerWithin
      <3>3. CASE \E m \in 1 .. k : Within(acc[i], other[m])
        <4>1. PICK m \in 1 .. k : Within(acc[i], other[m])
          BY <3>3
        <4>2. other[m] \in Interval /\ Lower(other[m], b)
          BY <1>1, <1>b DEF IsCanonical
        <4> QED
          BY <1>1, <1>3, <3>1, <4>1, <4>2, LowerWithin
      <3> QED
        BY <1>a, <3>2, <3>3
    <2>2. /\ IsCanonical(acc') /\ Len(acc') = Len(acc) + 1
          /\ \A i \in 1 .. Len(acc') :
               acc'[i] = IF i =< Len(acc) THEN acc[i] ELSE x
      <3>1. acc' = acc \o <<x>>
        BY <1>3
      <3>2. Len(acc) \in Nat
        BY <1>1 DEF IsCanonical
      <3>3. \A i \in 1 .. Len(acc), n \in 1 .. Len(<<x>>) : Lower(acc[i], <<x>>[n])
        BY <2>1, SingleCanonical
      <3>4. /\ IsCanonical(acc') /\ Len(acc') = Len(acc) + Len(<<x>>)
            /\ \A i \in 1 .. Len(acc') :
                 acc'[i] = IF i =< Len(acc) THEN acc[i] ELSE <<x>>[i - Len(acc)]
        <4>1. IsCanonical(acc) /\ IsCanonical(<<x>>)
          BY <1>1, SingleCanonical
        <4> HIDE DEF AndStep
        <4> QED
          BY <3>1, <3>3, <4>1, ConcatCanonical
      <3>5. ASSUME NEW i \in 1 .. Len(acc'), ~(i =< Len(acc))
            PROVE  acc'[i] = x
        BY <3>2, <3>4, <3>5
      <3> QED
        BY <3>4, <3>5
    <2>3. AndInv'
      <3>1. ASSUME NEW i \in 1 .. Len(acc')
            PROVE  \/ \E n \in 1 .. j : Within(acc'[i], set[n])
                   \/ /\ Within(acc'[i], a)
                      /\ \E m \in 1 .. k + 1 : Within(acc'[i], other[m])
        <4>0. Len(acc) \in Nat
          BY <1>1 DEF IsCanonical
        <4>1. CASE i =< Len(acc)
          <5>1. i \in 1 .. Len(acc) /\ acc'[i] = acc[i]
            BY <2>2, <4>0, <4>1
          <5> QED
            BY <1>a, <1>b, <5>1
        <4>2. CASE ~(i =< Len(acc))
          <5>1. acc'[i] = x
            BY <2>2, <4>2
          <5> QED
            BY <1>3, <1>b, <5>1
        <4> QED
          BY <4>1, <4>2
      <3>2. j' = j /\ k' = k + 1 /\ set' = set /\ other' = other /\ j < Len(set)
            /\ j =< Len(set) /\ k + 1 =< Len(other)
        BY <1>1
      <3> HIDE DEF AndStep
      <3> QED
        BY <2>2, <3>1, <3>2 DEF AndInv
    <2>4. TypeOK'
      BY <1>1, <2>2 DEF IInv, TypeOK, IsCanonical
    <2>5. ControlInv' /\ SearchInv' /\ SearchExact' /\ HoleInv'
      BY DEF IInv, ControlInv, SearchInv, SearchExact, HoleInv
    <2> QED
      BY <2>3, <2>4, <2>5 DEF IInv, Canonical
  <1> QED
    BY <1>1, <1>2, <1>3, AndPieces

\* The next pair of intervals in the sweep of __iand__.
LEMMA AndNextInv ==
  ASSUME IInv, AndNext
  PROVE  IInv'
  <1> USE DEF AndNext, search
  <1>1. j \in Nat /\ Len(set) \in Nat /\ Len(other) \in Nat
    BY DEF IInv, TypeOK, Canonical, IsCanonical
  <1>2. AndInv'
    <2>1. ASSUME NEW i \in 1 .. Len(acc)
          PROVE  \E n \in 1 .. j + 1 : Within(acc[i], set[n])
      <3>1. \A n \in 1 .. j : n \in 1 .. j + 1
        BY <1>1
      <3>2. j + 1 \in 1 .. j + 1
        BY <1>1
      <3> QED
        BY <3>1, <3>2 DEF IInv, AndInv
    <2>2. j + 1 =< Len(set) /\ 0 =< Len(other) /\ IsCanonical(acc)
      BY <1>1 DEF IInv, AndInv
    <2> QED
      BY <2>1, <2>2 DEF AndInv
  <1>3. TypeOK' /\ ControlInv' /\ SearchInv' /\ SearchExact' /\ HoleInv'
    BY <1>1 DEF IInv, TypeOK, ControlInv, SearchInv, SearchExact, HoleInv
  <1> QED
    BY <1>2, <1>3 DEF IInv, Canonical

\* A step of the search of contained_in.
LEMMA ContainedSearchInv ==
  ASSUME IInv, ContainedSearch
  PROVE  IInv'
  <1> USE DEF ContainedSearch, search
  <1>1. /\ set[k + 1] \in Interval /\ op = "contained_in"
        /\ other \in Seq(Interval) /\ Len(other) \in Nat
    BY DEF IInv, TypeOK, ControlInv, IsCanonical
  <1>2. TypeOK'
    BY <1>1 DEF IInv, TypeOK
  <1>3. SearchInv' /\ SearchExact'
    <2>1. Searched' = other
      BY <1>1 DEF Searched
    <2>2. CASE other = << >>
      BY <1>1, <2>1, <2>2 DEF SearchInv, SearchExact, LeftExact
    <2>3. CASE other # << >>
      BY <1>1, <2>1, <2>3 DEF SearchInv, SearchExact
    <2> QED
      BY <2>2, <2>3
  <1>4. ControlInv' /\ HoleInv' /\ AndInv'
    BY <1>1 DEF IInv, ControlInv, HoleInv, AndInv
  <1> QED
    BY <1>2, <1>3, <1>4 DEF IInv, Canonical

\* The comparison that ends one turn of contained_in.
LEMMA ContainedCheckInv ==
  ASSUME IInv, ContainedCheck
  PROVE  IInv'
  <1>0. pc = "check" /\ SearchOver /\ set' = set /\ IsCanonical(set)
    BY DEF ContainedCheck, IInv, Canonical
  <1>1. CASE Return(FALSE)
    BY <1>0, <1>1, ReturnInv
  <1>2. CASE /\ pc' = "contained_in" /\ k' = k + 1
             /\ UNCHANGED <<other, op, j, acc, before, result>>
    <2>1. TypeOK'
      BY <1>0, <1>2 DEF IInv, TypeOK, SearchOver
    <2>2. ControlInv' /\ SearchInv' /\ SearchExact' /\ HoleInv' /\ AndInv'
      BY <1>0, <1>2 DEF IInv, ControlInv, SearchInv, SearchExact, HoleInv, AndInv
    <2> QED
      BY <1>0, <1>2, <2>1, <2>2 DEF IInv, Canonical
  <1> QED
    BY <1>1, <1>2 DEF ContainedCheck

\* Every step of the specification preserves the invariant.
LEMMA NextInv ==
  ASSUME IInv, [Next]_vars
  PROVE  IInv'
  <1>0. IsCanonical(set)
    BY DEF IInv, Canonical
  <1>1. ASSUME NEW o \in Ops, NEW s \in Operands, Call(o, s)
        PROVE  IInv'
    BY <1>1, CallInv
  <1>2. CASE OrDone
    BY <1>0, <1>2, ReturnInv DEF OrDone
  <1>3. CASE AddFirst
    BY <1>3, AddFirstInv
  <1>4. CASE AddStart
    BY <1>4, AddStartInv
  <1>5. CASE FindLeft
    BY <1>5, FindLeftInv
  <1>6. CASE FindRight
    BY <1>6, FindRightInv
  <1>7. CASE Splice
    BY <1>7, SpliceInv
  <1>8. CASE SubDone
    BY <1>0, <1>8, ReturnInv DEF SubDone
  <1>9. CASE HoleStep
    BY <1>9, HoleStepInv
  <1>10. CASE HoleDone
    BY <1>10, HoleDoneInv
  <1>11. CASE AndStep
    BY <1>11, AndStepInv
  <1>12. CASE AndNext
    BY <1>12, AndNextInv
  <1>13. CASE AndDone
    BY <1>13, ReturnInv DEF AndDone, IInv, AndInv
  <1>14. CASE ContainedShortcut
    BY <1>0, <1>14, ReturnInv DEF ContainedShortcut, IsSubset
  <1>15. CASE ContainedDone
    BY <1>0, <1>15, ReturnInv DEF ContainedDone
  <1>16. CASE ContainedSearch
    BY <1>16, ContainedSearchInv
  <1>17. CASE ContainedCheck
    BY <1>17, ContainedCheckInv
  <1>18. CASE UNCHANGED vars
    <2> USE <1>18 DEF vars
    <2>1. TypeOK'
      BY DEF IInv, TypeOK
    <2>2. ControlInv' /\ SearchInv' /\ SearchExact' /\ HoleInv' /\ AndInv'
      BY DEF IInv, ControlInv, SearchInv, SearchExact, HoleInv, AndInv,
             Searched
    <2> QED
      BY <2>1, <2>2 DEF IInv, Canonical
  <1> QED
    BY <1>1, <1>2, <1>3, <1>4, <1>5, <1>6, <1>7, <1>8, <1>9, <1>10, <1>11,
       <1>12, <1>13, <1>14, <1>15, <1>16, <1>17, <1>18
       DEF Next, Step

\* The loop invariants of the add, hole, intersection and containment loops
\* hold throughout, whatever calls are made in whatever order.
THEOREM Invariance == Spec => []IInv
  BY InitInv, NextInv, PTL DEF Spec

\* Every state is of the type TypeOK gives: in particular no interval of the
\* list ever has its start after its end or spans two address families.
THEOREM TypeCorrect == Spec => []TypeOK
  <1>1. IInv => TypeOK
    BY DEF IInv
  <1> QED
    BY <1>1, Invariance, PTL

\* The class comment of CanonicalIntervalSet: interval_set is sorted and no
\* two of its intervals overlap or touch, between any two steps of any calls.
THEOREM StaysCanonical == Spec => []Canonical
  <1>1. IInv => Canonical
    BY DEF IInv
  <1> QED
    BY <1>1, Invariance, PTL

\* The comments of find_interval_left and find_interval_right: each returns
\* the index of the last (first) interval that is lower (higher) than the one
\* searched for without overlapping or touching it, and -1 if there is none.
THEOREM SearchesExact == Spec => []SearchExact
  <1>1. IInv => SearchExact
    BY DEF IInv
  <1> QED
    BY <1>1, Invariance, PTL
-----------------------------------------------------------------------------
(***************************************************************************)
(* CanonicalIntervalSet implements ValueSet: for every range of values and   *)
(* every argument, its loops over sorted lists compute union, difference,    *)
(* intersection and inclusion of the sets of values the lists stand for.     *)
(***************************************************************************)
Holds(x, v) == x.start =< v /\ v =< x.end
\* The values in the first n intervals of s.
FirstOf(s, n) == {v \in Values : \E i \in 1 .. n : Holds(s[i], v)}

\* What each loop has done of its call, in terms of values.
IorFits ==
  op = "ior" =>
    /\ k =< Len(other) /\ Contents(set) = before \cup FirstOf(other, k)
    /\ pc # "ior" => k < Len(other) /\ key = other[k + 1] /\ set # << >>
IsubFits ==
  op = "isub" =>
    /\ Contents(set) = before \ FirstOf(other, k)
    /\ k < Len(other) =>
         Contents(acc) = {v \in FirstOf(set, j) : ~Holds(other[k + 1], v)}
IandFits ==
  op = "iand" =>
    /\ Contents(set) = before
    /\ Contents(acc) = {v \in Contents(other) : \/ v \in FirstOf(set, j)
                                                \/ /\ j < Len(set) /\ Holds(set[j + 1], v)
                                                   /\ v \in FirstOf(other, k)}
ContainedFits ==
  op = "contained_in" =>
    /\ Contents(set) = before
    /\ k =< Len(set) /\ FirstOf(set, k) \subseteq Contents(other)
    /\ pc # "contained_in" => k < Len(set) /\ key = set[k + 1]
CallFits ==
  /\ pc = "idle" <=> op = "none"
  /\ op \in {"isub", "iand"} => pc = op
  /\ pc \in {"isub", "iand"} => pc = op
  /\ pc = "idle" => other = << >>

ContentsInv == IorFits /\ IsubFits /\ IandFits /\ ContainedFits /\ CallFits
RInv == IInv /\ ContentsInv

(***************************************************************************)
(* The values of intervals and lists.                                      *)
(***************************************************************************)
\* An interval holds its ends and what lies between them.
LEMMA HoldsValues ==
  ASSUME NEW x \in Interval
  PROVE  /\ Holds(x, x.start) /\ Holds(x, x.end)
         /\ \A v \in Int : Holds(x, v) => v \in Values
  BY IntervalFields, RangeAssumption DEF Holds

\* The values of a list one element at a time.
LEMMA FirstOfNext ==
  ASSUME NEW s \in Seq(Interval), NEW n \in Nat
  PROVE  /\ FirstOf(s, 0) = {}
         /\ FirstOf(s, n + 1) = FirstOf(s, n) \cup {v \in Values : Holds(s[n + 1], v)}
         /\ Contents(s) = FirstOf(s, Len(s))
  <1>1. FirstOf(s, 0) = {}
    BY DEF FirstOf
  <1>2. 1 .. n + 1 = 1 .. n \cup {n + 1}
    OBVIOUS
  <1>3. Contents(s) = FirstOf(s, Len(s))
    BY DEF Contents, FirstOf, Holds
  <1> QED
    BY <1>1, <1>2, <1>3 DEF FirstOf

\* A concatenation contains what its two lists contain.
LEMMA ContentsConcat ==
  ASSUME NEW s \in Seq(Interval), NEW p \in Seq(Interval)
  PROVE  s \o p \in Seq(Interval) /\ Contents(s \o p) = Contents(s) \cup Contents(p)
  <1>1. /\ s \o p \in Seq(Interval) /\ Len(s \o p) = Len(s) + Len(p)
        /\ Len(s) \in Nat /\ Len(p) \in Nat
        /\ \A i \in 1 .. Len(s) + Len(p) :
             (s \o p)[i] = IF i =< Len(s) THEN s[i] ELSE p[i - Len(s)]
    OBVIOUS
  <1> DEFINE r == s \o p
  <1>2. Len(r) = Len(s) + Len(p)
        /\ \A i \in 1 .. Len(r) : r[i] = IF i =< Len(s) THEN s[i] ELSE p[i - Len(s)]
    BY <1>1
  <1> HIDE DEF r
  <1>3. \A i \in 1 .. Len(s) : i \in 1 .. Len(r) /\ r[i] = s[i]
    BY <1>1, <1>2
  <1>4. \A i \in 1 .. Len(p) : Len(s) + i \in 1 .. Len(r) /\ r[Len(s) + i] = p[i]
    BY <1>1, <1>2
  <1>5. \A i \in 1 .. Len(r) : \/ i \in 1 .. Len(s) /\ r[i] = s[i]
                               \/ i - Len(s) \in 1 .. Len(p) /\ r[i] = p[i - Len(s)]
    BY <1>1, <1>2
  <1>6. Contents(r) = Contents(s) \cup Contents(p)
    <2>1. ASSUME NEW v \in Contents(r) PROVE v \in Contents(s) \cup Contents(p)
      BY <1>5 DEF Contents
    <2>2. ASSUME NEW v \in Contents(s) PROVE v \in Contents(r)
      BY <1>3 DEF Contents
    <2>3. ASSUME NEW v \in Contents(p) PROVE v \in Contents(r)
      BY <1>4 DEF Contents
    <2> QED
      BY <2>1, <2>2, <2>3
  <1> QED
    BY <1>1, <1>6 DEF r

\* What lists of no, one and two intervals contain.
LEMMA ContentsFew ==
  /\ Contents(<< >>) = {}
  /\ \A x : Contents(<<x>>) = {v \in Values : Holds(x, v)}
  /\ \A x, y : Contents(<<x, y>>) = {v \in Values : Holds(x, v) \/ Holds(y, v)}
  BY DEF Contents, Holds

\* What is left of an interval is what the other does not hold, also at the
\* ends of a family of addresses, where `+ 1` and `- 1` do not move.
LEMMA SubContents ==
  ASSUME NEW a \in Interval, NEW b \in Interval
  PROVE  /\ IntervalSub(a, b) \in Seq(Interval)
         /\ Contents(IntervalSub(a, b)) = {v \in Values : Holds(a, v) /\ ~Holds(b, v)}
  <1> DEFINE p == IntervalSub(a, b)
  <1>0. p \in Seq(Interval)
    BY SubPieces DEF IsCanonical
  <1>c. Contents(p) \subseteq Values
    BY DEF Contents
  <1>v. /\ \A v \in Values : v \in Int
        /\ a.start \in Int /\ a.end \in Int /\ a.start =< a.end
        /\ b.start \in Int /\ b.end \in Int /\ b.start =< b.end
    BY ValuesAssumption, IntervalFields
  <1>1. CASE ~Overlaps(a, b)
    <2>1. p = <<a>>
      BY <1>1 DEF IntervalSub
    <2>2. ASSUME NEW v \in Values PROVE ~(Holds(a, v) /\ Holds(b, v))
      <3>1. v \in Int
        BY <1>v
      <3> QED
        BY <1>1, <1>v, <3>1 DEF Overlaps, Holds
    <2> QED
      BY <1>0, <2>1, <2>2, ContentsFew
  <1>2. CASE Overlaps(a, b) /\ IsSubset(a, b)
    <2>1. p = << >>
      BY <1>2 DEF IntervalSub
    <2>2. \A v \in Values : Holds(a, v) => Holds(b, v)
      BY <1>2, <1>v DEF IsSubset, Holds
    <2> QED
      BY <1>0, <1>c, <2>1, <2>2, ContentsFew
  <1>3. a.start < b.start /\ b.start =< a.end => Pred(b.start) = b.start - 1
    <2>1. ASSUME a.start < b.start, b.start =< a.end PROVE b.start \notin Bottoms
      <3>1. b.start - 1 \in Values
        BY <2>1, IntervalFields, RangeAssumption
      <3> QED
        BY <2>1, <3>1, IntervalFields, FamiliesAssumption
    <2> QED
      BY <2>1 DEF Pred
  <1>4. a.start =< b.end /\ b.end < a.end => Succ(b.end) = b.end + 1
    BY IntervalFields DEF Succ
  <1>5. CASE Overlaps(a, b) /\ a.start < b.start /\ a.end > b.end
    <2> DEFINE x == Iv(a.start, b.start - 1)
               y == Iv(b.end + 1, a.end)
    <2>1. p = <<x, y>>
      BY <1>3, <1>4, <1>5, IntervalFields DEF IntervalSub, IsSubset, Overlaps
    <2>2. ASSUME NEW v \in Values
          PROVE  Holds(x, v) \/ Holds(y, v) <=> Holds(a, v) /\ ~Holds(b, v)
      <3>1. v \in Int
        BY <1>v
      <3> QED
        BY <1>5, <1>v, <3>1 DEF Holds, Iv
    <2> HIDE DEF x, y
    <2> QED
      BY <1>0, <1>c, <2>1, <2>2, ContentsFew
  <1>6. CASE Overlaps(a, b) /\ a.start < b.start /\ ~(a.end > b.end)
    <2> DEFINE x == Iv(a.start, b.start - 1)
    <2>1. p = <<x>>
      BY <1>3, <1>6, IntervalFields DEF IntervalSub, IsSubset, Overlaps, Lesser
    <2>2. ASSUME NEW v \in Values
          PROVE  Holds(x, v) <=> Holds(a, v) /\ ~Holds(b, v)
      <3>1. v \in Int
        BY <1>v
      <3> QED
        BY <1>6, <1>v, <3>1 DEF Holds, Iv, Overlaps
    <2> HIDE DEF x
    <2> QED
      BY <1>0, <1>c, <2>1, <2>2, ContentsFew
  <1>7. CASE Overlaps(a, b) /\ ~(a.start < b.start) /\ ~IsSubset(a, b)
    <2> DEFINE y == Iv(b.end + 1, a.end)
    <2>1. p = <<y>>
      BY <1>4, <1>7, IntervalFields DEF IntervalSub, IsSubset, Overlaps, Greater
    <2>2. ASSUME NEW v \in Values
          PROVE  Holds(y, v) <=> Holds(a, v) /\ ~Holds(b, v)
      <3>1. v \in Int
        BY <1>v
      <3> QED
        BY <1>7, <1>v, <3>1 DEF Holds, Iv, Overlaps, IsSubset
    <2> HIDE DEF y
    <2> QED
      BY <1>0, <1>c, <2>1, <2>2, ContentsFew
  <1> QED
    BY <1>1, <1>2, <1>5, <1>6, <1>7

\* IntervalAnd gives a list of at most one interval, of the values both intervals hold.
LEMMA AndContents ==
  ASSUME NEW a \in Interval, NEW b \in Interval
  PROVE  /\ IntervalAnd(a, b) \in Seq(Interval)
         /\ Contents(IntervalAnd(a, b)) = {v \in Values : Holds(a, v) /\ Holds(b, v)}
  <1> DEFINE s == Greater(a.start, b.start)
             e == Lesser(a.end, b.end)
  <1>1. IntervalAnd(a, b) \in Seq(Interval)
    <2>1. CASE IntervalAnd(a, b) = << >>
      BY <2>1
    <2>2. CASE \E x \in Interval : IntervalAnd(a, b) = <<x>>
      BY <2>2
    <2> QED
      BY <2>1, <2>2, AndPieces
  <1>c. Contents(IntervalAnd(a, b)) \subseteq Values
    BY DEF Contents
  <1>2. \A v \in Values : s =< v /\ v =< e <=> Holds(a, v) /\ Holds(b, v)
    BY IntervalFields, ValuesAssumption DEF Greater, Lesser, Holds
  <1>3. s \in Int /\ e \in Int /\ IntervalAnd(a, b) = IF e < s THEN << >> ELSE <<Iv(s, e)>>
    BY IntervalFields DEF Greater, Lesser, IntervalAnd
  <1> HIDE DEF s, e
  <1>4. CASE e < s
    <2>1. \A v \in Values : ~(s =< v /\ v =< e)
      BY <1>3, <1>4, ValuesAssumption
    <2> QED
      BY <1>1, <1>2, <1>3, <1>4, <1>c, <2>1, ContentsFew
  <1>5. CASE ~(e < s)
    <2>1. IntervalAnd(a, b) = <<Iv(s, e)>>
      BY <1>3, <1>5
    <2>2. \A v \in Values : Holds(Iv(s, e), v) <=> s =< v /\ v =< e
      BY DEF Holds, Iv
    <2> QED
      BY <1>1, <1>2, <1>c, <2>1, <2>2, ContentsFew
  <1> QED
    BY <1>4, <1>5

(***************************************************************************)
(* add_interval.                                                           *)
(***************************************************************************)
\* A list with a stretch of it replaced holds x and what is outside the stretch.
LEMMA ReplaceContents ==
  ASSUME NEW s \in Seq(Interval), NEW from \in 0 .. Len(s), NEW to \in from .. Len(s),
         NEW x \in Interval, NEW v \in Values
  PROVE  v \in Contents(Replace(s, from, to, x)) <=>
           \/ Holds(x, v)
           \/ \E i \in 1 .. Len(s) : (i =< from \/ i > to) /\ Holds(s[i], v)
  <1> DEFINE a == SubSeq(s, 1, from)
             c == SubSeq(s, to + 1, Len(s))
  <1>0. Len(s) \in Nat /\ from \in Nat /\ to \in Nat /\ from =< to /\ to =< Len(s)
    OBVIOUS
  <1>1. /\ a \in Seq(Interval) /\ Len(a) = from
        /\ \A i \in 1 .. from : a[i] = s[i]
    BY <1>0
  <1>2. /\ c \in Seq(Interval) /\ Len(c) = Len(s) - to
        /\ \A i \in 1 .. Len(s) - to : c[i] = s[to + i] /\ to + i \in 1 .. Len(s)
    BY <1>0
  <1>3. Replace(s, from, to, x) = (a \o <<x>>) \o c
    BY DEF Replace
  <1> HIDE DEF a, c
  <1>4. <<x>> \in Seq(Interval) /\ a \o <<x>> \in Seq(Interval)
    BY <1>1
  <1>5. Contents((a \o <<x>>) \o c) = (Contents(a) \cup Contents(<<x>>)) \cup Contents(c)
    BY <1>1, <1>2, <1>4, ContentsConcat
  <1>6. v \in Contents(a) <=> \E i \in 1 .. Len(s) : i =< from /\ Holds(s[i], v)
    <2>1. \A i \in 1 .. Len(s) : i =< from => i \in 1 .. from
      BY <1>0
    <2>2. \A i \in 1 .. from : i \in 1 .. Len(s) /\ i =< from
      BY <1>0
    <2> QED
      BY <1>1, <2>1, <2>2 DEF Contents, Holds
  <1>7. v \in Contents(c) <=> \E i \in 1 .. Len(s) : i > to /\ Holds(s[i], v)
    <2>1. ASSUME NEW i \in 1 .. Len(s), i > to, Holds(s[i], v) PROVE v \in Contents(c)
      <3>1. i - to \in 1 .. Len(s) - to /\ to + (i - to) = i
        BY <1>0, <2>1
      <3>2. c[i - to] = s[i]
        BY <1>2, <3>1
      <3> QED
        BY <1>2, <2>1, <3>1, <3>2 DEF Contents, Holds
    <2>2. ASSUME v \in Contents(c) PROVE \E i \in 1 .. Len(s) : i > to /\ Holds(s[i], v)
      <3>1. PICK i \in 1 .. Len(s) - to : Holds(c[i], v)
        BY <1>2, <2>2 DEF Contents, Holds
      <3>2. to + i \in 1 .. Len(s) /\ to + i > to /\ Holds(s[to + i], v)
        BY <1>0, <1>2, <3>1
      <3> QED
        BY <3>2
    <2> QED
      BY <2>1, <2>2
  <1>8. v \in Contents(<<x>>) <=> Holds(x, v)
    BY ContentsFew
  <1> QED
    BY <1>3, <1>5, <1>6, <1>7, <1>8

\* Two intervals of which neither is lower than the other leave no value out
\* between them.
LEMMA NearCovers ==
  ASSUME NEW a \in Interval, NEW x \in Interval, ~Lower(a, x), ~Higher(a, x)
  PROVE  a.end >= x.start - 1 /\ a.start =< x.end + 1
  <1>1. Overlaps(a, x) \/ Touches(a, x)
    BY Near
  <1>2. Succ(a.end) =< a.end + 1 /\ Succ(x.end) =< x.end + 1
        /\ Succ(a.end) \in Int /\ Succ(x.end) \in Int
    BY IntervalFields, SuccPred
  <1> QED
    BY <1>1, <1>2, IntervalFields DEF Overlaps, Touches

\* From the two indices the searches promise, add_interval adds the values of
\* the interval and no others.
LEMMA SplicedContents ==
  ASSUME NEW s, IsCanonical(s), s # << >>, NEW x \in Interval,
         NEW l, NEW r, LeftExact(s, x, l), RightExact(s, x, r)
  PROVE  Contents(Spliced(s, x, l, r)) = Contents(s) \cup {v \in Values : Holds(x, v)}
  <1>0. s \in Seq(Interval) /\ Len(s) \in Nat
        /\ l \in Int /\ r \in Int /\ -1 =< l /\ l < Len(s)
        /\ -1 =< r /\ r < Len(s)
    BY DEF IsCanonical, LeftExact, RightExact
  <1>1. \A i \in 1 .. Len(s) : i =< l + 1 <=> Lower(s[i], x)
    BY DEF LeftExact
  <1>2. \A i \in 1 .. Len(s) : (r >= 0 /\ i >= r + 1) <=> Higher(s[i], x)
    BY DEF RightExact
  <1>3. r >= 0 => l < r
    <2>1. ASSUME r >= 0, l >= r PROVE FALSE
      <3>1. r + 1 \in 1 .. Len(s) /\ Lower(s[r + 1], x) /\ Higher(s[r + 1], x)
        BY <1>0, <1>1, <1>2, <2>1
      <3> QED
        BY <3>1, CanonicalElement, LowerIrreflexive
    <2> QED
      BY <1>0, <2>1
  <1> SUFFICES ASSUME NEW v \in Values
               PROVE  v \in Contents(Spliced(s, x, l, r)) <=>
                        Holds(x, v) \/ \E i \in 1 .. Len(s) : Holds(s[i], v)
    BY DEF Contents, Holds
  <1>v. v \in Int
    BY ValuesAssumption
  <1>4. CASE l >= 0 /\ r >= 0 /\ r - l = 1
    <2>1. Spliced(s, x, l, r) = Replace(s, l + 1, l + 1, x)
      BY <1>4 DEF Spliced
    <2>2. l + 1 \in 0 .. Len(s) /\ l + 1 \in l + 1 .. Len(s)
          /\ \A i \in 1 .. Len(s) : i =< l + 1 \/ i > l + 1
      BY <1>0
    <2> QED
      BY <1>0, <2>1, <2>2, ReplaceContents
  <1>5. CASE l = -1 /\ r = 0
    <2>1. Spliced(s, x, l, r) = Replace(s, 0, 0, x)
      BY <1>5 DEF Spliced
    <2>2. 0 \in 0 .. Len(s) /\ \A i \in 1 .. Len(s) : i > 0
      BY <1>0
    <2> QED
      BY <1>0, <2>1, <2>2, ReplaceContents
  <1>6. CASE r = -1 /\ l = Len(s) - 1
    <2>1. Spliced(s, x, l, r) = s \o <<x>>
      BY <1>0, <1>6 DEF Spliced
    <2>2. Contents(s \o <<x>>) = Contents(s) \cup {w \in Values : Holds(x, w)}
      <3>1. <<x>> \in Seq(Interval) /\ Contents(<<x>>) = {w \in Values : Holds(x, w)}
        BY ContentsFew
      <3> QED
        BY <1>0, <3>1, ContentsConcat
    <2> QED
      BY <2>1, <2>2 DEF Contents, Holds
  <1>7. CASE /\ ~(l >= 0 /\ r >= 0 /\ r - l = 1)
             /\ ~(l = -1 /\ r = 0)
             /\ ~(r = -1 /\ l = Len(s) - 1)
    <2> DEFINE first == l + 1
               last  == IF r >= 0 THEN r - 1 ELSE Len(s) - 1
               a     == s[first + 1]
               b     == s[last + 1]
               start == IF Overlaps(a, x) \/ Touches(a, x)
                          THEN Lesser(x.start, a.start) ELSE x.start
               end   == IF Overlaps(b, x) \/ Touches(b, x)
                          THEN Greater(x.end, b.end) ELSE x.end
    <2>1. Spliced(s, x, l, r) = Replace(s, first, last + 1, Iv(start, end))
      BY <1>7 DEF Spliced, Merged
    <2>2. first \in Int /\ last \in Int /\ 0 =< first /\ first =< last
          /\ last < Len(s)
      BY <1>0, <1>3, <1>7
    <2>3. first + 1 \in 1 .. Len(s) /\ last + 1 \in 1 .. Len(s)
          /\ first \in 0 .. Len(s) /\ last + 1 \in first .. Len(s)
      BY <1>0, <2>2
    <2>4. \A i \in first + 1 .. last + 1 : i \in 1 .. Len(s) /\ ~(i =< l + 1)
                                           /\ ~(r >= 0 /\ i >= r + 1)
      BY <1>0, <2>2
    <2>5. \A i \in first + 1 .. last + 1 :
            s[i] \in Interval /\ ~Lower(s[i], x) /\ ~Higher(s[i], x)
      BY <1>0, <1>1, <1>2, <2>4
    <2>6. first + 1 \in first + 1 .. last + 1 /\ last + 1 \in first + 1 .. last + 1
      BY <2>2
    <2>7. a \in Interval /\ b \in Interval
          /\ (Overlaps(a, x) \/ Touches(a, x)) /\ (Overlaps(b, x) \/ Touches(b, x))
      BY <2>5, <2>6, Near
    <2>8. start = Lesser(x.start, a.start) /\ end = Greater(x.end, b.end)
      BY <2>7
    <2>9. \A i \in first + 1 .. last + 1 : a.start =< s[i].start /\ s[i].end =< b.end
      <3> SUFFICES ASSUME NEW i \in first + 1 .. last + 1
                   PROVE  a.start =< s[i].start /\ s[i].end =< b.end
        OBVIOUS
      <3>1. i \in Int /\ i >= first + 1 /\ i =< last + 1
        BY <2>2
      <3>2. i > first + 1 => Lower(a, s[i])
        BY <1>0, <2>3, <2>4, <3>1 DEF IsCanonical
      <3>3. i < last + 1 => Lower(s[i], b)
        BY <1>0, <2>3, <2>4, <3>1 DEF IsCanonical
      <3>4. a.start =< s[i].start
        <4>1. CASE i = first + 1
          BY <2>7, <4>1, IntervalFields
        <4>2. CASE i > first + 1
          BY <2>5, <2>7, <3>2, <4>2, LowerOrdered
        <4> QED
          BY <2>2, <3>1, <4>1, <4>2
      <3>5. s[i].end =< b.end
        <4>1. CASE i = last + 1
          BY <2>7, <4>1, IntervalFields
        <4>2. CASE i < last + 1
          BY <2>5, <2>7, <3>3, <4>2, LowerOrdered
        <4> QED
          BY <2>2, <3>1, <4>1, <4>2
      <3> QED
        BY <3>4, <3>5
    <2>10. a.end >= x.start - 1 /\ b.start =< x.end + 1
      BY <2>5, <2>6, <2>7, NearCovers
    <2>11. Iv(start, end) \in Interval
      <3>1. IsCanonical(Spliced(s, x, l, r))
        BY SplicedCanonical
      <3>2. \E i \in 1 .. Len(Spliced(s, x, l, r)) : Spliced(s, x, l, r)[i] = Iv(start, end)
        <4> DEFINE pre == SubSeq(s, 1, first)
                   post == SubSeq(s, (last + 1) + 1, Len(s))
        <4>1. pre \in Seq(Interval) /\ Len(pre) = first /\ post \in Seq(Interval)
          BY <1>0, <2>2
        <4>2. Spliced(s, x, l, r) = pre \o <<Iv(start, end)>> \o post
          BY <2>1, <2>2 DEF Replace
        <4> HIDE DEF pre, post, start, end
        <4>3. (pre \o <<Iv(start, end)>> \o post)[first + 1] = Iv(start, end)
              /\ first + 1 \in 1 .. Len(pre \o <<Iv(start, end)>> \o post)
          BY <2>2, <4>1
        <4> QED
          BY <4>2, <4>3
      <3> QED
        BY <3>1, <3>2 DEF IsCanonical
    <2> HIDE DEF first, last, a, b, start, end
    <2>12. v \in Contents(Spliced(s, x, l, r)) <=>
             \/ Holds(Iv(start, end), v)
             \/ \E i \in 1 .. Len(s) : (i =< first \/ i > last + 1) /\ Holds(s[i], v)
      BY <1>0, <2>1, <2>3, <2>11, ReplaceContents
    <2>13. Holds(Iv(start, end), v) <=> start =< v /\ v =< end
      BY DEF Holds, Iv
    <2>f. /\ a.start \in Int /\ a.end \in Int /\ b.start \in Int /\ b.end \in Int
          /\ x.start \in Int /\ x.end \in Int
      BY <2>7, IntervalFields
    <2>14. ASSUME Holds(Iv(start, end), v)
           PROVE  Holds(x, v) \/ Holds(a, v) \/ Holds(b, v)
      BY <1>v, <2>8, <2>10, <2>13, <2>14, <2>f DEF Holds, Lesser, Greater
    <2>15. ASSUME Holds(x, v) PROVE Holds(Iv(start, end), v)
      BY <1>v, <2>8, <2>13, <2>15, <2>f DEF Holds, Lesser, Greater
    <2>16. ASSUME NEW i \in first + 1 .. last + 1, Holds(s[i], v)
           PROVE  Holds(Iv(start, end), v)
      <3>1. s[i].start \in Int /\ s[i].end \in Int
        BY <2>5, IntervalFields
      <3>2. a.start =< s[i].start /\ s[i].end =< b.end
        BY <2>9
      <3> QED
        BY <1>v, <2>8, <2>13, <2>16, <2>f, <3>1, <3>2 DEF Holds, Lesser, Greater
    <2>17. \A i \in 1 .. Len(s) : (i =< first \/ i > last + 1) \/ i \in first + 1 .. last + 1
      BY <1>0, <2>2
    <2> QED
      BY <2>3, <2>12, <2>14, <2>15, <2>16, <2>17 DEF a, b
  <1> QED
    BY <1>4, <1>5, <1>6, <1>7

(***************************************************************************)
(* contained_in.                                                           *)
(***************************************************************************)
\* An interval that is lower than another and does not end its family leaves a
\* value out between the two.
LEMMA GapAbove ==
  ASSUME NEW y \in Interval, NEW z \in Interval, Lower(y, z), y.end \notin Tops
  PROVE  z.start > y.end + 1
  <1>1. CASE z.start \in Bottoms
    <2>1. y.end < z.start
      BY <1>1 DEF Lower, Pred
    <2>2. z.start # y.end + 1
      <3>1. ASSUME z.start = y.end + 1 PROVE FALSE
        BY <1>1, <3>1, IntervalFields, FamiliesAssumption
      <3> QED
        BY <3>1
    <2> QED
      BY <2>1, <2>2, IntervalFields
  <1>2. CASE z.start \notin Bottoms
    BY <1>2, IntervalFields DEF Lower, Pred
  <1> QED
    BY <1>1, <1>2

\* The one interval of the list that contained_in looks at decides: it is the
\* first that is not lower, and no other can hold the first value of x that it
\* does not.
LEMMA LookupDecides ==
  ASSUME NEW s, IsCanonical(s), NEW x \in Interval, NEW l, LeftExact(s, x, l)
  PROVE  (l = Len(s) - 1 \/ ~IsSubset(x, s[l + 2]))
           <=> ~({v \in Values : Holds(x, v)} \subseteq Contents(s))
  <1>0. s \in Seq(Interval) /\ Len(s) \in Nat /\ l \in Int /\ -1 =< l /\ l =< Len(s) - 1
    BY DEF IsCanonical, LeftExact
  <1>1. \A i \in 1 .. Len(s) : i =< l + 1 <=> Lower(s[i], x)
    BY DEF LeftExact
  <1>x. x.start \in Values /\ x.start \in Int /\ x.end \in Int /\ Holds(x, x.start)
    BY IntervalFields, HoldsValues
  <1>2. ASSUME NEW i \in 1 .. Len(s), i =< l + 1, NEW v \in Int, v >= x.start
        PROVE  ~Holds(s[i], v)
    <2>1. Lower(s[i], x) /\ s[i] \in Interval
      BY <1>0, <1>1, <1>2
    <2>2. s[i].end < x.start /\ s[i].end \in Int
      BY <2>1, LowerOrdered, IntervalFields
    <2> QED
      BY <1>2, <1>x, <2>2 DEF Holds
  <1>3. CASE l = Len(s) - 1
    <2>1. \A i \in 1 .. Len(s) : i =< l + 1
      BY <1>0, <1>3
    <2>2. x.start \notin Contents(s)
      BY <1>2, <1>x, <2>1 DEF Contents, Holds
    <2> QED
      BY <1>3, <1>x, <2>2
  <1>4. CASE l # Len(s) - 1 /\ IsSubset(x, s[l + 2])
    <2>1. l + 2 \in 1 .. Len(s)
      BY <1>0, <1>4
    <2>2. s[l + 2] \in Interval
      BY <1>0, <2>1
    <2>3. ASSUME NEW v \in Values, Holds(x, v) PROVE v \in Contents(s)
      <3>1. v \in Int
        BY ValuesAssumption
      <3>2. Holds(s[l + 2], v)
        BY <1>4, <1>x, <2>2, <2>3, <3>1, IntervalFields DEF IsSubset, Holds
      <3> QED
        BY <2>1, <3>2 DEF Contents, Holds
    <2> QED
      BY <1>4, <2>3
  <1>5. CASE l # Len(s) - 1 /\ ~IsSubset(x, s[l + 2])
    <2> DEFINE y == s[l + 2]
    <2>1. l + 2 \in 1 .. Len(s) /\ ~(l + 2 =< l + 1)
      BY <1>0, <1>5
    <2>2. y \in Interval /\ ~Lower(y, x)
      BY <1>0, <1>1, <2>1
    <2>y. y.start \in Int /\ y.end \in Int /\ y.start =< y.end
      BY <2>2, IntervalFields
    <2>3. \A i \in 1 .. Len(s) : i =< l + 1 \/ i = l + 2 \/ (i > l + 2 /\ Lower(y, s[i]))
      BY <1>0, <2>1 DEF IsCanonical
    <2>4. y.start > x.start \/ y.end < x.end
      BY <1>5, <1>x, <2>y DEF IsSubset
    <2> HIDE DEF y
    <2>5. CASE y.start > x.start
      <3>1. ~Holds(y, x.start)
        BY <1>x, <2>5, <2>y DEF Holds
      <3>2. ASSUME NEW i \in 1 .. Len(s), i > l + 2, Lower(y, s[i])
            PROVE  ~Holds(s[i], x.start)
        <4>1. s[i] \in Interval
          BY <1>0
        <4>2. y.start =< s[i].start /\ s[i].start \in Int
          BY <2>2, <3>2, <4>1, LowerOrdered, IntervalFields
        <4> QED
          BY <1>x, <2>5, <2>y, <4>2 DEF Holds
      <3>3. x.start \notin Contents(s)
        <4>1. \A i \in 1 .. Len(s) : ~Holds(s[i], x.start)
          BY <1>2, <1>x, <2>3, <3>1, <3>2 DEF y
        <4> QED
          BY <4>1 DEF Contents, Holds
      <3> QED
        BY <1>5, <1>x, <3>3
    <2>6. CASE y.start =< x.start /\ y.end < x.end
      <3>1. y.end >= x.start - 1 /\ y.end \notin Tops
        <4>1. y.end >= Pred(x.start)
          BY <2>2, <2>y, <1>x, SuccPred DEF Lower
        <4>2. CASE x.start \in Bottoms
          <5>1. y.end >= x.start
            BY <4>1, <4>2 DEF Pred
          <5> QED
            BY <1>x, <2>y, <2>6, <5>1, IntervalFields
        <4>3. CASE x.start \notin Bottoms /\ y.end >= x.start
          BY <1>x, <2>y, <2>6, <4>3, IntervalFields
        <4>4. CASE x.start \notin Bottoms /\ ~(y.end >= x.start)
          <5>1. y.end = x.start - 1
            BY <1>x, <2>y, <4>1, <4>4 DEF Pred
          <5>2. y.end + 1 = x.start
            BY <1>x, <2>y, <5>1
          <5>3. y.end \notin Tops
            BY <1>x, <4>4, <5>2, FamiliesAssumption
          <5> QED
            BY <1>x, <2>y, <5>1, <5>3
        <4> QED
          BY <4>2, <4>3, <4>4
      <3> DEFINE v == y.end + 1
      <3>2. v \in Int /\ x.start =< v /\ v =< x.end
        BY <1>x, <2>y, <2>6, <3>1
      <3>3. Holds(x, v) /\ v \in Values
        BY <3>2, HoldsValues DEF Holds
      <3>4. ~Holds(y, v)
        BY <2>y DEF Holds
      <3>5. ASSUME NEW i \in 1 .. Len(s), i > l + 2, Lower(y, s[i])
            PROVE  ~Holds(s[i], v)
        <4>1. s[i] \in Interval
          BY <1>0
        <4>2. s[i].start > v /\ s[i].start \in Int
          BY <2>2, <3>1, <3>5, <4>1, GapAbove, IntervalFields
        <4> QED
          BY <3>2, <4>2 DEF Holds
      <3> HIDE DEF v
      <3>6. v \notin Contents(s)
        <4>1. \A i \in 1 .. Len(s) : ~Holds(s[i], v)
          BY <1>2, <2>3, <3>2, <3>4, <3>5 DEF y
        <4> QED
          BY <4>1 DEF Contents, Holds
      <3> QED
        BY <1>5, <3>3, <3>6
    <2> QED
      BY <1>x, <2>y, <2>4, <2>5, <2>6
  <1> QED
    BY <1>3, <1>4, <1>5

\* Of two lists of one interval each, the first holds no more than the second
\* exactly when its interval is within the other.
LEMMA SinglesDecide ==
  ASSUME NEW s \in Seq(Interval), NEW u \in Seq(Interval), Len(s) = 1, Len(u) = 1
  PROVE  IsSubset(s[1], u[1]) <=> Contents(s) \subseteq Contents(u)
  <1>1. /\ s[1] \in Interval /\ u[1] \in Interval
        /\ s[1].start \in Int /\ s[1].end \in Int /\ u[1].start \in Int /\ u[1].end \in Int
        /\ s[1].start \in Values /\ s[1].end \in Values /\ s[1].start =< s[1].end
    <2>1. s[1] \in Interval /\ u[1] \in Interval
      OBVIOUS
    <2> QED
      BY <2>1, IntervalFields
  <1>2. Contents(s) = {v \in Values : Holds(s[1], v)} /\ Contents(u) = {v \in Values : Holds(u[1], v)}
    BY DEF Contents, Holds
  <1>3. ASSUME IsSubset(s[1], u[1]), NEW v \in Values, Holds(s[1], v)
        PROVE  Holds(u[1], v)
    <2>1. v \in Int
      BY ValuesAssumption
    <2> QED
      BY <1>1, <1>3, <2>1 DEF IsSubset, Holds
  <1>4. ASSUME Contents(s) \subseteq Contents(u) PROVE IsSubset(s[1], u[1])
    <2>1. s[1].start \in Contents(s) /\ s[1].end \in Contents(s)
      BY <1>1, <1>2 DEF Holds
    <2>2. Holds(u[1], s[1].start) /\ Holds(u[1], s[1].end)
      BY <1>2, <1>4, <2>1
    <2> QED
      BY <2>2 DEF Holds, IsSubset
  <1> QED
    BY <1>2, <1>3, <1>4

(***************************************************************************)
(* The loops keep to their calls.                                          *)
(***************************************************************************)
\* What a step that moves neither the lists nor the counters has to show.
LEMMA SearchingFits ==
  ASSUME RInv, UNCHANGED <<set, other, op, j, k, acc, before>>,
         pc \in {"find_left", "find_right"}, key' = key,
         pc' \in {"find_left", "find_right", "splice", "check"}
  PROVE  ContentsInv'
  <1>1. op \in {"ior", "contained_in"} /\ pc # "idle"
    BY DEF RInv, IInv, ControlInv
  <1>2. IorFits' /\ ContainedFits'
    BY <1>1 DEF RInv, ContentsInv, IorFits, ContainedFits, Contents, FirstOf
  <1>3. IsubFits' /\ IandFits' /\ CallFits'
    BY <1>1 DEF RInv, ContentsInv, IsubFits, IandFits, CallFits
  <1> QED
    BY <1>2, <1>3 DEF ContentsInv

\* A call step is a call of the abstract set of numbers.
LEMMA CallFitsIt ==
  ASSUME RInv, NEW o \in Ops, NEW s \in Operands, Call(o, s)
  PROVE  ContentsInv'
  <1>1. /\ set \in Seq(Interval) /\ s \in Seq(Interval)
        /\ Len(set) \in Nat /\ Len(s) \in Nat
    BY OperandsAssumption DEF RInv, IInv, TypeOK, IsCanonical
  <1>2. /\ pc = "idle" /\ op' = o /\ pc' = o /\ other' = s /\ before' = Contents(set)
        /\ set' = set /\ j' = 0 /\ k' = 0 /\ acc' = << >>
    BY DEF Call, RInv, IInv, ControlInv
  <1>3. FirstOf(s, 0) = {} /\ FirstOf(set, 0) = {} /\ Contents(<< >>) = {}
    BY <1>1, FirstOfNext, ContentsFew
  <1>4. IorFits'
    BY <1>1, <1>2, <1>3 DEF IorFits, Contents, FirstOf
  <1>5. IsubFits'
    BY <1>1, <1>2, <1>3 DEF IsubFits, Contents, FirstOf
  <1>6. IandFits'
    <2>1. Contents(set') = before' /\ Contents(acc') = {}
      BY <1>2, <1>3
    <2>2. FirstOf(set', j') = {} /\ FirstOf(other', k') = {}
      BY <1>2, <1>3
    <2> QED
      BY <2>1, <2>2 DEF IandFits
  <1>7. ContainedFits'
    <2>1. Contents(set') = before' /\ FirstOf(set', k') = {}
      BY <1>2, <1>3
    <2> QED
      BY <1>1, <1>2, <2>1 DEF ContainedFits
  <1>8. CallFits'
    BY <1>2 DEF CallFits, Ops
  <1> QED
    BY <1>4, <1>5, <1>6, <1>7, <1>8 DEF ContentsInv

\* A return step is a return of the abstract set.
LEMMA ReturnFits ==
  ASSUME RInv, NEW res, Return(res)
  PROVE  ContentsInv'
  BY DEF Return, ContentsInv, IorFits, IsubFits, IandFits, ContainedFits, CallFits

\* `|=`.
LEMMA AddFirstFits ==
  ASSUME RInv, AddFirst
  PROVE  ContentsInv'
  <1>1. /\ pc = "ior" /\ op = "ior" /\ pc' = "ior" /\ op' = "ior"
        /\ k \in Nat /\ k < Len(other) /\ k + 1 \in 1 .. Len(other) /\ Len(other) \in Nat
        /\ other \in Seq(Interval) /\ other' = other /\ k' = k + 1 /\ before' = before
        /\ set = << >> /\ set' = <<other[k + 1]>>
    BY DEF AddFirst, RInv, IInv, ControlInv, TypeOK
  <1>2. FirstOf(other, k + 1) = FirstOf(other, k) \cup Contents(set')
    BY <1>1, FirstOfNext, ContentsFew
  <1>3. before \cup FirstOf(other, k) = {}
    BY <1>1, ContentsFew DEF RInv, ContentsInv, IorFits
  <1>4. Contents(set') = before' \cup FirstOf(other', k')
    BY <1>1, <1>2, <1>3
  <1>5. IorFits'
    BY <1>1, <1>4 DEF IorFits
  <1> QED
    BY <1>1, <1>5 DEF ContentsInv, IsubFits, IandFits, ContainedFits, CallFits

\* The start of the searches of add_interval keeps the contents.
LEMMA AddStartFits ==
  ASSUME RInv, AddStart
  PROVE  ContentsInv'
  <1>1. /\ pc = "ior" /\ op = "ior" /\ pc' = "find_left" /\ op' = "ior"
    BY DEF AddStart, RInv, IInv, ControlInv
  <1>2. IorFits'
    BY <1>1 DEF AddStart, RInv, ContentsInv, IorFits, Contents, FirstOf
  <1> QED
    BY <1>1, <1>2 DEF ContentsInv, IsubFits, IandFits, ContainedFits, CallFits

\* The splice of add_interval adds the interval, and keeps the loop of __ior__ fitting.
LEMMA SpliceFits ==
  ASSUME RInv, Splice
  PROVE  ContentsInv'
  <1>1. /\ pc = "splice" /\ op = "ior" /\ pc' = "ior" /\ op' = "ior"
        /\ k \in Nat /\ k < Len(other) /\ k + 1 \in 1 .. Len(other) /\ Len(other) \in Nat
        /\ other \in Seq(Interval) /\ other' = other /\ k' = k + 1 /\ before' = before
        /\ set # << >> /\ key = other[k + 1] /\ set' = Spliced(set, key, left, right)
        /\ Contents(set) = before \cup FirstOf(other, k)
    BY DEF Splice, RInv, IInv, ControlInv, TypeOK, ContentsInv, IorFits
  <1>2. /\ IsCanonical(set) /\ key \in Interval
        /\ LeftExact(set, key, left) /\ RightExact(set, key, right)
    BY <1>1 DEF RInv, IInv, Canonical, SearchInv, SearchExact
  <1>3. Contents(set') = Contents(set) \cup {v \in Values : Holds(key, v)}
    BY <1>1, <1>2, SplicedContents
  <1>4. FirstOf(other, k + 1) = FirstOf(other, k) \cup {v \in Values : Holds(key, v)}
    BY <1>1, FirstOfNext
  <1>5. Contents(set') = before' \cup FirstOf(other', k')
    BY <1>1, <1>3, <1>4
  <1>6. IorFits'
    BY <1>1, <1>5 DEF IorFits
  <1> QED
    BY <1>1, <1>6 DEF ContentsInv, IsubFits, IandFits, ContainedFits, CallFits

\* `-=`.
LEMMA HoleStepFits ==
  ASSUME RInv, HoleStep
  PROVE  ContentsInv'
  <1> DEFINE a == set[j + 1]
             b == other[k + 1]
  <1>1. /\ pc = "isub" /\ op = "isub" /\ pc' = "isub" /\ op' = "isub"
        /\ k \in Nat /\ k < Len(other) /\ k + 1 \in 1 .. Len(other)
        /\ j \in Nat /\ j < Len(set) /\ j + 1 \in 1 .. Len(set)
        /\ set \in Seq(Interval) /\ other \in Seq(Interval) /\ acc \in Seq(Interval)
        /\ set' = set /\ other' = other /\ before' = before /\ k' = k /\ j' = j + 1
        /\ acc' = acc \o IntervalSub(a, b)
    BY DEF HoleStep, RInv, IInv, ControlInv, TypeOK, ContentsInv, CallFits
  <1>2. a \in Interval /\ b \in Interval
    BY <1>1
  <1> HIDE DEF a, b
  <1>3. Contents(acc') = Contents(acc) \cup {v \in Values : Holds(a, v) /\ ~Holds(b, v)}
    BY <1>1, <1>2, SubContents, ContentsConcat
  <1>4. FirstOf(set, j + 1) = FirstOf(set, j) \cup {v \in Values : Holds(a, v)}
    BY <1>1, FirstOfNext DEF a
  <1>5. Contents(acc) = {v \in FirstOf(set, j) : ~Holds(b, v)}
        /\ Contents(set) = before \ FirstOf(other, k)
    BY <1>1 DEF RInv, ContentsInv, IsubFits, b
  <1>6. Contents(acc') = {v \in FirstOf(set, j + 1) : ~Holds(b, v)}
    BY <1>3, <1>4, <1>5
  <1>7. IsubFits'
    <2>1. Contents(set') = before' \ FirstOf(other', k')
      BY <1>1, <1>5
    <2>2. Contents(acc') = {v \in FirstOf(set', j') : ~Holds(other'[k' + 1], v)}
      BY <1>1, <1>6 DEF b
    <2> QED
      BY <2>1, <2>2 DEF IsubFits
  <1> QED
    BY <1>1, <1>7 DEF ContentsInv, IorFits, IandFits, ContainedFits, CallFits

\* The end of add_hole leaves the contents without the hole.
LEMMA HoleDoneFits ==
  ASSUME RInv, HoleDone
  PROVE  ContentsInv'
  <1> DEFINE b == other[k + 1]
  <1>1. /\ pc = "isub" /\ op = "isub" /\ pc' = "isub" /\ op' = "isub"
        /\ k \in Nat /\ k < Len(other) /\ j = Len(set)
        /\ set \in Seq(Interval) /\ other \in Seq(Interval) /\ acc \in Seq(Interval)
        /\ set' = acc /\ other' = other /\ before' = before /\ k' = k + 1 /\ j' = 0
        /\ acc' = << >>
    BY DEF HoleDone, RInv, IInv, ControlInv, TypeOK, ContentsInv, CallFits
  <1> HIDE DEF b
  <1>2. FirstOf(other, k + 1) = FirstOf(other, k) \cup {v \in Values : Holds(b, v)}
    BY <1>1, FirstOfNext DEF b
  <1>3. Contents(acc) = {v \in FirstOf(set, j) : ~Holds(b, v)}
        /\ Contents(set) = before \ FirstOf(other, k)
    BY <1>1 DEF RInv, ContentsInv, IsubFits, b
  <1>4. Contents(set) = FirstOf(set, j) /\ Contents(set) \subseteq Values
    BY <1>1, FirstOfNext DEF Contents
  <1>5. Contents(set') = before' \ FirstOf(other', k')
    BY <1>1, <1>2, <1>3, <1>4
  <1>6. Contents(acc') = {} /\ FirstOf(set', j') = {}
    BY <1>1, ContentsFew, FirstOfNext
  <1>7. IsubFits'
    BY <1>5, <1>6 DEF IsubFits
  <1> QED
    BY <1>1, <1>7 DEF ContentsInv, IorFits, IandFits, ContainedFits, CallFits

\* `&=`.
LEMMA AndStepFits ==
  ASSUME RInv, AndStep
  PROVE  ContentsInv'
  <1> DEFINE a == set[j + 1]
             b == other[k + 1]
  <1>1. /\ pc = "iand" /\ op = "iand" /\ pc' = "iand" /\ op' = "iand"
        /\ k \in Nat /\ k < Len(other) /\ k + 1 \in 1 .. Len(other)
        /\ j \in Nat /\ j < Len(set) /\ j + 1 \in 1 .. Len(set)
        /\ set \in Seq(Interval) /\ other \in Seq(Interval) /\ acc \in Seq(Interval)
        /\ set' = set /\ other' = other /\ before' = before /\ k' = k + 1 /\ j' = j
        /\ acc' = acc \o IntervalAnd(a, b)
    BY DEF AndStep, RInv, IInv, ControlInv, TypeOK, ContentsInv, CallFits
  <1>2. a \in Interval /\ b \in Interval
    BY <1>1
  <1>a. other'[k + 1] = b /\ set'[j' + 1] = a
    BY <1>1
  <1> HIDE DEF a, b
  <1>3. Contents(acc') = Contents(acc) \cup {v \in Values : Holds(a, v) /\ Holds(b, v)}
    BY <1>1, <1>2, AndContents, ContentsConcat
  <1>4. FirstOf(other, k + 1) = FirstOf(other, k) \cup {v \in Values : Holds(b, v)}
    BY <1>1, FirstOfNext DEF b
  <1>5. /\ Contents(set) = before
        /\ Contents(acc) = {v \in Contents(other) : v \in FirstOf(set, j) \/ (Holds(a, v) /\ v \in FirstOf(other, k))}
    BY <1>1 DEF RInv, ContentsInv, IandFits, a
  <1>6. \A v \in Values : Holds(b, v) => v \in Contents(other)
    BY <1>1 DEF Contents, Holds, b
  <1>7. Contents(acc') = {v \in Contents(other) : v \in FirstOf(set, j) \/ (Holds(a, v) /\ v \in FirstOf(other, k + 1))}
    <2>1. Contents(other) \subseteq Values
      BY DEF Contents
    <2> QED
      BY <1>3, <1>4, <1>5, <1>6, <2>1
  <1>8. IandFits'
    <2>1. Contents(set') = before'
      BY <1>1, <1>5
    <2>2. Contents(acc') = {v \in Contents(other') : \/ v \in FirstOf(set', j')
                                                     \/ /\ j' < Len(set') /\ Holds(set'[j' + 1], v)
                                                        /\ v \in FirstOf(other', k')}
      BY <1>1, <1>7, <1>a
    <2> QED
      BY <2>1, <2>2 DEF IandFits
  <1> QED
    BY <1>1, <1>8 DEF ContentsInv, IorFits, IsubFits, ContainedFits, CallFits

\* The next pair of the sweep of __iand__ keeps what was met so far.
LEMMA AndNextFits ==
  ASSUME RInv, AndNext
  PROVE  ContentsInv'
  <1>1. /\ pc = "iand" /\ op = "iand" /\ pc' = "iand" /\ op' = "iand"
        /\ k = Len(other) /\ j \in Nat /\ j < Len(set)
        /\ set \in Seq(Interval) /\ other \in Seq(Interval)
        /\ set' = set /\ other' = other /\ before' = before /\ k' = 0 /\ j' = j + 1
        /\ acc' = acc
    BY DEF AndNext, RInv, IInv, ControlInv, TypeOK, ContentsInv, CallFits
  <1>2. FirstOf(set, j + 1) = FirstOf(set, j) \cup {v \in Values : Holds(set[j + 1], v)}
        /\ FirstOf(other, 0) = {} /\ FirstOf(other, k) = Contents(other)
        /\ Contents(other) \subseteq Values
    BY <1>1, FirstOfNext DEF Contents
  <1>3. /\ Contents(set) = before
        /\ Contents(acc) = {v \in Contents(other) : v \in FirstOf(set, j)
                                                    \/ (Holds(set[j + 1], v) /\ v \in FirstOf(other, k))}
    BY <1>1 DEF RInv, ContentsInv, IandFits
  <1>4. Contents(acc) = {v \in Contents(other) : v \in FirstOf(set, j + 1)}
    BY <1>2, <1>3
  <1>5. IandFits'
    <2>1. Contents(set') = before' /\ FirstOf(other', k') = {}
      BY <1>1, <1>2, <1>3
    <2>2. Contents(acc') = {v \in Contents(other') : v \in FirstOf(set', j')}
      BY <1>1, <1>4
    <2> QED
      BY <2>1, <2>2 DEF IandFits
  <1> QED
    BY <1>1, <1>5 DEF ContentsInv, IorFits, IsubFits, ContainedFits, CallFits

\* contained_in.
LEMMA ContainedSearchFits ==
  ASSUME RInv, ContainedSearch
  PROVE  ContentsInv'
  <1>1. /\ pc = "contained_in" /\ op = "contained_in" /\ op' = op
        /\ pc' \in {"check", "find_left"} /\ k < Len(set) /\ key' = set[k + 1]
        /\ set' = set /\ other' = other /\ before' = before /\ k' = k
    BY DEF ContainedSearch, RInv, IInv, ControlInv
  <1>2. Contents(set) = before /\ k =< Len(set) /\ FirstOf(set, k) \subseteq Contents(other)
    BY <1>1 DEF RInv, ContentsInv, ContainedFits
  <1>3. ContainedFits'
    <2>1. Contents(set') = before' /\ k' =< Len(set') /\ FirstOf(set', k') \subseteq Contents(other')
      BY <1>1, <1>2
    <2> QED
      BY <1>1, <2>1 DEF ContainedFits
  <1> QED
    BY <1>1, <1>3 DEF ContentsInv, IorFits, IsubFits, IandFits, CallFits

\* The step of the check that goes on to the next interval.
LEMMA ContainedCheckFits ==
  ASSUME RInv, ContainedCheck, pc' # "idle"
  PROVE  ContentsInv'
  <1>1. /\ pc = "check" /\ op = "contained_in" /\ op' = op /\ pc' = "contained_in"
        /\ set' = set /\ other' = other /\ before' = before /\ k' = k + 1
        /\ ~(left = Len(other) - 1 \/ ~IsSubset(key, other[left + 2]))
    BY DEF ContainedCheck, Return, RInv, IInv, ControlInv
  <1>2. /\ k \in Nat /\ k < Len(set) /\ key = set[k + 1] /\ Contents(set) = before
        /\ FirstOf(set, k) \subseteq Contents(other)
    BY <1>1 DEF RInv, IInv, TypeOK, ContentsInv, ContainedFits
  <1>3. /\ IsCanonical(other) /\ key \in Interval /\ LeftExact(other, key, left)
        /\ set \in Seq(Interval)
    BY <1>1 DEF RInv, IInv, SearchInv, SearchExact, TypeOK
  <1>4. {v \in Values : Holds(key, v)} \subseteq Contents(other)
    BY <1>1, <1>3, LookupDecides
  <1>5. FirstOf(set, k + 1) \subseteq Contents(other)
    BY <1>2, <1>3, <1>4, FirstOfNext
  <1>6. ContainedFits'
    <2>1. Contents(set') = before' /\ FirstOf(set', k') \subseteq Contents(other')
      BY <1>1, <1>2, <1>5
    <2>2. k' =< Len(set')
      BY <1>1, <1>2, <1>3
    <2> QED
      BY <1>1, <2>1, <2>2 DEF ContainedFits
  <1> QED
    BY <1>1, <1>6 DEF ContentsInv, IorFits, IsubFits, IandFits, CallFits

(***************************************************************************)
(* The refinement.                                                         *)
(***************************************************************************)
\* A call answers with what ValueSet says: the values the object holds then
\* and the result.
LEMMA AnswersAgree ==
  ASSUME RInv, Step, pc' = "idle"
  PROVE  /\ pc # "idle" /\ op' = "none" /\ other' = << >>
         /\ Contents(set') = Abstract!After(op, before, Contents(other))
         /\ result' = (op = "contained_in" /\ before \subseteq Contents(other))
  <1>0. /\ set \in Seq(Interval) /\ other \in Seq(Interval)
        /\ j \in Nat /\ k \in Nat /\ Len(set) \in Nat /\ Len(other) \in Nat
    BY DEF RInv, IInv, TypeOK
  <1> USE DEF Abstract!After
  <1>1. CASE OrDone
    <2>1. op = "ior" /\ pc = "ior" /\ Contents(set) = before \cup FirstOf(other, Len(other))
      BY <1>1 DEF OrDone, RInv, IInv, ControlInv, ContentsInv, IorFits
    <2> QED
      BY <1>0, <1>1, <2>1, FirstOfNext DEF OrDone, Return
  <1>2. CASE SubDone
    <2>1. op = "isub" /\ pc = "isub" /\ Contents(set) = before \ FirstOf(other, Len(other))
      BY <1>2 DEF SubDone, RInv, IInv, ControlInv, ContentsInv, CallFits, IsubFits
    <2> QED
      BY <1>0, <1>2, <2>1, FirstOfNext DEF SubDone, Return
  <1>3. CASE AndDone
    <2>1. /\ op = "iand" /\ pc = "iand" /\ Contents(set) = before
          /\ j = Len(set) /\ set' = acc
          /\ Contents(acc) = {v \in Contents(other) : v \in FirstOf(set, j)}
      BY <1>0, <1>3 DEF AndDone, RInv, ContentsInv, CallFits, IandFits
    <2>2. FirstOf(set, j) = before
      BY <1>0, <2>1, FirstOfNext
    <2>3. Contents(set') = before \cap Contents(other)
      BY <2>1, <2>2
    <2> QED
      BY <1>3, <2>1, <2>3 DEF AndDone, Return
  <1>4. CASE ContainedShortcut
    <2>1. op = "contained_in" /\ pc = "contained_in" /\ Contents(set) = before
      BY <1>4 DEF ContainedShortcut, RInv, IInv, ControlInv, ContentsInv, ContainedFits
    <2>2. IsSubset(set[1], other[1]) <=> before \subseteq Contents(other)
      BY <1>0, <1>4, <2>1, SinglesDecide DEF ContainedShortcut, TwoSingles
    <2>3. result' = IsSubset(set[1], other[1]) /\ set' = set /\ op' = "none" /\ other' = << >>
      BY <1>4 DEF ContainedShortcut, Return
    <2>4. IsSubset(set[1], other[1]) = (before \subseteq Contents(other))
      BY <2>2 DEF IsSubset
    <2> QED
      BY <2>1, <2>3, <2>4
  <1>5. CASE ContainedDone
    <2>1. /\ op = "contained_in" /\ pc = "contained_in" /\ Contents(set) = before
          /\ k = Len(set) /\ FirstOf(set, k) \subseteq Contents(other)
      BY <1>5 DEF ContainedDone, RInv, IInv, ControlInv, ContentsInv, ContainedFits
    <2>2. before \subseteq Contents(other)
      BY <1>0, <2>1, FirstOfNext
    <2> QED
      BY <1>5, <2>1, <2>2 DEF ContainedDone, Return
  <1>6. CASE ContainedCheck
    <2>1. /\ op = "contained_in" /\ pc = "check" /\ Contents(set) = before
          /\ k < Len(set) /\ key = set[k + 1]
      BY <1>6 DEF ContainedCheck, RInv, IInv, ControlInv, ContentsInv, ContainedFits
    <2>2. /\ left = Len(other) - 1 \/ ~IsSubset(key, other[left + 2])
          /\ Return(FALSE) /\ set' = set
      BY <1>6 DEF ContainedCheck
    <2>3. IsCanonical(other) /\ key \in Interval /\ LeftExact(other, key, left)
      BY <2>1 DEF RInv, IInv, SearchInv, SearchExact
    <2>4. ~({v \in Values : Holds(key, v)} \subseteq Contents(other))
      BY <2>2, <2>3, LookupDecides
    <2>5. {v \in Values : Holds(key, v)} \subseteq before
      <3>1. k + 1 \in 1 .. Len(set)
        BY <1>0, <2>1
      <3> QED
        BY <2>1, <3>1 DEF Contents, Holds
    <2> QED
      BY <2>1, <2>2, <2>4, <2>5 DEF Return
  <1>7. CASE ~(OrDone \/ SubDone \/ AndDone \/ ContainedShortcut \/ ContainedDone
               \/ ContainedCheck)
    <2>1. pc' # "idle"
      BY <1>7 DEF Step, AddFirst, AddStart, FindLeft, FoundLeft, LowPast, LowMoves, HighTo,
         FindRight, FoundRight, Splice, HoleStep, HoleDone, AndStep, AndNext, ContainedSearch
    <2> QED
      BY <2>1
  <1> QED
    BY <1>1, <1>2, <1>3, <1>4, <1>5, <1>6, <1>7

\* Until a call answers, its caller sees nothing change.
LEMMA NothingSeen ==
  ASSUME RInv, Step, pc' # "idle"
  PROVE  pc # "idle" /\ UNCHANGED <<op, other, before, result>>
  BY DEF Step, Return, OrDone, AddFirst, AddStart, FindLeft, FoundLeft, LowPast, LowMoves,
     HighTo, FindRight, FoundRight, Splice, SubDone, HoleStep, HoleDone, AndStep, AndNext,
     AndDone, ContainedShortcut, ContainedDone, ContainedSearch, ContainedCheck

\* Every step keeps the invariant.
LEMMA StepFits == RInv /\ [Next]_vars => RInv'
  <1> SUFFICES ASSUME RInv, [Next]_vars PROVE ContentsInv'
    BY NextInv DEF RInv
  <1>1. CASE \E o \in Ops, s \in Operands : Call(o, s)
    BY <1>1, CallFitsIt
  <1>2. CASE Step /\ pc' = "idle"
    <2>1. \E res : Return(res)
      BY <1>2 DEF Step, OrDone, SubDone, AndDone, ContainedShortcut, ContainedDone,
         ContainedCheck, AddFirst, AddStart, FindLeft, FoundLeft, LowPast, LowMoves, HighTo,
         FindRight, FoundRight, Splice, HoleStep, HoleDone, AndStep, AndNext, ContainedSearch
    <2> QED
      BY <2>1, ReturnFits
  <1>3. CASE Step /\ pc' # "idle"
    <2>1. CASE FindLeft \/ FindRight
      <3>1. /\ UNCHANGED <<set, other, op, j, k, acc, before>> /\ key' = key
            /\ pc \in {"find_left", "find_right"}
            /\ pc' \in {"find_left", "find_right", "splice", "check"}
        BY <2>1 DEF FindLeft, FindRight, FoundLeft, FoundRight, LowPast, LowMoves, HighTo
      <3> QED
        BY <3>1, SearchingFits
    <2>2. CASE ~(FindLeft \/ FindRight)
      <3>1. ~(OrDone \/ SubDone \/ AndDone \/ ContainedShortcut \/ ContainedDone)
        BY <1>3 DEF OrDone, SubDone, AndDone, ContainedShortcut, ContainedDone, Return
      <3> QED
        BY <1>3, <2>2, <3>1, AddFirstFits, AddStartFits, SpliceFits, HoleStepFits,
           HoleDoneFits, AndStepFits, AndNextFits, ContainedSearchFits, ContainedCheckFits
           DEF Step
    <2> QED
      BY <2>1, <2>2
  <1>4. CASE UNCHANGED vars
    BY <1>4 DEF vars, RInv, ContentsInv, IorFits, IsubFits, IandFits, ContainedFits,
       CallFits, Contents, FirstOf
  <1> QED
    BY <1>1, <1>2, <1>3, <1>4 DEF Next

\* The contents fit initially.
LEMMA InitFits == Init => RInv
  <1> SUFFICES ASSUME Init PROVE ContentsInv
    BY InitInv DEF RInv
  <1> QED
    BY DEF Init, ContentsInv, IorFits, IsubFits, IandFits, ContainedFits, CallFits

\* What every loop has done of its call holds throughout.
THEOREM CallInvariance == Spec => []RInv
  BY InitFits, StepFits, PTL DEF Spec

\* The initial states are initial states of the abstract set.
LEMMA InitRefines == Init => Abstract!Init
  BY ContentsFew DEF Init, Abstract!Init

\* Every step of the code is a step of ValueSet, or one its caller does not see.
LEMMA StepRefines == RInv /\ [Next]_vars => [Abstract!Next]_(Abstract!vars)
  <1> SUFFICES ASSUME RInv, [Next]_vars PROVE [Abstract!Next]_(Abstract!vars)
    OBVIOUS
  <1>1. ASSUME NEW o \in Ops, NEW s \in Operands, Call(o, s)
        PROVE  Abstract!Call
    <2>1. Contents(s) \in SUBSET Values
      BY DEF Contents
    <2> QED
      BY <1>1, <2>1 DEF Call, Abstract!Call, Abstract!Ops, Ops
  <1>2. CASE Step /\ pc' = "idle"
    <2>1. Contents(<< >>) = {}
      BY ContentsFew
    <2> QED
      BY <1>2, <2>1, AnswersAgree DEF Abstract!Next, Abstract!Return
  <1>3. CASE Step /\ pc' # "idle"
    BY <1>3, NothingSeen DEF Abstract!vars, Contents
  <1>4. CASE UNCHANGED vars
    BY <1>4 DEF vars, Abstract!vars, Contents
  <1> QED
    BY <1>1, <1>2, <1>3, <1>4 DEF Next, Abstract!Next

\* CanonicalIntervalSet is a set of values: `|=` is union, `-=` difference, `&=`
\* intersection and contained_in inclusion, however its list is laid out and
\* wherever the families of addresses end.
THEOREM Refinement == Spec => Implements
  BY InitRefines, StepRefines, CallInvariance, PTL DEF Implements, Abstract!Spec, Spec
=============================================================================
