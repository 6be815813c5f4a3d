-------------------------- MODULE RangeFilterProofs --------------------------
(***************************************************************************)
(* What TLAPS proves about RangeFilter for every number of values and      *)
(* every set of arguments and texts.                                       *)
(***************************************************************************)
EXTENDS RangeFilter, SequenceTheorems, WellFoundedInduction, TLAPS

-----------------------------------------------------------------------------
(* Ranges that are in order: the binary searches of contains and intersects *)
(* find what there is                                                        *)

\* The ends of a range are numbers.
LEMMA EndsOfRange ==
    ASSUME NEW r \in AnyRange
    PROVE  r.begin \in Nat /\ r.end \in Nat /\ r.begin <= MaxValue /\ r.end <= MaxValue
BY RangesAssumption DEF AnyRange, Values

\* The positions of a sequence of ranges are those up to its length.
LEMMA ElementOfRanges ==
    ASSUME NEW s \in Seq(AnyRange)
    PROVE  /\ Len(s) \in Nat /\ DOMAIN s = 1 .. Len(s)
           /\ \A i \in DOMAIN s : s[i] \in AnyRange
           /\ \A i \in 1 .. Len(s) : s[i].begin \in Nat /\ s[i].end \in Nat
           /\ s = <<>> <=> Len(s) = 0
BY EndsOfRange

\* What a sequence of ranges selects.
LEMMA CoveredIsIn ==
    ASSUME NEW s \in Seq(AnyRange), NEW v \in Nat
    PROVE  v \in Covered(s) <=> \E j \in 1 .. Len(s) : s[j].begin <= v /\ v <= s[j].end
<1>1. v \in Covered(s) <=> \E j \in DOMAIN s : v \in s[j].begin .. s[j].end
  BY DEF Covered
<1> QED
  BY <1>1, ElementOfRanges

\* A nonempty set of positions has a least element.
LEMMA LeastOf ==
    ASSUME NEW S \in SUBSET Nat, S # {}
    PROVE  \E k \in S : \A j \in S : k <= j
<1>1. PICK k \in S : \A j \in S : <<j, k>> \notin OpToRel(<, Nat)
  BY NatLessThanWellFounded, WFMin, Zenon
<1>2. \A j \in S : j \in Nat /\ k \in Nat /\ ~(j < k)
  BY <1>1 DEF OpToRel
<1> QED
  BY <1>2

\* What upper_bound finds in ranges that are in order, whatever it is asked for.
LEMMA UpperBoundSplits ==
    ASSUME NEW s \in Seq(AnyRange), Sorted(s), NEW v \in Nat
    PROVE  /\ UpperBound(s, v) \in 1 .. Len(s) + 1
           /\ \A j \in 1 .. UpperBound(s, v) - 1 : s[j].begin <= v
           /\ \A j \in 1 .. Len(s) : j >= UpperBound(s, v) => v < s[j].begin
<1> DEFINE Splits(i) == /\ \A j \in 1 .. i - 1 : s[j].begin <= v
                        /\ i <= Len(s) => v < s[i].begin
           Late == {i \in 1 .. Len(s) : v < s[i].begin} \union {Len(s) + 1}
           u == UpperBound(s, v)
<1>1. Len(s) \in Nat /\ \A i \in 1 .. Len(s) : s[i].begin \in Nat /\ s[i].end \in Nat
  BY ElementOfRanges
<1>2. PICK i \in Late : \A j \in Late : i <= j
  <2>1. Late \in SUBSET Nat /\ Late # {}
    BY <1>1
  <2> QED
    BY <2>1, LeastOf
<1>3. i \in 1 .. Len(s) + 1 /\ Splits(i)
  <2>1. i \in 1 .. Len(s) + 1
    BY <1>1
  <2>2. \A j \in 1 .. i - 1 : s[j].begin <= v
    <3>1. SUFFICES ASSUME NEW j \in 1 .. i - 1, s[j].begin > v PROVE FALSE
      BY <1>1, <2>1
    <3>2. j \in 1 .. Len(s)
      BY <1>1, <2>1
    <3>3. j \in Late
      BY <3>1, <3>2
    <3> QED
      BY <1>1, <1>2, <2>1, <3>2, <3>3
  <2> QED
    BY <1>1, <2>1, <2>2
<1>4. u \in 1 .. Len(s) + 1 /\ Splits(u)
  BY <1>3 DEF UpperBound
<1>5. ASSUME NEW j \in 1 .. Len(s), j > u PROVE v < s[j].begin
  <2>1. u \in 1 .. Len(s) /\ v < s[u].begin
    BY <1>1, <1>4, <1>5
  <2>2. s[u].end + 1 < s[j].begin /\ s[u].begin <= s[u].end
    BY <1>1, <1>5, <2>1, ElementOfRanges DEF Sorted, Reversed
  <2> QED
    BY <1>1, <2>1, <2>2
<1> QED
  BY <1>1, <1>4, <1>5

\* contains() finds the range that holds a number, if there is one.
LEMMA ContainsFindsIt ==
    ASSUME NEW s \in Seq(AnyRange), s # <<>>, Sorted(s), NEW v \in Nat
    PROVE  Contains(s, v) <=> v \in Covered(s)
<1> DEFINE u == UpperBound(s, v)
<1>1. Len(s) \in Nat /\ DOMAIN s = 1 .. Len(s)
      /\ \A i \in 1 .. Len(s) : s[i].begin \in Nat /\ s[i].end \in Nat
  BY ElementOfRanges
<1>2. /\ u \in 1 .. Len(s) + 1
      /\ \A j \in 1 .. u - 1 : s[j].begin <= v
      /\ \A j \in 1 .. Len(s) : j >= u => v < s[j].begin
  BY UpperBoundSplits
<1>3. Contains(s, v) <=> u # 1 /\ v <= s[u - 1].end
  BY DEF Contains
<1>4. v \in Covered(s) <=> \E j \in 1 .. Len(s) : s[j].begin <= v /\ v <= s[j].end
  BY CoveredIsIn
<1> HIDE DEF u
<1>5. ASSUME NEW j \in 1 .. Len(s), s[j].begin <= v, v <= s[j].end
      PROVE  u # 1 /\ v <= s[u - 1].end
  <2>1. j < u
    BY <1>1, <1>2, <1>5
  <2>2. CASE j = u - 1
    BY <1>1, <1>2, <1>5, <2>1, <2>2
  <2>3. CASE j < u - 1
    <3>1. j \in DOMAIN s /\ u - 1 \in DOMAIN s /\ s[u - 1].begin <= v
      BY <1>1, <1>2, <2>3
    <3>2. s[j].end + 1 < s[u - 1].begin
      BY <2>3, <3>1 DEF Sorted
    <3> QED
      BY <1>1, <1>5, <3>1, <3>2
  <2> QED
    BY <1>1, <1>2, <2>1, <2>2, <2>3
<1>6. ASSUME u # 1, v <= s[u - 1].end
      PROVE  \E j \in 1 .. Len(s) : s[j].begin <= v /\ v <= s[j].end
  BY <1>1, <1>2, <1>6
<1> QED
  BY <1>3, <1>4, <1>5, <1>6

\* intersects() looks at the only range that matters.
LEMMA IntersectsFindsIt ==
    ASSUME NEW s \in Seq(AnyRange), s # <<>>, Sorted(s), NEW b \in Nat, NEW e \in Nat
    PROVE  Intersects(s, b, e) <=> b .. e \cap Covered(s) # {}
<1> DEFINE u == UpperBound(s, e)
<1>1. Len(s) \in Nat /\ DOMAIN s = 1 .. Len(s)
      /\ \A i \in 1 .. Len(s) : s[i].begin \in Nat /\ s[i].end \in Nat
                                /\ s[i].begin <= s[i].end
  BY ElementOfRanges DEF Sorted, Reversed
<1>2. /\ u \in 1 .. Len(s) + 1
      /\ \A j \in 1 .. u - 1 : s[j].begin <= e
      /\ \A j \in 1 .. Len(s) : j >= u => e < s[j].begin
  BY UpperBoundSplits
<1>3. Intersects(s, b, e) <=> b <= e /\ u # 1 /\ b <= s[u - 1].end
  BY DEF Intersects
<1>4. b .. e \cap Covered(s) # {} <=>
         \E v \in b .. e : \E j \in 1 .. Len(s) : s[j].begin <= v /\ v <= s[j].end
  <2>1. ASSUME NEW v \in b .. e
        PROVE  v \in Covered(s) <=> \E j \in 1 .. Len(s) : s[j].begin <= v /\ v <= s[j].end
    BY CoveredIsIn
  <2> QED
    BY <2>1
<1> HIDE DEF u
<1>5. ASSUME NEW v \in b .. e, NEW j \in 1 .. Len(s), s[j].begin <= v, v <= s[j].end
      PROVE  b <= e /\ u # 1 /\ b <= s[u - 1].end
  <2>1. j < u
    BY <1>1, <1>2, <1>5
  <2>2. CASE j = u - 1
    BY <1>1, <1>2, <1>5, <2>1, <2>2
  <2>3. CASE j < u - 1
    <3>1. j \in DOMAIN s /\ u - 1 \in DOMAIN s /\ j < u - 1
      BY <1>1, <1>2, <2>3
    <3>2. s[j].end + 1 < s[u - 1].begin /\ s[u - 1].begin <= s[u - 1].end
      BY <1>1, <3>1 DEF Sorted
    <3> QED
      BY <1>1, <1>2, <1>5, <2>3, <3>1, <3>2
  <2> QED
    BY <1>1, <1>2, <2>1, <2>2, <2>3
<1>6. ASSUME b <= e, u # 1, b <= s[u - 1].end
      PROVE  \E v \in b .. e : \E j \in 1 .. Len(s) : s[j].begin <= v /\ v <= s[j].end
  <2>1. u - 1 \in 1 .. Len(s) /\ s[u - 1].begin <= e
    BY <1>1, <1>2, <1>6
  <2>2. CASE s[u - 1].begin <= b
    BY <1>6, <2>1, <2>2
  <2>3. CASE s[u - 1].begin > b
    <3>1. s[u - 1].begin \in b .. e
      BY <1>1, <2>1, <2>3
    <3> QED
      BY <1>1, <2>1, <3>1
  <2> QED
    BY <1>1, <2>1, <2>2, <2>3
<1> QED
  BY <1>3, <1>4, <1>5, <1>6

-----------------------------------------------------------------------------
(* Arguments *)

\* The ranges that an accepted text spells are ranges, none of them reversed.
LEMMA ParsedIsStraight ==
    ASSUME NEW text \in Texts, Accepted(text)
    PROVE  /\ Parsed(text) \in Seq(AnyRange)
           /\ \A i \in DOMAIN Parsed(text) : ~Reversed(Parsed(text)[i])
<1>1. Len(text) \in Nat /\ DOMAIN text = 1 .. Len(text)
  BY FilterAssumption
<1>2. ASSUME NEW i \in DOMAIN text
      PROVE  /\ text[i][1] \in Values /\ text[i][Len(text[i])] \in Values
             /\ text[i][1] <= text[i][Len(text[i])]
  <2>1. Len(text[i]) \in {1, 2} /\ DOMAIN text[i] = 1 .. Len(text[i])
    BY FilterAssumption DEF Accepted, IsRange
  <2>2. 1 \in DOMAIN text[i] /\ Len(text[i]) \in DOMAIN text[i]
    BY <2>1
  <2> QED
    BY <2>2 DEF Accepted, IsRange
<1>3. ASSUME NEW i \in DOMAIN text
      PROVE  [begin |-> text[i][1], end |-> text[i][Len(text[i])]] \in AnyRange
  BY <1>2 DEF AnyRange
<1>4. Parsed(text) \in [1 .. Len(text) -> AnyRange]
  BY <1>1, <1>3 DEF Parsed
<1>5. Parsed(text) \in Seq(AnyRange)
  BY <1>1, <1>4
<1>6. ASSUME NEW i \in DOMAIN Parsed(text) PROVE ~Reversed(Parsed(text)[i])
  <2>1. i \in DOMAIN text
    BY DEF Parsed
  <2>2. Parsed(text)[i].begin = text[i][1] /\ Parsed(text)[i].end = text[i][Len(text[i])]
    BY <2>1 DEF Parsed
  <2> QED
    BY <1>2, <2>1, <2>2, RangesAssumption DEF Reversed, Values
<1> QED
  BY <1>5, <1>6

\* Sorting keeps the ranges and puts them in the order of their beginnings.
LEMMA OrderingIsSorted ==
    ASSUME NEW ranges \in Seq(AnyRange), NEW s \in Orderings(ranges)
    PROVE  /\ s \in Seq(AnyRange)
           /\ \A i \in DOMAIN s : \E k \in DOMAIN ranges : s[i] = ranges[k]
           /\ \A i, j \in DOMAIN s : i < j => s[i].begin <= s[j].begin
<1>1. PICK p \in Shuffles(DOMAIN ranges) : s = [i \in DOMAIN ranges |-> ranges[p[i]]]
  BY DEF Orderings
<1>2. p \in [DOMAIN ranges -> DOMAIN ranges]
  BY DEF Shuffles
<1>3. Len(ranges) \in Nat /\ DOMAIN ranges = 1 .. Len(ranges)
      /\ \A k \in DOMAIN ranges : ranges[k] \in AnyRange
  BY ElementOfRanges
<1>4. s \in [1 .. Len(ranges) -> AnyRange]
  BY <1>1, <1>2, <1>3
<1>5. s \in Seq(AnyRange)
  BY <1>3, <1>4
<1>6. \A i \in DOMAIN s : \E k \in DOMAIN ranges : s[i] = ranges[k]
  BY <1>1, <1>2
<1>7. ASSUME NEW i \in DOMAIN s, NEW j \in DOMAIN s, i < j PROVE s[i].begin <= s[j].begin
  <2>1. ~Before(s[j], s[i])
    BY <1>7 DEF Orderings
  <2>2. s[i].begin \in Nat /\ s[j].begin \in Nat
    BY <1>5, ElementOfRanges
  <2> QED
    BY <2>1, <2>2 DEF Before
<1> QED
  BY <1>5, <1>6, <1>7

-----------------------------------------------------------------------------
(* The inductive invariant *)

\* What the ranges before the one the loop is at select.
Merged == UNION {sorted[i].begin .. sorted[i].end : i \in 1 .. position - 1}

\* The argument of a call is in order; between calls there is none.
CallOK ==
    /\ position = 0 => sorted = <<>> /\ merged = <<>>
    /\ \A i, j \in DOMAIN sorted : i < j => sorted[i].begin <= sorted[j].begin

\* The vector of the loop selects what was merged into it, and no range to come
\* begins before its last range.
LoopOK ==
    position > 0 =>
        /\ Covered(merged) = Merged
        /\ merged = <<>> <=> position = 1
        /\ merged # <<>> =>
              \A i \in position .. Len(sorted) : merged[Len(merged)].begin <= sorted[i].begin

\* The filter selects what it was asked for.
FilterOK == selected = IF filter = <<>> THEN Values ELSE Covered(filter)

RangeFilterIInv ==
    TypeOK /\ RangesApart /\ CallOK /\ LoopOK /\ FilterOK /\ AcceptedTextIsSet

\* No range, and no place to be at but the one before the first.
LEMMA NoRanges ==
    <<>> \in Seq(AnyRange) /\ DOMAIN <<>> = {} /\ 0 \in 0 .. Len(<<>>) + 1
OBVIOUS

\* The last range of a sequence is replaced.
LEMMA LastReplaced ==
    ASSUME NEW s \in Seq(AnyRange), s # <<>>, NEW x \in AnyRange
    PROVE  /\ [s EXCEPT ![Len(s)] = x] \in Seq(AnyRange)
           /\ Len([s EXCEPT ![Len(s)] = x]) = Len(s)
           /\ DOMAIN [s EXCEPT ![Len(s)] = x] = 1 .. Len(s)
           /\ [s EXCEPT ![Len(s)] = x][Len(s)] = x
           /\ \A i \in 1 .. Len(s) : i # Len(s) => [s EXCEPT ![Len(s)] = x][i] = s[i]
<1> DEFINE n == Len(s)
           t == [s EXCEPT ![n] = x]
<1>1. n \in Nat /\ DOMAIN s = 1 .. n /\ n \in 1 .. n /\ s \in [1 .. n -> AnyRange]
  BY ElementOfRanges
<1> HIDE DEF n
<1>2. t \in [1 .. n -> AnyRange]
  BY <1>1
<1>3. t \in Seq(AnyRange) /\ Len(t) = n
  BY <1>1, <1>2
<1>4. t[n] = x /\ \A i \in 1 .. n : i # n => t[i] = s[i]
  BY <1>1
<1> QED
  BY <1>2, <1>3, <1>4 DEF n

\* A range is appended to a sequence.
LEMMA LastAppended ==
    ASSUME NEW s \in Seq(AnyRange), NEW x \in AnyRange
    PROVE  /\ Append(s, x) \in Seq(AnyRange)
           /\ Len(Append(s, x)) = Len(s) + 1
           /\ DOMAIN Append(s, x) = 1 .. Len(s) + 1
           /\ Append(s, x)[Len(s) + 1] = x
           /\ \A i \in 1 .. Len(s) : Append(s, x)[i] = s[i]
BY ElementOfRanges

\* A range is added to what merged ranges select.
LEMMA CoveredOfAppended ==
    ASSUME NEW s \in Seq(AnyRange), NEW r \in AnyRange
    PROVE  Covered(Append(s, r)) = Covered(s) \union (r.begin .. r.end)
<1> DEFINE t == Append(s, r)
<1>1. /\ Len(s) \in Nat /\ DOMAIN s = 1 .. Len(s) /\ DOMAIN t = 1 .. Len(s) + 1
      /\ \A i \in 1 .. Len(s) : t[i] = s[i]
      /\ t[Len(s) + 1] = r
  BY ElementOfRanges
<1> HIDE DEF t
<1>2. Covered(t) = UNION {t[i].begin .. t[i].end : i \in 1 .. Len(s) + 1}
  BY <1>1 DEF Covered
<1>3. Covered(s) = UNION {s[i].begin .. s[i].end : i \in 1 .. Len(s)}
  BY <1>1 DEF Covered
<1>4. ASSUME NEW v
      PROVE  (\E i \in 1 .. Len(s) + 1 : v \in t[i].begin .. t[i].end)
               <=> (\E i \in 1 .. Len(s) : v \in s[i].begin .. s[i].end)
                   \/ v \in r.begin .. r.end
  BY <1>1
<1> QED
  BY <1>2, <1>3, <1>4 DEF t

\* Extending the last range by one that joins it adds what this one selects.
LEMMA CoveredOfExtended ==
    ASSUME NEW s \in Seq(AnyRange), s # <<>>, NEW r \in AnyRange, ~Reversed(r),
           ~Reversed(s[Len(s)]), s[Len(s)].begin <= r.begin, Joins(s[Len(s)], r)
    PROVE  /\ [s EXCEPT ![Len(s)] = Extended(@, r)] \in Seq(AnyRange)
           /\ Covered([s EXCEPT ![Len(s)] = Extended(@, r)])
                 = Covered(s) \union (r.begin .. r.end)
<1> DEFINE n == Len(s)
           x == Extended(s[n], r)
           t == [s EXCEPT ![n] = x]
<1>1. /\ n \in Nat \ {0} /\ DOMAIN s = 1 .. n /\ s[n] \in AnyRange
      /\ \A i \in 1 .. n : s[i] \in AnyRange
  BY ElementOfRanges
<1>2. /\ s[n].begin \in Nat /\ s[n].end \in Nat /\ r.begin \in Nat /\ r.end \in Nat
      /\ r.begin <= r.end /\ s[n].begin <= s[n].end
  BY <1>1, EndsOfRange DEF Reversed
<1>3. /\ x \in AnyRange /\ x.begin = s[n].begin
      /\ x.end = Larger(s[n].end, r.end)
  BY <1>1 DEF Extended, AnyRange, Larger
<1>4. x.begin .. x.end = (s[n].begin .. s[n].end) \union (r.begin .. r.end)
  <2>1. r.begin <= s[n].end + 1
    BY <1>2 DEF Joins, Adjoins
  <2> QED
    BY <1>2, <1>3, <2>1 DEF Larger
<1>5. DOMAIN t = 1 .. n /\ t[n] = x /\ \A i \in 1 .. n : i # n => t[i] = s[i]
  <2> HIDE DEF x
  <2> QED
    BY <1>3, LastReplaced
<1>6. t \in Seq(AnyRange)
  <2> HIDE DEF x
  <2> QED
    BY <1>3, LastReplaced
<1> HIDE DEF x, t
<1>7. Covered(t) = UNION {t[i].begin .. t[i].end : i \in 1 .. n}
  BY <1>5 DEF Covered
<1>8. Covered(s) = UNION {s[i].begin .. s[i].end : i \in 1 .. n}
  BY <1>1 DEF Covered
<1>9. ASSUME NEW v
      PROVE  (\E i \in 1 .. n : v \in t[i].begin .. t[i].end)
               <=> (\E i \in 1 .. n : v \in s[i].begin .. s[i].end) \/ v \in r.begin .. r.end
  <2>1. v \in t[n].begin .. t[n].end <=> v \in s[n].begin .. s[n].end \/ v \in r.begin .. r.end
    BY <1>4, <1>5
  <2>2. n \in 1 .. n
    BY <1>1
  <2> HIDE DEF n
  <2> QED
    BY <1>5, <2>1, <2>2
<1>10. Covered(t) = Covered(s) \union (r.begin .. r.end)
  BY <1>7, <1>8, <1>9
<1> QED
  BY <1>6, <1>10 DEF t, x

\* The invariant holds for a filter that was never set.
LEMMA InitialIInv ==
    ASSUME Init
    PROVE  RangeFilterIInv
<1> USE DEF Init
<1>1. TypeOK
  <2>1. parsed \in BOOLEAN /\ thrown \in BOOLEAN /\ selected \subseteq Values
    BY Zenon
  <2> QED
    BY <2>1, NoRanges, Zenon DEF TypeOK
<1>2. RangesApart
  BY DEF RangesApart, Sorted
<1>3. CallOK /\ LoopOK /\ FilterOK /\ AcceptedTextIsSet
  BY DEF CallOK, LoopOK, FilterOK, AcceptedTextIsSet
<1> QED
  BY <1>1, <1>2, <1>3 DEF RangeFilterIInv

\* The start of a call keeps the invariant if the ranges of a text are straight.
LEMMA BeginKeepsIInv ==
    ASSUME RangeFilterIInv, NEW ranges \in Seq(AnyRange), NEW fromText \in BOOLEAN,
           fromText => \A i \in DOMAIN ranges : ~Reversed(ranges[i]),
           Begin(ranges, fromText)
    PROVE  RangeFilterIInv'
<1> USE DEF RangeFilterIInv, Begin
<1>1. /\ sorted' \in Seq(AnyRange)
      /\ \A i \in DOMAIN sorted' : \E k \in DOMAIN ranges : sorted'[i] = ranges[k]
      /\ \A i, j \in DOMAIN sorted' : i < j => sorted'[i].begin <= sorted'[j].begin
  BY OrderingIsSorted
<1>2. TypeOK'
  <2>1. Len(sorted') \in Nat
    BY <1>1, ElementOfRanges
  <2>2. 1 \in 0 .. Len(sorted') + 1
    BY <2>1
  <2> QED
    BY <1>1, <2>2, NoRanges DEF TypeOK
<1>3. RangesApart'
  BY DEF RangesApart, Sorted
<1>4. CallOK'
  BY <1>1 DEF CallOK
<1>5. LoopOK'
  <2>1. 1 .. 1 - 1 = {}
    OBVIOUS
  <2>2. Covered(merged') = {}
    BY DEF Covered
  <2>3. Merged' = {}
    BY <2>1 DEF Merged
  <2> QED
    BY <2>2, <2>3 DEF LoopOK
<1>6. FilterOK' /\ AcceptedTextIsSet'
  BY <1>1 DEF FilterOK, AcceptedTextIsSet
<1> QED
  BY <1>2, <1>3, <1>4, <1>5, <1>6

\* A turn of the loop keeps the invariant.
LEMMA MergeKeepsIInv ==
    ASSUME RangeFilterIInv, Merge
    PROVE  RangeFilterIInv'
<1> DEFINE range == sorted[position]
           last == Len(merged)
           joined == last # 0 /\ Joins(merged[last], range)
<1>1. /\ position \in DOMAIN sorted /\ ~Reversed(range)
      /\ merged' = IF joined THEN [merged EXCEPT ![last] = Extended(@, range)]
                   ELSE Append(merged, range)
      /\ position' = position + 1
      /\ UNCHANGED <<filter, sorted, parsed, thrown, selected>>
  BY DEF Merge
<1>2. TypeOK /\ RangesApart /\ CallOK /\ LoopOK /\ FilterOK /\ AcceptedTextIsSet
  BY DEF RangeFilterIInv
<1>3. /\ Len(sorted) \in Nat /\ DOMAIN sorted = 1 .. Len(sorted)
      /\ \A i \in 1 .. Len(sorted) : sorted[i].begin \in Nat /\ sorted[i].end \in Nat
      /\ position \in 1 .. Len(sorted) /\ range \in AnyRange
      /\ range.begin \in Nat /\ range.end \in Nat /\ range.begin <= MaxValue
  BY <1>1, <1>2, ElementOfRanges, EndsOfRange DEF TypeOK
<1>4. /\ merged \in Seq(AnyRange) /\ last \in Nat /\ DOMAIN merged = 1 .. last
      /\ \A i \in 1 .. last : merged[i] \in AnyRange
      /\ \A i \in 1 .. last : merged[i].begin \in Nat /\ merged[i].end \in Nat
      /\ \A i \in 1 .. last : merged[i].begin <= merged[i].end
      /\ \A i, j \in 1 .. last : i < j => merged[i].end + 1 < merged[j].begin
      /\ merged = <<>> <=> last = 0
  BY <1>2, ElementOfRanges DEF TypeOK, RangesApart, Sorted, Reversed
<1>5. last # 0 => merged[last].begin <= range.begin
  BY <1>2, <1>3, <1>4 DEF LoopOK
<1>6. Merged' = Merged \union (range.begin .. range.end)
  <2>1. \A i \in 1 .. (position + 1) - 1 : i \in 1 .. position - 1 \/ i = position
    BY <1>3
  <2>2. position \in 1 .. (position + 1) - 1
        /\ \A i \in 1 .. position - 1 : i \in 1 .. (position + 1) - 1
    BY <1>3
  <2> QED
    BY <1>1, <2>1, <2>2 DEF Merged
<1>7. /\ merged' \in Seq(AnyRange)
      /\ Covered(merged') = Covered(merged) \union (range.begin .. range.end)
  <2>1. CASE joined
    <3>1. ~Reversed(merged[last])
      BY <1>4, <2>1 DEF Reversed
    <3>2. merged # <<>>
      BY <1>4, <2>1
    <3> HIDE DEF range
    <3> QED
      BY <1>1, <1>3, <1>4, <1>5, <2>1, <3>1, <3>2, CoveredOfExtended
  <2>2. CASE ~joined
    <3>1. merged' = Append(merged, range)
      BY <1>1, <2>2
    <3>2. merged' \in Seq(AnyRange)
      BY <1>3, <1>4, <3>1
    <3> HIDE DEF range
    <3> QED
      BY <1>3, <1>4, <3>1, <3>2, CoveredOfAppended
  <2> QED
    BY <2>1, <2>2
<1>8. /\ Sorted(merged') /\ merged' # <<>>
      /\ merged'[Len(merged')].begin <= range.begin
  <2>1. CASE joined
    <3> DEFINE x == Extended(merged[last], range)
    <3>0. x \in AnyRange /\ merged # <<>> /\ merged' = [merged EXCEPT ![last] = x]
      BY <1>1, <1>3, <1>4, <2>1 DEF Extended, AnyRange, Larger
    <3>1. /\ Len(merged') = last /\ DOMAIN merged' = 1 .. last
          /\ \A i \in 1 .. last : i # last => merged'[i] = merged[i]
          /\ merged'[last] = Extended(merged[last], range)
      <4> HIDE DEF x
      <4>1. merged'[last] = x
        BY <1>4, <3>0, LastReplaced
      <4>2. /\ Len(merged') = last /\ DOMAIN merged' = 1 .. last
            /\ \A i \in 1 .. last : i # last => merged'[i] = merged[i]
        BY <1>4, <3>0, LastReplaced
      <4> QED
        BY <4>1, <4>2 DEF x
    <3>2. /\ merged'[last].begin = merged[last].begin
          /\ merged'[last].end = Larger(merged[last].end, range.end)
      BY <1>4, <2>1, <3>1 DEF Extended, AnyRange
    <3>3. merged'[last].begin <= merged'[last].end /\ merged'[last].end \in Nat
      BY <1>3, <1>4, <2>1, <3>2 DEF Larger
    <3>4. ASSUME NEW i \in 1 .. last PROVE ~Reversed(merged'[i])
      <4>1. CASE i = last
        <5>1. merged'[last].begin \in Nat
          BY <1>4, <2>1, <3>2
        <5> QED
          BY <3>3, <4>1, <5>1 DEF Reversed
      <4>2. CASE i # last
        <5>1. merged'[i] = merged[i]
          BY <3>1, <4>2
        <5> HIDE DEF last
        <5> QED
          BY <1>4, <5>1 DEF Reversed
      <4> QED
        BY <4>1, <4>2
    <3>5. \A i, j \in 1 .. last : i < j => merged'[i].end + 1 < merged'[j].begin
      <4> TAKE i, j \in 1 .. last
      <4> HAVE i < j
      <4>1. i \in 1 .. last /\ j \in 1 .. last /\ i # last
        <5> HIDE DEF last
        <5> QED
          BY <1>4
      <4>2. merged'[i] = merged[i] /\ merged'[j].begin = merged[j].begin
        BY <3>1, <3>2, <4>1
      <4>3. merged[i].end + 1 < merged[j].begin
        <5> HIDE DEF last, range
        <5> QED
          BY <1>4, <4>1
      <4> QED
        BY <4>2, <4>3
    <3> QED
      BY <1>4, <1>5, <2>1, <3>1, <3>2, <3>4, <3>5 DEF Sorted
  <2>2. CASE ~joined
    <3>1. /\ Len(merged') = last + 1 /\ DOMAIN merged' = 1 .. last + 1
          /\ \A i \in 1 .. last : merged'[i] = merged[i]
          /\ merged'[last + 1] = range
      <4>1. merged' = Append(merged, range)
        BY <1>1, <2>2
      <4> HIDE DEF range
      <4> QED
        BY <1>3, <1>4, <4>1, LastAppended
    <3>2. ASSUME last # 0 PROVE merged[last].end + 1 < range.begin
      <4>1. merged[last].end \in Nat /\ merged[last].end <= MaxValue
        BY <1>4, <3>2, EndsOfRange
      <4>2. ~(range.begin <= merged[last].end) /\ ~Adjoins(merged[last], range)
        BY <2>2, <3>2 DEF Joins
      <4> QED
        BY <1>3, <4>1, <4>2, RangesAssumption DEF Adjoins
    <3>3. \A i \in 1 .. last + 1 : ~Reversed(merged'[i])
      <4> TAKE i \in 1 .. last + 1
      <4>1. i \in 1 .. last \/ i = last + 1
        BY <1>4
      <4>2. CASE i \in 1 .. last
        BY <1>4, <3>1, <4>2 DEF Reversed
      <4>3. CASE i = last + 1
        BY <1>1, <3>1, <4>3
      <4> QED
        BY <4>1, <4>2, <4>3
    <3>4. \A i, j \in 1 .. last + 1 : i < j => merged'[i].end + 1 < merged'[j].begin
      <4> TAKE i, j \in 1 .. last + 1
      <4> HAVE i < j
      <4>1. CASE j # last + 1
        <5> HIDE DEF last, range
        <5>1. i \in 1 .. last /\ j \in 1 .. last
          BY <1>4, <4>1
        <5>2. merged'[i] = merged[i] /\ merged'[j] = merged[j]
          BY <3>1, <5>1
        <5>3. merged[i].end + 1 < merged[j].begin
          BY <1>4, <5>1
        <5> QED
          BY <5>2, <5>3
      <4>2. CASE j = last + 1 /\ i = last
        BY <1>4, <3>1, <3>2, <4>2
      <4>3. CASE j = last + 1 /\ i < last
        <5>1. merged[i].end + 1 < merged[last].begin /\ merged[last].begin <= merged[last].end
          BY <1>4, <4>3
        <5>2. merged'[i] = merged[i] /\ merged'[j] = range
          BY <1>4, <3>1, <4>3
        <5> HIDE DEF range
        <5> QED
          BY <1>3, <1>4, <3>2, <4>3, <5>1, <5>2
      <4>4. i < last + 1 /\ j <= last + 1 /\ i \in Nat /\ j \in Nat /\ last \in Nat
        BY <1>4
      <4> HIDE DEF last
      <4>5. i = last \/ i < last
        BY <4>4
      <4> QED
        BY <4>1, <4>2, <4>3, <4>5
    <3> QED
      BY <1>3, <1>4, <3>1, <3>3, <3>4 DEF Sorted
  <2> QED
    BY <2>1, <2>2
<1>9. TypeOK'
  BY <1>1, <1>2, <1>3, <1>7 DEF TypeOK
<1>10. RangesApart' /\ FilterOK' /\ AcceptedTextIsSet'
  BY <1>1, <1>2, <1>8 DEF RangesApart, FilterOK, AcceptedTextIsSet
<1>11. CallOK'
  BY <1>1, <1>2, <1>3 DEF CallOK
<1>12. LoopOK'
  <2>1. Covered(merged') = Merged'
    BY <1>2, <1>3, <1>6, <1>7 DEF LoopOK
  <2>2. position' # 1 /\ position' > 0
    BY <1>1, <1>3
  <2>3. ASSUME NEW i \in position' .. Len(sorted')
        PROVE  merged'[Len(merged')].begin <= sorted'[i].begin
    <3>1. i \in 1 .. Len(sorted) /\ position < i
      BY <1>1, <1>3
    <3>2. range.begin <= sorted[i].begin
      BY <1>2, <1>3, <3>1 DEF CallOK
    <3>3. merged'[Len(merged')].begin \in Nat
      BY <1>7, <1>8, ElementOfRanges
    <3> QED
      BY <1>1, <1>3, <1>8, <3>1, <3>2, <3>3
  <2> QED
    BY <1>8, <2>1, <2>2, <2>3 DEF LoopOK
<1> QED
  BY <1>9, <1>10, <1>11, <1>12 DEF RangeFilterIInv

\* A refused call keeps the invariant.
LEMMA RefusingKeepsIInv ==
    ASSUME RangeFilterIInv,
           RefuseRange \/ \E text \in Texts : RefuseText(text)
    PROVE  RangeFilterIInv'
<1> USE DEF RangeFilterIInv
<1>1. CASE RefuseRange
  <2> USE <1>1 DEF RefuseRange, Idle
  <2>1. RangesApart'
    BY DEF RangesApart, Sorted
  <2>2. TypeOK'
    <3>1. parsed' \in BOOLEAN /\ thrown' \in BOOLEAN
      BY Zenon
    <3> QED
      BY <3>1, NoRanges, Zenon DEF TypeOK
  <2>3. CallOK' /\ LoopOK' /\ FilterOK' /\ AcceptedTextIsSet'
    BY DEF CallOK, LoopOK, FilterOK, AcceptedTextIsSet
  <2> QED
    BY <2>1, <2>2, <2>3
<1>2. ASSUME NEW text \in Texts, RefuseText(text) PROVE RangeFilterIInv'
  BY <1>2 DEF RefuseText, TypeOK, RangesApart, CallOK, LoopOK, Merged, FilterOK,
              AcceptedTextIsSet
<1> QED
  BY <1>1, <1>2

\* The end of a call keeps the invariant.
LEMMA FinishKeepsIInv ==
    ASSUME RangeFilterIInv, Finish
    PROVE  RangeFilterIInv'
<1> USE DEF RangeFilterIInv, Finish, Idle
<1>1. Len(sorted) \in Nat /\ DOMAIN sorted = 1 .. Len(sorted) /\ (sorted = <<>> <=> Len(sorted) = 0)
  BY ElementOfRanges DEF TypeOK
<1>2. Covered(merged) = Covered(sorted) /\ (merged = <<>> <=> sorted = <<>>)
  <2>1. position > 0 /\ 1 .. position - 1 = DOMAIN sorted
    BY <1>1
  <2>2. Merged = Covered(sorted)
    BY <2>1 DEF Merged, Covered
  <2> QED
    BY <1>1, <2>1, <2>2 DEF LoopOK
<1>3. FilterOK'
  BY <1>2 DEF FilterOK
<1>4. selected' \subseteq Values
  <2>1. Covered(sorted) \subseteq Values
    <3>1. ASSUME NEW i \in DOMAIN sorted PROVE sorted[i].begin .. sorted[i].end \subseteq Values
      <4>1. sorted[i] \in AnyRange
        BY ElementOfRanges DEF TypeOK
      <4> QED
        BY <4>1, EndsOfRange, RangesAssumption DEF Values
    <3> QED
      BY <3>1 DEF Covered
  <2> QED
    BY <2>1
<1>5. TypeOK'
  <2>1. parsed' \in BOOLEAN /\ filter' \in Seq(AnyRange) /\ thrown' \in BOOLEAN
    BY Zenon DEF TypeOK
  <2> QED
    BY <1>4, <2>1, NoRanges, Zenon DEF TypeOK
<1>6. RangesApart'
  BY DEF RangesApart, Sorted
<1>7. CallOK' /\ LoopOK' /\ AcceptedTextIsSet'
  BY DEF CallOK, LoopOK, AcceptedTextIsSet
<1> QED
  BY <1>3, <1>5, <1>6, <1>7

\* The ranges that a call leaves are those it was given, at every step.
THEOREM RangeFilterInvariant == Spec => []RangeFilterIInv
<1>1. Init => RangeFilterIInv
  BY InitialIInv
<1>2. RangeFilterIInv /\ [Next]_vars => RangeFilterIInv'
  <2> SUFFICES ASSUME RangeFilterIInv, [Next]_vars PROVE RangeFilterIInv'
    OBVIOUS
  <2>1. ASSUME NEW ranges \in Arguments, SetRanges(ranges) PROVE RangeFilterIInv'
    BY <2>1, FilterAssumption, BeginKeepsIInv DEF SetRanges
  <2>2. ASSUME NEW text \in Texts, SetParsed(text) PROVE RangeFilterIInv'
    BY <2>2, ParsedIsStraight, BeginKeepsIInv DEF SetParsed
  <2>3. ASSUME NEW text \in Texts, RefuseText(text) PROVE RangeFilterIInv'
    BY <2>3, RefusingKeepsIInv
  <2>4. CASE Merge
    BY <2>4, MergeKeepsIInv
  <2>5. CASE RefuseRange
    BY <2>5, RefusingKeepsIInv
  <2>6. CASE Finish
    BY <2>6, FinishKeepsIInv
  <2>7. CASE UNCHANGED vars
    BY <2>7 DEF vars, RangeFilterIInv, TypeOK, RangesApart, CallOK, LoopOK, Merged, FilterOK,
                AcceptedTextIsSet
  <2> QED
    BY <2>1, <2>2, <2>3, <2>4, <2>5, <2>6, <2>7 DEF Next
<1> QED
  BY <1>1, <1>2, PTL DEF Spec

-----------------------------------------------------------------------------
(* Results *)

\* Ranges keep their types and the loop its place, for arguments of any length.
THEOREM TypeCorrect == Spec => []TypeOK
<1>1. RangeFilterIInv => TypeOK
  BY DEF RangeFilterIInv
<1> QED
  BY <1>1, RangeFilterInvariant, PTL

\* The ranges of a filter, and those of the loop at every turn, are in order and apart.
THEOREM RangesStayApart == Spec => []RangesApart
<1>1. RangeFilterIInv => RangesApart
  BY DEF RangeFilterIInv
<1> QED
  BY <1>1, RangeFilterInvariant, PTL

\* contains() answers for the union of the ranges asked for.
THEOREM ContainsIsExact == Spec => []ContainsIsMembership
<1>1. RangeFilterIInv => ContainsIsMembership
  <2> SUFFICES ASSUME RangeFilterIInv, NEW v \in Values
               PROVE  Contains(filter, v) <=> v \in selected
    BY DEF ContainsIsMembership
  <2>1. filter \in Seq(AnyRange) /\ Sorted(filter) /\ v \in Nat
    BY RangesAssumption DEF RangeFilterIInv, TypeOK, RangesApart, Values
  <2>2. CASE filter = <<>>
    BY <2>2 DEF RangeFilterIInv, FilterOK, Contains
  <2>3. CASE filter # <<>>
    BY <2>1, <2>3, ContainsFindsIt DEF RangeFilterIInv, FilterOK
  <2> QED
    BY <2>2, <2>3
<1> QED
  BY <1>1, RangeFilterInvariant, PTL

\* intersects() answers for the union of the ranges asked for.
THEOREM IntersectsIsExact == Spec => []IntersectsIsOverlap
<1>1. RangeFilterIInv => IntersectsIsOverlap
  <2> SUFFICES ASSUME RangeFilterIInv, NEW b \in Values, NEW e \in Values
               PROVE  Intersects(filter, b, e) <=> filter = <<>> \/ b .. e \cap selected # {}
    BY DEF IntersectsIsOverlap
  <2>1. filter \in Seq(AnyRange) /\ Sorted(filter) /\ b \in Nat /\ e \in Nat
    BY RangesAssumption DEF RangeFilterIInv, TypeOK, RangesApart, Values
  <2>2. CASE filter = <<>>
    BY <2>2 DEF Intersects
  <2>3. CASE filter # <<>>
    <3>1. selected = Covered(filter)
      BY <2>3 DEF RangeFilterIInv, FilterOK
    <3> QED
      BY <2>1, <2>3, <3>1, IntersectsFindsIt
  <2> QED
    BY <2>2, <2>3
<1> QED
  BY <1>1, RangeFilterInvariant, PTL

\* A text that is accepted is never refused as ranges.
THEOREM AcceptedTextsAreSet == Spec => []AcceptedTextIsSet
<1>1. RangeFilterIInv => AcceptedTextIsSet
  BY DEF RangeFilterIInv
<1> QED
  BY <1>1, RangeFilterInvariant, PTL
=============================================================================
