------------------------------- MODULE Ranges -------------------------------
(***************************************************************************)
(* Ranges of ticks or of addresses: the questions RangeFilter<T> answers   *)
(* by binary search, and the text of the options that give the ranges.     *)
(* T holds the numbers 0 .. MaxValue.                                      *)
(***************************************************************************)
EXTENDS Naturals, Sequences

CONSTANT
    MaxValue  \* std::numeric_limits<T>::max()

ASSUME RangesAssumption == MaxValue \in Nat

Values == 0 .. MaxValue

\* Nothing in the type keeps begin from being the larger number.
AnyRange == [begin : Values, end : Values]

Reversed(range) == range.begin > range.end

\* The order std::sort is asked for.
Before(r, s) == r.begin < s.begin \/ (r.begin = s.begin /\ r.end < s.end)

\* What a sequence of ranges selects.
Covered(ranges) == UNION {ranges[i].begin .. ranges[i].end : i \in DOMAIN ranges}

\* What setRanges makes of the ranges it is given: a number lies between any two.
Sorted(ranges) ==
    /\ \A i \in DOMAIN ranges : ~Reversed(ranges[i])
    /\ \A i, j \in DOMAIN ranges : i < j => ranges[i].end + 1 < ranges[j].begin

(***************************************************************************)
(* Queries.                                                                *)
(***************************************************************************)
\* std::upper_bound: the first range that begins after value.
UpperBound(ranges, value) ==
    CHOOSE i \in 1 .. Len(ranges) + 1 :
        /\ \A j \in 1 .. i - 1 : ranges[j].begin <= value
        /\ i <= Len(ranges) => value < ranges[i].begin

Contains(ranges, value) ==
    \/ ranges = <<>>
    \/ LET next == UpperBound(ranges, value)
       IN next # 1 /\ value <= ranges[next - 1].end

\* Mutant: looks for the last range that begins before the questioned one.
IntersectsFromBegin(ranges, begin, end) ==
    \/ ranges = <<>>
    \/ /\ begin <= end
       /\ LET next == UpperBound(ranges, begin)
          IN next # 1 /\ begin <= ranges[next - 1].end

Intersects(ranges, begin, end) ==
    \/ ranges = <<>>
    \/ /\ begin <= end
       /\ LET next == UpperBound(ranges, end)
          IN next # 1 /\ begin <= ranges[next - 1].end

(***************************************************************************)
(* A text is the sequence of its tokens, between commas, and a token is    *)
(* the sequence of its parts, between dashes.  A part is the number it     *)
(* spells, which may be too large, or no number (it may be empty).         *)
(***************************************************************************)
IsRange(token) ==
    /\ Len(token) \in {1, 2}
    /\ \A i \in DOMAIN token : token[i] \in Values

\* Mutant: accepts a range whose ends are swapped.
AcceptedReversed(text) ==
    text # <<>> /\ \A i \in DOMAIN text : IsRange(text[i])

Accepted(text) ==
    /\ text # <<>>
    /\ \A i \in DOMAIN text :
          IsRange(text[i]) /\ text[i][1] <= text[i][Len(text[i])]

Parsed(text) ==
    [i \in DOMAIN text |-> [begin |-> text[i][1], end |-> text[i][Len(text[i])]]]
=============================================================================
