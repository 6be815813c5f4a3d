----------------------------- MODULE RangeFilter -----------------------------
(***************************************************************************)
(* RangeFilter<T>: setRanges sorts the ranges it is given, merges them in  *)
(* one pass into a new vector, and replaces the filter's vector only after *)
(* the pass, so that a range found to be reversed leaves the filter alone. *)
(* One step is one turn of the loop of normalizeRanges.                    *)
(***************************************************************************)
EXTENDS Ranges

CONSTANTS
    Arguments,  \* the sequences of ranges callers pass to setRanges
    Texts       \* the texts parseTickRanges and parseAddressRanges are given

\* A text is a sequence of sequences; nothing is assumed of the parts.
ASSUME FilterAssumption ==
    /\ Arguments \subseteq Seq(AnyRange)
    /\ \A text \in Texts :
          /\ Len(text) \in Nat /\ DOMAIN text = 1 .. Len(text)
          /\ \A i \in DOMAIN text :
                Len(text[i]) \in Nat /\ DOMAIN text[i] = 1 .. Len(text[i])

VARIABLES
    filter,    \* ranges_
    sorted,    \* the argument of the call in progress, sorted
    position,  \* the range the loop is at; 0 when no call is in progress
    merged,    \* the vector the loop builds
    parsed,    \* the argument of the call in progress comes from a text
    thrown,    \* the last call threw
    selected   \* history: the numbers the filter was last asked to select

vars == <<filter, sorted, position, merged, parsed, thrown, selected>>

TypeOK ==
    /\ filter \in Seq(AnyRange)
    /\ sorted \in Seq(AnyRange)
    /\ merged \in Seq(AnyRange)
    /\ position \in 0 .. Len(sorted) + 1
    /\ parsed \in BOOLEAN
    /\ thrown \in BOOLEAN
    /\ selected \subseteq Values

Init ==
    /\ filter = <<>>
    /\ sorted = <<>> /\ position = 0 /\ merged = <<>>
    /\ parsed = FALSE /\ thrown = FALSE
    /\ selected = Values

(***************************************************************************)
(* The start of a call.  Ranges that are equal may change places.          *)
(***************************************************************************)
Shuffles(D) == {p \in [D -> D] : \A i \in D : \E j \in D : p[j] = i}

Orderings(ranges) ==
    {s \in {[i \in DOMAIN ranges |-> ranges[p[i]]] : p \in Shuffles(DOMAIN ranges)} :
        \A i, j \in DOMAIN s : i < j => ~Before(s[j], s[i])}

Begin(ranges, fromText) ==
    /\ position = 0
    /\ sorted' \in Orderings(ranges)
    /\ position' = 1
    /\ merged' = <<>>
    /\ parsed' = fromText
    /\ thrown' = FALSE
    /\ UNCHANGED <<filter, selected>>

SetRanges(ranges) == Begin(ranges, FALSE)

SetParsed(text) == Accepted(text) /\ Begin(Parsed(text), TRUE)

\* The parser throws before the filter is touched.
RefuseText(text) ==
    /\ position = 0
    /\ ~Accepted(text)
    /\ thrown' = TRUE
    /\ UNCHANGED <<filter, sorted, position, merged, parsed, selected>>

(***************************************************************************)
(* The loop.                                                               *)
(***************************************************************************)
Larger(m, n) == IF m < n THEN n ELSE m

\* 1-3 and 4-5 select what 1-5 selects; nothing is next to the largest number.
Adjoins(previous, range) ==
    previous.end # MaxValue /\ range.begin = previous.end + 1

\* Mutant: a range that begins where the previous one ends stays on its own.
JoinsOffByOne(previous, range) ==
    range.begin < previous.end \/ Adjoins(previous, range)

Joins(previous, range) ==
    range.begin <= previous.end \/ Adjoins(previous, range)

\* Mutant: forgets that a range may lie inside the previous one.
ExtendedToLast(previous, range) == [previous EXCEPT !.end = range.end]

\* Mutant: takes the end for the first number after the range.
ExtendedPast(previous, range) ==
    [previous EXCEPT !.end = Larger(previous.end, range.end + 1)]

Extended(previous, range) ==
    [previous EXCEPT !.end = Larger(previous.end, range.end)]

Merge ==
    /\ position \in DOMAIN sorted
    /\ LET range == sorted[position]
           last  == Len(merged)
       IN /\ ~Reversed(range)
          /\ merged' = IF last # 0 /\ Joins(merged[last], range)
                       THEN [merged EXCEPT ![last] = Extended(@, range)]
                       ELSE Append(merged, range)
    /\ position' = position + 1
    /\ UNCHANGED <<filter, sorted, parsed, thrown, selected>>

Idle == position' = 0 /\ sorted' = <<>> /\ merged' = <<>> /\ parsed' = FALSE

RefuseRange ==
    /\ position \in DOMAIN sorted
    /\ Reversed(sorted[position])
    /\ thrown' = TRUE
    /\ Idle
    /\ UNCHANGED <<filter, selected>>

Finish ==
    /\ position = Len(sorted) + 1
    /\ filter' = merged
    /\ selected' = IF sorted = <<>> THEN Values ELSE Covered(sorted)
    /\ Idle
    /\ UNCHANGED thrown

Next ==
    \/ \E ranges \in Arguments : SetRanges(ranges)
    \/ \E text \in Texts : SetParsed(text) \/ RefuseText(text)
    \/ Merge \/ RefuseRange \/ Finish

Spec == Init /\ [][Next]_vars

(***************************************************************************)
(* Properties.                                                             *)
(***************************************************************************)
\* The binary searches of contains and intersects look at one range only, the
\* last that begins early enough: the ranges must be in order, and a number
\* must lie between any two.
RangesApart == Sorted(filter) /\ Sorted(merged)

\* contains() is membership in the ranges of the last setRanges that did not
\* throw, however they overlap, touch or repeat; without ranges, every number.
ContainsIsMembership == \A v \in Values : Contains(filter, v) <=> v \in selected

\* intersects() says whether a range has a number in common with the ranges
\* asked for, wherever it begins and ends; a reversed range only has one if
\* nothing was asked for.
IntersectsIsOverlap ==
    \A b, e \in Values :
        Intersects(filter, b, e) <=>
            filter = <<>> \/ b .. e \cap selected # {}

\* parseRanges lets no text through that normalizeRanges would throw for, so
\* that an accepted option never fails when main() passes it to the emulator.
AcceptedTextIsSet == parsed => \A i \in DOMAIN sorted : ~Reversed(sorted[i])
=============================================================================
