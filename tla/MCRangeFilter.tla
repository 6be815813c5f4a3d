---------------------------- MODULE MCRangeFilter ----------------------------
(***************************************************************************)
(* A filter of small numbers: up to three ranges at a time in any order,   *)
(* reversed ones among them, and texts with numbers that are too large,    *)
(* missing or one too many.  A call is made on every filter that the calls *)
(* before it can leave.                                                    *)
(***************************************************************************)
EXTENDS RangeFilter

CONSTANT NoNumber  \* a part that spells no number

SequencesUpTo(n, S) == UNION {[1 .. k -> S] : k \in 0 .. n}

Straight == {range \in AnyRange : ~Reversed(range)}

FilterArguments == SequencesUpTo(2, AnyRange) \union [1 .. 3 -> Straight]

Parts == {0, 2, MaxValue, MaxValue + 1, NoNumber}
Tokens == UNION {[1 .. k -> Parts] : k \in 1 .. 2} \union {<<0, 2, MaxValue>>}

FilterTexts == SequencesUpTo(1, Tokens) \union {<<t, <<2>>>> : t \in Tokens}
=============================================================================
