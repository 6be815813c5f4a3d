----------------------------- MODULE LexerProofs -----------------------------
(***************************************************************************)
(* What TLAPS proves about Lexer for every set of texts.                   *)
(***************************************************************************)
EXTENDS Lexer, FiniteSetTheorems, SequenceTheorems, TLAPS

-----------------------------------------------------------------------------
(* Characters *)

SmallLetters ==
    {"a", "b", "c", "d", "e", "f", "g", "h", "i", "j", "k", "l", "m",
     "n", "o", "p", "q", "r", "s", "t", "u", "v", "w", "x", "y", "z"}
BigLetters ==
    {"A", "B", "C", "D", "E", "F", "G", "H", "I", "J", "K", "L", "M",
     "N", "O", "P", "Q", "R", "S", "T", "U", "V", "W", "X", "Y", "Z"}

\* The characters that end a run, or a line.
Ends == Blanks \union {LineFeed, CarriageReturn, Nul}

\* The letters and the hexadecimal digits, as sets.
LEMMA LettersAre ==
    /\ Range(LowerLetters) \subseteq SmallLetters
    /\ Range(UpperLetters) \subseteq BigLetters
    /\ Range(HexDigits) \subseteq Digits \union BigLetters
<1>1. DOMAIN LowerLetters = 1 .. 26 /\ DOMAIN UpperLetters = 1 .. 26 /\ DOMAIN HexDigits = 1 .. 16
  BY DEF LowerLetters, UpperLetters, HexDigits
<1>2. Range(LowerLetters) \subseteq SmallLetters
  <2>1. \A k \in 1 .. 26 : LowerLetters[k] \in SmallLetters
    BY DEF LowerLetters, SmallLetters
  <2> QED
    BY <1>1, <2>1 DEF Range
<1>3. Range(UpperLetters) \subseteq BigLetters
  <2>1. \A k \in 1 .. 26 : UpperLetters[k] \in BigLetters
    BY DEF UpperLetters, BigLetters
  <2> QED
    BY <1>1, <2>1 DEF Range
<1>4. Range(HexDigits) \subseteq Digits \union BigLetters
  <2>1. \A k \in 1 .. 16 : HexDigits[k] \in Digits \union BigLetters
    BY DEF HexDigits, Digits, BigLetters
  <2> QED
    BY <1>1, <2>1 DEF Range
<1> QED
  BY <1>2, <1>3, <1>4

\* No blank, no end of line and no end of the text is a letter or a digit.
LEMMA EndsApart ==
    \A c \in Ends : c \notin SmallLetters \union BigLetters \union Digits
BY Zenon DEF Ends, Blanks, LineFeed, CarriageReturn, Nul, SmallLetters, BigLetters, Digits

\* The characters that the lexer looks for are different ones.
LEMMA Apart ==
    /\ {LineFeed, CarriageReturn, Nul, Comment, "0", "x", "X"} \cap Blanks = {}
    /\ \A c \in Ends : c # Comment /\ c # "0" /\ c # "x" /\ c # "X"
    /\ LineFeed # CarriageReturn /\ LineFeed # Nul /\ CarriageReturn # Nul /\ Comment # "0"
BY Zenon DEF Ends, Blanks, LineFeed, CarriageReturn, Nul, Comment

\* A letter starts neither a number, nor a comment, nor a line break.
LEMMA LettersApart ==
    \A c \in Letters : c \notin Ends /\ c # "0" /\ c # Comment
<1>1. Letters \subseteq SmallLetters \union BigLetters
  BY LettersAre DEF Letters
<1>2. \A c \in SmallLetters \union BigLetters : c # "0" /\ c # Comment
  BY DEF SmallLetters, BigLetters, Comment
<1> QED
  BY <1>1, <1>2, EndsApart

\* Where a run of characters ends there is no hexadecimal digit.
LEMMA EndsAreNoDigits == \A c \in Ends : ~IsHexDigit(c)
BY EndsApart, LettersAre DEF IsHexDigit, ToUpper
-----------------------------------------------------------------------------
(* Positions *)

\* A nonempty set of naturals has a least element.
LEMMA LeastOf ==
    ASSUME NEW S \in SUBSET Nat, S # {}
    PROVE  \E k \in S : \A j \in S : k <= j
<1>1. PICK k \in S : \A j \in S : <<j, k>> \notin OpToRel(<, Nat)
  BY NatLessThanWellFounded, WFMin, Zenon
<1>2. \A j \in S : j \in Nat /\ k \in Nat /\ ~(j < k)
  BY <1>1 DEF OpToRel
<1> QED
  BY <1>2

\* Min and Max are the least and the greatest element.
LEMMA MinIsLeast ==
    ASSUME NEW S \in SUBSET Nat, S # {}
    PROVE  Min(S) \in S /\ \A j \in S : Min(S) <= j
<1>1. \E k \in S : \A j \in S : k <= j
  BY LeastOf
<1> QED
  BY <1>1 DEF Min

LEMMA MaxIsGreatest ==
    ASSUME NEW n \in Nat, NEW S \in SUBSET (1 .. n), S # {}
    PROVE  Max(S) \in S /\ \A j \in S : j <= Max(S)
<1> DEFINE T == {d \in 0 .. n : n - d \in S}
<1>1. PICK k \in S : TRUE
  OBVIOUS
<1>2. n - k \in T
  OBVIOUS
<1>3. PICK d \in T : \A j \in T : d <= j
  <2>1. T \in SUBSET Nat
    OBVIOUS
  <2>2. T # {}
    BY <1>2
  <2> HIDE DEF T
  <2> QED
    BY <2>1, <2>2, LeastOf
<1>4. n - d \in S /\ \A j \in S : j <= n - d
  <2>1. \A j \in S : n - j \in T
    OBVIOUS
  <2>2. d \in Nat /\ n - d \in S
    BY <1>3
  <2>3. \A j \in S : d <= n - j
    BY <1>3, <2>1
  <2> QED
    BY <2>2, <2>3
<1>5. \E m \in S : \A j \in S : m >= j
  BY <1>4
<1>6. Max(S) \in S /\ \A j \in S : Max(S) >= j
  BY <1>5, Zenon DEF Max
<1> QED
  BY <1>6

\* The positions of a text.
LEMMA Positions ==
    ASSUME text \in Seq(STRING)
    PROVE  Len(text) \in Nat /\ DOMAIN text = 1 .. Len(text)
OBVIOUS

\* The search for a position finds the first one, or the end of the text.
LEMMA FirstFromFinds ==
    ASSUME text \in Seq(STRING), NEW k \in 1 .. Len(text) + 1,
           NEW P \in SUBSET DOMAIN text
    PROVE  /\ FirstFrom(k, P) \in k .. Len(text) + 1
           /\ FirstFrom(k, P) \in P \/ FirstFrom(k, P) = Len(text) + 1
           /\ \A j \in P : j >= k => FirstFrom(k, P) <= j
<1> DEFINE S == {j \in P : j >= k} \union {Len(text) + 1}
<1>1. S \in SUBSET Nat /\ S # {} /\ \A j \in S : j \in k .. Len(text) + 1
  BY Positions
<1>2. Min(S) \in S /\ \A j \in S : Min(S) <= j
  BY <1>1, MinIsLeast
<1>3. FirstFrom(k, P) = Min(S)
  BY DEF FirstFrom
<1> QED
  BY <1>1, <1>2, <1>3

\* A position that nothing comes before is the one that the search finds.
LEMMA FirstFromIs ==
    ASSUME text \in Seq(STRING), NEW k \in 1 .. Len(text) + 1,
           NEW P \in SUBSET DOMAIN text, NEW e \in k .. Len(text) + 1,
           e \in P \/ e = Len(text) + 1, \A j \in k .. e - 1 : j \notin P
    PROVE  FirstFrom(k, P) = e
<1>1. /\ FirstFrom(k, P) \in k .. Len(text) + 1
      /\ FirstFrom(k, P) \in P \/ FirstFrom(k, P) = Len(text) + 1
      /\ \A j \in P : j >= k => FirstFrom(k, P) <= j
  BY FirstFromFinds
<1>2. Len(text) \in Nat
  BY Positions
<1>3. ~(FirstFrom(k, P) < e)
  BY <1>1, <1>2
<1> QED
  BY <1>1, <1>2, <1>3

-----------------------------------------------------------------------------
(* Lines *)

LEMMA LineFeedsFinite ==
    ASSUME NEW k \in Nat
    PROVE  /\ LineFeedsBefore(k) \in SUBSET (1 .. k) /\ IsFiniteSet(LineFeedsBefore(k))
           /\ LineFeedsBefore(k) # {} => Max(LineFeedsBefore(k)) \in Int
           /\ LineOf(k) \in Nat
           /\ ColumnOf(k) \in Int
<1>1. LineFeedsBefore(k) \in SUBSET (1 .. k)
  BY DEF LineFeedsBefore
<1>2. IsFiniteSet(LineFeedsBefore(k))
  BY <1>1, FS_Interval, FS_Subset
<1>3. Cardinality(LineFeedsBefore(k)) \in Nat
  BY <1>2, FS_CardinalityType
<1>4. ASSUME LineFeedsBefore(k) # {} PROVE Max(LineFeedsBefore(k)) \in Int
  <2>1. Max(LineFeedsBefore(k)) \in LineFeedsBefore(k)
    BY <1>1, <1>4, MaxIsGreatest, Zenon
  <2> QED
    BY <1>1, <2>1
<1> QED
  BY <1>1, <1>2, <1>3, <1>4 DEF LineOf, ColumnOf

\* Over characters that are no line feed the line stays and the column moves along.
LEMMA LineGoesOn ==
    ASSUME NEW a \in Nat \ {0}, NEW b \in Nat, a <= b,
           \A j \in a .. b - 1 : text[j] # LineFeed
    PROVE  LineOf(b) = LineOf(a) /\ ColumnOf(b) = ColumnOf(a) + (b - a)
<1>1. LineFeedsBefore(b) = LineFeedsBefore(a)
  BY DEF LineFeedsBefore
<1>2. LineFeedsBefore(a) # {} => Max(LineFeedsBefore(a)) \in Int
  BY LineFeedsFinite
<1> QED
  BY <1>1, <1>2 DEF LineOf, ColumnOf

\* Behind a line feed a new line begins.
LEMMA LineBegins ==
    ASSUME NEW k \in Nat \ {0}, text[k] = LineFeed
    PROVE  LineOf(k + 1) = LineOf(k) + 1 /\ ColumnOf(k + 1) = 1
<1>1. LineFeedsBefore(k + 1) = LineFeedsBefore(k) \union {k} /\ k \notin LineFeedsBefore(k)
  BY DEF LineFeedsBefore
<1>2. IsFiniteSet(LineFeedsBefore(k)) /\ LineFeedsBefore(k + 1) \in SUBSET (1 .. k + 1)
  BY LineFeedsFinite
<1>3. Cardinality(LineFeedsBefore(k + 1)) = Cardinality(LineFeedsBefore(k)) + 1
      /\ Cardinality(LineFeedsBefore(k)) \in Nat
  BY <1>1, <1>2, FS_AddElement, FS_CardinalityType
<1>4. Max(LineFeedsBefore(k + 1)) = k
  <2>1. \A j \in LineFeedsBefore(k + 1) : j <= k
    BY DEF LineFeedsBefore
  <2>2. /\ Max(LineFeedsBefore(k + 1)) \in LineFeedsBefore(k + 1)
        /\ \A j \in LineFeedsBefore(k + 1) : j <= Max(LineFeedsBefore(k + 1))
    <3>1. k + 1 \in Nat /\ LineFeedsBefore(k + 1) # {}
      BY <1>1
    <3> QED
      BY <1>2, <3>1, MaxIsGreatest, Zenon
  <2> QED
    BY <1>1, <1>2, <2>1, <2>2
<1> QED
  BY <1>1, <1>3, <1>4 DEF LineOf, ColumnOf

\* The line of a position is not before the line of an earlier one.
LEMMA LinesInOrder ==
    ASSUME NEW a \in Nat, NEW b \in Nat, a <= b
    PROVE  LineOf(a) <= LineOf(b)
<1>1. LineFeedsBefore(a) \subseteq LineFeedsBefore(b)
  BY DEF LineFeedsBefore
<1>2. IsFiniteSet(LineFeedsBefore(a)) /\ IsFiniteSet(LineFeedsBefore(b))
  BY LineFeedsFinite
<1>3. Cardinality(LineFeedsBefore(a)) <= Cardinality(LineFeedsBefore(b))
  BY <1>1, <1>2, FS_Subset
<1>4. Cardinality(LineFeedsBefore(a)) \in Nat /\ Cardinality(LineFeedsBefore(b)) \in Nat
  BY <1>2, FS_CardinalityType
<1> QED
  BY <1>3, <1>4 DEF LineOf
-----------------------------------------------------------------------------
(* Runs and line breaks *)

\* What separates runs, said in the lexer's words.
LEMMA SpaceIs ==
    ASSUME text \in Seq(STRING), NEW k \in DOMAIN text
    PROVE  /\ IsSpace(k) <=> text[k] \in Blanks \/ NewLineAt(k)
           /\ SeparatorAt(k) <=> IsSpace(k) \/ text[k] = Nul
           /\ SeparatorAt(k) => text[k] \in Ends
           /\ StartsBreak(k) => NewLineAt(k)
           /\ NewLineAt(k) => text[k] \in {LineFeed, CarriageReturn}
           /\ text[k] = LineFeed => NewLineAt(k)
BY DEF IsSpace, NewLineAt, SeparatorAt, StartsBreak, At, Ends

LEMMA SeparatorsEndRuns ==
    ASSUME text \in Seq(STRING)
    PROVE  {j \in DOMAIN text : IsSpace(j) \/ text[j] = Nul} = Separators
BY SpaceIs DEF Separators

\* Behind the text there is nothing.
LEMMA BehindTheText ==
    ASSUME text \in Seq(STRING)
    PROVE  SeparatorAt(Len(text) + 1) /\ ~NewLineAt(Len(text) + 1)
<1>1. Len(text) + 1 \notin DOMAIN text
  BY Positions
<1>2. At(Len(text) + 1) = Nul
  BY <1>1 DEF At
<1> QED
  BY <1>2, Apart DEF SeparatorAt, NewLineAt

\* A blank is no item, and neither is a character inside a run.
LEMMA BlankIsNoItem ==
    ASSUME text \in Seq(STRING), NEW k \in DOMAIN text, text[k] \in Blanks
    PROVE  k \notin Items /\ ~StartsRun(k)
<1>1. IsSpace(k) /\ ~StartsBreak(k)
  BY Apart, SpaceIs DEF IsSpace, StartsBreak
<1> QED
  BY <1>1 DEF Items, StartsRun

LEMMA InsideIsNoItem ==
    ASSUME text \in Seq(STRING), NEW k \in DOMAIN text, k - 1 \in DOMAIN text,
           ~SeparatorAt(k - 1), ~SeparatorAt(k)
    PROVE  k \notin Items /\ ~StartsRun(k)
<1>1. /\ ~IsSpace(k) /\ text[k] # Nul /\ ~StartsBreak(k)
      /\ ~IsSpace(k - 1) /\ text[k - 1] # Nul
  BY SpaceIs
<1>2. k # 1
  BY Positions
<1> QED
  BY <1>1, <1>2 DEF Items, StartsRun

-----------------------------------------------------------------------------
(* Where the lexer stands between two turns *)

\* A run or a line break may begin here.
AtBoundary(k) ==
    \/ k = 1 \/ k = Len(text) + 1
    \/ IsSpace(k) \/ IsSpace(k - 1) \/ text[k] = Nul

\* Not between CR and LF.
BreakWhole(k) == k \in 2 .. Len(text) /\ text[k] = LineFeed => text[k - 1] # CarriageReturn

StartsComment(k) == StartsRun(k) /\ text[k] = Comment

\* A comment before this position ends before it, or here.
CommentsClosed(k) ==
    \/ k = Len(text) + 1 \/ NewLineAt(k)
    \/ \A j \in 1 .. k - 1 : StartsComment(j) => LineOf(j) # LineOf(k)

Between(k) == AtBoundary(k) /\ BreakWhole(k) /\ CommentsClosed(k)

\* What begins where the lexer stands, behind the blanks.
LEMMA ItemBegins ==
    ASSUME text \in Seq(STRING), NEW b \in DOMAIN text, Between(b), text[b] \notin Blanks
    PROVE  /\ NewLineAt(b) => StartsBreak(b) /\ b \in Items
           /\ ~NewLineAt(b) => StartsRun(b) /\ ~StartsBreak(b)
           /\ ~NewLineAt(b) /\ text[b] # Comment => b \in Items
<1>1. b \in Nat /\ b >= 1 /\ b <= Len(text) /\ Len(text) \in Nat
  BY Positions
<1>2. ASSUME NewLineAt(b) PROVE StartsBreak(b) /\ b \in Items
  <2>1. text[b] = LineFeed \/ (text[b] = CarriageReturn /\ At(b + 1) = LineFeed)
    BY <1>2 DEF NewLineAt, At
  <2>2. StartsBreak(b)
    BY <1>1, <2>1 DEF StartsBreak, Between, BreakWhole
  <2> QED
    BY <2>2 DEF Items
<1>3. ASSUME ~NewLineAt(b) PROVE StartsRun(b) /\ ~StartsBreak(b)
  <2>1. ~IsSpace(b) /\ ~StartsBreak(b)
    BY <1>3, SpaceIs
  <2>2. b = 1 \/ IsSpace(b - 1) \/ text[b] = Nul
    BY <1>1, <2>1 DEF Between, AtBoundary
  <2> QED
    BY <2>1, <2>2 DEF StartsRun
<1>4. ASSUME ~NewLineAt(b), text[b] # Comment PROVE b \in Items
  <2>1. \A j \in 1 .. b - 1 : StartsComment(j) => LineOf(j) # LineOf(b)
    BY <1>1, <1>4 DEF Between, CommentsClosed
  <2>2. ~Commented(b)
    BY <1>1, <1>4, <2>1 DEF Commented, StartsComment
  <2> QED
    BY <1>3, <1>4, <2>2 DEF Items
<1> QED
  BY <1>2, <1>3, <1>4

-----------------------------------------------------------------------------
(* What the lexer passes *)

\* From a to b there is no item, and the line goes on.
NothingBetween(a, b) ==
    /\ ItemsBefore(b) = ItemsBefore(a)
    /\ LineOf(b) = LineOf(a) /\ ColumnOf(b) = ColumnOf(a) + (b - a)

LEMMA BlanksPassed ==
    ASSUME text \in Seq(STRING), NEW a \in 1 .. Len(text) + 1, Between(a),
           NEW b, b = FirstFrom(a, {k \in DOMAIN text : text[k] \notin Blanks})
    PROVE  /\ b \in a .. Len(text) + 1
           /\ b \in DOMAIN text => text[b] \notin Blanks
           /\ Between(b) /\ NothingBetween(a, b)
<1> DEFINE P == {k \in DOMAIN text : text[k] \notin Blanks}
<1>1. Len(text) \in Nat /\ DOMAIN text = 1 .. Len(text)
  BY Positions
<1>2. /\ b \in a .. Len(text) + 1
      /\ b \in P \/ b = Len(text) + 1
      /\ \A j \in P : j >= a => b <= j
  BY FirstFromFinds
<1>3. ASSUME NEW j \in a .. b - 1 PROVE j \in DOMAIN text /\ text[j] \in Blanks
  <2>1. j \in 1 .. Len(text) /\ j >= a /\ ~(b <= j)
    BY <1>1, <1>2
  <2>2. j \notin P
    BY <1>2, <2>1
  <2> QED
    BY <1>1, <2>1, <2>2
<1>4. \A j \in a .. b - 1 : j \notin Items /\ ~StartsRun(j)
  BY <1>3, BlankIsNoItem
<1>5. \A j \in a .. b - 1 : text[j] # LineFeed /\ text[j] # CarriageReturn /\ IsSpace(j) /\ ~NewLineAt(j)
  BY <1>3, Apart, SpaceIs
<1>6. LineOf(b) = LineOf(a) /\ ColumnOf(b) = ColumnOf(a) + (b - a)
  BY <1>1, <1>2, <1>5, LineGoesOn
<1>7. ItemsBefore(b) = ItemsBefore(a)
  <2>1. \A k \in Items : k \in Nat
    BY <1>1 DEF Items
  <2>2. \A k \in Items : k < b <=> k < a
    BY <1>1, <1>2, <1>4, <2>1
  <2> QED
    BY <2>2 DEF ItemsBefore
<1>8. CASE b = a
  BY <1>1, <1>2, <1>6, <1>7, <1>8 DEF NothingBetween
<1>9. CASE b # a
  <2>1. a \in a .. b - 1 /\ b - 1 \in a .. b - 1
    BY <1>1, <1>2, <1>9
  <2>2. AtBoundary(b) /\ BreakWhole(b)
    BY <1>5, <2>1 DEF AtBoundary, BreakWhole
  <2>3. \A j \in 1 .. a - 1 : StartsComment(j) => LineOf(j) # LineOf(a)
    BY <1>1, <1>3, <1>5, <2>1 DEF Between, CommentsClosed
  <2>4. \A j \in 1 .. b - 1 : StartsComment(j) => LineOf(j) # LineOf(b)
    BY <1>1, <1>2, <1>4, <1>6, <2>3 DEF StartsComment
  <2> QED
    BY <1>1, <1>2, <1>6, <1>7, <2>2, <2>4 DEF NothingBetween, Between, CommentsClosed
<1> QED
  BY <1>8, <1>9

\* A run that is no comment is one item, however the lexer comes to its end.
LEMMA RunPassed ==
    ASSUME text \in Seq(STRING), NEW b \in DOMAIN text, Between(b), b \in Items,
           text[b] # Comment, NEW e \in b + 1 .. Len(text) + 1,
           \A j \in b .. e - 1 : ~SeparatorAt(j),
           SeparatorAt(e)
    PROVE  /\ RunAt(b) = SubSeq(text, b, e - 1)
           /\ Between(e)
           /\ ItemsBefore(e) = ItemsBefore(b) \union {b}
           /\ LineOf(e) = LineOf(b) /\ ColumnOf(e) = ColumnOf(b) + (e - b)
<1>1. Len(text) \in Nat /\ DOMAIN text = 1 .. Len(text) /\ b \in 1 .. Len(text)
  BY Positions
<1>2. RunAt(b) = SubSeq(text, b, e - 1)
  <2>1. Separators \in SUBSET DOMAIN text
    BY DEF Separators
  <2>2. e \in Separators \/ e = Len(text) + 1
    BY <1>1 DEF Separators
  <2>3. \A j \in b + 1 .. e - 1 : j \notin Separators
    BY <1>1 DEF Separators
  <2>4. b + 1 \in 1 .. Len(text) + 1
    BY <1>1
  <2>5. FirstFrom(b + 1, Separators) = e
    BY <2>1, <2>2, <2>3, <2>4, FirstFromIs
  <2> QED
    BY <2>5, SeparatorsEndRuns DEF RunAt
<1>3. \A j \in b .. e - 1 : j \in DOMAIN text /\ ~IsSpace(j) /\ text[j] # LineFeed /\ ~NewLineAt(j)
  BY <1>1, SpaceIs
<1>4. LineOf(e) = LineOf(b) /\ ColumnOf(e) = ColumnOf(b) + (e - b)
  BY <1>1, <1>3, LineGoesOn
<1>5. \A j \in b + 1 .. e - 1 : j \notin Items /\ ~StartsRun(j)
  <2>1. ASSUME NEW j \in b + 1 .. e - 1 PROVE j \notin Items /\ ~StartsRun(j)
    <3>1. j \in DOMAIN text /\ j - 1 \in DOMAIN text /\ j \in b .. e - 1 /\ j - 1 \in b .. e - 1
      BY <1>1
    <3> QED
      BY <3>1, InsideIsNoItem
  <2> QED
    BY <2>1
<1>6. ItemsBefore(e) = ItemsBefore(b) \union {b}
  <2>1. \A k \in Items : k \in Nat
    BY <1>1 DEF Items
  <2> QED
    BY <1>1, <1>5, <2>1 DEF ItemsBefore
<1>7. AtBoundary(e)
  BY <1>1, SpaceIs DEF AtBoundary
<1>8. BreakWhole(e)
  <2>1. e - 1 \in b .. e - 1
    BY <1>1
  <2>2. ASSUME e \in DOMAIN text, text[e] = LineFeed, text[e - 1] = CarriageReturn PROVE FALSE
    BY <1>3, <2>1, <2>2 DEF NewLineAt, At
  <2> QED
    BY <1>1, <2>2 DEF BreakWhole
<1>9. CommentsClosed(e)
  <2>1. \A j \in 1 .. b - 1 : StartsComment(j) => LineOf(j) # LineOf(b)
    BY <1>1, <1>3 DEF Between, CommentsClosed
  <2>2. \A j \in 1 .. e - 1 : StartsComment(j) => LineOf(j) # LineOf(e)
    BY <1>1, <1>4, <1>5, <2>1 DEF StartsComment
  <2> QED
    BY <2>2 DEF CommentsClosed
<1> QED
  BY <1>2, <1>4, <1>6, <1>7, <1>8, <1>9 DEF Between

\* A comment is no item, and it ends with its line.
LEMMA CommentPassed ==
    ASSUME text \in Seq(STRING), NEW b \in DOMAIN text, Between(b), text[b] = Comment,
           NEW e, e = FirstFrom(b, NewLines)
    PROVE  /\ e \in b .. Len(text) + 1
           /\ Between(e) /\ NothingBetween(b, e)
<1>1. Len(text) \in Nat /\ DOMAIN text = 1 .. Len(text) /\ b \in 1 .. Len(text)
  BY Positions
<1>2. /\ e \in b .. Len(text) + 1
      /\ e \in NewLines \/ e = Len(text) + 1
      /\ \A j \in NewLines : j >= b => e <= j
  <2>1. NewLines \in SUBSET DOMAIN text
    BY DEF NewLines
  <2> QED
    BY <1>1, <2>1, FirstFromFinds
<1>3. \A j \in b .. e - 1 : j \in DOMAIN text /\ ~NewLineAt(j) /\ text[j] # LineFeed
                            /\ ~StartsBreak(j)
  <2>1. ASSUME NEW j \in b .. e - 1 PROVE j \in DOMAIN text /\ ~NewLineAt(j)
    <3>1. j \in 1 .. Len(text) /\ j >= b /\ ~(e <= j)
      BY <1>1, <1>2
    <3>2. j \notin NewLines
      BY <1>2, <3>1
    <3> QED
      BY <1>1, <3>1, <3>2 DEF NewLines
  <2> QED
    BY <2>1, SpaceIs
<1>4. ~NewLineAt(b) /\ StartsRun(b)
  <2>1. ~NewLineAt(b)
    BY Apart, SpaceIs DEF Ends
  <2> QED
    BY <2>1, Apart, ItemBegins
<1>5. \A j \in b .. e : LineOf(j) = LineOf(b) /\ ColumnOf(j) = ColumnOf(b) + (j - b)
  <2>1. ASSUME NEW j \in b .. e
        PROVE  LineOf(j) = LineOf(b) /\ ColumnOf(j) = ColumnOf(b) + (j - b)
    <3>1. j \in Nat /\ b \in Nat \ {0} /\ b <= j /\ \A i \in b .. j - 1 : i \in b .. e - 1
      BY <1>1, <1>2
    <3> QED
      BY <1>3, <3>1, LineGoesOn
  <2> QED
    BY <2>1
<1>6. \A j \in b .. e - 1 : j \notin Items
  <2>1. ASSUME NEW j \in b .. e - 1 PROVE Commented(j)
    <3>1. b \in 1 .. j /\ j \in b .. e
      BY <1>1, <1>2
    <3>2. LineOf(b) = LineOf(j)
      BY <1>5, <3>1
    <3> QED
      BY <1>4, <3>1, <3>2 DEF Commented
  <2> QED
    BY <1>3, <2>1 DEF Items
<1>7. ItemsBefore(e) = ItemsBefore(b)
  <2>1. \A k \in Items : k \in Nat
    BY <1>1 DEF Items
  <2> QED
    BY <1>1, <1>2, <1>6, <2>1 DEF ItemsBefore
<1>8. AtBoundary(e) /\ CommentsClosed(e)
  BY <1>1, <1>2, SpaceIs DEF AtBoundary, CommentsClosed, NewLines
<1>9. BreakWhole(e)
  <2>1. ASSUME e \in DOMAIN text, text[e] = LineFeed, e - 1 \in DOMAIN text,
               text[e - 1] = CarriageReturn
        PROVE  FALSE
    <3>1. NewLineAt(e - 1)
      BY <2>1 DEF NewLineAt, At
    <3>2. e # b
      BY <2>1, Apart DEF Ends
    <3>3. e - 1 \in b .. e - 1
      BY <1>1, <1>2, <3>2
    <3> QED
      BY <1>3, <3>1, <3>3
  <2> QED
    BY <1>1, <2>1 DEF BreakWhole
<1>10. e \in b .. e
  BY <1>1, <1>2
<1> QED
  BY <1>2, <1>5, <1>7, <1>8, <1>9, <1>10 DEF Between, NothingBetween

\* A line break is one item, whether it has one character or two.
LEMMA LineBreakPassed ==
    ASSUME text \in Seq(STRING), NEW b \in DOMAIN text, Between(b), NewLineAt(b),
           NEW e, e = b + (IF At(b) = CarriageReturn THEN 2 ELSE 1)
    PROVE  /\ e \in b .. Len(text) + 1
           /\ Between(e)
           /\ ItemsBefore(e) = ItemsBefore(b) \union {b}
           /\ LineOf(e) = LineOf(b) + 1 /\ ColumnOf(e) = 1
<1>1. Len(text) \in Nat /\ DOMAIN text = 1 .. Len(text) /\ b \in 1 .. Len(text)
  BY Positions
<1>2. b \in Items
  <2>1. text[b] \notin Blanks
    BY Apart, SpaceIs
  <2> QED
    BY <2>1, ItemBegins
<1>3. /\ e - 1 \in b .. b + 1 /\ e - 1 \in DOMAIN text /\ e \in Nat
      /\ text[e - 1] = LineFeed
      /\ e = b + 2 => text[b] = CarriageReturn
  <2>1. CASE text[b] = CarriageReturn
    <3>1. At(b + 1) = LineFeed /\ At(b) = CarriageReturn
      BY <2>1, Apart DEF NewLineAt, At
    <3>2. b + 1 \in DOMAIN text /\ text[b + 1] = LineFeed
      BY <3>1, Apart DEF At
    <3> QED
      BY <1>1, <2>1, <3>1, <3>2
  <2>2. CASE text[b] # CarriageReturn
    <3>1. text[b] = LineFeed /\ At(b) = LineFeed
      BY <2>2 DEF NewLineAt, At
    <3> QED
      BY <1>1, <2>2, <3>1, Apart
  <2> QED
    BY <2>1, <2>2
<1>4. e \in b .. Len(text) + 1
  BY <1>1, <1>3
<1>5. IsSpace(e - 1)
  BY <1>3, SpaceIs
<1>6. AtBoundary(e) /\ BreakWhole(e)
  BY <1>3, <1>5, Apart DEF AtBoundary, BreakWhole
<1>7. LineOf(e) = LineOf(e - 1) + 1 /\ ColumnOf(e) = 1
  <2>1. e - 1 \in Nat \ {0} /\ (e - 1) + 1 = e
    BY <1>1, <1>3
  <2> QED
    BY <1>3, <2>1, LineBegins
<1>8. LineOf(e - 1) = LineOf(b)
  <2>1. \A j \in b .. (e - 1) - 1 : text[j] # LineFeed
    BY <1>1, <1>3, Apart
  <2> QED
    BY <1>1, <1>3, <2>1, LineGoesOn
<1>9. CommentsClosed(e)
  <2>1. ASSUME NEW j \in 1 .. e - 1 PROVE LineOf(j) # LineOf(e)
    <3>1. LineOf(j) <= LineOf(e - 1) /\ LineOf(j) \in Nat /\ LineOf(e - 1) \in Nat
      <4>1. j \in Nat /\ e - 1 \in Nat /\ j <= e - 1
        BY <1>1, <1>3
      <4> QED
        BY <4>1, LinesInOrder, LineFeedsFinite
    <3> QED
      BY <1>7, <3>1
  <2> QED
    BY <2>1 DEF CommentsClosed
<1>10. ItemsBefore(e) = ItemsBefore(b) \union {b}
  <2>1. \A k \in Items : k \in Nat
    BY <1>1 DEF Items
  <2>2. ASSUME NEW j \in b + 1 .. e - 1 PROVE j \notin Items
    <3>1. j = b + 1 /\ e - 1 = j /\ text[b] = CarriageReturn /\ text[j] = LineFeed
      BY <1>1, <1>3
    <3>2. ~StartsBreak(j) /\ ~StartsRun(j)
      BY <1>1, <1>5, <3>1, Apart DEF StartsBreak, StartsRun
    <3> QED
      BY <3>2 DEF Items
  <2> QED
    BY <1>1, <1>2, <1>3, <2>1, <2>2 DEF ItemsBefore
<1> QED
  BY <1>4, <1>6, <1>7, <1>8, <1>9, <1>10 DEF Between

-----------------------------------------------------------------------------
(* What a run is *)

\* The characters of a run are those of the text from its beginning to a separator.
LEMMA CharactersOfRun ==
    ASSUME text \in Seq(STRING), NEW b \in DOMAIN text
    PROVE  \E e \in b + 1 .. Len(text) + 1 :
              /\ RunAt(b) = SubSeq(text, b, e - 1)
              /\ e \in DOMAIN text => SeparatorAt(e)
              /\ \A j \in b + 1 .. e - 1 : ~SeparatorAt(j)
<1> DEFINE e == FirstFrom(b + 1, Separators)
<1>1. Len(text) \in Nat /\ DOMAIN text = 1 .. Len(text) /\ b \in 1 .. Len(text)
  BY Positions
<1>2. Separators \in SUBSET DOMAIN text /\ b + 1 \in 1 .. Len(text) + 1
  BY <1>1 DEF Separators
<1>3. /\ e \in b + 1 .. Len(text) + 1
      /\ e \in Separators \/ e = Len(text) + 1
      /\ \A j \in Separators : j >= b + 1 => e <= j
  BY <1>2, FirstFromFinds
<1>4. RunAt(b) = SubSeq(text, b, e - 1)
  BY SeparatorsEndRuns DEF RunAt
<1>5. e \in DOMAIN text => SeparatorAt(e)
  BY <1>1, <1>3 DEF Separators
<1>6. ASSUME NEW j \in b + 1 .. e - 1 PROVE ~SeparatorAt(j)
  <2>1. j \in 1 .. Len(text) /\ j >= b + 1 /\ ~(e <= j)
    BY <1>1, <1>3
  <2>2. j \notin Separators
    BY <1>3, <2>1
  <2> QED
    BY <1>1, <2>1, <2>2 DEF Separators
<1> QED
  BY <1>3, <1>4, <1>5, <1>6

\* The characters of a part of the text.
LEMMA CharactersOfPart ==
    ASSUME text \in Seq(STRING), NEW b \in DOMAIN text, NEW e \in b + 1 .. Len(text) + 1
    PROVE  /\ SubSeq(text, b, e - 1) \in Seq(STRING)
           /\ Len(SubSeq(text, b, e - 1)) = e - b
           /\ \A i \in 1 .. e - b : SubSeq(text, b, e - 1)[i] = text[b + i - 1]
           /\ SubSeq(text, b, e - 1)[1] = text[b]
<1>1. Len(text) \in Nat /\ DOMAIN text = 1 .. Len(text) /\ b \in 1 .. Len(text)
  BY Positions
<1>2. b \in Int /\ e - 1 \in Int /\ \A i \in b .. e - 1 : text[i] \in STRING
  BY <1>1
<1>3. /\ SubSeq(text, b, e - 1) \in Seq(STRING)
      /\ Len(SubSeq(text, b, e - 1)) = IF b <= e - 1 THEN (e - 1) - b + 1 ELSE 0
      /\ \A i \in 1 .. (e - 1) - b + 1 : SubSeq(text, b, e - 1)[i] = text[b + i - 1]
  BY <1>2, SubSeqProperties
<1>4. b <= e - 1 /\ (e - 1) - b + 1 = e - b /\ 1 \in 1 .. e - b /\ b + 1 - 1 = b
  BY <1>1
<1>5. Len(SubSeq(text, b, e - 1)) = e - b
  BY <1>3, <1>4
<1>6. \A i \in 1 .. e - b : SubSeq(text, b, e - 1)[i] = text[b + i - 1]
  BY <1>3, <1>4
<1> QED
  BY <1>3, <1>4, <1>5, <1>6

\* A run is one token at most.
LEMMA OneToken ==
    /\ \A s : \A t, u \in WordToken(s) : t = u
    /\ \A s : \A t, u \in NumberToken(s) : t = u
<1>1. ASSUME NEW s, NEW t \in WordToken(s), NEW u \in WordToken(s) PROVE t = u
  BY DEF WordToken
<1>2. ASSUME NEW s, NEW t \in NumberToken(s), NEW u \in NumberToken(s) PROVE t = u
  BY Zenon DEF NumberToken
<1> QED
  BY <1>1, <1>2

\* A run that begins with a letter is what lexWord takes it for.
LEMMA WordIsItem ==
    ASSUME text \in Seq(STRING), NEW b \in DOMAIN text, ~StartsBreak(b), text[b] \in Letters,
           NEW e \in b + 1 .. Len(text) + 1, RunAt(b) = SubSeq(text, b, e - 1)
    PROVE  ItemAt(b) = WordToken(SubSeq(text, b, e - 1))
<1> DEFINE s == SubSeq(text, b, e - 1)
<1>1. s[1] = text[b]
  BY CharactersOfPart
<1>2. s[1] # "0" /\ s[1] \in Letters
  BY <1>1, LettersApart
<1>3. ItemAt(b) = TokenOf(s)
  BY DEF ItemAt
<1>4. TokenOf(s) = WordToken(s)
  <2> HIDE DEF s
  <2> QED
    BY <1>2 DEF TokenOf
<1> QED
  BY <1>3, <1>4

\* A run that begins like a number is what lexNumber takes it for: where its digits
\* end it ends, or it is none.
LEMMA NumberIsItem ==
    ASSUME text \in Seq(STRING), NEW b \in DOMAIN text, ~StartsBreak(b), HexNumberAt(b),
           NEW k, k = FirstFrom(b + 2, {j \in DOMAIN text : ~IsHexDigit(text[j])})
    PROVE  /\ k \in b + 2 .. Len(text) + 1
           /\ \A j \in b .. k - 1 : ~SeparatorAt(j)
           /\ ItemAt(b) = IF SeparatorAt(k) THEN NumberToken(SubSeq(text, b, k - 1)) ELSE {}
<1> DEFINE P == {j \in DOMAIN text : ~IsHexDigit(text[j])}
<1>1. Len(text) \in Nat /\ DOMAIN text = 1 .. Len(text) /\ b \in 1 .. Len(text)
  BY Positions
<1>2. text[b] = "0" /\ b + 1 \in DOMAIN text /\ text[b + 1] \in {"x", "X"}
  <2>1. At(b) = "0" /\ At(b + 1) \in {"x", "X"}
    BY DEF HexNumberAt
  <2>2. At(b + 1) # Nul
    BY <2>1 DEF Nul
  <2> QED
    BY <2>1, <2>2 DEF At
<1>3. ~SeparatorAt(b) /\ ~SeparatorAt(b + 1)
  BY <1>2, Apart, SpaceIs
<1>4. /\ k \in b + 2 .. Len(text) + 1
      /\ k \in P \/ k = Len(text) + 1
      /\ \A j \in P : j >= b + 2 => k <= j
  <2>1. b + 2 \in 1 .. Len(text) + 1 /\ P \in SUBSET DOMAIN text
    BY <1>1, <1>2
  <2> QED
    BY <2>1, FirstFromFinds
<1>5. ASSUME NEW j \in b + 2 .. k - 1
      PROVE  j \in DOMAIN text /\ IsHexDigit(text[j]) /\ ~SeparatorAt(j)
  <2>1. j \in 1 .. Len(text) /\ j >= b + 2 /\ ~(k <= j)
    BY <1>1, <1>4
  <2>2. j \notin P
    BY <1>4, <2>1
  <2>3. j \in DOMAIN text /\ IsHexDigit(text[j])
    BY <1>1, <2>1, <2>2
  <2> QED
    BY <2>3, EndsAreNoDigits, SpaceIs
<1>6. \A j \in b .. k - 1 : ~SeparatorAt(j)
  <2>1. ASSUME NEW j \in b .. k - 1 PROVE j = b \/ j = b + 1 \/ j \in b + 2 .. k - 1
    BY <1>1, <1>4
  <2> QED
    BY <1>3, <1>5, <2>1
<1>7. PICK e \in b + 1 .. Len(text) + 1 :
         /\ RunAt(b) = SubSeq(text, b, e - 1)
         /\ e \in DOMAIN text => SeparatorAt(e)
         /\ \A j \in b + 1 .. e - 1 : ~SeparatorAt(j)
  BY CharactersOfRun
<1>8. k <= e
  <2>1. ASSUME e < k PROVE FALSE
    <3>1. e \in b .. k - 1 /\ e \in DOMAIN text
      BY <1>1, <1>4, <2>1
    <3> QED
      BY <1>6, <1>7, <3>1
  <2> QED
    BY <1>1, <1>4, <2>1
<1> DEFINE s == RunAt(b)
<1>9. /\ Len(s) = e - b /\ s[1] = text[b]
      /\ \A i \in 1 .. e - b : s[i] = text[b + i - 1]
  BY <1>7, CharactersOfPart
<1>10. Len(s) > 1 /\ s[1] = "0" /\ s[2] \in {"x", "X"}
  <2>1. 2 \in 1 .. e - b /\ b + 2 - 1 = b + 1
    BY <1>1, <1>4, <1>8
  <2>2. s[2] = text[b + 1]
    BY <1>9, <2>1
  <2>3. Len(s) > 1
    BY <1>9, <2>1
  <2> QED
    BY <1>2, <1>9, <2>2, <2>3
<1>11. ItemAt(b) = IF \A i \in 3 .. Len(s) : IsHexDigit(s[i]) THEN NumberToken(s) ELSE {}
  <2> HIDE DEF s
  <2>1. TokenOf(s) = IF \A i \in 3 .. Len(s) : IsHexDigit(s[i]) THEN NumberToken(s) ELSE {}
    BY <1>10 DEF TokenOf
  <2> QED
    BY <2>1 DEF ItemAt, s
<1>12. CASE SeparatorAt(k)
  <2>1. e = k
    <3>1. ~(k \in b + 1 .. e - 1)
      BY <1>7, <1>12
    <3> QED
      BY <1>1, <1>4, <1>8, <3>1
  <2>2. ASSUME NEW i \in 3 .. Len(s) PROVE IsHexDigit(s[i])
    <3>1. i \in 1 .. e - b /\ b + i - 1 \in b + 2 .. k - 1
      BY <1>1, <1>4, <1>9, <2>1
    <3> QED
      BY <1>5, <1>9, <3>1
  <2> QED
    BY <1>4, <1>6, <1>7, <1>11, <1>12, <2>1, <2>2
<1>13. CASE ~SeparatorAt(k)
  <2>1. k \in DOMAIN text /\ ~IsHexDigit(text[k])
    BY <1>4, <1>13, BehindTheText
  <2>2. k < e
    <3>1. k # e
      BY <1>7, <1>13, <2>1
    <3> QED
      BY <1>1, <1>4, <1>8, <3>1
  <2>3. k - b + 1 \in 3 .. Len(s) /\ k - b + 1 \in 1 .. e - b /\ b + (k - b + 1) - 1 = k
    <3>1. Len(s) = e - b
      BY <1>9
    <3> HIDE DEF s
    <3> QED
      BY <1>1, <1>4, <1>7, <2>2, <3>1
  <2>4. ~IsHexDigit(s[k - b + 1])
    BY <1>9, <2>1, <2>3
  <2> QED
    BY <1>4, <1>6, <1>11, <1>13, <2>3, <2>4
<1> QED
  BY <1>12, <1>13

\* A run that begins with anything else is no token.
LEMMA OtherIsNoItem ==
    ASSUME text \in Seq(STRING), NEW b \in DOMAIN text, ~StartsBreak(b),
           text[b] \notin Letters, ~HexNumberAt(b)
    PROVE  ItemAt(b) = {}
<1> DEFINE s == RunAt(b)
<1>1. Len(text) \in Nat /\ DOMAIN text = 1 .. Len(text) /\ b \in 1 .. Len(text)
  BY Positions
<1>2. PICK e \in b + 1 .. Len(text) + 1 : s = SubSeq(text, b, e - 1)
  BY CharactersOfRun
<1>3. /\ Len(s) = e - b /\ s[1] = text[b]
      /\ \A i \in 1 .. e - b : s[i] = text[b + i - 1]
  BY <1>2, CharactersOfPart
<1>4. ASSUME Len(s) > 1, s[1] = "0", s[2] \in {"x", "X"} PROVE FALSE
  <2>1. 2 \in 1 .. e - b /\ b + 2 - 1 = b + 1 /\ b + 1 \in DOMAIN text
    BY <1>1, <1>3, <1>4
  <2>2. s[2] = text[b + 1]
    BY <1>3, <2>1
  <2> QED
    BY <1>3, <1>4, <2>1, <2>2 DEF HexNumberAt, At
<1> HIDE DEF s
<1>5. TokenOf(s) = {}
  BY <1>3, <1>4 DEF TokenOf
<1> QED
  BY <1>5 DEF ItemAt, s

-----------------------------------------------------------------------------
(* The tokens *)

LEMMA ItemsFinite ==
    ASSUME text \in Seq(STRING), NEW n
    PROVE  /\ ItemsBefore(n) \in SUBSET (1 .. Len(text))
           /\ IsFiniteSet(ItemsBefore(n)) /\ Cardinality(ItemsBefore(n)) \in Nat
<1>1. Len(text) \in Nat /\ DOMAIN text = 1 .. Len(text)
  BY Positions
<1>2. ItemsBefore(n) \in SUBSET (1 .. Len(text))
  BY <1>1 DEF ItemsBefore, Items
<1>3. IsFiniteSet(ItemsBefore(n))
  <2>1. IsFiniteSet(1 .. Len(text))
    BY <1>1, FS_Interval
  <2> QED
    BY <1>2, <2>1, FS_Subset
<1> QED
  BY <1>2, <1>3, FS_CardinalityType

\* The token of the next item goes behind the tokens of the items before it.
LEMMA TokenTaken ==
    ASSUME text \in Seq(STRING), NEW T, NEW found \in Seq(T),
           NEW b \in Items, NEW e, ItemsBefore(e) = ItemsBefore(b) \union {b},
           AreItemsBefore(found, b)
    PROVE  AreItemsBefore(Append(found, TokenAt(b)), e)
<1> DEFINE all == Append(found, TokenAt(b))
<1>1. Len(text) \in Nat /\ Items \in SUBSET (1 .. Len(text))
  BY Positions DEF Items
<1>2. /\ Len(all) = Len(found) + 1 /\ Len(found) \in Nat
      /\ \A i \in 1 .. Len(found) : all[i] = found[i]
      /\ all[Len(found) + 1] = TokenAt(b)
  OBVIOUS
<1>3. Len(found) = Cardinality(ItemsBefore(b))
      /\ \A k \in ItemsBefore(b) : found[Cardinality(ItemsBefore(k)) + 1] = TokenAt(k)
  BY DEF AreItemsBefore
<1>4. Len(all) = Cardinality(ItemsBefore(e))
  <2>1. b \notin ItemsBefore(b) /\ IsFiniteSet(ItemsBefore(b))
    BY <1>1, ItemsFinite DEF ItemsBefore
  <2>2. Cardinality(ItemsBefore(e)) = Cardinality(ItemsBefore(b)) + 1
    BY <2>1, FS_AddElement
  <2> QED
    BY <1>2, <1>3, <2>2
<1>5. ASSUME NEW k \in ItemsBefore(b)
      PROVE  Cardinality(ItemsBefore(k)) + 1 \in 1 .. Len(found)
  <2>1. /\ k \notin ItemsBefore(k) /\ IsFiniteSet(ItemsBefore(k))
        /\ IsFiniteSet(ItemsBefore(b))
    BY <1>1, ItemsFinite DEF ItemsBefore
  <2>2. ItemsBefore(k) \union {k} \in SUBSET ItemsBefore(b)
    <3>1. k \in Items /\ k < b /\ \A j \in Items : j \in Nat
      BY <1>1 DEF ItemsBefore
    <3>2. \A j \in Items : j < k => j < b
      BY <3>1
    <3> QED
      BY <3>1, <3>2 DEF ItemsBefore
  <2>3. Cardinality(ItemsBefore(k) \union {k}) <= Cardinality(ItemsBefore(b))
    BY <2>1, <2>2, FS_Subset
  <2>4. Cardinality(ItemsBefore(k) \union {k}) = Cardinality(ItemsBefore(k)) + 1
    BY <2>1, FS_AddElement
  <2>5. Cardinality(ItemsBefore(k)) \in Nat
    BY ItemsFinite
  <2> QED
    BY <1>2, <1>3, <2>3, <2>4, <2>5
<1> HIDE DEF all
<1>6. ASSUME NEW k \in ItemsBefore(e) PROVE all[Cardinality(ItemsBefore(k)) + 1] = TokenAt(k)
  <2>1. CASE k \in ItemsBefore(b)
    BY <1>2, <1>3, <1>5, <2>1
  <2>2. CASE k = b
    BY <1>2, <1>3, <2>2
  <2> QED
    BY <2>1, <2>2
<1> QED
  BY <1>4, <1>6 DEF AreItemsBefore, all

\* A sequence and what is appended to it.
LEMMA AppendIs ==
    ASSUME NEW s, s \in Seq(Range(s)), NEW t
    PROVE  /\ Append(s, t) \in Seq(Range(Append(s, t)))
           /\ Front(Append(s, t)) = s /\ Last(Append(s, t)) = t
<1> DEFINE T == Range(s) \union {t}
           u == Append(s, t)
<1>1. s \in Seq(T)
  BY SeqMonotonic
<1>2. /\ u \in Seq(T) /\ Len(u) = Len(s) + 1 /\ Len(s) \in Nat
      /\ \A i \in 1 .. Len(s) : u[i] = s[i]
      /\ u[Len(s) + 1] = t
  BY <1>1, AppendProperties, LenProperties
<1>3. Last(u) = t
  BY <1>2 DEF Last
<1> HIDE DEF u, T
<1>4. Front(u) = s
  <2>1. Front(u) = SubSeq(u, 1, Len(s))
    BY <1>2 DEF Front
  <2>2. \A i \in 1 .. Len(s) : u[i] \in T
    BY <1>2
  <2>3. /\ SubSeq(u, 1, Len(s)) \in Seq(T)
        /\ Len(SubSeq(u, 1, Len(s))) = IF 1 <= Len(s) THEN Len(s) - 1 + 1 ELSE 0
        /\ \A i \in 1 .. Len(s) - 1 + 1 : SubSeq(u, 1, Len(s))[i] = u[1 + i - 1]
    BY <1>2, <2>2, SubSeqProperties
  <2>4. Len(SubSeq(u, 1, Len(s))) = Len(s)
    BY <1>2, <2>3
  <2>5. \A i \in 1 .. Len(s) : SubSeq(u, 1, Len(s))[i] = s[i]
    BY <1>2, <2>3
  <2> QED
    BY <1>1, <2>1, <2>3, <2>4, <2>5, SeqEqual
<1>5. u \in Seq(Range(u))
  <2>1. u \in [1 .. Len(u) -> T] /\ Len(u) \in Nat /\ DOMAIN u = 1 .. Len(u)
    BY <1>2
  <2>2. u \in [1 .. Len(u) -> Range(u)]
    BY <2>1 DEF Range
  <2> QED
    BY <2>1, <2>2
<1> QED
  BY <1>3, <1>4, <1>5 DEF u

-----------------------------------------------------------------------------
(* The inductive invariant *)

\* What the lexer has when it stands at p, at line l and column c, with these tokens
\* and this end: it has passed the items before p and found each of them a token.
Stands(p, l, c, found, end) ==
    /\ p \in 1 .. Len(text) + 1
    /\ l = LineOf(p) /\ c = ColumnOf(p)
    /\ \A k \in ItemsBefore(p) : ItemAt(k) # {}
    /\ end \in {"no", "error", "end"}
    /\ end \in {"no", "error"} => found \in Seq(Range(found)) /\ AreItemsBefore(found, p)
    /\ end = "no" => Between(p)
    /\ end = "error" => p \in Items /\ ItemAt(p) = {}
    /\ end = "end" =>
          /\ p = Len(text) + 1
          /\ AreItemsBefore(Front(found), p)
          /\ Last(found) = [type |-> "end", value |-> 0, line |-> l, column |-> c]

LexerIInv == text \in Seq(STRING) /\ Stands(pos, line, column, tokens, ended)

\* What is said of the text stays true of it.
LEMMA TextStays ==
    ASSUME UNCHANGED text
    PROVE  /\ \A k : LineOf(k)' = LineOf(k) /\ ColumnOf(k)' = ColumnOf(k)
           /\ \A k : ItemsBefore(k)' = ItemsBefore(k) /\ ItemAt(k)' = ItemAt(k)
           /\ \A k : TokenAt(k)' = TokenAt(k)
           /\ \A k : Between(k)' <=> Between(k)
           /\ Items' = Items
<1>1. \A k : LineOf(k)' = LineOf(k) /\ ColumnOf(k)' = ColumnOf(k)
  BY DEF LineOf, ColumnOf, LineFeedsBefore
<1>2. \A k : /\ IsSpace(k)' <=> IsSpace(k)
             /\ StartsBreak(k)' <=> StartsBreak(k)
             /\ NewLineAt(k)' <=> NewLineAt(k)
  BY DEF IsSpace, StartsBreak, NewLineAt, At
<1>3. \A k : StartsRun(k)' <=> StartsRun(k)
  BY <1>2 DEF StartsRun
<1>4. \A k : Commented(k)' <=> Commented(k)
  BY <1>1, <1>3 DEF Commented
<1>5. Items' = Items
  BY <1>2, <1>3, <1>4 DEF Items
<1>6. \A k : ItemsBefore(k)' = ItemsBefore(k)
  BY <1>5 DEF ItemsBefore
<1>7. \A k : RunAt(k)' = RunAt(k)
  BY <1>2 DEF RunAt, FirstFrom
<1>8. \A k : ItemAt(k)' = ItemAt(k)
  BY <1>2, <1>7 DEF ItemAt
<1>9. \A k : TokenAt(k)' = TokenAt(k)
  BY <1>1, <1>8 DEF TokenAt
<1>10. \A k : Between(k)' <=> Between(k)
  BY <1>1, <1>2, <1>3 DEF Between, AtBoundary, BreakWhole, CommentsClosed, StartsComment
<1> QED
  BY <1>1, <1>5, <1>6, <1>8, <1>9, <1>10

LEMMA StandsThen ==
    ASSUME LexerIInv, UNCHANGED text, Stands(pos', line', column', tokens', ended')
    PROVE  LexerIInv'
<1>1. AreItemsBefore(tokens, pos)' <=> AreItemsBefore(tokens', pos')
  BY TextStays DEF AreItemsBefore
<1>2. AreItemsBefore(Front(tokens), pos)' <=> AreItemsBefore(Front(tokens'), pos')
  BY TextStays DEF AreItemsBefore
<1> QED
  BY <1>1, <1>2, TextStays DEF LexerIInv, Stands

-----------------------------------------------------------------------------
(* The turns of the loop *)

LEMMA InvariantInit == Init => LexerIInv
<1> SUFFICES ASSUME Init PROVE LexerIInv
  OBVIOUS
<1>1. text \in Seq(STRING)
  BY TextsAssumption DEF Init
<1>2. Len(text) \in Nat /\ DOMAIN text = 1 .. Len(text)
  BY <1>1, Positions
<1>3. LineFeedsBefore(1) = {}
  BY DEF LineFeedsBefore
<1>4. LineOf(1) = 1 /\ ColumnOf(1) = 1
  BY <1>3, FS_EmptySet DEF LineOf, ColumnOf
<1>5. ItemsBefore(1) = {}
  BY <1>2 DEF ItemsBefore, Items
<1>6. <<>> \in Seq(Range(<<>>)) /\ AreItemsBefore(<<>>, 1)
  BY <1>5, FS_EmptySet DEF AreItemsBefore
<1>7. Between(1)
  BY DEF Between, AtBoundary, BreakWhole, CommentsClosed
<1> QED
  BY <1>1, <1>2, <1>4, <1>5, <1>6, <1>7 DEF Init, LexerIInv, Stands

\* Where the next token begins, behind blanks.
LEMMA AtBegin ==
    ASSUME LexerIInv, ended = "no"
    PROVE  /\ Begin \in pos .. Len(text) + 1
           /\ Between(Begin) /\ NothingBetween(pos, Begin)
           /\ Begin \in DOMAIN text => text[Begin] \notin Blanks /\ At(Begin) = text[Begin]
           /\ LineOf(Begin) = line /\ ColumnOf(Begin) = column + (Begin - pos)
           /\ tokens \in Seq(Range(tokens)) /\ AreItemsBefore(tokens, Begin)
           /\ \A k \in ItemsBefore(Begin) : ItemAt(k) # {}
<1>1. /\ text \in Seq(STRING) /\ pos \in 1 .. Len(text) + 1 /\ Between(pos)
      /\ line = LineOf(pos) /\ column = ColumnOf(pos)
      /\ tokens \in Seq(Range(tokens)) /\ AreItemsBefore(tokens, pos)
      /\ \A k \in ItemsBefore(pos) : ItemAt(k) # {}
  BY DEF LexerIInv, Stands
<1>2. /\ Begin \in pos .. Len(text) + 1
      /\ Begin \in DOMAIN text => text[Begin] \notin Blanks
      /\ Between(Begin) /\ NothingBetween(pos, Begin)
  BY <1>1, BlanksPassed DEF Begin
<1>3. Begin \in DOMAIN text => At(Begin) = text[Begin]
  BY DEF At
<1> QED
  BY <1>1, <1>2, <1>3 DEF NothingBetween, AreItemsBefore

\* A token for what begins at Begin and is passed up to k, or none.
LEMMA Taken ==
    ASSUME LexerIInv, Lexing, Begin \in Items, ~StartsBreak(Begin),
           NEW k \in Begin .. Len(text) + 1, Take(ItemAt(Begin), k),
           \A t, u \in ItemAt(Begin) : t = u,
           ItemAt(Begin) # {} =>
              /\ Between(k) /\ ItemsBefore(k) = ItemsBefore(Begin) \union {Begin}
              /\ LineOf(k) = LineOf(Begin) /\ ColumnOf(k) = ColumnOf(Begin) + (k - Begin)
    PROVE  LexerIInv'
<1>1. /\ Begin \in pos .. Len(text) + 1
      /\ LineOf(Begin) = line /\ ColumnOf(Begin) = column + (Begin - pos)
      /\ tokens \in Seq(Range(tokens)) /\ AreItemsBefore(tokens, Begin)
      /\ \A i \in ItemsBefore(Begin) : ItemAt(i) # {}
  BY AtBegin DEF Lexing
<1>2. ended = "no" /\ text \in Seq(STRING) /\ pos \in 1 .. Len(text) + 1
      /\ Len(text) \in Nat /\ column \in Int
  BY Positions, LineFeedsFinite DEF LexerIInv, Stands, Lexing
<1>3. CASE ItemAt(Begin) = {}
  <2>1. /\ pos' = Begin /\ column' = column + (Begin - pos)
        /\ text' = text /\ line' = line /\ ended' = "error" /\ tokens' = tokens
    BY <1>3 DEF Take, AdvanceTo
  <2>2. Begin \in 1 .. Len(text) + 1
    BY <1>1, <1>2
  <2>3. Stands(pos', line', column', tokens', ended')
    BY <1>1, <1>3, <2>1, <2>2 DEF Stands
  <2> QED
    BY <2>1, <2>3, StandsThen
<1>4. CASE ItemAt(Begin) # {}
  <2> DEFINE t == CHOOSE t \in ItemAt(Begin) : TRUE
  <2>1. /\ pos' = k /\ column' = column + (k - pos)
        /\ text' = text /\ line' = line /\ ended' = ended
    BY <1>4 DEF Take, AdvanceTo
  <2>2. PICK u \in ItemAt(Begin) :
           tokens' = Append(tokens, [type |-> u.type, value |-> u.value, line |-> line,
                                     column |-> column + (Begin - pos)])
    BY <1>4 DEF Take
  <2>3. u = t
    BY <1>4
  <2>4. tokens' = Append(tokens, TokenAt(Begin))
    BY <1>1, <2>2, <2>3 DEF TokenAt
  <2>5. AreItemsBefore(tokens', k) /\ tokens' \in Seq(Range(tokens'))
    BY <1>1, <1>2, <1>4, <2>4, TokenTaken, AppendIs
  <2>6. k \in 1 .. Len(text) + 1 /\ LineOf(k) = line' /\ ColumnOf(k) = column'
    BY <1>1, <1>2, <1>4, <2>1
  <2>7. Stands(pos', line', column', tokens', ended')
    BY <1>1, <1>2, <1>4, <2>1, <2>5, <2>6 DEF Stands
  <2> QED
    BY <2>1, <2>7, StandsThen
<1> QED
  BY <1>3, <1>4

\* The position where something other than a blank begins.
LEMMA LexingAt ==
    ASSUME LexerIInv, Lexing
    PROVE  /\ text \in Seq(STRING) /\ Begin \in DOMAIN text /\ Between(Begin)
           /\ At(Begin) = text[Begin]
           /\ NewLineAt(Begin) => Begin \in Items
           /\ ~NewLineAt(Begin) => ~StartsBreak(Begin)
           /\ ~NewLineAt(Begin) /\ text[Begin] # Comment => Begin \in Items
           /\ Len(text) \in Nat /\ DOMAIN text = 1 .. Len(text)
<1>1. /\ text \in Seq(STRING) /\ Begin \in DOMAIN text /\ Between(Begin)
      /\ text[Begin] \notin Blanks /\ At(Begin) = text[Begin]
  BY AtBegin DEF LexerIInv, Lexing
<1> QED
  BY <1>1, ItemBegins, Positions

LEMMA CommentStep ==
    ASSUME LexerIInv, SkipComment
    PROVE  LexerIInv'
<1> DEFINE e == FirstFrom(Begin, NewLines)
<1>1. Lexing /\ At(Begin) = Comment /\ text' = text /\ line' = line
      /\ pos' = e /\ column' = column + (e - pos) /\ tokens' = tokens /\ ended' = ended
  BY DEF SkipComment, AdvanceTo
<1>2. text \in Seq(STRING) /\ Begin \in DOMAIN text /\ Between(Begin) /\ text[Begin] = Comment
      /\ Len(text) \in Nat /\ DOMAIN text = 1 .. Len(text)
  BY <1>1, LexingAt
<1>3. e \in Begin .. Len(text) + 1 /\ Between(e) /\ NothingBetween(Begin, e)
  BY <1>2, CommentPassed
<1>4. /\ LineOf(Begin) = line /\ ColumnOf(Begin) = column + (Begin - pos)
      /\ tokens \in Seq(Range(tokens)) /\ AreItemsBefore(tokens, Begin)
      /\ \A k \in ItemsBefore(Begin) : ItemAt(k) # {}
  BY <1>1, AtBegin DEF Lexing
<1>5. ended = "no" /\ pos \in Int /\ column \in Int
  BY <1>1, <1>2, LineFeedsFinite DEF LexerIInv, Stands, Lexing
<1> HIDE DEF e
<1>6. LineOf(e) = line /\ ColumnOf(e) = column + (e - pos) /\ e \in 1 .. Len(text) + 1
  BY <1>2, <1>3, <1>4, <1>5 DEF NothingBetween
<1>7. AreItemsBefore(tokens, e) /\ \A k \in ItemsBefore(e) : ItemAt(k) # {}
  BY <1>3, <1>4 DEF NothingBetween, AreItemsBefore
<1>8. Stands(pos', line', column', tokens', ended')
  BY <1>1, <1>3, <1>4, <1>5, <1>6, <1>7 DEF Stands
<1> QED
  BY <1>1, <1>8, StandsThen

LEMMA NumberStep ==
    ASSUME LexerIInv, LexNumber
    PROVE  LexerIInv'
<1> DEFINE k == FirstFrom(Begin + 2, {j \in DOMAIN text : ~IsHexDigit(text[j])})
<1>1. Lexing /\ HexNumberAt(Begin)
      /\ Take(IF SeparatorAt(k) THEN NumberToken(SubSeq(text, Begin, k - 1)) ELSE {}, k)
  BY DEF LexNumber
<1>2. /\ text \in Seq(STRING) /\ Begin \in DOMAIN text /\ Between(Begin)
      /\ At(Begin) = text[Begin] /\ Len(text) \in Nat /\ DOMAIN text = 1 .. Len(text)
  BY <1>1, LexingAt
<1>3. text[Begin] = "0"
  BY <1>1, <1>2 DEF HexNumberAt
<1>4. ~NewLineAt(Begin) /\ text[Begin] # Comment
  BY <1>2, <1>3, Apart, SpaceIs DEF Ends
<1>5. Begin \in Items /\ ~StartsBreak(Begin)
  BY <1>1, <1>4, LexingAt
<1>6. /\ k \in Begin + 2 .. Len(text) + 1
      /\ \A j \in Begin .. k - 1 : ~SeparatorAt(j)
      /\ ItemAt(Begin) = IF SeparatorAt(k) THEN NumberToken(SubSeq(text, Begin, k - 1)) ELSE {}
  BY <1>1, <1>2, <1>5, NumberIsItem
<1> HIDE DEF k
<1>7. k \in Begin + 1 .. Len(text) + 1 /\ k \in Begin .. Len(text) + 1
  BY <1>2, <1>6
<1>8. ASSUME ItemAt(Begin) # {}
      PROVE  /\ Between(k) /\ ItemsBefore(k) = ItemsBefore(Begin) \union {Begin}
             /\ LineOf(k) = LineOf(Begin) /\ ColumnOf(k) = ColumnOf(Begin) + (k - Begin)
  <2>1. SeparatorAt(k)
    BY <1>6, <1>8
  <2> QED
    BY <1>2, <1>4, <1>5, <1>6, <1>7, <2>1, RunPassed
<1>9. \A t, u \in ItemAt(Begin) : t = u
  BY <1>6, OneToken
<1>10. Take(ItemAt(Begin), k)
  BY <1>1, <1>6
<1> QED
  BY <1>1, <1>5, <1>7, <1>8, <1>9, <1>10, Taken

LEMMA WordStep ==
    ASSUME LexerIInv, LexWord
    PROVE  LexerIInv'
<1> DEFINE k == FirstFrom(Begin, Separators)
<1>1. Lexing /\ At(Begin) \in Letters /\ Take(WordToken(SubSeq(text, Begin, k - 1)), k)
  BY DEF LexWord
<1>2. /\ text \in Seq(STRING) /\ Begin \in DOMAIN text /\ Between(Begin)
      /\ text[Begin] \in Letters /\ Len(text) \in Nat /\ DOMAIN text = 1 .. Len(text)
  BY <1>1, LexingAt
<1>3. ~SeparatorAt(Begin) /\ ~NewLineAt(Begin) /\ text[Begin] # Comment
  BY <1>2, LettersApart, SpaceIs DEF Ends
<1>4. Begin \in Items /\ ~StartsBreak(Begin)
  BY <1>1, <1>3, LexingAt
<1>5. /\ k \in Begin .. Len(text) + 1
      /\ k \in Separators \/ k = Len(text) + 1
      /\ \A j \in Separators : j >= Begin => k <= j
  <2>1. Separators \in SUBSET DOMAIN text
    BY DEF Separators
  <2> QED
    BY <1>2, <2>1, FirstFromFinds
<1> HIDE DEF k
<1>6. SeparatorAt(k)
  BY <1>2, <1>5, BehindTheText DEF Separators
<1>7. k \in Begin + 1 .. Len(text) + 1
  BY <1>2, <1>3, <1>5, <1>6
<1>8. ASSUME NEW j \in Begin .. k - 1 PROVE ~SeparatorAt(j)
  <2>1. j \in 1 .. Len(text) /\ j >= Begin /\ ~(k <= j)
    BY <1>2, <1>5
  <2>2. j \notin Separators
    BY <1>5, <2>1
  <2> QED
    BY <1>2, <2>1, <2>2 DEF Separators
<1>9. /\ RunAt(Begin) = SubSeq(text, Begin, k - 1)
      /\ Between(k) /\ ItemsBefore(k) = ItemsBefore(Begin) \union {Begin}
      /\ LineOf(k) = LineOf(Begin) /\ ColumnOf(k) = ColumnOf(Begin) + (k - Begin)
  BY <1>2, <1>3, <1>4, <1>6, <1>7, <1>8, RunPassed
<1>10. ItemAt(Begin) = WordToken(SubSeq(text, Begin, k - 1))
  BY <1>2, <1>4, <1>7, <1>9, WordIsItem
<1>11. Take(ItemAt(Begin), k) /\ \A t, u \in ItemAt(Begin) : t = u
  BY <1>1, <1>10, OneToken
<1> QED
  BY <1>1, <1>4, <1>5, <1>9, <1>11, Taken

LEMMA NewLineStep ==
    ASSUME LexerIInv, LexNewLine
    PROVE  LexerIInv'
<1> DEFINE e == Begin + (IF At(Begin) = CarriageReturn THEN 2 ELSE 1)
           new == [type |-> "newline", value |-> 0, line |-> line,
                   column |-> column + (Begin - pos)]
<1>1. Lexing /\ NewLineAt(Begin) /\ text' = text /\ ended' = ended
      /\ tokens' = Append(tokens, new) /\ pos' = e /\ line' = line + 1 /\ column' = 1
  BY DEF LexNewLine
<1>2. /\ text \in Seq(STRING) /\ Begin \in DOMAIN text /\ Between(Begin) /\ Begin \in Items
      /\ Len(text) \in Nat /\ DOMAIN text = 1 .. Len(text)
  BY <1>1, LexingAt
<1>3. /\ e \in Begin .. Len(text) + 1
      /\ Between(e) /\ ItemsBefore(e) = ItemsBefore(Begin) \union {Begin}
      /\ LineOf(e) = LineOf(Begin) + 1 /\ ColumnOf(e) = 1
  BY <1>1, <1>2, LineBreakPassed
<1>4. /\ LineOf(Begin) = line /\ ColumnOf(Begin) = column + (Begin - pos)
      /\ tokens \in Seq(Range(tokens)) /\ AreItemsBefore(tokens, Begin)
      /\ \A k \in ItemsBefore(Begin) : ItemAt(k) # {}
  BY <1>1, AtBegin DEF Lexing
<1>5. StartsBreak(Begin)
  <2>1. text[Begin] \notin Blanks
    BY <1>1, AtBegin DEF Lexing
  <2> QED
    BY <1>1, <1>2, <2>1, ItemBegins
<1>6. ItemAt(Begin) = {[type |-> "newline", value |-> 0]}
  BY <1>5 DEF ItemAt
<1>7. TokenAt(Begin) = new
  <2>1. PICK u \in ItemAt(Begin) : TokenAt(Begin) = [type |-> u.type, value |-> u.value,
                                                    line |-> LineOf(Begin),
                                                    column |-> ColumnOf(Begin)]
    BY <1>6 DEF TokenAt
  <2>2. u.type = "newline" /\ u.value = 0
    BY <1>6, <2>1
  <2> QED
    BY <1>4, <2>1, <2>2
<1> HIDE DEF e, new
<1>8. AreItemsBefore(tokens', e) /\ tokens' \in Seq(Range(tokens'))
  BY <1>1, <1>2, <1>3, <1>4, <1>7, TokenTaken, AppendIs
<1>9. e \in 1 .. Len(text) + 1 /\ \A k \in ItemsBefore(e) : ItemAt(k) # {}
  <2>1. e \in 1 .. Len(text) + 1
    BY <1>2, <1>3
  <2>2. ItemAt(Begin) # {}
    BY <1>6
  <2> QED
    BY <1>3, <1>4, <2>1, <2>2
<1>10. Stands(pos', line', column', tokens', ended')
  BY <1>1, <1>3, <1>4, <1>8, <1>9 DEF Stands, Lexing
<1> QED
  BY <1>1, <1>10, StandsThen

LEMMA UnexpectedStep ==
    ASSUME LexerIInv, UnexpectedCharacter
    PROVE  LexerIInv'
<1>1. /\ Lexing /\ ~HexNumberAt(Begin) /\ ~NewLineAt(Begin) /\ Take({}, Begin)
      /\ At(Begin) \notin Letters /\ At(Begin) # Comment
  BY DEF UnexpectedCharacter
<1>2. /\ text \in Seq(STRING) /\ Begin \in DOMAIN text /\ At(Begin) = text[Begin]
      /\ Begin \in Items /\ ~StartsBreak(Begin)
      /\ Len(text) \in Nat /\ DOMAIN text = 1 .. Len(text)
  BY <1>1, LexingAt
<1>3. ItemAt(Begin) = {}
  BY <1>1, <1>2, OtherIsNoItem
<1>4. Begin \in Begin .. Len(text) + 1
  BY <1>2
<1> QED
  BY <1>1, <1>2, <1>3, <1>4, Taken

LEMMA EndStep ==
    ASSUME LexerIInv, EndOfSource
    PROVE  LexerIInv'
<1> DEFINE t == [type |-> "end", value |-> 0, line |-> line, column |-> column + (Begin - pos)]
<1>1. /\ ended = "no" /\ Begin \notin DOMAIN text /\ text' = text /\ line' = line
      /\ pos' = Begin /\ column' = column + (Begin - pos) /\ ended' = "end"
      /\ tokens' = Append(tokens, t)
  BY DEF EndOfSource, AdvanceTo
<1>2. text \in Seq(STRING) /\ pos \in 1 .. Len(text) + 1
      /\ Len(text) \in Nat /\ DOMAIN text = 1 .. Len(text)
  BY Positions DEF LexerIInv, Stands
<1>3. /\ Begin \in pos .. Len(text) + 1
      /\ LineOf(Begin) = line /\ ColumnOf(Begin) = column + (Begin - pos)
      /\ tokens \in Seq(Range(tokens)) /\ AreItemsBefore(tokens, Begin)
      /\ \A k \in ItemsBefore(Begin) : ItemAt(k) # {}
  BY <1>1, AtBegin
<1>4. Begin = Len(text) + 1 /\ Begin \in 1 .. Len(text) + 1
  BY <1>1, <1>2, <1>3
<1>5. Front(tokens') = tokens /\ Last(tokens') = t
  BY <1>1, <1>3, AppendIs
<1>6. Stands(pos', line', column', tokens', ended')
  BY <1>1, <1>3, <1>4, <1>5 DEF Stands
<1> QED
  BY <1>1, <1>6, StandsThen

-----------------------------------------------------------------------------
(* The theorem *)

LEMMA InvariantNext == LexerIInv /\ [Next]_vars => LexerIInv'
<1> SUFFICES ASSUME LexerIInv, [Next]_vars PROVE LexerIInv'
  OBVIOUS
<1>1. CASE SkipComment
  BY <1>1, CommentStep
<1>2. CASE LexNumber
  BY <1>2, NumberStep
<1>3. CASE LexWord
  BY <1>3, WordStep
<1>4. CASE LexNewLine
  BY <1>4, NewLineStep
<1>5. CASE UnexpectedCharacter
  BY <1>5, UnexpectedStep
<1>6. CASE EndOfSource
  BY <1>6, EndStep
<1>7. CASE UNCHANGED vars
  BY <1>7, StandsThen DEF vars, LexerIInv
<1> QED
  BY <1>1, <1>2, <1>3, <1>4, <1>5, <1>6, <1>7 DEF Next

\* What the lexer stands on says what it has read.
LEMMA InvariantSays == LexerIInv => ReadsRunsOfLines
<1> SUFFICES ASSUME LexerIInv PROVE ReadsRunsOfLines
  OBVIOUS
<1>1. text \in Seq(STRING) /\ Stands(pos, line, column, tokens, ended)
      /\ Len(text) \in Nat /\ Items \in SUBSET (1 .. Len(text))
  BY Positions DEF LexerIInv, Items
<1>2. ASSUME ended = "end"
      PROVE  /\ WrongItems = {}
             /\ AreItemsBefore(Front(tokens), Len(text) + 1)
             /\ Last(tokens) = [type |-> "end", value |-> 0, line |-> LineOf(Len(text) + 1),
                                column |-> ColumnOf(Len(text) + 1)]
  <2>1. \A k \in Items : k < Len(text) + 1
    BY <1>1
  <2>2. Items = ItemsBefore(Len(text) + 1)
    BY <2>1 DEF ItemsBefore
  <2> QED
    BY <1>1, <1>2, <2>2 DEF Stands, WrongItems
<1>3. ASSUME ended = "error"
      PROVE  /\ WrongItems # {} /\ pos = Min(WrongItems)
             /\ line = LineOf(pos) /\ column = ColumnOf(pos)
             /\ AreItemsBefore(tokens, pos)
  <2>1. pos \in WrongItems
    BY <1>1, <1>3 DEF Stands, WrongItems
  <2>2. \A k \in WrongItems : ~(k < pos)
    BY <1>1 DEF Stands, WrongItems, ItemsBefore
  <2>3. WrongItems \in SUBSET Nat
    <3>1. 1 .. Len(text) \in SUBSET Nat /\ WrongItems \in SUBSET Items
      BY DEF WrongItems
    <3> QED
      BY <1>1, <3>1
  <2>4. Min(WrongItems) \in WrongItems /\ \A k \in WrongItems : Min(WrongItems) <= k
    BY <2>1, <2>3, MinIsLeast
  <2> DEFINE m == Min(WrongItems)
  <2> HIDE DEF m
  <2>5. pos = m
    <3>1. m \in Nat /\ pos \in Nat /\ m <= pos /\ ~(m < pos)
      BY <2>1, <2>2, <2>3, <2>4 DEF m
    <3> QED
      BY <3>1
  <2> QED
    BY <1>1, <1>3, <2>1, <2>5 DEF Stands, m
<1>4. ASSUME ended = "no" PROVE AreItemsBefore(tokens, pos)
  BY <1>1, <1>4 DEF Stands
<1> QED
  BY <1>2, <1>3, <1>4 DEF ReadsRunsOfLines

THEOREM LexerInvariant == Spec => []LexerIInv
BY InvariantInit, InvariantNext, PTL DEF Spec

\* tokenize reads a text as its lines say, whatever the text is: the tokens it returns
\* are the items of the lines, each where it begins, and what it fails at is the first
\* item that is no token.
THEOREM TextIsRead == Spec => []ReadsRunsOfLines
BY LexerInvariant, InvariantSays, PTL
=============================================================================
