-------------------------------- MODULE Lexer --------------------------------
(***************************************************************************)
(* The lexer (assembler/src/lexer.cpp): it walks over the characters of a  *)
(* source, keeping the line and the column it is at, and appends a token   *)
(* for every word, number and line break until it comes to the end or to   *)
(* something that is no token.                                             *)
(*                                                                         *)
(* A text is a sequence of one-character strings.                          *)
(***************************************************************************)
EXTENDS Assembly, SequencesExt

CONSTANTS
    Texts,       \* the source texts
    NumberLimit  \* 2^64: the least number that stoul and stoull refuse

ASSUME TextsAssumption == Texts \subseteq Seq(STRING)

VARIABLES
    text,    \* source_
    pos,     \* pos_, counted from 1
    line,    \* line_
    column,  \* column_
    tokens,  \* the tokens so far
    ended    \* "no", "end" of the source or "error": then at line and column

vars == <<text, pos, line, column, tokens, ended>>

Digits == {"0", "1", "2", "3", "4", "5", "6", "7", "8", "9"}
LowerLetters ==
    <<"a", "b", "c", "d", "e", "f", "g", "h", "i", "j", "k", "l", "m",
      "n", "o", "p", "q", "r", "s", "t", "u", "v", "w", "x", "y", "z">>
UpperLetters ==
    <<"A", "B", "C", "D", "E", "F", "G", "H", "I", "J", "K", "L", "M",
      "N", "O", "P", "Q", "R", "S", "T", "U", "V", "W", "X", "Y", "Z">>

Letters == Range(LowerLetters) \union Range(UpperLetters)
HexDigits == <<"0", "1", "2", "3", "4", "5", "6", "7", "8", "9", "A", "B", "C", "D", "E", "F">>

\* No character: what current and peek give behind the end, and what a text may hold too.
Nul == "nul"
LineFeed == "\n"
CarriageReturn == "\r"
Comment == "#"
Blanks == {" ", "\t"}

ToUpper(c) ==
    IF c \in Range(LowerLetters)
    THEN UpperLetters[CHOOSE k \in DOMAIN LowerLetters : LowerLetters[k] = c]
    ELSE c

\* toUpperCopy: the string of these characters.
UpperString(s) == FoldLeft(LAMBDA word, c : word \o ToUpper(c), "", s)

\* The names that operationFromString and statusRegisterFromString know.
OperationFromString ==
    [LI |-> LI, LUI |-> LUI, ADD |-> ADD, SUB |-> SUB, AND |-> AND, OR |-> OR, XOR |-> XOR,
     SLL |-> SLL, SRL |-> SRL, SRA |-> SRA, MUL |-> MUL, UDIV |-> UDIV, SDIV |-> SDIV,
     LDB |-> LDB, LDH |-> LDH, LDW |-> LDW, STB |-> STB, STH |-> STH, STW |-> STW,
     SXT |-> SXT, BSWAP |-> BSWAP, SCRW |-> SCRW, SCRR |-> SCRR, ASPI |-> ASPI,
     ASPR |-> ASPR, RJMP |-> RJMP, BRZ |-> BRZ, BRNZ |-> BRNZ, AJMP |-> AJMP,
     CALL |-> CALL, EQ |-> EQ, NE |-> NE, LT |-> LT, GE |-> GE, SLT |-> SLT, SGE |-> SGE,
     MOV |-> MOV, NEG |-> NEG, NOT |-> NOT, LFI |-> LFI, RET |-> RET]

StatusRegisterFromString == [IP |-> Ip, SP_TOP |-> SpTop, SP_SIZE |-> SpSize]
-----------------------------------------------------------------------------
(* Words and numbers: the token that a lexeme is, or none *)

\* stoul and stoull: the number that digits below the base stand for.
Value(digits, base) ==
    FoldLeft(LAMBDA v, c : base * v + (CHOOSE k \in 1 .. base : HexDigits[k] = ToUpper(c)) - 1,
             0, digits)

\* parseRegisterIndex: any number of digits, and R16 is a register for the lexer.
IsRegister(s) ==
    /\ Len(s) >= 2 /\ ToUpper(s[1]) = "R"
    /\ Range(Tail(s)) \subseteq Digits
    /\ Value(Tail(s), 10) < NumberLimit

\* lexWord
WordToken(s) ==
    LET word == UpperString(s)
    IN  IF IsRegister(s) THEN {RegisterOperand(Value(Tail(s), 10))}
        ELSE IF word \in DOMAIN StatusRegisterFromString
             THEN {[type |-> StatusKind, value |-> StatusRegisterFromString[word]]}
        ELSE IF word \in DOMAIN OperationFromString
             THEN {[type |-> "operation", value |-> OperationFromString[word]]}
        ELSE {}

\* parseInteger, of 0x and hexadecimal digits.
NumberToken(s) ==
    IF Len(s) > 2 /\ Value(SubSeq(s, 3, Len(s)), 16) < NumberLimit
    THEN {ImmediateOperand(Value(SubSeq(s, 3, Len(s)), 16))}
    ELSE {}

IsHexDigit(c) == ToUpper(c) \in Range(HexDigits)

-----------------------------------------------------------------------------
(* The text ahead *)

\* current and peek
At(k) == IF k \in DOMAIN text THEN text[k] ELSE Nul

HexNumberAt(k) == At(k) = "0" /\ At(k + 1) \in {"x", "X"}

NewLineAt(k) == At(k) = LineFeed \/ (At(k) = CarriageReturn /\ At(k + 1) = LineFeed)

\* isTokenSeparator
SeparatorAt(k) == At(k) \in Blanks \union {Nul} \/ NewLineAt(k)

\* The first of these positions from k on, or the end.
FirstFrom(k, positions) == Min({j \in positions : j >= k} \union {Len(text) + 1})

NewLines == {k \in DOMAIN text : NewLineAt(k)}
Separators == {k \in DOMAIN text : SeparatorAt(k)}

\* skipWhitespace: where the next token begins.
Begin == FirstFrom(pos, {k \in DOMAIN text : text[k] \notin Blanks})

Lexing == ended = "no" /\ Begin \in DOMAIN text

-----------------------------------------------------------------------------
(* The turns of the loop of tokenize *)

\* advance, over characters none of which is a line break.
AdvanceTo(k) ==
    /\ pos' = k
    /\ column' = column + (k - pos)
    /\ UNCHANGED <<text, line>>

\* A token of the characters from Begin to k; without one, fail at Begin.
Take(found, k) ==
    IF found = {} THEN AdvanceTo(Begin) /\ ended' = "error" /\ UNCHANGED tokens
    ELSE /\ AdvanceTo(k)
         /\ \E t \in found :
               tokens' = Append(tokens, [type |-> t.type, value |-> t.value, line |-> line,
                                         column |-> column + (Begin - pos)])
         /\ UNCHANGED ended

\* Mutant: the character that starts the comment is taken for its end.
SkipCommentInPlace ==
    /\ Lexing
    /\ At(Begin) = Comment
    /\ AdvanceTo(Begin)
    /\ UNCHANGED <<tokens, ended>>

SkipComment ==
    /\ Lexing
    /\ At(Begin) = Comment
    /\ AdvanceTo(FirstFrom(Begin, NewLines))
    /\ UNCHANGED <<tokens, ended>>

LexNumber ==
    /\ Lexing
    /\ HexNumberAt(Begin)
    /\ LET k == FirstFrom(Begin + 2, {j \in DOMAIN text : ~IsHexDigit(text[j])})
       IN  Take(IF SeparatorAt(k) THEN NumberToken(SubSeq(text, Begin, k - 1)) ELSE {}, k)

LexWord ==
    /\ Lexing
    /\ At(Begin) \in Letters
    /\ LET k == FirstFrom(Begin, Separators)
       IN  Take(WordToken(SubSeq(text, Begin, k - 1)), k)

\* Mutant: only the first character of CR LF is passed.
LexNewLineHalf ==
    /\ Lexing
    /\ NewLineAt(Begin)
    /\ tokens' = Append(tokens, [type |-> "newline", value |-> 0, line |-> line,
                                 column |-> column + (Begin - pos)])
    /\ pos' = Begin + 1
    /\ line' = line + 1 /\ column' = 1
    /\ UNCHANGED <<text, ended>>

\* advance, over a line break.
LexNewLine ==
    /\ Lexing
    /\ NewLineAt(Begin)
    /\ tokens' = Append(tokens, [type |-> "newline", value |-> 0, line |-> line,
                                 column |-> column + (Begin - pos)])
    /\ pos' = Begin + (IF At(Begin) = CarriageReturn THEN 2 ELSE 1)
    /\ line' = line + 1 /\ column' = 1
    /\ UNCHANGED <<text, ended>>

UnexpectedCharacter ==
    /\ Lexing
    /\ At(Begin) \notin Letters \union {Comment} /\ ~HexNumberAt(Begin) /\ ~NewLineAt(Begin)
    /\ Take({}, Begin)

EndOfSource ==
    /\ ended = "no"
    /\ Begin \notin DOMAIN text
    /\ AdvanceTo(Begin)
    /\ ended' = "end"
    /\ tokens' = Append(tokens, [type |-> "end", value |-> 0, line |-> line,
                                 column |-> column + (Begin - pos)])

Init ==
    /\ text \in Texts
    /\ pos = 1 /\ line = 1 /\ column = 1
    /\ tokens = <<>>
    /\ ended = "no"

Next ==
    \/ SkipComment
    \/ LexNumber
    \/ LexWord
    \/ LexNewLine
    \/ UnexpectedCharacter
    \/ EndOfSource

\* A sequential function: it goes on until it returns or throws.
Spec == Init /\ [][Next]_vars /\ WF_vars(Next)

-----------------------------------------------------------------------------
(* Properties *)

\* The line and the column of a position, counted from the line feeds before it.
LineFeedsBefore(k) == {j \in 1 .. k - 1 : text[j] = LineFeed}
LineOf(k) == 1 + Cardinality(LineFeedsBefore(k))
ColumnOf(k) == IF LineFeedsBefore(k) = {} THEN k ELSE k - Max(LineFeedsBefore(k))

\* The text without its blanks: line breaks, and runs of other characters.
IsSpace(k) ==
    \/ text[k] \in Blanks \union {LineFeed}
    \/ text[k] = CarriageReturn /\ At(k + 1) = LineFeed

StartsBreak(k) ==
    \/ text[k] = CarriageReturn /\ At(k + 1) = LineFeed
    \/ text[k] = LineFeed /\ (k = 1 \/ text[k - 1] # CarriageReturn)

StartsRun(k) == ~IsSpace(k) /\ (k = 1 \/ IsSpace(k - 1) \/ Nul \in {text[k - 1], text[k]})

RunAt(k) == SubSeq(text, k, FirstFrom(k + 1, {j \in DOMAIN text : IsSpace(j) \/ text[j] = Nul}) - 1)

Commented(k) ==
    \E j \in 1 .. k : StartsRun(j) /\ text[j] = Comment /\ LineOf(j) = LineOf(k)

Items == {k \in DOMAIN text : StartsBreak(k) \/ (StartsRun(k) /\ ~Commented(k))}

TokenOf(s) ==
    IF Len(s) > 1 /\ s[1] = "0" /\ s[2] \in {"x", "X"}
    THEN IF \A k \in 3 .. Len(s) : IsHexDigit(s[k]) THEN NumberToken(s) ELSE {}
    ELSE IF s[1] \in Letters THEN WordToken(s) ELSE {}

ItemAt(k) == IF StartsBreak(k) THEN {[type |-> "newline", value |-> 0]} ELSE TokenOf(RunAt(k))

WrongItems == {k \in Items : ItemAt(k) = {}}

\* The token of the item at a position, at the line and the column of the position.
TokenAt(k) ==
    LET t == CHOOSE t \in ItemAt(k) : TRUE
    IN  [type |-> t.type, value |-> t.value, line |-> LineOf(k), column |-> ColumnOf(k)]

ItemsBefore(n) == {k \in Items : k < n}

\* One token for every item of the text before position n, in the order of the items.
AreItemsBefore(found, n) ==
    /\ Len(found) = Cardinality(ItemsBefore(n))
    /\ \A k \in ItemsBefore(n) : found[Cardinality(ItemsBefore(k)) + 1] = TokenAt(k)

\* A text is read as its lines say, however they end and whatever blanks there are:
\* every run of characters before a comment is one token, at the line and column where
\* it begins; the first that is none is reported there, after the tokens before it
\* (tokenize and what it calls).
ReadsRunsOfLines ==
    /\ ended = "end" =>
          /\ WrongItems = {}
          /\ AreItemsBefore(Front(tokens), Len(text) + 1)
          /\ Last(tokens) = [type |-> "end", value |-> 0, line |-> LineOf(Len(text) + 1),
                             column |-> ColumnOf(Len(text) + 1)]
    /\ ended = "error" =>
          /\ WrongItems # {} /\ pos = Min(WrongItems)
          /\ line = LineOf(pos) /\ column = ColumnOf(pos)
          /\ AreItemsBefore(tokens, pos)
    /\ ended = "no" => AreItemsBefore(tokens, pos)

\* The lexer returns for every text: each turn passes at least one character.
LexerEnds == <>(ended # "no")
=============================================================================
