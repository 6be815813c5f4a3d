------------------------------- MODULE MCLexer -------------------------------
(***************************************************************************)
(* Every text of up to three pieces, or four of a few: words, numbers,     *)
(* blanks, line breaks and comments, and what is almost one.               *)
(***************************************************************************)
EXTENDS Lexer

Pieces ==
    {<<"L", "i">>, <<"M", "O", "V">>, <<"R", "1">>, <<"r", "3", "0", "0">>, <<"i", "P">>, <<"X">>,
     <<"0", "x", "1", "f">>, <<"0", "X">>, <<"0", "x", "1", "0", "0">>, <<"0">>,
     <<" ">>, <<"\t">>, <<"\n">>, <<"\r", "\n">>, <<"\r">>, <<"#">>, <<"nul">>}

FewPieces == {<<"L", "i">>, <<"R", "1">>, <<" ">>, <<"\n">>, <<"\r", "\n">>, <<"#">>}

MCTexts == {FlattenSeq(s) : s \in BoundedSeq(Pieces, 3) \union [1 .. 4 -> FewPieces]}
=============================================================================
