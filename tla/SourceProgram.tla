---------------------------- MODULE SourceProgram ----------------------------
(***************************************************************************)
(* What a program in assembly language means, statement by statement: the  *)
(* abstract specification of assembling a source and executing the result. *)
(* A pseudo-instruction is one step here and there is no R31.              *)
(*                                                                         *)
(* Only an address shows how a statement is encoded: CALL saves one, AJMP  *)
(* and CALL go to one, and a relative jump counts instruction words.       *)
(***************************************************************************)
EXTENDS Assembly, FiniteSets

CONSTANTS
    Texts,         \* the programs: sequences of statements
    Meaning(_, _, _)  \* what an RRR operation computes

VARIABLES
    text,  \* the statements of the program; none before it is loaded
    at,    \* the statement to be executed; 0 for a place where there is none
    regs   \* R0 .. R15

vars == <<text, at, regs>>

UserRegisters == 0 .. 15

Statement(op, args) == [op |-> op, args |-> args]

\* How many instructions a statement takes (docs/PROC.md on pseudo-instructions).
Width(op) ==
    CASE op \in {NEG, LFI} -> 2
      [] op = NOT -> 3
      [] OTHER -> 1

\* The addresses of the statements; with the last one the program ends.
Starts ==
    LET wider(n, words) == {k \in 1 .. n - 1 : Width(text[k].op) >= words}
    IN  [n \in 1 .. Len(text) + 1 |->
            InstructionSize * (n - 1 + Cardinality(wider(n, 2)) + Cardinality(wider(n, 3)))]

\* The statement at an address.
PlaceOf(address) ==
    LET starts == Starts
        places == {n \in DOMAIN starts : starts[n] = address}
    IN  IF places = {} THEN 0 ELSE CHOOSE n \in places : TRUE

Init ==
    /\ text = <<>>
    /\ at = 1
    /\ regs = [r \in UserRegisters |-> 0]

Load ==
    /\ text = <<>>
    /\ text' # <<>>
    /\ text' \in Texts
    /\ UNCHANGED <<at, regs>>

-----------------------------------------------------------------------------
(* Statements *)

Executing(ops) == at \in DOMAIN text /\ text[at].op \in ops

Arg(k) == text[at].args[k]

\* The value of the register that the k-th operand names.
Of(k) == regs[Arg(k)]

\* The first operand is the destination of the value.
Assign(value) ==
    /\ regs' = [regs EXCEPT ![Arg(1)] = value]
    /\ at' = at + 1
    /\ UNCHANGED text

Goto(address) ==
    /\ at' = PlaceOf(address)
    /\ UNCHANGED text

Move == Executing({MOV}) /\ Assign(Of(2))

Negate == Executing({NEG}) /\ Assign(Unsigned(-Of(2)))

Invert == Executing({NOT}) /\ Assign(WordMod - 1 - Of(1))

LoadFull == Executing({LFI}) /\ Assign(Arg(2))

LoadLower == Executing({LI}) /\ Assign(Arg(2))

LoadUpper == Executing({LUI}) /\ Assign(HalfMod * Arg(2) + (Of(1) % HalfMod))

Calculate ==
    /\ Executing(RRR)
    /\ text[at].op \in {UDIV, SDIV} => Of(3) # 0
    /\ Assign(Meaning(text[at].op, Of(2), Of(3)))

\* The k-th operand is a distance in instruction words, from the jump itself.
Target(k) == Starts[at] + InstructionSize * SignedPart(Arg(k), HalfMod)

Jump ==
    /\ Executing({RJMP})
    /\ Target(1) \in 0 .. WordMod
    /\ Goto(Target(1))
    /\ UNCHANGED regs

Branch ==
    /\ Executing({BRZ, BRNZ})
    /\ IF (Of(1) = 0) = (text[at].op = BRZ)
       THEN Target(2) \in 0 .. WordMod /\ Goto(Target(2))
       ELSE at' = at + 1 /\ UNCHANGED text
    /\ UNCHANGED regs

JumpToRegister == Executing({AJMP}) /\ Goto(Of(1)) /\ UNCHANGED regs

CallSubroutine ==
    /\ Executing({CALL})
    /\ Goto(Of(1))
    /\ regs' = [regs EXCEPT ![ReturnAddress] = Starts[at + 1]]

ReturnFromSubroutine == Executing({RET}) /\ Goto(regs[ReturnAddress]) /\ UNCHANGED regs

Execute ==
    \/ Move
    \/ Negate
    \/ Invert
    \/ LoadFull
    \/ LoadLower
    \/ LoadUpper
    \/ Calculate
    \/ Jump
    \/ Branch
    \/ JumpToRegister
    \/ CallSubroutine
    \/ ReturnFromSubroutine

Spec == Init /\ [][Load \/ Execute]_vars

-----------------------------------------------------------------------------

\* There is a statement to execute, and nothing is wrong with it.
CanExecute ==
    /\ at \in DOMAIN text
    /\ text[at].op \in {UDIV, SDIV} => Of(3) # 0
    /\ text[at].op = RJMP => Target(1) \in 0 .. WordMod
    /\ text[at].op \in {BRZ, BRNZ} /\ (Of(1) = 0) = (text[at].op = BRZ) =>
          Target(2) \in 0 .. WordMod
=============================================================================
