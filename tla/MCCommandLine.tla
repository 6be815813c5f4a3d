---------------------------- MODULE MCCommandLine ----------------------------
(***************************************************************************)
(* Every command line of up to three arguments, and of four or five of     *)
(* those that belong together.                                             *)
(***************************************************************************)
EXTENDS CommandLine, SequencesExt

Arg(kind, value) == [kind |-> kind, value |-> value]

SomeRange == <<[begin |-> 1, end |-> 2]>>

Together ==
    {Arg(TraceKind, <<"ram-wr">>), Arg(TraceKind, <<"disasm">>), Arg(TicksKind, SomeRange),
     Arg(AddressesKind, SomeRange), Arg(InputKind, "p"), Arg(HelpKind, "")}

Pool ==
    Together \union
    {Arg(TraceKind, <<>>), Arg(TraceKind, <<"disasm", "ram-wr">>),
     Arg(TraceKind, <<"ram-wr", "ram-wr">>), Arg(TraceKind, <<"disasm", "">>),
     Arg(WarnKind, <<"uninit-ram">>), Arg(WarnKind, <<"uninit">>),
     Arg(TicksKind, <<>>), Arg(AddressesKind, <<>>),
     Arg(RamSizeKind, -1), Arg(RamSizeKind, 0), Arg(RamSizeKind, 6), Arg(RamSizeKind, 4),
     Arg(RamSizeKind, 1024), Arg(RamSizeKind, 1028),
     Arg(ClearKind, ""), Arg(UnknownKind, "-z"), Arg(InputKind, "")}

MCCommandLines == BoundedSeq(Pool, 3) \union [1 .. 4 -> Together]
=============================================================================
