--------------------------- MODULE MCProgramStore ---------------------------
(***************************************************************************)
(* A small programme guide: two programmes of one service.                 *)
(***************************************************************************)
EXTENDS ProgramStore

\* Times that touch, overlap and are undecided
MCTimes == {<<1, 1>>, <<2, 1>>}

MCPfTables ==
    {<<1, <<1, 1>>, 2, <<2, 1>>>>, <<2, <<1, 1>>, 1, <<2, 1>>>>,
     <<1, <<1, 0>>, 0, <<1, 1>>>>}

MCMaxRec == [actual |-> 2, o1 |-> 1]
=============================================================================
