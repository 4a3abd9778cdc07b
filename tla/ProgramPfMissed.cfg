SPECIFICATION ProgramsSpec
CONSTANTS
  NumIds = 2
  Times <- MCTimes
  PfTables <- MCPfTables
  Others = {"o1"}
  MaxRec <- MCMaxRec
  Cutoffs = {3}
INVARIANT
    PresentStored
CHECK_DEADLOCK FALSE
