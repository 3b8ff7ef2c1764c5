SPECIFICATION Spec
CONSTANTS
  Half = 8
  Nothing = Nothing
  Fresh <- AllInstructions
  Later <- SecondInstructions
INVARIANTS DecodedAsWritten AbortsOnlyAtBitFields FlagsTellResult ConditionsTellOrder BranchFollowsOrder
CHECK_DEADLOCK FALSE
