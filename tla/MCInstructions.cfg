SPECIFICATION Spec
CONSTANTS
  Registers = {5, 6, 7}
  Constants <- MCConstants
  Distances <- MCDistances
  Mod64 <- MCMod64
  MaxOperands = 3
INVARIANTS
  BranchesReach
  JumpsReachOrStop
  ConstantCallsReach
  OffsetsSurvive
  RegistersInOrder
