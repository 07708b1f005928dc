SPECIFICATION Spec
CONSTANTS
  Texts <- MCTexts
  HalfDigits = 1
  IntBound = 4
  OpcodeWords <- MCOpcodeWords
  RegisterWords <- MCRegisterWords
  PseudoOpWords <- MCPseudoOpWords
INVARIANTS
  TokensAreTheWords
  HexIsPositional
  AcceptedIsArithmetic
  OneOperatorJoinsAll
  LowHalfIsInteger
PROPERTIES
  ExpressionEnds
