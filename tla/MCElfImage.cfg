SPECIFICATION ElfSpec
CONSTANTS
  Programs <- MCPrograms
  NameLength <- MCNameLength
  Reserved = 80
  FixedSize = 20
  PhdrSize = 4
  SymSize = 5
  AddrMod = 8
INVARIANTS
  SymbolsAreFound
  PartsTileFile
  SegmentsRightOrMissing
