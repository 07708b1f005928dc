CONSTANTS
  SectionNames <- MCSections
  TextSection = ".text"
  OptionsBase = 1048576
  PageSeparation = TRUE
  PageSize = 4096
  BaseGranule = 16
  SectionOrder <- MCSectionOrder
  Labels <- OneLabel
  LabelOrder <- OneLabelOrder
  Vocabulary <- OrgStatements
  CodeLengths = {1}
  Forms = {}
  Widths = {8}
  Lengths = {1}
  Counts <- MCCounts
  Alignments <- MCAlignments
  Bases <- MCBases
  Mod32 <- MCMod32
  Mod64 <- MCMod64
  MaxStatements = 4
SPECIFICATION Spec
PROPERTIES
  BaseFixedOnceGenerated
