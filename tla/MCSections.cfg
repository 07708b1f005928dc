CONSTANTS
  SectionNames <- MCSections
  TextSection = ".text"
  OptionsBase = 1048576
  PageSeparation = TRUE
  PageSize = 4096
  BaseGranule = 16
  SectionOrder <- MCSectionOrder
  Labels <- OneLabel
  LabelOrder <- OneLabelOrder
  Vocabulary <- SectionStatements
  CodeLengths = {1}
  Forms <- LongAndJumps
  Widths = {8}
  Lengths = {1}
  Counts <- MCCounts
  Alignments <- MCAlignments
  Bases <- MCBases
  Mod32 <- MCMod32
  Mod64 <- MCMod64
  MaxStatements = 5
SPECIFICATION Spec
INVARIANTS
  SiteOwnsItem
  LabelsAccountedFor
  ReferencesResolved
  SizesMeasureData
  LastTypeWins
  AutomaticSectionsDisjoint
PROPERTIES
  BaseFixedByCode
