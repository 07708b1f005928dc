CONSTANTS
  SectionNames <- MCSections
  TextSection = ".text"
  OptionsBase = 1048576
  PageSeparation = TRUE
  PageSize = 4096
  BaseGranule = 16
  SectionOrder <- MCSectionOrder
  Labels <- MCLabels
  LabelOrder <- MCLabelOrder
  Vocabulary <- LabelStatements
  CodeLengths = {1}
  Forms <- Branches
  Widths = {8}
  Lengths = {}
  Counts = {}
  Alignments = {16}
  Bases = {}
  Mod32 <- MCMod32
  Mod64 <- MCMod64
  MaxStatements = 5
SPECIFICATION Spec
INVARIANTS
  TypeOK
  SiteOwnsItem
  ReferencesResolved
  LabelsAttachToNextItem
PROPERTIES
  SymbolsNeverMove
  CompleteProgramsFinish
  FinishEnds
  ImplementsLinker
