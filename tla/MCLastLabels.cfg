CONSTANTS
  SectionNames <- MCSections
  TextSection = ".text"
  OptionsBase = 1048576
  PageSeparation = TRUE
  PageSize = 4096
  BaseGranule = 16
  SectionOrder <- MCSectionOrder
  Labels <- MCLabels
  LabelOrder <- MCLabelOrder
  Vocabulary <- LabelStatements
  CodeLengths = {1}
  Forms <- Branches
  Widths = {}
  Lengths = {}
  Counts = {}
  Alignments = {}
  Bases = {}
  Mod32 <- MCMod32
  Mod64 <- MCMod64
  MaxStatements = 3
SPECIFICATION Spec
INVARIANTS
  LabelsStayInSection
