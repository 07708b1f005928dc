CONSTANTS
  SectionNames <- MCSections
  TextSection = ".text"
  OptionsBase = 1048576
  PageSeparation = TRUE
  PageSize = 4096
  BaseGranule = 16
  MaxSections = 3
  Sizes <- MCSizes
  Bases <- MCBases
SPECIFICATION LayoutSpec
INVARIANTS
  LayoutTypeOK
  AutomaticSectionsDisjoint
  AutomaticBaseAligned
  DataLeavesPinnedCodePages
PROPERTY SetBasesKept
