SPECIFICATION DriverSpec
CONSTANTS
  FileSystems <- MCFileSystems
  Arguments <- MCArguments
  Entry = "_start"
  MaxDepth = 4
INVARIANTS
  IncludesAreInline
  LateFailureIsGlobal
