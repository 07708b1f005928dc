SPECIFICATION Spec
CONSTANTS
  Low <- MCLow
  High <- MCHigh
  Constants <- MCConstants
  Locations <- MCLocations
  Targets <- MCTargets
  Leftovers <- MCLeftovers
INVARIANTS
  LiLoads
  PartsAddUp
  LaLoadsReachable
  FarcallReachesLowHalf
