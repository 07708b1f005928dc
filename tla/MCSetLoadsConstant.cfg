SPECIFICATION Spec
CONSTANTS
  Low <- MCLow
  High <- MCHigh
  Constants <- MCConstants
  Locations <- MCLocations
  Targets <- MCTargets
  Leftovers <- MCLeftovers
INVARIANT
  SetLoadsConstant
