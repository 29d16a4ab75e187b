CONSTANTS
  Procs = {p1, p2}
  Commands <- MCScripted
  Leftovers <- MCFewLeftovers
  Neighbours = {"none"}
  Entitlements <- MCFewEntitlements
  Others = {"parked"}
SPECIFICATION Spec
SYMMETRY MCSymmetry
PROPERTIES RunningContainerSpared
