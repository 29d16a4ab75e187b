CONSTANTS
  Procs = {p1}
  Commands <- MCCommands
  Leftovers <- MCFewLeftovers
  Neighbours = {"none"}
  Entitlements <- MCFewEntitlements
  Others = {"parked"}
SPECIFICATION Spec
PROPERTY ParkedContainerKept
