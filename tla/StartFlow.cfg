CONSTANTS
  Procs = {p1}
  Commands <- MCCommands
  Leftovers <- MCLeftovers
  Neighbours = {"none", "emulator", "conflict"}
  Entitlements <- MCEntitlements
  Others = {"parked", "transient"}
SPECIFICATION FairSpec
INVARIANTS TypeOK  StaleLicenseDropped FreshLicenseNotRetried 
PROPERTIES RunningContainerSpared StartEnds
