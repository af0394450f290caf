CONSTANTS
  Ports = {"amd64", "aarch64"}
  Faults <- MCFaults
  StackRoom = 3
  MaxFaults = 4
SPECIFICATION FairSpec
INVARIANTS TypeOK NamesTheException
PROPERTIES NoReset StaysHalted ComesToRest
CHECK_DEADLOCK FALSE
