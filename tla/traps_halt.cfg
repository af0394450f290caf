CONSTANTS
  Ports = {"amd64", "aarch64"}
  Faults <- MCFaults
  StackRoom = 3
  MaxFaults = 4
SPECIFICATION Spec
PROPERTY FullyHalted
CHECK_DEADLOCK FALSE
