CONSTANTS
  BufferSize = 6
  Numbers <- MCNumbers
  MaxFaults = 1
SPECIFICATION FairSpec
INVARIANTS TypeOK ReadsBack
PROPERTY CallEnds
