SPECIFICATION MCSpec
CONSTANTS
  c1 = c1
  c2 = c2
  Clients = {c1, c2}
  Calls <- MCCalls
  Arguments <- Samples
  PowerOn <- AllOnes
  Readers = {r1, r2}
  Lowest = 7
  Highest = 8
  Setters = {s1, s2}
  Getters = {g1}
  Kinds <- MCKinds
  Requests <- MCRequests
  Start = 0
  Low = 21
SYMMETRY Same
INVARIANTS
  UncontendedUpdatesSurvive
  ReservedBitsKept
  TempWasMeasured
  WithinADegree
  ThresholdIsLastSet
  LowBitsKept
  GetIsNotTorn
PROPERTIES
  ImplementsSettings
