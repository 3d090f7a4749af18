SPECIFICATION Spec
CONSTANTS
  c1 = c1
  c2 = c2
  Clients = {c1}
  Setters = {}
  Flags = {"ALERTMASK"}
  MAX_RETRY = 2
INVARIANTS
  SuccessMeansServed
