SPECIFICATION MCFairSpec
CONSTANTS
  c1 = c1
  c2 = c2
  Clients = {c1, c2}
  Setters = {s1}
  Flags = {"ALERTMASK"}
  MAX_RETRY = 1
INVARIANTS
  TypeOK
  ClearedMeansRecovered
  NoSpuriousRequest
PROPERTIES
  CallsReturn
