SPECIFICATION Spec
CONSTANTS
  Requests = {r1, r2, r3}
  NoRequest = NoRequest
  BadWords = {r1}
  Greedy = {r1}
  MaxNumSeqs = 3
INVARIANTS
  InvariantServedByOwn
