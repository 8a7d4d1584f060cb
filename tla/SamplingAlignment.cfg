SPECIFICATION Spec
CONSTANTS
  Requests = {r1, r2, r3, r4}
  NoRequest = NoRequest
  BadWords = {r1}
  Greedy = {r1, r2}
  MaxNumSeqs = 3
INVARIANTS
  RowsAligned
  ProcessorsAligned
  ServedByOwn
