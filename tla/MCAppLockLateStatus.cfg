CONSTANTS
  Pin = {p5, p8}
  LongPin = {p8}
  MaxRequests = 2
SPECIFICATION Spec
INVARIANTS FatalIsUnrecoverable
