SPECIFICATION Spec
CONSTANTS
  w1 = w1
  w2 = w2
  Writers <- MCWriters
  Readers = {r1}
  Files = {f1}
  Strings = {a, b}
  Lines = 2
  Bad = Bad
  Unwritten = Unwritten
  MaxReads = 1
  MaxSignals = 2
INVARIANTS
  LockedWrites
