SPECIFICATION Spec
CONSTANTS
  t1 = t1
  t2 = t2
  Threads <- MCThreads
  Requests <- MCRequests
  Years <- MCYears
  Main = Main
  None = None
  Exit = Exit
  BufferDim = 2
  NumAccounts = 2
  MaxCommands = 2
  MaxChildren = 2
SYMMETRY Symmetric
INVARIANTS
  SnapshotSettled
  NothingLeftBehind
