SPECIFICATION FairSpec
CONSTANTS
  t1 = t1
  t2 = t2
  op = op
  Threads <- MCThreads
  Ops <- MCOps
  Main = Main
  None = None
  Exit = Exit
  BufferDim = 2
  MaxCommands = 3
INVARIANTS
  TypeOK
  RingInOrder
  SlotExclusive
  PendingExact
  ForkQuiescent
  CleanExit
PROPERTIES
  SimulationForked
  ExitEnds
  CommandQueueSpec
