SPECIFICATION FairSpec
CONSTANTS
  Threads = {main, t1}
  Main = main
  PipeSize = 3
  MaxInput = 4
INVARIANTS
  NamesReachReader
  TogglesCount
  NeverStuck
PROPERTIES
  MonitorEnds
