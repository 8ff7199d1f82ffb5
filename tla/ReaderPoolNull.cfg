SPECIFICATION Spec
CONSTANTS
  t1 = t1
  t2 = t2
  Threads <- MCThreads
  Main = Main
  Nobody = Nobody
  Size = 2
  MaxFiles = 3
INVARIANTS
  AllFilesRead
