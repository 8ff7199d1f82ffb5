SPECIFICATION FairSpec
CONSTANTS
  t1 = t1
  t2 = t2
  t3 = t3
  Threads <- MCThreads
  Requests <- MCRequests
  NumAccounts = 3
  None = None
  MaxCalls = 4
INVARIANTS
  LocksHeld
  NoRace
  NoOverdraft
  MoneyConserved
PROPERTIES
  OperationsReturn
  AtomicBankSpec
