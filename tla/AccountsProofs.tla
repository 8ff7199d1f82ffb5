--------------------------- MODULE AccountsProofs ----------------------------
(***************************************************************************)
(* Proofs about the account operations of i-banco, for any number of       *)
(* threads, accounts, requests and calls: who holds which mutex, that no   *)
(* two threads touch the same balance, that no balance is negative, that   *)
(* the operations are atomic (Accounts implements AtomicBank), and that    *)
(* no money is made or lost.                                               *)
(***************************************************************************)
EXTENDS Accounts, FiniteSetTheorems, WellFoundedInduction, TLAPS

(* What a thread's place in the code says of its request: past the first
   checks the accounts exist and a transfer's are different, and only some
   operations reach each place. *)
Steps(t) ==
  /\ at[t] # "idle" => req[t] \in Requests
  /\ at[t] \notin {"idle", "begin", "return"} => Accepted(req[t])
  /\ at[t] \in {"lock_second", "unlock_dest"} => req[t].op = "transfer"
  /\ at[t] \in {"test", "subtract"} => req[t].op \in {"debit", "transfer"}
  /\ at[t] = "add" => req[t].op \in {"credit", "transfer"}
  /\ at[t] = "read" => req[t].op = "get_balance"
StepsOK == \A t \in Threads : Steps(t)

(* Between the test and the subtraction the account still has the money. *)
Covered ==
  \A t \in Threads :
    at[t] = "subtract" => account_balance[req[t].src] >= req[t].amount

NoNegative == \A r \in Requests : r.amount >= 0

(* The inductive invariants: of the mutexes, and of the balances. *)
LockInv    == TypeOK /\ StepsOK /\ LocksHeld
BalanceInv == NoNegative => Covered /\ \A a \in Accounts : account_balance[a] >= 0

----------------------------------------------------------------------------
(* A request the checks let through names accounts that exist. *)
LEMMA AcceptedRequest ==
  ASSUME NEW r \in Requests, Accepted(r)
  PROVE  /\ r.src \in Accounts /\ r.src \in Int /\ r.amount \in Int
         /\ r.op = "transfer" => r.dest \in Accounts /\ r.dest # r.src
         /\ FirstLock(r) \in Accounts /\ SecondLock(r) \in Accounts \cup {r.dest}
         /\ r.op \in {"debit", "credit", "transfer", "get_balance"}
  BY RequestsAssumption DEF IsRequest, Accepted, account_exists, FirstLock,
     SecondLock

(* The two locks of a transfer are on its two accounts. *)
LEMMA TransferLocks ==
  ASSUME NEW r \in Requests, r.op = "transfer", Accepted(r)
  PROVE  /\ FirstLock(r) \in Accounts /\ SecondLock(r) \in Accounts
         /\ FirstLock(r) # SecondLock(r)
         /\ {FirstLock(r), SecondLock(r)} = {r.src, r.dest}
  BY AcceptedRequest DEF FirstLock, SecondLock

LEMMA InitLocks == Init => LockInv
  BY ThreadsAssumption DEF Init, LockInv, TypeOK, StepsOK, Steps, LocksHeld,
     Locked, Labels

(* Every step keeps the variables in their types. *)
LEMMA TypeStep == TypeOK /\ StepsOK /\ [Next]_vars => TypeOK'
<1> SUFFICES ASSUME TypeOK, StepsOK, [Next]_vars PROVE TypeOK'
  OBVIOUS
<1> USE DEF TypeOK
<1>1. ASSUME NEW t \in Threads, NEW r \in Requests, Call(t, r) PROVE TypeOK'
  BY <1>1, CallsAssumption DEF Call, Goto, Labels
<1>2. ASSUME NEW t \in Threads, Begin(t) PROVE TypeOK'
  BY <1>2 DEF Begin, Goto, Labels, Failed
<1>3. ASSUME NEW t \in Threads, LockFirst(t) PROVE TypeOK'
  <2>1. /\ req[t] \in Requests /\ Accepted(req[t])
    BY <1>3 DEF LockFirst, Goto, StepsOK, Steps
  <2>2. Body(req[t]) \in Labels
    BY <2>1, AcceptedRequest DEF Body, Labels
  <2> QED
    BY <1>3, <2>2 DEF LockFirst, lock_account, Goto, Labels
<1>4. ASSUME NEW t \in Threads, LockSecond(t) PROVE TypeOK'
  <2>1. /\ req[t] \in Requests /\ Accepted(req[t])
    BY <1>4 DEF LockSecond, Goto, StepsOK, Steps
  <2>2. Body(req[t]) \in Labels
    BY <2>1, AcceptedRequest DEF Body, Labels
  <2> QED
    BY <1>4, <2>2 DEF LockSecond, lock_account, Goto
<1>5. ASSUME NEW t \in Threads, Test(t) PROVE TypeOK'
  BY <1>5 DEF Test, Goto, Labels, Failed
<1>6. ASSUME NEW t \in Threads, Subtract(t) PROVE TypeOK'
  <2>1. /\ req[t].src \in Accounts /\ req[t].amount \in Int
    BY <1>6, AcceptedRequest DEF Subtract, Goto, StepsOK, Steps
  <2> QED
    BY <1>6, <2>1 DEF Subtract, Goto, Labels
<1>7. ASSUME NEW t \in Threads, Add(t) PROVE TypeOK'
  <2>1. /\ Target(req[t]) \in Accounts /\ req[t].amount \in Int
    BY <1>7, AcceptedRequest DEF Add, Goto, StepsOK, Steps, Target
  <2> QED
    BY <1>7, <2>1 DEF Add, Goto, Labels
<1>8. ASSUME NEW t \in Threads, Read(t) PROVE TypeOK'
  <2>1. req[t].src \in Accounts
    BY <1>8, AcceptedRequest DEF Read, Goto, StepsOK, Steps
  <2> QED
    BY <1>8, <2>1 DEF Read, Goto, Labels
<1>9. ASSUME NEW t \in Threads, UnlockSrc(t) PROVE TypeOK'
  BY <1>9 DEF UnlockSrc, unlock_account, Goto, Labels
<1>10. ASSUME NEW t \in Threads, UnlockDest(t) PROVE TypeOK'
  BY <1>10 DEF UnlockDest, unlock_account, Goto, Labels
<1>11. ASSUME NEW t \in Threads, Return(t) PROVE TypeOK'
  BY <1>11 DEF Return, Goto, Labels
<1>12. CASE UNCHANGED vars
  BY <1>12 DEF vars
<1> QED
  BY <1>1, <1>2, <1>3, <1>4, <1>5, <1>6, <1>7, <1>8, <1>9, <1>10, <1>11,
     <1>12 DEF Next, OperationStep, Stop

----------------------------------------------------------------------------
(* Every step keeps each thread's request fit for its place. *)
LEMMA StepsStep == TypeOK /\ StepsOK /\ [Next]_vars => StepsOK'
<1> SUFFICES ASSUME TypeOK, StepsOK, [Next]_vars PROVE StepsOK'
  OBVIOUS
<1> USE DEF TypeOK
<1>1. ASSUME NEW t \in Threads, NEW r \in Requests, Call(t, r) PROVE StepsOK'
  BY <1>1 DEF Call, Goto, StepsOK, Steps
<1>2. ASSUME NEW t \in Threads, Begin(t) PROVE StepsOK'
  BY <1>2 DEF Begin, Goto, StepsOK, Steps
<1>3. ASSUME NEW t \in Threads, LockFirst(t) PROVE StepsOK'
  <2>1. /\ req[t] \in Requests /\ Accepted(req[t])
    BY <1>3 DEF LockFirst, Goto, StepsOK, Steps
  <2> QED
    BY <1>3, <2>1, AcceptedRequest DEF LockFirst, Goto, StepsOK, Steps, Body
<1>4. ASSUME NEW t \in Threads, LockSecond(t) PROVE StepsOK'
  BY <1>4 DEF LockSecond, Goto, StepsOK, Steps, Body
<1>5. ASSUME NEW t \in Threads, Test(t) PROVE StepsOK'
  BY <1>5 DEF Test, Goto, StepsOK, Steps
<1>6. ASSUME NEW t \in Threads, Subtract(t) PROVE StepsOK'
  BY <1>6 DEF Subtract, Goto, StepsOK, Steps
<1>7. ASSUME NEW t \in Threads, Add(t) PROVE StepsOK'
  BY <1>7 DEF Add, Goto, StepsOK, Steps
<1>8. ASSUME NEW t \in Threads, Read(t) PROVE StepsOK'
  BY <1>8 DEF Read, Goto, StepsOK, Steps
<1>9. ASSUME NEW t \in Threads, UnlockSrc(t) PROVE StepsOK'
  BY <1>9 DEF UnlockSrc, Goto, StepsOK, Steps
<1>10. ASSUME NEW t \in Threads, UnlockDest(t) PROVE StepsOK'
  BY <1>10 DEF UnlockDest, Goto, StepsOK, Steps
<1>11. ASSUME NEW t \in Threads, Return(t) PROVE StepsOK'
  BY <1>11 DEF Return, Goto, StepsOK, Steps
<1>12. CASE UNCHANGED vars
  BY <1>12 DEF vars, StepsOK, Steps
<1> QED
  BY <1>1, <1>2, <1>3, <1>4, <1>5, <1>6, <1>7, <1>8, <1>9, <1>10, <1>11,
     <1>12 DEF Next, OperationStep, Stop

(* A step of one thread that changes the owner of a mutex only from or to
   itself leaves what the others hold. *)
LEMMA OthersHold ==
  ASSUME TypeOK, LocksHeld, NEW t \in Threads,
         \A u \in Threads : u # t => at'[u] = at[u] /\ req'[u] = req[u],
         \A a \in Accounts : account_ctrl'[a] = t <=> a \in Locked(t)',
         \A a \in Accounts : account_ctrl'[a] # account_ctrl[a] =>
            account_ctrl[a] \in {t, None} /\ account_ctrl'[a] \in {t, None}
  PROVE  LocksHeld'
<1>1. ASSUME NEW u \in Threads, u # t PROVE Locked(u)' = Locked(u)
  BY <1>1 DEF Locked, FirstLock, TypeOK
<1>2. ASSUME NEW u \in Threads, u # t, NEW a \in Accounts
      PROVE  account_ctrl'[a] = u <=> account_ctrl[a] = u
  BY <1>2, ThreadsAssumption
<1> QED
  BY <1>1, <1>2 DEF LocksHeld

(* Every step keeps the mutexes with the threads whose place says so. *)
LEMMA LocksStep == LockInv /\ [Next]_vars => LocksHeld'
<1> SUFFICES ASSUME TypeOK, StepsOK, LocksHeld, [Next]_vars PROVE LocksHeld'
  BY DEF LockInv
<1> USE ThreadsAssumption DEF TypeOK
<1>1. ASSUME NEW t \in Threads, NEW r \in Requests, Call(t, r) PROVE LocksHeld'
  <2>1. Locked(t) = {} /\ Locked(t)' = {}
    BY <1>1 DEF Call, Goto, Locked
  <2> QED
    BY <1>1, <2>1, OthersHold DEF Call, Goto, LocksHeld
<1>2. ASSUME NEW t \in Threads, Begin(t) PROVE LocksHeld'
  <2>1. Locked(t) = {} /\ Locked(t)' = {}
    BY <1>2 DEF Begin, Goto, Locked
  <2> QED
    BY <1>2, <2>1, OthersHold DEF Begin, Goto, LocksHeld
<1>3. ASSUME NEW t \in Threads, LockFirst(t) PROVE LocksHeld'
  <2>1. /\ req[t] \in Requests /\ Accepted(req[t])
    BY <1>3 DEF LockFirst, Goto, StepsOK, Steps
  <2>2. FirstLock(req[t]) \in Accounts
    BY <2>1, AcceptedRequest
  <2>3. Locked(t) = {}
    BY <1>3 DEF LockFirst, Goto, Locked
  <2>4. Locked(t)' = {FirstLock(req[t])}
    BY <1>3, <2>1, AcceptedRequest
    DEF LockFirst, Goto, Locked, FirstLock, Body
  <2> QED
    BY <1>3, <2>2, <2>3, <2>4, OthersHold
    DEF LockFirst, lock_account, Goto, LocksHeld
<1>4. ASSUME NEW t \in Threads, LockSecond(t) PROVE LocksHeld'
  <2>1. /\ req[t] \in Requests /\ Accepted(req[t]) /\ req[t].op = "transfer"
    BY <1>4 DEF LockSecond, Goto, StepsOK, Steps
  <2>2. /\ SecondLock(req[t]) \in Accounts
        /\ {FirstLock(req[t]), SecondLock(req[t])} = {req[t].src, req[t].dest}
    BY <2>1, TransferLocks
  <2>3. Locked(t) = {FirstLock(req[t])}
    BY <1>4 DEF LockSecond, Goto, Locked
  <2>4. Locked(t)' = {req[t].src, req[t].dest}
    BY <1>4, <2>1 DEF LockSecond, Goto, Locked, Body
  <2> QED
    BY <1>4, <2>2, <2>3, <2>4, OthersHold
    DEF LockSecond, lock_account, Goto, LocksHeld
<1>5. ASSUME NEW t \in Threads, Test(t) PROVE LocksHeld'
  <2>1. Locked(t)' = Locked(t)
    BY <1>5 DEF Test, Goto, Locked
  <2> QED
    BY <1>5, <2>1, OthersHold DEF Test, Goto, LocksHeld
<1>6. ASSUME NEW t \in Threads, Subtract(t) PROVE LocksHeld'
  <2>1. Locked(t)' = Locked(t)
    BY <1>6 DEF Subtract, Goto, Locked
  <2> QED
    BY <1>6, <2>1, OthersHold DEF Subtract, Goto, LocksHeld
<1>7. ASSUME NEW t \in Threads, Add(t) PROVE LocksHeld'
  <2>1. Locked(t)' = Locked(t)
    BY <1>7 DEF Add, Goto, Locked
  <2> QED
    BY <1>7, <2>1, OthersHold DEF Add, Goto, LocksHeld
<1>8. ASSUME NEW t \in Threads, Read(t) PROVE LocksHeld'
  <2>1. Locked(t)' = Locked(t)
    BY <1>8 DEF Read, Goto, Locked
  <2> QED
    BY <1>8, <2>1, OthersHold DEF Read, Goto, LocksHeld
<1>9. ASSUME NEW t \in Threads, UnlockSrc(t) PROVE LocksHeld'
  <2>1. /\ req[t] \in Requests /\ Accepted(req[t])
    BY <1>9 DEF UnlockSrc, Goto, StepsOK, Steps
  <2>2. /\ req[t].src \in Accounts
        /\ req[t].op = "transfer" => req[t].dest # req[t].src
    BY <2>1, AcceptedRequest
  <2>3. Locked(t) = {req[t].src} \cup Locked(t)' /\ req[t].src \notin Locked(t)'
    BY <1>9, <2>2 DEF UnlockSrc, Goto, Locked
  <2> QED
    BY <1>9, <2>2, <2>3, OthersHold DEF UnlockSrc, unlock_account, Goto, LocksHeld
<1>10. ASSUME NEW t \in Threads, UnlockDest(t) PROVE LocksHeld'
  <2>1. /\ req[t] \in Requests /\ Accepted(req[t]) /\ req[t].op = "transfer"
    BY <1>10 DEF UnlockDest, Goto, StepsOK, Steps
  <2>2. req[t].dest \in Accounts
    BY <2>1, AcceptedRequest
  <2>3. Locked(t) = {req[t].dest} /\ Locked(t)' = {}
    BY <1>10 DEF UnlockDest, Goto, Locked
  <2> QED
    BY <1>10, <2>2, <2>3, OthersHold
    DEF UnlockDest, unlock_account, Goto, LocksHeld
<1>11. ASSUME NEW t \in Threads, Return(t) PROVE LocksHeld'
  <2>1. Locked(t) = {} /\ Locked(t)' = {}
    BY <1>11 DEF Return, Goto, Locked
  <2> QED
    BY <1>11, <2>1, OthersHold DEF Return, Goto, LocksHeld
<1>12. CASE UNCHANGED vars
  BY <1>12 DEF vars, LocksHeld, Locked, FirstLock
<1> QED
  BY <1>1, <1>2, <1>3, <1>4, <1>5, <1>6, <1>7, <1>8, <1>9, <1>10, <1>11,
     <1>12 DEF Next, OperationStep, Stop

LEMMA LockInvStep == LockInv /\ [Next]_vars => LockInv'
  BY TypeStep, StepsStep, LocksStep DEF LockInv

----------------------------------------------------------------------------
(* A thread about to access a balance holds its mutex. *)
LEMMA TouchedLocked ==
  ASSUME LockInv, NEW t \in Threads
  PROVE  Touched(t) \subseteq Locked(t) /\ Touched(t) \subseteq Accounts
<1>1. CASE Touched(t) = {}
  BY <1>1
<1>2. CASE at[t] \in {"test", "subtract", "read", "add"}
  <2>1. req[t] \in Requests /\ Accepted(req[t])
    BY <1>2 DEF LockInv, StepsOK, Steps
  <2> QED
    BY <1>2, <2>1, AcceptedRequest DEF Touched, Locked, Target
<1> QED
  BY <1>1, <1>2 DEF Touched

(* So no two threads are about to access the same balance. *)
LEMMA LocksExclude == LockInv => NoRace
<1> SUFFICES ASSUME LockInv, NEW t \in Threads, NEW u \in Threads, t # u,
                    NEW a \in Touched(t), a \in Touched(u)
             PROVE  FALSE
  BY DEF NoRace
<1>1. a \in Accounts /\ a \in Locked(t) /\ a \in Locked(u)
  BY TouchedLocked
<1> QED
  BY <1>1 DEF LockInv, LocksHeld

(* A debit or the first half of a transfer takes no more than there is, and
   nobody spends the money between the test and the subtraction. *)
LEMMA BalanceStep == LockInv /\ BalanceInv /\ [Next]_vars => BalanceInv'
<1> SUFFICES ASSUME LockInv, BalanceInv, [Next]_vars, NoNegative
             PROVE  Covered' /\ \A a \in Accounts : account_balance'[a] >= 0
  BY DEF BalanceInv, NoNegative
<1> DEFINE Goal == Covered' /\ \A a \in Accounts : account_balance'[a] >= 0
<1>a. Covered /\ \A a \in Accounts : account_balance[a] >= 0
  BY DEF BalanceInv
<1>b. NoRace /\ TypeOK
  BY LocksExclude DEF LockInv
<1>c. ASSUME NEW t \in Threads, at[t] \in {"test", "subtract", "add"}
      PROVE  /\ req[t] \in Requests /\ req[t].src \in Accounts
             /\ req[t].amount \in Int /\ req[t].amount >= 0
             /\ Target(req[t]) \in Accounts
  BY <1>c, AcceptedRequest
  DEF LockInv, StepsOK, Steps, NoNegative, Target
<1>1. ASSUME UNCHANGED account_balance,
             \A t \in Threads : at'[t] = "subtract" =>
               /\ req'[t] = req[t]
               /\ at[t] = "subtract" \/
                    account_balance[req[t].src] >= req[t].amount
      PROVE  Goal
  BY <1>1, <1>a DEF Covered
<1>2. ASSUME NEW t \in Threads, NEW r \in Requests, Call(t, r) PROVE Goal
  BY <1>1, <1>2, <1>b DEF Call, Goto, TypeOK
<1>3. ASSUME NEW t \in Threads, Begin(t) PROVE Goal
  BY <1>1, <1>3, <1>b DEF Begin, Goto, TypeOK
<1>4. ASSUME NEW t \in Threads, LockFirst(t) PROVE Goal
  BY <1>1, <1>4, <1>b DEF LockFirst, Goto, TypeOK, Body
<1>5. ASSUME NEW t \in Threads, LockSecond(t) PROVE Goal
  BY <1>1, <1>5, <1>b DEF LockSecond, Goto, TypeOK, Body
<1>6. ASSUME NEW t \in Threads, Test(t) PROVE Goal
  <2>1. account_balance[req[t].src] \in Int /\ req[t].amount \in Int
    BY <1>6, <1>b, <1>c DEF Test, TypeOK
  <2> QED
    BY <1>1, <1>6, <1>b, <2>1 DEF Test, Goto, TypeOK
<1>7. ASSUME NEW t \in Threads, Subtract(t) PROVE Goal
  <2> DEFINE s == req[t].src
  <2>1. /\ s \in Accounts /\ req[t].amount \in Int
        /\ account_balance[s] >= req[t].amount
        /\ account_balance' = [account_balance EXCEPT ![s] =
                                 @ - req[t].amount]
    BY <1>7, <1>a, <1>c DEF Subtract, Goto, Covered
  <2>2. ASSUME NEW u \in Threads, at'[u] = "subtract"
        PROVE  /\ u # t /\ at[u] = "subtract" /\ req' = req
               /\ req[u].src # s
    BY <2>2, <1>7, <1>b DEF Subtract, Goto, NoRace, Touched, TypeOK
  <2>3. Covered'
    BY <2>1, <2>2, <1>a, <1>b, <1>c DEF Covered, TypeOK
  <2>4. \A a \in Accounts : account_balance'[a] >= 0
    BY <2>1, <1>a, <1>b DEF TypeOK
  <2> QED
    BY <2>3, <2>4
<1>8. ASSUME NEW t \in Threads, Add(t) PROVE Goal
  <2>1. /\ Target(req[t]) \in Accounts
        /\ req[t].amount \in Int /\ req[t].amount >= 0
        /\ account_balance' = [account_balance EXCEPT ![Target(req[t])] =
                                 @ + req[t].amount]
    BY <1>8, <1>c DEF Add, Goto
  <2>2. \A a \in Accounts : account_balance'[a] >= account_balance[a]
    BY <2>1, <1>b DEF TypeOK
  <2>3. account_balance' \in [Accounts -> Int]
    BY <2>1, <1>b DEF TypeOK
  <2>4. ASSUME NEW u \in Threads, at'[u] = "subtract"
        PROVE  at[u] = "subtract" /\ req' = req
    BY <2>4, <1>8, <1>b DEF Add, Goto, TypeOK
  <2>5. Covered'
    BY <2>2, <2>3, <2>4, <1>a, <1>b, <1>c DEF Covered, TypeOK
  <2>6. \A a \in Accounts : account_balance'[a] >= 0
    BY <2>2, <2>3, <1>a, <1>b DEF TypeOK
  <2> QED
    BY <2>5, <2>6
<1>9. ASSUME NEW t \in Threads, Read(t) PROVE Goal
  BY <1>1, <1>9, <1>b DEF Read, Goto, TypeOK
<1>10. ASSUME NEW t \in Threads, UnlockSrc(t) PROVE Goal
  BY <1>1, <1>10, <1>b DEF UnlockSrc, Goto, TypeOK
<1>11. ASSUME NEW t \in Threads, UnlockDest(t) PROVE Goal
  BY <1>1, <1>11, <1>b DEF UnlockDest, Goto, TypeOK
<1>12. ASSUME NEW t \in Threads, Return(t) PROVE Goal
  BY <1>1, <1>12, <1>b DEF Return, Goto, TypeOK
<1>13. CASE UNCHANGED vars
  BY <1>1, <1>13 DEF vars
<1> QED
  BY <1>2, <1>3, <1>4, <1>5, <1>6, <1>7, <1>8, <1>9, <1>10, <1>11, <1>12,
     <1>13 DEF Next, OperationStep, Stop

LEMMA InitBalances == Init => BalanceInv
  BY DEF Init, BalanceInv, Covered

----------------------------------------------------------------------------
(* The locking invariant holds in every reachable state. *)
LEMMA LockInvHolds == Spec => []LockInv
  BY InitLocks, LockInvStep, PTL DEF Spec

(* Every variable keeps its type, whatever calls the threads make. *)
THEOREM AccountsTyped == Spec => []TypeOK
<1>1. LockInv => TypeOK
  BY DEF LockInv
<1> QED
  BY <1>1, LockInvHolds, PTL

(* Every path of debit, credit, transfer and get_balance gives back exactly
   the mutexes it took. *)
THEOREM MutexesHeld == Spec => []LocksHeld
<1>1. LockInv => LocksHeld
  BY DEF LockInv
<1> QED
  BY <1>1, LockInvHolds, PTL

(* No two threads are ever about to access the same balance. *)
THEOREM BalancesNotRaced == Spec => []NoRace
  BY LocksExclude, LockInvHolds, PTL

(* With amounts that are not negative, no account is ever overdrawn. *)
THEOREM NeverOverdrawn == Spec => []NoOverdraft
<1>1. LockInv /\ BalanceInv /\ [Next]_vars => LockInv' /\ BalanceInv'
  BY LockInvStep, BalanceStep
<1>2. Init => LockInv /\ BalanceInv
  BY InitLocks, InitBalances
<1>3. BalanceInv => NoOverdraft
  BY DEF BalanceInv, NoOverdraft, NoNegative
<1> QED
  BY <1>1, <1>2, <1>3, PTL DEF Spec

----------------------------------------------------------------------------
(* The operations are atomic. *)


(* What a thread will return, by its place: nothing before the effect. *)
Returns(t) ==
  /\ at[t] = "idle" <=> req[t] = None
  /\ at[t] \in {"idle", "begin", "lock_first", "lock_second", "test", "subtract", "read"}
       => ret[t] = None
  /\ at[t] = "add" => ret[t] = IF req[t].op = "transfer" THEN 0 ELSE None
  /\ at[t] \in {"unlock_src", "unlock_dest", "return"} => ret[t] # None
ReturnsOK == \A t \in Threads : Returns(t)

(* At most one transfer owes an account its money. *)
OwedOK ==
  \A a \in Accounts :
    /\ Transit(a) = {} => Owed(a) = 0
    /\ \A t \in Transit(a) : Transit(a) = {t} /\ Owed(a) = req[t].amount

EffectInv == LockInv /\ ReturnsOK /\ Covered

(* What the places and the types say of a request that is being carried out. *)
LEMMA AtWork ==
  ASSUME LockInv, NEW t \in Threads, at[t] \notin {"idle", "begin", "return"}
  PROVE  /\ req[t] \in Requests /\ req[t] # None /\ Accepted(req[t])
         /\ req[t].src \in Accounts /\ req[t].amount \in Int
         /\ req[t].op \in {"debit", "credit", "transfer", "get_balance"}
         /\ req[t].op = "transfer" => req[t].dest \in Accounts /\ req[t].dest # req[t].src
<1>1. req[t] \in Requests /\ Accepted(req[t])
  BY DEF LockInv, StepsOK, Steps
<1> QED
  BY <1>1, AcceptedRequest, NoneAssumption

LEMMA TransitLocked ==
  ASSUME LockInv, NEW a \in Accounts, NEW t \in Transit(a)
  PROVE  a \in Locked(t) /\ t \in Threads
BY DEF Transit, Requested, Locked

LEMMA OwedOnce == LockInv => OwedOK
<1> SUFFICES ASSUME LockInv, NEW a \in Accounts
             PROVE  /\ Transit(a) = {} => Owed(a) = 0
                    /\ \A t \in Transit(a) : Transit(a) = {t} /\ Owed(a) = req[t].amount
  BY DEF OwedOK
<1>1. Transit(a) = {} => Owed(a) = 0
  BY DEF Owed
<1>2. ASSUME NEW t \in Transit(a) PROVE Transit(a) = {t} /\ Owed(a) = req[t].amount
  <2>1. \A u \in Transit(a) : u = t
    BY TransitLocked DEF LockInv, LocksHeld
  <2>2. (CHOOSE u \in Transit(a) : TRUE) \in Transit(a)
    BY <1>2
  <2>3. (CHOOSE u \in Transit(a) : TRUE) = t
    BY <2>1, <2>2
  <2>4. Transit(a) # {}
    BY <1>2
  <2> QED
    BY <1>2, <2>1, <2>3, <2>4 DEF Owed
<1> QED
  BY <1>1, <1>2

(* Nobody owes an account to the thread that has its mutex and owes nothing. *)
LEMMA NothingOwed ==
  ASSUME LockInv, OwedOK, NEW t \in Threads, NEW a \in Accounts,
         a \in Locked(t), t \notin Transit(a)
  PROVE  Transit(a) = {} /\ Owed(a) = 0 /\ Settled[a] = account_balance[a]
<1>1. Transit(a) = {}
  BY TransitLocked DEF LockInv, LocksHeld
<1>2. Owed(a) = 0
  BY <1>1 DEF OwedOK
<1> QED
  BY <1>1, <1>2 DEF LockInv, TypeOK, Settled

LEMMA OwedKept ==
  ASSUME OwedOK, OwedOK', NEW a \in Accounts, Transit(a)' = Transit(a),
         \A u \in Transit(a) : req'[u] = req[u]
  PROVE  Owed(a)' = Owed(a)
<1>1. CASE Transit(a) = {}
  BY <1>1 DEF OwedOK
<1>2. CASE Transit(a) # {}
  <2>1. PICK u : u \in Transit(a)
    BY <1>2
  <2> QED
    BY <2>1 DEF OwedOK
<1> QED
  BY <1>1, <1>2

(* A thread that owes nothing, before and after its step. *)
LEMMA NobodyPaid ==
  ASSUME OwedOK, OwedOK', NEW t \in Threads, at[t] # "add" \/ ~Requested(t, "transfer"),
         at'[t] # "add" \/ ~Requested(t, "transfer")', req' = req,
         \A u \in Threads \ {t} : at'[u] = at[u]
  PROVE  /\ \A a \in Accounts : Transit(a)' = Transit(a)
         /\ \A a \in Accounts : Owed(a)' = Owed(a)
<1>1. \A a \in Accounts : Transit(a)' = Transit(a)
  BY DEF Transit, Requested
<1> QED
  BY <1>1, OwedKept

(* The subtraction of a debit takes the money away; that of a transfer moves
   it to the destination at once, which is owed it until the addition. *)
LEMMA SubtractSettles ==
  ASSUME LockInv, OwedOK, OwedOK', NEW t \in Threads, Subtract(t)
  PROVE  /\ req[t].op \in {"debit", "transfer"} /\ req[t].src \in Accounts
         /\ req[t].amount \in Int /\ Settled[req[t].src] = account_balance[req[t].src]
         /\ req[t].op = "transfer" => req[t].dest \in Accounts /\ req[t].dest # req[t].src
         /\ req[t].op = "debit" => Settled' = Bank!Debited(req[t], Settled)
         /\ req[t].op = "transfer" =>
              Settled' = Bank!Credited(req[t].dest, req[t], Bank!Debited(req[t], Settled))
<1>a. TypeOK
  BY DEF LockInv
<1> USE DEF Goto
<1> DEFINE r == req[t]
<1>1. /\ r.op \in {"debit", "transfer"} /\ r.src \in Accounts /\ r.amount \in Int
      /\ r.op = "transfer" => r.dest \in Accounts /\ r.dest # r.src
  BY AtWork DEF Subtract, LockInv, StepsOK, Steps
<1>2. r.src \in Locked(t) /\ \A a \in Accounts : t \notin Transit(a)
  BY <1>1 DEF Subtract, Locked, Transit
<1>3. Transit(r.src) = {} /\ Owed(r.src) = 0 /\ Settled[r.src] = account_balance[r.src]
  BY <1>1, <1>2, NothingOwed
<1>4. /\ account_balance' = [account_balance EXCEPT ![r.src] = account_balance[r.src] - r.amount]
      /\ req' = req
  BY DEF Subtract
<1>5. ASSUME r.op = "debit" PROVE Settled' = Bank!Debited(r, Settled)
  <2>1. \A a \in Accounts : Owed(a)' = Owed(a)
    BY <1>5, <1>a, NobodyPaid DEF Subtract, TypeOK
  <2>2. Settled' = [Settled EXCEPT ![r.src] = Settled[r.src] - r.amount]
    BY <1>a, <1>1, <1>3, <1>4, <2>1 DEF Settled, TypeOK
  <2> QED
    BY <2>2 DEF Bank!Debited
<1>6. ASSUME r.op = "transfer" PROVE Settled' = Bank!Credited(r.dest, r, Bank!Debited(r, Settled))
  <2>1. r.dest \in Locked(t)
    BY <1>1, <1>6 DEF Subtract, Locked
  <2>2. Transit(r.dest) = {} /\ Owed(r.dest) = 0 /\ Settled[r.dest] = account_balance[r.dest]
    BY <1>1, <1>2, <1>6, <2>1, NothingOwed
  <2>3. at'[t] = "add" /\ (\A u \in Threads \ {t} : at'[u] = at[u])
    BY <1>6, <1>a DEF Subtract, TypeOK
  <2>4. t \in Transit(r.dest)'
    <3>1. req'[t] = req[t] /\ req[t] # None
      BY <1>4, AtWork DEF Subtract
    <3> QED
      BY <1>6, <2>3, <3>1 DEF Transit, Requested
  <2>5. Owed(r.dest)' = r.amount
    BY <1>1, <1>4, <1>6, <2>4 DEF OwedOK
  <2>6. ASSUME NEW a \in Accounts, a # r.dest PROVE Owed(a)' = Owed(a)
    <3>1. Transit(a)' = Transit(a)
      BY <1>2, <1>4, <2>3, <2>6 DEF Transit, Requested
    <3> QED
      BY <1>4, <3>1, OwedKept
  <2> DEFINE paid == [Settled EXCEPT ![r.src] = Settled[r.src] - r.amount]
  <2>7. Settled' = [paid EXCEPT ![r.dest] = paid[r.dest] + r.amount]
    BY <1>a, <1>1, <1>3, <1>4, <1>6, <2>2, <2>5, <2>6 DEF Settled, TypeOK
  <2> QED
    BY <2>7 DEF Bank!Debited, Bank!Credited
<1> QED
  BY <1>1, <1>3, <1>5, <1>6

(* The addition of a credit brings money in; that of a transfer pays what was
   owed, and changes nothing. *)
LEMMA AddSettles ==
  ASSUME LockInv, OwedOK, OwedOK', NEW t \in Threads, Add(t)
  PROVE  /\ req[t].op \in {"credit", "transfer"} /\ req[t].src \in Accounts
         /\ req[t].amount \in Int
         /\ req[t].op = "credit" => Settled' = Bank!Credited(req[t].src, req[t], Settled)
         /\ req[t].op = "transfer" => Settled' = Settled
<1>a. TypeOK
  BY DEF LockInv
<1> USE DEF Goto
<1> DEFINE r == req[t]
<1>1. /\ r.op \in {"credit", "transfer"} /\ r.src \in Accounts /\ r.amount \in Int
      /\ r.op = "transfer" => r.dest \in Accounts /\ r.dest # r.src
      /\ r # None
  BY AtWork DEF Add, LockInv, StepsOK, Steps
<1>2. /\ account_balance' = [account_balance EXCEPT ![Target(r)] =
                               account_balance[Target(r)] + r.amount]
      /\ req' = req /\ at[t] = "add" /\ at'[t] = "unlock_src"
      /\ \A u \in Threads \ {t} : at'[u] = at[u]
  BY <1>a DEF Add, TypeOK
<1>3. ASSUME r.op = "credit" PROVE Settled' = Bank!Credited(r.src, r, Settled)
  <2>1. \A a \in Accounts : Owed(a)' = Owed(a)
    BY <1>2, <1>3, NobodyPaid DEF Requested
  <2>2. r.src \in Locked(t) /\ t \notin Transit(r.src)
    BY <1>2, <1>3 DEF Locked, Transit, Requested
  <2>3. Owed(r.src) = 0 /\ Settled[r.src] = account_balance[r.src]
    BY <1>1, <2>2, NothingOwed
  <2>4. Settled' = [Settled EXCEPT ![r.src] = Settled[r.src] + r.amount]
    BY <1>a, <1>1, <1>2, <1>3, <2>1, <2>3 DEF Settled, TypeOK, Target
  <2> QED
    BY <2>4 DEF Bank!Credited
<1>4. ASSUME r.op = "transfer" PROVE Settled' = Settled
  <2>1. t \in Transit(r.dest)
    BY <1>1, <1>2, <1>4 DEF Transit, Requested
  <2>2. Transit(r.dest) = {t} /\ Owed(r.dest) = r.amount
    BY <1>1, <1>4, <2>1 DEF OwedOK
  <2>3. Transit(r.dest)' = {}
    BY <1>2, <2>2 DEF Transit, Requested
  <2>4. Owed(r.dest)' = 0
    BY <1>1, <1>2, <1>4, <2>3 DEF OwedOK
  <2>5. ASSUME NEW a \in Accounts, a # r.dest PROVE Owed(a)' = Owed(a)
    <3>1. Transit(a)' = Transit(a)
      BY <1>2, <1>4, <2>5 DEF Transit, Requested
    <3> QED
      BY <1>2, <3>1, OwedKept
  <2> QED
    BY <1>a, <1>1, <1>2, <1>4, <2>2, <2>4, <2>5 DEF Settled, TypeOK, Target
<1> QED
  BY <1>1, <1>3, <1>4

(* The steps that neither subtract nor add. *)
Elsewhere(t) ==
  \/ Begin(t) \/ LockFirst(t) \/ LockSecond(t) \/ Test(t) \/ Read(t)
  \/ UnlockSrc(t) \/ UnlockDest(t) \/ Return(t) \/ \E r \in Requests : Call(t, r)

LEMMA OthersSettle ==
  ASSUME LockInv, OwedOK, OwedOK',
         (\E t \in Threads : Elsewhere(t)) \/ UNCHANGED vars
  PROVE  Settled' = Settled /\ net' = net
<1>a. TypeOK /\ StepsOK
  BY DEF LockInv
<1> USE DEF Goto
(* A thread that is at no addition, before and after its step. *)
<1>b. ASSUME UNCHANGED <<account_balance, net>>, NEW t \in Threads,
             at[t] # "add" \/ ~Requested(t, "transfer"),
             at'[t] # "add" \/ ~Requested(t, "transfer")',
             \A u \in Threads \ {t} : at'[u] = at[u] /\ req'[u] = req[u]
      PROVE  Settled' = Settled /\ net' = net
  <2>1. \A a \in Accounts : Transit(a)' = Transit(a) /\ t \notin Transit(a)
    BY <1>b DEF Transit, Requested
  <2>2. \A a \in Accounts : \A u \in Transit(a) : req'[u] = req[u]
    BY <1>b, <2>1 DEF Transit
  <2>3. \A a \in Accounts : Owed(a)' = Owed(a)
    BY <2>1, <2>2, OwedKept
  <2> QED
    BY <1>b, <2>3 DEF Settled
<1>1. ASSUME NEW t \in Threads, NEW r \in Requests, Call(t, r)
      PROVE  Settled' = Settled /\ net' = net
  BY <1>1, <1>a, <1>b DEF Call, TypeOK
<1>2. ASSUME NEW t \in Threads, Begin(t) \/ Test(t) \/ Read(t) \/ UnlockSrc(t) \/ UnlockDest(t)
      PROVE  Settled' = Settled /\ net' = net
  BY <1>2, <1>a, <1>b DEF Begin, Test, Read, UnlockSrc, UnlockDest, TypeOK
<1>3. ASSUME NEW t \in Threads, LockFirst(t) PROVE Settled' = Settled /\ net' = net
  <2>1. at'[t] = "add" => req'[t].op = "credit"
    BY <1>3, <1>a, AtWork DEF LockFirst, Body, TypeOK
  <2> QED
    BY <1>3, <1>a, <1>b, <2>1 DEF LockFirst, Requested, TypeOK
<1>4. ASSUME NEW t \in Threads, LockSecond(t) PROVE Settled' = Settled /\ net' = net
  <2>1. at'[t] = "test"
    BY <1>4, <1>a DEF LockSecond, Body, TypeOK, StepsOK, Steps
  <2> QED
    BY <1>4, <1>a, <1>b, <2>1 DEF LockSecond, TypeOK
<1>5. ASSUME NEW t \in Threads, Return(t) PROVE Settled' = Settled /\ net' = net
  BY <1>5, <1>a, <1>b DEF Return, TypeOK
<1>6. CASE UNCHANGED vars
  <2>1. \A a \in Accounts : Transit(a)' = Transit(a)
    BY <1>6 DEF vars, Transit, Requested
  <2>2. \A a \in Accounts : Owed(a)' = Owed(a)
    BY <1>6, <2>1, OwedKept DEF vars
  <2> QED
    BY <1>6, <2>2 DEF vars, Settled
<1> QED
  BY <1>1, <1>2, <1>3, <1>4, <1>5, <1>6 DEF Elsewhere

(* Every step keeps what the threads will return. *)
LEMMA ReturnsStep == LockInv /\ ReturnsOK /\ [Next]_vars => ReturnsOK'
<1> SUFFICES ASSUME LockInv, ReturnsOK, [Next]_vars PROVE ReturnsOK'
  OBVIOUS
<1>a. TypeOK /\ StepsOK
  BY DEF LockInv
<1>b. 0 # None /\ Failed # None /\ \A a \in Accounts : account_balance[a] # None
  BY <1>a, NoneAssumption DEF Failed, TypeOK
<1> USE DEF Goto
<1>c. ASSUME NEW t \in Threads, Returns(t)',
             \A u \in Threads \ {t} : at'[u] = at[u] /\ req'[u] = req[u] /\ ret'[u] = ret[u]
      PROVE  ReturnsOK'
  BY <1>c DEF ReturnsOK, Returns
<1>1. ASSUME NEW t \in Threads, NEW r \in Requests, Call(t, r) PROVE ReturnsOK'
  BY <1>1, <1>a, <1>c, NoneAssumption DEF Call, Returns, ReturnsOK, TypeOK
<1>2. ASSUME NEW t \in Threads, Begin(t) PROVE ReturnsOK'
  BY <1>2, <1>a, <1>b, <1>c DEF Begin, Returns, ReturnsOK, TypeOK
<1>d. ASSUME NEW t \in Threads, at[t] \in {"lock_first", "lock_second"},
             at' = [at EXCEPT ![t] = IF at[t] = "lock_first" /\ req[t].op = "transfer"
                                     THEN "lock_second" ELSE Body(req[t])],
             UNCHANGED <<req, ret>>
      PROVE  ReturnsOK'
  <2>1. Body(req[t]) \in {"test", "add", "read"} /\ (Body(req[t]) = "add" => req[t].op # "transfer")
    BY DEF Body
  <2>2. at'[t] \in {"lock_second", "test", "add", "read"}
        /\ (at'[t] = "add" => req[t].op # "transfer")
    BY <1>d, <1>a, <2>1 DEF TypeOK
  <2>3. Returns(t)'
    BY <1>d, <2>2 DEF Returns, ReturnsOK
  <2> QED
    BY <1>a, <1>c, <1>d, <2>3 DEF TypeOK
<1>3. ASSUME NEW t \in Threads, LockFirst(t) PROVE ReturnsOK'
  BY <1>3, <1>d DEF LockFirst
<1>4. ASSUME NEW t \in Threads, LockSecond(t) PROVE ReturnsOK'
  BY <1>4, <1>d DEF LockSecond
<1>5. ASSUME NEW t \in Threads, Test(t) PROVE ReturnsOK'
  BY <1>5, <1>a, <1>b, <1>c DEF Test, Returns, ReturnsOK, TypeOK
<1>6. ASSUME NEW t \in Threads, Subtract(t) PROVE ReturnsOK'
  BY <1>6, <1>a, <1>b, <1>c DEF Subtract, Returns, ReturnsOK, TypeOK
<1>7. ASSUME NEW t \in Threads, Add(t) PROVE ReturnsOK'
  BY <1>7, <1>a, <1>b, <1>c DEF Add, Returns, ReturnsOK, TypeOK
<1>8. ASSUME NEW t \in Threads, Read(t) PROVE ReturnsOK'
  <2>1. account_balance[req[t].src] # None
    BY <1>8, <1>b, AtWork DEF Read
  <2> QED
    BY <1>8, <1>a, <1>c, <2>1 DEF Read, Returns, ReturnsOK, TypeOK
<1>9. ASSUME NEW t \in Threads, UnlockSrc(t) PROVE ReturnsOK'
  BY <1>9, <1>a, <1>c DEF UnlockSrc, Returns, ReturnsOK, TypeOK
<1>10. ASSUME NEW t \in Threads, UnlockDest(t) PROVE ReturnsOK'
  BY <1>10, <1>a, <1>c DEF UnlockDest, Returns, ReturnsOK, TypeOK
<1>11. ASSUME NEW t \in Threads, Return(t) PROVE ReturnsOK'
  BY <1>11, <1>a, <1>c DEF Return, Returns, ReturnsOK, TypeOK
<1>12. CASE UNCHANGED vars
  BY <1>12 DEF vars, ReturnsOK, Returns
<1> QED
  BY <1>1, <1>2, <1>3, <1>4, <1>5, <1>6, <1>7, <1>8, <1>9, <1>10, <1>11, <1>12
  DEF Next, OperationStep, Stop

(* Nobody spends the money between the test and the subtraction, whatever the
   sign of the amounts. *)
LEMMA CoveredStep == LockInv /\ Covered /\ [Next]_vars => Covered'
<1> SUFFICES ASSUME LockInv, Covered, [Next]_vars,
                    NEW u \in Threads, at'[u] = "subtract"
             PROVE  (account_balance[req[u].src] >= req[u].amount)'
  BY DEF Covered
<1>a. NoRace /\ TypeOK
  BY LocksExclude DEF LockInv
<1> USE DEF Goto
<1>1. ASSUME UNCHANGED account_balance, req'[u] = req[u],
             at[u] = "subtract" \/ account_balance[req[u].src] >= req[u].amount
      PROVE  (account_balance[req[u].src] >= req[u].amount)'
  BY <1>1 DEF Covered
<1>b. ASSUME NEW t \in Threads, at[t] \in {"subtract", "add"}, req' = req,
             \A a \in Accounts \ Touched(t) : account_balance'[a] = account_balance[a],
             at' = [at EXCEPT ![t] = "add"] \/ at' = [at EXCEPT ![t] = "unlock_src"]
      PROVE  (account_balance[req[u].src] >= req[u].amount)'
  <2>1. u # t /\ at[u] = "subtract"
    BY <1>a, <1>b DEF TypeOK
  <2>2. req[u].src \in Touched(u) /\ req[u].src \in Accounts
    BY <2>1, AtWork DEF Touched
  <2>3. req[u].src \notin Touched(t)
    BY <1>a, <2>1, <2>2 DEF NoRace
  <2> QED
    BY <1>b, <2>1, <2>2, <2>3 DEF Covered
<1>2. ASSUME NEW t \in Threads, NEW r \in Requests, Call(t, r)
      PROVE  (account_balance[req[u].src] >= req[u].amount)'
  BY <1>1, <1>2, <1>a DEF Call, TypeOK
<1>3. ASSUME NEW t \in Threads, Begin(t) \/ LockFirst(t) \/ LockSecond(t) \/ Read(t)
                                \/ UnlockSrc(t) \/ UnlockDest(t)
      PROVE  (account_balance[req[u].src] >= req[u].amount)'
  BY <1>1, <1>3, <1>a DEF Begin, LockFirst, LockSecond, Read, UnlockSrc, UnlockDest,
    TypeOK, Body
<1>4. ASSUME NEW t \in Threads, Test(t)
      PROVE  (account_balance[req[u].src] >= req[u].amount)'
  <2>1. account_balance[req[t].src] \in Int /\ req[t].amount \in Int
    BY <1>4, <1>a, AtWork DEF Test, TypeOK
  <2> QED
    BY <1>1, <1>4, <1>a, <2>1 DEF Test, TypeOK
<1>5. ASSUME NEW t \in Threads, Subtract(t)
      PROVE  (account_balance[req[u].src] >= req[u].amount)'
  BY <1>5, <1>a, <1>b DEF Subtract, Touched, TypeOK
<1>6. ASSUME NEW t \in Threads, Add(t)
      PROVE  (account_balance[req[u].src] >= req[u].amount)'
  BY <1>6, <1>a, <1>b DEF Add, Touched, TypeOK
<1>7. ASSUME NEW t \in Threads, Return(t)
      PROVE  (account_balance[req[u].src] >= req[u].amount)'
  BY <1>1, <1>7, <1>a DEF Return, TypeOK
<1>8. CASE UNCHANGED vars
  BY <1>1, <1>8 DEF vars
<1> QED
  BY <1>2, <1>3, <1>4, <1>5, <1>6, <1>7, <1>8 DEF Next, OperationStep, Stop

(* Every step is one of the abstract bank or leaves it as it is. *)
LEMMA BankStep ==
  ASSUME EffectInv, OwedOK, OwedOK', [Next]_vars
  PROVE  [Bank!Next]_(Bank!vars)
<1>a. TypeOK /\ LockInv /\ ReturnsOK /\ Covered
  BY DEF EffectInv, LockInv
<1> USE DEF Goto
<1>b. ASSUME NEW t \in Threads, Bank!Perform(t) PROVE Bank!Next
  BY <1>b DEF Bank!Next
<1>c. ASSUME NEW t \in Threads, Elsewhere(t) PROVE Settled' = Settled
  BY <1>a, <1>c, OthersSettle
<1>1. ASSUME NEW t \in Threads, NEW r \in Requests, Call(t, r) PROVE Bank!Next
  <2>1. Settled' = Settled
    BY <1>1, <1>c DEF Elsewhere
  <2>2. Bank!Call(t, r)
    BY <1>1, <1>a, <2>1 DEF Call, Bank!Call, ReturnsOK, Returns
  <2> QED
    BY <2>2 DEF Bank!Next
<1>2. ASSUME NEW t \in Threads, Begin(t) PROVE [Bank!Next]_(Bank!vars)
  <2>1. Settled' = Settled
    BY <1>2, <1>c DEF Elsewhere
  <2>2. CASE Accepted(req[t])
    BY <1>2, <2>1, <2>2 DEF Begin, Bank!vars
  <2>3. CASE ~Accepted(req[t])
    <3>1. req[t] \in Requests
      BY <1>2, <1>a DEF Begin, LockInv, StepsOK, Steps
    <3>2. ~Bank!Succeeds(req[t], Settled)
      BY <2>3, <3>1, RequestsAssumption DEF Accepted, account_exists, IsRequest,
        Bank!Succeeds, Bank!CanDebit, Bank!CanTransfer
    <3>3. ret' = [ret EXCEPT ![t] = Failed] /\ ret[t] = None /\ req[t] # None
      BY <1>2, <1>a, <2>3 DEF Begin, ReturnsOK, Returns
    <3>4. Bank!Perform(t)
      BY <1>2, <2>1, <3>2, <3>3 DEF Bank!Perform, Begin
    <3> QED
      BY <1>b, <3>4
  <2> QED
    BY <2>2, <2>3
<1>3. ASSUME NEW t \in Threads, LockFirst(t) \/ LockSecond(t) \/ UnlockSrc(t) \/ UnlockDest(t)
      PROVE  UNCHANGED Bank!vars
  <2>1. Settled' = Settled
    BY <1>3, <1>c DEF Elsewhere
  <2> QED
    BY <1>3, <2>1 DEF LockFirst, LockSecond, UnlockSrc, UnlockDest, Bank!vars
<1>4. ASSUME NEW t \in Threads, Test(t) PROVE [Bank!Next]_(Bank!vars)
  <2> DEFINE r == req[t]
  <2>1. Settled' = Settled
    BY <1>4, <1>c DEF Elsewhere
  <2>2. CASE account_balance[r.src] < r.amount
    <3>1. r.op \in {"debit", "transfer"} /\ r.src \in Accounts /\ r.amount \in Int
      BY <1>4, <1>a, AtWork DEF Test, LockInv, StepsOK, Steps
    <3>2. r.src \in Locked(t) /\ t \notin Transit(r.src)
      BY <1>4, <3>1 DEF Test, Locked, Transit
    <3>3. Settled[r.src] = account_balance[r.src] /\ account_balance[r.src] \in Int
      BY <1>a, <3>1, <3>2, NothingOwed DEF TypeOK
    <3>4. ~Bank!Succeeds(r, Settled)
      <4>1. ~(Settled[r.src] >= r.amount)
        BY <2>2, <3>1, <3>3
      <4>2. ~Bank!CanDebit(r, Settled) /\ ~Bank!CanTransfer(r, Settled)
        BY <4>1 DEF Bank!CanDebit, Bank!CanTransfer
      <4> QED
        BY <3>1, <4>2 DEF Bank!Succeeds
    <3>5. ret' = [ret EXCEPT ![t] = Failed] /\ ret[t] = None /\ r # None
      BY <1>4, <1>a, <2>2 DEF Test, ReturnsOK, Returns
    <3>6. Bank!Perform(t)
      BY <1>4, <2>1, <3>4, <3>5 DEF Bank!Perform, Test
    <3> QED
      BY <1>b, <3>6
  <2>3. CASE ~(account_balance[r.src] < r.amount)
    BY <1>4, <2>1, <2>3 DEF Test, Bank!vars
  <2> QED
    BY <2>2, <2>3
<1>5. ASSUME NEW t \in Threads, Subtract(t) PROVE Bank!Next
  <2> DEFINE r == req[t]
  <2>1. /\ r.op \in {"debit", "transfer"} /\ r.src \in Accounts
        /\ r.op = "transfer" => r.dest \in Accounts /\ r.dest # r.src
        /\ Settled[r.src] = account_balance[r.src]
        /\ r.op = "debit" => Settled' = Bank!Debited(r, Settled)
        /\ r.op = "transfer" => Settled' = Bank!Credited(r.dest, r, Bank!Debited(r, Settled))
    BY <1>5, <1>a, SubtractSettles
  <2>2. Settled[r.src] >= r.amount
    BY <1>5, <1>a, <2>1 DEF Subtract, Covered
  <2>3. ret' = [ret EXCEPT ![t] = 0] /\ req' = req /\ ret[t] = None /\ r # None
    BY <1>5, <1>a DEF Subtract, ReturnsOK, Returns
  <2>4. Bank!Succeeds(r, Settled)
    BY <2>1, <2>2 DEF Bank!Succeeds, Bank!CanDebit, Bank!CanTransfer
  <2> QED
    BY <1>b, <2>1, <2>3, <2>4 DEF Bank!Perform, Bank!Effect, Bank!Value
<1>6. ASSUME NEW t \in Threads, Add(t) PROVE [Bank!Next]_(Bank!vars)
  <2> DEFINE r == req[t]
  <2>1. /\ r.op \in {"credit", "transfer"} /\ r.src \in Accounts
        /\ r.op = "credit" => Settled' = Bank!Credited(r.src, r, Settled)
        /\ r.op = "transfer" => Settled' = Settled
    BY <1>6, <1>a, AddSettles
  <2>2. /\ ret' = [ret EXCEPT ![t] = 0] /\ req' = req /\ r # None
        /\ ret[t] = IF r.op = "transfer" THEN 0 ELSE None
    BY <1>6, <1>a, AtWork DEF Add, ReturnsOK, Returns
  <2>3. CASE r.op = "credit"
    BY <1>b, <2>1, <2>2, <2>3 DEF Bank!Perform, Bank!Succeeds, Bank!Effect, Bank!Value
  <2>4. CASE r.op = "transfer"
    <3>1. ret' = ret
      BY <1>a, <2>2, <2>4 DEF TypeOK
    <3> QED
      BY <2>1, <2>2, <2>4, <3>1 DEF Bank!vars
  <2> QED
    BY <2>1, <2>3, <2>4
<1>7. ASSUME NEW t \in Threads, Read(t) PROVE Bank!Next
  <2> DEFINE r == req[t]
  <2>1. r.op = "get_balance" /\ r.src \in Accounts /\ r # None /\ ret[t] = None
    BY <1>7, <1>a, AtWork DEF Read, LockInv, StepsOK, Steps, ReturnsOK, Returns
  <2>2. r.src \in Locked(t) /\ t \notin Transit(r.src)
    BY <1>7, <2>1 DEF Read, Locked, Transit
  <2>3. Settled[r.src] = account_balance[r.src]
    BY <1>a, <2>1, <2>2, NothingOwed
  <2>4. Settled' = Settled
    BY <1>7, <1>c DEF Elsewhere
  <2> QED
    BY <1>7, <1>b, <2>1, <2>3, <2>4
    DEF Read, Bank!Perform, Bank!Succeeds, Bank!Effect, Bank!Value
<1>8. ASSUME NEW t \in Threads, Return(t) PROVE Bank!Next
  <2>1. Settled' = Settled
    BY <1>8, <1>c DEF Elsewhere
  <2>2. Bank!Return(t)
    BY <1>8, <1>a, <2>1 DEF Return, Bank!Return, ReturnsOK, Returns
  <2> QED
    BY <2>2 DEF Bank!Next
<1>9. CASE UNCHANGED vars
  <2>1. Settled' = Settled
    BY <1>9, <1>a, OthersSettle
  <2> QED
    BY <1>9, <2>1 DEF vars, Bank!vars
<1> QED
  BY <1>1, <1>2, <1>3, <1>4, <1>5, <1>6, <1>7, <1>8, <1>9
  DEF Next, OperationStep, Stop

(* debit, credit, transfer and get_balance are atomic for the threads that
   call them: with the money of a transfer under way counted where it goes,
   every step of the code is the whole effect of one call, a call, a return, or
   nothing. *)
THEOREM OperationsAtomic == Spec => AtomicBankSpec
<1>1. Init => EffectInv
  <2>1. Init => ReturnsOK
    BY DEF Init, ReturnsOK, Returns
  <2> QED
    BY <2>1, InitLocks DEF EffectInv, Init, Covered
<1>2. EffectInv /\ [Next]_vars => EffectInv'
  BY LockInvStep, ReturnsStep, CoveredStep DEF EffectInv
<1>3. EffectInv => OwedOK
  BY OwedOnce DEF EffectInv
<1>4. Init => Bank!Init
  <2>1. Init => \A a \in Accounts : Transit(a) = {}
    BY DEF Init, Transit
  <2> QED
    BY <2>1 DEF Init, Bank!Init, Settled, Owed
<1>5. EffectInv /\ OwedOK /\ OwedOK' /\ [Next]_vars => [Bank!Next]_(Bank!vars)
  BY BankStep
<1> QED
  BY <1>1, <1>2, <1>3, <1>4, <1>5, PTL DEF Spec, AtomicBankSpec, Bank!Spec
----------------------------------------------------------------------------
(* The total of the accounts. *)

(* A set of naturals that is not empty has a least element: what induction
   rests on in the lemmas below. *)
LEMMA LeastNumber ==
  ASSUME NEW T \in SUBSET Nat, T # {}
  PROVE  \E n \in T : \A m \in T : n <= m
<1>1. PICK n \in T : \A m \in T : <<m, n>> \notin OpToRel(<, Nat)
  BY WFMin, NatLessThanWellFounded, Zenon
<1>2. \A m \in T : ~ (m < n)
  BY <1>1, Zenon DEF OpToRel
<1> QED
  BY <1>2

LEMMA SmallestSubset ==
  ASSUME NEW S, IsFiniteSet(S), NEW B \in SUBSET (SUBSET S), B # {}
  PROVE  \E s \in B : \A u \in B : Cardinality(s) <= Cardinality(u)
<1> DEFINE T == {Cardinality(s) : s \in B}
<1>1. \A s \in B : Cardinality(s) \in Nat
  BY FS_Subset, FS_CardinalityType
<1>2. T \in SUBSET Nat /\ T # {}
  BY <1>1
<1> HIDE DEF T
<1>3. PICK n \in T : \A m \in T : n <= m
  BY <1>2, LeastNumber
<1>4. PICK s \in B : n = Cardinality(s)
  BY <1>3 DEF T
<1>5. ASSUME NEW u \in B PROVE Cardinality(s) <= Cardinality(u)
  BY <1>3, <1>4 DEF T
<1> QED
  BY <1>5

(* The folds of Functions take the elements of the domain one by one: the sum
   over each subset of the domain, by what CHOOSE takes first. *)
Any(s) == CHOOSE x \in s : TRUE
IsSums(f, iter) ==
  iter = [s \in SUBSET DOMAIN f |->
            IF s = {} THEN 0 ELSE f[Any(s)] + iter[s \ {Any(s)}]]
Sums(f) == CHOOSE iter : IsSums(f, iter)

Total(f) == FoldFunction(+, 0, f)

LEMMA TotalIsSums == ASSUME NEW f PROVE Total(f) = Sums(f)[DOMAIN f]
BY Zenon DEF Total, FoldFunction, FoldFunctionOnSet, MapThenFoldSet, Sums, IsSums, Any

LEMMA Rest ==
  ASSUME NEW S, IsFiniteSet(S), NEW s \in SUBSET S, s # {}
  PROVE  /\ Any(s) \in s /\ s \ {Any(s)} \in SUBSET S
         /\ Cardinality(s) \in Nat
         /\ Cardinality(s \ {Any(s)}) = Cardinality(s) - 1
<1>1. Any(s) \in s
  BY DEF Any
<1>2. IsFiniteSet(s)
  BY FS_Subset
<1> QED
  BY <1>1, <1>2, FS_RemoveElement, FS_CardinalityType

LEMMA SumsExist ==
  ASSUME NEW S, IsFiniteSet(S), NEW f \in [S -> Int]
  PROVE  IsSums(f, Sums(f))
<1> DEFINE Upto(n) == {s \in SUBSET S : Cardinality(s) <= n}
           Sum(g, s) == IF s = {} THEN 0 ELSE f[Any(s)] + g[s \ {Any(s)}]
           P(n) == \E g : g = [s \in Upto(n) |-> Sum(g, s)]
<1>1. P(0)
  <2>1. ASSUME NEW s \in Upto(0) PROVE s = {}
    <3>1. s \in SUBSET S /\ Cardinality(s) <= 0 /\ IsFiniteSet(s)
      BY FS_Subset
    <3> QED
      BY <3>1, FS_CardinalityType, FS_EmptySet
  <2>2. [s \in Upto(0) |-> 0] = [s \in Upto(0) |-> Sum([u \in Upto(0) |-> 0], s)]
    BY <2>1
  <2> QED
    BY <2>2
<1>2. ASSUME NEW n \in Nat, P(n) PROVE P(n + 1)
  <2>1. PICK g : g = [s \in Upto(n) |-> Sum(g, s)]
    BY <1>2
  <2> DEFINE h == [s \in Upto(n + 1) |-> Sum(g, s)]
  <2>2. \A s \in Upto(n) : s \in Upto(n + 1) /\ h[s] = g[s]
    <3>1. ASSUME NEW s \in Upto(n) PROVE s \in Upto(n + 1)
      BY FS_Subset, FS_CardinalityType
    <3>2. \A s \in Upto(n) : g[s] = Sum(g, s)
      BY <2>1
    <3> QED
      BY <3>1, <3>2
  <2>3. ASSUME NEW s \in Upto(n + 1) PROVE Sum(h, s) = Sum(g, s)
    <3>1. CASE s # {}
      <4>1. s \ {Any(s)} \in Upto(n)
        BY <3>1, Rest
      <4> QED
        BY <2>2, <4>1
    <3> QED
      BY <3>1
  <2>4. h = [s \in Upto(n + 1) |-> Sum(h, s)]
    BY <2>3
  <2> QED
    BY <2>4
<1> HIDE DEF P
<1>3. \A n \in Nat : P(n)
  <2> DEFINE T == {n \in Nat : ~P(n)}
  <2> SUFFICES ASSUME T # {} PROVE FALSE
    OBVIOUS
  <2>1. PICK n \in T : \A m \in T : n <= m
    BY LeastNumber
  <2>2. n # 0 /\ n - 1 \in Nat /\ P(n - 1)
    BY <1>1, <2>1
  <2>3. n - 1 + 1 = n
    BY <2>1
  <2> QED
    BY <1>2, <2>1, <2>2, <2>3
<1>4. Cardinality(S) \in Nat /\ Upto(Cardinality(S)) = SUBSET S
  BY FS_Subset, FS_CardinalityType
<1>5. \E iter : IsSums(f, iter)
  BY <1>3, <1>4 DEF P, IsSums
<1> QED
  BY <1>5 DEF Sums

(* What the sums are: nothing for no element, and one element more. *)
LEMMA SumsTyped ==
  ASSUME NEW S, IsFiniteSet(S), NEW f \in [S -> Int]
  PROVE  /\ Sums(f)[{}] = 0
         /\ \A s \in SUBSET S : s # {} => Sums(f)[s] = f[Any(s)] + Sums(f)[s \ {Any(s)}]
         /\ \A s \in SUBSET S : Sums(f)[s] \in Int
<1>a. \A s \in SUBSET S : Sums(f)[s] = IF s = {} THEN 0 ELSE f[Any(s)] + Sums(f)[s \ {Any(s)}]
  BY SumsExist, Zenon DEF IsSums
<1>1. /\ Sums(f)[{}] = 0
      /\ \A s \in SUBSET S : s # {} => Sums(f)[s] = f[Any(s)] + Sums(f)[s \ {Any(s)}]
  BY <1>a, Zenon
<1> DEFINE B == {s \in SUBSET S : Sums(f)[s] \notin Int}
<1>2. B = {}
  <2> SUFFICES ASSUME B # {} PROVE FALSE
    OBVIOUS
  <2>1. PICK s \in B : \A u \in B : Cardinality(s) <= Cardinality(u)
    BY SmallestSubset
  <2>2. s \in SUBSET S /\ Sums(f)[s] \notin Int
    BY <2>1
  <2>a. s # {}
    <3>1. SUFFICES ASSUME s = {} PROVE FALSE
      OBVIOUS
    <3>2. Sums(f)[s] = 0
      BY <1>1, <3>1, Zenon
    <3> QED
      BY <2>2, <3>2
  <2>3. s # {} /\ Sums(f)[s] = f[Any(s)] + Sums(f)[s \ {Any(s)}]
    BY <1>1, <2>2, <2>a, Zenon
  <2>4. s \ {Any(s)} \notin B /\ Any(s) \in S /\ s \ {Any(s)} \in SUBSET S
    BY <2>1, <2>2, <2>3, Rest
  <2>5. Sums(f)[s \ {Any(s)}] \in Int /\ f[Any(s)] \in Int
    BY <2>4
  <2> QED
    BY <2>2, <2>3, <2>5
<1> QED
  BY <1>1, <1>2

(* A change of one value changes the total as much. *)
LEMMA TotalChanges ==
  ASSUME NEW S, IsFiniteSet(S), NEW f \in [S -> Int], NEW a \in S, NEW d \in Int
  PROVE  /\ Total([f EXCEPT ![a] = f[a] + d]) = Total(f) + d
         /\ Total(f) \in Int
<1> DEFINE h == [f EXCEPT ![a] = f[a] + d]
           Part(s) == Sums(f)[s] + IF a \in s THEN d ELSE 0
           B == {s \in SUBSET S : Sums(h)[s] # Part(s)}
<1>1. h \in [S -> Int] /\ h[a] = f[a] + d /\ \A x \in S \ {a} : h[x] = f[x]
  OBVIOUS
<1> HIDE DEF h
<1>2. B = {}
  <2> SUFFICES ASSUME B # {} PROVE FALSE
    OBVIOUS
  <2>1. PICK s \in B : \A u \in B : Cardinality(s) <= Cardinality(u)
    BY SmallestSubset
  <2> DEFINE x == Any(s)
             u == s \ {x}
  <2>0. s \in SUBSET S /\ Sums(h)[s] # Part(s)
    BY <2>1
  <2>2. s # {}
    <3>1. Sums(h)[{}] = 0 /\ Sums(f)[{}] = 0
      BY <1>1, SumsTyped
    <3> QED
      BY <2>0, <3>1
  <2>3. u \notin B /\ x \in s /\ u \in SUBSET S /\ x \in S
    BY <2>0, <2>1, <2>2, Rest
  <2>4. Sums(h)[u] = Part(u)
    BY <2>3
  <2>5. Sums(f)[s] = f[x] + Sums(f)[u] /\ Sums(f)[u] \in Int
    BY <2>0, <2>2, <2>3, SumsTyped
  <2>6. Sums(h)[s] = h[x] + Sums(h)[u]
    BY <1>1, <2>0, <2>2, SumsTyped
  <2>7. f[x] \in Int /\ x \notin u
    BY <2>3
  <2>8. CASE x = a
    BY <1>1, <2>0, <2>3, <2>4, <2>5, <2>6, <2>7, <2>8
  <2>9. CASE x # a
    <3>1. a \in s <=> a \in u
      BY <2>9
    <3>2. h[x] = f[x]
      BY <1>1, <2>3, <2>9
    <3> QED
      BY <2>0, <2>4, <2>5, <2>6, <2>7, <3>1, <3>2
  <2> QED
    BY <2>8, <2>9
<1>3. Sums(h)[S] = Part(S)
  BY <1>2
<1>4. DOMAIN h = S /\ DOMAIN f = S /\ Sums(f)[S] \in Int
  BY <1>1, SumsTyped
<1> QED
  BY <1>3, <1>4, TotalIsSums DEF h

LEMMA TotalOfNothing ==
  ASSUME NEW S, IsFiniteSet(S)
  PROVE  Total([a \in S |-> 0]) = 0
<1> DEFINE f == [a \in S |-> 0]
           B == {s \in SUBSET S : Sums(f)[s] # 0}
<1>1. f \in [S -> Int] /\ DOMAIN f = S /\ \A x \in S : f[x] = 0
  OBVIOUS
<1> HIDE DEF f
<1>2. B = {}
  <2> SUFFICES ASSUME B # {} PROVE FALSE
    OBVIOUS
  <2>1. PICK s \in B : \A u \in B : Cardinality(s) <= Cardinality(u)
    BY SmallestSubset
  <2>2. s \in SUBSET S /\ Sums(f)[s] # 0
    BY <2>1
  <2>3. s # {}
    BY <1>1, <2>2, SumsTyped
  <2>4. s \ {Any(s)} \notin B /\ s \ {Any(s)} \in SUBSET S /\ Any(s) \in S
    BY <2>1, <2>2, <2>3, Rest
  <2>5. Sums(f)[s] = f[Any(s)] + Sums(f)[s \ {Any(s)}]
    BY <1>1, <2>2, <2>3, SumsTyped
  <2> QED
    BY <1>1, <2>2, <2>4, <2>5
<1> QED
  BY <1>1, <1>2, TotalIsSums DEF f

----------------------------------------------------------------------------
(* The total changes by what a debit takes and a credit brings. *)

LEMMA SettledTyped ==
  ASSUME LockInv, OwedOK
  PROVE  Settled \in [Accounts -> Int]
<1>1. ASSUME NEW a \in Accounts PROVE Owed(a) \in Int
  <2>1. CASE Transit(a) = {}
    BY <2>1 DEF OwedOK
  <2>2. CASE Transit(a) # {}
    <3>1. PICK t : t \in Transit(a)
      BY <2>2
    <3>2. t \in Threads /\ at[t] = "add"
      BY <3>1 DEF Transit
    <3>3. req[t].amount \in Int
      BY <3>2, AtWork
    <3> QED
      BY <3>1, <3>3 DEF OwedOK
  <2> QED
    BY <2>1, <2>2
<1> QED
  BY <1>1 DEF Settled, LockInv, TypeOK

LEMMA AccountsFinite == IsFiniteSet(Accounts)
BY FS_Interval, NumAssumption DEF Accounts

LEMMA Paid ==
  ASSUME NEW f \in [Accounts -> Int], NEW a \in Accounts,
         NEW r, r.amount \in Int, r.src \in Accounts
  PROVE  /\ Total(Bank!Credited(a, r, f)) = Total(f) + r.amount
         /\ Total(Bank!Debited(r, f)) = Total(f) - r.amount
         /\ Bank!Debited(r, f) \in [Accounts -> Int]
         /\ Total(f) \in Int
<1>1. Bank!Credited(a, r, f) = [f EXCEPT ![a] = f[a] + r.amount]
  BY DEF Bank!Credited
<1>2. PICK d \in Int : d = 0 - r.amount
  OBVIOUS
<1>3. Bank!Debited(r, f) = [f EXCEPT ![r.src] = f[r.src] + d]
  <2>1. f[r.src] \in Int /\ f[r.src] - r.amount = f[r.src] + d
    BY <1>2
  <2> QED
    BY <2>1 DEF Bank!Debited
<1>4. ASSUME NEW b \in Accounts, NEW e \in Int
      PROVE  Total([f EXCEPT ![b] = f[b] + e]) = Total(f) + e /\ Total(f) \in Int
  BY TotalChanges, AccountsFinite, Zenon
<1>5. /\ Total([f EXCEPT ![a] = f[a] + r.amount]) = Total(f) + r.amount
      /\ Total([f EXCEPT ![r.src] = f[r.src] + d]) = Total(f) + d
      /\ Total(f) \in Int
  BY <1>4, Zenon
<1>6. Bank!Debited(r, f) \in [Accounts -> Int]
  BY <1>3
<1> QED
  BY <1>1, <1>2, <1>3, <1>5, <1>6

LEMMA MoneyTotal ==
  /\ MoneyConserved <=> Total(Settled) = net
  /\ MoneyConserved' <=> Total(Settled') = net'
<1>1. MoneyConserved <=> Total(Settled) = net
  BY Zenon DEF MoneyConserved, Total
<1>2. MoneyConserved' <=> (Total(Settled) = net)'
  BY <1>1, PTL
<1> QED
  BY <1>1, <1>2

LEMMA MoneyStep ==
  ASSUME LockInv, OwedOK, OwedOK', MoneyConserved, [Next]_vars
  PROVE  MoneyConserved'
<1>a. Settled \in [Accounts -> Int]
  BY SettledTyped
<1>1. ASSUME NEW t \in Threads, Subtract(t) PROVE MoneyConserved'
  <2> DEFINE r == req[t]
  <2>1. /\ r.op \in {"debit", "transfer"} /\ r.src \in Accounts /\ r.amount \in Int
        /\ r.op = "transfer" => r.dest \in Accounts
        /\ r.op = "debit" => Settled' = Bank!Debited(r, Settled)
        /\ r.op = "transfer" => Settled' = Bank!Credited(r.dest, r, Bank!Debited(r, Settled))
    BY <1>1, SubtractSettles
  <2>2. net' = IF r.op = "debit" THEN net - r.amount ELSE net
    BY <1>1 DEF Subtract
  <2>3. /\ Total(Bank!Debited(r, Settled)) = Total(Settled) - r.amount
        /\ Bank!Debited(r, Settled) \in [Accounts -> Int]
        /\ Total(Settled) \in Int
    BY <1>a, <2>1, Paid
  <2>4. r.op = "transfer" =>
          Total(Settled') =
            Total(Bank!Debited(r, Settled)) + r.amount
    BY <2>1, <2>3, Paid
  <2> QED
    BY <2>1, <2>2, <2>3, <2>4, MoneyTotal
<1>2. ASSUME NEW t \in Threads, Add(t) PROVE MoneyConserved'
  <2> DEFINE r == req[t]
  <2>1. /\ r.op \in {"credit", "transfer"} /\ r.src \in Accounts /\ r.amount \in Int
        /\ r.op = "credit" => Settled' = Bank!Credited(r.src, r, Settled)
        /\ r.op = "transfer" => Settled' = Settled
    BY <1>2, AddSettles
  <2>2. net' = IF r.op = "credit" THEN net + r.amount ELSE net
    BY <1>2 DEF Add
  <2>3. Total(Bank!Credited(r.src, r, Settled)) = Total(Settled) + r.amount
    BY <1>a, <2>1, Paid
  <2> QED
    BY <2>1, <2>2, <2>3, MoneyTotal
<1>3. ASSUME (\E t \in Threads : Elsewhere(t)) \/ UNCHANGED vars PROVE MoneyConserved'
  BY <1>3, OthersSettle, MoneyTotal
<1> QED
  BY <1>1, <1>2, <1>3 DEF Next, OperationStep, Stop, Elsewhere

(* Whatever the threads do at the same time, the accounts hold, with what a
   transfer has in hand, what was credited less what was debited. *)
THEOREM MoneyKept == Spec => []MoneyConserved
<1>1. Init => MoneyConserved
  <2>1. Init => \A a \in Accounts : Transit(a) = {}
    BY DEF Init, Transit
  <2>2. Init => Settled = [a \in Accounts |-> 0] /\ net = 0
    BY <2>1 DEF Init, Settled, Owed
  <2> QED
    BY <2>2, TotalOfNothing, AccountsFinite, MoneyTotal
<1>2. LockInv => OwedOK
  BY OwedOnce
<1>3. LockInv /\ OwedOK /\ OwedOK' /\ MoneyConserved /\ [Next]_vars => MoneyConserved'
  BY MoneyStep
<1> QED
  BY <1>1, <1>2, <1>3, LockInvHolds, PTL DEF Spec

----------------------------------------------------------------------------
(* No deadlock of the accounts' mutexes. *)

(* The account whose mutex a thread is about to lock; who cannot go on: it waits
   for a call, or for a mutex that another thread has. *)
Wanted(t) == IF at[t] = "lock_first" THEN {FirstLock(req[t])}
             ELSE IF at[t] = "lock_second" THEN {SecondLock(req[t])} ELSE {}
Blocked(t) == at[t] = "idle" \/ \E a \in Wanted(t) : account_ctrl[a] # None

(* While a thread is inside an operation, some thread can go on. *)
NeverStuck == AllIdle \/ \E t \in Threads : ~Blocked(t)

(* Who has a mutex wants none, or one of a greater account. *)
LEMMA WantsGreater ==
  ASSUME LockInv, NEW t \in Threads, NEW a \in Locked(t), NEW b \in Wanted(t)
  PROVE  a \in Accounts /\ b \in Accounts /\ a < b
<1>1. at[t] = "lock_second" /\ a = FirstLock(req[t]) /\ b = SecondLock(req[t])
  BY DEF Locked, Wanted
<1>2. req[t] \in Requests /\ Accepted(req[t]) /\ req[t].op = "transfer"
  BY <1>1 DEF LockInv, StepsOK, Steps
<1> QED
  BY <1>1, <1>2, AcceptedRequest, NumAssumption DEF FirstLock, SecondLock, Accounts

(* A thread only asks for the mutex of an account there is. *)
LEMMA WantedAccounts ==
  ASSUME LockInv, NEW t \in Threads, NEW a \in Wanted(t)
  PROVE  a \in Accounts
<1>1. at[t] \in {"lock_first", "lock_second"} /\ req[t] \in Requests /\ Accepted(req[t])
  BY DEF LockInv, StepsOK, Steps, Wanted
<1> QED
  BY <1>1, AcceptedRequest, TransferLocks DEF LockInv, StepsOK, Steps, Wanted

(* A mutex that is taken is with a thread that is still inside its operation. *)
LEMMA HolderHas ==
  ASSUME LockInv, NEW a \in Accounts, account_ctrl[a] # None
  PROVE  \E t \in Threads : a \in Locked(t)
BY DEF LockInv, TypeOK, LocksHeld

(* Of the mutexes wanted take the one of the greatest account: who has it wants
   none, so it can go on. *)
LEMMA InvNeverStuck == LockInv => NeverStuck
<1> SUFFICES ASSUME LockInv, ~AllIdle, \A t \in Threads : Blocked(t)
             PROVE  FALSE
  BY DEF NeverStuck
<1> DEFINE W == UNION {Wanted(t) : t \in Threads}
           D == {NumAccounts - a : a \in W}
<1>1. W \subseteq Accounts
  BY WantedAccounts
<1>2. W # {}
  <2>1. PICK t \in Threads : at[t] # "idle"
    BY DEF AllIdle
  <2> QED
    BY <2>1 DEF Blocked
<1>3. PICK m \in W : \A a \in W : a <= m
  <2>1. D \in SUBSET Nat /\ D # {}
    BY <1>1, <1>2, NumAssumption DEF Accounts
  <2>2. PICK d \in D : \A e \in D : d <= e
    BY <2>1, LeastNumber
  <2>3. PICK m \in W : d = NumAccounts - m
    BY <2>2
  <2>4. ASSUME NEW a \in W PROVE a <= m
    <3>1. d <= NumAccounts - a
      BY <2>2
    <3> QED
      BY <1>1, <2>3, <3>1, NumAssumption DEF Accounts
  <2> QED
    BY <2>4
<1>4. account_ctrl[m] # None
  <2>1. PICK t \in Threads : m \in Wanted(t)
    OBVIOUS
  <2>2. Wanted(t) = {m} /\ at[t] # "idle"
    BY <2>1 DEF Wanted
  <2> QED
    BY <2>2 DEF Blocked
<1>5. PICK u \in Threads : m \in Locked(u)
  BY <1>1, <1>4, HolderHas
<1>6. PICK b \in Wanted(u) : TRUE
  BY <1>5 DEF Blocked, Locked
<1>7. m < b /\ m \in Int /\ b \in Int
  BY <1>5, <1>6, WantsGreater DEF Accounts
<1>8. b <= m
  BY <1>3, <1>6
<1> QED
  BY <1>7, <1>8

(* No circle of threads waits for each other's mutexes, whatever the transfers
   that run at once (transferir locks the lesser account first, accounts.c): while
   a thread is inside an operation, one of those inside can go on. *)
THEOREM NobodyDeadlocked == Spec => []NeverStuck
  BY LockInvHolds, InvNeverStuck, PTL
=============================================================================
