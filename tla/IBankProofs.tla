---------------------------- MODULE IBankProofs ----------------------------
(***************************************************************************)
(* Proofs about the whole of i-banco (module IBank).  Every step of it is  *)
(* a step of the command pipeline or leaves it, and a step of the accounts *)
(* or leaves them, so what CommandBufferProofs and AccountsProofs prove of *)
(* each holds in the whole; the two modules are instantiated for that.     *)
(* What the whole adds is the coupling of the two, that a thread is in an  *)
(* account operation only while it executes a command, and the count of    *)
(* the children.                                                           *)
(***************************************************************************)
EXTENDS IBank, FiniteSetTheorems, TLAPS

(* The proofs about the two components, at their place in i-banco. *)
CBP == INSTANCE CommandBufferProofs WITH Ops <- Requests
ACP == INSTANCE AccountsProofs WITH MaxCalls <- MaxCommands

(* The assumptions of the components follow from those of the whole. *)
LEMMA PipelineAssumptions ==
  CBP!ThreadsAssumption /\ CBP!DimAssumption /\ CBP!OpsAssumption /\ CBP!BoundAssumption
BY ThreadsAssumption, SizesAssumption, RequestsAssumption DEF IsFiniteSet, CBP!IsFiniteSet

LEMMA AccountsAssumptions ==
  /\ ACP!ThreadsAssumption /\ ACP!NumAssumption /\ ACP!RequestsAssumption
  /\ ACP!NoneAssumption /\ ACP!CallsAssumption
<1>1. ACP!RequestsAssumption
  BY RequestsAssumption DEF AC!IsRequest, AC!account_exists, AC!Accounts,
    ACP!IsRequest, ACP!account_exists, ACP!Accounts
<1>2. ACP!ThreadsAssumption
  BY ThreadsAssumption DEF IsFiniteSet, ACP!IsFiniteSet
<1> QED
  BY <1>1, <1>2, SizesAssumption, RequestsAssumption

----------------------------------------------------------------------------
(* Every step is one of the pipeline or leaves it, one of the accounts or
   leaves them. *)
LEMMA Components ==
  ASSUME [Next]_vars
  PROVE  [CB!Next]_(CB!vars) /\ [AC!Next]_(AC!vars)
<1> USE DEF cbVars, accVars, childVars, CB!vars, AC!vars
<1>1. ASSUME NEW t \in Threads, Worker(t) PROVE [CB!Next]_(CB!vars) /\ [AC!Next]_(AC!vars)
  <2>1. CASE Dispatch(t)
    BY <2>1 DEF Dispatch, AC!Next
  <2>2. CASE Operate(t)
    BY <2>2 DEF Operate, AC!Next
  <2>3. CASE Finish(t)
    BY <2>3 DEF Finish, AC!Next, CB!Next, CB!WorkerStep
  <2>4. CASE Pipeline(t)
    BY <2>4 DEF Pipeline, CB!Next, CB!WorkerStep
  <2> QED
    BY <1>1, <2>1, <2>2, <2>3, <2>4 DEF Worker
<1>2. CASE MainStep
  BY <1>2 DEF MainStep, CB!Next, CB!MainStep
<1>3. CASE Fork
  BY <1>3 DEF Fork, CB!Next, CB!MainStep
<1>4. ASSUME NEW r \in Requests, ReadCommand(r) PROVE [CB!Next]_(CB!vars) /\ [AC!Next]_(AC!vars)
  BY <1>4 DEF ReadCommand, CB!Next, CB!UserStep
<1>5. ASSUME NEW n \in Years, Simulate(n) PROVE [CB!Next]_(CB!vars) /\ [AC!Next]_(AC!vars)
  BY <1>5 DEF Simulate, CB!Next, CB!UserStep
<1>6. ASSUME NEW now \in BOOLEAN, Quit(now) PROVE [CB!Next]_(CB!vars) /\ [AC!Next]_(AC!vars)
  BY <1>6 DEF Quit, CB!Next, CB!UserStep
<1>7. CASE SpuriousWakeup
  BY <1>7 DEF SpuriousWakeup, CB!Next
<1>8. CASE Wait \/ LeaveMain \/ UNCHANGED vars
  BY <1>8 DEF Wait, LeaveMain, vars
<1>9. ASSUME NEW c \in DOMAIN children, ChildStep(c)
      PROVE  [CB!Next]_(CB!vars) /\ [AC!Next]_(AC!vars)
  BY <1>9 DEF ChildStep, ChildYear, ChildExit
<1> QED
  BY <1>1, <1>2, <1>3, <1>4, <1>5, <1>6, <1>7, <1>8, <1>9 DEF Next, Exited

(* i-banco is its command pipeline and its accounts together: what the two do
   in it, each does by itself. *)
THEOREM ComponentsKept == Spec => CB!Spec /\ AC!Spec
<1>1. Init => CB!Init /\ AC!Init
  BY DEF Init
<1>2. [Next]_vars => [CB!Next]_(CB!vars) /\ [AC!Next]_(AC!vars)
  BY Components
<1> QED
  BY <1>1, <1>2, PTL DEF Spec, CB!Spec, AC!Spec

(* The two components as their proofs know them. *)
LEMMA SamePipeline == CB!Spec => CBP!Spec
<1>1. CB!Init => CBP!Init
  BY DEF CB!Init, CBP!Init, CB!InitWith, CBP!InitWith, CB!NoCommand, CBP!NoCommand,
    CB!Slots, CBP!Slots
<1>2. UNCHANGED CB!vars => UNCHANGED CBP!vars
  BY DEF CB!vars, CBP!vars
<1>3. [CB!Next]_(CB!vars) => [CBP!Next]_(CBP!vars)
  <2> USE DEF CB!Goto, CBP!Goto, CB!MainGoto, CBP!MainGoto, CB!ringVars, CBP!ringVars,
        CB!semVars, CBP!semVars, CB!pendingVars, CBP!pendingVars, CB!mainVars, CBP!mainVars,
        CB!histVars, CBP!histVars, CB!workerVars, CBP!workerVars
  <2>1. ASSUME NEW t \in Threads, CB!WorkerStep(t) PROVE CBP!WorkerStep(t)
    <3>1. CB!WaitOnReadSem(t) => CBP!WaitOnReadSem(t)
      BY DEF CB!WaitOnReadSem, CBP!WaitOnReadSem
    <3>2. CB!LockCmdBuffer(t) => CBP!LockCmdBuffer(t)
      BY DEF CB!LockCmdBuffer, CBP!LockCmdBuffer
    <3>3. CB!CopyCmd(t) => CBP!CopyCmd(t)
      BY DEF CB!CopyCmd, CBP!CopyCmd
    <3>4. CB!AdvanceRead(t) => CBP!AdvanceRead(t)
      BY DEF CB!AdvanceRead, CBP!AdvanceRead, CB!NextIdx, CBP!NextIdx
    <3>5. CB!UnlockCmdBuffer(t) => CBP!UnlockCmdBuffer(t)
      BY DEF CB!UnlockCmdBuffer, CBP!UnlockCmdBuffer
    <3>6. CB!PostToWriteSem(t) => CBP!PostToWriteSem(t)
      BY DEF CB!PostToWriteSem, CBP!PostToWriteSem
    <3>7. CB!Execute(t) => CBP!Execute(t)
      BY DEF CB!Execute, CBP!Execute
    <3>8. CB!ReturnFromThread(t) => CBP!ReturnFromThread(t)
      BY DEF CB!ReturnFromThread, CBP!ReturnFromThread
    <3>9. CB!LockPending(t) => CBP!LockPending(t)
      BY DEF CB!LockPending, CBP!LockPending
    <3>10. CB!DecrementPending(t) => CBP!DecrementPending(t)
      BY DEF CB!DecrementPending, CBP!DecrementPending, CB!SomePending, CBP!SomePending,
        CB!SignalCondSimulate, CBP!SignalCondSimulate
    <3>11. CB!UnlockPending(t) => CBP!UnlockPending(t)
      BY DEF CB!UnlockPending, CBP!UnlockPending
    <3>12. CB!WriteToLog(t) => CBP!WriteToLog(t)
      BY DEF CB!WriteToLog, CBP!WriteToLog
    <3> QED
      BY <2>1, <3>1, <3>2, <3>3, <3>4, <3>5, <3>6, <3>7, <3>8, <3>9, <3>10, <3>11, <3>12
      DEF CB!WorkerStep, CBP!WorkerStep
  <2>2. CB!MainStep => CBP!MainStep
    <3>1. CB!WaitOnWriteSem => CBP!WaitOnWriteSem
      BY DEF CB!WaitOnWriteSem, CBP!WaitOnWriteSem
    <3>2. CB!PutCmd => CBP!PutCmd
      BY DEF CB!PutCmd, CBP!PutCmd, CB!NextIdx, CBP!NextIdx
    <3>3. CB!PostToReadSem => CBP!PostToReadSem
      BY DEF CB!PostToReadSem, CBP!PostToReadSem, CB!ExitsLeft, CBP!ExitsLeft,
        CB!Cardinality, CBP!Cardinality
    <3>4. CB!MainLockPending => CBP!MainLockPending
      BY DEF CB!MainLockPending, CBP!MainLockPending
    <3>5. CB!IncrementPending => CBP!IncrementPending
      BY DEF CB!IncrementPending, CBP!IncrementPending
    <3>6. CB!MainUnlockPending => CBP!MainUnlockPending
      BY DEF CB!MainUnlockPending, CBP!MainUnlockPending
    <3>7. CB!SimLock => CBP!SimLock
      BY DEF CB!SimLock, CBP!SimLock
    <3>8. CB!SimTest => CBP!SimTest
      BY DEF CB!SimTest, CBP!SimTest, CB!SomePending, CBP!SomePending
    <3>9. CB!SimUnlock => CBP!SimUnlock
      BY DEF CB!SimUnlock, CBP!SimUnlock
    <3>10. CB!Fork => CBP!Fork
      BY DEF CB!Fork, CBP!Fork
    <3>11. CB!JoinThreads => CBP!JoinThreads
      BY DEF CB!JoinThreads, CBP!JoinThreads
    <3> QED
      BY <3>1, <3>2, <3>3, <3>4, <3>5, <3>6, <3>7, <3>8, <3>9, <3>10, <3>11
      DEF CB!MainStep, CBP!MainStep
  <2>3. CB!UserStep => CBP!UserStep
    BY DEF CB!UserStep, CBP!UserStep, CB!ReadCommand, CBP!ReadCommand, CB!ReadSimulate,
      CBP!ReadSimulate, CB!ReadExit, CBP!ReadExit
  <2>4. CB!SpuriousWakeup => CBP!SpuriousWakeup
    BY DEF CB!SpuriousWakeup, CBP!SpuriousWakeup
  <2>5. CB!Ended => CBP!Ended
    BY <1>2 DEF CB!Ended, CBP!Ended
  <2> QED
    BY <1>2, <2>1, <2>2, <2>3, <2>4, <2>5 DEF CB!Next, CBP!Next
<1> QED
  BY <1>1, <1>3, PTL DEF CB!Spec, CBP!Spec

LEMMA SameAccounts == AC!Spec => ACP!Spec
<1>1. AC!Init => ACP!Init
  BY DEF AC!Init, ACP!Init, AC!Accounts, ACP!Accounts
<1>2. UNCHANGED AC!vars => UNCHANGED ACP!vars
  BY DEF AC!vars, ACP!vars
<1>3. [AC!Next]_(AC!vars) => [ACP!Next]_(ACP!vars)
  <2> USE DEF AC!Goto, ACP!Goto, AC!FirstLock, ACP!FirstLock, AC!SecondLock, ACP!SecondLock,
        AC!Body, ACP!Body, AC!lock_account, ACP!lock_account, AC!unlock_account,
        ACP!unlock_account
  <2>1. ASSUME NEW t \in Threads PROVE AC!OperationStep(t) => ACP!OperationStep(t)
    <3>1. AC!Begin(t) => ACP!Begin(t)
      BY DEF AC!Begin, ACP!Begin, AC!Accepted, ACP!Accepted, AC!account_exists,
        ACP!account_exists, AC!Accounts, ACP!Accounts, AC!Failed, ACP!Failed
    <3>2. AC!LockFirst(t) => ACP!LockFirst(t)
      BY DEF AC!LockFirst, ACP!LockFirst
    <3>3. AC!LockSecond(t) => ACP!LockSecond(t)
      BY DEF AC!LockSecond, ACP!LockSecond
    <3>4. AC!Test(t) => ACP!Test(t)
      BY DEF AC!Test, ACP!Test, AC!Failed, ACP!Failed
    <3>5. AC!Subtract(t) => ACP!Subtract(t)
      BY DEF AC!Subtract, ACP!Subtract
    <3>6. AC!Add(t) => ACP!Add(t)
      BY DEF AC!Add, ACP!Add, AC!Target, ACP!Target
    <3>7. AC!Read(t) => ACP!Read(t)
      BY DEF AC!Read, ACP!Read
    <3>8. AC!UnlockSrc(t) => ACP!UnlockSrc(t)
      BY DEF AC!UnlockSrc, ACP!UnlockSrc
    <3>9. AC!UnlockDest(t) => ACP!UnlockDest(t)
      BY DEF AC!UnlockDest, ACP!UnlockDest
    <3> QED
      BY <3>1, <3>2, <3>3, <3>4, <3>5, <3>6, <3>7, <3>8, <3>9
      DEF AC!OperationStep, ACP!OperationStep
  <2>2. ASSUME NEW t \in Threads PROVE AC!Return(t) => ACP!Return(t)
    BY DEF AC!Return, ACP!Return
  <2>3. ASSUME NEW t \in Threads, NEW r \in Requests PROVE AC!Call(t, r) => ACP!Call(t, r)
    BY DEF AC!Call, ACP!Call
  <2>4. AC!Stop => ACP!Stop
    BY <1>2 DEF AC!Stop, ACP!Stop, AC!AllIdle, ACP!AllIdle
  <2> QED
    BY <1>2, <2>1, <2>2, <2>3, <2>4 DEF AC!Next, ACP!Next
<1> QED
  BY <1>1, <1>3, PTL DEF AC!Spec, ACP!Spec

(* What is known of the components. *)
Settling == CBP!Inv /\ ACP!LockInv /\ ACP!MoneyConserved

LEMMA ComponentsHold == Spec => []Settling
<1>1. CBP!Spec => []CBP!Inv
  BY CBP!InvHolds, PipelineAssumptions
<1>2. ACP!Spec => []ACP!LockInv
  BY ACP!LockInvHolds, AccountsAssumptions
<1>3. ACP!Spec => []ACP!MoneyConserved
  BY ACP!MoneyKept, AccountsAssumptions
<1> QED
  BY <1>1, <1>2, <1>3, ComponentsKept, SamePipeline, SameAccounts, PTL DEF Settling

----------------------------------------------------------------------------
(* A thread is in an account operation only while it executes a command that
   asks for one. *)
Coupled ==
  \A t \in Threads : at[t] # "idle" => pc[t] = "execute" /\ cmd[t].op \in Requests

(* No step breaks it: only a worker at "execute" calls an operation, and it
   leaves "execute" when its operation has returned. *)
LEMMA CoupledStep ==
  ASSUME Settling, Coupled, [Next]_vars
  PROVE  Coupled'
<1>a. /\ \E A : at \in [Threads -> A]
      /\ \E A : pc \in [Threads -> A]
      /\ \E A : cmd \in [Threads -> A]
  BY DEF Settling, CBP!Inv, CBP!TypeOK, ACP!LockInv, ACP!TypeOK
<1> USE DEF CB!Goto, AC!Goto, cbVars, accVars
<1>b. ASSUME NEW t \in Threads, UNCHANGED <<pc, cmd>>, pc[t] = "execute", cmd[t].op \in Requests,
             \A u \in Threads \ {t} : at'[u] = at[u]
      PROVE  Coupled'
  BY <1>b DEF Coupled
<1>c. ASSUME NEW t \in Threads, at'[t] = "idle",
             \A u \in Threads \ {t} : at'[u] = at[u] /\ pc'[u] = pc[u] /\ cmd'[u] = cmd[u]
      PROVE  Coupled'
  BY <1>c DEF Coupled
<1>d. ASSUME UNCHANGED <<at, pc, cmd>> PROVE Coupled'
  BY <1>d DEF Coupled
<1>1. ASSUME NEW t \in Threads, Dispatch(t) PROVE Coupled'
  BY <1>1, <1>a, <1>b DEF Dispatch, AC!Call
<1>2. ASSUME NEW t \in Threads, Operate(t) PROVE Coupled'
  <2>1. at[t] # "idle" /\ \A u \in Threads \ {t} : at'[u] = at[u]
    BY <1>2, <1>a DEF Operate, AC!OperationStep, AC!Begin, AC!LockFirst, AC!LockSecond,
      AC!Test, AC!Subtract, AC!Add, AC!Read, AC!UnlockSrc, AC!UnlockDest
  <2> QED
    BY <1>2, <1>b, <2>1 DEF Operate, Coupled
<1>3. ASSUME NEW t \in Threads, Finish(t) PROVE Coupled'
  BY <1>3, <1>a, <1>c DEF Finish, AC!Return, CB!Execute
<1>4. ASSUME NEW t \in Threads, Pipeline(t) PROVE Coupled'
  <2>1. pc[t] = "execute" => cmd[t].op = Exit
    BY <1>4 DEF Pipeline, CB!WaitOnReadSem, CB!LockCmdBuffer, CB!CopyCmd, CB!AdvanceRead,
      CB!UnlockCmdBuffer, CB!PostToWriteSem, CB!ReturnFromThread, CB!LockPending,
      CB!DecrementPending, CB!UnlockPending, CB!WriteToLog
  <2>2. at[t] = "idle" /\ at' = at
    BY <1>4, <2>1, RequestsAssumption DEF Pipeline, Coupled
  <2>3. \A u \in Threads \ {t} : pc'[u] = pc[u]
    BY <1>4, <1>a DEF Pipeline, CB!WaitOnReadSem, CB!LockCmdBuffer, CB!CopyCmd, CB!AdvanceRead,
      CB!UnlockCmdBuffer, CB!PostToWriteSem, CB!ReturnFromThread, CB!LockPending,
      CB!DecrementPending, CB!UnlockPending, CB!WriteToLog
  <2>4. \A u \in Threads \ {t} : cmd'[u] = cmd[u]
    BY <1>4, <1>a DEF Pipeline, CB!WaitOnReadSem, CB!LockCmdBuffer, CB!CopyCmd, CB!AdvanceRead,
      CB!UnlockCmdBuffer, CB!PostToWriteSem, CB!ReturnFromThread, CB!LockPending,
      CB!DecrementPending, CB!UnlockPending, CB!WriteToLog
  <2> QED
    BY <1>c, <2>2, <2>3, <2>4
<1>5. CASE MainStep
  BY <1>5, <1>d DEF MainStep, CB!WaitOnWriteSem, CB!PutCmd, CB!PostToReadSem,
    CB!MainLockPending, CB!IncrementPending, CB!MainUnlockPending, CB!SimLock, CB!SimTest,
    CB!SimUnlock, CB!JoinThreads, CB!workerVars
<1>6. ASSUME \/ Fork \/ SpuriousWakeup \/ \E r \in Requests : ReadCommand(r)
             \/ (\E n \in Years : Simulate(n)) \/ \E now \in BOOLEAN : Quit(now)
      PROVE  Coupled'
  BY <1>6, <1>d DEF Fork, ReadCommand, Simulate, Quit, SpuriousWakeup, CB!Fork,
    CB!ReadCommand, CB!ReadSimulate, CB!ReadExit, CB!SpuriousWakeup, CB!workerVars
<1>7. ASSUME Wait \/ LeaveMain \/ UNCHANGED vars PROVE Coupled'
  BY <1>7, <1>d DEF Wait, LeaveMain, vars
<1>8. ASSUME NEW c \in DOMAIN children, ChildStep(c) PROVE Coupled'
  BY <1>8, <1>d DEF ChildStep, ChildYear, ChildExit
<1> QED
  BY <1>1, <1>2, <1>3, <1>4, <1>5, <1>6, <1>7, <1>8 DEF Next, Worker, Exited

(* When no thread executes a command, no account mutex is held and the accounts
   hold all the money. *)
LEMMA NobodyExecutes ==
  ASSUME Settling, Coupled, \A t \in Threads : pc[t] # "execute"
  PROVE  /\ \A a \in AC!Accounts : account_ctrl[a] = None
         /\ Total(account_balance) = net
<1>1. \A t \in Threads : at[t] = "idle"
  BY DEF Coupled
<1>2. ACP!TypeOK /\ ACP!LocksHeld
  BY DEF Settling, ACP!LockInv
<1>3. ASSUME NEW a \in AC!Accounts PROVE account_ctrl[a] = None
  <2>1. \A t \in Threads : a \notin ACP!Locked(t)
    BY <1>1 DEF ACP!Locked
  <2> QED
    BY <1>2, <2>1 DEF ACP!TypeOK, ACP!LocksHeld, AC!Accounts, ACP!Accounts
<1>4. ACP!Settled = account_balance
  <2>1. \A a \in ACP!Accounts : ACP!Transit(a) = {}
    BY <1>1 DEF ACP!Transit
  <2>2. \A a \in ACP!Accounts : ACP!Owed(a) = 0
    BY <2>1 DEF ACP!Owed
  <2> QED
    BY <1>2, <2>2 DEF ACP!Settled, ACP!TypeOK
<1>5. ASSUME NEW f PROVE ACP!FoldFunction(+, 0, f) = Total(f)
  BY Zenon DEF Total, FoldFunction, FoldFunctionOnSet, MapThenFoldSet, ACP!FoldFunction,
    ACP!FoldFunctionOnSet, ACP!MapThenFoldSet
<1>6. ACP!FoldFunction(+, 0, ACP!Settled) = net
  BY Zenon DEF Settling, ACP!MoneyConserved
<1> QED
  BY <1>3, <1>4, <1>5, <1>6

(* Main forks, and ends, with nobody at work. *)
LEMMA ForkAlone ==
  ASSUME Settling, main_pc = "fork"
  PROVE  \A t \in Threads : pc[t] # "execute"
BY CBP!Quiet, PipelineAssumptions DEF Settling, CBP!Inv, CBP!CountedLabels

LEMMA EndAlone ==
  ASSUME Settling, main_pc = "ended"
  PROVE  done = 1 .. inserted /\ \A t \in Threads : pc[t] # "execute"
<1>1. done = 1 .. inserted
  BY CBP!InvEnd, PipelineAssumptions DEF Settling, CBP!CleanExit
<1>2. \A t \in Threads : pc[t] = "returned"
  BY DEF Settling, CBP!Inv, CBP!ExitInv
<1> QED
  BY <1>1, <1>2

----------------------------------------------------------------------------
(* The children. *)

Child == [balance : [AC!Accounts -> Int], ctrl : [AC!Accounts -> Threads \cup {None}],
          start : Int, year : Nat, last : Int, issued_kill : BOOLEAN,
          status : {"running", "zombie", "reaped"}]

Unreaped == {c \in DOMAIN children : children[c].status # "reaped"}

ChildrenTyped ==
  /\ children \in Seq(Child) /\ num_years \in Int /\ num_children \in Nat
  /\ exited \in BOOLEAN

(* Main counts the children it has not reaped, and leaves when there is none. *)
ChildrenInv ==
  /\ ChildrenTyped
  /\ num_children = Cardinality(Unreaped)
  /\ exited => main_pc = "ended" /\ num_children = 0
  /\ SnapshotSettled

BankInv == Settling /\ Coupled

LEMMA UnreapedCount ==
  ASSUME ChildrenTyped
  PROVE  /\ IsFiniteSet(Unreaped) /\ Cardinality(Unreaped) \in Nat
         /\ DOMAIN children = 1 .. Len(children) /\ Len(children) \in Nat
<1>1. DOMAIN children = 1 .. Len(children) /\ Len(children) \in Nat
  BY DEF ChildrenTyped
<1>2. IsFiniteSet(1 .. Len(children))
  BY <1>1, FS_Interval
<1> QED
  BY <1>1, <1>2, FS_Subset, FS_CardinalityType DEF Unreaped

(* A change of the children that leaves each its mutexes, its start, and its
   balances until its first year is over. *)
LEMMA ChildrenChange ==
  ASSUME ChildrenInv, UNCHANGED <<num_years, exited>>, DOMAIN children' = DOMAIN children,
         children' = [c \in DOMAIN children |-> children'[c]],
         \A c \in DOMAIN children :
           /\ children'[c] \in Child
           /\ children'[c].ctrl = children[c].ctrl
           /\ children'[c].start = children[c].start
           /\ children'[c].year = 0 => children[c].year = 0
                                       /\ children'[c].balance = children[c].balance
  PROVE  /\ children' \in Seq(Child)
         /\ SnapshotSettled'
<1>1. DOMAIN children = 1 .. Len(children) /\ Len(children) \in Nat
  BY DEF ChildrenInv, ChildrenTyped
<1>2. children' \in Seq(Child)
  BY <1>1
<1>3. SnapshotSettled'
  BY DEF ChildrenInv, SnapshotSettled
<1> QED
  BY <1>2, <1>3

LEMMA StatusKept ==
  ASSUME DOMAIN children' = DOMAIN children,
         \A c \in DOMAIN children : children'[c].status = "reaped" <=> children[c].status = "reaped"
  PROVE  Unreaped' = Unreaped
BY DEF Unreaped

LEMMA AfterYearTyped ==
  ASSUME NEW b \in [AC!Accounts -> Int]
  PROVE  AfterYear(b) \in [AC!Accounts -> Int]
<1>1. ASSUME NEW n \in Int PROVE n \div 10 \in Int
  OBVIOUS
<1> QED
  BY <1>1 DEF AfterYear

(* Only main's own steps at their places count, reap and end. *)
LEMMA MainStays ==
  ASSUME Settling, main_pc = "ended", [Next]_vars
  PROVE  main_pc' = "ended"
<1>1. [CB!Next]_(CB!vars)
  BY Components
<1> QED
  BY <1>1 DEF CB!vars, CB!Next, CB!WorkerStep, CB!MainStep, CB!UserStep, CB!Ended, CB!Goto,
    CB!MainGoto, CB!WaitOnReadSem, CB!LockCmdBuffer, CB!CopyCmd, CB!AdvanceRead,
    CB!UnlockCmdBuffer, CB!PostToWriteSem, CB!Execute, CB!ReturnFromThread, CB!LockPending,
    CB!DecrementPending, CB!SignalCondSimulate, CB!UnlockPending, CB!WriteToLog,
    CB!WaitOnWriteSem, CB!PutCmd, CB!PostToReadSem, CB!MainLockPending, CB!IncrementPending,
    CB!MainUnlockPending, CB!SimLock, CB!SimTest, CB!SimUnlock, CB!Fork, CB!JoinThreads,
    CB!ReadCommand, CB!ReadSimulate, CB!ReadExit, CB!SpuriousWakeup, CB!mainVars

(* The inductive step, one case per action of IBank. *)
LEMMA ChildrenStep ==
  ASSUME BankInv, ChildrenInv, [Next]_vars
  PROVE  ChildrenInv'
<1>a. /\ DOMAIN children = 1 .. Len(children) /\ Len(children) \in Nat
      /\ IsFiniteSet(Unreaped) /\ num_children = Cardinality(Unreaped)
      /\ \A c \in DOMAIN children : children[c] \in Child
      /\ num_years \in Int /\ num_children \in Nat /\ exited \in BOOLEAN
  BY UnreapedCount DEF ChildrenInv, ChildrenTyped
<1>b. exited => main_pc = "ended" /\ num_children = 0 /\ main_pc' = "ended"
  BY MainStays DEF ChildrenInv, BankInv
<1>c. account_balance \in [AC!Accounts -> Int] /\ net \in Int
      /\ account_ctrl \in [AC!Accounts -> Threads \cup {None}]
  BY DEF BankInv, Settling, ACP!LockInv, ACP!TypeOK, ACP!Accounts, AC!Accounts
(* What leaves the children as they are. *)
<1>d. ASSUME UNCHANGED <<children, num_children>>, num_years' \in Int, exited' \in BOOLEAN,
             exited' => exited \/ (main_pc' = "ended" /\ num_children = 0)
      PROVE  ChildrenInv'
  <2>1. Unreaped' = Unreaped
    BY <1>d DEF Unreaped
  <2>2. exited' => main_pc' = "ended" /\ num_children' = 0
    BY <1>b, <1>d
  <2>3. SnapshotSettled'
    BY <1>d DEF ChildrenInv, SnapshotSettled
  <2>4. ChildrenTyped'
    BY <1>d, <1>a DEF ChildrenInv, ChildrenTyped
  <2> QED
    BY <1>a, <1>d, <2>1, <2>2, <2>3, <2>4 DEF ChildrenInv
(* What changes a child, or several, and reaps none. *)
<1>e. ASSUME UNCHANGED <<num_children, num_years, exited>>, DOMAIN children' = DOMAIN children,
             children' = [c \in DOMAIN children |-> children'[c]],
             \A c \in DOMAIN children :
               /\ children'[c] \in Child
               /\ children'[c].ctrl = children[c].ctrl
               /\ children'[c].start = children[c].start
               /\ children'[c].year = 0 => children[c].year = 0
                                           /\ children'[c].balance = children[c].balance
               /\ children'[c].status = "reaped" <=> children[c].status = "reaped"
      PROVE  ChildrenInv'
  <2>1. Unreaped' = Unreaped
    BY <1>e, StatusKept
  <2>2. children' \in Seq(Child) /\ SnapshotSettled'
    BY <1>e, ChildrenChange
  <2> QED
    BY <1>a, <1>b, <1>e, <2>1, <2>2 DEF ChildrenInv, ChildrenTyped
<1>1. ASSUME NEW t \in Threads, Worker(t) PROVE ChildrenInv'
  BY <1>1, <1>a, <1>d DEF Worker, Dispatch, Operate, Finish, Pipeline, childVars
<1>2. CASE MainStep \/ SpuriousWakeup \/ \E r \in Requests : ReadCommand(r)
  BY <1>2, <1>a, <1>d DEF MainStep, SpuriousWakeup, ReadCommand, childVars
<1>3. ASSUME NEW n \in Years, Simulate(n) PROVE ChildrenInv'
  BY <1>3, <1>a, <1>d, YearsAssumption DEF Simulate
<1>4. CASE Fork
  <2>1. main_pc = "fork" /\ ~exited
    BY <1>4, <1>b DEF Fork, CB!Fork, CB!MainGoto
  <2>2. /\ \A a \in AC!Accounts : account_ctrl[a] = None
        /\ Total(account_balance) = net
    BY <2>1, ForkAlone, NobodyExecutes DEF BankInv
  <2>3. /\ NewChild \in Child /\ NewChild.year = 0 /\ NewChild.ctrl = account_ctrl
        /\ NewChild.start = net /\ NewChild.balance = account_balance
        /\ NewChild.status = "running"
    BY <1>a, <1>c DEF NewChild, Child
  <2>4. /\ children' = Append(children, NewChild) /\ num_children' = num_children + 1
        /\ UNCHANGED <<num_years, exited>>
    BY <1>4 DEF Fork
  <2> HIDE DEF NewChild
  <2> DEFINE k == Len(children) + 1
  <2>5. /\ children' \in Seq(Child) /\ DOMAIN children' = 1 .. k
        /\ \A c \in DOMAIN children : c \in DOMAIN children' /\ children'[c] = children[c]
        /\ children'[k] = NewChild /\ k \notin DOMAIN children
        /\ DOMAIN children' = DOMAIN children \cup {k}
    BY <1>a, <2>3, <2>4 DEF ChildrenInv, ChildrenTyped
  <2> HIDE DEF k
  <2>6. Unreaped' = Unreaped \cup {k} /\ k \notin Unreaped
    BY <2>3, <2>5 DEF Unreaped
  <2>7. num_children' = Cardinality(Unreaped')
    BY <1>a, <2>4, <2>6, FS_AddElement
  <2>8. SnapshotSettled'
    <3>1. DOMAIN account_ctrl = AC!Accounts
      BY <1>c
    <3>2. ASSUME NEW c \in DOMAIN children'
          PROVE  /\ \A a \in DOMAIN children'[c].ctrl : children'[c].ctrl[a] = None
                 /\ children'[c].year = 0 => Total(children'[c].balance) = children'[c].start
      <4>1. CASE c = k
        BY <2>2, <2>3, <2>5, <3>1, <4>1
      <4>2. CASE c # k
        BY <2>5, <4>2 DEF ChildrenInv, SnapshotSettled
      <4> QED
        BY <4>1, <4>2
    <3> QED
      BY <3>2 DEF SnapshotSettled
  <2>9. ChildrenTyped'
    BY <1>a, <2>4, <2>5 DEF ChildrenTyped
  <2> QED
    BY <2>1, <2>4, <2>7, <2>8, <2>9 DEF ChildrenInv
<1>5. ASSUME NEW now \in BOOLEAN, Quit(now) PROVE ChildrenInv'
  <2>1. /\ UNCHANGED <<num_children, num_years, exited>>
        /\ \E cs \in Stray : children' = IF now THEN Killed(cs) ELSE children
    BY <1>5 DEF Quit, accVars
  <2>2. PICK cs \in Stray : children' = IF now THEN Killed(cs) ELSE children
    BY <2>1
  <2>3. CASE now
    <3>1. children' = [c \in DOMAIN children |->
            IF c \in cs THEN [children[c] EXCEPT !.issued_kill = TRUE] ELSE children[c]]
      BY <2>2, <2>3 DEF Killed
    <3>2. ASSUME NEW c \in DOMAIN children
          PROVE  /\ children'[c] \in Child
                 /\ children'[c].ctrl = children[c].ctrl
                 /\ children'[c].start = children[c].start
                 /\ children'[c].year = children[c].year
                 /\ children'[c].balance = children[c].balance
                 /\ children'[c].status = children[c].status
      <4>1. children[c] \in Child
        BY <1>a
      <4> QED
        BY <3>1, <4>1 DEF Child
    <3> QED
      BY <1>e, <2>1, <3>1, <3>2
  <2>4. CASE ~now
    BY <1>a, <1>d, <2>1, <2>2, <2>4
  <2> QED
    BY <2>3, <2>4
<1>6. CASE Wait
  <2>1. PICK c \in DOMAIN children :
          /\ children[c].status = "zombie"
          /\ children' = [children EXCEPT ![c].status = "reaped"]
    BY <1>6 DEF Wait
  <2>2. ~exited /\ num_children > 0 /\ num_children' = num_children - 1
        /\ UNCHANGED <<num_years, exited>>
    BY <1>6 DEF Wait, WaitForAnother
  <2>3. children[c] \in Child
    BY <1>a
  <2>4. /\ children'[c] = [children[c] EXCEPT !.status = "reaped"]
        /\ children'[c] \in Child /\ children'[c].status = "reaped"
        /\ children'[c].ctrl = children[c].ctrl /\ children'[c].start = children[c].start
        /\ children'[c].year = children[c].year /\ children'[c].balance = children[c].balance
    BY <2>1, <2>3 DEF Child
  <2>5. /\ \A d \in DOMAIN children : d # c => children'[d] = children[d]
        /\ DOMAIN children' = DOMAIN children
        /\ children' = [d \in DOMAIN children |-> children'[d]]
    BY <2>1
  <2>6. Unreaped' = Unreaped \ {c} /\ c \in Unreaped
    BY <2>1, <2>4, <2>5 DEF Unreaped
  <2>7. num_children' = Cardinality(Unreaped')
    BY <1>a, <2>2, <2>6, FS_RemoveElement
  <2>8. children' \in Seq(Child) /\ SnapshotSettled'
    BY <1>a, <2>2, <2>4, <2>5, ChildrenChange
  <2> QED
    BY <1>a, <2>2, <2>7, <2>8 DEF ChildrenInv, ChildrenTyped
<1>7. CASE LeaveMain
  BY <1>7, <1>a, <1>b, <1>d DEF LeaveMain, WaitForAnother, cbVars
<1>8. ASSUME NEW c \in DOMAIN children, ChildStep(c) PROVE ChildrenInv'
  <2>1. children[c] \in Child /\ children[c].year \in Nat
    BY <1>a DEF Child
  <2>2. UNCHANGED <<num_children, num_years, exited>>
    BY <1>8 DEF ChildStep, ChildYear, ChildExit
  <2>3. CASE ChildYear(c)
    <3> DEFINE b == IF children[c].year > 0 THEN AfterYear(children[c].balance)
                    ELSE children[c].balance
    <3>1. children' = [children EXCEPT ![c] = [children[c] EXCEPT !.year = children[c].year + 1,
                                                                  !.balance = b]]
      BY <2>3 DEF ChildYear
    <3>2. b \in [AC!Accounts -> Int]
      BY <2>1, AfterYearTyped DEF Child
    <3> HIDE DEF b
    <3>3. /\ children'[c] = [children[c] EXCEPT !.year = children[c].year + 1, !.balance = b]
          /\ \A d \in DOMAIN children : d # c => children'[d] = children[d]
          /\ DOMAIN children' = DOMAIN children
          /\ children' = [d \in DOMAIN children |-> children'[d]]
      BY <3>1
    <3>4. children[c].year + 1 \in Nat /\ children[c].year + 1 # 0
      BY <2>1
    <3>5. [children[c] EXCEPT !.year = children[c].year + 1, !.balance = b] \in Child
      BY <2>1, <3>2, <3>4 DEF Child
    <3>6. /\ children'[c] \in Child /\ children'[c].year # 0
          /\ children'[c].ctrl = children[c].ctrl /\ children'[c].start = children[c].start
          /\ children'[c].status = children[c].status
      BY <2>1, <3>3, <3>4, <3>5 DEF Child
    <3> QED
      BY <1>a, <1>e, <2>2, <3>3, <3>6
  <2>4. CASE ChildExit(c)
    <3>1. /\ children'[c] = [children[c] EXCEPT !.status = "zombie"]
          /\ \A d \in DOMAIN children : d # c => children'[d] = children[d]
          /\ DOMAIN children' = DOMAIN children
          /\ children' = [d \in DOMAIN children |-> children'[d]]
          /\ children[c].status = "running"
      BY <2>4 DEF ChildExit
    <3>2. /\ children'[c] \in Child /\ children'[c].status = "zombie"
          /\ children'[c].ctrl = children[c].ctrl /\ children'[c].start = children[c].start
          /\ children'[c].year = children[c].year /\ children'[c].balance = children[c].balance
      BY <2>1, <3>1 DEF Child
    <3> QED
      BY <1>a, <1>e, <2>2, <3>1, <3>2
  <2> QED
    BY <1>8, <2>3, <2>4 DEF ChildStep
<1>9. CASE UNCHANGED vars
  BY <1>9, <1>a, <1>d DEF vars, childVars
<1> QED
  BY <1>1, <1>2, <1>3, <1>4, <1>5, <1>6, <1>7, <1>8, <1>9 DEF Next, Exited

LEMMA InitChildren == Init => ChildrenInv /\ Coupled
<1> SUFFICES ASSUME Init PROVE ChildrenInv /\ Coupled
  OBVIOUS
<1>1. children = <<>> /\ num_children = 0 /\ exited = FALSE /\ num_years = 0
  BY DEF Init
<1>2. DOMAIN children = {} /\ children \in Seq(Child)
  BY <1>1
<1>3. Unreaped = {}
  BY <1>2 DEF Unreaped
<1>4. Coupled
  BY DEF Init, AC!Init, Coupled
<1>5. Cardinality(Unreaped) = 0
  BY <1>3, FS_EmptySet
<1>6. ChildrenTyped
  <2>1. num_children \in Nat
    BY <1>1
  <2>2. exited \in BOOLEAN
    BY <1>1
  <2>3. num_years \in Int
    BY <1>1
  <2> QED
    BY <1>2, <2>1, <2>2, <2>3 DEF ChildrenTyped
<1>7. SnapshotSettled
  BY <1>2 DEF SnapshotSettled
<1> QED
  BY <1>1, <1>4, <1>5, <1>6, <1>7 DEF ChildrenInv

(* The invariant of the whole. *)
LEMMA BankInvHolds == Spec => [](BankInv /\ ChildrenInv)
<1>1. Settling /\ Coupled /\ [Next]_vars => Coupled'
  BY CoupledStep
<1>2. BankInv /\ ChildrenInv /\ [Next]_vars => ChildrenInv'
  BY ChildrenStep
<1> QED
  BY <1>1, <1>2, InitChildren, ComponentsHold, PTL DEF Spec, BankInv

(* Every simulation starts from a settled bank: its copy of the memory has all
   the money and no mutex that nobody would release. *)
THEOREM SimulationsStartSettled == Spec => []SnapshotSettled
<1>1. ChildrenInv => SnapshotSettled
  BY DEF ChildrenInv
<1> QED
  BY <1>1, BankInvHolds, PTL

(* i-banco leaves main with every command executed, every mutex free and every
   child reaped. *)
THEOREM NothingIsLeft == Spec => []NothingLeftBehind
<1>1. BankInv /\ ChildrenInv => NothingLeftBehind
  <2> SUFFICES ASSUME BankInv, ChildrenInv, exited
               PROVE  /\ done = 1 .. inserted
                      /\ \A a \in 1 .. NumAccounts : account_ctrl[a] = None
                      /\ \A c \in DOMAIN children : children[c].status = "reaped"
    BY DEF NothingLeftBehind
  <2>1. main_pc = "ended" /\ Cardinality(Unreaped) = 0
    BY DEF ChildrenInv
  <2>2. done = 1 .. inserted /\ \A a \in 1 .. NumAccounts : account_ctrl[a] = None
    BY <2>1, EndAlone, NobodyExecutes DEF BankInv, AC!Accounts
  <2>3. Unreaped = {}
    BY <2>1, UnreapedCount, FS_EmptySet DEF ChildrenInv
  <2> QED
    BY <2>2, <2>3 DEF Unreaped
<1> QED
  BY <1>1, BankInvHolds, PTL

----------------------------------------------------------------------------
(* No deadlock of i-banco. *)

(* Who cannot go on. A worker that executes a request can call its operation, as
   long as the bound on the calls is not reached, and go on in it but for the
   mutexes of the accounts; main can leave, or wait() for a child that ended; a
   child only waits for a mutex that was held when it was forked. *)
WorkerBlocked(t) ==
  \/ CBP!WorkerBlocked(t)
  \/ /\ pc[t] = "execute" /\ cmd[t].op \in Requests
     /\ IF at[t] = "idle" THEN calls >= MaxCommands ELSE ACP!Blocked(t)
MainBlocked ==
  IF main_pc = "ended"
  THEN exited \/ (WaitForAnother /\ \A c \in DOMAIN children : children[c].status # "zombie")
  ELSE CBP!MainBlocked
ChildBlocked(c) ==
  \/ children[c].status # "running"
  \/ /\ children[c].year <= children[c].last /\ ~children[c].issued_kill
     /\ \E a \in DOMAIN children[c].ctrl : children[c].ctrl[a] # None

(* Until main waits for the user with every command executed, or has left, a
   worker, main or a child can go on. *)
NeverStuck ==
  \/ exited \/ (main_pc = "read_line" /\ done = 1 .. inserted)
  \/ ~MainBlocked \/ (\E t \in Threads : ~WorkerBlocked(t))
  \/ \E c \in DOMAIN children : ~ChildBlocked(c)

(* The workers that will call an operation and have not; the requests that were
   fetched, all called but for theirs. *)
Asking  == {t \in Threads : /\ pc[t] \in CBP!RunLabels /\ cmd[t].op # Exit
                            /\ at[t] = "idle"}
Fetched == IF fetched > CBP!LastCommand THEN CBP!LastCommand ELSE fetched
CallsCounted ==
  /\ calls = Fetched - Cardinality(Asking)
  /\ CBP!LastCommand <= MaxCommands
  /\ main_pc \in {"wait_write_sem", "put_cmd"} /\ main_op # Exit => inserted < MaxCommands

LEMMA AskingFinite == IsFiniteSet(Asking) /\ Cardinality(Asking) \in Nat
BY ThreadsAssumption, FS_Subset, FS_CardinalityType DEF Asking

(* What is known of the numbers. *)
LEMMA CommandNumbers ==
  ASSUME Settling
  PROVE  /\ inserted \in Nat /\ fetched \in Nat /\ fetched <= inserted /\ calls \in Int
         /\ exits \in Nat /\ CBP!LastCommand \in Int /\ Fetched \in Int
         /\ main_op # Exit => CBP!LastCommand = inserted /\ exits = 0
<1>1. CBP!TypeOK /\ CBP!CountInv /\ CBP!ExitInv /\ ACP!TypeOK
  BY DEF Settling, CBP!Inv, ACP!LockInv
<1>2. inserted \in Nat /\ fetched \in Nat /\ exits \in Nat /\ calls \in Int
  BY <1>1, SizesAssumption DEF CBP!TypeOK, ACP!TypeOK
<1>3. fetched <= inserted
  <2>1. inserted - fetched \in 0 .. BufferDim
    BY <1>1, CBP!WaitingBounds, PipelineAssumptions
  <2> QED
    BY <1>2, <2>1, SizesAssumption
<1>4. CBP!LastCommand \in Int /\ (main_op # Exit => CBP!LastCommand = inserted /\ exits = 0)
  BY <1>1, <1>2 DEF CBP!LastCommand, CBP!ExitsPut, CBP!MainAt, CBP!ExitInv
<1> QED
  BY <1>2, <1>3, <1>4 DEF Fetched

(* main's steps: it counts a command as a request when it puts it. *)
LEMMA PutsStep ==
  ASSUME Settling, CallsCounted, CB!MainStep \/ CB!UserStep \/ CB!SpuriousWakeup,
         UNCHANGED <<at, calls>>
  PROVE  CallsCounted'
<1>a. /\ inserted \in Nat /\ fetched \in Nat /\ fetched <= inserted /\ exits \in Nat
      /\ main_op # Exit => CBP!LastCommand = inserted /\ exits = 0
  BY CommandNumbers
<1>b. CBP!LastCommand = inserted - (exits + IF main_op = Exit /\ main_pc = "post_read_sem"
                                            THEN 1 ELSE 0)
  BY <1>a DEF CBP!LastCommand, CBP!ExitsPut, CBP!MainAt
<1>c. CBP!LastCommand' = inserted' - (exits' + IF main_op' = Exit /\ main_pc' = "post_read_sem"
                                               THEN 1 ELSE 0)
  BY DEF CBP!LastCommand, CBP!ExitsPut, CBP!MainAt
<1> USE DEF CB!MainGoto, CB!ringVars, CB!semVars, CB!pendingVars, CB!mainVars, CB!histVars,
        CB!workerVars
<1>1. UNCHANGED <<pc, cmd, fetched>>
  BY DEF CB!MainStep, CB!UserStep, CB!SpuriousWakeup, CB!WaitOnWriteSem, CB!PutCmd,
    CB!PostToReadSem, CB!MainLockPending, CB!IncrementPending, CB!MainUnlockPending,
    CB!SimLock, CB!SimTest, CB!SimUnlock, CB!Fork, CB!JoinThreads, CB!ReadCommand,
    CB!ReadSimulate, CB!ReadExit
<1>2. Asking' = Asking
  BY <1>1 DEF Asking, CBP!RunLabels
<1>3. CASE CB!PutCmd
  <2>1. /\ main_pc = "put_cmd" /\ main_pc' = "post_read_sem" /\ inserted' = inserted + 1
        /\ UNCHANGED <<main_op, exits>>
    BY <1>3 DEF CB!PutCmd
  <2>2. CASE main_op = Exit
    <3>1. CBP!LastCommand' = CBP!LastCommand
      BY <1>a, <1>b, <1>c, <2>1, <2>2
    <3> QED
      BY <1>1, <1>2, <2>1, <2>2, <3>1 DEF CallsCounted, Fetched
  <2>3. CASE main_op # Exit
    <3>1. /\ CBP!LastCommand = inserted /\ CBP!LastCommand' = inserted + 1
          /\ inserted < MaxCommands
      BY <1>a, <1>b, <1>c, <2>1, <2>3 DEF CallsCounted
    <3>2. Fetched' = fetched /\ Fetched = fetched
      BY <1>a, <1>1, <3>1 DEF Fetched
    <3> QED
      BY <1>a, <1>2, <2>1, <3>1, <3>2, SizesAssumption DEF CallsCounted
  <2> QED
    BY <2>2, <2>3
<1>4. ASSUME CBP!LastCommand' = CBP!LastCommand, inserted' = inserted,
             main_pc' \in {"wait_write_sem", "put_cmd"} /\ main_op' # Exit =>
               inserted < MaxCommands
      PROVE  CallsCounted'
  BY <1>1, <1>2, <1>4 DEF CallsCounted, Fetched
<1>5. CASE CB!PostToReadSem
  <2>1. /\ main_pc = "post_read_sem" /\ inserted' = inserted /\ main_op' = main_op
        /\ exits' = IF main_op = Exit THEN exits + 1 ELSE exits
        /\ main_pc' = "wait_write_sem" => main_op = Exit
        /\ main_pc' \notin {"post_read_sem", "put_cmd"}
    BY <1>5 DEF CB!PostToReadSem
  <2>2. CBP!LastCommand' = CBP!LastCommand
    BY <1>a, <1>b, <1>c, <2>1
  <2> QED
    BY <1>4, <2>1, <2>2
<1>6. CASE CB!WaitOnWriteSem
  BY <1>a, <1>b, <1>c, <1>4, <1>6 DEF CB!WaitOnWriteSem, CallsCounted
<1>7. CASE CB!UserStep
  BY <1>a, <1>b, <1>c, <1>4, <1>7 DEF CB!UserStep, CB!ReadCommand, CB!ReadSimulate, CB!ReadExit
<1>8. CASE \/ CB!MainLockPending \/ CB!IncrementPending \/ CB!MainUnlockPending \/ CB!SimLock
           \/ CB!SimTest \/ CB!SimUnlock \/ CB!Fork \/ CB!JoinThreads \/ CB!SpuriousWakeup
  BY <1>a, <1>b, <1>c, <1>4, <1>8 DEF CB!MainLockPending, CB!IncrementPending,
    CB!MainUnlockPending, CB!SimLock, CB!SimTest, CB!SimUnlock, CB!Fork, CB!JoinThreads,
    CB!SpuriousWakeup
<1> QED
  BY <1>3, <1>5, <1>6, <1>7, <1>8 DEF CB!MainStep

(* No step breaks the count: a worker asks from the moment it has advanced the
   read index to the call of its operation. *)
LEMMA CallsStep ==
  ASSUME Settling, Coupled, CallsCounted, [Next]_vars
  PROVE  CallsCounted'
<1>a. /\ at \in [Threads -> {at[t] : t \in Threads}] /\ pc \in [Threads -> {pc[t] : t \in Threads}]
      /\ cmd \in [Threads -> {cmd[t] : t \in Threads}]
  BY DEF Settling, CBP!Inv, CBP!TypeOK, ACP!LockInv, ACP!TypeOK
<1>b. /\ IsFiniteSet(Asking) /\ Cardinality(Asking) \in Nat /\ calls \in Int /\ Fetched \in Int
      /\ fetched \in Nat /\ CBP!LastCommand \in Int
  BY AskingFinite, CommandNumbers
<1> USE DEF CB!Goto, AC!Goto, cbVars, accVars, childVars
<1>c. ASSUME UNCHANGED <<Asking, calls, fetched, inserted, main_op, exits>>,
             main_pc' = main_pc \/ (main_pc = "cond_wait" /\ main_pc' = "sim_lock")
      PROVE  CallsCounted'
  <2>1. CBP!LastCommand' = CBP!LastCommand
    BY <1>c DEF CBP!LastCommand, CBP!ExitsPut, CBP!MainAt
  <2>2. Fetched' = Fetched
    BY <1>c, <2>1 DEF Fetched
  <2> QED
    BY <1>c, <2>1, <2>2 DEF CallsCounted
<1>1. ASSUME NEW t \in Threads, Dispatch(t) PROVE CallsCounted'
  <2>1. /\ t \in Asking /\ at' = [at EXCEPT ![t] = "begin"] /\ calls' = calls + 1
        /\ UNCHANGED <<pc, cmd, fetched, inserted, main_op, exits, main_pc>>
    BY <1>1, RequestsAssumption DEF Dispatch, AC!Call, Asking, CBP!RunLabels
  <2>2. Asking' = Asking \ {t}
    BY <1>a, <2>1 DEF Asking, CBP!RunLabels
  <2>3. Cardinality(Asking') = Cardinality(Asking) - 1
    BY <1>b, <2>1, <2>2, FS_RemoveElement
  <2>4. CBP!LastCommand' = CBP!LastCommand
    BY <2>1 DEF CBP!LastCommand, CBP!ExitsPut, CBP!MainAt
  <2>5. Fetched' = Fetched
    BY <2>1, <2>4 DEF Fetched
  <2> QED
    BY <1>b, <2>1, <2>3, <2>4, <2>5 DEF CallsCounted
<1>2. ASSUME NEW t \in Threads, Operate(t) PROVE CallsCounted'
  <2>1. /\ at[t] # "idle" /\ at'[t] # "idle" /\ \A u \in Threads \ {t} : at'[u] = at[u]
        /\ calls' = calls
    BY <1>2, <1>a DEF Operate, AC!OperationStep, AC!Begin, AC!LockFirst, AC!LockSecond,
      AC!Test, AC!Subtract, AC!Add, AC!Read, AC!UnlockSrc, AC!UnlockDest, AC!Body
  <2>2. UNCHANGED <<pc, cmd, fetched, inserted, main_op, exits, main_pc>>
    BY <1>2 DEF Operate
  <2>3. Asking' = Asking
    BY <2>1, <2>2 DEF Asking, CBP!RunLabels
  <2> QED
    BY <1>c, <2>1, <2>2, <2>3
<1>3. ASSUME NEW t \in Threads, Finish(t) PROVE CallsCounted'
  <2>1. /\ at[t] # "idle" /\ \A u \in Threads \ {t} : at'[u] = at[u] /\ pc'[u] = pc[u]
        /\ pc'[t] = "lock_pending" /\ cmd' = cmd /\ calls' = calls
        /\ UNCHANGED <<fetched, inserted, main_op, exits, main_pc>>
    BY <1>3, <1>a DEF Finish, AC!Return, CB!Execute, CB!mainVars
  <2>2. Asking' = Asking
    BY <2>1 DEF Asking, CBP!RunLabels
  <2> QED
    BY <1>c, <2>1, <2>2
<1>4. ASSUME NEW t \in Threads, Pipeline(t) PROVE CallsCounted'
  <2>0. UNCHANGED <<at, calls>>
    BY <1>4 DEF Pipeline
  <2>1. CASE CB!AdvanceRead(t)
    <3>1. /\ pc[t] = "advance_read" /\ pc' = [pc EXCEPT ![t] = "unlock_buffer"]
          /\ fetched' = fetched + 1 /\ UNCHANGED <<cmd, inserted, main_op, exits, main_pc>>
      BY <2>1 DEF CB!AdvanceRead, CB!mainVars
    <3>2. cmd[t].op = Exit <=> fetched + 1 > CBP!LastCommand
      BY <3>1 DEF Settling, CBP!Inv, CBP!DoneInv
    <3>3. CBP!LastCommand' = CBP!LastCommand
      BY <3>1 DEF CBP!LastCommand, CBP!ExitsPut, CBP!MainAt
    <3>4. at[t] = "idle" /\ t \notin Asking
      BY <3>1 DEF Coupled, Asking, CBP!RunLabels
    <3>5. Asking' = IF cmd[t].op = Exit THEN Asking ELSE Asking \cup {t}
      BY <1>a, <2>0, <3>1, <3>4 DEF Asking, CBP!RunLabels
    <3>6. CASE cmd[t].op = Exit
      <4>1. Fetched' = Fetched /\ Asking' = Asking
        BY <1>b, <3>1, <3>2, <3>3, <3>5, <3>6 DEF Fetched
      <4> QED
        BY <2>0, <3>1, <3>3, <4>1 DEF CallsCounted
    <3>7. CASE cmd[t].op # Exit
      <4>1. Fetched' = Fetched + 1
        BY <1>b, <3>1, <3>2, <3>3, <3>7 DEF Fetched
      <4>2. Cardinality(Asking') = Cardinality(Asking) + 1
        BY <1>b, <3>4, <3>5, <3>7, FS_AddElement
      <4> QED
        BY <1>b, <2>0, <3>1, <3>3, <4>1, <4>2 DEF CallsCounted
    <3> QED
      BY <3>6, <3>7
  <2>2. CASE ~CB!AdvanceRead(t)
    <3>1. /\ UNCHANGED <<fetched, inserted, main_op, exits>>
          /\ main_pc' = main_pc \/ (main_pc = "cond_wait" /\ main_pc' = "sim_lock")
      BY <1>4, <2>2 DEF Pipeline, CB!WaitOnReadSem, CB!LockCmdBuffer, CB!CopyCmd,
        CB!UnlockCmdBuffer, CB!PostToWriteSem, CB!ReturnFromThread, CB!LockPending,
        CB!DecrementPending, CB!SignalCondSimulate, CB!UnlockPending, CB!WriteToLog,
        CB!mainVars, CB!histVars, CB!ringVars
    <3>2. /\ \A u \in Threads \ {t} : pc'[u] = pc[u] /\ cmd'[u] = cmd[u]
          /\ \/ pc[t] \in CBP!RunLabels /\ pc'[t] \in CBP!RunLabels /\ cmd' = cmd
             \/ pc[t] \notin CBP!RunLabels /\ pc'[t] \notin CBP!RunLabels
             \/ cmd[t].op = Exit /\ cmd' = cmd
      BY <1>4, <1>a, <2>2 DEF Pipeline, CB!WaitOnReadSem, CB!LockCmdBuffer, CB!CopyCmd,
        CB!UnlockCmdBuffer, CB!PostToWriteSem, CB!ReturnFromThread, CB!LockPending,
        CB!DecrementPending, CB!UnlockPending, CB!WriteToLog, CBP!RunLabels
    <3>3. Asking' = Asking
      BY <2>0, <3>2 DEF Asking, CBP!RunLabels
    <3> QED
      BY <1>c, <2>0, <3>1, <3>3
  <2> QED
    BY <2>1, <2>2
<1>5. ASSUME \/ MainStep \/ Fork \/ SpuriousWakeup \/ (\E r \in Requests : ReadCommand(r))
             \/ (\E n \in Years : Simulate(n)) \/ \E now \in BOOLEAN : Quit(now)
      PROVE  CallsCounted'
  <2>1. /\ CB!MainStep \/ CB!UserStep \/ CB!SpuriousWakeup
        /\ UNCHANGED <<at, calls>>
    BY <1>5 DEF MainStep, Fork, SpuriousWakeup, ReadCommand, Simulate, Quit, CB!MainStep,
      CB!UserStep
  <2> QED
    BY <2>1, PutsStep
<1>6. ASSUME \/ Wait \/ LeaveMain \/ UNCHANGED vars \/ \E c \in DOMAIN children : ChildStep(c)
      PROVE  CallsCounted'
  <2>1. UNCHANGED <<pc, cmd, at, calls, fetched, inserted, main_op, exits, main_pc>>
    BY <1>6 DEF Wait, LeaveMain, vars, ChildStep, ChildYear, ChildExit
  <2>2. Asking' = Asking
    BY <2>1 DEF Asking, CBP!RunLabels
  <2> QED
    BY <1>c, <2>1, <2>2
<1> QED
  BY <1>1, <1>2, <1>3, <1>4, <1>5, <1>6 DEF Next, Worker, Exited

(* The pipeline and the accounts are not stuck; what they leave to each other,
   the call of an operation and the end of the children, is not either. *)
LEMMA InvNeverStuck ==
  ASSUME Settling, Coupled, ChildrenInv, CallsCounted, CBP!NeverStuck, ACP!NeverStuck
  PROVE  NeverStuck
<1> SUFFICES ASSUME MainBlocked, \A t \in Threads : WorkerBlocked(t),
                    \A c \in DOMAIN children : ChildBlocked(c),
                    ~exited, ~(main_pc = "read_line" /\ done = 1 .. inserted)
             PROVE  FALSE
  BY DEF NeverStuck
<1>1. main_pc # "ended"
  <2> SUFFICES ASSUME main_pc = "ended" PROVE FALSE
    OBVIOUS
  <2>1. num_children > 0 /\ \A c \in DOMAIN children : children[c].status # "zombie"
    BY DEF MainBlocked, WaitForAnother
  <2>2. PICK c \in DOMAIN children : children[c].status # "reaped"
    <3>1. Unreaped # {}
      BY <2>1, FS_EmptySet DEF ChildrenInv
    <3> QED
      BY <3>1 DEF Unreaped
  <2>3. children[c].status = "running"
    <3>1. children[c] \in Child
      BY UnreapedCount DEF ChildrenInv, ChildrenTyped
    <3> QED
      BY <2>1, <2>2, <3>1 DEF Child
  <2>4. \A a \in DOMAIN children[c].ctrl : children[c].ctrl[a] = None
    BY DEF ChildrenInv, SnapshotSettled
  <2> QED
    BY <2>3, <2>4 DEF ChildBlocked
<1>2. CBP!MainBlocked
  BY <1>1 DEF MainBlocked
<1>3. PICK t \in Threads : ~CBP!WorkerBlocked(t)
  BY <1>1, <1>2 DEF CBP!NeverStuck, CBP!Settled
<1>4. /\ pc[t] = "execute" /\ cmd[t].op \in Requests
      /\ IF at[t] = "idle" THEN calls >= MaxCommands ELSE ACP!Blocked(t)
  BY <1>3 DEF WorkerBlocked
<1>5. at[t] # "idle"
  <2> SUFFICES ASSUME at[t] = "idle" PROVE FALSE
    OBVIOUS
  <2>1. t \in Asking
    BY <1>4, RequestsAssumption DEF Asking, CBP!RunLabels
  <2>2. Cardinality(Asking) > 0
    BY <2>1, AskingFinite, FS_EmptySet
  <2>3. Fetched <= CBP!LastCommand
    BY CommandNumbers DEF Fetched
  <2> QED
    BY <1>4, <2>2, <2>3, AskingFinite, CommandNumbers, SizesAssumption DEF CallsCounted
<1>6. PICK u \in Threads : ~ACP!Blocked(u)
  BY <1>5 DEF ACP!NeverStuck, ACP!AllIdle
<1>7. at[u] # "idle" /\ pc[u] = "execute" /\ cmd[u].op \in Requests
  BY <1>6 DEF ACP!Blocked, Coupled
<1>8. ~CBP!WorkerBlocked(u)
  BY <1>7 DEF CBP!WorkerBlocked
<1> QED
  BY <1>6, <1>7, <1>8 DEF WorkerBlocked

(* i-banco is never stuck, whatever the number of workers, accounts, commands and
   simulations: until it waits for the user with every command executed, or has
   left, a worker, main or a child can go on. Its mutexes, semaphores, condition
   variable and wait() make no circle, across the pipeline and the accounts. *)
THEOREM BankNeverStuck == Spec => []NeverStuck
<1>1. Spec => []CBP!NeverStuck
  <2>1. CBP!Spec => []CBP!NeverStuck
    BY CBP!PipelineNeverStuck, PipelineAssumptions
  <2> QED
    BY <2>1, ComponentsKept, SamePipeline, PTL
<1>2. Spec => []ACP!NeverStuck
  <2>1. ACP!Spec => []ACP!NeverStuck
    BY ACP!NobodyDeadlocked, AccountsAssumptions
  <2> QED
    BY <2>1, ComponentsKept, SameAccounts, PTL
<1>3. Init => CallsCounted
  <2> SUFFICES ASSUME Init PROVE CallsCounted
    OBVIOUS
  <2>1. /\ calls = 0 /\ inserted = 0 /\ fetched = 0 /\ exits = 0 /\ main_op = None
        /\ main_pc = "read_line" /\ pc = [t \in Threads |-> "wait_read_sem"]
    BY DEF Init, CB!Init, CB!InitWith, AC!Init
  <2>2. Asking = {}
    BY <2>1 DEF Asking, CBP!RunLabels
  <2>3. CBP!LastCommand = 0 /\ Fetched = 0
    <3>1. CBP!ExitsPut = 0
      BY <2>1, RequestsAssumption DEF CBP!ExitsPut
    <3>2. CBP!LastCommand = 0
      BY <2>1, <3>1 DEF CBP!LastCommand
    <3> QED
      BY <2>1, <3>2 DEF Fetched
  <2> QED
    BY <2>1, <2>2, <2>3, FS_EmptySet, SizesAssumption DEF CallsCounted
<1>4. BankInv /\ CallsCounted /\ [Next]_vars => CallsCounted'
  BY CallsStep DEF BankInv
<1>5. BankInv /\ ChildrenInv /\ CallsCounted /\ CBP!NeverStuck /\ ACP!NeverStuck => NeverStuck
  BY InvNeverStuck DEF BankInv
<1> QED
  BY <1>1, <1>2, <1>3, <1>4, <1>5, BankInvHolds, PTL DEF Spec
====
