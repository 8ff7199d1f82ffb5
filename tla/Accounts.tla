------------------------------ MODULE Accounts ------------------------------
(***************************************************************************)
(* The bank accounts of i-banco (src/proj/2016-2017/src/accounts.c):       *)
(* debit, credit, transfer and get_balance, called by several threads,     *)
(* each account with a mutex of its own. One action per lock, unlock and   *)
(* access to a balance; the calls to delay() are the gaps between them.    *)
(***************************************************************************)
EXTENDS Integers, FiniteSets, Functions, Folds

CONSTANTS
  Threads,
  NumAccounts,  \* NUM_ACCOUNTS: the valid ids are 1 .. NUM_ACCOUNTS
  Requests,     \* the calls made: operation, accounts and amount
  None,         \* no owner, no request, no result yet
  MaxCalls      \* bound on the calls of a behaviour

Accounts == 1 .. NumAccounts
Failed   == -1

account_exists(id) == id \in Accounts

(* debit and credit lock before they check the account: an invalid id would
   index outside account_ctrl, and no request of ours has one. *)
IsRequest(r) ==
  /\ r.op \in {"debit", "credit", "transfer", "get_balance"}
  /\ r.src \in Int /\ r.dest \in Int /\ r.amount \in Int
  /\ r.op \in {"debit", "credit"} => account_exists(r.src)

ASSUME ThreadsAssumption == IsFiniteSet(Threads) /\ None \notin Threads
ASSUME NumAssumption == NumAccounts \in Nat
ASSUME RequestsAssumption == \A r \in Requests : IsRequest(r)
ASSUME NoneAssumption == None \notin Requests /\ None \notin Int
ASSUME CallsAssumption == MaxCalls \in Nat

VARIABLES
  account_balance,
  account_ctrl,    \* owner of each account's mutex
  at,              \* each thread's place in the operation it is in
  req,             \* the request it carries out
  ret,             \* `i' or `saldo': what it will return
  calls,           \* calls made so far, for the bound
  net              \* history: the money credited less the money debited

vars == <<account_balance, account_ctrl, at, req, ret, calls, net>>

Labels == {"idle", "begin", "lock_first", "lock_second", "test", "subtract",
           "add", "read", "unlock_src", "unlock_dest", "return"}

Init ==
  /\ account_balance = [a \in Accounts |-> 0]
  /\ account_ctrl = [a \in Accounts |-> None]
  /\ at = [t \in Threads |-> "idle"]
  /\ req = [t \in Threads |-> None]
  /\ ret = [t \in Threads |-> None]
  /\ calls = 0
  /\ net = 0

----------------------------------------------------------------------------
Goto(t, from, to) == at[t] = from /\ at' = [at EXCEPT ![t] = to]

(* What transfer and get_balance check before they lock anything. *)
Accepted(r) ==
  /\ r.op \in {"transfer", "get_balance"} => account_exists(r.src)
  /\ r.op = "transfer" => account_exists(r.dest) /\ r.src # r.dest

FirstLockSource(r) == r.src                                \* mutant

(* transfer locks the account with the smaller id first. *)
FirstLock(r)  == IF r.op = "transfer" /\ r.dest < r.src THEN r.dest ELSE r.src
SecondLock(r) == IF FirstLock(r) = r.src THEN r.dest ELSE r.src

Body(r) == IF r.op \in {"debit", "transfer"} THEN "test"
           ELSE IF r.op = "credit" THEN "add" ELSE "read"

(* Which account is credited. *)
Target(r) == IF r.op = "transfer" THEN r.dest ELSE r.src

Call(t, r) ==
  /\ calls < MaxCalls
  /\ Goto(t, "idle", "begin")
  /\ req' = [req EXCEPT ![t] = r]
  /\ calls' = calls + 1
  /\ UNCHANGED <<account_balance, account_ctrl, ret, net>>

Begin(t) ==
  /\ at[t] = "begin"
  /\ IF Accepted(req[t])
     THEN Goto(t, "begin", "lock_first") /\ UNCHANGED ret
     ELSE Goto(t, "begin", "return") /\ ret' = [ret EXCEPT ![t] = Failed]
  /\ UNCHANGED <<account_balance, account_ctrl, req, calls, net>>

lock_account_unchecked(t, a) ==                            \* mutant
  account_ctrl' = [account_ctrl EXCEPT ![a] = t]

lock_account(t, a) ==
  /\ account_ctrl[a] = None
  /\ account_ctrl' = [account_ctrl EXCEPT ![a] = t]

unlock_account(a) == account_ctrl' = [account_ctrl EXCEPT ![a] = None]

LockFirst(t) ==
  /\ Goto(t, "lock_first", IF req[t].op = "transfer" THEN "lock_second"
                           ELSE Body(req[t]))
  /\ lock_account(t, FirstLock(req[t]))
  /\ UNCHANGED <<account_balance, req, ret, calls, net>>

LockSecond(t) ==
  /\ Goto(t, "lock_second", Body(req[t]))
  /\ lock_account(t, SecondLock(req[t]))
  /\ UNCHANGED <<account_balance, req, ret, calls, net>>

TestForDebitOnly(t) ==                                     \* mutant
  /\ at[t] = "test"
  /\ IF account_balance[req[t].src] < req[t].amount
     THEN /\ Goto(t, "test",
                  IF req[t].op = "debit" THEN "unlock_src" ELSE "add")
          /\ ret' = [ret EXCEPT ![t] = Failed]
     ELSE Goto(t, "test", "subtract") /\ UNCHANGED ret
  /\ UNCHANGED <<account_balance, account_ctrl, req, calls, net>>

(* debit_no_mutex: the test and the subtraction are a delay apart. *)
Test(t) ==
  /\ at[t] = "test"
  /\ IF account_balance[req[t].src] < req[t].amount
     THEN Goto(t, "test", "unlock_src") /\ ret' = [ret EXCEPT ![t] = Failed]
     ELSE Goto(t, "test", "subtract") /\ UNCHANGED ret
  /\ UNCHANGED <<account_balance, account_ctrl, req, calls, net>>

Subtract(t) ==
  /\ Goto(t, "subtract",
          IF req[t].op = "transfer" THEN "add" ELSE "unlock_src")
  /\ account_balance' = [account_balance EXCEPT ![req[t].src] =
                           @ - req[t].amount]
  /\ net' = IF req[t].op = "debit" THEN net - req[t].amount ELSE net
  /\ ret' = [ret EXCEPT ![t] = 0]
  /\ UNCHANGED <<account_ctrl, req, calls>>

(* credit_no_mutex *)
Add(t) ==
  /\ Goto(t, "add", "unlock_src")
  /\ account_balance' = [account_balance EXCEPT ![Target(req[t])] =
                           @ + req[t].amount]
  /\ net' = IF req[t].op = "credit" THEN net + req[t].amount ELSE net
  /\ ret' = [ret EXCEPT ![t] = 0]
  /\ UNCHANGED <<account_ctrl, req, calls>>

Read(t) ==
  /\ Goto(t, "read", "unlock_src")
  /\ ret' = [ret EXCEPT ![t] = account_balance[req[t].src]]
  /\ UNCHANGED <<account_balance, account_ctrl, req, calls, net>>

UnlockSrcOnly(t) ==                                        \* mutant
  /\ Goto(t, "unlock_src", IF req[t].op = "transfer" /\ ret[t] # Failed
                           THEN "unlock_dest" ELSE "return")
  /\ unlock_account(req[t].src)
  /\ UNCHANGED <<account_balance, req, ret, calls, net>>

UnlockSrc(t) ==
  /\ Goto(t, "unlock_src",
          IF req[t].op = "transfer" THEN "unlock_dest" ELSE "return")
  /\ unlock_account(req[t].src)
  /\ UNCHANGED <<account_balance, req, ret, calls, net>>

UnlockDest(t) ==
  /\ Goto(t, "unlock_dest", "return")
  /\ unlock_account(req[t].dest)
  /\ UNCHANGED <<account_balance, req, ret, calls, net>>

Return(t) ==
  /\ Goto(t, "return", "idle")
  /\ req' = [req EXCEPT ![t] = None]
  /\ ret' = [ret EXCEPT ![t] = None]
  /\ UNCHANGED <<account_balance, account_ctrl, calls, net>>

(* The steps of an operation, from its call to its return. *)
OperationStep(t) ==
  \/ Begin(t) \/ LockFirst(t) \/ LockSecond(t) \/ Test(t) \/ Subtract(t)
  \/ Add(t) \/ Read(t) \/ UnlockSrc(t) \/ UnlockDest(t)

AllIdle == \A t \in Threads : at[t] = "idle"
Stop == calls = MaxCalls /\ AllIdle /\ UNCHANGED vars

Next ==
  \/ \E t \in Threads :
       \/ OperationStep(t) \/ Return(t)
       \/ \E r \in Requests : Call(t, r)
  \/ Stop

(* A thread that can run does. Calls being finite, a thread that waits for a
   mutex finds it free for good in the end. *)
Fairness == \A t \in Threads : WF_vars(OperationStep(t) \/ Return(t))

Spec     == Init /\ [][Next]_vars
FairSpec == Spec /\ Fairness
----------------------------------------------------------------------------
Requested(t, op) == req[t] # None /\ req[t].op = op

(* The accounts whose mutex a thread holds, by its place in the code. *)
Locked(t) ==
  LET r == req[t] IN
  IF at[t] \in {"idle", "begin", "lock_first", "return"} THEN {}
  ELSE IF at[t] = "lock_second" THEN {FirstLock(r)}
  ELSE IF at[t] = "unlock_dest" THEN {r.dest}
  ELSE IF r.op = "transfer" THEN {r.src, r.dest} ELSE {r.src}

(* The account whose balance a thread is about to read or write. *)
Touched(t) ==
  IF at[t] \in {"test", "subtract", "read"} THEN {req[t].src}
  ELSE IF at[t] = "add" THEN {Target(req[t])} ELSE {}

(* Money a transfer has taken from its source and not yet given. *)
Transit(a) == {t \in Threads : at[t] = "add" /\ Requested(t, "transfer")
                              /\ req[t].dest = a}
Owed(a) == IF Transit(a) = {} THEN 0
           ELSE req[CHOOSE t \in Transit(a) : TRUE].amount
Settled == [a \in Accounts |-> account_balance[a] + Owed(a)]

(* Types of all the variables. *)
TypeOK ==
  /\ account_balance \in [Accounts -> Int]
  /\ account_ctrl \in [Accounts -> Threads \cup {None}]
  /\ at \in [Threads -> Labels]
  /\ req \in [Threads -> Requests \cup {None}]
  /\ ret \in [Threads -> Int \cup {None}]
  /\ calls \in Nat
  /\ net \in Int

(* A mutex is held exactly by the thread whose code says so: every path of
   every operation, the failing ones too, gives back what it took and
   nothing else. *)
LocksHeld ==
  \A a \in Accounts, t \in Threads :
    account_ctrl[a] = t <=> a \in Locked(t)

(* No two threads are about to access the same balance: between the test of
   a debit and its subtraction nobody else spends the money. *)
NoRace == \A t, u \in Threads : t # u => Touched(t) \cap Touched(u) = {}

(* With amounts that are not negative no balance is ever negative, whatever
   debits and transfers overlap; get_balance can use -1 for an error. *)
NoOverdraft ==
  (\A r \in Requests : r.amount >= 0) =>
    \A a \in Accounts : account_balance[a] >= 0

(* Transfers neither make nor lose money: what the accounts hold, with what a
   transfer has in hand, is what was credited less what was debited. *)
MoneyConserved == FoldFunction(+, 0, Settled) = net

(* Every operation returns: transfers in opposite directions do not wait for
   each other, since both lock the smaller account first. *)
OperationsReturn == \A t \in Threads : at[t] = "begin" ~> at[t] = "idle"

(* Each operation takes effect in one step between its call and its return. *)
Bank == INSTANCE AtomicBank WITH
  balance <- Settled, call <- req, answer <- ret, Nothing <- None
AtomicBankSpec == Bank!Spec
============================================================================
