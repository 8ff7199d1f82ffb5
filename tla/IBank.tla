------------------------------- MODULE IBank -------------------------------
(***************************************************************************)
(* The whole of i-banco (src/proj/2016-2017/src/i-bank.c): the command     *)
(* pipeline (module CommandBuffer), whose workers execute commands on the  *)
(* accounts (module Accounts), and the child processes that simulate the   *)
(* future of the accounts from the copy of the memory fork() gives them.   *)
(***************************************************************************)
EXTENDS Integers, Sequences, FiniteSets, Functions, Folds, SequencesExt

CONSTANTS Threads, Main, None, Exit, BufferDim, NumAccounts, Requests,
          MaxCommands,
          MaxChildren,  \* MAX_CHILDREN
          Years         \* the arguments of `simular'

ASSUME ThreadsAssumption ==
  /\ IsFiniteSet(Threads) /\ Threads # {}
  /\ Main \notin Threads /\ None \notin Threads /\ Main # None
ASSUME SizesAssumption ==
  /\ BufferDim \in Nat \ {0}
  /\ NumAccounts \in Nat /\ MaxCommands \in Nat /\ MaxChildren \in Nat
ASSUME YearsAssumption == Years \subseteq Int

VARIABLES
  cmd_buffer, buff_write_idx, buff_read_idx, sem_read, sem_write,
  buffer_ctrl, pending_ctrl, pending_requests, pc, cmd, main_pc, main_op,
  exits, inserted, fetched, done, forked,                 \* CommandBuffer
  account_balance, account_ctrl, at, req, ret, calls, net, \* Accounts
  num_years,     \* the argument of the `simular' main is working on
  children,      \* pid_children, and what is in each child's memory
  num_children,
  exit_now,
  exited         \* main is past its wait() loop

CB == INSTANCE CommandBuffer WITH Ops <- Requests
AC == INSTANCE Accounts WITH MaxCalls <- MaxCommands

ASSUME RequestsAssumption ==
  /\ \A r \in Requests : AC!IsRequest(r)
  /\ Exit \notin Requests /\ None \notin Requests
  /\ Exit # None /\ None \notin Int

cbVars    == <<cmd_buffer, buff_write_idx, buff_read_idx, sem_read, sem_write,
               buffer_ctrl, pending_ctrl, pending_requests, pc, cmd, main_pc,
               main_op, exits, inserted, fetched, done, forked>>
accVars   == <<account_balance, account_ctrl, at, req, ret, calls, net>>
childVars == <<num_years, children, num_children, exit_now, exited>>
vars      == <<cbVars, accVars, childVars>>

Init ==
  /\ CB!Init
  /\ AC!Init
  /\ num_years = 0
  /\ children = <<>>
  /\ num_children = 0
  /\ exit_now = FALSE
  /\ exited = FALSE

----------------------------------------------------------------------------
(* A worker between get_cmd and its bookkeeping: the call and the return of
   the account operation the command asks for. *)
Dispatch(t) ==
  /\ pc[t] = "execute" /\ cmd[t].op \in Requests
  /\ AC!Call(t, cmd[t].op)
  /\ UNCHANGED <<cbVars, childVars>>

Operate(t) == AC!OperationStep(t) /\ UNCHANGED <<cbVars, childVars>>

Finish(t) == AC!Return(t) /\ CB!Execute(t) /\ UNCHANGED childVars

Pipeline(t) ==
  /\ \/ CB!WaitOnReadSem(t) \/ CB!LockCmdBuffer(t) \/ CB!CopyCmd(t)
     \/ CB!AdvanceRead(t) \/ CB!UnlockCmdBuffer(t) \/ CB!PostToWriteSem(t)
     \/ CB!ReturnFromThread(t) \/ CB!LockPending(t)
     \/ CB!DecrementPending(t) \/ CB!UnlockPending(t) \/ CB!WriteToLog(t)
  /\ UNCHANGED <<accVars, childVars>>

Worker(t) == Dispatch(t) \/ Operate(t) \/ Finish(t) \/ Pipeline(t)

----------------------------------------------------------------------------
(* Main. *)

ReadCommand(r) == CB!ReadCommand(r) /\ UNCHANGED <<accVars, childVars>>

RoomForChild == num_children < MaxChildren

(* With MAX_CHILDREN children the code prints a message and reads on. *)
Simulate(n) ==
  /\ RoomForChild
  /\ CB!ReadSimulate
  /\ num_years' = n
  /\ UNCHANGED <<accVars, children, num_children, exit_now, exited>>

MainStep ==
  /\ \/ CB!WaitOnWriteSem \/ CB!PutCmd \/ CB!PostToReadSem
     \/ CB!MainLockPending \/ CB!IncrementPending \/ CB!MainUnlockPending
     \/ CB!SimLock \/ CB!SimTest \/ CB!SimUnlock \/ CB!JoinThreads
  /\ UNCHANGED <<accVars, childVars>>

SpuriousWakeup == CB!SpuriousWakeup /\ UNCHANGED <<accVars, childVars>>

(* What the child finds in its memory: balances and mutexes as they were. *)
NewChild ==
  [balance |-> account_balance, ctrl |-> account_ctrl, start |-> net,
   year |-> 0, last |-> num_years, issued_kill |-> FALSE,
   status |-> "running"]

Fork ==
  /\ CB!Fork
  /\ children' = Append(children, NewChild)
  /\ num_children' = num_children + 1
  /\ UNCHANGED <<accVars, num_years, exit_now, exited>>

(* A child of main's that pid_children, read at num_children, may name: the
   element was never written, so it names any process or none. *)
Stray == {{}} \cup {{c} : c \in DOMAIN children}

Killed(cs) ==
  [c \in DOMAIN children |->
     IF c \in cs THEN [children[c] EXCEPT !.issued_kill = TRUE]
     ELSE children[c]]

(* "sair", "sair agora" or the end of the input. *)
Quit(now) ==
  /\ CB!ReadExit
  /\ exit_now' = now
  /\ \E cs \in Stray :
       children' = IF now THEN Killed(cs) ELSE children
  /\ UNCHANGED <<accVars, num_years, num_children, exited>>

WaitForMore    == num_children > 1                         \* mutant
WaitForAnother == num_children > 0

(* wait() reaps a child that ended; main leaves when it counts no more. *)
Wait ==
  /\ main_pc = "ended" /\ ~exited /\ WaitForAnother
  /\ \E c \in DOMAIN children :
       /\ children[c].status = "zombie"
       /\ children' = [children EXCEPT ![c].status = "reaped"]
  /\ num_children' = num_children - 1
  /\ UNCHANGED <<cbVars, accVars, num_years, exit_now, exited>>

LeaveMain ==
  /\ main_pc = "ended" /\ ~exited /\ ~WaitForAnother
  /\ exited' = TRUE
  /\ UNCHANGED <<cbVars, accVars, num_years, children, num_children,
                 exit_now>>

----------------------------------------------------------------------------
(* The children: simulate. *)

(* credit(id, balance * TAX_INTEREST), then debit(id, min(1, balance)), for
   balances that are not negative. *)
AfterYear(balance) ==
  [a \in DOMAIN balance |->
     LET taxed == balance[a] + balance[a] \div 10
     IN  IF taxed > 0 THEN taxed - 1 ELSE taxed]

(* One round of the loop on years: nobody but the child sees its memory, and
   issued_kill is read once a round. get_balance and the others lock each
   account, so a mutex copied while it was held blocks the child forever. *)
ChildYear(c) ==
  LET child == children[c] IN
  /\ child.status = "running"
  /\ child.year <= child.last /\ ~child.issued_kill
  /\ \A a \in DOMAIN child.ctrl : child.ctrl[a] = None
  /\ children' = [children EXCEPT
       ![c].year = @ + 1,
       ![c].balance = IF child.year > 0 THEN AfterYear(@) ELSE @]
  /\ UNCHANGED <<cbVars, accVars, num_years, num_children, exit_now, exited>>

ChildExit(c) ==
  /\ children[c].status = "running"
  /\ children[c].year > children[c].last \/ children[c].issued_kill
  /\ children' = [children EXCEPT ![c].status = "zombie"]
  /\ UNCHANGED <<cbVars, accVars, num_years, num_children, exit_now, exited>>

ChildStep(c) == ChildYear(c) \/ ChildExit(c)

Exited == exited /\ UNCHANGED vars

Next ==
  \/ \E t \in Threads : Worker(t)
  \/ MainStep \/ Fork \/ Wait \/ LeaveMain
  \/ \E r \in Requests : ReadCommand(r)
  \/ \E n \in Years : Simulate(n)
  \/ \E now \in BOOLEAN : Quit(now)
  \/ SpuriousWakeup
  \/ \E c \in DOMAIN children : ChildStep(c)
  \/ Exited

Spec == Init /\ [][Next]_vars
----------------------------------------------------------------------------
Total(f) == FoldFunction(+, 0, f)

(* A simulation starts from a settled bank: no command is half executed when
   main forks, so the copy holds all the money that was credited and not
   debited, and not one account mutex is held in the copy, where the thread
   that would release it does not exist. *)
SnapshotSettled ==
  \A c \in DOMAIN children :
    /\ \A a \in DOMAIN children[c].ctrl : children[c].ctrl[a] = None
    /\ children[c].year = 0 => Total(children[c].balance) = children[c].start

(* When i-banco leaves main, no command is lost and no child is left behind:
   its destructors run with no thread or process still at work. *)
NothingLeftBehind ==
  exited =>
    /\ done = 1 .. inserted
    /\ \A a \in 1 .. NumAccounts : account_ctrl[a] = None
    /\ \A c \in DOMAIN children : children[c].status = "reaped"
============================================================================
