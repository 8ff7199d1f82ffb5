--------------------------- MODULE CommandBuffer ---------------------------
(***************************************************************************)
(* The command pipeline of i-banco (src/proj/2016-2017/src/command.c and   *)
(* the loop of i-bank.c): the main thread inserts commands into a ring     *)
(* buffer guarded by two semaphores, a pool of worker threads fetches and  *)
(* executes them, and `pending_requests', with a mutex and a condition     *)
(* variable, lets main wait until no command is pending before it forks a  *)
(* simulation.                                                             *)
(*                                                                         *)
(* One action per step another thread can observe: each semaphore, mutex   *)
(* or condition operation, and each access to a shared variable.           *)
(***************************************************************************)
EXTENDS Integers, FiniteSets

CONSTANTS
  Threads,      \* thread_id[NUM_THREADS]
  Main,         \* the thread that runs main()
  None,         \* no owner, no command
  BufferDim,    \* CMD_BUFFER_DIM
  Ops,          \* the requests a user may type (an operation, its arguments)
  Exit,         \* OP_EXIT
  MaxCommands   \* bound on the requests of one session

ASSUME ThreadsAssumption ==
  /\ IsFiniteSet(Threads) /\ Threads # {}
  /\ Main \notin Threads /\ None \notin Threads /\ Main # None
ASSUME DimAssumption == BufferDim \in Nat \ {0}
ASSUME OpsAssumption == Exit \notin Ops /\ None \notin Ops /\ Exit # None
ASSUME BoundAssumption == MaxCommands \in Nat

VARIABLES
  cmd_buffer, buff_write_idx, buff_read_idx,
  sem_read, sem_write,         \* values of the two named semaphores
  buffer_ctrl, pending_ctrl,   \* owners of the two mutexes
  pending_requests,
  pc, cmd,                     \* each worker's place in thread_main, its `cmd'
  main_pc, main_op,            \* main's place, the operation of its `cmd'
  exits,                       \* `i' of join_threads
  inserted, fetched,           \* history: commands put and got so far
  done,                        \* history: commands whose execution ended
  forked                       \* history: what was done at the last fork()

ringVars    == <<cmd_buffer, buff_write_idx, buff_read_idx>>
semVars     == <<sem_read, sem_write>>
pendingVars == <<pending_ctrl, pending_requests>>
mainVars    == <<main_pc, main_op, exits>>
histVars    == <<inserted, fetched, done, forked>>
vars == <<cmd_buffer, buff_write_idx, buff_read_idx, sem_read, sem_write,
          buffer_ctrl, pending_ctrl, pending_requests, pc, cmd, main_pc,
          main_op, exits, inserted, fetched, done, forked>>

(* A command_t: its operation with arguments, and its place in the order of
   insertion, which the code does not store and the properties need. *)
Command   == [op : Ops \cup {Exit, None}, id : Nat]
NoCommand == [op |-> None, id |-> 0]

Slots      == 0 .. BufferDim - 1
NextIdxUnwrapped(i) == i + 1                            \* mutant
NextIdx(i) == (i + 1) % BufferDim

WorkerLabels == {"wait_read_sem", "lock_buffer", "copy_cmd", "advance_read",
                 "unlock_buffer", "post_write_sem", "execute", "lock_pending",
                 "decrement", "unlock_pending", "log", "returned"}
MainLabels == {"read_line", "wait_write_sem", "put_cmd", "post_read_sem",
               "lock_pending", "increment", "unlock_pending", "sim_lock",
               "sim_test", "cond_wait", "sim_unlock", "fork", "join", "ended"}

InitWith(read_slots, write_slots) ==
  /\ cmd_buffer = [s \in Slots |-> NoCommand]
  /\ buff_write_idx = 0
  /\ buff_read_idx = 0
  /\ sem_read = read_slots
  /\ sem_write = write_slots
  /\ buffer_ctrl = None
  /\ pending_ctrl = None
  /\ pending_requests = 0
  /\ pc = [t \in Threads |-> "wait_read_sem"]
  /\ cmd = [t \in Threads |-> NoCommand]
  /\ main_pc = "read_line"
  /\ main_op = None
  /\ exits = 0
  /\ inserted = 0
  /\ fetched = 0
  /\ done = {}
  /\ forked = {}

InitSlotTooMany == InitWith(0, BufferDim + 1)              \* mutant
Init == InitWith(0, BufferDim)

----------------------------------------------------------------------------
(* The workers: thread_main. *)

Goto(t, from, to) == pc[t] = from /\ pc' = [pc EXCEPT ![t] = to]

WaitOnReadSem(t) ==
  /\ Goto(t, "wait_read_sem", "lock_buffer")
  /\ sem_read > 0
  /\ sem_read' = sem_read - 1
  /\ UNCHANGED <<ringVars, sem_write, buffer_ctrl, pendingVars, cmd,
                 mainVars, histVars>>

LockCmdBufferUnchecked(t) ==                             \* mutant
  /\ Goto(t, "lock_buffer", "copy_cmd")
  /\ buffer_ctrl' = t
  /\ UNCHANGED <<ringVars, semVars, pendingVars, cmd, mainVars, histVars>>

LockCmdBuffer(t) ==
  /\ Goto(t, "lock_buffer", "copy_cmd")
  /\ buffer_ctrl = None
  /\ buffer_ctrl' = t
  /\ UNCHANGED <<ringVars, semVars, pendingVars, cmd, mainVars, histVars>>

(* get_cmd, its two statements apart: only the mutex makes them one step. *)
CopyCmd(t) ==
  /\ Goto(t, "copy_cmd", "advance_read")
  /\ cmd' = [cmd EXCEPT ![t] = cmd_buffer[buff_read_idx]]
  /\ UNCHANGED <<ringVars, semVars, buffer_ctrl, pendingVars, mainVars,
                 histVars>>

AdvanceRead(t) ==
  /\ Goto(t, "advance_read", "unlock_buffer")
  /\ buff_read_idx' = NextIdx(buff_read_idx)
  /\ fetched' = fetched + 1
  /\ UNCHANGED <<cmd_buffer, buff_write_idx, semVars, buffer_ctrl,
                 pendingVars, cmd, mainVars, inserted, done, forked>>

UnlockCmdBuffer(t) ==
  /\ Goto(t, "unlock_buffer", "post_write_sem")
  /\ buffer_ctrl' = None
  /\ UNCHANGED <<ringVars, semVars, pendingVars, cmd, mainVars, histVars>>

PostToWriteSem(t) ==
  /\ Goto(t, "post_write_sem", "execute")
  /\ sem_write' = sem_write + 1
  /\ UNCHANGED <<ringVars, sem_read, buffer_ctrl, pendingVars, cmd,
                 mainVars, histVars>>

ExecuteWithoutCounting(t) ==                             \* mutant
  /\ Goto(t, "execute", "log")
  /\ cmd[t].op \in Ops
  /\ done' = done \cup {cmd[t].id}
  /\ UNCHANGED <<ringVars, semVars, buffer_ctrl, pendingVars, cmd, mainVars,
                 inserted, fetched, forked>>

(* The whole account operation of the command, as one step: module IBank
   gives it its own steps. *)
Execute(t) ==
  /\ Goto(t, "execute", "lock_pending")
  /\ cmd[t].op \in Ops
  /\ done' = done \cup {cmd[t].id}
  /\ UNCHANGED <<ringVars, semVars, buffer_ctrl, pendingVars, cmd, mainVars,
                 inserted, fetched, forked>>

(* OP_EXIT: return NULL. *)
ReturnFromThread(t) ==
  /\ Goto(t, "execute", "returned")
  /\ cmd[t].op = Exit
  /\ done' = done \cup {cmd[t].id}
  /\ UNCHANGED <<ringVars, semVars, buffer_ctrl, pendingVars, cmd, mainVars,
                 inserted, fetched, forked>>

LockPending(t) ==
  /\ Goto(t, "lock_pending", "decrement")
  /\ pending_ctrl = None
  /\ pending_ctrl' = t
  /\ UNCHANGED <<ringVars, semVars, buffer_ctrl, pending_requests, cmd,
                 mainVars, histVars>>

SomePendingButOne == pending_requests > 1                  \* mutant
SomePending == pending_requests > 0

(* A main blocked in pthread_cond_wait goes back for the mutex. *)
SignalNobody == UNCHANGED main_pc                          \* mutant
SignalCondSimulate ==
  main_pc' = IF main_pc = "cond_wait" THEN "sim_lock" ELSE main_pc

DecrementPending(t) ==
  /\ Goto(t, "decrement", "unlock_pending")
  /\ pending_requests' = pending_requests - 1
  /\ IF SomePending' THEN UNCHANGED main_pc ELSE SignalCondSimulate
  /\ UNCHANGED <<ringVars, semVars, buffer_ctrl, pending_ctrl, cmd, main_op,
                 exits, histVars>>

UnlockPending(t) ==
  /\ Goto(t, "unlock_pending", "log")
  /\ pending_ctrl' = None
  /\ UNCHANGED <<ringVars, semVars, buffer_ctrl, pending_requests, cmd,
                 mainVars, histVars>>

WriteToLog(t) ==
  /\ Goto(t, "log", "wait_read_sem")
  /\ UNCHANGED <<ringVars, semVars, buffer_ctrl, pendingVars, cmd, mainVars,
                 histVars>>

WorkerStep(t) ==
  \/ WaitOnReadSem(t) \/ LockCmdBuffer(t) \/ CopyCmd(t) \/ AdvanceRead(t)
  \/ UnlockCmdBuffer(t) \/ PostToWriteSem(t) \/ Execute(t)
  \/ ReturnFromThread(t) \/ LockPending(t) \/ DecrementPending(t)
  \/ UnlockPending(t) \/ WriteToLog(t)

----------------------------------------------------------------------------
(* Main: the command loop, insert_cmd, wait_for_simulation, join_threads. *)

MainGoto(from, to) == main_pc = from /\ main_pc' = to

workerVars == <<pc, cmd>>

ReadCommand(op) ==
  /\ inserted < MaxCommands
  /\ MainGoto("read_line", "wait_write_sem")
  /\ main_op' = op
  /\ UNCHANGED <<ringVars, semVars, buffer_ctrl, pendingVars, workerVars,
                 exits, histVars>>

ReadSimulate ==
  /\ MainGoto("read_line", "sim_lock")
  /\ UNCHANGED <<ringVars, semVars, buffer_ctrl, pendingVars, workerVars,
                 main_op, exits, histVars>>

(* "sair" or end of file: main leaves its loop for join_threads. *)
ReadExit ==
  /\ MainGoto("read_line", "wait_write_sem")
  /\ main_op' = Exit
  /\ UNCHANGED <<ringVars, semVars, buffer_ctrl, pendingVars, workerVars,
                 exits, histVars>>

WaitOnWriteSem ==
  /\ MainGoto("wait_write_sem", "put_cmd")
  /\ sem_write > 0
  /\ sem_write' = sem_write - 1
  /\ UNCHANGED <<ringVars, sem_read, buffer_ctrl, pendingVars, workerVars,
                 main_op, exits, histVars>>

(* put_cmd takes no lock: main is the only producer. *)
PutCmd ==
  /\ MainGoto("put_cmd", "post_read_sem")
  /\ cmd_buffer' = [cmd_buffer EXCEPT ![buff_write_idx] =
                      [op |-> main_op, id |-> inserted + 1]]
  /\ buff_write_idx' = NextIdx(buff_write_idx)
  /\ inserted' = inserted + 1
  /\ UNCHANGED <<buff_read_idx, semVars, buffer_ctrl, pendingVars,
                 workerVars, main_op, exits, fetched, done, forked>>

ExitsLeftButOne(i) == i + 1 < Cardinality(Threads)         \* mutant
ExitsLeftOneMore(i) == i <= Cardinality(Threads)           \* mutant
ExitsLeft(i) == i < Cardinality(Threads)

(* add_to_pending is true for the user's commands, false for join_threads'. *)
PostToReadSem ==
  /\ main_pc = "post_read_sem"
  /\ sem_read' = sem_read + 1
  /\ exits' = IF main_op = Exit THEN exits + 1 ELSE exits
  /\ main_pc' = IF main_op # Exit THEN "lock_pending"
                ELSE IF ExitsLeft(exits') THEN "wait_write_sem" ELSE "join"
  /\ UNCHANGED <<ringVars, sem_write, buffer_ctrl, pendingVars, workerVars,
                 main_op, histVars>>

MainLockPending ==
  /\ MainGoto("lock_pending", "increment")
  /\ pending_ctrl = None
  /\ pending_ctrl' = Main
  /\ UNCHANGED <<ringVars, semVars, buffer_ctrl, pending_requests,
                 workerVars, main_op, exits, histVars>>

IncrementPending ==
  /\ MainGoto("increment", "unlock_pending")
  /\ pending_requests' = pending_requests + 1
  /\ UNCHANGED <<ringVars, semVars, buffer_ctrl, pending_ctrl, workerVars,
                 main_op, exits, histVars>>

MainUnlockPending ==
  /\ MainGoto("unlock_pending", "read_line")
  /\ pending_ctrl' = None
  /\ UNCHANGED <<ringVars, semVars, buffer_ctrl, pending_requests,
                 workerVars, main_op, exits, histVars>>

SimLock ==
  /\ MainGoto("sim_lock", "sim_test")
  /\ pending_ctrl = None
  /\ pending_ctrl' = Main
  /\ UNCHANGED <<ringVars, semVars, buffer_ctrl, pending_requests,
                 workerVars, main_op, exits, histVars>>

(* while (pending_requests > 0): pthread_cond_wait releases the mutex. *)
SimTest ==
  /\ main_pc = "sim_test"
  /\ IF SomePending
     THEN main_pc' = "cond_wait" /\ pending_ctrl' = None
     ELSE main_pc' = "sim_unlock" /\ UNCHANGED pending_ctrl
  /\ UNCHANGED <<ringVars, semVars, buffer_ctrl, pending_requests,
                 workerVars, main_op, exits, histVars>>

(* POSIX lets pthread_cond_wait return without a signal. *)
SpuriousWakeup ==
  /\ MainGoto("cond_wait", "sim_lock")
  /\ UNCHANGED <<ringVars, semVars, buffer_ctrl, pendingVars, workerVars,
                 main_op, exits, histVars>>

SimUnlock ==
  /\ MainGoto("sim_unlock", "fork")
  /\ pending_ctrl' = None
  /\ UNCHANGED <<ringVars, semVars, buffer_ctrl, pending_requests,
                 workerVars, main_op, exits, histVars>>

(* The child's copy of the memory holds the effects of the done commands. *)
Fork ==
  /\ MainGoto("fork", "read_line")
  /\ forked' = done
  /\ UNCHANGED <<ringVars, semVars, buffer_ctrl, pendingVars, workerVars,
                 main_op, exits, inserted, fetched, done>>

JoinThreads ==
  /\ MainGoto("join", "ended")
  /\ \A t \in Threads : pc[t] = "returned"
  /\ UNCHANGED <<ringVars, semVars, buffer_ctrl, pendingVars, workerVars,
                 main_op, exits, histVars>>

(* The steps main takes by itself; ReadCommand, ReadSimulate and ReadExit
   wait for the user. *)
MainStep ==
  \/ WaitOnWriteSem \/ PutCmd \/ PostToReadSem \/ MainLockPending
  \/ IncrementPending \/ MainUnlockPending \/ SimLock \/ SimTest
  \/ SimUnlock \/ Fork \/ JoinThreads

UserStep == (\E op \in Ops : ReadCommand(op)) \/ ReadSimulate \/ ReadExit

Ended == main_pc = "ended" /\ UNCHANGED vars

Next ==
  \/ \E t \in Threads : WorkerStep(t)
  \/ MainStep
  \/ UserStep
  \/ SpuriousWakeup
  \/ Ended

(* The operating system schedules every thread that can run. A thread that
   waits for a mutex others keep taking and releasing gets it in the end. *)
Fairness ==
  /\ \A t \in Threads : WF_vars(WorkerStep(t))
  /\ \A t \in Threads : SF_vars(LockPending(t))
  /\ WF_vars(MainStep)

Spec     == Init /\ [][Next]_vars
FairSpec == Spec /\ Fairness
----------------------------------------------------------------------------
(* The commands in the ring, in the order the workers will get them, and
   the ones a worker has got and not finished. *)
Queue   == [k \in 1 .. inserted - fetched |->
              cmd_buffer[(buff_read_idx + k - 1) % BufferDim].id]
Running == {cmd[t].id : t \in {u \in Threads :
              pc[u] \in {"unlock_buffer", "post_write_sem", "execute"}}}

Holding(S) == {t \in Threads : pc[t] \in S}

(* Types of all the variables. pending_requests is an int and not a natural:
   insert_cmd counts a command after a worker may have finished it. *)
TypeOK ==
  /\ cmd_buffer \in [Slots -> Command]
  /\ buff_write_idx \in Slots
  /\ buff_read_idx \in Slots
  /\ sem_read \in Nat
  /\ sem_write \in Nat
  /\ buffer_ctrl \in Threads \cup {None}
  /\ pending_ctrl \in Threads \cup {Main, None}
  /\ pending_requests \in Int
  /\ pc \in [Threads -> WorkerLabels]
  /\ cmd \in [Threads -> Command]
  /\ main_pc \in MainLabels
  /\ main_op \in Ops \cup {Exit, None}
  /\ exits \in Nat
  /\ inserted \in Nat
  /\ fetched \in Nat
  /\ done \in SUBSET Nat
  /\ forked \in SUBSET Nat

(* The ring holds the commands put and not yet got, oldest first: put_cmd,
   which takes no lock, never overwrites a command no worker has got, and
   get_cmd never reads a slot that was not filled. *)
RingInOrder ==
  /\ fetched <= inserted
  /\ Queue = [k \in 1 .. inserted - fetched |-> fetched + k]

(* While main copies a command into its slot with no lock held, no worker
   copies one out of the same slot. *)
SlotExclusive ==
  \A t \in Threads :
    main_pc = "put_cmd" /\ pc[t] = "copy_cmd" => buff_write_idx # buff_read_idx

(* What pending_requests counts. insert_cmd posts the semaphore before it
   increments, so a command may be finished before it is counted: the counter
   lags by the one main still owes, and may be -1 in between. *)
PendingExact ==
  main_op # Exit =>
    pending_requests =
      (inserted - fetched)
      + Cardinality(Holding({"unlock_buffer", "post_write_sem", "execute",
                             "lock_pending", "decrement"}))
      - (IF main_pc \in {"post_read_sem", "lock_pending", "increment"}
         THEN 1 ELSE 0)

(* fork() happens with every command inserted so far executed and with no
   mutex of the pipeline held: the child starts from a settled bank. *)
ForkQuiescent ==
  main_pc = "fork" =>
    /\ done = 1 .. inserted
    /\ buffer_ctrl = None
    /\ pending_ctrl = None

(* When join_threads returns every command has been executed, and the two
   semaphores, which outlive the process under their names, are back at the
   values the next run of i-banco will find and rely on. *)
CleanExit ==
  main_pc = "ended" =>
    /\ done = 1 .. inserted
    /\ sem_read = 0
    /\ sem_write = BufferDim

(* A simulation that was asked for is forked: the signal of the last worker
   is not lost, whatever the order of decrement, test and wait. *)
SimulationForked == main_pc = "sim_lock" ~> main_pc = "fork"

(* After "sair" the workers all return and main is able to join them. *)
ExitEnds == main_op = Exit ~> main_pc = "ended"

(* What the pipeline promises: a bounded queue served in order. *)
Abstract == INSTANCE CommandQueue WITH
  Capacity <- BufferDim, queue <- Queue, running <- Running, done <- done,
  forked <- forked, put <- inserted
CommandQueueSpec == Abstract!FairSpec
============================================================================
