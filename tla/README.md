# Verification of ist-so-projects

The repository holds three years of operating-systems course projects in C.
Three of its programs are concurrent and are the subject of this development:

| program | where | what it is |
|---|---|---|
| **i-banco** | `src/proj/2016-2017/src` | a bank with a pool of worker threads fed through a ring buffer, one mutex per account, and forked simulations |
| **heatSim** | `src/proj/2017-2018/src` | a parallel heat simulation whose threads meet at a barrier, with SIGINT and a periodic save |
| **reader / writer / monitor** | `src/proj/2014-2015/src` | processes that write and check files under `flock`, a thread pool around a shared buffer, and a monitor that joins them with a pipe and signals |

The laboratory exercises, the tests, makefiles and documents are read for what
they say of these programs; they keep no state of their own.

Everything here is plain TLA+. `*.tla` named after a component models it,
`MC*.tla` with a `.cfg` is an instance for TLC, `*Proofs.tla` holds theorems
checked by TLAPS. `PROJECT.json` maps each definition to the lines it models.

```
tlc -workers 2 -config CommandBuffer.cfg MCCommandBuffer   # one run
tlapm AccountsProofs.tla                                   # the proofs of a module
```

## Inventory

### i-banco

* **Command pipeline** (`command.c`). State: `cmd_buffer[CMD_BUFFER_DIM]` with
  `buff_write_idx` and `buff_read_idx`, the named semaphores `sem_read` and
  `sem_write`, the mutexes `buffer_ctrl` and `pending_ctrl`, the counter
  `pending_requests` and its condition variable. Operations: `insert_cmd` (main
  puts, with no lock), `thread_main` (a worker waits, gets under the mutex,
  posts, executes, counts down, signals), `wait_for_simulation`, `join_threads`
  (one `OP_EXIT` per worker). Correct when: the ring is a FIFO that is never
  overwritten or read empty; `pending_requests` counts what is not finished;
  main forks only when nothing is pending and is never left asleep; every
  command is executed and every thread joined; the semaphores, which the kernel
  keeps under their names, end as the next run expects them.
* **Accounts** (`accounts.c`). State: `account_balance`, one mutex per account.
  Operations: `debit`, `credit`, `transfer`, `get_balance`, and `simulate` in a
  child. Correct when: an operation is atomic for the other threads, money is
  neither made nor lost, no balance is negative, every path gives back its
  locks, and transfers do not wait for each other.
* **Main and the simulations** (`i-bank.c`). State: `pid_children`,
  `num_children`, the flag of SIGUSR1 in each child. Operations: reading a
  command, `simular` (wait until nothing is pending, fork), `sair` and `sair
  agora`, joining threads, waiting for children. Correct when: the memory a child
  copies is a settled bank with no mutex held; `sair agora` tells each child;
  main ends, and after every thread and child.
* **Command line parser** (`commandlinereader.c`), **logger** (`logger.c`): a
  tokenizer, and `printf` into a shared static buffer.

Main calls the pipeline, the pipeline's workers call the accounts and the
logger, and `fork()` copies the memory of all of them into a child, which runs
`simulate` on its copy.

### heatSim

* **Barrier** (`barrier.c`). State: a mutex, a counter, a condition variable.
  Operations: `barrier_lock`, `barrier_wait`, `barrier_unlock`. Correct when: no
  thread passes a wait before all have come, and none is left behind.
* **Simulation** (`main.c`). State: the global pointers `matrix` and
  `matrix_aux`, the flags `interrupt` and `interrupted`, the local `it` and
  `result` of each worker, the pid of the process that saves. Operations:
  `simul` (compute rows, wait, test whether the matrix is delimited, wait, swap),
  the handlers of SIGINT and SIGALRM, and main: create, join, print, save or
  delete, free. Correct when: all the workers are in the same iteration while
  any reads a row; they stop at the same one; what is printed and saved is one
  whole iteration; main frees each matrix once.
* **Matrices** (`matrix2d.c`), **signals** (`signals.c`), **files and helpers**
  (`files.c`, `helpers.c`): pure computations, file input and output, and the
  masks and handlers around the above.

### reader, writer, monitor

* **Shared buffer and thread pool** (`shared_buffer.c`, `reader_parallel.c`).
  State: an array used as a stack with `index`, two semaphores, a mutex.
  Operations: insert, consume, `reader_thread`, and main's loop over the input
  with one `NULL` per thread at its end. Correct when: nothing that was inserted
  is lost or handed out twice, the index stays inside the array, every file is
  read and the pool ends.
* **Files and locks** (`reader.c`, `writer.c`, `writer_parallel.c`): a writer
  opens, locks, writes and closes a file; a reader locks and checks one; signals
  toggle the locks and the errors written on purpose.
* **Monitor** (`monitor.c`, `shared_stuff.c`): creates a reader and a writer
  process, a pipe to the reader, and turns its input into names and signals.

### What is hard to test here

Steps of two threads between which nothing was ever measured (`put_cmd` with no
lock beside `get_cmd`; the unlocked fix of the pointers in `simul`); a counter
updated after the fact it counts (`pending_requests`); a condition variable
whose signal comes between a test and a wait; a barrier used twice per iteration
with one counter; `fork()` in a process with threads; deadlock between two
account locks; a stack that is used as a queue; semaphores that outlive their
process; a signal that ends the wait for a lock or for a child; two signals that
become one; a pipe end that a process inherits and keeps. `PROJECT.json` lists each
under "hazards", at its line, with the properties that would show it, or with the
reason why none does.

## Modules

| module | models | composed of |
|---|---|---|
| `CommandQueue` | what the pipeline promises: a bounded queue served in order | |
| `CommandBuffer` | `command.c` and main's side of it | implements `CommandQueue` |
| `AtomicBank` | what the account operations promise: each takes effect at once | |
| `Accounts` | `accounts.c` | implements `AtomicBank` |
| `AccountsProofs` | theorems about `Accounts`, and that it implements `AtomicBank` | extends `Accounts` |
| `CommandBufferProofs` | theorems about `CommandBuffer`, and that it implements `CommandQueue` | extends `CommandBuffer` |
| `IBank` | `i-bank.c`, `simulate` | instances of `CommandBuffer` and `Accounts` |
| `IBankProofs` | theorems about `IBank` | extends `IBank`; instances of `CommandBufferProofs` and `AccountsProofs` |
| `HeatSim` | `simul`, the barrier, main of heatSim | |
| `HeatSimProofs` | theorems about `HeatSim` | extends `HeatSim` |
| `HeatSave` | the save file: `safe_write_matrix`, `signals.c`, `files.c`, `wait_properly` | |
| `HeatSaveProofs` | theorems about `HeatSave` | extends `HeatSave` |
| `ReaderPool` | `shared_buffer.c`, `reader_parallel.c` | |
| `ReaderPoolProofs` | theorems about `ReaderPool` | extends `ReaderPool` |
| `FileLocks` | `writer.c`, `writer_parallel.c`, `reader.c` | |
| `FileLocksProofs` | theorems about `FileLocks` | extends `FileLocks` |
| `Monitor` | `monitor.c`, and the ends of it in the writer and the reader | rests on `FileLocks` and `ReaderPool` (see Fairness) |
| `MonitorProofs` | theorems about `Monitor` | extends `Monitor` |

### From code to actions

The programs share memory between threads, so the grain is the step another
thread can observe: one action per semaphore, mutex or condition operation and
per access to shared memory. A local computation is part of the action that
follows or precedes it. A mutex is its owner, a semaphore its value. A thread's
place in the code is a label (`pc`, `main_pc`, `at`), which the actions' `Goto`
reads and writes.

* `CommandBuffer`: `get_cmd` is two actions (`CopyCmd`, `AdvanceRead`), because
  only the mutex makes its two statements one step; `put_cmd` is one (`PutCmd`),
  because both its variables belong to main alone: what another thread may see of
  its slot between two statements is exactly what `SlotExclusive` excludes.
  `pthread_cond_wait` releases the mutex as it blocks (`SimTest`) and takes it
  again when signalled (`SimLock`), or without a signal (`SpuriousWakeup`), which
  POSIX permits and the code's loop allows for. A command is its operation and
  its number, which the code does not store: the properties need it. `Execute` is
  the whole account operation in this module and has its own steps in `IBank`.
  `inserted`, `fetched`, `done` and `forked` are history variables: no guard
  reads them, but for the bound on the session's length.
* `Accounts`: the calls to `delay()` are the gaps between actions; `Test`,
  `Subtract` and `Add` are `debit_no_mutex` and `credit_no_mutex`. `transfer`
  locks the smaller account first and unlocks the source first. `ret` is the
  local that is returned. `net` is a history variable.
* `IBank`: `Dispatch`, `Operate`, `Finish` put the steps of `Accounts` where
  `CommandBuffer` has `Execute`. A child is a record with the copy of the
  balances and mutexes that `fork()` made; a year of `simulate` is one step, as
  nobody but the child sees its memory; SIGUSR1 sets its flag. The argument of
  `kill` in `sair agora` is an element of `pid_children` never written: it names
  some child or none (`Stray`). It could also be 0 or -1, which stand for groups, or
  an unrelated process; that is left out: to all the children at once it is the kill
  that was meant, and main's own handler sets a flag that main does not read.
* `HeatSim`: a row is the number of iterations its values went through, and
  `Torn` if computed from rows of different iterations; the border suits all.
  `dm2dDelimited` becomes a comparison of generations with `limit`, the first
  one that changes by less than `maxD`, chosen at the start: this stands for
  temperatures that only rise (below). For two buffers that do not rise `Delimited`
  holds, as in the code with a positive `maxD`; with 0 the code says the opposite, and
  no thread tests such buffers then, as none leaves the loop before its end. `AllHere` is the test of `barrier_wait`.
* `HeatSave`: the workers, which `HeatSim` shows to move in lockstep, are one
  process; a matrix is the number of iterations it went through over all the runs,
  a file that matrix, `Partial` (opened and not yet written) or `NoFile`. The
  action `SafeWrite(p)` is `safe_write_matrix`, by main or by the child: open
  `fichS~`, write and close, rename; an open file keeps its identity when renamed
  (`fd`). Whether SIGINT is masked, fatal or handled follows from the place of
  main; the workers and their child keep it masked. `KillMain` and `ChildDies` may
  come between any two steps and stand for failed system calls too; `Restart` keeps
  only the disk. `waitpid` gives a pid if and only if a child has ended: no two
  children exist together, so 0, -1 and a pid in `save_child` ask the same. With
  `Inherited`, heatSim may be started with a child it did not fork (a shell's `&`
  followed by `exec`): `waitpid` takes it for its own, and only then is a save ever
  forked. `ResetAlarm` is the clearing of `alarmed` with the `alarm()` that follows: no
  alarm runs between the two, and nobody else reads the flag. `forgotten` and `cut` are history variables.
* `ReaderPool`: names are numbers in the order of the input, `NULL` is 0, and
  `buffer[--index]` is two actions, `Decrement` and `Take`, as is
  `buffer[index++]`.
* `FileLocks`: a line is the string it repeats, `Bad` or `Unwritten`; `write()` and
  `read()` of one line are one step, `open(O_CREAT)` is part of the step that
  chooses the file (`Call`), with the test of `stop_writing` and the reading of the two
  flags before it, and does not truncate it: a signal that comes among these four is taken
  as one before or after them all, as the call has its own copies of the flags. `flock` is the action
  `FlockExclusive` or `FlockShared`; `holders` is what the kernel keeps. The flags
  are passed by value, so `locks` and `errors` are the writers called with them.
  A signal (`Toggle`, `Sigtstp`) is one step with its handler, and may be taken by
  a writer that waits in `flock`, which then goes on to write (`Deliver`):
  `sa_flags` is 0 and the result is not looked at. The reader's thread is
  `reader_ranged` over the whole file, `lseek` included. `lapsed` and `trespassed` are
  history variables.
* `Monitor`: `fork` and `exec` of a child are one step (`StartWriter`,
  `StartReader`), the closing of its copy of the pipe another (`ExecReader`).
  `writeEnds` is who can still write to the pipe, from which the end of the file
  follows. `Kill(s)` is what `kill` does at the moment: a signal pending already
  stays one, a handler not yet installed means the default action. Here a handler
  of a toggle is two steps, the read and the write of its flag, as two threads of
  the writer may run it at once. `odd` and `overlapped` are history variables.

A system call that fails ends these programs with an error; those branches are
left out everywhere.

## Runs

| run | instance | distinct states |
|---|---|---|
| `CommandBuffer` | 2 workers, ring of 2, up to 3 commands, simulations at any time | 22 025 |
| `Accounts` | 3 threads, 3 accounts, 8 requests, 4 calls | 212 690 |
| `IBank` | 2 workers, ring of 2, 2 commands of 2 kinds, 2 simulations | 2 047 521 (up to exchanging the workers) |
| `HeatSim` | 3 threads of 2 rows, `iter` of 1 to 4, every limit, SIGINT at any time | 62 984 |
| `HeatSave` | 3 starts of 2 iterations, kills, SIGINT and the alarm at any time, an inherited child or none | 362 475 |
| `ReaderPool` | 2 readers, stack of 2, up to 3 names | 6 435 |
| `FileLocks` | 2 writers and a reader on one file of 2 lines, 2 strings, 2 toggles and SIGTSTP | 355 742 |
| `Monitor` | 2 threads of the writer, pipe of 3, 4 commands | 24 699 |

What they show, and why the instance is large enough:

* `CommandBuffer`. `RingInOrder` and `SlotExclusive`: the unlocked `put_cmd` is
  safe with one producer. `PendingExact`: the counter passes through -1, and is
  off by at most the command main has yet to count. `ForkQuiescent`: the fork
  finds every command executed and no mutex of the pipeline held.
  `SimulationForked`, `ExitEnds`: no lost wake-up and no thread that is not
  joined. `CleanExit`: the semaphores end at 0 and
  `CMD_BUFFER_DIM`. `CommandQueueSpec`: all of this as the refinement of a
  queue. Three commands and two `OP_EXIT`s in a ring of two wrap both indices
  twice; two workers are enough to be at any two places of `thread_main`.
* `Accounts`. `LocksHeld`, `NoRace`, `NoOverdraft`, `MoneyConserved`,
  `OperationsReturn` (no deadlock, with transfers all around a circle of three
  accounts) and `AtomicBankSpec`, the refinement: an operation takes effect at
  the subtraction, the addition, the reading or the failing test. Four calls are
  one more than the threads, so that a second call follows a first.
* `IBank`. `SnapshotSettled`: a child's copy holds all the money and no held
  mutex. `NothingLeftBehind`: when main ends, every command was executed and every
  child reaped. TLC also finds no deadlock: main is never left with no step of anyone
  to wait for. The symmetry exchanges the two workers; no property names one.
* `HeatSim`. `NoTornRow`: neighbours' rows are read in the iteration they belong
  to. `CountIsBlocked`: one counter and one condition variable do for both waits.
  `PrintedWhole`: what main prints is one whole matrix, but not always that of the
  last iteration, since main prints the buffer it allocated first (`main.c:414`)
  and after an odd number of swaps the last iteration is in the other. `Terminates`.
  Three threads let one be late at a wait, one early at the next and one between;
  four iterations swap the buffers both ways twice.
* `HeatSave`. `SaveWhole`: the save can be read wherever a process is killed.
  `SaveKept`: no save is replaced by one that went less far, nor deleted but by a
  run that nothing stopped. `OneWriter`, `EndsWithSave`, `AlarmSet`: main and the
  child do not save together, main leaves what it should, the alarm stays set. They
  hold as long as `cut` is false: a signal that comes while main waits for the
  child ends `waitpid`, which is not called again, and then both may write
  `fichS~`. `SaveKept` and `EndsWithSave` do not speak of a run that has `forgotten` a
  SIGINT (between `sigaction` and `interrupted = 0`): its workers may have seen it, and
  main deletes the save of a run that was stopped. Two iterations swap the buffers both
  ways; the third start reads a save of a run itself resumed.
* `ReaderPool`. `OnePlaceEach`, `Closes`: the buffer loses and duplicates nothing,
  and its readers all end.
* `FileLocks`. `ReaderRight`, `PassWhole`: a lock is worth what it should to who has
  it, unless a writer without one came between (`trespassed`). `EmptyOrWhole`: a file
  found invalid without a lapse was found empty, between its creation and its
  first lock. `LocksReturn`: the writers called without locks finish. `Stops`: every
  thread of the writer returns. Two writers are one that has the lock and one that
  waits or writes without; two lines are a right one and one that the deliberate
  error spoils; two toggles turn the locks off and on again, or end a wait twice.
* `Monitor`. `NamesReachReader`: nothing is left in the pipe when the reader ends,
  although the monitor closes its end with names still there. `TogglesCount`: a
  toggle is lost only to one that overlaps it. `NeverStuck`: the monitor at a full
  pipe, the reader at an empty one and the two waits of `exit_monitor` never wait for
  each other in a circle; it rests on the child of `run_process` closing its own
  write end, without which the reader waits for itself and the monitor for it.
  `MonitorEnds`: the end of the file
  comes to the reader although the writer holds both ends of its pipe, as the
  monitor stops the writer first; excepted is a writer that SIGTSTP found without its
  handler and suspended, for which the monitor does wait for ever. A pipe of three
  blocks in the middle of a second name; with four commands a flag is turned twice, and
  two toggles overlap two ways: pending, and in two threads at once.

Four runs are expected to fail, each on one statement of the repository:

* `HeatSimFree`: main frees two matrices (`main.c:435`), but the fix of the
  pointers after the loop is run by all the threads with no lock and can leave
  both pointers at one matrix.
* `HeatSaveFork`: a save every `periodoS` seconds (`README.md:16` of heatSim,
  `main.c:106`), but the first fork too waits for `waitpid` to give a child that
  ended: there is none, and no save is ever forked.
* `ReaderPoolNull`: readers read the files brought to them
  (`reader_parallel.h:28`), but the `NULL`s that end them go on top of the names on
  the stack.
* `FileLocksEintr`: `use_locks` asks for exclusive locks while writing
  (`writer.h:26`), but a signal that comes while a writer waits in `flock` ends the
  wait, and the file is written without the lock.

Two more deviations are steps of the models without a run of their own: `sair
agora` passes `pid_children[num_children]` to `kill` each time (`i-bank.c:163`), an
element never written (`Stray` in `IBank`), and an odd number of iterations leaves the
last one unprinted (`PrintedWhole` in `HeatSim`).

### Bounds

`MaxCommands`, `MaxCalls`, `MaxFiles`, `MaxIter`, `MaxRuns`, `MaxReads`, `MaxSignals` and
`MaxInput` bound the input of a session and appear only in the guard of the action
that reads one more. `MaxChildren` is `MAX_CHILDREN`, `BufferDim` is `CMD_BUFFER_DIM`,
`Size` is `ITEM_BUFFER_SIZE`, `PipeSize` what the kernel's pipe holds, smaller than in the
code so that they fill; `Lines` is `LINES_PER_FILE`.

### Fairness

Weak fairness for each thread and process, with its whole next step: the
scheduler runs what can run. In `CommandBuffer` a session may ask for
simulations for ever, so main may take `pending_ctrl` again and again, and the
workers' `LockPending` needs strong fairness: a mutex that is released again and
again is given in the end to a thread that waits for it, as the futex queue
does. In `Accounts`, `HeatSim` and `ReaderPool` there are finitely many calls,
so weak fairness is enough. `IBank` and `HeatSave`'s safety run have none; `IBank` is
checked for deadlock. Nothing obliges the user to type: `ReadCommand`,
`ReadSimulate`, `ReadExit`, `Call`, `ReadName`, `Open`, `Quit`, `WriteName`, the signals
and spurious wakeups have no fairness; the end of the input of the reader has, as
a part of main.

In `FileLocks` weak fairness does not keep a writer from waiting while another takes
the lock again and again, as `flock` promises no order; but after SIGTSTP no call
begins, and the names given to the readers are bounded: without that bound readers that
share the lock could keep a writer out for ever. In `Monitor`, the writer ends once
it took SIGTSTP (`WF_vars(WriterEnds)`): that is `Stops` of `FileLocks`. The reader
ends at the end of its input: `Closes` of `ReaderPool`.

## Proofs

The eight `*Proofs` modules hold theorems of the form `Spec => []P`, for every value
of the constants that the named assumptions of the modules allow: finite pools of
threads, sizes and bounds that are numbers (at least one slot, row, line, iteration
or reader), and model values such as `None`, `NoOne` or `Bad` that differ from what
they stand beside. The bounds of the input are constants too, so they hold for
sessions of any length. The runs show the same properties on the instances above; TLC
checked each inductive invariant before it was proved. The types of `Accounts`,
`FileLocks` and `Monitor` are proved and in no run.

**Accounts.** `LockInv` is `TypeOK`, `LocksHeld` and `StepsOK`. The last says
what a thread's place tells of its request, since `LocksHeld` alone does not say
that a transfer's accounts exist and differ, on which the second lock and both
unlocks rest. `LocksStep` goes through the actions with one lemma, `OthersHold`:
a step that changes owners only from or to its own thread leaves what the
others hold. Two threads that touch one balance would both hold its mutex
(`LocksExclude`). `BalanceInv` adds `Covered`: a thread past the test still has
the money, because only a thread that touches the balance could take it. Hence
`AccountsTyped`, `MutexesHeld`, `BalancesNotRaced`, `NeverOverdrawn`.

**AtomicBank.** An operation takes effect in one step of its thread, and which one
follows from its place. `EffectInv` adds to `LockInv` and `Covered` that a thread has
an answer exactly after that step (`ReturnsOK`). A transfer in the middle has taken the
money and not given it: the abstract balance is the balance and what is owed to
it, and since whoever owes an account holds its mutex, at most one does (`OwedOK`).
So a step that reads or changes a balance finds nothing owed to it, and its test
succeeds exactly when the abstract one does; every other step leaves the
abstract bank as it was. Hence `OperationsAtomic`: `Spec => AtomicBankSpec`.

**Money.** `MoneyKept` is about a sum over all the accounts, which the model takes by
folding. `TotalIsSums` says the sum once as a recursion over the sets of accounts,
each set without the element that the fold takes first (`LeastNumber`); by induction on
the number of accounts that remain, changing one summand by d changes the sum by d
(`TotalChanges`). The summands are the balances with what each account is owed, which
are the abstract balances of the refinement above: a step that changes one of them
changes `net` by as much, and a transfer changes none until it has taken the money, then
two by opposite amounts (`MoneyStep`).

**CommandBuffer.** `Inv` has a part per mechanism. `MutexInv`: the owners of the
two mutexes. `CountInv`: each command put and not got is a unit of `sem_read`, one
a worker took, or one main is about to post; each slot is free, reserved, full
or not yet given back. This is what makes `put_cmd` safe: it bounds the ring
between empty and full (`WaitingBounds`). `RingInv`: the write index is as many slots
past the read index as commands wait, and the k-th slot holds the k-th command,
with the `OP_EXIT`s behind all the others. `DoneInv`: a command got is done or in
a worker's hands. `ExitInv`: as many workers have an `OP_EXIT` as were got, so that
when all have returned none waits in the ring. `PendingInv`: the counter, and
that between main's test and the fork it stays 0, from which `Quiet` draws that
no worker has anything to do. The sizes of sets of workers change by one as a
worker moves (`HoldingMoves`), and the indices wrap by two lemmas on `%`
(`NextSlot`, `SlotModulo`). Hence `PipelineTyped`, `RingKeepsOrder`,
`SlotsNotShared`, `PendingCounts`, `ForkIsQuiet`, `EndIsClean`.

`PipelineIsQueue` is the refinement: with `RingInOrder` the abstract queue is the
numbers from `fetched + 1` to `inserted`, to which `PutCmd` appends one and from which
`AdvanceRead` takes one; as no two workers have the same command (`IdsApart`), `Execute`
takes exactly one from the set of those running; at the fork the queue is empty
and nothing runs. It is the safety half of `CommandQueueSpec`.

**IBank.** Each step of the whole is a step of the pipeline or leaves its variables, and
a step of the accounts or leaves theirs (`Components`), so `Spec` implies both
specifications (`ComponentsKept`) and the invariants of `CommandBufferProofs` and
`AccountsProofs` hold in the whole. `Coupled` ties the two: a thread inside an account
operation is one that executes a command. So when main forks, nobody is inside an
operation (`ForkIsQuiet`), every mutex is free (`LocksHeld`), nothing is owed and
the balances alone add up to `net` (`NobodyExecutes`): what the child copies is settled.
`ChildrenInv` adds that `num_children` is the number of children not reaped and that a
child keeps what it started with until its first year. Hence `SimulationsStartSettled`,
`NothingIsLeft`.

**HeatSave.** `SaveInv` adds to the types: `Phases`, that while main saves or
deletes the workers have returned, so that none forks, and that no child is left
when the workers begin; `Writing`, that a file is open exactly at the label `write`,
that only one of the two processes is saving, and that what waits to be renamed
is whole; `Flags`, that a SIGINT the workers saw is known to main or was
forgotten; `Progress`, that the buffers differ by at most one iteration and that
neither is behind the save or the copy of the child: the buffer allocated first
may miss the last iteration, but not one that was saved; `Bounded`. Hence
`SaveTyped`, `SaveReadable`, `WritersApart` and `ProgressKept`, the action property.
`AlarmSet` is inductive beside the types (`AlarmKept`). `EndInv` adds what main has
decided by its place, that it saves only if SIGINT came; with `Progress` it gives what is
left at the end (`EndsSaved`).

**HeatSim.** `HeatInv` says that all the threads are in the same half of the same
iteration (`Phase`). In `HalfOne` each thread has computed the rows that its place says,
and no other, of the next generation; in `HalfTwo` all of them are computed, and each
thread leaves exactly if the matrix is delimited; in `Swapping` the last thread is
alone and the others wait to be let go. A thread leaves in the first half only if all
will (`Stop` depends on what is fixed within a half), so the unlocked fix of the
pointers never runs beside a computation. The barrier's counter is the size of the
set of those blocked (`Counted`), from which the last to come knows that all the others
are. Hence `TypesKept`, `RowsNeverTorn`, `BlockedCounted`, `ResultPrinted`. That two
threads in the fix confuse the pointers is not excluded: it is what `HeatSimFree` finds.

**ReaderPool.** `PoolInv`: each slot of the buffer is a unit of a semaphore or
held by a thread between a wait and a post (`SlotsCounted`), so that the index stays in
the array; whoever changes the index or uses the slot has the mutex, so what main stored
is there until it is counted (`MutexOK`); no name is in two places (`PlacesApart`) and
none in no place (`PlacesFull`). Hence `PoolTyped`, `SlotsKept`, `NamesKept`.

**FileLocks.** `LocksInv`: a lock is held inside the pass of its thread and by one
writer alone (`LocksOK`), so that only a trespasser changes what a writer has written so
far (`PassSoFar`) or a reader compared so far (`ReadSoFar`); without a lapse there is no
trespasser. Hence `TypesKept`, `ReadersRight`, `PassesWhole`, `FilesWhole`.

**Monitor.** `MonitorInv`: of a kind of signal that never overlapped, at most one is on
its way, pending or in one handler that read the flag as it still is, and then
the flag is one toggle behind (`ToggleOK`). Hence `TypesKept`, `TogglesNotLost`.
What is in the pipe follows from how much was written: names and line feeds alternate,
and `PipeInv` says that the pipe holds the writes from `Gets` to `Puts`, that what was
received is the first half of `Gets`, and that a reader that ended found the pipe empty
and the monitor past its last write. The names in such a piece of the text are
computed by induction on its length (`NamesAlternate`). Hence `NamesArrive`.

### No deadlock

What can be proved of liveness is its safety half: that whatever the sizes, and until the
program has ended or waits for its user, somebody can go on. Each theorem below is
`Spec => []NeverStuck` (for `FileLocks`, `[]WaitsForRunning`), with operators that say of each thread or process when it cannot
go on (`Blocked`, `WorkerBlocked`, `MainBlocked`, ...), written from the guards of its
actions because the prover has no `ENABLED`; that they agree with `~ENABLED` of the
actions was checked by TLC in every state of the instances above.

* `NobodyDeadlocked` (`Accounts`): who has a mutex wants none or that of a greater account
  (`WantsGreater`), so of all that are wanted the greatest is with a thread that can go on.
* `PipelineNeverStuck` (`CommandBuffer`): `Inv` with two more parts, that main sleeps
  only while a command is pending (`Signalled`, the lost wake-up) and that what the
  ring and the workers hold are commands (`CommandsReal`). With nobody able to go on the
  mutexes are free and each worker waits for `sem_read` or has returned. If one waits,
  the ring is empty, so main has nothing to wait for, and as many workers as there were
  `OP_EXIT`s have returned, which would be all; if all returned, every command was executed.
* `HeatNeverStuck` (`HeatSim`): with nobody able to go on no thread computes and the mutex
  is free. Not all the threads sleep, as the barrier counts them (`Counted`), and one that
  sleeps and one that left the loop would disagree on whether to leave it (`Phase`).
* `PoolNeverStuck` (`ReaderPool`), with `PoolInv` and `NullsCounted`: each `NULL` main made is
  with main, in the buffer, or with a thread that ends because of it. It assumes a thread in
  the pool (`READER_THREAD_COUNT` is 3): with none, main would fill the buffer and wait.
* `NobodyWaitsForWaiting` (`FileLocks`): who waits for `flock` waits for a thread that has
  the lock and can itself go on, since nobody waits with a lock in hand.
* `MonitorNeverStuck` (`Monitor`, whose run checks `NeverStuck` too), with `EndsInv`: who has the end of the pipe open, and
  that a SIGTSTP is dealt with unless it suspended the writer. At a full pipe the reader can
  read; after the writer is gone nobody keeps the end of the file from the reader.
* `BankNeverStuck` (`IBank`): the theorems of the pipeline and of the accounts hold in the
  whole; a worker that executes is inside an operation, where somebody can go on, or can
  call one. That the bound on the calls is never what stops it is `CallsCounted`: the calls
  are the requests fetched, but for those of the workers about to call. When main waits for
  its children one runs or has ended, and none of them waits for a mutex
  (`SnapshotSettled`).

## Only model-checked

Liveness itself, and the fairness half of `CommandQueueSpec`: the prover has neither
`ENABLED` nor fairness. `NeverStuck` says that somebody can go on, not that everybody
does in the end: that is what `OperationsReturn`, `SimulationForked`, `ExitEnds`,
`Terminates`, `Closes`, `Stops`, `LocksReturn` and `MonitorEnds` check on the
instances. Every safety property that a passing run checks is also proved. The
properties of the four runs that are expected to fail are false.

## Not modelled, and why

* The parsers and formats of text: no state, no concurrency. The parser's buffer of
  100 bytes makes two commands of a longer line.
* `debit` and `credit` of an account that does not exist lock outside the array
  before they check: undefined behaviour, excluded by `IsRequest`. Overflow of a
  balance: the amounts are small and a balance is any integer.
* In `HeatSim`, temperatures that fall: `dm2dDelimited` takes a difference
  without its absolute value, and with cooling rows two threads may disagree.
  The cells that `dm2dDelimited` and the interpolation look at.
* Spurious wakeups of the barrier: `barrier_wait` does not test again, so with one a
  thread passes alone and no property of the iteration holds.
* In `HeatSave`, a save file that exists and cannot be read or removed, one for
  another `N`, SIGALRM sent from outside, and the rounding of the values to four
  decimals when they are written.
* The semaphores of i-banco after it was killed: `sem_open` (`command.c:212`) ignores
  the initial value of one that exists, and what is left depends on where it was
  killed; `CleanExit` is about the ordinary end.
* What the log holds: all the threads format into one static buffer.
* In `FileLocks`, a line written in part, a range of lines (no program asks for one), the
  times that main prints. In `Monitor`, a fork, exec or write that fails and a name as
  long as the buffer. As in the other modules, a system call that fails otherwise
  than by a signal.
* Tests, makefiles and documents: they keep no state.

## What may follow

Every concurrent component of the three programs is modelled, and what is proved is
listed above. Left for later: `barrier_wait` on its own with spurious wakeups,
against an abstract barrier, if the code comes to test again; a restart of i-banco
after a kill, with the semaphores it finds; `dm2dDelimited` and the interpolation of
`matrix2d.c` on small matrices. To prove: a measure that each step lowers after the last
input (the places left in each operation, the rows and iterations left, the signals on
their way), which with the theorems on deadlock gives that the programs end under any
scheduler that runs what can run.
