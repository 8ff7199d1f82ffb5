------------------------ MODULE CommandBufferProofs ------------------------
(***************************************************************************)
(* Proofs about the command pipeline of i-banco, for any pool of threads,  *)
(* any size of the ring, any operations and any number of commands: the    *)
(* types, the order of the ring, the slot main fills with no lock, what    *)
(* pending_requests counts, the quiet moment of the fork and the clean     *)
(* end follow from one inductive invariant, Inv; from it also that every   *)
(* step of the pipeline is a step of CommandQueue, or none.                *)
(***************************************************************************)
EXTENDS CommandBuffer, Sequences, FiniteSetTheorems, TLAPS

(* The places of a worker between two events: from the wait on sem_read to
   the advance of the read index; from there to the post of sem_write; with a
   command fetched and not executed; with one fetched and not counted down. *)
FetchLabels   == {"lock_buffer", "copy_cmd", "advance_read"}
FreeLabels    == {"unlock_buffer", "post_write_sem"}
RunLabels     == {"unlock_buffer", "post_write_sem", "execute"}
CountedLabels == {"unlock_buffer", "post_write_sem", "execute",
                  "lock_pending", "decrement"}

Fetching == Cardinality(Holding(FetchLabels))
Freeing  == Cardinality(Holding(FreeLabels))
Counted  == Cardinality(Holding(CountedLabels))

(* 1 when main is at one of the places, 0 otherwise. *)
MainAt(labels) == IF main_pc \in labels THEN 1 ELSE 0

(* The two mutexes are held by the threads whose place says so. *)
MutexInv ==
  /\ \A t \in Threads :
       /\ buffer_ctrl = t <=>
            pc[t] \in {"copy_cmd", "advance_read", "unlock_buffer"}
       /\ pending_ctrl = t <=> pc[t] \in {"decrement", "unlock_pending"}
  /\ pending_ctrl = Main <=>
       main_pc \in {"increment", "unlock_pending", "sim_test", "sim_unlock"}

(* Every command put and not got is a unit of sem_read, one that a worker has
   taken or one main is about to post; every slot is free, reserved by main,
   full, or got and not given back. *)
CountInv ==
  /\ inserted - fetched = sem_read + Fetching + MainAt({"post_read_sem"})
  /\ BufferDim =
       sem_write + MainAt({"put_cmd"}) + (inserted - fetched) + Freeing

(* The k-th slot from i on, around the ring. *)
Slot(i, k) == IF i + k - 1 < BufferDim THEN i + k - 1
              ELSE i + k - 1 - BufferDim

(* The OP_EXITs put so far; the commands before them. *)
ExitsPut == exits + (IF main_op = Exit THEN MainAt({"post_read_sem"}) ELSE 0)
LastCommand == inserted - ExitsPut

(* The ring holds the commands in order, the OP_EXITs after all the others. *)
RingInv ==
  /\ buff_write_idx = Slot(buff_read_idx, inserted - fetched + 1)
  /\ \A k \in 1 .. inserted - fetched :
       /\ cmd_buffer[Slot(buff_read_idx, k)].id = fetched + k
       /\ cmd_buffer[Slot(buff_read_idx, k)].op = Exit <=>
            fetched + k > LastCommand

(* What a worker has copied is the next command; every command got is done or
   in the hands of a worker. *)
DoneInv ==
  /\ \A t \in Threads : pc[t] = "advance_read" =>
       /\ cmd[t].id = fetched + 1
       /\ cmd[t].op = Exit <=> fetched + 1 > LastCommand
  /\ \A t \in Threads : pc[t] \in RunLabels => cmd[t].id \in 1 .. fetched
  /\ done \subseteq 1 .. fetched
  /\ \A i \in 1 .. fetched :
       i \in done \/ \E t \in Threads : pc[t] \in RunLabels /\ cmd[t].id = i

(* Where main can be when it is ending the workers, and when it is not; how
   many OP_EXITs it has put; who has got one. *)
ExitHolders == {t \in Threads : /\ pc[t] \in RunLabels \cup {"returned"}
                                /\ cmd[t].op = Exit}
ExitInv ==
  /\ main_op = Exit => main_pc \in {"wait_write_sem", "put_cmd",
                                    "post_read_sem", "join", "ended"}
  /\ main_op # Exit => exits = 0 /\ main_pc \notin {"join", "ended"}
  /\ main_op = Exit =>
       IF main_pc \in {"join", "ended"} THEN exits = Cardinality(Threads)
       ELSE exits < Cardinality(Threads)
  /\ \A t \in Threads : pc[t] = "returned" => cmd[t].op = Exit
  /\ main_pc = "ended" => \A t \in Threads : pc[t] = "returned"
  /\ ExitsPut <= inserted
  /\ Cardinality(ExitHolders) =
       IF fetched > LastCommand THEN fetched - LastCommand ELSE 0

(* The counter, and that nothing is left once main has found it at 0. *)
PendingInv ==
  /\ main_op # Exit =>
       pending_requests =
         (inserted - fetched) + Counted
         - MainAt({"post_read_sem", "lock_pending", "increment"})
  /\ main_pc \in {"sim_unlock", "fork"} => pending_requests = 0
  /\ main_pc = "fork" => pending_ctrl = None

Inv == /\ TypeOK /\ MutexInv /\ CountInv /\ RingInv /\ DoneInv /\ ExitInv
       /\ PendingInv

----------------------------------------------------------------------------
(* Arithmetic of the ring. *)

LEMMA NextSlot ==
  ASSUME NEW i \in Slots
  PROVE  /\ NextIdx(i) \in Slots
         /\ NextIdx(i) = IF i + 1 = BufferDim THEN 0 ELSE i + 1
<1>1. CASE i + 1 = BufferDim
  BY <1>1, DimAssumption DEF NextIdx, Slots
<1>2. CASE i + 1 # BufferDim
  BY <1>2, DimAssumption DEF NextIdx, Slots
<1> QED
  BY <1>1, <1>2

LEMMA SlotModulo ==
  ASSUME NEW i \in Slots, NEW k \in 1 .. BufferDim
  PROVE  /\ Slot(i, k) \in Slots
         /\ (i + k - 1) % BufferDim = Slot(i, k)
<1>1. CASE i + k - 1 < BufferDim
  BY <1>1, DimAssumption DEF Slot, Slots
<1>2. CASE i + k - 1 >= BufferDim
  <2> DEFINE m == i + k - 1
  <2>1. m \in Int /\ m >= BufferDim /\ m < 2 * BufferDim
    BY <1>2, DimAssumption DEF Slots
  <2>2. m % BufferDim = m - BufferDim
    <3> HIDE DEF m
    <3> QED
      BY <2>1, DimAssumption
  <2> QED
    BY <1>2, <2>1, <2>2, DimAssumption DEF Slot, Slots
<1> QED
  BY <1>1, <1>2, DimAssumption DEF Slots

----------------------------------------------------------------------------
(* Counting the workers that are at some places. *)

LEMMA HoldingFinite ==
  ASSUME NEW S
  PROVE  IsFiniteSet(Holding(S)) /\ Cardinality(Holding(S)) \in Nat
  BY ThreadsAssumption, FS_Subset, FS_CardinalityType DEF Holding

In(label, S) == IF label \in S THEN 1 ELSE 0

(* A worker that moves counts at its new place and no more at its old one. *)
LEMMA HoldingMoves ==
  ASSUME TypeOK, NEW t \in Threads, NEW from, NEW to, Goto(t, from, to), NEW S
  PROVE  Cardinality(Holding(S)') =
           Cardinality(Holding(S)) + In(to, S) - In(from, S)
<1>1. IsFiniteSet(Holding(S)) /\ Cardinality(Holding(S)) \in Nat
  BY HoldingFinite
<1>2. \A u \in Threads : pc'[u] = IF u = t THEN to ELSE pc[u]
  BY DEF TypeOK, Goto
<1>3. t \in Holding(S) <=> from \in S
  BY DEF Holding, Goto
<1>4. CASE to \in S /\ from \notin S
  <2>1. Holding(S)' = Holding(S) \cup {t}
    BY <1>2, <1>4 DEF Holding
  <2>2. Cardinality(Holding(S) \cup {t}) = Cardinality(Holding(S)) + 1
    BY <1>1, <1>3, <1>4, FS_AddElement
  <2> QED
    BY <1>1, <1>4, <2>1, <2>2 DEF In
<1>5. CASE to \notin S /\ from \in S
  <2>1. Holding(S)' = Holding(S) \ {t}
    BY <1>2, <1>5 DEF Holding
  <2>2. Cardinality(Holding(S) \ {t}) = Cardinality(Holding(S)) - 1
    BY <1>1, <1>3, <1>5, FS_RemoveElement
  <2> QED
    BY <1>1, <1>5, <2>1, <2>2 DEF In
<1>6. CASE to \in S <=> from \in S
  <2>1. Holding(S)' = Holding(S)
    BY <1>2, <1>3, <1>6 DEF Holding
  <2> QED
    BY <1>1, <1>6, <2>1 DEF In
<1> QED
  BY <1>4, <1>5, <1>6

(* The three counts of the invariant after a worker's step. *)
LEMMA CountsMove ==
  ASSUME TypeOK, NEW t \in Threads, NEW from, NEW to, Goto(t, from, to)
  PROVE  /\ Fetching' = Fetching + In(to, FetchLabels) - In(from, FetchLabels)
         /\ Freeing' = Freeing + In(to, FreeLabels) - In(from, FreeLabels)
         /\ Counted' = Counted + In(to, CountedLabels) - In(from, CountedLabels)
  BY HoldingMoves DEF Fetching, Freeing, Counted

LEMMA CountsStay ==
  ASSUME pc' = pc
  PROVE  Fetching' = Fetching /\ Freeing' = Freeing /\ Counted' = Counted
  BY DEF Fetching, Freeing, Counted, Holding

LEMMA CountsNat ==
  /\ Fetching \in Nat /\ Freeing \in Nat /\ Counted \in Nat
  /\ \A t \in Threads :
       /\ pc[t] \in FetchLabels => Fetching > 0
       /\ pc[t] \in FreeLabels => Freeing > 0
       /\ pc[t] \in CountedLabels => Counted > 0
<1>1. ASSUME NEW S, NEW t \in Threads, pc[t] \in S
      PROVE  Cardinality(Holding(S)) > 0
  <2>1. t \in Holding(S)
    BY <1>1 DEF Holding
  <2> QED
    BY <2>1, HoldingFinite, FS_EmptySet
<1> QED
  BY <1>1, HoldingFinite DEF Fetching, Freeing, Counted

----------------------------------------------------------------------------
(* Types. *)

LEMMA InitTyped == Init => TypeOK
  BY ThreadsAssumption, DimAssumption
  DEF Init, InitWith, TypeOK, Slots, Command, NoCommand, WorkerLabels,
      MainLabels

LEMMA TypeStep == TypeOK /\ [Next]_vars => TypeOK'
<1> SUFFICES ASSUME TypeOK, [Next]_vars PROVE TypeOK'
  OBVIOUS
<1> USE DEF Goto, MainGoto, ringVars, semVars, pendingVars, mainVars, histVars,
           workerVars
<1>1. ASSUME NEW t \in Threads, WaitOnReadSem(t) PROVE TypeOK'
  BY <1>1 DEF WaitOnReadSem, TypeOK, WorkerLabels
<1>2. ASSUME NEW t \in Threads, LockCmdBuffer(t) PROVE TypeOK'
  BY <1>2 DEF LockCmdBuffer, TypeOK, WorkerLabels
<1>3. ASSUME NEW t \in Threads, CopyCmd(t) PROVE TypeOK'
  BY <1>3 DEF CopyCmd, TypeOK, WorkerLabels
<1>4. ASSUME NEW t \in Threads, AdvanceRead(t) PROVE TypeOK'
  BY <1>4, NextSlot DEF AdvanceRead, TypeOK, WorkerLabels
<1>5. ASSUME NEW t \in Threads, UnlockCmdBuffer(t) PROVE TypeOK'
  BY <1>5 DEF UnlockCmdBuffer, TypeOK, WorkerLabels
<1>6. ASSUME NEW t \in Threads, PostToWriteSem(t) PROVE TypeOK'
  BY <1>6 DEF PostToWriteSem, TypeOK, WorkerLabels
<1>7. ASSUME NEW t \in Threads, Execute(t) PROVE TypeOK'
  BY <1>7 DEF Execute, TypeOK, WorkerLabels, Command
<1>8. ASSUME NEW t \in Threads, ReturnFromThread(t) PROVE TypeOK'
  BY <1>8 DEF ReturnFromThread, TypeOK, WorkerLabels, Command
<1>9. ASSUME NEW t \in Threads, LockPending(t) PROVE TypeOK'
  BY <1>9 DEF LockPending, TypeOK, WorkerLabels
<1>10. ASSUME NEW t \in Threads, DecrementPending(t) PROVE TypeOK'
  BY <1>10
  DEF DecrementPending, SignalCondSimulate, SomePending, TypeOK, WorkerLabels,
      MainLabels
<1>11. ASSUME NEW t \in Threads, UnlockPending(t) PROVE TypeOK'
  BY <1>11 DEF UnlockPending, TypeOK, WorkerLabels
<1>12. ASSUME NEW t \in Threads, WriteToLog(t) PROVE TypeOK'
  BY <1>12 DEF WriteToLog, TypeOK, WorkerLabels
<1>13. ASSUME NEW op \in Ops, ReadCommand(op) PROVE TypeOK'
  BY <1>13 DEF ReadCommand, TypeOK, MainLabels
<1>14. CASE ReadSimulate
  BY <1>14 DEF ReadSimulate, TypeOK, MainLabels
<1>15. CASE ReadExit
  BY <1>15 DEF ReadExit, TypeOK, MainLabels
<1>16. CASE WaitOnWriteSem
  BY <1>16 DEF WaitOnWriteSem, TypeOK, MainLabels
<1>17. CASE PutCmd
  BY <1>17, NextSlot DEF PutCmd, TypeOK, MainLabels, Command
<1>18. CASE PostToReadSem
  BY <1>18 DEF PostToReadSem, TypeOK, MainLabels
<1>19. CASE MainLockPending
  BY <1>19 DEF MainLockPending, TypeOK, MainLabels
<1>20. CASE IncrementPending
  BY <1>20 DEF IncrementPending, TypeOK, MainLabels
<1>21. CASE MainUnlockPending
  BY <1>21 DEF MainUnlockPending, TypeOK, MainLabels
<1>22. CASE SimLock
  BY <1>22 DEF SimLock, TypeOK, MainLabels
<1>23. CASE SimTest
  BY <1>23 DEF SimTest, SomePending, TypeOK, MainLabels
<1>24. CASE SpuriousWakeup
  BY <1>24 DEF SpuriousWakeup, TypeOK, MainLabels
<1>25. CASE SimUnlock
  BY <1>25 DEF SimUnlock, TypeOK, MainLabels
<1>26. CASE Fork
  BY <1>26 DEF Fork, TypeOK, MainLabels
<1>27. CASE JoinThreads
  BY <1>27 DEF JoinThreads, TypeOK, MainLabels
<1>28. CASE UNCHANGED vars
  BY <1>28
  DEF vars, TypeOK
<1> QED
  BY <1>1, <1>2, <1>3, <1>4, <1>5, <1>6, <1>7, <1>8, <1>9, <1>10, <1>11,
      <1>12, <1>13, <1>14, <1>15, <1>16, <1>17, <1>18, <1>19, <1>20, <1>21,
      <1>22, <1>23, <1>24, <1>25, <1>26, <1>27, <1>28
  DEF Next, WorkerStep, MainStep, UserStep, Ended

(* Every variable keeps its type: the indices stay inside the ring, and the
   semaphores are never negative. *)
THEOREM PipelineTyped == Spec => []TypeOK
  BY InitTyped, TypeStep, PTL DEF Spec

----------------------------------------------------------------------------
(* The mutexes. *)

LEMMA InitMutexes == Init => MutexInv
  BY ThreadsAssumption DEF Init, InitWith, MutexInv

LEMMA MutexStep == TypeOK /\ MutexInv /\ [Next]_vars => MutexInv'
<1> SUFFICES ASSUME TypeOK, MutexInv, [Next]_vars PROVE MutexInv'
  OBVIOUS
<1> USE ThreadsAssumption DEF TypeOK, MutexInv
<1> USE DEF Goto, MainGoto, ringVars, semVars, pendingVars, mainVars, histVars,
           workerVars
<1>1. ASSUME NEW t \in Threads, WaitOnReadSem(t) PROVE MutexInv'
  BY <1>1 DEF WaitOnReadSem
<1>2. ASSUME NEW t \in Threads, LockCmdBuffer(t) PROVE MutexInv'
  BY <1>2 DEF LockCmdBuffer
<1>3. ASSUME NEW t \in Threads, CopyCmd(t) PROVE MutexInv'
  BY <1>3 DEF CopyCmd
<1>4. ASSUME NEW t \in Threads, AdvanceRead(t) PROVE MutexInv'
  BY <1>4 DEF AdvanceRead
<1>5. ASSUME NEW t \in Threads, UnlockCmdBuffer(t) PROVE MutexInv'
  BY <1>5 DEF UnlockCmdBuffer
<1>6. ASSUME NEW t \in Threads, PostToWriteSem(t) PROVE MutexInv'
  BY <1>6 DEF PostToWriteSem
<1>7. ASSUME NEW t \in Threads, Execute(t) PROVE MutexInv'
  BY <1>7 DEF Execute
<1>8. ASSUME NEW t \in Threads, ReturnFromThread(t) PROVE MutexInv'
  BY <1>8 DEF ReturnFromThread
<1>9. ASSUME NEW t \in Threads, LockPending(t) PROVE MutexInv'
  BY <1>9 DEF LockPending
<1>10. ASSUME NEW t \in Threads, DecrementPending(t) PROVE MutexInv'
  BY <1>10 DEF DecrementPending, SignalCondSimulate, SomePending
<1>11. ASSUME NEW t \in Threads, UnlockPending(t) PROVE MutexInv'
  BY <1>11 DEF UnlockPending
<1>12. ASSUME NEW t \in Threads, WriteToLog(t) PROVE MutexInv'
  BY <1>12 DEF WriteToLog
<1>13. ASSUME NEW op \in Ops, ReadCommand(op) PROVE MutexInv'
  BY <1>13 DEF ReadCommand
<1>14. CASE ReadSimulate
  BY <1>14 DEF ReadSimulate
<1>15. CASE ReadExit
  BY <1>15 DEF ReadExit
<1>16. CASE WaitOnWriteSem
  BY <1>16 DEF WaitOnWriteSem
<1>17. CASE PutCmd
  BY <1>17 DEF PutCmd
<1>18. CASE PostToReadSem
  BY <1>18 DEF PostToReadSem
<1>19. CASE MainLockPending
  BY <1>19 DEF MainLockPending
<1>20. CASE IncrementPending
  BY <1>20 DEF IncrementPending
<1>21. CASE MainUnlockPending
  BY <1>21 DEF MainUnlockPending
<1>22. CASE SimLock
  BY <1>22 DEF SimLock
<1>23. CASE SimTest
  BY <1>23 DEF SimTest, SomePending
<1>24. CASE SpuriousWakeup
  BY <1>24 DEF SpuriousWakeup
<1>25. CASE SimUnlock
  BY <1>25 DEF SimUnlock
<1>26. CASE Fork
  BY <1>26 DEF Fork
<1>27. CASE JoinThreads
  BY <1>27 DEF JoinThreads
<1>28. CASE UNCHANGED vars
  BY <1>28
  DEF vars
<1> QED
  BY <1>1, <1>2, <1>3, <1>4, <1>5, <1>6, <1>7, <1>8, <1>9, <1>10, <1>11,
      <1>12, <1>13, <1>14, <1>15, <1>16, <1>17, <1>18, <1>19, <1>20, <1>21,
      <1>22, <1>23, <1>24, <1>25, <1>26, <1>27, <1>28
  DEF Next, WorkerStep, MainStep, UserStep, Ended

----------------------------------------------------------------------------
(* The semaphores. *)

LEMMA InitCounts ==
  Init => CountInv /\ Fetching = 0 /\ Freeing = 0 /\ Counted = 0
<1> SUFFICES ASSUME Init
             PROVE  CountInv /\ Fetching = 0 /\ Freeing = 0 /\ Counted = 0
  OBVIOUS
<1>1. /\ Holding(FetchLabels) = {} /\ Holding(FreeLabels) = {}
      /\ Holding(CountedLabels) = {}
  BY DEF Init, InitWith, Holding, FetchLabels, FreeLabels, CountedLabels
<1>2. Fetching = 0 /\ Freeing = 0 /\ Counted = 0
  BY <1>1, FS_EmptySet DEF Fetching, Freeing, Counted
<1> QED
  BY <1>2, DimAssumption DEF Init, InitWith, CountInv, MainAt

LEMMA CountStep == TypeOK /\ CountInv /\ [Next]_vars => CountInv'
<1> SUFFICES ASSUME TypeOK, CountInv, [Next]_vars PROVE CountInv'
  OBVIOUS
<1> USE CountsNat, DimAssumption DEF TypeOK, CountInv, MainAt
<1> USE DEF Goto, MainGoto, ringVars, semVars, pendingVars, mainVars, histVars,
           workerVars
<1>1. ASSUME NEW t \in Threads, WaitOnReadSem(t) PROVE CountInv'
  <2>1. /\ Fetching' = Fetching + In("lock_buffer", FetchLabels)
                                  - In("wait_read_sem", FetchLabels)
        /\ Freeing' = Freeing + In("lock_buffer", FreeLabels)
                                - In("wait_read_sem", FreeLabels)
    BY <1>1, CountsMove DEF WaitOnReadSem
  <2> QED
    BY <1>1, <2>1
    DEF WaitOnReadSem, In, FetchLabels, FreeLabels
<1>2. ASSUME NEW t \in Threads, LockCmdBuffer(t) PROVE CountInv'
  <2>1. /\ Fetching' = Fetching + In("copy_cmd", FetchLabels)
                                  - In("lock_buffer", FetchLabels)
        /\ Freeing' = Freeing + In("copy_cmd", FreeLabels)
                                - In("lock_buffer", FreeLabels)
    BY <1>2, CountsMove DEF LockCmdBuffer
  <2> QED
    BY <1>2, <2>1
    DEF LockCmdBuffer, In, FetchLabels, FreeLabels
<1>3. ASSUME NEW t \in Threads, CopyCmd(t) PROVE CountInv'
  <2>1. /\ Fetching' = Fetching + In("advance_read", FetchLabels)
                                  - In("copy_cmd", FetchLabels)
        /\ Freeing' = Freeing + In("advance_read", FreeLabels)
                                - In("copy_cmd", FreeLabels)
    BY <1>3, CountsMove DEF CopyCmd
  <2> QED
    BY <1>3, <2>1
    DEF CopyCmd, In, FetchLabels, FreeLabels
<1>4. ASSUME NEW t \in Threads, AdvanceRead(t) PROVE CountInv'
  <2>1. /\ Fetching' = Fetching + In("unlock_buffer", FetchLabels)
                                  - In("advance_read", FetchLabels)
        /\ Freeing' = Freeing + In("unlock_buffer", FreeLabels)
                                - In("advance_read", FreeLabels)
    BY <1>4, CountsMove DEF AdvanceRead
  <2> QED
    BY <1>4, <2>1
    DEF AdvanceRead, In, FetchLabels, FreeLabels
<1>5. ASSUME NEW t \in Threads, UnlockCmdBuffer(t) PROVE CountInv'
  <2>1. /\ Fetching' = Fetching + In("post_write_sem", FetchLabels)
                                  - In("unlock_buffer", FetchLabels)
        /\ Freeing' = Freeing + In("post_write_sem", FreeLabels)
                                - In("unlock_buffer", FreeLabels)
    BY <1>5, CountsMove DEF UnlockCmdBuffer
  <2> QED
    BY <1>5, <2>1
    DEF UnlockCmdBuffer, In, FetchLabels, FreeLabels
<1>6. ASSUME NEW t \in Threads, PostToWriteSem(t) PROVE CountInv'
  <2>1. /\ Fetching' = Fetching + In("execute", FetchLabels)
                                  - In("post_write_sem", FetchLabels)
        /\ Freeing' = Freeing + In("execute", FreeLabels)
                                - In("post_write_sem", FreeLabels)
    BY <1>6, CountsMove DEF PostToWriteSem
  <2> QED
    BY <1>6, <2>1
    DEF PostToWriteSem, In, FetchLabels, FreeLabels
<1>7. ASSUME NEW t \in Threads, Execute(t) PROVE CountInv'
  <2>1. /\ Fetching' = Fetching + In("lock_pending", FetchLabels)
                                  - In("execute", FetchLabels)
        /\ Freeing' = Freeing + In("lock_pending", FreeLabels)
                                - In("execute", FreeLabels)
    BY <1>7, CountsMove DEF Execute
  <2> QED
    BY <1>7, <2>1
    DEF Execute, In, FetchLabels, FreeLabels
<1>8. ASSUME NEW t \in Threads, ReturnFromThread(t) PROVE CountInv'
  <2>1. /\ Fetching' = Fetching + In("returned", FetchLabels)
                                  - In("execute", FetchLabels)
        /\ Freeing' = Freeing + In("returned", FreeLabels)
                                - In("execute", FreeLabels)
    BY <1>8, CountsMove DEF ReturnFromThread
  <2> QED
    BY <1>8, <2>1
    DEF ReturnFromThread, In, FetchLabels, FreeLabels
<1>9. ASSUME NEW t \in Threads, LockPending(t) PROVE CountInv'
  <2>1. /\ Fetching' = Fetching + In("decrement", FetchLabels)
                                  - In("lock_pending", FetchLabels)
        /\ Freeing' = Freeing + In("decrement", FreeLabels)
                                - In("lock_pending", FreeLabels)
    BY <1>9, CountsMove DEF LockPending
  <2> QED
    BY <1>9, <2>1
    DEF LockPending, In, FetchLabels, FreeLabels
<1>10. ASSUME NEW t \in Threads, DecrementPending(t) PROVE CountInv'
  <2>1. /\ Fetching' = Fetching + In("unlock_pending", FetchLabels)
                                  - In("decrement", FetchLabels)
        /\ Freeing' = Freeing + In("unlock_pending", FreeLabels)
                                - In("decrement", FreeLabels)
    BY <1>10, CountsMove DEF DecrementPending
  <2> QED
    BY <1>10, <2>1
    DEF DecrementPending, SignalCondSimulate, SomePending, In, FetchLabels,
        FreeLabels
<1>11. ASSUME NEW t \in Threads, UnlockPending(t) PROVE CountInv'
  <2>1. /\ Fetching' = Fetching + In("log", FetchLabels)
                                  - In("unlock_pending", FetchLabels)
        /\ Freeing' = Freeing + In("log", FreeLabels)
                                - In("unlock_pending", FreeLabels)
    BY <1>11, CountsMove DEF UnlockPending
  <2> QED
    BY <1>11, <2>1
    DEF UnlockPending, In, FetchLabels, FreeLabels
<1>12. ASSUME NEW t \in Threads, WriteToLog(t) PROVE CountInv'
  <2>1. /\ Fetching' = Fetching + In("wait_read_sem", FetchLabels)
                                  - In("log", FetchLabels)
        /\ Freeing' = Freeing + In("wait_read_sem", FreeLabels)
                                - In("log", FreeLabels)
    BY <1>12, CountsMove DEF WriteToLog
  <2> QED
    BY <1>12, <2>1
    DEF WriteToLog, In, FetchLabels, FreeLabels
<1>13. ASSUME NEW op \in Ops, ReadCommand(op) PROVE CountInv'
  BY <1>13, CountsStay DEF ReadCommand
<1>14. CASE ReadSimulate
  BY <1>14, CountsStay DEF ReadSimulate
<1>15. CASE ReadExit
  BY <1>15, CountsStay DEF ReadExit
<1>16. CASE WaitOnWriteSem
  BY <1>16, CountsStay DEF WaitOnWriteSem
<1>17. CASE PutCmd
  BY <1>17, CountsStay DEF PutCmd
<1>18. CASE PostToReadSem
  BY <1>18, CountsStay DEF PostToReadSem
<1>19. CASE MainLockPending
  BY <1>19, CountsStay DEF MainLockPending
<1>20. CASE IncrementPending
  BY <1>20, CountsStay DEF IncrementPending
<1>21. CASE MainUnlockPending
  BY <1>21, CountsStay DEF MainUnlockPending
<1>22. CASE SimLock
  BY <1>22, CountsStay DEF SimLock
<1>23. CASE SimTest
  BY <1>23, CountsStay DEF SimTest, SomePending
<1>24. CASE SpuriousWakeup
  BY <1>24, CountsStay DEF SpuriousWakeup
<1>25. CASE SimUnlock
  BY <1>25, CountsStay DEF SimUnlock
<1>26. CASE Fork
  BY <1>26, CountsStay DEF Fork
<1>27. CASE JoinThreads
  BY <1>27, CountsStay DEF JoinThreads
<1>28. CASE UNCHANGED vars
  BY <1>28, CountsStay
  DEF vars
<1> QED
  BY <1>1, <1>2, <1>3, <1>4, <1>5, <1>6, <1>7, <1>8, <1>9, <1>10, <1>11,
      <1>12, <1>13, <1>14, <1>15, <1>16, <1>17, <1>18, <1>19, <1>20, <1>21,
      <1>22, <1>23, <1>24, <1>25, <1>26, <1>27, <1>28
  DEF Next, WorkerStep, MainStep, UserStep, Ended

----------------------------------------------------------------------------
(* The ring. *)

(* Between 0 and BufferDim commands wait in it. *)
LEMMA WaitingBounds ==
  ASSUME TypeOK, CountInv
  PROVE  /\ inserted - fetched \in 0 .. BufferDim
         /\ \A t \in Threads : pc[t] \in FetchLabels => inserted > fetched
         /\ main_pc = "put_cmd" => inserted - fetched < BufferDim
         /\ main_pc = "post_read_sem" => inserted > fetched
  BY CountsNat, DimAssumption DEF TypeOK, CountInv, MainAt

LEMMA InitRing == Init => RingInv
  BY DimAssumption DEF Init, InitWith, RingInv, Slot

(* Only put_cmd writes the ring, and only get_cmd reads on; no other step
   makes a command come before the OP_EXITs. *)
RingStays ==
  /\ ExitsPut' = ExitsPut /\ LastCommand' = LastCommand
  /\ UNCHANGED <<cmd_buffer, buff_write_idx, inserted>>
  /\ UNCHANGED <<buff_read_idx, fetched>> \/ \E t \in Threads : AdvanceRead(t)

LEMMA RingSteps == TypeOK /\ [Next]_vars => PutCmd \/ RingStays
<1> SUFFICES ASSUME TypeOK, [Next]_vars, ~PutCmd PROVE RingStays
  OBVIOUS
<1> USE DEF RingStays, LastCommand, ExitsPut, MainAt
<1> USE DEF Goto, MainGoto, ringVars, semVars, pendingVars, mainVars, histVars,
           workerVars
<1>1. ASSUME NEW t \in Threads, WaitOnReadSem(t) PROVE RingStays
  BY <1>1 DEF WaitOnReadSem
<1>2. ASSUME NEW t \in Threads, LockCmdBuffer(t) PROVE RingStays
  BY <1>2 DEF LockCmdBuffer
<1>3. ASSUME NEW t \in Threads, CopyCmd(t) PROVE RingStays
  BY <1>3 DEF CopyCmd
<1>4. ASSUME NEW t \in Threads, AdvanceRead(t) PROVE RingStays
  BY <1>4 DEF AdvanceRead
<1>5. ASSUME NEW t \in Threads, UnlockCmdBuffer(t) PROVE RingStays
  BY <1>5 DEF UnlockCmdBuffer
<1>6. ASSUME NEW t \in Threads, PostToWriteSem(t) PROVE RingStays
  BY <1>6 DEF PostToWriteSem
<1>7. ASSUME NEW t \in Threads, Execute(t) PROVE RingStays
  BY <1>7 DEF Execute
<1>8. ASSUME NEW t \in Threads, ReturnFromThread(t) PROVE RingStays
  BY <1>8 DEF ReturnFromThread
<1>9. ASSUME NEW t \in Threads, LockPending(t) PROVE RingStays
  BY <1>9 DEF LockPending
<1>10. ASSUME NEW t \in Threads, DecrementPending(t) PROVE RingStays
  BY <1>10 DEF DecrementPending, SignalCondSimulate, SomePending
<1>11. ASSUME NEW t \in Threads, UnlockPending(t) PROVE RingStays
  BY <1>11 DEF UnlockPending
<1>12. ASSUME NEW t \in Threads, WriteToLog(t) PROVE RingStays
  BY <1>12 DEF WriteToLog
<1>13. ASSUME NEW op \in Ops, ReadCommand(op) PROVE RingStays
  BY <1>13 DEF ReadCommand
<1>14. CASE ReadSimulate
  BY <1>14 DEF ReadSimulate
<1>15. CASE ReadExit
  BY <1>15 DEF ReadExit
<1>16. CASE WaitOnWriteSem
  BY <1>16 DEF WaitOnWriteSem
<1>17. CASE PutCmd
  BY <1>17
<1>18. CASE PostToReadSem
  BY <1>18 DEF PostToReadSem, TypeOK
<1>19. CASE MainLockPending
  BY <1>19 DEF MainLockPending
<1>20. CASE IncrementPending
  BY <1>20 DEF IncrementPending
<1>21. CASE MainUnlockPending
  BY <1>21 DEF MainUnlockPending
<1>22. CASE SimLock
  BY <1>22 DEF SimLock
<1>23. CASE SimTest
  BY <1>23 DEF SimTest, SomePending
<1>24. CASE SpuriousWakeup
  BY <1>24 DEF SpuriousWakeup
<1>25. CASE SimUnlock
  BY <1>25 DEF SimUnlock
<1>26. CASE Fork
  BY <1>26 DEF Fork
<1>27. CASE JoinThreads
  BY <1>27 DEF JoinThreads
<1>28. CASE UNCHANGED vars
  BY <1>28
  DEF vars
<1> QED
  BY <1>1, <1>2, <1>3, <1>4, <1>5, <1>6, <1>7, <1>8, <1>9, <1>10, <1>11,
      <1>12, <1>13, <1>14, <1>15, <1>16, <1>17, <1>18, <1>19, <1>20, <1>21,
      <1>22, <1>23, <1>24, <1>25, <1>26, <1>27, <1>28
  DEF Next, WorkerStep, MainStep, UserStep, Ended

(* What put_cmd does to the place of the OP_EXITs. *)
LEMMA PutLast ==
  ASSUME TypeOK, ExitInv, PutCmd
  PROVE  /\ inserted' = inserted + 1 /\ fetched' = fetched
         /\ IF main_op = Exit THEN LastCommand' = LastCommand
            ELSE LastCommand' = inserted + 1 /\ LastCommand = inserted
  BY DEF TypeOK, ExitInv, PutCmd, MainGoto, LastCommand, ExitsPut, MainAt

LEMMA LastBounds ==
  ASSUME TypeOK, ExitInv
  PROVE  LastCommand \in Nat /\ LastCommand <= inserted
  BY DEF TypeOK, ExitInv, LastCommand, ExitsPut, MainAt

LEMMA RingStep ==
  TypeOK /\ CountInv /\ RingInv /\ ExitInv /\ [Next]_vars => RingInv'
<1> SUFFICES ASSUME TypeOK, CountInv, RingInv, ExitInv, [Next]_vars
             PROVE  RingInv'
  OBVIOUS
<1> DEFINE n == inserted - fetched
<1>1. n \in 0 .. BufferDim /\ inserted \in Nat /\ fetched \in Nat
  BY WaitingBounds DEF TypeOK
<1>2. buff_read_idx \in Slots /\ buff_write_idx \in Slots
  BY DEF TypeOK
<1>3. CASE PutCmd
  <2>1. n < BufferDim /\ buff_write_idx = Slot(buff_read_idx, n + 1)
    BY <1>3, WaitingBounds DEF PutCmd, MainGoto, RingInv
  <2>2. /\ cmd_buffer' = [cmd_buffer EXCEPT ![buff_write_idx] =
                            [op |-> main_op, id |-> inserted + 1]]
        /\ buff_write_idx' = NextIdx(buff_write_idx)
        /\ buff_read_idx' = buff_read_idx /\ inserted' = inserted + 1
        /\ fetched' = fetched
    BY <1>3 DEF PutCmd
  <2>3. buff_write_idx' = Slot(buff_read_idx', inserted' - fetched' + 1)
    BY <1>1, <1>2, <2>1, <2>2, NextSlot, DimAssumption DEF Slot, Slots
  <2>4. /\ cmd_buffer'[buff_write_idx].op = main_op
        /\ cmd_buffer'[buff_write_idx].id = inserted + 1
        /\ \A k \in 1 .. n : cmd_buffer'[Slot(buff_read_idx, k)] =
                              cmd_buffer[Slot(buff_read_idx, k)]
    <3>1. \A k \in 1 .. n : Slot(buff_read_idx, k) # buff_write_idx
      BY <1>1, <1>2, <2>1, DimAssumption DEF Slot, Slots
    <3>2. \A k \in 1 .. n : Slot(buff_read_idx, k) \in Slots
      BY <1>1, <1>2, SlotModulo, DimAssumption
    <3> QED
      BY <1>2, <2>2, <3>1, <3>2 DEF TypeOK
  <2>5. \A k \in 1 .. n : cmd_buffer[Slot(buff_read_idx, k)].op = Exit <=>
                           fetched + k > LastCommand'
    <3>1. CASE main_op = Exit
      BY <1>3, <3>1, PutLast DEF RingInv
    <3>2. CASE main_op # Exit
      BY <1>1, <1>3, <3>2, PutLast DEF RingInv
    <3> QED
      BY <3>1, <3>2
  <2>6. main_op = Exit <=> inserted + 1 > LastCommand'
    BY <1>1, <1>3, PutLast, LastBounds
  <2>7. ASSUME NEW k \in 1 .. inserted' - fetched'
        PROVE  /\ cmd_buffer'[Slot(buff_read_idx', k)].id = fetched' + k
               /\ cmd_buffer'[Slot(buff_read_idx', k)].op = Exit <=>
                    fetched' + k > LastCommand'
    <3>1. CASE k = n + 1
      BY <1>1, <2>1, <2>2, <2>4, <2>6, <3>1
    <3>2. CASE k # n + 1
      <4>1. k \in 1 .. n
        BY <1>1, <2>2, <3>2
      <4> QED
        BY <1>1, <2>2, <2>4, <2>5, <4>1 DEF RingInv
    <3> QED
      BY <3>1, <3>2
  <2> QED
    BY <2>3, <2>7 DEF RingInv
<1>4. CASE RingStays /\ UNCHANGED <<buff_read_idx, fetched>>
  BY <1>4 DEF RingStays, RingInv
<1>5. ASSUME RingStays, NEW t \in Threads, AdvanceRead(t) PROVE RingInv'
  <2>1. /\ buff_read_idx' = NextIdx(buff_read_idx) /\ fetched' = fetched + 1
        /\ cmd_buffer' = cmd_buffer /\ buff_write_idx' = buff_write_idx
        /\ inserted' = inserted /\ LastCommand' = LastCommand
    BY <1>5 DEF AdvanceRead, RingStays
  <2>2. n >= 1
    BY <1>1, <1>5, WaitingBounds DEF AdvanceRead, Goto, FetchLabels
  <2>3. \A k \in 1 .. n : Slot(buff_read_idx', k) = Slot(buff_read_idx, k + 1)
    BY <1>1, <1>2, <2>1, NextSlot, DimAssumption DEF Slot, Slots
  <2>4. buff_write_idx' = Slot(buff_read_idx', inserted' - fetched' + 1)
    BY <1>1, <2>1, <2>2, <2>3 DEF RingInv
  <2>5. ASSUME NEW k \in 1 .. inserted' - fetched'
        PROVE  /\ cmd_buffer'[Slot(buff_read_idx', k)].id = fetched' + k
               /\ cmd_buffer'[Slot(buff_read_idx', k)].op = Exit <=>
                    fetched' + k > LastCommand'
    <3>1. k + 1 \in 1 .. n /\ k \in 1 .. n /\ k \in Nat
      BY <1>1, <2>1
    <3>2. fetched + (k + 1) = fetched' + k
      BY <1>1, <2>1, <3>1
    <3> QED
      BY <2>1, <2>3, <3>1, <3>2 DEF RingInv
  <2> QED
    BY <2>4, <2>5 DEF RingInv
<1> QED
  BY <1>3, <1>4, <1>5, RingSteps DEF RingStays

----------------------------------------------------------------------------
(* What the workers have got and done. *)

LEMMA InitDone == Init => DoneInv
  BY DEF Init, InitWith, DoneInv, RunLabels

LEMMA DoneStep ==
  /\ TypeOK /\ MutexInv /\ CountInv /\ RingInv /\ DoneInv /\ ExitInv
  /\ [Next]_vars
  => DoneInv'
<1> SUFFICES ASSUME TypeOK, MutexInv, CountInv, RingInv, DoneInv, ExitInv,
                    [Next]_vars
             PROVE  DoneInv'
  OBVIOUS
<1>a. /\ inserted \in Nat /\ fetched \in Nat /\ done \in SUBSET Nat
      /\ pc \in [Threads -> WorkerLabels] /\ cmd \in [Threads -> Command]
  BY DEF TypeOK
<1>b. \A t \in Threads : cmd[t].id \in Nat
  BY <1>a DEF Command
<1>c. PutCmd \/ LastCommand' = LastCommand
  BY RingSteps DEF RingStays
<1> USE DEF Goto, MainGoto, ringVars, semVars, pendingVars, mainVars, histVars,
           workerVars
<1>1. ASSUME NEW t \in Threads, WaitOnReadSem(t), LastCommand' = LastCommand
      PROVE  DoneInv'
  BY <1>1, <1>a DEF WaitOnReadSem, DoneInv, RunLabels
<1>2. ASSUME NEW t \in Threads, LockCmdBuffer(t), LastCommand' = LastCommand
      PROVE  DoneInv'
  BY <1>2, <1>a DEF LockCmdBuffer, DoneInv, RunLabels
<1>3. ASSUME NEW t \in Threads, CopyCmd(t), LastCommand' = LastCommand
      PROVE  DoneInv'
  <2>1. inserted > fetched
    BY <1>3, WaitingBounds DEF CopyCmd, Goto, FetchLabels
  <2>2. Slot(buff_read_idx, 1) = buff_read_idx
    BY DimAssumption DEF Slot, Slots, TypeOK
  <2>3. /\ cmd_buffer[buff_read_idx].id = fetched + 1
        /\ cmd_buffer[buff_read_idx].op = Exit <=> fetched + 1 > LastCommand
    BY <1>a, <2>1, <2>2 DEF RingInv
  <2> QED
    BY <1>3, <1>a, <2>3 DEF CopyCmd, Goto, histVars, DoneInv, RunLabels
<1>4. ASSUME NEW t \in Threads, AdvanceRead(t), LastCommand' = LastCommand
      PROVE  DoneInv'
  <2>1. /\ cmd[t].id = fetched + 1 /\ fetched' = fetched + 1
        /\ done' = done /\ cmd' = cmd
        /\ pc' = [pc EXCEPT ![t] = "unlock_buffer"] /\ pc[t] = "advance_read"
    BY <1>4 DEF AdvanceRead, Goto, DoneInv
  <2>2. \A u \in Threads : pc'[u] # "advance_read"
    BY <1>a, <2>1, ThreadsAssumption DEF MutexInv
  <2>3. \A u \in Threads : pc'[u] \in RunLabels =>
          u = t \/ pc[u] \in RunLabels
    BY <1>a, <2>1
  <2>4. \A u \in Threads : pc'[u] \in RunLabels => cmd'[u].id \in 1 .. fetched'
    BY <1>a, <2>1, <2>3 DEF DoneInv
  <2>5. ASSUME NEW i \in 1 .. fetched'
        PROVE  i \in done' \/ \E u \in Threads : pc'[u] \in RunLabels
                                               /\ cmd'[u].id = i
    <3>1. CASE i = fetched + 1
      BY <1>a, <2>1, <3>1 DEF RunLabels
    <3>2. CASE i # fetched + 1
      <4>1. i \in 1 .. fetched
        BY <1>a, <2>1, <3>2
      <4>2. CASE i \in done
        BY <2>1, <4>2
      <4>3. ASSUME NEW u \in Threads, pc[u] \in RunLabels, cmd[u].id = i
            PROVE  pc'[u] \in RunLabels /\ cmd'[u].id = i
        BY <1>a, <2>1, <4>3 DEF RunLabels
      <4> QED
        BY <4>1, <4>2, <4>3 DEF DoneInv
    <3> QED
      BY <3>1, <3>2
  <2>6. done' \subseteq 1 .. fetched'
    BY <1>a, <2>1 DEF DoneInv
  <2> QED
    BY <2>2, <2>4, <2>5, <2>6 DEF DoneInv
<1>5. ASSUME NEW t \in Threads, UnlockCmdBuffer(t), LastCommand' = LastCommand
      PROVE  DoneInv'
  BY <1>5, <1>a DEF UnlockCmdBuffer, DoneInv, RunLabels
<1>6. ASSUME NEW t \in Threads, PostToWriteSem(t), LastCommand' = LastCommand
      PROVE  DoneInv'
  BY <1>6, <1>a DEF PostToWriteSem, DoneInv, RunLabels
<1>7. ASSUME NEW t \in Threads, Execute(t), LastCommand' = LastCommand
      PROVE  DoneInv'
  BY <1>7, <1>a, <1>b DEF Execute, DoneInv, RunLabels
<1>8. ASSUME NEW t \in Threads, ReturnFromThread(t), LastCommand' = LastCommand
      PROVE  DoneInv'
  BY <1>8, <1>a, <1>b DEF ReturnFromThread, DoneInv, RunLabels
<1>9. ASSUME NEW t \in Threads, LockPending(t), LastCommand' = LastCommand
      PROVE  DoneInv'
  BY <1>9, <1>a DEF LockPending, DoneInv, RunLabels
<1>10. ASSUME NEW t \in Threads, DecrementPending(t), LastCommand' = LastCommand
       PROVE  DoneInv'
  BY <1>10, <1>a DEF DecrementPending, DoneInv, RunLabels
<1>11. ASSUME NEW t \in Threads, UnlockPending(t), LastCommand' = LastCommand
       PROVE  DoneInv'
  BY <1>11, <1>a DEF UnlockPending, DoneInv, RunLabels
<1>12. ASSUME NEW t \in Threads, WriteToLog(t), LastCommand' = LastCommand
       PROVE  DoneInv'
  BY <1>12, <1>a DEF WriteToLog, DoneInv, RunLabels
<1>13. ASSUME NEW op \in Ops, ReadCommand(op), LastCommand' = LastCommand
       PROVE  DoneInv'
  BY <1>13 DEF ReadCommand, DoneInv
<1>14. ASSUME ReadSimulate, LastCommand' = LastCommand PROVE DoneInv'
  BY <1>14 DEF ReadSimulate, DoneInv
<1>15. ASSUME ReadExit, LastCommand' = LastCommand PROVE DoneInv'
  BY <1>15 DEF ReadExit, DoneInv
<1>16. ASSUME WaitOnWriteSem, LastCommand' = LastCommand PROVE DoneInv'
  BY <1>16 DEF WaitOnWriteSem, DoneInv
<1>17. CASE PutCmd
  <2>1. \A t \in Threads : pc[t] = "advance_read" => fetched + 1 <= inserted
    BY <1>a, WaitingBounds DEF FetchLabels
  <2>2. \A t \in Threads : pc[t] = "advance_read" =>
          (cmd[t].op = Exit <=> fetched + 1 > LastCommand')
    BY <1>17, <1>a, <2>1, PutLast DEF DoneInv
  <2>3. UNCHANGED <<pc, cmd, fetched, done>>
    BY <1>17 DEF PutCmd, workerVars
  <2> QED
    BY <2>2, <2>3 DEF DoneInv
<1>18. ASSUME PostToReadSem, LastCommand' = LastCommand PROVE DoneInv'
  BY <1>18 DEF PostToReadSem, DoneInv
<1>19. ASSUME MainLockPending, LastCommand' = LastCommand PROVE DoneInv'
  BY <1>19 DEF MainLockPending, DoneInv
<1>20. ASSUME IncrementPending, LastCommand' = LastCommand PROVE DoneInv'
  BY <1>20 DEF IncrementPending, DoneInv
<1>21. ASSUME MainUnlockPending, LastCommand' = LastCommand PROVE DoneInv'
  BY <1>21 DEF MainUnlockPending, DoneInv
<1>22. ASSUME SimLock, LastCommand' = LastCommand PROVE DoneInv'
  BY <1>22 DEF SimLock, DoneInv
<1>23. ASSUME SimTest, LastCommand' = LastCommand PROVE DoneInv'
  BY <1>23 DEF SimTest, DoneInv
<1>24. ASSUME SpuriousWakeup, LastCommand' = LastCommand PROVE DoneInv'
  BY <1>24 DEF SpuriousWakeup, DoneInv
<1>25. ASSUME SimUnlock, LastCommand' = LastCommand PROVE DoneInv'
  BY <1>25 DEF SimUnlock, DoneInv
<1>26. ASSUME Fork, LastCommand' = LastCommand PROVE DoneInv'
  BY <1>26 DEF Fork, DoneInv
<1>27. ASSUME JoinThreads, LastCommand' = LastCommand PROVE DoneInv'
  BY <1>27 DEF JoinThreads, DoneInv
<1>28. ASSUME UNCHANGED vars, LastCommand' = LastCommand PROVE DoneInv'
  BY <1>28 DEF vars, DoneInv
<1> QED
  BY <1>1, <1>2, <1>3, <1>4, <1>5, <1>6, <1>7, <1>8, <1>9, <1>10, <1>11,
      <1>12, <1>13, <1>14, <1>15, <1>16, <1>17, <1>18, <1>19, <1>20, <1>21,
      <1>22, <1>23, <1>24, <1>25, <1>26, <1>27, <1>28, <1>c
  DEF Next, WorkerStep, MainStep, UserStep, Ended

----------------------------------------------------------------------------
(* The end: who has got an OP_EXIT. *)

(* The conjuncts of ExitInv about main's place, and about the holders. *)
MainExitInv ==
  /\ main_op = Exit => main_pc \in {"wait_write_sem", "put_cmd",
                                    "post_read_sem", "join", "ended"}
  /\ main_op # Exit => exits = 0 /\ main_pc \notin {"join", "ended"}
  /\ main_op = Exit =>
       IF main_pc \in {"join", "ended"} THEN exits = Cardinality(Threads)
       ELSE exits < Cardinality(Threads)
  /\ \A t \in Threads : pc[t] = "returned" => cmd[t].op = Exit
  /\ main_pc = "ended" => \A t \in Threads : pc[t] = "returned"
HoldersInv ==
  Cardinality(ExitHolders) =
    IF fetched > LastCommand THEN fetched - LastCommand ELSE 0

LEMMA ExitInvParts ==
  ExitInv <=> MainExitInv /\ ExitsPut <= inserted /\ HoldersInv
  BY DEF ExitInv, MainExitInv, HoldersInv

LEMMA ThreadsCount == Cardinality(Threads) \in Nat /\ Cardinality(Threads) > 0
  BY ThreadsAssumption, FS_CardinalityType, FS_EmptySet

LEMMA InitExits == Init => ExitInv
<1> SUFFICES ASSUME Init PROVE ExitInv
  OBVIOUS
<1>1. ExitHolders = {}
  BY DEF Init, InitWith, ExitHolders, RunLabels
<1>2. Cardinality(ExitHolders) = 0
  BY <1>1, FS_EmptySet
<1> QED
  BY <1>2, OpsAssumption, ThreadsCount
  DEF Init, InitWith, ExitInv, ExitsPut, LastCommand, MainAt

LEMMA MainExitStep == TypeOK /\ MainExitInv /\ [Next]_vars => MainExitInv'
<1> SUFFICES ASSUME TypeOK, MainExitInv, [Next]_vars PROVE MainExitInv'
  OBVIOUS
<1> USE ThreadsCount, OpsAssumption DEF MainExitInv, TypeOK
<1> USE DEF Goto, MainGoto, ringVars, semVars, pendingVars, mainVars, histVars,
           workerVars
<1>1. ASSUME NEW t \in Threads, WaitOnReadSem(t) PROVE MainExitInv'
  BY <1>1 DEF WaitOnReadSem
<1>2. ASSUME NEW t \in Threads, LockCmdBuffer(t) PROVE MainExitInv'
  BY <1>2 DEF LockCmdBuffer
<1>3. ASSUME NEW t \in Threads, CopyCmd(t) PROVE MainExitInv'
  BY <1>3 DEF CopyCmd
<1>4. ASSUME NEW t \in Threads, AdvanceRead(t) PROVE MainExitInv'
  BY <1>4 DEF AdvanceRead
<1>5. ASSUME NEW t \in Threads, UnlockCmdBuffer(t) PROVE MainExitInv'
  BY <1>5 DEF UnlockCmdBuffer
<1>6. ASSUME NEW t \in Threads, PostToWriteSem(t) PROVE MainExitInv'
  BY <1>6 DEF PostToWriteSem
<1>7. ASSUME NEW t \in Threads, Execute(t) PROVE MainExitInv'
  BY <1>7 DEF Execute
<1>8. ASSUME NEW t \in Threads, ReturnFromThread(t) PROVE MainExitInv'
  BY <1>8 DEF ReturnFromThread
<1>9. ASSUME NEW t \in Threads, LockPending(t) PROVE MainExitInv'
  BY <1>9 DEF LockPending
<1>10. ASSUME NEW t \in Threads, DecrementPending(t) PROVE MainExitInv'
  BY <1>10 DEF DecrementPending, SignalCondSimulate, SomePending
<1>11. ASSUME NEW t \in Threads, UnlockPending(t) PROVE MainExitInv'
  BY <1>11 DEF UnlockPending
<1>12. ASSUME NEW t \in Threads, WriteToLog(t) PROVE MainExitInv'
  BY <1>12 DEF WriteToLog
<1>13. ASSUME NEW op \in Ops, ReadCommand(op) PROVE MainExitInv'
  BY <1>13 DEF ReadCommand
<1>14. CASE ReadSimulate
  BY <1>14 DEF ReadSimulate
<1>15. CASE ReadExit
  BY <1>15 DEF ReadExit
<1>16. CASE WaitOnWriteSem
  BY <1>16 DEF WaitOnWriteSem
<1>17. CASE PutCmd
  BY <1>17 DEF PutCmd
<1>18. CASE PostToReadSem
  BY <1>18 DEF PostToReadSem, ExitsLeft
<1>19. CASE MainLockPending
  BY <1>19 DEF MainLockPending
<1>20. CASE IncrementPending
  BY <1>20 DEF IncrementPending
<1>21. CASE MainUnlockPending
  BY <1>21 DEF MainUnlockPending
<1>22. CASE SimLock
  BY <1>22 DEF SimLock
<1>23. CASE SimTest
  BY <1>23 DEF SimTest, SomePending
<1>24. CASE SpuriousWakeup
  BY <1>24 DEF SpuriousWakeup
<1>25. CASE SimUnlock
  BY <1>25 DEF SimUnlock
<1>26. CASE Fork
  BY <1>26 DEF Fork
<1>27. CASE JoinThreads
  BY <1>27 DEF JoinThreads
<1>28. CASE UNCHANGED vars
  BY <1>28
  DEF vars
<1> QED
  BY <1>1, <1>2, <1>3, <1>4, <1>5, <1>6, <1>7, <1>8, <1>9, <1>10, <1>11,
      <1>12, <1>13, <1>14, <1>15, <1>16, <1>17, <1>18, <1>19, <1>20, <1>21,
      <1>22, <1>23, <1>24, <1>25, <1>26, <1>27, <1>28
  DEF Next, WorkerStep, MainStep, UserStep, Ended

(* A worker gets an OP_EXIT with AdvanceRead and keeps it. *)
LEMMA HoldersStay ==
  TypeOK /\ [Next]_vars =>
    ExitHolders' = ExitHolders \/ \E t \in Threads : AdvanceRead(t)
<1> SUFFICES ASSUME TypeOK, [Next]_vars, \A t \in Threads : ~AdvanceRead(t)
             PROVE  ExitHolders' = ExitHolders
  OBVIOUS
<1> USE OpsAssumption DEF ExitHolders, RunLabels
<1>a. pc \in [Threads -> WorkerLabels] /\ cmd \in [Threads -> Command]
  BY DEF TypeOK
<1> USE DEF Goto, MainGoto, ringVars, semVars, pendingVars, mainVars, histVars,
           workerVars
<1>1. ASSUME NEW t \in Threads, WaitOnReadSem(t)
      PROVE  ExitHolders' = ExitHolders
  BY <1>1, <1>a DEF WaitOnReadSem
<1>2. ASSUME NEW t \in Threads, LockCmdBuffer(t)
      PROVE  ExitHolders' = ExitHolders
  BY <1>2, <1>a DEF LockCmdBuffer
<1>3. ASSUME NEW t \in Threads, CopyCmd(t) PROVE ExitHolders' = ExitHolders
  BY <1>3, <1>a DEF CopyCmd
<1>4. ASSUME NEW t \in Threads, AdvanceRead(t)
      PROVE  ExitHolders' = ExitHolders
  BY <1>4
<1>5. ASSUME NEW t \in Threads, UnlockCmdBuffer(t)
      PROVE  ExitHolders' = ExitHolders
  BY <1>5, <1>a DEF UnlockCmdBuffer
<1>6. ASSUME NEW t \in Threads, PostToWriteSem(t)
      PROVE  ExitHolders' = ExitHolders
  BY <1>6, <1>a DEF PostToWriteSem
<1>7. ASSUME NEW t \in Threads, Execute(t) PROVE ExitHolders' = ExitHolders
  BY <1>7, <1>a DEF Execute
<1>8. ASSUME NEW t \in Threads, ReturnFromThread(t)
      PROVE  ExitHolders' = ExitHolders
  BY <1>8, <1>a DEF ReturnFromThread
<1>9. ASSUME NEW t \in Threads, LockPending(t)
      PROVE  ExitHolders' = ExitHolders
  BY <1>9, <1>a DEF LockPending
<1>10. ASSUME NEW t \in Threads, DecrementPending(t)
       PROVE  ExitHolders' = ExitHolders
  BY <1>10, <1>a DEF DecrementPending
<1>11. ASSUME NEW t \in Threads, UnlockPending(t)
       PROVE  ExitHolders' = ExitHolders
  BY <1>11, <1>a DEF UnlockPending
<1>12. ASSUME NEW t \in Threads, WriteToLog(t)
       PROVE  ExitHolders' = ExitHolders
  BY <1>12, <1>a DEF WriteToLog
<1>13. ASSUME NEW op \in Ops, ReadCommand(op) PROVE ExitHolders' = ExitHolders
  BY <1>13 DEF ReadCommand
<1>14. CASE ReadSimulate
  BY <1>14 DEF ReadSimulate
<1>15. CASE ReadExit
  BY <1>15 DEF ReadExit
<1>16. CASE WaitOnWriteSem
  BY <1>16 DEF WaitOnWriteSem
<1>17. CASE PutCmd
  BY <1>17 DEF PutCmd
<1>18. CASE PostToReadSem
  BY <1>18 DEF PostToReadSem
<1>19. CASE MainLockPending
  BY <1>19 DEF MainLockPending
<1>20. CASE IncrementPending
  BY <1>20 DEF IncrementPending
<1>21. CASE MainUnlockPending
  BY <1>21 DEF MainUnlockPending
<1>22. CASE SimLock
  BY <1>22 DEF SimLock
<1>23. CASE SimTest
  BY <1>23 DEF SimTest
<1>24. CASE SpuriousWakeup
  BY <1>24 DEF SpuriousWakeup
<1>25. CASE SimUnlock
  BY <1>25 DEF SimUnlock
<1>26. CASE Fork
  BY <1>26 DEF Fork
<1>27. CASE JoinThreads
  BY <1>27 DEF JoinThreads
<1>28. CASE UNCHANGED vars
  BY <1>28
  DEF vars
<1> QED
  BY <1>1, <1>2, <1>3, <1>4, <1>5, <1>6, <1>7, <1>8, <1>9, <1>10, <1>11,
      <1>12, <1>13, <1>14, <1>15, <1>16, <1>17, <1>18, <1>19, <1>20, <1>21,
      <1>22, <1>23, <1>24, <1>25, <1>26, <1>27, <1>28
  DEF Next, WorkerStep, MainStep, UserStep, Ended

LEMMA ExitStep ==
  /\ TypeOK /\ MutexInv /\ CountInv /\ RingInv /\ DoneInv /\ ExitInv
  /\ [Next]_vars
  => ExitInv'
<1> SUFFICES ASSUME TypeOK, MutexInv, CountInv, RingInv, DoneInv, ExitInv,
                    [Next]_vars
             PROVE  ExitInv'
  OBVIOUS
<1>a. TypeOK' /\ MainExitInv'
  BY TypeStep, MainExitStep, ExitInvParts
<1>b. /\ inserted \in Nat /\ fetched \in Nat /\ fetched <= inserted
      /\ LastCommand \in Nat /\ LastCommand <= inserted
      /\ ExitsPut \in Nat /\ ExitsPut <= inserted
  BY WaitingBounds, LastBounds
  DEF TypeOK, ExitInv, ExitsPut, MainAt
<1>c. HoldersInv
  BY ExitInvParts
<1>1. CASE PutCmd
  <2>1. /\ inserted' = inserted + 1 /\ fetched' = fetched
        /\ IF main_op = Exit THEN LastCommand' = LastCommand
           ELSE LastCommand' = inserted + 1 /\ LastCommand = inserted
    BY <1>1, PutLast
  <2>2. ExitsPut' <= inserted'
    BY <1>1, <1>b DEF PutCmd, MainGoto, ExitsPut, MainAt, TypeOK
  <2>3. ExitHolders' = ExitHolders
    BY <1>1 DEF PutCmd, workerVars, ExitHolders
  <2>4. HoldersInv'
    BY <1>b, <1>c, <2>1, <2>3 DEF HoldersInv
  <2> QED
    BY <1>a, <2>2, <2>4 DEF ExitInv, MainExitInv, HoldersInv
<1>2. CASE RingStays /\ ExitHolders' = ExitHolders
           /\ UNCHANGED <<buff_read_idx, fetched>>
  <2>1. LastCommand' = LastCommand /\ inserted' = inserted /\ fetched' = fetched
    BY <1>2 DEF RingStays
  <2>2. ExitsPut' = ExitsPut
    BY <1>2 DEF RingStays
  <2>3. HoldersInv'
    BY <1>2, <1>c, <2>1 DEF HoldersInv
  <2> QED
    BY <1>a, <1>b, <2>1, <2>2, <2>3 DEF ExitInv, MainExitInv, HoldersInv
<1>3. ASSUME RingStays, NEW t \in Threads, AdvanceRead(t) PROVE ExitInv'
  <2>1. /\ LastCommand' = LastCommand /\ inserted' = inserted
        /\ fetched' = fetched + 1
        /\ pc[t] = "advance_read" /\ cmd' = cmd
        /\ pc' = [pc EXCEPT ![t] = "unlock_buffer"]
    BY <1>3 DEF RingStays, AdvanceRead, Goto
  <2>2. ExitsPut' = ExitsPut
    BY <1>3 DEF RingStays
  <2>3. cmd[t].op = Exit <=> fetched + 1 > LastCommand
    BY <2>1 DEF DoneInv
  <2>4. \A u \in Threads : pc'[u] = IF u = t THEN "unlock_buffer" ELSE pc[u]
    BY <2>1 DEF TypeOK
  <2>5. IsFiniteSet(ExitHolders) /\ t \notin ExitHolders
    BY <2>1, ThreadsAssumption, FS_Subset DEF ExitHolders, RunLabels
  <2>6. HoldersInv'
    <3>1. CASE cmd[t].op = Exit
      <4>1. ExitHolders' = ExitHolders \cup {t}
        BY <2>1, <2>4, <3>1 DEF ExitHolders, RunLabels
      <4>2. Cardinality(ExitHolders \cup {t}) = Cardinality(ExitHolders) + 1
        BY <2>5, FS_AddElement
      <4> QED
        BY <1>b, <1>c, <2>1, <2>3, <3>1, <4>1, <4>2 DEF HoldersInv
    <3>2. CASE cmd[t].op # Exit
      <4>1. ExitHolders' = ExitHolders
        BY <2>1, <2>4, <3>2 DEF ExitHolders, RunLabels
      <4> QED
        BY <1>b, <1>c, <2>1, <2>3, <3>2, <4>1 DEF HoldersInv
    <3> QED
      BY <3>1, <3>2
  <2> QED
    BY <1>a, <1>b, <2>1, <2>2, <2>6 DEF ExitInv, MainExitInv, HoldersInv
<1> QED
  BY <1>1, <1>2, <1>3, RingSteps, HoldersStay DEF RingStays

----------------------------------------------------------------------------
(* The counter of pending commands. *)

LEMMA InitPending == Init => PendingInv
  BY InitCounts DEF Init, InitWith, PendingInv, MainAt

(* While main is not ending the workers, nobody holds an OP_EXIT. *)
LEMMA NobodyExits ==
  ASSUME TypeOK, CountInv, ExitInv, main_op # Exit
  PROVE  \A t \in Threads : pc[t] \in RunLabels => cmd[t].op # Exit
<1>1. Cardinality(ExitHolders) = 0
  BY WaitingBounds DEF TypeOK, ExitInv, LastCommand, ExitsPut
<1>2. IsFiniteSet(ExitHolders)
  BY ThreadsAssumption, FS_Subset DEF ExitHolders
<1>3. ExitHolders = {}
  BY <1>1, <1>2, FS_EmptySet
<1> QED
  BY <1>3 DEF ExitHolders

(* Once main has found the counter at 0, no command waits or is at work. *)
LEMMA Quiet ==
  ASSUME TypeOK, CountInv, ExitInv, PendingInv,
         main_pc \in {"sim_unlock", "fork"}
  PROVE  /\ main_op # Exit /\ inserted = fetched /\ sem_read = 0
         /\ \A t \in Threads : pc[t] \notin CountedLabels \cup FetchLabels
<1>1. main_op # Exit
  BY DEF ExitInv
<1>2. inserted = fetched /\ Counted = 0
  BY <1>1, WaitingBounds, CountsNat DEF PendingInv, MainAt, TypeOK
<1>3. Fetching = 0 /\ sem_read = 0
  BY <1>2, CountsNat DEF CountInv, MainAt, TypeOK
<1> QED
  BY <1>1, <1>2, <1>3, CountsNat

LEMMA PendingStep ==
  /\ TypeOK /\ MutexInv /\ CountInv /\ ExitInv /\ PendingInv /\ [Next]_vars
  => PendingInv'
<1> SUFFICES ASSUME TypeOK, MutexInv, CountInv, ExitInv, PendingInv, [Next]_vars
             PROVE  PendingInv'
  OBVIOUS
<1>a. /\ pending_requests \in Int /\ inserted \in Nat /\ fetched \in Nat
      /\ Counted \in Nat /\ fetched <= inserted
  BY CountsNat, WaitingBounds DEF TypeOK
<1>b. \A t \in Threads : main_pc \in {"sim_unlock", "fork"} =>
        pc[t] \notin CountedLabels
  BY Quiet
<1> USE DEF Goto, MainGoto, ringVars, semVars, pendingVars, mainVars, histVars,
           workerVars
<1>1. ASSUME NEW t \in Threads, WaitOnReadSem(t) PROVE PendingInv'
  <2>1. Counted' = Counted + In("lock_buffer", CountedLabels)
                         - In("wait_read_sem", CountedLabels)
    BY <1>1, CountsMove DEF WaitOnReadSem
  <2> QED
    BY <1>1, <1>a, <1>b, <2>1
    DEF WaitOnReadSem, PendingInv, MainAt, In, CountedLabels
<1>2. ASSUME NEW t \in Threads, LockCmdBuffer(t) PROVE PendingInv'
  <2>1. Counted' = Counted + In("copy_cmd", CountedLabels)
                         - In("lock_buffer", CountedLabels)
    BY <1>2, CountsMove DEF LockCmdBuffer
  <2> QED
    BY <1>2, <1>a, <1>b, <2>1
    DEF LockCmdBuffer, PendingInv, MainAt, In, CountedLabels
<1>3. ASSUME NEW t \in Threads, CopyCmd(t) PROVE PendingInv'
  <2>1. Counted' = Counted + In("advance_read", CountedLabels)
                         - In("copy_cmd", CountedLabels)
    BY <1>3, CountsMove DEF CopyCmd
  <2> QED
    BY <1>3, <1>a, <1>b, <2>1
    DEF CopyCmd, PendingInv, MainAt, In, CountedLabels
<1>4. ASSUME NEW t \in Threads, AdvanceRead(t) PROVE PendingInv'
  <2>1. Counted' = Counted + In("unlock_buffer", CountedLabels)
                         - In("advance_read", CountedLabels)
    BY <1>4, CountsMove DEF AdvanceRead
  <2> QED
    BY <1>4, <1>a, <1>b, <2>1
    DEF AdvanceRead, PendingInv, MainAt, In, CountedLabels
<1>5. ASSUME NEW t \in Threads, UnlockCmdBuffer(t) PROVE PendingInv'
  <2>1. Counted' = Counted + In("post_write_sem", CountedLabels)
                         - In("unlock_buffer", CountedLabels)
    BY <1>5, CountsMove DEF UnlockCmdBuffer
  <2> QED
    BY <1>5, <1>a, <1>b, <2>1
    DEF UnlockCmdBuffer, PendingInv, MainAt, In, CountedLabels
<1>6. ASSUME NEW t \in Threads, PostToWriteSem(t) PROVE PendingInv'
  <2>1. Counted' = Counted + In("execute", CountedLabels)
                         - In("post_write_sem", CountedLabels)
    BY <1>6, CountsMove DEF PostToWriteSem
  <2> QED
    BY <1>6, <1>a, <1>b, <2>1
    DEF PostToWriteSem, PendingInv, MainAt, In, CountedLabels
<1>7. ASSUME NEW t \in Threads, Execute(t) PROVE PendingInv'
  <2>1. Counted' = Counted + In("lock_pending", CountedLabels)
                         - In("execute", CountedLabels)
    BY <1>7, CountsMove DEF Execute
  <2> QED
    BY <1>7, <1>a, <1>b, <2>1
    DEF Execute, PendingInv, MainAt, In, CountedLabels
<1>8. ASSUME NEW t \in Threads, ReturnFromThread(t) PROVE PendingInv'
  <2>1. Counted' = Counted + In("returned", CountedLabels)
                         - In("execute", CountedLabels)
    BY <1>8, CountsMove DEF ReturnFromThread
  <2> QED
    BY <1>8, <1>a, <1>b, <2>1, NobodyExits
    DEF ReturnFromThread, PendingInv, MainAt, In, CountedLabels, RunLabels
<1>9. ASSUME NEW t \in Threads, LockPending(t) PROVE PendingInv'
  <2>1. Counted' = Counted + In("decrement", CountedLabels)
                         - In("lock_pending", CountedLabels)
    BY <1>9, CountsMove DEF LockPending
  <2> QED
    BY <1>9, <1>a, <1>b, <2>1
    DEF LockPending, PendingInv, MainAt, In, CountedLabels
<1>10. ASSUME NEW t \in Threads, DecrementPending(t) PROVE PendingInv'
  <2>1. Counted' = Counted + In("unlock_pending", CountedLabels)
                         - In("decrement", CountedLabels)
    BY <1>10, CountsMove DEF DecrementPending
  <2> QED
    BY <1>10, <1>a, <1>b, <2>1
    DEF DecrementPending, SignalCondSimulate, SomePending, PendingInv, MainAt,
        In, CountedLabels
<1>11. ASSUME NEW t \in Threads, UnlockPending(t) PROVE PendingInv'
  <2>1. Counted' = Counted + In("log", CountedLabels)
                         - In("unlock_pending", CountedLabels)
    BY <1>11, CountsMove DEF UnlockPending
  <2> QED
    BY <1>11, <1>a, <1>b, <2>1
    DEF UnlockPending, PendingInv, MainAt, In, CountedLabels
<1>12. ASSUME NEW t \in Threads, WriteToLog(t) PROVE PendingInv'
  <2>1. Counted' = Counted + In("wait_read_sem", CountedLabels)
                         - In("log", CountedLabels)
    BY <1>12, CountsMove DEF WriteToLog
  <2> QED
    BY <1>12, <1>a, <1>b, <2>1
    DEF WriteToLog, PendingInv, MainAt, In, CountedLabels
<1>13. ASSUME NEW op \in Ops, ReadCommand(op) PROVE PendingInv'
  BY <1>13, <1>a, CountsStay
  DEF ReadCommand, PendingInv, MainAt, ExitInv
<1>14. CASE ReadSimulate
  BY <1>14, <1>a, CountsStay
  DEF ReadSimulate, PendingInv, MainAt, ExitInv
<1>15. CASE ReadExit
  BY <1>15, <1>a, CountsStay
  DEF ReadExit, PendingInv, MainAt
<1>16. CASE WaitOnWriteSem
  BY <1>16, <1>a, CountsStay
  DEF WaitOnWriteSem, PendingInv, MainAt, ExitInv
<1>17. CASE PutCmd
  BY <1>17, <1>a, CountsStay
  DEF PutCmd, PendingInv, MainAt
<1>18. CASE PostToReadSem
  BY <1>18, <1>a, CountsStay
  DEF PostToReadSem, PendingInv, MainAt, ExitInv
<1>19. CASE MainLockPending
  BY <1>19, <1>a, CountsStay
  DEF MainLockPending, PendingInv, MainAt
<1>20. CASE IncrementPending
  BY <1>20, <1>a, CountsStay
  DEF IncrementPending, PendingInv, MainAt
<1>21. CASE MainUnlockPending
  BY <1>21, <1>a, CountsStay
  DEF MainUnlockPending, PendingInv, MainAt
<1>22. CASE SimLock
  BY <1>22, <1>a, CountsStay
  DEF SimLock, PendingInv, MainAt
<1>23. CASE SimTest
  BY <1>23, <1>a, CountsStay
  DEF SimTest, SomePending, PendingInv, MainAt, ExitInv
<1>24. CASE SpuriousWakeup
  BY <1>24, <1>a, CountsStay
  DEF SpuriousWakeup, PendingInv, MainAt
<1>25. CASE SimUnlock
  BY <1>25, <1>a, CountsStay
  DEF SimUnlock, PendingInv, MainAt
<1>26. CASE Fork
  BY <1>26, <1>a, CountsStay
  DEF Fork, PendingInv, MainAt
<1>27. CASE JoinThreads
  BY <1>27, <1>a, CountsStay
  DEF JoinThreads, PendingInv, MainAt
<1>28. CASE UNCHANGED vars
  BY <1>28, CountsStay DEF vars, PendingInv, MainAt
<1> QED
  BY <1>1, <1>2, <1>3, <1>4, <1>5, <1>6, <1>7, <1>8, <1>9, <1>10, <1>11,
      <1>12, <1>13, <1>14, <1>15, <1>16, <1>17, <1>18, <1>19, <1>20, <1>21,
      <1>22, <1>23, <1>24, <1>25, <1>26, <1>27, <1>28
  DEF Next, WorkerStep, MainStep, UserStep, Ended

----------------------------------------------------------------------------
(* The inductive invariant, and what follows from it. *)

LEMMA InitInv == Init => Inv
  BY InitTyped, InitMutexes, InitCounts, InitRing, InitDone, InitExits,
     InitPending DEF Inv

LEMMA InvStep == Inv /\ [Next]_vars => Inv'
  BY TypeStep, MutexStep, CountStep, RingStep, DoneStep, ExitStep, PendingStep
  DEF Inv

LEMMA InvHolds == Spec => []Inv
  BY InitInv, InvStep, PTL DEF Spec

(* The queue the properties speak of, slot by slot. *)
LEMMA QueueSlots ==
  ASSUME Inv
  PROVE  Queue = [k \in 1 .. inserted - fetched |->
                    cmd_buffer[Slot(buff_read_idx, k)].id]
<1>1. \A k \in 1 .. inserted - fetched :
        (buff_read_idx + k - 1) % BufferDim = Slot(buff_read_idx, k)
  BY WaitingBounds, SlotModulo, DimAssumption DEF Inv, TypeOK
<1> QED
  BY <1>1 DEF Queue

LEMMA InvRing == Inv => RingInOrder
<1> SUFFICES ASSUME Inv PROVE RingInOrder
  OBVIOUS
<1>1. fetched <= inserted
  BY WaitingBounds DEF Inv, TypeOK
<1>2. \A k \in 1 .. inserted - fetched :
        cmd_buffer[Slot(buff_read_idx, k)].id = fetched + k
  BY DEF Inv, RingInv
<1> QED
  BY <1>1, <1>2, QueueSlots DEF RingInOrder

LEMMA InvSlot == Inv => SlotExclusive
<1> SUFFICES ASSUME Inv, NEW t \in Threads, main_pc = "put_cmd",
                    pc[t] = "copy_cmd"
             PROVE  buff_write_idx # buff_read_idx
  BY DEF SlotExclusive
<1>1. TypeOK /\ CountInv /\ pc[t] \in FetchLabels
  BY DEF Inv, FetchLabels
<1>2. inserted > fetched /\ inserted - fetched < BufferDim
  BY <1>1, WaitingBounds
<1>3. /\ buff_write_idx = Slot(buff_read_idx, inserted - fetched + 1)
      /\ buff_read_idx \in 0 .. BufferDim - 1
      /\ inserted \in Nat /\ fetched \in Nat
  BY DEF Inv, RingInv, TypeOK, Slots
<1> QED
  BY <1>2, <1>3, DimAssumption DEF Slot

LEMMA InvPending == Inv => PendingExact
<1>1. Counted = Cardinality(Holding({"unlock_buffer", "post_write_sem",
                                     "execute", "lock_pending", "decrement"}))
  BY DEF Counted, CountedLabels
<1>2. MainAt({"post_read_sem", "lock_pending", "increment"}) =
        IF main_pc \in {"post_read_sem", "lock_pending", "increment"}
        THEN 1 ELSE 0
  BY DEF MainAt
<1> QED
  BY <1>1, <1>2 DEF Inv, PendingInv, PendingExact

LEMMA InvFork == Inv => ForkQuiescent
<1> SUFFICES ASSUME Inv, main_pc = "fork"
             PROVE  /\ done = 1 .. inserted
                    /\ buffer_ctrl = None /\ pending_ctrl = None
  BY DEF ForkQuiescent
<1>1. /\ inserted = fetched
      /\ \A t \in Threads : pc[t] \notin CountedLabels \cup FetchLabels
  BY Quiet DEF Inv
<1>2. \A t \in Threads : buffer_ctrl # t /\ pc[t] \notin RunLabels
  BY <1>1 DEF Inv, MutexInv, CountedLabels, FetchLabels, RunLabels
<1>3. buffer_ctrl = None /\ pending_ctrl = None
  BY <1>2 DEF Inv, TypeOK, PendingInv
<1> QED
  BY <1>1, <1>2, <1>3 DEF Inv, DoneInv

LEMMA InvEnd == Inv => CleanExit
<1> SUFFICES ASSUME Inv, main_pc = "ended"
             PROVE  /\ done = 1 .. inserted
                    /\ sem_read = 0 /\ sem_write = BufferDim
  BY DEF CleanExit
<1>1. \A t \in Threads : pc[t] = "returned" /\ cmd[t].op = Exit
  BY DEF Inv, ExitInv
<1>2. ExitHolders = Threads /\ exits = Cardinality(Threads)
  BY <1>1 DEF Inv, ExitInv, ExitHolders
<1>3. Cardinality(Threads) \in Nat /\ Cardinality(Threads) > 0
  BY ThreadsCount
<1>4. inserted = fetched
  BY <1>2, <1>3, WaitingBounds
  DEF Inv, ExitInv, LastCommand, ExitsPut, MainAt, TypeOK
<1>5. \A t \in Threads : pc[t] \notin FetchLabels \cup FreeLabels \cup RunLabels
  BY <1>1 DEF FetchLabels, FreeLabels, RunLabels
<1>6. Fetching = 0 /\ Freeing = 0
  <2>1. Holding(FetchLabels) = {} /\ Holding(FreeLabels) = {}
    BY <1>5 DEF Holding
  <2> QED
    BY <2>1, FS_EmptySet DEF Fetching, Freeing
<1>7. sem_read = 0 /\ sem_write = BufferDim
  BY <1>4, <1>6, DimAssumption DEF Inv, CountInv, MainAt, TypeOK
<1> QED
  BY <1>4, <1>5, <1>7 DEF Inv, DoneInv

(* The ring is a queue: put_cmd, which takes no lock, overwrites nothing, and
   get_cmd never reads a slot that is not filled. *)
THEOREM RingKeepsOrder == Spec => []RingInOrder
  BY InvHolds, InvRing, PTL

(* Main and a worker are never at work on the same slot. *)
THEOREM SlotsNotShared == Spec => []SlotExclusive
  BY InvHolds, InvSlot, PTL

(* pending_requests is the number of commands not finished, less the one main
   has still to count. *)
THEOREM PendingCounts == Spec => []PendingExact
  BY InvHolds, InvPending, PTL

(* A simulation is forked with every command executed and no mutex held. *)
THEOREM ForkIsQuiet == Spec => []ForkQuiescent
  BY InvHolds, InvFork, PTL

(* i-banco ends with every command executed and its semaphores as it found
   them. *)
THEOREM EndIsClean == Spec => []CleanExit
  BY InvHolds, InvEnd, PTL
----------------------------------------------------------------------------
(* The refinement of CommandQueue: the ring and its counters are a bounded
   queue, and a fork finds it empty with nothing running. *)

(* No two workers run one command. *)
IdsApart ==
  \A t, u \in Threads :
    pc[t] \in RunLabels /\ pc[u] \in RunLabels /\ t # u => cmd[t].id # cmd[u].id

(* The numbers of the commands after the f-th, up to the n-th after it. *)
Numbers(f, n) == [k \in 1 .. n |-> f + k]

LEMMA NumbersPut ==
  ASSUME NEW f \in Nat, NEW n \in Nat
  PROVE  /\ Numbers(f, n) \in Seq(Nat) /\ Len(Numbers(f, n)) = n
         /\ Numbers(f, n + 1) = Append(Numbers(f, n), f + n + 1)
<1>1. Numbers(f, n) \in Seq(Nat) /\ Len(Numbers(f, n)) = n
  BY DEF Numbers
<1>2. Numbers(f, n + 1) \in Seq(Nat) /\ Len(Numbers(f, n + 1)) = n + 1
  BY DEF Numbers
<1>3. ASSUME NEW k \in 1 .. n + 1
      PROVE  Numbers(f, n + 1)[k] = Append(Numbers(f, n), f + n + 1)[k]
  <2>1. \A i \in 1 .. n : Numbers(f, n)[i] = f + i /\ Numbers(f, n + 1)[i] = f + i
    BY DEF Numbers
  <2>2. Numbers(f, n + 1)[n + 1] = f + n + 1
    BY DEF Numbers
  <2> QED
    BY <1>1, <2>1, <2>2
<1> QED
  BY <1>1, <1>2, <1>3

(* Two sequences of numbers are equal when their elements are. *)
LEMMA SameSequence ==
  ASSUME NEW x \in Seq(Nat), NEW y \in Seq(Nat), Len(x) = Len(y),
         \A k \in 1 .. Len(x) : x[k] = y[k]
  PROVE  x = y
OBVIOUS

LEMMA NumbersTaken ==
  ASSUME NEW f \in Nat, NEW n \in Nat, n > 0
  PROVE  /\ Numbers(f, n) # <<>> /\ Head(Numbers(f, n)) = f + 1
         /\ Tail(Numbers(f, n)) = Numbers(f + 1, n - 1)
<1>1. Numbers(f, n) \in Seq(Nat) /\ Len(Numbers(f, n)) = n
  BY NumbersPut
<1>2. Numbers(f + 1, n - 1) \in Seq(Nat) /\ Len(Numbers(f + 1, n - 1)) = n - 1
  BY DEF Numbers
<1>3. Numbers(f, n)[1] = f + 1
  BY DEF Numbers
<1>4. ASSUME NEW k \in 1 .. n - 1
      PROVE  Numbers(f + 1, n - 1)[k] = Tail(Numbers(f, n))[k]
  <2>1. Numbers(f + 1, n - 1)[k] = f + 1 + k /\ Numbers(f, n)[k + 1] = f + (k + 1)
    BY DEF Numbers
  <2> QED
    BY <1>1, <2>1
<1> DEFINE s == Numbers(f, n)
<1>5. s # <<>> /\ Head(s) = s[1] /\ Tail(s) \in Seq(Nat) /\ Len(Tail(s)) = n - 1
  <2>1. s \in Seq(Nat) /\ Len(s) = n
    BY <1>1
  <2> HIDE DEF s
  <2> QED
    BY <2>1
<1>6. Tail(s) = Numbers(f + 1, n - 1)
  <2>1. /\ Tail(s) \in Seq(Nat) /\ Numbers(f + 1, n - 1) \in Seq(Nat)
        /\ Len(Tail(s)) = Len(Numbers(f + 1, n - 1))
        /\ \A k \in 1 .. Len(Tail(s)) : Tail(s)[k] = Numbers(f + 1, n - 1)[k]
    BY <1>2, <1>4, <1>5
  <2> QED
    BY <2>1, SameSequence
<1> QED
  BY <1>3, <1>5, <1>6

LEMMA QueueNumbers ==
  ASSUME RingInOrder PROVE Queue = Numbers(fetched, inserted - fetched)
BY DEF RingInOrder, Numbers

(* A worker is given the command after those got so far. *)
LEMMA IdsStep == Inv /\ IdsApart /\ [Next]_vars => IdsApart'
<1> SUFFICES ASSUME Inv, IdsApart, [Next]_vars PROVE IdsApart'
  OBVIOUS
<1>a. TypeOK /\ DoneInv
  BY DEF Inv
<1>1. ASSUME NEW t \in Threads, AdvanceRead(t) PROVE IdsApart'
  <2>1. cmd[t].id = fetched + 1 /\ cmd' = cmd /\ pc' = [pc EXCEPT ![t] = "unlock_buffer"]
    BY <1>1, <1>a DEF AdvanceRead, Goto, DoneInv
  <2>2. \A u \in Threads : pc[u] \in RunLabels => cmd[u].id # fetched + 1
    BY <1>a DEF DoneInv, TypeOK
  <2> QED
    BY <1>a, <2>1, <2>2 DEF IdsApart, RunLabels, TypeOK
<1>2. ASSUME NEW t \in Threads, WorkerStep(t), ~AdvanceRead(t) PROVE IdsApart'
  <2>1. /\ pc'[t] \in RunLabels => pc[t] \in RunLabels
        /\ \A u \in Threads \ {t} : pc'[u] = pc[u] /\ cmd'[u] = cmd[u]
        /\ pc[t] \in RunLabels => cmd'[t] = cmd[t]
    BY <1>2, <1>a DEF WorkerStep, Goto, WaitOnReadSem, LockCmdBuffer, CopyCmd, UnlockCmdBuffer,
      PostToWriteSem, Execute, ReturnFromThread, LockPending, DecrementPending, UnlockPending,
      WriteToLog, RunLabels, TypeOK
  <2> QED
    BY <2>1 DEF IdsApart
<1>3. ASSUME UNCHANGED <<pc, cmd>> PROVE IdsApart'
  BY <1>3 DEF IdsApart
<1>4. CASE MainStep \/ UserStep \/ SpuriousWakeup \/ UNCHANGED vars
  BY <1>3, <1>4 DEF MainStep, UserStep, WaitOnWriteSem, PutCmd, PostToReadSem, MainLockPending,
    IncrementPending, MainUnlockPending, SimLock, SimTest, SimUnlock, Fork, JoinThreads,
    ReadCommand, ReadSimulate, ReadExit, SpuriousWakeup, workerVars, vars
<1> QED
  BY <1>1, <1>2, <1>4 DEF Next, Ended

(* Steps that put, get, end and fork nothing. *)
LEMMA QueueStays ==
  ASSUME RingInOrder, RingInOrder', UNCHANGED histVars,
         \A t \in Threads : /\ pc'[t] \in RunLabels <=> pc[t] \in RunLabels
                            /\ pc[t] \in RunLabels => cmd'[t] = cmd[t]
  PROVE  UNCHANGED Abstract!vars
<1>1. Running' = Running
  BY DEF Running, RunLabels
<1>2. Queue' = Queue
  BY DEF RingInOrder, histVars
<1> QED
  BY <1>1, <1>2 DEF Abstract!vars, histVars

LEMMA PutStep ==
  ASSUME Inv, RingInOrder, RingInOrder', PutCmd PROVE Abstract!Put
<1>1. inserted \in Nat /\ fetched \in Nat /\ fetched <= inserted
      /\ inserted - fetched < BufferDim
  BY WaitingBounds DEF Inv, PutCmd, MainGoto, TypeOK, RingInOrder
<1>2. inserted' = inserted + 1 /\ UNCHANGED <<fetched, done, forked, pc, cmd>>
  BY DEF PutCmd, workerVars
<1>3. Queue = Numbers(fetched, inserted - fetched)
  BY QueueNumbers
<1>4. Queue' = Numbers(fetched, inserted - fetched + 1)
  BY <1>1, <1>2 DEF RingInOrder, Numbers
<1>5. Running' = Running
  BY <1>2 DEF Running
<1>6. fetched + (inserted - fetched) + 1 = inserted + 1
  BY <1>1
<1>7. Len(Queue) < BufferDim /\ Queue' = Append(Queue, inserted + 1)
  <2> DEFINE n == inserted - fetched
  <2>1. n \in Nat
    BY <1>1
  <2> HIDE DEF n
  <2>2. Len(Numbers(fetched, n)) = n
        /\ Numbers(fetched, n + 1) = Append(Numbers(fetched, n), fetched + n + 1)
    BY <1>1, <2>1, NumbersPut
  <2> QED
    BY <1>1, <1>3, <1>4, <1>6, <2>2 DEF n
<1> QED
  BY <1>2, <1>5, <1>7 DEF Abstract!Put

LEMMA TakeStep ==
  ASSUME Inv, RingInOrder, RingInOrder', NEW t \in Threads, AdvanceRead(t)
  PROVE  Abstract!Take
<1>1. inserted \in Nat /\ fetched \in Nat /\ inserted > fetched
  BY WaitingBounds DEF Inv, AdvanceRead, Goto, TypeOK, FetchLabels
<1>2. fetched' = fetched + 1 /\ UNCHANGED <<inserted, done, forked, cmd>>
  BY DEF AdvanceRead
<1>3. Queue = Numbers(fetched, inserted - fetched)
  BY QueueNumbers
<1>4. Queue' = Numbers(fetched + 1, inserted - fetched - 1)
  BY <1>1, <1>2 DEF RingInOrder, Numbers
<1>5. Running' = Running \cup {fetched + 1}
  <2>1. cmd[t].id = fetched + 1
    BY DEF Inv, DoneInv, AdvanceRead, Goto
  <2>2. pc[t] = "advance_read" /\ pc'[t] = "unlock_buffer"
        /\ \A u \in Threads \ {t} : pc'[u] = pc[u]
    BY DEF AdvanceRead, Goto, Inv, TypeOK
  <2> QED
    BY <1>2, <2>1, <2>2 DEF Running
<1>6. Queue # <<>> /\ Head(Queue) = fetched + 1 /\ Queue' = Tail(Queue)
  <2> DEFINE n == inserted - fetched
  <2>1. n \in Nat /\ n > 0
    BY <1>1
  <2> HIDE DEF n
  <2>2. /\ Numbers(fetched, n) # <<>> /\ Head(Numbers(fetched, n)) = fetched + 1
        /\ Tail(Numbers(fetched, n)) = Numbers(fetched + 1, n - 1)
    BY <1>1, <2>1, NumbersTaken
  <2> QED
    BY <1>3, <1>4, <2>2 DEF n
<1> QED
  BY <1>2, <1>5, <1>6 DEF Abstract!Take

LEMMA EndStep ==
  ASSUME Inv, IdsApart, RingInOrder, RingInOrder', NEW t \in Threads,
         Execute(t) \/ ReturnFromThread(t)
  PROVE  Abstract!EndSome
<1>1. /\ pc[t] = "execute" /\ pc'[t] \in {"lock_pending", "returned"}
      /\ \A u \in Threads \ {t} : pc'[u] = pc[u]
      /\ done' = done \cup {cmd[t].id}
      /\ UNCHANGED <<inserted, fetched, forked, cmd>>
  BY DEF Execute, ReturnFromThread, Goto, Inv, TypeOK
<1>2. Queue' = Queue
  BY <1>1 DEF RingInOrder
<1>3. cmd[t].id \in Running
  BY <1>1 DEF Running
<1>4. Running' = Running \ {cmd[t].id}
  BY <1>1 DEF Running, IdsApart, RunLabels
<1> QED
  BY <1>1, <1>2, <1>3, <1>4 DEF Abstract!EndSome, Abstract!End

LEMMA ForkStep ==
  ASSUME Inv, RingInOrder, RingInOrder', Fork PROVE Abstract!Fork
<1>1. inserted = fetched /\ \A t \in Threads : pc[t] \notin CountedLabels
  BY Quiet DEF Inv, Fork, MainGoto
<1>2. Running = {}
  BY <1>1 DEF Running, CountedLabels
<1>3. forked' = done /\ UNCHANGED <<inserted, fetched, done, pc, cmd>>
  BY DEF Fork, workerVars
<1>4. Queue = <<>>
  <2>1. inserted - fetched = 0
    BY <1>1 DEF Inv, TypeOK
  <2> QED
    BY <2>1 DEF Queue
<1>5. Queue' = Queue /\ Running' = Running
  BY <1>3 DEF RingInOrder, Running
<1> QED
  BY <1>2, <1>3, <1>4, <1>5 DEF Abstract!Fork

LEMMA QueueStep ==
  ASSUME Inv, IdsApart, RingInOrder, RingInOrder', [Next]_vars
  PROVE  [Abstract!Next]_(Abstract!vars)
<1>1. ASSUME NEW t \in Threads, WorkerStep(t),
             ~(AdvanceRead(t) \/ Execute(t) \/ ReturnFromThread(t))
      PROVE  UNCHANGED Abstract!vars
  <2>1. UNCHANGED histVars
    BY <1>1 DEF WorkerStep, WaitOnReadSem, LockCmdBuffer, CopyCmd, UnlockCmdBuffer, PostToWriteSem,
      LockPending, DecrementPending, UnlockPending, WriteToLog
  <2>2. ASSUME NEW u \in Threads
        PROVE  /\ pc'[u] \in RunLabels <=> pc[u] \in RunLabels
               /\ pc[u] \in RunLabels => cmd'[u] = cmd[u]
    BY <1>1 DEF WorkerStep, Goto, WaitOnReadSem, LockCmdBuffer, CopyCmd, UnlockCmdBuffer,
      PostToWriteSem, LockPending, DecrementPending, UnlockPending, WriteToLog, RunLabels,
      Inv, TypeOK
  <2> QED
    BY <2>1, <2>2, QueueStays
<1>2. CASE (MainStep /\ ~PutCmd /\ ~Fork) \/ UserStep \/ SpuriousWakeup \/ UNCHANGED vars
  <2>1. UNCHANGED <<pc, cmd, histVars>>
    BY <1>2 DEF MainStep, UserStep, WaitOnWriteSem, PostToReadSem, MainLockPending,
      IncrementPending, MainUnlockPending, SimLock, SimTest, SimUnlock, JoinThreads,
      ReadCommand, ReadSimulate, ReadExit, SpuriousWakeup, workerVars, histVars, vars
  <2> QED
    BY <2>1, QueueStays
<1> QED
  BY <1>1, <1>2, PutStep, TakeStep, EndStep, ForkStep
  DEF Next, WorkerStep, MainStep, Ended, Abstract!Next

(* insert_cmd, thread_main and the fork of a simulation are the steps of a
   bounded queue served in order, whatever the threads and the size of the ring:
   no command is lost, doubled or overtaken, and a child sees them all. *)
THEOREM PipelineIsQueue == Spec => Abstract!Spec
<1>1. Init => Inv /\ IdsApart
  BY InitInv DEF Init, InitWith, IdsApart, RunLabels
<1>2. Inv /\ IdsApart /\ [Next]_vars => Inv' /\ IdsApart'
  BY InvStep, IdsStep
<1>3. Init => Abstract!Init
  <2>1. ASSUME Init PROVE Queue = <<>> /\ Running = {}
    BY <2>1 DEF Init, InitWith, Queue, Running
  <2> QED
    BY <2>1 DEF Init, InitWith, Abstract!Init
<1>4. Inv => RingInOrder
  BY InvRing
<1>5. Inv /\ IdsApart /\ RingInOrder /\ RingInOrder' /\ [Next]_vars
        => [Abstract!Next]_(Abstract!vars)
  BY QueueStep
<1> QED
  BY <1>1, <1>2, <1>3, <1>4, <1>5, PTL DEF Spec, Abstract!Spec

----------------------------------------------------------------------------
(* No deadlock of the workers and main. *)

(* Who cannot go on: a worker without a command or the mutex it waits for, one
   whose command is of no kind, main while the ring is full, while it sleeps on
   the condition, while a worker it joins runs, and at the user's line. *)
WorkerBlocked(t) ==
  \/ pc[t] = "wait_read_sem" /\ sem_read = 0
  \/ pc[t] = "lock_buffer" /\ buffer_ctrl # None
  \/ pc[t] = "execute" /\ cmd[t].op \notin Ops \cup {Exit}
  \/ pc[t] = "lock_pending" /\ pending_ctrl # None
  \/ pc[t] = "returned"
MainBlocked ==
  \/ main_pc = "wait_write_sem" /\ sem_write = 0
  \/ main_pc \in {"lock_pending", "sim_lock"} /\ pending_ctrl # None
  \/ main_pc = "cond_wait"
  \/ main_pc = "join" /\ \E t \in Threads : pc[t] # "returned"
  \/ main_pc \in {"read_line", "ended"}

(* Until main waits for the user or has ended, with every command executed,
   somebody can go on. *)
Settled == main_pc \in {"read_line", "ended"} /\ done = 1 .. inserted
NeverStuck == Settled \/ ~MainBlocked \/ \E t \in Threads : ~WorkerBlocked(t)

(* What is in the ring, and what a worker copied from it, is a command main
   put there; and main sleeps only while a command is pending. *)
CommandsReal ==
  /\ main_pc \in {"wait_write_sem", "put_cmd", "post_read_sem"} => main_op # None
  /\ \A k \in 1 .. inserted - fetched :
       cmd_buffer[Slot(buff_read_idx, k)].op # None
  /\ \A t \in Threads :
       pc[t] \in {"advance_read"} \cup RunLabels => cmd[t].op # None
Signalled == main_pc = "cond_wait" => pending_requests > 0

(* main goes to sleep having read pending_requests with the mutex, and who
   brings it to zero wakes main in that same hold. *)
LEMMA SignalledStep == TypeOK /\ Signalled /\ [Next]_vars => Signalled'
<1> SUFFICES ASSUME TypeOK, Signalled, [Next]_vars PROVE Signalled'
  OBVIOUS
<1> USE DEF Signalled, Goto, MainGoto, ringVars, semVars, pendingVars, mainVars, histVars,
           workerVars
<1>1. ASSUME NEW t \in Threads, WorkerStep(t) PROVE Signalled'
  BY <1>1 DEF WorkerStep, WaitOnReadSem, LockCmdBuffer, CopyCmd, AdvanceRead,
    UnlockCmdBuffer, PostToWriteSem, Execute, ReturnFromThread, LockPending,
    DecrementPending, SignalCondSimulate, SomePending, UnlockPending, WriteToLog
<1>2. ASSUME MainStep \/ UserStep \/ SpuriousWakeup PROVE Signalled'
  BY <1>2 DEF MainStep, UserStep, SpuriousWakeup, WaitOnWriteSem, PutCmd, PostToReadSem,
    MainLockPending, IncrementPending, MainUnlockPending, SimLock, SimTest, SomePending,
    SimUnlock, Fork, JoinThreads, ReadCommand, ReadSimulate, ReadExit
<1> QED
  BY <1>1, <1>2 DEF Next, Ended, vars

(* A command enters the ring whole (put_cmd comes after the read of the line) and
   a slot is not used again before its command is copied. *)
LEMMA RealStep == Inv /\ CommandsReal /\ [Next]_vars => CommandsReal'
<1> SUFFICES ASSUME Inv, CommandsReal, [Next]_vars PROVE CommandsReal'
  OBVIOUS
<1> DEFINE n == inserted - fetched
           Held == \A t \in Threads : pc[t] \in {"advance_read"} \cup RunLabels => cmd[t].op # None
           MainReal == main_pc \in {"wait_write_sem", "put_cmd", "post_read_sem"} => main_op # None
           Ring == \A k \in 1 .. inserted - fetched : cmd_buffer[Slot(buff_read_idx, k)].op # None
<1>0. TypeOK /\ CountInv /\ RingInv /\ ExitInv
  BY DEF Inv
<1>1. n \in 0 .. BufferDim /\ inserted \in Nat /\ fetched \in Nat
  BY <1>0, WaitingBounds DEF TypeOK
<1>2. buff_read_idx \in Slots /\ buff_write_idx \in Slots
  BY <1>0 DEF TypeOK
<1>3. MainReal'
  <2> USE DEF CommandsReal, Goto, MainGoto, ringVars, semVars, pendingVars, mainVars, histVars,
           workerVars
  <2>1. ASSUME NEW t \in Threads, WorkerStep(t) PROVE MainReal'
    BY <2>1 DEF WorkerStep, WaitOnReadSem, LockCmdBuffer, CopyCmd, AdvanceRead,
      UnlockCmdBuffer, PostToWriteSem, Execute, ReturnFromThread, LockPending,
      DecrementPending, SignalCondSimulate, SomePending, UnlockPending, WriteToLog
  <2>2. ASSUME MainStep \/ UserStep \/ SpuriousWakeup PROVE MainReal'
    BY <2>2, OpsAssumption DEF MainStep, UserStep, SpuriousWakeup, WaitOnWriteSem, PutCmd,
      PostToReadSem, MainLockPending, IncrementPending, MainUnlockPending, SimLock, SimTest,
      SimUnlock, Fork, JoinThreads, ReadCommand, ReadSimulate, ReadExit
  <2> QED
    BY <2>1, <2>2 DEF Next, Ended, vars, CommandsReal
<1>4. Held'
  <2> USE DEF CommandsReal, Goto, MainGoto, ringVars, semVars, pendingVars, mainVars, histVars,
           workerVars, RunLabels
  <2>1. ASSUME NEW t \in Threads, CopyCmd(t) PROVE Held'
    <3>1. n >= 1
      BY <1>0, <1>1, <2>1, WaitingBounds DEF CopyCmd, FetchLabels
    <3>2. cmd_buffer[buff_read_idx].op # None
      <4>1. Slot(buff_read_idx, 1) = buff_read_idx
        BY <1>2, DimAssumption DEF Slot, Slots
      <4> QED
        BY <1>1, <3>1, <4>1
    <3> QED
      BY <1>0, <2>1, <3>2 DEF CopyCmd, TypeOK
  <2>2. ASSUME NEW t \in Threads, WorkerStep(t), ~CopyCmd(t) PROVE Held'
    BY <1>0, <2>2 DEF WorkerStep, WaitOnReadSem, LockCmdBuffer, AdvanceRead,
      UnlockCmdBuffer, PostToWriteSem, Execute, ReturnFromThread, LockPending,
      DecrementPending, UnlockPending, WriteToLog, TypeOK
  <2>3. ASSUME MainStep \/ UserStep \/ SpuriousWakeup PROVE Held'
    BY <2>3 DEF MainStep, UserStep, SpuriousWakeup, WaitOnWriteSem, PutCmd,
      PostToReadSem, MainLockPending, IncrementPending, MainUnlockPending, SimLock, SimTest,
      SimUnlock, Fork, JoinThreads, ReadCommand, ReadSimulate, ReadExit
  <2> QED
    BY <2>1, <2>2, <2>3 DEF Next, Ended, vars, CommandsReal
<1>5. Ring'
  <2>1. CASE PutCmd
    <3>1. n < BufferDim /\ buff_write_idx = Slot(buff_read_idx, n + 1)
      BY <1>0, <2>1, WaitingBounds DEF PutCmd, MainGoto, RingInv
    <3>2. /\ cmd_buffer' = [cmd_buffer EXCEPT ![buff_write_idx] =
                              [op |-> main_op, id |-> inserted + 1]]
          /\ buff_read_idx' = buff_read_idx /\ inserted' = inserted + 1
          /\ fetched' = fetched /\ main_op # None
      BY <2>1 DEF PutCmd, MainGoto, CommandsReal
    <3>3. \A s \in Slots : cmd_buffer'[s].op = IF s = buff_write_idx THEN main_op
                                               ELSE cmd_buffer[s].op
      BY <1>0, <3>2 DEF TypeOK
    <3>4. ASSUME NEW k \in 1 .. n + 1
          PROVE  /\ Slot(buff_read_idx, k) \in Slots
                 /\ Slot(buff_read_idx, k) # buff_write_idx => k \in 1 .. n
      BY <1>1, <1>2, <3>1, SlotModulo, DimAssumption
    <3> QED
      BY <1>1, <3>2, <3>3, <3>4 DEF CommandsReal
  <2>2. CASE RingStays /\ UNCHANGED <<buff_read_idx, fetched>>
    BY <2>2 DEF RingStays, CommandsReal
  <2>3. ASSUME RingStays, NEW t \in Threads, AdvanceRead(t) PROVE Ring'
    <3>1. /\ buff_read_idx' = NextIdx(buff_read_idx) /\ fetched' = fetched + 1
          /\ cmd_buffer' = cmd_buffer /\ inserted' = inserted
      BY <2>3 DEF AdvanceRead, RingStays
    <3>2. \A k \in 1 .. n : Slot(buff_read_idx', k) = Slot(buff_read_idx, k + 1)
      BY <1>1, <1>2, <3>1, NextSlot, DimAssumption DEF Slot, Slots
    <3>3. ASSUME NEW k \in 1 .. inserted' - fetched'
          PROVE  k \in 1 .. n /\ k + 1 \in 1 .. n
      BY <1>1, <3>1
    <3> QED
      BY <3>1, <3>2, <3>3 DEF CommandsReal
  <2> QED
    BY <1>0, <2>1, <2>2, <2>3, RingSteps DEF RingStays
<1> QED
  BY <1>3, <1>4, <1>5 DEF CommandsReal

(* With every worker waiting for a command or returned, none is at work, and
   those that returned are as many as the OP_EXITs got. *)
LEMMA InvNeverStuck == Inv /\ CommandsReal /\ Signalled => NeverStuck
<1> SUFFICES ASSUME Inv, CommandsReal, Signalled, MainBlocked,
                    \A t \in Threads : WorkerBlocked(t)
             PROVE  Settled
  BY DEF NeverStuck
<1>0. TypeOK /\ MutexInv /\ CountInv /\ DoneInv /\ ExitInv /\ PendingInv
  BY DEF Inv
<1>1. \A t \in Threads :
        pc[t] \notin {"copy_cmd", "advance_read", "unlock_buffer", "decrement",
                      "unlock_pending"}
  BY DEF WorkerBlocked
<1>2. buffer_ctrl = None /\ pending_ctrl = None
  BY <1>0, <1>1 DEF MutexInv, TypeOK, MainBlocked
<1>3. ASSUME NEW t \in Threads
      PROVE  pc[t] = "returned" \/ (pc[t] = "wait_read_sem" /\ sem_read = 0)
  <2>1. pc[t] # "execute"
    BY <1>0 DEF WorkerBlocked, CommandsReal, RunLabels, TypeOK, Command
  <2>2. WorkerBlocked(t)
    OBVIOUS
  <2> QED
    BY <1>2, <2>1, <2>2 DEF WorkerBlocked
<1>4. Fetching = 0 /\ Freeing = 0 /\ Counted = 0
  <2>1. /\ Holding(FetchLabels) = {} /\ Holding(FreeLabels) = {}
        /\ Holding(CountedLabels) = {}
    BY <1>3 DEF Holding, FetchLabels, FreeLabels, CountedLabels
  <2> QED
    BY <2>1, FS_EmptySet DEF Fetching, Freeing, Counted
<1>5. main_pc \notin {"put_cmd", "post_read_sem", "increment", "lock_pending", "sim_lock"}
  BY <1>2 DEF MainBlocked
<1>6. inserted - fetched = sem_read /\ BufferDim = sem_write + (inserted - fetched)
  BY <1>0, <1>4, <1>5 DEF CountInv, MainAt, TypeOK
<1>7. LastCommand = inserted - exits
  BY <1>0, <1>5 DEF LastCommand, ExitsPut, MainAt, TypeOK
<1>8. Cardinality(Threads) \in Nat /\ Cardinality(Threads) > 0
  BY ThreadsCount
<1>9. CASE \E t \in Threads : pc[t] = "wait_read_sem"
  <2>1. inserted = fetched
    BY <1>0, <1>3, <1>6, <1>9 DEF TypeOK
  <2>2. main_pc # "wait_write_sem"
    BY <1>0, <1>6, <2>1, DimAssumption DEF MainBlocked, TypeOK
  <2>3. main_pc # "cond_wait"
    BY <1>0, <1>4, <1>5, <2>1 DEF PendingInv, ExitInv, Signalled, MainAt, TypeOK
  <2>4. main_pc # "join"
    <3>1. SUFFICES ASSUME main_pc = "join" PROVE FALSE
      OBVIOUS
    <3>2. Cardinality(ExitHolders) = Cardinality(Threads)
      BY <1>0, <1>7, <1>8, <2>1, <3>1 DEF ExitInv, TypeOK
    <3>3. ExitHolders = Threads
      BY <3>2, ThreadsAssumption, FS_Subset DEF ExitHolders
    <3> QED
      BY <1>3, <1>9, <3>3 DEF ExitHolders, RunLabels
  <2>5. main_pc \in {"read_line", "ended"}
    BY <1>5, <2>2, <2>3, <2>4 DEF MainBlocked
  <2>6. done = 1 .. inserted
    BY <1>0, <1>3, <2>1 DEF DoneInv, RunLabels
  <2> QED
    BY <2>5, <2>6 DEF Settled
<1>10. CASE \A t \in Threads : pc[t] = "returned"
  <2>1. ExitHolders = Threads
    BY <1>0, <1>10 DEF ExitHolders, ExitInv
  <2>2. exits >= Cardinality(Threads)
    BY <1>0, <1>7, <1>8, <2>1, WaitingBounds DEF ExitInv, TypeOK
  <2>3. main_op = Exit /\ main_pc \in {"join", "ended"}
    BY <1>0, <1>8, <2>2 DEF ExitInv, TypeOK
  <2>4. main_pc = "ended"
    BY <1>10, <2>3 DEF MainBlocked
  <2> QED
    BY <2>4, InvEnd DEF CleanExit, Settled
<1> QED
  BY <1>3, <1>9, <1>10

(* The pipeline is never stuck, whatever the number of workers and the size of
   the ring: as long as a command is not executed or main is
   not back at the user's line, a worker or main can go on. *)
THEOREM PipelineNeverStuck == Spec => []NeverStuck
<1>1. Init => CommandsReal /\ Signalled
  BY DEF Init, InitWith, CommandsReal, Signalled, RunLabels
<1>2. Inv => TypeOK
  BY DEF Inv
<1> QED
  BY <1>1, <1>2, RealStep, SignalledStep, InvNeverStuck, InvHolds, PTL DEF Spec
============================================================================
