--------------------------- MODULE HeatSimProofs ---------------------------
(***************************************************************************)
(* Proofs about heatSim for any number of threads, of rows and of          *)
(* iterations: the barrier of one counter and one condition variable keeps *)
(* the threads in the same half of the same iteration, so that no row      *)
(* mixes two, and all leave the loop alike.                                *)
(***************************************************************************)
EXTENDS HeatSim, FiniteSetTheorems, TLAPS

Early     == {"start", "while", "unlock", "woken2"}
Computing == {"compute", "lock", "wait1", "blocked1"}
Checking  == {"woken1", "check", "wait2", "blocked2"}
Left      == {"unlock_break", "fix_test", "fix_aux", "fix_matrix", "returned"}

Holding == {"wait1", "check", "wait2", "swap", "unlock", "unlock_break"}
MutexOK == \A t \in Threads : owner = t <=> pc[t] \in Holding

Blocked == {t \in Threads : pc[t] \in {"blocked1", "blocked2"}}
Counted == count = Cardinality(Blocked)

(* `result' is the buffer allocated first, and a thread returns only when the
   pointer is back at it. *)
Results ==
  /\ \A t \in Threads : result[t] = "first"
  /\ iterations = 0 => matrix = "first" /\ ~interrupt
  /\ \A t \in Threads : pc[t] = "returned" => matrix = "first"
  /\ iterations <= iter

AllInLoop == \A t \in Threads : pc[t] \notin Left
Stop      == iterations >= iter \/ interrupt
Old       == IF iterations = 0 THEN 0 ELSE iterations - 1

RowsOf(t)  == FirstRow(t) .. LastRow(t)
Written(t) == IF pc[t] = "compute" THEN FirstRow(t) .. row[t] - 1
              ELSE IF pc[t] \in Computing THEN RowsOf(t) ELSE {}

Filled(b, g) == \A r \in Rows : gen[b][r] = g
Ready        == matrix # matrix_aux /\ Filled(matrix, iterations)

(* From the swap to the broadcast of the first wait: each thread has computed
   the rows its place says and no other, and leaves only if all will. *)
InFirst(t) ==
  /\ pc[t] \in Early \cup Computing \cup Left
  /\ pc[t] = "start" => iterations = 0
  /\ pc[t] \in Early => it[t] = iter - iterations
  /\ pc[t] \in Computing => it[t] = iter - iterations - 1 /\ ~Stop
  /\ pc[t] = "compute" => row[t] \in RowsOf(t)
  /\ pc[t] \in Left => Stop
RowsDone(t) ==
  \A r \in RowsOf(t) :
    gen[matrix_aux][r] = IF r \in Written(t) THEN iterations + 1 ELSE Old

HalfOne ==
  /\ \A t \in Threads : InFirst(t)
  /\ AllInLoop => Ready /\ \A t \in Threads : RowsDone(t)
  /\ ~AllInLoop => /\ iterations > 0
                   /\ \A b \in Buffers : Filled(b, iterations - 1) \/ Filled(b, iterations)

(* From there to that of the second. *)
InSecond(t) ==
  /\ pc[t] \in Checking \cup Left
  /\ pc[t] \in Checking => it[t] = iter - iterations - 1
  /\ pc[t] \in {"wait2", "blocked2"} => iterations < limit
  /\ pc[t] \in Left => iterations >= limit

HalfTwo ==
  /\ iterations < iter
  /\ \A t \in Threads : InSecond(t)
  /\ AllInLoop => Ready /\ Filled(matrix_aux, iterations + 1)
  /\ \A b \in Buffers : Filled(b, iterations) \/ Filled(b, iterations + 1)

(* And from there to the swap: the last thread is alone. *)
Swapping ==
  /\ iterations < iter
  /\ \E t \in Threads : pc[t] = "swap" /\ \A u \in Threads \ {t} : pc[u] = "woken2"
  /\ \A t \in Threads : it[t] = iter - iterations - 1
  /\ Ready /\ Filled(matrix_aux, iterations + 1)

Phase == HalfOne \/ HalfTwo \/ Swapping

MainOK ==
  /\ main_pc = "join" => printed = NoOne /\ saved = NoFile
  /\ main_pc # "join" => /\ \A t \in Threads : pc[t] = "returned"
                         /\ printed = Whole("first")
  /\ main_pc = "save" => saved = NoFile
  /\ main_pc = "ended" => saved \in {NoFile, printed}

HeatInv == TypeOK /\ MutexOK /\ Counted /\ Results /\ Phase /\ MainOK

-----------------------------------------------------------------------------
(* The rows of the threads: all the rows, each of one thread. *)

LEMMA RowsInside ==
  ASSUME NEW t \in Threads
  PROVE  /\ FirstRow(t) \in Rows /\ LastRow(t) \in Rows /\ FirstRow(t) <= LastRow(t)
         /\ RowsOf(t) \subseteq Rows /\ Rows \subseteq Nat
<1>1. FirstRow(t) \in Rows /\ LastRow(t) \in Rows /\ FirstRow(t) <= LastRow(t)
  BY TrabAssumption DEF Threads, Rows, FirstRow, LastRow
<1>2. Trab * K \in Nat
  BY TrabAssumption
<1> QED
  BY <1>1, <1>2 DEF RowsOf, Rows

LEMMA RowsCovered ==
  ASSUME NEW r \in Rows
  PROVE  \E t \in Threads : r \in RowsOf(t)
<1> DEFINE q == (r - 1) \div K
<1>1. q \in Int /\ r - 1 = K * q + ((r - 1) % K) /\ (r - 1) % K \in 0 .. K - 1
  BY TrabAssumption DEF Rows
<1>2. q * K <= r - 1 /\ r - 1 < (q + 1) * K
  BY <1>1, TrabAssumption DEF Rows
<1> HIDE DEF q
<1>3. q >= 0
  <2> SUFFICES ASSUME q <= -1 PROVE FALSE
    BY <1>1
  <2>1. (q + 1) * K <= 0
    BY TrabAssumption, <1>1
  <2> QED
    BY <1>1, <1>2, <2>1, TrabAssumption DEF Rows
<1>4. q < Trab
  <2> SUFFICES ASSUME q >= Trab PROVE FALSE
    BY <1>1, TrabAssumption
  <2>1. q * K >= Trab * K
    BY TrabAssumption, <1>1
  <2> QED
    BY <1>1, <1>2, <2>1, TrabAssumption DEF Rows
<1>5. q + 1 \in Threads /\ r \in RowsOf(q + 1)
  BY <1>1, <1>2, <1>3, <1>4, TrabAssumption
  DEF Rows, Threads, FirstRow, LastRow, RowsOf
<1> QED
  BY <1>5

LEMMA RowsApart ==
  ASSUME NEW t \in Threads, NEW u \in Threads, t # u
  PROVE  RowsOf(t) \cap RowsOf(u) = {}
<1>1. ASSUME NEW x \in Threads, NEW y \in Threads, x < y
      PROVE  LastRow(x) < FirstRow(y)
  <2>1. x * K <= (y - 1) * K
    BY <1>1, TrabAssumption DEF Threads
  <2> QED
    BY <1>1, <2>1, TrabAssumption DEF Threads, FirstRow, LastRow
<1>2. t < u \/ u < t
  BY TrabAssumption DEF Threads
<1> QED
  BY <1>1, <1>2, RowsInside DEF RowsOf

LEMMA SomeRow == 1 \in Rows /\ 1 \in Threads
<1>1. Trab * K \in Nat \ {0}
  BY TrabAssumption
<1> QED
  BY <1>1, TrabAssumption DEF Rows, Threads

(* Two buffers: what is true of both pointers is true of both, when they
   differ. *)
LEMMA BothBuffers ==
  ASSUME TypeOK, matrix # matrix_aux
  PROVE  \A b \in Buffers : b = matrix \/ b = matrix_aux
BY DEF TypeOK, Buffers

-----------------------------------------------------------------------------
(* The counter. *)

LEMMA ThreadsFinite == IsFiniteSet(Threads) /\ Cardinality(Threads) = Trab
BY FS_Interval, TrabAssumption DEF Threads

LEMMA BlockedFinite == IsFiniteSet(Blocked) /\ Cardinality(Blocked) \in Nat
<1>1. IsFiniteSet(Blocked)
  BY ThreadsFinite, FS_Subset DEF Blocked
<1> QED
  BY <1>1, FS_CardinalityType

(* The thread that finds the others here is right. *)
LEMMA OthersBlocked ==
  ASSUME Counted, AllHere, NEW t \in Threads, t \notin Blocked
  PROVE  Blocked = Threads \ {t}
<1>1. IsFiniteSet(Threads \ {t}) /\ Cardinality(Threads \ {t}) = Trab - 1
  BY ThreadsFinite, FS_RemoveElement
<1>2. Blocked \in SUBSET (Threads \ {t})
  BY DEF Blocked
<1>3. Cardinality(Blocked) <= Trab - 1
  BY <1>1, <1>2, FS_Subset
<1>4. Cardinality(Blocked) = Trab - 1
  BY <1>3, BlockedFinite, TrabAssumption DEF Counted, AllHere
<1> QED
  BY <1>1, <1>2, <1>4, FS_Subset

(* Every step keeps the counter. *)
LEMMA CountedStep ==
  TypeOK /\ Counted /\ [Next]_vars => Counted'
<1> SUFFICES ASSUME TypeOK, Counted, [Next]_vars PROVE Counted'
  OBVIOUS
<1>1. ASSUME NEW t \in Threads, Start(t) PROVE Counted'
  <2>1. Blocked' = Blocked /\ count' = count
    BY <1>1 DEF Start, Goto, inputs, pointers, barrierVars, mainVars, Blocked, TypeOK
  <2> QED
    BY <2>1 DEF Counted
<1>2. ASSUME NEW t \in Threads, While(t) PROVE Counted'
  <2>1. Blocked' = Blocked /\ count' = count
    BY <1>2 DEF While, Goto, Another, inputs, pointers, barrierVars, mainVars, Blocked, TypeOK
  <2> QED
    BY <2>1 DEF Counted
<1>3. ASSUME NEW t \in Threads, ComputeRow(t) PROVE Counted'
  <2>1. Blocked' = Blocked /\ count' = count
    BY <1>3 DEF ComputeRow, Goto, inputs, pointers, barrierVars, mainVars, Blocked, TypeOK
  <2> QED
    BY <2>1 DEF Counted
<1>4. ASSUME NEW t \in Threads, BarrierLock(t) PROVE Counted'
  <2>1. Blocked' = Blocked /\ count' = count
    BY <1>4 DEF BarrierLock, Goto, inputs, pointers, locals, mainVars, Blocked, TypeOK
  <2> QED
    BY <2>1 DEF Counted
<1>5. ASSUME NEW t \in Threads, Wait1(t) PROVE Counted'
  <2> t \notin Blocked
    BY <1>5 DEF Wait1, BarrierWait, Blocked
  <2>1. CASE AllHere
    <3>1. Blocked' = {} /\ count' = 0
      BY <1>5, <2>1 DEF Wait1, BarrierWait, Broadcast, Blocked, TypeOK
    <3> QED
      BY <3>1, FS_EmptySet DEF Counted
  <2>2. CASE ~AllHere
    <3>1. Blocked' = Blocked \cup {t} /\ count' = count + 1
      BY <1>5, <2>2 DEF Wait1, BarrierWait, Blocked, TypeOK
    <3> QED
      BY <3>1, BlockedFinite, FS_AddElement DEF Counted
  <2> QED
    BY <2>1, <2>2
<1>6. ASSUME NEW t \in Threads, Wake1(t) PROVE Counted'
  <2>1. Blocked' = Blocked /\ count' = count
    BY <1>6 DEF Wake1, Relock, Goto, inputs, pointers, locals, mainVars, Blocked, TypeOK
  <2> QED
    BY <2>1 DEF Counted
<1>7. ASSUME NEW t \in Threads, Check(t) PROVE Counted'
  <2>1. Blocked' = Blocked /\ count' = count
    BY <1>7 DEF Check, Goto, Delimited, inputs, pointers, barrierVars, locals, mainVars, Blocked, TypeOK
  <2> QED
    BY <2>1 DEF Counted
<1>8. ASSUME NEW t \in Threads, Wait2(t) PROVE Counted'
  <2> t \notin Blocked
    BY <1>8 DEF Wait2, BarrierWait, Blocked
  <2>1. CASE AllHere
    <3>1. Blocked' = {} /\ count' = 0
      BY <1>8, <2>1 DEF Wait2, BarrierWait, Broadcast, Blocked, TypeOK
    <3> QED
      BY <3>1, FS_EmptySet DEF Counted
  <2>2. CASE ~AllHere
    <3>1. Blocked' = Blocked \cup {t} /\ count' = count + 1
      BY <1>8, <2>2 DEF Wait2, BarrierWait, Blocked, TypeOK
    <3> QED
      BY <3>1, BlockedFinite, FS_AddElement DEF Counted
  <2> QED
    BY <2>1, <2>2
<1>9. ASSUME NEW t \in Threads, Wake2(t) PROVE Counted'
  <2>1. Blocked' = Blocked /\ count' = count
    BY <1>9 DEF Wake2, Relock, Goto, inputs, pointers, locals, mainVars, Blocked, TypeOK
  <2> QED
    BY <2>1 DEF Counted
<1>10. ASSUME NEW t \in Threads, Swap(t) PROVE Counted'
  <2>1. Blocked' = Blocked /\ count' = count
    BY <1>10 DEF Swap, Goto, SwapPointers, inputs, barrierVars, locals, mainVars, Blocked, TypeOK
  <2> QED
    BY <2>1 DEF Counted
<1>11. ASSUME NEW t \in Threads, BarrierUnlock(t) PROVE Counted'
  <2>1. Blocked' = Blocked /\ count' = count
    BY <1>11 DEF BarrierUnlock, Goto, inputs, pointers, locals, mainVars, Blocked, TypeOK
  <2> QED
    BY <2>1 DEF Counted
<1>12. ASSUME NEW t \in Threads, FixTest(t) PROVE Counted'
  <2>1. Blocked' = Blocked /\ count' = count
    BY <1>12 DEF FixTest, Goto, inputs, pointers, barrierVars, locals, mainVars, Blocked, TypeOK
  <2> QED
    BY <2>1 DEF Counted
<1>13. ASSUME NEW t \in Threads, FixAux(t) PROVE Counted'
  <2>1. Blocked' = Blocked /\ count' = count
    BY <1>13 DEF FixAux, Goto, inputs, barrierVars, locals, mainVars, Blocked, TypeOK
  <2> QED
    BY <2>1 DEF Counted
<1>14. ASSUME NEW t \in Threads, FixMatrix(t) PROVE Counted'
  <2>1. Blocked' = Blocked /\ count' = count
    BY <1>14 DEF FixMatrix, Goto, inputs, barrierVars, locals, mainVars, Blocked, TypeOK
  <2> QED
    BY <2>1 DEF Counted
<1>15. ASSUME Interrupt PROVE Counted'
  <2>1. Blocked' = Blocked /\ count' = count
    BY <1>15 DEF Interrupt, inputs, pointers, barrierVars, locals, mainVars, Blocked, TypeOK
  <2> QED
    BY <2>1 DEF Counted
<1>16. ASSUME ShowResult PROVE Counted'
  <2>1. Blocked' = Blocked /\ count' = count
    BY <1>16 DEF ShowResult, inputs, pointers, barrierVars, locals, Blocked, TypeOK
  <2> QED
    BY <2>1 DEF Counted
<1>17. ASSUME Save PROVE Counted'
  <2>1. Blocked' = Blocked /\ count' = count
    BY <1>17 DEF Save, inputs, pointers, barrierVars, locals, Blocked, TypeOK
  <2> QED
    BY <2>1 DEF Counted
<1>18. ASSUME Ended PROVE Counted'
  <2>1. Blocked' = Blocked /\ count' = count
    BY <1>18 DEF Ended, vars, Blocked, TypeOK
  <2> QED
    BY <2>1 DEF Counted
<1>19. CASE UNCHANGED vars
  BY <1>19 DEF vars, Counted, Blocked
<1> QED
  BY <1>1, <1>2, <1>3, <1>4, <1>5, <1>6, <1>7, <1>8, <1>9, <1>10, <1>11, <1>12,
    <1>13, <1>14, <1>15, <1>16, <1>17, <1>18, <1>19 DEF Next, Worker

(* Every step keeps the mutex with the thread that says so. *)
LEMMA MutexStep ==
  TypeOK /\ MutexOK /\ [Next]_vars => MutexOK'
<1> SUFFICES ASSUME TypeOK, MutexOK, [Next]_vars PROVE MutexOK'
  OBVIOUS
<1> USE DEF MutexOK, Holding, TypeOK
<1> NoOne \notin Threads
  BY NobodyAssumption, TrabAssumption DEF Threads
<1>1. ASSUME NEW t \in Threads, Start(t) PROVE MutexOK'
  BY <1>1, NobodyAssumption DEF Start, Goto, inputs, pointers, barrierVars,
    mainVars
<1>2. ASSUME NEW t \in Threads, While(t) PROVE MutexOK'
  BY <1>2, NobodyAssumption DEF While, Goto, Another, inputs, pointers,
    barrierVars, mainVars
<1>3. ASSUME NEW t \in Threads, ComputeRow(t) PROVE MutexOK'
  BY <1>3, NobodyAssumption DEF ComputeRow, Goto, inputs, pointers,
    barrierVars, mainVars
<1>4. ASSUME NEW t \in Threads, BarrierLock(t) PROVE MutexOK'
  BY <1>4, NobodyAssumption DEF BarrierLock, Goto, inputs, pointers, locals,
    mainVars
<1>5. ASSUME NEW t \in Threads, Wait1(t) PROVE MutexOK'
  <2>1. pc[t] = "wait1" /\ owner = t /\ \A u \in Threads \ {t} : pc[u] \notin Holding
    BY <1>5 DEF Wait1, BarrierWait
  <2>2. CASE AllHere
    <3>1. owner' = t /\ pc' = Broadcast(t, "check")
      BY <1>5, <2>1, <2>2 DEF Wait1, BarrierWait
    <3>2. pc'[t] = "check" /\ \A u \in Threads \ {t} : pc'[u] \notin Holding
      BY <2>1, <3>1 DEF Broadcast
    <3> QED
      BY <3>1, <3>2
  <2>3. CASE ~AllHere
    <3>1. owner' = NoOne /\ pc' = [pc EXCEPT ![t] = "blocked1"]
      BY <1>5, <2>3 DEF Wait1, BarrierWait
    <3>2. \A u \in Threads : pc'[u] \notin Holding
      BY <2>1, <3>1
    <3> QED
      BY <3>1, <3>2
  <2> QED
    BY <2>2, <2>3
<1>6. ASSUME NEW t \in Threads, Wake1(t) PROVE MutexOK'
  BY <1>6, NobodyAssumption DEF Wake1, Relock, Goto, inputs, pointers, locals,
    mainVars
<1>7. ASSUME NEW t \in Threads, Check(t) PROVE MutexOK'
  BY <1>7, NobodyAssumption DEF Check, Goto, Delimited, inputs, pointers,
    barrierVars, locals, mainVars
<1>8. ASSUME NEW t \in Threads, Wait2(t) PROVE MutexOK'
  <2>1. pc[t] = "wait2" /\ owner = t /\ \A u \in Threads \ {t} : pc[u] \notin Holding
    BY <1>8 DEF Wait2, BarrierWait
  <2>2. CASE AllHere
    <3>1. owner' = t /\ pc' = Broadcast(t, "swap")
      BY <1>8, <2>1, <2>2 DEF Wait2, BarrierWait
    <3>2. pc'[t] = "swap" /\ \A u \in Threads \ {t} : pc'[u] \notin Holding
      BY <2>1, <3>1 DEF Broadcast
    <3> QED
      BY <3>1, <3>2
  <2>3. CASE ~AllHere
    <3>1. owner' = NoOne /\ pc' = [pc EXCEPT ![t] = "blocked2"]
      BY <1>8, <2>3 DEF Wait2, BarrierWait
    <3>2. \A u \in Threads : pc'[u] \notin Holding
      BY <2>1, <3>1
    <3> QED
      BY <3>1, <3>2
  <2> QED
    BY <2>2, <2>3
<1>9. ASSUME NEW t \in Threads, Wake2(t) PROVE MutexOK'
  BY <1>9, NobodyAssumption DEF Wake2, Relock, Goto, inputs, pointers, locals,
    mainVars
<1>10. ASSUME NEW t \in Threads, Swap(t) PROVE MutexOK'
  BY <1>10, NobodyAssumption DEF Swap, Goto, SwapPointers, inputs, barrierVars,
    locals, mainVars
<1>11. ASSUME NEW t \in Threads, BarrierUnlock(t) PROVE MutexOK'
  BY <1>11, NobodyAssumption DEF BarrierUnlock, Goto, inputs, pointers, locals,
    mainVars
<1>12. ASSUME NEW t \in Threads, FixTest(t) PROVE MutexOK'
  BY <1>12, NobodyAssumption DEF FixTest, Goto, inputs, pointers, barrierVars,
    locals, mainVars
<1>13. ASSUME NEW t \in Threads, FixAux(t) PROVE MutexOK'
  BY <1>13, NobodyAssumption DEF FixAux, Goto, inputs, barrierVars, locals,
    mainVars
<1>14. ASSUME NEW t \in Threads, FixMatrix(t) PROVE MutexOK'
  BY <1>14, NobodyAssumption DEF FixMatrix, Goto, inputs, barrierVars, locals,
    mainVars
<1>15. ASSUME Interrupt PROVE MutexOK'
  BY <1>15, NobodyAssumption DEF Interrupt, inputs, pointers, barrierVars,
    locals, mainVars
<1>16. ASSUME ShowResult PROVE MutexOK'
  BY <1>16, NobodyAssumption DEF ShowResult, inputs, pointers, barrierVars,
    locals
<1>17. ASSUME Save PROVE MutexOK'
  BY <1>17, NobodyAssumption DEF Save, inputs, pointers, barrierVars, locals
<1>18. ASSUME Ended PROVE MutexOK'
  BY <1>18, NobodyAssumption DEF Ended, vars
<1>19. CASE UNCHANGED vars
  BY <1>19, NobodyAssumption DEF vars
<1> QED
  BY <1>1, <1>2, <1>3, <1>4, <1>5, <1>6, <1>7, <1>8, <1>9, <1>10, <1>11, <1>12,
    <1>13, <1>14, <1>15, <1>16, <1>17, <1>18, <1>19 DEF Next, Worker

-----------------------------------------------------------------------------
(* The halves of an iteration. *)

(* The label of a thread tells the half that all are in. *)
LEMMA WhichHalf ==
  ASSUME Phase, NEW t \in Threads
  PROVE  /\ pc[t] \in Computing \cup {"start", "while", "unlock"} => HalfOne
         /\ pc[t] \in Checking => HalfTwo
         /\ pc[t] = "swap" => Swapping /\ \A u \in Threads \ {t} : pc[u] = "woken2"
         /\ pc[t] = "woken2" => HalfOne \/ Swapping
         /\ pc[t] \in Left => HalfOne \/ HalfTwo
BY DEF Phase, HalfOne, HalfTwo, Swapping, InFirst, InSecond,
       Early, Computing, Checking, Left

(* Who computes has ended no loop: all are in it, and both pointers are right. *)
LEMMA ComputingReady ==
  ASSUME HalfOne, NEW t \in Threads, pc[t] \in Computing
  PROVE  ~Stop /\ AllInLoop /\ Ready /\ \A u \in Threads : RowsDone(u)
BY DEF HalfOne, InFirst, AllInLoop

(* The value of a row, then: one more than those around it. *)
LEMMA ComputedRow ==
  ASSUME TypeOK, Phase, NEW t \in Threads, ComputeRow(t)
  PROVE  /\ HalfOne /\ row[t] \in RowsOf(t)
         /\ gen' = [gen EXCEPT ![matrix_aux][row[t]] = iterations + 1]
<1>1. pc[t] = "compute" /\ HalfOne
  BY WhichHalf DEF ComputeRow, Goto, Computing
<1>2. Ready /\ row[t] \in RowsOf(t) /\ row[t] \in Rows
  BY <1>1, ComputingReady, RowsInside DEF HalfOne, InFirst, Computing
<1> DEFINE sources == {gen[matrix][r] : r \in Around(row[t])}
<1>3. sources = {iterations}
  <2>1. row[t] \in Around(row[t])
    BY <1>2, RowsInside DEF Around
  <2>2. \A r \in Around(row[t]) : gen[matrix][r] = iterations
    BY <1>2 DEF Around, Ready, Filled
  <2> QED
    BY <2>1, <2>2
<1>4. Cardinality(sources) = 1
  BY <1>3, FS_Singleton
<1>5. Torn \notin sources
  <2>1. iterations \in Nat
    BY DEF TypeOK
  <2>2. iterations # -1
    BY <2>1
  <2> QED
    BY <1>3, <2>2 DEF Torn
<1>6. gen[matrix][row[t]] = iterations
  BY <1>2 DEF Ready, Filled
<1> QED
  BY <1>1, <1>2, <1>4, <1>5, <1>6 DEF ComputeRow

(* When nobody computes and nobody has left, each buffer is of one
   generation. *)
LEMMA NobodyComputes ==
  ASSUME TypeOK, HalfOne, AllInLoop, iterations > 0,
         \A t \in Threads : pc[t] \notin Computing
  PROVE  \A b \in Buffers : Filled(b, iterations - 1) \/ Filled(b, iterations)
<1>1. Filled(matrix_aux, iterations - 1)
  <2> SUFFICES ASSUME NEW r \in Rows PROVE gen[matrix_aux][r] = iterations - 1
    BY DEF Filled
  <2>1. PICK t \in Threads : r \in RowsOf(t)
    BY RowsCovered
  <2>2. Written(t) = {} /\ RowsDone(t)
    BY DEF Written, HalfOne, Computing
  <2> QED
    BY <2>1, <2>2 DEF RowsDone, Old
<1> QED
  BY <1>1, BothBuffers DEF HalfOne, Ready

(* And when all have computed, the second buffer is one further. *)
LEMMA AllComputed ==
  ASSUME \A t \in Threads : RowsDone(t) /\ Written(t) = RowsOf(t)
  PROVE  Filled(matrix_aux, iterations + 1)
BY RowsCovered DEF RowsDone, Filled

LEMMA StopsAlike ==
  ASSUME TypeOK, HalfOne, NEW t \in Threads, pc[t] = "while"
  PROVE  Another(t) <=> ~Stop
BY DEF HalfOne, InFirst, Early, Another, Stop, TypeOK

(* dm2dDelimited says the same to all, whatever those who left have made of
   the pointers. *)
LEMMA DelimitedAlike ==
  ASSUME TypeOK, HalfTwo
  PROVE  Delimited <=> iterations >= limit
<1>1. CASE AllInLoop
  <2>1. gen[matrix][1] = iterations /\ gen[matrix_aux][1] = iterations + 1
    BY <1>1, SomeRow DEF HalfTwo, Ready, Filled
  <2> QED
    BY <2>1 DEF Delimited, TypeOK
<1>2. CASE ~AllInLoop
  <2>1. iterations >= limit
    BY <1>2 DEF AllInLoop, HalfTwo, InSecond
  <2>2. /\ gen[matrix][1] \in {iterations, iterations + 1}
        /\ gen[matrix_aux][1] \in {iterations, iterations + 1}
    BY SomeRow DEF HalfTwo, Filled, TypeOK
  <2> QED
    BY <2>1, <2>2 DEF Delimited, TypeOK
<1> QED
  BY <1>1, <1>2

(* The halves are told by these variables alone. *)
LEMMA PhaseOfState ==
  ASSUME Phase, UNCHANGED <<inputs, pointers, gen, pc, locals, interrupt, iterations>>
  PROVE  Phase'
<1>1. ASSUME NEW t \in Threads
      PROVE  /\ InFirst(t)' <=> InFirst(t)
             /\ InSecond(t)' <=> InSecond(t)
             /\ RowsDone(t)' <=> RowsDone(t)
  BY DEF InFirst, InSecond, RowsDone, Written, RowsOf, Stop, Old, inputs, pointers, locals
<1>2. (AllInLoop' <=> AllInLoop) /\ (Ready' <=> Ready)
  BY DEF AllInLoop, Ready, Filled, pointers
<1>3. HalfOne => HalfOne'
  BY <1>1, <1>2 DEF HalfOne, Filled
<1>4. HalfTwo => HalfTwo'
  BY <1>1, <1>2 DEF HalfTwo, Filled, inputs, pointers
<1>5. Swapping => Swapping'
  BY <1>2 DEF Swapping, Filled, inputs, pointers, locals
<1> QED
  BY <1>3, <1>4, <1>5 DEF Phase

(* Every step leaves all the threads in one half of one iteration. *)
LEMMA PhaseStep ==
  TypeOK /\ MutexOK /\ Counted /\ Results /\ Phase /\ [Next]_vars => Phase'
<1> SUFFICES ASSUME TypeOK, MutexOK, Counted, Results, Phase, [Next]_vars PROVE
  Phase'
  OBVIOUS
<1>1. ASSUME NEW t \in Threads, Start(t) PROVE Phase'
  <2>1. HalfOne
    BY <1>1, WhichHalf DEF Start, Goto, Computing
  <2>2. HalfOne'
    BY <1>1, <2>1 DEF Start, Goto, TypeOK, inputs, pointers, HalfOne, InFirst,
      AllInLoop, Ready, RowsDone, Written, Filled, Old, Stop, Early, Computing, Left
  <2> QED
    BY <2>2 DEF Phase
<1>2. ASSUME NEW t \in Threads, While(t) PROVE Phase'
  <2>1. HalfOne
    BY <1>2, WhichHalf DEF While, Goto, Computing
  <2>2. /\ pc[t] = "while" /\ pc' = [pc EXCEPT ![t] = IF Stop THEN "fix_test" ELSE "compute"]
        /\ it' = [it EXCEPT ![t] = it[t] - 1] /\ row' = [row EXCEPT ![t] = FirstRow(t)]
        /\ UNCHANGED <<inputs, pointers, gen, interrupt, iterations>>
    <3>1. pc[t] = "while"
      BY <1>2 DEF While, Goto
    <3>2. Another(t) <=> ~Stop
      BY <2>1, <3>1, StopsAlike
    <3>3. (IF Another(t) THEN "compute" ELSE "fix_test") = IF Stop THEN "fix_test" ELSE "compute"
      BY <3>2
    <3> QED
      BY <1>2, <3>1, <3>3 DEF While, Goto
  <2>3. ASSUME NEW u \in Threads PROVE InFirst(u)'
    <3>1. FirstRow(t) \in RowsOf(t)
      BY RowsInside DEF RowsOf
    <3>2. CASE u = t
      <4>1. pc'[t] \in {"compute", "fix_test"} /\ it'[t] = it[t] - 1 /\ row'[t] = FirstRow(t)
        BY <2>2 DEF TypeOK
      <4>2. it[t] = iter - iterations /\ (pc'[t] = "fix_test" <=> Stop)
        BY <2>1, <2>2 DEF HalfOne, InFirst, Early, TypeOK
      <4>3. Stop' <=> Stop
        BY <2>2 DEF Stop, inputs
      <4> QED
        BY <2>2, <3>1, <3>2, <4>1, <4>2, <4>3
        DEF InFirst, Early, Computing, Left, inputs, RowsOf
    <3>3. CASE u # t
      <4>1. pc'[u] = pc[u] /\ it'[u] = it[u] /\ row'[u] = row[u]
        BY <2>2, <3>3 DEF TypeOK
      <4> QED
        BY <2>1, <2>2, <4>1 DEF HalfOne, InFirst, Stop, inputs, RowsOf
    <3> QED
      BY <3>2, <3>3
  <2>4. CASE Stop
    <3>1. iterations > 0
      BY <2>4 DEF TypeOK, Results, Stop
    <3>2. \A u \in Threads : pc[u] \notin Computing
      BY <2>1, <2>4 DEF HalfOne, InFirst
    <3>3. \A b \in Buffers : Filled(b, iterations - 1) \/ Filled(b, iterations)
      BY <2>1, <3>1, <3>2, NobodyComputes DEF HalfOne
    <3>4. ~AllInLoop'
      BY <2>2, <2>4 DEF AllInLoop, Left, TypeOK
    <3> QED
      BY <2>2, <2>3, <3>1, <3>3, <3>4 DEF HalfOne, Phase, Filled
  <2>5. CASE ~Stop
    <3>1. AllInLoop /\ AllInLoop'
      BY <2>1, <2>2, <2>5 DEF HalfOne, InFirst, AllInLoop, Left, TypeOK
    <3>2. ASSUME NEW u \in Threads PROVE Written(u)' = Written(u)
      <4>1. FirstRow(t) .. FirstRow(t) - 1 = {}
        BY RowsInside
      <4> QED
        BY <2>2, <2>5, <4>1 DEF Written, Computing, TypeOK
    <3>3. Ready' /\ \A u \in Threads : RowsDone(u)'
      BY <2>1, <2>2, <3>1, <3>2 DEF HalfOne, Ready, Filled, RowsDone, Old, pointers
    <3> QED
      BY <2>3, <3>1, <3>3 DEF HalfOne, Phase
  <2> QED
    BY <2>4, <2>5
<1>3. ASSUME NEW t \in Threads, ComputeRow(t) PROVE Phase'
  <2> DEFINE i == row[t]
  <2>1. /\ HalfOne /\ i \in RowsOf(t) /\ i \in Rows
        /\ gen' = [gen EXCEPT ![matrix_aux][i] = iterations + 1]
    BY <1>3, ComputedRow, RowsInside
  <2>2. /\ pc[t] = "compute"
        /\ pc' = [pc EXCEPT ![t] = IF i < LastRow(t) THEN "compute" ELSE "lock"]
        /\ row' = [row EXCEPT ![t] = i + 1]
        /\ UNCHANGED <<inputs, pointers, it, interrupt, iterations>>
    BY <1>3 DEF ComputeRow, Goto
  <2>3. AllInLoop /\ AllInLoop' /\ Ready /\ (\A u \in Threads : RowsDone(u)) /\ ~Stop
    BY <2>1, <2>2, ComputingReady DEF AllInLoop, Left, Computing, TypeOK
  <2>4. FirstRow(t) \in Nat /\ LastRow(t) \in Nat /\ i \in FirstRow(t) .. LastRow(t)
    BY <2>1, RowsInside DEF RowsOf
  <2>5. ASSUME NEW u \in Threads PROVE InFirst(u)'
    <3>1. i < LastRow(t) => i + 1 \in RowsOf(t)
      BY <2>4 DEF RowsOf
    <3> QED
      BY <2>1, <2>2, <2>3, <3>1 DEF TypeOK, HalfOne, InFirst, Stop, Early, Computing,
        Left, inputs, RowsOf
  <2>6. Ready'
    BY <2>1, <2>2, <2>3 DEF Ready, Filled, TypeOK, pointers
  <2>7. ASSUME NEW u \in Threads, NEW r \in RowsOf(u)
        PROVE  gen'[matrix_aux'][r] = IF r \in Written(u)' THEN iterations' + 1 ELSE Old'
    <3>1. r \in Rows
      BY RowsInside
    <3>2. gen[matrix_aux][r] = IF r \in Written(u) THEN iterations + 1 ELSE Old
      BY <2>3 DEF RowsDone
    <3>3. gen'[matrix_aux'][r] = IF r = i THEN iterations + 1 ELSE gen[matrix_aux][r]
      BY <2>1, <2>2, <3>1 DEF TypeOK, pointers
    <3>4. r \in Written(u)' <=> r = i \/ r \in Written(u)
      <4>1. CASE u = t
        <5>1. Written(t) = FirstRow(t) .. i - 1
          BY <2>2 DEF Written
        <5>2. Written(t)' = FirstRow(t) .. i
          BY <2>2, <2>4 DEF Written, Computing, TypeOK, RowsOf
        <5> QED
          BY <2>4, <4>1, <5>1, <5>2 DEF RowsOf
      <4>2. CASE u # t
        <5>1. r # i
          BY <2>1, <4>2, RowsApart
        <5>2. Written(u)' = Written(u)
          BY <2>2, <4>2 DEF Written, TypeOK, RowsOf
        <5> QED
          BY <5>1, <5>2
      <4> QED
        BY <4>1, <4>2
    <3> QED
      BY <2>2, <3>2, <3>3, <3>4 DEF Old
  <2> QED
    BY <2>3, <2>5, <2>6, <2>7 DEF HalfOne, Phase, RowsDone, RowsOf
<1>4. ASSUME NEW t \in Threads, BarrierLock(t) PROVE Phase'
  <2>1. HalfOne
    BY <1>4, WhichHalf DEF BarrierLock, Goto, Computing
  <2>2. ASSUME NEW u \in Threads PROVE Written(u)' = Written(u) /\ InFirst(u)'
    BY <1>4, <2>1 DEF BarrierLock, Goto, TypeOK, inputs, locals, HalfOne, InFirst, Stop,
      Written, Early, Computing, Left, RowsOf
  <2>3. AllInLoop' <=> AllInLoop
    BY <1>4 DEF BarrierLock, Goto, AllInLoop, Left, TypeOK
  <2> QED
    BY <1>4, <2>1, <2>2, <2>3 DEF BarrierLock, Phase, HalfOne, Ready, RowsDone, Filled, Old,
      inputs, pointers
<1>5. ASSUME NEW t \in Threads, Wait1(t) PROVE Phase'
  <2>1. HalfOne /\ pc[t] = "wait1" /\ t \notin Blocked
    BY <1>5, WhichHalf DEF Wait1, BarrierWait, Computing, Blocked
  <2>2. AllInLoop /\ Ready /\ (\A u \in Threads : RowsDone(u)) /\ ~Stop
    BY <2>1, ComputingReady DEF Computing
  <2>3. CASE ~AllHere
    <3>1. pc' = [pc EXCEPT ![t] = "blocked1"]
      BY <1>5, <2>3 DEF Wait1, BarrierWait
    <3>2. ASSUME NEW u \in Threads PROVE Written(u)' = Written(u) /\ InFirst(u)'
      BY <1>5, <2>1, <3>1 DEF Wait1, BarrierWait, TypeOK, inputs, locals, HalfOne, InFirst,
        Stop, Written, Early, Computing, Left, RowsOf
    <3>3. AllInLoop'
      BY <2>2, <3>1 DEF AllInLoop, Left, TypeOK
    <3> QED
      BY <1>5, <2>1, <2>2, <3>2, <3>3 DEF Wait1, BarrierWait, Phase, HalfOne, Ready,
        RowsDone, Filled, Old, inputs, pointers
  <2>4. CASE AllHere
    <3>1. \A u \in Threads \ {t} : pc[u] = "blocked1"
      <4>1. \A u \in Threads \ {t} : u \in Blocked
        BY <2>1, <2>4, OthersBlocked
      <4> QED
        BY <2>1, <4>1 DEF HalfOne, InFirst, Blocked, Early, Computing, Left
    <3>2. /\ pc'[t] = "check" /\ \A u \in Threads \ {t} : pc'[u] = "woken1"
          /\ UNCHANGED <<inputs, pointers, gen, it, iterations>>
      BY <1>5, <2>4, <3>1 DEF Wait1, BarrierWait, Broadcast, locals
    <3>3. ASSUME NEW u \in Threads PROVE it[u] = iter - iterations - 1 /\ Written(u) = RowsOf(u)
      BY <2>1, <3>1 DEF HalfOne, InFirst, Computing, Written
    <3>4. ASSUME NEW u \in Threads PROVE InSecond(u)'
      BY <3>2, <3>3 DEF InSecond, Checking, Left, inputs
    <3>5. Filled(matrix_aux, iterations + 1)
      BY <2>2, <3>3, AllComputed
    <3>6. \A b \in Buffers : Filled(b, iterations) \/ Filled(b, iterations + 1)
      BY <2>2, <3>5, BothBuffers DEF Ready
    <3>7. iterations < iter
      BY <2>2 DEF Stop, TypeOK
    <3> QED
      BY <2>2, <3>2, <3>4, <3>5, <3>6, <3>7
      DEF Phase, HalfTwo, Ready, Filled, inputs, pointers
  <2> QED
    BY <2>3, <2>4
<1>6. ASSUME NEW t \in Threads, Wake1(t) PROVE Phase'
  <2>1. HalfTwo
    BY <1>6, WhichHalf DEF Wake1, Goto, Relock, BarrierWait, Checking
  <2>2. ASSUME NEW u \in Threads PROVE InSecond(u)'
    BY <1>6, <2>1 DEF Wake1, Goto, Relock, BarrierWait, TypeOK, inputs, locals,
      HalfTwo, InSecond, Checking, Left
  <2>3. AllInLoop' => AllInLoop
    BY <1>6 DEF Wake1, Goto, Relock, BarrierWait, AllInLoop, Left, TypeOK
  <2> QED
    BY <1>6, <2>1, <2>2, <2>3 DEF Wake1, Relock, BarrierWait, Phase, HalfTwo, Ready, Filled,
      inputs, pointers
<1>7. ASSUME NEW t \in Threads, Check(t) PROVE Phase'
  <2>1. HalfTwo
    BY <1>7, WhichHalf DEF Check, Goto, Relock, BarrierWait, Checking
  <2>2. ASSUME NEW u \in Threads PROVE InSecond(u)'
    BY <1>7, <2>1, DelimitedAlike DEF Check, Goto, Relock, BarrierWait, TypeOK, inputs, locals,
      HalfTwo, InSecond, Checking, Left
  <2>3. AllInLoop' => AllInLoop
    BY <1>7 DEF Check, Goto, Relock, BarrierWait, AllInLoop, Left, TypeOK
  <2> QED
    BY <1>7, <2>1, <2>2, <2>3 DEF Check, Relock, BarrierWait, Phase, HalfTwo, Ready, Filled,
      inputs, pointers
<1>8. ASSUME NEW t \in Threads, Wait2(t) PROVE Phase'
  <2>1. HalfTwo /\ pc[t] = "wait2" /\ t \notin Blocked
    BY <1>8, WhichHalf DEF Wait2, BarrierWait, Checking, Blocked
  <2>2. AllInLoop /\ Ready /\ Filled(matrix_aux, iterations + 1)
    BY <2>1 DEF HalfTwo, InSecond, AllInLoop, TypeOK
  <2>3. CASE ~AllHere
    <3>1. pc' = [pc EXCEPT ![t] = "blocked2"]
      BY <1>8, <2>3 DEF Wait2, BarrierWait
    <3>2. ASSUME NEW u \in Threads PROVE InSecond(u)'
      BY <1>8, <2>1, <3>1 DEF Wait2, BarrierWait, TypeOK, inputs, locals, HalfTwo,
        InSecond, Checking, Left
    <3> QED
      BY <1>8, <2>1, <2>2, <3>2 DEF Wait2, BarrierWait, Phase, HalfTwo, Ready, Filled,
        inputs, pointers
  <2>4. CASE AllHere
    <3>1. \A u \in Threads \ {t} : pc[u] = "blocked2"
      <4>1. \A u \in Threads \ {t} : u \in Blocked
        BY <2>1, <2>4, OthersBlocked
      <4> QED
        BY <2>1, <4>1 DEF HalfTwo, InSecond, Blocked, Checking, Left
    <3>2. /\ pc'[t] = "swap" /\ \A u \in Threads \ {t} : pc'[u] = "woken2"
          /\ UNCHANGED <<inputs, pointers, gen, it, iterations>>
      BY <1>8, <2>4, <3>1 DEF Wait2, BarrierWait, Broadcast, locals
    <3>3. \A u \in Threads : it[u] = iter - iterations - 1
      BY <2>1, <3>1 DEF HalfTwo, InSecond, Checking
    <3> QED
      BY <2>1, <2>2, <3>2, <3>3
      DEF Phase, HalfTwo, Swapping, Ready, Filled, inputs, pointers
  <2> QED
    BY <2>3, <2>4
<1>9. ASSUME NEW t \in Threads, Wake2(t) PROVE Phase'
  <2>1. HalfOne
    <3>1. pc[t] = "woken2" /\ owner = NoOne
      BY <1>9 DEF Wake2, Relock, Goto
    <3>2. ~Swapping
      <4> SUFFICES ASSUME NEW u \in Threads, pc[u] = "swap" PROVE FALSE
        BY DEF Swapping
      <4>1. owner = u
        BY DEF MutexOK, Holding
      <4> QED
        BY <3>1, <4>1, NobodyAssumption, TrabAssumption DEF Threads
    <3> QED
      BY <3>1, <3>2, WhichHalf
  <2>2. ASSUME NEW u \in Threads PROVE Written(u)' = Written(u) /\ InFirst(u)'
    BY <1>9, <2>1 DEF Wake2, Relock, Goto, TypeOK, inputs, locals, HalfOne, InFirst, Stop,
      Written, Early, Computing, Left, RowsOf
  <2>3. AllInLoop' <=> AllInLoop
    BY <1>9 DEF Wake2, Relock, Goto, AllInLoop, Left, TypeOK
  <2> QED
    BY <1>9, <2>1, <2>2, <2>3 DEF Wake2, Relock, Phase, HalfOne, Ready, RowsDone, Filled, Old,
      inputs, pointers
<1>10. ASSUME NEW t \in Threads, Swap(t) PROVE Phase'
  <2>1. /\ pc[t] = "swap" /\ pc' = [pc EXCEPT ![t] = "unlock"]
        /\ iterations' = iterations + 1
        /\ matrix' = matrix_aux /\ matrix_aux' = matrix
        /\ UNCHANGED <<inputs, gen, it, row>>
    BY <1>10 DEF Swap, Goto, SwapPointers, locals
  <2>2. Swapping /\ \A u \in Threads \ {t} : pc[u] = "woken2"
    BY <2>1, WhichHalf
  <2>3. ASSUME NEW u \in Threads PROVE pc'[u] \in {"unlock", "woken2"}
    BY <2>1, <2>2 DEF TypeOK
  <2>4. ASSUME NEW u \in Threads PROVE InFirst(u)'
    BY <2>1, <2>2, <2>3 DEF Swapping, InFirst, Early, Computing, Left, inputs, TypeOK
  <2>5. AllInLoop'
    BY <2>3 DEF AllInLoop, Left
  <2>6. Ready'
    BY <2>1, <2>2 DEF Swapping, Ready, Filled
  <2>7. ASSUME NEW u \in Threads, NEW r \in RowsOf(u)
        PROVE  gen'[matrix_aux'][r] = IF r \in Written(u)' THEN iterations' + 1 ELSE Old'
    <3>1. gen[matrix][r] = iterations
      BY <2>2, RowsInside DEF Swapping, Ready, Filled
    <3>2. Written(u)' = {}
      BY <2>3 DEF Written, Computing
    <3>3. Old' = iterations
      BY <2>1 DEF Old, TypeOK
    <3> QED
      BY <2>1, <3>1, <3>2, <3>3
  <2> QED
    BY <2>4, <2>5, <2>6, <2>7 DEF HalfOne, Phase, RowsDone, RowsOf
<1>11. ASSUME NEW t \in Threads, BarrierUnlock(t) PROVE Phase'
  <2>1. CASE Goto(t, "unlock", "while")
    <3>1. HalfOne
      BY <1>11, <2>1, WhichHalf DEF Goto, Computing
    <3>2. ASSUME NEW u \in Threads PROVE Written(u)' = Written(u) /\ InFirst(u)'
      BY <1>11, <2>1, <3>1 DEF BarrierUnlock, Goto, TypeOK, inputs, locals, HalfOne, InFirst, Stop,
        Written, Early, Computing, Left, RowsOf
    <3>3. AllInLoop' <=> AllInLoop
      BY <1>11, <2>1 DEF BarrierUnlock, Goto, AllInLoop, Left, TypeOK
    <3> QED
      BY <1>11, <2>1, <3>1, <3>2, <3>3 DEF BarrierUnlock, Phase, HalfOne, Ready, RowsDone, Filled, Old,
        inputs, pointers
  <2>2. CASE Goto(t, "unlock_break", "fix_test")
    <3>1. HalfOne \/ HalfTwo
      BY <2>2, WhichHalf DEF Goto, Left
    <3>2. ~AllInLoop /\ ~AllInLoop'
      BY <2>2 DEF Goto, AllInLoop, Left, TypeOK
    <3>3. \A u \in Threads : pc'[u] = pc[u] \/ (pc[u] \in Left /\ pc'[u] \in Left)
      BY <2>2 DEF Goto, Left, TypeOK
    <3>4. UNCHANGED <<inputs, gen, locals, interrupt, iterations>>
      BY <1>11 DEF BarrierUnlock, inputs, locals
    <3>5. CASE HalfOne
      <4>1. ASSUME NEW u \in Threads PROVE InFirst(u)'
        BY <3>3, <3>4, <3>5 DEF HalfOne, InFirst, Stop, Early, Computing, Left, inputs,
          locals, RowsOf
      <4> QED
        BY <3>2, <3>4, <3>5, <4>1 DEF Phase, HalfOne, Filled
    <3>6. CASE HalfTwo
      <4>1. ASSUME NEW u \in Threads PROVE InSecond(u)'
        BY <3>3, <3>4, <3>6 DEF HalfTwo, InSecond, Checking, Left, inputs, locals
      <4> QED
        BY <3>2, <3>4, <3>6, <4>1 DEF Phase, HalfTwo, Filled, inputs
    <3> QED
      BY <3>1, <3>5, <3>6
  <2> QED
    BY <1>11, <2>1, <2>2 DEF BarrierUnlock
<1>12. ASSUME NEW t \in Threads, FixTest(t) PROVE Phase'
  <2>1. HalfOne \/ HalfTwo
    BY <1>12, WhichHalf DEF FixTest, Goto, Left
  <2>2. ~AllInLoop /\ ~AllInLoop'
    BY <1>12 DEF FixTest, Goto, AllInLoop, Left, TypeOK
  <2>3. \A u \in Threads : pc'[u] = pc[u] \/ (pc[u] \in Left /\ pc'[u] \in Left)
    BY <1>12 DEF FixTest, Goto, Left, TypeOK
  <2>4. UNCHANGED <<inputs, gen, locals, interrupt, iterations>>
    BY <1>12 DEF FixTest, inputs, locals
  <2>5. CASE HalfOne
    <3>1. ASSUME NEW u \in Threads PROVE InFirst(u)'
      BY <2>3, <2>4, <2>5 DEF HalfOne, InFirst, Stop, Early, Computing, Left, inputs,
        locals, RowsOf
    <3> QED
      BY <2>2, <2>4, <2>5, <3>1 DEF Phase, HalfOne, Filled
  <2>6. CASE HalfTwo
    <3>1. ASSUME NEW u \in Threads PROVE InSecond(u)'
      BY <2>3, <2>4, <2>6 DEF HalfTwo, InSecond, Checking, Left, inputs, locals
    <3> QED
      BY <2>2, <2>4, <2>6, <3>1 DEF Phase, HalfTwo, Filled, inputs
  <2> QED
    BY <2>1, <2>5, <2>6
<1>13. ASSUME NEW t \in Threads, FixAux(t) PROVE Phase'
  <2>1. HalfOne \/ HalfTwo
    BY <1>13, WhichHalf DEF FixAux, Goto, Left
  <2>2. ~AllInLoop /\ ~AllInLoop'
    BY <1>13 DEF FixAux, Goto, AllInLoop, Left, TypeOK
  <2>3. \A u \in Threads : pc'[u] = pc[u] \/ (pc[u] \in Left /\ pc'[u] \in Left)
    BY <1>13 DEF FixAux, Goto, Left, TypeOK
  <2>4. UNCHANGED <<inputs, gen, locals, interrupt, iterations>>
    BY <1>13 DEF FixAux, inputs, locals
  <2>5. CASE HalfOne
    <3>1. ASSUME NEW u \in Threads PROVE InFirst(u)'
      BY <2>3, <2>4, <2>5 DEF HalfOne, InFirst, Stop, Early, Computing, Left, inputs,
        locals, RowsOf
    <3> QED
      BY <2>2, <2>4, <2>5, <3>1 DEF Phase, HalfOne, Filled
  <2>6. CASE HalfTwo
    <3>1. ASSUME NEW u \in Threads PROVE InSecond(u)'
      BY <2>3, <2>4, <2>6 DEF HalfTwo, InSecond, Checking, Left, inputs, locals
    <3> QED
      BY <2>2, <2>4, <2>6, <3>1 DEF Phase, HalfTwo, Filled, inputs
  <2> QED
    BY <2>1, <2>5, <2>6
<1>14. ASSUME NEW t \in Threads, FixMatrix(t) PROVE Phase'
  <2>1. HalfOne \/ HalfTwo
    BY <1>14, WhichHalf DEF FixMatrix, Goto, Left
  <2>2. ~AllInLoop /\ ~AllInLoop'
    BY <1>14 DEF FixMatrix, Goto, AllInLoop, Left, TypeOK
  <2>3. \A u \in Threads : pc'[u] = pc[u] \/ (pc[u] \in Left /\ pc'[u] \in Left)
    BY <1>14 DEF FixMatrix, Goto, Left, TypeOK
  <2>4. UNCHANGED <<inputs, gen, locals, interrupt, iterations>>
    BY <1>14 DEF FixMatrix, inputs, locals
  <2>5. CASE HalfOne
    <3>1. ASSUME NEW u \in Threads PROVE InFirst(u)'
      BY <2>3, <2>4, <2>5 DEF HalfOne, InFirst, Stop, Early, Computing, Left, inputs,
        locals, RowsOf
    <3> QED
      BY <2>2, <2>4, <2>5, <3>1 DEF Phase, HalfOne, Filled
  <2>6. CASE HalfTwo
    <3>1. ASSUME NEW u \in Threads PROVE InSecond(u)'
      BY <2>3, <2>4, <2>6 DEF HalfTwo, InSecond, Checking, Left, inputs, locals
    <3> QED
      BY <2>2, <2>4, <2>6, <3>1 DEF Phase, HalfTwo, Filled, inputs
  <2> QED
    BY <2>1, <2>5, <2>6
<1>15. ASSUME Interrupt PROVE Phase'
  <2>1. UNCHANGED <<inputs, pointers, gen, pc, locals, interrupt, iterations>>
    BY <1>15 DEF Interrupt
  <2> QED
    BY <2>1, PhaseOfState
<1>16. ASSUME ShowResult PROVE Phase'
  <2>1. UNCHANGED <<inputs, pointers, gen, pc, locals, interrupt, iterations>>
    BY <1>16 DEF ShowResult
  <2> QED
    BY <2>1, PhaseOfState
<1>17. ASSUME Save PROVE Phase'
  <2>1. UNCHANGED <<inputs, pointers, gen, pc, locals, interrupt, iterations>>
    BY <1>17 DEF Save
  <2> QED
    BY <2>1, PhaseOfState
<1>18. ASSUME Ended PROVE Phase'
  <2>1. UNCHANGED <<inputs, pointers, gen, pc, locals, interrupt, iterations>>
    BY <1>18 DEF Ended, vars, inputs, pointers, locals
  <2> QED
    BY <2>1, PhaseOfState
<1>19. CASE UNCHANGED vars
  BY <1>19, PhaseOfState DEF vars, inputs, pointers, locals
<1> QED
  BY <1>1, <1>2, <1>3, <1>4, <1>5, <1>6, <1>7, <1>8, <1>9, <1>10, <1>11, <1>12,
    <1>13, <1>14, <1>15, <1>16, <1>17, <1>18, <1>19 DEF Next, Worker

-----------------------------------------------------------------------------
(* Types, results, main. *)

(* Every step keeps the types. *)
LEMMA TypeStep ==
  TypeOK /\ Results /\ Phase /\ [Next]_vars => TypeOK'
<1> SUFFICES ASSUME TypeOK, Results, Phase, [Next]_vars PROVE TypeOK'
  OBVIOUS
<1>1. ASSUME NEW t \in Threads, Start(t) PROVE TypeOK'
  BY <1>1 DEF Start, Goto, inputs, pointers, barrierVars, mainVars, TypeOK, Labels
<1>2. ASSUME NEW t \in Threads, While(t) PROVE TypeOK'
  <2>1. pc[t] = "while" /\ HalfOne
    BY <1>2, WhichHalf DEF While, Goto
  <2>2. it[t] = iter - iterations /\ iterations <= iter
    BY <2>1 DEF HalfOne, InFirst, Early, Results
  <2>3. it[t] - 1 \in -1 .. MaxIter
    <3>1. iter \in 1 .. MaxIter /\ iterations \in 0 .. MaxIter /\ MaxIter \in Nat
      BY IterAssumption DEF TypeOK
    <3>2. \A i, j, n \in Int : i \in 1 .. n /\ j \in 0 .. n /\ j <= i => i - j - 1 \in -1 .. n
      OBVIOUS
    <3> QED
      BY <2>2, <3>1, <3>2
  <2>4. FirstRow(t) \in Rows
    BY RowsInside
  <2>5. /\ pc' \in [Threads -> Labels]
        /\ it' \in [Threads -> -1 .. MaxIter]
        /\ row' \in [Threads -> Rows \cup {Trab * K + 1}]
    BY <1>2, <2>3, <2>4 DEF While, Goto, TypeOK, Labels
  <2> QED
    BY <1>2, <2>5 DEF While, TypeOK, inputs, pointers, barrierVars, mainVars
<1>3. ASSUME NEW t \in Threads, ComputeRow(t) PROVE TypeOK'
  <2>1. /\ HalfOne /\ row[t] \in RowsOf(t) /\ row[t] \in Rows
        /\ gen' = [gen EXCEPT ![matrix_aux][row[t]] = iterations + 1]
    BY <1>3, ComputedRow, RowsInside
  <2>2. iterations + 1 \in 0 .. MaxIter
    <3>1. ~Stop
      BY <1>3, <2>1, ComputingReady DEF ComputeRow, Goto, Computing
    <3> QED
      BY <3>1, IterAssumption DEF Stop, TypeOK
  <2>3. gen' \in [Buffers -> [Rows -> 0 .. MaxIter \cup {Torn}]]
    BY <2>1, <2>2 DEF TypeOK
  <2>4. row[t] + 1 \in Rows \cup {Trab * K + 1}
    <3>1. Trab * K \in Nat
      BY TrabAssumption
    <3> QED
      BY <2>1, <3>1 DEF Rows
  <2>5. row' \in [Threads -> Rows \cup {Trab * K + 1}]
    BY <1>3, <2>4 DEF ComputeRow, TypeOK
  <2>6. pc' \in [Threads -> Labels]
    BY <1>3 DEF ComputeRow, Goto, TypeOK, Labels
  <2> QED
    BY <1>3, <2>3, <2>5, <2>6 DEF ComputeRow, TypeOK, inputs, pointers, barrierVars, mainVars
<1>4. ASSUME NEW t \in Threads, BarrierLock(t) PROVE TypeOK'
  BY <1>4 DEF BarrierLock, Goto, inputs, pointers, locals, mainVars, TypeOK,
    Labels
<1>5. ASSUME NEW t \in Threads, Wait1(t) PROVE TypeOK'
  <2>1. count' \in 0 .. Trab - 1
    BY <1>5, TrabAssumption DEF Wait1, BarrierWait, AllHere, TypeOK
  <2>2. pc' \in [Threads -> Labels]
    BY <1>5 DEF Wait1, BarrierWait, Broadcast, TypeOK, Labels
  <2> QED
    BY <1>5, <2>1, <2>2 DEF Wait1, BarrierWait, TypeOK, inputs, pointers, locals, mainVars
<1>6. ASSUME NEW t \in Threads, Wake1(t) PROVE TypeOK'
  BY <1>6 DEF Wake1, Relock, Goto, inputs, pointers, locals, mainVars, TypeOK,
    Labels
<1>7. ASSUME NEW t \in Threads, Check(t) PROVE TypeOK'
  BY <1>7 DEF Check, Goto, Delimited, inputs, pointers, barrierVars, locals,
    mainVars, TypeOK, Labels
<1>8. ASSUME NEW t \in Threads, Wait2(t) PROVE TypeOK'
  <2>1. count' \in 0 .. Trab - 1
    BY <1>8, TrabAssumption DEF Wait2, BarrierWait, AllHere, TypeOK
  <2>2. pc' \in [Threads -> Labels]
    BY <1>8 DEF Wait2, BarrierWait, Broadcast, TypeOK, Labels
  <2> QED
    BY <1>8, <2>1, <2>2 DEF Wait2, BarrierWait, TypeOK, inputs, pointers, locals, mainVars
<1>9. ASSUME NEW t \in Threads, Wake2(t) PROVE TypeOK'
  BY <1>9 DEF Wake2, Relock, Goto, inputs, pointers, locals, mainVars, TypeOK,
    Labels
<1>10. ASSUME NEW t \in Threads, Swap(t) PROVE TypeOK'
  <2>1. iterations' \in 0 .. MaxIter
    <3>1. iterations < iter
      BY <1>10, WhichHalf DEF Swap, Goto, Swapping
    <3> QED
      BY <1>10, <3>1, IterAssumption DEF Swap, TypeOK
  <2> QED
    BY <1>10, <2>1 DEF Swap, Goto, SwapPointers, TypeOK, inputs, barrierVars, locals,
      mainVars, Labels
<1>11. ASSUME NEW t \in Threads, BarrierUnlock(t) PROVE TypeOK'
  BY <1>11 DEF BarrierUnlock, Goto, inputs, pointers, locals, mainVars, TypeOK,
    Labels
<1>12. ASSUME NEW t \in Threads, FixTest(t) PROVE TypeOK'
  BY <1>12 DEF FixTest, Goto, inputs, pointers, barrierVars, locals, mainVars,
    TypeOK, Labels
<1>13. ASSUME NEW t \in Threads, FixAux(t) PROVE TypeOK'
  BY <1>13 DEF FixAux, Goto, inputs, barrierVars, locals, mainVars, TypeOK, Labels
<1>14. ASSUME NEW t \in Threads, FixMatrix(t) PROVE TypeOK'
  BY <1>14 DEF FixMatrix, Goto, inputs, barrierVars, locals, mainVars, TypeOK,
    Labels
<1>15. ASSUME Interrupt PROVE TypeOK'
  BY <1>15 DEF Interrupt, inputs, pointers, barrierVars, locals, mainVars, TypeOK,
    Labels
<1>16. ASSUME ShowResult PROVE TypeOK'
  <2>1. Whole("first") \in 0 .. MaxIter \cup {Torn}
    BY SomeRow DEF Whole, TypeOK, Buffers
  <2> QED
    BY <1>16, <2>1 DEF ShowResult, TypeOK, inputs, pointers, barrierVars, locals
<1>17. ASSUME Save PROVE TypeOK'
  <2>1. Whole(matrix) \in 0 .. MaxIter \cup {Torn}
    BY SomeRow DEF Whole, TypeOK
  <2> QED
    BY <1>17, <2>1 DEF Save, TypeOK, inputs, pointers, barrierVars, locals
<1>18. ASSUME Ended PROVE TypeOK'
  BY <1>18 DEF Ended, vars, TypeOK, Labels
<1>19. CASE UNCHANGED vars
  BY <1>19 DEF vars, TypeOK
<1> QED
  BY <1>1, <1>2, <1>3, <1>4, <1>5, <1>6, <1>7, <1>8, <1>9, <1>10, <1>11, <1>12,
    <1>13, <1>14, <1>15, <1>16, <1>17, <1>18, <1>19 DEF Next, Worker

(* Every step keeps the results the first buffer, and the pointer at it in the
   end. *)
LEMMA ResultsStep ==
  TypeOK /\ Results /\ Phase /\ [Next]_vars => Results'
<1> SUFFICES ASSUME TypeOK, Results, Phase, [Next]_vars PROVE Results'
  OBVIOUS
<1>1. ASSUME NEW t \in Threads, Start(t) PROVE Results'
  <2>1. iterations = 0
    BY <1>1, WhichHalf DEF Start, Goto, HalfOne, InFirst
  <2> QED
    BY <1>1, <2>1 DEF Start, Goto, Results, TypeOK, inputs, pointers
<1>2. ASSUME NEW t \in Threads, While(t) PROVE Results'
  BY <1>2 DEF While, Goto, Another, inputs, pointers, barrierVars, mainVars,
    Results, TypeOK, locals
<1>3. ASSUME NEW t \in Threads, ComputeRow(t) PROVE Results'
  BY <1>3 DEF ComputeRow, Goto, inputs, pointers, barrierVars, mainVars, Results,
    TypeOK, locals
<1>4. ASSUME NEW t \in Threads, BarrierLock(t) PROVE Results'
  BY <1>4 DEF BarrierLock, Goto, inputs, pointers, locals, mainVars, Results,
    TypeOK
<1>5. ASSUME NEW t \in Threads, Wait1(t) PROVE Results'
  BY <1>5 DEF Wait1, BarrierWait, Broadcast, AllHere, inputs, pointers, locals,
    mainVars, Results, TypeOK
<1>6. ASSUME NEW t \in Threads, Wake1(t) PROVE Results'
  BY <1>6 DEF Wake1, Relock, Goto, inputs, pointers, locals, mainVars, Results,
    TypeOK
<1>7. ASSUME NEW t \in Threads, Check(t) PROVE Results'
  BY <1>7 DEF Check, Goto, Delimited, inputs, pointers, barrierVars, locals,
    mainVars, Results, TypeOK
<1>8. ASSUME NEW t \in Threads, Wait2(t) PROVE Results'
  BY <1>8 DEF Wait2, BarrierWait, Broadcast, AllHere, inputs, pointers, locals,
    mainVars, Results, TypeOK
<1>9. ASSUME NEW t \in Threads, Wake2(t) PROVE Results'
  BY <1>9 DEF Wake2, Relock, Goto, inputs, pointers, locals, mainVars, Results,
    TypeOK
<1>10. ASSUME NEW t \in Threads, Swap(t) PROVE Results'
  <2>1. iterations < iter /\ \A u \in Threads \ {t} : pc[u] = "woken2"
    BY <1>10, WhichHalf DEF Swap, Goto, Swapping
  <2>2. \A u \in Threads : pc'[u] # "returned"
    BY <1>10, <2>1 DEF Swap, Goto, TypeOK
  <2>3. iterations' = iterations + 1 /\ iter' = iter /\ result' = result
    BY <1>10 DEF Swap, inputs, locals
  <2>4. iterations' # 0 /\ iterations' <= iter'
    BY <2>1, <2>3 DEF TypeOK
  <2> QED
    BY <2>2, <2>3, <2>4 DEF Results
<1>11. ASSUME NEW t \in Threads, BarrierUnlock(t) PROVE Results'
  BY <1>11 DEF BarrierUnlock, Goto, inputs, pointers, locals, mainVars, Results,
    TypeOK
<1>12. ASSUME NEW t \in Threads, FixTest(t) PROVE Results'
  <2>1. pc'[t] = "returned" => matrix = "first"
    BY <1>12 DEF FixTest, Goto, Results, TypeOK
  <2> QED
    BY <1>12, <2>1 DEF FixTest, Goto, Results, TypeOK, inputs, pointers, locals
<1>13. ASSUME NEW t \in Threads, FixAux(t) PROVE Results'
  BY <1>13 DEF FixAux, Goto, inputs, barrierVars, locals, mainVars, Results,
    TypeOK, pointers
<1>14. ASSUME NEW t \in Threads, FixMatrix(t) PROVE Results'
  <2>1. matrix' = "first"
    BY <1>14 DEF FixMatrix, Results
  <2> QED
    BY <1>14, <2>1 DEF FixMatrix, Goto, Results, TypeOK, inputs, locals
<1>15. ASSUME Interrupt PROVE Results'
  BY <1>15 DEF Interrupt, inputs, pointers, barrierVars, locals, mainVars, Results,
    TypeOK
<1>16. ASSUME ShowResult PROVE Results'
  BY <1>16 DEF ShowResult, inputs, pointers, barrierVars, locals, Results, TypeOK
<1>17. ASSUME Save PROVE Results'
  BY <1>17 DEF Save, inputs, pointers, barrierVars, locals, Results, TypeOK
<1>18. ASSUME Ended PROVE Results'
  BY <1>18 DEF Ended, vars, Results, TypeOK, inputs, pointers, locals
<1>19. CASE UNCHANGED vars
  BY <1>19 DEF vars, Results
<1> QED
  BY <1>1, <1>2, <1>3, <1>4, <1>5, <1>6, <1>7, <1>8, <1>9, <1>10, <1>11, <1>12,
    <1>13, <1>14, <1>15, <1>16, <1>17, <1>18, <1>19 DEF Next, Worker

(* Every step keeps what main prints the result, which is what it saves. *)
LEMMA MainStep ==
  TypeOK /\ Results /\ MainOK /\ [Next]_vars => MainOK'
<1> SUFFICES ASSUME TypeOK, Results, MainOK, [Next]_vars PROVE MainOK'
  OBVIOUS
<1>1. ASSUME NEW t \in Threads, Start(t) PROVE MainOK'
  <2>1. pc[t] # "returned" /\ UNCHANGED mainVars
    BY <1>1 DEF Start, Goto
  <2> QED
    BY <2>1 DEF MainOK, mainVars
<1>2. ASSUME NEW t \in Threads, While(t) PROVE MainOK'
  <2>1. pc[t] # "returned" /\ UNCHANGED mainVars
    BY <1>2 DEF While, Goto, Another
  <2> QED
    BY <2>1 DEF MainOK, mainVars
<1>3. ASSUME NEW t \in Threads, ComputeRow(t) PROVE MainOK'
  <2>1. pc[t] # "returned" /\ UNCHANGED mainVars
    BY <1>3 DEF ComputeRow, Goto
  <2> QED
    BY <2>1 DEF MainOK, mainVars
<1>4. ASSUME NEW t \in Threads, BarrierLock(t) PROVE MainOK'
  <2>1. pc[t] # "returned" /\ UNCHANGED mainVars
    BY <1>4 DEF BarrierLock, Goto
  <2> QED
    BY <2>1 DEF MainOK, mainVars
<1>5. ASSUME NEW t \in Threads, Wait1(t) PROVE MainOK'
  <2>1. pc[t] # "returned" /\ UNCHANGED mainVars
    BY <1>5 DEF Wait1, BarrierWait, Broadcast, AllHere
  <2> QED
    BY <2>1 DEF MainOK, mainVars
<1>6. ASSUME NEW t \in Threads, Wake1(t) PROVE MainOK'
  <2>1. pc[t] # "returned" /\ UNCHANGED mainVars
    BY <1>6 DEF Wake1, Relock, Goto
  <2> QED
    BY <2>1 DEF MainOK, mainVars
<1>7. ASSUME NEW t \in Threads, Check(t) PROVE MainOK'
  <2>1. pc[t] # "returned" /\ UNCHANGED mainVars
    BY <1>7 DEF Check, Goto, Delimited
  <2> QED
    BY <2>1 DEF MainOK, mainVars
<1>8. ASSUME NEW t \in Threads, Wait2(t) PROVE MainOK'
  <2>1. pc[t] # "returned" /\ UNCHANGED mainVars
    BY <1>8 DEF Wait2, BarrierWait, Broadcast, AllHere
  <2> QED
    BY <2>1 DEF MainOK, mainVars
<1>9. ASSUME NEW t \in Threads, Wake2(t) PROVE MainOK'
  <2>1. pc[t] # "returned" /\ UNCHANGED mainVars
    BY <1>9 DEF Wake2, Relock, Goto
  <2> QED
    BY <2>1 DEF MainOK, mainVars
<1>10. ASSUME NEW t \in Threads, Swap(t) PROVE MainOK'
  <2>1. pc[t] # "returned" /\ UNCHANGED mainVars
    BY <1>10 DEF Swap, Goto, SwapPointers
  <2> QED
    BY <2>1 DEF MainOK, mainVars
<1>11. ASSUME NEW t \in Threads, BarrierUnlock(t) PROVE MainOK'
  <2>1. pc[t] # "returned" /\ UNCHANGED mainVars
    BY <1>11 DEF BarrierUnlock, Goto
  <2> QED
    BY <2>1 DEF MainOK, mainVars
<1>12. ASSUME NEW t \in Threads, FixTest(t) PROVE MainOK'
  <2>1. pc[t] # "returned" /\ UNCHANGED mainVars
    BY <1>12 DEF FixTest, Goto
  <2> QED
    BY <2>1 DEF MainOK, mainVars
<1>13. ASSUME NEW t \in Threads, FixAux(t) PROVE MainOK'
  <2>1. pc[t] # "returned" /\ UNCHANGED mainVars
    BY <1>13 DEF FixAux, Goto
  <2> QED
    BY <2>1 DEF MainOK, mainVars
<1>14. ASSUME NEW t \in Threads, FixMatrix(t) PROVE MainOK'
  <2>1. pc[t] # "returned" /\ UNCHANGED mainVars
    BY <1>14 DEF FixMatrix, Goto
  <2> QED
    BY <2>1 DEF MainOK, mainVars
<1>15. ASSUME Interrupt PROVE MainOK'
  <2>1. UNCHANGED <<pc, gen, mainVars>>
    BY <1>15 DEF Interrupt
  <2> QED
    BY <2>1 DEF MainOK, mainVars, Whole
<1>16. ASSUME ShowResult PROVE MainOK'
  BY <1>16 DEF ShowResult, MainOK, Whole
<1>17. ASSUME Save PROVE MainOK'
  <2>1. matrix = "first"
    BY <1>17, SomeRow DEF Save, MainOK, Results
  <2>2. saved' \in {NoFile, printed}
    BY <1>17, <2>1 DEF Save, MainOK
  <2> QED
    BY <1>17, <2>2 DEF Save, MainOK, Whole
<1>18. ASSUME Ended PROVE MainOK'
  <2>1. UNCHANGED <<pc, gen, mainVars>>
    BY <1>18 DEF Ended, vars, mainVars
  <2> QED
    BY <2>1 DEF MainOK, mainVars, Whole
<1>19. CASE UNCHANGED vars
  BY <1>19 DEF vars, MainOK, Whole
<1> QED
  BY <1>1, <1>2, <1>3, <1>4, <1>5, <1>6, <1>7, <1>8, <1>9, <1>10, <1>11, <1>12,
    <1>13, <1>14, <1>15, <1>16, <1>17, <1>18, <1>19 DEF Next, Worker

-----------------------------------------------------------------------------
(* The invariant. *)

LEMMA InitHeatInv == Init => HeatInv
<1> SUFFICES ASSUME Init PROVE HeatInv
  OBVIOUS
<1>1. TypeOK
  <2>1. /\ it \in [Threads -> -1 .. MaxIter] /\ count \in 0 .. Trab - 1
        /\ row \in [Threads -> Rows \cup {Trab * K + 1}]
    BY RowsInside, TrabAssumption, IterAssumption DEF Init
  <2>2. /\ gen \in [Buffers -> [Rows -> 0 .. MaxIter \cup {Torn}]]
        /\ pc \in [Threads -> Labels] /\ result \in [Threads -> Buffers]
    BY IterAssumption DEF Init, Buffers, Labels
  <2>3. /\ iter \in 1 .. MaxIter /\ limit \in 0 .. MaxIter + 1
        /\ iterations \in 0 .. MaxIter
    BY IterAssumption DEF Init
  <2>4. matrix \in Buffers /\ matrix_aux \in Buffers
    BY DEF Init, Buffers
  <2>5. /\ owner \in Threads \cup {NoOne} /\ main_pc \in {"join", "save", "ended"}
        /\ interrupt \in BOOLEAN /\ interrupted \in BOOLEAN
        /\ printed \in 0 .. MaxIter \cup {Torn, NoOne}
        /\ saved \in 0 .. MaxIter \cup {Torn, NoFile}
    BY DEF Init
  <2> QED
    BY <2>1, <2>2, <2>3, <2>4, <2>5 DEF TypeOK
<1>2. MutexOK
  BY NobodyAssumption, TrabAssumption DEF Init, MutexOK, Holding, Threads
<1>3. Counted
  <2>1. Blocked = {}
    BY DEF Init, Blocked
  <2> QED
    BY <2>1, FS_EmptySet DEF Init, Counted
<1>4. Results
  BY <1>1 DEF Init, Results, TypeOK
<1>5. ASSUME NEW t \in Threads PROVE InFirst(t)
  BY <1>1 DEF Init, InFirst, Early, Computing, Left, TypeOK
<1>6. ASSUME NEW t \in Threads PROVE RowsDone(t)
  <2>1. Written(t) = {}
    BY DEF Init, Written, Computing
  <2> QED
    BY <2>1, RowsInside DEF Init, RowsDone, Old, Buffers
<1>7. AllInLoop /\ Ready
  BY DEF Init, AllInLoop, Left, Ready, Filled, Buffers
<1>8. Phase
  BY <1>5, <1>6, <1>7 DEF Phase, HalfOne
<1>9. MainOK
  BY DEF Init, MainOK
<1> QED
  BY <1>1, <1>2, <1>3, <1>4, <1>8, <1>9 DEF HeatInv

LEMMA HeatInvStep == HeatInv /\ [Next]_vars => HeatInv'
BY TypeStep, MutexStep, CountedStep, ResultsStep, PhaseStep, MainStep DEF HeatInv

LEMMA Invariance == Spec => []HeatInv
BY InitHeatInv, HeatInvStep, PTL DEF Spec

-----------------------------------------------------------------------------
(* What the invariant says. *)

(* In every half, the rows of both buffers are of real iterations. *)
LEMMA RowsWhole ==
  ASSUME TypeOK, Phase, NEW b \in Buffers, NEW r \in Rows
  PROVE  gen[b][r] \in {Old, iterations, iterations + 1}
<1>1. CASE HalfOne
  <2>1. CASE AllInLoop
    <3>1. PICK t \in Threads : r \in RowsOf(t)
      BY RowsCovered
    <3>2. gen[matrix_aux][r] \in {Old, iterations + 1}
      BY <1>1, <2>1, <3>1 DEF HalfOne, RowsDone
    <3>3. gen[matrix][r] = iterations /\ (b = matrix \/ b = matrix_aux)
      BY <1>1, <2>1, BothBuffers DEF HalfOne, Ready, Filled
    <3> QED
      BY <3>2, <3>3
  <2>2. CASE ~AllInLoop
    BY <1>1, <2>2 DEF HalfOne, Filled, Old, TypeOK
  <2> QED
    BY <2>1, <2>2
<1>2. CASE HalfTwo
  BY <1>2 DEF HalfTwo, Filled
<1>3. CASE Swapping
  BY <1>3, BothBuffers DEF Swapping, Ready, Filled
<1> QED
  BY <1>1, <1>2, <1>3 DEF Phase

(* When all have returned, the first buffer is whole. *)
LEMMA ResultWhole ==
  ASSUME TypeOK, Phase, \A t \in Threads : pc[t] = "returned"
  PROVE  Whole("first") \in iterations - 1 .. iterations + 1 /\ Whole("first") # Torn
<1>1. ~AllInLoop /\ (HalfOne \/ HalfTwo)
  BY SomeRow, WhichHalf DEF AllInLoop, Left
<1>2. \/ iterations > 0 /\ Filled("first", iterations - 1)
      \/ Filled("first", iterations)
      \/ Filled("first", iterations + 1)
  BY <1>1 DEF HalfOne, HalfTwo, Buffers
<1>3. \A g : Filled("first", g) => Whole("first") = g
  BY SomeRow DEF Filled, Whole
<1> QED
  BY <1>2, <1>3 DEF Torn, TypeOK

(* The types are kept, for any number of threads, rows and iterations: no
   generation passes the number of iterations asked for. *)
THEOREM TypesKept == Spec => []TypeOK
BY Invariance, PTL DEF HeatInv

(* No thread of simul computes a row from neighbours of different iterations,
   whatever the speeds of the threads and whenever a SIGINT comes. *)
THEOREM RowsNeverTorn == Spec => []NoTornRow
<1>1. HeatInv => NoTornRow
  <2> SUFFICES ASSUME TypeOK, Phase, NEW b \in Buffers, NEW r \in Rows
               PROVE  gen[b][r] # Torn
    BY DEF HeatInv, NoTornRow
  <2>1. gen[b][r] \in {Old, iterations, iterations + 1}
    BY RowsWhole
  <2>2. Old \in Nat /\ iterations \in Nat
    BY DEF Old, TypeOK
  <2> QED
    BY <2>1, <2>2 DEF Torn
<1> QED
  BY <1>1, Invariance, PTL

(* barrier.count is the number of threads in pthread_cond_wait, all of them in
   the same of the two calls of barrier_wait. *)
THEOREM BlockedCounted == Spec => []CountIsBlocked
<1>1. HeatInv => CountIsBlocked
  <2> SUFFICES ASSUME Counted, Phase PROVE CountIsBlocked
    BY DEF HeatInv
  <2> DEFINE places == {pc[t] : t \in Blocked}
  <2>1. PICK p : places \subseteq {p}
    <3>1. HalfOne => places \subseteq {"blocked1"}
      BY DEF HalfOne, InFirst, Blocked, Early, Computing, Left
    <3>2. HalfTwo => places \subseteq {"blocked2"}
      BY DEF HalfTwo, InSecond, Blocked, Checking, Left
    <3>3. Swapping => places \subseteq {"blocked1"}
      BY DEF Swapping, Blocked
    <3> QED
      BY <3>1, <3>2, <3>3 DEF Phase
  <2>2. IsFiniteSet({p}) /\ Cardinality({p}) = 1
    BY FS_Singleton
  <2>3. Cardinality(places) <= 1
    BY <2>1, <2>2, FS_Subset
  <2> QED
    BY <2>3 DEF CountIsBlocked, Counted, Blocked
<1> QED
  BY <1>1, Invariance, PTL

(* What main prints is whole, at most one iteration from the last swap, and
   what it saves after a SIGINT is the same. *)
THEOREM ResultPrinted == Spec => []PrintedWhole
<1>1. HeatInv => PrintedWhole
  <2> SUFFICES ASSUME TypeOK, Phase, MainOK PROVE PrintedWhole
    BY DEF HeatInv
  <2>1. printed # NoOne => main_pc # "join"
    BY DEF MainOK
  <2>2. printed # NoOne => printed \in iterations - 1 .. iterations + 1 /\ printed # Torn
    BY <2>1, ResultWhole DEF MainOK
  <2>3. saved # NoFile => saved = printed
    BY DEF MainOK, TypeOK
  <2> QED
    BY <2>2, <2>3 DEF PrintedWhole
<1> QED
  BY <1>1, Invariance, PTL

----------------------------------------------------------------------------
(* No deadlock of the barrier. *)

(* Who cannot go on: a thread that waits for the barrier's mutex or sleeps on one
   of its conditions (who leaves the barrier wakes it), and main while it joins. *)
ThreadBlocked(t) ==
  \/ pc[t] \in {"lock", "woken1", "woken2"} /\ owner # NoOne
  \/ pc[t] \in {"blocked1", "blocked2", "returned"}
MainBlocked ==
  \/ main_pc = "join" /\ \E t \in Threads : pc[t] # "returned"
  \/ main_pc = "ended"

(* Until heatSim has ended, somebody can go on. *)
NeverStuck == main_pc = "ended" \/ ~MainBlocked \/ \E t \in Threads : ~ThreadBlocked(t)

(* With no owner and nobody computing, a thread that sleeps and one that left
   the loop would disagree on whether to leave it. *)
LEMMA InvNeverStuck == HeatInv => NeverStuck
<1> SUFFICES ASSUME HeatInv, NEW s \in Threads, pc[s] # "returned",
                    \A t \in Threads : ThreadBlocked(t)
             PROVE  FALSE
  BY DEF NeverStuck, MainBlocked
<1>1. owner = NoOne
  <2>1. ASSUME NEW u \in Threads, owner = u PROVE FALSE
    <3>1. pc[u] \in Holding
      BY <2>1 DEF HeatInv, MutexOK
    <3>2. ThreadBlocked(u)
      OBVIOUS
    <3> QED
      BY <3>1, <3>2 DEF ThreadBlocked, Holding
  <2> QED
    BY <2>1 DEF HeatInv, TypeOK
<1>2. \A t \in Threads : pc[t] \in {"blocked1", "blocked2", "returned"}
  BY <1>1 DEF ThreadBlocked
<1>3. PICK u \in Threads : pc[u] = "returned"
  <2>1. SUFFICES ASSUME \A u \in Threads : pc[u] # "returned" PROVE FALSE
    OBVIOUS
  <2>2. Blocked = Threads
    BY <1>2, <2>1 DEF Blocked
  <2> QED
    BY <2>2, ThreadsFinite, TrabAssumption DEF HeatInv, Counted, TypeOK
<1>4. CASE HalfOne
  <2>1. pc[s] = "blocked1"
    BY <1>2, <1>4 DEF HalfOne, InFirst, Early, Computing, Left
  <2> QED
    BY <1>3, <1>4, <2>1 DEF HalfOne, InFirst, Computing, Left
<1>5. CASE HalfTwo
  <2>1. pc[s] = "blocked2"
    BY <1>2, <1>5 DEF HalfTwo, InSecond, Checking, Left
  <2>2. iterations < limit /\ iterations >= limit
    BY <1>3, <1>5, <2>1 DEF HalfTwo, InSecond, Left
  <2> QED
    BY <2>2 DEF HeatInv, TypeOK
<1>6. CASE Swapping
  BY <1>2, <1>6 DEF Swapping
<1> QED
  BY <1>4, <1>5, <1>6 DEF HeatInv, Phase

(* The double barrier never loses its threads, for any number of them and any
   limit of iterations: until heatSim has ended, main or a thread can go on, so
   no sleeper of barrier_wait is left without somebody to wake it. *)
THEOREM HeatNeverStuck == Spec => []NeverStuck
  BY Invariance, InvNeverStuck, PTL
=============================================================================
