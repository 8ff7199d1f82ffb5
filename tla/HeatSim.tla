------------------------------ MODULE HeatSim ------------------------------
(***************************************************************************)
(* heatSim (src/proj/2017-2018/src: main.c, barrier.c): worker threads     *)
(* compute the rows of a matrix of temperatures, iteration by iteration,   *)
(* from one buffer into another, meet twice per iteration at a barrier     *)
(* made of a counter and a condition variable, and swap the buffers.       *)
(*                                                                         *)
(* A row is abstracted to its generation: how many iterations its values   *)
(* went through. A row computed from neighbours of different generations   *)
(* is torn. The border rows never change and suit every generation.        *)
(***************************************************************************)
EXTENDS Integers, FiniteSets

CONSTANTS
  Trab,       \* number of worker threads
  K,          \* rows of each: N = Trab * K
  MaxIter,    \* bound on the argument `iter'
  NoFile,     \* no save file
  NoOne       \* no owner of the mutex, nothing printed yet

ASSUME TrabAssumption == Trab \in Nat \ {0} /\ K \in Nat \ {0}
ASSUME IterAssumption == MaxIter \in Nat \ {0}
ASSUME NobodyAssumption == NoOne \notin Int /\ NoFile \notin Int

Threads == 1 .. Trab
Rows    == 1 .. Trab * K
Buffers == {"first", "second"}
Torn    == -1

VARIABLES
  iter,                  \* the argument: iterations to do
  limit,                 \* maxD: the generation whose successor is within it
  matrix, matrix_aux,    \* the two global pointers
  gen,                   \* generation of each row of each buffer
  owner,                 \* of barrier.cond_mutex
  count,                 \* barrier.count
  pc, it, row, result,   \* each worker: place, `it', `i', `result'
  interrupt,             \* what the workers test
  interrupted,           \* set by the handler of SIGINT
  iterations,            \* history: swaps done
  main_pc, printed, saved \* main, what it printed, what the save file holds

vars == <<iter, limit, matrix, matrix_aux, gen, owner, count, pc, it, row, result,
          interrupt, interrupted, iterations, main_pc, printed, saved>>

inputs      == <<iter, limit>>
pointers    == <<matrix, matrix_aux>>
barrierVars == <<owner, count>>
locals      == <<it, row, result>>
mainVars    == <<main_pc, printed, saved>>

Labels == {"start", "while", "compute", "lock", "wait1", "blocked1", "woken1",
           "check", "wait2", "blocked2", "woken2", "swap", "unlock",
           "unlock_break", "fix_test", "fix_aux", "fix_matrix", "returned"}

FirstRow(t) == (t - 1) * K + 1
LastRow(t)  == t * K

(* A limit above iter is one that is not reached, or a maxD of 0. *)
Init ==
  /\ iter \in 1 .. MaxIter
  /\ limit \in 0 .. MaxIter + 1
  /\ matrix = "first"
  /\ matrix_aux = "second"
  /\ gen = [b \in Buffers |-> [r \in Rows |-> 0]]
  /\ owner = NoOne
  /\ count = 0
  /\ pc = [t \in Threads |-> "start"]
  /\ it = [t \in Threads |-> iter]
  /\ row = [t \in Threads |-> FirstRow(t)]
  /\ result = [t \in Threads |-> "first"]
  /\ interrupt = FALSE
  /\ interrupted = FALSE
  /\ iterations = 0
  /\ main_pc = "join"
  /\ printed = NoOne
  /\ saved = NoFile

----------------------------------------------------------------------------
(* simul *)

Goto(t, from, to) == pc[t] = from /\ pc' = [pc EXCEPT ![t] = to]

Start(t) ==
  /\ Goto(t, "start", "while")
  /\ result' = [result EXCEPT ![t] = matrix]
  /\ UNCHANGED <<inputs, pointers, gen, barrierVars, it, row, interrupt, interrupted,
                 iterations, mainVars>>

AnotherAtZero(t) == it[t] >= 0 /\ ~interrupt               \* mutant
Another(t)       == it[t] > 0 /\ ~interrupt

(* while (it-- > 0 && !interrupt) *)
While(t) ==
  /\ Goto(t, "while", IF Another(t) THEN "compute" ELSE "fix_test")
  /\ it' = [it EXCEPT ![t] = @ - 1]
  /\ row' = [row EXCEPT ![t] = FirstRow(t)]
  /\ UNCHANGED <<inputs, pointers, gen, barrierVars, result, interrupt, interrupted,
                 iterations, mainVars>>

Around(i) == {i - 1, i, i + 1} \cap Rows

ComputeRow(t) ==
  LET i       == row[t]
      sources == {gen[matrix][r] : r \in Around(i)}
      value   == IF Cardinality(sources) = 1 /\ Torn \notin sources
                 THEN gen[matrix][i] + 1 ELSE Torn
  IN /\ Goto(t, "compute", IF i < LastRow(t) THEN "compute" ELSE "lock")
     /\ gen' = [gen EXCEPT ![matrix_aux][i] = value]
     /\ row' = [row EXCEPT ![t] = i + 1]
     /\ UNCHANGED <<inputs, pointers, barrierVars, it, result, interrupt, interrupted,
                    iterations, mainVars>>

BarrierLock(t) ==
  /\ Goto(t, "lock", "wait1")
  /\ owner = NoOne
  /\ owner' = t
  /\ UNCHANGED <<inputs, pointers, gen, count, locals, interrupt, interrupted,
                 iterations, mainVars>>

SignalOne(t, to) ==                                        \* mutant
  LET Blocked == {u \in Threads : pc[u] \in {"blocked1", "blocked2"}}
      woken   == CHOOSE u \in Threads : Blocked # {} => u \in Blocked
  IN  [u \in Threads |->
         CASE u = t                              -> to
           [] u = woken /\ pc[u] = "blocked1"    -> "woken1"
           [] u = woken /\ pc[u] = "blocked2"    -> "woken2"
           [] OTHER                              -> pc[u]]

(* barrier_wait: the last thread wakes all those blocked and goes on, holding
   the mutex; the others block, releasing it, and take it again when woken. *)
Broadcast(t, to) ==
  [u \in Threads |->
     CASE u = t              -> to
       [] pc[u] = "blocked1" -> "woken1"
       [] pc[u] = "blocked2" -> "woken2"
       [] OTHER              -> pc[u]]

AllButOneHere == count + 2 >= Trab                         \* mutant
AllHere       == count + 1 >= Trab

BarrierWait(t, from, blocked, passed) ==
  /\ pc[t] = from
  /\ IF AllHere
     THEN count' = 0 /\ pc' = Broadcast(t, passed) /\ UNCHANGED owner
     ELSE /\ count' = count + 1
          /\ pc' = [pc EXCEPT ![t] = blocked]
          /\ owner' = NoOne
  /\ UNCHANGED <<inputs, pointers, gen, locals, interrupt, interrupted, iterations,
                 mainVars>>

Wait1(t) == BarrierWait(t, "wait1", "blocked1", "check")
Wait2(t) == BarrierWait(t, "wait2", "blocked2", "swap")

Relock(t, woken, passed) ==
  /\ Goto(t, woken, passed)
  /\ owner = NoOne
  /\ owner' = t
  /\ UNCHANGED <<inputs, pointers, gen, count, locals, interrupt, interrupted,
                 iterations, mainVars>>

Wake1(t) == Relock(t, "woken1", "check")
Wake2(t) == Relock(t, "woken2", "unlock")

(* dm2dDelimited subtracts matrix from matrix_aux without taking the absolute
   value. Started cold, temperatures only rise: with one buffer twice, or the
   two the wrong way round, no difference exceeds a positive maxD. *)
Delimited ==
  LET old == gen[matrix][1]
      new == gen[matrix_aux][1]
  IN  old < new => old >= limit

Check(t) ==
  /\ Goto(t, "check", IF Delimited THEN "unlock_break" ELSE "wait2")
  /\ UNCHANGED <<inputs, pointers, gen, barrierVars, locals, interrupt, interrupted,
                 iterations, mainVars>>

SwapNothing == UNCHANGED pointers                          \* mutant
SwapPointers == matrix' = matrix_aux /\ matrix_aux' = matrix

(* The thread for which barrier_wait returned 1; the others wait, for the
   barrier or for the mutex. (The periodic save is in module HeatSave.) *)
Swap(t) ==
  /\ Goto(t, "swap", "unlock")
  /\ interrupt' = interrupted
  /\ SwapPointers
  /\ iterations' = iterations + 1
  /\ UNCHANGED <<inputs, gen, barrierVars, locals, interrupted, mainVars>>

BarrierUnlock(t) ==
  /\ \/ Goto(t, "unlock", "while")
     \/ Goto(t, "unlock_break", "fix_test")
  /\ owner' = NoOne
  /\ UNCHANGED <<inputs, pointers, gen, count, locals, interrupt, interrupted,
                 iterations, mainVars>>

(* After the loop, with no lock: if (result != matrix) ... *)
FixTest(t) ==
  /\ Goto(t, "fix_test",
          IF result[t] # matrix THEN "fix_aux" ELSE "returned")
  /\ UNCHANGED <<inputs, pointers, gen, barrierVars, locals, interrupt, interrupted,
                 iterations, mainVars>>

FixAux(t) ==
  /\ Goto(t, "fix_aux", "fix_matrix")
  /\ matrix_aux' = matrix
  /\ UNCHANGED <<inputs, matrix, gen, barrierVars, locals, interrupt, interrupted,
                 iterations, mainVars>>

FixMatrix(t) ==
  /\ Goto(t, "fix_matrix", "returned")
  /\ matrix' = result[t]
  /\ UNCHANGED <<inputs, matrix_aux, gen, barrierVars, locals, interrupt, interrupted,
                 iterations, mainVars>>

Worker(t) ==
  \/ Start(t) \/ While(t) \/ ComputeRow(t) \/ BarrierLock(t) \/ Wait1(t)
  \/ Wake1(t) \/ Check(t) \/ Wait2(t) \/ Wake2(t) \/ Swap(t)
  \/ BarrierUnlock(t) \/ FixTest(t) \/ FixAux(t) \/ FixMatrix(t)

(* SIGINT *)
Interrupt ==
  /\ ~interrupted /\ main_pc = "join"
  /\ interrupted' = TRUE
  /\ UNCHANGED <<inputs, pointers, gen, barrierVars, pc, locals, interrupt,
                 iterations, mainVars>>

----------------------------------------------------------------------------
(* main, from the creation of the threads: join, print, save, free. `result'
   of main is the buffer it allocated first. *)

Whole(b) == IF \A r \in Rows : gen[b][r] = gen[b][1] THEN gen[b][1] ELSE Torn

ShowResult ==
  /\ main_pc = "join"
  /\ \A t \in Threads : pc[t] = "returned"
  /\ main_pc' = "save"
  /\ printed' = Whole("first")
  /\ UNCHANGED <<inputs, pointers, gen, barrierVars, pc, locals, interrupt,
                 interrupted, iterations, saved>>

(* safe_write_matrix if interrupted, file_delete otherwise; then the frees. *)
Save ==
  /\ main_pc = "save"
  /\ main_pc' = "ended"
  /\ saved' = IF interrupted THEN Whole(matrix) ELSE NoFile
  /\ UNCHANGED <<inputs, pointers, gen, barrierVars, pc, locals, interrupt,
                 interrupted, iterations, printed>>

Ended == main_pc = "ended" /\ UNCHANGED vars

Next == (\E t \in Threads : Worker(t)) \/ Interrupt \/ ShowResult \/ Save \/ Ended

Fairness == (\A t \in Threads : WF_vars(Worker(t))) /\ WF_vars(ShowResult \/ Save)

Spec     == Init /\ [][Next]_vars
FairSpec == Spec /\ Fairness
----------------------------------------------------------------------------
(* Types of all the variables. *)
TypeOK ==
  /\ iter \in 1 .. MaxIter /\ limit \in 0 .. MaxIter + 1
  /\ matrix \in Buffers /\ matrix_aux \in Buffers
  /\ gen \in [Buffers -> [Rows -> 0 .. MaxIter \cup {Torn}]]
  /\ owner \in Threads \cup {NoOne}
  /\ count \in 0 .. Trab - 1
  /\ pc \in [Threads -> Labels]
  /\ it \in [Threads -> -1 .. MaxIter]
  /\ row \in [Threads -> Rows \cup {Trab * K + 1}]
  /\ result \in [Threads -> Buffers]
  /\ interrupt \in BOOLEAN /\ interrupted \in BOOLEAN
  /\ iterations \in 0 .. MaxIter
  /\ main_pc \in {"join", "save", "ended"}
  /\ printed \in 0 .. MaxIter \cup {Torn, NoOne}
  /\ saved \in 0 .. MaxIter \cup {Torn, NoFile}

(* No row is ever computed from neighbours of different iterations: the two
   waits keep every thread in the same one, whatever their speeds. *)
NoTornRow == \A b \in Buffers, r \in Rows : gen[b][r] # Torn

(* The counter is the number of threads blocked at the barrier, all of them
   at the same one of the two waits: nobody is left behind at the first while
   another sleeps at the second, although both use one condition variable. *)
CountIsBlocked ==
  LET blocked == {t \in Threads : pc[t] \in {"blocked1", "blocked2"}}
  IN  /\ count = Cardinality(blocked)
      /\ Cardinality({pc[t] : t \in blocked}) <= 1

(* The workers stop after the same number of iterations and leave a whole
   matrix, which is what main prints and, if interrupted, saves: at most one
   iteration away from the last swap. *)
PrintedWhole ==
  /\ printed # NoOne => printed \in iterations - 1 .. iterations + 1
                        /\ printed # Torn
  /\ saved # NoFile => saved = printed

(* heatSim terminates, interrupted or not: no thread is left at the barrier
   when others found the matrix delimited or saw the interrupt. *)
Terminates == <>(main_pc = "ended")

(* main frees two matrices ("Libertar matrizes", main.c:435), and the fix
   after the loop is there so that the pointers differ again (main.c:132). *)
FreedApart == main_pc = "ended" => matrix # matrix_aux
============================================================================
