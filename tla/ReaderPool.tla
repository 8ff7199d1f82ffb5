---------------------------- MODULE ReaderPool ----------------------------
(***************************************************************************)
(* The parallel reader of the 2014-2015 project (src/proj/2014-2015/src:   *)
(* reader_parallel.c, shared_buffer.c): main pushes file names on a shared *)
(* buffer, reader threads take them off and read the files; at the end of  *)
(* the input main pushes one NULL per thread, and a thread that takes a    *)
(* NULL exits. The buffer is a stack: what was inserted last is consumed   *)
(* first. What a thread finds in a file is not modelled here.              *)
(***************************************************************************)
EXTENDS Integers, FiniteSets

CONSTANTS Threads,   \* READER_THREAD_COUNT threads
          Main,
          Nobody,    \* no owner of the mutex
          Size,      \* ITEM_BUFFER_SIZE
          MaxFiles   \* bound on the names in the input

ASSUME ThreadsAssumption ==
  /\ IsFiniteSet(Threads) /\ Threads # {}
  /\ Main \notin Threads /\ Nobody \notin Threads \cup {Main}
ASSUME SizeAssumption == Size \in Nat \ {0} /\ MaxFiles \in Nat

Actors == Threads \cup {Main}
NULL   == 0
Items  == 0 .. MaxFiles       \* NULL, or the n-th name that was read

VARIABLES buffer, index, empty, occupied, mutex,   \* shared_buffer_t
          pc, item,     \* each thread's place; what it inserts or consumed
          files, nulls, \* names read, NULLs inserted by main
          read          \* history: the items whose file was read

vars == <<buffer, index, empty, occupied, mutex, pc, item, files, nulls, read>>

Init ==
  /\ buffer = [i \in 0 .. Size - 1 |-> NULL]
  /\ index = 0
  /\ empty = Size
  /\ occupied = 0
  /\ mutex = Nobody
  /\ pc = [a \in Actors |-> IF a = Main THEN "read_name" ELSE "wait_occupied"]
  /\ item = [a \in Actors |-> NULL]
  /\ files = 0
  /\ nulls = 0
  /\ read = {}

Goto(a, from, to) == pc[a] = from /\ pc' = [pc EXCEPT ![a] = to]

----------------------------------------------------------------------------
(* Both sides of the buffer. *)

LockUnchecked(a) ==                                        \* mutant
  /\ Goto(a, "lock", IF a = Main THEN "store" ELSE "decrement")
  /\ mutex' = a
  /\ UNCHANGED <<buffer, index, empty, occupied, item, files, nulls, read>>

Lock(a) ==
  /\ Goto(a, "lock", IF a = Main THEN "store" ELSE "decrement")
  /\ mutex = Nobody
  /\ mutex' = a
  /\ UNCHANGED <<buffer, index, empty, occupied, item, files, nulls, read>>

Unlock(a) ==
  /\ Goto(a, "unlock", IF a = Main THEN "post_occupied" ELSE "post_empty")
  /\ mutex' = Nobody
  /\ UNCHANGED <<buffer, index, empty, occupied, item, files, nulls, read>>

----------------------------------------------------------------------------
(* shared_buffer_consume and reader_thread. *)

WaitOccupied(t) ==
  /\ Goto(t, "wait_occupied", "lock")
  /\ occupied > 0
  /\ occupied' = occupied - 1
  /\ UNCHANGED <<buffer, index, empty, mutex, item, files, nulls, read>>

(* item = s->buffer[--(s->index)] *)
Decrement(t) ==
  /\ Goto(t, "decrement", "take")
  /\ index' = index - 1
  /\ UNCHANGED <<buffer, empty, occupied, mutex, item, files, nulls, read>>

Take(t) ==
  /\ Goto(t, "take", "unlock")
  /\ item' = [item EXCEPT ![t] = buffer[index]]
  /\ UNCHANGED <<buffer, index, empty, occupied, mutex, files, nulls, read>>

PostEmpty(t) ==
  /\ Goto(t, "post_empty", IF item[t] = NULL THEN "exited" ELSE "read_file")
  /\ empty' = empty + 1
  /\ UNCHANGED <<buffer, index, occupied, mutex, item, files, nulls, read>>

ReadFile(t) ==
  /\ Goto(t, "read_file", "wait_occupied")
  /\ read' = read \cup {item[t]}
  /\ item' = [item EXCEPT ![t] = NULL]
  /\ UNCHANGED <<buffer, index, empty, occupied, mutex, files, nulls>>

Reader(t) ==
  \/ WaitOccupied(t) \/ Decrement(t) \/ Take(t) \/ PostEmpty(t) \/ ReadFile(t)

----------------------------------------------------------------------------
(* main and shared_buffer_insert. *)

NullsLeftButOne == nulls + 1 < Cardinality(Threads)        \* mutant
NullsLeft       == nulls < Cardinality(Threads)

ReadName ==
  /\ files < MaxFiles /\ nulls = 0
  /\ Goto(Main, "read_name", "wait_empty")
  /\ files' = files + 1
  /\ item' = [item EXCEPT ![Main] = files + 1]
  /\ UNCHANGED <<buffer, index, empty, occupied, mutex, nulls, read>>

(* At the end of the input, and again for each NULL. *)
MakeThreadQuit ==
  /\ NullsLeft
  /\ Goto(Main, "read_name", "wait_empty")
  /\ item' = [item EXCEPT ![Main] = NULL]
  /\ nulls' = nulls + 1
  /\ UNCHANGED <<buffer, index, empty, occupied, mutex, files, read>>

WaitEmptyWithoutTaking ==                                  \* mutant
  /\ Goto(Main, "wait_empty", "lock")
  /\ empty > 0
  /\ UNCHANGED <<buffer, index, empty, occupied, mutex, item, files, nulls,
                 read>>

WaitEmpty ==
  /\ Goto(Main, "wait_empty", "lock")
  /\ empty > 0
  /\ empty' = empty - 1
  /\ UNCHANGED <<buffer, index, occupied, mutex, item, files, nulls, read>>

(* s->buffer[s->index++] = i *)
Store ==
  /\ Goto(Main, "store", "increment")
  /\ buffer' = [buffer EXCEPT ![index] = item[Main]]
  /\ UNCHANGED <<index, empty, occupied, mutex, item, files, nulls, read>>

Increment ==
  /\ Goto(Main, "increment", "unlock")
  /\ index' = index + 1
  /\ item' = [item EXCEPT ![Main] = NULL]
  /\ UNCHANGED <<buffer, empty, occupied, mutex, files, nulls, read>>

PostOccupied ==
  /\ Goto(Main, "post_occupied", "read_name")
  /\ occupied' = occupied + 1
  /\ UNCHANGED <<buffer, index, empty, mutex, item, files, nulls, read>>

(* wait_for_threads, shared_buffer_close *)
Close ==
  /\ ~NullsLeft
  /\ Goto(Main, "read_name", "closed")
  /\ \A t \in Threads : pc[t] = "exited"
  /\ UNCHANGED <<buffer, index, empty, occupied, mutex, item, files, nulls, read>>

MainStep == MakeThreadQuit \/ WaitEmpty \/ Store \/ Increment \/ PostOccupied
            \/ Close

Closed == pc[Main] = "closed" /\ UNCHANGED vars

Next ==
  \/ \E a \in Actors : Lock(a) \/ Unlock(a)
  \/ \E t \in Threads : Reader(t)
  \/ ReadName \/ MainStep
  \/ Closed

(* Threads that can run do; the input ends. *)
Fairness ==
  /\ \A t \in Threads : WF_vars(Lock(t) \/ Unlock(t) \/ Reader(t))
  /\ WF_vars(Lock(Main) \/ Unlock(Main) \/ MainStep)

Spec     == Init /\ [][Next]_vars
FairSpec == Spec /\ Fairness
----------------------------------------------------------------------------
(* Types of all the variables. *)
PoolTypeOK ==
  /\ buffer \in [0 .. Size - 1 -> Items]
  /\ index \in 0 .. Size
  /\ empty \in 0 .. Size
  /\ occupied \in 0 .. Size
  /\ mutex \in Actors \cup {Nobody}
  /\ item \in [Actors -> Items]
  /\ files \in 0 .. MaxFiles
  /\ nulls \in 0 .. Cardinality(Threads)
  /\ read \in SUBSET (1 .. MaxFiles)

(* Every name that was read from the input is in exactly one place: with main
   before it is inserted, in the buffer, with one reader, or done. The buffer
   neither overwrites, drops nor hands out twice what it was given. *)
Top == IF \E t \in Threads : pc[t] = "take" THEN index + 1 ELSE index
Places(f) ==
  Cardinality({i \in 0 .. Top - 1 : buffer[i] = f})
  + Cardinality({a \in Actors : item[a] = f})
  + Cardinality(read \cap {f})
OnePlaceEach == \A f \in 1 .. files : Places(f) = 1

(* The semaphores count the free and the filled slots, less those a thread
   has reserved: no insert goes above the buffer and no consume below it. *)
InsertAt(S)  == IF pc[Main] \in S THEN 1 ELSE 0
ConsumeAt(S) == Cardinality({t \in Threads : pc[t] \in S})
SlotsCounted ==
  /\ empty = Size - index - InsertAt({"lock", "store", "increment"})
                          - ConsumeAt({"take", "unlock", "post_empty"})
  /\ occupied = index - InsertAt({"unlock", "post_occupied"})
                      - ConsumeAt({"lock", "decrement"})

(* Every reader gets its NULL, and main is able to join them all. *)
Closes == nulls > 0 ~> pc[Main] = "closed"

(* reader_parallel.h:28: "Runs reader threads, each one reading a different
   file brought to it via a shared buffer": no file that was brought to them
   is left unread when the program ends. *)
AllFilesRead == pc[Main] = "closed" => read = 1 .. files
============================================================================
