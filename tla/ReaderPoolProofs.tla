-------------------------- MODULE ReaderPoolProofs --------------------------
(***************************************************************************)
(* Proofs about the parallel reader, for any number of threads, any size   *)
(* of the buffer and any input: the two semaphores keep the index inside   *)
(* the buffer, and with the mutex every name in exactly one place.         *)
(***************************************************************************)
EXTENDS ReaderPool, FiniteSetTheorems, TLAPS

ThreadLabels == {"wait_occupied", "lock", "decrement", "take", "unlock",
                 "post_empty", "read_file", "exited"}
MainLabels   == {"read_name", "wait_empty", "lock", "store", "increment",
                 "unlock", "post_occupied", "closed"}

Typed ==
  /\ buffer \in [0 .. Size - 1 -> Items]
  /\ index \in Int /\ empty \in Nat /\ occupied \in Nat
  /\ mutex \in Actors \cup {Nobody}
  /\ item \in [Actors -> Items]
  /\ files \in 0 .. MaxFiles
  /\ nulls \in 0 .. Cardinality(Threads)
  /\ read \in SUBSET (1 .. MaxFiles)

(* Each thread is in its own code, and has an item only where it may. *)
PlacesOK ==
  /\ pc \in [Actors -> ThreadLabels \cup MainLabels]
  /\ pc[Main] \in MainLabels
  /\ \A t \in Threads : pc[t] \in ThreadLabels
  /\ \A t \in Threads :
       /\ pc[t] \in {"wait_occupied", "lock", "decrement", "take", "exited"}
            => item[t] = NULL
       /\ pc[t] = "read_file" => item[t] # NULL
  /\ pc[Main] \in {"read_name", "unlock", "post_occupied", "closed"} => item[Main] = NULL

(* The threads that move the index or use the slot it names have the mutex,
   so what main stored is there until it counts it. *)
Critical == {"store", "increment", "decrement", "take", "unlock"}
MutexOK ==
  /\ \A a \in Actors : pc[a] \in Critical <=> mutex = a
  /\ pc[Main] = "increment" => buffer[index] = item[Main]

(* No place has a name that another place has too. *)
PlacesApart ==
  /\ \A i, j \in 0 .. Top - 1 : buffer[i] = buffer[j] /\ buffer[i] # NULL => i = j
  /\ \A a, b \in Actors : item[a] = item[b] /\ item[a] # NULL => a = b
  /\ \A i \in 0 .. Top - 1, a \in Actors : buffer[i] = item[a] => item[a] = NULL
  /\ \A i \in 0 .. Top - 1 : buffer[i] \notin read
  /\ \A a \in Actors : item[a] \notin read

(* No name is lost, and none comes from nowhere. *)
PlacesFull ==
  /\ \A f \in 1 .. files :
       \/ \E i \in 0 .. Top - 1 : buffer[i] = f
       \/ \E a \in Actors : item[a] = f
       \/ f \in read
  /\ \A i \in 0 .. Size - 1 : buffer[i] <= files
  /\ \A a \in Actors : item[a] <= files
  /\ \A f \in read : f <= files

PoolInv == Typed /\ PlacesOK /\ SlotsCounted /\ MutexOK /\ PlacesApart /\ PlacesFull

(* A thread that moves is counted where it comes to and no more where it was. *)
LEMMA ThreadMoves ==
  ASSUME NEW S, NEW t \in Threads, NEW to,
         pc \in [Actors -> ThreadLabels \cup MainLabels],
         pc' = [pc EXCEPT ![t] = to]
  PROVE  /\ ConsumeAt(S) \in Nat
         /\ pc[t] \in S => ConsumeAt(S) > 0
         /\ ConsumeAt(S)' = ConsumeAt(S) + (IF to \in S THEN 1 ELSE 0)
                                         - (IF pc[t] \in S THEN 1 ELSE 0)
         /\ InsertAt(S)' = InsertAt(S)
<1> DEFINE Before == {u \in Threads : pc[u] \in S}
           Others == Before \ {t}
<1>1. IsFiniteSet(Before)
  BY ThreadsAssumption, FS_Subset
<1>2. /\ IsFiniteSet(Others) /\ Cardinality(Before) \in Nat
      /\ Cardinality(Others) = IF t \in Before THEN Cardinality(Before) - 1
                               ELSE Cardinality(Before)
  BY <1>1, FS_RemoveElement, FS_CardinalityType
<1>3. Cardinality(Others) \in Nat
  BY <1>2, FS_CardinalityType
<1>4. ConsumeAt(S)' = IF to \in S THEN Cardinality(Others) + 1 ELSE Cardinality(Others)
  <2>1. CASE to \in S
    <3>1. {u \in Threads : pc'[u] \in S} = Others \cup {t}
      BY <2>1, ThreadsAssumption DEF Actors
    <3>2. Cardinality(Others \cup {t}) = Cardinality(Others) + 1
      BY <1>2, FS_AddElement
    <3> QED
      BY <2>1, <3>1, <3>2 DEF ConsumeAt
  <2>2. CASE to \notin S
    <3>1. {u \in Threads : pc'[u] \in S} = Others
      BY <2>2, ThreadsAssumption DEF Actors
    <3> QED
      BY <2>2, <3>1 DEF ConsumeAt
  <2> QED
    BY <2>1, <2>2
<1>5. InsertAt(S)' = InsertAt(S)
  BY ThreadsAssumption DEF InsertAt, Actors
<1> HIDE DEF Others
<1>6. t \in Before <=> pc[t] \in S
  OBVIOUS
<1>7. ConsumeAt(S) = Cardinality(Before)
  BY DEF ConsumeAt
<1> QED
  BY <1>2, <1>3, <1>4, <1>5, <1>6, <1>7

LEMMA MainMoves ==
  ASSUME NEW S, NEW to, pc \in [Actors -> ThreadLabels \cup MainLabels],
         pc' = [pc EXCEPT ![Main] = to]
  PROVE  /\ ConsumeAt(S)' = ConsumeAt(S) /\ ConsumeAt(S) \in Nat
         /\ InsertAt(S)' = IF to \in S THEN 1 ELSE 0
<1>1. ConsumeAt(S)' = ConsumeAt(S)
  <2>1. {t \in Threads : pc'[t] \in S} = {t \in Threads : pc[t] \in S}
    BY ThreadsAssumption DEF Actors
  <2> QED
    BY <2>1 DEF ConsumeAt
<1>2. ConsumeAt(S) \in Nat
  <2>1. IsFiniteSet({t \in Threads : pc[t] \in S})
    BY ThreadsAssumption, FS_Subset
  <2> QED
    BY <2>1, FS_CardinalityType DEF ConsumeAt
<1> QED
  BY <1>1, <1>2 DEF InsertAt, Actors

(* What the semaphores say of the index. *)
LEMMA IndexInside ==
  ASSUME Typed, PlacesOK, SlotsCounted
  PROVE  /\ index \in 0 .. Size /\ empty \in 0 .. Size /\ occupied \in 0 .. Size
         /\ pc[Main] \in {"lock", "store", "increment"} => index < Size
         /\ \A t \in Threads :
              /\ pc[t] \in {"take", "unlock", "post_empty"} => index < Size
              /\ pc[t] \in {"lock", "decrement"} => index > 0
<1> DEFINE R == {"take", "unlock", "post_empty"}
           D == {"lock", "decrement"}
<1>1. \A S : ConsumeAt(S) \in Nat
  BY ThreadsAssumption, FS_Subset, FS_CardinalityType DEF ConsumeAt
<1>2. \A S : \A t \in Threads : pc[t] \in S => ConsumeAt(S) # 0
  BY ThreadsAssumption, FS_Subset, FS_EmptySet DEF ConsumeAt
<1>3. \A S : InsertAt(S) \in {0, 1}
  BY DEF InsertAt
<1>4. empty = Size - index - InsertAt({"lock", "store", "increment"}) - ConsumeAt(R)
  BY DEF SlotsCounted
<1>5. occupied = index - InsertAt({"unlock", "post_occupied"}) - ConsumeAt(D)
  BY DEF SlotsCounted
<1>6. /\ ConsumeAt(R) \in Nat /\ ConsumeAt(D) \in Nat
      /\ InsertAt({"lock", "store", "increment"}) \in {0, 1}
      /\ InsertAt({"unlock", "post_occupied"}) \in {0, 1}
  BY <1>1, <1>3
<1> HIDE DEF R, D
<1>0. index \in Int /\ empty \in Nat /\ occupied \in Nat /\ Size \in Nat
  BY SizeAssumption DEF Typed
<1>7. index \in 0 .. Size /\ empty \in 0 .. Size /\ occupied \in 0 .. Size
  BY <1>0, <1>4, <1>5, <1>6
<1>8. pc[Main] \in {"lock", "store", "increment"} => index < Size
  BY <1>4, <1>6, SizeAssumption DEF Typed, InsertAt
<1>9. ASSUME NEW t \in Threads PROVE pc[t] \in R => index < Size
  <2>1. pc[t] \in R => ConsumeAt(R) # 0
    BY <1>2
  <2> QED
    BY <1>0, <1>4, <1>6, <2>1
<1>10. ASSUME NEW t \in Threads PROVE pc[t] \in D => index > 0
  BY <1>0, <1>2, <1>5, <1>6
<1> QED
  BY <1>7, <1>8, <1>9, <1>10 DEF R, D

(* Every step keeps the types. *)
LEMMA TypedStep ==
  Typed /\ PlacesOK /\ SlotsCounted /\ [Next]_vars => Typed'
<1> SUFFICES ASSUME Typed, PlacesOK, SlotsCounted, [Next]_vars PROVE Typed'
  OBVIOUS
<1> USE DEF Typed, PlacesOK, Actors, Items, NULL
<1>1. ASSUME NEW a \in Actors, Lock(a) PROVE Typed'
  BY <1>1, ThreadsAssumption, SizeAssumption DEF Lock, Goto
<1>2. ASSUME NEW a \in Actors, Unlock(a) PROVE Typed'
  BY <1>2, ThreadsAssumption, SizeAssumption DEF Unlock, Goto
<1>3. ASSUME NEW t \in Threads, WaitOccupied(t) PROVE Typed'
  BY <1>3, ThreadsAssumption, SizeAssumption DEF WaitOccupied, Goto
<1>4. ASSUME NEW t \in Threads, Decrement(t) PROVE Typed'
  BY <1>4, ThreadsAssumption, SizeAssumption DEF Decrement, Goto
<1>5. ASSUME NEW t \in Threads, Take(t) PROVE Typed'
  BY <1>5, IndexInside, ThreadsAssumption, SizeAssumption DEF Take, Goto
<1>6. ASSUME NEW t \in Threads, PostEmpty(t) PROVE Typed'
  BY <1>6, ThreadsAssumption, SizeAssumption DEF PostEmpty, Goto
<1>7. ASSUME NEW t \in Threads, ReadFile(t) PROVE Typed'
  <2>1. item[t] \in 1 .. MaxFiles
    BY <1>7, SizeAssumption DEF ReadFile, Goto
  <2>2. read' \in SUBSET (1 .. MaxFiles)
    BY <1>7, <2>1 DEF ReadFile
  <2>3. item' \in [Actors -> Items]
    BY <1>7, SizeAssumption DEF ReadFile
  <2> QED
    BY <1>7, <2>2, <2>3 DEF ReadFile
<1>8. ASSUME ReadName PROVE Typed'
  BY <1>8, ThreadsAssumption, SizeAssumption DEF ReadName, Goto
<1>9. ASSUME MakeThreadQuit PROVE Typed'
  BY <1>9, FS_CardinalityType, ThreadsAssumption, SizeAssumption DEF
    MakeThreadQuit, Goto, NullsLeft
<1>10. ASSUME WaitEmpty PROVE Typed'
  BY <1>10, ThreadsAssumption, SizeAssumption DEF WaitEmpty, Goto
<1>11. ASSUME Store PROVE Typed'
  BY <1>11, IndexInside, ThreadsAssumption, SizeAssumption DEF Store, Goto
<1>12. ASSUME Increment PROVE Typed'
  BY <1>12, ThreadsAssumption, SizeAssumption DEF Increment, Goto
<1>13. ASSUME PostOccupied PROVE Typed'
  BY <1>13, ThreadsAssumption, SizeAssumption DEF PostOccupied, Goto
<1>14. ASSUME Close PROVE Typed'
  BY <1>14, ThreadsAssumption, SizeAssumption DEF Close, Goto, NullsLeft
<1>15. ASSUME Closed PROVE Typed'
  BY <1>15, ThreadsAssumption, SizeAssumption DEF Closed, vars
<1>16. CASE UNCHANGED vars
  BY <1>16, ThreadsAssumption, SizeAssumption DEF vars
<1> QED
  BY <1>1, <1>2, <1>3, <1>4, <1>5, <1>6, <1>7, <1>8, <1>9, <1>10, <1>11, <1>12,
    <1>13, <1>14, <1>15, <1>16 DEF Next, Reader, MainStep

(* Every step keeps each thread in its own code. *)
LEMMA PlacesOKStep ==
  Typed /\ PlacesOK /\ [Next]_vars => PlacesOK'
<1> SUFFICES ASSUME Typed, PlacesOK, [Next]_vars PROVE PlacesOK'
  OBVIOUS
<1> USE DEF Typed, PlacesOK, Actors, ThreadLabels, MainLabels, NULL, Items
<1>1. ASSUME NEW a \in Actors, Lock(a) PROVE PlacesOK'
  BY <1>1, ThreadsAssumption DEF Lock, Goto
<1>2. ASSUME NEW a \in Actors, Unlock(a) PROVE PlacesOK'
  BY <1>2, ThreadsAssumption DEF Unlock, Goto
<1>3. ASSUME NEW t \in Threads, WaitOccupied(t) PROVE PlacesOK'
  BY <1>3, ThreadsAssumption DEF WaitOccupied, Goto
<1>4. ASSUME NEW t \in Threads, Decrement(t) PROVE PlacesOK'
  BY <1>4, ThreadsAssumption DEF Decrement, Goto
<1>5. ASSUME NEW t \in Threads, Take(t) PROVE PlacesOK'
  BY <1>5, ThreadsAssumption DEF Take, Goto
<1>6. ASSUME NEW t \in Threads, PostEmpty(t) PROVE PlacesOK'
  BY <1>6, ThreadsAssumption DEF PostEmpty, Goto
<1>7. ASSUME NEW t \in Threads, ReadFile(t) PROVE PlacesOK'
  BY <1>7, ThreadsAssumption DEF ReadFile, Goto
<1>8. ASSUME ReadName PROVE PlacesOK'
  BY <1>8, ThreadsAssumption DEF ReadName, Goto
<1>9. ASSUME MakeThreadQuit PROVE PlacesOK'
  BY <1>9, ThreadsAssumption DEF MakeThreadQuit, Goto, NullsLeft
<1>10. ASSUME WaitEmpty PROVE PlacesOK'
  BY <1>10, ThreadsAssumption DEF WaitEmpty, Goto
<1>11. ASSUME Store PROVE PlacesOK'
  BY <1>11, ThreadsAssumption DEF Store, Goto
<1>12. ASSUME Increment PROVE PlacesOK'
  BY <1>12, ThreadsAssumption DEF Increment, Goto
<1>13. ASSUME PostOccupied PROVE PlacesOK'
  BY <1>13, ThreadsAssumption DEF PostOccupied, Goto
<1>14. ASSUME Close PROVE PlacesOK'
  BY <1>14, ThreadsAssumption DEF Close, Goto, NullsLeft
<1>15. ASSUME Closed PROVE PlacesOK'
  BY <1>15, ThreadsAssumption DEF Closed, vars
<1>16. CASE UNCHANGED vars
  BY <1>16, ThreadsAssumption DEF vars
<1> QED
  BY <1>1, <1>2, <1>3, <1>4, <1>5, <1>6, <1>7, <1>8, <1>9, <1>10, <1>11, <1>12,
    <1>13, <1>14, <1>15, <1>16 DEF Next, Reader, MainStep

(* Every step keeps the semaphores true to the index. *)
LEMMA SlotsStep ==
  Typed /\ PlacesOK /\ SlotsCounted /\ [Next]_vars => SlotsCounted'
<1> SUFFICES ASSUME Typed, PlacesOK, SlotsCounted, [Next]_vars PROVE
  SlotsCounted'
  OBVIOUS
<1>1. ASSUME NEW a \in Actors, Lock(a) PROVE SlotsCounted'
  <2>1. CASE a = Main
    <3> DEFINE R == {"take", "unlock", "post_empty"}
              D == {"lock", "decrement"}
              J == {"lock", "store", "increment"}
              K == {"unlock", "post_occupied"}
    <3>1. \A S : /\ ConsumeAt(S)' = ConsumeAt(S) /\ ConsumeAt(S) \in Nat
                 /\ InsertAt(S)' = IF pc'[Main] \in S THEN 1 ELSE 0
      BY <1>1, <2>1, MainMoves DEF Lock, Goto, PlacesOK
    <3>2. /\ ConsumeAt(R)' = ConsumeAt(R) /\ ConsumeAt(R) \in Nat
          /\ ConsumeAt(D)' = ConsumeAt(D) /\ ConsumeAt(D) \in Nat
          /\ InsertAt(J)' = IF pc'[Main] \in J THEN 1 ELSE 0
          /\ InsertAt(K)' = IF pc'[Main] \in K THEN 1 ELSE 0
      BY <3>1
    <3>3. /\ InsertAt(J) = IF pc[Main] \in J THEN 1 ELSE 0
          /\ InsertAt(K) = IF pc[Main] \in K THEN 1 ELSE 0
      BY DEF InsertAt
    <3>4. /\ empty = Size - index - InsertAt(J) - ConsumeAt(R)
          /\ occupied = index - InsertAt(K) - ConsumeAt(D)
      BY DEF SlotsCounted
    <3>5. /\ empty' = Size - index' - InsertAt(J)' - ConsumeAt(R)'
          /\ occupied' = index' - InsertAt(K)' - ConsumeAt(D)'
      BY <1>1, <2>1, <3>2, <3>3, <3>4, SizeAssumption DEF Lock, Goto, Typed
    <3> QED
      BY <3>5 DEF SlotsCounted
  <2>2. CASE a # Main
    <3> DEFINE t == a
    <3>0. t \in Threads
      BY <2>2 DEF Actors
    <3> DEFINE R == {"take", "unlock", "post_empty"}
              D == {"lock", "decrement"}
              J == {"lock", "store", "increment"}
              K == {"unlock", "post_occupied"}
    <3>1. \A S : /\ ConsumeAt(S)' = ConsumeAt(S) + (IF pc'[t] \in S THEN 1 ELSE 0)
                                               - (IF pc[t] \in S THEN 1 ELSE 0)
                 /\ InsertAt(S)' = InsertAt(S)
      <4>1. pc' = [pc EXCEPT ![t] = pc'[t]]
        BY <1>1, <2>2, <3>0 DEF Lock, Goto, PlacesOK, Actors
      <4> QED
        BY <1>1, <2>2, <3>0, <4>1, ThreadMoves DEF PlacesOK
    <3>2. /\ ConsumeAt(R)' = ConsumeAt(R) + (IF pc'[t] \in R THEN 1 ELSE 0)
                                         - (IF pc[t] \in R THEN 1 ELSE 0)
          /\ ConsumeAt(D)' = ConsumeAt(D) + (IF pc'[t] \in D THEN 1 ELSE 0)
                                         - (IF pc[t] \in D THEN 1 ELSE 0)
          /\ InsertAt(J)' = InsertAt(J) /\ InsertAt(K)' = InsertAt(K)
      BY <3>1
    <3>3. /\ ConsumeAt(R) \in Nat /\ ConsumeAt(D) \in Nat
          /\ InsertAt(J) \in {0, 1} /\ InsertAt(K) \in {0, 1}
      BY <1>1, <2>2, <3>0, ThreadMoves DEF Lock, Goto, PlacesOK, InsertAt
    <3>4. /\ empty = Size - index - InsertAt(J) - ConsumeAt(R)
          /\ occupied = index - InsertAt(K) - ConsumeAt(D)
      BY DEF SlotsCounted
    <3>5. /\ empty' = Size - index' - InsertAt(J)' - ConsumeAt(R)'
          /\ occupied' = index' - InsertAt(K)' - ConsumeAt(D)'
      <4>1. /\ pc[t] \in R <=> "lock" \in R
            /\ pc[t] \in D <=> "lock" \in D
            /\ pc'[t] \in R <=> "decrement" \in R
            /\ pc'[t] \in D <=> "decrement" \in D
        BY <1>1, <2>2, <3>0, ThreadsAssumption DEF Lock, Goto, PlacesOK, Actors
      <4>2. index \in Int /\ empty \in Nat /\ occupied \in Nat /\ Size \in Nat
        BY SizeAssumption DEF Typed
      <4> QED
        BY <1>1, <2>2, <3>0, <3>2, <3>3, <3>4, <4>1, <4>2 DEF Lock
    <3> QED
      BY <3>5 DEF SlotsCounted
  <2> QED
    BY <2>1, <2>2
<1>2. ASSUME NEW a \in Actors, Unlock(a) PROVE SlotsCounted'
  <2>1. CASE a = Main
    <3> DEFINE R == {"take", "unlock", "post_empty"}
              D == {"lock", "decrement"}
              J == {"lock", "store", "increment"}
              K == {"unlock", "post_occupied"}
    <3>1. \A S : /\ ConsumeAt(S)' = ConsumeAt(S) /\ ConsumeAt(S) \in Nat
                 /\ InsertAt(S)' = IF pc'[Main] \in S THEN 1 ELSE 0
      BY <1>2, <2>1, MainMoves DEF Unlock, Goto, PlacesOK
    <3>2. /\ ConsumeAt(R)' = ConsumeAt(R) /\ ConsumeAt(R) \in Nat
          /\ ConsumeAt(D)' = ConsumeAt(D) /\ ConsumeAt(D) \in Nat
          /\ InsertAt(J)' = IF pc'[Main] \in J THEN 1 ELSE 0
          /\ InsertAt(K)' = IF pc'[Main] \in K THEN 1 ELSE 0
      BY <3>1
    <3>3. /\ InsertAt(J) = IF pc[Main] \in J THEN 1 ELSE 0
          /\ InsertAt(K) = IF pc[Main] \in K THEN 1 ELSE 0
      BY DEF InsertAt
    <3>4. /\ empty = Size - index - InsertAt(J) - ConsumeAt(R)
          /\ occupied = index - InsertAt(K) - ConsumeAt(D)
      BY DEF SlotsCounted
    <3>5. /\ empty' = Size - index' - InsertAt(J)' - ConsumeAt(R)'
          /\ occupied' = index' - InsertAt(K)' - ConsumeAt(D)'
      BY <1>2, <2>1, <3>2, <3>3, <3>4, SizeAssumption DEF Unlock, Goto, Typed
    <3> QED
      BY <3>5 DEF SlotsCounted
  <2>2. CASE a # Main
    <3> DEFINE t == a
    <3>0. t \in Threads
      BY <2>2 DEF Actors
    <3> DEFINE R == {"take", "unlock", "post_empty"}
              D == {"lock", "decrement"}
              J == {"lock", "store", "increment"}
              K == {"unlock", "post_occupied"}
    <3>1. \A S : /\ ConsumeAt(S)' = ConsumeAt(S) + (IF pc'[t] \in S THEN 1 ELSE 0)
                                               - (IF pc[t] \in S THEN 1 ELSE 0)
                 /\ InsertAt(S)' = InsertAt(S)
      <4>1. pc' = [pc EXCEPT ![t] = pc'[t]]
        BY <1>2, <2>2, <3>0 DEF Unlock, Goto, PlacesOK, Actors
      <4> QED
        BY <1>2, <2>2, <3>0, <4>1, ThreadMoves DEF PlacesOK
    <3>2. /\ ConsumeAt(R)' = ConsumeAt(R) + (IF pc'[t] \in R THEN 1 ELSE 0)
                                         - (IF pc[t] \in R THEN 1 ELSE 0)
          /\ ConsumeAt(D)' = ConsumeAt(D) + (IF pc'[t] \in D THEN 1 ELSE 0)
                                         - (IF pc[t] \in D THEN 1 ELSE 0)
          /\ InsertAt(J)' = InsertAt(J) /\ InsertAt(K)' = InsertAt(K)
      BY <3>1
    <3>3. /\ ConsumeAt(R) \in Nat /\ ConsumeAt(D) \in Nat
          /\ InsertAt(J) \in {0, 1} /\ InsertAt(K) \in {0, 1}
      BY <1>2, <2>2, <3>0, ThreadMoves DEF Unlock, Goto, PlacesOK, InsertAt
    <3>4. /\ empty = Size - index - InsertAt(J) - ConsumeAt(R)
          /\ occupied = index - InsertAt(K) - ConsumeAt(D)
      BY DEF SlotsCounted
    <3>5. /\ empty' = Size - index' - InsertAt(J)' - ConsumeAt(R)'
          /\ occupied' = index' - InsertAt(K)' - ConsumeAt(D)'
      <4>1. /\ pc[t] \in R <=> "unlock" \in R
            /\ pc[t] \in D <=> "unlock" \in D
            /\ pc'[t] \in R <=> "post_empty" \in R
            /\ pc'[t] \in D <=> "post_empty" \in D
        BY <1>2, <2>2, <3>0, ThreadsAssumption DEF Unlock, Goto, PlacesOK, Actors
      <4>2. index \in Int /\ empty \in Nat /\ occupied \in Nat /\ Size \in Nat
        BY SizeAssumption DEF Typed
      <4> QED
        BY <1>2, <2>2, <3>0, <3>2, <3>3, <3>4, <4>1, <4>2 DEF Unlock
    <3> QED
      BY <3>5 DEF SlotsCounted
  <2> QED
    BY <2>1, <2>2
<1>3. ASSUME NEW t \in Threads, WaitOccupied(t) PROVE SlotsCounted'
  <2> DEFINE R == {"take", "unlock", "post_empty"}
            D == {"lock", "decrement"}
            J == {"lock", "store", "increment"}
            K == {"unlock", "post_occupied"}
  <2>1. \A S : /\ ConsumeAt(S)' = ConsumeAt(S) + (IF "lock" \in S THEN 1 ELSE 0)
                                             - (IF pc[t] \in S THEN 1 ELSE 0)
               /\ InsertAt(S)' = InsertAt(S)
    <3>1. pc' = [pc EXCEPT ![t] = "lock"]
      BY <1>3 DEF WaitOccupied, Goto, PlacesOK, Actors
    <3> QED
      BY <1>3, <3>1, ThreadMoves DEF PlacesOK
  <2>2. /\ ConsumeAt(R)' = ConsumeAt(R) + (IF "lock" \in R THEN 1 ELSE 0)
                                       - (IF pc[t] \in R THEN 1 ELSE 0)
        /\ ConsumeAt(D)' = ConsumeAt(D) + (IF "lock" \in D THEN 1 ELSE 0)
                                       - (IF pc[t] \in D THEN 1 ELSE 0)
        /\ InsertAt(J)' = InsertAt(J) /\ InsertAt(K)' = InsertAt(K)
    BY <2>1
  <2>3. /\ ConsumeAt(R) \in Nat /\ ConsumeAt(D) \in Nat
        /\ InsertAt(J) \in {0, 1} /\ InsertAt(K) \in {0, 1}
    BY <1>3, ThreadMoves DEF WaitOccupied, Goto, PlacesOK, InsertAt
  <2>4. /\ empty = Size - index - InsertAt(J) - ConsumeAt(R)
        /\ occupied = index - InsertAt(K) - ConsumeAt(D)
    BY DEF SlotsCounted
  <2>5. /\ empty' = Size - index' - InsertAt(J)' - ConsumeAt(R)'
        /\ occupied' = index' - InsertAt(K)' - ConsumeAt(D)'
    <3>1. /\ pc[t] \in R <=> "wait_occupied" \in R
          /\ pc[t] \in D <=> "wait_occupied" \in D
          /\ "lock" \in R <=> "lock" \in R
          /\ "lock" \in D <=> "lock" \in D
      BY <1>3, ThreadsAssumption DEF WaitOccupied, Goto, PlacesOK, Actors
    <3>2. index \in Int /\ empty \in Nat /\ occupied \in Nat /\ Size \in Nat
      BY SizeAssumption DEF Typed
    <3> QED
      BY <1>3, <2>2, <2>3, <2>4, <3>1, <3>2 DEF WaitOccupied
  <2> QED
    BY <2>5 DEF SlotsCounted
<1>4. ASSUME NEW t \in Threads, Decrement(t) PROVE SlotsCounted'
  <2> DEFINE R == {"take", "unlock", "post_empty"}
            D == {"lock", "decrement"}
            J == {"lock", "store", "increment"}
            K == {"unlock", "post_occupied"}
  <2>1. \A S : /\ ConsumeAt(S)' = ConsumeAt(S) + (IF "take" \in S THEN 1 ELSE 0)
                                             - (IF pc[t] \in S THEN 1 ELSE 0)
               /\ InsertAt(S)' = InsertAt(S)
    <3>1. pc' = [pc EXCEPT ![t] = "take"]
      BY <1>4 DEF Decrement, Goto, PlacesOK, Actors
    <3> QED
      BY <1>4, <3>1, ThreadMoves DEF PlacesOK
  <2>2. /\ ConsumeAt(R)' = ConsumeAt(R) + (IF "take" \in R THEN 1 ELSE 0)
                                       - (IF pc[t] \in R THEN 1 ELSE 0)
        /\ ConsumeAt(D)' = ConsumeAt(D) + (IF "take" \in D THEN 1 ELSE 0)
                                       - (IF pc[t] \in D THEN 1 ELSE 0)
        /\ InsertAt(J)' = InsertAt(J) /\ InsertAt(K)' = InsertAt(K)
    BY <2>1
  <2>3. /\ ConsumeAt(R) \in Nat /\ ConsumeAt(D) \in Nat
        /\ InsertAt(J) \in {0, 1} /\ InsertAt(K) \in {0, 1}
    BY <1>4, ThreadMoves DEF Decrement, Goto, PlacesOK, InsertAt
  <2>4. /\ empty = Size - index - InsertAt(J) - ConsumeAt(R)
        /\ occupied = index - InsertAt(K) - ConsumeAt(D)
    BY DEF SlotsCounted
  <2>5. /\ empty' = Size - index' - InsertAt(J)' - ConsumeAt(R)'
        /\ occupied' = index' - InsertAt(K)' - ConsumeAt(D)'
    <3>1. /\ pc[t] \in R <=> "decrement" \in R
          /\ pc[t] \in D <=> "decrement" \in D
          /\ "take" \in R <=> "take" \in R
          /\ "take" \in D <=> "take" \in D
      BY <1>4, ThreadsAssumption DEF Decrement, Goto, PlacesOK, Actors
    <3>2. index \in Int /\ empty \in Nat /\ occupied \in Nat /\ Size \in Nat
      BY SizeAssumption DEF Typed
    <3> QED
      BY <1>4, <2>2, <2>3, <2>4, <3>1, <3>2 DEF Decrement
  <2> QED
    BY <2>5 DEF SlotsCounted
<1>5. ASSUME NEW t \in Threads, Take(t) PROVE SlotsCounted'
  <2> DEFINE R == {"take", "unlock", "post_empty"}
            D == {"lock", "decrement"}
            J == {"lock", "store", "increment"}
            K == {"unlock", "post_occupied"}
  <2>1. \A S : /\ ConsumeAt(S)' = ConsumeAt(S) + (IF "unlock" \in S THEN 1 ELSE 0)
                                             - (IF pc[t] \in S THEN 1 ELSE 0)
               /\ InsertAt(S)' = InsertAt(S)
    <3>1. pc' = [pc EXCEPT ![t] = "unlock"]
      BY <1>5 DEF Take, Goto, PlacesOK, Actors
    <3> QED
      BY <1>5, <3>1, ThreadMoves DEF PlacesOK
  <2>2. /\ ConsumeAt(R)' = ConsumeAt(R) + (IF "unlock" \in R THEN 1 ELSE 0)
                                       - (IF pc[t] \in R THEN 1 ELSE 0)
        /\ ConsumeAt(D)' = ConsumeAt(D) + (IF "unlock" \in D THEN 1 ELSE 0)
                                       - (IF pc[t] \in D THEN 1 ELSE 0)
        /\ InsertAt(J)' = InsertAt(J) /\ InsertAt(K)' = InsertAt(K)
    BY <2>1
  <2>3. /\ ConsumeAt(R) \in Nat /\ ConsumeAt(D) \in Nat
        /\ InsertAt(J) \in {0, 1} /\ InsertAt(K) \in {0, 1}
    BY <1>5, ThreadMoves DEF Take, Goto, PlacesOK, InsertAt
  <2>4. /\ empty = Size - index - InsertAt(J) - ConsumeAt(R)
        /\ occupied = index - InsertAt(K) - ConsumeAt(D)
    BY DEF SlotsCounted
  <2>5. /\ empty' = Size - index' - InsertAt(J)' - ConsumeAt(R)'
        /\ occupied' = index' - InsertAt(K)' - ConsumeAt(D)'
    <3>1. /\ pc[t] \in R <=> "take" \in R
          /\ pc[t] \in D <=> "take" \in D
          /\ "unlock" \in R <=> "unlock" \in R
          /\ "unlock" \in D <=> "unlock" \in D
      BY <1>5, ThreadsAssumption DEF Take, Goto, PlacesOK, Actors
    <3>2. index \in Int /\ empty \in Nat /\ occupied \in Nat /\ Size \in Nat
      BY SizeAssumption DEF Typed
    <3> QED
      BY <1>5, <2>2, <2>3, <2>4, <3>1, <3>2 DEF Take
  <2> QED
    BY <2>5 DEF SlotsCounted
<1>6. ASSUME NEW t \in Threads, PostEmpty(t) PROVE SlotsCounted'
  <2> DEFINE R == {"take", "unlock", "post_empty"}
            D == {"lock", "decrement"}
            J == {"lock", "store", "increment"}
            K == {"unlock", "post_occupied"}
  <2>1. \A S : /\ ConsumeAt(S)' = ConsumeAt(S) + (IF pc'[t] \in S THEN 1 ELSE 0)
                                             - (IF pc[t] \in S THEN 1 ELSE 0)
               /\ InsertAt(S)' = InsertAt(S)
    <3>1. pc' = [pc EXCEPT ![t] = pc'[t]]
      BY <1>6 DEF PostEmpty, Goto, PlacesOK, Actors
    <3> QED
      BY <1>6, <3>1, ThreadMoves DEF PlacesOK
  <2>2. /\ ConsumeAt(R)' = ConsumeAt(R) + (IF pc'[t] \in R THEN 1 ELSE 0)
                                       - (IF pc[t] \in R THEN 1 ELSE 0)
        /\ ConsumeAt(D)' = ConsumeAt(D) + (IF pc'[t] \in D THEN 1 ELSE 0)
                                       - (IF pc[t] \in D THEN 1 ELSE 0)
        /\ InsertAt(J)' = InsertAt(J) /\ InsertAt(K)' = InsertAt(K)
    BY <2>1
  <2>3. /\ ConsumeAt(R) \in Nat /\ ConsumeAt(D) \in Nat
        /\ InsertAt(J) \in {0, 1} /\ InsertAt(K) \in {0, 1}
    BY <1>6, ThreadMoves DEF PostEmpty, Goto, PlacesOK, InsertAt
  <2>4. /\ empty = Size - index - InsertAt(J) - ConsumeAt(R)
        /\ occupied = index - InsertAt(K) - ConsumeAt(D)
    BY DEF SlotsCounted
  <2>5. /\ empty' = Size - index' - InsertAt(J)' - ConsumeAt(R)'
        /\ occupied' = index' - InsertAt(K)' - ConsumeAt(D)'
    <3>1. /\ pc[t] \in R <=> "post_empty" \in R
          /\ pc[t] \in D <=> "post_empty" \in D
          /\ pc'[t] \in R <=> "exited" \in R
          /\ pc'[t] \in D <=> "exited" \in D
      BY <1>6, ThreadsAssumption DEF PostEmpty, Goto, PlacesOK, Actors
    <3>2. index \in Int /\ empty \in Nat /\ occupied \in Nat /\ Size \in Nat
      BY SizeAssumption DEF Typed
    <3> QED
      BY <1>6, <2>2, <2>3, <2>4, <3>1, <3>2 DEF PostEmpty
  <2> QED
    BY <2>5 DEF SlotsCounted
<1>7. ASSUME NEW t \in Threads, ReadFile(t) PROVE SlotsCounted'
  <2> DEFINE R == {"take", "unlock", "post_empty"}
            D == {"lock", "decrement"}
            J == {"lock", "store", "increment"}
            K == {"unlock", "post_occupied"}
  <2>1. \A S : /\ ConsumeAt(S)' = ConsumeAt(S) + (IF "wait_occupied" \in S THEN 1 ELSE 0)
                                             - (IF pc[t] \in S THEN 1 ELSE 0)
               /\ InsertAt(S)' = InsertAt(S)
    <3>1. pc' = [pc EXCEPT ![t] = "wait_occupied"]
      BY <1>7 DEF ReadFile, Goto, PlacesOK, Actors
    <3> QED
      BY <1>7, <3>1, ThreadMoves DEF PlacesOK
  <2>2. /\ ConsumeAt(R)' = ConsumeAt(R) + (IF "wait_occupied" \in R THEN 1 ELSE 0)
                                       - (IF pc[t] \in R THEN 1 ELSE 0)
        /\ ConsumeAt(D)' = ConsumeAt(D) + (IF "wait_occupied" \in D THEN 1 ELSE 0)
                                       - (IF pc[t] \in D THEN 1 ELSE 0)
        /\ InsertAt(J)' = InsertAt(J) /\ InsertAt(K)' = InsertAt(K)
    BY <2>1
  <2>3. /\ ConsumeAt(R) \in Nat /\ ConsumeAt(D) \in Nat
        /\ InsertAt(J) \in {0, 1} /\ InsertAt(K) \in {0, 1}
    BY <1>7, ThreadMoves DEF ReadFile, Goto, PlacesOK, InsertAt
  <2>4. /\ empty = Size - index - InsertAt(J) - ConsumeAt(R)
        /\ occupied = index - InsertAt(K) - ConsumeAt(D)
    BY DEF SlotsCounted
  <2>5. /\ empty' = Size - index' - InsertAt(J)' - ConsumeAt(R)'
        /\ occupied' = index' - InsertAt(K)' - ConsumeAt(D)'
    <3>1. /\ pc[t] \in R <=> "read_file" \in R
          /\ pc[t] \in D <=> "read_file" \in D
          /\ "wait_occupied" \in R <=> "wait_occupied" \in R
          /\ "wait_occupied" \in D <=> "wait_occupied" \in D
      BY <1>7, ThreadsAssumption DEF ReadFile, Goto, PlacesOK, Actors
    <3>2. index \in Int /\ empty \in Nat /\ occupied \in Nat /\ Size \in Nat
      BY SizeAssumption DEF Typed
    <3> QED
      BY <1>7, <2>2, <2>3, <2>4, <3>1, <3>2 DEF ReadFile
  <2> QED
    BY <2>5 DEF SlotsCounted
<1>8. ASSUME ReadName PROVE SlotsCounted'
  <2> DEFINE R == {"take", "unlock", "post_empty"}
            D == {"lock", "decrement"}
            J == {"lock", "store", "increment"}
            K == {"unlock", "post_occupied"}
  <2>1. \A S : /\ ConsumeAt(S)' = ConsumeAt(S) /\ ConsumeAt(S) \in Nat
               /\ InsertAt(S)' = IF "wait_empty" \in S THEN 1 ELSE 0
    BY <1>8, MainMoves DEF ReadName, Goto, PlacesOK
  <2>2. /\ ConsumeAt(R)' = ConsumeAt(R) /\ ConsumeAt(R) \in Nat
        /\ ConsumeAt(D)' = ConsumeAt(D) /\ ConsumeAt(D) \in Nat
        /\ InsertAt(J)' = IF "wait_empty" \in J THEN 1 ELSE 0
        /\ InsertAt(K)' = IF "wait_empty" \in K THEN 1 ELSE 0
    BY <2>1
  <2>3. /\ InsertAt(J) = IF pc[Main] \in J THEN 1 ELSE 0
        /\ InsertAt(K) = IF pc[Main] \in K THEN 1 ELSE 0
    BY DEF InsertAt
  <2>4. /\ empty = Size - index - InsertAt(J) - ConsumeAt(R)
        /\ occupied = index - InsertAt(K) - ConsumeAt(D)
    BY DEF SlotsCounted
  <2>5. /\ empty' = Size - index' - InsertAt(J)' - ConsumeAt(R)'
        /\ occupied' = index' - InsertAt(K)' - ConsumeAt(D)'
    BY <1>8, <2>2, <2>3, <2>4, SizeAssumption DEF ReadName, Goto, Typed
  <2> QED
    BY <2>5 DEF SlotsCounted
<1>9. ASSUME MakeThreadQuit PROVE SlotsCounted'
  <2> DEFINE R == {"take", "unlock", "post_empty"}
            D == {"lock", "decrement"}
            J == {"lock", "store", "increment"}
            K == {"unlock", "post_occupied"}
  <2>1. \A S : /\ ConsumeAt(S)' = ConsumeAt(S) /\ ConsumeAt(S) \in Nat
               /\ InsertAt(S)' = IF "wait_empty" \in S THEN 1 ELSE 0
    BY <1>9, MainMoves DEF MakeThreadQuit, Goto, PlacesOK
  <2>2. /\ ConsumeAt(R)' = ConsumeAt(R) /\ ConsumeAt(R) \in Nat
        /\ ConsumeAt(D)' = ConsumeAt(D) /\ ConsumeAt(D) \in Nat
        /\ InsertAt(J)' = IF "wait_empty" \in J THEN 1 ELSE 0
        /\ InsertAt(K)' = IF "wait_empty" \in K THEN 1 ELSE 0
    BY <2>1
  <2>3. /\ InsertAt(J) = IF pc[Main] \in J THEN 1 ELSE 0
        /\ InsertAt(K) = IF pc[Main] \in K THEN 1 ELSE 0
    BY DEF InsertAt
  <2>4. /\ empty = Size - index - InsertAt(J) - ConsumeAt(R)
        /\ occupied = index - InsertAt(K) - ConsumeAt(D)
    BY DEF SlotsCounted
  <2>5. /\ empty' = Size - index' - InsertAt(J)' - ConsumeAt(R)'
        /\ occupied' = index' - InsertAt(K)' - ConsumeAt(D)'
    BY <1>9, <2>2, <2>3, <2>4, SizeAssumption DEF MakeThreadQuit, Goto, Typed
  <2> QED
    BY <2>5 DEF SlotsCounted
<1>10. ASSUME WaitEmpty PROVE SlotsCounted'
  <2> DEFINE R == {"take", "unlock", "post_empty"}
            D == {"lock", "decrement"}
            J == {"lock", "store", "increment"}
            K == {"unlock", "post_occupied"}
  <2>1. \A S : /\ ConsumeAt(S)' = ConsumeAt(S) /\ ConsumeAt(S) \in Nat
               /\ InsertAt(S)' = IF "lock" \in S THEN 1 ELSE 0
    BY <1>10, MainMoves DEF WaitEmpty, Goto, PlacesOK
  <2>2. /\ ConsumeAt(R)' = ConsumeAt(R) /\ ConsumeAt(R) \in Nat
        /\ ConsumeAt(D)' = ConsumeAt(D) /\ ConsumeAt(D) \in Nat
        /\ InsertAt(J)' = IF "lock" \in J THEN 1 ELSE 0
        /\ InsertAt(K)' = IF "lock" \in K THEN 1 ELSE 0
    BY <2>1
  <2>3. /\ InsertAt(J) = IF pc[Main] \in J THEN 1 ELSE 0
        /\ InsertAt(K) = IF pc[Main] \in K THEN 1 ELSE 0
    BY DEF InsertAt
  <2>4. /\ empty = Size - index - InsertAt(J) - ConsumeAt(R)
        /\ occupied = index - InsertAt(K) - ConsumeAt(D)
    BY DEF SlotsCounted
  <2>5. /\ empty' = Size - index' - InsertAt(J)' - ConsumeAt(R)'
        /\ occupied' = index' - InsertAt(K)' - ConsumeAt(D)'
    BY <1>10, <2>2, <2>3, <2>4, SizeAssumption DEF WaitEmpty, Goto, Typed
  <2> QED
    BY <2>5 DEF SlotsCounted
<1>11. ASSUME Store PROVE SlotsCounted'
  <2> DEFINE R == {"take", "unlock", "post_empty"}
            D == {"lock", "decrement"}
            J == {"lock", "store", "increment"}
            K == {"unlock", "post_occupied"}
  <2>1. \A S : /\ ConsumeAt(S)' = ConsumeAt(S) /\ ConsumeAt(S) \in Nat
               /\ InsertAt(S)' = IF "increment" \in S THEN 1 ELSE 0
    BY <1>11, MainMoves DEF Store, Goto, PlacesOK
  <2>2. /\ ConsumeAt(R)' = ConsumeAt(R) /\ ConsumeAt(R) \in Nat
        /\ ConsumeAt(D)' = ConsumeAt(D) /\ ConsumeAt(D) \in Nat
        /\ InsertAt(J)' = IF "increment" \in J THEN 1 ELSE 0
        /\ InsertAt(K)' = IF "increment" \in K THEN 1 ELSE 0
    BY <2>1
  <2>3. /\ InsertAt(J) = IF pc[Main] \in J THEN 1 ELSE 0
        /\ InsertAt(K) = IF pc[Main] \in K THEN 1 ELSE 0
    BY DEF InsertAt
  <2>4. /\ empty = Size - index - InsertAt(J) - ConsumeAt(R)
        /\ occupied = index - InsertAt(K) - ConsumeAt(D)
    BY DEF SlotsCounted
  <2>5. /\ empty' = Size - index' - InsertAt(J)' - ConsumeAt(R)'
        /\ occupied' = index' - InsertAt(K)' - ConsumeAt(D)'
    BY <1>11, <2>2, <2>3, <2>4, SizeAssumption DEF Store, Goto, Typed
  <2> QED
    BY <2>5 DEF SlotsCounted
<1>12. ASSUME Increment PROVE SlotsCounted'
  <2> DEFINE R == {"take", "unlock", "post_empty"}
            D == {"lock", "decrement"}
            J == {"lock", "store", "increment"}
            K == {"unlock", "post_occupied"}
  <2>1. \A S : /\ ConsumeAt(S)' = ConsumeAt(S) /\ ConsumeAt(S) \in Nat
               /\ InsertAt(S)' = IF "unlock" \in S THEN 1 ELSE 0
    BY <1>12, MainMoves DEF Increment, Goto, PlacesOK
  <2>2. /\ ConsumeAt(R)' = ConsumeAt(R) /\ ConsumeAt(R) \in Nat
        /\ ConsumeAt(D)' = ConsumeAt(D) /\ ConsumeAt(D) \in Nat
        /\ InsertAt(J)' = IF "unlock" \in J THEN 1 ELSE 0
        /\ InsertAt(K)' = IF "unlock" \in K THEN 1 ELSE 0
    BY <2>1
  <2>3. /\ InsertAt(J) = IF pc[Main] \in J THEN 1 ELSE 0
        /\ InsertAt(K) = IF pc[Main] \in K THEN 1 ELSE 0
    BY DEF InsertAt
  <2>4. /\ empty = Size - index - InsertAt(J) - ConsumeAt(R)
        /\ occupied = index - InsertAt(K) - ConsumeAt(D)
    BY DEF SlotsCounted
  <2>5. /\ empty' = Size - index' - InsertAt(J)' - ConsumeAt(R)'
        /\ occupied' = index' - InsertAt(K)' - ConsumeAt(D)'
    BY <1>12, <2>2, <2>3, <2>4, SizeAssumption DEF Increment, Goto, Typed
  <2> QED
    BY <2>5 DEF SlotsCounted
<1>13. ASSUME PostOccupied PROVE SlotsCounted'
  <2> DEFINE R == {"take", "unlock", "post_empty"}
            D == {"lock", "decrement"}
            J == {"lock", "store", "increment"}
            K == {"unlock", "post_occupied"}
  <2>1. \A S : /\ ConsumeAt(S)' = ConsumeAt(S) /\ ConsumeAt(S) \in Nat
               /\ InsertAt(S)' = IF "read_name" \in S THEN 1 ELSE 0
    BY <1>13, MainMoves DEF PostOccupied, Goto, PlacesOK
  <2>2. /\ ConsumeAt(R)' = ConsumeAt(R) /\ ConsumeAt(R) \in Nat
        /\ ConsumeAt(D)' = ConsumeAt(D) /\ ConsumeAt(D) \in Nat
        /\ InsertAt(J)' = IF "read_name" \in J THEN 1 ELSE 0
        /\ InsertAt(K)' = IF "read_name" \in K THEN 1 ELSE 0
    BY <2>1
  <2>3. /\ InsertAt(J) = IF pc[Main] \in J THEN 1 ELSE 0
        /\ InsertAt(K) = IF pc[Main] \in K THEN 1 ELSE 0
    BY DEF InsertAt
  <2>4. /\ empty = Size - index - InsertAt(J) - ConsumeAt(R)
        /\ occupied = index - InsertAt(K) - ConsumeAt(D)
    BY DEF SlotsCounted
  <2>5. /\ empty' = Size - index' - InsertAt(J)' - ConsumeAt(R)'
        /\ occupied' = index' - InsertAt(K)' - ConsumeAt(D)'
    BY <1>13, <2>2, <2>3, <2>4, SizeAssumption DEF PostOccupied, Goto, Typed
  <2> QED
    BY <2>5 DEF SlotsCounted
<1>14. ASSUME Close PROVE SlotsCounted'
  <2> DEFINE R == {"take", "unlock", "post_empty"}
            D == {"lock", "decrement"}
            J == {"lock", "store", "increment"}
            K == {"unlock", "post_occupied"}
  <2>1. \A S : /\ ConsumeAt(S)' = ConsumeAt(S) /\ ConsumeAt(S) \in Nat
               /\ InsertAt(S)' = IF "closed" \in S THEN 1 ELSE 0
    BY <1>14, MainMoves DEF Close, Goto, PlacesOK
  <2>2. /\ ConsumeAt(R)' = ConsumeAt(R) /\ ConsumeAt(R) \in Nat
        /\ ConsumeAt(D)' = ConsumeAt(D) /\ ConsumeAt(D) \in Nat
        /\ InsertAt(J)' = IF "closed" \in J THEN 1 ELSE 0
        /\ InsertAt(K)' = IF "closed" \in K THEN 1 ELSE 0
    BY <2>1
  <2>3. /\ InsertAt(J) = IF pc[Main] \in J THEN 1 ELSE 0
        /\ InsertAt(K) = IF pc[Main] \in K THEN 1 ELSE 0
    BY DEF InsertAt
  <2>4. /\ empty = Size - index - InsertAt(J) - ConsumeAt(R)
        /\ occupied = index - InsertAt(K) - ConsumeAt(D)
    BY DEF SlotsCounted
  <2>5. /\ empty' = Size - index' - InsertAt(J)' - ConsumeAt(R)'
        /\ occupied' = index' - InsertAt(K)' - ConsumeAt(D)'
    BY <1>14, <2>2, <2>3, <2>4, SizeAssumption DEF Close, Goto, Typed
  <2> QED
    BY <2>5 DEF SlotsCounted
<1>15. ASSUME Closed PROVE SlotsCounted'
  BY <1>15 DEF Closed, vars, SlotsCounted, InsertAt, ConsumeAt
<1>16. CASE UNCHANGED vars
  BY <1>16 DEF vars, SlotsCounted, InsertAt, ConsumeAt
<1> QED
  BY <1>1, <1>2, <1>3, <1>4, <1>5, <1>6, <1>7, <1>8, <1>9, <1>10, <1>11, <1>12,
    <1>13, <1>14, <1>15, <1>16 DEF Next, Reader, MainStep

(* Every step keeps the mutex with the thread in the critical section. *)
LEMMA MutexStep ==
  Typed /\ PlacesOK /\ SlotsCounted /\ MutexOK /\ [Next]_vars => MutexOK'
<1> SUFFICES ASSUME Typed, PlacesOK, SlotsCounted, MutexOK, [Next]_vars PROVE
  MutexOK'
  OBVIOUS
<1> USE DEF Typed, PlacesOK, MutexOK, Critical, Actors, ThreadLabels,
  MainLabels
<1>1. ASSUME NEW a \in Actors, Lock(a) PROVE MutexOK'
  BY <1>1, ThreadsAssumption, IndexInside DEF Lock, Goto
<1>2. ASSUME NEW a \in Actors, Unlock(a) PROVE MutexOK'
  BY <1>2, ThreadsAssumption, IndexInside DEF Unlock, Goto
<1>3. ASSUME NEW t \in Threads, WaitOccupied(t) PROVE MutexOK'
  BY <1>3, ThreadsAssumption, IndexInside DEF WaitOccupied, Goto
<1>4. ASSUME NEW t \in Threads, Decrement(t) PROVE MutexOK'
  BY <1>4, ThreadsAssumption, IndexInside DEF Decrement, Goto
<1>5. ASSUME NEW t \in Threads, Take(t) PROVE MutexOK'
  BY <1>5, ThreadsAssumption, IndexInside DEF Take, Goto
<1>6. ASSUME NEW t \in Threads, PostEmpty(t) PROVE MutexOK'
  BY <1>6, ThreadsAssumption, IndexInside DEF PostEmpty, Goto
<1>7. ASSUME NEW t \in Threads, ReadFile(t) PROVE MutexOK'
  BY <1>7, ThreadsAssumption, IndexInside DEF ReadFile, Goto
<1>8. ASSUME ReadName PROVE MutexOK'
  BY <1>8, ThreadsAssumption, IndexInside DEF ReadName, Goto
<1>9. ASSUME MakeThreadQuit PROVE MutexOK'
  BY <1>9, ThreadsAssumption, IndexInside DEF MakeThreadQuit, Goto, NullsLeft
<1>10. ASSUME WaitEmpty PROVE MutexOK'
  BY <1>10, ThreadsAssumption, IndexInside DEF WaitEmpty, Goto
<1>11. ASSUME Store PROVE MutexOK'
  <2>1. index \in 0 .. Size - 1 /\ index' = index /\ item' = item
    BY <1>11, IndexInside, SizeAssumption DEF Store, Goto
  <2>2. buffer'[index] = item[Main]
    BY <1>11, <2>1 DEF Store
  <2> QED
    BY <1>11, <2>1, <2>2, ThreadsAssumption DEF Store, Goto
<1>12. ASSUME Increment PROVE MutexOK'
  BY <1>12, ThreadsAssumption, IndexInside DEF Increment, Goto
<1>13. ASSUME PostOccupied PROVE MutexOK'
  BY <1>13, ThreadsAssumption, IndexInside DEF PostOccupied, Goto
<1>14. ASSUME Close PROVE MutexOK'
  BY <1>14, ThreadsAssumption, IndexInside DEF Close, Goto, NullsLeft
<1>15. ASSUME Closed PROVE MutexOK'
  BY <1>15, ThreadsAssumption, IndexInside DEF Closed, vars
<1>16. CASE UNCHANGED vars
  BY <1>16, ThreadsAssumption, IndexInside DEF vars
<1> QED
  BY <1>1, <1>2, <1>3, <1>4, <1>5, <1>6, <1>7, <1>8, <1>9, <1>10, <1>11, <1>12,
    <1>13, <1>14, <1>15, <1>16 DEF Next, Reader, MainStep

(* The filled slots are those below Top, all of them inside the buffer. *)
LEMMA TopInside ==
  ASSUME Typed, PlacesOK, SlotsCounted, MutexOK
  PROVE  /\ Top \in 0 .. Size
         /\ pc[Main] \in {"store", "increment"} => Top = index /\ index < Size
         /\ \A t \in Threads :
              /\ pc[t] = "decrement" => Top = index
              /\ pc[t] = "take" => Top = index + 1
              /\ pc[t] = "unlock" => Top = index
<1>1. index \in 0 .. Size /\ \A t \in Threads : pc[t] = "take" => index < Size
  BY IndexInside
<1>2. pc[Main] \in {"store", "increment"} => index < Size
  BY IndexInside
<1>3. Top \in 0 .. Size
  BY <1>1, SizeAssumption DEF Top
<1>4. ASSUME NEW a \in Actors, pc[a] \in {"store", "increment", "decrement", "unlock"}
      PROVE  Top = index
  <2> SUFFICES ASSUME NEW t \in Threads, pc[t] = "take" PROVE FALSE
    BY DEF Top
  <2>1. mutex = a /\ mutex = t
    BY <1>4 DEF MutexOK, Critical, Actors
  <2> QED
    BY <1>4, <2>1
<1>5. ASSUME NEW t \in Threads PROVE pc[t] = "take" => Top = index + 1
  BY DEF Top
<1> QED
  BY <1>2, <1>3, <1>4, <1>5 DEF Actors

(* No step gives a name a second place. *)
LEMMA ApartStep ==
  Typed /\ PlacesOK /\ SlotsCounted /\ MutexOK /\ PlacesApart /\ PlacesFull /\ [Next]_vars => PlacesApart'
<1> SUFFICES ASSUME Typed, PlacesOK, SlotsCounted, MutexOK, PlacesApart,
  PlacesFull, [Next]_vars PROVE PlacesApart'
  OBVIOUS
<1> USE DEF PlacesApart, Top, Typed, PlacesOK, MutexOK, Critical, Actors,
  ThreadLabels, MainLabels, Items, NULL, PlacesFull
<1>1. ASSUME NEW a \in Actors, Lock(a) PROVE PlacesApart'
  BY <1>1, ThreadsAssumption, IndexInside DEF Lock, Goto
<1>2. ASSUME NEW a \in Actors, Unlock(a) PROVE PlacesApart'
  BY <1>2, ThreadsAssumption, IndexInside DEF Unlock, Goto
<1>3. ASSUME NEW t \in Threads, WaitOccupied(t) PROVE PlacesApart'
  BY <1>3, ThreadsAssumption, IndexInside DEF WaitOccupied, Goto
<1>4. ASSUME NEW t \in Threads, Decrement(t) PROVE PlacesApart'
  BY <1>4, ThreadsAssumption, IndexInside DEF Decrement, Goto
<1>5. ASSUME NEW t \in Threads, Take(t) PROVE PlacesApart'
  BY <1>5, ThreadsAssumption, IndexInside DEF Take, Goto
<1>6. ASSUME NEW t \in Threads, PostEmpty(t) PROVE PlacesApart'
  BY <1>6, ThreadsAssumption, IndexInside DEF PostEmpty, Goto
<1>7. ASSUME NEW t \in Threads, ReadFile(t) PROVE PlacesApart'
  BY <1>7, ThreadsAssumption, IndexInside DEF ReadFile, Goto
<1>8. ASSUME ReadName PROVE PlacesApart'
  <2>1. Top \in 0 .. Size /\ Top' = Top
    BY <1>8, TopInside DEF ReadName, Goto
  <2> HIDE DEF Top
  <2>2. \A i \in 0 .. Top - 1 : i \in 0 .. Size - 1
    BY <2>1, SizeAssumption
  <2>3. files \in Nat /\ files + 1 # NULL
    OBVIOUS
  <2>4. /\ \A i \in 0 .. Top - 1 : buffer[i] # files + 1
        /\ \A a \in Actors : item[a] # files + 1
        /\ files + 1 \notin read
    BY <2>2, <2>3 DEF PlacesFull
  <2>5. /\ item' = [item EXCEPT ![Main] = files + 1]
        /\ buffer' = buffer /\ read' = read
    BY <1>8 DEF ReadName
  <2> QED
    BY <2>1, <2>3, <2>4, <2>5
<1>9. ASSUME MakeThreadQuit PROVE PlacesApart'
  BY <1>9, ThreadsAssumption, IndexInside DEF MakeThreadQuit, Goto, NullsLeft
<1>10. ASSUME WaitEmpty PROVE PlacesApart'
  BY <1>10, ThreadsAssumption, IndexInside DEF WaitEmpty, Goto
<1>11. ASSUME Store PROVE PlacesApart'
  BY <1>11, ThreadsAssumption, IndexInside DEF Store, Goto
<1>12. ASSUME Increment PROVE PlacesApart'
  <2>1. Top = index /\ Top' = index + 1 /\ index \in 0 .. Size - 1
    BY <1>12, TopInside, SizeAssumption, ThreadsAssumption DEF Increment, Goto
  <2> HIDE DEF Top
  <2>2. /\ buffer[index] = item[Main] /\ buffer' = buffer /\ read' = read
        /\ item' = [item EXCEPT ![Main] = NULL]
    BY <1>12 DEF Increment, Goto
  <2>3. Main \in Actors /\ NULL \notin read
    OBVIOUS
  <2>4. \A i \in 0 .. Top' - 1 : i = index \/ i \in 0 .. Top - 1
    BY <2>1
  <2>5. \A i, j \in 0 .. Top' - 1 : buffer[i] = buffer[j] /\ buffer[i] # NULL => i = j
    BY <2>2, <2>3, <2>4
  <2>6. \A i \in 0 .. Top' - 1, a \in Actors : buffer[i] = item'[a] => item'[a] = NULL
    BY <2>2, <2>3, <2>4
  <2>7. \A i \in 0 .. Top' - 1 : buffer[i] \notin read
    BY <2>2, <2>3, <2>4
  <2> QED
    BY <2>2, <2>3, <2>5, <2>6, <2>7
<1>13. ASSUME PostOccupied PROVE PlacesApart'
  BY <1>13, ThreadsAssumption, IndexInside DEF PostOccupied, Goto
<1>14. ASSUME Close PROVE PlacesApart'
  BY <1>14, ThreadsAssumption, IndexInside DEF Close, Goto, NullsLeft
<1>15. ASSUME Closed PROVE PlacesApart'
  BY <1>15, ThreadsAssumption, IndexInside DEF Closed, vars
<1>16. CASE UNCHANGED vars
  BY <1>16, ThreadsAssumption, IndexInside DEF vars
<1> QED
  BY <1>1, <1>2, <1>3, <1>4, <1>5, <1>6, <1>7, <1>8, <1>9, <1>10, <1>11, <1>12,
    <1>13, <1>14, <1>15, <1>16 DEF Next, Reader, MainStep

(* No step loses a name. *)
LEMMA FullStep ==
  Typed /\ PlacesOK /\ SlotsCounted /\ MutexOK /\ PlacesFull /\ [Next]_vars => PlacesFull'
<1> SUFFICES ASSUME Typed, PlacesOK, SlotsCounted, MutexOK, PlacesFull,
  [Next]_vars PROVE PlacesFull'
  OBVIOUS
<1> USE DEF PlacesFull, Top, Typed, PlacesOK, MutexOK, Critical, Actors,
  ThreadLabels, MainLabels, Items, NULL
<1>1. ASSUME NEW a \in Actors, Lock(a) PROVE PlacesFull'
  BY <1>1, ThreadsAssumption, IndexInside DEF Lock, Goto
<1>2. ASSUME NEW a \in Actors, Unlock(a) PROVE PlacesFull'
  BY <1>2, ThreadsAssumption, IndexInside DEF Unlock, Goto
<1>3. ASSUME NEW t \in Threads, WaitOccupied(t) PROVE PlacesFull'
  BY <1>3, ThreadsAssumption, IndexInside DEF WaitOccupied, Goto
<1>4. ASSUME NEW t \in Threads, Decrement(t) PROVE PlacesFull'
  BY <1>4, ThreadsAssumption, IndexInside DEF Decrement, Goto
<1>5. ASSUME NEW t \in Threads, Take(t) PROVE PlacesFull'
  <2>1. Top = index + 1 /\ Top' = index /\ index \in 0 .. Size - 1
    <3>0. pc[t] = "take"
      BY <1>5 DEF Take, Goto
    <3>1. Top = index + 1 /\ index \in 0 .. Size - 1
      <4>1. Top = index + 1
        BY <3>0, TopInside
      <4>2. index \in 0 .. Size /\ index < Size
        BY <3>0, IndexInside
      <4> QED
        BY <4>1, <4>2, SizeAssumption
    <3>2. \A u \in Threads : pc[u] = "take" => u = t
      BY <1>5 DEF Take, Goto
    <3>3. index' = index /\ \A u \in Threads : pc'[u] # "take"
      BY <1>5, <3>2 DEF Take, Goto
    <3> QED
      BY <3>1, <3>3
  <2> HIDE DEF Top
  <2>2. /\ buffer' = buffer /\ read' = read /\ files' = files /\ item[t] = NULL
        /\ item' = [item EXCEPT ![t] = buffer[index]]
    BY <1>5 DEF Take, Goto
  <2>3. \A i \in 0 .. Top - 1 : i = index \/ i \in 0 .. Top' - 1
    BY <2>1
  <2>4. \A f \in 1 .. files : f # NULL
    OBVIOUS
  <2> QED
    BY <2>1, <2>2, <2>3, <2>4
<1>6. ASSUME NEW t \in Threads, PostEmpty(t) PROVE PlacesFull'
  BY <1>6, ThreadsAssumption, IndexInside DEF PostEmpty, Goto
<1>7. ASSUME NEW t \in Threads, ReadFile(t) PROVE PlacesFull'
  BY <1>7, ThreadsAssumption, IndexInside DEF ReadFile, Goto
<1>8. ASSUME ReadName PROVE PlacesFull'
  <2>1. /\ buffer' = buffer /\ read' = read /\ files' = files + 1 /\ files \in Nat
        /\ item' = [item EXCEPT ![Main] = files + 1] /\ item[Main] = NULL
    BY <1>8, SizeAssumption DEF ReadName, Goto
  <2>2. Top' = Top
    BY <1>8, ThreadsAssumption DEF ReadName, Goto
  <2> HIDE DEF Top
  <2>3. /\ item'[Main] = files + 1
        /\ \A a \in Actors \ {Main} : item'[a] = item[a]
    BY <2>1
  <2>4. ASSUME NEW f \in 1 .. files
        PROVE  \/ \E i \in 0 .. Top' - 1 : buffer'[i] = f
               \/ \E a \in Actors : item'[a] = f
               \/ f \in read'
    <3>1. f # NULL
      OBVIOUS
    <3> QED
      BY <2>1, <2>2, <2>3, <3>1
  <2>5. \A f \in 1 .. files' : f \in 1 .. files \/ f = item'[Main]
    BY <2>1, <2>3
  <2>6. /\ \A i \in 0 .. Size - 1 : buffer'[i] <= files'
        /\ \A a \in Actors : item'[a] <= files'
        /\ \A f \in read' : f <= files'
    <3>1. ASSUME NEW n \in Int, n <= files PROVE n <= files'
      BY <2>1, <3>1
    <3> QED
      BY <2>1, <2>3, <3>1
  <2> QED
    BY <2>4, <2>5, <2>6
<1>9. ASSUME MakeThreadQuit PROVE PlacesFull'
  BY <1>9, ThreadsAssumption, IndexInside DEF MakeThreadQuit, Goto, NullsLeft
<1>10. ASSUME WaitEmpty PROVE PlacesFull'
  BY <1>10, ThreadsAssumption, IndexInside DEF WaitEmpty, Goto
<1>11. ASSUME Store PROVE PlacesFull'
  BY <1>11, ThreadsAssumption, IndexInside DEF Store, Goto
<1>12. ASSUME Increment PROVE PlacesFull'
  <2>1. Top = index /\ Top' = index + 1 /\ index \in 0 .. Size - 1
    BY <1>12, TopInside, SizeAssumption, ThreadsAssumption DEF Increment, Goto
  <2> HIDE DEF Top
  <2>2. /\ buffer[index] = item[Main] /\ buffer' = buffer /\ read' = read
        /\ item' = [item EXCEPT ![Main] = NULL] /\ files' = files
    BY <1>12 DEF Increment, Goto
  <2>3. \A i \in 0 .. Top - 1 : i \in 0 .. Top' - 1
    BY <2>1
  <2>4. index \in 0 .. Top' - 1
    BY <2>1
  <2> QED
    BY <2>2, <2>3, <2>4
<1>13. ASSUME PostOccupied PROVE PlacesFull'
  BY <1>13, ThreadsAssumption, IndexInside DEF PostOccupied, Goto
<1>14. ASSUME Close PROVE PlacesFull'
  BY <1>14, ThreadsAssumption, IndexInside DEF Close, Goto, NullsLeft
<1>15. ASSUME Closed PROVE PlacesFull'
  BY <1>15, ThreadsAssumption, IndexInside DEF Closed, vars
<1>16. CASE UNCHANGED vars
  BY <1>16, ThreadsAssumption, IndexInside DEF vars
<1> QED
  BY <1>1, <1>2, <1>3, <1>4, <1>5, <1>6, <1>7, <1>8, <1>9, <1>10, <1>11, <1>12,
    <1>13, <1>14, <1>15, <1>16 DEF Next, Reader, MainStep

LEMMA InitPoolInv == Init => PoolInv
<1> SUFFICES ASSUME Init PROVE PoolInv
  OBVIOUS
<1>1. \A S : {"read_name", "wait_occupied"} \cap S = {} =>
               ConsumeAt(S) = 0 /\ InsertAt(S) = 0
  <2> SUFFICES ASSUME NEW S, {"read_name", "wait_occupied"} \cap S = {}
               PROVE  ConsumeAt(S) = 0 /\ InsertAt(S) = 0
    OBVIOUS
  <2>1. {t \in Threads : pc[t] \in S} = {}
    BY ThreadsAssumption DEF Init, Actors
  <2>2. pc[Main] \notin S
    BY DEF Init, Actors
  <2> QED
    BY <2>1, <2>2, FS_EmptySet DEF ConsumeAt, InsertAt
<1>2. /\ ConsumeAt({"take", "unlock", "post_empty"}) = 0
      /\ ConsumeAt({"lock", "decrement"}) = 0
      /\ InsertAt({"lock", "store", "increment"}) = 0
      /\ InsertAt({"unlock", "post_occupied"}) = 0
  BY <1>1
<1>3. SlotsCounted
  BY <1>2, SizeAssumption DEF Init, SlotsCounted
<1>4. Cardinality(Threads) \in Nat
  BY ThreadsAssumption, FS_CardinalityType
<1>5. Typed
  BY <1>4, SizeAssumption DEF Init, Typed, Items, NULL
<1>6. PlacesOK
  BY ThreadsAssumption DEF Init, PlacesOK, Actors, ThreadLabels, MainLabels
<1>7. MutexOK
  BY ThreadsAssumption DEF Init, MutexOK, Actors, Critical
<1>8. Top = 0
  BY ThreadsAssumption DEF Init, Top, Actors
<1>9. PlacesApart
  BY <1>8 DEF Init, PlacesApart
<1>10. PlacesFull
  BY <1>8, SizeAssumption DEF Init, PlacesFull, NULL
<1> QED
  BY <1>3, <1>5, <1>6, <1>7, <1>9, <1>10 DEF PoolInv

LEMMA PoolInvStep == PoolInv /\ [Next]_vars => PoolInv'
<1> SUFFICES ASSUME PoolInv, [Next]_vars PROVE PoolInv'
  OBVIOUS
<1> QED
  BY TypedStep, PlacesOKStep, SlotsStep, MutexStep, ApartStep, FullStep DEF PoolInv

THEOREM Invariance == Spec => []PoolInv
<1>1. Init => PoolInv
  BY InitPoolInv
<1>2. PoolInv /\ [Next]_vars => PoolInv'
  BY PoolInvStep
<1> QED
  BY <1>1, <1>2, PTL DEF Spec

(* The variables keep their types: index stays inside the buffer although no
   one compares it with its size, and no semaphore exceeds it. *)
THEOREM PoolTyped == Spec => []PoolTypeOK
<1>1. PoolInv => PoolTypeOK
  BY IndexInside DEF PoolInv, Typed, PoolTypeOK
<1> QED
  BY <1>1, Invariance, PTL

(* Both semaphores count what they are meant to, at every step of an insert
   and of a consume. *)
THEOREM SlotsKept == Spec => []SlotsCounted
<1>1. PoolInv => SlotsCounted
  BY DEF PoolInv
<1> QED
  BY <1>1, Invariance, PTL

(* A set of places that are all one has one element, or none. *)
LEMMA OneOrNone ==
  ASSUME NEW S, \A x, y \in S : x = y
  PROVE  Cardinality(S) = IF S = {} THEN 0 ELSE 1
<1>1. CASE S = {}
  BY <1>1, FS_EmptySet
<1>2. CASE S # {}
  <2>1. PICK x : S = {x}
    BY <1>2
  <2> QED
    BY <1>2, <2>1, FS_Singleton
<1> QED
  BY <1>1, <1>2

LEMMA PlacesAreOne == PoolInv => OnePlaceEach
<1> SUFFICES ASSUME PoolInv, NEW f \in 1 .. files PROVE Places(f) = 1
  BY DEF OnePlaceEach
<1> DEFINE Slots  == {i \in 0 .. Top - 1 : buffer[i] = f}
           Holders == {a \in Actors : item[a] = f}
           Finished == read \cap {f}
<1>1. f # NULL
  BY DEF PoolInv, Typed, NULL
<1>2. /\ \A x, y \in Slots : x = y
      /\ \A x, y \in Holders : x = y
      /\ \A x, y \in Finished : x = y
  BY <1>1 DEF PoolInv, PlacesApart
<1>3. /\ Slots # {} \/ Holders # {} \/ Finished # {}
      /\ Slots # {} => Holders = {} /\ Finished = {}
      /\ Holders # {} => Finished = {}
  BY <1>1 DEF PoolInv, PlacesApart, PlacesFull
<1>4. Places(f) = Cardinality(Slots) + Cardinality(Holders) + Cardinality(Finished)
  BY DEF Places
<1> HIDE DEF Slots, Holders, Finished
<1>5. /\ Cardinality(Slots) = IF Slots = {} THEN 0 ELSE 1
      /\ Cardinality(Holders) = IF Holders = {} THEN 0 ELSE 1
      /\ Cardinality(Finished) = IF Finished = {} THEN 0 ELSE 1
  BY <1>2, OneOrNone
<1> QED
  BY <1>3, <1>4, <1>5

(* A name is in one place from the moment main has read it: the buffer does
   not lose one, nor hand one to two threads, nor overwrite one. *)
THEOREM NamesKept == Spec => []OnePlaceEach
<1>1. PoolInv => OnePlaceEach
  BY PlacesAreOne
<1> QED
  BY <1>1, Invariance, PTL

----------------------------------------------------------------------------
(* No deadlock of the pool. *)

(* Who cannot go on: a thread without an item or the mutex it waits for, main
   without a free slot or the mutex, and main while it joins. *)
ReaderBlocked(t) ==
  \/ pc[t] = "wait_occupied" /\ occupied = 0
  \/ pc[t] = "lock" /\ mutex # Nobody
  \/ pc[t] = "exited"
MainBlocked ==
  \/ pc[Main] = "read_name" /\ ~NullsLeft /\ \E t \in Threads : pc[t] # "exited"
  \/ pc[Main] = "wait_empty" /\ empty = 0
  \/ pc[Main] = "lock" /\ mutex # Nobody
  \/ pc[Main] = "closed"

(* Until the pool is closed, somebody can go on. *)
NeverStuck ==
  pc[Main] = "closed" \/ ~MainBlocked \/ \E t \in Threads : ~ReaderBlocked(t)

(* Every NULL that main made is with main, in the buffer, or with a thread
   that ends because of it; and main makes them after the names. *)
NullSlots == {i \in 0 .. Top - 1 : buffer[i] = NULL}
Quitters  == {t \in Threads : \/ pc[t] = "exited"
                              \/ pc[t] \in {"unlock", "post_empty"} /\ item[t] = NULL}
Carrying  == pc[Main] \in {"wait_empty", "lock", "store", "increment"}
MainNull  == IF Carrying /\ item[Main] = NULL THEN 1 ELSE 0
NullsCounted ==
  /\ nulls = Cardinality(NullSlots) + Cardinality(Quitters) + MainNull
  /\ Carrying /\ item[Main] # NULL => nulls = 0

(* The NULLs are finitely many, so they can be counted. *)
LEMMA NullsFinite ==
  ASSUME Typed, PlacesOK, SlotsCounted, MutexOK
  PROVE  /\ IsFiniteSet(NullSlots) /\ IsFiniteSet(Quitters)
         /\ Cardinality(NullSlots) \in Nat /\ Cardinality(Quitters) \in Nat
<1>1. Top \in 0 .. Size
  BY TopInside
<1>2. Top - 1 \in Int
  BY <1>1, SizeAssumption
<1>3. IsFiniteSet(0 .. Top - 1)
  BY <1>2, FS_Interval
<1>4. IsFiniteSet(NullSlots) /\ IsFiniteSet(Quitters)
  BY <1>3, ThreadsAssumption, FS_Subset DEF NullSlots, Quitters
<1> QED
  BY <1>4, FS_CardinalityType

(* The steps that move no NULL. *)
LEMMA NullsStay ==
  ASSUME NullsCounted, UNCHANGED <<NullSlots, Quitters, MainNull, nulls>>,
         (Carrying /\ item[Main] # NULL)' => Carrying /\ item[Main] # NULL
  PROVE  NullsCounted'
BY DEF NullsCounted

(* Each step keeps the count: main makes a NULL and stores it, a thread takes
   it out and never takes another item. *)
LEMMA NullsStep ==
  Typed /\ PlacesOK /\ SlotsCounted /\ MutexOK /\ NullsCounted /\ [Next]_vars => NullsCounted'
<1> SUFFICES ASSUME Typed, PlacesOK, SlotsCounted, MutexOK, NullsCounted, [Next]_vars
             PROVE  NullsCounted'
  OBVIOUS
<1>a. /\ pc \in [Actors -> ThreadLabels \cup MainLabels] /\ Main \in Actors
      /\ item \in [Actors -> Items] /\ Threads \subseteq Actors /\ Main \notin Threads
      /\ buffer \in [0 .. Size - 1 -> Items] /\ index \in 0 .. Size /\ Top \in 0 .. Size
  BY IndexInside, TopInside, ThreadsAssumption DEF Typed, PlacesOK, Actors
<1>b. /\ IsFiniteSet(NullSlots) /\ IsFiniteSet(Quitters)
      /\ Cardinality(NullSlots) \in Nat /\ Cardinality(Quitters) \in Nat
      /\ MainNull \in {0, 1} /\ nulls \in Nat
  <2>1. nulls \in Nat
    BY FS_CardinalityType, ThreadsAssumption DEF Typed
  <2> QED
    BY <2>1, NullsFinite DEF MainNull
(* A step of a thread that takes nothing, and of main that moves no NULL. *)
<1>c. ASSUME NEW t \in Threads, NEW to, pc' = [pc EXCEPT ![t] = to],
             UNCHANGED <<buffer, nulls>>, Top' = Top, item'[Main] = item[Main],
             \A u \in Threads \ {t} : item'[u] = item[u],
             t \in Quitters' <=> t \in Quitters
      PROVE  NullsCounted'
  <2>1. pc'[Main] = pc[Main] /\ \A u \in Threads \ {t} : pc'[u] = pc[u]
    BY <1>a, <1>c
  <2>2. NullSlots' = NullSlots
    BY <1>c DEF NullSlots
  <2>3. Quitters' = Quitters
    BY <1>c, <2>1 DEF Quitters
  <2>4. Carrying' = Carrying /\ MainNull' = MainNull
    BY <1>c, <2>1 DEF Carrying, MainNull
  <2> QED
    BY <1>c, <2>2, <2>3, <2>4, NullsStay
<1>d. ASSUME NEW to, pc' = [pc EXCEPT ![Main] = to],
             \A u \in Threads : item'[u] = item[u]
      PROVE  Quitters' = Quitters /\ pc'[Main] = to
  BY <1>a, <1>d DEF Quitters
<1>e. ASSUME UNCHANGED <<nulls, item, index>>,
             \A u \in Threads : pc'[u] = pc[u], Carrying' = Carrying,
             \A i \in 0 .. Top - 1 : buffer'[i] = buffer[i]
      PROVE  NullsCounted'
  <2>1. Quitters' = Quitters
    BY <1>e DEF Quitters
  <2>2. Top' = Top
    BY <1>e DEF Top
  <2>3. NullSlots' = NullSlots
    BY <1>e, <2>2 DEF NullSlots
  <2> QED
    BY <1>e, <2>1, <2>3, NullsStay DEF MainNull
<1>1. ASSUME NEW a \in Actors, Lock(a) PROVE NullsCounted'
  <2>1. CASE a = Main
    <3>1. (\A u \in Threads : pc'[u] = pc[u]) /\ Carrying' = Carrying
      BY <1>1, <1>a, <2>1 DEF Lock, Goto, Carrying
    <3> QED
      BY <1>1, <1>e, <3>1 DEF Lock
  <2>2. CASE a # Main
    <3>1. a \in Threads /\ pc[a] = "lock" /\ pc' = [pc EXCEPT ![a] = "decrement"]
      BY <1>1, <2>2 DEF Lock, Goto, Actors
    <3>2. Top' = Top
      BY <1>1, <1>a, <3>1 DEF Lock, Top
    <3>3. a \in Quitters' <=> a \in Quitters
      BY <1>a, <3>1 DEF Quitters
    <3> QED
      BY <1>1, <1>c, <3>1, <3>2, <3>3 DEF Lock
  <2> QED
    BY <2>1, <2>2
<1>2. ASSUME NEW a \in Actors, Unlock(a) PROVE NullsCounted'
  <2>1. CASE a = Main
    <3>1. (\A u \in Threads : pc'[u] = pc[u]) /\ Carrying' = Carrying
      BY <1>2, <1>a, <2>1 DEF Unlock, Goto, Carrying
    <3> QED
      BY <1>2, <1>e, <3>1 DEF Unlock
  <2>2. CASE a # Main
    <3>1. a \in Threads /\ pc[a] = "unlock" /\ pc' = [pc EXCEPT ![a] = "post_empty"]
      BY <1>2, <2>2 DEF Unlock, Goto, Actors
    <3>2. Top' = Top
      BY <1>2, <1>a, <3>1 DEF Unlock, Top
    <3>3. a \in Quitters' <=> a \in Quitters
      BY <1>2, <1>a, <3>1 DEF Unlock, Quitters
    <3> QED
      BY <1>2, <1>c, <3>1, <3>2, <3>3 DEF Unlock
  <2> QED
    BY <2>1, <2>2
<1>3. ASSUME NEW t \in Threads, WaitOccupied(t) PROVE NullsCounted'
  <2>1. Top' = Top /\ (t \in Quitters' <=> t \in Quitters)
    BY <1>3, <1>a DEF WaitOccupied, Goto, Top, Quitters
  <2> QED
    BY <1>3, <1>c, <2>1 DEF WaitOccupied, Goto
<1>4. ASSUME NEW t \in Threads, Decrement(t) PROVE NullsCounted'
  <2>1. pc[t] = "decrement" /\ pc' = [pc EXCEPT ![t] = "take"] /\ index' = index - 1
    BY <1>4 DEF Decrement, Goto
  <2>2. Top = index
    BY <2>1, TopInside
  <2>3. Top' = index' + 1
    BY <1>a, <2>1 DEF Top
  <2>4. Top' = Top /\ (t \in Quitters' <=> t \in Quitters)
    BY <1>a, <2>1, <2>2, <2>3, SizeAssumption DEF Quitters
  <2> QED
    BY <1>4, <1>c, <2>1, <2>4 DEF Decrement
<1>5. ASSUME NEW t \in Threads, Take(t) PROVE NullsCounted'
  <2>1. /\ pc[t] = "take" /\ pc' = [pc EXCEPT ![t] = "unlock"] /\ index' = index
        /\ item' = [item EXCEPT ![t] = buffer[index]] /\ buffer' = buffer /\ nulls' = nulls
    BY <1>5 DEF Take, Goto
  <2>2. Top = index + 1 /\ index \in 0 .. Size - 1
    BY <1>a, <2>1, TopInside, IndexInside, SizeAssumption
  <2>3. Top' = index
    <3>1. \A u \in Threads : pc[u] = "take" => u = t
      BY <1>a, <2>1 DEF MutexOK, Critical
    <3> QED
      BY <1>a, <2>1, <3>1 DEF Top
  <2>4. /\ pc'[Main] = pc[Main] /\ item'[Main] = item[Main]
        /\ \A u \in Threads \ {t} : pc'[u] = pc[u] /\ item'[u] = item[u]
        /\ pc'[t] = "unlock" /\ item'[t] = buffer[index]
    BY <1>a, <2>1
  <2>5. MainNull' = MainNull /\ Carrying' = Carrying
    BY <2>4 DEF MainNull, Carrying
  <2>6. NullSlots' = NullSlots \ {index} /\ (index \in NullSlots <=> buffer[index] = NULL)
    BY <2>1, <2>2, <2>3 DEF NullSlots
  <2>7. Quitters' = (IF buffer[index] = NULL THEN Quitters \cup {t} ELSE Quitters) /\ t \notin Quitters
    BY <2>1, <2>4 DEF Quitters
  <2>8. CASE buffer[index] = NULL
    <3>1. /\ Cardinality(NullSlots') = Cardinality(NullSlots) - 1
          /\ Cardinality(Quitters') = Cardinality(Quitters) + 1
      BY <1>b, <2>6, <2>7, <2>8, FS_RemoveElement, FS_AddElement
    <3> QED
      BY <1>b, <2>1, <2>4, <2>5, <3>1 DEF NullsCounted
  <2>9. CASE buffer[index] # NULL
    BY <2>1, <2>4, <2>5, <2>6, <2>7, <2>9, NullsStay
  <2> QED
    BY <2>8, <2>9
<1>6. ASSUME NEW t \in Threads, PostEmpty(t) PROVE NullsCounted'
  <2>1. Top' = Top /\ (t \in Quitters' <=> t \in Quitters)
    BY <1>6, <1>a DEF PostEmpty, Goto, Top, Quitters
  <2> QED
    BY <1>6, <1>c, <2>1 DEF PostEmpty, Goto
<1>7. ASSUME NEW t \in Threads, ReadFile(t) PROVE NullsCounted'
  <2>1. Top' = Top /\ (t \in Quitters' <=> t \in Quitters)
    BY <1>7, <1>a DEF ReadFile, Goto, Top, Quitters
  <2>2. item'[Main] = item[Main] /\ \A u \in Threads \ {t} : item'[u] = item[u]
    BY <1>7, <1>a DEF ReadFile
  <2> QED
    BY <1>7, <1>c, <2>1, <2>2 DEF ReadFile, Goto
<1>8. ASSUME ReadName \/ MakeThreadQuit PROVE NullsCounted'
  <2>1. /\ pc[Main] = "read_name" /\ pc' = [pc EXCEPT ![Main] = "wait_empty"]
        /\ buffer' = buffer /\ index' = index
        /\ \A u \in Threads : item'[u] = item[u]
    BY <1>8, <1>a DEF ReadName, MakeThreadQuit, Goto
  <2>2. Quitters' = Quitters /\ pc'[Main] = "wait_empty"
    BY <1>d, <2>1
  <2>3. Top' = Top
    BY <1>a, <2>1 DEF Top
  <2>4. NullSlots' = NullSlots
    BY <2>1, <2>3 DEF NullSlots
  <2>5. MainNull = 0 /\ ~Carrying /\ Carrying'
    BY <2>1, <2>2 DEF MainNull, Carrying
  <2>6. CASE ReadName
    <3>1. nulls = 0 /\ nulls' = 0 /\ item'[Main] # NULL
      BY <1>a, <2>6 DEF ReadName, NULL, Typed
    <3> QED
      BY <2>2, <2>4, <2>5, <3>1 DEF NullsCounted, MainNull
  <2>7. CASE MakeThreadQuit
    <3>1. nulls' = nulls + 1 /\ item'[Main] = NULL
      BY <1>a, <2>7 DEF MakeThreadQuit
    <3> QED
      BY <1>b, <2>2, <2>4, <2>5, <3>1 DEF NullsCounted, MainNull
  <2> QED
    BY <1>8, <2>6, <2>7
<1>10. ASSUME WaitEmpty PROVE NullsCounted'
  <2>1. (\A u \in Threads : pc'[u] = pc[u]) /\ Carrying' = Carrying
    BY <1>10, <1>a DEF WaitEmpty, Goto, Carrying
  <2> QED
    BY <1>10, <1>e, <2>1 DEF WaitEmpty
<1>11. ASSUME Store PROVE NullsCounted'
  <2>1. \A i \in 0 .. Top - 1 : buffer'[i] = buffer[i]
    <3>1. Top = index
      BY <1>11, TopInside DEF Store, Goto
    <3> QED
      BY <1>11, <1>a, <3>1, SizeAssumption DEF Store
  <2>2. (\A u \in Threads : pc'[u] = pc[u]) /\ Carrying' = Carrying
    BY <1>11, <1>a DEF Store, Goto, Carrying
  <2> QED
    BY <1>11, <1>e, <2>1, <2>2 DEF Store
<1>12. ASSUME Increment PROVE NullsCounted'
  <2>1. /\ pc[Main] = "increment" /\ pc' = [pc EXCEPT ![Main] = "unlock"]
        /\ index' = index + 1 /\ item' = [item EXCEPT ![Main] = NULL]
        /\ buffer' = buffer /\ nulls' = nulls
    BY <1>12 DEF Increment, Goto
  <2>2. Top = index /\ buffer[index] = item[Main] /\ index \in Nat
    BY <1>a, <2>1, TopInside, SizeAssumption DEF MutexOK
  <2>3. Top' = index + 1
    <3>1. \A u \in Threads : pc[u] # "take" /\ pc'[u] # "take"
      BY <1>a, <2>1 DEF MutexOK, Critical
    <3> QED
      BY <2>1, <3>1 DEF Top
  <2>4. Quitters' = Quitters /\ pc'[Main] = "unlock"
    BY <1>a, <1>d, <2>1
  <2>5. Carrying /\ ~Carrying' /\ MainNull' = 0
    BY <2>1, <2>4 DEF Carrying, MainNull
  <2>6. NullSlots' = (IF buffer[index] = NULL THEN NullSlots \cup {index} ELSE NullSlots)
        /\ index \notin NullSlots
    BY <2>1, <2>2, <2>3 DEF NullSlots
  <2>7. CASE item[Main] = NULL
    <3>1. Cardinality(NullSlots') = Cardinality(NullSlots) + 1
      BY <1>b, <2>2, <2>6, <2>7, FS_AddElement
    <3> QED
      BY <1>b, <2>1, <2>4, <2>5, <2>7, <3>1 DEF NullsCounted, MainNull
  <2>8. CASE item[Main] # NULL
    BY <1>b, <2>1, <2>2, <2>4, <2>5, <2>6, <2>8 DEF NullsCounted, MainNull
  <2> QED
    BY <2>7, <2>8
<1>13. ASSUME PostOccupied \/ Close PROVE NullsCounted'
  <2>1. (\A u \in Threads : pc'[u] = pc[u]) /\ Carrying' = Carrying
    BY <1>13, <1>a DEF PostOccupied, Close, Goto, Carrying
  <2> QED
    BY <1>13, <1>e, <2>1 DEF PostOccupied, Close
<1>14. CASE UNCHANGED vars
  <2>1. UNCHANGED <<NullSlots, Quitters, MainNull, Carrying, nulls, item>>
    BY <1>14 DEF vars, NullSlots, Top, Quitters, MainNull, Carrying
  <2> QED
    BY <2>1, NullsStay
<1> QED
  BY <1>1, <1>2, <1>3, <1>4, <1>5, <1>6, <1>7, <1>8, <1>10, <1>11, <1>12, <1>13, <1>14
  DEF Next, Reader, MainStep, Closed

(* With the mutex free and every thread waiting for an item or gone, the
   buffer is empty or everybody has left; both are ruled out by the NULLs. *)
LEMMA InvNeverStuck == PoolInv /\ NullsCounted => NeverStuck
<1> SUFFICES ASSUME PoolInv, NullsCounted, MainBlocked, pc[Main] # "closed",
                    \A t \in Threads : ReaderBlocked(t)
             PROVE  FALSE
  BY DEF NeverStuck
<1>0. Typed /\ PlacesOK /\ SlotsCounted /\ MutexOK
  BY DEF PoolInv
<1>1. mutex = Nobody
  <2>1. ASSUME NEW a \in Actors, mutex = a PROVE FALSE
    <3>1. pc[a] \in Critical
      BY <1>0, <2>1 DEF MutexOK
    <3>2. CASE a \in Threads
      BY <3>1, <3>2 DEF ReaderBlocked, Critical
    <3>3. CASE a = Main
      BY <3>1, <3>3 DEF MainBlocked, Critical
    <3> QED
      BY <3>2, <3>3 DEF Actors
  <2> QED
    BY <1>0, <2>1 DEF Typed
<1>2. \A t \in Threads : pc[t] = "exited" \/ (pc[t] = "wait_occupied" /\ occupied = 0)
  BY <1>1 DEF ReaderBlocked
<1>3. /\ ConsumeAt({"take", "unlock", "post_empty"}) = 0
      /\ ConsumeAt({"lock", "decrement"}) = 0
  <2>1. /\ {t \in Threads : pc[t] \in {"take", "unlock", "post_empty"}} = {}
        /\ {t \in Threads : pc[t] \in {"lock", "decrement"}} = {}
    BY <1>2
  <2> QED
    BY <2>1, FS_EmptySet DEF ConsumeAt
<1>4. pc[Main] \in {"read_name", "wait_empty"}
  BY <1>1 DEF MainBlocked
<1>5. empty = Size - index /\ occupied = index /\ index \in 0 .. Size
  BY <1>0, <1>3, <1>4, IndexInside, SizeAssumption DEF SlotsCounted, InsertAt
<1>6. Quitters = {t \in Threads : pc[t] = "exited"}
  BY <1>2 DEF Quitters
<1>7. /\ IsFiniteSet(Threads) /\ Cardinality(Threads) \in Nat
      /\ nulls \in 0 .. Cardinality(Threads)
  BY <1>0, ThreadsAssumption, FS_CardinalityType DEF Typed
<1>8. Cardinality(NullSlots) \in Nat /\ Cardinality(Quitters) \in Nat
  BY <1>0, NullsFinite
<1>9. CASE pc[Main] = "read_name"
  <2>1. nulls = Cardinality(Threads) /\ \E t \in Threads : pc[t] # "exited"
    BY <1>7, <1>9 DEF MainBlocked, NullsLeft
  <2>2. index = 0 /\ Top = 0
    BY <1>2, <1>5, <2>1 DEF Top
  <2>3. Cardinality(NullSlots) = 0
    BY <2>2, FS_EmptySet DEF NullSlots
  <2>4. Cardinality(Quitters) = Cardinality(Threads)
    BY <1>8, <1>9, <2>1, <2>3 DEF NullsCounted, MainNull, Carrying
  <2>5. Quitters = Threads
    BY <1>7, <2>4, FS_Subset DEF Quitters
  <2> QED
    BY <1>6, <2>1, <2>5
<1>10. CASE pc[Main] = "wait_empty"
  <2>1. occupied # 0
    BY <1>5, <1>10, SizeAssumption DEF MainBlocked
  <2>2. Quitters = Threads
    BY <1>2, <1>6, <2>1
  <2>3. Cardinality(Threads) > 0
    BY <1>7, ThreadsAssumption, FS_EmptySet
  <2>4. Carrying
    BY <1>10 DEF Carrying
  <2>5. item[Main] = NULL
    BY <1>7, <1>8, <2>2, <2>3, <2>4 DEF NullsCounted, MainNull
  <2> QED
    BY <1>7, <1>8, <2>2, <2>4, <2>5 DEF NullsCounted, MainNull
<1> QED
  BY <1>4, <1>9, <1>10

(* The pool never stops before it is closed, for any number of threads and any
   size of the buffer: main's NULLs are enough to end every thread, no thread
   ends without one, and none of them is left waiting when main joins. *)
THEOREM PoolNeverStuck == Spec => []NeverStuck
<1>1. Init => NullsCounted
  <2> SUFFICES ASSUME Init PROVE NullsCounted
    OBVIOUS
  <2>1. NullSlots = {} /\ Quitters = {} /\ nulls = 0 /\ ~Carrying
    BY ThreadsAssumption DEF Init, NullSlots, Quitters, Top, Carrying, Actors
  <2> QED
    BY <2>1, FS_EmptySet DEF NullsCounted, MainNull
<1>2. PoolInv => Typed /\ PlacesOK /\ SlotsCounted /\ MutexOK
  BY DEF PoolInv
<1> QED
  BY <1>1, <1>2, NullsStep, InvNeverStuck, Invariance, PTL DEF Spec
=============================================================================
