--------------------------- MODULE HeatSaveProofs ---------------------------
(***************************************************************************)
(* Proofs about the save file of heatSim, for any number of iterations and *)
(* of starts, wherever the processes are killed or interrupted: the file   *)
(* can be read, has one writer at a time, and loses no progress.           *)
(***************************************************************************)
EXTENDS HeatSave, TLAPS

(* The types, without the bounds on the number of iterations. *)
Typed ==
  /\ period \in BOOLEAN
  /\ pc \in [Processes -> MainLabels \cup WorkerLabels \cup ChildLabels]
  /\ pc["main"] \in MainLabels
  /\ pc["worker"] \in WorkerLabels
  /\ pc["child"] \in ChildLabels
  /\ disk \in [Names -> Nat \cup {NoFile, Partial}]
  /\ fd \in [Writers -> Names \cup {"closed", "removed"}]
  /\ copy \in Nat
  /\ gen \in [Buffers -> Nat] /\ matrix \in Buffers
  /\ it \in 0 .. MaxIter
  /\ interrupt \in BOOLEAN /\ interrupted \in BOOLEAN
  /\ alarmed \in BOOLEAN /\ armed \in BOOLEAN /\ pending \in BOOLEAN
  /\ forgotten \in BOOLEAN /\ cut \in BOOLEAN
  /\ runs \in 1 .. MaxRuns

(* The places of main before the threads exist, and after they ended. *)
Early == {"read", "block", "create"}
Late  == {"wait", "print", "test", "unlink", "ended"} \cup Saving

(* What the place of main says of the workers and of the child. *)
Phases ==
  /\ pc["main"] \in Early \cup {"killed"} => pc["worker"] = "none"
  /\ pc["main"] \in Late => pc["worker"] = "returned"
  /\ pc["main"] \in Early => pc["child"] \notin Saving
  /\ pc["worker"] = "fork" => pc["child"] = "none"

(* Who has the second file open, and when it holds a whole matrix. *)
Writing ==
  ~cut =>
    /\ disk["fichS"] # Partial
    /\ pc["main"] \in Late \ {"wait"} => pc["child"] \notin Saving
    /\ \A p \in Writers :
         /\ fd[p] = IF pc[p] = "write" THEN "temp" ELSE "closed"
         /\ pc[p] = "rename" => disk["temp"] # Partial

(* What main and the workers know of SIGINT. *)
Flags ==
  /\ interrupt => interrupted \/ forgotten
  /\ pc["main"] = "unlink" => ~interrupt \/ forgotten
  /\ pc["main"] \in Early \cup {"unblock", "handle", "init"} => ~forgotten

(* The buffers are at most one iteration apart, and neither they nor the copy
   of the child are behind the save. *)
Resuming == pc["main"] \notin {"read"} \cup Dead
Computed == pc["worker"] \in {"elect", "alarm", "fork", "reset", "swap"}
Progress ==
  /\ gen["first"] <= gen["second"] + 1 /\ gen["second"] <= gen["first"] + 1
  /\ Computed => gen[Other(matrix)] = gen[matrix] + 1
  /\ ~cut =>
       /\ Resuming => \A b \in Buffers : disk["fichS"] <= gen[b]
       /\ pc["child"] \in Saving => disk["fichS"] <= copy
       /\ pc["child"] \in Saving /\ Resuming => \A b \in Buffers : copy <= gen[b]
       /\ pc["child"] = "rename" => disk["temp"] = copy
       /\ pc["main"] = "rename" => disk["temp"] = gen[matrix]

(* No more iterations than the runs so far could make. *)
Limit == MaxIter * runs
Bounded ==
  /\ \A b \in Buffers : gen[b] + it <= Limit
  /\ \A n \in Names : disk[n] <= Limit
  /\ copy <= Limit
  /\ pc["main"] = "read" => disk["fichS"] + MaxIter <= Limit

(* The inductive invariant. *)
SaveInv == Typed /\ Phases /\ Writing /\ Flags /\ Progress /\ Bounded

----------------------------------------------------------------------------
LEMMA OtherBuffer ==
  /\ Other("first") = "second" /\ Other("second") = "first"
  /\ \A b \in Buffers : Other(b) \in Buffers /\ Other(b) # b
  BY DEF Other, Buffers

(* A start changes no label but to those of a process that begins. *)
LEMMA StartedLabels ==
  ASSUME NEW f \in Started
  PROVE  /\ f \in [Processes -> MainLabels \cup WorkerLabels \cup ChildLabels]
         /\ f["main"] = "read" /\ f["worker"] = "none"
         /\ f["child"] \in {"none", "other", "zombie"}
  BY DEF Started, Processes, MainLabels, WorkerLabels, ChildLabels

(* The matrix a process saves is whole, and so is what it writes alone. *)
LEMMA SourceWhole ==
  ASSUME Typed, NEW p \in Writers
  PROVE  /\ Source(p) \in Nat
         /\ Written(p) \subseteq {Source(p), Partial}
         /\ (\A q \in Writers \ {p} : fd[q] # fd[p]) => Written(p) = {Source(p)}
  BY DEF Typed, Source, Written, Writers

(* The death of main ends the threads and closes its file. *)
LEMMA DiesTyped ==
  ASSUME Typed, Dies
  PROVE  /\ pc' \in [Processes -> MainLabels \cup WorkerLabels \cup ChildLabels]
         /\ pc'["main"] \in MainLabels /\ pc'["worker"] \in WorkerLabels
         /\ pc'["child"] \in ChildLabels
         /\ fd' \in [Writers -> Names \cup {"closed", "removed"}]
         /\ armed' \in BOOLEAN
  <1>1. /\ pc' \in [Processes -> MainLabels \cup WorkerLabels \cup ChildLabels]
        /\ pc'["main"] \in MainLabels /\ pc'["worker"] \in WorkerLabels
        /\ pc'["child"] \in ChildLabels
    BY DEF Typed, Dies, Processes, MainLabels, WorkerLabels, ChildLabels, Dead
  <1>2. fd' \in [Writers -> Names \cup {"closed", "removed"}] /\ armed' \in BOOLEAN
    BY DEF Typed, Dies, Writers
  <1> QED
    BY <1>1, <1>2

(* The limit grows by MaxIter at each start, and only then. *)
LEMMA LimitGrows ==
  ASSUME Typed
  PROVE  /\ Limit \in Nat
         /\ runs' = runs => Limit' = Limit
         /\ runs' = runs + 1 => Limit' = Limit + MaxIter
  BY BoundsAssumption DEF Typed, Limit

(* Every step keeps the types. *)
LEMMA TypedStep == Typed /\ [Next]_vars => Typed'
<1> SUFFICES ASSUME Typed, [Next]_vars PROVE Typed'
  OBVIOUS
<1> USE DEF Typed, Names, Buffers, Writers, Processes, NoFile, Partial,
  MainLabels, WorkerLabels, ChildLabels, Masked, Handled, Dead, Saving
<1>1. ASSUME ReadSave PROVE Typed'
  BY <1>1 DEF ReadSave, Goto, Resumed, files, signals, fixed
<1>2. ASSUME SignalsBlock PROVE Typed'
  BY <1>2 DEF SignalsBlock, Goto, files, workers, signals, fixed
<1>3. ASSUME CreateThreads PROVE Typed'
  BY <1>3 DEF CreateThreads, files, workers, signals, fixed
<1>4. ASSUME SignalsUnblock PROVE Typed'
  <2>1. CASE pending
    BY <1>4, <2>1, DiesTyped DEF SignalsUnblock, workers, fixed
  <2>2. CASE ~pending
    BY <1>4, <2>2 DEF SignalsUnblock, workers, fixed
  <2> QED
    BY <2>1, <2>2
<1>5. ASSUME Sigaction PROVE Typed'
  BY <1>5 DEF Sigaction, Goto, files, workers, signals, fixed
<1>6. ASSUME InitSignals PROVE Typed'
  BY <1>6 DEF InitSignals, Goto, files, workers, fixed
<1>7. ASSUME Join PROVE Typed'
  BY <1>7 DEF Join, Goto, files, workers, signals, fixed
<1>8. ASSUME WaitChild PROVE Typed'
  BY <1>8 DEF WaitChild, ChildEnded, files, workers, signals, fixed
<1>9. ASSUME ShowResult PROVE Typed'
  BY <1>9 DEF ShowResult, Goto, files, workers, signals, fixed
<1>10. ASSUME TestInterrupted PROVE Typed'
  BY <1>10 DEF TestInterrupted, Goto, files, workers, signals, fixed
<1>11. ASSUME DeleteFile PROVE Typed'
  BY <1>11 DEF DeleteFile, Goto, workers, fixed
<1>12. ASSUME Iterate PROVE Typed'
  <2>1. /\ pc' \in [Processes -> MainLabels \cup WorkerLabels \cup ChildLabels]
        /\ pc'["main"] \in MainLabels /\ pc'["worker"] \in WorkerLabels
        /\ pc'["child"] \in ChildLabels
    BY <1>12 DEF Iterate, Goto
  <2>2. gen' \in [Buffers -> Nat] /\ matrix' \in Buffers /\ it' \in 0 .. MaxIter
    BY <1>12, OtherBuffer, BoundsAssumption DEF Iterate, Another
  <2> QED
    BY <1>12, <2>1, <2>2 DEF Iterate, files, signals, fixed
<1>13. ASSUME LeaveLoop PROVE Typed'
  BY <1>13 DEF LeaveLoop, Goto, Another, files, signals, fixed
<1>14. ASSUME Elect PROVE Typed'
  BY <1>14 DEF Elect, Goto, files, signals, fixed
<1>15. ASSUME TestAlarm PROVE Typed'
  BY <1>15 DEF TestAlarm, Reaped, files, workers, signals, fixed
<1>16. ASSUME Fork PROVE Typed'
  BY <1>16 DEF Fork, workers, signals, fixed
<1>17. ASSUME ResetAlarm PROVE Typed'
  BY <1>17 DEF ResetAlarm, Goto, files, workers, fixed
<1>18. ASSUME Swap PROVE Typed'
  BY <1>18, OtherBuffer DEF Swap, Goto, files, signals, fixed
<1>19. ASSUME NEW p \in Writers, OpenTemp(p) PROVE Typed'
  BY <1>19 DEF OpenTemp, Goto, SaveTo, workers, signals, fixed
<1>20. ASSUME NEW p \in Writers, WriteMatrix(p) PROVE Typed'
  BY <1>20, SourceWhole DEF WriteMatrix, Goto, workers, signals, fixed
<1>21. ASSUME NEW p \in Writers, Rename(p) PROVE Typed'
  BY <1>21 DEF Rename, Goto, workers, fixed
<1>22. ASSUME Sigint PROVE Typed'
  <2>1. /\ pc' \in [Processes -> MainLabels \cup WorkerLabels \cup ChildLabels]
        /\ pc'["main"] \in MainLabels /\ pc'["worker"] \in WorkerLabels
        /\ pc'["child"] \in ChildLabels
    BY <1>22 DEF Sigint, Dies, CutsWait
  <2>2. /\ fd' \in [Writers -> Names \cup {"closed", "removed"}]
        /\ interrupted' \in BOOLEAN /\ armed' \in BOOLEAN
        /\ pending' \in BOOLEAN /\ cut' \in BOOLEAN
    <3>1. CASE Dies /\ UNCHANGED <<interrupted, pending, cut>>
      BY <3>1, DiesTyped
    <3>2. CASE UNCHANGED <<fd, armed>>
      BY <1>22, <3>2 DEF Sigint, CutsWait, Masked, Handled
    <3> QED
      BY <1>22, <3>1, <3>2 DEF Sigint
  <2> QED
    BY <1>22, <2>1, <2>2 DEF Sigint, workers, fixed
<1>23. ASSUME Sigalrm PROVE Typed'
  <2>1. /\ pc' \in [Processes -> MainLabels \cup WorkerLabels \cup ChildLabels]
        /\ pc'["main"] \in MainLabels /\ pc'["worker"] \in WorkerLabels
        /\ pc'["child"] \in ChildLabels /\ cut' \in BOOLEAN
    BY <1>23 DEF Sigalrm, CutsWait
  <2> QED
    BY <1>23, <2>1 DEF Sigalrm, files, workers, fixed
<1>24. ASSUME KillMain PROVE Typed'
  BY <1>24, DiesTyped DEF KillMain, workers, fixed
<1>25. ASSUME ChildDies PROVE Typed'
  BY <1>25 DEF ChildDies, workers, signals, fixed
<1>26. ASSUME Restart PROVE Typed'
  <2>1. /\ pc' \in [Processes -> MainLabels \cup WorkerLabels \cup ChildLabels]
        /\ pc'["main"] \in MainLabels /\ pc'["worker"] \in WorkerLabels
        /\ pc'["child"] \in ChildLabels
    BY <1>26, StartedLabels DEF Restart
  <2>2. it' \in 0 .. MaxIter /\ runs' \in 1 .. MaxRuns
    BY <1>26, BoundsAssumption DEF Restart
  <2> QED
    BY <1>26, <2>1, <2>2 DEF Restart, files
<1>27. ASSUME Gone PROVE Typed'
  BY <1>27 DEF Gone, ChildEnded, Alive, vars
<1>28. CASE UNCHANGED vars
  BY <1>28 DEF vars
<1> QED
  BY <1>1, <1>2, <1>3, <1>4, <1>5, <1>6, <1>7, <1>8, <1>9, <1>10, <1>11, <1>12,
    <1>13, <1>14, <1>15, <1>16, <1>17, <1>18, <1>19, <1>20, <1>21, <1>22,
    <1>23, <1>24, <1>25, <1>26, <1>27, <1>28 DEF Next, Main, Worker, Events,
    SafeWrite

(* Threads and child begin and end with the places of main. *)
LEMMA PhasesStep == Typed /\ Phases /\ [Next]_vars => Phases'
<1> SUFFICES ASSUME Typed, Phases, [Next]_vars PROVE Phases'
  OBVIOUS
<1> USE DEF Phases, Early, Late, Processes, Writers, MainLabels, WorkerLabels,
  ChildLabels, Masked, Handled, Dead, Saving, Typed
<1>1. ASSUME ReadSave PROVE Phases'
  BY <1>1 DEF ReadSave, Goto, Resumed, files, signals, fixed
<1>2. ASSUME SignalsBlock PROVE Phases'
  BY <1>2 DEF SignalsBlock, Goto, files, workers, signals, fixed
<1>3. ASSUME CreateThreads PROVE Phases'
  BY <1>3 DEF CreateThreads, files, workers, signals, fixed
<1>4. ASSUME SignalsUnblock PROVE Phases'
  BY <1>4 DEF SignalsUnblock, Dies, workers, fixed
<1>5. ASSUME Sigaction PROVE Phases'
  BY <1>5 DEF Sigaction, Goto, files, workers, signals, fixed
<1>6. ASSUME InitSignals PROVE Phases'
  BY <1>6 DEF InitSignals, Goto, files, workers, fixed
<1>7. ASSUME Join PROVE Phases'
  BY <1>7 DEF Join, Goto, files, workers, signals, fixed
<1>8. ASSUME WaitChild PROVE Phases'
  BY <1>8 DEF WaitChild, ChildEnded, files, workers, signals, fixed
<1>9. ASSUME ShowResult PROVE Phases'
  BY <1>9 DEF ShowResult, Goto, files, workers, signals, fixed
<1>10. ASSUME TestInterrupted PROVE Phases'
  BY <1>10 DEF TestInterrupted, Goto, files, workers, signals, fixed
<1>11. ASSUME DeleteFile PROVE Phases'
  BY <1>11 DEF DeleteFile, Goto, workers, fixed
<1>12. ASSUME Iterate PROVE Phases'
  BY <1>12 DEF Iterate, Goto, Another, files, signals, fixed
<1>13. ASSUME LeaveLoop PROVE Phases'
  BY <1>13 DEF LeaveLoop, Goto, Another, files, signals, fixed
<1>14. ASSUME Elect PROVE Phases'
  BY <1>14 DEF Elect, Goto, files, signals, fixed
<1>15. ASSUME TestAlarm PROVE Phases'
  BY <1>15 DEF TestAlarm, Reaped, files, workers, signals, fixed
<1>16. ASSUME Fork PROVE Phases'
  BY <1>16 DEF Fork, workers, signals, fixed
<1>17. ASSUME ResetAlarm PROVE Phases'
  BY <1>17 DEF ResetAlarm, Goto, files, workers, fixed
<1>18. ASSUME Swap PROVE Phases'
  BY <1>18 DEF Swap, Goto, files, signals, fixed
<1>19. ASSUME NEW p \in Writers, OpenTemp(p) PROVE Phases'
  BY <1>19 DEF OpenTemp, Goto, SaveTo, workers, signals, fixed
<1>20. ASSUME NEW p \in Writers, WriteMatrix(p) PROVE Phases'
  BY <1>20 DEF WriteMatrix, Goto, workers, signals, fixed
<1>21. ASSUME NEW p \in Writers, Rename(p) PROVE Phases'
  BY <1>21 DEF Rename, Goto, workers, fixed
<1>22. ASSUME Sigint PROVE Phases'
  BY <1>22 DEF Sigint, Dies, CutsWait, Alive, workers, fixed, ChildEnded
<1>23. ASSUME Sigalrm PROVE Phases'
  BY <1>23 DEF Sigalrm, CutsWait, files, workers, fixed, ChildEnded
<1>24. ASSUME KillMain PROVE Phases'
  BY <1>24 DEF KillMain, Dies, Alive, workers, fixed
<1>25. ASSUME ChildDies PROVE Phases'
  BY <1>25 DEF ChildDies, workers, signals, fixed
<1>26. ASSUME Restart PROVE Phases'
  BY <1>26, StartedLabels DEF Restart, ChildEnded, Alive, files
<1>27. ASSUME Gone PROVE Phases'
  BY <1>27 DEF Gone, ChildEnded, Alive, vars
<1>28. CASE UNCHANGED vars
  BY <1>28 DEF vars
<1> QED
  BY <1>1, <1>2, <1>3, <1>4, <1>5, <1>6, <1>7, <1>8, <1>9, <1>10, <1>11, <1>12,
    <1>13, <1>14, <1>15, <1>16, <1>17, <1>18, <1>19, <1>20, <1>21, <1>22,
    <1>23, <1>24, <1>25, <1>26, <1>27, <1>28 DEF Next, Main, Worker, Events,
    SafeWrite

(* main begins a save only when the child has ended its own. *)
LEMMA WritingStep == Typed /\ Phases /\ Writing /\ [Next]_vars => Writing'
<1> SUFFICES ASSUME Typed, Phases, Writing, [Next]_vars PROVE Writing'
  OBVIOUS
<1> USE DEF Writing, Phases, Early, Late, Processes, Writers, MainLabels,
  WorkerLabels, ChildLabels, Masked, Handled, Dead, Saving, Typed, Names,
  NoFile, Partial
<1>1. ASSUME ReadSave PROVE Writing'
  BY <1>1 DEF ReadSave, Goto, Resumed, files, signals, fixed
<1>2. ASSUME SignalsBlock PROVE Writing'
  BY <1>2 DEF SignalsBlock, Goto, files, workers, signals, fixed
<1>3. ASSUME CreateThreads PROVE Writing'
  BY <1>3 DEF CreateThreads, files, workers, signals, fixed
<1>4. ASSUME SignalsUnblock PROVE Writing'
  BY <1>4 DEF SignalsUnblock, Dies, workers, fixed
<1>5. ASSUME Sigaction PROVE Writing'
  BY <1>5 DEF Sigaction, Goto, files, workers, signals, fixed
<1>6. ASSUME InitSignals PROVE Writing'
  BY <1>6 DEF InitSignals, Goto, files, workers, fixed
<1>7. ASSUME Join PROVE Writing'
  BY <1>7 DEF Join, Goto, files, workers, signals, fixed
<1>8. ASSUME WaitChild PROVE Writing'
  BY <1>8 DEF WaitChild, ChildEnded, files, workers, signals, fixed
<1>9. ASSUME ShowResult PROVE Writing'
  BY <1>9 DEF ShowResult, Goto, files, workers, signals, fixed
<1>10. ASSUME TestInterrupted PROVE Writing'
  BY <1>10 DEF TestInterrupted, Goto, files, workers, signals, fixed
<1>11. ASSUME DeleteFile PROVE Writing'
  BY <1>11 DEF DeleteFile, Goto, workers, fixed
<1>12. ASSUME Iterate PROVE Writing'
  BY <1>12 DEF Iterate, Goto, Another, files, signals, fixed
<1>13. ASSUME LeaveLoop PROVE Writing'
  BY <1>13 DEF LeaveLoop, Goto, Another, files, signals, fixed
<1>14. ASSUME Elect PROVE Writing'
  BY <1>14 DEF Elect, Goto, files, signals, fixed
<1>15. ASSUME TestAlarm PROVE Writing'
  BY <1>15 DEF TestAlarm, Reaped, files, workers, signals, fixed
<1>16. ASSUME Fork PROVE Writing'
  BY <1>16 DEF Fork, workers, signals, fixed
<1>17. ASSUME ResetAlarm PROVE Writing'
  BY <1>17 DEF ResetAlarm, Goto, files, workers, fixed
<1>18. ASSUME Swap PROVE Writing'
  BY <1>18 DEF Swap, Goto, files, signals, fixed
<1>19. ASSUME NEW p \in Writers, OpenTemp(p) PROVE Writing'
  BY <1>19 DEF OpenTemp, Goto, SaveTo, workers, signals, fixed
<1>20. ASSUME NEW p \in Writers, WriteMatrix(p) PROVE Writing'
  BY <1>20, SourceWhole DEF WriteMatrix, Goto, workers, signals, fixed
<1>21. ASSUME NEW p \in Writers, Rename(p) PROVE Writing'
  BY <1>21 DEF Rename, Goto, workers, fixed
<1>22. ASSUME Sigint PROVE Writing'
  BY <1>22 DEF Sigint, Dies, CutsWait, Alive, workers, fixed, ChildEnded
<1>23. ASSUME Sigalrm PROVE Writing'
  BY <1>23 DEF Sigalrm, CutsWait, files, workers, fixed, ChildEnded
<1>24. ASSUME KillMain PROVE Writing'
  BY <1>24 DEF KillMain, Dies, Alive, workers, fixed
<1>25. ASSUME ChildDies PROVE Writing'
  BY <1>25 DEF ChildDies, workers, signals, fixed
<1>26. ASSUME Restart PROVE Writing'
  BY <1>26, StartedLabels DEF Restart, ChildEnded, Alive, files
<1>27. ASSUME Gone PROVE Writing'
  BY <1>27 DEF Gone, ChildEnded, Alive, vars
<1>28. CASE UNCHANGED vars
  BY <1>28 DEF vars
<1> QED
  BY <1>1, <1>2, <1>3, <1>4, <1>5, <1>6, <1>7, <1>8, <1>9, <1>10, <1>11, <1>12,
    <1>13, <1>14, <1>15, <1>16, <1>17, <1>18, <1>19, <1>20, <1>21, <1>22,
    <1>23, <1>24, <1>25, <1>26, <1>27, <1>28 DEF Next, Main, Worker, Events,
    SafeWrite

(* A SIGINT the workers saw is known to main, unless it forgot it. *)
LEMMA FlagsStep == Typed /\ Phases /\ Flags /\ [Next]_vars => Flags'
<1> SUFFICES ASSUME Typed, Phases, Flags, [Next]_vars PROVE Flags'
  OBVIOUS
<1> USE DEF Flags, Phases, Early, Late, Processes, Writers, MainLabels,
  WorkerLabels, ChildLabels, Masked, Handled, Dead, Saving, Typed
<1>1. ASSUME ReadSave PROVE Flags'
  BY <1>1 DEF ReadSave, Goto, Resumed, files, signals, fixed
<1>2. ASSUME SignalsBlock PROVE Flags'
  BY <1>2 DEF SignalsBlock, Goto, files, workers, signals, fixed
<1>3. ASSUME CreateThreads PROVE Flags'
  BY <1>3 DEF CreateThreads, files, workers, signals, fixed
<1>4. ASSUME SignalsUnblock PROVE Flags'
  BY <1>4 DEF SignalsUnblock, Dies, workers, fixed
<1>5. ASSUME Sigaction PROVE Flags'
  BY <1>5 DEF Sigaction, Goto, files, workers, signals, fixed
<1>6. ASSUME InitSignals PROVE Flags'
  BY <1>6 DEF InitSignals, Goto, files, workers, fixed
<1>7. ASSUME Join PROVE Flags'
  BY <1>7 DEF Join, Goto, files, workers, signals, fixed
<1>8. ASSUME WaitChild PROVE Flags'
  BY <1>8 DEF WaitChild, ChildEnded, files, workers, signals, fixed
<1>9. ASSUME ShowResult PROVE Flags'
  BY <1>9 DEF ShowResult, Goto, files, workers, signals, fixed
<1>10. ASSUME TestInterrupted PROVE Flags'
  BY <1>10 DEF TestInterrupted, Goto, files, workers, signals, fixed
<1>11. ASSUME DeleteFile PROVE Flags'
  BY <1>11 DEF DeleteFile, Goto, workers, fixed
<1>12. ASSUME Iterate PROVE Flags'
  BY <1>12 DEF Iterate, Goto, Another, files, signals, fixed
<1>13. ASSUME LeaveLoop PROVE Flags'
  BY <1>13 DEF LeaveLoop, Goto, Another, files, signals, fixed
<1>14. ASSUME Elect PROVE Flags'
  BY <1>14 DEF Elect, Goto, files, signals, fixed
<1>15. ASSUME TestAlarm PROVE Flags'
  BY <1>15 DEF TestAlarm, Reaped, files, workers, signals, fixed
<1>16. ASSUME Fork PROVE Flags'
  BY <1>16 DEF Fork, workers, signals, fixed
<1>17. ASSUME ResetAlarm PROVE Flags'
  BY <1>17 DEF ResetAlarm, Goto, files, workers, fixed
<1>18. ASSUME Swap PROVE Flags'
  BY <1>18 DEF Swap, Goto, files, signals, fixed
<1>19. ASSUME NEW p \in Writers, OpenTemp(p) PROVE Flags'
  BY <1>19 DEF OpenTemp, Goto, SaveTo, workers, signals, fixed
<1>20. ASSUME NEW p \in Writers, WriteMatrix(p) PROVE Flags'
  BY <1>20 DEF WriteMatrix, Goto, workers, signals, fixed
<1>21. ASSUME NEW p \in Writers, Rename(p) PROVE Flags'
  BY <1>21 DEF Rename, Goto, workers, fixed
<1>22. ASSUME Sigint PROVE Flags'
  BY <1>22 DEF Sigint, Dies, CutsWait, Alive, workers, fixed, ChildEnded
<1>23. ASSUME Sigalrm PROVE Flags'
  BY <1>23 DEF Sigalrm, CutsWait, files, workers, fixed, ChildEnded
<1>24. ASSUME KillMain PROVE Flags'
  BY <1>24 DEF KillMain, Dies, Alive, workers, fixed
<1>25. ASSUME ChildDies PROVE Flags'
  BY <1>25 DEF ChildDies, workers, signals, fixed
<1>26. ASSUME Restart PROVE Flags'
  BY <1>26, StartedLabels DEF Restart, ChildEnded, Alive, files
<1>27. ASSUME Gone PROVE Flags'
  BY <1>27 DEF Gone, ChildEnded, Alive, vars
<1>28. CASE UNCHANGED vars
  BY <1>28 DEF vars
<1> QED
  BY <1>1, <1>2, <1>3, <1>4, <1>5, <1>6, <1>7, <1>8, <1>9, <1>10, <1>11, <1>12,
    <1>13, <1>14, <1>15, <1>16, <1>17, <1>18, <1>19, <1>20, <1>21, <1>22,
    <1>23, <1>24, <1>25, <1>26, <1>27, <1>28 DEF Next, Main, Worker, Events,
    SafeWrite

(* Every save has gone as far as the one it replaces. *)
LEMMA ProgressStep == Typed /\ Phases /\ Writing /\ Progress /\ [Next]_vars => Progress'
<1> SUFFICES ASSUME Typed, Phases, Writing, Progress, [Next]_vars PROVE Progress'
  OBVIOUS
<1> USE DEF Progress, Resuming, Computed, Phases, Early, Late, Processes,
  Writers, MainLabels, WorkerLabels, ChildLabels, Masked, Handled, Dead,
  Saving, Typed, Writing, Names, Buffers, NoFile, Partial
<1>1. ASSUME ReadSave PROVE Progress'
  BY <1>1 DEF ReadSave, Goto, Resumed, files, signals, fixed
<1>2. ASSUME SignalsBlock PROVE Progress'
  BY <1>2 DEF SignalsBlock, Goto, files, workers, signals, fixed
<1>3. ASSUME CreateThreads PROVE Progress'
  BY <1>3 DEF CreateThreads, files, workers, signals, fixed
<1>4. ASSUME SignalsUnblock PROVE Progress'
  BY <1>4 DEF SignalsUnblock, Dies, workers, fixed
<1>5. ASSUME Sigaction PROVE Progress'
  BY <1>5 DEF Sigaction, Goto, files, workers, signals, fixed
<1>6. ASSUME InitSignals PROVE Progress'
  BY <1>6 DEF InitSignals, Goto, files, workers, fixed
<1>7. ASSUME Join PROVE Progress'
  BY <1>7 DEF Join, Goto, files, workers, signals, fixed
<1>8. ASSUME WaitChild PROVE Progress'
  BY <1>8 DEF WaitChild, ChildEnded, files, workers, signals, fixed
<1>9. ASSUME ShowResult PROVE Progress'
  BY <1>9 DEF ShowResult, Goto, files, workers, signals, fixed
<1>10. ASSUME TestInterrupted PROVE Progress'
  BY <1>10 DEF TestInterrupted, Goto, files, workers, signals, fixed
<1>11. ASSUME DeleteFile PROVE Progress'
  BY <1>11 DEF DeleteFile, Goto, workers, fixed
<1>12. ASSUME Iterate PROVE Progress'
  BY <1>12, OtherBuffer DEF Iterate, Goto, Another, files, signals, fixed
<1>13. ASSUME LeaveLoop PROVE Progress'
  BY <1>13, OtherBuffer DEF LeaveLoop, Goto, Another, files, signals, fixed
<1>14. ASSUME Elect PROVE Progress'
  BY <1>14 DEF Elect, Goto, files, signals, fixed
<1>15. ASSUME TestAlarm PROVE Progress'
  BY <1>15 DEF TestAlarm, Reaped, files, workers, signals, fixed
<1>16. ASSUME Fork PROVE Progress'
  BY <1>16, OtherBuffer DEF Fork, workers, signals, fixed
<1>17. ASSUME ResetAlarm PROVE Progress'
  BY <1>17 DEF ResetAlarm, Goto, files, workers, fixed
<1>18. ASSUME Swap PROVE Progress'
  BY <1>18, OtherBuffer DEF Swap, Goto, files, signals, fixed
<1>19. ASSUME NEW p \in Writers, OpenTemp(p) PROVE Progress'
  BY <1>19 DEF OpenTemp, Goto, SaveTo, workers, signals, fixed
<1>20. ASSUME NEW p \in Writers, WriteMatrix(p) PROVE Progress'
  <2>1. CASE ~cut /\ p = "main"
    <3>1. pc["main"] = "write" /\ fd["main"] = "temp" /\ fd["child"] # "temp"
      BY <1>20, <2>1 DEF WriteMatrix, Goto
    <3>2. disk' = [disk EXCEPT !["temp"] = gen[matrix]]
      BY <1>20, <2>1, <3>1, SourceWhole DEF WriteMatrix, Source
    <3> QED
      BY <1>20, <2>1, <3>1, <3>2 DEF WriteMatrix, Goto, workers, signals, fixed
  <2>2. CASE ~cut /\ p = "child"
    <3>1. pc["child"] = "write" /\ fd["child"] = "temp" /\ fd["main"] # "temp"
      BY <1>20, <2>2 DEF WriteMatrix, Goto
    <3>2. disk' = [disk EXCEPT !["temp"] = copy]
      BY <1>20, <2>2, <3>1, SourceWhole DEF WriteMatrix, Source
    <3> QED
      BY <1>20, <2>2, <3>1, <3>2 DEF WriteMatrix, Goto, workers, signals, fixed
  <2>3. CASE cut
    BY <1>20, <2>3 DEF WriteMatrix, Goto, workers, signals, fixed
  <2> QED
    BY <2>1, <2>2, <2>3
<1>21. ASSUME NEW p \in Writers, Rename(p) PROVE Progress'
  BY <1>21 DEF Rename, Goto, workers, fixed
<1>22. ASSUME Sigint PROVE Progress'
  BY <1>22 DEF Sigint, Dies, CutsWait, Alive, workers, fixed, ChildEnded
<1>23. ASSUME Sigalrm PROVE Progress'
  BY <1>23 DEF Sigalrm, CutsWait, files, workers, fixed, ChildEnded
<1>24. ASSUME KillMain PROVE Progress'
  BY <1>24 DEF KillMain, Dies, Alive, workers, fixed
<1>25. ASSUME ChildDies PROVE Progress'
  BY <1>25 DEF ChildDies, workers, signals, fixed
<1>26. ASSUME Restart PROVE Progress'
  BY <1>26, StartedLabels DEF Restart, ChildEnded, Alive, files
<1>27. ASSUME Gone PROVE Progress'
  BY <1>27 DEF Gone, ChildEnded, Alive, vars
<1>28. CASE UNCHANGED vars
  BY <1>28 DEF vars
<1> QED
  BY <1>1, <1>2, <1>3, <1>4, <1>5, <1>6, <1>7, <1>8, <1>9, <1>10, <1>11, <1>12,
    <1>13, <1>14, <1>15, <1>16, <1>17, <1>18, <1>19, <1>20, <1>21, <1>22,
    <1>23, <1>24, <1>25, <1>26, <1>27, <1>28 DEF Next, Main, Worker, Events,
    SafeWrite

(* A run adds at most MaxIter iterations to those of the save it read. *)
LEMMA BoundedStep == Typed /\ Phases /\ Bounded /\ [Next]_vars => Bounded'
<1> SUFFICES ASSUME Typed, Phases, Bounded, [Next]_vars PROVE Bounded'
  OBVIOUS
<1> USE DEF Bounded, Names, Buffers, NoFile, Partial, Writers, Processes,
  Typed, Phases, Early, MainLabels, WorkerLabels, ChildLabels, Masked, Handled,
  Dead, Saving
<1>1. ASSUME ReadSave PROVE Bounded'
  BY <1>1, BoundsAssumption, LimitGrows DEF ReadSave, Goto, Resumed, files,
    signals, fixed
<1>2. ASSUME SignalsBlock PROVE Bounded'
  BY <1>2, LimitGrows DEF SignalsBlock, Goto, files, workers, signals, fixed
<1>3. ASSUME CreateThreads PROVE Bounded'
  BY <1>3, LimitGrows DEF CreateThreads, files, workers, signals, fixed
<1>4. ASSUME SignalsUnblock PROVE Bounded'
  BY <1>4, LimitGrows DEF SignalsUnblock, Dies, workers, fixed
<1>5. ASSUME Sigaction PROVE Bounded'
  BY <1>5, LimitGrows DEF Sigaction, Goto, files, workers, signals, fixed
<1>6. ASSUME InitSignals PROVE Bounded'
  BY <1>6, LimitGrows DEF InitSignals, Goto, files, workers, fixed
<1>7. ASSUME Join PROVE Bounded'
  BY <1>7, LimitGrows DEF Join, Goto, files, workers, signals, fixed
<1>8. ASSUME WaitChild PROVE Bounded'
  BY <1>8, LimitGrows DEF WaitChild, ChildEnded, files, workers, signals, fixed
<1>9. ASSUME ShowResult PROVE Bounded'
  BY <1>9, LimitGrows DEF ShowResult, Goto, files, workers, signals, fixed
<1>10. ASSUME TestInterrupted PROVE Bounded'
  BY <1>10, LimitGrows DEF TestInterrupted, Goto, files, workers, signals,
    fixed
<1>11. ASSUME DeleteFile PROVE Bounded'
  BY <1>11, LimitGrows DEF DeleteFile, Goto, workers, fixed
<1>12. ASSUME Iterate PROVE Bounded'
  BY <1>12, OtherBuffer, BoundsAssumption, LimitGrows DEF Iterate, Goto,
    Another, files, signals, fixed
<1>13. ASSUME LeaveLoop PROVE Bounded'
  BY <1>13, LimitGrows DEF LeaveLoop, Goto, Another, files, signals, fixed
<1>14. ASSUME Elect PROVE Bounded'
  BY <1>14, LimitGrows DEF Elect, Goto, files, signals, fixed
<1>15. ASSUME TestAlarm PROVE Bounded'
  BY <1>15, LimitGrows DEF TestAlarm, Reaped, files, workers, signals, fixed
<1>16. ASSUME Fork PROVE Bounded'
  BY <1>16, LimitGrows DEF Fork, workers, signals, fixed
<1>17. ASSUME ResetAlarm PROVE Bounded'
  BY <1>17, LimitGrows DEF ResetAlarm, Goto, files, workers, fixed
<1>18. ASSUME Swap PROVE Bounded'
  BY <1>18, OtherBuffer, LimitGrows DEF Swap, Goto, files, signals, fixed
<1>19. ASSUME NEW p \in Writers, OpenTemp(p) PROVE Bounded'
  BY <1>19, LimitGrows DEF OpenTemp, Goto, SaveTo, workers, signals, fixed
<1>20. ASSUME NEW p \in Writers, WriteMatrix(p) PROVE Bounded'
  <2>1. Source(p) <= Limit /\ Limit \in Nat
    BY LimitGrows DEF Source
  <2>2. \A n \in Names : disk'[n] <= Limit /\ Limit' = Limit
    BY <1>20, <2>1, SourceWhole, LimitGrows DEF WriteMatrix, fixed
  <2>3. disk'["fichS"] = disk["fichS"] \/ pc["main"] # "read"
    BY <1>20 DEF WriteMatrix, Goto
  <2> QED
    BY <1>20, <2>2, <2>3 DEF WriteMatrix, Goto, workers, signals, fixed
<1>21. ASSUME NEW p \in Writers, Rename(p) PROVE Bounded'
  BY <1>21, LimitGrows DEF Rename, Goto, workers, fixed
<1>22. ASSUME Sigint PROVE Bounded'
  BY <1>22, LimitGrows DEF Sigint, Dies, CutsWait, Alive, workers, fixed,
    ChildEnded
<1>23. ASSUME Sigalrm PROVE Bounded'
  BY <1>23, LimitGrows DEF Sigalrm, CutsWait, files, workers, fixed, ChildEnded
<1>24. ASSUME KillMain PROVE Bounded'
  BY <1>24, LimitGrows DEF KillMain, Dies, Alive, workers, fixed
<1>25. ASSUME ChildDies PROVE Bounded'
  BY <1>25, LimitGrows DEF ChildDies, workers, signals, fixed
<1>26. ASSUME Restart PROVE Bounded'
  BY <1>26, StartedLabels, BoundsAssumption, LimitGrows DEF Restart,
    ChildEnded, Alive, files
<1>27. ASSUME Gone PROVE Bounded'
  BY <1>27, LimitGrows DEF Gone, ChildEnded, Alive, vars
<1>28. CASE UNCHANGED vars
  BY <1>28, LimitGrows DEF vars
<1> QED
  BY <1>1, <1>2, <1>3, <1>4, <1>5, <1>6, <1>7, <1>8, <1>9, <1>10, <1>11, <1>12,
    <1>13, <1>14, <1>15, <1>16, <1>17, <1>18, <1>19, <1>20, <1>21, <1>22,
    <1>23, <1>24, <1>25, <1>26, <1>27, <1>28 DEF Next, Main, Worker, Events,
    SafeWrite

----------------------------------------------------------------------------
LEMMA InitSave == Init => SaveInv
<1> SUFFICES ASSUME Init PROVE SaveInv
  OBVIOUS
<1>1. /\ pc \in [Processes -> MainLabels \cup WorkerLabels \cup ChildLabels]
      /\ pc["main"] = "read" /\ pc["worker"] = "none"
      /\ pc["child"] \in {"none", "other", "zombie"}
  BY StartedLabels DEF Init
<1>2. Typed
  <2>1. disk \in [Names -> Nat \cup {NoFile, Partial}]
    BY DEF Init
  <2>2. fd \in [Writers -> Names \cup {"closed", "removed"}]
    BY DEF Init
  <2>3. gen \in [Buffers -> Nat] /\ matrix \in Buffers /\ copy \in Nat
    BY DEF Init, Buffers
  <2>4. it \in 0 .. MaxIter /\ runs \in 1 .. MaxRuns
    BY BoundsAssumption DEF Init
  <2> QED
    BY <1>1, <2>1, <2>2, <2>3, <2>4
    DEF Init, Typed, MainLabels, WorkerLabels, ChildLabels
<1>3. Phases /\ Flags /\ Progress
  BY <1>1, OtherBuffer
  DEF Init, Phases, Flags, Progress, Early, Late, Saving, Resuming, Computed, Dead, Buffers
<1>4. Writing
  BY <1>1 DEF Init, Writing, Names, Writers, NoFile, Partial, Saving
<1>5. Bounded
  BY <1>1, BoundsAssumption DEF Init, Bounded, Limit, Names, Buffers, NoFile
<1> QED
  BY <1>2, <1>3, <1>4, <1>5 DEF SaveInv

LEMMA SaveStep == SaveInv /\ [Next]_vars => SaveInv'
  BY TypedStep, PhasesStep, WritingStep, FlagsStep, ProgressStep, BoundedStep
  DEF SaveInv

LEMMA SaveInvariant == Spec => []SaveInv
  BY InitSave, SaveStep, PTL DEF Spec

(* Every variable keeps its type: no matrix is further than MaxIter iterations
   for each time heatSim was started. *)
THEOREM SaveTyped == Spec => []TypeOK
<1>1. SaveInv => TypeOK
  <2> SUFFICES ASSUME SaveInv PROVE TypeOK
    OBVIOUS
  <2> DEFINE Top == MaxIter * MaxRuns
  <2>1. Limit <= Top /\ Top \in Nat /\ Limit \in Nat
    BY BoundsAssumption DEF SaveInv, Typed, Limit
  <2>2. /\ \A b \in Buffers : gen[b] \in 0 .. Top
        /\ \A n \in Names : disk[n] \in 0 .. Top \cup {NoFile, Partial}
        /\ copy \in 0 .. Top
    <3> HIDE DEF Top
    <3> QED
      BY <2>1 DEF SaveInv, Typed, Bounded, NoFile, Partial
  <2>3. /\ gen \in [Buffers -> 0 .. Top]
        /\ disk \in [Names -> 0 .. Top \cup {NoFile, Partial}]
    <3> HIDE DEF Top
    <3> QED
      BY <2>2 DEF SaveInv, Typed
  <2> QED
    BY <2>2, <2>3 DEF SaveInv, Typed, TypeOK
<1> QED
  BY <1>1, SaveInvariant, PTL

(* The save file can always be read to its end, wherever the processes are
   killed: it has the name only once it is whole. *)
THEOREM SaveReadable == Spec => []SaveWhole
<1>1. SaveInv => SaveWhole
  BY DEF SaveInv, Writing, SaveWhole
<1> QED
  BY <1>1, SaveInvariant, PTL

(* main waits for the child before it saves or deletes. *)
THEOREM WritersApart == Spec => []OneWriter
<1>1. SaveInv => OneWriter
  BY DEF SaveInv, Writing, OneWriter, Late, Saving
<1> QED
  BY <1>1, SaveInvariant, PTL

(* One step replaces the save by one as advanced, or deletes it when the run
   was not stopped. *)
LEMMA KeptStep ==
  SaveInv /\ [Next]_vars =>
    \/ cut \/ disk'["fichS"] >= disk["fichS"]
    \/ disk'["fichS"] = NoFile /\ (~interrupt \/ forgotten)
<1> SUFFICES ASSUME SaveInv, [Next]_vars, ~cut
             PROVE  \/ disk'["fichS"] >= disk["fichS"]
                    \/ disk'["fichS"] = NoFile /\ (~interrupt \/ forgotten)
  OBVIOUS
<1> USE DEF SaveInv, Typed, Names, Writers, NoFile, Partial
<1>1. CASE UNCHANGED disk
  BY <1>1
<1>2. CASE DeleteFile
  BY <1>2 DEF DeleteFile, Goto, Flags
<1>3. ASSUME NEW p \in Writers, OpenTemp(p) PROVE disk'["fichS"] = disk["fichS"]
  BY <1>3 DEF OpenTemp, SaveTo
<1>4. ASSUME NEW p \in Writers, WriteMatrix(p) PROVE disk'["fichS"] = disk["fichS"]
  BY <1>4 DEF WriteMatrix, Goto, Writing
<1>5. ASSUME NEW p \in Writers, Rename(p) PROVE disk'["fichS"] >= disk["fichS"]
  BY <1>5 DEF Rename, Goto, Progress, Resuming, Dead, Saving, Buffers
<1>6. CASE Main /\ ~DeleteFile
  BY <1>1, <1>6 DEF Main, ReadSave, SignalsBlock, CreateThreads, SignalsUnblock,
     Sigaction, InitSignals, Join, WaitChild, ShowResult, TestInterrupted, files
<1>7. CASE Worker
  BY <1>1, <1>7 DEF Worker, Iterate, LeaveLoop, Elect, TestAlarm, Fork, ResetAlarm,
     Swap, files
<1>8. CASE Events
  BY <1>1, <1>8 DEF Events, Sigint, Sigalrm, KillMain, ChildDies, Restart, files
<1>9. CASE Gone \/ UNCHANGED vars
  BY <1>1, <1>9 DEF Gone, vars
<1> QED
  BY <1>2, <1>3, <1>4, <1>5, <1>6, <1>7, <1>8, <1>9 DEF Next, SafeWrite

(* No progress is lost, over any number of kills, interrupts and starts. *)
THEOREM ProgressKept == Spec => SaveKept
<1>1. SaveInv /\ [Next]_vars =>
        [LET old == disk["fichS"]
             new == disk'["fichS"]
         IN  cut \/ new >= old \/ (new = NoFile /\ (~interrupt \/ forgotten))]_vars
  BY KeptStep
<1> QED
  BY <1>1, SaveInvariant, PTL DEF Spec, SaveKept
----------------------------------------------------------------------------
(* The alarm: on from signals_init, and asked for again by who resets it. *)
LEMMA AlarmStep == Typed /\ AlarmSet /\ [Next]_vars => AlarmSet'
<1> SUFFICES ASSUME Typed, AlarmSet, [Next]_vars PROVE AlarmSet'
  OBVIOUS
<1> USE DEF AlarmSet, Processes, Writers, MainLabels, WorkerLabels,
  ChildLabels, Masked, Handled, Dead, Saving, Typed
<1>1. ASSUME ReadSave PROVE AlarmSet'
  BY <1>1 DEF ReadSave, Goto, Resumed, files, signals, fixed
<1>2. ASSUME SignalsBlock PROVE AlarmSet'
  BY <1>2 DEF SignalsBlock, Goto, files, workers, signals, fixed
<1>3. ASSUME CreateThreads PROVE AlarmSet'
  BY <1>3 DEF CreateThreads, files, workers, signals, fixed
<1>4. ASSUME SignalsUnblock PROVE AlarmSet'
  BY <1>4 DEF SignalsUnblock, Dies, workers, fixed
<1>5. ASSUME Sigaction PROVE AlarmSet'
  BY <1>5 DEF Sigaction, Goto, files, workers, signals, fixed
<1>6. ASSUME InitSignals PROVE AlarmSet'
  BY <1>6 DEF InitSignals, Goto, files, workers, fixed
<1>7. ASSUME Join PROVE AlarmSet'
  BY <1>7 DEF Join, Goto, files, workers, signals, fixed
<1>8. ASSUME WaitChild PROVE AlarmSet'
  BY <1>8 DEF WaitChild, ChildEnded, files, workers, signals, fixed
<1>9. ASSUME ShowResult PROVE AlarmSet'
  BY <1>9 DEF ShowResult, Goto, files, workers, signals, fixed
<1>10. ASSUME TestInterrupted PROVE AlarmSet'
  BY <1>10 DEF TestInterrupted, Goto, files, workers, signals, fixed
<1>11. ASSUME DeleteFile PROVE AlarmSet'
  BY <1>11 DEF DeleteFile, Goto, workers, fixed
<1>12. ASSUME Iterate PROVE AlarmSet'
  BY <1>12 DEF Iterate, Goto, Another, files, signals, fixed
<1>13. ASSUME LeaveLoop PROVE AlarmSet'
  BY <1>13 DEF LeaveLoop, Goto, Another, files, signals, fixed
<1>14. ASSUME Elect PROVE AlarmSet'
  BY <1>14 DEF Elect, Goto, files, signals, fixed
<1>15. ASSUME TestAlarm PROVE AlarmSet'
  BY <1>15 DEF TestAlarm, Reaped, files, workers, signals, fixed
<1>16. ASSUME Fork PROVE AlarmSet'
  BY <1>16 DEF Fork, workers, signals, fixed
<1>17. ASSUME ResetAlarm PROVE AlarmSet'
  BY <1>17 DEF ResetAlarm, Goto, files, workers, fixed
<1>18. ASSUME Swap PROVE AlarmSet'
  BY <1>18 DEF Swap, Goto, files, signals, fixed
<1>19. ASSUME NEW p \in Writers, OpenTemp(p) PROVE AlarmSet'
  BY <1>19 DEF OpenTemp, Goto, SaveTo, workers, signals, fixed
<1>20. ASSUME NEW p \in Writers, WriteMatrix(p) PROVE AlarmSet'
  BY <1>20 DEF WriteMatrix, Goto, workers, signals, fixed
<1>21. ASSUME NEW p \in Writers, Rename(p) PROVE AlarmSet'
  BY <1>21 DEF Rename, Goto, workers, fixed
<1>22. ASSUME Sigint PROVE AlarmSet'
  BY <1>22 DEF Sigint, Dies, CutsWait, Alive, workers, fixed, ChildEnded
<1>23. ASSUME Sigalrm PROVE AlarmSet'
  BY <1>23 DEF Sigalrm, CutsWait, files, workers, fixed, ChildEnded
<1>24. ASSUME KillMain PROVE AlarmSet'
  BY <1>24 DEF KillMain, Dies, Alive, workers, fixed
<1>25. ASSUME ChildDies PROVE AlarmSet'
  BY <1>25 DEF ChildDies, workers, signals, fixed
<1>26. ASSUME Restart PROVE AlarmSet'
  BY <1>26, StartedLabels DEF Restart, ChildEnded, Alive, files
<1>27. ASSUME Gone PROVE AlarmSet'
  BY <1>27 DEF Gone, ChildEnded, Alive, vars
<1>28. CASE UNCHANGED vars
  BY <1>28 DEF vars
<1> QED
  BY <1>1, <1>2, <1>3, <1>4, <1>5, <1>6, <1>7, <1>8, <1>9, <1>10, <1>11, <1>12,
    <1>13, <1>14, <1>15, <1>16, <1>17, <1>18, <1>19, <1>20, <1>21, <1>22,
    <1>23, <1>24, <1>25, <1>26, <1>27, <1>28 DEF Next, Main, Worker, Events,
    SafeWrite

(* From signals_init to the end of the workers the alarm is set, or has come
   and was not dealt with: wherever main is interrupted, the saves go on. *)
THEOREM AlarmKept == Spec => []AlarmSet
<1>1. Init => AlarmSet
  BY StartedLabels DEF Init, AlarmSet
<1>2. SaveInv /\ AlarmSet /\ [Next]_vars => AlarmSet'
  BY AlarmStep DEF SaveInv
<1> QED
  BY <1>1, <1>2, SaveInvariant, PTL DEF Spec

(* What main has decided by its place: it saves when SIGINT came, and what it
   leaves is not written again. *)
EndInv ==
  ~cut =>
    /\ pc["main"] \in Saving => interrupted
    /\ pc["main"] = "ended" =>
         /\ interrupt /\ ~forgotten => \A b \in Buffers : disk["fichS"] >= gen[b] - 1
         /\ ~interrupted => disk["fichS"] = NoFile

LEMMA EndStep == SaveInv /\ EndInv /\ [Next]_vars => EndInv'
<1> SUFFICES ASSUME SaveInv, EndInv, [Next]_vars PROVE EndInv'
  OBVIOUS
<1> USE DEF EndInv, SaveInv, Phases, Writing, Early, Late, Names, Buffers,
  NoFile, Partial, Processes, Writers, MainLabels, WorkerLabels,
  ChildLabels, Masked, Handled, Dead, Saving, Typed
<1>1. ASSUME ReadSave PROVE EndInv'
  BY <1>1 DEF ReadSave, Goto, Resumed, files, signals, fixed
<1>2. ASSUME SignalsBlock PROVE EndInv'
  BY <1>2 DEF SignalsBlock, Goto, files, workers, signals, fixed
<1>3. ASSUME CreateThreads PROVE EndInv'
  BY <1>3 DEF CreateThreads, files, workers, signals, fixed
<1>4. ASSUME SignalsUnblock PROVE EndInv'
  BY <1>4 DEF SignalsUnblock, Dies, workers, fixed
<1>5. ASSUME Sigaction PROVE EndInv'
  BY <1>5 DEF Sigaction, Goto, files, workers, signals, fixed
<1>6. ASSUME InitSignals PROVE EndInv'
  BY <1>6 DEF InitSignals, Goto, files, workers, fixed
<1>7. ASSUME Join PROVE EndInv'
  BY <1>7 DEF Join, Goto, files, workers, signals, fixed
<1>8. ASSUME WaitChild PROVE EndInv'
  BY <1>8 DEF WaitChild, ChildEnded, files, workers, signals, fixed
<1>9. ASSUME ShowResult PROVE EndInv'
  BY <1>9 DEF ShowResult, Goto, files, workers, signals, fixed
<1>10. ASSUME TestInterrupted PROVE EndInv'
  BY <1>10 DEF TestInterrupted, Goto, files, workers, signals, fixed
<1>11. ASSUME DeleteFile PROVE EndInv'
  BY <1>11 DEF DeleteFile, Goto, Flags, workers, fixed
<1>12. ASSUME Iterate PROVE EndInv'
  BY <1>12 DEF Iterate, Goto, Another, files, signals, fixed
<1>13. ASSUME LeaveLoop PROVE EndInv'
  BY <1>13 DEF LeaveLoop, Goto, Another, files, signals, fixed
<1>14. ASSUME Elect PROVE EndInv'
  BY <1>14 DEF Elect, Goto, files, signals, fixed
<1>15. ASSUME TestAlarm PROVE EndInv'
  BY <1>15 DEF TestAlarm, Reaped, files, workers, signals, fixed
<1>16. ASSUME Fork PROVE EndInv'
  BY <1>16 DEF Fork, workers, signals, fixed
<1>17. ASSUME ResetAlarm PROVE EndInv'
  BY <1>17 DEF ResetAlarm, Goto, files, workers, fixed
<1>18. ASSUME Swap PROVE EndInv'
  BY <1>18 DEF Swap, Goto, files, signals, fixed
<1>19. ASSUME NEW p \in Writers, OpenTemp(p) PROVE EndInv'
  BY <1>19 DEF OpenTemp, Goto, SaveTo, workers, signals, fixed
<1>20. ASSUME NEW p \in Writers, WriteMatrix(p) PROVE EndInv'
  BY <1>20 DEF WriteMatrix, Goto, workers, signals, fixed
<1>21. ASSUME NEW p \in Writers, Rename(p) PROVE EndInv'
  BY <1>21 DEF Rename, Goto, Progress, workers, fixed
<1>22. ASSUME Sigint PROVE EndInv'
  BY <1>22 DEF Sigint, Dies, CutsWait, Alive, workers, fixed, ChildEnded
<1>23. ASSUME Sigalrm PROVE EndInv'
  BY <1>23 DEF Sigalrm, CutsWait, files, workers, fixed, ChildEnded
<1>24. ASSUME KillMain PROVE EndInv'
  BY <1>24 DEF KillMain, Dies, Alive, workers, fixed
<1>25. ASSUME ChildDies PROVE EndInv'
  BY <1>25 DEF ChildDies, workers, signals, fixed
<1>26. ASSUME Restart PROVE EndInv'
  BY <1>26, StartedLabels DEF Restart, ChildEnded, Alive, files
<1>27. ASSUME Gone PROVE EndInv'
  BY <1>27 DEF Gone, ChildEnded, Alive, vars
<1>28. CASE UNCHANGED vars
  BY <1>28 DEF vars
<1> QED
  BY <1>1, <1>2, <1>3, <1>4, <1>5, <1>6, <1>7, <1>8, <1>9, <1>10, <1>11, <1>12,
    <1>13, <1>14, <1>15, <1>16, <1>17, <1>18, <1>19, <1>20, <1>21, <1>22,
    <1>23, <1>24, <1>25, <1>26, <1>27, <1>28 DEF Next, Main, Worker, Events,
    SafeWrite

(* What main leaves when it ends: interrupted, a save of the matrix the workers
   reached or of one iteration before; otherwise, nothing to resume. *)
THEOREM EndsSaved == Spec => []EndsWithSave
<1>1. Init => EndInv
  BY StartedLabels DEF Init, EndInv, Saving
<1>2. SaveInv /\ EndInv /\ [Next]_vars => EndInv'
  BY EndStep
<1>3. EndInv => EndsWithSave
  BY DEF EndInv, EndsWithSave
<1> QED
  BY <1>1, <1>2, <1>3, SaveInvariant, PTL DEF Spec
=============================================================================
