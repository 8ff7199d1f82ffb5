------------------------------ MODULE HeatSave ------------------------------
(***************************************************************************)
(* The save file of heatSim (src/proj/2017-2018/src: main.c, signals.c,    *)
(* files.c, helpers.c). A run reads the matrix left by an earlier one, the *)
(* workers iterate, a child process forked by one of them may save the     *)
(* matrix every period, and main saves it at the end if SIGINT came, or    *)
(* deletes the file. A save goes to a second file, renamed at the end.     *)
(* Any process may be killed, and heatSim started again.                   *)
(*                                                                         *)
(* The workers move in lockstep and only the one elected at the barrier    *)
(* saves (module HeatSim), so they are one process here. A matrix is       *)
(* abstracted to the number of iterations it went through, over all runs.  *)
(* The process may be started with a child it did not fork, as after an    *)
(* exec; no two children ever exist together, and so pid 0, pid -1 and the *)
(* pid in save_child are the same to waitpid.                              *)
(***************************************************************************)
EXTENDS Integers

CONSTANTS
  MaxIter,    \* iterations of a run
  MaxRuns,    \* bound on the number of times heatSim is started
  Inherited   \* whether it may be started with a child

ASSUME BoundsAssumption == MaxIter \in Nat \ {0} /\ MaxRuns \in Nat \ {0}
ASSUME InheritedAssumption == Inherited \in BOOLEAN

Processes == {"main", "worker", "child"}
Writers   == {"main", "child"}
Names     == {"fichS", "temp"}
Buffers   == {"first", "second"}
Other(b)  == CHOOSE c \in Buffers : c # b

NoFile  == -2   \* contents of a file that does not exist
Partial == -1   \* of one that readMatrix2dFromFile cannot read to the end

VARIABLES
  period,               \* whether periodoS > 0
  pc,                   \* of each process
  disk,                 \* the two files
  fd,                   \* the file each writer has open, by its present name
  copy,                 \* the matrix the child was forked with
  gen, matrix,          \* contents of the two buffers; the pointer `matrix'
  it, interrupt,        \* of the workers
  interrupted, alarmed, \* set by the handler
  armed,                \* alarm(alarm_interval) was called and has not expired
  pending,              \* SIGINT came while blocked
  forgotten,            \* history: SIGINT came before `interrupted = 0'
  cut,                  \* history: a signal ended the last waitpid
  runs                  \* times heatSim was started

vars == <<period, pc, disk, fd, copy, gen, matrix, it, interrupt, interrupted,
          alarmed, armed, pending, forgotten, cut, runs>>

files   == <<disk, fd, copy>>
workers == <<gen, matrix, it, interrupt>>
signals == <<interrupted, alarmed, armed, pending, forgotten, cut>>
fixed   == <<period, runs>>

Saving   == {"open", "write", "rename"}
Masked   == {"create", "unblock"}
Handled  == {"init", "join", "wait", "print", "test", "unlink"} \cup Saving
Dead     == {"ended", "killed"}
MainLabels   == {"read", "block", "handle"} \cup Masked \cup Handled \cup Dead
WorkerLabels == {"none", "loop", "elect", "alarm", "fork", "reset", "swap", "returned"}
ChildLabels  == {"none", "other", "zombie"} \cup Saving

(* heatSim started with no child, or with one that runs or has ended. *)
Started ==
  {[p \in Processes |-> IF p = "main" THEN "read" ELSE IF p = "worker" THEN "none" ELSE c] :
     c \in IF Inherited THEN {"none", "other", "zombie"} ELSE {"none"}}

Init ==
  /\ period \in BOOLEAN
  /\ pc \in Started
  /\ disk = [n \in Names |-> NoFile]
  /\ fd = [p \in Writers |-> "closed"]
  /\ copy = 0
  /\ gen = [b \in Buffers |-> 0]
  /\ matrix = "first"
  /\ it = MaxIter
  /\ interrupt = FALSE /\ interrupted = FALSE
  /\ alarmed = FALSE /\ armed = FALSE
  /\ pending = FALSE /\ forgotten = FALSE /\ cut = FALSE
  /\ runs = 1

Goto(p, from, to) == pc[p] = from /\ pc' = [pc EXCEPT ![p] = to]

Dies == /\ pc' = [pc EXCEPT !["main"] = "killed", !["worker"] = "none"]
        /\ fd' = [fd EXCEPT !["main"] = "closed"]
        /\ armed' = FALSE

----------------------------------------------------------------------------
(* main, up to the join *)

ReadNothing == 0                                           \* mutant
(* A file that is absent or cut short gives a matrix made from the arguments. *)
Resumed == IF disk["fichS"] >= 0 THEN disk["fichS"] ELSE 0

ReadSave ==
  /\ Goto("main", "read", "block")
  /\ gen' = [b \in Buffers |-> Resumed]
  /\ UNCHANGED <<files, matrix, it, interrupt, signals, fixed>>

SignalsBlock ==
  /\ Goto("main", "block", "create")
  /\ UNCHANGED <<files, workers, signals, fixed>>

CreateThreads ==
  /\ pc["main"] = "create"
  /\ pc' = [pc EXCEPT !["main"] = "unblock", !["worker"] = "loop"]
  /\ UNCHANGED <<files, workers, signals, fixed>>

(* A SIGINT that was blocked is delivered before there is a handler for it. *)
SignalsUnblock ==
  /\ pc["main"] = "unblock"
  /\ IF pending
     THEN Dies
     ELSE pc' = [pc EXCEPT !["main"] = "handle"] /\ UNCHANGED <<fd, armed>>
  /\ UNCHANGED <<disk, copy, workers, interrupted, alarmed, pending, forgotten, cut,
                 fixed>>

Sigaction ==
  /\ Goto("main", "handle", "init")
  /\ UNCHANGED <<files, workers, signals, fixed>>

(* The end of signals_init; with an interval of 0 there is no alarm. *)
InitSignals ==
  /\ Goto("main", "init", "join")
  /\ interrupted' = FALSE
  /\ forgotten' = interrupted
  /\ alarmed' = FALSE
  /\ armed' = period
  /\ UNCHANGED <<files, workers, pending, cut, fixed>>

----------------------------------------------------------------------------
(* the workers, and the one elected at the second barrier *)

AnotherAtZero == it >= 0 /\ ~interrupt                     \* mutant
Another       == it > 0 /\ ~interrupt

(* One iteration, after which dm2dDelimited may end the loop. *)
Iterate ==
  /\ Another
  /\ \/ Goto("worker", "loop", "elect") /\ UNCHANGED matrix
     \/ Goto("worker", "loop", "returned") /\ matrix' = "first"
  /\ gen' = [gen EXCEPT ![Other(matrix)] = gen[matrix] + 1]
  /\ it' = it - 1
  /\ UNCHANGED <<files, interrupt, signals, fixed>>

(* All of them then set `matrix' to the buffer allocated first. *)
LeaveLoop ==
  /\ ~Another
  /\ Goto("worker", "loop", "returned")
  /\ matrix' = "first"
  /\ UNCHANGED <<files, gen, it, interrupt, signals, fixed>>

ElectClearing ==                                           \* mutant
  /\ Goto("worker", "elect", "alarm")
  /\ interrupt' = interrupted
  /\ interrupted' = FALSE
  /\ UNCHANGED <<files, gen, matrix, it, alarmed, armed, pending, forgotten, cut, fixed>>
Elect ==
  /\ Goto("worker", "elect", "alarm")
  /\ interrupt' = interrupted
  /\ UNCHANGED <<files, gen, matrix, it, signals, fixed>>

(* wait_properly(save_child, WNOHANG) > 0: there was a child, and it ended. *)
Reaped == pc["child"] = "zombie"

TestAlarm ==
  /\ pc["worker"] = "alarm"
  /\ pc' = IF ~alarmed THEN [pc EXCEPT !["worker"] = "swap"]
           ELSE IF Reaped THEN [pc EXCEPT !["worker"] = "fork", !["child"] = "none"]
           ELSE [pc EXCEPT !["worker"] = "reset"]
  /\ UNCHANGED <<files, workers, signals, fixed>>

Fork ==
  /\ pc["worker"] = "fork"
  /\ \E c \in {"open", "none"} :      \* none: fork failed
       pc' = [pc EXCEPT !["worker"] = "reset", !["child"] = c]
  /\ copy' = gen[matrix]
  /\ UNCHANGED <<disk, fd, workers, signals, fixed>>

ResetAlarmNotAgain ==                                      \* mutant
  /\ Goto("worker", "reset", "swap")
  /\ alarmed' = FALSE
  /\ UNCHANGED <<files, workers, interrupted, armed, pending, forgotten, cut, fixed>>
ResetAlarm ==
  /\ Goto("worker", "reset", "swap")
  /\ alarmed' = FALSE
  /\ armed' = period
  /\ UNCHANGED <<files, workers, interrupted, pending, forgotten, cut, fixed>>

Swap ==
  /\ Goto("worker", "swap", "loop")
  /\ matrix' = Other(matrix)
  /\ UNCHANGED <<files, gen, it, interrupt, signals, fixed>>

----------------------------------------------------------------------------
(* main, from the join to the end *)

Join ==
  /\ pc["worker"] = "returned"
  /\ Goto("main", "join", "wait")
  /\ UNCHANGED <<files, workers, signals, fixed>>

NoWait     == TRUE                                         \* mutant
ChildEnded == pc["child"] \in {"none", "zombie"}

(* wait_properly(-1, 0) *)
WaitChild ==
  /\ pc["main"] = "wait"
  /\ ChildEnded
  /\ pc' = [pc EXCEPT !["main"] = "print",
                      !["child"] = IF @ = "zombie" THEN "none" ELSE @]
  /\ UNCHANGED <<files, workers, signals, fixed>>

ShowResult ==
  /\ Goto("main", "print", "test")
  /\ UNCHANGED <<files, workers, signals, fixed>>

TestInterrupted ==
  /\ Goto("main", "test", IF interrupted THEN "open" ELSE "unlink")
  /\ UNCHANGED <<files, workers, signals, fixed>>

DeleteFile ==
  /\ Goto("main", "unlink", "ended")
  /\ disk' = [disk EXCEPT !["fichS"] = NoFile]
  /\ armed' = FALSE
  /\ UNCHANGED <<fd, copy, workers, interrupted, alarmed, pending, forgotten, cut, fixed>>

----------------------------------------------------------------------------
(* safe_write_matrix, by main or by the child *)

Source(p) == IF p = "main" THEN gen[matrix] ELSE copy

SaveInPlace == "fichS"                                     \* mutant
SaveTo      == "temp"

OpenTemp(p) ==
  /\ Goto(p, "open", "write")
  /\ disk' = [disk EXCEPT ![SaveTo] = Partial]
  /\ fd' = [fd EXCEPT ![p] = SaveTo]
  /\ UNCHANGED <<copy, workers, signals, fixed>>

(* Two that write the same file at once may spoil it. *)
Written(p) ==
  {Source(p)} \cup {Partial : q \in {q \in Writers \ {p} : fd[q] = fd[p]}}

WriteMatrix(p) ==
  /\ Goto(p, "write", "rename")
  /\ IF fd[p] \in Names
     THEN \E v \in Written(p) : disk' = [disk EXCEPT ![fd[p]] = v]
     ELSE UNCHANGED disk
  /\ fd' = [fd EXCEPT ![p] = "closed"]
  /\ UNCHANGED <<copy, workers, signals, fixed>>

(* An open file follows its new name; without the second file rename fails. *)
Rename(p) ==
  /\ Goto(p, "rename", IF p = "main" THEN "ended" ELSE "zombie")
  /\ armed' = (armed /\ p # "main")
  /\ IF disk["temp"] = NoFile
     THEN UNCHANGED <<disk, fd>>
     ELSE /\ disk' = [disk EXCEPT !["fichS"] = disk["temp"], !["temp"] = NoFile]
          /\ fd' = [q \in Writers |-> IF fd[q] = "fichS" THEN "removed"
                                      ELSE IF fd[q] = "temp" THEN "fichS" ELSE fd[q]]
  /\ UNCHANGED <<copy, workers, interrupted, alarmed, pending, forgotten, cut, fixed>>

SafeWrite(p) == OpenTemp(p) \/ WriteMatrix(p) \/ Rename(p)

----------------------------------------------------------------------------
(* signals, deaths and starts *)

Alive == pc["main"] \notin Dead

(* A handled signal ends a wait for a child that still runs (EINTR); pthread_join
   goes on. *)
CutsWait ==
  IF pc["main"] = "wait" /\ ~ChildEnded
  THEN pc' = [pc EXCEPT !["main"] = "print"] /\ cut' = TRUE
  ELSE UNCHANGED <<pc, cut>>

Sigint ==
  /\ Alive /\ ~pending
  /\ \/ /\ pc["main"] \in Handled
        /\ interrupted' = TRUE
        /\ CutsWait
        /\ UNCHANGED <<fd, armed, pending>>
     \/ /\ pc["main"] \in Masked
        /\ pending' = TRUE
        /\ UNCHANGED <<pc, fd, interrupted, armed, cut>>
     \/ /\ pc["main"] \notin Handled \cup Masked
        /\ Dies
        /\ UNCHANGED <<interrupted, pending, cut>>
  /\ UNCHANGED <<disk, copy, workers, alarmed, forgotten, fixed>>

Sigalrm ==
  /\ armed
  /\ armed' = FALSE
  /\ alarmed' = TRUE
  /\ CutsWait
  /\ UNCHANGED <<files, workers, interrupted, pending, forgotten, fixed>>

KillMain ==
  /\ Alive
  /\ Dies
  /\ UNCHANGED <<disk, copy, workers, interrupted, alarmed, pending, forgotten, cut,
                 fixed>>

ChildDies ==
  /\ pc["child"] \in Saving \cup {"other"}
  /\ pc' = [pc EXCEPT !["child"] = "zombie"]
  /\ fd' = [fd EXCEPT !["child"] = "closed"]
  /\ UNCHANGED <<disk, copy, workers, signals, fixed>>

(* heatSim is started again, once the processes of the last run are gone. *)
Restart ==
  /\ ~Alive /\ ChildEnded
  /\ runs < MaxRuns
  /\ runs' = runs + 1
  /\ pc' \in Started
  /\ matrix' = "first" /\ it' = MaxIter /\ interrupt' = FALSE
  /\ interrupted' = FALSE /\ alarmed' = FALSE /\ pending' = FALSE /\ forgotten' = FALSE
  /\ UNCHANGED <<period, files, gen, armed, cut>>

Gone == ~Alive /\ ChildEnded /\ runs = MaxRuns /\ UNCHANGED vars

Main == \/ ReadSave \/ SignalsBlock \/ CreateThreads \/ SignalsUnblock \/ Sigaction
        \/ InitSignals \/ Join \/ WaitChild \/ ShowResult \/ TestInterrupted
        \/ DeleteFile
Worker == Iterate \/ LeaveLoop \/ Elect \/ TestAlarm \/ Fork \/ ResetAlarm \/ Swap
Events == Sigint \/ Sigalrm \/ KillMain \/ ChildDies \/ Restart

Next == Main \/ Worker \/ (\E p \in Writers : SafeWrite(p)) \/ Events \/ Gone

Spec == Init /\ [][Next]_vars
FairSpec ==
  Spec /\ WF_vars(Main) /\ WF_vars(Worker) /\ \A p \in Writers : WF_vars(SafeWrite(p))
----------------------------------------------------------------------------
(* Types of all the variables. *)
TypeOK ==
  LET Gens == 0 .. MaxIter * MaxRuns
  IN  /\ period \in BOOLEAN
      /\ pc \in [Processes -> MainLabels \cup WorkerLabels \cup ChildLabels]
      /\ pc["main"] \in MainLabels
      /\ pc["worker"] \in WorkerLabels
      /\ pc["child"] \in ChildLabels
      /\ disk \in [Names -> Gens \cup {NoFile, Partial}]
      /\ fd \in [Writers -> Names \cup {"closed", "removed"}]
      /\ copy \in Gens
      /\ gen \in [Buffers -> Gens] /\ matrix \in Buffers
      /\ it \in 0 .. MaxIter
      /\ {interrupt, interrupted, alarmed, armed, pending, forgotten, cut}
           \subseteq BOOLEAN
      /\ runs \in 1 .. MaxRuns

(* Whoever is killed, and whenever, the save file can be read to its end:
   what a save writes is not seen under that name before it is whole. Unless
   a signal cut short the wait of main for the child. *)
SaveWhole == ~cut => disk["fichS"] # Partial

(* main and the child never have a save under way together. *)
OneWriter == ~cut => ~(pc["main"] \in Saving \cup {"unlink"} /\ pc["child"] \in Saving)

(* No progress is lost: a save is replaced only by one that went at least as
   far, and deleted only by a run whose workers no SIGINT stopped. *)
SaveKept ==
  [][LET old == disk["fichS"]
         new == disk'["fichS"]
     IN  cut \/ new >= old \/ (new = NoFile /\ (~interrupt \/ forgotten))]_vars

(* What main leaves when it ends: interrupted, the matrix the workers reached
   or that of one iteration before; otherwise, nothing to resume. *)
EndsWithSave ==
  pc["main"] = "ended" /\ ~cut =>
    /\ interrupt /\ ~forgotten =>
         \A b \in Buffers : disk["fichS"] >= gen[b] - 1
    /\ ~interrupted => disk["fichS"] = NoFile

(* Periodic saves go on being asked for: from signals_init to the end of the
   workers the alarm is set, or has come and not been dealt with. *)
AlarmSet ==
  period /\ pc["main"] \in {"join", "wait", "print", "test"} => armed \/ alarmed

(* "Have `periodoS' an interval in seconds between saves" (README.md:16),
   "Lancar novo processo salvaguarda" (main.c:106): when an alarm came and no
   save is under way, the elected worker goes on to fork one. *)
SaveLaunched ==
  [][TestAlarm /\ alarmed /\ pc["child"] \notin Saving => pc'["worker"] = "fork"]_vars
=============================================================================
