----------------------------- MODULE FileLocks -----------------------------
(***************************************************************************)
(* The files of the 2014-2015 project (src/proj/2014-2015/src: writer.c,   *)
(* writer_parallel.c, reader.c): the threads of the writer write files of  *)
(* equal lines under an exclusive flock, those of the reader check them    *)
(* under a shared one, and signals turn the writer's locks and its         *)
(* deliberate errors on and off, or stop it.                               *)
(*                                                                         *)
(* A line is the string it repeats, Bad if it has a wrong character, or    *)
(* Unwritten past the end of the file. All the lines of a file have the    *)
(* same length, so a line is written and read in one step.                 *)
(***************************************************************************)
EXTENDS Integers, FiniteSets

CONSTANTS
  Writers, Readers,  \* the threads of the two processes
  Files,             \* the five file names
  Strings,           \* writer_strings
  Lines,             \* LINES_PER_FILE
  Bad, Unwritten,
  MaxReads,          \* bound on the names the readers are given
  MaxSignals         \* bound on SIGUSR1 and SIGUSR2

ASSUME ActorsAssumption == Writers \cap Readers = {}
ASSUME LinesAssumption  == Lines \in Nat \ {0}
ASSUME StringsAssumption ==
  /\ Strings # {} /\ Files # {}
  /\ Bad \notin Strings /\ Unwritten \notin Strings /\ Bad # Unwritten
ASSUME BoundsAssumption == MaxReads \in Nat /\ MaxSignals \in Nat

VARIABLES
  use_locks, enable_writing_errors, stop_writing,
  created,          \* the files that exist
  content,          \* the lines of each file
  holders,          \* who has each file locked: one writer, or some readers
  pc,
  file, line, str,  \* of each thread: the file, the next line, `txt' or
                    \* `first_line_buf'
  locks, errors,    \* the writers called with use_locks, with errors
  reads, signals,   \* how many so far
  lapsed,           \* history: some line was wrong, or written without a lock
  trespassed        \* history: threads into whose turn another wrote unlocked

vars == <<use_locks, enable_writing_errors, stop_writing, created, content, holders,
          pc, file, line, str, locks, errors, reads, signals, lapsed,
          trespassed>>

flags   == <<use_locks, enable_writing_errors, stop_writing>>
disk    == <<created, content>>
args    == <<file, str, locks, errors>>
history == <<lapsed, trespassed>>
Actors  == Writers \cup Readers

Init ==
  /\ use_locks = TRUE /\ enable_writing_errors = FALSE /\ stop_writing = FALSE
  /\ created = {}
  /\ content = [f \in Files |-> [i \in 1 .. Lines |-> Unwritten]]
  /\ holders = [f \in Files |-> {}]
  /\ pc = [a \in Actors |-> IF a \in Writers THEN "loop" ELSE "idle"]
  /\ file \in {[a \in Actors |-> f] : f \in Files}
  /\ line = [a \in Actors |-> 1]
  /\ str = [a \in Actors |-> Unwritten]
  /\ locks = {} /\ errors = {}
  /\ reads = 0 /\ signals = 0
  /\ lapsed = FALSE /\ trespassed = {}

Goto(a, from, to) == pc[a] = from /\ pc' = [pc EXCEPT ![a] = to]

----------------------------------------------------------------------------
(* flock *)

Acquire(a, others) ==
  /\ holders[file[a]] \subseteq others
  /\ holders' = [holders EXCEPT ![file[a]] = @ \cup {a}]

AcquireAmongWriters(a) == Acquire(a, Writers)              \* mutant
AcquireAmongReaders(a) == Acquire(a, Readers)              \* mutant
AcquireExclusive(a) == Acquire(a, {})

----------------------------------------------------------------------------
(* writer_thread and writer *)

AnotherIfLocking == ~stop_writing \/ ~use_locks            \* mutant
Another == ~stop_writing

Return(w) ==
  /\ ~Another
  /\ Goto(w, "loop", "returned")
  /\ UNCHANGED <<flags, disk, holders, line, args, reads, signals, history>>

LocksArgKept(w) == IF use_locks THEN locks ELSE locks \ {w}  \* mutant
LocksArg(w) == IF use_locks THEN locks \cup {w} ELSE locks \ {w}

(* The flags are passed by value; open creates the file but leaves its lines. *)
Call(w) ==
  /\ Another
  /\ locks' = LocksArg(w)
  /\ Goto(w, "loop", IF w \in locks' THEN "flock" ELSE "write")
  /\ \E f \in Files, s \in Strings :
       /\ file' = [file EXCEPT ![w] = f]
       /\ str' = [str EXCEPT ![w] = s]
       /\ created' = created \cup {f}
  /\ errors' = IF enable_writing_errors THEN errors \cup {w} ELSE errors \ {w}
  /\ UNCHANGED <<flags, content, holders, line, reads, signals, history>>

FlockExclusive(w) ==
  /\ Goto(w, "flock", "write")
  /\ AcquireExclusive(w)
  /\ UNCHANGED <<flags, disk, line, args, reads, signals, history>>

(* With errors on, every second line gets one wrong character: no known
   string differs from another in one character only. *)
Text(w, i) == IF w \in errors /\ i % 2 = 0 THEN Bad ELSE str[w]

AtLastButOne(a) == line[a] >= Lines - 1                    \* mutant
AtLast(a)       == line[a] = Lines

Inside == {"write", "first", "compare", "close", "valid", "invalid"}

WriteLine(w) ==
  LET f == file[w]
      t == Text(w, line[w])
      locked == w \in holders[f]
  IN /\ Goto(w, "write", IF AtLast(w) THEN "close" ELSE "write")
     /\ content' = [content EXCEPT ![f][line[w]] = t]
     /\ line' = [line EXCEPT ![w] = IF AtLast(w) THEN 1 ELSE @ + 1]
     /\ lapsed' = (lapsed \/ ~locked \/ t = Bad)
     /\ trespassed' = trespassed \cup
          {a \in Actors \ {w} : ~locked /\ file[a] = f /\ pc[a] \in Inside}
     /\ UNCHANGED <<flags, created, holders, args, reads, signals>>

(* flock and close; the arguments of the call are gone. *)
Leave(a) ==
  /\ holders' = [holders EXCEPT ![file[a]] = @ \ {a}]
  /\ str' = [str EXCEPT ![a] = Unwritten]
  /\ trespassed' = trespassed \ {a}

Close(w) ==
  /\ Goto(w, "close", "loop")
  /\ Leave(w)
  /\ locks' = locks \ {w} /\ errors' = errors \ {w}
  /\ UNCHANGED <<flags, disk, file, line, reads, signals, lapsed>>

Writer(w) == Return(w) \/ Call(w) \/ FlockExclusive(w) \/ WriteLine(w) \/ Close(w)

----------------------------------------------------------------------------
(* reader_ranged over all the lines, and file_contents_are_valid *)

Open(r) ==
  /\ pc[r] = "idle" /\ reads < MaxReads
  /\ reads' = reads + 1
  /\ \E f \in Files :
       /\ file' = [file EXCEPT ![r] = f]
       /\ pc' = [pc EXCEPT ![r] = IF f \in created THEN "flock" ELSE "idle"]
  /\ UNCHANGED <<flags, disk, holders, line, str, locks, errors, signals, history>>

FlockShared(r) ==
  /\ Goto(r, "flock", "first")
  /\ Acquire(r, Readers)
  /\ UNCHANGED <<flags, disk, line, args, reads, signals, history>>

known_writer_string(text) == text \in Strings

(* A first line too short or unknown makes the file invalid. *)
ReadFirst(r) ==
  LET l == content[file[r]][1] IN
  /\ Goto(r, "first", IF known_writer_string(l) THEN "compare" ELSE "invalid")
  /\ str' = [str EXCEPT ![r] = l]
  /\ UNCHANGED <<flags, disk, holders, file, line, locks, errors, reads,
                 signals, history>>

(* lseek to the first line again; each must equal the one read before. *)
Compare(r) ==
  LET same == content[file[r]][line[r]] = str[r] IN
  /\ Goto(r, "compare", IF ~same THEN "invalid"
                        ELSE IF AtLast(r) THEN "valid" ELSE "compare")
  /\ line' = [line EXCEPT ![r] = IF ~same \/ AtLast(r) THEN 1 ELSE @ + 1]
  /\ UNCHANGED <<flags, disk, holders, args, reads, signals, history>>

Unlock(r) ==
  /\ Goto(r, pc[r], "idle") /\ pc[r] \in {"valid", "invalid"}
  /\ Leave(r)
  /\ UNCHANGED <<flags, disk, file, line, locks, errors, reads, signals, lapsed>>

Reader(r) == FlockShared(r) \/ ReadFirst(r) \/ Compare(r) \/ Unlock(r)

----------------------------------------------------------------------------
(* The handlers of the writer. A signal goes to any thread of the process: if
   that one waits in flock, the call ends with EINTR, whatever it returns is
   not looked at, and writer() goes on. *)
Blocked(w) == pc[w] = "flock" /\ holders[file[w]] # {}

Deliver ==
  \/ UNCHANGED pc
  \/ \E w \in Writers : Blocked(w) /\ pc' = [pc EXCEPT ![w] = "write"]

Toggle ==
  /\ signals < MaxSignals /\ signals' = signals + 1
  /\ \/ use_locks' = ~use_locks /\ UNCHANGED enable_writing_errors
     \/ enable_writing_errors' = ~enable_writing_errors /\ UNCHANGED use_locks
  /\ Deliver
  /\ UNCHANGED <<stop_writing, disk, holders, line, args, reads, history>>

Sigtstp ==
  /\ ~stop_writing /\ stop_writing' = TRUE
  /\ Deliver
  /\ UNCHANGED <<use_locks, enable_writing_errors, disk, holders, line, args,
                 reads, signals, history>>

Stopped == (\A w \in Writers : pc[w] = "returned") /\ UNCHANGED vars

Next ==
  \/ \E w \in Writers : Writer(w)
  \/ \E r \in Readers : Open(r) \/ Reader(r)
  \/ Toggle \/ Sigtstp
  \/ Stopped

(* Threads that can run do. Nobody has to type, to signal, or to prefer a
   writer to the readers that share the lock it waits for. *)
Fairness ==
  /\ \A w \in Writers : WF_vars(Writer(w))
  /\ \A r \in Readers : WF_vars(Reader(r))

Spec     == Init /\ [][Next]_vars
FairSpec == Spec /\ Fairness
----------------------------------------------------------------------------
Repeats(f, x) == \A i \in 1 .. Lines : content[f][i] = x

(* Types of all the variables. *)
TypeOK ==
  /\ use_locks \in BOOLEAN /\ enable_writing_errors \in BOOLEAN
  /\ stop_writing \in BOOLEAN
  /\ created \in SUBSET Files
  /\ content \in [Files -> [1 .. Lines -> Strings \cup {Bad, Unwritten}]]
  /\ holders \in [Files -> SUBSET Actors]
  /\ pc \in [Actors -> {"loop", "flock", "write", "close", "returned",
                        "idle", "first", "compare", "valid", "invalid"}]
  /\ file \in [Actors -> Files]
  /\ line \in [Actors -> 1 .. Lines]
  /\ str \in [Actors -> Strings \cup {Bad, Unwritten}]
  /\ locks \in SUBSET Writers /\ errors \in SUBSET Writers
  /\ reads \in 0 .. MaxReads /\ signals \in 0 .. MaxSignals
  /\ lapsed \in BOOLEAN /\ trespassed \in SUBSET Actors

(* What a reader finds is true of the file when it gives the lock back, unless
   a writer without a lock wrote meanwhile: valid if and only if the file is
   one known string, LINES_PER_FILE times. A writer with the lock never comes
   between the first line and the last, however many readers share it. *)
ReaderRight ==
  \A r \in Readers :
    pc[r] \in {"valid", "invalid"} /\ r \notin trespassed =>
      (pc[r] = "valid" <=> \E s \in Strings : Repeats(file[r], s))

(* A writer that got its lock leaves the lines of its own pass and of no other:
   the rest of two passes is never mixed but by a writer without a lock. *)
PassWhole ==
  \A w \in Writers :
    pc[w] = "close" /\ w \in holders[file[w]] /\ w \notin trespassed =>
      \A i \in 1 .. Lines : content[file[w]][i] = Text(w, i)

(* As long as no line was written without a lock or with an error, a file that
   no writer has locked is empty, having been created before its lock was
   taken, or whole: a reader that finds it invalid found it empty. *)
EmptyOrWhole ==
  ~lapsed =>
    \A f \in Files :
      holders[f] \cap Writers = {} =>
        \E x \in Strings \cup {Unwritten} : Repeats(f, x)

(* After the locks are turned on for good, writers that were called without
   them finish, and from some moment every line is written under a lock. *)
LocksReturn ==
  <>[]use_locks => <>[](\A w \in Writers :
                          pc[w] = "write" => w \in holders[file[w]])

(* After SIGTSTP every thread of the writer returns and can be joined: none is
   left waiting for a lock. *)
Stops == stop_writing ~> \A w \in Writers : pc[w] = "returned"

(* writer.h:26: "use_locks use exclusive locks while writing to the file". *)
LockedWrites ==
  \A w \in Writers : pc[w] = "write" /\ w \in locks => w \in holders[file[w]]
============================================================================
