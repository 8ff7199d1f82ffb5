------------------------------ MODULE Monitor ------------------------------
(***************************************************************************)
(* The monitor of the 2014-2015 project (src/proj/2014-2015/src/monitor.c) *)
(* and what it needs of the processes it starts: the writer, whose signal  *)
(* handlers (writer_parallel.c) turn its flags over, and the reader, which *)
(* reads names from a pipe until its end (reader_parallel.c). What the     *)
(* writer does between signals is module FileLocks, what the reader does   *)
(* with a name is module ReaderPool.                                       *)
(*                                                                         *)
(* Names are numbered in the order they are typed, a line feed is 0.       *)
(***************************************************************************)
EXTENDS Integers, Sequences

CONSTANTS
  Threads,     \* of the writer
  Main,        \* the first of them
  PipeSize,    \* what the pipe holds before write() blocks
  MaxInput     \* bound on the commands typed

ASSUME ThreadsAssumption == Main \in Threads
ASSUME SizesAssumption == PipeSize \in Nat \ {0} /\ MaxInput \in Nat

Toggles   == {"SIGUSR1", "SIGUSR2"}
Signals   == Toggles \cup {"SIGTSTP"}
Processes == {"monitor", "writer", "reader"}
LineFeed  == 0

VARIABLES
  pc,         \* of the monitor
  typed,      \* commands read so far
  names,      \* of which this many were names, written to the pipe
  writer,     \* the process: where it is, or how it ended
  reader,
  pipe,       \* what was written and not yet read
  writeEnds,  \* the processes that have the write end of the pipe open
  word,       \* what the reader has of a name, LineFeed if nothing
  received,   \* the names process_file was called with
  installed,  \* the handlers the writer has installed
  pending,    \* signals sent to the writer and not yet taken
  flag,       \* use_locks (SIGUSR1) and enable_writing_errors (SIGUSR2)
  copy,       \* what each handler that is running has read of its flag
  stop_writing,
  odd,        \* history: the signals sent an odd number of times
  overlapped  \* history: signals sent before the last one was dealt with

vars == <<pc, typed, names, writer, reader, pipe, writeEnds, word, received,
          installed, pending, flag, copy, stop_writing, odd, overlapped>>

monitorVars == <<pc, typed, names>>
pipeVars    == <<reader, pipe, word, received>>
signalVars  == <<installed, flag, copy, stop_writing>>
sentVars    == <<pending, odd, overlapped>>

(* The pipe exists from the start, with both ends held by the monitor. *)
Init ==
  /\ pc = "start_writer" /\ typed = 0 /\ names = 0
  /\ writer = "none" /\ reader = "none"
  /\ pipe = <<>> /\ writeEnds = {"monitor"}
  /\ word = LineFeed /\ received = <<>>
  /\ installed = {} /\ pending = {}
  /\ flag = [s \in Toggles |-> s = "SIGUSR1"]
  /\ copy = [t \in Threads |-> [s \in Toggles |-> {}]]
  /\ stop_writing = FALSE
  /\ odd = {} /\ overlapped = {}

Goto(from, to) == pc = from /\ pc' = to
Alive(status)  == status \in {"started", "running"}

----------------------------------------------------------------------------
(* The monitor. *)

(* The writer inherits both ends of the pipe, and keeps them. *)
StartWriter ==
  /\ Goto("start_writer", "sleep")
  /\ writer' = "started"
  /\ writeEnds' = writeEnds \cup {"writer"}
  /\ UNCHANGED <<typed, names, pipeVars, signalVars, sentVars>>

StartReader ==
  /\ Goto("sleep", "read")
  /\ reader' = "started"
  /\ writeEnds' = writeEnds \cup {"reader"}
  /\ UNCHANGED <<typed, names, writer, pipe, word, received, signalVars, sentVars>>

Quiet == {s \in Signals : s \in Toggles => \A t \in Threads : copy[t][s] = {}}

(* kill: a signal already pending stays one; one with no handler takes its
   default action; one to a process that ended does nothing. *)
Kill(s) ==
  /\ odd' = IF s \in odd THEN odd \ {s} ELSE odd \cup {s}
  /\ overlapped' =
       IF s \in pending \/ s \notin Quiet
       THEN overlapped \cup {s} ELSE overlapped
  /\ IF Alive(writer) /\ s \notin installed
     THEN /\ writer' = IF s = "SIGTSTP" THEN "suspended" ELSE "zombie"
          /\ writeEnds' = IF s = "SIGTSTP" THEN writeEnds ELSE writeEnds \ {"writer"}
          /\ UNCHANGED pending
     ELSE /\ pending' = IF Alive(writer) THEN pending \cup {s} ELSE pending
          /\ UNCHANGED <<writer, writeEnds>>

(* "il" and "ie" *)
SendToggle ==
  /\ Goto("read", "read") /\ typed < MaxInput
  /\ typed' = typed + 1
  /\ \E s \in Toggles : Kill(s)
  /\ UNCHANGED <<names, pipeVars, signalVars>>

Write(x) == Len(pipe) < PipeSize /\ pipe' = Append(pipe, x)

WriteName ==
  /\ Goto("read", "line_feed") /\ typed < MaxInput
  /\ Write(names + 1)
  /\ typed' = typed + 1 /\ names' = names + 1
  /\ UNCHANGED <<writer, reader, word, received, writeEnds, signalVars, sentVars>>

WriteNoLineFeed == Goto("line_feed", "read") /\ UNCHANGED <<pipe, typed, names, writer,
  reader, word, received, writeEnds, signalVars, sentVars>>  \* mutant
WriteLineFeed ==
  /\ Goto("line_feed", "read")
  /\ Write(LineFeed)
  /\ UNCHANGED <<typed, names, writer, reader, word, received, writeEnds, signalVars,
                 sentVars>>

(* "sair" or the end of the input *)
Quit ==
  /\ Goto("read", "close")
  /\ UNCHANGED <<typed, names, writer, writeEnds, pipeVars, signalVars, sentVars>>

CloseNothing == UNCHANGED writeEnds                        \* mutant
CloseWriteEnd == writeEnds' = writeEnds \ {"monitor"}

ClosePipe ==
  /\ Goto("close", "kill")
  /\ CloseWriteEnd
  /\ UNCHANGED <<typed, names, writer, pipeVars, signalVars, sentVars>>

KillWriter ==
  /\ Goto("kill", "wait_writer")
  /\ Kill("SIGTSTP")
  /\ UNCHANGED <<typed, names, pipeVars, signalVars>>

WaitWriter ==
  /\ Goto("wait_writer", "wait_reader")
  /\ writer = "zombie" /\ writer' = "reaped"
  /\ UNCHANGED <<typed, names, writeEnds, pipeVars, signalVars, sentVars>>

WaitReader ==
  /\ Goto("wait_reader", "ended")
  /\ reader = "zombie" /\ reader' = "reaped"
  /\ UNCHANGED <<typed, names, writer, writeEnds, pipe, word, received, signalVars,
                 sentVars>>

MonitorStep == StartWriter \/ StartReader \/ WriteLineFeed \/ ClosePipe
               \/ KillWriter \/ WaitWriter \/ WaitReader

----------------------------------------------------------------------------
(* The writer. *)

NextHandler == CASE installed = {} -> "SIGUSR1"
                 [] installed = {"SIGUSR1"} -> "SIGUSR2"
                 [] OTHER -> "SIGTSTP"

InstallHandler ==
  /\ writer = "started"
  /\ installed' = installed \cup {NextHandler}
  /\ writer' = IF installed' = Signals THEN "running" ELSE "started"
  /\ UNCHANGED <<monitorVars, pipeVars, writeEnds, flag, copy, stop_writing, sentVars>>

(* A handler runs in any thread that does not run it already: sa_mask blocks
   the signal there and only there. use_locks = !use_locks reads, then
   writes. *)
EnterHandler(t, s) ==
  /\ writer = "running" \/ (writer = "started" /\ t = Main)
  /\ s \in pending /\ copy[t][s] = {}
  /\ pending' = pending \ {s}
  /\ copy' = [copy EXCEPT ![t][s] = {flag[s]}]
  /\ UNCHANGED <<monitorVars, pipeVars, writer, writeEnds, installed, flag, stop_writing,
                 odd, overlapped>>

Cleared(value) == FALSE                                    \* mutant
Inverted(value) == ~value

LeaveHandler(t, s) ==
  /\ Alive(writer)
  /\ \E value \in copy[t][s] : flag' = [flag EXCEPT ![s] = Inverted(value)]
  /\ copy' = [copy EXCEPT ![t][s] = {}]
  /\ UNCHANGED <<monitorVars, pipeVars, writer, writeEnds, installed, stop_writing,
                 sentVars>>

HandleStop ==
  /\ Alive(writer)
  /\ "SIGTSTP" \in pending /\ pending' = pending \ {"SIGTSTP"}
  /\ stop_writing' = TRUE
  /\ UNCHANGED <<monitorVars, pipeVars, writer, writeEnds, installed, flag, copy, odd,
                 overlapped>>

(* The threads have returned, main has joined them; the pipe is closed. *)
WriterEnds ==
  /\ writer = "running" /\ stop_writing
  /\ Quiet = Signals
  /\ writer' = "zombie"
  /\ writeEnds' = writeEnds \ {"writer"}
  /\ UNCHANGED <<monitorVars, pipeVars, signalVars, sentVars>>

Handler(t) == \E s \in Toggles : EnterHandler(t, s) \/ LeaveHandler(t, s)
Writer     == InstallHandler \/ HandleStop \/ WriterEnds

----------------------------------------------------------------------------
(* The reader. *)

KeepsWriteEnd == UNCHANGED writeEnds                       \* mutant
ClosesWriteEnd == writeEnds' = writeEnds \ {"reader"}

(* run_process in the child: stdin is the read end, and the other is closed. *)
ExecReader ==
  /\ reader = "started" /\ reader' = "running"
  /\ ClosesWriteEnd
  /\ UNCHANGED <<monitorVars, writer, pipe, word, received, signalVars, sentVars>>

(* read_command_from_fd: a name is given to process_file at its line feed. *)
ReadPipe ==
  /\ reader = "running" /\ pipe # <<>>
  /\ pipe' = Tail(pipe)
  /\ word' = Head(pipe)
  /\ received' = IF Head(pipe) = LineFeed /\ word # LineFeed
                 THEN Append(received, word) ELSE received
  /\ UNCHANGED <<monitorVars, writer, reader, writeEnds, signalVars, sentVars>>

(* The end of the file comes when nobody can write any more; the threads get
   their NULLs and are joined. *)
EndOfFile ==
  /\ reader = "running" /\ pipe = <<>> /\ writeEnds = {}
  /\ reader' = "zombie"
  /\ UNCHANGED <<monitorVars, writer, pipe, word, received, writeEnds, signalVars,
                 sentVars>>

Reader == ExecReader \/ ReadPipe \/ EndOfFile

(* Nothing continues a writer that SIGTSTP suspended. *)
Ended ==
  /\ pc = "ended" \/ (pc = "wait_writer" /\ writer = "suspended")
  /\ UNCHANGED vars

Next ==
  \/ MonitorStep \/ SendToggle \/ WriteName \/ Quit
  \/ Writer \/ \E t \in Threads : Handler(t)
  \/ Reader
  \/ Ended

(* Processes and threads that can run do; nobody has to type. The writer ends
   after SIGTSTP: Stops of module FileLocks. *)
Fairness ==
  /\ WF_vars(MonitorStep) /\ WF_vars(Reader)
  /\ WF_vars(InstallHandler) /\ WF_vars(HandleStop) /\ WF_vars(WriterEnds)
  /\ \A t \in Threads : WF_vars(Handler(t))

Spec     == Init /\ [][Next]_vars
FairSpec == Spec /\ Fairness
----------------------------------------------------------------------------
(* Types of all the variables. *)
TypeOK ==
  /\ pc \in {"start_writer", "sleep", "read", "line_feed", "close", "kill",
             "wait_writer", "wait_reader", "ended"}
  /\ typed \in 0 .. MaxInput /\ names \in 0 .. typed
  /\ writer \in {"none", "started", "running", "suspended", "zombie", "reaped"}
  /\ reader \in {"none", "started", "running", "zombie", "reaped"}
  /\ Len(pipe) <= PipeSize /\ pipe \in Seq(0 .. MaxInput)
  /\ writeEnds \in SUBSET Processes
  /\ word \in 0 .. MaxInput /\ received \in Seq(1 .. MaxInput)
  /\ installed \in SUBSET Signals /\ pending \in SUBSET Signals
  /\ flag \in [Toggles -> BOOLEAN]
  /\ copy \in [Threads -> [Toggles -> SUBSET BOOLEAN]]
  /\ stop_writing \in BOOLEAN
  /\ odd \in SUBSET Signals /\ overlapped \in SUBSET Signals

(* Every name typed reaches the readers, once and in order, those still in the
   pipe when the monitor closes its ends too: the reader ends with them all. *)
Numbered(n) == [k \in 1 .. n |-> k]
NamesOf(text) ==
  LET upTo[i \in 0 .. Len(text)] ==
        IF i = 0 THEN <<>>
        ELSE IF text[i] = LineFeed THEN upTo[i - 1]
        ELSE Append(upTo[i - 1], text[i])
  IN  upTo[Len(text)]
NamesReachReader ==
  /\ received \o NamesOf(<<word>> \o pipe) = Numbered(names)
  /\ reader \in {"zombie", "reaped"} => received = Numbered(names)

(* No toggle is lost unless a second signal of the kind was sent before the
   first was dealt with: then two become one, or two handlers read the same
   value of the flag. *)
TogglesCount ==
  \A s \in Toggles :
    Alive(writer) /\ s \in Quiet \ (pending \cup overlapped) =>
      flag[s] = ((s = "SIGUSR1") # (s \in odd))

(* Who cannot go on: the monitor at the user's line, at the full pipe, and while
   it waits for a process that has not ended; the writer's main, its handlers,
   and the reader that waits for a name or for the end of the pipe. *)
MonitorBlocked ==
  \/ pc \in {"read", "ended"}
  \/ pc = "line_feed" /\ Len(pipe) = PipeSize
  \/ pc = "wait_writer" /\ writer # "zombie"
  \/ pc = "wait_reader" /\ reader # "zombie"
WriterBlocked ==
  /\ writer # "started"
  /\ ~(Alive(writer) /\ "SIGTSTP" \in pending)
  /\ ~(writer = "running" /\ stop_writing /\ Quiet = Signals)
HandlerBlocked(t) ==
  \A s \in Toggles :
    /\ (writer = "running" \/ (writer = "started" /\ t = Main)) /\ s \in pending =>
         copy[t][s] # {}
    /\ Alive(writer) => copy[t][s] = {}
ReaderBlocked ==
  /\ reader # "started"
  /\ ~(reader = "running" /\ (pipe # <<>> \/ writeEnds = {}))

(* The three processes never wait for each other in a circle: the monitor at a
   full pipe for the reader, or in exit_monitor for either, the reader for the
   end of a pipe whose write end another, or itself, keeps open. Excepted are
   the wait for the user and that for a writer that SIGTSTP suspended. *)
NeverStuck ==
  \/ pc \in {"read", "ended"} \/ (pc = "wait_writer" /\ writer = "suspended")
  \/ ~MonitorBlocked \/ ~WriterBlocked \/ ~ReaderBlocked
  \/ \E t \in Threads : ~HandlerBlocked(t)

(* After "sair" or the end of the input the monitor ends, with both processes
   waited for, if SIGTSTP did not find the writer without its handler. *)
MonitorEnds == pc = "close" ~> pc = "ended" \/ writer = "suspended"
============================================================================
