--------------------------- MODULE MonitorProofs ---------------------------
(***************************************************************************)
(* Proofs about the monitor and the processes it starts, for any number of *)
(* threads of the writer, of commands and for a pipe of any size: the      *)
(* types, that toggles are lost only when two of a kind meet, and that     *)
(* every name reaches the reader.                                          *)
(***************************************************************************)
EXTENDS Monitor, WellFoundedInduction, TLAPS

Busy(s) == s \in pending \/ s \notin Quiet

(* The writer can still take signals. *)
Listening == writer \in {"none", "started", "running"}

(* One signal of a kind at most is on its way, pending or in one handler,
   which read the flag as it is; then the flag is one toggle behind. *)
ToggleOK(s) ==
  /\ s \in pending => s \in Quiet
  /\ \A t, u \in Threads : copy[t][s] # {} /\ copy[u][s] # {} => t = u
  /\ \A t \in Threads : copy[t][s] \in {{}, {flag[s]}}
  /\ flag[s] <=> ((s = "SIGUSR1") <=> (s \in odd <=> Busy(s)))

TogglesOK  == \A s \in Toggles : Listening /\ s \notin overlapped => ToggleOK(s)
Started    == pc = "start_writer" <=> writer = "none"
MonitorInv == TypeOK /\ Started /\ TogglesOK

-----------------------------------------------------------------------------
(* Types. *)

LEMMA TypeStep == TypeOK /\ [Next]_vars => TypeOK'
<1> SUFFICES ASSUME TypeOK, [Next]_vars PROVE TypeOK'
  OBVIOUS
<1> USE DEF TypeOK
<1> DEFINE HandlersTyped == /\ installed' \in SUBSET Signals
                            /\ flag' \in [Toggles -> BOOLEAN]
                            /\ copy' \in [Threads -> [Toggles -> SUBSET BOOLEAN]]
                            /\ stop_writing' \in BOOLEAN
<1>1. ASSUME StartWriter PROVE TypeOK'
  BY <1>1 DEF StartWriter, Goto, Processes, pipeVars, signalVars, sentVars
<1>2. ASSUME StartReader PROVE TypeOK'
  BY <1>2 DEF StartReader, Goto, Processes, signalVars, sentVars
<1>3. ASSUME NEW s \in Signals, Kill(s)
      PROVE  /\ pending' \in SUBSET Signals /\ odd' \in SUBSET Signals
             /\ overlapped' \in SUBSET Signals /\ writeEnds' \in SUBSET Processes
             /\ writer' \in {"none", "started", "running", "suspended", "zombie", "reaped"}
  BY <1>3 DEF Kill
<1>4. ASSUME SendToggle PROVE TypeOK'
  <2>1. PICK s \in Toggles : Kill(s)
    BY <1>4 DEF SendToggle
  <2>2. typed' \in 0 .. MaxInput /\ names' \in 0 .. typed'
    BY <1>4, SizesAssumption DEF SendToggle
  <2> QED
    BY <1>3, <1>4, <2>1, <2>2 DEF SendToggle, Goto, Signals, pipeVars, signalVars
<1>5. ASSUME WriteName PROVE TypeOK'
  <2>1. typed' \in 0 .. MaxInput /\ names' \in 0 .. typed' /\ names + 1 \in 0 .. MaxInput
    BY <1>5, SizesAssumption DEF WriteName
  <2>2. Len(pipe') <= PipeSize /\ pipe' \in Seq(0 .. MaxInput)
    BY <1>5, <2>1, SizesAssumption DEF WriteName, Write
  <2> QED
    BY <1>5, <2>1, <2>2 DEF WriteName, Goto, signalVars, sentVars
<1>6. ASSUME WriteLineFeed PROVE TypeOK'
  <2>1. Len(pipe') <= PipeSize /\ pipe' \in Seq(0 .. MaxInput)
    BY <1>6, SizesAssumption DEF WriteLineFeed, Write, LineFeed
  <2> QED
    BY <1>6, <2>1 DEF WriteLineFeed, Goto, signalVars, sentVars
<1>7. ASSUME Quit PROVE TypeOK'
  BY <1>7 DEF Quit, Goto, pipeVars, signalVars, sentVars
<1>8. ASSUME ClosePipe PROVE TypeOK'
  BY <1>8 DEF ClosePipe, CloseWriteEnd, Goto, pipeVars, signalVars, sentVars
<1>9. ASSUME KillWriter PROVE TypeOK'
  <2>1. Kill("SIGTSTP") /\ "SIGTSTP" \in Signals
    BY <1>9 DEF KillWriter, Signals
  <2> QED
    BY <1>3, <1>9, <2>1 DEF KillWriter, Goto, pipeVars, signalVars
<1>10. ASSUME WaitWriter PROVE TypeOK'
  BY <1>10 DEF WaitWriter, Goto, pipeVars, signalVars, sentVars
<1>11. ASSUME WaitReader PROVE TypeOK'
  BY <1>11 DEF WaitReader, Goto, signalVars, sentVars
<1>12. ASSUME InstallHandler PROVE TypeOK'
  <2>1. NextHandler \in Signals
    BY DEF NextHandler, Signals, Toggles
  <2> QED
    BY <1>12, <2>1 DEF InstallHandler, monitorVars, pipeVars, sentVars
<1>13. ASSUME NEW t \in Threads, NEW s \in Toggles, EnterHandler(t, s) PROVE TypeOK'
  <2>1. copy' \in [Threads -> [Toggles -> SUBSET BOOLEAN]]
    BY <1>13 DEF EnterHandler
  <2> QED
    BY <1>13, <2>1 DEF EnterHandler, monitorVars, pipeVars
<1>14. ASSUME NEW t \in Threads, NEW s \in Toggles, LeaveHandler(t, s) PROVE TypeOK'
  <2>1. copy' \in [Threads -> [Toggles -> SUBSET BOOLEAN]]
    BY <1>14 DEF LeaveHandler
  <2>2. PICK value \in copy[t][s] : flag' = [flag EXCEPT ![s] = ~value]
    BY <1>14 DEF LeaveHandler, Inverted
  <2>3. (~value) \in BOOLEAN
    OBVIOUS
  <2>4. flag' \in [Toggles -> BOOLEAN]
    BY <2>2, <2>3
  <2> QED
    BY <1>14, <2>1, <2>4 DEF LeaveHandler, monitorVars, pipeVars, sentVars
<1>15. ASSUME HandleStop PROVE TypeOK'
  BY <1>15 DEF HandleStop, monitorVars, pipeVars
<1>16. ASSUME WriterEnds PROVE TypeOK'
  BY <1>16 DEF WriterEnds, monitorVars, pipeVars, signalVars, sentVars
<1>17. ASSUME ExecReader PROVE TypeOK'
  BY <1>17 DEF ExecReader, ClosesWriteEnd, monitorVars, signalVars, sentVars
<1>18. ASSUME ReadPipe PROVE TypeOK'
  <2>1. /\ pipe' \in Seq(0 .. MaxInput) /\ Len(pipe') <= PipeSize
        /\ word' \in 0 .. MaxInput
    BY <1>18, SizesAssumption DEF ReadPipe
  <2>2. word # LineFeed => word \in 1 .. MaxInput
    BY SizesAssumption DEF LineFeed
  <2>3. received' \in Seq(1 .. MaxInput)
    <3>1. word # LineFeed => Append(received, word) \in Seq(1 .. MaxInput)
      BY <2>2
    <3> QED
      BY <1>18, <3>1 DEF ReadPipe
  <2> QED
    BY <1>18, <2>1, <2>3 DEF ReadPipe, monitorVars, signalVars, sentVars
<1>19. ASSUME EndOfFile PROVE TypeOK'
  BY <1>19 DEF EndOfFile, monitorVars, signalVars, sentVars
<1>20. CASE UNCHANGED vars
  BY <1>20 DEF vars
<1> QED
  BY <1>1, <1>2, <1>4, <1>5, <1>6, <1>7, <1>8, <1>9, <1>10, <1>11, <1>12, <1>13, <1>14,
     <1>15, <1>16, <1>17, <1>18, <1>19, <1>20
  DEF Next, MonitorStep, Writer, Handler, Reader, Ended

-----------------------------------------------------------------------------
(* Toggles. *)

LEMMA StartedStep == Started /\ [Next]_vars => Started'
BY DEF Started, Next, vars, MonitorStep, Writer, Handler, Reader, Ended, Goto, Kill, Alive,
       StartWriter, StartReader, SendToggle, WriteName, WriteLineFeed, Quit, ClosePipe,
       KillWriter, WaitWriter, WaitReader, InstallHandler, EnterHandler, LeaveHandler,
       HandleStop, WriterEnds, ExecReader, ReadPipe, EndOfFile, monitorVars

(* A step that sends, takes and handles no signal says nothing of toggles. *)
LEMMA TogglesUntouched ==
  ASSUME TogglesOK, Listening' => Listening,
         UNCHANGED <<flag, copy, odd, overlapped>>,
         \A s \in Toggles : s \in pending' <=> s \in pending
  PROVE  TogglesOK'
<1> SUFFICES ASSUME NEW s \in Toggles, Listening', s \notin overlapped'
             PROVE  ToggleOK(s)'
  BY DEF TogglesOK
<1>1. ToggleOK(s)
  BY DEF TogglesOK
<1>2. s \in Quiet' <=> s \in Quiet
  BY DEF Quiet
<1> QED
  BY <1>1, <1>2 DEF ToggleOK, Busy

(* A signal sent when none of the kind is on its way is the only one. *)
LEMMA KillToggles ==
  ASSUME TypeOK, Started, TogglesOK, pc # "start_writer",
         NEW k \in Signals, Kill(k), UNCHANGED <<flag, copy>>
  PROVE  TogglesOK'
<1> SUFFICES ASSUME NEW s \in Toggles, Listening', s \notin overlapped'
             PROVE  ToggleOK(s)'
  BY DEF TogglesOK
<1>1. Alive(writer) /\ k \in installed /\ pending' = pending \cup {k}
  BY DEF Kill, Listening, Started, Alive
<1>2. s \notin overlapped /\ ToggleOK(s)
  BY <1>1 DEF Kill, TogglesOK, Listening, Alive
<1>3. s \in Quiet' <=> s \in Quiet
  BY DEF Quiet
<1>4. CASE s # k
  <2>1. (s \in odd' <=> s \in odd) /\ (s \in pending' <=> s \in pending)
    BY <1>1, <1>4 DEF Kill
  <2> QED
    BY <1>2, <1>3, <2>1 DEF ToggleOK, Busy
<1>5. CASE s = k
  <2>1. ~Busy(s) /\ Busy(s)'
    BY <1>1, <1>5 DEF Kill, Busy
  <2>2. s \in Quiet /\ (s \in odd' <=> s \notin odd)
    BY <1>5, <2>1 DEF Kill, Busy
  <2> QED
    BY <1>2, <1>3, <2>1, <2>2 DEF ToggleOK
<1> QED
  BY <1>4, <1>5

(* Who runs a handler makes the signal unquiet. *)
LEMMA QuietToggle ==
  ASSUME NEW s \in Toggles
  PROVE  s \in Quiet <=> \A t \in Threads : copy[t][s] = {}
BY DEF Quiet, Signals

LEMMA EnterToggles ==
  ASSUME TypeOK, TogglesOK, NEW t \in Threads, NEW k \in Toggles, EnterHandler(t, k)
  PROVE  TogglesOK'
<1> SUFFICES ASSUME NEW s \in Toggles, Listening', s \notin overlapped'
             PROVE  ToggleOK(s)'
  BY DEF TogglesOK
<1>1. /\ k \in pending /\ pending' = pending \ {k}
      /\ copy' = [copy EXCEPT ![t][k] = {flag[k]}]
      /\ UNCHANGED <<flag, odd, overlapped, writer>>
  BY DEF EnterHandler
<1>2. ToggleOK(s)
  BY <1>1 DEF TogglesOK, Listening
<1>3. CASE s # k
  <2>1. \A u \in Threads : copy'[u][s] = copy[u][s]
    BY <1>1, <1>3 DEF TypeOK
  <2>2. s \in Quiet' <=> s \in Quiet
    BY <2>1 DEF Quiet
  <2> QED
    BY <1>1, <1>2, <1>3, <2>1, <2>2 DEF ToggleOK, Busy
<1>4. CASE s = k
  <2>1. \A u \in Threads : copy[u][s] = {}
    BY <1>1, <1>2, <1>4, QuietToggle DEF ToggleOK
  <2>2. \A u \in Threads : copy'[u][s] = IF u = t THEN {flag[s]} ELSE {}
    BY <1>1, <1>4, <2>1 DEF TypeOK
  <2>3. Busy(s) /\ Busy(s)' /\ s \notin pending'
    BY <1>1, <1>4, <2>2, QuietToggle DEF Busy, Quiet
  <2> QED
    BY <1>1, <1>2, <2>2, <2>3 DEF ToggleOK
<1> QED
  BY <1>3, <1>4

LEMMA LeaveToggles ==
  ASSUME TypeOK, TogglesOK, NEW t \in Threads, NEW k \in Toggles, LeaveHandler(t, k)
  PROVE  TogglesOK'
<1> SUFFICES ASSUME NEW s \in Toggles, Listening', s \notin overlapped'
             PROVE  ToggleOK(s)'
  BY DEF TogglesOK
<1>1. /\ copy[t][k] # {} /\ copy' = [copy EXCEPT ![t][k] = {}]
      /\ \E value \in copy[t][k] : flag' = [flag EXCEPT ![k] = ~value]
      /\ UNCHANGED <<pending, odd, overlapped, writer>>
  BY DEF LeaveHandler, Inverted, sentVars
<1>2. ToggleOK(s)
  BY <1>1 DEF TogglesOK, Listening
<1>3. CASE s # k
  <2>1. (\A u \in Threads : copy'[u][s] = copy[u][s]) /\ flag'[s] = flag[s]
    BY <1>1, <1>3 DEF TypeOK
  <2>2. s \in Quiet' <=> s \in Quiet
    BY <2>1 DEF Quiet
  <2> QED
    BY <1>1, <1>2, <1>3, <2>1, <2>2 DEF ToggleOK, Busy
<1>4. CASE s = k
  <2>1. copy[t][s] = {flag[s]} /\ s \notin Quiet /\ s \notin pending
    BY <1>1, <1>2, <1>4, QuietToggle DEF ToggleOK
  <2>2. \A u \in Threads : copy'[u][s] = {}
    BY <1>1, <1>2, <1>4 DEF ToggleOK, TypeOK
  <2>3. flag' = [flag EXCEPT ![s] = ~flag[s]]
    <3>1. PICK value \in copy[t][k] : flag' = [flag EXCEPT ![k] = ~value]
      BY <1>1
    <3>2. value = flag[s]
      BY <1>4, <2>1, <3>1
    <3> QED
      BY <1>4, <3>1, <3>2
  <2>4. flag'[s] <=> ~flag[s]
    BY <2>3 DEF TypeOK
  <2>5. Busy(s) /\ ~Busy(s)' /\ s \in Quiet'
    BY <1>1, <2>1, <2>2, QuietToggle DEF Busy, Quiet, Signals
  <2> QED
    BY <1>1, <1>2, <2>1, <2>2, <2>4, <2>5 DEF ToggleOK
<1> QED
  BY <1>3, <1>4

LEMMA TogglesStep == TypeOK /\ Started /\ TogglesOK /\ [Next]_vars => TogglesOK'
<1> SUFFICES ASSUME TypeOK, Started, TogglesOK, [Next]_vars PROVE TogglesOK'
  OBVIOUS
<1>1. ASSUME SendToggle PROVE TogglesOK'
  BY <1>1, KillToggles DEF SendToggle, Goto, Signals, signalVars
<1>2. ASSUME KillWriter PROVE TogglesOK'
  BY <1>2, KillToggles DEF KillWriter, Goto, Signals, signalVars
<1>3. ASSUME HandleStop PROVE TogglesOK'
  BY <1>3, TogglesUntouched DEF HandleStop, Listening, Toggles
<1>4. ASSUME NEW t \in Threads, NEW s \in Toggles, EnterHandler(t, s) \/ LeaveHandler(t, s)
      PROVE  TogglesOK'
  BY <1>4, EnterToggles, LeaveToggles
<1>5. ASSUME UNCHANGED <<flag, copy, sentVars>>, Listening' => Listening PROVE TogglesOK'
  BY <1>5, TogglesUntouched DEF sentVars
<1>6. CASE StartWriter \/ StartReader \/ WriteName \/ WriteLineFeed \/ Quit \/ ClosePipe
           \/ WaitWriter \/ WaitReader \/ InstallHandler \/ WriterEnds \/ Reader
           \/ UNCHANGED vars
  <2>1. UNCHANGED <<flag, copy, sentVars>>
    BY <1>6 DEF StartWriter, StartReader, WriteName, WriteLineFeed, Quit, ClosePipe,
      WaitWriter, WaitReader, InstallHandler, WriterEnds, Reader, ExecReader, ReadPipe,
      EndOfFile, vars, signalVars, sentVars
  <2>2. Listening' => Listening
    BY <1>6 DEF StartWriter, StartReader, WriteName, WriteLineFeed, Quit, ClosePipe, Goto,
      WaitWriter, WaitReader, InstallHandler, WriterEnds, Reader, ExecReader, ReadPipe,
      EndOfFile, vars, Listening, Started
  <2> QED
    BY <1>5, <2>1, <2>2
<1> QED
  BY <1>1, <1>2, <1>3, <1>4, <1>6 DEF Next, MonitorStep, Writer, Handler, Ended

-----------------------------------------------------------------------------
(* The invariant, and what it says. *)

LEMMA InitMonitorInv == Init => MonitorInv
<1> SUFFICES ASSUME Init PROVE MonitorInv
  OBVIOUS
<1>1. TypeOK
  <2>1. Len(pipe) <= PipeSize /\ pipe \in Seq(0 .. MaxInput) /\ received \in Seq(1 .. MaxInput)
    BY SizesAssumption DEF Init
  <2>2. flag \in [Toggles -> BOOLEAN] /\ copy \in [Threads -> [Toggles -> SUBSET BOOLEAN]]
    BY DEF Init
  <2>3. typed \in 0 .. MaxInput /\ names \in 0 .. typed /\ word \in 0 .. MaxInput
    BY SizesAssumption DEF Init, LineFeed
  <2> QED
    BY <2>1, <2>2, <2>3 DEF Init, TypeOK, Processes
<1>2. Started
  BY DEF Init, Started
<1>3. ASSUME NEW s \in Toggles PROVE ToggleOK(s)
  <2>1. \A t \in Threads : copy[t][s] = {}
    BY DEF Init
  <2>2. s \in Quiet /\ ~Busy(s) /\ s \notin odd
    BY <2>1, QuietToggle DEF Init, Busy
  <2>3. flag[s] <=> s = "SIGUSR1"
    BY DEF Init
  <2> QED
    BY <2>1, <2>2, <2>3 DEF ToggleOK
<1> QED
  BY <1>1, <1>2, <1>3 DEF MonitorInv, TogglesOK

LEMMA Invariance == Spec => []MonitorInv
<1>1. MonitorInv /\ [Next]_vars => MonitorInv'
  BY TypeStep, StartedStep, TogglesStep DEF MonitorInv
<1> QED
  BY InitMonitorInv, <1>1, PTL DEF Spec

(* The types are kept, for any number of commands and a pipe of any size, which
   is never written past what it holds. *)
THEOREM TypesKept == Spec => []TypeOK
BY Invariance, PTL DEF MonitorInv

(* The handlers of the writer lose no toggle of the monitor's "il" and "ie",
   in any number of threads, if no two signals of a kind overlap. *)
THEOREM TogglesNotLost == Spec => []TogglesCount
<1>1. MonitorInv => TogglesCount
  <2> SUFFICES ASSUME TypeOK, TogglesOK, NEW s \in Toggles, Alive(writer),
                      s \in Quiet \ (pending \cup overlapped)
               PROVE  flag[s] = ((s = "SIGUSR1") # (s \in odd))
    BY DEF MonitorInv, TogglesCount
  <2>1. ToggleOK(s) /\ ~Busy(s)
    BY DEF TogglesOK, Listening, Alive, Busy
  <2>2. flag[s] <=> ~((s = "SIGUSR1") <=> s \in odd)
    BY <2>1 DEF ToggleOK
  <2>3. flag[s] \in BOOLEAN
    BY DEF TypeOK
  <2> QED
    BY <2>2, <2>3
<1> QED
  BY <1>1, Invariance, PTL

-----------------------------------------------------------------------------
(* Names. *)

(* A set of naturals that is not empty has a least element: what induction
   rests on in the lemmas below. *)
LEMMA LeastNumber ==
  ASSUME NEW T \in SUBSET Nat, T # {}
  PROVE  \E n \in T : \A m \in T : n <= m
<1>1. PICK n \in T : \A m \in T : <<m, n>> \notin OpToRel(<, Nat)
  BY WFMin, NatLessThanWellFounded, Zenon
<1>2. \A m \in T : ~ (m < n)
  BY <1>1, Zenon DEF OpToRel
<1> QED
  BY <1>2

(* What the j-th write puts in the pipe: a name, then its line feed, and so on;
   how many writes there were, and how many the reader has read. *)
Written(j) == IF j % 2 = 1 THEN j \div 2 + 1 ELSE LineFeed
Puts == IF pc = "line_feed" THEN 2 * names - 1 ELSE 2 * names
Gets == Puts - Len(pipe)

Open == {"start_writer", "sleep", "read", "line_feed", "close"}
PipeInv ==
  /\ Gets \in Nat /\ Puts \in Nat
  /\ \A i \in 1 .. Len(pipe) : pipe[i] = Written(Gets + i)
  /\ word = Written(Gets)
  /\ received = Numbered(Gets \div 2)
  /\ pc \in Open => "monitor" \in writeEnds
  /\ reader \in {"zombie", "reaped"} => pc \notin Open /\ pipe = <<>>

LEMMA Halves ==
  ASSUME NEW n \in Nat
  PROVE  /\ n \div 2 \in Nat /\ (2 * n) \div 2 = n /\ (2 * n) % 2 = 0
         /\ (2 * n + 1) \div 2 = n /\ (2 * n + 1) % 2 = 1
         /\ n % 2 \in {0, 1}
         /\ n % 2 = 1 => (n + 1) % 2 = 0 /\ (n + 1) \div 2 = n \div 2 + 1
         /\ n % 2 = 0 => (n + 1) % 2 = 1 /\ (n + 1) \div 2 = n \div 2
OBVIOUS

LEMMA OneMore ==
  ASSUME NEW h \in Nat, NEW n \in Nat
  PROVE  Append([k \in 1 .. n |-> h + k], h + n + 1) = [k \in 1 .. n + 1 |-> h + k]
OBVIOUS

LEMMA NumberedOneMore ==
  ASSUME NEW n \in Nat
  PROVE  Append(Numbered(n), n + 1) = Numbered(n + 1)
BY DEF Numbered

(* A write that is the next one. *)
LEMMA PipeWrites ==
  ASSUME TypeOK, PipeInv, NEW x, x = Written(Puts + 1), Puts' = Puts + 1, Write(x),
         x \in 0 .. MaxInput,
         pc \in Open, pc' \in Open, UNCHANGED <<word, received, writeEnds, reader>>
  PROVE  PipeInv'
<1>1. pipe \in Seq(0 .. MaxInput) /\ pipe' = Append(pipe, x)
  BY DEF TypeOK, Write
<1>2. Len(pipe') = Len(pipe) + 1 /\ Len(pipe) \in Nat
  BY <1>1
<1>3. Gets' = Gets
  BY <1>2 DEF Gets, PipeInv
<1>4. ASSUME NEW i \in 1 .. Len(pipe') PROVE pipe'[i] = Written(Gets + i)
  <2>1. CASE i = Len(pipe')
    <3>1. Gets + i = Puts + 1
      BY <1>2, <2>1 DEF Gets, PipeInv
    <3> QED
      BY <1>1, <1>2, <2>1, <3>1
  <2>2. CASE i # Len(pipe')
    BY <1>1, <1>2, <2>2 DEF PipeInv
  <2> QED
    BY <2>1, <2>2
<1> QED
  BY <1>3, <1>4 DEF PipeInv

LEMMA PipeStep ==
  ASSUME TypeOK, PipeInv, [Next]_vars
  PROVE  PipeInv'
<1>a. Len(pipe) \in Nat /\ names \in Nat /\ pipe \in Seq(0 .. MaxInput)
  BY SizesAssumption DEF TypeOK
<1>1. ASSUME UNCHANGED <<names, pipe, word, received>>, pc' = "line_feed" <=> pc = "line_feed",
             pc' \in Open => pc \in Open /\ "monitor" \in writeEnds',
             reader' \in {"zombie", "reaped"} => pc' \notin Open /\ pipe = <<>>
      PROVE  PipeInv'
  BY <1>1 DEF PipeInv, Gets, Puts
<1>2. ASSUME NEW s \in Signals, Kill(s), "monitor" \in writeEnds PROVE "monitor" \in writeEnds'
  BY <1>2 DEF Kill
<1>3. CASE WriteName
  <2>1. /\ pc = "read" /\ pc' = "line_feed" /\ names' = names + 1 /\ Write(names + 1)
        /\ UNCHANGED <<word, received, writeEnds, reader>>
        /\ names + 1 \in 0 .. MaxInput
    BY <1>3, SizesAssumption DEF WriteName, Goto, TypeOK
  <2>2. Puts = 2 * names /\ Puts' = Puts + 1
    BY <1>a, <2>1 DEF Puts
  <2>3. Written(Puts + 1) = names + 1
    BY <1>a, <2>2, Halves DEF Written
  <2> QED
    BY <2>1, <2>2, <2>3, PipeWrites DEF Open
<1>4. CASE WriteLineFeed
  <2>1. /\ pc = "line_feed" /\ pc' = "read" /\ names' = names /\ Write(LineFeed)
        /\ UNCHANGED <<word, received, writeEnds, reader>>
        /\ LineFeed \in 0 .. MaxInput
    BY <1>4, SizesAssumption DEF WriteLineFeed, Goto, LineFeed
  <2>2. Puts = 2 * names - 1 /\ Puts' = Puts + 1
    BY <1>a, <2>1 DEF Puts
  <2>3. Written(Puts + 1) = LineFeed
    BY <1>a, <2>2, Halves DEF Written
  <2> QED
    BY <2>1, <2>2, <2>3, PipeWrites DEF Open
<1>5. CASE ReadPipe
  <2>1. /\ reader = "running" /\ pipe # <<>> /\ pipe' = Tail(pipe) /\ word' = Head(pipe)
        /\ received' = IF Head(pipe) = LineFeed /\ word # LineFeed
                       THEN Append(received, word) ELSE received
        /\ UNCHANGED <<pc, names, reader, writeEnds>>
    BY <1>5 DEF ReadPipe, monitorVars
  <2>2. Len(pipe') = Len(pipe) - 1 /\ Len(pipe) > 0 /\ Head(pipe) = pipe[1]
        /\ \A i \in 1 .. Len(pipe') : pipe'[i] = pipe[i + 1]
    BY <1>a, <2>1
  <2>3. Gets \in Nat /\ Puts' = Puts /\ Puts \in Nat /\ Gets' = Gets + 1
    BY <1>a, <2>1, <2>2 DEF PipeInv, Puts, Gets
  <2>4. word = Written(Gets) /\ word' = Written(Gets + 1)
    BY <2>1, <2>2 DEF PipeInv
  <2>5. ASSUME NEW i \in 1 .. Len(pipe') PROVE pipe'[i] = Written(Gets' + i)
    <3>1. i + 1 \in 1 .. Len(pipe) /\ Gets' + i = Gets + (i + 1)
      BY <1>a, <2>2, <2>3
    <3> QED
      BY <2>2, <3>1 DEF PipeInv
  <2>6. received' = Numbered((Gets + 1) \div 2)
    <3>1. received = Numbered(Gets \div 2)
      BY DEF PipeInv
    <3>2. CASE Gets % 2 = 1
      <4>1. /\ word = Gets \div 2 + 1 /\ word' = LineFeed /\ Gets \div 2 \in Nat
            /\ (Gets + 1) \div 2 = Gets \div 2 + 1
        BY <2>3, <2>4, <3>2, Halves DEF Written
      <4>2. word # LineFeed
        BY <4>1 DEF LineFeed
      <4> QED
        BY <2>1, <3>1, <4>1, <4>2, NumberedOneMore
    <3>3. CASE Gets % 2 = 0
      <4>1. /\ word' = (Gets + 1) \div 2 + 1 /\ Gets \div 2 \in Nat
            /\ (Gets + 1) \div 2 = Gets \div 2
        BY <2>3, <2>4, <3>3, Halves DEF Written
      <4>2. word' # LineFeed
        BY <4>1 DEF LineFeed
      <4> QED
        BY <2>1, <3>1, <4>1, <4>2
    <3> QED
      BY <2>3, <3>2, <3>3, Halves
  <2>7. /\ Gets' \in Nat /\ Puts' \in Nat /\ word' = Written(Gets')
        /\ received' = Numbered(Gets' \div 2)
    BY <2>3, <2>4, <2>6
  <2> QED
    BY <2>1, <2>5, <2>7 DEF PipeInv
<1>6. CASE EndOfFile
  <2>1. pc \notin Open
    BY <1>6 DEF EndOfFile, PipeInv
  <2> QED
    BY <1>1, <1>6, <2>1 DEF EndOfFile, monitorVars
<1>7. CASE StartWriter \/ StartReader \/ Quit \/ ClosePipe \/ WaitWriter \/ WaitReader
  BY <1>1, <1>7 DEF StartWriter, StartReader, Quit, ClosePipe, WaitWriter, WaitReader,
    CloseWriteEnd, Goto, pipeVars, Open, PipeInv
<1>8. CASE SendToggle \/ KillWriter
  BY <1>1, <1>2, <1>8 DEF SendToggle, KillWriter, Goto, pipeVars, Open, PipeInv, Signals
<1>9. CASE Writer
  BY <1>1, <1>9 DEF Writer, InstallHandler, HandleStop, WriterEnds, monitorVars, pipeVars, PipeInv
<1>10. ASSUME NEW t \in Threads, NEW s \in Toggles, EnterHandler(t, s) \/ LeaveHandler(t, s)
       PROVE  PipeInv'
  BY <1>1, <1>10 DEF EnterHandler, LeaveHandler, monitorVars, pipeVars, PipeInv
<1>11. CASE ExecReader
  BY <1>1, <1>11 DEF ExecReader, ClosesWriteEnd, monitorVars, PipeInv
<1>12. CASE UNCHANGED vars
  BY <1>1, <1>12 DEF vars, PipeInv
<1> QED
  BY <1>3, <1>4, <1>5, <1>6, <1>7, <1>8, <1>9, <1>10, <1>11, <1>12
  DEF Next, MonitorStep, Handler, Reader, Ended

LEMMA InitPipe == Init => PipeInv
<1> SUFFICES ASSUME Init PROVE PipeInv
  OBVIOUS
<1>1. Puts = 0 /\ Len(pipe) = 0 /\ Gets = 0
  <2>1. names = 0 /\ pc # "line_feed" /\ Len(pipe) = 0
    BY DEF Init
  <2>2. Puts = 0
    BY <2>1 DEF Puts
  <2> QED
    BY <2>1, <2>2 DEF Gets
<1>2. 0 % 2 = 0 /\ 0 \div 2 = 0
  OBVIOUS
<1>3. Numbered(0) = <<>>
  BY DEF Numbered
<1> QED
  BY <1>1, <1>2, <1>3 DEF Init, PipeInv, Written, Open

(* The names in what the pipe holds, in the order of the writes. *)
LEMMA NamesAlternate ==
  ASSUME NEW g \in Nat, NEW text \in Seq(Int),
         \A i \in 1 .. Len(text) : text[i] = Written(g - 1 + i)
  PROVE  NamesOf(text) =
           [k \in 1 .. (g + Len(text)) \div 2 - g \div 2 |-> g \div 2 + k]
<1> DEFINE m == Len(text)
           Names(i) == [k \in 1 .. (g + i) \div 2 - g \div 2 |-> g \div 2 + k]
           Next1(f, i) == IF i = 0 THEN <<>>
                          ELSE IF text[i] = LineFeed THEN f[i - 1]
                          ELSE Append(f[i - 1], text[i])
           IsUpTo(f) == f = [i \in 0 .. m |-> Next1(f, i)]
<1>1. Names(0) = <<>>
  BY Halves
<1>2. ASSUME NEW i \in 1 .. m
      PROVE  Names(i) = IF text[i] = LineFeed THEN Names(i - 1)
                        ELSE Append(Names(i - 1), text[i])
  <2> DEFINE n == g + i - 1
  <2>1. n \in Nat /\ g + i = n + 1 /\ g + (i - 1) = n /\ text[i] = Written(n)
    OBVIOUS
  <2>2. n \div 2 - g \div 2 \in Nat /\ n \div 2 \in Nat /\ g \div 2 \in Nat
    OBVIOUS
  <2>3. CASE n % 2 = 0
    <3>1. text[i] = LineFeed /\ (n + 1) \div 2 = n \div 2
      BY <2>1, <2>3, Halves DEF Written
    <3> QED
      BY <2>1, <3>1
  <2>4. CASE n % 2 = 1
    <3>1. text[i] = n \div 2 + 1 /\ (n + 1) \div 2 = n \div 2 + 1
      BY <2>1, <2>4, Halves DEF Written
    <3>2. text[i] # LineFeed
      BY <2>2, <3>1 DEF LineFeed
    <3> HIDE DEF n
    <3>3. Names(i) = Append(Names(i - 1), n \div 2 + 1)
      <4> DEFINE h == g \div 2
                 p == n \div 2 - g \div 2
      <4>1. h \in Nat /\ p \in Nat /\ n \div 2 = h + p
        BY <2>2
      <4>2. (g + i) \div 2 - h = p + 1 /\ (g + (i - 1)) \div 2 - h = p
        BY <2>1, <3>1, <4>1
      <4> HIDE DEF h, p
      <4>3. Names(i) = [k \in 1 .. p + 1 |-> h + k] /\ Names(i - 1) = [k \in 1 .. p |-> h + k]
        BY <4>2 DEF h
      <4> HIDE DEF Names
      <4> QED
        BY <4>1, <4>3, OneMore
    <3> QED
      BY <3>1, <3>2, <3>3
  <2> QED
    BY <2>1, <2>3, <2>4, Halves
<1> HIDE DEF Names
<1>3. IsUpTo([i \in 0 .. m |-> Names(i)])
  <2> DEFINE f == [i \in 0 .. m |-> Names(i)]
  <2>1. ASSUME NEW i \in 0 .. m PROVE Names(i) = Next1(f, i)
    <3>1. CASE i = 0
      BY <1>1, <3>1
    <3>2. CASE i # 0
      <4>1. i \in 1 .. m /\ i - 1 \in 0 .. m
        BY <3>2
      <4>2. f[i - 1] = Names(i - 1)
        BY <4>1
      <4> QED
        BY <1>2, <3>2, <4>1, <4>2
    <3> QED
      BY <3>1, <3>2
  <2> QED
    BY <2>1
<1>4. PICK f : IsUpTo(f) /\ NamesOf(text) = f[m]
  <2>1. NamesOf(text) = (CHOOSE f : IsUpTo(f))[m]
    BY Zenon DEF NamesOf
  <2> HIDE DEF IsUpTo
  <2> QED
    BY <1>3, <2>1, Zenon
<1>5. \A i \in 0 .. m : f[i] = Names(i)
  <2> DEFINE T == {i \in 0 .. m : f[i] # Names(i)}
  <2> SUFFICES ASSUME T # {} PROVE FALSE
    OBVIOUS
  <2>1. T \in SUBSET Nat
    OBVIOUS
  <2>2. PICK i \in T : \A j \in T : i <= j
    BY <2>1, LeastNumber
  <2>3. i \in 0 .. m /\ f[i] # Names(i) /\ f[i] = Next1(f, i)
    BY <1>4, <2>2
  <2>4. i # 0
    BY <1>1, <2>3
  <2>5. i \in 1 .. m /\ i - 1 \in 0 .. m /\ i - 1 \notin T
    BY <2>2, <2>3, <2>4
  <2>6. f[i - 1] = Names(i - 1)
    BY <2>5
  <2> QED
    BY <1>2, <2>3, <2>4, <2>5, <2>6
<1>6. NamesOf(text) = Names(m)
  BY <1>4, <1>5
<1> QED
  BY <1>6 DEF Names

LEMMA PipeNames == TypeOK /\ PipeInv => NamesReachReader
<1> SUFFICES ASSUME TypeOK, PipeInv PROVE NamesReachReader
  OBVIOUS
<1> DEFINE text == <<word>> \o pipe
<1>1. /\ pipe \in Seq(Int) /\ word \in Int /\ names \in Nat /\ Len(pipe) \in Nat
      /\ Gets \in Nat /\ Puts \in Nat /\ Gets + Len(pipe) = Puts
  BY SizesAssumption DEF TypeOK, PipeInv, Gets
<1>2. text \in Seq(Int) /\ Len(text) = Len(pipe) + 1
  BY <1>1
<1>3. ASSUME NEW i \in 1 .. Len(text) PROVE text[i] = Written(Gets - 1 + i)
  <2>1. CASE i = 1
    BY <1>1, <2>1 DEF PipeInv
  <2>2. CASE i # 1
    <3>1. i - 1 \in 1 .. Len(pipe) /\ text[i] = pipe[i - 1] /\ Gets - 1 + i = Gets + (i - 1)
      BY <1>1, <1>2, <2>2
    <3> QED
      BY <3>1 DEF PipeInv
  <2> QED
    BY <2>1, <2>2
<1>4. (Gets + Len(text)) \div 2 = names
  <2>1. Gets + Len(text) = Puts + 1
    BY <1>1, <1>2
  <2>2. CASE pc = "line_feed"
    BY <1>1, <2>1, <2>2, Halves DEF Puts
  <2>3. CASE pc # "line_feed"
    BY <1>1, <2>1, <2>3, Halves DEF Puts
  <2> QED
    BY <2>2, <2>3
<1> DEFINE h == Gets \div 2
<1>5. h \in Nat /\ h <= names
  BY <1>1, <1>2, <1>4
<1> HIDE DEF text
<1>6. NamesOf(text) = [k \in 1 .. names - h |-> h + k]
  BY <1>1, <1>2, <1>3, <1>4, NamesAlternate
<1>7. received = Numbered(h)
  BY DEF PipeInv
<1> HIDE DEF h
<1>8. received \o NamesOf(text) = Numbered(names)
  <2>1. /\ Numbered(h) \in Seq(Int) /\ Len(Numbered(h)) = h
        /\ [k \in 1 .. names - h |-> h + k] \in Seq(Int)
        /\ Len([k \in 1 .. names - h |-> h + k]) = names - h
    BY <1>1, <1>5 DEF Numbered
  <2> QED
    BY <1>1, <1>5, <1>6, <1>7, <2>1 DEF Numbered
<1>9. ASSUME reader \in {"zombie", "reaped"} PROVE received = Numbered(names)
  <2>1. pc # "line_feed" /\ Len(pipe) = 0
    BY <1>9 DEF PipeInv, Open
  <2>2. Gets = 2 * names
    BY <1>1, <2>1 DEF Gets, Puts
  <2> QED
    BY <1>1, <1>7, <2>2, Halves DEF h
<1> QED
  BY <1>8, <1>9 DEF NamesReachReader, text

(* Every name typed reaches the reader once and in order, whatever the size of
   the pipe, and the reader ends with them all. *)
THEOREM NamesArrive == Spec => []NamesReachReader
BY Invariance, InitPipe, PipeStep, PipeNames, PTL DEF MonitorInv, Spec

----------------------------------------------------------------------------
(* No deadlock of the processes. *)

(* Who may write to the pipe: the writer until it ends, the reader until it has
   closed its end, the monitor as above; what the monitor has waited for; and
   from the SIGTSTP on the writer has it, or has dealt with it. *)
EndsInv ==
  /\ "monitor" \in writeEnds => pc \in Open
  /\ "writer" \in writeEnds => writer \in {"started", "running", "suspended"}
  /\ "reader" \in writeEnds => reader = "started"
  /\ reader = "none" <=> pc \in {"start_writer", "sleep"}
  /\ reader = "reaped" => pc = "ended"
  /\ writer = "reaped" <=> pc \in {"wait_reader", "ended"}
  /\ pc = "wait_writer" /\ Alive(writer) => "SIGTSTP" \in pending \/ stop_writing

(* A signal ends the writer or suspends it, or stays pending. *)
LEMMA KillEnds ==
  ASSUME EndsInv, NEW s \in Signals, Kill(s)
  PROVE  /\ writeEnds' \subseteq writeEnds
         /\ "writer" \in writeEnds' => writer' \in {"started", "running", "suspended"}
         /\ writer' = "reaped" <=> writer = "reaped"
         /\ Alive(writer') => s \in pending' /\ pending \subseteq pending' /\ Alive(writer)
BY DEF EndsInv, Kill, Alive

LEMMA EndsStep == Started /\ EndsInv /\ [Next]_vars => EndsInv'
<1> SUFFICES ASSUME Started, EndsInv, [Next]_vars PROVE EndsInv'
  OBVIOUS
<1> USE DEF Open
<1>1. CASE StartWriter \/ StartReader
  BY <1>1 DEF StartWriter, StartReader, Goto, pipeVars, sentVars, signalVars, EndsInv, Alive,
    Started
<1>2. CASE SendToggle \/ KillWriter
  <2>1. PICK s \in Signals : Kill(s) /\ (pc = "kill" => s = "SIGTSTP")
    BY <1>2 DEF SendToggle, KillWriter, Goto, Signals
  <2>2. /\ UNCHANGED <<reader, stop_writing>>
        /\ \/ pc = "read" /\ pc' = "read"
           \/ pc = "kill" /\ pc' = "wait_writer"
    BY <1>2 DEF SendToggle, KillWriter, Goto, pipeVars, signalVars
  <2>3. /\ writeEnds' \subseteq writeEnds
        /\ "monitor" \in writeEnds' => pc' \in Open
        /\ "reader" \in writeEnds' => reader' = "started"
    BY <2>1, <2>2, KillEnds DEF EndsInv
  <2> QED
    BY <2>1, <2>2, <2>3, KillEnds DEF EndsInv
<1>3. CASE WriteName \/ WriteLineFeed \/ Quit \/ ClosePipe
  BY <1>3 DEF WriteName, WriteLineFeed, Quit, ClosePipe, CloseWriteEnd, Goto, pipeVars,
    sentVars, signalVars, EndsInv, Alive
<1>4. CASE WaitWriter \/ WaitReader
  BY <1>4 DEF WaitWriter, WaitReader, Goto, pipeVars, sentVars, signalVars, EndsInv, Alive
<1>5. CASE Writer
  BY <1>5 DEF Writer, InstallHandler, HandleStop, WriterEnds, monitorVars, pipeVars, sentVars,
    signalVars, EndsInv, Alive
<1>6. ASSUME NEW t \in Threads, Handler(t) PROVE EndsInv'
  BY <1>6 DEF Handler, EnterHandler, LeaveHandler, monitorVars, pipeVars, sentVars, EndsInv,
    Alive, Toggles
<1>7. CASE Reader
  BY <1>7 DEF Reader, ExecReader, ClosesWriteEnd, ReadPipe, EndOfFile, monitorVars, sentVars,
    signalVars, EndsInv, Alive
<1>8. CASE UNCHANGED vars
  BY <1>8 DEF vars, EndsInv, Alive
<1> QED
  BY <1>1, <1>2, <1>3, <1>4, <1>5, <1>6, <1>7, <1>8 DEF Next, MonitorStep, Ended

(* At the full pipe the reader has something to read; main of the writer ends
   after its handlers, and with it and the monitor gone the pipe has an end. *)
LEMMA InvNeverStuck == MonitorInv /\ PipeInv /\ EndsInv => NeverStuck
<1> SUFFICES ASSUME MonitorInv, PipeInv, EndsInv, MonitorBlocked, WriterBlocked, ReaderBlocked,
                    \A t \in Threads : HandlerBlocked(t),
                    pc \notin {"read", "ended"}, ~(pc = "wait_writer" /\ writer = "suspended")
             PROVE  FALSE
  BY DEF NeverStuck
<1>1. TypeOK /\ Started
  BY DEF MonitorInv
<1>2. CASE pc = "line_feed"
  <2>1. pipe # <<>>
    BY <1>2, SizesAssumption DEF MonitorBlocked
  <2>2. reader = "running"
    BY <1>1, <1>2 DEF TypeOK, PipeInv, EndsInv, ReaderBlocked, Open
  <2> QED
    BY <2>1, <2>2 DEF ReaderBlocked
<1>3. CASE pc = "wait_writer"
  <2>1. writer = "running"
    BY <1>1, <1>3 DEF TypeOK, EndsInv, MonitorBlocked, WriterBlocked, Started
  <2>2. stop_writing
    BY <1>3, <2>1 DEF EndsInv, WriterBlocked, Alive
  <2>3. Quiet = Signals
    BY <2>1 DEF HandlerBlocked, Alive, Quiet
  <2> QED
    BY <2>1, <2>2, <2>3 DEF WriterBlocked
<1>4. CASE pc = "wait_reader"
  <2>1. writer = "reaped" /\ reader = "running"
    BY <1>1, <1>4 DEF TypeOK, EndsInv, MonitorBlocked, ReaderBlocked
  <2>2. writeEnds = {}
    BY <1>1, <1>4, <2>1 DEF TypeOK, EndsInv, Open, Processes
  <2> QED
    BY <2>1, <2>2 DEF ReaderBlocked
<1> QED
  BY <1>2, <1>3, <1>4 DEF MonitorBlocked

(* The monitor, the writer and the reader never wait for each other in a circle,
   whatever the size of the pipe, the number of the writer's threads and the
   signals sent: no process keeps open an end of the pipe that another waits to
   see closed, and no SIGTSTP is lost but by suspending the writer. *)
THEOREM MonitorNeverStuck == Spec => []NeverStuck
<1>1. Init => EndsInv
  BY DEF Init, EndsInv, Open, Alive
<1> QED
  BY <1>1, Invariance, InitPipe, PipeStep, EndsStep, InvNeverStuck, PTL DEF MonitorInv, Spec
=============================================================================
