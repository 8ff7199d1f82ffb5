-------------------------- MODULE FileLocksProofs --------------------------
(***************************************************************************)
(* Proofs about the files of the 2014-2015 project, for any number of      *)
(* writers, readers, files and lines, and of signals: what a lock keeps    *)
(* apart, and what a reader may conclude from a file it has locked.        *)
(***************************************************************************)
EXTENDS FileLocks, TLAPS

WriterLabels == {"loop", "flock", "write", "close", "returned"}
ReaderLabels == {"idle", "flock", "first", "compare", "valid", "invalid"}
Reading      == {"first", "compare", "valid", "invalid"}

(* Each thread is in its own code, and its locals are those of the place. *)
Places ==
  /\ \A w \in Writers : pc[w] \in WriterLabels
  /\ \A r \in Readers : pc[r] \in ReaderLabels
  /\ \A a \in Actors : pc[a] \notin {"write", "compare"} => line[a] = 1
  /\ \A w \in Writers : pc[w] \in {"flock", "write", "close"} => str[w] \in Strings
  /\ \A r \in Readers : pc[r] \in {"compare", "valid"} => str[r] \in Strings

(* Who has a lock has it on the file it works on; a writer has it alone. *)
LocksOK ==
  /\ \A f \in Files, a \in Actors :
       a \in holders[f] => file[a] = f /\ pc[a] \in Inside
  /\ \A r \in Readers : pc[r] \in Reading => r \in holders[file[r]]
  /\ \A f \in Files, w \in Writers, a \in Actors :
       w \in holders[f] /\ a \in holders[f] => a = w

(* What a writer with the lock has written so far is still there. *)
Done(w) == IF pc[w] = "close" THEN 1 .. Lines ELSE 1 .. line[w] - 1
PassSoFar ==
  \A w \in Writers :
    w \in holders[file[w]] /\ w \notin trespassed =>
      \A i \in Done(w) : content[file[w]][i] = Text(w, i)

(* What a reader has compared so far is still what it compared. *)
ReadSoFar ==
  \A r \in Readers :
    r \notin trespassed =>
      /\ pc[r] = "compare" => /\ content[file[r]][1] = str[r]
                              /\ \A i \in 1 .. line[r] - 1 : content[file[r]][i] = str[r]
      /\ pc[r] = "valid" => Repeats(file[r], str[r])
      /\ pc[r] = "invalid" => \A s \in Strings : ~Repeats(file[r], s)

(* Without a lapse nobody trespassed and no line is bad. *)
NoLapse ==
  ~lapsed =>
    /\ trespassed = {}
    /\ \A f \in Files, i \in 1 .. Lines : content[f][i] # Bad

LocksInv ==
  /\ TypeOK /\ Places /\ LocksOK /\ PassSoFar /\ ReadSoFar /\ NoLapse /\ EmptyOrWhole

(* Every step keeps the types. *)
LEMMA TypeStep ==
  TypeOK /\ [Next]_vars => TypeOK'
<1> SUFFICES ASSUME TypeOK, [Next]_vars PROVE TypeOK'
  OBVIOUS
<1> USE DEF TypeOK, Actors
<1>1. ASSUME NEW w \in Writers, Return(w) PROVE TypeOK'
  BY <1>1, LinesAssumption, BoundsAssumption DEF Return, Goto, Another, flags,
    disk, args, history
<1>2. ASSUME NEW w \in Writers, Call(w) PROVE TypeOK'
  BY <1>2, LinesAssumption, BoundsAssumption DEF Call, Goto, Another, LocksArg,
    flags, history
<1>3. ASSUME NEW w \in Writers, FlockExclusive(w) PROVE TypeOK'
  BY <1>3, LinesAssumption, BoundsAssumption DEF FlockExclusive, Goto,
    AcquireExclusive, flags, disk, args, history, Acquire
<1>4. ASSUME NEW w \in Writers, WriteLine(w) PROVE TypeOK'
  BY <1>4, LinesAssumption, BoundsAssumption DEF WriteLine, Goto, Text, AtLast,
    Inside, flags, args
<1>5. ASSUME NEW w \in Writers, Close(w) PROVE TypeOK'
  BY <1>5, LinesAssumption, BoundsAssumption DEF Close, Goto, Leave, flags,
    disk
<1>6. ASSUME NEW r \in Readers, Open(r) PROVE TypeOK'
  BY <1>6, LinesAssumption, BoundsAssumption DEF Open, flags, disk, history
<1>7. ASSUME NEW r \in Readers, FlockShared(r) PROVE TypeOK'
  BY <1>7, LinesAssumption, BoundsAssumption DEF FlockShared, Goto, Acquire,
    flags, disk, args, history
<1>8. ASSUME NEW r \in Readers, ReadFirst(r) PROVE TypeOK'
  BY <1>8, LinesAssumption, BoundsAssumption DEF ReadFirst, Goto,
    known_writer_string, flags, disk, history
<1>9. ASSUME NEW r \in Readers, Compare(r) PROVE TypeOK'
  BY <1>9, LinesAssumption, BoundsAssumption DEF Compare, Goto, AtLast, flags,
    disk, args, history
<1>10. ASSUME NEW r \in Readers, Unlock(r) PROVE TypeOK'
  BY <1>10, LinesAssumption, BoundsAssumption DEF Unlock, Goto, Leave, flags,
    disk
<1>11. ASSUME Toggle PROVE TypeOK'
  <2>1. pc' \in [Actors -> {"loop", "flock", "write", "close", "returned",
                           "idle", "first", "compare", "valid", "invalid"}]
    BY <1>11 DEF Toggle, Deliver, Blocked
  <2>2. signals' \in 0 .. MaxSignals
    BY <1>11, BoundsAssumption DEF Toggle
  <2>3. use_locks' \in BOOLEAN /\ enable_writing_errors' \in BOOLEAN
    BY <1>11 DEF Toggle
  <2> QED
    BY <1>11, <2>1, <2>2, <2>3 DEF Toggle, flags, disk, args, history
<1>12. ASSUME Sigtstp PROVE TypeOK'
  BY <1>12, LinesAssumption, BoundsAssumption DEF Sigtstp, Deliver, disk, args,
    history, Blocked
<1>13. ASSUME Stopped PROVE TypeOK'
  BY <1>13, LinesAssumption, BoundsAssumption DEF Stopped, vars
<1>14. CASE UNCHANGED vars
  BY <1>14, LinesAssumption, BoundsAssumption DEF vars
<1> QED
  BY <1>1, <1>2, <1>3, <1>4, <1>5, <1>6, <1>7, <1>8, <1>9, <1>10, <1>11, <1>12,
    <1>13, <1>14 DEF Next, Writer, Reader

(* Every step keeps each thread in its own code. *)
LEMMA PlacesStep ==
  TypeOK /\ Places /\ [Next]_vars => Places'
<1> SUFFICES ASSUME TypeOK, Places, [Next]_vars PROVE Places'
  OBVIOUS
<1> USE DEF Places, TypeOK, Actors, WriterLabels, ReaderLabels
<1>1. ASSUME NEW w \in Writers, Return(w) PROVE Places'
  BY <1>1, ActorsAssumption DEF Return, Goto, Another, flags, disk, args,
    history
<1>2. ASSUME NEW w \in Writers, Call(w) PROVE Places'
  BY <1>2, ActorsAssumption DEF Call, Goto, Another, LocksArg, flags, history
<1>3. ASSUME NEW w \in Writers, FlockExclusive(w) PROVE Places'
  BY <1>3, ActorsAssumption DEF FlockExclusive, Goto, AcquireExclusive, flags,
    disk, args, history, Acquire
<1>4. ASSUME NEW w \in Writers, WriteLine(w) PROVE Places'
  BY <1>4, ActorsAssumption DEF WriteLine, Goto, Text, AtLast, Inside, flags,
    args
<1>5. ASSUME NEW w \in Writers, Close(w) PROVE Places'
  BY <1>5, ActorsAssumption DEF Close, Goto, Leave, flags, disk
<1>6. ASSUME NEW r \in Readers, Open(r) PROVE Places'
  BY <1>6, ActorsAssumption DEF Open, flags, disk, history
<1>7. ASSUME NEW r \in Readers, FlockShared(r) PROVE Places'
  BY <1>7, ActorsAssumption DEF FlockShared, Goto, Acquire, flags, disk, args,
    history
<1>8. ASSUME NEW r \in Readers, ReadFirst(r) PROVE Places'
  BY <1>8, ActorsAssumption DEF ReadFirst, Goto, known_writer_string, flags,
    disk, history
<1>9. ASSUME NEW r \in Readers, Compare(r) PROVE Places'
  BY <1>9, ActorsAssumption DEF Compare, Goto, AtLast, flags, disk, args,
    history
<1>10. ASSUME NEW r \in Readers, Unlock(r) PROVE Places'
  BY <1>10, ActorsAssumption DEF Unlock, Goto, Leave, flags, disk
<1>11. ASSUME Toggle PROVE Places'
  BY <1>11, ActorsAssumption DEF Toggle, Deliver, disk, args, history, Blocked
<1>12. ASSUME Sigtstp PROVE Places'
  BY <1>12, ActorsAssumption DEF Sigtstp, Deliver, disk, args, history, Blocked
<1>13. ASSUME Stopped PROVE Places'
  BY <1>13, ActorsAssumption DEF Stopped, vars
<1>14. CASE UNCHANGED vars
  BY <1>14, ActorsAssumption DEF vars
<1> QED
  BY <1>1, <1>2, <1>3, <1>4, <1>5, <1>6, <1>7, <1>8, <1>9, <1>10, <1>11, <1>12,
    <1>13, <1>14 DEF Next, Writer, Reader

(* flock gives a lock only to those who may share it. *)
LEMMA LocksStep ==
  TypeOK /\ Places /\ LocksOK /\ [Next]_vars => LocksOK'
<1> SUFFICES ASSUME TypeOK, Places, LocksOK, [Next]_vars PROVE LocksOK'
  OBVIOUS
<1> USE DEF LocksOK, Places, TypeOK, Actors, WriterLabels, ReaderLabels,
  Reading, Inside
<1>1. ASSUME NEW w \in Writers, Return(w) PROVE LocksOK'
  BY <1>1, ActorsAssumption DEF Return, Goto, Another, flags, disk, args,
    history
<1>2. ASSUME NEW w \in Writers, Call(w) PROVE LocksOK'
  BY <1>2, ActorsAssumption DEF Call, Goto, Another, LocksArg, flags, history
<1>3. ASSUME NEW w \in Writers, FlockExclusive(w) PROVE LocksOK'
  BY <1>3, ActorsAssumption DEF FlockExclusive, Goto, AcquireExclusive, flags,
    disk, args, history, Acquire
<1>4. ASSUME NEW w \in Writers, WriteLine(w) PROVE LocksOK'
  BY <1>4, ActorsAssumption DEF WriteLine, Goto, Text, AtLast, flags, args
<1>5. ASSUME NEW w \in Writers, Close(w) PROVE LocksOK'
  BY <1>5, ActorsAssumption DEF Close, Goto, Leave, flags, disk
<1>6. ASSUME NEW r \in Readers, Open(r) PROVE LocksOK'
  BY <1>6, ActorsAssumption DEF Open, flags, disk, history
<1>7. ASSUME NEW r \in Readers, FlockShared(r) PROVE LocksOK'
  BY <1>7, ActorsAssumption DEF FlockShared, Goto, Acquire, flags, disk, args,
    history
<1>8. ASSUME NEW r \in Readers, ReadFirst(r) PROVE LocksOK'
  BY <1>8, ActorsAssumption DEF ReadFirst, Goto, known_writer_string, flags,
    disk, history
<1>9. ASSUME NEW r \in Readers, Compare(r) PROVE LocksOK'
  BY <1>9, ActorsAssumption DEF Compare, Goto, AtLast, flags, disk, args,
    history
<1>10. ASSUME NEW r \in Readers, Unlock(r) PROVE LocksOK'
  BY <1>10, ActorsAssumption DEF Unlock, Goto, Leave, flags, disk
<1>11. ASSUME Toggle PROVE LocksOK'
  BY <1>11, ActorsAssumption DEF Toggle, Deliver, disk, args, history, Blocked
<1>12. ASSUME Sigtstp PROVE LocksOK'
  BY <1>12, ActorsAssumption DEF Sigtstp, Deliver, disk, args, history, Blocked
<1>13. ASSUME Stopped PROVE LocksOK'
  BY <1>13, ActorsAssumption DEF Stopped, vars
<1>14. CASE UNCHANGED vars
  BY <1>14, ActorsAssumption DEF vars
<1> QED
  BY <1>1, <1>2, <1>3, <1>4, <1>5, <1>6, <1>7, <1>8, <1>9, <1>10, <1>11, <1>12,
    <1>13, <1>14 DEF Next, Writer, Reader

(* Nobody but a trespasser changes what the holder of the lock has written. *)
LEMMA PassStep ==
  TypeOK /\ Places /\ LocksOK /\ PassSoFar /\ [Next]_vars => PassSoFar'
<1> SUFFICES ASSUME TypeOK, Places, LocksOK, PassSoFar, [Next]_vars PROVE
  PassSoFar'
  OBVIOUS
<1> USE DEF PassSoFar, Done, Text, LocksOK, Places, TypeOK, Actors,
  WriterLabels, ReaderLabels, Inside
<1>1. ASSUME NEW w \in Writers, Return(w) PROVE PassSoFar'
  BY <1>1, ActorsAssumption, LinesAssumption DEF Return, Goto, Another, flags,
    disk, args, history
<1>2. ASSUME NEW w \in Writers, Call(w) PROVE PassSoFar'
  <2> SUFFICES ASSUME NEW v \in Writers, v \in holders'[file'[v]],
                      v \notin trespassed', NEW i \in Done(v)'
               PROVE  content'[file'[v]][i] = Text(v, i)'
    BY DEF Text, Done
  <2>1. v # w
    BY <1>2 DEF Call, Goto, LocksArg, history
  <2>2. /\ pc'[v] = pc[v] /\ line'[v] = line[v] /\ file'[v] = file[v]
        /\ str'[v] = str[v] /\ (v \in errors' <=> v \in errors)
        /\ content' = content /\ holders' = holders /\ trespassed' = trespassed
    BY <1>2, <2>1 DEF Call, Goto, LocksArg, history
  <2>3. i \in Done(v)
    BY <2>2 DEF Done
  <2>4. Text(v, i)' = Text(v, i)
    BY <2>2 DEF Text
  <2> QED
    BY <2>2, <2>3, <2>4 DEF PassSoFar
<1>3. ASSUME NEW w \in Writers, FlockExclusive(w) PROVE PassSoFar'
  BY <1>3, ActorsAssumption, LinesAssumption DEF FlockExclusive, Goto,
    AcquireExclusive, flags, disk, args, history, Acquire
<1>4. ASSUME NEW w \in Writers, WriteLine(w) PROVE PassSoFar'
  BY <1>4, ActorsAssumption, LinesAssumption DEF WriteLine, Goto, AtLast,
    flags, args
<1>5. ASSUME NEW w \in Writers, Close(w) PROVE PassSoFar'
  BY <1>5, ActorsAssumption, LinesAssumption DEF Close, Goto, Leave, flags,
    disk
<1>6. ASSUME NEW r \in Readers, Open(r) PROVE PassSoFar'
  BY <1>6, ActorsAssumption, LinesAssumption DEF Open, flags, disk, history
<1>7. ASSUME NEW r \in Readers, FlockShared(r) PROVE PassSoFar'
  BY <1>7, ActorsAssumption, LinesAssumption DEF FlockShared, Goto, Acquire,
    flags, disk, args, history
<1>8. ASSUME NEW r \in Readers, ReadFirst(r) PROVE PassSoFar'
  BY <1>8, ActorsAssumption, LinesAssumption DEF ReadFirst, Goto,
    known_writer_string, flags, disk, history
<1>9. ASSUME NEW r \in Readers, Compare(r) PROVE PassSoFar'
  BY <1>9, ActorsAssumption, LinesAssumption DEF Compare, Goto, AtLast, flags,
    disk, args, history
<1>10. ASSUME NEW r \in Readers, Unlock(r) PROVE PassSoFar'
  BY <1>10, ActorsAssumption, LinesAssumption DEF Unlock, Goto, Leave, flags,
    disk
<1>11. ASSUME Toggle PROVE PassSoFar'
  BY <1>11, ActorsAssumption, LinesAssumption DEF Toggle, Deliver, disk, args,
    history, Blocked
<1>12. ASSUME Sigtstp PROVE PassSoFar'
  BY <1>12, ActorsAssumption, LinesAssumption DEF Sigtstp, Deliver, disk, args,
    history, Blocked
<1>13. ASSUME Stopped PROVE PassSoFar'
  BY <1>13, ActorsAssumption, LinesAssumption DEF Stopped, vars
<1>14. CASE UNCHANGED vars
  BY <1>14, ActorsAssumption, LinesAssumption DEF vars
<1> QED
  BY <1>1, <1>2, <1>3, <1>4, <1>5, <1>6, <1>7, <1>8, <1>9, <1>10, <1>11, <1>12,
    <1>13, <1>14 DEF Next, Writer, Reader

(* Nor what a reader with the lock has compared. *)
LEMMA ReadStep ==
  TypeOK /\ Places /\ LocksOK /\ ReadSoFar /\ [Next]_vars => ReadSoFar'
<1> SUFFICES ASSUME TypeOK, Places, LocksOK, ReadSoFar, [Next]_vars PROVE
  ReadSoFar'
  OBVIOUS
<1> USE DEF ReadSoFar, Repeats, LocksOK, Places, TypeOK, Actors, WriterLabels,
  ReaderLabels, Reading, Inside
<1>1. ASSUME NEW w \in Writers, Return(w) PROVE ReadSoFar'
  BY <1>1, ActorsAssumption, LinesAssumption DEF Return, Goto, Another, flags,
    disk, args, history
<1>2. ASSUME NEW w \in Writers, Call(w) PROVE ReadSoFar'
  BY <1>2, ActorsAssumption, LinesAssumption DEF Call, Goto, Another, LocksArg,
    flags, history
<1>3. ASSUME NEW w \in Writers, FlockExclusive(w) PROVE ReadSoFar'
  BY <1>3, ActorsAssumption, LinesAssumption DEF FlockExclusive, Goto,
    AcquireExclusive, flags, disk, args, history, Acquire
<1>4. ASSUME NEW w \in Writers, WriteLine(w) PROVE ReadSoFar'
  BY <1>4, ActorsAssumption, LinesAssumption DEF WriteLine, Goto, Text, AtLast,
    flags, args
<1>5. ASSUME NEW w \in Writers, Close(w) PROVE ReadSoFar'
  BY <1>5, ActorsAssumption, LinesAssumption DEF Close, Goto, Leave, flags,
    disk
<1>6. ASSUME NEW r \in Readers, Open(r) PROVE ReadSoFar'
  BY <1>6, ActorsAssumption, LinesAssumption DEF Open, flags, disk, history
<1>7. ASSUME NEW r \in Readers, FlockShared(r) PROVE ReadSoFar'
  BY <1>7, ActorsAssumption, LinesAssumption DEF FlockShared, Goto, Acquire,
    flags, disk, args, history
<1>8. ASSUME NEW r \in Readers, ReadFirst(r) PROVE ReadSoFar'
  BY <1>8, ActorsAssumption, LinesAssumption DEF ReadFirst, Goto,
    known_writer_string, flags, disk, history
<1>9. ASSUME NEW r \in Readers, Compare(r) PROVE ReadSoFar'
  BY <1>9, ActorsAssumption, LinesAssumption DEF Compare, Goto, AtLast, flags,
    disk, args, history
<1>10. ASSUME NEW r \in Readers, Unlock(r) PROVE ReadSoFar'
  BY <1>10, ActorsAssumption, LinesAssumption DEF Unlock, Goto, Leave, flags,
    disk
<1>11. ASSUME Toggle PROVE ReadSoFar'
  BY <1>11, ActorsAssumption, LinesAssumption DEF Toggle, Deliver, disk, args,
    history, Blocked
<1>12. ASSUME Sigtstp PROVE ReadSoFar'
  BY <1>12, ActorsAssumption, LinesAssumption DEF Sigtstp, Deliver, disk, args,
    history, Blocked
<1>13. ASSUME Stopped PROVE ReadSoFar'
  BY <1>13, ActorsAssumption, LinesAssumption DEF Stopped, vars
<1>14. CASE UNCHANGED vars
  BY <1>14, ActorsAssumption, LinesAssumption DEF vars
<1> QED
  BY <1>1, <1>2, <1>3, <1>4, <1>5, <1>6, <1>7, <1>8, <1>9, <1>10, <1>11, <1>12,
    <1>13, <1>14 DEF Next, Writer, Reader

(* A trespass or a bad line is a lapse. *)
LEMMA LapseStep ==
  TypeOK /\ NoLapse /\ [Next]_vars => NoLapse'
<1> SUFFICES ASSUME TypeOK, NoLapse, [Next]_vars PROVE NoLapse'
  OBVIOUS
<1> USE DEF NoLapse, TypeOK, Actors
<1>1. ASSUME NEW w \in Writers, Return(w) PROVE NoLapse'
  BY <1>1, StringsAssumption DEF Return, Goto, Another, flags, disk, args,
    history
<1>2. ASSUME NEW w \in Writers, Call(w) PROVE NoLapse'
  BY <1>2, StringsAssumption DEF Call, Goto, Another, LocksArg, flags, history
<1>3. ASSUME NEW w \in Writers, FlockExclusive(w) PROVE NoLapse'
  BY <1>3, StringsAssumption DEF FlockExclusive, Goto, AcquireExclusive, flags,
    disk, args, history, Acquire
<1>4. ASSUME NEW w \in Writers, WriteLine(w) PROVE NoLapse'
  BY <1>4, StringsAssumption DEF WriteLine, Goto, Text, AtLast, Inside, flags,
    args
<1>5. ASSUME NEW w \in Writers, Close(w) PROVE NoLapse'
  BY <1>5, StringsAssumption DEF Close, Goto, Leave, flags, disk
<1>6. ASSUME NEW r \in Readers, Open(r) PROVE NoLapse'
  BY <1>6, StringsAssumption DEF Open, flags, disk, history
<1>7. ASSUME NEW r \in Readers, FlockShared(r) PROVE NoLapse'
  BY <1>7, StringsAssumption DEF FlockShared, Goto, Acquire, flags, disk, args,
    history
<1>8. ASSUME NEW r \in Readers, ReadFirst(r) PROVE NoLapse'
  BY <1>8, StringsAssumption DEF ReadFirst, Goto, known_writer_string, flags,
    disk, history
<1>9. ASSUME NEW r \in Readers, Compare(r) PROVE NoLapse'
  BY <1>9, StringsAssumption DEF Compare, Goto, AtLast, flags, disk, args,
    history
<1>10. ASSUME NEW r \in Readers, Unlock(r) PROVE NoLapse'
  BY <1>10, StringsAssumption DEF Unlock, Goto, Leave, flags, disk
<1>11. ASSUME Toggle PROVE NoLapse'
  BY <1>11, StringsAssumption DEF Toggle, Deliver, disk, args, history, Blocked
<1>12. ASSUME Sigtstp PROVE NoLapse'
  BY <1>12, StringsAssumption DEF Sigtstp, Deliver, disk, args, history,
    Blocked
<1>13. ASSUME Stopped PROVE NoLapse'
  BY <1>13, StringsAssumption DEF Stopped, vars
<1>14. CASE UNCHANGED vars
  BY <1>14, StringsAssumption DEF vars
<1> QED
  BY <1>1, <1>2, <1>3, <1>4, <1>5, <1>6, <1>7, <1>8, <1>9, <1>10, <1>11, <1>12,
    <1>13, <1>14 DEF Next, Writer, Reader

(* A step that writes no line and takes a writer's lock from no file leaves
   the files whole that were. *)
LEMMA WholeStays ==
  ASSUME EmptyOrWhole, content' = content, lapsed' = lapsed,
         \A f \in Files : holders[f] \cap Writers \subseteq holders'[f]
  PROVE  EmptyOrWhole'
BY DEF EmptyOrWhole, Repeats

(* A file is left whole. *)
LEMMA WholeStep ==
  TypeOK /\ Places /\ PassSoFar /\ NoLapse /\ EmptyOrWhole /\ [Next]_vars => EmptyOrWhole'
<1> SUFFICES ASSUME TypeOK, Places, PassSoFar, NoLapse, EmptyOrWhole,
  [Next]_vars PROVE EmptyOrWhole'
  OBVIOUS
<1>1. ASSUME NEW w \in Writers, Return(w) PROVE EmptyOrWhole'
  BY <1>1, WholeStays DEF Return, disk, history
<1>2. ASSUME NEW w \in Writers, Call(w) PROVE EmptyOrWhole'
  BY <1>2, WholeStays DEF Call, history
<1>3. ASSUME NEW w \in Writers, FlockExclusive(w) PROVE EmptyOrWhole'
  <2>1. \A f \in Files : holders[f] \cap Writers \subseteq holders'[f]
    BY <1>3 DEF TypeOK, FlockExclusive, AcquireExclusive, Acquire, disk, history
  <2> QED
    BY <1>3, <2>1, WholeStays DEF FlockExclusive, AcquireExclusive, Acquire, disk, history
<1>4. ASSUME NEW w \in Writers, WriteLine(w) PROVE EmptyOrWhole'
  <2> SUFFICES ASSUME ~lapsed', NEW f \in Files, holders'[f] \cap Writers = {}
               PROVE  \E x \in Strings \cup {Unwritten} : Repeats(f, x)'
    BY DEF EmptyOrWhole
  <2>1. ~lapsed /\ w \in holders[file[w]] /\ holders' = holders
    BY <1>4 DEF WriteLine
  <2>2. f # file[w]
    BY <2>1
  <2>3. content'[f] = content[f]
    BY <1>4, <2>2 DEF WriteLine, TypeOK, Actors
  <2> QED
    BY <2>1, <2>3 DEF EmptyOrWhole, Repeats
<1>5. ASSUME NEW w \in Writers, Close(w) PROVE EmptyOrWhole'
  <2> SUFFICES ASSUME ~lapsed', NEW f \in Files, holders'[f] \cap Writers = {}
               PROVE  \E x \in Strings \cup {Unwritten} : Repeats(f, x)'
    BY DEF EmptyOrWhole
  <2>1. ~lapsed /\ content' = content /\ pc[w] = "close"
    BY <1>5 DEF Close, Leave, Goto, disk
  <2>2. CASE holders[f] \cap Writers = {}
    BY <2>1, <2>2 DEF EmptyOrWhole, Repeats
  <2>3. CASE holders[f] \cap Writers # {}
    <3>1. f = file[w] /\ w \in holders[f]
      BY <1>5, <2>3 DEF Close, Leave, TypeOK, Actors
    <3>2. w \notin trespassed /\ \A i \in 1 .. Lines : content[f][i] # Bad
      BY <2>1 DEF NoLapse
    <3>3. \A i \in 1 .. Lines : content[f][i] = Text(w, i)
      BY <2>1, <3>1, <3>2 DEF PassSoFar, Done
    <3>4. Repeats(f, str[w]) /\ str[w] \in Strings
      BY <2>1, <3>2, <3>3 DEF Repeats, Text, Places
    <3> QED
      BY <2>1, <3>4 DEF Repeats
  <2> QED
    BY <2>2, <2>3
<1>6. ASSUME NEW r \in Readers, Open(r) PROVE EmptyOrWhole'
  BY <1>6, WholeStays DEF Open, disk, history
<1>7. ASSUME NEW r \in Readers, FlockShared(r) PROVE EmptyOrWhole'
  <2>1. \A f \in Files : holders[f] \cap Writers \subseteq holders'[f]
    BY <1>7 DEF TypeOK, FlockShared, Acquire, disk, history
  <2> QED
    BY <1>7, <2>1, WholeStays DEF FlockShared, Acquire, disk, history
<1>8. ASSUME NEW r \in Readers, ReadFirst(r) PROVE EmptyOrWhole'
  BY <1>8, WholeStays DEF ReadFirst, disk, history
<1>9. ASSUME NEW r \in Readers, Compare(r) PROVE EmptyOrWhole'
  BY <1>9, WholeStays DEF Compare, disk, history
<1>10. ASSUME NEW r \in Readers, Unlock(r) PROVE EmptyOrWhole'
  <2>1. \A f \in Files : holders[f] \cap Writers \subseteq holders'[f]
    BY <1>10, ActorsAssumption DEF TypeOK, Unlock, Leave
  <2> QED
    BY <1>10, <2>1, WholeStays DEF Unlock, Leave, disk
<1>11. ASSUME Toggle PROVE EmptyOrWhole'
  BY <1>11, WholeStays DEF Toggle, disk, history
<1>12. ASSUME Sigtstp PROVE EmptyOrWhole'
  BY <1>12, WholeStays DEF Sigtstp, disk, history
<1>13. ASSUME Stopped PROVE EmptyOrWhole'
  BY <1>13, WholeStays DEF Stopped, vars
<1>14. CASE UNCHANGED vars
  BY <1>14, WholeStays DEF vars
<1> QED
  BY <1>1, <1>2, <1>3, <1>4, <1>5, <1>6, <1>7, <1>8, <1>9, <1>10, <1>11, <1>12,
    <1>13, <1>14 DEF Next, Writer, Reader

LEMMA InitLocksInv == Init => LocksInv
<1> SUFFICES ASSUME Init PROVE LocksInv
  OBVIOUS
<1>1. TypeOK
  <2>1. content \in [Files -> [1 .. Lines -> Strings \cup {Bad, Unwritten}]]
    BY DEF Init
  <2>2. line \in [Actors -> 1 .. Lines]
    BY LinesAssumption DEF Init
  <2>3. reads \in 0 .. MaxReads /\ signals \in 0 .. MaxSignals
    BY BoundsAssumption DEF Init
  <2>4. file \in [Actors -> Files]
    BY DEF Init
  <2> QED
    BY <2>1, <2>2, <2>3, <2>4 DEF Init, TypeOK, Actors
<1>2. Places
  BY ActorsAssumption DEF Init, Places, Actors, WriterLabels, ReaderLabels
<1>3. LocksOK
  BY ActorsAssumption, <1>1 DEF Init, LocksOK, TypeOK, Actors, Reading
<1>4. PassSoFar
  BY <1>1 DEF Init, PassSoFar, TypeOK, Actors
<1>5. ReadSoFar
  BY ActorsAssumption DEF Init, ReadSoFar, Actors
<1>6. NoLapse
  BY StringsAssumption DEF Init, NoLapse
<1>7. EmptyOrWhole
  BY DEF Init, EmptyOrWhole, Repeats
<1> QED
  BY <1>1, <1>2, <1>3, <1>4, <1>5, <1>6, <1>7 DEF LocksInv

LEMMA LocksInvStep == LocksInv /\ [Next]_vars => LocksInv'
<1> SUFFICES ASSUME LocksInv, [Next]_vars PROVE LocksInv'
  OBVIOUS
<1> QED
  BY TypeStep, PlacesStep, LocksStep, PassStep, ReadStep, LapseStep, WholeStep
  DEF LocksInv

THEOREM Invariance == Spec => []LocksInv
<1>1. Init => LocksInv
  BY InitLocksInv
<1>2. LocksInv /\ [Next]_vars => LocksInv'
  BY LocksInvStep
<1> QED
  BY <1>1, <1>2, PTL DEF Spec

(* The variables keep their types. *)
THEOREM TypesKept == Spec => []TypeOK
<1>1. LocksInv => TypeOK
  BY DEF LocksInv
<1> QED
  BY <1>1, Invariance, PTL

(* What a reader with the lock found is what the file is, unless a writer
   without one came between: reader_ranged may read the first line twice and
   the others one by one, and still speaks of one state of the file. *)
THEOREM ReadersRight == Spec => []ReaderRight
<1>1. LocksInv => ReaderRight
  BY DEF LocksInv, ReadSoFar, ReaderRight, Places, Repeats, TypeOK, Actors
<1> QED
  BY <1>1, Invariance, PTL

(* A writer with the lock leaves its own pass over the file and nobody's
   besides, unless a writer without one came between. *)
THEOREM PassesWhole == Spec => []PassWhole
<1>1. LocksInv => PassWhole
  BY DEF LocksInv, PassSoFar, Done, PassWhole
<1> QED
  BY <1>1, Invariance, PTL

(* Without errors and with locks, a file that no writer has is empty or whole,
   whatever the number of writers that opened it. *)
THEOREM FilesWhole == Spec => []EmptyOrWhole
<1>1. LocksInv => EmptyOrWhole
  BY DEF LocksInv
<1> QED
  BY <1>1, Invariance, PTL

----------------------------------------------------------------------------
(* No deadlock of the locks. *)

(* Who waits for the lock of its file; the others go on, but for a writer that
   has returned and a reader without a name. *)
Waits(a) ==
  pc[a] = "flock" /\ ~(holders[file[a]] \subseteq IF a \in Readers THEN Readers ELSE {})
Rests(a) == pc[a] \in {"returned", "idle"}

(* Who waits for a lock waits for a thread that can go on. *)
WaitsForRunning ==
  \A a \in Actors :
    Waits(a) => \E b \in holders[file[a]] \ {a} : ~Waits(b) /\ ~Rests(b)

(* No thread waits for a lock that a waiting thread has, or that was left behind
   by one that returned: flock is released by every path out of writer and
   reader_ranged, and no thread takes a second one. *)
THEOREM NobodyWaitsForWaiting == Spec => []WaitsForRunning
<1>1. LocksInv => WaitsForRunning
  BY DEF LocksInv, TypeOK, LocksOK, WaitsForRunning, Waits, Rests, Inside
<1> QED
  BY <1>1, Invariance, PTL
=============================================================================
