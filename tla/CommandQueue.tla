---------------------------- MODULE CommandQueue ----------------------------
(***************************************************************************)
(* What the command pipeline of i-banco promises, without semaphores,      *)
(* mutexes, counters or a ring: commands, numbered in the order they are   *)
(* put, wait in a bounded queue, are taken in order, run concurrently, and *)
(* each one ends. A simulation is forked only when nothing waits or runs,  *)
(* so it sees the effects of every command put before it.                  *)
(***************************************************************************)
EXTENDS Naturals, Sequences

CONSTANT Capacity    \* how many commands can wait

VARIABLES put,        \* how many commands have been put
          queue,      \* the ones that wait, oldest first
          running,    \* the ones taken by a worker and not ended
          done,       \* the ones that ended
          forked      \* the ones the latest simulation saw

vars == <<put, queue, running, done, forked>>

Init ==
  /\ put = 0
  /\ queue = <<>>
  /\ running = {}
  /\ done = {}
  /\ forked = {}

Put ==
  /\ Len(queue) < Capacity
  /\ put' = put + 1
  /\ queue' = Append(queue, put + 1)
  /\ UNCHANGED <<running, done, forked>>

Take ==
  /\ queue # <<>>
  /\ running' = running \cup {Head(queue)}
  /\ queue' = Tail(queue)
  /\ UNCHANGED <<put, done, forked>>

End(c) ==
  /\ c \in running
  /\ running' = running \ {c}
  /\ done' = done \cup {c}
  /\ UNCHANGED <<put, queue, forked>>

Fork ==
  /\ queue = <<>>
  /\ running = {}
  /\ forked' = done
  /\ UNCHANGED <<put, queue, running, done>>

EndSome == \E c \in running : End(c)

Next == Put \/ Take \/ EndSome \/ Fork

Spec == Init /\ [][Next]_vars

(* A command that waits is taken and one that runs ends, whatever is put. *)
FairSpec == Spec /\ WF_vars(Take) /\ WF_vars(EndSome)
============================================================================
