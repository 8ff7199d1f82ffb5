------------------------------ MODULE MCIBank ------------------------------
(* Two workers on a ring of two slots, two commands among a credit and a
   transfer of what it brings, two simulations of at most a year. *)
EXTENDS IBank, TLC

CONSTANTS t1, t2
MCThreads == {t1, t2}

Request(op, src, dest, amount) ==
  [op |-> op, src |-> src, dest |-> dest, amount |-> amount]

MCRequests == {Request("credit", 1, 0, 12), Request("transfer", 1, 2, 7)}
MCYears == {1}
Symmetric == Permutations(MCThreads)
============================================================================
