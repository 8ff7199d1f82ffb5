----------------------------- MODULE MCAccounts -----------------------------
(* Three threads and three accounts: transfers around the circle, which would
   deadlock if each locked its source first, a credit and a debit of the same
   account, and the requests the code turns down. *)
EXTENDS Accounts

CONSTANTS t1, t2, t3
MCThreads == {t1, t2, t3}

Request(op, src, dest, amount) ==
  [op |-> op, src |-> src, dest |-> dest, amount |-> amount]

MCRequests ==
  {Request("credit", 1, 0, 3), Request("debit", 1, 0, 2),
   Request("get_balance", 1, 0, 0), Request("transfer", 1, 2, 2),
   Request("transfer", 2, 3, 1), Request("transfer", 3, 1, 1),
   Request("transfer", 1, 1, 1), Request("transfer", 3, 4, 1)}
============================================================================
