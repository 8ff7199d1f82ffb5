----------------------------- MODULE AtomicBank -----------------------------
(***************************************************************************)
(* What the account operations of i-banco promise to the threads that call *)
(* them: each call takes effect in one step, at some moment between its    *)
(* start and its return, and answers for the state it found then.          *)
(***************************************************************************)
EXTENDS Integers

CONSTANTS Threads, Accounts, Requests, Nothing, Failed

VARIABLES balance,   \* of each account
          call,      \* the request each thread is calling with
          answer     \* what its call will return, Nothing before its effect

vars == <<balance, call, answer>>

Init ==
  /\ balance = [a \in Accounts |-> 0]
  /\ call = [t \in Threads |-> Nothing]
  /\ answer = [t \in Threads |-> Nothing]

Call(t, r) ==
  /\ call[t] = Nothing
  /\ call' = [call EXCEPT ![t] = r]
  /\ UNCHANGED <<balance, answer>>

(* debit: an account never pays more than it has. *)
Debited(r, b) == [b EXCEPT ![r.src] = @ - r.amount]
CanDebit(r, b) == r.src \in Accounts /\ b[r.src] >= r.amount
CanTransfer(r, b) ==
  CanDebit(r, b) /\ r.dest \in Accounts /\ r.dest # r.src

Credited(a, r, b) == [b EXCEPT ![a] = @ + r.amount]

(* The accounts and the answer after request r, when they are b before it. *)
Succeeds(r, b) ==
  CASE r.op = "debit"       -> CanDebit(r, b)
    [] r.op = "transfer"    -> CanTransfer(r, b)
    [] r.op = "credit"      -> r.src \in Accounts
    [] r.op = "get_balance" -> r.src \in Accounts

Effect(r, b) ==
  CASE r.op = "debit"       -> Debited(r, b)
    [] r.op = "transfer"    -> Credited(r.dest, r, Debited(r, b))
    [] r.op = "credit"      -> Credited(r.src, r, b)
    [] r.op = "get_balance" -> b

Value(r, b) == IF r.op = "get_balance" THEN b[r.src] ELSE 0

Perform(t) ==
  /\ call[t] # Nothing /\ answer[t] = Nothing
  /\ IF Succeeds(call[t], balance)
     THEN /\ balance' = Effect(call[t], balance)
          /\ answer' = [answer EXCEPT ![t] = Value(call[t], balance)]
     ELSE /\ answer' = [answer EXCEPT ![t] = Failed]
          /\ UNCHANGED balance
  /\ UNCHANGED call

Return(t) ==
  /\ answer[t] # Nothing
  /\ call' = [call EXCEPT ![t] = Nothing]
  /\ answer' = [answer EXCEPT ![t] = Nothing]
  /\ UNCHANGED balance

Next == \E t \in Threads :
          Perform(t) \/ Return(t) \/ \E r \in Requests : Call(t, r)

Spec == Init /\ [][Next]_vars
============================================================================
