------------------------------ MODULE Promise ------------------------------
(***************************************************************************)
(* promise.cc: test_promise starts a detached thread for each query, which *)
(* fulfils its promise with an answer or with the exception it caught, and *)
(* then gets the futures one after the other.                              *)
(***************************************************************************)
EXTENDS Naturals, Sequences

CONSTANTS
  Queries,    (* the queries, in the order of the list                     *)
  Error       (* the one for which process_db_query throws                 *)

VARIABLES
  started,    (* how many threads the first loop has started               *)
  shared,     (* shared[q]: the shared state of q's promise                *)
  results     (* what the second loop printed                              *)

vars == <<started, shared, results>>

Calls == 1 .. Len(Queries)
Empty == [kind |-> "empty"]
Value(data)     == [kind |-> "value", data |-> data]
Exception(what) == [kind |-> "exception", data |-> what]

Init ==
  /\ started = 0
  /\ shared = [q \in Calls |-> Empty]
  /\ results = <<>>

\* A pass of the first loop: the future is kept, the promise moves along.
Start ==
  /\ started < Len(Queries)
  /\ started' = started + 1
  /\ UNCHANGED <<shared, results>>

\* process_db_query, and set_value or set_exception.
Answer(q) ==
  IF Queries[q] = Error THEN Exception("DB error occured") ELSE Value(Queries[q])

Fulfil(q) ==
  /\ q <= started
  /\ shared[q] = Empty
  /\ shared' = [shared EXCEPT ![q] = Answer(q)]
  /\ UNCHANGED <<started, results>>

\* Mutant: print the futures that are ready first.
GetReady(q) == q \in Calls /\ shared[q] # Empty /\ \A i \in 1 .. Len(results) : results[i] # shared[q]

\* get blocks until the thread has fulfilled the promise.
Gets(q) == q = Len(results) + 1 /\ q \in Calls /\ shared[q] # Empty

Get(q) ==
  /\ started = Len(Queries)
  /\ Gets(q)
  /\ results' = Append(results, shared[q])
  /\ UNCHANGED <<started, shared>>

Next == Start \/ \E q \in Calls : Fulfil(q) \/ Get(q)

Ended == Len(results) = Len(Queries)

Spec == Init /\ [][Next]_vars /\ WF_vars(Next)
----------------------------------------------------------------------------
(* Properties. *)

\* The answers are printed in the order of the queries, whatever the order
\* in which the threads finish, and an exception comes out where the answer
\* of its query would have.
AnswersInOrder ==
  \A i \in 1 .. Len(results) : results[i] = Answer(i)
=============================================================================
