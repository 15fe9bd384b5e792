------------------------------ MODULE MCTests ------------------------------
(* An instance of Tests for TLC. *)
EXTENDS Tests

\* The producer of test_threadsafe_queue, cut to two items, a second one, and
\* a poller.
CONSTANTS rust, vue, python, bye, goodbye
MCInitial == <<python>>
MCItems == [q \in Producers |->
              IF q = "parepare_data" THEN <<rust, bye>> ELSE <<vue, goodbye>>]
MCPolls == [q \in Pollers |-> 1]

\* What the tests pass, with the long loops and lists cut down.
MCChunks   == <<"one", "two", "bye">>
MCMessages == <<"hello", "C++", "concurrency", "last msg">>
MCQueries  == <<"select * from user", "select * from products", "error">>

\* Lists as short as show every case: equal elements, a pivot that is the
\* smallest or the largest, parts of no, one and several elements.
MCLists == {<<2, 1, 2>>, <<3, 1, 2>>, <<1, 2, 3>>, <<2, 3, 1, 2>>, <<>>}

\* One element for two poppers, and a third thread that pushes another one.
MCPushed      == [t3 |-> 6]
MCSafeStack   == <<1>>
MCUnsafeStack == <<1, 2, 3>>

MCLhs  == [t1 |-> "a", t2 |-> "b"]
MCRhs  == [t1 |-> "b", t2 |-> "a"]
MCText == [a |-> "hello", b |-> "std::lock"]
=============================================================================
