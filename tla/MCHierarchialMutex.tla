------------------------- MODULE MCHierarchialMutex -------------------------
(* Instances of HierarchialMutex for TLC. *)
EXTENDS HierarchialMutex, TLC

\* The mutexes that are not high are twins: they have one level.
CONSTANT high
MCLevel == [m \in Mutexes |-> IF m = high THEN 2 ELSE 1]

\* Enough for a thread to hold one mutex and wait for the next.
CONSTANT Depth
MCCalls == [t \in Threads |-> Depth]
=============================================================================
