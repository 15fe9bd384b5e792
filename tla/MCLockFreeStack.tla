-------------------------- MODULE MCLockFreeStack --------------------------
(* Instances of LockFreeStack for TLC. *)
EXTENDS LockFreeStackProofs, TLC

\* One item for each thread, and a second one for those in Busy.
CONSTANT Busy
MCSize == [t \in Pushers \cup Poppers |-> IF t \in Busy THEN 2 ELSE 1]

\* Addresses and payloads are interchangeable.
Symmetry == Permutations(Nodes) \cup Permutations(Values)
=============================================================================
