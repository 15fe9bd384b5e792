------------------------------ MODULE Movable ------------------------------
(***************************************************************************)
(* Movable (thread_mgr.h, movable.cc): an object that owns an int on the   *)
(* heap, can be moved and not copied, and has no destructor.  f and g      *)
(* construct one and return it, which is at most a move construction more. *)
(***************************************************************************)
CONSTANTS
  Objects,
  Addresses   (* of the heap                                               *)

Unborn  == "unborn"
nullptr == "nullptr"

VARIABLES
  p,          (* p[o]: the member of o, or Unborn                          *)
  heap        (* the addresses of the ints that new has made               *)

vars == <<p, heap>>

Init == p = [o \in Objects |-> Unborn] /\ heap = {}

Born(o) == p[o] # Unborn

Construct(o) ==
  \E address \in Addresses \ heap :
    /\ ~ Born(o)
    /\ p' = [p EXCEPT ![o] = address]
    /\ heap' = heap \cup {address}

\* Mutant: the moved object keeps its pointer.
Copied(to, from) == p' = [p EXCEPT ![to] = p[from]]

\* p = f_.p, and f_.p = nullptr.
Moved(to, from) == p' = [p EXCEPT ![to] = p[from], ![from] = nullptr]

\* p starts as nullptr, so that there is nothing to delete.
MoveConstruct(o, f_) ==
  /\ ~ Born(o)
  /\ Born(f_)
  /\ Moved(o, f_)
  /\ UNCHANGED heap

MoveAssign(o, f_) ==
  /\ Born(o)
  /\ Born(f_)
  /\ o # f_
  /\ Moved(o, f_)
  /\ heap' = heap \ {p[o]}

\* A move to itself is told from any other by its address.
MoveSelf(o) == Born(o) /\ UNCHANGED vars

\* The end of a scope.
Destroy(o) ==
  /\ Born(o)
  /\ p' = [p EXCEPT ![o] = Unborn]
  /\ UNCHANGED heap

Next ==
  \E o \in Objects :
    \/ Construct(o)
    \/ \E f_ \in Objects : MoveConstruct(o, f_) \/ MoveAssign(o, f_)
    \/ MoveSelf(o)
    \/ Destroy(o)

Spec == Init /\ [][Next]_vars
----------------------------------------------------------------------------
(* Properties. *)

TypeOK ==
  /\ p \in [Objects -> Addresses \cup {Unborn, nullptr}]
  /\ heap \subseteq Addresses

\* However objects are moved about, an int has one owner at most, and no
\* object holds the address of an int that a move has deleted.
UniqueOwner ==
  /\ \A o \in Objects : p[o] \in Addresses => p[o] \in heap
  /\ \A o, q \in Objects : p[o] \in Addresses /\ p[o] = p[q] => o = q
=============================================================================
