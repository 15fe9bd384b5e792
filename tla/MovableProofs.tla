--------------------------- MODULE MovableProofs ---------------------------
(***************************************************************************)
(* Proofs about Movable, for any objects and addresses.                    *)
(***************************************************************************)
EXTENDS Movable, TLAPS

IInv == TypeOK /\ UniqueOwner

LEMMA InitIInv == ASSUME Init, Unborn \notin Addresses PROVE IInv
BY DEF Init, IInv, TypeOK, UniqueOwner

LEMMA MovedTo ==
  ASSUME IInv, NEW o \in Objects, NEW f_ \in Objects, nullptr \notin Addresses,
         o # f_ \/ ~ Born(o), Born(f_), Moved(o, f_), p[o] \in Addresses => heap' = heap \ {p[o]},
         p[o] \notin Addresses => heap' \in {heap, heap \ {p[o]}}
  PROVE  IInv'
<1>1. o # f_
  BY DEF Born
<1>2. p' \in [Objects -> Addresses \cup {Unborn, nullptr}]
      /\ p'[o] = p[f_] /\ p'[f_] = nullptr /\ \A q \in Objects \ {o, f_} : p'[q] = p[q]
  BY <1>1 DEF Moved, IInv, TypeOK
<1>3. TypeOK'
  BY <1>2 DEF IInv, TypeOK
<1>4. ASSUME NEW q \in Objects, p'[q] \in Addresses PROVE p'[q] \in heap'
  BY <1>1, <1>2, <1>4 DEF IInv, UniqueOwner, TypeOK
<1>5. ASSUME NEW q \in Objects, NEW r \in Objects, p'[q] \in Addresses, p'[q] = p'[r]
      PROVE  q = r
  BY <1>1, <1>2, <1>5 DEF IInv, UniqueOwner
<1>. QED
  BY <1>3, <1>4, <1>5 DEF IInv, UniqueOwner

LEMMA Inductive ==
  ASSUME IInv, [Next]_vars, Unborn \notin Addresses, nullptr \notin Addresses
  PROVE  IInv'
<1>1. CASE UNCHANGED vars
  BY <1>1 DEF vars, IInv, TypeOK, UniqueOwner
<1>2. ASSUME NEW o \in Objects, Construct(o) PROVE IInv'
  <2>. PICK address \in Addresses \ heap :
         ~ Born(o) /\ p' = [p EXCEPT ![o] = address] /\ heap' = heap \cup {address}
    BY <1>2 DEF Construct
  <2>. QED
    BY DEF IInv, TypeOK, UniqueOwner
<1>3. ASSUME NEW o \in Objects, NEW f_ \in Objects, MoveConstruct(o, f_) PROVE IInv'
  BY <1>3, MovedTo DEF MoveConstruct, Born
<1>4. ASSUME NEW o \in Objects, NEW f_ \in Objects, MoveAssign(o, f_) PROVE IInv'
  BY <1>4, MovedTo DEF MoveAssign
<1>5. ASSUME NEW o \in Objects, Destroy(o) PROVE IInv'
  BY <1>5 DEF Destroy, Born, IInv, TypeOK, UniqueOwner
<1>. QED
  BY <1>1, <1>2, <1>3, <1>4, <1>5 DEF Next, MoveSelf

\* Moves never leave an int with two owners, nor an object with the address of
\* an int that an assignment (movable.cc:20) has deleted.
THEOREM OwnersAreUnique ==
  ASSUME Unborn \notin Addresses, nullptr \notin Addresses
  PROVE  Spec => [](TypeOK /\ UniqueOwner)
<1>1. Init => IInv
  BY InitIInv
<1>2. IInv /\ [Next]_vars => IInv'
  BY Inductive
<1>. QED
  BY <1>1, <1>2, PTL DEF Spec, IInv
=============================================================================
