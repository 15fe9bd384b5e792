----------------------------- MODULE QuickSort -----------------------------
(***************************************************************************)
(* quicksort.h: sequential_quick_sort, and parallel_quicksort, which sorts *)
(* its lower part with std::async while it sorts the higher part itself.   *)
(* A call is named by the way that leads to it from the first one.         *)
(***************************************************************************)
EXTENDS Naturals, Sequences, FiniteSets, Functions

CONSTANTS
  Lists,      (* the lists to be sorted                                    *)
  Parallel    (* whether parallel_quicksort sorts them                     *)

VARIABLES
  lst,        (* the list of the test                                      *)
  calls       (* calls[way]: the call's state, and its argument or result  *)

vars == <<lst, calls>>

Lower(way)  == Append(way, "lower")
Higher(way) == Append(way, "higher")

\* A call is "later" until it is made; std::async may put its call off, too.
Call(pc, list) == [pc |-> pc, list |-> list]

Init == lst = <<>> /\ calls = <<>>

Begin(list) ==
  /\ calls = <<>>
  /\ lst' = list
  /\ calls' = [way \in {<<>>} |-> Call("called", list)]

Returned(way) == way \in DOMAIN calls /\ calls[way].pc = "returned"

Empty(way) ==
  /\ calls[way] = Call("called", <<>>)
  /\ calls' = [calls EXCEPT ![way].pc = "returned"]
  /\ UNCHANGED lst

\* std::partition brings the elements less than the pivot to the front, up to
\* divide_point, and leaves either part in any order.
Divides(divide_point, order, input, pivot) ==
  \A i \in DOMAIN input : input[order[i]] < pivot <=> i <= divide_point

\* When the calls for the parts are made: the second one after the first has
\* returned; or at once, and by std::async now or in get.
Made == IF Parallel THEN {<<"called", "called">>, <<"later", "called">>}
                    ELSE {<<"called", "later">>}

\* The pivot spliced out of the input, the partition, the lower part.
Partition(way) ==
  LET pivot == Head(calls[way].list)
      input == Tail(calls[way].list)
  IN  /\ calls[way].pc = "called"
      /\ calls[way].list # <<>>
      /\ \E order \in Bijection(DOMAIN input, DOMAIN input),
            divide_point \in 0 .. Len(input), made \in Made :
           /\ Divides(divide_point, order, input, pivot)
           /\ LET lower_part == [i \in 1 .. divide_point |-> input[order[i]]]
                  rest == [i \in 1 .. Len(input) - divide_point |-> input[order[divide_point + i]]]
              IN  calls' = [w \in DOMAIN calls \cup {Lower(way), Higher(way)} |->
                    CASE w = way         -> Call("parted", <<pivot>>)
                      [] w = Lower(way)  -> Call(made[1], lower_part)
                      [] w = Higher(way) -> Call(made[2], rest)
                      [] OTHER           -> calls[w]]
      /\ UNCHANGED lst

\* The call put off is made when the other one has returned.
Make(way) ==
  \E part \in {<<Lower(way), Higher(way)>>, <<Higher(way), Lower(way)>>} :
    /\ Returned(part[1])
    /\ calls[part[2]].pc = "later"
    /\ calls' = [calls EXCEPT ![part[2]].pc = "called"]
    /\ UNCHANGED lst

\* Mutant: take the lower part without get.
GotHigher(way) == Returned(Higher(way))

\* Both parts are there, the one of std::async when get has returned.
GotParts(way) == Returned(Lower(way)) /\ Returned(Higher(way))

Return(way) ==
  /\ calls[way].pc = "parted"
  /\ GotParts(way)
  /\ calls' = [calls EXCEPT ![way] =
       Call("returned", calls[Lower(way)].list \o @.list \o calls[Higher(way)].list)]
  /\ UNCHANGED lst

Next ==
  \/ \E list \in Lists : Begin(list)
  \/ \E way \in DOMAIN calls : Empty(way) \/ Partition(way) \/ Make(way) \/ Return(way)

Ended == Returned(<<>>)

Spec == Init /\ [][Next]_vars /\ WF_vars(Next)
----------------------------------------------------------------------------
(* Properties. *)

\* What the first call returns is in order and has every element of the list
\* as often as the list has it, whatever order std::partition leaves and
\* whenever the calls of std::async run.
Count(list, t) == Cardinality({i \in DOMAIN list : list[i] = t})

Sorts ==
  Ended =>
    LET result == calls[<<>>].list
    IN  /\ \A i \in 1 .. Len(result) - 1 : result[i] <= result[i + 1]
        /\ \A i \in 1 .. Len(lst) : Count(result, lst[i]) = Count(lst, lst[i])
        /\ Len(result) = Len(lst)

\* The comment on divide_point (quicksort.h:23): it is the first element that
\* is not less than the pivot.  The trace dereferences it, and then the first
\* element of the rest, on the strength of that.
DividePointIsElement ==
  \A way \in DOMAIN calls :
    calls[way].pc = "later" /\ ~ Parallel => calls[way].list # <<>>
=============================================================================
