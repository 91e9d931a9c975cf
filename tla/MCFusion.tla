------------------------------ MODULE MCFusion ------------------------------
(***************************************************************************)
(* Evaluates FuseResponses on every sequence of at most MaxLen items: the  *)
(* state is the input, and each step makes it one item longer.             *)
(***************************************************************************)
EXTENDS Fusion, Lists

CONSTANTS
    MaxLen,      \* longest input
    Thresholds,  \* fusion thresholds to try
    MaxBytes     \* largest tensor

ASSUME BoundsAssumption == MaxLen \in Nat /\ Thresholds \subseteq Nat /\ MaxBytes \in Nat

VARIABLES items, threshold

vars == <<items, threshold>>

\* Names number the items, so that an output tells where each tensor went.
Classes == {"ALLREDUCE", "ALLGATHER", "ERROR"} \X {"f32", "f64"}

NewItem(n, class, bytes) ==
    [response |-> [type |-> class[1], names |-> <<n>>, devices |-> {0, 1},
                   sizes |-> IF class[1] = "ALLGATHER" THEN <<bytes>> ELSE <<>>],
     dtype |-> class[2], size |-> bytes, out |-> bytes]

Init == items = <<>> /\ threshold \in Thresholds

Grow ==
    /\ Len(items) < MaxLen
    /\ \E class \in Classes, bytes \in 1..MaxBytes :
           items' = Append(items, NewItem(Len(items) + 1, class, bytes))
    /\ UNCHANGED threshold

Next == Grow

Spec == Init /\ [][Next]_vars

-----------------------------------------------------------------------------
Order(list) == FlattenSeq([i \in DOMAIN list |-> list[i].names])

Total(response) == SumOf([k \in DOMAIN response.names |-> items[response.names[k]].size])

\* Every ready tensor is in exactly one fused response: look-ahead and the
\* pushing back of skipped responses neither lose nor repeat a tensor.
NothingLost ==
    LET order == Order(FuseResponses(items, threshold))
    IN  Len(order) = Len(items) /\ ToSet(order) = 1..Len(items)

\* A fused response fits the fusion buffer and mixes neither operations nor
\* data types; only a tensor that is alone may be larger than the buffer.
FitsTheBuffer ==
    LET list == FuseResponses(items, threshold)
    IN  \A i \in DOMAIN list : Len(list[i].names) > 1 =>
            /\ Total(list[i]) <= threshold
            /\ \A n \in ToSet(list[i].names) :
                  /\ items[n].response.type = list[i].type
                  /\ items[n].dtype = items[list[i].names[1]].dtype

\* Looking ahead past a response never lets a tensor overtake another one of
\* its own class: a response of the head's class that does not fit ends the
\* scan, because its bytes count as skipped.  Fused responses come out in the
\* order of their first tensors, whatever was skipped in between.
NoOvertaking ==
    LET list == FuseResponses(items, threshold)
        order == Order(list)
    IN  /\ \A i, j \in DOMAIN order :
              i < j /\ SameClass(items[order[i]], items[order[j]]) =>
                  order[i] < order[j]
        /\ \A i, j \in DOMAIN list : i < j => list[i].names[1] < list[j].names[1]

=============================================================================
