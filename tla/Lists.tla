-------------------------------- MODULE Lists --------------------------------
(***************************************************************************)
(* Parts of sequences in order, for the code that loops over the elements  *)
(* of a list or the bits of a set and keeps some of them.                  *)
(***************************************************************************)
EXTENDS Integers, Sequences, FiniteSets

\* The numbers of a finite set, the k-th smallest at k.
Ascending(bits) ==
    [k \in 1 .. Cardinality(bits) |->
        CHOOSE b \in bits : Cardinality({c \in bits : c < b}) = k - 1]

\* The elements of a sequence at these places, in order.
At(s, places) ==
    LET order == Ascending(places) IN [i \in DOMAIN order |-> s[order[i]]]

\* All elements of a sequence of numbers added up, or multiplied.
SumOf(s) ==
    LET sum[i \in 0 .. Len(s)] == IF i = 0 THEN 0 ELSE sum[i - 1] + s[i]
    IN  sum[Len(s)]

ProductOf(s) ==
    LET product[i \in 0 .. Len(s)] == IF i = 0 THEN 1 ELSE product[i - 1] * s[i]
    IN  product[Len(s)]

=============================================================================
