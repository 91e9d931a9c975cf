---------------------------- MODULE MCController ----------------------------
(***************************************************************************)
(* Values for the constants of Controller: the sets of requests that the   *)
(* runs submit.  A name always carries the same kind of operation, as the  *)
(* bindings name tensors ("allreduce.x", "allgather.x", ...), unless the   *)
(* name of the set says otherwise.                                         *)
(***************************************************************************)
EXTENDS Controller

Req(name, op, dtype, shape) ==
    [name |-> name, op |-> op, dtype |-> dtype, shape |-> shape, root |-> 0]

\* One tensor, always with the same parameters, and a second one.
TwoTensors ==
    {Req("a", "ALLREDUCE", "f32", <<1>>), Req("b", "ALLREDUCE", "f32", <<1>>)}

\* A tensor whose shape may change or differ between ranks, and a second one.
Reshaped == TwoTensors \cup {Req("a", "ALLREDUCE", "f32", <<2>>)}

\* A reduction, and a gather and a broadcast, which are never cached or fused
\* with it; the roots of the broadcast may differ.
Mixed ==
    {Req("a", "ALLREDUCE", "f32", <<1>>),
     Req("g", "ALLGATHER", "f32", <<1, 2>>),
     Req("c", "BROADCAST", "f32", <<1>>),
     [Req("c", "BROADCAST", "f32", <<1>>) EXCEPT !.root = 1]}

=============================================================================
