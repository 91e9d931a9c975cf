---------------------------- MODULE MCOptimizer ----------------------------
(***************************************************************************)
(* Values for the constants of Optimizer.                                  *)
(***************************************************************************)
EXTENDS Optimizer, TLC

CONSTANTS a, b

TwoTypes == (a :> "f32") @@ (b :> "f64")

Program(op, half, style, passes, extra) ==
    [op |-> op, half |-> half, style |-> style, passes |-> passes, extra |-> extra]

\* All styles with all reductions, two iterations; more and fewer passes than
\* announced; compression of gradients of different types.
AllPrograms ==
    {Program("Average", FALSE, style, <<1, 1>>, 0) : style \in {"step", "skip", "both", "closure"}}
    \cup {Program("Sum", FALSE, style, <<1, 1>>, 0) : style \in {"skip", "both"}}
    \cup {Program("Adasum", FALSE, style, <<1, 1>>, 0) : style \in {"step", "skip", "closure"}}
    \cup {Program(op, FALSE, "schedule", <<1, 2>>, 0) : op \in {"Average", "Adasum"}}
    \cup {Program(op, FALSE, "step", <<1, 1>>, 1) : op \in {"Average", "Adasum"}}
    \cup {Program("Adasum", FALSE, "step", <<2, 2>>, -1), Program("Average", TRUE, "step", <<1, 1>>, 0)}
=============================================================================
