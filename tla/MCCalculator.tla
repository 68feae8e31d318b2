----------------------------- MODULE MCCalculator -----------------------------
(* Two sessions over two contexts.  In one scenario they run sessions A and *)
(* B of client.py, all commands; in the other the connection of one breaks  *)
(* once, or one of its requests is repeated, while both calculate.          *)
EXTENDS Calculator, TLC

CONSTANTS a, b

SessionA == <<Command("add", 10), Command("mul", 3), Command("sub", 5), Command("div", 5),
              Command("result", 0)>>
SessionB == <<Command("add", 100), Command("div", 0), Command("bad", 0), Command("bad", 0),
              Command("result", 0), Command("reset", 0), Command("add", 7), Command("mul", 6)>>

\* The accumulators that the comments of client.py give for A and B.
ASSUME SessionsAsCommented ==
    /\ \A i \in 1..5 : Accumulator(SessionA, i) = <<10, 30, 25, 5, 5>>[i]
    /\ \A i \in 1..8 : Accumulator(SessionB, i) = <<100, 100, 100, 100, 100, 0, 7, 42>>[i]

MCScenarios ==
    {[script |-> (a :> SessionA) @@ (b :> SessionB), faults |-> 0],
     [script |-> (a :> <<>>) @@ (b :> <<Command("add", 4)>>), faults |-> 1]}
=============================================================================
