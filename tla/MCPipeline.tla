------------------------------ MODULE MCPipeline ------------------------------
(* Instances of Pipeline for TLC. *)
EXTENDS Pipeline, TLC

CONSTANTS c1, c2, g1, g2

\* Nothing; two rules of one failure type; two of another, of which the second
\* is less severe, with one of a third type.
Mixed == {{}, {3, 4}, {2, 5, 7}}
Few == {{}, {3, 6}}
Minima == g1 :> 2 @@ g2 :> 4
Minimum == g1 :> 3
=============================================================================
