----------------------------- MODULE MCScaffold -----------------------------
(* Two runs of init: they share a definitions file, name it in a different *)
(* place of their sets, and each has a layout that the other may know as a *)
(* definitions file.                                                       *)
EXTENDS ScaffoldWrite, TLC

CONSTANTS first, second, shared, layoutA, layoutB

Crossed == (first :> <<shared, layoutB, layoutA>>) @@ (second :> <<shared, layoutB>>)

(* What a run killed over the shared definitions file left behind.          *)
Leftover == {<<shared, 1>>}

=============================================================================
