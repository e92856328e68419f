------------------------------ MODULE MCPlugin ------------------------------
(***************************************************************************)
(* One generator that says much, two that say nothing, and what no manifest *)
(* may ask for.                                                            *)
(***************************************************************************)
EXTENDS PluginRun

RunOf(valid, most) ==
    [valid |-> valid, pieces |-> [c \in (DOMAIN valid) \X Streams |-> most[c[2]]]]

Silent == [s \in Streams |-> 0]

MCRuns == {RunOf(<<TRUE>>, [s \in Streams |-> IF s = "stderr" THEN 2 ELSE 1])}
          \cup {RunOf(v, Silent) : v \in {<<TRUE, TRUE>>, <<FALSE, TRUE>>, <<FALSE, FALSE>>}}

=============================================================================
