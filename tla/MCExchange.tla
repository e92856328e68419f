---------------------------- MODULE MCExchange -----------------------------
(***************************************************************************)
(* The writer and the reader of every accepted expression.                  *)
(***************************************************************************)
EXTENDS RecordExchange, LayoutSamples

Accepted == Compiling(Expressions, Inputs)

=============================================================================
