------------------------------- MODULE MCEmit -------------------------------
(* Runs of --emit-ir over one path, the runs interchangeable.              *)
EXTENDS EmitWrite, TLC

Alike == Permutations(Runs)

=============================================================================
