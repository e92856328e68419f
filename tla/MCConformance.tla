---------------------------- MODULE MCConformance ----------------------------
(* A run over a small corpus, one of whose entries states read axes.        *)
EXTENDS ConformanceRun

LastEntry == {Count}

=============================================================================
