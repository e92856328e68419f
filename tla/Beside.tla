------------------------------- MODULE Beside -------------------------------
(***************************************************************************)
(* The names of one directory that cpybkc writes through: a place, which   *)
(* is a path somebody asked to be written, and beside it the counted       *)
(* temporary names .<base>.<n>.tmp that createBeside tries in order.       *)
(* internal/emit and internal/scaffold hold a createBeside each, alike     *)
(* but for the mode they create with.                                      *)
(***************************************************************************)
EXTENDS Naturals

CONSTANTS Places,     \* the paths that are written to
          Attempts,   \* how many temporary names are tried: tempAttempts, 64
          Nothing     \* what a name that is not there leads to

(* The name n of a place: the place itself for 0, a temporary beyond it.   *)
Name(p, n) == <<p, n>>

(* The name a place itself has, which every other program reads.           *)
Self(p) == Name(p, 0)

Temporaries == {Name(p, n) : p \in Places, n \in 1..Attempts}

Names == {Self(p) : p \in Places} \cup Temporaries

(* What an os.Remove that succeeds leaves: the name leads nowhere. Nobody   *)
(* looks at the error of one that does not.                                *)
Without(dir, name) == [dir EXCEPT ![name] = Nothing]

=============================================================================
