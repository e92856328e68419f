---------------------------- MODULE ProjectTree ----------------------------
(***************************************************************************)
(* The part of a filesystem that internal/generate reads and writes: the   *)
(* project's tree and the directories above it, as a function from paths   *)
(* to what stands there.  A path is the sequence of names that leads to it *)
(* from the top of the filesystem, which is <<>>.                          *)
(***************************************************************************)
EXTENDS Naturals, Sequences, FiniteSets

CONSTANTS
    Name,         \* the names a path is built of
    Path,         \* every path of the instance
    Root,         \* the project's root: Runner.Root, and Runner.Scratch
    RecordName,   \* the name of the record file, cpybkc.gen.json
    LinkTo        \* where a link may stand, and the directory each leads to

Parent(p) == SubSeq(p, 1, Len(p) - 1)

Ancestors(p) == {SubSeq(p, 1, n) : n \in 0 .. Len(p) - 1}

IsBeneath(q, p) == Len(q) > Len(p) /\ SubSeq(q, 1, Len(p)) = p

RecordPath == Append(Root, RecordName)

ASSUME PathAssumption ==
    /\ Path \subseteq Seq(Name)
    /\ IsFiniteSet(Path)
    /\ <<>> \in Path
    /\ \A p \in Path : Ancestors(p) \subseteq Path

ASSUME RootAssumption ==
    /\ Root \in Path
    /\ RecordName \in Name
    /\ RecordPath \in Path

\* The path that p is, of all that lie beneath l, but beneath what l leads to.
Beyond(l, p) == LinkTo[l] \o SubSeq(p, Len(l) + 1, Len(p))

\* No link leads to another or past one, to the project or to what it lies in.
ASSUME LinkAssumption ==
    /\ DOMAIN LinkTo \subseteq Path \ (Ancestors(RecordPath) \cup {RecordPath})
    /\ \A l \in DOMAIN LinkTo :
          /\ LinkTo[l] \in Path \ Ancestors(RecordPath)
          /\ \A k \in DOMAIN LinkTo :
                k # LinkTo[l] /\ ~IsBeneath(k, LinkTo[l]) /\ ~IsBeneath(LinkTo[l], k)
          /\ \A p \in Path : IsBeneath(p, l) => Beyond(l, p) \in Path

-----------------------------------------------------------------------------
(***************************************************************************)
(* What stands at a path.  A regular file is told apart by who wrote it    *)
(* last: a person, the current run, or a run before it, and by whether a   *)
(* run wrote all of it.  "link" is a symbolic link to the directory that   *)
(* LinkTo names, which may not be there; "other" is everything else Lstat  *)
(* reports as neither a directory nor a regular file, a link to itself or  *)
(* to a file among them.                                                   *)
(***************************************************************************)
GeneratedFile == {"old", "new", "oldpart", "newpart"}
File == GeneratedFile \cup {"hand"}
Node == File \cup {"none", "dir", "link", "other"}

\* os.Remove refuses a directory that holds anything.
Empty(t, d) == \A q \in Path : q # <<>> /\ Parent(q) = d => t[q] = "none"

\* Whatever stands anywhere stands in directories only.
WellFormed(t) ==
    /\ \A a \in Ancestors(Root) \cup {<<>>, Root} : t[a] = "dir"
    /\ \A p \in Path : t[p] # "none" => \A a \in Ancestors(p) : t[a] = "dir"
    /\ \A p \in Path : t[p] = "link" => p \in DOMAIN LinkTo

Tree == [Path -> Node]

(* Where a path leads: through a link on the way to it, of which there is  *)
(* at most one, as Lstat, Mkdir, Remove and an exclusive create take it;   *)
(* and through one that stands there itself too, as Stat does.             *)
OnTheWay(t, p) == {l \in Ancestors(p) : t[l] = "link"}
Place(t, p) == IF OnTheWay(t, p) = {} THEN p
               ELSE Beyond(CHOOSE l \in OnTheWay(t, p) : TRUE, p)
Followed(t, p) == IF t[p] = "link" THEN LinkTo[p] ELSE Place(t, p)

\* A new run begins: what the last one wrote is now what an earlier one wrote.
Aged(t) == [p \in Path |-> IF t[p] = "new" THEN "old"
                           ELSE IF t[p] = "newpart" THEN "oldpart" ELSE t[p]]
=============================================================================
