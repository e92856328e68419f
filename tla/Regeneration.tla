---------------------------- MODULE Regeneration ----------------------------
(***************************************************************************)
(* What a project is promised of cpybkc: its tree and its record, as they  *)
(* are found between two runs.  A run is one step.  It either regenerates  *)
(* the project, and then what it leaves is a function of the tree, the     *)
(* record and the plan alone, or changes nothing, or is hindered: by what  *)
(* a person put in its way or by the filesystem.  Where a person stood a   *)
(* link on the way to what a run writes or prunes, it is only promised to  *)
(* keep to where its paths lead.                                           *)
(***************************************************************************)
EXTENDS ProjectTree

CONSTANTS
    Plans,        \* what a run may plan: the files, and the directories they need
    HandPath,     \* the paths a person edits
    Unreliable    \* may the filesystem fail, or the run be killed?

VARIABLES tree, listed

vars == <<tree, listed>>

IsFile(n) == n \in {"hand", "gen", "part"}

Init ==
    /\ tree = [p \in Path |-> IF p = Root \/ p \in Ancestors(Root) THEN "dir" ELSE "none"]
    /\ listed = {}

Edit(p, node) ==
    /\ tree[Parent(p)] = "dir"
    /\ tree[p] = "dir" => Empty(tree, p)
    /\ tree' = [tree EXCEPT ![p] = node]
    /\ listed' = IF p = RecordPath THEN {} ELSE listed

-----------------------------------------------------------------------------
Stale(plan) == {f \in listed \ plan.files : IsFile(tree[f])}

(* A directory goes with the stale files it held if they, and directories  *)
(* that go for the same reason, were all it held, and nothing is to be put *)
(* in it.                                                                  *)
Bared(d, plan) ==
    /\ tree[d] = "dir"
    /\ IsBeneath(d, Root)
    /\ d \notin plan.dirs
    /\ \E f \in Stale(plan) : IsBeneath(f, d)
    /\ \A q \in Path : IsBeneath(q, d) /\ tree[q] # "none" =>
          \/ q \in Stale(plan)
          \/ tree[q] = "dir" /\ \E f \in Stale(plan) : IsBeneath(f, q)

Swept(plan) == [p \in Path |-> IF p \in Stale(plan) \/ Bared(p, plan) THEN "none" ELSE tree[p]]

Hindered(plan) ==
    \/ \E f \in listed \ plan.files : \E a \in Ancestors(f) : tree[a] \notin {"none", "dir"}
    \/ \E d \in plan.dirs : Swept(plan)[d] \notin {"none", "dir"}
    \/ \E f \in plan.files \cup {RecordPath} : Swept(plan)[f] = "dir" /\ (f = Root \/ ~Empty(Swept(plan), f))
    \/ \E f \in plan.files \cup plan.dirs : IsBeneath(f, RecordPath)

(* A link stands on the way to something that the record or the plan names. *)
Detoured(plan) == \E p \in listed \cup plan.files \cup plan.dirs : OnTheWay(tree, p) # {}

(* Where the paths of a set lead, through such links.                      *)
LedTo(paths) == {Place(tree, p) : p \in paths}

(* Through a link a run may take away any directory it finds bare, and the *)
(* link itself, but none that it is to put something in.                   *)
BaredByDetour(d, plan) ==
    /\ Detoured(plan)
    /\ tree[d] \in {"dir", "link"}
    /\ \E e \in Path \ plan.dirs :
          /\ d = Place(tree, e)
          /\ IsBeneath(e, Root)
          /\ \E f \in listed \ plan.files : IsBeneath(f, e)

Legible == tree[RecordPath] \in {"none", "gen"}

Regenerate(plan) ==
    /\ Legible
    /\ ~Hindered(plan) /\ ~Detoured(plan)
    /\ tree' = [p \in Path |-> IF p \in plan.files \cup {RecordPath} THEN "gen"
                               ELSE IF p \in plan.dirs THEN "dir"
                               ELSE Swept(plan)[p]]
    /\ listed' = plan.files

(* A hindered run has done some of what it set out to do, wherever that led *)
(* it; only one that the filesystem failed, or a link led elsewhere, can    *)
(* have come to the end and written the record.                             *)
Break(plan) ==
    /\ Legible
    /\ Unreliable \/ Hindered(plan) \/ Detoured(plan)
    /\ \A p \in Path : tree'[p] # tree[p] =>
          \/ p \in LedTo(plan.files) \cup {RecordPath} /\ tree'[p] \in {"none", "gen", "part"}
          \/ p \in LedTo(plan.dirs) /\ tree'[p] = "dir"
          \/ p \in LedTo(listed \ plan.files) /\ IsFile(tree[p]) /\ tree'[p] = "none"
          \/ (Bared(p, plan) \/ BaredByDetour(p, plan)) /\ tree'[p] = "none"
    /\ \/ tree'[RecordPath] = tree[RecordPath] /\ listed' = listed
       \/ tree'[RecordPath] \notin {tree[RecordPath], "gen"} /\ listed' = {}
       \/ /\ Unreliable \/ Detoured(plan)
          /\ tree'[RecordPath] = "gen" /\ listed' = plan.files

Next ==
    \/ \E p \in HandPath, node \in {"none", "dir", "hand", "link", "other"} : Edit(p, node)
    \/ \E plan \in Plans : Regenerate(plan) \/ Break(plan)

Spec == Init /\ [][Next]_vars
=============================================================================
