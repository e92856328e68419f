------------------------------ MODULE Generate ------------------------------
(***************************************************************************)
(* One project over many runs of cpybkc: internal/generate's Runner.Run,   *)
(* from the record it opens with to the record it ends with, together with *)
(* what a person does to the project between two runs.                     *)
(*                                                                         *)
(* The generators are the positions of the manifest, since the scratch     *)
(* directories are.  What a generator leaves in its scratch directory is a *)
(* sequence of entries in the order filepath.WalkDir hands them over, each *)
(* a path relative to the scratch directory and a kind.                    *)
(***************************************************************************)
EXTENDS ProjectTree

CONSTANTS
    Manifest,     \* the manifests a run may find: sequences of output directories
    Leaving,      \* what a generator that exits zero may leave behind
    HandPath,     \* the paths a person edits between runs
    Faults,       \* the stages at which the filesystem may refuse an operation
    Kills         \* may the process die in the middle of a run?

EntryKind == {"file", "dir", "other"}

ASSUME ManifestAssumption ==
    /\ \A m \in Manifest : m \in Seq(Path) /\ m # <<>>
    /\ Leaving \subseteq Seq([path : Seq(Name) \ {<<>>}, kind : EntryKind])

\* WalkDir hands over every path once, and a directory before what is in it.
ASSUME WalkAssumption ==
    \A l \in Leaving : \A k \in DOMAIN l :
        /\ \A j \in DOMAIN l : l[j].path = l[k].path => j = k
        /\ \A n \in 1 .. Len(l[k].path) - 1 :
              \E j \in 1 .. k - 1 : l[j] = [path |-> SubSeq(l[k].path, 1, n), kind |-> "dir"]

ASSUME PersonAssumption ==
    /\ HandPath \subseteq Path \ {<<>>, Root}
    /\ Faults \subseteq {"start", "plan", "prune", "tidy", "merge"}
    /\ Kills \in BOOLEAN

VARIABLES
    tree,         \* the filesystem
    listed,       \* the paths the record names, when it can be read
    pc,           \* where the run is; "idle" between runs
    manifest,     \* the manifest of this run, or of the last one
    exits,        \* how each generator has ended so far
    left,         \* what each generator left in its scratch directory
    previous,     \* ledger.previous: the record as it was read at the start
    stale,        \* what prune has still to look at
    emptied,      \* the directories tidy has still to look at
    faulted,      \* whether a removal failed: prune's faults
    pending,      \* the positions of the planned entries not yet written
    dest,         \* the file merger.copy is putting in place
    scratch,      \* whether this run's scratch space is on disk
    signalled,    \* whether the run has been sent its first signal
    outcome,      \* how the last run ended
    start         \* history: the tree this run found

project == <<tree, listed>>
runVars == <<manifest, exits, left, previous, start>>
work == <<stale, emptied, faulted, pending, dest>>
fate == <<scratch, signalled, outcome>>

vars == <<project, pc, runVars, work, fate>>

-----------------------------------------------------------------------------
(* The plan: what the generators produced, where it is to land.            *)

Generators == DOMAIN manifest

\* What WalkDir reads of one generator's scratch directory, landing under out.
Produced(i) == {[dest |-> manifest[i] \o left[i][k].path, kind |-> left[i][k].kind]
                   : k \in DOMAIN left[i]}

\* plan's list, by position: generators as declared, entries as walked.
Positions == UNION {{<<i, k>> : k \in DOMAIN left[i]} : i \in Generators}
Entry(pos) == [dest |-> manifest[pos[1]] \o left[pos[1]][pos[2]].path,
               kind |-> left[pos[1]][pos[2]].kind]
Before(a, b) == a[1] < b[1] \/ (a[1] = b[1] /\ a[2] < b[2])

PlannedFiles(i) == {e.dest : e \in {f \in Produced(i) : f.kind = "file"}}
PlannedDirs(i) == {e.dest : e \in {f \in Produced(i) : f.kind = "dir"}}

\* The directories there must be before any of the generator's output can land.
Required(i) == {manifest[i]} \cup Ancestors(manifest[i])

Unmergeable(i) == \E e \in Produced(i) : e.kind = "other"

\* Mutant: only what is to become a file and a directory at once is noticed.
CollidesAcrossKinds == \E i, j \in Generators :
    /\ i # j
    /\ PlannedFiles(i) \cap (PlannedDirs(j) \cup Required(j)) # {}

\* Mutant: the claims are the produced entries alone, as if required were gone.
CollidesAmongProduced == \E i, j \in Generators :
    /\ i # j
    /\ PlannedFiles(i) \cap (PlannedFiles(j) \cup PlannedDirs(j)) # {}

\* Two claims on one place of which at least one is a file.
Collides == \E i, j \in Generators :
    /\ i # j
    /\ PlannedFiles(i) \cap (PlannedFiles(j) \cup PlannedDirs(j) \cup Required(j)) # {}

Recordable(p) == (p = Root \/ IsBeneath(p, Root)) /\ p # RecordPath

Generated == UNION {PlannedFiles(i) : i \in Generators}

\* Mutant: what no tree can hold is merged as though it were a file.
RefusedForClaims == Collides \/ \E p \in Generated : ~Recordable(p)

Refused ==
    \/ \E i \in Generators : Unmergeable(i)
    \/ Collides
    \/ \E p \in Generated : ~Recordable(p)

\* mkdirAll's directories for one entry, and wanted's over all of them.
NeededDirs(e) == Ancestors(e.dest) \cup (IF e.kind = "dir" THEN {e.dest} ELSE {})
Wanted == UNION {NeededDirs(Entry(pos)) : pos \in Positions}

-----------------------------------------------------------------------------
NoTree == [p \in Path |-> "none"]

\* The project before its first run: two bare directories.
Init ==
    /\ tree = [p \in Path |-> IF p = Root \/ p \in Ancestors(Root) THEN "dir" ELSE "none"]
    /\ listed = {}
    /\ pc = "idle"
    /\ manifest = <<>> /\ exits = <<>> /\ left = <<>>
    /\ previous = {} /\ stale = {} /\ emptied = {} /\ faulted = FALSE
    /\ pending = {} /\ dest = <<>>
    /\ scratch = FALSE
    /\ signalled = FALSE
    /\ outcome = "none"
    /\ start = NoTree

(* What a run holds is gone when it ends, and its scratch space with it:   *)
(* the removal is deferred, so only a process that is killed skips it.     *)
Forget ==
    /\ pc' = "idle"
    /\ manifest' = <<>> /\ exits' = <<>> /\ left' = <<>>
    /\ previous' = {} /\ stale' = {} /\ emptied' = {} /\ faulted' = FALSE
    /\ pending' = {} /\ dest' = <<>>
    /\ signalled' = FALSE
    /\ start' = NoTree

\* A run that ends with a fault after a signal reports the cancellation instead.
End(how) ==
    /\ Forget
    /\ outcome' = IF how # "ok" /\ signalled THEN "cancelled" ELSE how
    /\ scratch' = FALSE

-----------------------------------------------------------------------------
(* A person, between runs.                                                 *)

Edit(p, node) ==
    /\ pc = "idle"
    /\ tree[Parent(p)] = "dir"
    /\ tree[p] # node
    /\ tree[p] = "dir" => Empty(tree, p) /\ node = "none"
    /\ node = "dir" => tree[p] = "none"
    /\ node = "link" => p \in DOMAIN LinkTo
    /\ tree' = [tree EXCEPT ![p] = node]
    /\ listed' = IF p = RecordPath THEN {} ELSE listed
    /\ UNCHANGED <<pc, runVars, work, fate>>

PersonEdits == \E p \in HandPath, node \in {"none", "dir", "hand", "link", "other"} : Edit(p, node)

-----------------------------------------------------------------------------
(* The run up to its verdict on the generators.                            *)

Readable == tree[RecordPath] \in {"none", "old", "new"}

\* ledger() finds a record it cannot read as one, or MkdirTemp fails.
RefuseToStart ==
    /\ pc = "idle"
    /\ ~Readable \/ "start" \in Faults
    /\ outcome' = "refused"
    /\ UNCHANGED <<pc, scratch, signalled, project, runVars, work>>

Begin(m) ==
    /\ pc = "idle"
    /\ Readable
    /\ pc' = "running"
    /\ tree' = Aged(tree)
    /\ start' = Aged(tree)
    /\ manifest' = m
    /\ previous' = listed
    /\ exits' = [i \in DOMAIN m |-> "running"]
    /\ left' = [i \in DOMAIN m |-> <<>>]
    /\ scratch' = TRUE
    /\ signalled' = FALSE
    /\ outcome' = "none"
    /\ UNCHANGED <<listed, work>>

\* plugin.Run's goroutine for one generator collects an exit status of zero.
GeneratorSucceeds(i, leaving) ==
    /\ pc = "running"
    /\ exits[i] = "running"
    /\ \A k \in DOMAIN leaving : manifest[i] \o leaving[k].path \in Path
    /\ exits' = [exits EXCEPT ![i] = "ok"]
    /\ left' = [left EXCEPT ![i] = leaving]
    /\ UNCHANGED <<pc, manifest, previous, start, project, work, fate>>

\* It could not be started, exited non-zero, or was killed.
GeneratorFails(i) ==
    /\ pc = "running"
    /\ exits[i] = "running"
    /\ exits' = [exits EXCEPT ![i] = "failed"]
    /\ UNCHANGED <<pc, manifest, left, previous, start, project, work, fate>>

AllSucceeded == \A i \in Generators : exits[i] = "ok"

\* plugin.Run waits for every generator and the run for plugin.Run.
Collect ==
    /\ pc = "running"
    /\ \A i \in Generators : exits[i] # "running"
    /\ IF AllSucceeded
         THEN /\ pc' = "planning"
              /\ UNCHANGED <<runVars, work, fate>>
         ELSE End("failed")
    /\ UNCHANGED project

\* What the last run recorded and this one does not produce.
NoLonger == previous \ Generated

\* plan, and then ledger.generated: everything that is refused is refused here.
Plan ==
    /\ pc = "planning"
    /\ IF Refused
         THEN End("refused")
         ELSE /\ pc' = "pruning"
              /\ stale' = NoLonger
              /\ UNCHANGED <<emptied, faulted, pending, dest, runVars, fate>>
    /\ UNCHANGED project

-----------------------------------------------------------------------------
(* Pruning: ledger.prune, ledger.remove and ledger.tidy.                   *)

\* Lstat answers ENOTDIR, which is not "there is nothing there".
Unreachable(f) == \E a \in Ancestors(Place(tree, f)) : tree[a] \in File \cup {"other"}

\* Mutant: whatever stands at a recorded path goes, a link a person made too.
Replaced(f) == tree[Place(tree, f)] \in File \cup {"link", "other"}

\* Mutant: whatever stands there goes, a directory with what is in it too.
RemovableUnlessGone(f) == tree[Place(tree, f)] # "none"

\* Only a regular file is removed, wherever the recorded path leads by now.
Removable(f) == tree[Place(tree, f)] \in File

\* Any order will do, unless two recorded paths lead to one file.
Prune(f) ==
    /\ pc = "pruning"
    /\ f \in stale
    /\ ~Unreachable(f)
    /\ stale' = stale \ {f}
    /\ IF Removable(f)
         THEN /\ tree' = [tree EXCEPT ![Place(tree, f)] = "none"]
              /\ emptied' = emptied \cup {Parent(f)}
         ELSE UNCHANGED <<tree, emptied>>
    /\ UNCHANGED <<listed, pc, faulted, pending, dest, runVars, fate>>

\* Lstat or Remove fails; the other removals are still made.
PruneFault(f) ==
    /\ pc = "pruning"
    /\ f \in stale
    /\ Unreachable(f) \/ "prune" \in Faults
    /\ stale' = stale \ {f}
    /\ faulted' = TRUE
    /\ UNCHANGED <<pc, emptied, pending, dest, project, runVars, fate>>

Pruned ==
    /\ pc = "pruning"
    /\ stale = {}
    /\ IF faulted
         THEN End("failed")
         ELSE /\ pc' = "tidying"
              /\ UNCHANGED <<runVars, work, fate>>
    /\ UNCHANGED project

\* Mutant: a directory that the merge is about to write into goes too.
TidiableInUse(d) ==
    d \notin {Root, <<>>} /\ tree[Place(tree, d)] # "none" /\ Empty(tree, Place(tree, d))

\* os.Remove takes away an empty directory, or the link that leads to one.
Tidiable(d) ==
    /\ d \notin {Root, <<>>} \cup Wanted
    /\ tree[Place(tree, d)] # "none"
    /\ Empty(tree, Place(tree, d))

\* Mutant: the walk does not end at a directory that stays.
WalkedForever(d) == IF Tidiable(d) THEN (emptied \ {d}) \cup {Parent(d)} ELSE emptied

\* The directories still to look at after d: its parent once it is gone, or none.
WalkedOn(d) == IF Tidiable(d) THEN (emptied \ {d}) \cup {Parent(d)} ELSE emptied \ {d}

\* One step of the walk upward from a directory pruning emptied.
Tidy(d) ==
    /\ pc = "tidying"
    /\ d \in emptied
    /\ emptied' = WalkedOn(d)
    /\ tree' = IF Tidiable(d) THEN [tree EXCEPT ![Place(tree, d)] = "none"] ELSE tree
    /\ UNCHANGED <<listed, pc, stale, faulted, pending, dest, runVars, fate>>

\* A directory that cannot be removed ends the walk and fails nothing.
TidyFault(d) ==
    /\ "tidy" \in Faults
    /\ pc = "tidying"
    /\ d \in emptied
    /\ emptied' = emptied \ {d}
    /\ UNCHANGED <<pc, stale, faulted, pending, dest, project, runVars, fate>>

\* probeUmask creates and removes its file in the scratch space.
Tidied ==
    /\ pc = "tidying"
    /\ emptied = {}
    /\ pc' = "merging"
    /\ pending' = Positions
    /\ UNCHANGED <<stale, emptied, faulted, dest, project, runVars, fate>>

-----------------------------------------------------------------------------
(* The merge: merger.write for each planned entry in the plan's order, and *)
(* merger.copy once more for the record.                                   *)

IsNext(pos) ==
    /\ pc = "merging"
    /\ pos \in pending
    /\ \A other \in pending : ~Before(other, pos)

\* Above and at the output directory the walk follows a link; beneath, it does not.
DirThere(pos, d) ==
    tree[IF d \in Required(pos[1]) THEN Followed(tree, d) ELSE Place(tree, d)] = "dir"

\* mkdirAll's first component that is not a directory yet.
Missing(pos, d) ==
    /\ d \in NeededDirs(Entry(pos))
    /\ d # <<>>
    /\ ~DirThere(pos, d)
    /\ DirThere(pos, Parent(d))

MakeDirectory(pos, d) ==
    /\ IsNext(pos)
    /\ Missing(pos, d)
    /\ tree[Place(tree, d)] = "none"
    /\ tree' = [tree EXCEPT ![Place(tree, d)] = "dir"]
    /\ UNCHANGED <<listed, pc, runVars, work, fate>>

\* Something that is not a directory stands where one has to be: ENOTDIR, or
\* a link that leads nowhere, beyond which nothing can be made.
Obstructed(pos, d) ==
    /\ IsNext(pos)
    /\ Missing(pos, d)
    /\ tree[Place(tree, d)] # "none"
    /\ End("failed")
    /\ UNCHANGED project

InPlace(pos) == \A d \in NeededDirs(Entry(pos)) : DirThere(pos, d)

WriteDirectory(pos) ==
    /\ IsNext(pos)
    /\ Entry(pos).kind = "dir"
    /\ InPlace(pos)
    /\ pending' = pending \ {pos}
    /\ UNCHANGED <<pc, stale, emptied, faulted, dest, project, runVars, fate>>

WriteFile(pos) ==
    /\ IsNext(pos)
    /\ Entry(pos).kind = "file"
    /\ InPlace(pos)
    /\ pc' = "clearing"
    /\ dest' = Entry(pos).dest
    /\ pending' = pending \ {pos}
    /\ UNCHANGED <<stale, emptied, faulted, project, runVars, fate>>

\* Every entry is written, so the record is.
WriteRecord ==
    /\ pc = "merging"
    /\ pending = {}
    /\ pc' = "clearing"
    /\ dest' = RecordPath
    /\ UNCHANGED <<stale, emptied, faulted, pending, project, runVars, fate>>

\* os.Remove will not have it; the root holds the run's own scratch space.
Occupied(d) == tree[d] = "dir" /\ (d = Root \/ ~Empty(tree, d))

\* merger.copy, first: whatever stands at the destination is removed.
Clear ==
    /\ pc = "clearing"
    /\ IF Occupied(Place(tree, dest))
         THEN /\ End("failed")
              /\ UNCHANGED project
         ELSE /\ pc' = "creating"
              /\ tree' = [tree EXCEPT ![Place(tree, dest)] = "none"]
              /\ listed' = IF dest = RecordPath THEN {} ELSE listed
              /\ UNCHANGED <<runVars, work, fate>>

\* second: it is created, exclusively and empty.
Create ==
    /\ pc = "creating"
    /\ pc' = "filling"
    /\ tree' = [tree EXCEPT ![Place(tree, dest)] = "newpart"]
    /\ UNCHANGED <<listed, runVars, work, fate>>

\* Mutant: the record accumulates instead of being this run's list.
RecordedSoFar == previous \cup Generated

\* What ledger.write puts in the record.
Recorded == Generated

\* and last it is filled.  The run has ended once the record is.
Fill ==
    /\ pc = "filling"
    /\ tree' = [tree EXCEPT ![Place(tree, dest)] = "new"]
    /\ IF dest = RecordPath
         THEN /\ listed' = Recorded
              /\ End("ok")
         ELSE /\ pc' = "merging"
              /\ UNCHANGED <<listed, runVars, work, fate>>

-----------------------------------------------------------------------------
(* What may happen to a run at any of its steps.                           *)

\* The walk of a scratch directory, the umask probe or a step of the merge fails.
FilesystemFails ==
    /\ \/ "plan" \in Faults /\ pc = "planning"
       \/ "merge" \in Faults /\ pc \in {"merging", "clearing", "creating", "filling"}
    /\ End("failed")
    /\ UNCHANGED project

\* The first SIGINT or SIGTERM; only the generators are told.
Signal ==
    /\ pc # "idle"
    /\ ~signalled
    /\ signalled' = TRUE
    /\ UNCHANGED <<pc, scratch, outcome, project, runVars, work>>

\* A second signal, or any other sudden death: no deferred removal is made.
Killed ==
    /\ Kills
    /\ pc # "idle"
    /\ Forget
    /\ outcome' = "killed"
    /\ UNCHANGED <<scratch, project>>

-----------------------------------------------------------------------------
Merge ==
    \/ \E pos \in pending, d \in Path : MakeDirectory(pos, d)
    \/ \E pos \in pending, d \in Path : Obstructed(pos, d)
    \/ \E pos \in pending : WriteDirectory(pos) \/ WriteFile(pos)
    \/ WriteRecord
    \/ Clear
    \/ Create
    \/ Fill

Step ==
    \/ Collect
    \/ Plan
    \/ \E f \in stale : Prune(f) \/ PruneFault(f)
    \/ Pruned
    \/ \E d \in emptied : Tidy(d)
    \/ Tidied
    \/ Merge

Next ==
    \/ PersonEdits
    \/ RefuseToStart
    \/ \E m \in Manifest : Begin(m)
    \/ \E i \in Generators, l \in Leaving : GeneratorSucceeds(i, l)
    \/ \E i \in Generators : GeneratorFails(i)
    \/ Step
    \/ \E d \in emptied : TidyFault(d)
    \/ FilesystemFails
    \/ Signal
    \/ Killed

Spec == Init /\ [][Next]_vars

(***************************************************************************)
(* The run's own steps are taken whenever they can be: it is one goroutine *)
(* that nothing else in the process blocks.  A generator owes nobody an    *)
(* exit until the run is signalled, when the context kills it.             *)
(***************************************************************************)
Fairness ==
    /\ WF_vars(Step)
    /\ WF_vars(signalled /\ \E i \in Generators : GeneratorFails(i))

FairSpec == Spec /\ Fairness

-----------------------------------------------------------------------------
(* What makes the component correct.                                       *)

Stage == {"idle", "running", "planning", "pruning", "tidying", "merging",
          "clearing", "creating", "filling"}
MergeStage == {"merging", "clearing", "creating", "filling"}
Outcome == {"none", "ok", "refused", "failed", "cancelled", "killed"}

(* Every variable holds what the code can put there, and whatever stands   *)
(* in the tree stands in a directory.                                      *)
TypeOK ==
    /\ tree \in Tree
    /\ WellFormed(tree)
    /\ listed \in SUBSET Path
    /\ pc \in Stage
    /\ manifest \in Manifest \cup {<<>>}
    /\ exits \in [Generators -> {"running", "ok", "failed"}]
    /\ left \in [Generators -> Leaving \cup {<<>>}]
    /\ previous \in SUBSET Path
    /\ stale \in SUBSET Path
    /\ emptied \in SUBSET Path
    /\ faulted \in BOOLEAN
    /\ pending \in SUBSET Positions
    /\ pc \notin MergeStage => pending = {}
    /\ dest \in Path
    /\ scratch \in BOOLEAN
    /\ signalled \in BOOLEAN
    /\ outcome \in Outcome
    /\ start \in Tree

Landed(m, c, i, kind) ==
    {m[i] \o c[i][k].path : k \in {j \in DOMAIN c[i] : c[i][j].kind = kind}}

\* Nobody left what no tree can hold, and a file's place is one generator's alone.
Acceptable(m, c) == \A i \in DOMAIN m :
    /\ Landed(m, c, i, "other") = {}
    /\ \A f \in Landed(m, c, i, "file") :
          /\ f = Root \/ IsBeneath(f, Root)
          /\ f # RecordPath
          /\ \A j \in DOMAIN m \ {i} :
                /\ f \notin Landed(m, c, j, "file") \cup Landed(m, c, j, "dir")
                /\ f # m[j] /\ ~IsBeneath(m[j], f)

(* Nothing changes in the project before every generator has exited zero   *)
(* and everything that can be refused has been: a generator that fails, a  *)
(* symlink it left or a path two of them claim costs the run and never     *)
(* half a tree (Runner.Run, merge).                                        *)
UntouchedUntilAccepted ==
    pc # "idle" /\ tree # start => AllSucceeded /\ Acceptable(manifest, left)

(* Where a path of the plan led when the run began: a directory through    *)
(* every link, a file through those on the way to it.                      *)
LedTo(p) == IF p \in Wanted THEN Followed(start, p) ELSE Place(start, p)

(* All a run ever does to the tree it found: it writes what was planned    *)
(* and the record, creates the directories those need, removes files the   *)
(* last record names and this plan does not, and removes directories, or   *)
(* links to them, below the root that held one of those and that the plan  *)
(* has no use for.  All of it where those paths LEAD: a directory that a   *)
(* person has replaced by a link is written and pruned through.            *)
Written(p) == \E f \in Generated \cup {RecordPath} : p = Place(start, f)
Made(p) == tree[p] = "dir" /\ \E d \in Wanted : p = Place(start, d)
PrunedAway(p) ==
    /\ start[p] \in File
    /\ tree[p] = "none"
    /\ \E f \in previous \ Generated : p = Place(start, f)
TidiedAway(p) ==
    /\ start[p] \in {"dir", "link"}
    /\ tree[p] = "none"
    /\ \E d \in Path \ Wanted :
          /\ p = Place(start, d)
          /\ IsBeneath(d, Root)
          /\ \E f \in previous \ Generated : IsBeneath(f, d)

Confined ==
    pc # "idle" => \A p \in Path : tree[p] # start[p] =>
        Written(p) \/ Made(p) \/ PrunedAway(p) \/ TidiedAway(p)

(* A directory that was there and that the plan writes into is never taken *)
(* away and made again: the mode a person gave it stays (tidy, wanted).    *)
(* Only a path that the plan does not write into, and that a link leads to *)
(* the same directory, may cost it that: the two are compared as spelled.  *)
WantedDirectoriesKept ==
    pc # "idle" => \A d \in Wanted : start[LedTo(d)] = "dir" =>
        \/ tree[LedTo(d)] = "dir"
        \/ \E e \in Path \ Wanted : Place(start, e) = LedTo(d)

(* What one generator produced is never written over by another: while the *)
(* run lasts, a file it has written stays as it was written (collide),     *)
(* unless two planned files lead to one place, which only a link can do.   *)
WrittenStaysWritten ==
    [][pc # "idle" => \A p \in Path : tree[p] = "new" =>
        \/ tree'[p] = "new"
        \/ \E f, g \in Generated : f # g /\ LedTo(f) = p /\ LedTo(g) = p]_vars

(* Nor does the merge ever meet its own output where it needs something    *)
(* else: what stops it is always something the run found in the project    *)
(* (required), or is met through a link at another path.                   *)
Shared(p) == \E a, b \in Generated \cup Wanted : a # b /\ LedTo(a) = p /\ LedTo(b) = p

NeverInItsOwnWay ==
    pc = "merging" => \A pos \in pending :
        /\ \A d \in NeededDirs(Entry(pos)) : tree[LedTo(d)] = "new" => Shared(LedTo(d))
        /\ LET p == LedTo(Entry(pos).dest)
           IN  Entry(pos).kind = "file" /\ tree[p] = "dir" => start[p] = "dir" \/ Shared(p)

(* A run that has been signalled ends, whatever its generators do: the     *)
(* ones that will not exit are killed.                                     *)
SignalledRunEnds == signalled ~> pc = "idle"

-----------------------------------------------------------------------------
(* What the documentation says and the code does not keep.                 *)

(* merge: "a recorded path that is not there prunes nothing and says       *)
(* nothing", so that no later run fails on one.                            *)
AbsentPathsPruneNothing == ~faulted

-----------------------------------------------------------------------------
(* A whole run is one step of Regeneration.  Until it ends, what a person  *)
(* is owed is the tree it found; who wrote a file is told no closer than   *)
(* by a run, or by a person.                                               *)
Choices(m) == {c \in [DOMAIN m -> Leaving] :
    \A i \in DOMAIN m : \A k \in DOMAIN c[i] : m[i] \o c[i][k].path \in Path}

PlanOf(m, c) ==
    LET landed(kind) == UNION {Landed(m, c, i, kind) : i \in DOMAIN m}
        files == landed("file")
        dirs == landed("dir")
    IN  [files |-> files, dirs |-> dirs \cup UNION {Ancestors(p) : p \in files \cup dirs}]

AllPlans == UNION {{PlanOf(m, c) : c \in {d \in Choices(m) : Acceptable(m, d)}} : m \in Manifest}

Seen(t) == [p \in Path |-> IF t[p] \in {"old", "new"} THEN "gen"
                           ELSE IF t[p] \in {"oldpart", "newpart"} THEN "part" ELSE t[p]]

Promise == INSTANCE Regeneration WITH
    Plans <- AllPlans,
    Unreliable <- Kills \/ Faults # {},
    tree <- Seen(IF pc = "idle" THEN tree ELSE start),
    listed <- IF pc = "idle" THEN listed ELSE previous

(* Every run, however many steps and interruptions it takes, is one step   *)
(* of the promise: on a filesystem that never fails it regenerates exactly *)
(* what the record and the plan decide, or leaves the project as it was,   *)
(* or was hindered by something a person put in its way.                   *)
KeepsThePromise == Promise!Spec
=============================================================================
