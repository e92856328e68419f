------------------------- MODULE RegenerationProofs -------------------------
(***************************************************************************)
(* The promise of Regeneration, kept by every run of Generate: for every   *)
(* filesystem, manifest and plan, with filesystems that fail and runs that *)
(* are killed wherever the constants allow it.  What a run leaves follows, *)
(* path by path, from what it found: Remembered says what the record has to *)
(* do with that, Sweeping what pruning leaves, and Merging what the merge  *)
(* lays over it.  The last two are about runs that no link leads anywhere: *)
(* of the others only what GenerateProofs says of the places is promised.  *)
(***************************************************************************)
EXTENDS GenerateProofs, FiniteSetTheorems, WellFoundedInduction

-----------------------------------------------------------------------------
(* Paths, once more.                                                       *)

(* What lies beneath a path, and beneath what lies beneath it.             *)
LEMMA BeneathBeneath ==
    ASSUME NEW p \in Seq(Name), NEW q \in Seq(Name), NEW r \in Seq(Name),
           IsBeneath(q, p), IsBeneath(r, q)
    PROVE  IsBeneath(r, p)
  <1>1. p \in Ancestors(q) /\ q \in Ancestors(r)
    BY BeneathOrAncestor
  <1>2. p \in Ancestors(r)
    BY <1>1, AboveAnAncestor
  <1> QED
    BY <1>2, BeneathOrAncestor

(* On the way from a directory to what lies beneath it comes a child of it. *)
LEMMA ChildTowards ==
    ASSUME NEW d \in Path, NEW q \in Path, IsBeneath(q, d)
    PROVE  \E c \in Path : c # <<>> /\ Parent(c) = d /\ (c = q \/ c \in Ancestors(q))
  <1>1. d \in Seq(Name) /\ q \in Seq(Name) /\ Ancestors(q) \subseteq Path
    BY PathAssumption
  <1>2. d \in Ancestors(q)
    BY <1>1, BeneathOrAncestor
  <1>3. PICK c \in Ancestors(q) \cup {q} : c # <<>> /\ Parent(c) = d
    BY <1>1, <1>2, NextTowards
  <1> QED
    BY <1>1, <1>3

(* So there is nothing at all beneath what is empty.                       *)
LEMMA NothingBeneathEmpty ==
    ASSUME NEW t, WellFormed(t), NEW d \in Path, Empty(t, d), NEW q \in Path, IsBeneath(q, d)
    PROVE  t[q] = "none"
  <1>1. d \in Ancestors(q)
    BY BeneathOrAncestor, PathAssumption
  <1> QED
    BY <1>1, NothingBeneath

(* Among paths of the instance there is one that has no other beneath it.  *)
LEMMA DeepestOf ==
    ASSUME NEW B \in SUBSET Path, B # {}
    PROVE  \E d \in B : \A e \in B : ~IsBeneath(e, d)
  <1> DEFINE Below(d) == {q \in Path : IsBeneath(q, d)}
             Inside == StrictSubsetOrdering(Path)
             Belows == {Below(d) : d \in B}
  <1>1. IsWellFoundedOn(Inside, SUBSET Path)
    BY PathAssumption, FS_StrictSubsetOrderingWellFounded, FS_FiniteSubsetsOfFinite
  <1>2. Belows \subseteq SUBSET Path /\ Belows # {}
    OBVIOUS
  <1>3. \E x \in Belows : \A y \in Belows : ~ (<<y, x>> \in Inside)
    <2> HIDE DEF Inside, Belows
    <2> QED
      BY <1>1, <1>2, WFMin
  <1>4. PICK d \in B : \A e \in B : ~ (<<Below(e), Below(d)>> \in Inside)
    BY <1>3
  <1>5. ASSUME NEW e \in B, IsBeneath(e, d) PROVE FALSE
    <2>1. e \in Seq(Name) /\ d \in Seq(Name) /\ \A q \in Path : q \in Seq(Name)
      BY PathAssumption
    <2>2. Below(e) \subseteq Below(d)
      BY <1>5, <2>1, BeneathBeneath
    <2>3. e \in Below(d) /\ e \notin Below(e)
      <3>1. Len(e) \in Nat
        BY <2>1
      <3> QED
        BY <1>5, <3>1 DEF IsBeneath
    <2>4. <<Below(e), Below(d)>> \in Inside
      BY <2>2, <2>3 DEF StrictSubsetOrdering
    <2> QED
      BY <1>4, <2>4
  <1> QED
    BY <1>4, <1>5

-----------------------------------------------------------------------------
(* The record keeps to files, and a plan to paths apart from one another.  *)

(* No one of some paths lies beneath another.                              *)
Apart(paths) == \A f, g \in paths : ~IsBeneath(f, g)

(* The file at the destination has gone and its successor is not complete. *)
Cleared(p) == pc \in {"creating", "filling"} /\ dest = p

(* What the record, as it is and as it was found, has to do with a run.    *)
Remembered ==
    /\ Apart(listed) /\ Apart(previous)
    /\ listed # {} => tree[RecordPath] \in {"old", "new"}
    /\ pc # "idle" =>
          /\ manifest \in Manifest
          /\ \A i \in Generators : exits[i] = "ok" => left[i] \in Leaving
          /\ start[RecordPath] \in {"none", "old"}
          /\ start[RecordPath] = "none" => previous = {}
          /\ listed = IF Cleared(RecordPath) THEN {} ELSE previous
          /\ \/ Cleared(RecordPath)
             \/ tree[RecordPath] = start[RecordPath]
             \/ tree[RecordPath] = "dir" /\ start[RecordPath] = "none"
          /\ \A p \in Path : tree[p] # start[p] => tree[p] \in {"none", "dir", "new", "newpart"}

(* Every file of the plan has a position in it.                            *)
LEMMA GeneratedPositions ==
    ASSUME NEW f \in Generated
    PROVE  \E pos \in Positions : Entry(pos).kind = "file" /\ Entry(pos).dest = f
  <1>1. PICK i \in Generators : f \in PlannedFiles(i)
    BY DEF Generated
  <1>2. PICK e \in Produced(i) : e.kind = "file" /\ f = e.dest
    BY <1>1 DEF PlannedFiles
  <1>3. PICK k \in DOMAIN left[i] :
           e = [dest |-> manifest[i] \o left[i][k].path, kind |-> left[i][k].kind]
    BY DEF Produced
  <1>4. <<i, k>> \in Positions /\ Entry(<<i, k>>) = e
    BY <1>3 DEF Positions, Entry
  <1> QED
    BY <1>2, <1>4

(* Nothing of an accepted plan lies beneath one of its files.              *)
LEMMA NothingBeneathGenerated ==
    ASSUME Typed, ~Refused, NEW f \in Generated, NEW q \in Generated \cup Wanted
    PROVE  ~IsBeneath(q, f)
  <1> SUFFICES ASSUME IsBeneath(q, f) PROVE FALSE
    OBVIOUS
  <1>1. f \in Seq(Name) /\ q \in Seq(Name)
    BY GeneratedPaths, WantedPaths, PathAssumption
  <1>2. f \in Ancestors(q)
    BY <1>1, BeneathOrAncestor
  <1>3. f \in Wanted
    BY <1>2, WantedAbove
  <1> QED
    BY <1>3, FilesApart

LEMMA GeneratedApart ==
    ASSUME Typed, ~Refused
    PROVE  Apart(Generated)
  BY NothingBeneathGenerated DEF Apart

-----------------------------------------------------------------------------
(* Remembered, step by step.                                               *)

LEMMA EndRemembered ==
    ASSUME Remembered, Forget, UNCHANGED project
    PROVE  Remembered'
  BY DEF Remembered, Forget, project, Apart

LEMMA EditRemembered ==
    ASSUME Typed, Remembered, NEW p \in HandPath, NEW node, Edit(p, node)
    PROVE  Remembered'
  <1>1. p \in Path /\ RecordPath \in Path
    BY PersonAssumption, RootAssumption
  <1>2. p # RecordPath => tree'[RecordPath] = tree[RecordPath]
    BY <1>1 DEF Edit, Typed, TypeOK, Tree
  <1> QED
    BY <1>2 DEF Edit, Remembered, runVars, Apart

LEMMA BeginRemembered ==
    ASSUME Remembered, NEW m \in Manifest, Begin(m)
    PROVE  Remembered'
  <1>1. RecordPath \in Path
    BY RootAssumption
  <1>2. /\ tree[RecordPath] = "none" => Aged(tree)[RecordPath] = "none"
        /\ tree[RecordPath] \in {"old", "new"} => Aged(tree)[RecordPath] = "old"
    BY <1>1 DEF Aged
  <1>3. \A i \in Generators' : exits'[i] = "running"
    BY DEF Begin, Generators
  <1>4. tree[RecordPath] \in {"none", "old", "new"}
    BY DEF Begin, Readable
  <1> QED
    BY <1>2, <1>3, <1>4 DEF Begin, Remembered, Apart, Cleared

LEMMA VerdictRemembered ==
    ASSUME Typed, Remembered, NEW i \in Generators,
           (\E l \in Leaving : GeneratorSucceeds(i, l)) \/ GeneratorFails(i)
    PROVE  Remembered'
  <1>1. /\ UNCHANGED <<tree, listed, previous, start, manifest, pc>> /\ pc = "running"
        /\ Generators' = Generators
    BY DEF GeneratorSucceeds, GeneratorFails, project, Generators
  <1>2. ASSUME NEW j \in Generators', exits'[j] = "ok" PROVE left'[j] \in Leaving
    <2>1. exits \in [Generators -> {"running", "ok", "failed"}] /\ left \in [Generators -> Leaving \cup {<<>>}]
      BY DEF Typed, TypeOK
    <2> QED
      BY <1>1, <1>2, <2>1 DEF GeneratorSucceeds, GeneratorFails, Remembered
  <1> QED
    BY <1>1, <1>2 DEF Remembered, Cleared, Apart

(* A step of a run past its verdict that does not touch the tree.          *)
LEMMA RecordUntouched ==
    ASSUME Remembered, pc # "idle", pc' # "idle",
           UNCHANGED <<tree, manifest, exits, left, previous, start, listed>>,
           Cleared(RecordPath)' <=> Cleared(RecordPath)
    PROVE  Remembered'
  BY DEF Remembered, Apart, Generators

(* And one that does, but not the record: where the record has gone, or    *)
(* never was, a directory may be put.                                      *)
LEMMA RecordBeside ==
    ASSUME Typed, Remembered, pc # "idle", pc' # "idle",
           UNCHANGED <<manifest, exits, left, previous, start, listed>>,
           Cleared(RecordPath)' <=> Cleared(RecordPath),
           NEW q \in Path, NEW n \in {"none", "dir", "new", "newpart"},
           tree' = [tree EXCEPT ![q] = n],
           q = RecordPath => Cleared(RecordPath) \/ (tree[q] = "none" /\ n = "dir")
    PROVE  Remembered'
  <1>1. \A p \in Path : tree'[p] = IF p = q THEN n ELSE tree[p]
    BY DEF Typed, TypeOK, Tree
  <1>2. \A p \in Path : tree'[p] # start[p] => tree'[p] \in {"none", "dir", "new", "newpart"}
    BY <1>1 DEF Remembered
  <1>3. CASE q # RecordPath
    <2>1. tree'[RecordPath] = tree[RecordPath]
      BY <1>1, <1>3, RootAssumption
    <2> QED
      BY <1>2, <2>1 DEF Remembered, Apart, Generators
  <1>4. CASE q = RecordPath
    <2>1. listed = {} /\ tree'[RecordPath] = n
      BY <1>1, <1>4, RootAssumption DEF Remembered
    <2>2. \/ Cleared(RecordPath)
          \/ tree[RecordPath] = "none" /\ n = "dir" /\ start[RecordPath] = "none"
      BY <1>4 DEF Remembered
    <2> QED
      BY <1>2, <2>1, <2>2 DEF Remembered, Apart, Generators
  <1> QED
    BY <1>3, <1>4

LEMMA PruneRemembered ==
    ASSUME Typed, Remembered, Bounded, NEW f \in stale, Prune(f)
    PROVE  Remembered'
  <1>1. f # RecordPath /\ f \in Path /\ WellFormed(tree)
    BY DEF Prune, Bounded, Recordable, Typed, TypeOK
  <1>2. PICK q \in Path : q = Place(tree, f) /\ q # RecordPath
    BY <1>1, PlaceOfPlace, TopStays
  <1>3. tree' = tree \/ tree' = [tree EXCEPT ![q] = "none"]
    BY <1>2 DEF Prune
  <1>4. pc # "idle" /\ pc' # "idle" /\ UNCHANGED <<manifest, exits, left, previous, start, listed>>
        /\ (Cleared(RecordPath)' <=> Cleared(RecordPath))
    BY DEF Prune, runVars, Cleared
  <1> QED
    BY <1>2, <1>3, <1>4, RecordUntouched, RecordBeside

LEMMA TidyRemembered ==
    ASSUME Typed, Remembered, Bounded, NEW d \in emptied, Tidy(d)
    PROVE  Remembered'
  <1>1. pc = "tidying" /\ d \in Path /\ WellFormed(tree) /\ WellFormed(start)
    BY DEF Tidy, Bounded, Typed, TypeOK
  <1>2. d # RecordPath
    <2>1. start[Place(start, d)] \in {"dir", "link"}
      BY <1>1 DEF Bounded, OnlyGone, Reached
    <2>2. start[RecordPath] \notin {"dir", "link"}
      BY <1>1 DEF Remembered
    <2> QED
      BY <1>1, <2>1, <2>2, TopStays
  <1>3. PICK q \in Path : q = Place(tree, d) /\ q # RecordPath
    BY <1>1, <1>2, PlaceOfPlace, TopStays
  <1>4. tree' = tree \/ tree' = [tree EXCEPT ![q] = "none"]
    BY <1>3 DEF Tidy
  <1>5. pc # "idle" /\ pc' # "idle" /\ UNCHANGED <<manifest, exits, left, previous, start, listed>>
        /\ (Cleared(RecordPath)' <=> Cleared(RecordPath))
    BY DEF Tidy, runVars, Cleared
  <1> QED
    BY <1>3, <1>4, <1>5, RecordUntouched, RecordBeside

LEMMA MakeDirectoryRemembered ==
    ASSUME Typed, Remembered, NEW pos \in pending, NEW d \in Path, MakeDirectory(pos, d)
    PROVE  Remembered'
  <1>1. WellFormed(tree)
    BY DEF Typed, TypeOK
  <1>2. PICK q \in Path : q = Place(tree, d)
    BY <1>1, PlaceOfPlace
  <1>3. tree[q] = "none" /\ tree' = [tree EXCEPT ![q] = "dir"]
    BY <1>2 DEF MakeDirectory
  <1>4. pc # "idle" /\ pc' # "idle" /\ UNCHANGED <<manifest, exits, left, previous, start, listed>>
        /\ (Cleared(RecordPath)' <=> Cleared(RecordPath))
    BY DEF MakeDirectory, IsNext, runVars, work, Cleared
  <1> QED
    BY <1>3, <1>4, RecordBeside

(* Only the record itself is copied to where the record is.                *)
LEMMA CopiedTo ==
    ASSUME Typed
    PROVE  \E q \in Path : q = Place(tree, dest) /\ (q = RecordPath <=> dest = RecordPath)
  BY PlaceOfPlace, TopStays DEF Typed, TypeOK

LEMMA ClearRemembered ==
    ASSUME Typed, Remembered, Clear
    PROVE  Remembered'
  <1>1. PICK q \in Path : q = Place(tree, dest) /\ (q = RecordPath <=> dest = RecordPath)
    BY CopiedTo
  <1>2. CASE Occupied(q)
    BY <1>1, <1>2, EndRemembered DEF Clear, End
  <1>3. CASE ~Occupied(q)
    <2>1. /\ UNCHANGED <<manifest, exits, left, previous, start, dest>> /\ pc = "clearing"
          /\ pc' = "creating" /\ tree' = [tree EXCEPT ![q] = "none"]
          /\ listed' = IF dest = RecordPath THEN {} ELSE listed
      BY <1>1, <1>3 DEF Clear, runVars, work
    <2>2. CASE dest = RecordPath
      <3>1. \A p \in Path : tree'[p] = IF p = q THEN "none" ELSE tree[p]
        BY <2>1 DEF Typed, TypeOK, Tree
      <3>2. \A p \in Path : tree'[p] # start[p] => tree'[p] \in {"none", "dir", "new", "newpart"}
        BY <2>1, <3>1 DEF Remembered
      <3> QED
        BY <2>1, <2>2, <3>2 DEF Remembered, Apart, Cleared, Generators
    <2>3. CASE dest # RecordPath
      BY <1>1, <2>1, <2>3, RecordBeside DEF Cleared
    <2> QED
      BY <2>2, <2>3
  <1> QED
    BY <1>2, <1>3

LEMMA CreateRemembered ==
    ASSUME Typed, Remembered, Create
    PROVE  Remembered'
  <1>1. PICK q \in Path : q = Place(tree, dest) /\ (q = RecordPath <=> dest = RecordPath)
    BY CopiedTo
  <1>2. /\ UNCHANGED <<manifest, exits, left, previous, start, listed, dest>> /\ pc = "creating"
        /\ pc' = "filling" /\ tree' = [tree EXCEPT ![q] = "newpart"]
    BY <1>1 DEF Create, runVars, work
  <1> QED
    BY <1>1, <1>2, RecordBeside DEF Cleared

LEMMA FillRemembered ==
    ASSUME Typed, Settled, Remembered, Fill
    PROVE  Remembered'
  <1>1. PICK q \in Path : q = Place(tree, dest) /\ (q = RecordPath <=> dest = RecordPath)
    BY CopiedTo
  <1>2. tree' = [tree EXCEPT ![q] = "new"] /\ pc = "filling"
    BY <1>1 DEF Fill
  <1>3. CASE dest = RecordPath
    <2>1. listed' = Generated /\ Forget
      BY <1>3 DEF Fill, End, Recorded
    <2>2. tree'[RecordPath] = "new"
      BY <1>1, <1>2, <1>3 DEF Typed, TypeOK, Tree
    <2>3. Apart(Generated)
      BY <1>2, GeneratedApart DEF Settled
    <2> QED
      BY <2>1, <2>2, <2>3 DEF Remembered, Forget, Apart
  <1>4. CASE dest # RecordPath
    <2>1. UNCHANGED <<manifest, exits, left, previous, start, listed, dest>> /\ pc' = "merging"
      BY <1>4 DEF Fill, runVars, work
    <2> QED
      BY <1>1, <1>2, <1>4, <2>1, RecordBeside DEF Cleared
  <1> QED
    BY <1>3, <1>4

LEMMA StepRemembered ==
    Typed /\ Settled /\ Bounded /\ Remembered /\ [Next]_vars => Remembered'
  <1> SUFFICES ASSUME Typed, Settled, Bounded, Remembered, [Next]_vars PROVE Remembered'
    OBVIOUS
  <1> USE DEF project, runVars, work, fate, End
  <1>1. CASE PersonEdits
    BY <1>1, EditRemembered DEF PersonEdits
  <1>2. CASE RefuseToStart
    BY <1>2 DEF RefuseToStart, Remembered, Apart, Cleared, Generators
  <1>3. CASE \E m \in Manifest : Begin(m)
    BY <1>3, BeginRemembered
  <1>4. CASE \E i \in Generators : (\E l \in Leaving : GeneratorSucceeds(i, l)) \/ GeneratorFails(i)
    BY <1>4, VerdictRemembered
  <1>5. CASE Collect
    BY <1>5, EndRemembered, RecordUntouched DEF Collect, Cleared
  <1>6. CASE Plan
    BY <1>6, EndRemembered, RecordUntouched DEF Plan, Cleared
  <1>7. CASE \E f \in stale : Prune(f)
    BY <1>7, PruneRemembered
  <1>8. CASE \E f \in stale : PruneFault(f)
    BY <1>8, RecordUntouched DEF PruneFault, Cleared
  <1>9. CASE Pruned
    BY <1>9, EndRemembered, RecordUntouched DEF Pruned, Cleared
  <1>10. CASE \E d \in emptied : Tidy(d)
    BY <1>10, TidyRemembered
  <1>11. CASE \E d \in emptied : TidyFault(d)
    BY <1>11, RecordUntouched DEF TidyFault, Cleared
  <1>12. CASE Tidied
    BY <1>12, RecordUntouched DEF Tidied, Cleared
  <1>13. CASE Merge
    <2>1. CASE \E pos \in pending, d \in Path : MakeDirectory(pos, d)
      BY <2>1, MakeDirectoryRemembered
    <2>2. CASE \E pos \in pending, d \in Path : Obstructed(pos, d)
      BY <2>2, EndRemembered DEF Obstructed
    <2>3. CASE \E pos \in pending : WriteDirectory(pos) \/ WriteFile(pos)
      BY <2>3, RecordUntouched DEF WriteDirectory, WriteFile, IsNext, Cleared
    <2>4. CASE WriteRecord
      BY <2>4, RecordUntouched DEF WriteRecord, Cleared
    <2>5. CASE Clear
      BY <2>5, ClearRemembered
    <2>6. CASE Create
      BY <2>6, CreateRemembered
    <2>7. CASE Fill
      BY <2>7, FillRemembered
    <2> QED
      BY <1>13, <2>1, <2>2, <2>3, <2>4, <2>5, <2>6, <2>7 DEF Merge
  <1>14. CASE FilesystemFails
    BY <1>14, EndRemembered DEF FilesystemFails
  <1>15. CASE Signal
    BY <1>15, RecordUntouched DEF Signal, Cleared
  <1>16. CASE Killed
    BY <1>16, EndRemembered DEF Killed
  <1>17. CASE UNCHANGED vars
    BY <1>17 DEF vars, Remembered, Apart, Cleared, Generators
  <1> QED
    BY <1>1, <1>2, <1>3, <1>4, <1>5, <1>6, <1>7, <1>8, <1>9, <1>10, <1>11, <1>12, <1>13,
       <1>14, <1>15, <1>16, <1>17 DEF Next, Step

-----------------------------------------------------------------------------
(* A run on whose way no link stands: neither to what it may prune nor to  *)
(* what it is to write.                                                    *)

Direct == \A p \in previous \cup Generated \cup Wanted : OnTheWay(start, p) = {}

LEMMA DirectStays ==
    ASSUME UNCHANGED <<manifest, left, previous, start>>
    PROVE  Direct' <=> Direct
  BY PlanStays DEF Direct

(* Then all of that, and what lies above the recorded files, is where it   *)
(* says it is.                                                             *)
LEMMA NoDetour ==
    ASSUME Typed, Bounded, Direct, pc # "idle", NEW p \in Path,
           \/ p \in previous \cup Generated \cup Wanted \cup {RecordPath}
           \/ \E f \in previous : IsBeneath(f, p)
    PROVE  /\ OnTheWay(tree, p) = {} /\ Place(tree, p) = p
           /\ OnTheWay(start, p) = {} /\ Place(start, p) = p
  <1>1. p \in Seq(Name) /\ Ancestors(p) \subseteq Path /\ WellFormed(start)
    BY PathAssumption DEF Bounded
  <1>2. OnTheWay(start, p) = {}
    <2>1. CASE p \in previous \cup Generated \cup Wanted
      BY <2>1 DEF Direct
    <2>2. CASE p = RecordPath
      BY <1>1, <2>2, LinkAssumption DEF OnTheWay, WellFormed
    <2>3. CASE \E f \in previous : IsBeneath(f, p)
      <3>1. PICK f \in previous : IsBeneath(f, p)
        BY <2>3
      <3>2. f \in Path /\ f \in Seq(Name)
        BY PathAssumption DEF Typed, TypeOK
      <3>3. p \in Ancestors(f)
        BY <1>1, <3>1, <3>2, BeneathOrAncestor
      <3>4. \A a \in Ancestors(p) : a \in Ancestors(f)
        BY <3>2, <3>3, AboveAnAncestor
      <3> QED
        BY <3>4 DEF Direct, OnTheWay
    <2> QED
      BY <2>1, <2>2, <2>3
  <1>3. OnTheWay(tree, p) = {}
    BY <1>1, <1>2 DEF OnTheWay, Bounded, Straight
  <1> QED
    BY <1>2, <1>3 DEF Place

(* No link stands above a recorded file.                                   *)
LEMMA NoLinkAbove ==
    ASSUME Typed, Bounded, Direct, pc # "idle", NEW f \in previous, NEW a \in Ancestors(f)
    PROVE  start[a] # "link" /\ tree[a] # "link" /\ Place(start, a) = a /\ Place(tree, a) = a
  <1>1. f \in Path /\ f \in Seq(Name)
    BY PathAssumption DEF Typed, TypeOK
  <1>2. a \in Path /\ a \in Seq(Name) /\ IsBeneath(f, a)
    BY <1>1, PathAssumption, BeneathOrAncestor
  <1>3. OnTheWay(start, f) = {} /\ OnTheWay(tree, f) = {}
    BY <1>1, NoDetour
  <1> QED
    BY <1>2, <1>3, NoDetour DEF OnTheWay

-----------------------------------------------------------------------------
(* Pruning takes the files that go, and the directories they leave bare.   *)

(* A file that goes, and a directory that goes with what it held.          *)
Gone(f) == f \in previous \ Generated /\ start[f] \in File
Holding(d) == \E f \in Path : Gone(f) /\ IsBeneath(f, d)
BaredAt(d) ==
    /\ start[d] = "dir"
    /\ IsBeneath(d, Root)
    /\ d \notin Wanted
    /\ Holding(d)
    /\ \A q \in Path : IsBeneath(q, d) /\ start[q] # "none" =>
          Gone(q) \/ (start[q] = "dir" /\ Holding(q))

(* What pruning and tidying leave at a path when nothing stops them.       *)
SweptAt(p) == IF Gone(p) \/ BaredAt(p) THEN "none" ELSE start[p]

(* Whether Lstat could find a recorded path in the tree the run found.     *)
ClearWay(f) == \A a \in Ancestors(f) : start[a] \in {"none", "dir"}

HasLost(d) == \E c \in Path \ {<<>>} : Parent(c) = d /\ start[c] # "none" /\ tree[c] = "none"

(* A directory that holds nothing, and has no call to stay.                *)
Bare(d) == d \notin {Root, <<>>} \cup Wanted /\ Empty(tree, d)

SoFarSwept ==
    /\ faulted => "prune" \in Faults \/ \E f \in previous \ Generated : ~ClearWay(f)
    /\ pc = "pruning" =>
          /\ ~faulted => \A f \in (previous \ Generated) \ stale : ClearWay(f) /\ tree[f] \notin File
          /\ \A d \in Path : HasLost(d) => d \in emptied
    /\ pc \in {"tidying"} \cup MergeStage => \A f \in previous \ Generated : ClearWay(f)
    /\ pc = "tidying" =>
          /\ \A f \in Path : Gone(f) => tree[f] = "none"
          /\ \A d \in Path : HasLost(d) =>
                d \in emptied \/ tree[d] = "none" \/ ~Bare(d) \/ "tidy" \in Faults
    /\ pc \in {"pruning", "tidying"} =>
          /\ \A d \in emptied : Holding(d)
          /\ \A p \in Path : tree[p] \in {start[p], SweptAt(p)}

Sweeping ==
    /\ faulted => pc = "pruning"
    /\ Direct => SoFarSwept

(* What a run is to sweep is settled with its plan.                        *)
LEMMA SweepStays ==
    ASSUME UNCHANGED <<manifest, left, previous, start>>
    PROVE  /\ \A p : Gone(p)' <=> Gone(p)
           /\ \A p : Holding(p)' <=> Holding(p)
           /\ \A p : BaredAt(p)' <=> BaredAt(p)
           /\ \A p : SweptAt(p)' = SweptAt(p)
           /\ \A p : ClearWay(p)' <=> ClearWay(p)
           /\ Generated' = Generated /\ Wanted' = Wanted
  <1>1. Generated' = Generated /\ Wanted' = Wanted
    BY PlanStays
  <1>2. \A p : Gone(p)' <=> Gone(p)
    BY <1>1 DEF Gone
  <1>3. \A p : Holding(p)' <=> Holding(p)
    BY <1>2 DEF Holding
  <1>4. \A p : BaredAt(p)' <=> BaredAt(p)
    BY <1>1, <1>2, <1>3 DEF BaredAt
  <1>5. \A p : SweptAt(p)' = SweptAt(p)
    BY <1>2, <1>4 DEF SweptAt
  <1>6. \A p : ClearWay(p)' <=> ClearWay(p)
    BY DEF ClearWay
  <1> QED
    BY <1>1, <1>2, <1>3, <1>4, <1>5, <1>6

(* What stands there before the merge stood there when the run began.      *)
LEMMA LeftStanding ==
    ASSUME Direct, Sweeping, pc \in {"pruning", "tidying"}, NEW p \in Path
    PROVE  /\ tree[p] # "none" => tree[p] = start[p]
           /\ tree[p] # start[p] => Gone(p) \/ (BaredAt(p) /\ start[p] = "dir")
  BY DEF Sweeping, SoFarSwept, SweptAt, BaredAt

(* A step before the merge that changes nothing of the tree.               *)
LEMMA QuietSweeping ==
    ASSUME Direct, Sweeping, pc' = pc,
           UNCHANGED <<tree, manifest, left, previous, start, emptied, faulted, stale>>
    PROVE  Sweeping'
  BY SweepStays DEF Sweeping, SoFarSwept, HasLost, Bare, Empty

LEMMA EndSweeping == Forget => Sweeping'
  BY DEF Forget, Sweeping, SoFarSwept, MergeStage

LEMMA PlanSweeping ==
    ASSUME Direct, Typed, Settled, Bounded, Sweeping, Plan
    PROVE  Sweeping'
  <1>1. CASE Refused
    BY <1>1, EndSweeping DEF Plan, End
  <1>2. CASE ~Refused
    <2>1. /\ UNCHANGED <<tree, manifest, left, previous, start, emptied, faulted>>
          /\ tree = start /\ pc = "planning" /\ pc' = "pruning" /\ stale' = previous \ Generated
          /\ emptied = {} /\ ~faulted
      BY <1>2 DEF Plan, Settled, Bounded, Sweeping, project, runVars, NoLonger
    <2>2. Generated' = Generated
      BY <2>1, PlanStays
    <2>3. \A d : ~HasLost(d)'
      BY <2>1 DEF HasLost
    <2> QED
      BY <2>1, <2>2, <2>3 DEF Sweeping, SoFarSwept, MergeStage
  <1> QED
    BY <1>1, <1>2

(* What is in the way of a recorded path was in its way from the start: no *)
(* recorded path lies beneath another.                                     *)
LEMMA InTheWay ==
    ASSUME Direct, Typed, Bounded, Remembered, pc = "pruning", NEW f \in stale
    PROVE  Unreachable(f) <=> ~ClearWay(f)
  <1>1. f \in previous \ Generated /\ f \in Path /\ f \in Seq(Name) /\ Ancestors(f) \subseteq Path
        /\ previous \subseteq Path
    BY PathAssumption DEF Bounded, Typed, TypeOK
  <1>2. Place(tree, f) = f
    BY <1>1, NoDetour
  <1>3. ASSUME NEW a \in Ancestors(f)
        PROVE  start[a] \in {"none", "dir"} <=> tree[a] \notin File \cup {"other"}
    <2>1. a \in Path /\ IsBeneath(f, a)
      BY <1>1, BeneathOrAncestor, PathAssumption
    <2>2. tree[a] \in Node \ {"link"} /\ start[a] \in Node \ {"link"}
      BY <1>1, <2>1, NoLinkAbove DEF Typed, TypeOK, Tree
    <2>3. ~PrunedAway(a)
      <3> SUFFICES ASSUME PrunedAway(a) PROVE FALSE
        OBVIOUS
      <3>1. PICK g \in previous \ Generated : a = Place(start, g)
        BY DEF PrunedAway
      <3>2. a = g
        BY <1>1, <3>1, NoDetour
      <3> QED
        BY <1>1, <2>1, <3>2 DEF Remembered, Apart
    <2>4. tree[a] = start[a] \/ (start[a] = "dir" /\ tree[a] = "none")
      BY <2>1, <2>2, <2>3 DEF Bounded, OnlyGone, TidiedAway
    <2> QED
      BY <2>2, <2>4 DEF Node, File, GeneratedFile
  <1> QED
    BY <1>2, <1>3 DEF Unreachable, ClearWay

LEMMA PruneSweeping ==
    ASSUME Direct, Typed, Bounded, Remembered, Sweeping, NEW f \in stale, Prune(f)
    PROVE  Sweeping'
  <1>1. /\ UNCHANGED <<manifest, left, previous, start, faulted, pc>> /\ pc = "pruning"
        /\ stale' = stale \ {f} /\ f \in Path /\ f \in previous \ Generated /\ f \in Seq(Name)
    BY PathAssumption DEF Prune, runVars, Bounded, Typed, TypeOK
  <1>2. Place(tree, f) = f
    BY <1>1, NoDetour
  <1>3. ClearWay(f)
    BY <1>1, InTheWay DEF Prune
  <1>4. CASE ~Removable(f)
    <2>1. UNCHANGED <<tree, emptied>> /\ tree[f] \notin File
      BY <1>4, <1>2 DEF Prune, Removable
    <2> QED
      BY <1>1, <1>3, <2>1, SweepStays DEF Sweeping, SoFarSwept, HasLost, MergeStage
  <1>5. CASE Removable(f)
    <2>1. emptied' = emptied \cup {Parent(f)} /\ tree[f] \in File
          /\ tree' = [tree EXCEPT ![f] = "none"]
      BY <1>5, <1>2 DEF Prune, Removable
    <2>2. \A p \in Path : tree'[p] = IF p = f THEN "none" ELSE tree[p]
      BY <2>1 DEF Typed, TypeOK, Tree
    <2>3. f # <<>> /\ tree[f] # "none"
      BY <1>1, <2>1, NothingInAFile DEF Typed, TypeOK, File, GeneratedFile
    <2>4. Gone(f)
      BY <1>1, <2>1, <2>3, LeftStanding DEF Gone
    <2>5. Holding(Parent(f))
      BY <1>1, <2>3, <2>4, BeneathParent DEF Holding
    <2>6. ASSUME NEW d \in Path, HasLost(d)' PROVE d \in emptied'
      <3>1. PICK c \in Path \ {<<>>} : Parent(c) = d /\ start[c] # "none" /\ tree'[c] = "none"
        BY <1>1, <2>6 DEF HasLost
      <3>2. CASE c = f
        BY <2>1, <3>1, <3>2
      <3>3. CASE c # f
        <4>1. HasLost(d)
          BY <2>2, <3>1, <3>3 DEF HasLost
        <4> QED
          BY <1>1, <2>1, <4>1 DEF Sweeping, SoFarSwept
      <3> QED
        BY <3>2, <3>3
    <2>7. \A g \in (previous \ Generated) \ stale' : ~faulted => ClearWay(g) /\ tree'[g] \notin File
      <3>1. \A g \in previous : g \in Path
        BY DEF Typed, TypeOK
      <3> QED
        BY <1>1, <1>3, <2>2, <3>1 DEF Sweeping, SoFarSwept, File, GeneratedFile
    <2>8. \A p \in Path : tree'[p] \in {start[p], SweptAt(p)}
      BY <1>1, <2>2, <2>4 DEF Sweeping, SoFarSwept, SweptAt
    <2>9. \A d \in emptied' : Holding(d)
      BY <1>1, <2>1, <2>5 DEF Sweeping, SoFarSwept
    <2> QED
      BY <1>1, <2>6, <2>7, <2>8, <2>9, SweepStays DEF Sweeping, SoFarSwept, MergeStage
  <1> QED
    BY <1>4, <1>5

LEMMA PruneFaultSweeping ==
    ASSUME Direct, Typed, Bounded, Remembered, Sweeping, NEW f \in stale, PruneFault(f)
    PROVE  Sweeping'
  <1>1. /\ UNCHANGED <<tree, manifest, left, previous, start, emptied, pc>> /\ pc = "pruning"
        /\ faulted' /\ f \in previous \ Generated
    BY DEF PruneFault, project, runVars, Bounded
  <1>2. "prune" \in Faults \/ ~ClearWay(f)
    BY <1>1, InTheWay DEF PruneFault
  <1> QED
    BY <1>1, <1>2, SweepStays DEF Sweeping, SoFarSwept, HasLost, MergeStage

LEMMA PrunedSweeping ==
    ASSUME Direct, Typed, Sweeping, Pruned
    PROVE  Sweeping'
  <1>1. CASE faulted
    BY <1>1, EndSweeping DEF Pruned, End
  <1>2. CASE ~faulted
    <2>1. /\ UNCHANGED <<tree, manifest, left, previous, start, emptied, faulted>>
          /\ pc = "pruning" /\ pc' = "tidying" /\ stale = {}
      BY <1>2 DEF Pruned, project, runVars, work
    <2>2. \A g \in previous \ Generated : ClearWay(g) /\ tree[g] \notin File
      BY <1>2, <2>1 DEF Sweeping, SoFarSwept
    <2>3. ASSUME NEW g \in Path, Gone(g) PROVE tree[g] = "none"
      BY <2>1, <2>2, <2>3, LeftStanding DEF Gone
    <2>4. \A d \in Path : HasLost(d) => d \in emptied
      BY <2>1 DEF Sweeping, SoFarSwept
    <2> QED
      BY <1>2, <2>1, <2>2, <2>3, <2>4, SweepStays DEF Sweeping, SoFarSwept, HasLost, MergeStage
  <1> QED
    BY <1>1, <1>2

(* The walk upward comes to directories that stand where they say, and     *)
(* takes away those that are bare.                                         *)
LEMMA WalkedTo ==
    ASSUME Direct, Typed, Bounded, pc = "tidying", NEW d \in emptied
    PROVE  /\ d \in Path /\ Place(tree, d) = d /\ start[d] = "dir"
           /\ d = Root \/ IsBeneath(d, Root)
           /\ Tidiable(d) <=> Bare(d) /\ tree[d] # "none"
  <1>1. d \in Path /\ Reached(d)
    BY DEF Bounded, OnlyGone, Typed, TypeOK
  <1>2. PICK f \in previous : IsBeneath(f, d)
    BY <1>1 DEF Reached
  <1>3. d \in Ancestors(f)
    BY <1>1, <1>2, BeneathOrAncestor, PathAssumption DEF Typed, TypeOK
  <1>4. Place(tree, d) = d /\ Place(start, d) = d /\ start[d] # "link"
    BY <1>3, NoLinkAbove
  <1> QED
    BY <1>1, <1>4 DEF Reached, Tidiable, Bare

(* It removes what had to go and nothing else.                             *)
LEMMA TidiableIsBared ==
    ASSUME Direct, Typed, Bounded, Sweeping, pc = "tidying", NEW d \in emptied, Tidiable(d)
    PROVE  BaredAt(d)
  <1>1. d \in Path /\ start[d] = "dir" /\ IsBeneath(d, Root) /\ d \notin Wanted /\ Empty(tree, d)
    BY WalkedTo DEF Bare
  <1>2. Holding(d)
    BY DEF Sweeping, SoFarSwept
  <1>3. ASSUME NEW q \in Path, IsBeneath(q, d), start[q] # "none"
        PROVE  Gone(q) \/ (start[q] = "dir" /\ Holding(q))
    <2>1. tree[q] = "none"
      BY <1>1, <1>3, NothingBeneathEmpty DEF Typed, TypeOK
    <2> QED
      BY <1>3, <2>1, LeftStanding DEF BaredAt
  <1> QED
    BY <1>1, <1>2, <1>3 DEF BaredAt

LEMMA TidySweeping ==
    ASSUME Direct, Typed, Bounded, Sweeping, NEW d \in emptied, Tidy(d)
    PROVE  Sweeping'
  <1>1. /\ UNCHANGED <<manifest, left, previous, start, faulted, pc>> /\ pc = "tidying"
        /\ d \in Path /\ d \in Seq(Name) /\ Place(tree, d) = d
        /\ Tidiable(d) <=> Bare(d) /\ tree[d] # "none"
    BY WalkedTo, PathAssumption DEF Tidy, runVars, Typed, TypeOK
  <1>2. CASE Tidiable(d)
    <2>1. tree' = [tree EXCEPT ![d] = "none"] /\ emptied' = (emptied \ {d}) \cup {Parent(d)}
      BY <1>1, <1>2 DEF Tidy, WalkedOn
    <2>2. \A p \in Path : tree'[p] = IF p = d THEN "none" ELSE tree[p]
      BY <2>1 DEF Typed, TypeOK, Tree
    <2>3. d # <<>> /\ BaredAt(d)
      BY <1>1, <1>2, TidiableIsBared DEF Bare
    <2>4. Holding(Parent(d))
      <3>1. PICK f \in Path : Gone(f) /\ IsBeneath(f, d)
        BY <2>3 DEF BaredAt, Holding
      <3>2. IsBeneath(f, Parent(d))
        BY <1>1, <2>3, <3>1, BeneathTheParentToo, PathAssumption
      <3> QED
        BY <3>1, <3>2 DEF Holding
    <2>5. ASSUME NEW e \in Path, HasLost(e)'
          PROVE  e \in emptied' \/ tree'[e] = "none" \/ ~Bare(e)' \/ "tidy" \in Faults
      <3>1. PICK c \in Path \ {<<>>} : Parent(c) = e /\ start[c] # "none" /\ tree'[c] = "none"
        BY <1>1, <2>5 DEF HasLost
      <3>2. CASE e = d \/ e = Parent(d)
        BY <2>1, <2>2, <3>2
      <3>3. CASE e # d /\ e # Parent(d)
        <4>1. HasLost(e)
          BY <2>2, <3>1, <3>3 DEF HasLost
        <4>2. e \in emptied \/ tree[e] = "none" \/ ~Bare(e) \/ "tidy" \in Faults
          BY <1>1, <4>1 DEF Sweeping, SoFarSwept
        <4>3. Bare(e)' => Bare(e)
          BY <1>1, <2>2, <3>3, PlanStays DEF Bare, Empty
        <4> QED
          BY <2>1, <2>2, <3>3, <4>2, <4>3
      <3> QED
        BY <3>2, <3>3
    <2>6. \A p \in Path : tree'[p] \in {start[p], SweptAt(p)}
      BY <1>1, <2>2, <2>3 DEF Sweeping, SoFarSwept, SweptAt
    <2>7. \A e \in emptied' : Holding(e)
      BY <1>1, <2>1, <2>4 DEF Sweeping, SoFarSwept
    <2>8. \A f \in Path : Gone(f) => tree'[f] = "none"
      BY <1>1, <2>2 DEF Sweeping, SoFarSwept
    <2> QED
      BY <1>1, <2>5, <2>6, <2>7, <2>8, SweepStays DEF Sweeping, SoFarSwept, MergeStage
  <1>3. CASE ~Tidiable(d)
    <2>1. UNCHANGED tree /\ emptied' = emptied \ {d}
      BY <1>3 DEF Tidy, WalkedOn
    <2>2. \A e : Bare(e)' <=> Bare(e)
      BY <1>1, <2>1, PlanStays DEF Bare, Empty
    <2>3. ASSUME NEW e \in Path, HasLost(e)
          PROVE  e \in emptied' \/ tree[e] = "none" \/ ~Bare(e) \/ "tidy" \in Faults
      BY <1>1, <1>3, <2>1, <2>3 DEF Sweeping, SoFarSwept
    <2> QED
      BY <1>1, <2>1, <2>2, <2>3, SweepStays DEF Sweeping, SoFarSwept, HasLost, MergeStage
  <1> QED
    BY <1>2, <1>3

LEMMA TidyFaultSweeping ==
    ASSUME Direct, Sweeping, NEW d \in emptied, TidyFault(d)
    PROVE  Sweeping'
  <1>1. /\ UNCHANGED <<tree, manifest, left, previous, start, faulted, pc>> /\ pc = "tidying"
        /\ emptied' \subseteq emptied /\ "tidy" \in Faults
    BY DEF TidyFault, project, runVars
  <1> QED
    BY <1>1, SweepStays DEF Sweeping, SoFarSwept, HasLost, MergeStage

(* From the merge on only what was clear has still to be known.            *)
LEMMA MergeSweeping ==
    ASSUME Direct, Sweeping, UNCHANGED <<manifest, left, previous, start, faulted>>,
           pc \in {"tidying"} \cup MergeStage, pc' \in MergeStage
    PROVE  Sweeping'
  BY SweepStays DEF Sweeping, SoFarSwept, MergeStage

(* A run that a link leads elsewhere is promised less.                     *)
LEMMA DetouredSweeping ==
    ASSUME ~Direct, Sweeping, [Next]_vars, pc \notin {"idle", "running"}
    PROVE  Sweeping'
  <1>1. \/ Forget
        \/ UNCHANGED <<manifest, left, previous, start>> /\ (faulted' => pc' = "pruning")
    BY DEF Next, Step, Merge, PersonEdits, Edit, RefuseToStart, Begin, GeneratorSucceeds, GeneratorFails,
       Collect, Plan, Prune, PruneFault, Pruned, Tidy, TidyFault, Tidied, MakeDirectory, Obstructed,
       WriteDirectory, WriteFile, WriteRecord, IsNext, Clear, Create, Fill, FilesystemFails, Signal,
       Killed, End, vars, project, runVars, work, fate, Sweeping
  <1>2. CASE Forget
    BY <1>2, EndSweeping
  <1>3. CASE UNCHANGED <<manifest, left, previous, start>> /\ (faulted' => pc' = "pruning")
    BY <1>3, DirectStays DEF Sweeping
  <1> QED
    BY <1>1, <1>2, <1>3

LEMMA StepSweeping ==
    Typed /\ Settled /\ Bounded /\ Remembered /\ Sweeping /\ [Next]_vars => Sweeping'
  <1> SUFFICES ASSUME Typed, Settled, Bounded, Remembered, Sweeping, [Next]_vars,
                      Direct \/ pc \in {"idle", "running"}
               PROVE  Sweeping'
    BY DetouredSweeping
  <1> USE DEF project, runVars, work, fate, End
  <1>1. CASE pc = "idle" \/ pc = "running"
    BY <1>1 DEF Sweeping, SoFarSwept, MergeStage, Next, Step, Merge, PersonEdits, Edit, RefuseToStart,
       Begin, GeneratorSucceeds, GeneratorFails, Collect, Forget, Plan, Prune, PruneFault, Pruned, Tidy,
       TidyFault, Tidied, MakeDirectory, Obstructed, WriteDirectory, WriteFile, WriteRecord, IsNext,
       Clear, Create, Fill, FilesystemFails, Signal, Killed, vars
  <1>2. CASE Plan
    <2>1. Direct
      BY <1>2 DEF Plan
    <2> QED
      BY <1>2, <2>1, PlanSweeping
  <1>3. CASE \E f \in stale : Prune(f)
    BY <1>3, PruneSweeping DEF Prune
  <1>4. CASE \E f \in stale : PruneFault(f)
    BY <1>4, PruneFaultSweeping DEF PruneFault
  <1>5. CASE Pruned
    BY <1>5, PrunedSweeping DEF Pruned
  <1>6. CASE \E d \in emptied : Tidy(d)
    BY <1>6, TidySweeping DEF Tidy
  <1>7. CASE \E d \in emptied : TidyFault(d)
    BY <1>7, TidyFaultSweeping DEF TidyFault
  <1>8. CASE Tidied
    BY <1>8, MergeSweeping DEF Tidied, MergeStage
  <1>9. CASE Merge
    <2>1. pc \in MergeStage
      BY <1>9 DEF Merge, MakeDirectory, Obstructed, WriteDirectory, WriteFile, WriteRecord, IsNext,
         Clear, Create, Fill, MergeStage
    <2>2. \/ Forget
          \/ UNCHANGED <<manifest, left, previous, start, faulted>> /\ pc' \in MergeStage
      BY <1>9 DEF Merge, MakeDirectory, Obstructed, WriteDirectory, WriteFile, WriteRecord, IsNext,
         Clear, Create, Fill, MergeStage
    <2>3. Direct
      BY <2>1 DEF MergeStage
    <2> QED
      BY <2>1, <2>2, <2>3, MergeSweeping, EndSweeping
  <1>10. CASE FilesystemFails \/ Killed
    BY <1>10, EndSweeping DEF FilesystemFails, Killed
  <1>11. CASE Signal /\ ~(pc = "idle" \/ pc = "running")
    BY <1>11, QuietSweeping DEF Signal
  <1>12. CASE UNCHANGED vars /\ ~(pc = "idle" \/ pc = "running")
    BY <1>12, QuietSweeping DEF vars
  <1> QED
    BY <1>1, <1>2, <1>3, <1>4, <1>5, <1>6, <1>7, <1>8, <1>9, <1>10, <1>11, <1>12
       DEF Next, Step, PersonEdits, Edit, RefuseToStart, Begin, GeneratorSucceeds, GeneratorFails, Collect

-----------------------------------------------------------------------------
(* The merge lays the plan down over what the sweep left.                  *)

(* What is left at p where the merge has not been.                         *)
Rest(p, node) == node = SweptAt(p) \/ ("tidy" \in Faults /\ node = start[p])

(* What was swept at p can make way for a file.                            *)
Clearable(p) == "tidy" \notin Faults /\ SweptAt(p) = "dir" =>
    p # Root /\ \A q \in Path \ {<<>>} : Parent(q) = p => SweptAt(q) = "none"

(* A planned file that merger.copy has not begun to put in place.          *)
Awaited(p) == ~Untargeted(p) \/ (pc = "clearing" /\ dest = p)
Laid(p) ==
    /\ Awaited(p) => Rest(p, tree[p])
    /\ ~Awaited(p) => Clearable(p)
    /\ ~Awaited(p) /\ ~Cleared(p) => tree[p] = "new"

(* A directory that mkdirAll has seen to.                                  *)
Based(d) == (Rest(d, "none") \/ Rest(d, "dir")) /\ (tree[d] = "dir" \/ Cleared(d))

Merging == pc \in MergeStage /\ Direct =>
    /\ pc \in CopyStage /\ dest = RecordPath => pending = {}
    /\ \A p \in Path \ Generated :
          \/ Cleared(p)
          \/ Rest(p, tree[p])
          \/ p \in Wanted /\ tree[p] = "dir" /\ Rest(p, "none")
    /\ \A p \in Generated : Laid(p)
    /\ \A pos \in Positions \ pending : \A d \in NeededDirs(Entry(pos)) : Based(d)
    /\ Cleared(RecordPath) => \A f \in Generated \cup Wanted : ~IsBeneath(f, RecordPath)

(* What is beneath a directory that goes is, if a directory, one that goes. *)
LEMMA BaredBeneath ==
    ASSUME Typed, NEW d \in Path, BaredAt(d), NEW q \in Path, IsBeneath(q, d),
           start[q] = "dir"
    PROVE  BaredAt(q)
  <1>1. d \in Seq(Name) /\ q \in Seq(Name) /\ Root \in Seq(Name) /\ \A r \in Path : r \in Seq(Name)
    BY PathAssumption, RootAssumption
  <1>2. IsBeneath(q, Root)
    BY <1>1, BeneathBeneath DEF BaredAt
  <1>3. q \notin Wanted
    BY <1>1, WantedAbove, BeneathOrAncestor DEF BaredAt
  <1>4. Holding(q)
    BY DEF BaredAt, Gone, File, GeneratedFile
  <1>5. ASSUME NEW r \in Path, IsBeneath(r, q), start[r] # "none"
        PROVE  Gone(r) \/ (start[r] = "dir" /\ Holding(r))
    BY <1>1, <1>5, BeneathBeneath DEF BaredAt
  <1> QED
    BY <1>2, <1>3, <1>4, <1>5 DEF BaredAt

(* When no directory is left to look at, and none could not be removed,    *)
(* every one that had to go has gone.                                      *)
LEMMA AllSwept ==
    ASSUME Direct, Typed, Bounded, Sweeping, pc = "tidying", emptied = {}, NEW p \in Path
    PROVE  Rest(p, tree[p])
  <1> DEFINE B == {d \in Path : BaredAt(d) /\ tree[d] # "none"}
  <1>1. SUFFICES ASSUME "tidy" \notin Faults, B # {} PROVE FALSE
    <2>1. CASE "tidy" \in Faults
      BY <2>1 DEF Rest, Sweeping, SoFarSwept
    <2>2. CASE B = {}
      BY <2>2 DEF Rest, Sweeping, SoFarSwept, SweptAt
    <2> QED
      BY <2>1, <2>2
  <1>2. PICK d \in B : \A e \in B : ~IsBeneath(e, d)
    <2> HIDE DEF B
    <2>1. B \in SUBSET Path
      BY DEF B
    <2> QED
      BY <1>1, <2>1, DeepestOf
  <1>3. d \in Path /\ BaredAt(d) /\ tree[d] # "none" /\ WellFormed(start) /\ d \in Seq(Name)
    BY <1>2, PathAssumption DEF Bounded
  <1>4. Empty(tree, d)
    <2> SUFFICES ASSUME NEW q \in Path, q # <<>>, Parent(q) = d, tree[q] # "none" PROVE FALSE
      BY DEF Empty
    <2>1. IsBeneath(q, d)
      BY PathAssumption, BeneathParent
    <2>2. start[q] = tree[q] /\ ~Gone(q)
      BY LeftStanding DEF Sweeping, SoFarSwept
    <2>3. start[q] = "dir"
      BY <1>3, <2>1, <2>2 DEF BaredAt
    <2>4. BaredAt(q)
      BY <1>3, <2>1, <2>3, BaredBeneath
    <2> QED
      BY <1>2, <2>1, <2>4
  <1>5. HasLost(d)
    <2>1. PICK f \in Path : Gone(f) /\ IsBeneath(f, d)
      BY <1>3 DEF BaredAt, Holding
    <2>2. PICK c \in Path : c # <<>> /\ Parent(c) = d /\ (c = f \/ c \in Ancestors(f))
      BY <1>3, <2>1, ChildTowards
    <2>3. start[f] # "none"
      BY <2>1 DEF Gone, File, GeneratedFile
    <2>4. start[c] # "none"
      BY <1>3, <2>2, <2>3 DEF WellFormed, File, GeneratedFile
    <2> QED
      BY <1>4, <2>2, <2>4 DEF Empty, HasLost
  <1>6. ~Bare(d)
    BY <1>1, <1>3, <1>5 DEF Sweeping, SoFarSwept
  <1>7. d # Root /\ d # <<>> /\ d \notin Wanted
    <2>1. Root \in Seq(Name) /\ Len(Root) \in Nat /\ Len(d) > Len(Root)
      BY <1>3, PathAssumption, RootAssumption DEF BaredAt, IsBeneath
    <2> QED
      BY <1>3, <2>1 DEF BaredAt
  <1> QED
    BY <1>4, <1>6, <1>7 DEF Bare

(* What may be at a path is settled with the plan as well.                 *)
LEMMA RestStays ==
    ASSUME UNCHANGED <<manifest, left, previous, start>>
    PROVE  /\ \A p, n : Rest(p, n)' <=> Rest(p, n)
           /\ \A p : Clearable(p)' <=> Clearable(p)
           /\ Generated' = Generated /\ Wanted' = Wanted /\ Positions' = Positions
           /\ \A pos : Entry(pos)' = Entry(pos) /\ NeededDirs(Entry(pos))' = NeededDirs(Entry(pos))
  BY SweepStays, PlanStays DEF Rest, Clearable, NeededDirs

(* A step that touches neither the tree nor what is still to be written.   *)
LEMMA QuietMerging ==
    ASSUME Direct, Merging, pc' = pc, UNCHANGED <<tree, manifest, left, previous, start, pending, dest>>
    PROVE  Merging'
  BY DirectStays, RestStays DEF Merging, Laid, Awaited, Untargeted, Based, Cleared

LEMMA TidiedMerging ==
    ASSUME Direct, Typed, Bounded, Sweeping, Tidied
    PROVE  Merging'
  <1>1. /\ UNCHANGED <<tree, manifest, left, previous, start>>
        /\ pc = "tidying" /\ pc' = "merging" /\ emptied = {} /\ pending' = Positions
    BY DEF Tidied, project, runVars
  <1>2. \A p \in Path : Rest(p, tree[p])
    BY <1>1, AllSwept
  <1>3. ASSUME NEW p \in Generated PROVE Laid(p)'
    <2>1. ~Untargeted(p)'
      BY <1>1, GeneratedPositions, RestStays DEF Untargeted
    <2> QED
      BY <1>1, <1>2, <2>1, GeneratedPaths, RestStays DEF Laid, Awaited
  <1> QED
    BY <1>1, <1>2, <1>3, RestStays DEF Merging, CopyStage, Cleared

LEMMA MakeDirectoryMerging ==
    ASSUME Direct, Typed, Settled, Bounded, Merging, NEW pos \in pending, NEW d \in Path,
           MakeDirectory(pos, d)
    PROVE  Merging'
  <1>1. d \in NeededDirs(Entry(pos)) /\ pos \in Positions /\ pc = "merging"
    BY DEF MakeDirectory, IsNext, Missing, Typed, TypeOK
  <1>2. Place(tree, d) = d
    BY <1>1, PlannedEntries, NoDetour
  <1>3. /\ UNCHANGED <<manifest, left, previous, start, pc, pending, dest>> /\ pc = "merging"
        /\ tree' = [tree EXCEPT ![d] = "dir"] /\ tree[d] = "none"
        /\ d \in NeededDirs(Entry(pos)) /\ pos \in Positions
    BY <1>1, <1>2 DEF MakeDirectory, IsNext, runVars, work
  <1>4. \A p \in Path : tree'[p] = IF p = d THEN "dir" ELSE tree[p]
    BY <1>3 DEF Typed, TypeOK, Tree
  <1>5. d \in Wanted /\ d \notin Generated /\ Generated \subseteq Path /\ Wanted \subseteq Path
    BY <1>3, PlannedEntries, FilesApart, GeneratedPaths, WantedPaths DEF Settled
  <1>6. Merging /\ pc \in MergeStage
    BY <1>3 DEF MergeStage
  <1>7. ASSUME NEW p \in Path \ Generated
        PROVE  \/ Cleared(p)'
               \/ Rest(p, tree'[p])
               \/ p \in Wanted /\ tree'[p] = "dir" /\ Rest(p, "none")
    <2>1. ~Cleared(p)
      BY <1>3 DEF Cleared
    <2> QED
      BY <1>3, <1>4, <1>5, <1>6, <2>1 DEF Merging
  <1>8. ASSUME NEW p \in Generated PROVE Laid(p)'
    <2>1. Laid(p) /\ tree'[p] = tree[p]
      BY <1>4, <1>5, <1>6 DEF Merging
    <2> QED
      BY <1>3, <2>1, RestStays DEF Laid, Awaited, Untargeted, Cleared
  <1>9. ASSUME NEW other \in Positions \ pending, NEW e \in NeededDirs(Entry(other)) PROVE Based(e)'
    <2>1. Based(e) /\ e \in Path
      BY <1>5, <1>6, PlannedEntries DEF Merging
    <2> QED
      BY <1>3, <1>4, <2>1, RestStays DEF Based, Cleared
  <1> QED
    BY <1>3, <1>7, <1>8, <1>9, RestStays DEF Merging, CopyStage, Cleared

(* Every entry of an accepted plan is one of its files or directories.     *)
LEMMA KindOfEntry ==
    ASSUME Typed, ~Refused, NEW pos \in Positions
    PROVE  /\ Entry(pos).kind \in {"file", "dir"}
           /\ Entry(pos).dest \in Generated \cup Wanted
           /\ \A d \in Required(pos[1]) : d \in Ancestors(Entry(pos).dest)
  <1>1. PICK i \in Generators : \E k \in DOMAIN left[i] : pos = <<i, k>>
    BY DEF Positions
  <1>2. PICK k \in DOMAIN left[i] : pos = <<i, k>>
    BY <1>1
  <1>3. Entry(pos) \in Produced(i) /\ Entry(pos).kind = left[i][k].kind
        /\ Entry(pos).dest = manifest[i] \o left[i][k].path /\ pos[1] = i
    BY <1>2 DEF Entry, Produced
  <1>4. left[i] \in Seq([path : Seq(Name) \ {<<>>}, kind : EntryKind]) /\ k \in 1 .. Len(left[i])
    BY <1>2, EntriesLeft, ManifestAssumption
  <1>5. left[i][k] \in [path : Seq(Name) \ {<<>>}, kind : EntryKind]
    BY <1>4, ElementOfSeq
  <1>6. Entry(pos).kind # "other"
    BY <1>3 DEF Refused, Unmergeable
  <1>7. Entry(pos).kind \in {"file", "dir"}
    BY <1>3, <1>5, <1>6 DEF EntryKind
  <1>8. Entry(pos).dest \in Generated \cup Wanted
    <2>1. CASE Entry(pos).kind = "file"
      BY <2>1, PlannedEntries
    <2>2. CASE Entry(pos).kind = "dir"
      <3>1. Entry(pos).dest \in NeededDirs(Entry(pos))
        BY <2>2 DEF NeededDirs
      <3> QED
        BY <3>1, PlannedEntries
    <2> QED
      BY <1>7, <2>1, <2>2
  <1>9. ASSUME NEW d \in Required(i) PROVE d \in Ancestors(Entry(pos).dest)
    <2> DEFINE out == manifest[i]
               rest == left[i][k].path
               p == out \o rest
    <2>1. out \in Seq(Name) /\ rest \in Seq(Name) /\ rest # <<>>
      BY <1>2, EntriesLeft
    <2>2. p \in Seq(Name) /\ Len(p) > Len(out) /\ out = SubSeq(p, 1, Len(out))
      <3> HIDE DEF out, rest
      <3>1. Len(rest) > 0
        BY <2>1
      <3> QED
        BY <2>1, <3>1
    <2>3. out \in Ancestors(p)
      <3> HIDE DEF out, p
      <3> QED
        BY <2>1, <2>2, AncestorIsBeginning
    <2>4. d = out \/ d \in Ancestors(out)
      BY <1>9 DEF Required
    <2> HIDE DEF out, p
    <2>5. d \in Ancestors(p)
      BY <2>2, <2>3, <2>4, AboveAnAncestor
    <2> QED
      BY <1>3, <2>5 DEF p, out
  <1> QED
    BY <1>3, <1>7, <1>8, <1>9

(* With no link on the way to any of them, mkdirAll's walk sees a directory *)
(* where one stands.                                                       *)
LEMMA SeenThere ==
    ASSUME Direct, Typed, Settled, Bounded, pc = "merging", NEW pos \in Positions,
           NEW d \in NeededDirs(Entry(pos))
    PROVE  d \in Path /\ Place(tree, d) = d /\ (DirThere(pos, d) <=> tree[d] = "dir")
  <1>1. ~Refused /\ d \in Wanted /\ d \in Path
    BY PlannedEntries, WantedPaths DEF Settled
  <1>2. Place(tree, d) = d
    BY <1>1, NoDetour
  <1>3. d \in Required(pos[1]) => tree[d] # "link"
    <2> SUFFICES ASSUME d \in Required(pos[1]) PROVE tree[d] # "link"
      OBVIOUS
    <2>1. PICK p \in Generated \cup Wanted : p \in Path /\ d \in Ancestors(p)
      BY <1>1, KindOfEntry, GeneratedPaths, WantedPaths
    <2>2. OnTheWay(tree, p) = {}
      BY <2>1, NoDetour
    <2> QED
      BY <2>1, <2>2 DEF OnTheWay
  <1> QED
    BY <1>1, <1>2, <1>3 DEF DirThere, Followed

(* The directories an entry needs are as they have to be once it is in     *)
(* place.                                                                  *)
LEMMA InPlaceIsBased ==
    ASSUME Direct, Typed, Settled, Bounded, Merging, pc = "merging", NEW pos \in Positions, InPlace(pos),
           NEW d \in NeededDirs(Entry(pos))
    PROVE  Based(d)
  <1>1. d \in Path \ Generated /\ tree[d] = "dir"
    BY PlannedEntries, FilesApart, SeenThere DEF Settled, InPlace
  <1> QED
    BY <1>1 DEF Merging, MergeStage, Cleared, Based

LEMMA WriteDirectoryMerging ==
    ASSUME Direct, Typed, Settled, Bounded, Merging, NEW pos \in pending, WriteDirectory(pos)
    PROVE  Merging'
  <1>1. /\ UNCHANGED <<tree, manifest, left, previous, start, pc, dest>> /\ pc = "merging"
        /\ pending' = pending \ {pos} /\ Entry(pos).kind = "dir" /\ InPlace(pos)
        /\ pos \in Positions /\ pc \in MergeStage
    BY DEF WriteDirectory, IsNext, project, runVars, Typed, TypeOK, MergeStage
  <1>2. \A p : Untargeted(p)' <=> Untargeted(p)
    BY <1>1, RestStays DEF Untargeted
  <1>3. \A p \in Generated : Laid(p)'
    BY <1>1, <1>2, RestStays DEF Merging, Laid, Awaited, Cleared
  <1>4. ASSUME NEW other \in Positions \ pending', NEW d \in NeededDirs(Entry(other)) PROVE Based(d)'
    <2>1. Based(d)
      BY <1>1, InPlaceIsBased DEF Merging
    <2> QED
      BY <1>1, <2>1, RestStays DEF Based, Cleared
  <1> QED
    BY <1>1, <1>3, <1>4, RestStays DEF Merging, CopyStage, Cleared

LEMMA WriteFileMerging ==
    ASSUME Direct, Typed, Settled, Bounded, Merging, NEW pos \in pending, WriteFile(pos)
    PROVE  Merging'
  <1>1. /\ UNCHANGED <<tree, manifest, left, previous, start>> /\ pc = "merging" /\ pc' = "clearing"
        /\ dest' = Entry(pos).dest /\ pending' = pending \ {pos} /\ Entry(pos).kind = "file"
        /\ InPlace(pos) /\ pos \in Positions /\ pc \in MergeStage /\ ~Refused
    BY DEF WriteFile, IsNext, project, runVars, Typed, TypeOK, MergeStage, Settled
  <1>2. dest' \in Generated /\ dest' # RecordPath
    BY <1>1, PlannedEntries DEF Refused, Recordable
  <1>3. \A p : Awaited(p)' <=> Awaited(p)
    BY <1>1, RestStays DEF Untargeted, Awaited
  <1>4. \A p \in Generated : Laid(p)'
    BY <1>1, <1>3, RestStays DEF Merging, Laid, Cleared
  <1>5. ASSUME NEW other \in Positions \ pending', NEW d \in NeededDirs(Entry(other)) PROVE Based(d)'
    <2>1. Based(d)
      BY <1>1, InPlaceIsBased DEF Merging
    <2> QED
      BY <1>1, <2>1, RestStays DEF Based, Cleared
  <1> QED
    BY <1>1, <1>2, <1>4, <1>5, RestStays DEF Merging, CopyStage, Cleared

LEMMA WriteRecordMerging ==
    ASSUME Direct, Settled, Merging, WriteRecord
    PROVE  Merging'
  <1>1. /\ UNCHANGED <<tree, manifest, left, previous, start, pending>> /\ pc = "merging"
        /\ pc' = "clearing" /\ dest' = RecordPath /\ pending = {} /\ pc \in MergeStage
    BY DEF WriteRecord, project, runVars, MergeStage
  <1>2. RecordPath \notin Generated
    BY <1>1 DEF Settled, Refused, Recordable
  <1>3. \A p \in Generated : Awaited(p)' <=> Awaited(p)
    BY <1>1, <1>2, RestStays DEF Untargeted, Awaited
  <1>4. \A p \in Generated : Laid(p)'
    BY <1>1, <1>3, RestStays DEF Merging, Laid, Cleared
  <1> QED
    BY <1>1, <1>4, RestStays DEF Merging, CopyStage, Cleared, Based

-----------------------------------------------------------------------------
(* A file that has to make way, and its successor.                         *)

LEMMA CopiedHere ==
    ASSUME Direct, Typed, Bounded, pc \in CopyStage
    PROVE  dest \in Path /\ dest \in Generated \cup {RecordPath} /\ Place(tree, dest) = dest
  <1>1. dest \in Path /\ dest \in Generated \cup {RecordPath} /\ pc # "idle"
    BY DEF Typed, TypeOK, Bounded, CopyStage
  <1> QED
    BY <1>1, NoDetour

(* What lies in a planned file's place, where a directory was found there, *)
(* is none of the plan's.                                                  *)
LEMMA ChildOfGenerated ==
    ASSUME Typed, ~Refused, NEW f \in Generated, NEW c \in Path \ {<<>>}, Parent(c) = f
    PROVE  c \notin Generated \cup Wanted
  <1>1. IsBeneath(c, f)
    BY PathAssumption, BeneathParent
  <1> QED
    BY <1>1, NothingBeneathGenerated

(* So if nothing stands in it, there was nothing to stand in it.           *)
LEMMA ClearedWasClearable ==
    ASSUME Direct, Typed, Settled, Merging, pc = "clearing", dest \in Generated, ~Occupied(dest)
    PROVE  Clearable(dest)
  <1> SUFFICES ASSUME "tidy" \notin Faults, SweptAt(dest) = "dir"
               PROVE  dest # Root /\ \A q \in Path \ {<<>>} : Parent(q) = dest => SweptAt(q) = "none"
    BY DEF Clearable
  <1>1. pc \in MergeStage /\ ~Refused
    BY DEF MergeStage, Settled
  <1>2. tree[dest] = "dir"
    BY <1>1 DEF Merging, Laid, Awaited, Rest
  <1>3. dest # Root /\ Empty(tree, dest)
    BY <1>2 DEF Occupied
  <1>4. ASSUME NEW q \in Path \ {<<>>}, Parent(q) = dest PROVE SweptAt(q) = "none"
    <2>1. q \notin Generated \cup Wanted
      BY <1>1, <1>4, ChildOfGenerated
    <2>2. tree[q] = "none"
      BY <1>3, <1>4 DEF Empty
    <2> QED
      BY <1>1, <2>1, <2>2 DEF Merging, Cleared, Rest
  <1> QED
    BY <1>3, <1>4

(* The record is removed only where the plan has nothing beneath it: what  *)
(* it had is there by then.                                                *)
LEMMA NothingBeneathRecord ==
    ASSUME Direct, Typed, Merging, pc = "clearing", dest = RecordPath, ~Occupied(RecordPath),
           NEW f \in Generated \cup Wanted
    PROVE  ~IsBeneath(f, RecordPath)
  <1> SUFFICES ASSUME IsBeneath(f, RecordPath) PROVE FALSE
    OBVIOUS
  <1>1. pending = {} /\ pc \in MergeStage
    BY DEF Merging, MergeStage, CopyStage
  <1>2. f \in Path /\ f \in Seq(Name) /\ RecordPath \in Path /\ RecordPath \in Seq(Name)
    BY GeneratedPaths, WantedPaths, PathAssumption, RootAssumption
  <1>3. f # RecordPath
    <2>1. Len(RecordPath) \in Nat
      BY <1>2
    <2> QED
      BY <2>1 DEF IsBeneath
  <1>4. tree[f] # "none"
    <2>1. CASE f \in Generated
      BY <1>1, <1>3, <2>1 DEF Merging, Laid, Awaited, Untargeted, Cleared
    <2>2. CASE f \in Wanted
      <3>1. PICK pos \in Positions : f \in NeededDirs(Entry(pos))
        BY <2>2 DEF Wanted
      <3> QED
        BY <1>1, <3>1 DEF Merging, Based, Cleared
    <2> QED
      BY <2>1, <2>2
  <1>5. tree[RecordPath] = "dir"
    BY <1>2, <1>4, BeneathOrAncestor DEF Typed, TypeOK, WellFormed
  <1>6. Empty(tree, RecordPath)
    BY <1>5 DEF Occupied
  <1> QED
    BY <1>2, <1>4, <1>6, NothingBeneathEmpty DEF Typed, TypeOK

LEMMA EndMerging == Forget => Merging'
  BY DEF Forget, Merging, MergeStage

LEMMA ClearMerging ==
    ASSUME Direct, Typed, Settled, Bounded, Orderly, Merging, Clear
    PROVE  Merging'
  <1>1. Place(tree, dest) = dest
    BY CopiedHere DEF Clear, CopyStage
  <1>2. CASE Occupied(dest)
    BY <1>2, <1>1, EndMerging DEF Clear, End
  <1>3. CASE ~Occupied(dest)
    <2>1. /\ UNCHANGED <<manifest, left, previous, start, pending, dest>> /\ pc = "clearing"
          /\ pc' = "creating" /\ tree' = [tree EXCEPT ![dest] = "none"]
          /\ pc \in MergeStage /\ pc \in CopyStage
      BY <1>3, <1>1 DEF Clear, runVars, work, MergeStage, CopyStage
    <2>2. \A p \in Path : tree'[p] = IF p = dest THEN "none" ELSE tree[p]
      BY <2>1 DEF Typed, TypeOK, Tree
    <2>3. \A p : Cleared(p)' <=> p = dest
      BY <2>1 DEF Cleared
    <2>4. \A p : Untargeted(p)' <=> Untargeted(p)
      BY <2>1, RestStays DEF Untargeted
    <2>5. Generated \subseteq Path /\ Wanted \subseteq Path
      BY GeneratedPaths, WantedPaths
    <2>6. ASSUME NEW p \in Path \ Generated
          PROVE  \/ Cleared(p)'
                 \/ Rest(p, tree'[p])
                 \/ p \in Wanted /\ tree'[p] = "dir" /\ Rest(p, "none")
      BY <2>1, <2>2, <2>3 DEF Merging, Cleared
    <2>7. ASSUME NEW p \in Generated PROVE Laid(p)'
      <3>1. CASE p = dest
        <4>1. ~Awaited(p)'
          BY <2>1, <2>4, <3>1 DEF Orderly, Awaited
        <4>2. Clearable(p)
          BY <1>3, <2>1, <3>1, ClearedWasClearable
        <4> QED
          BY <2>1, <2>3, <3>1, <4>1, <4>2, RestStays DEF Laid
      <3>2. CASE p # dest
        <4>1. Laid(p) /\ (Awaited(p)' <=> Awaited(p)) /\ ~Cleared(p)
          BY <2>1, <2>4, <3>2 DEF Merging, Awaited, Cleared
        <4> QED
          BY <2>1, <2>2, <2>5, <3>2, <4>1, RestStays DEF Laid
      <3> QED
        BY <3>1, <3>2
    <2>8. ASSUME NEW pos \in Positions \ pending, NEW d \in NeededDirs(Entry(pos)) PROVE Based(d)'
      <3>1. Based(d) /\ d \in Path
        BY <2>1, <2>5, PlannedEntries DEF Merging
      <3> QED
        BY <2>1, <2>2, <2>3, <3>1, RestStays DEF Based, Cleared
    <2>9. dest = RecordPath => \A f \in Generated \cup Wanted : ~IsBeneath(f, RecordPath)
      BY <1>3, <2>1, NothingBeneathRecord
    <2>10. dest = RecordPath => pending = {}
      BY <2>1 DEF Merging
    <2> QED
      BY <2>1, <2>3, <2>6, <2>7, <2>8, <2>9, <2>10, RestStays DEF Merging
  <1> QED
    BY <1>2, <1>3

LEMMA CreateMerging ==
    ASSUME Direct, Typed, Bounded, Orderly, Merging, Create
    PROVE  Merging'
  <1>1. Place(tree, dest) = dest
    BY CopiedHere DEF Create, CopyStage
  <1>2. /\ UNCHANGED <<manifest, left, previous, start, pending, dest>> /\ pc = "creating"
        /\ pc' = "filling" /\ tree' = [tree EXCEPT ![dest] = "newpart"]
        /\ pc \in MergeStage /\ pc \in CopyStage
    BY <1>1 DEF Create, runVars, work, MergeStage, CopyStage
  <1>3. \A p \in Path : p # dest => tree'[p] = tree[p]
    BY <1>2 DEF Typed, TypeOK, Tree
  <1>4. \A p : Cleared(p)' <=> Cleared(p)
    BY <1>2 DEF Cleared
  <1>5. \A p : Awaited(p)' <=> Awaited(p)
    BY <1>2, RestStays DEF Untargeted, Awaited
  <1>6. Generated \subseteq Path /\ Wanted \subseteq Path
    BY GeneratedPaths, WantedPaths
  <1>7. \A p \in Path : ~Cleared(p) => tree'[p] = tree[p]
    BY <1>2, <1>3 DEF Cleared
  <1>8. ASSUME NEW p \in Path \ Generated
        PROVE  \/ Cleared(p)'
               \/ Rest(p, tree'[p])
               \/ p \in Wanted /\ tree'[p] = "dir" /\ Rest(p, "none")
    BY <1>2, <1>4, <1>7 DEF Merging
  <1>9. ASSUME NEW p \in Generated PROVE Laid(p)'
    <2>1. Laid(p)
      BY <1>2 DEF Merging
    <2>2. CASE Cleared(p)
      <3>1. ~Awaited(p)
        BY <1>2, <2>2 DEF Orderly, Awaited, Cleared
      <3> QED
        BY <1>2, <1>4, <1>5, <2>1, <2>2, <3>1, RestStays DEF Laid
    <2>3. CASE ~Cleared(p)
      BY <1>2, <1>4, <1>5, <1>6, <1>7, <2>1, <2>3, RestStays DEF Laid
    <2> QED
      BY <2>2, <2>3
  <1>10. ASSUME NEW pos \in Positions \ pending, NEW d \in NeededDirs(Entry(pos)) PROVE Based(d)'
    <2>1. Based(d) /\ d \in Path
      BY <1>2, <1>6, PlannedEntries DEF Merging
    <2> QED
      BY <1>2, <1>4, <1>7, <2>1, RestStays DEF Based
  <1>11. /\ dest = RecordPath => pending = {}
         /\ Cleared(RecordPath) => \A f \in Generated \cup Wanted : ~IsBeneath(f, RecordPath)
    BY <1>2 DEF Merging
  <1> QED
    BY <1>2, <1>4, <1>8, <1>9, <1>10, <1>11, RestStays DEF Merging

LEMMA FillMerging ==
    ASSUME Direct, Typed, Settled, Bounded, Orderly, Merging, Fill
    PROVE  Merging'
  <1>1. Place(tree, dest) = dest
    BY CopiedHere DEF Fill, CopyStage
  <1>2. CASE dest = RecordPath
    BY <1>2, EndMerging DEF Fill, End
  <1>3. CASE dest # RecordPath
    <2>1. /\ UNCHANGED <<manifest, left, previous, start, pending, dest>> /\ pc = "filling"
          /\ pc' = "merging" /\ tree' = [tree EXCEPT ![dest] = "new"]
          /\ pc \in MergeStage /\ pc \in CopyStage /\ ~Refused
      BY <1>1, <1>3 DEF Fill, runVars, work, MergeStage, CopyStage, Settled
    <2>2. \A p \in Path : tree'[p] = IF p = dest THEN "new" ELSE tree[p]
      BY <2>1 DEF Typed, TypeOK, Tree
    <2>3. \A p : (Cleared(p) <=> p = dest) /\ ~Cleared(p)'
      BY <2>1 DEF Cleared
    <2>4. \A p : Awaited(p)' <=> Awaited(p)
      BY <2>1, RestStays DEF Untargeted, Awaited
    <2>5. Generated \subseteq Path /\ Wanted \subseteq Path /\ dest \in Generated
          /\ Generated \cap Wanted = {}
      BY <1>3, <2>1, GeneratedPaths, WantedPaths, FilesApart DEF Bounded
    <2>6. ASSUME NEW p \in Path \ Generated
          PROVE  \/ Rest(p, tree'[p])
                 \/ p \in Wanted /\ tree'[p] = "dir" /\ Rest(p, "none")
      BY <2>1, <2>2, <2>3, <2>5 DEF Merging
    <2>7. ASSUME NEW p \in Generated PROVE Laid(p)'
      <3>1. Laid(p)
        BY <2>1 DEF Merging
      <3>2. CASE p = dest
        <4>1. ~Awaited(p)
          BY <2>1, <3>2 DEF Orderly, Awaited
        <4> QED
          BY <2>1, <2>2, <2>4, <2>5, <3>1, <3>2, <4>1, RestStays DEF Laid
      <3>3. CASE p # dest
        BY <2>1, <2>2, <2>3, <2>4, <2>5, <3>1, <3>3, RestStays DEF Laid
      <3> QED
        BY <3>2, <3>3
    <2>8. ASSUME NEW pos \in Positions \ pending, NEW d \in NeededDirs(Entry(pos)) PROVE Based(d)'
      <3>1. Based(d) /\ d \in Path /\ d # dest
        BY <2>1, <2>5, PlannedEntries DEF Merging
      <3> QED
        BY <2>1, <2>2, <2>3, <3>1, RestStays DEF Based
    <2> QED
      BY <2>1, <2>3, <2>6, <2>7, <2>8, RestStays DEF Merging, CopyStage
  <1> QED
    BY <1>2, <1>3

(* No stage of the merge is reached but from the one before it, with the   *)
(* plan as it was.                                                         *)
LEMMA OnlyFromMerge ==
    ASSUME Typed, [Next]_vars, pc' \in MergeStage
    PROVE  /\ UNCHANGED <<manifest, left, previous, start>>
           /\ Tidied \/ Merge \/ Signal \/ UNCHANGED vars
  <1> USE DEF MergeStage, Forget, End, project, runVars, work, fate
  <1>1. ASSUME PersonEdits \/ RefuseToStart PROVE FALSE
    BY <1>1 DEF PersonEdits, Edit, RefuseToStart
  <1>2. ASSUME \E m \in Manifest : Begin(m) PROVE FALSE
    BY <1>2 DEF Begin
  <1>3. ASSUME \E i \in Generators : (\E l \in Leaving : GeneratorSucceeds(i, l)) \/ GeneratorFails(i)
        PROVE  FALSE
    BY <1>3 DEF GeneratorSucceeds, GeneratorFails
  <1>4. ASSUME Collect \/ Plan \/ Pruned PROVE FALSE
    BY <1>4 DEF Collect, Plan, Pruned
  <1>5. ASSUME \E f \in stale : Prune(f) \/ PruneFault(f) PROVE FALSE
    BY <1>5 DEF Prune, PruneFault
  <1>6. ASSUME \E d \in emptied : Tidy(d) \/ TidyFault(d) PROVE FALSE
    BY <1>6 DEF Tidy, TidyFault
  <1>7. ASSUME FilesystemFails \/ Killed PROVE FALSE
    BY <1>7 DEF FilesystemFails, Killed
  <1>8. CASE Tidied \/ Signal \/ UNCHANGED vars
    BY <1>8 DEF Tidied, Signal, vars
  <1>9. CASE Merge
    BY <1>9 DEF Merge, MakeDirectory, Obstructed, WriteDirectory, WriteFile, WriteRecord, IsNext,
       Clear, Create, Fill
  <1> QED
    BY <1>1, <1>2, <1>3, <1>4, <1>5, <1>6, <1>7, <1>8, <1>9 DEF Next, Step

LEMMA StepMerging ==
    Typed /\ Settled /\ Bounded /\ Orderly /\ Sweeping /\ Merging /\ [Next]_vars => Merging'
  <1> SUFFICES ASSUME Typed, Settled, Bounded, Orderly, Sweeping, Merging, [Next]_vars,
                      pc' \in MergeStage, Direct'
               PROVE  Merging'
    BY DEF Merging
  <1>1. Direct
    BY OnlyFromMerge, DirectStays
  <1>2. CASE Tidied
    BY <1>1, <1>2, TidiedMerging
  <1>3. CASE Merge
    <2>1. CASE \E pos \in pending, d \in Path : MakeDirectory(pos, d)
      BY <1>1, <2>1, MakeDirectoryMerging
    <2>2. CASE \E pos \in pending, d \in Path : Obstructed(pos, d)
      BY <2>2, EndMerging DEF Obstructed, End
    <2>3. CASE \E pos \in pending : WriteDirectory(pos)
      BY <1>1, <2>3, WriteDirectoryMerging
    <2>4. CASE \E pos \in pending : WriteFile(pos)
      BY <1>1, <2>4, WriteFileMerging
    <2>5. CASE WriteRecord
      BY <1>1, <2>5, WriteRecordMerging
    <2>6. CASE Clear
      BY <1>1, <2>6, ClearMerging
    <2>7. CASE Create
      BY <1>1, <2>7, CreateMerging
    <2>8. CASE Fill
      BY <1>1, <2>8, FillMerging
    <2> QED
      BY <1>3, <2>1, <2>2, <2>3, <2>4, <2>5, <2>6, <2>7, <2>8 DEF Merge
  <1>4. CASE Signal
    BY <1>1, <1>4, QuietMerging DEF Signal, project, runVars, work
  <1>5. CASE UNCHANGED vars
    BY <1>1, <1>5, QuietMerging DEF vars, project, runVars, work
  <1> QED
    BY <1>2, <1>3, <1>4, <1>5, OnlyFromMerge

-----------------------------------------------------------------------------
(* What the promise makes of a state.                                      *)

(* The plan of this run, as the promise knows it.                          *)
ThePlan == [files |-> Generated, dirs |-> Wanted]

(* What is told of a node.                                                 *)
Told(n) == IF n \in {"old", "new"} THEN "gen" ELSE IF n \in {"oldpart", "newpart"} THEN "part" ELSE n

(* The plan is made of what the generators left.                           *)
LEMMA PlanIs ==
    ASSUME Typed, ~Refused
    PROVE  PlanOf(manifest, left) = ThePlan
  <1> DEFINE D == UNION {PlannedDirs(i) : i \in Generators}
             F == UNION {Landed(manifest, left, i, "file") : i \in DOMAIN manifest}
             E == UNION {Landed(manifest, left, i, "dir") : i \in DOMAIN manifest}
  <1>1. F = Generated
    BY LandedIsPlanned DEF Generated, Generators
  <1>2. E = D
    BY LandedIsPlanned DEF Generators
  <1>3. ASSUME NEW d \in D PROVE \E pos \in Positions : Entry(pos).kind = "dir" /\ Entry(pos).dest = d
    <2>1. PICK i \in Generators : d \in PlannedDirs(i)
      OBVIOUS
    <2>2. PICK e \in Produced(i) : e.kind = "dir" /\ d = e.dest
      BY <2>1 DEF PlannedDirs
    <2>3. PICK k \in DOMAIN left[i] :
             e = [dest |-> manifest[i] \o left[i][k].path, kind |-> left[i][k].kind]
      BY DEF Produced
    <2>4. <<i, k>> \in Positions /\ Entry(<<i, k>>) = e
      BY <2>3 DEF Positions, Entry
    <2> QED
      BY <2>2, <2>4
  <1>4. D \subseteq Wanted
    BY <1>3 DEF NeededDirs, Wanted
  <1>5. ASSUME NEW p \in Generated \cup D PROVE Ancestors(p) \subseteq Wanted
    BY <1>4, <1>5, WantedAbove
  <1>6. ASSUME NEW w \in Wanted
        PROVE  w \in D \cup UNION {Ancestors(p) : p \in Generated \cup D}
    <2>1. PICK pos \in Positions : w \in NeededDirs(Entry(pos))
      BY DEF Wanted
    <2>2. PICK i \in Generators : \E k \in DOMAIN left[i] : pos = <<i, k>>
      BY DEF Positions
    <2>3. PICK k \in DOMAIN left[i] : pos = <<i, k>>
      BY <2>2
    <2>4. Entry(pos) \in Produced(i)
      BY <2>3 DEF Entry, Produced
    <2>5. Entry(pos).kind \in {"file", "dir"}
      BY KindOfEntry
    <2>6. CASE Entry(pos).kind = "file"
      BY <2>1, <2>6, PlannedEntries DEF NeededDirs
    <2>7. CASE Entry(pos).kind = "dir"
      <3>1. Entry(pos).dest \in D
        BY <2>4, <2>7 DEF PlannedDirs
      <3> QED
        BY <2>1, <3>1 DEF NeededDirs
    <2> QED
      BY <2>5, <2>6, <2>7
  <1>7. D \cup UNION {Ancestors(p) : p \in Generated \cup D} = Wanted
    BY <1>4, <1>5, <1>6
  <1>8. PlanOf(manifest, left) = [files |-> F, dirs |-> E \cup UNION {Ancestors(p) : p \in F \cup E}]
    BY DEF PlanOf
  <1> HIDE DEF D, E, F
  <1> QED
    BY <1>1, <1>2, <1>7, <1>8 DEF ThePlan

(* And it is one of those the promise knows.                               *)
LEMMA PlanIsOne ==
    ASSUME Typed, Settled, Remembered, pc \notin {"idle", "running", "planning"}
    PROVE  ThePlan \in AllPlans
  <1>1. AllSucceeded /\ ~Refused /\ manifest \in Manifest
    BY DEF Settled, Remembered
  <1>2. left \in Choices(manifest)
    <2>1. \A i \in Generators : left[i] \in Leaving
      BY <1>1 DEF AllSucceeded, Remembered
    <2>2. left \in [DOMAIN manifest -> Leaving]
      BY <2>1 DEF Typed, TypeOK, Generators
    <2>3. ASSUME NEW i \in DOMAIN manifest, NEW k \in DOMAIN left[i]
          PROVE  manifest[i] \o left[i][k].path \in Path
      <3>1. <<i, k>> \in Positions
        BY DEF Positions, Generators
      <3> QED
        BY <3>1 DEF Typed, Landing, Entry
    <2> QED
      BY <2>2, <2>3 DEF Choices
  <1>3. Acceptable(manifest, left) /\ PlanOf(manifest, left) = ThePlan
    BY <1>1, NotRefused, PlanIs
  <1> QED
    BY <1>1, <1>2, <1>3 DEF AllPlans

(* The promise's names for paths are the names here.                       *)
LEMMA SameNames ==
    /\ Promise!RecordPath = RecordPath
    /\ \A p : Promise!Ancestors(p) = Ancestors(p) /\ Promise!Parent(p) = Parent(p)
    /\ \A p, q : Promise!IsBeneath(p, q) <=> IsBeneath(p, q)
    /\ \A t, d : Promise!Empty(t, d) <=> Empty(t, d)
  BY DEF Promise!RecordPath, RecordPath, Promise!Ancestors, Ancestors, Promise!Parent, Parent,
     Promise!IsBeneath, IsBeneath, Promise!Empty, Empty

LEMMA SeenIs ==
    ASSUME NEW t
    PROVE  /\ \A p \in Path : Seen(t)[p] = Told(t[p])
           /\ Seen(t) = [p \in Path |-> Told(t[p])]
  BY DEF Seen, Told

LEMMA ToldIs ==
    ASSUME NEW n \in Node
    PROVE  /\ Told(n) = "none" <=> n = "none"
           /\ Told(n) = "dir" <=> n = "dir"
           /\ Told(n) = "link" <=> n = "link"
           /\ Told(n) \in {"hand", "gen", "part"} <=> n \in File
  BY DEF Told, Node, File, GeneratedFile

(* The promise sees the same links, and sees paths lead to the same places. *)
LEMMA PlacesAre ==
    ASSUME NEW t \in Tree, NEW p \in Path
    PROVE  /\ Promise!OnTheWay(Seen(t), p) = OnTheWay(t, p)
           /\ Promise!Place(Seen(t), p) = Place(t, p)
  <1>1. Ancestors(p) \subseteq Path
    BY PathAssumption
  <1>2. \A a \in Path : Seen(t)[a] = "link" <=> t[a] = "link"
    BY SeenIs, ToldIs DEF Tree
  <1>3. Promise!OnTheWay(Seen(t), p) = OnTheWay(t, p)
    BY <1>1, <1>2, SameNames DEF Promise!OnTheWay, OnTheWay
  <1>4. \A l : Promise!Beyond(l, p) = Beyond(l, p)
    BY DEF Promise!Beyond, Beyond
  <1> QED
    BY <1>3, <1>4 DEF Promise!Place, Place

LEMMA DetouredIs ==
    ASSUME Typed, pc # "idle"
    PROVE  Promise!Detoured(ThePlan) <=> ~Direct
  <1>1. previous \cup Generated \cup Wanted \subseteq Path /\ start \in Tree
    BY GeneratedPaths, WantedPaths DEF Typed, TypeOK
  <1>2. \A p \in previous \cup Generated \cup Wanted :
            Promise!OnTheWay(Seen(start), p) = OnTheWay(start, p)
    BY <1>1, PlacesAre
  <1> QED
    BY <1>2 DEF Promise!Detoured, Direct, ThePlan

LEMMA StaleIs ==
    ASSUME Typed, pc # "idle"
    PROVE  /\ Promise!Stale(ThePlan) = {f \in Path : Gone(f)}
           /\ \A f : f \in Promise!Stale(ThePlan) <=> Gone(f)
  <1>1. ASSUME NEW f \in previous PROVE Promise!IsFile(Seen(start)[f]) <=> start[f] \in File
    <2>1. f \in Path /\ start[f] \in Node
      BY DEF Typed, TypeOK, Tree
    <2> QED
      BY <2>1, SeenIs, ToldIs DEF Promise!IsFile
  <1>2. previous \subseteq Path
    BY DEF Typed, TypeOK
  <1> QED
    BY <1>1, <1>2 DEF Promise!Stale, Gone, ThePlan

LEMMA BaredIs ==
    ASSUME Typed, pc # "idle", NEW d \in Path
    PROVE  Promise!Bared(d, ThePlan) <=> BaredAt(d)
  <1>1. \A q \in Path : (Seen(start)[q] = "dir" <=> start[q] = "dir")
                        /\ (Seen(start)[q] = "none" <=> start[q] = "none")
    BY SeenIs, ToldIs DEF Typed, TypeOK, Tree
  <1>2. \A q : (\E f \in Promise!Stale(ThePlan) : IsBeneath(f, q)) <=> Holding(q)
    BY StaleIs DEF Holding
  <1> QED
    BY <1>1, <1>2, StaleIs, SameNames DEF Promise!Bared, BaredAt, ThePlan

LEMMA SweptIs ==
    ASSUME Typed, pc # "idle"
    PROVE  /\ Promise!Swept(ThePlan) = [p \in Path |-> Told(SweptAt(p))]
           /\ \A p \in Path : Promise!Swept(ThePlan)[p] = Told(SweptAt(p))
  <1>1. \A p \in Path : (p \in Promise!Stale(ThePlan) \/ Promise!Bared(p, ThePlan))
                            <=> (Gone(p) \/ BaredAt(p))
    BY StaleIs, BaredIs
  <1>2. \A p \in Path : (IF p \in Promise!Stale(ThePlan) \/ Promise!Bared(p, ThePlan)
                           THEN "none" ELSE Seen(start)[p]) = Told(SweptAt(p))
    BY <1>1, SeenIs DEF SweptAt, Told
  <1>3. Promise!Swept(ThePlan) = [p \in Path |-> IF p \in Promise!Stale(ThePlan) \/ Promise!Bared(p, ThePlan)
                           THEN "none" ELSE Seen(start)[p]]
    BY DEF Promise!Swept
  <1> QED
    BY <1>2, <1>3

LEMMA SweptTyped ==
    ASSUME Typed, NEW p \in Path
    PROVE  SweptAt(p) \in Node /\ (SweptAt(p) = "none" \/ SweptAt(p) = start[p])
  BY DEF Typed, TypeOK, Tree, SweptAt, Node

(* What hinders a run, in the terms of its own state.                      *)
LEMMA HinderedIs ==
    ASSUME Typed, pc # "idle"
    PROVE  Promise!Hindered(ThePlan) <=>
             \/ \E f \in previous \ Generated : ~ClearWay(f)
             \/ \E d \in Wanted : SweptAt(d) \notin {"none", "dir"}
             \/ \E f \in Generated \cup {RecordPath} : SweptAt(f) = "dir" /\
                  (f = Root \/ \E q \in Path \ {<<>>} : Parent(q) = f /\ SweptAt(q) # "none")
             \/ \E f \in Generated \cup Wanted : IsBeneath(f, RecordPath)
  <1>1. \A f \in previous : Ancestors(f) \subseteq Path
    BY PathAssumption DEF Typed, TypeOK
  <1>2. \A a \in Path : Seen(start)[a] \in {"none", "dir"} <=> start[a] \in {"none", "dir"}
    BY SeenIs, ToldIs DEF Typed, TypeOK, Tree
  <1>3. \A f \in previous : (\E a \in Ancestors(f) : Seen(start)[a] \notin {"none", "dir"}) <=> ~ClearWay(f)
    BY <1>1, <1>2 DEF ClearWay
  <1>4. \A p \in Path : /\ Promise!Swept(ThePlan)[p] = "none" <=> SweptAt(p) = "none"
                        /\ Promise!Swept(ThePlan)[p] = "dir" <=> SweptAt(p) = "dir"
    BY SweptIs, SweptTyped, ToldIs
  <1>5. \A f : ~Empty(Promise!Swept(ThePlan), f)
                  <=> \E q \in Path \ {<<>>} : Parent(q) = f /\ SweptAt(q) # "none"
    BY <1>4 DEF Empty
  <1>6. Generated \cup {RecordPath} \subseteq Path /\ Wanted \subseteq Path
    BY GeneratedPaths, WantedPaths, RootAssumption
  <1>7. Promise!Hindered(ThePlan) <=>
             \/ \E f \in previous \ Generated : \E a \in Ancestors(f) : Seen(start)[a] \notin {"none", "dir"}
             \/ \E d \in Wanted : Promise!Swept(ThePlan)[d] \notin {"none", "dir"}
             \/ \E f \in Generated \cup {RecordPath} : Promise!Swept(ThePlan)[f] = "dir" /\
                  (f = Root \/ ~Empty(Promise!Swept(ThePlan), f))
             \/ \E f \in Generated \cup Wanted : IsBeneath(f, RecordPath)
    BY SameNames DEF Promise!Hindered, ThePlan
  <1> QED
    BY <1>3, <1>4, <1>5, <1>6, <1>7

LEMMA LegibleIs ==
    ASSUME Remembered, pc # "idle"
    PROVE  Promise!Legible
  <1>1. start[RecordPath] \in {"none", "old"}
    BY DEF Remembered
  <1> QED
    BY <1>1, RootAssumption, SeenIs, SameNames DEF Promise!Legible, Told

-----------------------------------------------------------------------------
(* A run that broke off, one that did nothing, one that goes on.           *)

(* Everything a run knows of itself.                                       *)
Keeping == Typed /\ Settled /\ Bounded /\ Orderly /\ Remembered /\ Sweeping /\ Merging

PastVerdict == pc \notin {"idle", "running", "planning"}

MaySo == Kills \/ Faults # {}

(* All that can be different from what a direct run found.                 *)
LEMMA PermittedDirect ==
    ASSUME Keeping, Direct, PastVerdict, NEW p \in Path, tree[p] # start[p]
    PROVE  \/ p \in Generated \cup {RecordPath} /\ tree[p] \in {"none", "new", "newpart"}
           \/ p \in Wanted /\ tree[p] = "dir"
           \/ Gone(p) /\ tree[p] = "none"
           \/ BaredAt(p) /\ tree[p] = "none"
  <1> USE DEF Keeping
  <1>1. CASE pc \in {"pruning", "tidying"}
    BY <1>1, LeftStanding DEF Sweeping, SoFarSwept, SweptAt
  <1>2. CASE pc \in MergeStage
    <2>1. ASSUME Rest(p, tree[p])
          PROVE  (Gone(p) \/ BaredAt(p)) /\ tree[p] = "none"
      BY <2>1 DEF Rest, SweptAt
    <2>2. ASSUME Cleared(p)
          PROVE  p \in Generated \cup {RecordPath} /\ tree[p] \in {"none", "newpart"}
      <3>1. pc \in CopyStage /\ dest = p
        BY <2>2 DEF Cleared, CopyStage
      <3>2. p \in Generated \cup {RecordPath} /\ Place(tree, dest) = p
        BY <3>1, CopiedHere
      <3> QED
        BY <2>2, <3>2 DEF Cleared, Typed, Copying
    <2>3. CASE p \in Generated
      BY <1>2, <2>1, <2>2, <2>3 DEF Merging, Laid
    <2>4. CASE p \notin Generated
      BY <1>2, <2>1, <2>2, <2>4 DEF Merging
    <2> QED
      BY <2>3, <2>4
  <1> QED
    BY <1>1, <1>2 DEF PastVerdict, Typed, TypeOK, Stage, MergeStage

(* All that can be different from what any run found.                      *)
LEMMA Permitted ==
    ASSUME Keeping, PastVerdict, NEW p \in Path, tree[p] # start[p]
    PROVE  \/ /\ \E f \in Generated \cup {RecordPath} : p = Place(start, f)
              /\ tree[p] \in {"none", "new", "newpart"}
           \/ (\E d \in Wanted : p = Place(start, d)) /\ tree[p] = "dir"
           \/ (\E f \in previous \ Generated : p = Place(start, f)) /\ start[p] \in File /\ tree[p] = "none"
           \/ Direct /\ BaredAt(p) /\ tree[p] = "none"
           \/ ~Direct /\ TidiedAway(p)
  <1> USE DEF Keeping
  <1>1. pc # "idle"
    BY DEF PastVerdict
  <1>2. CASE Direct
    <2>1. \A q \in Generated \cup Wanted \cup previous \cup {RecordPath} : Place(start, q) = q
      BY <1>1, <1>2, NoDetour, GeneratedPaths, WantedPaths, RootAssumption DEF Typed, TypeOK
    <2> QED
      BY <1>2, <2>1, PermittedDirect DEF Gone
  <1>3. CASE ~Direct
    <2>1. tree[p] \in {"none", "dir", "new", "newpart"}
      BY <1>1 DEF Remembered
    <2>2. tree[p] = "dir" => \E d \in Wanted : p = Place(start, d)
      BY <1>1 DEF Orderly
    <2>3. Written(p) \/ Made(p) \/ PrunedAway(p) \/ TidiedAway(p)
      BY <1>1 DEF Bounded, Confined
    <2>4. ASSUME Written(p)
          PROVE  \/ /\ \E f \in Generated \cup {RecordPath} : p = Place(start, f)
                    /\ tree[p] \in {"none", "new", "newpart"}
                 \/ (\E d \in Wanted : p = Place(start, d)) /\ tree[p] = "dir"
      BY <2>1, <2>2, <2>4 DEF Written
    <2> QED
      BY <1>3, <2>3, <2>4 DEF Made, PrunedAway
  <1> QED
    BY <1>2, <1>3

(* The record's own place is swept of nothing.                             *)
LEMMA RecordNotSwept ==
    ASSUME Keeping, pc # "idle"
    PROVE  SweptAt(RecordPath) = start[RecordPath] /\ start[RecordPath] # "dir"
  BY DEF Keeping, Remembered, Bounded, Recordable, SweptAt, Gone, BaredAt

(* It is as it was, or what is there is no record.                         *)
LEMMA RecordIs ==
    ASSUME Keeping, PastVerdict
    PROVE  \/ tree[RecordPath] = start[RecordPath] /\ listed = previous
           \/ Told(tree[RecordPath]) \notin {Told(start[RecordPath]), "gen"} /\ listed = {}
  <1> USE DEF Keeping
  <1>1. RecordPath \in Path /\ pc # "idle" /\ start[RecordPath] \in {"none", "old"}
    BY RootAssumption DEF PastVerdict, Remembered
  <1>2. CASE Cleared(RecordPath)
    <2>1. Place(tree, RecordPath) = RecordPath
      BY <1>1, TopStays DEF Typed, TypeOK
    <2>2. tree[RecordPath] \in {"none", "newpart"} /\ listed = {}
      BY <1>1, <1>2, <2>1 DEF Cleared, Typed, Copying, Remembered
    <2> QED
      BY <1>1, <2>2 DEF Told, Remembered
  <1>3. CASE ~Cleared(RecordPath)
    BY <1>1, <1>3 DEF Remembered, Told
  <1> QED
    BY <1>2, <1>3

(* What may have happened to one path, as the promise has it.              *)
MayBecome(p, n) ==
    \/ p \in Promise!LedTo(ThePlan.files) \cup {RecordPath} /\ n \in {"none", "gen", "part"}
    \/ p \in Promise!LedTo(ThePlan.dirs) /\ n = "dir"
    \/ /\ p \in Promise!LedTo(previous \ ThePlan.files)
       /\ Promise!IsFile(Seen(start)[p]) /\ n = "none"
    \/ (Promise!Bared(p, ThePlan) \/ Promise!BaredByDetour(p, ThePlan)) /\ n = "none"

LEMMA LedToIs ==
    ASSUME Typed, pc # "idle", NEW P \in SUBSET Path, NEW p
    PROVE  p \in Promise!LedTo(P) <=> \E q \in P : p = Place(start, q)
  <1>1. start \in Tree
    BY DEF Typed, TypeOK
  <1>2. \A q \in P : Promise!Place(Seen(start), q) = Place(start, q)
    BY <1>1, PlacesAre
  <1>3. Promise!LedTo(P) = {Promise!Place(Seen(start), q) : q \in P}
    BY DEF Promise!LedTo
  <1> QED
    BY <1>2, <1>3

LEMMA BaredByDetourIs ==
    ASSUME Typed, pc # "idle", NEW d \in Path, ~Direct, TidiedAway(d)
    PROVE  Promise!BaredByDetour(d, ThePlan)
  <1>1. start \in Tree /\ Promise!Detoured(ThePlan)
    BY DetouredIs DEF Typed, TypeOK
  <1>2. Seen(start)[d] \in {"dir", "link"}
    BY <1>1, SeenIs, ToldIs DEF TidiedAway, Tree
  <1>3. PICK e \in Path \ Wanted : /\ d = Place(start, e)
                                   /\ IsBeneath(e, Root)
                                   /\ \E f \in previous \ Generated : IsBeneath(f, e)
    BY DEF TidiedAway
  <1>4. d = Promise!Place(Seen(start), e)
    BY <1>1, <1>3, PlacesAre
  <1> QED
    BY <1>1, <1>2, <1>3, <1>4, SameNames DEF Promise!BaredByDetour, ThePlan

LEMMA ChangesPermitted ==
    ASSUME Keeping, PastVerdict, NEW p \in Path, tree[p] # start[p]
    PROVE  MayBecome(p, Told(tree[p]))
  <1> USE DEF Keeping
  <1>1. pc # "idle" /\ start \in Tree
    BY DEF PastVerdict, Typed, TypeOK
  <1>2. Generated \subseteq Path /\ Wanted \subseteq Path /\ previous \ Generated \subseteq Path
    BY GeneratedPaths, WantedPaths DEF Typed, TypeOK
  <1>3. ASSUME \E f \in Generated \cup {RecordPath} : p = Place(start, f)
        PROVE  p \in Promise!LedTo(ThePlan.files) \cup {RecordPath}
    <2>1. Place(start, RecordPath) = RecordPath
      BY <1>1, TopStays, RootAssumption DEF Bounded
    <2> QED
      BY <1>1, <1>2, <1>3, <2>1, LedToIs DEF ThePlan
  <1>4. ASSUME \E d \in Wanted : p = Place(start, d)
        PROVE  p \in Promise!LedTo(ThePlan.dirs)
    BY <1>1, <1>2, <1>4, LedToIs DEF ThePlan
  <1>5. ASSUME \E f \in previous \ Generated : p = Place(start, f), start[p] \in File
        PROVE  p \in Promise!LedTo(previous \ ThePlan.files) /\ Promise!IsFile(Seen(start)[p])
    <2>1. Promise!IsFile(Seen(start)[p])
      BY <1>1, <1>5, SeenIs, ToldIs DEF Tree, Promise!IsFile
    <2> QED
      BY <1>1, <1>2, <1>5, <2>1, LedToIs DEF ThePlan
  <1>6. CASE (\E f \in Generated \cup {RecordPath} : p = Place(start, f)) /\ tree[p] \in {"none", "new", "newpart"}
    BY <1>3, <1>6 DEF MayBecome, Told
  <1>7. CASE (\E d \in Wanted : p = Place(start, d)) /\ tree[p] = "dir"
    BY <1>4, <1>7 DEF MayBecome, Told
  <1>8. CASE (\E f \in previous \ Generated : p = Place(start, f)) /\ start[p] \in File /\ tree[p] = "none"
    BY <1>5, <1>8 DEF MayBecome, Told
  <1>9. CASE Direct /\ BaredAt(p) /\ tree[p] = "none"
    BY <1>1, <1>9, BaredIs DEF MayBecome, Told
  <1>10. CASE ~Direct /\ TidiedAway(p)
    BY <1>1, <1>10, BaredByDetourIs DEF MayBecome, Told, TidiedAway
  <1> QED
    BY <1>6, <1>7, <1>8, <1>9, <1>10, Permitted

(* A run past its verdict that ends with nothing more done has broken off, *)
(* and that only where the filesystem may fail it, it was hindered or a    *)
(* link led it elsewhere.                                                  *)
LEMMA Breaks ==
    ASSUME Keeping, PastVerdict, pc' = "idle", UNCHANGED project,
           MaySo \/ Promise!Hindered(ThePlan) \/ Promise!Detoured(ThePlan)
    PROVE  Promise!Next
  <1>1. pc # "idle" /\ UNCHANGED <<tree, listed>> /\ Typed
    BY DEF PastVerdict, project, Keeping
  <1>2. ThePlan \in AllPlans
    BY PlanIsOne DEF Keeping, PastVerdict
  <1>3. Promise!Legible
    BY <1>1, LegibleIs DEF Keeping
  <1>4. ASSUME NEW p \in Path, Seen(tree)[p] # Seen(start)[p]
        PROVE  MayBecome(p, Seen(tree)[p])
    <2>1. tree[p] # start[p] /\ Seen(tree)[p] = Told(tree[p])
      BY <1>4, SeenIs
    <2> QED
      BY <2>1, ChangesPermitted
  <1>5. \/ Seen(tree)[RecordPath] = Seen(start)[RecordPath] /\ listed = previous
        \/ Seen(tree)[RecordPath] \notin {Seen(start)[RecordPath], "gen"} /\ listed = {}
    BY RecordIs, RootAssumption, SeenIs
  <1>6. Promise!Break(ThePlan)
    BY <1>1, <1>3, <1>4, <1>5, SameNames DEF Promise!Break, MayBecome, MaySo
  <1> QED
    BY <1>2, <1>6 DEF Promise!Next

(* A run that ends before its verdict has done nothing.                    *)
LEMMA Nothing ==
    ASSUME Keeping, pc \in {"running", "planning"}, pc' = "idle", UNCHANGED project
    PROVE  UNCHANGED Promise!vars
  <1>1. tree = start /\ listed = previous /\ UNCHANGED <<tree, listed>>
    BY DEF Keeping, Settled, Remembered, Cleared, project
  <1> QED
    BY <1>1 DEF Promise!vars

(* Nor is anything to be seen of a run that goes on.                       *)
LEMMA GoesOn ==
    ASSUME pc # "idle", pc' # "idle", UNCHANGED <<start, previous>>
    PROVE  UNCHANGED Promise!vars
  BY DEF Promise!vars

LEMMA Begins ==
    ASSUME NEW m \in Manifest, Begin(m)
    PROVE  UNCHANGED Promise!vars
  <1>1. pc = "idle" /\ pc' = "running" /\ start' = Aged(tree) /\ previous' = listed
    BY DEF Begin
  <1>2. Seen(Aged(tree)) = Seen(tree)
    BY DEF Seen, Aged
  <1> QED
    BY <1>1, <1>2 DEF Promise!vars

LEMMA Edits ==
    ASSUME Typed, PersonEdits
    PROVE  Promise!Next
  <1>1. PICK p \in HandPath, node \in {"none", "dir", "hand", "link", "other"} : Edit(p, node)
    BY DEF PersonEdits
  <1>2. p \in Path /\ p # <<>> /\ Parent(p) \in Path
    BY PersonAssumption, ParentInPath
  <1>3. pc = "idle" /\ pc' = "idle"
    BY <1>1 DEF Edit
  <1>4. tree' = [tree EXCEPT ![p] = node] /\ tree[Parent(p)] = "dir"
        /\ (tree[p] = "dir" => Empty(tree, p)) /\ listed' = IF p = RecordPath THEN {} ELSE listed
    BY <1>1 DEF Edit
  <1>5. \A q \in Path : /\ Seen(tree)[q] = "dir" <=> tree[q] = "dir"
                        /\ Seen(tree)[q] = "none" <=> tree[q] = "none"
    BY SeenIs, ToldIs DEF Typed, TypeOK, Tree
  <1>6. Empty(tree, p) => Empty(Seen(tree), p)
    BY <1>5 DEF Empty
  <1>7. Seen(tree') = [Seen(tree) EXCEPT ![p] = node]
    <2>1. \A q \in Path : tree'[q] = IF q = p THEN node ELSE tree[q]
      BY <1>2, <1>4 DEF Typed, TypeOK, Tree
    <2> QED
      BY <1>2, <2>1 DEF Seen
  <1>8. Promise!Edit(p, node)
    BY <1>2, <1>3, <1>4, <1>5, <1>6, <1>7, SameNames DEF Promise!Edit
  <1> QED
    BY <1>8 DEF Promise!Next

-----------------------------------------------------------------------------
(* A run that regenerates the project; every step keeps the promise.       *)

(* What stops a direct run that the filesystem does not fail hinders it.   *)
LEMMA FaultedHindered ==
    ASSUME Keeping, Direct, pc = "pruning", faulted
    PROVE  MaySo \/ Promise!Hindered(ThePlan)
  BY HinderedIs DEF Keeping, Sweeping, SoFarSwept, MaySo

LEMMA ObstructedHindered ==
    ASSUME Keeping, Direct, NEW pos \in pending, NEW d \in Path, Obstructed(pos, d)
    PROVE  MaySo \/ Promise!Hindered(ThePlan)
  <1> USE DEF Keeping
  <1>1. /\ pc = "merging" /\ pos \in Positions /\ d \in NeededDirs(Entry(pos))
        /\ ~DirThere(pos, d) /\ tree[Place(tree, d)] # "none"
    BY DEF Obstructed, IsNext, Missing, Typed, TypeOK
  <1>2. d \in Wanted /\ d \notin Generated /\ tree[d] \notin {"none", "dir"}
    BY <1>1, PlannedEntries, FilesApart, SeenThere DEF Settled
  <1>3. Rest(d, tree[d])
    BY <1>1, <1>2 DEF Merging, MergeStage, Cleared
  <1> QED
    BY <1>1, <1>2, <1>3, HinderedIs DEF Rest, MaySo

LEMMA OccupiedHindered ==
    ASSUME Keeping, Direct, pc = "clearing", Occupied(Place(tree, dest))
    PROVE  MaySo \/ Promise!Hindered(ThePlan)
  <1> SUFFICES ASSUME ~MaySo PROVE Promise!Hindered(ThePlan)
    OBVIOUS
  <1> USE DEF Keeping
  <1>1. Occupied(dest) /\ dest \in Generated \cup {RecordPath}
    BY CopiedHere DEF CopyStage
  <1>2. /\ pc \in MergeStage /\ ~Refused /\ tree[dest] = "dir"
        /\ \A p, n : Rest(p, n) => n = SweptAt(p)
        /\ \A p : ~Cleared(p)
    BY <1>1 DEF MergeStage, Settled, Occupied, Rest, MaySo, Cleared
  <1>3. dest = Root \/ \E q \in Path \ {<<>>} : Parent(q) = dest /\ tree[q] # "none"
    BY <1>1 DEF Occupied, Empty
  <1>4. ASSUME NEW q \in Path \ (Generated \cup Wanted) PROVE tree[q] = SweptAt(q)
    BY <1>2 DEF Merging
  <1>5. CASE dest \in Generated
    <2>1. SweptAt(dest) = "dir"
      BY <1>2, <1>5 DEF Merging, Laid, Awaited
    <2>2. ASSUME NEW q \in Path \ {<<>>}, Parent(q) = dest PROVE tree[q] = SweptAt(q)
      BY <1>2, <1>4, <1>5, <2>2, ChildOfGenerated
    <2> QED
      BY <1>3, <1>5, <2>1, <2>2, HinderedIs
  <1>6. CASE dest = RecordPath
    <2>1. RecordPath # Root /\ RecordPath \in Path /\ RecordPath \in Seq(Name)
      <3>1. Parent(RecordPath) = Root /\ RecordPath # <<>> /\ RecordPath \in Path
        BY RecordAtRoot, RootAssumption
      <3> QED
        BY <3>1, ParentInPath, PathAssumption
    <2>2. PICK q \in Path \ {<<>>} : Parent(q) = RecordPath /\ tree[q] # "none"
      BY <1>3, <1>6, <2>1
    <2>3. q \in Generated \cup Wanted
      <3> SUFFICES ASSUME q \notin Generated \cup Wanted PROVE FALSE
        OBVIOUS
      <3>1. start[q] # "none"
        BY <1>4, <2>2, SweptTyped
      <3>2. start[RecordPath] = "dir"
        BY <2>1, <2>2, <3>1, ParentIsAncestor, PathAssumption DEF Bounded, WellFormed, MergeStage
      <3> QED
        BY <3>2, RecordNotSwept
    <2>4. IsBeneath(q, RecordPath)
      BY <2>2, PathAssumption, BeneathParent
    <2> QED
      BY <2>3, <2>4, HinderedIs
  <1> QED
    BY <1>5, <1>6, <1>1

(* With the record in place the project is what the promise says of it,    *)
(* unless a link led the run elsewhere.                                    *)
LEMMA RegeneratedDirectly ==
    ASSUME Keeping, Direct, ~MaySo, Fill, dest = RecordPath
    PROVE  Promise!Next
  <1> USE DEF Keeping
  <1>1. /\ pc = "filling" /\ pc' = "idle" /\ listed' = Generated /\ PastVerdict /\ pc # "idle"
        /\ ~Refused
        /\ pc \in MergeStage /\ pc \in CopyStage /\ pending = {} /\ RecordPath \in Path
    BY RootAssumption DEF Fill, End, Forget, Recorded, PastVerdict, MergeStage, CopyStage, Merging,
       Settled
  <1>2. \A p \in Path : tree'[p] = IF p = RecordPath THEN "new" ELSE tree[p]
    <2>1. Place(tree, dest) = RecordPath
      BY <1>1, TopStays DEF Typed, TypeOK
    <2>2. tree' = [tree EXCEPT ![RecordPath] = "new"]
      BY <2>1 DEF Fill
    <2> QED
      BY <2>2 DEF Typed, TypeOK, Tree
  <1>3. ThePlan \in AllPlans /\ Promise!Legible
    BY <1>1, PlanIsOne, LegibleIs DEF PastVerdict
  <1>4. \A p : Cleared(p) <=> p = RecordPath
    BY <1>1 DEF Cleared
  <1>5. Generated \subseteq Path /\ Wanted \subseteq Path /\ RecordPath \notin Generated
    BY <1>1, GeneratedPaths, WantedPaths DEF Refused, Recordable
  <1>6. \A p : ~Awaited(p)
    BY <1>1 DEF Awaited, Untargeted
  <1>7. \A p \in Generated : tree[p] = "new" /\ Clearable(p)
    BY <1>1, <1>4, <1>5, <1>6 DEF Merging, Laid
  <1>8. \A d \in Wanted : (Rest(d, "none") \/ Rest(d, "dir")) /\ (tree[d] = "dir" \/ d = RecordPath)
    BY <1>1, <1>4 DEF Wanted, Merging, Based
  <1>9. ASSUME NEW p \in Path, p \notin Generated \cup Wanted \cup {RecordPath} PROVE Rest(p, tree[p])
    BY <1>1, <1>4, <1>9 DEF Merging
  <1>10. \A p, n : Rest(p, n) => n = SweptAt(p)
    BY DEF Rest, MaySo
  <1>11. ~Promise!Hindered(ThePlan) /\ ~Promise!Detoured(ThePlan)
    <2>1. \A f \in previous \ Generated : ClearWay(f)
      BY <1>1 DEF Sweeping, SoFarSwept
    <2>2. \A d \in Wanted : SweptAt(d) \in {"none", "dir"}
      BY <1>8, <1>10
    <2>3. \A f \in Generated : SweptAt(f) = "dir" =>
             f # Root /\ \A q \in Path \ {<<>>} : Parent(q) = f => SweptAt(q) = "none"
      BY <1>7 DEF Clearable, MaySo
    <2>4. SweptAt(RecordPath) # "dir"
      BY <1>1, RecordNotSwept
    <2>5. \A f \in Generated \cup Wanted : ~IsBeneath(f, RecordPath)
      BY <1>1, <1>4 DEF Merging
    <2>6. ~Promise!Detoured(ThePlan)
      BY <1>1, DetouredIs
    <2> QED
      BY <1>1, <2>1, <2>2, <2>3, <2>4, <2>5, <2>6, HinderedIs
  <1>12. ASSUME NEW p \in Path
         PROVE  Told(tree'[p]) = IF p \in Generated \cup {RecordPath} THEN "gen"
                                 ELSE IF p \in Wanted THEN "dir" ELSE Promise!Swept(ThePlan)[p]
    <2>1. CASE p \in Generated \cup {RecordPath}
      BY <1>2, <1>7, <2>1 DEF Told
    <2>2. CASE p \notin Generated \cup {RecordPath} /\ p \in Wanted
      BY <1>2, <1>8, <2>2 DEF Told
    <2>3. CASE p \notin Generated \cup {RecordPath} \cup Wanted
      <3>1. tree'[p] = SweptAt(p)
        BY <1>2, <1>9, <1>10, <2>3
      <3> QED
        BY <1>1, <2>3, <3>1, SweptIs
    <2> QED
      BY <2>1, <2>2, <2>3
  <1>13. Seen(tree') = [p \in Path |-> IF p \in Generated \cup {RecordPath} THEN "gen"
                                       ELSE IF p \in Wanted THEN "dir" ELSE Promise!Swept(ThePlan)[p]]
    <2>1. Seen(tree') = [p \in Path |-> Told(tree'[p])]
      BY SeenIs
    <2> QED
      BY <1>12, <2>1
  <1>14. Promise!Regenerate(ThePlan)
    BY <1>1, <1>3, <1>11, <1>13, SameNames DEF Promise!Regenerate, ThePlan
  <1> QED
    BY <1>3, <1>14 DEF Promise!Next

(* In any case it is what the promise allows.                              *)
LEMMA Regenerated ==
    ASSUME Keeping, Fill, dest = RecordPath
    PROVE  Promise!Next
  <1> USE DEF Keeping
  <1>1. /\ pc = "filling" /\ pc' = "idle" /\ listed' = Generated /\ PastVerdict /\ pc # "idle"
        /\ ~Refused /\ pc \in MergeStage /\ pc \in CopyStage /\ RecordPath \in Path
    BY RootAssumption DEF Fill, End, Forget, Recorded, PastVerdict, MergeStage, CopyStage, Settled
  <1>2. \A p \in Path : tree'[p] = IF p = RecordPath THEN "new" ELSE tree[p]
    <2>1. Place(tree, dest) = RecordPath
      BY <1>1, TopStays DEF Typed, TypeOK
    <2>2. tree' = [tree EXCEPT ![RecordPath] = "new"]
      BY <2>1 DEF Fill
    <2> QED
      BY <2>2 DEF Typed, TypeOK, Tree
  <1>3. ThePlan \in AllPlans /\ Promise!Legible
    BY <1>1, PlanIsOne, LegibleIs DEF PastVerdict
  <1>4. CASE MaySo \/ ~Direct
    <2>1. ASSUME NEW p \in Path, Seen(tree')[p] # Seen(start)[p]
          PROVE  MayBecome(p, Seen(tree')[p])
      <3>1. Seen(tree')[p] = Told(tree'[p]) /\ tree'[p] # start[p]
        BY <2>1, SeenIs
      <3>2. CASE p = RecordPath
        BY <1>2, <3>1, <3>2 DEF Told, MayBecome
      <3>3. CASE p # RecordPath
        <4>1. tree'[p] = tree[p] /\ tree[p] # start[p]
          BY <1>2, <3>1, <3>3
        <4> QED
          BY <1>1, <3>1, <4>1, ChangesPermitted
      <3> QED
        BY <3>2, <3>3
    <2>2. Seen(tree')[RecordPath] = "gen"
      BY <1>1, <1>2, SeenIs DEF Told
    <2>3. MaySo \/ Promise!Detoured(ThePlan)
      BY <1>1, <1>4, DetouredIs
    <2>4. ThePlan.files = Generated
      BY DEF ThePlan
    <2>5. Promise!Break(ThePlan)
      BY <1>1, <1>3, <2>1, <2>2, <2>3, <2>4, SameNames DEF Promise!Break, MayBecome, MaySo
    <2> QED
      BY <1>3, <2>5 DEF Promise!Next
  <1>5. CASE ~MaySo /\ Direct
    BY <1>5, RegeneratedDirectly
  <1> QED
    BY <1>4, <1>5

(* Every step of a run is one of the promise's or shows nothing.           *)
LEMMA StepPromised == Keeping /\ [Next]_vars => [Promise!Next]_(Promise!vars)
  <1> SUFFICES ASSUME Keeping, [Next]_vars PROVE Promise!Next \/ UNCHANGED Promise!vars
    OBVIOUS
  <1> USE DEF project, runVars, work, fate, End, Forget
  <1>1. CASE PersonEdits
    BY <1>1, Edits DEF Keeping
  <1>2. CASE RefuseToStart
    BY <1>2 DEF RefuseToStart, Promise!vars
  <1>3. CASE \E m \in Manifest : Begin(m)
    BY <1>3, Begins
  <1>4. CASE \E i \in Generators : (\E l \in Leaving : GeneratorSucceeds(i, l)) \/ GeneratorFails(i)
    BY <1>4, GoesOn DEF GeneratorSucceeds, GeneratorFails
  <1>5. CASE Collect
    BY <1>5, GoesOn, Nothing DEF Collect
  <1>6. CASE Plan
    BY <1>6, GoesOn, Nothing DEF Plan
  <1>7. CASE \E f \in stale : Prune(f) \/ PruneFault(f)
    BY <1>7, GoesOn DEF Prune, PruneFault
  <1>8. CASE Pruned
    <2>1. pc # "idle" /\ pc = "pruning" /\ UNCHANGED <<tree, listed>>
      BY <1>8 DEF Pruned
    <2>2. CASE faulted
      <3>1. MaySo \/ Promise!Hindered(ThePlan) \/ Promise!Detoured(ThePlan)
        BY <2>1, <2>2, FaultedHindered, DetouredIs DEF Keeping
      <3> QED
        BY <1>8, <2>1, <2>2, <3>1, Breaks DEF Pruned, PastVerdict
    <2>3. CASE ~faulted
      BY <1>8, <2>3, GoesOn DEF Pruned
    <2> QED
      BY <2>2, <2>3
  <1>9. CASE \E d \in emptied : Tidy(d) \/ TidyFault(d)
    BY <1>9, GoesOn DEF Tidy, TidyFault
  <1>10. CASE Tidied
    BY <1>10, GoesOn DEF Tidied
  <1>11. CASE Merge
    <2>1. CASE \E pos \in pending, d \in Path : MakeDirectory(pos, d)
      BY <2>1, GoesOn DEF MakeDirectory, IsNext
    <2>2. CASE \E pos \in pending, d \in Path : Obstructed(pos, d)
      <3>1. PICK pos \in pending, d \in Path : Obstructed(pos, d)
        BY <2>2
      <3>2. pc = "merging" /\ pc' = "idle" /\ UNCHANGED <<tree, listed>>
        BY <3>1 DEF Obstructed, IsNext
      <3>3. MaySo \/ Promise!Hindered(ThePlan) \/ Promise!Detoured(ThePlan)
        BY <3>1, <3>2, ObstructedHindered, DetouredIs DEF Keeping
      <3> QED
        BY <3>2, <3>3, Breaks DEF PastVerdict
    <2>3. CASE \E pos \in pending : WriteDirectory(pos) \/ WriteFile(pos)
      BY <2>3, GoesOn DEF WriteDirectory, WriteFile, IsNext
    <2>4. CASE WriteRecord
      BY <2>4, GoesOn DEF WriteRecord
    <2>5. CASE Clear
      <3>1. CASE Occupied(Place(tree, dest))
        <4>1. pc = "clearing" /\ pc' = "idle" /\ UNCHANGED <<tree, listed>>
          BY <2>5, <3>1 DEF Clear
        <4>2. MaySo \/ Promise!Hindered(ThePlan) \/ Promise!Detoured(ThePlan)
          BY <3>1, <4>1, OccupiedHindered, DetouredIs DEF Keeping
        <4> QED
          BY <4>1, <4>2, Breaks DEF PastVerdict
      <3>2. CASE ~Occupied(Place(tree, dest))
        BY <2>5, <3>2, GoesOn DEF Clear
      <3> QED
        BY <3>1, <3>2
    <2>6. CASE Create
      BY <2>6, GoesOn DEF Create
    <2>7. CASE Fill
      BY <2>7, GoesOn, Regenerated DEF Fill
    <2> QED
      BY <1>11, <2>1, <2>2, <2>3, <2>4, <2>5, <2>6, <2>7 DEF Merge
  <1>12. CASE FilesystemFails
    <2>1. MaySo /\ pc' = "idle" /\ UNCHANGED project
      BY <1>12 DEF FilesystemFails, MaySo
    <2>2. pc = "planning" \/ PastVerdict
      BY <1>12 DEF FilesystemFails, PastVerdict
    <2> QED
      BY <2>1, <2>2, Nothing, Breaks
  <1>13. CASE Signal
    BY <1>13, GoesOn DEF Signal
  <1>14. CASE Killed
    <2>1. MaySo /\ pc' = "idle" /\ UNCHANGED project /\ pc # "idle"
      BY <1>14 DEF Killed, MaySo
    <2>2. pc \in {"running", "planning"} \/ PastVerdict
      BY <2>1 DEF PastVerdict
    <2> QED
      BY <2>1, <2>2, Nothing, Breaks
  <1>15. CASE UNCHANGED vars
    BY <1>15 DEF vars, Promise!vars
  <1> QED
    BY <1>1, <1>2, <1>3, <1>4, <1>5, <1>6, <1>7, <1>8, <1>9, <1>10, <1>11, <1>12, <1>13,
       <1>14, <1>15 DEF Next, Step

(* Whatever the project, the record and the generators, wherever the       *)
(* filesystem fails, wherever a person puts a link and whenever the        *)
(* process dies, a whole run of cpybkc is one step of the promise: it      *)
(* regenerates exactly what the record and the plan decide, or leaves the  *)
(* project alone, or was hindered; and where a link stands on the way to   *)
(* what the record or the plan names, it kept to where those paths lead.   *)
THEOREM PromiseKept == Spec => KeepsThePromise
  <1>1. Init => Promise!Init
    BY SameNames DEF Init, Promise!Init, Seen
  <1>2. Init => Keeping
    <2>1. Init => Typed
      BY InitTyped
    <2>2. Init => Settled /\ Bounded /\ Orderly
      BY DEF Init, Settled, Bounded, OnlyGone, Straight, Confined, Orderly, CopyStage
    <2>3. Init => Remembered /\ Sweeping /\ Merging
      BY DEF Init, Remembered, Apart, Sweeping, SoFarSwept, Merging, MergeStage
    <2> QED
      BY <2>1, <2>2, <2>3 DEF Keeping
  <1>3. Keeping /\ [Next]_vars => Keeping'
    BY StepTyped, StepSettled, StepBounded, StepOrderly, StepRemembered, StepSweeping, StepMerging
       DEF Keeping
  <1> QED
    BY <1>1, <1>2, <1>3, StepPromised, PTL DEF Spec, KeepsThePromise, Promise!Spec

=============================================================================
