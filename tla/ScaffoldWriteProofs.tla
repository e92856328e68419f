------------------------ MODULE ScaffoldWriteProofs -------------------------
(***************************************************************************)
(* Whatever runs of init write beside one another, over any sets of files, *)
(* and whatever is cancelled, fails or is killed meanwhile: nothing that   *)
(* was at a destination is replaced, no file is less than whole, and no    *)
(* layout is there without the definitions it names.                       *)
(*                                                                         *)
(* The argument: a temporary name leads to a run's file only while that    *)
(* run holds it, or for ever once it was killed (Held, Owned); so what a   *)
(* run links is its own file, which it has filled (Filled); so what is at  *)
(* the destinations of a run that lives are the first files of its set, as *)
(* many as it has linked and not yet taken back, and besides those none    *)
(* but what it failed to take back (Prefix), of which no layout is one     *)
(* (Stuck).                                                                *)
(***************************************************************************)
EXTENDS ScaffoldWrite, TLAPS

Holding(r) == pc[r] \in {"filling", "asking", "linking", "dropping"}

(* How many files of its set a living run has at their destinations.       *)
Linked(r) ==
  IF (pc[r] = "dropping" /\ outcome[r] = "none") \/ pc[r] = "undoing" THEN at[r]
  ELSE IF pc[r] = "done" THEN IF outcome[r] = "written" THEN Len(Set[r]) ELSE 0
  ELSE at[r] - 1

There(r, i) == dir[Self(Set[r][i])] = <<r, Set[r][i]>>

Stages ==
  \A r \in Runs :
    /\ pc[r] = "checking" => at[r] = 1
    /\ pc[r] \in Steps \ {"undoing"} => at[r] \in DOMAIN Set[r]
    /\ pc[r] \in Steps \ {"dropping", "undoing"} => outcome[r] = "none"
    /\ pc[r] = "dropping" => outcome[r] # "written"
    /\ pc[r] = "undoing" => /\ outcome[r] \in {"failed", "cancelled"}
                            /\ at[r] < Len(Set[r])
    /\ pc[r] = "done" => outcome[r] # "none"

Held == \A r \in Runs : Holding(r) => dir[Temporary(r)] = File(r)

Owned ==
  \A r \in Runs, p \in Places, q \in Places, n \in 1..Attempts :
    dir[Name(p, n)] = <<r, q>> =>
      \/ pc[r] = "killed"
      \/ Holding(r) /\ Name(p, n) = Temporary(r)
      \/ <<r, Name(p, n)>> \in kept

Filled == \A r \in Runs : pc[r] \in {"asking", "linking"} => File(r) \in whole

OfTheSet ==
  \A r \in Runs, p \in Places, q \in Places :
    dir[Self(p)] = <<r, q>> => q = p /\ \E i \in DOMAIN Set[r] : p = Set[r][i]

Prefix ==
  \A r \in Runs : pc[r] # "killed" =>
    \A i \in DOMAIN Set[r] :
      /\ i <= Linked(r) => There(r, i)
      /\ There(r, i) => i <= Linked(r) \/ <<r, Self(Set[r][i])>> \in kept

Stuck ==
  \A r \in Runs : \A i \in DOMAIN Set[r] : <<r, Self(Set[r][i])>> \in kept =>
    i < Len(Set[r]) /\ outcome[r] \in {"failed", "cancelled"}

IInv ==
  /\ TypeOK /\ Stages /\ Held /\ Owned /\ Filled
  /\ OfTheSet /\ WholeFiles /\ Prefix /\ Stuck /\ NeverALayoutAlone

-----------------------------------------------------------------------------
(* What the set of a run is, said in the terms the proofs use.             *)
LEMMA Sets ==
  ASSUME NEW r \in Runs
  PROVE  /\ Len(Set[r]) \in Nat \ {0}
         /\ DOMAIN Set[r] = 1..Len(Set[r])
         /\ \A i \in 1..Len(Set[r]) : Set[r][i] \in Places
         /\ \A i, j \in 1..Len(Set[r]) : Set[r][i] = Set[r][j] => i = j
  BY SetAssumption

(* A destination is no temporary, and a name tells its place and number.   *)
LEMMA NamesApart ==
  /\ \A p \in Places : Self(p) \in Names /\ Self(p) \notin Temporaries
  /\ \A p \in Places, n \in 1..Attempts : /\ Name(p, n) \in Temporaries
                                         /\ Name(p, n) \in Names
  /\ \A p, q \in Places : Self(p) = Self(q) => p = q
  /\ \A p, q \in Places, m, n \in 1..Attempts : Name(p, m) = Name(q, n) => p = q /\ m = n
  BY AttemptsAssumption DEF Self, Name, Names, Temporaries

LEMMA FilesApart ==
  /\ Nothing \notin Files /\ Theirs \notin Files /\ Nothing # Theirs
  /\ \A r \in Runs, p \in Places : <<r, p>> \in Files
  BY NotFiles DEF Files

(* Where a run that is writing one of its files stands.                    *)
LEMMA Standing ==
  ASSUME TypeOK, Stages, NEW r \in Runs, pc[r] \in Steps \ {"undoing"}
  PROVE  /\ Place(r) \in Places /\ File(r) \in Files
         /\ Temporary(r) \in Temporaries /\ Temporary(r) \in Names
         /\ File(r) = <<r, Place(r)>>
         /\ at[r] \in 1..Len(Set[r]) /\ Place(r) = Set[r][at[r]]
         /\ attempt[r] \in 1..Attempts /\ Temporary(r) = Name(Place(r), attempt[r])
  <1>1. at[r] \in 1..Len(Set[r])
    BY Sets DEF Stages
  <1>2. Place(r) \in Places
    BY <1>1, Sets DEF Place
  <1>3. attempt[r] \in 1..Attempts
    BY DEF TypeOK
  <1> QED BY <1>1, <1>2, <1>3, NamesApart, FilesApart DEF File, Temporary, Place

(* A step that leaves every destination as it is, and with it what every   *)
(* living run has linked.                                                  *)
LEMMA DestinationsKept ==
  ASSUME IInv,
         \A p \in Places : dir'[Self(p)] = dir[Self(p)],
         whole \subseteq whole', kept \subseteq kept',
         \A s \in Runs : pc'[s] # "killed" => pc[s] # "killed" /\ Linked(s)' = Linked(s)
  PROVE  OfTheSet' /\ WholeFiles' /\ Prefix' /\ NeverALayoutAlone'
  <1>1. OfTheSet'
    BY DEF IInv, OfTheSet
  <1>2. WholeFiles'
    BY DEF IInv, WholeFiles
  <1>3. \A s \in Runs : \A i \in 1..Len(Set[s]) : There(s, i)' <=> There(s, i)
    BY Sets DEF There
  <1>4. Prefix'
    <2> SUFFICES ASSUME NEW s \in Runs, pc'[s] # "killed",
                        NEW i \in DOMAIN Set[s]
                 PROVE  /\ i <= Linked(s)' => There(s, i)'
                        /\ There(s, i)' => i <= Linked(s)' \/ <<s, Self(Set[s][i])>> \in kept'
      BY DEF Prefix
    <2>1. /\ i <= Linked(s) => There(s, i)
          /\ There(s, i) => i <= Linked(s) \/ <<s, Self(Set[s][i])>> \in kept
      BY DEF IInv, Prefix
    <2> QED BY <2>1, <1>3, Sets
  <1>5. NeverALayoutAlone'
    <2> SUFFICES ASSUME NEW s \in Runs, There(s, Len(Set[s]))', NEW i \in DOMAIN Set[s]
                 PROVE  There(s, i)'
      BY DEF NeverALayoutAlone, There, Layout
    <2>1. There(s, Len(Set[s]))
      BY <1>3, Sets
    <2>2. There(s, i)
      BY <2>1 DEF IInv, NeverALayoutAlone, There, Layout
    <2> QED BY <2>2, <1>3, Sets
  <1> QED BY <1>1, <1>2, <1>4, <1>5

(* A step that leaves every temporary as it is, and who holds which.       *)
LEMMA TemporariesKept ==
  ASSUME IInv,
         \A t \in Temporaries : dir'[t] = dir[t],
         \A s \in Runs : Holding(s)' => /\ Holding(s)
                                       /\ Temporary(s)' = Temporary(s)
                                       /\ File(s)' = File(s),
         \A s \in Runs : Holding(s) => pc'[s] = "killed" \/ Holding(s)',
         \A s \in Runs : pc[s] = "killed" => pc'[s] = "killed",
         kept \subseteq kept'
  PROVE  Held' /\ Owned'
  <1>1. Held'
    <2> SUFFICES ASSUME NEW s \in Runs, Holding(s)'
                 PROVE  dir'[Temporary(s)'] = File(s)'
      BY DEF Held
    <2>1. dir[Temporary(s)] = File(s)
      BY DEF IInv, Held
    <2>2. Temporary(s) \in Temporaries
      BY Standing DEF IInv, Holding, Steps
    <2> QED BY <2>1, <2>2
  <1>2. Owned'
    <2> SUFFICES ASSUME NEW s \in Runs, NEW p \in Places, NEW q \in Places,
                        NEW n \in 1..Attempts, dir'[Name(p, n)] = <<s, q>>
                 PROVE  \/ pc'[s] = "killed"
                        \/ Holding(s)' /\ Name(p, n) = Temporary(s)'
                        \/ <<s, Name(p, n)>> \in kept'
      BY DEF Owned
    <2>1. dir[Name(p, n)] = <<s, q>>
      BY NamesApart
    <2>2. \/ pc[s] = "killed"
          \/ Holding(s) /\ Name(p, n) = Temporary(s)
          \/ <<s, Name(p, n)>> \in kept
      BY <2>1 DEF IInv, Owned
    <2> QED BY <2>2
  <1> QED BY <1>1, <1>2

-----------------------------------------------------------------------------
(* The steps that only get a run further, or nowhere.                      *)
LEMMA Quiet ==
  ASSUME IInv, NEW r \in Runs,
         \/ Check(r)
         \/ StepOver(r)
         \/ CreateFails(r)
         \/ Fill(r)
         \/ FillFails(r)
         \/ Ask(r)
         \/ LinkFails(r)
         \/ Undone(r)
         \/ Signal(r)
         \/ Killed(r)
  PROVE  IInv'
  <1>1. CASE Check(r)
    <2>1. TypeOK'
      BY <1>1, Standing, Sets DEF IInv, TypeOK, Stages, Steps, Check
    <2>2. Stages'
      BY <1>1, Sets DEF IInv, TypeOK, Stages, Steps, Check
    <2>3. Filled'
      BY <1>1 DEF IInv, TypeOK, Filled, Steps, File, Place, Check
    <2>4. \A s \in Runs : pc'[s] # "killed" => pc[s] # "killed" /\ Linked(s)' = Linked(s)
      BY <1>1, Sets DEF IInv, TypeOK, Stages, Steps, Linked, Check
    <2>5. \A s \in Runs : Holding(s)' => /\ Holding(s)
                                        /\ Temporary(s)' = Temporary(s)
                                        /\ File(s)' = File(s)
      BY <1>1 DEF IInv, TypeOK, Holding, Steps, Temporary, File, Place, Check
    <2>6. /\ \A s \in Runs : Holding(s) => pc'[s] = "killed" \/ Holding(s)'
          /\ \A s \in Runs : pc[s] = "killed" => pc'[s] = "killed"
      BY <1>1 DEF IInv, TypeOK, Holding, Steps, Check
    <2>7. dir' = dir /\ whole \subseteq whole' /\ kept' = kept
      BY <1>1 DEF Check
    <2>8. OfTheSet' /\ WholeFiles' /\ Prefix' /\ NeverALayoutAlone'
      BY <2>4, <2>7, DestinationsKept
    <2>9. Held' /\ Owned'
      BY <2>5, <2>6, <2>7, TemporariesKept
    <2>10. Stuck'
      BY <1>1 DEF IInv, TypeOK, Stuck, Check
    <2> QED BY <2>1, <2>2, <2>3, <2>8, <2>9, <2>10 DEF IInv
  <1>2. CASE StepOver(r)
    <2>1. TypeOK'
      BY <1>2, AttemptsAssumption DEF IInv, TypeOK, Stages, Steps, StepOver
    <2>2. Stages'
      BY <1>2, Sets DEF IInv, TypeOK, Stages, Steps, StepOver
    <2>3. Filled'
      BY <1>2 DEF IInv, TypeOK, Filled, Steps, File, Place, StepOver
    <2>4. \A s \in Runs : pc'[s] # "killed" => pc[s] # "killed" /\ Linked(s)' = Linked(s)
      BY <1>2, Sets DEF IInv, TypeOK, Stages, Steps, Linked, StepOver
    <2>5. \A s \in Runs : Holding(s)' => /\ Holding(s)
                                        /\ Temporary(s)' = Temporary(s)
                                        /\ File(s)' = File(s)
      BY <1>2 DEF IInv, TypeOK, Holding, Steps, Temporary, File, Place, StepOver
    <2>6. /\ \A s \in Runs : Holding(s) => pc'[s] = "killed" \/ Holding(s)'
          /\ \A s \in Runs : pc[s] = "killed" => pc'[s] = "killed"
      BY <1>2 DEF IInv, TypeOK, Holding, Steps, StepOver
    <2>7. dir' = dir /\ whole \subseteq whole' /\ kept' = kept
      BY <1>2 DEF StepOver
    <2>8. OfTheSet' /\ WholeFiles' /\ Prefix' /\ NeverALayoutAlone'
      BY <2>4, <2>7, DestinationsKept
    <2>9. Held' /\ Owned'
      BY <2>5, <2>6, <2>7, TemporariesKept
    <2>10. Stuck'
      BY <1>2 DEF IInv, TypeOK, Stuck, StepOver
    <2> QED BY <2>1, <2>2, <2>3, <2>8, <2>9, <2>10 DEF IInv
  <1>3. CASE CreateFails(r)
    <2>1. TypeOK'
      BY <1>3, Standing, Sets DEF IInv, TypeOK, Stages, Steps, CreateFails, Undo
    <2>2. Stages'
      BY <1>3, Sets DEF IInv, TypeOK, Stages, Steps, CreateFails, Undo
    <2>3. Filled'
      BY <1>3 DEF IInv, TypeOK, Filled, Steps, File, Place, CreateFails, Undo
    <2>4. \A s \in Runs : pc'[s] # "killed" => pc[s] # "killed" /\ Linked(s)' = Linked(s)
      BY <1>3, Sets DEF IInv, TypeOK, Stages, Steps, Linked, CreateFails, Undo
    <2>5. \A s \in Runs : Holding(s)' => /\ Holding(s)
                                        /\ Temporary(s)' = Temporary(s)
                                        /\ File(s)' = File(s)
      BY <1>3 DEF IInv, TypeOK, Holding, Steps, Temporary, File, Place, CreateFails, Undo
    <2>6. /\ \A s \in Runs : Holding(s) => pc'[s] = "killed" \/ Holding(s)'
          /\ \A s \in Runs : pc[s] = "killed" => pc'[s] = "killed"
      BY <1>3 DEF IInv, TypeOK, Holding, Steps, CreateFails, Undo
    <2>7. dir' = dir /\ whole \subseteq whole' /\ kept' = kept
      BY <1>3 DEF CreateFails, Undo
    <2>8. OfTheSet' /\ WholeFiles' /\ Prefix' /\ NeverALayoutAlone'
      BY <2>4, <2>7, DestinationsKept
    <2>9. Held' /\ Owned'
      BY <2>5, <2>6, <2>7, TemporariesKept
    <2>10. Stuck'
      BY <1>3 DEF IInv, TypeOK, Stuck, CreateFails, Undo
    <2> QED BY <2>1, <2>2, <2>3, <2>8, <2>9, <2>10 DEF IInv
  <1>4. CASE Fill(r)
    <2>1. TypeOK'
      BY <1>4, Standing, Sets DEF IInv, TypeOK, Stages, Steps, Fill
    <2>2. Stages'
      BY <1>4, Sets DEF IInv, TypeOK, Stages, Steps, Fill
    <2>3. Filled'
      BY <1>4 DEF IInv, TypeOK, Filled, Steps, File, Place, Fill
    <2>4. \A s \in Runs : pc'[s] # "killed" => pc[s] # "killed" /\ Linked(s)' = Linked(s)
      BY <1>4, Sets DEF IInv, TypeOK, Stages, Steps, Linked, Fill
    <2>5. \A s \in Runs : Holding(s)' => /\ Holding(s)
                                        /\ Temporary(s)' = Temporary(s)
                                        /\ File(s)' = File(s)
      BY <1>4 DEF IInv, TypeOK, Holding, Steps, Temporary, File, Place, Fill
    <2>6. /\ \A s \in Runs : Holding(s) => pc'[s] = "killed" \/ Holding(s)'
          /\ \A s \in Runs : pc[s] = "killed" => pc'[s] = "killed"
      BY <1>4 DEF IInv, TypeOK, Holding, Steps, Fill
    <2>7. dir' = dir /\ whole \subseteq whole' /\ kept' = kept
      BY <1>4 DEF Fill
    <2>8. OfTheSet' /\ WholeFiles' /\ Prefix' /\ NeverALayoutAlone'
      BY <2>4, <2>7, DestinationsKept
    <2>9. Held' /\ Owned'
      BY <2>5, <2>6, <2>7, TemporariesKept
    <2>10. Stuck'
      BY <1>4 DEF IInv, TypeOK, Stuck, Fill
    <2> QED BY <2>1, <2>2, <2>3, <2>8, <2>9, <2>10 DEF IInv
  <1>5. CASE FillFails(r)
    <2>1. TypeOK'
      BY <1>5, Standing, Sets DEF IInv, TypeOK, Stages, Steps, FillFails, Return
    <2>2. Stages'
      BY <1>5, Sets DEF IInv, TypeOK, Stages, Steps, FillFails, Return
    <2>3. Filled'
      BY <1>5 DEF IInv, TypeOK, Filled, Steps, File, Place, FillFails, Return
    <2>4. \A s \in Runs : pc'[s] # "killed" => pc[s] # "killed" /\ Linked(s)' = Linked(s)
      BY <1>5, Sets DEF IInv, TypeOK, Stages, Steps, Linked, FillFails, Return
    <2>5. \A s \in Runs : Holding(s)' => /\ Holding(s)
                                        /\ Temporary(s)' = Temporary(s)
                                        /\ File(s)' = File(s)
      BY <1>5 DEF IInv, TypeOK, Holding, Steps, Temporary, File, Place, FillFails, Return
    <2>6. /\ \A s \in Runs : Holding(s) => pc'[s] = "killed" \/ Holding(s)'
          /\ \A s \in Runs : pc[s] = "killed" => pc'[s] = "killed"
      BY <1>5 DEF IInv, TypeOK, Holding, Steps, FillFails, Return
    <2>7. dir' = dir /\ whole \subseteq whole' /\ kept' = kept
      BY <1>5 DEF FillFails, Return
    <2>8. OfTheSet' /\ WholeFiles' /\ Prefix' /\ NeverALayoutAlone'
      BY <2>4, <2>7, DestinationsKept
    <2>9. Held' /\ Owned'
      BY <2>5, <2>6, <2>7, TemporariesKept
    <2>10. Stuck'
      BY <1>5 DEF IInv, TypeOK, Stuck, FillFails, Return
    <2> QED BY <2>1, <2>2, <2>3, <2>8, <2>9, <2>10 DEF IInv
  <1>6. CASE Ask(r)
    <2>1. TypeOK'
      <3>1. CASE r \in signalled
        BY <1>6, <3>1 DEF IInv, TypeOK, Steps, Ask, Return
      <3>2. CASE r \notin signalled
        BY <1>6, <3>2 DEF IInv, TypeOK, Steps, Ask
      <3> QED BY <3>1, <3>2
    <2>2. Stages'
      BY <1>6, Sets DEF IInv, TypeOK, Stages, Steps, Ask, Return
    <2>3. Filled'
      BY <1>6 DEF IInv, TypeOK, Filled, Steps, File, Place, Ask, Return
    <2>4. \A s \in Runs : pc'[s] # "killed" => pc[s] # "killed" /\ Linked(s)' = Linked(s)
      BY <1>6, Sets DEF IInv, TypeOK, Stages, Steps, Linked, Ask, Return
    <2>5. \A s \in Runs : Holding(s)' => /\ Holding(s)
                                        /\ Temporary(s)' = Temporary(s)
                                        /\ File(s)' = File(s)
      BY <1>6 DEF IInv, TypeOK, Holding, Steps, Temporary, File, Place, Ask, Return
    <2>6. /\ \A s \in Runs : Holding(s) => pc'[s] = "killed" \/ Holding(s)'
          /\ \A s \in Runs : pc[s] = "killed" => pc'[s] = "killed"
      BY <1>6 DEF IInv, TypeOK, Holding, Steps, Ask, Return
    <2>7. dir' = dir /\ whole \subseteq whole' /\ kept' = kept
      BY <1>6 DEF Ask, Return
    <2>8. OfTheSet' /\ WholeFiles' /\ Prefix' /\ NeverALayoutAlone'
      BY <2>4, <2>7, DestinationsKept
    <2>9. Held' /\ Owned'
      BY <2>5, <2>6, <2>7, TemporariesKept
    <2>10. Stuck'
      BY <1>6 DEF IInv, TypeOK, Stuck, Ask, Return
    <2> QED BY <2>1, <2>2, <2>3, <2>8, <2>9, <2>10 DEF IInv
  <1>7. CASE LinkFails(r)
    <2>1. TypeOK'
      BY <1>7, Standing, Sets DEF IInv, TypeOK, Stages, Steps, LinkFails, Return
    <2>2. Stages'
      BY <1>7, Sets DEF IInv, TypeOK, Stages, Steps, LinkFails, Return
    <2>3. Filled'
      BY <1>7 DEF IInv, TypeOK, Filled, Steps, File, Place, LinkFails, Return
    <2>4. \A s \in Runs : pc'[s] # "killed" => pc[s] # "killed" /\ Linked(s)' = Linked(s)
      BY <1>7, Sets DEF IInv, TypeOK, Stages, Steps, Linked, LinkFails, Return
    <2>5. \A s \in Runs : Holding(s)' => /\ Holding(s)
                                        /\ Temporary(s)' = Temporary(s)
                                        /\ File(s)' = File(s)
      BY <1>7 DEF IInv, TypeOK, Holding, Steps, Temporary, File, Place, LinkFails, Return
    <2>6. /\ \A s \in Runs : Holding(s) => pc'[s] = "killed" \/ Holding(s)'
          /\ \A s \in Runs : pc[s] = "killed" => pc'[s] = "killed"
      BY <1>7 DEF IInv, TypeOK, Holding, Steps, LinkFails, Return
    <2>7. dir' = dir /\ whole \subseteq whole' /\ kept' = kept
      BY <1>7 DEF LinkFails, Return
    <2>8. OfTheSet' /\ WholeFiles' /\ Prefix' /\ NeverALayoutAlone'
      BY <2>4, <2>7, DestinationsKept
    <2>9. Held' /\ Owned'
      BY <2>5, <2>6, <2>7, TemporariesKept
    <2>10. Stuck'
      BY <1>7 DEF IInv, TypeOK, Stuck, LinkFails, Return
    <2> QED BY <2>1, <2>2, <2>3, <2>8, <2>9, <2>10 DEF IInv
  <1>8. CASE Undone(r)
    <2>1. TypeOK'
      BY <1>8, Standing, Sets DEF IInv, TypeOK, Stages, Steps, Undone
    <2>2. Stages'
      BY <1>8, Sets DEF IInv, TypeOK, Stages, Steps, Undone
    <2>3. Filled'
      BY <1>8 DEF IInv, TypeOK, Filled, Steps, File, Place, Undone
    <2>4. \A s \in Runs : pc'[s] # "killed" => pc[s] # "killed" /\ Linked(s)' = Linked(s)
      BY <1>8, Sets DEF IInv, TypeOK, Stages, Steps, Linked, Undone
    <2>5. \A s \in Runs : Holding(s)' => /\ Holding(s)
                                        /\ Temporary(s)' = Temporary(s)
                                        /\ File(s)' = File(s)
      BY <1>8 DEF IInv, TypeOK, Holding, Steps, Temporary, File, Place, Undone
    <2>6. /\ \A s \in Runs : Holding(s) => pc'[s] = "killed" \/ Holding(s)'
          /\ \A s \in Runs : pc[s] = "killed" => pc'[s] = "killed"
      BY <1>8 DEF IInv, TypeOK, Holding, Steps, Undone
    <2>7. dir' = dir /\ whole \subseteq whole' /\ kept' = kept
      BY <1>8 DEF Undone
    <2>8. OfTheSet' /\ WholeFiles' /\ Prefix' /\ NeverALayoutAlone'
      BY <2>4, <2>7, DestinationsKept
    <2>9. Held' /\ Owned'
      BY <2>5, <2>6, <2>7, TemporariesKept
    <2>10. Stuck'
      BY <1>8 DEF IInv, TypeOK, Stuck, Undone
    <2> QED BY <2>1, <2>2, <2>3, <2>8, <2>9, <2>10 DEF IInv
  <1>9. CASE Signal(r)
    <2>1. TypeOK'
      BY <1>9, Standing, Sets DEF IInv, TypeOK, Stages, Steps, Signal
    <2>2. Stages'
      BY <1>9, Sets DEF IInv, TypeOK, Stages, Steps, Signal
    <2>3. Filled'
      BY <1>9 DEF IInv, TypeOK, Filled, Steps, File, Place, Signal
    <2>4. \A s \in Runs : pc'[s] # "killed" => pc[s] # "killed" /\ Linked(s)' = Linked(s)
      BY <1>9, Sets DEF IInv, TypeOK, Stages, Steps, Linked, Signal
    <2>5. \A s \in Runs : Holding(s)' => /\ Holding(s)
                                        /\ Temporary(s)' = Temporary(s)
                                        /\ File(s)' = File(s)
      BY <1>9 DEF IInv, TypeOK, Holding, Steps, Temporary, File, Place, Signal
    <2>6. /\ \A s \in Runs : Holding(s) => pc'[s] = "killed" \/ Holding(s)'
          /\ \A s \in Runs : pc[s] = "killed" => pc'[s] = "killed"
      BY <1>9 DEF IInv, TypeOK, Holding, Steps, Signal
    <2>7. dir' = dir /\ whole \subseteq whole' /\ kept' = kept
      BY <1>9 DEF Signal
    <2>8. OfTheSet' /\ WholeFiles' /\ Prefix' /\ NeverALayoutAlone'
      BY <2>4, <2>7, DestinationsKept
    <2>9. Held' /\ Owned'
      BY <2>5, <2>6, <2>7, TemporariesKept
    <2>10. Stuck'
      BY <1>9 DEF IInv, TypeOK, Stuck, Signal
    <2> QED BY <2>1, <2>2, <2>3, <2>8, <2>9, <2>10 DEF IInv
  <1>10. CASE Killed(r)
    <2>1. TypeOK'
      BY <1>10, Standing, Sets DEF IInv, TypeOK, Stages, Steps, Killed
    <2>2. Stages'
      BY <1>10, Sets DEF IInv, TypeOK, Stages, Steps, Killed
    <2>3. Filled'
      BY <1>10 DEF IInv, TypeOK, Filled, Steps, File, Place, Killed
    <2>4. \A s \in Runs : pc'[s] # "killed" => pc[s] # "killed" /\ Linked(s)' = Linked(s)
      BY <1>10, Sets DEF IInv, TypeOK, Stages, Steps, Linked, Killed
    <2>5. \A s \in Runs : Holding(s)' => /\ Holding(s)
                                        /\ Temporary(s)' = Temporary(s)
                                        /\ File(s)' = File(s)
      BY <1>10 DEF IInv, TypeOK, Holding, Steps, Temporary, File, Place, Killed
    <2>6. /\ \A s \in Runs : Holding(s) => pc'[s] = "killed" \/ Holding(s)'
          /\ \A s \in Runs : pc[s] = "killed" => pc'[s] = "killed"
      BY <1>10 DEF IInv, TypeOK, Holding, Steps, Killed
    <2>7. dir' = dir /\ whole \subseteq whole' /\ kept' = kept
      BY <1>10 DEF Killed
    <2>8. OfTheSet' /\ WholeFiles' /\ Prefix' /\ NeverALayoutAlone'
      BY <2>4, <2>7, DestinationsKept
    <2>9. Held' /\ Owned'
      BY <2>5, <2>6, <2>7, TemporariesKept
    <2>10. Stuck'
      BY <1>10 DEF IInv, TypeOK, Stuck, Killed
    <2> QED BY <2>1, <2>2, <2>3, <2>8, <2>9, <2>10 DEF IInv
  <1> QED BY <1>1, <1>2, <1>3, <1>4, <1>5, <1>6, <1>7, <1>8, <1>9, <1>10

(* A temporary is made: no destination changes, and the name was nobody's. *)
LEMMA Creates ==
  ASSUME IInv, NEW r \in Runs, Create(r)
  PROVE  IInv'
  <1> DEFINE t == Temporary(r)
  <1>1. /\ t \in Temporaries /\ t \in Names /\ File(r) \in Files
        /\ t = Name(Place(r), attempt[r]) /\ Place(r) \in Places
        /\ attempt[r] \in 1..Attempts /\ File(r) = <<r, Place(r)>>
    BY Standing DEF IInv, Create, Steps
  <1>2. /\ dir[t] = Nothing /\ dir' = [dir EXCEPT ![t] = File(r)]
        /\ pc[r] = "naming" /\ pc' = [pc EXCEPT ![r] = "filling"]
        /\ UNCHANGED <<whole, at, attempt, signalled, outcome, kept>>
    BY DEF Create
  <1>3. /\ dir \in [Names -> Files \cup {Nothing, Theirs}]
        /\ pc \in [Runs -> Steps \cup {"done", "killed"}]
    BY DEF IInv, TypeOK
  <1> HIDE DEF t
  <1>4. TypeOK'
    BY <1>1, <1>2 DEF IInv, TypeOK, Steps
  <1>5. Stages'
    BY <1>2, <1>3 DEF IInv, Stages, Steps
  <1>6. \A s \in Runs : File(s)' = File(s) /\ Temporary(s)' = Temporary(s)
    BY <1>2 DEF File, Temporary, Place
  <1>7. Filled'
    BY <1>2, <1>3, <1>6 DEF IInv, Filled
  <1>8. Held'
    <2> SUFFICES ASSUME NEW s \in Runs, Holding(s)'
                 PROVE  dir'[Temporary(s)] = File(s)
      BY <1>6 DEF Held
    <2>1. CASE s = r
      BY <2>1, <1>1, <1>2, <1>3 DEF t
    <2>2. CASE s # r
      <3>1. Holding(s)
        BY <2>2, <1>2, <1>3 DEF Holding
      <3>2. dir[Temporary(s)] = File(s) /\ File(s) \in Files /\ Temporary(s) \in Names
        BY <3>1, Standing DEF IInv, Held, Holding, Steps
      <3> QED BY <3>2, <1>2, <1>3, FilesApart
    <2> QED BY <2>1, <2>2
  <1>9. Owned'
    <2> SUFFICES ASSUME NEW s \in Runs, NEW p \in Places, NEW q \in Places,
                        NEW n \in 1..Attempts, dir'[Name(p, n)] = <<s, q>>
                 PROVE  \/ pc'[s] = "killed"
                        \/ Holding(s)' /\ Name(p, n) = Temporary(s)
                        \/ <<s, Name(p, n)>> \in kept'
      BY <1>6 DEF Owned
    <2>1. CASE Name(p, n) = t
      <3>1. s = r
        BY <2>1, <1>1, <1>2, <1>3
      <3>2. Holding(r)'
        BY <1>2, <1>3 DEF Holding
      <3> QED BY <2>1, <3>1, <3>2 DEF t
    <2>2. CASE Name(p, n) # t
      <3>1. dir[Name(p, n)] = <<s, q>>
        BY <2>2, <1>2, <1>3, NamesApart
      <3>2. \/ pc[s] = "killed"
            \/ Holding(s) /\ Name(p, n) = Temporary(s)
            \/ <<s, Name(p, n)>> \in kept
        BY <3>1 DEF IInv, Owned
      <3>3. pc[s] = "killed" \/ Holding(s) => s # r
        BY <1>2, <1>3 DEF Holding
      <3> QED BY <3>2, <3>3, <1>2, <1>3 DEF Holding
    <2> QED BY <2>1, <2>2
  <1>10. \A p \in Places : dir'[Self(p)] = dir[Self(p)]
    BY <1>1, <1>2, <1>3, NamesApart
  <1>11. \A s \in Runs : pc'[s] # "killed" => pc[s] # "killed" /\ Linked(s)' = Linked(s)
    BY <1>2, <1>3 DEF Linked
  <1>12. OfTheSet' /\ WholeFiles' /\ Prefix' /\ NeverALayoutAlone'
    BY <1>2, <1>10, <1>11, DestinationsKept
  <1>13. Stuck'
    BY <1>2 DEF IInv, Stuck
  <1> QED BY <1>4, <1>5, <1>7, <1>8, <1>9, <1>12, <1>13 DEF IInv

(* A file is linked: it is the run's own and whole, and the destination    *)
(* was free; it is the next of the run's set.                              *)
LEMMA Links ==
  ASSUME IInv, NEW r \in Runs, Link(r)
  PROVE  IInv'
  <1> DEFINE d == Self(Place(r))
  <1>1. /\ Temporary(r) \in Temporaries /\ Place(r) \in Places
        /\ File(r) \in Files /\ File(r) = <<r, Place(r)>>
        /\ at[r] \in 1..Len(Set[r]) /\ Place(r) = Set[r][at[r]]
    BY Standing DEF IInv, Link, Steps
  <1>2. d \in Names /\ d \notin Temporaries
    BY <1>1, NamesApart
  <1>3. dir[Temporary(r)] = File(r) /\ File(r) \in whole
    BY DEF IInv, Held, Holding, Filled, Link
  <1>4. /\ dir[d] = Nothing /\ dir' = [dir EXCEPT ![d] = File(r)]
        /\ pc[r] = "linking" /\ pc' = [pc EXCEPT ![r] = "dropping"]
        /\ UNCHANGED <<whole, at, attempt, signalled, outcome, kept>>
    BY <1>3 DEF Link, Linkable
  <1>5. /\ dir \in [Names -> Files \cup {Nothing, Theirs}]
        /\ pc \in [Runs -> Steps \cup {"done", "killed"}]
        /\ at \in [Runs -> Nat]
    BY DEF IInv, TypeOK
  <1>6. TypeOK'
    BY <1>1, <1>2, <1>4 DEF IInv, TypeOK, Steps
  <1>7. outcome[r] = "none"
    BY <1>4 DEF IInv, Stages, Steps
  <1>8. Stages'
    BY <1>4, <1>5, <1>7 DEF IInv, Stages, Steps
  <1>9. \A s \in Runs : File(s)' = File(s) /\ Temporary(s)' = Temporary(s)
    BY <1>4 DEF File, Temporary, Place
  <1>10. Filled'
    BY <1>4, <1>5, <1>9 DEF IInv, Filled
  <1>11. \A t \in Temporaries : dir'[t] = dir[t]
    BY <1>2, <1>4, <1>5 DEF Names
  <1>12. /\ \A s \in Runs : Holding(s)' <=> Holding(s)
         /\ \A s \in Runs : pc[s] = "killed" => pc'[s] = "killed"
    BY <1>4, <1>5 DEF Holding
  <1>13. Held' /\ Owned'
    BY <1>4, <1>9, <1>11, <1>12, TemporariesKept
  <1> HIDE DEF d
  <1>14. \A p \in Places : p # Place(r) => dir'[Self(p)] = dir[Self(p)]
    BY <1>1, <1>4, <1>5, NamesApart DEF d
  <1>15. dir'[d] = File(r)
    BY <1>2, <1>4, <1>5
  <1>16. OfTheSet'
    <2> SUFFICES ASSUME NEW s \in Runs, NEW p \in Places, NEW q \in Places,
                        dir'[Self(p)] = <<s, q>>
                 PROVE  q = p /\ \E i \in DOMAIN Set[s] : p = Set[s][i]
      BY DEF OfTheSet
    <2>1. CASE p = Place(r)
      <3>1. s = r /\ q = p
        BY <2>1, <1>1, <1>15 DEF d
      <3> QED BY <2>1, <3>1, <1>1, Sets
    <2>2. CASE p # Place(r)
      BY <2>2, <1>14 DEF IInv, OfTheSet
    <2> QED BY <2>1, <2>2
  <1>17. WholeFiles'
    BY <1>3, <1>4, <1>14, <1>15 DEF IInv, WholeFiles, d
  <1>18. Prefix'
    <2> SUFFICES ASSUME NEW s \in Runs, pc'[s] # "killed",
                        NEW i \in 1..Len(Set[s])
                 PROVE  /\ i <= Linked(s)' => There(s, i)'
                        /\ There(s, i)' => i <= Linked(s)' \/ <<s, Self(Set[s][i])>> \in kept'
      BY Sets DEF Prefix
    <2>1. /\ pc[s] # "killed"
          /\ i <= Linked(s) => There(s, i)
          /\ There(s, i) => i <= Linked(s) \/ <<s, Self(Set[s][i])>> \in kept'
      BY <1>4, <1>5, Sets DEF IInv, Prefix
    <2>2. CASE s # r
      <3>1. Linked(s)' = Linked(s)
        BY <2>2, <1>4, <1>5 DEF Linked
      <3>2. There(s, i)' <=> There(s, i)
        <4>1. CASE Set[s][i] = Place(r)
          <5>1. ~There(s, i)'
            BY <2>2, <4>1, <1>1, <1>15 DEF There, d
          <5>2. ~There(s, i)
            BY <4>1, <1>4, FilesApart, Sets DEF There, d
          <5> QED BY <5>1, <5>2
        <4>2. CASE Set[s][i] # Place(r)
          BY <4>2, <1>14, Sets DEF There
        <4> QED BY <4>1, <4>2
      <3> QED BY <2>1, <3>1, <3>2
    <2>3. CASE s = r
      <3>1. Linked(r) = at[r] - 1 /\ Linked(r)' = at[r]
        BY <1>4, <1>5, <1>7 DEF Linked
      <3>2. CASE i = at[r]
        <4>1. There(r, i)'
          BY <3>2, <1>1, <1>15 DEF There, d
        <4> QED BY <4>1, <2>3, <3>1, <3>2, <1>5
      <3>3. CASE i # at[r]
        <4>1. Set[r][i] # Place(r) /\ Set[r][i] \in Places
          BY <2>3, <3>3, <1>1, Sets
        <4>2. There(r, i)' <=> There(r, i)
          BY <4>1, <1>14 DEF There
        <4> QED BY <4>2, <2>1, <2>3, <3>1, <3>3, <1>5
      <3> QED BY <3>2, <3>3
    <2> QED BY <2>2, <2>3
  <1>19. NeverALayoutAlone'
    <2> SUFFICES ASSUME NEW s \in Runs, There(s, Len(Set[s]))', NEW i \in DOMAIN Set[s]
                 PROVE  There(s, i)'
      BY DEF NeverALayoutAlone, There, Layout
    <2>1. CASE s = r
      <3>1. pc'[s] # "killed" /\ Len(Set[s]) \in DOMAIN Set[s]
        BY <2>1, <1>4, <1>5, Sets
      <3>2. Len(Set[s]) <= Linked(s)'
        <4>1. <<s, Self(Set[s][Len(Set[s])])>> \notin kept'
          <5>1. ~(Len(Set[s]) < Len(Set[s])) /\ kept' = kept
            BY <1>4, Sets
          <5> QED BY <3>1, <5>1 DEF IInv, Stuck
        <4> QED BY <3>1, <4>1, <1>18 DEF Prefix
      <3>3. Linked(s)' = at[r]
        BY <2>1, <1>4, <1>5, <1>7 DEF Linked
      <3>4. i <= Linked(s)'
        BY <3>2, <3>3, <1>5, Sets
      <3> QED BY <3>1, <3>4, <1>18 DEF Prefix
    <2>2. CASE s # r
      <3>1. \A j \in 1..Len(Set[s]) : Set[s][j] # Place(r) => (There(s, j)' <=> There(s, j))
        BY <1>14, Sets DEF There
      <3>2. \A j \in 1..Len(Set[s]) : Set[s][j] = Place(r) => ~There(s, j) /\ ~There(s, j)'
        BY <2>2, <1>1, <1>4, <1>15, FilesApart, Sets DEF There, d
      <3>3. There(s, Len(Set[s]))
        BY <3>1, <3>2, Sets
      <3>4. There(s, i)
        BY <3>3 DEF IInv, NeverALayoutAlone, There, Layout
      <3> QED BY <3>1, <3>2, <3>4, Sets
    <2> QED BY <2>1, <2>2
  <1>20. Stuck'
    BY <1>4 DEF IInv, Stuck
  <1> QED BY <1>6, <1>8, <1>10, <1>13, <1>16, <1>17, <1>18, <1>19, <1>20 DEF IInv

(* The temporary goes, or is one that was kept: the name was this run's,   *)
(* and it holds none after.                                                *)
LEMMA Drops ==
  ASSUME IInv, NEW r \in Runs, Drop(r)
  PROVE  IInv'
  <1> DEFINE t == Temporary(r)
  <1>1. /\ t \in Temporaries /\ t \in Names /\ dir[t] = File(r)
        /\ File(r) = <<r, Place(r)>> /\ at[r] \in 1..Len(Set[r])
    BY Standing DEF IInv, Held, Holding, Drop, Steps
  <1>2. /\ \/ dir' = [dir EXCEPT ![t] = Nothing] /\ kept' = kept
           \/ dir' = dir /\ kept' = kept \cup {<<r, t>>}
        /\ pc[r] = "dropping"
        /\ UNCHANGED <<whole, signalled>>
    BY DEF Drop, Removal, Without
  <1>3. /\ dir \in [Names -> Files \cup {Nothing, Theirs}]
        /\ pc \in [Runs -> Steps \cup {"done", "killed"}]
        /\ at \in [Runs -> Nat] /\ attempt \in [Runs -> 1..Attempts]
        /\ outcome \in [Runs -> {"none", "written", "failed", "cancelled"}]
    BY DEF IInv, TypeOK
  <1>4. \A s \in Runs \ {r} : /\ pc'[s] = pc[s] /\ at'[s] = at[s]
                              /\ attempt'[s] = attempt[s] /\ outcome'[s] = outcome[s]
    BY <1>3 DEF Drop, Undo
  <1>5. outcome[r] # "written"
    BY <1>2 DEF IInv, Stages
  \* The three things a run may do next.
  <1>6. \/ /\ pc'[r] = "undoing" /\ at'[r] = at[r] - 1
           /\ outcome[r] # "none" /\ outcome'[r] = outcome[r]
        \/ /\ pc'[r] = "naming" /\ at'[r] = at[r] + 1 /\ at[r] < Len(Set[r])
           /\ outcome[r] = "none" /\ outcome'[r] = "none"
        \/ /\ pc'[r] = "done" /\ at'[r] = at[r] /\ at[r] = Len(Set[r])
           /\ outcome[r] = "none" /\ outcome'[r] = "written"
    BY <1>3 DEF Drop, Undo
  <1> HIDE DEF t
  <1>17. /\ \A n \in Names : n # t => dir'[n] = dir[n]
         /\ dir'[t] = Nothing \/ <<r, t>> \in kept'
         /\ dir'[t] \in {Nothing, dir[t]}
         /\ kept \subseteq kept'
         /\ \A s \in Runs, n \in Names : n # t /\ <<s, n>> \in kept' => <<s, n>> \in kept
    BY <1>1, <1>2, <1>3
  <1>7. TypeOK'
    <2>1. dir' \in [Names -> Files \cup {Nothing, Theirs}]
      BY <1>1, <1>2, <1>3
    <2>7. kept' \subseteq Runs \X Names
      <3>1. kept \subseteq Runs \X Names
        BY DEF IInv, TypeOK
      <3> QED BY <3>1, <1>1, <1>2
    <2>2. pc' \in [Runs -> Steps \cup {"done", "killed"}]
      BY <1>3 DEF Drop, Undo, Steps
    <2>3. at' \in [Runs -> Nat]
      <3>1. at[r] - 1 \in Nat /\ at[r] + 1 \in Nat
        BY <1>1
      <3> QED BY <3>1, <1>3 DEF Drop, Undo
    <2>4. \A s \in Runs : at'[s] <= Len(Set[s])
      <3>1. at'[r] <= Len(Set[r])
        BY <1>1, <1>6, Sets
      <3> QED BY <3>1, <1>4 DEF IInv, TypeOK
    <2>5. attempt' \in [Runs -> 1..Attempts]
      BY <1>3, AttemptsAssumption DEF Drop
    <2>6. outcome' \in [Runs -> {"none", "written", "failed", "cancelled"}]
      BY <1>3 DEF Drop
    <2> QED BY <2>1, <2>2, <2>3, <2>4, <2>5, <2>6, <2>7, <1>2 DEF IInv, TypeOK
  <1>8. Stages'
    <2>1. outcome[r] # "none" => outcome[r] \in {"failed", "cancelled"}
      BY <1>3, <1>5
    <2> QED BY <1>1, <1>4, <1>6, <2>1, Sets DEF IInv, Stages, Steps
  <1>9. \A s \in Runs \ {r} : /\ File(s)' = File(s) /\ Temporary(s)' = Temporary(s)
                              /\ Holding(s)' <=> Holding(s)
    BY <1>4 DEF File, Temporary, Place, Holding
  <1>10. Holding(r) /\ ~Holding(r)'
    BY <1>2, <1>6 DEF Holding
  <1>11. Filled'
    BY <1>2, <1>4, <1>6, <1>9 DEF IInv, Filled
  <1>12. Held'
    <2> SUFFICES ASSUME NEW s \in Runs, Holding(s)'
                 PROVE  dir'[Temporary(s)'] = File(s)'
      BY DEF Held
    <2>1. s # r
      BY <1>10
    <2>2. dir[Temporary(s)] = File(s) /\ Temporary(s) \in Names /\ File(s) = <<s, Place(s)>>
      BY <2>1, <1>9, Standing DEF IInv, Held, Holding, Steps
    <2>3. Temporary(s) # t
      BY <2>1, <2>2, <1>1
    <2> QED BY <2>1, <2>2, <2>3, <1>17, <1>9
  <1>13. Owned'
    <2> SUFFICES ASSUME NEW s \in Runs, NEW p \in Places, NEW q \in Places,
                        NEW n \in 1..Attempts, dir'[Name(p, n)] = <<s, q>>
                 PROVE  \/ pc'[s] = "killed"
                        \/ Holding(s)' /\ Name(p, n) = Temporary(s)'
                        \/ <<s, Name(p, n)>> \in kept'
      BY DEF Owned
    <2>1. <<s, q>> # Nothing
      BY FilesApart
    <2>2. CASE Name(p, n) = t
      <3>1. s = r
        BY <2>1, <2>2, <1>1, <1>17
      <3> QED BY <2>1, <2>2, <3>1, <1>17
    <2>3. CASE Name(p, n) # t
      <3>1. dir[Name(p, n)] = <<s, q>>
        BY <2>3, <1>17, NamesApart
      <3>2. \/ pc[s] = "killed"
            \/ Holding(s) /\ Name(p, n) = Temporary(s)
            \/ <<s, Name(p, n)>> \in kept
        BY <3>1 DEF IInv, Owned
      <3>3. CASE s = r
        BY <3>2, <3>3, <2>3, <1>2, <1>17 DEF t
      <3>4. CASE s # r
        BY <3>2, <3>4, <1>4, <1>9, <1>17
      <3> QED BY <3>3, <3>4
    <2> QED BY <2>2, <2>3
  <1>14. \A p \in Places : dir'[Self(p)] = dir[Self(p)]
    BY <1>1, <1>17, NamesApart
  <1>15. \A s \in Runs : pc'[s] # "killed" => pc[s] # "killed" /\ Linked(s)' = Linked(s)
    <2>1. \A s \in Runs \ {r} : Linked(s)' = Linked(s)
      BY <1>4 DEF Linked
    <2>2. Linked(r)' = Linked(r)
      BY <1>1, <1>2, <1>6 DEF Linked
    <2> QED BY <2>1, <2>2, <1>2, <1>4
  <1>16. OfTheSet' /\ WholeFiles' /\ Prefix' /\ NeverALayoutAlone'
    BY <1>2, <1>14, <1>15, <1>17, DestinationsKept
  <1>18. Stuck'
    <2> SUFFICES ASSUME NEW s \in Runs, NEW i \in 1..Len(Set[s]),
                        <<s, Self(Set[s][i])>> \in kept'
                 PROVE  i < Len(Set[s]) /\ outcome'[s] \in {"failed", "cancelled"}
      BY Sets DEF Stuck
    <2>1. Self(Set[s][i]) \in Names /\ Self(Set[s][i]) # t
      BY <1>1, Sets, NamesApart
    <2>2. <<s, Self(Set[s][i])>> \in kept
      BY <2>1, <1>17
    <2>3. i < Len(Set[s]) /\ outcome[s] \in {"failed", "cancelled"}
      BY <2>2, Sets DEF IInv, Stuck
    <2> QED BY <2>3, <1>4, <1>6
  <1> QED BY <1>7, <1>8, <1>11, <1>12, <1>13, <1>16, <1>18 DEF IInv

(* What an undoing run is about to take back is its own.                   *)
LEMMA UndoesItsOwn ==
  ASSUME IInv, NEW r \in Runs, pc[r] = "undoing", at[r] \in 1..Len(Set[r])
  PROVE  There(r, at[r])
  <1>1. Linked(r) = at[r]
    BY DEF Linked
  <1>2. \A i \in 1..Len(Set[r]) : i <= Linked(r) => There(r, i)
    BY Sets DEF IInv, Prefix
  <1> QED BY <1>1, <1>2

(* A file is taken back, or is one that was kept: it is the last that this *)
(* run has linked, so it is its own, and it is no layout.                  *)
LEMMA TakesBack ==
  ASSUME IInv, NEW r \in Runs, TakeBack(r)
  PROVE  IInv'
  <1> DEFINE d == Self(Place(r))
  <1>1. /\ pc[r] = "undoing" /\ at[r] \in 1..Len(Set[r]) /\ at[r] < Len(Set[r])
        /\ Place(r) = Set[r][at[r]] /\ Place(r) \in Places
        /\ d \in Names /\ d \notin Temporaries
    BY NamesApart, Sets DEF IInv, TypeOK, Stages, TakeBack, Place
  <1>2. dir[d] = <<r, Place(r)>>
    BY <1>1, UndoesItsOwn DEF There, d
  <1>3. /\ \/ dir' = [dir EXCEPT ![d] = Nothing] /\ kept' = kept
           \/ dir' = dir /\ kept' = kept \cup {<<r, d>>}
        /\ at' = [at EXCEPT ![r] = @ - 1]
        /\ UNCHANGED <<whole, pc, attempt, signalled, outcome>>
    BY DEF TakeBack, Removal, Without
  <1>4. /\ dir \in [Names -> Files \cup {Nothing, Theirs}]
        /\ at \in [Runs -> Nat]
    BY DEF IInv, TypeOK
  <1> HIDE DEF d
  <1>21. /\ \A n \in Names : n # d => dir'[n] = dir[n]
         /\ dir'[d] = Nothing \/ <<r, d>> \in kept'
         /\ dir'[d] \in {Nothing, dir[d]}
         /\ kept \subseteq kept'
         /\ \A s \in Runs, n \in Names : <<s, n>> # <<r, d>> /\ <<s, n>> \in kept'
              => <<s, n>> \in kept
    BY <1>1, <1>3, <1>4
  <1>5. TypeOK'
    <2>1. dir' \in [Names -> Files \cup {Nothing, Theirs}]
      BY <1>1, <1>3, <1>4
    <2>2. kept' \subseteq Runs \X Names
      <3>1. kept \subseteq Runs \X Names
        BY DEF IInv, TypeOK
      <3> QED BY <3>1, <1>1, <1>3
    <2>3. at' \in [Runs -> Nat] /\ \A s \in Runs : at'[s] <= Len(Set[s])
      BY <1>1, <1>3, Sets DEF IInv, TypeOK
    <2> QED BY <2>1, <2>2, <2>3, <1>3 DEF IInv, TypeOK
  <1>6. Stages'
    BY <1>1, <1>3, <1>4, Sets DEF IInv, Stages, Steps
  <1>7. \A s \in Runs : pc[s] # "undoing" => File(s)' = File(s) /\ Temporary(s)' = Temporary(s)
    BY <1>1, <1>3, <1>4 DEF File, Temporary, Place
  <1>8. Filled'
    BY <1>3, <1>7 DEF IInv, Filled
  <1>9. \A s \in Runs : Holding(s)' => /\ Holding(s)
                                     /\ Temporary(s)' = Temporary(s)
                                     /\ File(s)' = File(s)
    BY <1>3, <1>7 DEF Holding
  <1>10. \A t \in Temporaries : dir'[t] = dir[t]
    BY <1>1, <1>21 DEF Names
  <1>11. /\ \A s \in Runs : Holding(s) => pc'[s] = "killed" \/ Holding(s)'
         /\ \A s \in Runs : pc[s] = "killed" => pc'[s] = "killed"
    BY <1>3 DEF Holding
  <1>12. Held' /\ Owned'
    BY <1>9, <1>10, <1>11, <1>21, TemporariesKept
  <1>13. \A p \in Places : p # Place(r) => dir'[Self(p)] = dir[Self(p)]
    BY <1>1, <1>21, NamesApart DEF d
  <1>14. dir'[d] = Nothing \/ dir'[d] = <<r, Place(r)>>
    BY <1>2, <1>21
  <1>15. \A p \in Places, f \in Files : dir'[Self(p)] = f => dir[Self(p)] = f
    BY <1>2, <1>13, <1>14, FilesApart DEF d
  <1>16. OfTheSet'
    <2> SUFFICES ASSUME NEW s \in Runs, NEW p \in Places, NEW q \in Places,
                        dir'[Self(p)] = <<s, q>>
                 PROVE  q = p /\ \E i \in DOMAIN Set[s] : p = Set[s][i]
      BY DEF OfTheSet
    <2>1. dir[Self(p)] = <<s, q>>
      BY <1>15, FilesApart
    <2> QED BY <2>1 DEF IInv, OfTheSet
  <1>17. WholeFiles'
    <2> SUFFICES ASSUME NEW p \in Places, dir'[Self(p)] \in Files
                 PROVE  dir'[Self(p)] \in whole'
      BY DEF WholeFiles
    <2>1. dir[Self(p)] = dir'[Self(p)]
      BY <1>15
    <2> QED BY <2>1, <1>3 DEF IInv, WholeFiles
  <1>18. \A s \in Runs : \A i \in 1..Len(Set[s]) :
           (There(s, i)' <=> There(s, i)) \/ (s = r /\ i = at[r])
    <2> SUFFICES ASSUME NEW s \in Runs, NEW i \in 1..Len(Set[s])
                 PROVE  (There(s, i)' <=> There(s, i)) \/ (s = r /\ i = at[r])
      OBVIOUS
    <2>1. CASE Set[s][i] # Place(r)
      BY <2>1, <1>13, Sets DEF There
    <2>2. CASE Set[s][i] = Place(r) /\ s # r
      <3>1. ~There(s, i)
        BY <2>2, <1>2 DEF There, d
      <3>2. ~There(s, i)'
        <4>1. Self(Set[s][i]) = d /\ Set[s][i] \in Places
          BY <2>2, <1>1 DEF d
        <4>2. There(s, i)' => dir'[d] = <<s, Set[s][i]>>
          BY <4>1 DEF There
        <4>3. Nothing # <<s, Set[s][i]>>
          <5>1. <<s, Set[s][i]>> \in Files
            BY <4>1, FilesApart
          <5> QED BY <5>1, NotFiles
        <4>4. <<r, Place(r)>> # <<s, Set[s][i]>>
          BY <2>2
        <4> QED BY <4>2, <4>3, <4>4, <1>14
      <3> QED BY <3>1, <3>2
    <2>3. CASE Set[s][i] = Place(r) /\ s = r
      BY <2>3, <1>1, Sets
    <2> QED BY <2>1, <2>2, <2>3
  <1>19. Prefix'
    <2> SUFFICES ASSUME NEW s \in Runs, pc'[s] # "killed",
                        NEW i \in 1..Len(Set[s])
                 PROVE  /\ i <= Linked(s)' => There(s, i)'
                        /\ There(s, i)' => i <= Linked(s)' \/ <<s, Self(Set[s][i])>> \in kept'
      BY Sets DEF Prefix
    <2>1. /\ i <= Linked(s) => There(s, i)
          /\ There(s, i) => i <= Linked(s) \/ <<s, Self(Set[s][i])>> \in kept'
      BY <1>3, <1>21, Sets DEF IInv, Prefix
    <2>2. CASE s # r
      <3>1. Linked(s)' = Linked(s)
        BY <2>2, <1>3, <1>4 DEF Linked
      <3> QED BY <2>1, <2>2, <3>1, <1>18
    <2>3. CASE s = r
      <3>1. Linked(r) = at[r] /\ Linked(r)' = at[r] - 1
        BY <1>1, <1>3, <1>4 DEF Linked
      <3>2. CASE i = at[r]
        <4>1. Self(Set[r][i]) = d
          BY <3>2, <1>1 DEF d
        <4>2. There(r, i)' => <<r, d>> \in kept'
          <5>1. There(r, i)' => dir'[d] = <<r, Place(r)>>
            BY <3>2, <4>1, <1>1 DEF There
          <5>2. Nothing # <<r, Place(r)>>
            BY <1>1, FilesApart
          <5> QED BY <5>1, <5>2, <1>21
        <4>3. ~(i <= Linked(r)')
          BY <3>1, <3>2, <1>4
        <4> QED BY <4>1, <4>2, <4>3, <2>3
      <3>3. CASE i # at[r]
        BY <3>3, <3>1, <2>1, <2>3, <1>18, <1>4
      <3> QED BY <3>2, <3>3
    <2> QED BY <2>2, <2>3
  <1>20. NeverALayoutAlone'
    <2> SUFFICES ASSUME NEW s \in Runs, There(s, Len(Set[s]))', NEW i \in 1..Len(Set[s])
                 PROVE  There(s, i)'
      BY Sets DEF NeverALayoutAlone, There, Layout
    <2>1. There(s, Len(Set[s]))
      BY <1>1, <1>18, Sets
    <2>2. s # r
      <3> DEFINE n == Len(Set[r])
      <3>3. n \in Nat \ {0} /\ n \in DOMAIN Set[r]
        BY Sets
      <3>4. ~(n < n)
        BY <3>3
      <3>5. <<r, Self(Set[r][n])>> \notin kept
        BY <3>3, <3>4 DEF IInv, Stuck
      <3>1. r # s \/ n <= Linked(r)
        BY <2>1, <3>3, <3>5, <1>1 DEF IInv, Prefix
      <3> QED BY <3>1, <1>1, Sets DEF Linked
    <2>3. There(s, i)
      BY <2>1, Sets DEF IInv, NeverALayoutAlone, There, Layout
    <2> QED BY <2>2, <2>3, <1>18
  <1>22. Stuck'
    <2> SUFFICES ASSUME NEW s \in Runs, NEW i \in 1..Len(Set[s]),
                        <<s, Self(Set[s][i])>> \in kept'
                 PROVE  i < Len(Set[s]) /\ outcome[s] \in {"failed", "cancelled"}
      BY <1>3, Sets DEF Stuck
    <2>1. CASE s = r /\ Self(Set[s][i]) = d
      <3>1. i = at[r]
        BY <2>1, <1>1, Sets, NamesApart DEF d
      <3> QED BY <2>1, <3>1, <1>1 DEF IInv, Stages
    <2>2. CASE ~(s = r /\ Self(Set[s][i]) = d)
      <3>1. <<s, Self(Set[s][i])>> \in kept
        BY <2>2, <1>21, Sets, NamesApart
      <3> QED BY <3>1, Sets DEF IInv, Stuck
    <2> QED BY <2>1, <2>2
  <1> QED BY <1>5, <1>6, <1>8, <1>12, <1>16, <1>17, <1>19, <1>20, <1>22 DEF IInv

(* A person's file is at a place that was free, and it is no run's.        *)
LEMMA PersonKeeps ==
  ASSUME IInv, PersonWrites
  PROVE  IInv'
  <1>1. PICK p \in Places : /\ dir[Self(p)] = Nothing
                            /\ dir' = [dir EXCEPT ![Self(p)] = Theirs]
                            /\ UNCHANGED <<whole, pc, at, attempt, signalled, outcome, kept>>
    BY DEF PersonWrites
  <1>2. dir \in [Names -> Files \cup {Nothing, Theirs}]
    BY DEF IInv, TypeOK
  <1>3. TypeOK' /\ Stages' /\ Filled'
    BY <1>1, NamesApart DEF IInv, TypeOK, Stages, Filled, File, Place
  <1>4. \A t \in Temporaries : dir'[t] = dir[t]
    BY <1>1, <1>2, NamesApart DEF Names
  <1>5. \A s \in Runs : /\ Holding(s)' <=> Holding(s)
                       /\ Temporary(s)' = Temporary(s) /\ File(s)' = File(s)
    BY <1>1 DEF Holding, Temporary, File, Place
  <1>6. Held' /\ Owned'
    BY <1>1, <1>4, <1>5, TemporariesKept
  <1>7. \A q \in Places, f \in Files : dir'[Self(q)] = f <=> dir[Self(q)] = f
    BY <1>1, <1>2, NamesApart, FilesApart
  <1>8. OfTheSet'
    BY <1>7, FilesApart DEF IInv, OfTheSet
  <1>9. WholeFiles'
    <2> SUFFICES ASSUME NEW q \in Places, dir'[Self(q)] \in Files
                 PROVE  dir'[Self(q)] \in whole'
      BY DEF WholeFiles
    <2>1. dir[Self(q)] = dir'[Self(q)]
      BY <1>7
    <2> QED BY <2>1, <1>1 DEF IInv, WholeFiles
  <1>10. \A s \in Runs : \A i \in 1..Len(Set[s]) : There(s, i)' <=> There(s, i)
    BY <1>7, FilesApart, Sets DEF There
  <1>11. Prefix'
    <2>1. \A s \in Runs : Linked(s)' = Linked(s) /\ pc'[s] = pc[s]
      BY <1>1 DEF Linked
    <2> QED BY <2>1, <1>1, <1>10, Sets DEF IInv, Prefix
  <1>12. NeverALayoutAlone'
    <2> SUFFICES ASSUME NEW s \in Runs, There(s, Len(Set[s]))', NEW i \in 1..Len(Set[s])
                 PROVE  There(s, i)'
      BY Sets DEF NeverALayoutAlone, There, Layout
    <2>1. There(s, Len(Set[s]))
      BY <1>10, Sets
    <2>2. There(s, i)
      BY <2>1, Sets DEF IInv, NeverALayoutAlone, There, Layout
    <2> QED BY <2>2, <1>10
  <1>13. Stuck'
    BY <1>1 DEF IInv, Stuck
  <1> QED BY <1>3, <1>6, <1>8, <1>9, <1>11, <1>12, <1>13 DEF IInv

-----------------------------------------------------------------------------
LEMMA Initially == Init => IInv
  <1> SUFFICES ASSUME Init PROVE IInv
    OBVIOUS
  <1>1. \A n \in Names, f \in Files : dir[n] # f
    BY FilesApart DEF Init
  <1>2. TypeOK
    BY AttemptsAssumption, Sets DEF Init, TypeOK, Steps
  <1>3. Stages
    BY Sets DEF Init, Stages, Steps
  <1>4. Held /\ Filled
    BY DEF Init, Held, Filled, Holding
  <1>5. Owned /\ OfTheSet /\ WholeFiles
    BY <1>1, NamesApart, FilesApart DEF Owned, OfTheSet, WholeFiles
  <1>6. \A s \in Runs : \A i \in 1..Len(Set[s]) : ~There(s, i)
    BY <1>1, NamesApart, FilesApart, Sets DEF There
  <1>7. \A s \in Runs : Linked(s) = 0
    BY DEF Init, Linked
  <1>8. Prefix
    BY <1>6, <1>7, Sets DEF Prefix
  <1>9. NeverALayoutAlone
    BY <1>6, Sets DEF NeverALayoutAlone, There, Layout
  <1>10. Stuck
    BY DEF Init, Stuck
  <1> QED BY <1>2, <1>3, <1>4, <1>5, <1>8, <1>9, <1>10 DEF IInv

LEMMA Inductive == IInv /\ [Next]_vars => IInv'
  <1> SUFFICES ASSUME IInv, [Next]_vars PROVE IInv'
    OBVIOUS
  <1>1. ASSUME NEW r \in Runs, Step(r) PROVE IInv'
    BY <1>1, Quiet, Creates, Links, Drops, TakesBack DEF Step
  <1>2. CASE PersonWrites
    BY <1>2, PersonKeeps
  <1>3. CASE UNCHANGED vars
    <2>1. dir' = dir /\ whole' = whole /\ pc' = pc /\ at' = at /\ attempt' = attempt
          /\ signalled' = signalled /\ outcome' = outcome /\ kept' = kept
      BY <1>3 DEF vars
    <2>2. TypeOK' /\ Stages' /\ Filled' /\ Stuck'
      BY <2>1 DEF IInv, TypeOK, Stages, Filled, Stuck, File, Place
    <2>3. \A s \in Runs : /\ Holding(s)' <=> Holding(s)
                         /\ Linked(s)' = Linked(s)
                         /\ Temporary(s)' = Temporary(s) /\ File(s)' = File(s)
      BY <2>1 DEF Holding, Linked, Temporary, File, Place
    <2>4. OfTheSet' /\ WholeFiles' /\ Prefix' /\ NeverALayoutAlone'
      BY <2>1, <2>3, DestinationsKept
    <2>5. Held' /\ Owned'
      BY <2>1, <2>3, TemporariesKept
    <2> QED BY <2>2, <2>4, <2>5 DEF IInv
  <1> QED BY <1>1, <1>2, <1>3 DEF Next

(* The invariant holds in every state that runs of init can reach.         *)
THEOREM AlwaysKept == Spec => []IInv
  BY Initially, Inductive, PTL DEF Spec

(* Names, files and stages are of their types throughout.                  *)
THEOREM ScaffoldTyped == Spec => []TypeOK
  BY AlwaysKept, PTL DEF IInv

(* Every file init leaves at a destination holds all its bytes, even one   *)
(* that a killed run left.                                                 *)
THEOREM OnlyWholeFiles == Spec => []WholeFiles
  BY AlwaysKept, PTL DEF IInv

(* There is never a layout without the definitions files it names.         *)
THEOREM LayoutsAreComplete == Spec => []NeverALayoutAlone
  BY AlwaysKept, PTL DEF IInv

(* A run that was written left its whole set and any other that ended left *)
(* nothing, temporaries included, but for what it asked to be removed and  *)
(* the filesystem kept.                                                    *)
THEOREM AllOrNothing == Spec => []TheWholeSetOrNone
  <1>1. IInv => TheWholeSetOrNone
    <2> SUFFICES ASSUME IInv, NEW r \in Runs, pc[r] = "done"
                 PROVE  {n \in Names : dir[n] \in {r} \X Places /\ <<r, n>> \notin kept}
                          = IF outcome[r] = "written"
                            THEN {Self(Set[r][i]) : i \in DOMAIN Set[r]} ELSE {}
      BY DEF TheWholeSetOrNone
    <2>1. \A i \in 1..Len(Set[r]) :
            /\ i <= Linked(r) => There(r, i)
            /\ There(r, i) => i <= Linked(r) \/ <<r, Self(Set[r][i])>> \in kept
      BY Sets DEF IInv, Prefix
    \* What it left is at its destinations.
    <2>2. ASSUME NEW n \in Names, dir[n] \in {r} \X Places, <<r, n>> \notin kept
          PROVE  \E i \in 1..Len(Set[r]) : n = Self(Set[r][i]) /\ There(r, i)
      <3>1. PICK q \in Places : dir[n] = <<r, q>>
        BY <2>2
      <3>2. CASE n \in Temporaries
        <4>1. PICK p \in Places, k \in 1..Attempts : n = Name(p, k)
          BY <3>2 DEF Temporaries
        <4>2. pc[r] = "killed" \/ Holding(r)
          BY <2>2, <3>1, <4>1 DEF IInv, Owned
        <4> QED BY <4>2 DEF Holding
      <3>3. CASE \E p \in Places : n = Self(p)
        <4>1. PICK p \in Places : n = Self(p)
          BY <3>3
        <4>2. q = p /\ \E i \in 1..Len(Set[r]) : p = Set[r][i]
          BY <3>1, <4>1, Sets DEF IInv, OfTheSet
        <4> QED BY <3>1, <4>1, <4>2 DEF There
      <3> QED BY <3>2, <3>3 DEF Names
    <2>3. CASE outcome[r] = "written"
      <3>1. Linked(r) = Len(Set[r])
        BY <2>3 DEF Linked
      <3>3. DOMAIN Set[r] = 1..Len(Set[r])
        BY Sets
      <3>2. ASSUME NEW i \in 1..Len(Set[r])
            PROVE  /\ Self(Set[r][i]) \in Names /\ <<r, Self(Set[r][i])>> \notin kept
                   /\ dir[Self(Set[r][i])] \in {r} \X Places
        <4>1. There(r, i)
          <5>1. i <= Len(Set[r])
            BY Sets
          <5> QED BY <5>1, <3>1, <2>1
        <4>2. <<r, Self(Set[r][i])>> \notin kept
          BY <2>3, Sets DEF IInv, Stuck
        <4>3. Set[r][i] \in Places
          BY Sets
        <4>4. Self(Set[r][i]) \in Names
          BY <4>3, NamesApart
        <4> QED BY <4>1, <4>2, <4>3, <4>4 DEF There
      <3> DEFINE left == {n \in Names : dir[n] \in {r} \X Places /\ <<r, n>> \notin kept}
                 destinations == {Self(Set[r][i]) : i \in DOMAIN Set[r]}
      <3>4. left \subseteq destinations
        <4> SUFFICES ASSUME NEW n \in left PROVE n \in destinations
          OBVIOUS
        <4>1. PICK i \in 1..Len(Set[r]) : n = Self(Set[r][i])
          BY <2>2
        <4> QED BY <4>1, <3>3
      <3>5. destinations \subseteq left
        <4> SUFFICES ASSUME NEW n \in destinations PROVE n \in left
          OBVIOUS
        <4>1. PICK i \in 1..Len(Set[r]) : n = Self(Set[r][i])
          BY <3>3
        <4> QED BY <4>1, <3>2
      <3> QED BY <3>4, <3>5, <2>3
    <2>4. CASE outcome[r] # "written"
      <3>1. Linked(r) = 0
        BY <2>4 DEF Linked
      <3> QED BY <3>1, <2>1, <2>2, <2>4
    <2> QED BY <2>3, <2>4
  <1> QED BY <1>1, AlwaysKept, PTL

(* No step replaces what is at a destination, and only a run that undoes   *)
(* takes away what it had put there itself.                                *)
THEOREM NeverReplaced == Spec => NothingIsReplaced
  <1>1. ASSUME IInv, [Next]_vars, NEW p \in Places,
               dir[Self(p)] # Nothing, dir'[Self(p)] # dir[Self(p)]
        PROVE  \E r \in Runs : /\ dir[Self(p)] = <<r, p>> /\ pc[r] = "undoing"
                              /\ dir'[Self(p)] = Nothing
    <2>1. dir \in [Names -> Files \cup {Nothing, Theirs}] /\ Self(p) \in Names
      BY <1>1, NamesApart DEF IInv, TypeOK
    <2>2. ~PersonWrites
      BY <1>1, <2>1 DEF PersonWrites
    <2>3. PICK r \in Runs : Step(r)
      BY <1>1, <2>2 DEF Next, vars
    <2>4. Create(r) \/ Link(r) \/ Drop(r) \/ TakeBack(r)
      BY <1>1, <2>3 DEF Step, Check, StepOver, CreateFails, Fill, FillFails, Ask, LinkFails,
           Undone, Signal, Killed
    <2>5. ~Create(r) /\ ~Drop(r)
      <3>1. pc[r] \in {"naming", "dropping"} => Self(p) # Temporary(r)
        BY <1>1, Standing, NamesApart DEF IInv, Steps
      <3> QED BY <1>1, <2>1, <3>1 DEF Create, Drop, Removal, Without
    <2>6. ~Link(r)
      BY <1>1, <2>1 DEF Link, Linkable
    <2>7. TakeBack(r)
      BY <2>4, <2>5, <2>6
    <2>8. /\ pc[r] = "undoing" /\ at[r] \in 1..Len(Set[r])
          /\ Self(p) = Self(Place(r)) /\ dir'[Self(p)] = Nothing
      BY <1>1, <2>1, <2>7 DEF TakeBack, Removal, Without, IInv, TypeOK
    <2>9. Place(r) = p /\ Place(r) = Set[r][at[r]]
      BY <2>8, NamesApart, Sets DEF Place
    <2>10. dir[Self(p)] = <<r, p>>
      BY <1>1, <2>8, <2>9, UndoesItsOwn DEF There
    <2> QED BY <2>8, <2>10
  <1>2. IInv /\ [Next]_vars =>
          [\A p \in Places : dir[Self(p)] # Nothing /\ dir'[Self(p)] # dir[Self(p)] =>
             \E r \in Runs : /\ dir[Self(p)] = <<r, p>> /\ pc[r] = "undoing"
                             /\ dir'[Self(p)] = Nothing]_vars
    BY <1>1
  <1> QED BY <1>2, AlwaysKept, PTL DEF Spec, NothingIsReplaced

=============================================================================
