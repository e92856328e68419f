-------------------------- MODULE EmitWriteProofs ---------------------------
(***************************************************************************)
(* However many runs of --emit-ir write one path, whatever fails in them   *)
(* and wherever they are killed, the path is written in full or not at all *)
(* AS LONG AS no two of them write at once: the assumption each theorem    *)
(* makes, and what the code does not see to.                               *)
(*                                                                         *)
(* It is used once. A run that has renamed its temporary removes the name  *)
(* all the same, and only because nobody else is writing does the name not *)
(* lead to a file that another run is about to rename.                     *)
(***************************************************************************)
EXTENDS EmitWrite, TLAPS

Alone == \A r, s \in Runs : Active(r) /\ Active(s) => r = s

(* The runs whose temporary name leads to the file they made.              *)
Holding(r) ==
  \/ pc[r] \in {"writing", "flushing", "moding", "renaming"}
  \/ pc[r] = "removing" /\ outcome[r] = "failed"

Held == \A r \in Runs : Holding(r) => dir[Temporary(r)] = r

Owned == \A r \in Runs, t \in Temporaries :
  dir[t] = r => \/ pc[r] = "killed"
                \/ Holding(r) /\ t = Temporary(r)
                \/ "remove" \in unheard[r]

Filled == \A r \in Runs : pc[r] \in {"moding", "renaming"} => bytes[r] = "whole"

Told == \A r \in Runs :
  /\ pc[r] \in {"idle"} \cup (Steps \ {"removing"}) => outcome[r] = "none"
  /\ pc[r] = "removing" => outcome[r] \in {"written", "failed"}

(* A file that is at a path is whole, and its run is done with it.         *)
Published == \A r \in Runs, p \in Places :
  dir[Self(p)] = r => bytes[r] = "whole" /\ pc[r] \in {"removing", "done", "killed"}

IInv == TypeOK /\ Alone /\ Held /\ Owned /\ Filled /\ Told /\ Published

-----------------------------------------------------------------------------
(* Runs are none of the other files, and no file is a link or nothing.     *)
LEMMA Apart ==
  /\ Nothing \notin Runs /\ Link \notin Runs /\ Before \notin Runs /\ Litter \notin Runs
  BY NotRuns

LEMMA NamesApart ==
  /\ \A p \in Places : Self(p) \in Names /\ Self(p) \notin Temporaries
  /\ \A t \in Temporaries : t \in Names
  /\ \A p \in Places, n \in 1..Attempts : Name(p, n) \in Temporaries
  /\ \A p, q \in Places : Self(p) = Self(q) => p = q
  BY AttemptsAssumption DEF Self, Name, Names, Temporaries

LEMMA OwnTemporary ==
  ASSUME TypeOK, NEW r \in Runs
  PROVE  Temporary(r) \in Temporaries /\ Temporary(r) \in Names /\ target[r] \in Places
  BY NamesApart DEF TypeOK, Temporary

(* What a run has ignored stays known.                                     *)
LEMMA Remembered ==
  ASSUME IInv, [Next]_vars
  PROVE  \A r \in Runs : unheard[r] \subseteq unheard'[r]
  BY DEF IInv, TypeOK, Next, vars, Step, Begin, BeginAsTyped, Create, StepOver, CreateFails,
     Write, WriteFails, Flush, FlushFails, KeepMode, KeepModeFails, StatFails, Rename,
     RenameFails, Remove, RemoveFails, Killed, FailWith, Unheard

(* Only a run that begins becomes active, and it looks for others first.   *)
LEMMA StaysAlone ==
  ASSUME ~Overlapping, IInv, NEW r \in Runs, Step(r)
  PROVE  Alone'
  <1>1. pc \in [Runs -> {"idle"} \cup Steps \cup Ends]
    BY DEF IInv, TypeOK
  <1>2. CASE Begin(r) \/ BeginAsTyped(r)
    BY <1>1, <1>2 DEF Begin, BeginAsTyped, Active, Alone, Steps
  <1>3. CASE ~Begin(r) /\ ~BeginAsTyped(r)
    <2>1. \A s \in Runs : Active(s)' => Active(s)
      BY <1>1, <1>3 DEF Step, Create, StepOver, CreateFails, Write, WriteFails, Flush,
         FlushFails, KeepMode, KeepModeFails, StatFails, Rename, RenameFails, Remove,
         RemoveFails, Killed, FailWith, Active, Steps, Ends
    <2> QED BY <2>1 DEF IInv, Alone
  <1> QED BY <1>2, <1>3

-----------------------------------------------------------------------------
(* The steps that move no name.                                            *)
LEMMA Quiet ==
  ASSUME IInv, NEW r \in Runs, Alone',
         \/ Begin(r)
         \/ BeginAsTyped(r)
         \/ StepOver(r)
         \/ CreateFails(r)
         \/ Write(r)
         \/ WriteFails(r)
         \/ Flush(r)
         \/ FlushFails(r)
         \/ KeepMode(r)
         \/ KeepModeFails(r)
         \/ StatFails(r)
         \/ RenameFails(r)
         \/ RemoveFails(r)
         \/ Killed(r)
  PROVE  IInv'
  <1>1. CASE Begin(r)
    <2>1. TypeOK'
      BY <1>1, NamesApart DEF IInv, TypeOK, Steps, Ends, Files, Begin, Resolved, Places
    <2>2. Filled' /\ Told'
      BY <1>1 DEF IInv, TypeOK, Filled, Told, Steps, Begin
    <2>3. Held' /\ Owned'
      BY <1>1 DEF IInv, TypeOK, Told, Held, Owned, Holding, Temporary, Steps, Begin
    <2>4. Published'
      BY <1>1 DEF IInv, TypeOK, Published, Begin
    <2> QED BY <2>1, <2>2, <2>3, <2>4 DEF IInv
  <1>2. CASE StepOver(r)
    <2>1. TypeOK'
      BY <1>2, AttemptsAssumption DEF IInv, TypeOK, Steps, Ends, Files, StepOver
    <2>2. Filled' /\ Told'
      BY <1>2 DEF IInv, TypeOK, Filled, Told, Steps, StepOver
    <2>3. Held' /\ Owned'
      BY <1>2 DEF IInv, TypeOK, Told, Held, Owned, Holding, Temporary, Steps, StepOver
    <2>4. Published'
      BY <1>2 DEF IInv, TypeOK, Published, StepOver
    <2> QED BY <2>1, <2>2, <2>3, <2>4 DEF IInv
  <1>3. CASE CreateFails(r)
    <2>1. TypeOK'
      BY <1>3, NamesApart DEF IInv, TypeOK, Steps, Ends, Files, CreateFails
    <2>2. Filled' /\ Told'
      BY <1>3 DEF IInv, TypeOK, Filled, Told, Steps, CreateFails
    <2>3. Held' /\ Owned'
      BY <1>3 DEF IInv, TypeOK, Told, Held, Owned, Holding, Temporary, Steps, CreateFails
    <2>4. Published'
      BY <1>3 DEF IInv, TypeOK, Published, CreateFails
    <2> QED BY <2>1, <2>2, <2>3, <2>4 DEF IInv
  <1>4. CASE Write(r)
    <2>1. TypeOK'
      BY <1>4, NamesApart DEF IInv, TypeOK, Steps, Ends, Files, Write
    <2>2. Filled' /\ Told'
      BY <1>4 DEF IInv, TypeOK, Filled, Told, Steps, Write
    <2>3. Held' /\ Owned'
      BY <1>4 DEF IInv, TypeOK, Told, Held, Owned, Holding, Temporary, Steps, Write
    <2>4. Published'
      BY <1>4 DEF IInv, TypeOK, Published, Write
    <2> QED BY <2>1, <2>2, <2>3, <2>4 DEF IInv
  <1>5. CASE WriteFails(r)
    <2>1. TypeOK'
      BY <1>5, NamesApart DEF IInv, TypeOK, Steps, Ends, Files, WriteFails, FailWith
    <2>2. Filled' /\ Told'
      BY <1>5 DEF IInv, TypeOK, Filled, Told, Steps, WriteFails, FailWith
    <2>3. Held' /\ Owned'
      BY <1>5 DEF IInv, TypeOK, Told, Held, Owned, Holding, Temporary, Steps, WriteFails, FailWith
    <2>4. Published'
      BY <1>5 DEF IInv, TypeOK, Published, WriteFails, FailWith
    <2> QED BY <2>1, <2>2, <2>3, <2>4 DEF IInv
  <1>6. CASE Flush(r)
    <2>1. TypeOK'
      BY <1>6, NamesApart DEF IInv, TypeOK, Steps, Ends, Files, Flush
    <2>2. Filled' /\ Told'
      BY <1>6 DEF IInv, TypeOK, Filled, Told, Steps, Flush
    <2>3. Held' /\ Owned'
      BY <1>6 DEF IInv, TypeOK, Told, Held, Owned, Holding, Temporary, Steps, Flush
    <2>4. Published'
      BY <1>6 DEF IInv, TypeOK, Published, Flush
    <2> QED BY <2>1, <2>2, <2>3, <2>4 DEF IInv
  <1>7. CASE FlushFails(r)
    <2>1. TypeOK'
      BY <1>7, NamesApart DEF IInv, TypeOK, Steps, Ends, Files, FlushFails, FailWith
    <2>2. Filled' /\ Told'
      BY <1>7 DEF IInv, TypeOK, Filled, Told, Steps, FlushFails, FailWith
    <2>3. Held' /\ Owned'
      BY <1>7 DEF IInv, TypeOK, Told, Held, Owned, Holding, Temporary, Steps, FlushFails, FailWith
    <2>4. Published'
      BY <1>7 DEF IInv, TypeOK, Published, FlushFails, FailWith
    <2> QED BY <2>1, <2>2, <2>3, <2>4 DEF IInv
  <1>8. CASE KeepMode(r)
    <2>1. TypeOK'
      BY <1>8, NamesApart DEF IInv, TypeOK, Steps, Ends, Files, KeepMode, ModeAt, Found
    <2>2. Filled' /\ Told'
      BY <1>8 DEF IInv, TypeOK, Filled, Told, Steps, KeepMode
    <2>3. Held' /\ Owned'
      BY <1>8 DEF IInv, TypeOK, Told, Held, Owned, Holding, Temporary, Steps, KeepMode
    <2>4. Published'
      BY <1>8 DEF IInv, TypeOK, Published, KeepMode
    <2> QED BY <2>1, <2>2, <2>3, <2>4 DEF IInv
  <1>9. CASE KeepModeFails(r)
    <2>1. TypeOK'
      BY <1>9, NamesApart DEF IInv, TypeOK, Steps, Ends, Files, KeepModeFails, FailWith
    <2>2. Filled' /\ Told'
      BY <1>9 DEF IInv, TypeOK, Filled, Told, Steps, KeepModeFails, FailWith
    <2>3. Held' /\ Owned'
      BY <1>9 DEF IInv, TypeOK, Told, Held, Owned, Holding, Temporary, Steps, KeepModeFails, FailWith
    <2>4. Published'
      BY <1>9 DEF IInv, TypeOK, Published, KeepModeFails, FailWith
    <2> QED BY <2>1, <2>2, <2>3, <2>4 DEF IInv
  <1>10. CASE RenameFails(r)
    <2>1. TypeOK'
      BY <1>10, NamesApart DEF IInv, TypeOK, Steps, Ends, Files, RenameFails, FailWith
    <2>2. Filled' /\ Told'
      BY <1>10 DEF IInv, TypeOK, Filled, Told, Steps, RenameFails, FailWith
    <2>3. Held' /\ Owned'
      BY <1>10 DEF IInv, TypeOK, Told, Held, Owned, Holding, Temporary, Steps, RenameFails, FailWith
    <2>4. Published'
      BY <1>10 DEF IInv, TypeOK, Published, RenameFails, FailWith
    <2> QED BY <2>1, <2>2, <2>3, <2>4 DEF IInv
  <1>11. CASE Killed(r)
    <2>1. TypeOK'
      BY <1>11, NamesApart DEF IInv, TypeOK, Steps, Ends, Files, Killed
    <2>2. Filled' /\ Told'
      BY <1>11 DEF IInv, TypeOK, Filled, Told, Steps, Killed
    <2>3. Held' /\ Owned'
      BY <1>11 DEF IInv, TypeOK, Told, Held, Owned, Holding, Temporary, Steps, Killed
    <2>4. Published'
      BY <1>11 DEF IInv, TypeOK, Published, Killed
    <2> QED BY <2>1, <2>2, <2>3, <2>4 DEF IInv
  <1>12. CASE BeginAsTyped(r)
    <2>1. TypeOK'
      BY <1>12, NamesApart DEF IInv, TypeOK, Steps, Ends, Files, BeginAsTyped, Unheard, Places
    <2>2. Filled' /\ Told'
      BY <1>12 DEF IInv, TypeOK, Filled, Told, Steps, BeginAsTyped
    <2>3. Held' /\ Owned'
      BY <1>12 DEF IInv, TypeOK, Told, Held, Owned, Holding, Temporary, Steps, BeginAsTyped, Unheard
    <2>4. Published'
      BY <1>12 DEF IInv, TypeOK, Published, BeginAsTyped
    <2> QED BY <2>1, <2>2, <2>3, <2>4 DEF IInv
  <1>13. CASE StatFails(r)
    <2>1. TypeOK'
      BY <1>13, NamesApart DEF IInv, TypeOK, Steps, Ends, Files, StatFails, Unheard
    <2>2. Filled' /\ Told'
      BY <1>13 DEF IInv, TypeOK, Filled, Told, Steps, StatFails
    <2>3. Held' /\ Owned'
      BY <1>13 DEF IInv, TypeOK, Told, Held, Owned, Holding, Temporary, Steps, StatFails, Unheard
    <2>4. Published'
      BY <1>13 DEF IInv, TypeOK, Published, StatFails
    <2> QED BY <2>1, <2>2, <2>3, <2>4 DEF IInv
  <1>14. CASE RemoveFails(r)
    <2>1. TypeOK'
      BY <1>14, NamesApart DEF IInv, TypeOK, Steps, Ends, Files, RemoveFails, Unheard
    <2>2. Filled' /\ Told'
      BY <1>14 DEF IInv, TypeOK, Filled, Told, Steps, RemoveFails
    <2>3. Held' /\ Owned'
      BY <1>14 DEF IInv, TypeOK, Told, Held, Owned, Holding, Temporary, Steps, RemoveFails, Unheard
    <2>4. Published'
      BY <1>14 DEF IInv, TypeOK, Published, RemoveFails
    <2> QED BY <2>1, <2>2, <2>3, <2>4 DEF IInv
  <1> QED BY <1>1, <1>2, <1>3, <1>4, <1>5, <1>6, <1>7, <1>8, <1>9, <1>10, <1>11, <1>12,
             <1>13, <1>14

(* A temporary is made where nothing was.                                  *)
LEMMA Creates ==
  ASSUME IInv, NEW r \in Runs, Alone', Create(r)
  PROVE  IInv'
  <1> DEFINE t == Temporary(r)
  <1>1. /\ t \in Temporaries /\ t \in Names /\ dir[t] = Nothing /\ pc[r] = "naming"
        /\ dir' = [dir EXCEPT ![t] = r] /\ pc' = [pc EXCEPT ![r] = "writing"]
        /\ UNCHANGED <<bytes, mode, target, attempt, outcome, unheard>>
    BY OwnTemporary DEF IInv, Create, Exclusive
  <1>2. /\ dir \in [Names -> Files \cup {Nothing, Link}]
        /\ pc \in [Runs -> {"idle"} \cup Steps \cup Ends]
    BY DEF IInv, TypeOK
  <1>3. \A s \in Runs : Temporary(s)' = Temporary(s)
    BY <1>1 DEF Temporary
  <1>4. \A s \in Runs \ {r} : Holding(s)' <=> Holding(s)
    BY <1>1, <1>2 DEF Holding
  <1> HIDE DEF t
  <1>5. TypeOK'
    BY <1>1 DEF IInv, TypeOK, Steps, Files
  <1>6. Filled' /\ Told'
    BY <1>1, <1>2 DEF IInv, Filled, Told, Steps
  <1>7. Held'
    <2> SUFFICES ASSUME NEW s \in Runs, Holding(s)' PROVE dir'[Temporary(s)] = s
      BY <1>3 DEF Held
    <2>1. CASE s = r
      BY <2>1, <1>1, <1>2 DEF t
    <2>2. CASE s # r
      <3>1. dir[Temporary(s)] = s
        BY <2>2, <1>4 DEF IInv, Held
      <3> QED BY <3>1, <1>1, <1>2, OwnTemporary, Apart DEF IInv
    <2> QED BY <2>1, <2>2
  <1>8. ~Holding(r) /\ Holding(r)'
    BY <1>1, <1>2 DEF Holding
  <1>9. Owned'
    <2> SUFFICES ASSUME NEW s \in Runs, NEW u \in Temporaries, dir'[u] = s
                 PROVE  \/ pc'[s] = "killed"
                        \/ Holding(s)' /\ u = Temporary(s)
                        \/ "remove" \in unheard'[s]
      BY <1>3 DEF Owned
    <2>1. CASE u = t
      BY <2>1, <1>1, <1>2, <1>8 DEF t
    <2>2. CASE u # t
      <3>1. dir[u] = s
        BY <2>2, <1>1, <1>2, NamesApart
      <3>2. \/ pc[s] = "killed"
            \/ Holding(s) /\ u = Temporary(s)
            \/ "remove" \in unheard[s]
        BY <3>1 DEF IInv, Owned
      <3> QED BY <3>2, <1>1, <1>2, <1>4, <1>8
    <2> QED BY <2>1, <2>2
  <1>10. Published'
    BY <1>1, <1>2, NamesApart DEF IInv, Published
  <1> QED BY <1>5, <1>6, <1>7, <1>9, <1>10 DEF IInv

(* The name moves, and with it the file that this run has filled.          *)
LEMMA Renames ==
  ASSUME IInv, NEW r \in Runs, Alone', Rename(r)
  PROVE  IInv'
  <1> DEFINE t == Temporary(r)
             d == Self(target[r])
  <1>1. /\ t \in Temporaries /\ t \in Names /\ target[r] \in Places
        /\ d \in Names /\ d \notin Temporaries /\ d # t
    BY OwnTemporary, NamesApart DEF IInv
  <1>2. dir[t] = r /\ bytes[r] = "whole"
    BY DEF IInv, Held, Holding, Filled, Rename
  <1>3. /\ dir' = [dir EXCEPT ![d] = r, ![t] = Nothing] /\ pc[r] = "renaming"
        /\ outcome' = [outcome EXCEPT ![r] = "written"]
        /\ pc' = [pc EXCEPT ![r] = "removing"]
        /\ UNCHANGED <<bytes, mode, target, attempt, unheard>>
    BY <1>2 DEF Rename, Moved
  <1>4. /\ dir \in [Names -> Files \cup {Nothing, Link}]
        /\ pc \in [Runs -> {"idle"} \cup Steps \cup Ends]
        /\ outcome \in [Runs -> {"none", "written", "failed"}]
    BY DEF IInv, TypeOK
  <1>5. \A s \in Runs : Temporary(s)' = Temporary(s)
    BY <1>3 DEF Temporary
  <1>6. \A s \in Runs \ {r} : Holding(s)' <=> Holding(s)
    BY <1>3, <1>4 DEF Holding
  <1>7. ~Holding(r)'
    BY <1>3, <1>4 DEF Holding
  <1> HIDE DEF t, d
  <1>8. TypeOK'
    BY <1>1, <1>3 DEF IInv, TypeOK, Steps, Files
  <1>9. Filled' /\ Told'
    BY <1>3, <1>4 DEF IInv, Filled, Told, Steps
  <1>10. \A u \in Temporaries : u # t => dir'[u] = dir[u]
    BY <1>1, <1>3, <1>4, NamesApart
  <1>11. Held'
    <2> SUFFICES ASSUME NEW s \in Runs, Holding(s)' PROVE dir'[Temporary(s)] = s
      BY <1>5 DEF Held
    <2>1. s # r /\ Holding(s)
      BY <1>6, <1>7
    <2>2. dir[Temporary(s)] = s /\ Temporary(s) \in Temporaries
      BY <2>1, OwnTemporary DEF IInv, Held
    <2> QED BY <2>1, <2>2, <1>2, <1>10
  <1>12. Owned'
    <2> SUFFICES ASSUME NEW s \in Runs, NEW u \in Temporaries, dir'[u] = s
                 PROVE  \/ pc'[s] = "killed"
                        \/ Holding(s)' /\ u = Temporary(s)
                        \/ "remove" \in unheard'[s]
      BY <1>5 DEF Owned
    <2>1. u # t
      BY <1>1, <1>3, <1>4, Apart
    <2>2. \/ pc[s] = "killed"
          \/ Holding(s) /\ u = Temporary(s)
          \/ "remove" \in unheard[s]
      BY <2>1, <1>10 DEF IInv, Owned
    <2> QED BY <2>1, <2>2, <1>3, <1>4, <1>6 DEF t
  <1>13. Published'
    <2> SUFFICES ASSUME NEW s \in Runs, NEW p \in Places, dir'[Self(p)] = s
                 PROVE  bytes[s] = "whole" /\ pc'[s] \in {"removing", "done", "killed"}
      BY <1>3 DEF Published
    <2>1. CASE Self(p) = d
      BY <2>1, <1>1, <1>2, <1>3, <1>4
    <2>2. CASE Self(p) # d
      <3>1. dir[Self(p)] = s
        BY <2>2, <1>1, <1>3, <1>4, NamesApart
      <3> QED BY <3>1, <1>3, <1>4 DEF IInv, Published
    <2> QED BY <2>1, <2>2
  <1> QED BY <1>8, <1>9, <1>11, <1>12, <1>13 DEF IInv

(* The name is removed, and nobody else is there to have taken it.         *)
LEMMA Removes ==
  ASSUME IInv, NEW r \in Runs, Alone', Remove(r)
  PROVE  IInv'
  <1> DEFINE t == Temporary(r)
  <1>1. /\ t \in Temporaries /\ t \in Names /\ pc[r] = "removing"
        /\ dir' = [dir EXCEPT ![t] = Nothing] /\ pc' = [pc EXCEPT ![r] = "done"]
        /\ UNCHANGED <<bytes, mode, target, attempt, outcome, unheard>>
    BY OwnTemporary DEF IInv, Remove, Without
  <1>2. /\ dir \in [Names -> Files \cup {Nothing, Link}]
        /\ pc \in [Runs -> {"idle"} \cup Steps \cup Ends]
    BY DEF IInv, TypeOK
  <1>3. \A s \in Runs : Temporary(s)' = Temporary(s)
    BY <1>1 DEF Temporary
  <1>4. \A s \in Runs : ~Holding(s)'
    <2>1. \A s \in Runs \ {r} : ~Active(s)
      BY <1>1 DEF IInv, Alone, Active, Steps
    <2> QED BY <2>1, <1>1, <1>2 DEF Holding, Active, Steps
  <1> HIDE DEF t
  <1>5. TypeOK'
    BY <1>1 DEF IInv, TypeOK, Ends
  <1>6. Filled' /\ Told'
    BY <1>1, <1>2 DEF IInv, Filled, Told, Steps
  <1>7. Held'
    BY <1>4 DEF Held
  <1>8. Owned'
    <2> SUFFICES ASSUME NEW s \in Runs, NEW u \in Temporaries, dir'[u] = s
                 PROVE  pc'[s] = "killed" \/ "remove" \in unheard'[s]
      BY DEF Owned
    <2>1. u # t /\ dir[u] = s
      BY <1>1, <1>2, Apart, NamesApart
    <2>2. \/ pc[s] = "killed"
          \/ Holding(s) /\ u = Temporary(s)
          \/ "remove" \in unheard[s]
      BY <2>1 DEF IInv, Owned
    <2>3. ~Holding(s) \/ s = r
      BY <1>1 DEF IInv, Alone, Active, Holding, Steps
    <2> QED BY <2>1, <2>2, <2>3, <1>1, <1>2 DEF t
  <1>9. Published'
    BY <1>1, <1>2, NamesApart DEF IInv, Published
  <1> QED BY <1>5, <1>6, <1>7, <1>8, <1>9 DEF IInv

-----------------------------------------------------------------------------
LEMMA Initially == Init => IInv
  <1> SUFFICES ASSUME Init PROVE IInv
    OBVIOUS
  <1>1. TypeOK
    BY AttemptsAssumption DEF Init, TypeOK, Files, Places
  <1>2. \A n \in Names, r \in Runs : dir[n] # r
    BY Apart DEF Init
  <1>3. Alone /\ Held /\ Filled /\ Told
    BY DEF Init, Alone, Active, Held, Holding, Filled, Told, Steps
  <1>4. Owned /\ Published
    BY <1>2, NamesApart DEF Owned, Published
  <1> QED BY <1>1, <1>3, <1>4 DEF IInv

LEMMA Inductive ==
  ASSUME ~Overlapping
  PROVE  IInv /\ [Next]_vars => IInv'
  <1> SUFFICES ASSUME IInv, [Next]_vars PROVE IInv'
    OBVIOUS
  <1>1. ASSUME NEW r \in Runs, Step(r) PROVE IInv'
    BY <1>1, StaysAlone, Quiet, Creates, Renames, Removes DEF Step
  <1>2. CASE UNCHANGED vars
    BY <1>2 DEF vars, IInv, TypeOK, Alone, Active, Held, Holding, Owned, Filled, Told,
         Published, Temporary
  <1> QED BY <1>1, <1>2 DEF Next

LEMMA AlwaysKept ==
  ASSUME ~Overlapping
  PROVE  Spec => []IInv
  BY Initially, Inductive, PTL DEF Spec

(* As long as no two runs write at once, the path is written in full or    *)
(* not at all.                                                             *)
THEOREM InFullOrNotAtAll ==
  ASSUME ~Overlapping
  PROVE  Spec => []WholeOrNotAtAll
  <1>1. IInv => WholeOrNotAtAll
    BY DEF IInv, Published, WholeOrNotAtAll
  <1> QED BY <1>1, AlwaysKept, PTL

(* As long as no two runs write at once, only a run that was killed, or    *)
(* whose removal of it failed, leaves a temporary behind.                  *)
THEOREM CleansUp ==
  ASSUME ~Overlapping
  PROVE  Spec => []LitterIsOfTheKilledOrUnheard
  <1>1. IInv => LitterIsOfTheKilledOrUnheard
    BY DEF IInv, Owned, Holding, LitterIsOfTheKilledOrUnheard
  <1> QED BY <1>1, AlwaysKept, PTL

(* As long as no two runs write at once, what the path leads to changes    *)
(* only by the rename of a run that succeeds, and to that run's file.      *)
THEOREM FailuresTouchNothing ==
  ASSUME ~Overlapping
  PROVE  Spec => FailureLeavesThePath
  <1>1. ASSUME IInv, [Next]_vars, NEW p \in Places, dir'[Self(p)] # dir[Self(p)]
        PROVE  \E r \in Runs : /\ outcome[r] = "none" /\ outcome'[r] = "written"
                              /\ dir'[Self(p)] = r
    <2>1. /\ dir \in [Names -> Files \cup {Nothing, Link}]
          /\ outcome \in [Runs -> {"none", "written", "failed"}]
      BY <1>1 DEF IInv, TypeOK
    <2>2. PICK r \in Runs : Step(r)
      BY <1>1 DEF Next, vars
    <2>3. Create(r) \/ Rename(r) \/ Remove(r)
      BY <1>1, <2>2 DEF Step, Begin, BeginAsTyped, StepOver, CreateFails, Write, WriteFails,
         Flush, FlushFails, KeepMode, KeepModeFails, StatFails, RenameFails, RemoveFails, Killed
    <2>4. Self(p) # Temporary(r) /\ Self(p) \in Names
      BY <1>1, OwnTemporary, NamesApart DEF IInv
    <2>5. Rename(r)
      BY <1>1, <2>1, <2>3, <2>4 DEF Create, Remove, Without
    <2>6. dir[Temporary(r)] = r /\ outcome[r] = "none"
      BY <1>1, <2>5 DEF IInv, Held, Holding, Told, Rename, Steps
    <2>7. dir' = [dir EXCEPT ![Self(target[r])] = r, ![Temporary(r)] = Nothing]
      BY <2>5, <2>6 DEF Rename, Moved
    <2>8. dir'[Self(p)] = r
      BY <1>1, <2>1, <2>4, <2>7
    <2>9. outcome'[r] = "written"
      BY <2>1, <2>5 DEF Rename
    <2> QED BY <2>6, <2>8, <2>9
  <1>2. IInv /\ [Next]_vars =>
          [\A p \in Places : dir'[Self(p)] # dir[Self(p)] =>
             \E r \in Runs : /\ outcome[r] = "none" /\ outcome'[r] = "written"
                             /\ dir'[Self(p)] = r]_vars
    BY <1>1
  <1> QED BY <1>2, AlwaysKept, PTL DEF Spec, FailureLeavesThePath

-----------------------------------------------------------------------------
(* What a run has found at the path stays true until it renames: no link   *)
(* that leads somewhere, unless it was told of none by a call that failed, *)
(* and the mode it took over, unless a Stat failed.                        *)
LinkThere == dir[Self("dest")] = Link /\ dir[Self("real")] # Nothing

Heeded == \A r \in Runs :
  /\ Active(r) /\ pc[r] # "removing" /\ target[r] = "dest" =>
       ~LinkThere \/ "resolve" \in unheard[r]
  /\ pc[r] = "renaming" /\ ModeAt(target[r]) # {} =>
       ModeAt(target[r]) = {mode[r]} \/ "stat" \in unheard[r]

(* Only a rename changes what is at the path.                              *)
LEMMA ChangesByRename ==
  ASSUME IInv, NEW r \in Runs, Step(r), ~Rename(r), NEW p \in Places
  PROVE  dir'[Self(p)] = dir[Self(p)]
  <1>1. Self(p) # Temporary(r) /\ Self(p) \in Names
    BY OwnTemporary, NamesApart DEF IInv
  <1>2. dir \in [Names -> Files \cup {Nothing, Link}]
    BY DEF IInv, TypeOK
  <1>3. CASE UNCHANGED dir
    BY <1>3
  <1>4. CASE Create(r) \/ Remove(r)
    BY <1>1, <1>2, <1>4 DEF Create, Remove, Without
  <1> QED
    BY <1>3, <1>4 DEF Step, Begin, BeginAsTyped, StepOver, CreateFails, Write, WriteFails,
       Flush, FlushFails, KeepMode, KeepModeFails, StatFails, RenameFails, RemoveFails,
       Killed, FailWith

(* And no other step changes the mode found there: the file that KeepMode  *)
(* gives a mode is not at the path yet.                                    *)
LEMMA ModesKept ==
  ASSUME IInv, NEW r \in Runs, Step(r), ~Rename(r), NEW p \in Places
  PROVE  ModeAt(p)' = ModeAt(p)
  <1>1. p \in Places /\ "real" \in Places
    BY DEF Places
  <1>2. \A q \in Places : dir'[Self(q)] = dir[Self(q)]
    BY ChangesByRename
  <1>3. Found(p)' = Found(p)
    BY <1>1, <1>2 DEF Found
  <1>4. PICK q \in Places : Found(p) = dir[Self(q)]
    BY <1>1 DEF Found
  <1>5. ASSUME dir[Self(q)] \in Files PROVE mode'[dir[Self(q)]] = mode[dir[Self(q)]]
    <2>1. CASE KeepMode(r)
      <3>1. dir[Temporary(r)] = r
        BY <2>1 DEF KeepMode, IInv, Held, Holding
      <3>2. dir[Self(q)] # r
        BY <2>1 DEF KeepMode, IInv, Published
      <3>3. mode \in [Files -> {"created", "chosen"}]
        BY DEF IInv, TypeOK
      <3> QED
        BY <2>1, <3>1, <3>2, <3>3, <1>5 DEF KeepMode
    <2>2. CASE UNCHANGED mode
      BY <2>2
    <2> QED
      BY <2>1, <2>2 DEF Step, Begin, BeginAsTyped, Create, StepOver, CreateFails, Write,
         WriteFails, Flush, FlushFails, KeepModeFails, StatFails, RenameFails, Remove,
         RemoveFails, Killed
  <1> QED
    BY <1>3, <1>4, <1>5 DEF ModeAt

LEMMA StaysHeeded ==
  ASSUME ~Overlapping, IInv, Heeded, NEW r \in Runs, Step(r)
  PROVE  Heeded'
  <1>1. /\ pc \in [Runs -> {"idle"} \cup Steps \cup Ends]
        /\ target \in [Runs -> Places]
        /\ dir \in [Names -> Files \cup {Nothing, Link}]
        /\ mode \in [Files -> {"created", "chosen"}]
        /\ unheard \in [Runs -> SUBSET {"resolve", "stat", "remove"}]
    BY DEF IInv, TypeOK
  <1>2. "dest" \in Places /\ "real" \in Places
    BY DEF Places
  <1>3. ASSUME NEW s \in Runs, Active(s)' PROVE s = r
    <2>1. Alone'
      BY StaysAlone
    <2>2. ASSUME s # r PROVE FALSE
      <3>1. pc'[s] = pc[s]
        BY <1>1, <2>2 DEF Step, Begin, BeginAsTyped, Create, StepOver, CreateFails, Write,
           WriteFails, Flush, FlushFails, KeepMode, KeepModeFails, StatFails, Rename,
           RenameFails, Remove, RemoveFails, Killed, FailWith
      <3>2. Active(s)
        BY <1>3, <3>1 DEF Active
      <3>3. Active(r)
        BY <3>2 DEF Step, Begin, BeginAsTyped, Create, StepOver, CreateFails, Write,
           WriteFails, Flush, FlushFails, KeepMode, KeepModeFails, StatFails, Rename,
           RenameFails, Remove, RemoveFails, Killed, Active, Steps
      <3> QED
        BY <2>2, <3>2, <3>3 DEF IInv, Alone
    <2> QED
      BY <2>2
  <1>7. unheard[r] \subseteq unheard'[r]
    BY Remembered DEF Next
  <1>4. CASE Begin(r) \/ BeginAsTyped(r)
    <2>1. pc'[r] = "naming" /\ UNCHANGED dir
      BY <1>1, <1>4 DEF Begin, BeginAsTyped
    <2>2. target'[r] = Resolved \/ "resolve" \in unheard'[r]
      BY <1>1, <1>4 DEF Begin, BeginAsTyped, Unheard
    <2> QED
      BY <1>3, <2>1, <2>2 DEF Heeded, Resolved, LinkThere, Active, Steps
  <1>5. CASE Rename(r)
    BY <1>1, <1>3, <1>5 DEF Rename, Heeded, Active, Steps
  <1>6. CASE ~Begin(r) /\ ~BeginAsTyped(r) /\ ~Rename(r)
    <2>1. target' = target
      BY <1>6 DEF Step, Create, StepOver, CreateFails, Write, WriteFails, Flush,
         FlushFails, KeepMode, KeepModeFails, StatFails, RenameFails, Remove, RemoveFails,
         Killed
    <2>2. \A p \in Places : dir'[Self(p)] = dir[Self(p)]
      BY <1>6, ChangesByRename
    <2>3. ASSUME Active(r)', pc'[r] # "removing", target'[r] = "dest"
          PROVE  ~LinkThere' \/ "resolve" \in unheard'[r]
      <3>1. Active(r) /\ pc[r] # "removing"
        BY <1>1, <1>6, <2>1, <2>3 DEF Step, Create, StepOver, CreateFails, Write, WriteFails,
           Flush, FlushFails, KeepMode, KeepModeFails, StatFails, RenameFails, Remove,
           RemoveFails, Killed, FailWith, Active, Steps, Ends
      <3>2. ~LinkThere \/ "resolve" \in unheard[r]
        BY <2>1, <2>3, <3>1 DEF Heeded
      <3> QED
        BY <1>2, <1>7, <2>2, <3>2 DEF LinkThere
    <2>4. ASSUME pc'[r] = "renaming", ModeAt(target[r])' # {}
          PROVE  ModeAt(target[r])' = {mode'[r]} \/ "stat" \in unheard'[r]
      <3>1. KeepMode(r) \/ StatFails(r)
        BY <1>1, <1>6, <2>4 DEF Step, Create, StepOver, CreateFails, Write, WriteFails, Flush,
           FlushFails, KeepModeFails, RenameFails, Remove, RemoveFails, Killed, FailWith, Steps
      <3>2. CASE StatFails(r)
        BY <1>1, <3>2 DEF StatFails, Unheard
      <3>3. CASE KeepMode(r)
        <4>1. dir[Temporary(r)] = r
          BY <3>3 DEF KeepMode, IInv, Held, Holding
        <4>2. target[r] \in Places /\ r \in Files
          BY <1>1 DEF Files
        <4>7. PICK p \in Places : target[r] = p /\ target'[r] = p
          BY <4>2, <2>1
        <4>3. ModeAt(p)' = ModeAt(p)
          BY <1>6, ModesKept
        <4>4. ModeAt(p)' # {}
          BY <4>7, <2>4 DEF ModeAt, Found
        <4>5. PICK kept \in ModeAt(p) : mode' = [mode EXCEPT ![r] = kept]
          BY <3>3, <4>1, <4>3, <4>4, <4>7 DEF KeepMode
        <4>6. ModeAt(p) = {kept}
          BY <4>5 DEF ModeAt
        <4> QED
          BY <1>1, <4>2, <4>3, <4>5, <4>6, <4>7 DEF ModeAt, Found
      <3> QED
        BY <3>1, <3>2, <3>3
    <2> QED
      BY <1>3, <2>3, <2>4 DEF Heeded, Active, Steps
  <1> QED
    BY <1>4, <1>5, <1>6

(* As long as no two runs write at once, the mode found at the path changes *)
(* only after a Stat has failed unheard, and a link that leads somewhere is *)
(* replaced only by a run whose EvalSymlinks has.                          *)
THEOREM ArrangementsOutliveRuns ==
  ASSUME ~Overlapping
  PROVE  Spec => ModeAndLinkKept
  <1>1. Init => Heeded
    BY DEF Init, Heeded, Active, Steps
  <1>2. IInv /\ Heeded /\ [Next]_vars => Heeded'
    <2>1. IInv /\ Heeded /\ UNCHANGED vars => Heeded'
      BY DEF Heeded, Active, LinkThere, ModeAt, Found, vars
    <2> QED
      BY <2>1, StaysHeeded DEF Next
  <1>3. ASSUME IInv, Heeded, NEW r \in Runs, Step(r)
        PROVE  /\ \A p \in Places : ModeAt(p) # {} =>
                     \/ ModeAt(p)' = ModeAt(p)
                     \/ \E s \in Runs : "stat" \in unheard[s]
               /\ LinkThere =>
                     \/ dir'[Self("dest")] = Link
                     \/ dir'[Self("dest")] \in Runs /\ "resolve" \in unheard[dir'[Self("dest")]]
    <2>1. /\ target \in [Runs -> Places]
          /\ dir \in [Names -> Files \cup {Nothing, Link}]
          /\ mode \in [Files -> {"created", "chosen"}]
      BY <1>3 DEF IInv, TypeOK
    <2>2. "dest" \in Places /\ "real" \in Places /\ Self("dest") # Self("real")
      BY NamesApart DEF Places
    <2>3. CASE Rename(r)
      <3>1. dir[Temporary(r)] = r
        BY <1>3, <2>3 DEF Rename, IInv, Held, Holding
      <3>2. Temporary(r) \in Temporaries /\ target[r] \in Places
        BY <1>3, OwnTemporary DEF IInv
      <3>3. \A p \in Places : dir'[Self(p)] = IF p = target[r] THEN r ELSE dir[Self(p)]
        BY <2>1, <2>3, <3>1, <3>2, NamesApart DEF Rename, Moved
      <3>4. mode' = mode
        BY <2>3 DEF Rename
      <3>5. r # Link /\ r \in Files
        BY Apart DEF Files
      <3>6. ASSUME NEW p \in Places, ModeAt(p) # {}
            PROVE  ModeAt(p)' = ModeAt(p) \/ "stat" \in unheard[r]
        <4>1. CASE p = target[r]
          <5>1. ModeAt(p)' = {mode[r]}
            BY <4>1, <3>3, <3>4, <3>5 DEF ModeAt, Found
          <5> QED
            BY <5>1, <4>1, <3>6, <1>3, <2>3 DEF Heeded, Rename
        <4>2. CASE p # target[r] /\ p = "real"
          <5>1. dir'[Self("real")] = dir[Self("real")]
            BY <4>2, <2>2, <3>3
          <5>2. Found(p) = dir[Self("real")] /\ Found(p)' = dir[Self("real")]
            BY <4>2, <5>1 DEF Found
          <5> QED
            BY <5>2, <3>4 DEF ModeAt
        <4>3. CASE p # target[r] /\ p = "dest" /\ target[r] = "real"
          <5>1. dir'[Self("dest")] = dir[Self("dest")] /\ dir'[Self("real")] = r
            BY <4>3, <2>2, <3>3
          <5>2. CASE dir[Self("dest")] = Link
            <6>1. Found(p)' = r /\ ModeAt(p)' = {mode[r]}
              BY <4>3, <5>1, <5>2, <3>4, <3>5 DEF Found, ModeAt
            <6>2. Found(p) = Found("real")
              BY <4>3, <5>2 DEF Found
            <6>3. ModeAt(p) = ModeAt(target[r])
              BY <4>3, <6>2 DEF ModeAt
            <6> QED
              BY <6>1, <6>3, <3>6, <1>3, <2>3 DEF Heeded, Rename
          <5>3. CASE dir[Self("dest")] # Link
            <6>1. Found(p)' = Found(p)
              BY <4>3, <5>1, <5>3 DEF Found
            <6> QED
              BY <6>1, <3>4 DEF ModeAt
          <5> QED
            BY <5>2, <5>3
        <4> QED
          BY <4>1, <4>2, <4>3, <3>2 DEF Places
      <3>7. ASSUME LinkThere
            PROVE  \/ dir'[Self("dest")] = Link
                   \/ dir'[Self("dest")] \in Runs /\ "resolve" \in unheard[dir'[Self("dest")]]
        <4>1. CASE target[r] = "dest"
          <5>1. dir'[Self("dest")] = r
            BY <4>1, <2>2, <3>3
          <5>2. "resolve" \in unheard[r]
            BY <4>1, <3>7, <1>3, <2>3 DEF Heeded, Rename, Active, Steps
          <5> QED
            BY <5>1, <5>2
        <4>2. CASE target[r] # "dest"
          BY <4>2, <2>2, <3>3, <3>7 DEF LinkThere
        <4> QED
          BY <4>1, <4>2
      <3> QED
        BY <3>6, <3>7
    <2>4. CASE ~Rename(r)
      <3>1. \A p \in Places : dir'[Self(p)] = dir[Self(p)]
        BY <1>3, <2>4, ChangesByRename
      <3>2. \A p \in Places : ModeAt(p)' = ModeAt(p)
        BY <1>3, <2>4, ModesKept
      <3> QED
        BY <2>2, <3>1, <3>2 DEF LinkThere
    <2> QED
      BY <2>3, <2>4
  <1>4. IInv /\ Heeded /\ [Next]_vars =>
          [/\ \A p \in Places : ModeAt(p) # {} =>
                 \/ ModeAt(p)' = ModeAt(p)
                 \/ \E r \in Runs : "stat" \in unheard[r]
           /\ dir[Self("dest")] = Link /\ dir[Self("real")] # Nothing =>
                 \/ dir'[Self("dest")] = Link
                 \/ dir'[Self("dest")] \in Runs
                      /\ "resolve" \in unheard[dir'[Self("dest")]]]_vars
    BY <1>3 DEF Next, LinkThere
  <1> QED
    BY <1>1, <1>2, <1>4, AlwaysKept, PTL DEF Spec, ModeAndLinkKept

=============================================================================
