----------------------------- MODULE EmitWrite ------------------------------
(***************************************************************************)
(* Runs of cpybkc --emit-ir writing one descriptor path (internal/emit,    *)
(* writeFile and createBeside). Each run makes one file at the first free  *)
(* temporary name beside the path, fills and flushes it, gives it the mode *)
(* of what it replaces, renames it onto the path and, whatever happened,   *)
(* removes the temporary NAME. The filesystem may fail every call, those   *)
(* whose errors writeFile reports and those it ignores, a run may be       *)
(* killed between any two, and nothing keeps two runs apart.               *)
(*                                                                         *)
(* The path may be a link to a second place. Files are told apart by the   *)
(* run that made them; what they hold is how far that run got with it.     *)
(***************************************************************************)
EXTENDS Naturals, FiniteSets

CONSTANTS Runs, Attempts, Nothing,
          Before,        \* a descriptor that was at the path before any run
          Litter,        \* a temporary that a run killed long ago left behind
          Link,          \* a symbolic link at the path, to the other place
          Overlapping    \* whether a run may start while another is writing

ASSUME AttemptsAssumption == Attempts \in Nat \ {0}
ASSUME OverlappingAssumption == Overlapping \in BOOLEAN
ASSUME NotRuns == {Nothing, Before, Litter, Link} \cap Runs = {}
ASSUME FourThings == Cardinality({Nothing, Before, Litter, Link}) = 4

Places == {"dest", "real"}    \* the path as typed, and what a link at it names

INSTANCE Beside

VARIABLES
  dir,        \* what each name leads to
  bytes,      \* what the file of each run holds
  mode,       \* the permission each file carries
  pc,         \* where in writeFile each run is
  target,     \* the place each run resolved the path to
  attempt,    \* the temporary name each run is trying, or holds
  outcome,    \* what each run tells its caller
  unheard     \* history: the calls that failed in a run and that it ignored

vars == <<dir, bytes, mode, pc, target, attempt, outcome, unheard>>

Files == Runs \cup {Before, Litter}
Steps == {"naming", "writing", "flushing", "moding", "renaming", "removing"}
Ends == {"done", "killed"}

(* The temporary name that a run believes to be its own.                   *)
Temporary(r) == Name(target[r], attempt[r])

Active(r) == pc[r] \in Steps

TypeOK ==
  /\ dir \in [Names -> Files \cup {Nothing, Link}]
  /\ bytes \in [Runs -> {"empty", "unflushed", "short", "whole"}]
  /\ mode \in [Files -> {"created", "chosen"}]
  /\ pc \in [Runs -> {"idle"} \cup Steps \cup Ends]
  /\ target \in [Runs -> Places]
  /\ attempt \in [Runs -> 1..Attempts]
  /\ outcome \in [Runs -> {"none", "written", "failed"}]
  /\ unheard \in [Runs -> SUBSET {"resolve", "stat", "remove"}]

-----------------------------------------------------------------------------
(* A project is met with nothing, a descriptor or a link at the path, and  *)
(* any of the temporary names taken by what a killed run left.             *)
Init ==
  /\ dir \in {d \in [Names -> {Nothing, Before, Litter, Link}] :
       /\ d[Self("dest")] \in {Nothing, Before, Link}
       /\ d[Self("real")] \in {Nothing, Before}
       /\ d[Self("real")] = Before => d[Self("dest")] = Link
       /\ \A t \in Temporaries : d[t] \in {Nothing, Litter}}
  /\ bytes = [r \in Runs |-> "empty"]
  /\ mode \in {m \in [Files -> {"created", "chosen"}] :
                 \A f \in Files \ {Before} : m[f] = "created"}
  /\ pc = [r \in Runs |-> "idle"]
  /\ target = [r \in Runs |-> "dest"]
  /\ attempt = [r \in Runs |-> 1]
  /\ outcome = [r \in Runs |-> "none"]
  /\ unheard = [r \in Runs |-> {}]

(* Mutant: the path as typed, link or not.                                 *)
ResolvedAsTyped == "dest"

(* A call that fails in a run, which the run does not look at.             *)
Unheard(r, call) == unheard' = [unheard EXCEPT ![r] = @ \cup {call}]

(* filepath.EvalSymlinks: the place behind the path, or the path as typed  *)
(* when there is nothing there, or a link that leads nowhere.              *)
Resolved == IF dir[Self("dest")] = Link /\ dir[Self("real")] # Nothing
              THEN "real" ELSE "dest"

Begin(r) ==
  /\ pc[r] = "idle"
  /\ Overlapping \/ \A s \in Runs : ~Active(s)
  /\ target' = [target EXCEPT ![r] = Resolved]
  /\ pc' = [pc EXCEPT ![r] = "naming"]
  /\ UNCHANGED <<dir, bytes, mode, attempt, outcome, unheard>>

(* EvalSymlinks fails for any other reason, an I/O error or a directory it *)
(* may not search: the path as typed, though a link may be there.          *)
BeginAsTyped(r) ==
  /\ pc[r] = "idle"
  /\ Overlapping \/ \A s \in Runs : ~Active(s)
  /\ Resolved # "dest"
  /\ target' = [target EXCEPT ![r] = "dest"]
  /\ pc' = [pc EXCEPT ![r] = "naming"]
  /\ Unheard(r, "resolve")
  /\ UNCHANGED <<dir, bytes, mode, attempt, outcome>>

(* Mutant: a temporary that is there is taken for a stale one and cleared. *)
ClearedFirst(name) == dir[name] \in Files \cup {Nothing}

(* O_EXCL: whatever is at the name, the create does not go through it.     *)
Exclusive(name) == dir[name] = Nothing

(* One turn of the loop in createBeside that gets a file.                  *)
Create(r) ==
  /\ pc[r] = "naming" /\ Exclusive(Temporary(r))
  /\ dir' = [dir EXCEPT ![Temporary(r)] = r]
  /\ pc' = [pc EXCEPT ![r] = "writing"]
  /\ UNCHANGED <<bytes, mode, target, attempt, outcome, unheard>>

(* One that finds the name taken, and goes on to the next.                 *)
StepOver(r) ==
  /\ pc[r] = "naming" /\ ~Exclusive(Temporary(r)) /\ attempt[r] < Attempts
  /\ attempt' = [attempt EXCEPT ![r] = @ + 1]
  /\ UNCHANGED <<dir, bytes, mode, pc, target, outcome, unheard>>

(* The create fails, or every name was taken: there is nothing to remove.  *)
CreateFails(r) ==
  /\ pc[r] = "naming"
  /\ outcome' = [outcome EXCEPT ![r] = "failed"]
  /\ pc' = [pc EXCEPT ![r] = "done"]
  /\ UNCHANGED <<dir, bytes, mode, target, attempt, unheard>>

(* A return with an error once the file is there: the deferred removal is  *)
(* what is left to do.                                                     *)
FailWith(r) ==
  /\ outcome' = [outcome EXCEPT ![r] = "failed"]
  /\ pc' = [pc EXCEPT ![r] = "removing"]

(* Writes go to the open file, wherever its name has gone meanwhile.       *)
Write(r) ==
  /\ pc[r] = "writing"
  /\ bytes' = [bytes EXCEPT ![r] = "unflushed"]
  /\ pc' = [pc EXCEPT ![r] = "flushing"]
  /\ UNCHANGED <<dir, mode, target, attempt, outcome, unheard>>

WriteFails(r) ==
  /\ pc[r] = "writing"
  /\ bytes' = [bytes EXCEPT ![r] = "short"]
  /\ FailWith(r)
  /\ UNCHANGED <<dir, mode, target, attempt, unheard>>

(* Sync and Close. A full disk may be reported here and not at the write.  *)
Flush(r) ==
  /\ pc[r] = "flushing"
  /\ bytes' = [bytes EXCEPT ![r] = "whole"]
  /\ pc' = [pc EXCEPT ![r] = "moding"]
  /\ UNCHANGED <<dir, mode, target, attempt, outcome, unheard>>

(* Mutant: the error of Sync or Close is not looked at.                    *)
FlushIgnored(r) ==
  /\ pc[r] = "flushing"
  /\ bytes' = [bytes EXCEPT ![r] = "short"]
  /\ pc' = [pc EXCEPT ![r] = "moding"]
  /\ UNCHANGED <<dir, mode, target, attempt, outcome, unheard>>

FlushFails(r) ==
  /\ pc[r] = "flushing"
  /\ bytes' = [bytes EXCEPT ![r] = "short"]
  /\ FailWith(r)
  /\ UNCHANGED <<dir, mode, target, attempt, unheard>>

(* What os.Stat finds at a place, through the link if there is one, and the *)
(* mode of it, if it is a file.                                            *)
Found(p) == IF dir[Self(p)] = Link THEN dir[Self("real")] ELSE dir[Self(p)]
ModeAt(p) == IF Found(p) \in Files THEN {mode[Found(p)]} ELSE {}

(* Stat and Chmod: the file at the temporary name, whoever made it, gets   *)
(* the mode of the file at the target. They are one step because no file   *)
(* at a target changes its mode.                                           *)
KeepMode(r) ==
  /\ pc[r] = "moding"
  /\ \/ ModeAt(target[r]) = {} /\ UNCHANGED mode
     \/ /\ dir[Temporary(r)] \in Files
        /\ \E kept \in ModeAt(target[r]) :
             mode' = [mode EXCEPT ![dir[Temporary(r)]] = kept]
  /\ pc' = [pc EXCEPT ![r] = "renaming"]
  /\ UNCHANGED <<dir, bytes, target, attempt, outcome, unheard>>

(* Chmod fails, as it does when the name is no longer there.               *)
KeepModeFails(r) ==
  /\ pc[r] = "moding" /\ ModeAt(target[r]) # {}
  /\ FailWith(r)
  /\ UNCHANGED <<dir, bytes, mode, target, attempt, unheard>>

(* Stat fails of a file that is there, and the run takes it for none.      *)
StatFails(r) ==
  /\ pc[r] = "moding" /\ ModeAt(target[r]) # {}
  /\ pc' = [pc EXCEPT ![r] = "renaming"]
  /\ Unheard(r, "stat")
  /\ UNCHANGED <<dir, bytes, mode, target, attempt, outcome>>

(* What renaming one name onto another leaves: there is never a moment at  *)
(* which the second leads nowhere.                                         *)
Moved(from, to) == [dir EXCEPT ![to] = dir[from], ![from] = Nothing]

(* The rename moves whatever file is at the temporary name by then.        *)
Rename(r) ==
  /\ pc[r] = "renaming" /\ dir[Temporary(r)] # Nothing
  /\ dir' = Moved(Temporary(r), Self(target[r]))
  /\ outcome' = [outcome EXCEPT ![r] = "written"]
  /\ pc' = [pc EXCEPT ![r] = "removing"]
  /\ UNCHANGED <<bytes, mode, target, attempt, unheard>>

RenameFails(r) ==
  /\ pc[r] = "renaming"
  /\ FailWith(r)
  /\ UNCHANGED <<dir, bytes, mode, target, attempt, unheard>>

(* Mutant: an early return that forgets the temporary.                     *)
RemoveOnSuccessOnly(r) ==
  /\ pc[r] = "removing"
  /\ dir' = IF outcome[r] = "written" THEN Without(dir, Temporary(r)) ELSE dir
  /\ pc' = [pc EXCEPT ![r] = "done"]
  /\ UNCHANGED <<bytes, mode, target, attempt, outcome, unheard>>

(* The deferred os.Remove of the name, on every return: of this run's file *)
(* or of one that another run has made there since.                        *)
Remove(r) ==
  /\ pc[r] = "removing"
  /\ dir' = Without(dir, Temporary(r))
  /\ pc' = [pc EXCEPT ![r] = "done"]
  /\ UNCHANGED <<bytes, mode, target, attempt, outcome, unheard>>

(* The removal fails of a name that is there: so does nothing else.        *)
RemoveFails(r) ==
  /\ pc[r] = "removing" /\ dir[Temporary(r)] # Nothing
  /\ pc' = [pc EXCEPT ![r] = "done"]
  /\ Unheard(r, "remove")
  /\ UNCHANGED <<dir, bytes, mode, target, attempt, outcome>>

(* The process dies between two calls: no deferred call runs.              *)
Killed(r) ==
  /\ Active(r)
  /\ pc' = [pc EXCEPT ![r] = "killed"]
  /\ UNCHANGED <<dir, bytes, mode, target, attempt, outcome, unheard>>

Step(r) ==
  \/ Begin(r) \/ BeginAsTyped(r)
  \/ Create(r) \/ StepOver(r) \/ CreateFails(r)
  \/ Write(r) \/ WriteFails(r)
  \/ Flush(r) \/ FlushFails(r)
  \/ KeepMode(r) \/ KeepModeFails(r) \/ StatFails(r)
  \/ Rename(r) \/ RenameFails(r)
  \/ Remove(r) \/ RemoveFails(r)
  \/ Killed(r)

Next == \E r \in Runs : Step(r)

Spec == Init /\ [][Next]_vars

-----------------------------------------------------------------------------
(* A path is written in full or not at all: what another tool reads there, *)
(* at any moment and whoever died meanwhile, is a descriptor that one run  *)
(* completed. (docs/cli/SPEC.md, Emitting the IR; writeFile.)              *)
WholeOrNotAtAll ==
  \A p \in Places : dir[Self(p)] \in Runs => bytes[dir[Self(p)]] = "whole"

(* A run that failed leaves whatever was at the path alone: its own file   *)
(* never gets there, and no step but a rename that succeeds changes what   *)
(* the path leads to. (emit.Write: a call that fails leaves whatever was   *)
(* at dest alone.)                                                         *)
FailureLeavesThePath ==
  [][\A p \in Places : dir'[Self(p)] # dir[Self(p)] =>
       \E r \in Runs : /\ outcome[r] = "none" /\ outcome'[r] = "written"
                       /\ dir'[Self(p)] = r]_vars

(* What a person arranged at the path outlives every run in which nothing  *)
(* goes unheard: until a Stat has failed, the mode found at the path is    *)
(* the mode a person gave the first descriptor there, and only a run whose *)
(* EvalSymlinks failed replaces a link that leads somewhere. (writeFile.)  *)
ModeAndLinkKept ==
  [][/\ \A p \in Places : ModeAt(p) # {} =>
           \/ ModeAt(p)' = ModeAt(p)
           \/ \E r \in Runs : "stat" \in unheard[r]
     /\ dir[Self("dest")] = Link /\ dir[Self("real")] # Nothing =>
           \/ dir'[Self("dest")] = Link
           \/ dir'[Self("dest")] \in Runs /\ "resolve" \in unheard[dir'[Self("dest")]]]_vars

(* Only a run that is killed, or whose removal of it failed, leaves its     *)
(* temporary behind, whichever run removes which. (writeFile: the           *)
(* temporary is removed on every return.)                                  *)
LitterIsOfTheKilledOrUnheard ==
  \A r \in Runs : pc[r] = "done" /\ "remove" \notin unheard[r] =>
    \A t \in Temporaries : dir[t] # r

=============================================================================
