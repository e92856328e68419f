--------------------------- MODULE ScaffoldWrite ----------------------------
(***************************************************************************)
(* Runs of cpybkc init writing their files (internal/scaffold, Write): the *)
(* definitions files a run derives and, last, the layout that names them.  *)
(* Every destination is looked at first; then each file is filled under a  *)
(* temporary name beside its destination and LINKED to it, which a name    *)
(* that is taken refuses; and a failure or a cancellation takes back, last *)
(* first, what the run had linked.                                         *)
(*                                                                         *)
(* Meanwhile other runs write beside the same destinations, a person puts  *)
(* files of their own where they please, a first signal cancels a run at   *)
(* any moment, the filesystem fails any call, the removals whose errors no *)
(* run looks at among them, and a second signal, or anything else, kills   *)
(* the process between two calls.                                          *)
(***************************************************************************)
EXTENDS Naturals, FiniteSets, Sequences

CONSTANTS Runs,
          Places,       \* the paths destinations are chosen among
          Set,          \* what each run writes, in order: the layout is last
          Attempts,     \* temporary names tried beside one destination
          Littered,     \* the temporary names that killed runs left taken
          Nothing, Theirs   \* a free name; a file that no run made

INSTANCE Beside

(* The command line refuses two outputs of one name before anything runs.  *)
ASSUME SetAssumption ==
  /\ Set \in [Runs -> Seq(Places)]
  /\ \A r \in Runs : /\ Set[r] # <<>>
                     /\ \A i, j \in DOMAIN Set[r] : Set[r][i] = Set[r][j] => i = j

(* A run makes one file for each of its destinations.                      *)
Files == Runs \X Places
ASSUME AttemptsAssumption == Attempts \in Nat \ {0}
ASSUME LitteredAssumption == Littered \subseteq Temporaries
ASSUME NotFiles == /\ Nothing \notin Files /\ Theirs \notin Files
                   /\ Nothing # Theirs

VARIABLES
  dir,         \* what each name leads to
  whole,       \* the files that hold all their bytes, flushed
  pc,          \* where in write each run is
  at,          \* the file of its set each run is writing, or undoing next
  attempt,     \* the temporary name each run is trying, or holds
  signalled,   \* the runs whose context a signal has cancelled
  outcome,     \* what each run reports
  kept         \* history: the removals that failed, by run and name

vars == <<dir, whole, pc, at, attempt, signalled, outcome, kept>>

Steps == {"checking", "naming", "filling", "asking", "linking", "dropping", "undoing"}

TypeOK ==
  /\ dir \in [Names -> Files \cup {Nothing, Theirs}]
  /\ whole \subseteq Files
  /\ pc \in [Runs -> Steps \cup {"done", "killed"}]
  /\ at \in [Runs -> Nat] /\ \A r \in Runs : at[r] <= Len(Set[r])
  /\ attempt \in [Runs -> 1..Attempts]
  /\ signalled \subseteq Runs
  /\ outcome \in [Runs -> {"none", "written", "failed", "cancelled"}]
  /\ kept \subseteq Runs \X Names

(* Mutant: the layout is written before what it names.                     *)
LayoutFirst(r) == Set[r][Len(Set[r]) + 1 - at[r]]

Place(r) == Set[r][at[r]]
File(r) == <<r, Place(r)>>
Temporary(r) == Name(Place(r), attempt[r])
Layout(r) == Set[r][Len(Set[r])]

-----------------------------------------------------------------------------
(* Any destination may be taken beforehand.                                *)
Init ==
  /\ dir \in {d \in [Names -> {Nothing, Theirs}] :
               \A t \in Temporaries : d[t] = Theirs <=> t \in Littered}
  /\ whole = {}
  /\ pc = [r \in Runs |-> "checking"]
  /\ at = [r \in Runs |-> 1]
  /\ attempt = [r \in Runs |-> 1]
  /\ signalled = {}
  /\ outcome = [r \in Runs |-> "none"]
  /\ kept = {}

(* free: Lstat of every destination before anything is written. It is one  *)
(* step: a file appearing between two of the calls is one that appears     *)
(* right after the last.                                                   *)
Free(r) == \A i \in DOMAIN Set[r] : dir[Self(Set[r][i])] = Nothing

Check(r) ==
  /\ pc[r] = "checking"
  /\ \/ /\ Free(r)
        /\ pc' = [pc EXCEPT ![r] = "naming"] /\ UNCHANGED outcome
     \/ \* occupied, or Lstat itself failed
        /\ pc' = [pc EXCEPT ![r] = "done"]
        /\ outcome' = [outcome EXCEPT ![r] = "failed"]
  /\ UNCHANGED <<dir, whole, at, attempt, signalled, kept>>

(* createBeside, one turn of its loop: O_EXCL takes a free name only.      *)
Create(r) ==
  /\ pc[r] = "naming" /\ dir[Temporary(r)] = Nothing
  /\ dir' = [dir EXCEPT ![Temporary(r)] = File(r)]
  /\ pc' = [pc EXCEPT ![r] = "filling"]
  /\ UNCHANGED <<whole, at, attempt, signalled, outcome, kept>>

StepOver(r) ==
  /\ pc[r] = "naming" /\ dir[Temporary(r)] # Nothing /\ attempt[r] < Attempts
  /\ attempt' = [attempt EXCEPT ![r] = @ + 1]
  /\ UNCHANGED <<dir, whole, pc, at, signalled, outcome, kept>>

(* Mutant: an error return that does not undo.                             *)
UndoNothing(r) ==
  /\ at' = [at EXCEPT ![r] = 0]
  /\ pc' = [pc EXCEPT ![r] = "undoing"]

(* Taking back what was linked starts with the file before the one that    *)
(* could not be written.                                                   *)
Undo(r) ==
  /\ at' = [at EXCEPT ![r] = @ - 1]
  /\ pc' = [pc EXCEPT ![r] = "undoing"]

(* The create fails, or every temporary name was taken.                    *)
CreateFails(r) ==
  /\ pc[r] = "naming"
  /\ outcome' = [outcome EXCEPT ![r] = "failed"]
  /\ Undo(r)
  /\ UNCHANGED <<dir, whole, attempt, signalled, kept>>

(* flush: the bytes written, synced and closed, or an error and some of    *)
(* them.                                                                   *)
Fill(r) ==
  /\ pc[r] = "filling"
  /\ whole' = whole \cup {File(r)}
  /\ pc' = [pc EXCEPT ![r] = "asking"]
  /\ UNCHANGED <<dir, at, attempt, signalled, outcome, kept>>

(* writeFile returns an error: its deferred removal is still to run.       *)
Return(r, with) ==
  /\ outcome' = [outcome EXCEPT ![r] = with]
  /\ pc' = [pc EXCEPT ![r] = "dropping"]

(* Mutant: the error of flush is not looked at.                            *)
FillIgnored(r) ==
  /\ pc[r] = "filling"
  /\ pc' = [pc EXCEPT ![r] = "asking"]
  /\ UNCHANGED <<dir, whole, at, attempt, signalled, outcome, kept>>

FillFails(r) ==
  /\ pc[r] = "filling"
  /\ Return(r, "failed")
  /\ UNCHANGED <<dir, whole, at, attempt, signalled, kept>>

(* ctx.Err, as late as it can be asked: a signal that lands after it and   *)
(* before the last link is one the run does not hear.                      *)
Ask(r) ==
  /\ pc[r] = "asking"
  /\ IF r \in signalled THEN Return(r, "cancelled")
     ELSE pc' = [pc EXCEPT ![r] = "linking"] /\ UNCHANGED outcome
  /\ UNCHANGED <<dir, whole, at, attempt, signalled, kept>>

(* Mutant: os.Rename, which replaces what is there.                        *)
Replaceable(r) == dir[Temporary(r)] # Nothing

(* os.Link: the destination becomes a second name of what is at the        *)
(* temporary one, and only if nothing is there.                            *)
Linkable(r) == dir[Self(Place(r))] = Nothing

Link(r) ==
  /\ pc[r] = "linking" /\ dir[Temporary(r)] # Nothing /\ Linkable(r)
  /\ dir' = [dir EXCEPT ![Self(Place(r))] = dir[Temporary(r)]]
  /\ pc' = [pc EXCEPT ![r] = "dropping"]
  /\ UNCHANGED <<whole, at, attempt, signalled, outcome, kept>>

(* The destination was taken since the check, or the call fails.           *)
LinkFails(r) ==
  /\ pc[r] = "linking"
  /\ Return(r, "failed")
  /\ UNCHANGED <<dir, whole, at, attempt, signalled, kept>>

(* os.Remove, whose error the run does not look at: the name leads nowhere *)
(* after, or the call failed and it leads where it did.                    *)
Removal(r, name) ==
  \/ dir' = Without(dir, name) /\ UNCHANGED kept
  \/ dir[name] # Nothing /\ kept' = kept \cup {<<r, name>>} /\ UNCHANGED dir

(* The deferred removal of the temporary name, and what follows it: the    *)
(* next file of the set, the end of it, or the undoing.                    *)
Drop(r) ==
  /\ pc[r] = "dropping"
  /\ Removal(r, Temporary(r))
  /\ attempt' = [attempt EXCEPT ![r] = 1]
  /\ \/ /\ outcome[r] # "none" /\ Undo(r) /\ UNCHANGED outcome
     \/ /\ outcome[r] = "none" /\ at[r] < Len(Set[r])
        /\ at' = [at EXCEPT ![r] = @ + 1]
        /\ pc' = [pc EXCEPT ![r] = "naming"] /\ UNCHANGED outcome
     \/ /\ outcome[r] = "none" /\ at[r] = Len(Set[r])
        /\ outcome' = [outcome EXCEPT ![r] = "written"]
        /\ pc' = [pc EXCEPT ![r] = "done"] /\ UNCHANGED at
  /\ UNCHANGED <<whole, signalled>>

(* undo: what was linked, the last first, whatever is there by now.        *)
TakeBack(r) ==
  /\ pc[r] = "undoing" /\ at[r] > 0
  /\ Removal(r, Self(Place(r)))
  /\ at' = [at EXCEPT ![r] = @ - 1]
  /\ UNCHANGED <<whole, pc, attempt, signalled, outcome>>

Undone(r) ==
  /\ pc[r] = "undoing" /\ at[r] = 0
  /\ pc' = [pc EXCEPT ![r] = "done"]
  /\ UNCHANGED <<dir, whole, at, attempt, signalled, outcome, kept>>

(* A first SIGINT or SIGTERM cancels the context.                          *)
Signal(r) ==
  /\ pc[r] \in Steps
  /\ signalled' = signalled \cup {r}
  /\ UNCHANGED <<dir, whole, pc, at, attempt, outcome, kept>>

(* A second one is left to its default disposition.                        *)
Killed(r) ==
  /\ pc[r] \in Steps
  /\ pc' = [pc EXCEPT ![r] = "killed"]
  /\ UNCHANGED <<dir, whole, at, attempt, signalled, outcome, kept>>

(* Somebody writes a file of their own where nothing is.                   *)
PersonWrites ==
  \E p \in Places : /\ dir[Self(p)] = Nothing
                    /\ dir' = [dir EXCEPT ![Self(p)] = Theirs]
                    /\ UNCHANGED <<whole, pc, at, attempt, signalled, outcome, kept>>

Step(r) ==
  \/ Check(r)
  \/ Create(r) \/ StepOver(r) \/ CreateFails(r)
  \/ Fill(r) \/ FillFails(r)
  \/ Ask(r)
  \/ Link(r) \/ LinkFails(r)
  \/ Drop(r)
  \/ TakeBack(r) \/ Undone(r)
  \/ Signal(r) \/ Killed(r)

Next == PersonWrites \/ \E r \in Runs : Step(r)

Spec == Init /\ [][Next]_vars

-----------------------------------------------------------------------------
(* Nothing at any destination is ever replaced, and a file that was there  *)
(* goes only when the run that put it there is undoing: never another      *)
(* run's, and never a person's. (scaffold.Write.)                          *)
NothingIsReplaced ==
  [][\A p \in Places : dir[Self(p)] # Nothing /\ dir'[Self(p)] # dir[Self(p)] =>
       \E r \in Runs : /\ dir[Self(p)] = <<r, p>> /\ pc[r] = "undoing"
                       /\ dir'[Self(p)] = Nothing]_vars

(* Whatever a run left at a destination holds every byte of it, even when  *)
(* the run was killed. (scaffold.Write: never a prefix that parses as far  *)
(* as it goes.)                                                            *)
WholeFiles == \A p \in Places : dir[Self(p)] \in Files => dir[Self(p)] \in whole

(* A layout is never there without every definitions file it names, at any *)
(* moment and even when the run that wrote it was killed.                  *)
(* (docs/cli/SPEC.md, where the scaffold is written.)                      *)
NeverALayoutAlone ==
  \A r \in Runs : dir[Self(Layout(r))] = <<r, Layout(r)>> =>
    \A i \in DOMAIN Set[r] : dir[Self(Set[r][i])] = <<r, Set[r][i]>>

(* A run that was written left its whole set and nothing beside it, and    *)
(* one that failed or was cancelled left nothing at all, but for what it   *)
(* asked to be removed and the filesystem kept: so two runs over one       *)
(* destination are never both written.                                     *)
TheWholeSetOrNone ==
  \A r \in Runs : pc[r] = "done" =>
    LET destinations == {Self(Set[r][i]) : i \in DOMAIN Set[r]}
        left == {n \in Names : dir[n] \in {r} \X Places /\ <<r, n>> \notin kept}
    IN  left = IF outcome[r] = "written" THEN destinations ELSE {}

=============================================================================
