---------------------------- MODULE MCSequence -----------------------------
(***************************************************************************)
(* What internal/resolve makes of a layout: the reader of every accepted     *)
(* expression beside what the expression says, and the records of a         *)
(* copybook beside its storage.                                            *)
(***************************************************************************)
EXTENDS SequenceLanguage, LayoutSamples, ResolvedRecords, CopybookSamples

Accepted == Compiling(Expressions, Inputs)

AcceptedAfresh ==
    {l \in Compiling(Expressions, AlignedInputs) : CountsAfresh(l.expression)} \cup BatchedLayouts

(* Parts of copybooks, and those at the edge of what some rule refuses: but  *)
(* for rivalRanges, one and nestedUnread they are refused where tables slide. *)
Parts ==
    {"byte", "aligned", "redefined", "longer", "chain", "nested", "table", "padded", "varying", "varyingPadded",
     "many", "few", "varyingInside", "varyingAlternative", "ownCount", "countInAlternative", "optional", "byBytes",
     "byPlace", "nestedArms"}

EdgeParts ==
    {"rivalRanges", "countInTable", "optionalUnsaid", "placeTwice", "placeMissed", "placeEmpty", "mixed", "byNothing",
     "one", "none", "unknown", "tooLong", "nestedUnsaid", "nestedUnread", "varyingArm"}

(***************************************************************************)
(* A layout's copybooks are resolved, or its reader reads: the two share no   *)
(* state, so that one call of Resolve, while one of the layouts is still      *)
(* unread, stands for a call at any time.                                   *)
(***************************************************************************)

OneLayout == CHOOSE l \in Layouts : TRUE

Resolving ==
    /\ calls = <<>> /\ file = <<>> /\ ended = "open" /\ said = "nothing"
    /\ layout = OneLayout
    /\ \E s \in Requests : Call(s)
    /\ UNCHANGED readerVars

Reading == calls = <<>> /\ (Next \/ Supplied \/ Stopped) /\ UNCHANGED calls

LayoutInit == StreamInit /\ ReaderInit /\ calls = <<>>

LayoutSpec == LayoutInit /\ [][Reading \/ Resolving]_<<readerVars, calls>>

=============================================================================
