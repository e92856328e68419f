------------------------- MODULE GeneratorVerdicts -------------------------
(***************************************************************************)
(* What running the generators promises: every one of them is run to an    *)
(* end of its own, whatever becomes of the others, and the run then says    *)
(* which of them did not exit zero, in the order they were declared; or,    *)
(* when it was told to stop and they did not all make it, that it was.      *)
(* internal/generate rests on this: it merges when nobody is named, and     *)
(* nothing it then reads is still being written.                           *)
(***************************************************************************)
EXTENDS Integers, Sequences

VARIABLES
    process,   \* how far each generator has come, by position in the manifest
    stopped,   \* whether the run has been told to stop
    outcome,   \* how the run ended
    told       \* the generators its report names, in order

vars == <<process, stopped, outcome, told>>

Generators == DOMAIN process

(* "unable": it was never started, and not because another one failed.      *)
Ended == {"unable", "zero", "nonzero", "signal", "killed"}

Init ==
    /\ process = [i \in Generators |-> "unstarted"]
    /\ stopped = FALSE
    /\ outcome = "none"
    /\ told = <<>>

Going == outcome = "none"

Becomes(i, how) ==
    /\ process' = [process EXCEPT ![i] = how]
    /\ UNCHANGED <<stopped, outcome, told>>

Start(i) == Going /\ process[i] = "unstarted" /\ Becomes(i, "running")

GiveUp(i) == Going /\ process[i] = "unstarted" /\ Becomes(i, "unable")

(* It exits, or somebody else sends it a signal it does not survive.        *)
Exit(i) == Going /\ process[i] = "running" /\ \E how \in {"zero", "nonzero", "signal"} : Becomes(i, how)

(* Only a run that has been told to stop kills its generators.              *)
Kill(i) == Going /\ stopped /\ process[i] = "running" /\ Becomes(i, "killed")

Stop ==
    /\ Going
    /\ stopped' = TRUE
    /\ UNCHANGED <<process, outcome, told>>

Report(how, names) ==
    /\ Going
    /\ outcome' = how
    /\ told' = names
    /\ UNCHANGED <<process, stopped>>

(* In the order of the manifest. *)
InOrder(names) ==
    CHOOSE order \in UNION {[1 .. n -> names] : n \in Generators \cup {0}} :
        /\ {order[n] : n \in DOMAIN order} = names
        /\ \A m, n \in DOMAIN order : m < n => order[m] < order[n]

(* The manifest asked for something no generator can be asked.              *)
Refuse ==
    /\ \A i \in Generators : process[i] = "unstarted"
    /\ \E wrong \in (SUBSET Generators) \ {{}} :
          Report("refused", InOrder(wrong))

AllEnded == \A i \in Generators : process[i] \in Ended

Failing == {i \in Generators : process[i] # "zero"}

Succeed == AllEnded /\ Failing = {} /\ Report("ok", <<>>)

(* A fault is a generator's own: a run told to stop does not name one.      *)
Fail == AllEnded /\ ~ stopped /\ Failing # {} /\ Report("failed", InOrder(Failing))

Cancel == AllEnded /\ stopped /\ Report("cancelled", <<>>)

(* The process is ended where it stands.                                    *)
Die == Report("killed", <<>>)

Next ==
    \/ \E i \in Generators : Start(i) \/ GiveUp(i) \/ Exit(i) \/ Kill(i)
    \/ Stop \/ Refuse \/ Succeed \/ Fail \/ Cancel \/ Die

Spec == Init /\ [][Next]_vars

=============================================================================
