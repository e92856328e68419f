--------------------------- MODULE RecordStream ----------------------------
(***************************************************************************)
(* A file of records described by one layout, and the automaton that both   *)
(* the reader and the writer generated for that layout walk.  The file      *)
(* grows at its end while its writer has it open; framing is left out, so   *)
(* that a file is a sequence of whole records.                             *)
(***************************************************************************)
EXTENDS RecordAutomaton, Sequences

CONSTANTS
    Layouts,     \* the layouts under study: [expression, automaton, inputs], the
                 \* second what the first was compiled into, the third the
                 \* records that files of other programs are made of
    Inputs,      \* the records a file may be made of
    MaxRecords   \* the most records a file holds

(* The shape of a compiled graph: a transition ends in a state of its own    *)
(* graph, a count is taken one off only where a guard has it above zero, and *)
(* a transition binds only what its own record holds.                      *)
WellFormed(a) ==
    /\ Start \in a.states
    /\ \A t \in a.transitions :
          /\ t.from \in a.states /\ t.to \in a.states /\ t.to # Start
          /\ t.record \in RecordType
          /\ t.less \cup t.binds \cup Reads(t.guards) \subseteq a.registers
          /\ \A r \in t.binds : r.item.record = t.record
          /\ \A r \in t.less : /\ r.kind = "integer"
                               /\ \E g \in t.guards : g.register = r /\ g.positive
    /\ \A r \in a.registers : r.kind \in {"integer", "bytes"} /\ r.item.at \in Offset

(* The registers a state is entered with are on every way into it. *)
Settled(a, bound) ==
    /\ \A s \in a.states : bound[s] \subseteq a.registers
    /\ bound[Start] = {}
    /\ \A t \in a.transitions : bound[t.to] \subseteq bound[t.from] \cup t.less \cup t.binds

(* What the compiler holds every graph to before it hands one back. *)
ASSUME Compiles ==
    \A l \in Layouts :
        /\ WellFormed(l.automaton)
        /\ Settled(l.automaton, BoundOnEntry(l.automaton))
        /\ ReadsBound(l.automaton, BoundOnEntry(l.automaton))
        /\ Unambiguous(l.automaton)
        /\ l.inputs \subseteq Inputs

ASSUME Records == Inputs \subseteq Raw /\ MaxRecords \in Nat

VARIABLES
    layout,   \* the layout the file was written to
    file,     \* the records written so far
    ended     \* "open", "closed" by its writer, or "abandoned"

A == layout.automaton

(* A record of type R, as every program that has the copybook writes one. *)
Conforms(R, raw) == \A i \in Offset : raw[i] \in Domain[R][i]

OfType(R, raw) == Conforms(R, raw) /\ Matches(Discriminator[R], raw)

StreamInit ==
    /\ layout \in Layouts
    /\ file = <<>>
    /\ ended = "open"

(* Some other program writes a record, or stops. *)
Supply == \E raw \in layout.inputs :
    /\ ended = "open"
    /\ Len(file) < MaxRecords
    /\ file' = Append(file, raw)
    /\ UNCHANGED <<layout, ended>>

Stop ==
    /\ ended = "open"
    /\ ended' = "abandoned"
    /\ UNCHANGED <<layout, file>>

=============================================================================
