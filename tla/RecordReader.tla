--------------------------- MODULE RecordReader ----------------------------
(***************************************************************************)
(* The reader cpybkc-gen-go generates: Reader.Next, called until it says    *)
(* io.EOF or reports a fault, and beyond that by a Persistent caller        *)
(* (cmd/cpybkc-gen-go/reader.go and machine.go; what they emit is read in   *)
(* cmd/cpybkc-gen-go/internal/counted/file.go).                            *)
(***************************************************************************)
EXTENDS RecordStream

CONSTANTS
    Persistent   \* whether the caller calls Next again after an error

ASSUME CallerKnown == Persistent \in BOOLEAN

VARIABLES
    state,     \* where in the automaton the read is
    held,      \* the registers bound so far and what they hold
    consumed,  \* how many records of the file have been consumed
    admitted,  \* the record types Next has handed back, in order
    done,      \* whether the end of the file has been reached and reported
    said       \* what the last call of Next said

reader == <<state, held, consumed, admitted, done, said>>

readerVars == <<layout, file, ended, reader>>

Faults == {"truncated", "undescribed", "excluded", "malformed", "unbound"}

ReaderInit ==
    /\ state = Start
    /\ held = [r \in {} |-> 0]
    /\ consumed = 0
    /\ admitted = <<>>
    /\ done = FALSE
    /\ said = "nothing"

Called == said \in Faults => Persistent

Says(what) == said' = what

(* The end of the file was reported already: Next says io.EOF from then on. *)
Again ==
    /\ Called
    /\ done
    /\ Says("eof")
    /\ UNCHANGED <<layout, file, ended, state, held, consumed, admitted, done>>

AtRecord ==
    /\ Called
    /\ ~ done
    /\ consumed < Len(file)

Record == file[consumed + 1]

(* A guard of this state reads a register that nothing has bound. *)
UnboundHere == \E t \in Leaving(A, state) : ~ Reads(t.guards) \cup t.less \subseteq DOMAIN held

(* Test for the end of input at a record boundary, and for acceptance there. *)
EndOfInput ==
    /\ Called
    /\ ~ done
    /\ consumed = Len(file)
    /\ ended # "open"
    /\ done' = TRUE
    /\ Says(IF state \in A.accepting /\ ~ Reads(A.acceptance[state]) \subseteq DOMAIN held THEN "unbound"
            ELSE IF Accepts(A, state, held) THEN "eof" ELSE "truncated")
    /\ UNCHANGED <<layout, file, ended, state, held, consumed, admitted>>

(* The record the selected transition admits, and that transition's bindings. *)
Admit ==
    /\ AtRecord
    /\ ~ UnboundHere
    /\ \E t \in Selected(A, state, held, Record) :
          /\ Conforms(t.record, Record)
          /\ state' = t.to
          /\ held' = Bound(t, held, Record)
          /\ admitted' = Append(admitted, t.record)
    /\ consumed' = consumed + 1
    /\ Says("record")
    /\ UNCHANGED <<layout, file, ended, done>>

Excluded ==
    \E t \in Leaving(A, state) : /\ Discriminator[t.record] # NoPredicate
                                 /\ ~ AllHold(t.guards, held)
                                 /\ Matches(Discriminator[t.record], Record)

(* Why the record in front is refused: no transition admits it, or the one   *)
(* selected cannot decode it.                                              *)
Refused ==
    IF UnboundHere THEN {"unbound"}
    ELSE IF Selected(A, state, held, Record) = {}
         THEN {IF Excluded THEN "excluded" ELSE "undescribed"}
         ELSE {"malformed" : t \in {u \in Selected(A, state, held, Record) :
                                       ~ Conforms(u.record, Record)}}

(* The framing has taken the record's bytes, and the state stays.           *)
Refuse ==
    /\ AtRecord
    /\ \E fault \in Refused : Says(fault)
    /\ consumed' = consumed + 1
    /\ UNCHANGED <<layout, file, ended, state, held, admitted, done>>

Next == Again \/ EndOfInput \/ Admit \/ Refuse

(* The reader beside a file that any program may have written. *)
Supplied == Supply /\ consumed = Len(file) /\ UNCHANGED reader

Stopped == Stop /\ UNCHANGED reader

SuppliedInit == StreamInit /\ ReaderInit

ReaderSpec == SuppliedInit /\ [][Next \/ Supplied \/ Stopped]_readerVars

-----------------------------------------------------------------------------

(* Every variable stays in its type, and a register holds a number or bytes  *)
(* as its kind says (the Reader struct that reader.go emits).              *)
ReaderTypeOK ==
    /\ file \in Seq(Inputs) /\ Len(file) <= MaxRecords
    /\ ended \in {"open", "closed", "abandoned"}
    /\ state \in A.states
    /\ DOMAIN held \subseteq A.registers
    /\ \A r \in DOMAIN held : held[r] \in IF r.kind = "integer" THEN Int ELSE Byte
    /\ consumed \in 0 .. Len(file)
    /\ admitted \in Seq(RecordType)
    /\ done \in BOOLEAN
    /\ said \in {"nothing", "record", "eof"} \cup Faults

(* The reader never reads a register nothing has bound: what compiler.prove  *)
(* shows of a graph is enough for every file, well formed or not, and for a  *)
(* caller that carries on after an error (machine.go, guardTests; the       *)
(* unbound fault of a generated reader is never reported).                  *)
NeverUnbound == said # "unbound"

(* At every point of a read, whatever record comes next, at most one         *)
(* transition is the first whose guards hold and whose predicate matches:    *)
(* what checkAmbiguity admits, sorted by order, leaves the walk's own order  *)
(* of transitions unobservable for every record its copybook could describe. *)
OneWayOn ==
    \A R \in RecordType : \A raw \in Inputs :
        OfType(R, raw) =>
            \A t, u \in Selected(A, state, held, raw) :
                (t.record = R \/ u.record = R) => t = u

(* A count is never taken below zero, and only a count is ever lowered       *)
(* without its record: a register changes on admitting the record it is read *)
(* from, or by one from above zero (emitBindings in reader.go).             *)
CountsDownToZero ==
    [][\A r \in DOMAIN held :
          held'[r] # held[r] =>
              \/ held[r] > 0 /\ held'[r] = held[r] - 1
              \/ r.item.record = admitted'[Len(admitted')]]_readerVars

=============================================================================
