------------------------------ MODULE Framing ------------------------------
(***************************************************************************)
(* A file of framed records as bytes, and what the code generated for one   *)
(* layout reads and writes it by: its framing, and an automaton over record *)
(* types of which some hold a table that an earlier record counts           *)
(* (cmd/cpybkc-gen-go: file.go, reader.go, writer.go).                      *)
(*                                                                         *)
(* A framing is [how, delimiter, segment], where how is one of Framings     *)
(* below.  A record type is                                                *)
(*   [at, tag,    the one byte its predicate reads, at 0 for no predicate   *)
(*    fixed,      the bytes it holds in front of its table                  *)
(*    table,      whether it ends in a table of bytes counted by the        *)
(*                register, of least to most of them                        *)
(*    counts]     the byte it binds the register from, or 0                 *)
(* and a transition is [from, record, to].  A layout is                     *)
(* [transitions, accepting, start], its transitions in the order a state    *)
(* carries them.  Registers, guards and rivals are in RecordAutomaton.      *)
(***************************************************************************)
EXTENDS Integers, FiniteSets, Sequences, SequencesExt

CONSTANTS
    Digit,       \* the bytes a count decodes from
    RecordType,  \* the names of the record types
    Form,        \* what each of them looks like
    Layouts,     \* the layouts under study
    Framings,    \* the framings under study
    MaxStated    \* the most a descriptor word states: 0xFFFF in the code

DescriptorWidth == 4

How == {"unframed", "word", "segmented", "terminator", "optional", "separator"}

Least(R) == Form[R].fixed + (IF Form[R].table THEN Form[R].least ELSE 0)

Leaving(l, s) == {i \in DOMAIN l.transitions : l.transitions[i].from = s}

(* What resolve holds a layout to: every predicate a state evaluates lies    *)
(* inside the shortest record the state admits, no record is empty, and the  *)
(* predicates of a state are told apart by their bytes.                     *)
Reachable(l, s) ==
    \A i, j \in Leaving(l, s) :
        LET R == l.transitions[i].record
            S == l.transitions[j].record
        IN  /\ Form[R].at <= Least(S)
            /\ Least(R) >= 1
            /\ i # j => /\ Form[R].at = Form[S].at /\ Form[R].at # 0
                        /\ Form[R].tag # Form[S].tag

(* What framing() holds a framing to: a segment carries data, a delimiter    *)
(* has bytes.                                                              *)
Admissible(f) ==
    /\ f.how \in How
    /\ f.how = "segmented" => f.segment > DescriptorWidth
    /\ f.how \in {"terminator", "optional", "separator"} => f.delimiter # <<>>

ASSUME LayoutsResolve ==
    \A l \in Layouts : \A s \in {l.transitions[i].from : i \in DOMAIN l.transitions} : Reachable(l, s)

ASSUME FramingsAdmitted == \A f \in Framings : Admissible(f)

ASSUME Counts == Digit \subseteq 240 .. 249

ASSUME TwoBytes == MaxStated \in Nat /\ MaxStated < 65536

Byte == 0 .. 255

ASSUME FileTypes ==
    /\ Form \in [RecordType -> [at : Nat, tag : Byte, fixed : Nat, table : BOOLEAN,
                                least : Nat, most : Nat, counts : Nat]]
    /\ \A l \in Layouts : l.transitions \in Seq([from : Nat, record : RecordType, to : Nat])
    /\ \A f \in Framings : f.delimiter \in Seq(Byte) /\ f.segment \in Nat

VARIABLES
    layout, framing,  \* what reader and writer were generated from
    disk,             \* the bytes of the file
    ended             \* "open", "closed" by its writer or "abandoned"

config == <<layout, framing>>

FileInit ==
    /\ layout \in Layouts
    /\ framing \in Framings
    /\ disk = <<>>
    /\ ended = "open"

-----------------------------------------------------------------------------

(* The framings that state a record's length in front of it. *)
Bounded(f) == f.how \in {"word", "segmented"}

(* Two bytes of a length: what they have no room for is lost. *)
Kept(stated) == stated % (MaxStated + 1)

Word(stated, code) == <<Kept(stated) \div 256, Kept(stated) % 256, code, 0>>

Stated(word) == word[1] * 256 + word[2]

(* The value of a count and the bytes it takes to hold a table of so many.   *)
Decoded(b) == b - 240

Extent(R, count) == Form[R].fixed + (IF Form[R].table THEN count ELSE 0)

(* The bytes of a record decode. *)
Decodes(R, raw) == Form[R].counts # 0 => raw[Form[R].counts] \in Digit

(* A predicate whose target is not wholly inside the bytes in hand does not  *)
(* match.                                                                  *)
Matches(R, bytes) ==
    Form[R].at # 0 => Form[R].at <= Len(bytes) /\ bytes[Form[R].at] = Form[R].tag

(* How far into a record the predicates of the whole layout reach. *)
Lookahead(l) ==
    LET reaches == {Form[l.transitions[i].record].at : i \in DOMAIN l.transitions}
    IN  CHOOSE n \in reaches : \A m \in reaches : m <= n

(* The register after a record of type R was admitted. *)
Bound(R, raw, count) == IF Form[R].counts # 0 THEN Decoded(raw[Form[R].counts]) ELSE count

(* Nothing bound the register yet. *)
Unbound == -1

=============================================================================
