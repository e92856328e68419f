------------------------- MODULE SequenceLanguage --------------------------
(***************************************************************************)
(* What a sequencing expression says of a file, as the table of operators   *)
(* in docs/layout/SPEC.md says it, with no graph and no register: a parse   *)
(* is the sequence of record types the front of the file was read as, and   *)
(* an expression extends it by the records it admits there.  This is what   *)
(* the compiled automaton is held to; beside it, the reader over an         *)
(* expression that the compiler accepted.                                   *)
(***************************************************************************)
EXTENDS RecordReader, CompileSequence

(* The value of an item: that of the nearest preceding record holding it. *)
Holding(item, parse) == {i \in DOMAIN parse : parse[i] = item.record}

ByteOf(item, parse) == file[CHOOSE i \in Holding(item, parse) :
                                \A j \in Holding(item, parse) : j <= i][item.at]

RECURSIVE Extended(_, _), InTurn(_, _, _), Closure(_, _), Repeated(_, _, _)

(* The expressions of sub from the i-th on, each in turn. *)
InTurn(sub, i, parse) ==
    IF i > Len(sub) THEN {parse}
    ELSE UNION {InTurn(sub, i + 1, next) : next \in Extended(sub[i], parse)}

(* Any number of passes, each admitting a record, from any of the parses. *)
Closure(sub, parses) ==
    LET more == parses \cup UNION {InTurn(sub, 1, parse) : parse \in parses}
    IN  IF more = parses THEN parses ELSE Closure(sub, more)

(* Exactly n passes. *)
Repeated(sub, n, parse) ==
    IF n <= 0 THEN IF n = 0 THEN {parse} ELSE {}
    ELSE UNION {Repeated(sub, n - 1, next) : next \in InTurn(sub, 1, parse)}

Extended(e, parse) ==
    CASE e.op = "name" ->
            IF Len(parse) < Len(file) /\ OfType(e.record, file[Len(parse) + 1])
            THEN {Append(parse, e.record)} ELSE {}
      [] e.op = "seq" -> InTurn(e.sub, 1, parse)
      [] e.op = "alt" -> UNION {Extended(e.sub[i], parse) : i \in DOMAIN e.sub}
      [] e.op = "?"   -> {parse} \cup InTurn(e.sub, 1, parse)
      [] e.op = "*"   -> Closure(e.sub, {parse})
      [] e.op = "+"   -> Closure(e.sub, InTurn(e.sub, 1, parse))
      [] e.op = "times" ->
            IF Holding(e.item, parse) = {} THEN {}
            ELSE Repeated(e.sub, Decoded[ByteOf(e.item, parse)], parse)
      [] e.op = "when" ->
            {parse} \cup
            (IF Holding(e.item, parse) # {} /\ ByteOf(e.item, parse) \in e.match
             THEN InTurn(e.sub, 1, parse) ELSE {})

(* The expressions whose counts start every pass afresh: a run counted       *)
(* inside a repetition has the record holding its count admitted earlier in  *)
(* the same pass, no run admits that record itself, and a pass of a run      *)
(* always admits a record.                                                 *)
RECURSIVE Names(_), Certain(_), Nullable(_), Fresh(_, _)

Names(e) == IF e.op = "name" THEN {e.record} ELSE UNION {Names(e.sub[i]) : i \in DOMAIN e.sub}

(* The records every way through the expression admits. *)
Certain(e) ==
    CASE e.op = "name" -> {e.record}
      [] e.op \in {"seq", "+"} -> UNION {Certain(e.sub[i]) : i \in DOMAIN e.sub}
      [] e.op = "alt" -> {R \in Names(e) : \A i \in DOMAIN e.sub : R \in Certain(e.sub[i])}
      [] OTHER -> {}

Nullable(e) ==
    CASE e.op = "name" -> FALSE
      [] e.op \in {"seq", "+"} -> \A i \in DOMAIN e.sub : Nullable(e.sub[i])
      [] e.op = "alt" -> \E i \in DOMAIN e.sub : Nullable(e.sub[i])
      [] OTHER -> TRUE

Fresh(e, have) ==
    CASE e.op = "name" -> TRUE
      [] e.op \in {"*", "+"} -> Fresh(e.sub[1], {})
      [] e.op = "times" -> /\ e.item.record \in have \ Names(e.sub[1])
                           /\ ~ Nullable(e.sub[1])
                           /\ Fresh(e.sub[1], {})
      [] e.op = "seq" -> \A i \in DOMAIN e.sub :
                            Fresh(e.sub[i], have \cup UNION {Certain(e.sub[j]) : j \in 1 .. i - 1})
      [] OTHER -> \A i \in DOMAIN e.sub : Fresh(e.sub[i], have)

CountsAfresh(e) == Fresh(e, RecordType)

(* The ways a file is what the layout describes. *)
Readings(e) == {parse \in Extended(e, <<>>) : Len(parse) = Len(file)}

-----------------------------------------------------------------------------

(* A file read to io.EOF without a fault is one the expression describes,    *)
(* and its records were handed back as the types it describes them as: no    *)
(* file is misread because of how its expression was compiled (automaton.go, *)
(* CompileSequence).                                                       *)
OnlyWhatIsDescribed ==
    (said = "eof" /\ ~ Persistent) => admitted \in Readings(layout.expression)

(* Every file the expression describes is read to io.EOF: at no record does  *)
(* the reader report a fault that the rest of the file shows to be wrong.    *)
(* Where the order of the transitions settles what a record is, the first is *)
(* taken for good, and nothing is promised of such a file.                  *)
OneTypeEach ==
    \A i \in DOMAIN file :
        \A R, S \in Names(layout.expression) : OfType(R, file[i]) /\ OfType(S, file[i]) => R = S

EverythingDescribed ==
    (said \in Faults /\ ended # "open" /\ ~ Persistent /\ OneTypeEach)
        => Readings(layout.expression) = {}

=============================================================================
