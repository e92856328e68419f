-------------------------- MODULE CompileSequence --------------------------
(***************************************************************************)
(* The compilation of a layout's sequencing expression into the record      *)
(* automaton: compiler.expression to compiler.accept of                     *)
(* internal/resolve/automaton.go and sequence.go.                           *)
(*                                                                         *)
(* An expression is [op |-> "name", record |-> R], [op |-> .., sub |-> ..]  *)
(* with op one of "seq", "alt", "*", "+" and "?", or one of                 *)
(*   [op |-> "times", item |-> .., sub |-> ..]                              *)
(*   [op |-> "when", item |-> .., match |-> a set of bytes, sub |-> ..].    *)
(* A position of the graph is the path to an appearance of a record name.   *)
(* The lists the compiler keeps, which may hold one element twice, are sets *)
(* here whose elements carry, in via, the operators they came through.      *)
(***************************************************************************)
EXTENDS RecordAutomaton, Sequences

RECURSIVE EmptyWays(_, _, _)
(* Every way parts i to j together admit no record at all. *)
EmptyWays(parts, i, j) ==
    IF i > j THEN {[guards |-> {}, via |-> {}]}
    ELSE {[guards |-> way.guards \cup last.guards, via |-> way.via \cup last.via] :
             way \in EmptyWays(parts, i, j - 1), last \in parts[j].null}

Under(way, done) == [way EXCEPT !.guards = @ \cup done.guards, !.via = @ \cup done.via]

(* Every position from may be followed by every position to, under the      *)
(* guards each side carries and the ones between, taking one off less.      *)
Link(from, to, between, less, path) ==
    {[from |-> done.at, at |-> in.at,
      guards |-> done.guards \cup between.guards \cup in.guards,
      less |-> less \cup in.less,
      via |-> done.via \cup between.via \cup in.via \cup {path}] : done \in from, in \in to}

Free == [guards |-> {}, via |-> {}]

(* What compiling a node yields: where it can start, where it can end, the   *)
(* ways it admits nothing, and what it left behind in the compiler.         *)
Together(parts) ==
    [positions |-> UNION {parts[i].positions : i \in DOMAIN parts},
     follow    |-> UNION {parts[i].follow : i \in DOMAIN parts},
     registers |-> UNION {parts[i].registers : i \in DOMAIN parts}]

Name(R, path) ==
    [first |-> {[at |-> path, guards |-> {}, less |-> {}, via |-> {}]},
     last  |-> {[at |-> path, guards |-> {}, via |-> {}]},
     null  |-> {},
     positions |-> {[at |-> path, record |-> R]}, follow |-> {}, registers |-> {}]

Sequence(parts, path) ==
    LET n == Len(parts)
        behind == Together(parts)
    IN  [first |-> UNION {{Under(in, skipped) : in \in parts[i].first,
                              skipped \in EmptyWays(parts, 1, i - 1)} : i \in 1 .. n},
         last  |-> UNION {{Under(done, skipped) : done \in parts[i].last,
                              skipped \in EmptyWays(parts, i + 1, n)} : i \in 1 .. n},
         null  |-> EmptyWays(parts, 1, n),
         positions |-> behind.positions,
         follow |-> behind.follow \cup
             UNION {UNION {UNION {Link(parts[i].last, parts[j].first, skipped, {}, path) :
                                     skipped \in EmptyWays(parts, i + 1, j - 1)}
                           : j \in i + 1 .. n} : i \in 1 .. n},
         registers |-> behind.registers]

Alternation(parts, path) ==
    LET behind == Together(parts)
    IN  [first |-> UNION {parts[i].first : i \in DOMAIN parts},
         last  |-> UNION {parts[i].last : i \in DOMAIN parts},
         null  |-> UNION {parts[i].null : i \in DOMAIN parts},
         positions |-> behind.positions, follow |-> behind.follow, registers |-> behind.registers]

Skippable(path) == {[guards |-> {}, via |-> {path}]}

Repeat(body, empty, path) ==
    [body EXCEPT !.follow = @ \cup Link(body.last, body.first, Free, {}, path),
                 !.null = IF empty THEN Skippable(path) ELSE @]

Optional(body, path) == [body EXCEPT !.null = Skippable(path)]

(* A run that may be left while its count is above zero. *)
TimesLeftEarly(body, item, path) ==
    LET counter == [kind |-> "integer", by |-> path, item |-> item]
        more == [register |-> counter, positive |-> TRUE, values |-> {}]
        done == [register |-> counter, positive |-> FALSE, values |-> {0}]
    IN  [body EXCEPT
            !.follow = @ \cup Link(body.last, body.first, [guards |-> {more}, via |-> {}], {counter}, path),
            !.first = {[in EXCEPT !.guards = @ \cup {more}, !.less = @ \cup {counter}] : in \in body.first},
            !.null = {[guards |-> {done}, via |-> {path}]},
            !.registers = @ \cup {counter}]

(* One register for the operator: entering a pass needs it above zero and   *)
(* takes one off it, and the run is left where it has reached zero.         *)
Times(body, item, path) ==
    LET counter == [kind |-> "integer", by |-> path, item |-> item]
        more == [register |-> counter, positive |-> TRUE, values |-> {}]
        done == [register |-> counter, positive |-> FALSE, values |-> {0}]
    IN  [body EXCEPT
            !.follow = @ \cup Link(body.last, body.first, [guards |-> {more}, via |-> {}], {counter}, path),
            !.first = {[in EXCEPT !.guards = @ \cup {more}, !.less = @ \cup {counter}] : in \in body.first},
            !.last = {[end EXCEPT !.guards = @ \cup {done}] : end \in body.last},
            !.null = {[guards |-> {done}, via |-> {path}]},
            !.registers = @ \cup {counter}]

(* A body that may be left out only where its guard holds. *)
WhenRequired(body, item, match, path) ==
    LET held == [kind |-> "bytes", by |-> <<>>, item |-> item]
        holds == [register |-> held, positive |-> FALSE, values |-> match]
    IN  [body EXCEPT
            !.first = {[in EXCEPT !.guards = @ \cup {holds}] : in \in body.first},
            !.null = {[guards |-> {holds}, via |-> {path}]},
            !.registers = @ \cup {held}]

(* One register for the item, and a guard on every way into the body. *)
When(body, item, match, path) ==
    LET held == [kind |-> "bytes", by |-> <<>>, item |-> item]
        holds == [register |-> held, positive |-> FALSE, values |-> match]
    IN  [body EXCEPT
            !.first = {[in EXCEPT !.guards = @ \cup {holds}] : in \in body.first},
            !.null = Skippable(path),
            !.registers = @ \cup {held}]

RECURSIVE Expression(_, _)
Expression(e, path) ==
    IF e.op = "name" THEN Name(e.record, path)
    ELSE LET parts == [i \in DOMAIN e.sub |-> Expression(e.sub[i], Append(path, i))] \o <<>>
         IN  CASE e.op = "seq"   -> Sequence(parts, path)
               [] e.op = "alt"   -> Alternation(parts, path)
               [] e.op = "*"     -> Repeat(Sequence(parts, path), TRUE, path)
               [] e.op = "+"     -> Repeat(Sequence(parts, path), FALSE, path)
               [] e.op = "?"     -> Optional(Sequence(parts, path), path)
               [] e.op = "times" -> Times(Sequence(parts, path), e.item, path)
               [] e.op = "when"  -> When(Sequence(parts, path), e.item, e.match, path)

-----------------------------------------------------------------------------

(* The states a walk from the start state reaches. *)
RECURSIVE Reached(_, _)
Reached(transitions, seen) ==
    LET more == seen \cup {t.to : t \in {u \in transitions : u.from \in seen}}
    IN  IF more = seen THEN seen ELSE Reached(transitions, more)

(* Every write of one register but the first is dropped, and the count's    *)
(* comes first.                                                            *)
FieldBindings(registers, R, less) == {r \in registers : r.item.record = R} \ less

(* The ways of accepting at a state: an unconditional one subsumes the rest. *)
Acceptance(ways) ==
    IF \E way \in ways : way.guards = {} THEN {{}} ELSE {way.guards : way \in ways}

WaysAt(top, s) == IF s = Start THEN top.null ELSE {done \in top.last : done.at = s}

(* A state whose acceptance would be a disjunction of guard lists. *)
Disjoint(top, s) ==
    LET ways == WaysAt(top, s)
    IN  Cardinality(ways) > 1 /\ \A way \in ways : way.guards # {}

Assemble(top) ==
    LET recordAt(s) == (CHOOSE p \in top.positions : p.at = s).record
        ways == {[from |-> Start, at |-> in.at, guards |-> in.guards,
                  less |-> in.less, via |-> in.via] : in \in top.first} \cup top.follow
        transitions == {[from |-> way.from, to |-> way.at, record |-> recordAt(way.at),
                         guards |-> way.guards, less |-> way.less,
                         binds |-> FieldBindings(top.registers, recordAt(way.at), way.less),
                         via |-> way.via] : way \in {w \in ways : Satisfiable(w.guards)}}
        states == Reached(transitions, {Start})
        accepting == {s \in states : WaysAt(top, s) # {}}
    IN  [states |-> states,
         transitions |-> {t \in transitions : t.from \in states},
         accepting |-> accepting,
         acceptance |-> [s \in accepting |-> CHOOSE guards \in Acceptance(WaysAt(top, s)) : TRUE],
         registers |-> top.registers]

(* What the compiler refuses an expression for. *)
Refusals(e) ==
    LET top == Expression(e, <<>>)
        a == Assemble(top)
    IN  (IF \E s \in {Start} \cup {p.at : p \in top.positions} : Disjoint(top, s)
            THEN {"acceptance"} ELSE {}) \cup
        (IF ReadsBound(a, BoundOnEntry(a)) THEN {} ELSE {"unbound"}) \cup
        (IF Unambiguous(a) THEN {} ELSE {"ambiguous"})

Compiled(e) == Assemble(Expression(e, <<>>))

=============================================================================
