-------------------------- MODULE RecordAutomaton --------------------------
(***************************************************************************)
(* The record automaton of internal/resolve: guards over registers,        *)
(* predicates over bytes, the transition a consumer selects, and what the   *)
(* compiler holds a graph to before it leaves (automaton.go, sequence.go,   *)
(* predicate.go).                                                          *)
(*                                                                         *)
(* A record is a function from its byte offsets to bytes, every record as   *)
(* wide as every other, and a record type is a discriminator beside what    *)
(* its copybook admits at each offset.  A register is                       *)
(*   [kind |-> "integer" or "bytes", by |-> the operator it counts for,     *)
(*    item |-> [record |-> .., at |-> the offset of the item]],             *)
(* a guard [register, positive, values] (equals is one-of with one value),  *)
(* and a transition                                                        *)
(*   [from, to, record, guards, less, binds, via]                          *)
(* where less and binds are the registers it takes one off and the ones it  *)
(* binds from a field, and via keeps apart transitions that the walk over   *)
(* the expression left twice.  An automaton is                             *)
(*   [states, transitions, accepting, acceptance, registers].              *)
(***************************************************************************)
EXTENDS Integers, FiniteSets

CONSTANTS
    RecordType,     \* the names of the layout's record forms
    Byte,           \* the bytes a record is made of
    Width,          \* the number of bytes in a record
    Discriminator,  \* for each record type, its predicate or NoPredicate
    Domain,         \* for each record type and offset, the bytes its copybook admits
    Decoded         \* the number a byte of a count field decodes to

Offset == 0 .. Width - 1

Raw == [Offset -> Byte]

(* A predicate [at, end, values] reads the run of bytes from at up to, not   *)
(* including, end, and values are the runs of bytes it matches.             *)
NoPredicate == [at |-> 0, end |-> 0, values |-> {}]

Run(p) == p.at .. p.end - 1

ASSUME RecordTypes ==
    /\ Width \in Nat
    /\ Decoded \in [Byte -> Int]
    /\ Domain \in [RecordType -> [Offset -> SUBSET Byte]]
    /\ \A R \in RecordType :
          \/ Discriminator[R] = NoPredicate
          \/ /\ Discriminator[R].at \in Offset
             /\ Discriminator[R].end \in Discriminator[R].at + 1 .. Width
             /\ \A v \in Discriminator[R].values : v \in [Run(Discriminator[R]) -> Byte]

(* The state a read begins in.  It stands for no appearance of a record. *)
Start == <<0>>

-----------------------------------------------------------------------------
(* Evaluating guards and predicates. *)

(* The bytes of raw that predicate p tests. *)
Target(p, raw) == [i \in Run(p) |-> raw[i]]

Matches(p, raw) == p = NoPredicate \/ Target(p, raw) \in p.values

(* A count that has run out taken for one that has not. *)
HoldsAtZero(g, held) ==
    IF g.positive THEN g.register.kind = "integer" /\ held[g.register] >= 0
                  ELSE held[g.register] \in g.values

Holds(g, held) ==
    IF g.positive THEN g.register.kind = "integer" /\ held[g.register] > 0
                  ELSE held[g.register] \in g.values

AllHold(guards, held) == \A g \in guards : Holds(g, held)

Reads(guards) == {g.register : g \in guards}

Leaving(a, s) == {t \in a.transitions : t.from = s}

(* The order a state carries its transitions in: by where the run of the    *)
(* predicate begins, then by where it ends.  What the sort leaves where the *)
(* walk put it is left open.                                               *)
Before(t, u) ==
    LET p == Discriminator[t.record]
        q == Discriminator[u.record]
    IN  /\ p # NoPredicate /\ q # NoPredicate
        /\ p.at < q.at \/ (p.at = q.at /\ p.end < q.end)

Takes(t, held, raw) == AllHold(t.guards, held) /\ Matches(Discriminator[t.record], raw)

(* The transition a consumer takes for the record in front of it: the first *)
(* eligible one whose predicate matches.                                   *)
Selected(a, s, held, raw) ==
    {t \in Leaving(a, s) : /\ Takes(t, held, raw)
                           /\ \A u \in Leaving(a, s) : Before(u, t) => ~ Takes(u, held, raw)}

(* What a binding reads out of the record the transition admits. *)
FieldOf(r, raw) == IF r.kind = "integer" THEN Decoded[raw[r.item.at]] ELSE raw[r.item.at]

(* The register file after a transition: the bindings are the last thing it *)
(* does, and each reads the file as it stood on entry to the state.         *)
Bound(t, held, raw) ==
    [r \in DOMAIN held \cup t.less \cup t.binds |->
        IF r \in t.less THEN held[r] - 1
        ELSE IF r \in t.binds THEN FieldOf(r, raw)
        ELSE held[r]]

Accepts(a, s, held) == s \in a.accepting /\ AllHold(a.acceptance[s], held)

-----------------------------------------------------------------------------
(* Which guards can hold at once. *)

HoldsTogether(guards, r) ==
    LET tests    == {g \in guards : ~ g.positive}
        narrowed == {v \in UNION {g.values : g \in tests} : \A g \in tests : v \in g.values}
    IN  IF tests = guards THEN tests = {} \/ narrowed # {}
        ELSE tests = {} \/ \E v \in narrowed : r.kind = "bytes" \/ v > 0

Satisfiable(guards) ==
    \A r \in Reads(guards) : HoldsTogether({g \in guards : g.register = r}, r)

-----------------------------------------------------------------------------
(* Which pairs of transitions one record can satisfy. *)

Shared(p, q) == Run(p) \cap Run(q)

(* A well-formed record of type R could hold value v over the run it is of. *)
Carries(R, v) == \A i \in DOMAIN v : v[i] \in Domain[R][i]

LiteralsAgree(R, S) ==
    LET p == Discriminator[R]
        q == Discriminator[S]
    IN  \E v \in p.values, w \in q.values :
            /\ \A i \in Shared(p, q) : v[i] = w[i]
            /\ Carries(R, w) \/ Carries(S, v)

Unpredicated(R, S) == NoPredicate \in {Discriminator[R], Discriminator[S]}

(* A pair admitting one record type taken to be told apart by it. *)
OverlapOfTwoTypes(R, S) == R # S /\ (Unpredicated(R, S) \/ LiteralsAgree(R, S))

(* A record form with no predicate taken to be in nobody's way. *)
OverlapOfPredicates(R, S) == ~ Unpredicated(R, S) /\ LiteralsAgree(R, S)

Overlap(R, S) == Unpredicated(R, S) \/ LiteralsAgree(R, S)

ResolvedByOrder(R, S) ==
    /\ Discriminator[R] # NoPredicate
    /\ Discriminator[S] # NoPredicate
    /\ Shared(Discriminator[R], Discriminator[S]) = {}

(* No pair leaving one state is eligible together and indistinguishable. *)
Unambiguous(a) ==
    \A t, u \in a.transitions :
        (t # u /\ t.from = u.from /\ Satisfiable(t.guards \cup u.guards)
               /\ Overlap(t.record, u.record))
            => ResolvedByOrder(t.record, u.record)

-----------------------------------------------------------------------------
(* A register is read only where it has been written. *)

(* The registers every path to a state has bound.  Each state begins with    *)
(* all of them but the start state, and loses what some transition into it   *)
(* neither has on entry nor binds, until a round loses nothing more.        *)
BoundOnEntry(a) ==
    LET rounds == Cardinality(a.states) * Cardinality(a.registers)
        lost[n \in 0 .. rounds] ==
            IF n = 0 THEN {Start} \X a.registers
            ELSE LET before == lost[n - 1]
                 IN  before \cup UNION {{<<t.to, r>> : r \in {q \in a.registers \ (t.less \cup t.binds) :
                                                               <<t.from, q>> \in before}}
                                        : t \in a.transitions}
        unbound == lost[rounds]
    IN  [s \in a.states |-> {r \in a.registers : <<s, r>> \notin unbound}]

(* The guards of the transitions left unchecked. *)
AcceptanceReadsBound(a, bound) == \A s \in a.accepting : Reads(a.acceptance[s]) \subseteq bound[s]

ReadsBound(a, bound) ==
    /\ \A s \in a.accepting : Reads(a.acceptance[s]) \subseteq bound[s]
    /\ \A t \in a.transitions : Reads(t.guards) \cup t.less \subseteq bound[t.from]

=============================================================================
