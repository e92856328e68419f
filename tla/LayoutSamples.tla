--------------------------- MODULE LayoutSamples ---------------------------
(***************************************************************************)
(* Layouts for the model checker: a header H, a detail D and a trailer T of  *)
(* two bytes, whose second byte is a count or a flag, and the expressions    *)
(* over them.                                                              *)
(***************************************************************************)
EXTENDS CompileSequence, TLC

CONSTANTS Expressions

R(name) == [op |-> "name", record |-> name]
Op(op, sub) == [op |-> op, sub |-> sub]
Seq2(e, f) == Op("seq", <<e, f>>)
Alt(e, f) == Op("alt", <<e, f>>)
Star(e) == Op("*", <<e>>)
Plus(e) == Op("+", <<e>>)
Opt(e) == Op("?", <<e>>)
ItemOf(name) == [record |-> name, at |-> 1]
TimesOf(e, name) == [op |-> "times", item |-> ItemOf(name), sub |-> <<e>>]
WhenOf(name, match, e) == [op |-> "when", item |-> ItemOf(name), match |-> match, sub |-> <<e>>]

H == R("H")
D == R("D")
T == R("T")

MCRecordType == {"H", "D", "T"}

(* EBCDIC: three digits, three letters.  A digit decodes to its number. *)
Digits == 240 .. 242
h == 200
d == 196
t == 227
MCByte == Digits \cup {h, d, t}
MCDecoded == [b \in MCByte |-> IF b \in Digits THEN b - 240 ELSE 0]

Pair(a, b) == [i \in 0 .. 1 |-> IF i = 0 THEN a ELSE b]
At(offset, b) == [at |-> offset, end |-> offset + 1, values |-> {[i \in {offset} |-> b]}]
Bytes(a, b) == [at |-> 0, end |-> 2, values |-> {Pair(a, b)}]

(* Three type codes at one offset, and a numeric item behind each. *)
Aligned == [name \in MCRecordType |->
               CASE name = "H" -> At(0, h) [] name = "D" -> At(0, d) [] name = "T" -> At(0, t)]
Numeric == [name \in MCRecordType |-> [i \in 0 .. 1 |-> IF i = 1 THEN Digits ELSE MCByte]]
AlignedInputs == {Pair(h, b) : b \in Digits} \cup {Pair(d, 240), Pair(d, 241), Pair(t, 240), Pair(d, t)}

(* The detail's type code behind the header's, nothing to prove them apart,  *)
(* and a trailer that is whatever it is: three record types of their own.   *)
InBatch == [H |-> "BH", D |-> "BD", T |-> "BT"]
BatchType == {InBatch[name] : name \in MCRecordType}
Batched == [name \in BatchType |->
               CASE name = "BH" -> At(0, h) [] name = "BD" -> At(1, d) [] name = "BT" -> NoPredicate]
AnyByte == [name \in BatchType |-> [i \in 0 .. 1 |-> MCByte]]
BatchedInputs == {Pair(a, b) : a \in {h, t}, b \in {d, t, 241}}

(* Both families of record types. *)
SixTypes == MCRecordType \cup BatchType
AlignedAndBatched == Aligned @@ Batched
NumericAndAny == Numeric @@ AnyByte
AllInputs == AlignedInputs \cup BatchedInputs

(* A type code of one byte beside one of two that begins with it, told apart *)
(* by what the copybook of the first admits in the second byte.             *)
Nested == [name \in MCRecordType |->
              CASE name = "H" -> At(0, h) [] name = "D" -> Bytes(h, d) [] name = "T" -> At(1, t)]
HeaderNumeric == [name \in MCRecordType |->
                     [i \in 0 .. 1 |-> IF i = 1 /\ name = "H" THEN Digits ELSE MCByte]]
NestedInputs == {Pair(h, 240), Pair(h, 241), Pair(h, d), Pair(h, t), Pair(d, t)}

-----------------------------------------------------------------------------

(* Every operator over one name or two. *)
Level1 ==
    {H, D, T}
    \cup {Seq2(e, f) : e, f \in {D, T}} \cup {Alt(D, T), Alt(D, D)}
    \cup {Star(D), Plus(D), Opt(D), Star(T)}
    \cup {TimesOf(D, "H"), TimesOf(T, "H"), TimesOf(T, "D"), TimesOf(D, "D")}
    \cup {WhenOf("H", {241}, D), WhenOf("H", {241, 242}, T), WhenOf("D", {241}, T)}

(* A header, then one operator over those, or a repetition of the two. *)
Level2 ==
    LET unary == {Op(op, <<e>>) : op \in {"*", "+", "?"}, e \in Level1}
                 \cup {TimesOf(e, "H") : e \in Level1} \cup {TimesOf(Seq2(D, e), "H") : e \in Level1}
                 \cup {WhenOf("H", {241}, e) : e \in Level1}
        binary == {Op(op, <<e, f>>) : op \in {"seq", "alt"}, e, f \in Level1}
    IN  {Seq2(H, e) : e \in unary \cup binary}
        \cup {Op(op, <<Seq2(H, e)>>) : op \in {"*", "+"}, e \in Level1}

(* Batches of a header and what follows it. *)
Batches ==
    {Plus(Seq2(H, e)) : e \in Level1}
    \cup {Seq2(Star(Seq2(H, e)), T) : e \in {D, Star(D), TimesOf(D, "H"), WhenOf("H", {241}, D)}}
    \cup {Star(Alt(H, Alt(D, T))), Star(Seq2(Opt(T), Alt(H, D))), Star(Alt(Seq2(H, T), D)),
          Seq2(H, Star(Seq2(TimesOf(D, "H"), H)))}

(* A run inside a run, each counted by the header's item. *)
NestedCounts == {Seq2(H, TimesOf(Seq2(D, TimesOf(T, "H")), "H"))}

(* A run that admits the record its count is read from. *)
CountsItself == {Seq2(H, TimesOf(Seq2(H, D), "H"))}

Everything == Level2 \cup Batches \cup NestedCounts \cup CountsItself

(* An expression over the batched record types. *)
RECURSIVE OfBatch(_)
OfBatch(e) ==
    IF e.op = "name" THEN R(InBatch[e.record])
    ELSE LET within == [e EXCEPT !.sub = [i \in DOMAIN e.sub |-> OfBatch(e.sub[i])]]
         IN  IF e.op \in {"times", "when"}
               THEN [within EXCEPT !.item.record = InBatch[e.item.record]] ELSE within

(* The expressions the compiler accepts, compiled, each beside the records   *)
(* that files are made of to try it on.                                     *)
Compiling(expressions, inputs) ==
    {[expression |-> e, automaton |-> Compiled(e), inputs |-> inputs] :
        e \in {f \in expressions : Refusals(f) = {}}}

BatchedLayouts == Compiling({OfBatch(e) : e \in Batches}, BatchedInputs)

=============================================================================
