-------------------------- MODULE CopybookSamples --------------------------
(***************************************************************************)
(* Copybooks for the model checker: a count of one byte, two parts off a     *)
(* menu, and a byte behind them, under both readings and under framings that  *)
(* want nothing, a maximum and an exact extent.                              *)
(***************************************************************************)
EXTENDS CopybookStorage
LOCAL INSTANCE SequencesExt

CONSTANTS
    Menu,    \* the names of the parts the copybooks are put together from
    Edge     \* and of those at the edge of what some rule of resolution refuses

(* An entry of a part: up, on and over name entries of the part, 0 the       *)
(* record, and on = Counted the count every copybook begins with.            *)
Counted == 99
Entry(up, width) == [up |-> up, width |-> width, align |-> 1, min |-> 1, max |-> 1, on |-> 0, over |-> 0]
On(boundary, e) == [e EXCEPT !.align = boundary]
Over(i, e) == [e EXCEPT !.over = i]
Occurring(n, e) == [e EXCEPT !.min = n, !.max = n]
Between(m, n, count, e) == [e EXCEPT !.min = m, !.max = n, !.on = count]

Item(width) == Entry(0, width)
Holder(up) == Entry(up, 0)

Bytewise(item) == [item |-> item, by |-> "bytes", at |-> <<>>]
Scheduled(item, at) == [item |-> item, by |-> "place", at |-> at]
By(item) == [item |-> item, by |-> "nothing", at |-> <<>>]

Plain(entries) == [entries |-> entries, word |-> <<>>]
Saying(i, alternatives, part) == [part EXCEPT !.word = (i :> alternatives) @@ @]

(* A table of two, a key and a redefine in each occurrence, as long or       *)
(* shorter, or longer.                                                      *)
Redefined(width) ==
    Plain(<<Occurring(2, Holder(0)), Entry(1, 1), Entry(1, 2), Over(3, Entry(1, width))>>)

(* A group that is in the record or is not, and a redefine in it.           *)
OptionalRedefine ==
    Plain(<<Between(0, 1, Counted, Holder(0)), Entry(1, 1), Entry(1, 2), Over(3, Entry(1, 1))>>)

(* A redefine in an alternative of a redefine of a table's.                  *)
NestedRedefine ==
    Plain(<<Occurring(2, Holder(0)), Entry(1, 3), Over(2, Holder(1)), Entry(3, 2), Over(4, Entry(3, 1))>>)

Part(name) ==
    CASE name = "byte" -> Plain(<<Item(1)>>)
      [] name = "aligned" -> Plain(<<On(2, Item(2))>>)
      [] name = "redefined" -> Plain(<<Item(3), Over(1, Holder(0)), Entry(2, 1), On(2, Entry(2, 1))>>)
      [] name = "longer" -> Plain(<<Item(1), Over(1, Item(3))>>)
      [] name = "chain" -> Plain(<<Item(3), Over(1, Item(2)), Over(2, Item(1))>>)
      [] name = "nested" -> Plain(<<Holder(0), Entry(1, 3), Over(2, Holder(1)), Entry(3, 2), Over(4, Entry(3, 1))>>)
      [] name = "table" -> Plain(<<Occurring(2, Holder(0)), Entry(1, 1), On(2, Entry(1, 2)), Entry(1, 1)>>)
      [] name = "padded" -> Plain(<<Occurring(2, On(4, Item(3)))>>)
      [] name = "varying" -> Plain(<<Between(0, 2, Counted, Item(1))>>)
      [] name = "varyingPadded" -> Plain(<<Between(1, 2, Counted, On(4, Item(3)))>>)
      [] name = "many" -> Plain(<<Between(2, 3, Counted, Item(1))>>)
      [] name = "few" -> Plain(<<Between(0, 1, Counted, Item(2))>>)
      [] name = "varyingInside" -> Plain(<<Occurring(2, Holder(0)), Between(0, 2, Counted, Entry(1, 1)), Entry(1, 1)>>)
      [] name = "varyingAlternative" -> Plain(<<Item(3), Over(1, Holder(0)), Between(2, 3, Counted, Entry(2, 1))>>)
      [] name = "rivalRanges" -> Plain(<<Holder(0), Between(0, 1, Counted, Entry(1, 2)),
                                         Over(1, Holder(0)), Between(2, 2, Counted, Entry(3, 1))>>)
      [] name = "ownCount" -> Plain(<<Item(1), Between(0, 2, 1, Item(1))>>)
      [] name = "countInAlternative" -> Plain(<<Item(2), Over(1, Holder(0)), Entry(2, 1), Between(1, 2, 3, Item(1))>>)
      [] name = "countInTable" -> Plain(<<Between(0, 1, Counted, Holder(0)), Entry(1, 1), Between(0, 1, 2, Item(1))>>)
      [] name = "optional" -> Saying(3, <<Bytewise(3), Bytewise(4)>>, OptionalRedefine)
      [] name = "optionalUnsaid" -> OptionalRedefine
      [] name = "byBytes" -> Saying(3, <<Bytewise(3), Bytewise(4)>>, Redefined(1))
      [] name = "byPlace" -> Saying(3, <<Scheduled(4, <<2>>), Scheduled(3, <<1>>)>>, Redefined(1))
      [] name = "placeTwice" -> Saying(3, <<Scheduled(4, <<1, 2>>), Scheduled(3, <<1>>)>>, Redefined(1))
      [] name = "placeMissed" -> Saying(3, <<Scheduled(4, <<2>>), Scheduled(3, <<3>>)>>, Redefined(1))
      [] name = "placeEmpty" -> Saying(3, <<Scheduled(4, <<1, 2>>), Scheduled(3, <<>>)>>, Redefined(1))
      [] name = "mixed" -> Saying(3, <<Bytewise(3), Scheduled(4, <<1, 2>>)>>, Redefined(1))
      [] name = "byNothing" -> Saying(3, <<Bytewise(3), By(4)>>, Redefined(1))
      [] name = "one" -> Saying(3, <<By(4)>>, Redefined(1))
      [] name = "none" -> Saying(3, <<>>, Redefined(1))
      [] name = "unknown" -> Saying(3, <<Bytewise(3), Bytewise(0)>>, Redefined(1))
      [] name = "tooLong" -> Saying(3, <<Bytewise(3), Bytewise(4)>>, Redefined(3))
      [] name = "nestedArms" -> Saying(2, <<Bytewise(2), Bytewise(3)>>, Saying(4, <<Scheduled(5, <<2>>), Scheduled(4, <<1>>)>>, NestedRedefine))
      [] name = "nestedUnsaid" -> Saying(2, <<Bytewise(2), Bytewise(3)>>, NestedRedefine)
      [] name = "nestedUnread" -> Saying(2, <<By(2)>>, NestedRedefine)
      [] name = "varyingArm" ->
            Saying(2, <<Bytewise(2), Bytewise(3)>>,
                   Plain(<<Occurring(2, Holder(0)), Entry(1, 2), Over(2, Holder(1)), Between(0, 2, Counted, Entry(3, 1))>>))

(* The parts one behind the other, under a record that starts with a count.  *)
MovedTo(n, base) == IF n = 0 THEN 0 ELSE base + n

With(copybook, part) ==
    LET base   == Len(copybook.book)
        moved  == [k \in DOMAIN part.entries |->
                      [part.entries[k] EXCEPT
                          !.up   = IF @ = 0 THEN 1 ELSE base + @,
                          !.over = MovedTo(@, base),
                          !.on   = IF @ = Counted THEN 2 ELSE MovedTo(@, base)]]
        spoken == [i \in {base + k : k \in DOMAIN part.word} |->
                      [k \in DOMAIN part.word[i - base] |->
                          [part.word[i - base][k] EXCEPT !.item = MovedTo(@, base)]]]
    IN [book |-> copybook.book \o moved, word |-> copybook.word @@ spoken]

Counting == [book |-> <<Holder(0), Entry(1, 1)>>, word |-> <<>>]
Behind == Plain(<<Item(1)>>)
Copybook(parts) ==
    LET upTo[k \in 0 .. Len(parts)] == IF k = 0 THEN Counting ELSE With(upTo[k - 1], Part(parts[k]))
    IN With(upTo[Len(parts)], Behind)

(* A level-77 item, a copybook of every part, and of every two of the menu.  *)
Standalone == [book |-> <<Item(4)>>, word |-> <<>>]
OfOne == {Copybook(<<p>>) : p \in Menu \cup Edge}
OfTwo == {Copybook(<<p, q>>) : p \in Menu, q \in Menu}

Built(copybooks) == {c \in copybooks : Buildable(c.book, TRUE)}

RequestOf(c, reading, framing) ==
    [book |-> c.book, laid |-> NewLayout(c.book), word |-> c.word, reading |-> reading, framing |-> framing]

NoFraming == [kind |-> "none", lrecl |-> 0]
Framings == {[kind |-> "framed", lrecl |-> 10], [kind |-> "unframed", lrecl |-> 10], [kind |-> "unframed", lrecl |-> 0]}

(* Two parts under each reading; one under none, and under every framing.   *)
CopybookRequests ==
    {RequestOf(c, reading, NoFraming) : c \in Built(OfOne \cup OfTwo), reading \in {"odoslide", "noodoslide"}}
    \cup {RequestOf(c, "unstated", NoFraming) : c \in Built(OfOne)}
    \cup {RequestOf(c, reading, framing) : c \in Built(OfOne) \cup {Standalone},
                                           reading \in {"odoslide", "noodoslide"}, framing \in Framings}

=============================================================================
