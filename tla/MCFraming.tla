----------------------------- MODULE MCFraming -----------------------------
(***************************************************************************)
(* Three layouts under every framing.  The bytes of a record are, at worst,  *)
(* those of a delimiter, a type code or a count.                           *)
(***************************************************************************)
EXTENDS FramedFile

h == 200
d == 196
Cr == 13
Lf == 10
MCDigit == {241, 242, 243}

Fixed(at, tag, n) ==
    [at |-> at, tag |-> tag, fixed |-> n, table |-> FALSE, least |-> 0, most |-> 0, counts |-> 0]

(* A header that counts the table of a detail; a record with no predicate;   *)
(* one selected by its last byte, and one much shorter than that.           *)
MCForm == [
    Header |-> [Fixed(1, h, 2) EXCEPT !.counts = 2],
    Detail |-> [Fixed(1, d, 1) EXCEPT !.table = TRUE, !.most = 2],
    Line   |-> Fixed(0, 0, 2),
    Wide   |-> Fixed(3, h, 3),
    Narrow |-> Fixed(1, d, 1)]

MCRecordType == DOMAIN MCForm

Move(from, R, to) == [from |-> from, record |-> R, to |-> to]
Walk(transitions, accepting) ==
    [transitions |-> transitions, accepting |-> accepting, start |-> 0]

MCLayouts == {
    Walk(<<Move(0, "Header", 1), Move(1, "Header", 1), Move(1, "Detail", 1)>>, {1}),
    Walk(<<Move(0, "Line", 0)>>, {0}),
    Walk(<<Move(0, "Wide", 1), Move(1, "Narrow", 2)>>, {1, 2})}

MCValues == [
    Header |-> {<<h, 241>>, <<h, 242>>},
    Detail |-> {<<d, Lf>>, <<d, d, Lf>>, <<d, Cr, Lf>>},
    Line   |-> {<<Cr, Lf>>, <<0, 6>>, <<Lf, h>>},
    Wide   |-> {<<d, Lf, h>>},
    Narrow |-> {<<d>>}]

Framed(how, delimiter, segment) == [how |-> how, delimiter |-> delimiter, segment |-> segment]

MCFramings == {
    Framed("unframed", <<>>, 0), Framed("word", <<>>, 0), Framed("segmented", <<>>, 5),
    Framed("terminator", <<Cr, Lf>>, 0), Framed("optional", <<Lf>>, 0), Framed("separator", <<Cr, Lf>>, 0)}

MCDamages == {0, Lf, d, 241, 243}

=============================================================================
