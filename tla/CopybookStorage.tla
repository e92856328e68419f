-------------------------- MODULE CopybookStorage --------------------------
(***************************************************************************)
(* What github.com/Zaba505/cobol-go computes of a copybook record before    *)
(* internal/resolve is handed it, as the callers in src/ rely on it.        *)
(*                                                                         *)
(* A copybook is the sequence of its entries in source order, the level-01   *)
(* or level-77 record first.  An entry is                                  *)
(*   up     the group holding it, 0 for the record                         *)
(*   width  the bytes of an elementary item, 0 for a group                  *)
(*   align  the boundary SYNCHRONIZED puts it on, 1 without the clause      *)
(*   min, max   its OCCURS bounds, both 1 without the clause                *)
(*   on     the entry its DEPENDING ON names, or 0                          *)
(*   over   the entry its REDEFINES names, or 0                             *)
(* and an entry is named by its place in the sequence.  A group starts where  *)
(* the item ahead of it ends: no copybook of the menu holds one whose first   *)
(* item is aligned, where compilers differ about whose the gap is.            *)
(***************************************************************************)
EXTENDS Integers, Sequences, FiniteSets, TLC
LOCAL INSTANCE SequencesExt

Entries(b) == DOMAIN b
HeldBy(b, i) == SelectSeq([j \in Entries(b) |-> j], LAMBDA j : b[j].up = i)
IsGroup(b, i) == b[i].width = 0
GreaterOf(m, n) == IF m > n THEN m ELSE n
LesserOf(m, n) == IF m < n THEN m ELSE n
RoundUp(n, boundary) == ((n + boundary - 1) \div boundary) * boundary
Greatest(numbers) == CHOOSE n \in numbers : \A m \in numbers : m <= n
Total(seq) == LET sum[n \in 0 .. Len(seq)] == IF n = 0 THEN 0 ELSE sum[n - 1] + seq[n] IN sum[Len(seq)]

(* The item a chain of REDEFINES starts from.                              *)
RedefineBase(b, i) ==
    LET base[j \in Entries(b)] == IF b[j].over = 0 THEN j ELSE base[b[j].over] IN base[i]

(* The items above i, itself first.                                        *)
Upward(b, i) ==
    LET path[j \in 0 .. Len(b)] == IF j = 0 THEN <<>> ELSE <<j>> \o path[b[j].up] IN path[i]

(* The widest boundary at or below an entry, which a table's stride keeps.  *)
Boundary(b, i) ==
    LET under[j \in Entries(b)] ==
            Greatest({b[j].align} \cup {under[k] : k \in ToSet(HeldBy(b, j))})
    IN under[i]

(* An entry laid out at an offset with everything under it: the first       *)
(* occurrence's offset and length, the distance to the next, and the bytes   *)
(* of all of them.                                                         *)
RECURSIVE PlaceAll(_, _, _)
Place(b, i, at) ==
    LET under  == PlaceAll(b, HeldBy(b, i), [end |-> at, cells |-> <<>>])
        length == IF IsGroup(b, i) THEN under.end - at ELSE b[i].width
        stride == IF b[i].max > 1 THEN RoundUp(length, Boundary(b, i)) ELSE length
    IN under.cells @@ (i :> [offset |-> at, length |-> length, stride |-> stride, total |-> stride * b[i].max])

PlaceAll(b, entries, laid) ==
    IF entries = <<>> THEN laid
    ELSE LET i     == Head(entries)
             start == IF b[i].over # 0 THEN laid.cells[b[i].over].offset
                      ELSE IF IsGroup(b, i) THEN laid.end ELSE RoundUp(laid.end, b[i].align)
             cells == Place(b, i, start)
         IN PlaceAll(b, Tail(entries),
                     [end |-> GreaterOf(laid.end, start + cells[i].total), cells |-> laid.cells @@ cells])

NewLayout(b) == Place(b, 1, 0)

(* A copybook cobol-go refuses: a count behind the table it sizes, and,      *)
(* unless the dialect is lenient, a redefinition longer than what it          *)
(* redefines.                                                              *)
Buildable(b, lenient) ==
    LET laid == NewLayout(b)
    IN \A i \in Entries(b) :
           /\ b[i].on # 0 => b[i].on < i
           /\ b[i].over # 0 /\ ~lenient => laid[i].total <= laid[b[i].over].total

=============================================================================
