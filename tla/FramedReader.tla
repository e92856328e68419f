---------------------------- MODULE FramedReader ----------------------------
(***************************************************************************)
(* Reader.Next over the bytes of a file that has ended: the framing in      *)
(* front of a record, the transition its bytes select, the record to the    *)
(* end of its extent, and the framing behind it                            *)
(* (cmd/cpybkc-gen-go/reader.go).  The caller calls until it is told        *)
(* io.EOF or a fault.                                                      *)
(***************************************************************************)
EXTENDS Framing

VARIABLES
    pos,              \* how many of them have been consumed
    phase,            \* the step of Next
    rstate, rcount,   \* where in the automaton the read is, and the register
    rfirst,           \* whether the next record is the first (separator)
    look,             \* the bytes a predicate is evaluated against
    short,            \* whether the input ran out before that window was full
    data,             \* the record, where the framing states its length
    taken,            \* the transition selected, and the bytes it admitted
    got,              \* the records handed back, and where each one's framing began
    said              \* what Next said last

reader == <<pos, phase, rstate, rcount, rfirst, look, short, data, taken, got, said>>

Faults == {"cut", "undescribed", "disagrees", "malformed", "count"}

NothingTaken == [record |-> "none", to |-> 0, raw |-> <<>>, at |-> 0]

ReaderInit ==
    /\ pos = 0
    /\ phase = "boundary"
    /\ rstate = layout.start
    /\ rcount = Unbound
    /\ rfirst = TRUE
    /\ look = <<>>
    /\ short = FALSE
    /\ data = <<>>
    /\ taken = NothingTaken
    /\ got = <<>>
    /\ said = "nothing"

Left == Len(disk) - pos

Ahead(n) == SubSeq(disk, pos + 1, pos + IF n < Left THEN n ELSE Left)

Ends(what) ==
    /\ said' = what
    /\ phase' = "over"
    /\ UNCHANGED <<pos, rstate, rcount, rfirst, look, short, data, taken, got>>

(* The end of the input is tested at a record boundary and nowhere else, and *)
(* is the end of the file only where the state accepts.                     *)
EndOfInput ==
    /\ phase = "boundary"
    /\ Left = 0
    /\ Ends(IF rstate \in layout.accepting THEN "eof" ELSE "cut")

(* The framing in front of the next record is taken first. *)
AtRecord ==
    /\ phase = "boundary"
    /\ Left > 0
    /\ phase' = "leading"
    /\ data' = <<>>
    /\ taken' = [NothingTaken EXCEPT !.at = pos]
    /\ UNCHANGED <<pos, rstate, rcount, rfirst, look, short, got, said>>

Leading(how) == phase = "leading" /\ framing.how = how

(* A word that says what cannot be, or more than there is. *)
BadWord ==
    \/ Left < DescriptorWidth /\ Ends("cut")
    \/ /\ Left >= DescriptorWidth
       /\ LET stated == Stated(Ahead(DescriptorWidth))
          IN  \/ stated < DescriptorWidth /\ Ends("disagrees")
              \/ stated >= DescriptorWidth /\ stated > Left /\ Ends("cut")

(* The bytes a good word states, behind what of the record is in hand. *)
GoodWord == Left >= DescriptorWidth /\ Stated(Ahead(DescriptorWidth)) \in DescriptorWidth .. Left

Filled ==
    LET stated == Stated(Ahead(DescriptorWidth))
    IN  data \o SubSeq(disk, pos + DescriptorWidth + 1, pos + stated)

Bounds(bytes) ==
    /\ look' = bytes
    /\ phase' = "selecting"
    /\ UNCHANGED <<rstate, rcount, rfirst, short, taken, got, said>>

LeadingWord ==
    /\ Leading("word")
    /\ \/ BadWord
       \/ /\ GoodWord
          /\ data' = Filled
          /\ pos' = pos + Stated(Ahead(DescriptorWidth))
          /\ Bounds(Filled)

(* What a segment control code says of a segment: whether another follows,   *)
(* and whether one came before it.                                         *)
Opens(code) == code \in {0, 1}
Closes(code) == code \in {0, 2}

(* A segment closes the record, or is followed by another. *)
LeadingSegment ==
    /\ Leading("segmented")
    /\ LET code == Ahead(DescriptorWidth)[3]
           began == data # <<>>
       IN  \/ BadWord
           \/ /\ GoodWord
              /\ code \notin 0 .. 3 \/ began = Opens(code)
              /\ Ends("disagrees")
           \/ /\ GoodWord
              /\ code \in 0 .. 3 /\ began # Opens(code)
              /\ data' = Filled
              /\ pos' = pos + Stated(Ahead(DescriptorWidth))
              /\ IF Closes(code)
                   THEN Bounds(Filled)
                   ELSE UNCHANGED <<phase, look, rstate, rcount, rfirst, short, taken, got, said>>

(* The window a predicate reads where nothing states the record's length.    *)
Window(at) ==
    /\ look' = SubSeq(disk, at + 1, IF at + Lookahead(layout) < Len(disk)
                                      THEN at + Lookahead(layout) ELSE Len(disk))
    /\ short' = (Len(disk) - at < Lookahead(layout))
    /\ pos' = at
    /\ phase' = "selecting"
    /\ UNCHANGED <<rstate, rcount, data, taken, got, said>>

LeadingNothing ==
    /\ phase = "leading"
    /\ framing.how \in {"unframed", "terminator", "optional"}
    /\ Window(pos)
    /\ UNCHANGED rfirst

DelimiterHere == Ahead(Len(framing.delimiter)) = framing.delimiter

(* Why the delimiter is not there, as expect says it. *)
NoDelimiter ==
    /\ ~ DelimiterHere
    /\ Ends(IF Left < Len(framing.delimiter) THEN "cut" ELSE "disagrees")

(* A separator stands in front of every record but the first, and announces  *)
(* one.                                                                    *)
LeadingSeparator ==
    /\ Leading("separator")
    /\ \/ /\ rfirst
          /\ rfirst' = FALSE
          /\ Window(pos)
       \/ ~ rfirst /\ NoDelimiter
       \/ ~ rfirst /\ DelimiterHere /\ Left = Len(framing.delimiter) /\ Ends("cut")
       \/ /\ ~ rfirst /\ DelimiterHere /\ Left > Len(framing.delimiter)
          /\ rfirst' = FALSE
          /\ Window(pos + Len(framing.delimiter))

Matching == {i \in Leaving(layout, rstate) : Matches(layout.transitions[i].record, look)}

(* A record that nothing matches, once the window is known to be whole. *)
Undescribed ==
    /\ phase = "selecting"
    /\ Matching = {}
    /\ Ends(IF short THEN "cut" ELSE "undescribed")

(* The register has to hold a count that the copybook allows. *)
Sized(R) == Form[R].table => rcount \in Form[R].least .. Form[R].most

Select ==
    /\ phase = "selecting"
    /\ \E i \in Matching :
          LET t == layout.transitions[i] IN
          /\ \A j \in Matching : i <= j
          /\ IF Sized(t.record)
               THEN /\ taken' = [taken EXCEPT !.record = t.record, !.to = t.to]
                    /\ phase' = "admitting"
                    /\ UNCHANGED <<pos, rstate, rcount, rfirst, look, short, data, got, said>>
               ELSE Ends("count")

Wanted == Extent(taken.record, rcount)

(* Mutant: the extent not checked against the length the framing states. *)
AgreesAtLeast == Len(data) >= Wanted

(* The extent of the record is all the framing states of it. *)
Agrees == Len(data) = Wanted

Admitted(raw, at) ==
    /\ taken' = [taken EXCEPT !.raw = raw]
    /\ pos' = at
    /\ phase' = "trailing"
    /\ UNCHANGED <<rstate, rcount, rfirst, look, short, data, got, said>>

(* The record is decoded out of the bytes in hand, ... *)
AdmitBounded ==
    /\ phase = "admitting"
    /\ Bounded(framing)
    /\ LET raw == SubSeq(data, 1, Wanted)
       IN  \/ Len(data) < Wanted /\ Ends("disagrees")
           \/ Len(data) >= Wanted /\ ~ Decodes(taken.record, raw) /\ Ends("malformed")
           \/ Len(data) >= Wanted /\ Decodes(taken.record, raw) /\ ~ Agrees /\ Ends("disagrees")
           \/ Len(data) >= Wanted /\ Decodes(taken.record, raw) /\ Agrees /\ Admitted(raw, pos)

(* ... or drawn off the input, and never a byte more than its extent. *)
AdmitStreamed ==
    /\ phase = "admitting"
    /\ ~ Bounded(framing)
    /\ \/ Left < Wanted /\ Ends("cut")
       \/ Left >= Wanted /\ ~ Decodes(taken.record, Ahead(Wanted)) /\ Ends("malformed")
       \/ /\ Left >= Wanted /\ Decodes(taken.record, Ahead(Wanted))
          /\ Admitted(Ahead(Wanted), pos + Wanted)

(* A file that ends at a record takes the terminator for written. *)
TerminatorMissed == framing.how \in {"terminator", "optional"} /\ Left = 0

(* Only an optional terminator may be missing, and only at the end. *)
NoneNeeded == framing.how = "optional" /\ Left = 0

Terminated == framing.how \in {"terminator", "optional"} /\ ~ NoneNeeded

(* The framing behind the record, its bindings, and the state it leads to. *)
Trailing ==
    /\ phase = "trailing"
    /\ \/ Terminated /\ NoDelimiter
       \/ /\ Terminated => DelimiterHere
          /\ pos' = IF Terminated THEN pos + Len(framing.delimiter) ELSE pos
          /\ rstate' = taken.to
          /\ rcount' = Bound(taken.record, taken.raw, rcount)
          /\ got' = Append(got, [record |-> taken.record, raw |-> taken.raw, at |-> taken.at])
          /\ said' = "record"
          /\ phase' = "boundary"
          /\ UNCHANGED <<rfirst, look, short, data, taken>>

Next ==
    \/ EndOfInput \/ AtRecord
    \/ LeadingWord \/ LeadingSegment \/ LeadingNothing \/ LeadingSeparator
    \/ Undescribed \/ Select
    \/ AdmitBounded \/ AdmitStreamed
    \/ Trailing

=============================================================================
