---------------------------- MODULE FramedWriter ----------------------------
(***************************************************************************)
(* Writer.Write and Writer.Close over a destination that may take part of a *)
(* write and fail (cmd/cpybkc-gen-go/writer.go).  Nothing is buffered: the  *)
(* framing and the record reach the file in calls of their own, and the     *)
(* writer's state moves only behind the last of them.                      *)
(***************************************************************************)
EXTENDS Framing

CONSTANTS
    Values,       \* for each record type, the records a caller writes
    MaxRecords,   \* the most records it writes
    MaxFailures   \* the most writes that fail

(* What the encoder of a record lays out: as many bytes as its copybook says *)
(* it has, and in a count the digits of one.                               *)
ASSUME ValuesEncoded ==
    \A R \in RecordType : \A raw \in Values[R] :
        /\ raw \in Seq(Byte)
        /\ Decodes(R, raw)
        /\ Form[R].table \/ Len(raw) = Form[R].fixed

VARIABLES
    wstate, wcount,   \* where in the automaton the write is, and the register
    first,            \* whether the next record is the first (separator)
    hand,             \* the record being emitted: its type, bytes and transition
    chunks,           \* the writes it still takes, [bytes, framing]
    sent,             \* the records written
    ends,             \* where in the file each of them ends
    framed,           \* the positions of the file that hold framing
    failures,         \* how many writes failed
    intact            \* the records written before the first that did, or all

writer == <<wstate, wcount, first, hand, chunks, sent, ends, framed, failures, intact>>

NoHand == [record |-> "none", raw |-> <<>>, to |-> 0]

WriterInit ==
    /\ wstate = layout.start
    /\ wcount = Unbound
    /\ first = TRUE
    /\ hand = NoHand
    /\ chunks = <<>>
    /\ sent = <<>>
    /\ ends = <<>>
    /\ framed = {}
    /\ failures = 0
    /\ intact = 0

Frame(bytes) == [bytes |-> bytes, framing |-> TRUE]
Data(bytes) == [bytes |-> bytes, framing |-> FALSE]

(* The pieces of a record, as few as the largest segment allows. *)
Most == framing.segment - DescriptorWidth

Pieces(raw) ==
    LET n == (Len(raw) + Most - 1) \div Most
    IN  [i \in 1 .. n |-> SubSeq(raw, (i - 1) * Most + 1,
                                 IF i * Most < Len(raw) THEN i * Most ELSE Len(raw))]

(* Mutant: the last piece takes the code of a middle one. *)
CodeOfLastForgotten(i, n) ==
    IF n = 1 THEN 0 ELSE IF i = 1 THEN 1 ELSE 3

(* The segment control code of piece i of n. *)
Code(i, n) ==
    IF n = 1 THEN 0 ELSE IF i = 1 THEN 1 ELSE IF i = n THEN 2 ELSE 3

Segmented(raw) ==
    LET pieces == Pieces(raw)
        n == Len(pieces)
    IN  [k \in 1 .. 2 * n |->
            LET i == (k + 1) \div 2
            IN  IF k % 2 = 1 THEN Frame(Word(Len(pieces[i]) + DescriptorWidth, Code(i, n)))
                             ELSE Data(pieces[i])]

(* The writes that put a record in the file with its framing around it. *)
Emission(raw) ==
    CASE framing.how = "unframed" -> <<Data(raw)>>
      [] framing.how = "word" -> <<Frame(Word(Len(raw) + DescriptorWidth, 0)), Data(raw)>>
      [] framing.how = "segmented" -> Segmented(raw)
      [] framing.how = "separator" ->
            IF first THEN <<Data(raw)>> ELSE <<Frame(framing.delimiter), Data(raw)>>
      [] OTHER -> <<Data(raw), Frame(framing.delimiter)>>

(* The table of a record holds as many as the register, and no more or less  *)
(* than its copybook allows.                                               *)
CountAgrees(R, raw) ==
    Form[R].table => /\ wcount # Unbound
                     /\ Len(raw) = Extent(R, wcount)
                     /\ wcount \in Form[R].least .. Form[R].most

(* A length that two bytes can state. *)
Statable(raw) == framing.how = "word" => Len(raw) + DescriptorWidth <= MaxStated

(* A record is laid out, the transition found, and its emission begun.  One  *)
(* that is refused changes nothing.                                        *)
Write == \E i \in Leaving(layout, wstate) : \E raw \in Values[layout.transitions[i].record] :
    LET t == layout.transitions[i] IN
    /\ ended = "open"
    /\ chunks = <<>>
    /\ Len(sent) + failures < MaxRecords
    /\ CountAgrees(t.record, raw)
    /\ Matches(t.record, raw)
    /\ Statable(raw)
    /\ hand' = [record |-> t.record, raw |-> raw, to |-> t.to]
    /\ chunks' = Emission(raw)
    /\ first' = FALSE
    /\ UNCHANGED <<config, disk, ended, wstate, wcount, sent, ends, framed, failures, intact>>

Put(chunk, n) ==
    /\ disk' = disk \o SubSeq(chunk.bytes, 1, n)
    /\ framed' = framed \cup IF chunk.framing THEN Len(disk) + 1 .. Len(disk) + n ELSE {}

(* One write of the emission.  Behind the last, the bindings are applied and *)
(* the writer moves.                                                       *)
PutChunk ==
    /\ ended = "open"
    /\ chunks # <<>>
    /\ Put(Head(chunks), Len(Head(chunks).bytes))
    /\ chunks' = Tail(chunks)
    /\ IF Len(chunks) = 1
         THEN /\ wstate' = hand.to
              /\ wcount' = Bound(hand.record, hand.raw, wcount)
              /\ sent' = Append(sent, [record |-> hand.record, raw |-> hand.raw])
              /\ ends' = Append(ends, Len(disk'))
              /\ intact' = IF failures = 0 THEN intact + 1 ELSE intact
         ELSE UNCHANGED <<wstate, wcount, sent, ends, intact>>
    /\ UNCHANGED <<config, ended, first, hand, failures>>

(* A write that fails leaves what it had taken, and the call of Write ends   *)
(* there: the writer is where it was before it.                            *)
PutFails ==
    /\ ended = "open"
    /\ chunks # <<>>
    /\ failures < MaxFailures
    /\ \E n \in 0 .. Len(Head(chunks).bytes) : Put(Head(chunks), n)
    /\ chunks' = <<>>
    /\ failures' = failures + 1
    /\ UNCHANGED <<config, ended, wstate, wcount, first, hand, sent, ends, intact>>

(* Close reports a state that does not accept. *)
Close ==
    /\ ended = "open"
    /\ chunks = <<>>
    /\ ended' = IF wstate \in layout.accepting THEN "closed" ELSE "abandoned"
    /\ UNCHANGED <<config, disk, writer>>

(* The caller leaves the file as it is, or dies. *)
Abandon ==
    /\ ended = "open"
    /\ ended' = "abandoned"
    /\ UNCHANGED <<config, disk, writer>>

=============================================================================
