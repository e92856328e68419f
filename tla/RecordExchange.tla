-------------------------- MODULE RecordExchange ---------------------------
(***************************************************************************)
(* The writer and the reader of one layout at the two ends of one file: the *)
(* reader may start while the file is being written, and lag behind it.     *)
(***************************************************************************)
EXTENDS RecordReader, RecordWriter

exchangeVars == <<layout, file, ended, reader, writer>>

ExchangeInit == StreamInit /\ ReaderInit /\ WriterInit

Reading == Next /\ UNCHANGED writer

Writing == (Write \/ Close) /\ UNCHANGED reader

Abandoned == Stop /\ UNCHANGED <<reader, writer>>

ExchangeNext == Reading \/ Writing \/ Abandoned

ExchangeSpec == ExchangeInit /\ [][ExchangeNext]_exchangeVars

-----------------------------------------------------------------------------

(* Every variable stays in its type: writer.go's Writer beside the Reader.   *)
ExchangeTypeOK ==
    /\ ReaderTypeOK
    /\ wstate \in A.states
    /\ DOMAIN wheld \subseteq A.registers
    /\ written \in Seq(RecordType)
    /\ Len(trail) = Len(file) + 1
    /\ Len(written) = Len(file)

(* The reader arrives where the writer went: after each record it is in the  *)
(* state the writer was in after writing it, holding what the writer held,   *)
(* and has handed back a record of the type that was written ("A writer     *)
(* walks the same automaton" in docs/ir/SPEC.md; rival.go).                 *)
ReaderFollowsWriter ==
    /\ trail[consumed + 1] = Point(state, held)
    /\ admitted = SubSeq(written, 1, consumed)

(* What a writer has written its reader reads without a fault, and to io.EOF *)
(* where Close found the file complete: the only fault it may report is that *)
(* a file its writer never closed is cut short (Writer.Close).              *)
WrittenIsReadable ==
    /\ said \in Faults => said = "truncated" /\ ended = "abandoned"
    /\ done /\ ended = "closed" => said = "eof"

(* Writer and reader together are the queue of RecordQueue: every call of    *)
(* Write puts a record in or nothing, every call of Next hands back the next *)
(* one or says how the file ended (Reader.Next, Writer.Write, Writer.Close). *)
Queue == INSTANCE RecordQueue WITH
    sent <- written, ending <- ended, delivered <- admitted, told <- said

DeliversInOrder == Queue!QueueSpec

=============================================================================
