----------------------------- MODULE FramedFile -----------------------------
(***************************************************************************)
(* A file from its writer to its reader: writes fail part of the way, the    *)
(* caller leaves the file there or writes on, the process dies between two   *)
(* writes, and a byte of the file that is left may be changed before it is   *)
(* read.  RecordStream takes a file for whole records; this is what that    *)
(* rests on.                                                               *)
(***************************************************************************)
EXTENDS FramedWriter, FramedReader

CONSTANTS
    Damages   \* the bytes that a damaged byte turns into

ASSUME DamagesAreBytes == Damages \subseteq Byte

VARIABLES
    damaged   \* the position of the byte that was changed, or 0

fileVars == <<config, disk, ended, writer, reader, damaged>>

FramedInit == FileInit /\ WriterInit /\ ReaderInit /\ damaged = 0

Writing ==
    /\ Write \/ PutChunk \/ PutFails \/ Close \/ Abandon
    /\ UNCHANGED <<reader, damaged>>

(* One byte changes on the way to the reader, in a file that was closed. *)
Damage ==
    /\ ended = "closed"
    /\ damaged = 0
    /\ phase = "boundary"
    /\ pos = 0
    /\ \E i \in DOMAIN disk : \E b \in Damages \ {disk[i]} :
          /\ disk' = [disk EXCEPT ![i] = b]
          /\ damaged' = i
    /\ UNCHANGED <<config, ended, writer, reader>>

Reading ==
    /\ ended # "open"
    /\ Next
    /\ UNCHANGED <<config, disk, ended, writer, damaged>>

FramedNext == Writing \/ Damage \/ Reading

FramedSpec == FramedInit /\ [][FramedNext]_fileVars

-----------------------------------------------------------------------------

Over == phase = "over"

EndOf(n) == IF n = 0 THEN 0 ELSE ends[n]

Record(i) == [record |-> got[i].record, raw |-> got[i].raw]

(* A length that is stated fits the bytes it is stated in.  Of a record the  *)
(* writer sees to that; of a segment nothing does: a max-segment above what  *)
(* two bytes hold is taken, and longer segments state what is left of their  *)
(* length (filer.framing and filer.emitEmit).                              *)
SegmentsStatable == framing.how = "segmented" => framing.segment <= MaxStated

(* The records written before anything went wrong. *)
Sound == {i \in 1 .. intact : damaged = 0 \/ ends[i] < damaged}

(* Whatever goes wrong behind them, the records written before it come back  *)
(* as they were written, however the file is framed and whatever bytes they  *)
(* are made of; and a file that was closed comes back whole (emit in         *)
(* writer.go against leading, admit and trailing in reader.go; "The extent   *)
(* governs" in docs/ir/SPEC.md).                                           *)
WrittenIsReadBack ==
    SegmentsStatable =>
        /\ \A i \in Sound \cap DOMAIN got : Record(i) = sent[i]
        /\ Over => Sound \subseteq DOMAIN got
        /\ Over /\ ended = "closed" /\ damaged = 0 /\ failures = 0
              => said = "eof" /\ Len(got) = Len(sent)

(* The caller wrote again after a write that failed. *)
WroteOn ==
    \/ failures > 1
    \/ failures = 1 /\ (chunks # <<>> \/ Len(sent) > intact)

(* How much the record in hand leaves in the file when nothing of it is      *)
(* missing, which under an optional terminator may be the terminator.       *)
WholeTails ==
    LET raw == Len(hand.raw)
        delimiter == Len(framing.delimiter)
    IN  CASE framing.how = "unframed" -> {raw}
          [] framing.how = "word" -> {DescriptorWidth + raw}
          [] framing.how = "segmented" -> {Len(Pieces(hand.raw)) * DescriptorWidth + raw}
          [] framing.how = "terminator" -> {raw + delimiter}
          [] framing.how = "optional" -> {raw, raw + delimiter}
          [] framing.how = "separator" -> {IF sent = <<>> THEN raw ELSE delimiter + raw}

(* A file left in the middle of a record is said to be cut short and nothing *)
(* else, by whichever step of Next meets its end: it is never complete, its  *)
(* last record never one the layout does not describe, and nothing but what  *)
(* was written ever comes out of it ("Reaching end of input anywhere from    *)
(* step 2 to step 6", docs/ir/SPEC.md).                                     *)
CutShortIsSaid ==
    SegmentsStatable /\ Over /\ damaged = 0 /\ ~ WroteOn =>
        LET tail == Len(disk) - EndOf(Len(sent))
            all  == [i \in DOMAIN got |-> Record(i)]
        IN  /\ said \in Faults => said = "cut"
            /\ said = "eof" =>
                  \/ tail = 0 /\ all = sent
                  \/ /\ tail \in WholeTails
                     /\ all = Append(sent, [record |-> hand.record, raw |-> hand.raw])

(* Where the framing states lengths, a byte of a record that changed cannot  *)
(* move another record: every record comes out of the frame it was put in,   *)
(* and fills it, so that a count that changed is reported at the record it   *)
(* sizes (admit, the framing checked against the extent).                   *)
DamageStaysInItsRecord ==
    SegmentsStatable /\ Bounded(framing) /\ failures = 0 /\ damaged \notin framed =>
        \A i \in DOMAIN got \cap DOMAIN sent :
            /\ got[i].at = EndOf(i - 1)
            /\ Len(got[i].raw) = Len(sent[i].raw)

=============================================================================
