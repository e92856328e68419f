---------------------------- MODULE RecordQueue ----------------------------
(***************************************************************************)
(* What a writer and a reader of one layout promise between them, with no   *)
(* automaton and no register: the records come back in the order and as the *)
(* types they were written, none of them refused, and the end of a file     *)
(* that was closed is the end of the records.                               *)
(***************************************************************************)
EXTENDS Naturals, Sequences

CONSTANTS RecordType

VARIABLES
    sent,       \* the record types written, in order
    ending,     \* "open", "closed" or "abandoned"
    delivered,  \* the record types handed back, in order
    told        \* what the reader was last told

queue == <<sent, ending, delivered, told>>

QueueInit == sent = <<>> /\ ending = "open" /\ delivered = <<>> /\ told = "nothing"

Send ==
    /\ ending = "open"
    /\ \E R \in RecordType : sent' = Append(sent, R)
    /\ UNCHANGED <<ending, delivered, told>>

Finish ==
    /\ ending = "open"
    /\ ending' \in {"closed", "abandoned"}
    /\ UNCHANGED <<sent, delivered, told>>

Deliver ==
    /\ Len(delivered) < Len(sent)
    /\ delivered' = Append(delivered, sent[Len(delivered) + 1])
    /\ told' = "record"
    /\ UNCHANGED <<sent, ending>>

(* A file its writer closed ends complete; one it left may be cut short.    *)
Report ==
    /\ delivered = sent
    /\ ending # "open"
    /\ told' \in IF ending = "closed" THEN {"eof"} ELSE {"eof", "truncated"}
    /\ UNCHANGED <<sent, ending, delivered>>

QueueSpec == QueueInit /\ [][Send \/ Finish \/ Deliver \/ Report]_queue

=============================================================================
