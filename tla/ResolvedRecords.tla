-------------------------- MODULE ResolvedRecords --------------------------
(***************************************************************************)
(* What internal/resolve's records owe the copybook they came from: the      *)
(* bytes cobol-go laid out, less the occurrences a record's counts leave out. *)
(***************************************************************************)
EXTENDS RecordResolution
LOCAL INSTANCE SequencesExt

CONSTANTS Requests   \* copybooks with the options they are resolved under

VARIABLE calls       \* the calls of Resolve that have returned, and what they told

Call(s) == calls' = Append(calls, [asked |-> s, told |-> Resolve(s)])

Answered == ToSet(calls)
RecordsOf(x) == ToSet(x.told.records)

LegalCounts(record) ==
    LET most == Greatest({rep.max : rep \in Repetitions(record)})
    IN {counts \in [CountsOf(record) -> 0 .. most] : Admitted(record, counts)}

(***************************************************************************)
(* The bytes of one record, each by the item it is of: the item, the byte    *)
(* of it, and the occurrences of the tables around it.                       *)
(***************************************************************************)

Nobody == <<>>

(* Which alternative a redefine takes in one occurrence: by its schedule, or  *)
(* by bytes, which may say anything and here say one thing after another.     *)
Taking(alternatives, occurrence, turn) ==
    IF alternatives[1].by = "place"
    THEN CHOOSE k \in DOMAIN alternatives : occurrence \in ToSet(alternatives[k].at)
    ELSE 1 + ((occurrence + turn) % Len(alternatives))

(* By walking the record, as a consumer of the IR does.                     *)
RECURSIVE BytesOf(_, _, _)
BytesOf(node, occurrences, turn) ==
    LET once(occ) ==
            CASE node.kind = "field" -> [n \in 1 .. node.width |-> <<node.item, n, occ>>]
              [] node.kind = "slack" -> [n \in 1 .. node.width |-> Nobody]
              [] node.kind = "group" -> FlattenSeq([k \in DOMAIN node.members |-> BytesOf(node.members[k], occ, turn)])
              [] OTHER -> BytesOf(node.arms[Taking(node.arms, Last(occ), turn)].body, occ, turn)
    IN IF node.rep = Once THEN once(occurrences)
       ELSE FlattenSeq([k \in 1 .. node.rep.count |-> once(Append(occurrences, k))])

(* By the copybook's storage: every copy of an item the tables around it     *)
(* make, and the bytes no record with these counts and choices has.          *)
RECURSIVE Copies(_, _)
Copies(s, i) ==
    IF s.book[i].up = 0 THEN {[at |-> 0, occ |-> <<>>]}
    ELSE LET inside == s.laid[i].offset - s.laid[s.book[i].up].offset
         IN {[at |-> p.at + inside + (k - 1) * s.laid[i].stride,
              occ |-> IF Repeats(s, i) THEN Append(p.occ, k) ELSE p.occ] :
                p \in Copies(s, s.book[i].up), k \in 1 .. s.book[i].max}

OneOfMany(s, i) == \E j \in Entries(s.book) \ {i} :
    s.book[j].up = s.book[i].up /\ RedefineBase(s.book, j) = RedefineBase(s.book, i)

TablesAround(s, i) == Cardinality({g \in ToSet(Tail(Upward(s.book, i))) : Repeats(s, g)})

Taken(s, record, turn, i, copy) ==
    \A x \in ToSet(Upward(s.book, i)) :
        OneOfMany(s, x) =>
            IF InTable(s, x)
            THEN LET word == s.word[RedefineBase(s.book, x)]
                 IN IF Len(word) = 1 THEN word[1].item = x
                    ELSE word[Taking(word, copy.occ[TablesAround(s, x)], turn)].item = x
            ELSE x \in ToSet(record.alternatives)

Holders(s, record, turn) ==
    {<<i, copy>> \in UNION {{i} \X Copies(s, i) : i \in Entries(s.book)} : Taken(s, record, turn, i, copy)}

Spread(at, width) == at .. at + width - 1

StorageOf(s, record, counts, turn) ==
    LET copies  == Holders(s, record, turn)
        owned   == {h \in copies : ~IsGroup(s.book, h[1])}
        beyond  == {h \in copies : /\ Slides(s)
                                   /\ s.book[h[1]].on # 0
                                   /\ Last(h[2].occ) > counts[s.book[h[1]].on]}
        absent  == UNION {Spread(h[2].at, s.laid[h[1]].stride) : h \in beyond}
        owner(n) == {h \in owned : n \in Spread(h[2].at, s.laid[h[1]].length)}
        named(n) == IF owner(n) = {} THEN Nobody
                    ELSE LET h == CHOOSE h \in owner(n) : TRUE IN <<h[1], n - h[2].at + 1, h[2].occ>>
        present == SelectSeq([n \in 1 .. s.laid[1].total |-> n - 1], LAMBDA n : n \notin absent)
    IN [k \in DOMAIN present |-> named(present[k])]

(***************************************************************************)
(* Properties.                                                             *)
(***************************************************************************)

(* Every byte of a record of any legal counts is the byte of the item the    *)
(* copybook puts there, in every occurrence and every alternative: what is    *)
(* left over is slack and nothing is left out, behind the last item only a    *)
(* dataset's padding, and the sum over widths finds each item (group,          *)
(* cluster, variant, pad, armBody, elementary and mergeSlack in               *)
(* internal/resolve/resolve.go; Record.At and position).                     *)
RecordsCoverTheirStorage ==
    \A x \in Answered : \A record \in RecordsOf(x) : \A counts \in LegalCounts(record) : \A turn \in {0, 1} :
        LET standing == RecordAt(record, counts)
            bytes    == BytesOf(standing.root, <<>>, turn)
            storage  == StorageOf(x.asked, record, counts, turn)
        IN /\ Len(bytes) = RecordExtent(standing)
           /\ Len(storage) <= Len(bytes)
           /\ SubSeq(bytes, 1, Len(storage)) = storage
           /\ \A n \in Len(storage) + 1 .. Len(bytes) : bytes[n] = Nobody
           /\ \A n \in DOMAIN bytes :
                  (bytes[n] # Nobody /\ bytes[n][2] = 1 /\ ToSet(bytes[n][3]) \subseteq {1})
                      => Positions(standing.root, bytes[n][1], 0) = {n - 1}

(* A consumer can always decode a count before it needs it: in every record   *)
(* assembly accepts, some value is legal for all the tables a count sizes,    *)
(* and whatever the counts, each stands at one byte, ahead of its tables      *)
(* (checkCounts and checkSharedBounds in internal/resolve/odo.go, and         *)
(* repetition in internal/assemble).                                        *)
CountsCanBeRead ==
    \A x \in Answered : \A record \in RecordsOf(x) :
        Assembled(record) =>
            /\ LegalCounts(record) # {}
            /\ \A counts \in LegalCounts(record) :
                   LET root == RecordAt(record, counts).root
                   IN \A table \in {node \in ToSet(Walk(root)) : node.rep.on # 0} :
                          /\ Positions(root, table.rep.on, 0) = Positions(record.root, table.rep.on, 0)
                          /\ \A member \in ToSet(Walk(table)), at \in Positions(root, table.rep.on, 0) :
                                 \A first \in Positions(root, member.item, 0) : at < first

(* init and a run of cpybkc read one copybook alike: Describe's combinations  *)
(* are the records Resolve returns, in their order, and where no alternation  *)
(* is marked as the reading's to decide, init's answer, given without one,    *)
(* holds under either (describe in internal/resolve/shape.go).               *)
OneReadingOfACopybook ==
    \A x \in Answered :
        LET s      == x.asked
            named  == Combinations(s, 1)
            marked == \E c \in Alternations(s) : ReadingDecides(s, c[1])
            unread == Combinations(ReadAs(s, "unstated"), 1)
        IN /\ x.told.faults = {} =>
                  [k \in DOMAIN named |-> ToSet(named[k])]
                      = [k \in DOMAIN x.told.records |-> ToSet(x.told.records[k].alternatives)]
           /\ ~marked => unread = named

(* A record type of a fixed-length dataset is as long as its records,         *)
(* whatever it carries, and of no other dataset longer than the longest       *)
(* (frame and variableTerm in internal/resolve/resolve.go).                  *)
EveryRecordFitsItsDataset ==
    \A x \in Answered : \A record \in RecordsOf(x) : \A counts \in LegalCounts(record) :
        LET framing == x.asked.framing
            extent  == RecordExtent(RecordAt(record, counts))
        IN /\ framing.kind = "unframed" => extent = RecordExtent(record)
           /\ (framing.kind = "unframed" /\ framing.lrecl # 0) => extent = framing.lrecl
           /\ (framing.kind = "framed" /\ framing.lrecl # 0) => extent <= framing.lrecl

=============================================================================
