-------------------------- MODULE RecordResolution -------------------------
(***************************************************************************)
(* internal/resolve: Resolve, which makes one record out of each combination *)
(* of a copybook's alternatives, a tree of fields, groups, variants and      *)
(* slack that carries widths and no offset; Describe, which counts the        *)
(* combinations before a layout exists; and Record.At and Record.Position,    *)
(* by which a consumer finds an item in the bytes of one record.             *)
(*                                                                         *)
(* A request s is Options and the copybook: book, laid (what cobol-go says),  *)
(* reading, word (the layout's word on each redefine inside a table: the      *)
(* alternatives in order, each with what selects it), and framing.  The       *)
(* encoding of an item and what a predicate tests are left out, and with      *)
(* them the faults that are about those alone.                             *)
(***************************************************************************)
EXTENDS CopybookStorage
LOCAL INSTANCE SequencesExt

Slides(s) == s.reading = "odoslide"

(***************************************************************************)
(* The question every site asks: is this item a table?                      *)
(***************************************************************************)

Repeats(s, i) == s.book[i].max > 1 \/ (s.book[i].on # 0 /\ Slides(s))

(* The innermost repeating group above an item, 0 where there is none.      *)
EnclosingTable(s, i) ==
    LET tables == SelectSeq(Tail(Upward(s.book, i)), LAMBDA g : Repeats(s, g))
    IN IF tables = <<>> THEN 0 ELSE Head(tables)

InTable(s, i) == EnclosingTable(s, i) # 0

Once == [count |-> 1, min |-> 1, max |-> 1, on |-> 0]

RepetitionOf(s, i) ==
    LET e == s.book[i]
    IN IF ~Repeats(s, i) THEN Once
       ELSE IF e.on = 0 \/ ~Slides(s) THEN [count |-> e.max, min |-> e.max, max |-> e.max, on |-> 0]
       ELSE [count |-> e.max, min |-> e.min, max |-> e.max, on |-> e.on]

(* Tables whose count is read out of the record, in source order.           *)
DependingTables(s) == SelectSeq([i \in Entries(s.book) |-> i], LAMBDA i : s.book[i].on # 0)

(***************************************************************************)
(* Nodes.  No node carries an offset, and a group and a variant no width.    *)
(***************************************************************************)

Leaf(kind, i, width) == [kind |-> kind, item |-> i, width |-> width, members |-> <<>>, arms |-> <<>>, rep |-> Once]
FieldNode(i, width) == Leaf("field", i, width)
SlackNode(width) == Leaf("slack", 0, width)
GroupNode(i, members) == [Leaf("group", i, 0) EXCEPT !.members = members]
VariantNode(arms) == [Leaf("variant", 0, 0) EXCEPT !.arms = arms]

RECURSIVE WidthOf(_)
ExtentOf(node) == WidthOf(node) * node.rep.count
WidthOf(node) ==
    CASE node.kind = "group" -> Total([k \in DOMAIN node.members |-> ExtentOf(node.members[k])])
      [] node.kind = "variant" -> IF node.arms = <<>> THEN 0 ELSE ExtentOf(node.arms[1].body)
      [] OTHER -> node.width

(* Every node at or under one, in containment order.                        *)
RECURSIVE Walk(_)
Walk(node) ==
    <<node>> \o FlattenSeq([k \in DOMAIN node.members |-> Walk(node.members[k])])
             \o FlattenSeq([k \in DOMAIN node.arms |-> Walk(node.arms[k].body)])

RECURSIVE MergeSlack(_)
MergeSlack(nodes) ==
    IF nodes = <<>> THEN <<>>
    ELSE LET merged == MergeSlack(Front(nodes))
             node   == Last(nodes)
         IN IF node.kind = "slack" /\ merged # <<>> /\ Last(merged).kind = "slack"
            THEN Append(Front(merged), SlackNode(Last(merged).width + node.width))
            ELSE Append(merged, node)

SlackOf(gap) == IF gap > 0 THEN <<SlackNode(gap)>> ELSE <<>>

Pad(node, extent) == <<node>> \o SlackOf(extent - ExtentOf(node))

ArmBody(node, extent) ==
    LET gap == extent - ExtentOf(node)
    IN IF gap <= 0 THEN node
       ELSE IF node.kind = "group" /\ node.rep = Once
       THEN [node EXCEPT !.members = MergeSlack(Append(@, SlackNode(gap)))]
       ELSE GroupNode(0, <<node, SlackNode(gap)>>)

(***************************************************************************)
(* Clusters: an item and the items redefining it, one run of storage.        *)
(***************************************************************************)

ClustersOf(s, i) ==
    LET here  == HeldBy(s.book, i)
        bases == SelectSeq(here, LAMBDA j : s.book[j].over = 0)
    IN [k \in DOMAIN bases |-> SelectSeq(here, LAMBDA j : RedefineBase(s.book, j) = bases[k])]

StartOf(s, c) == s.laid[c[1]].offset
ClusterExtent(s, c) == Greatest({s.laid[i].total : i \in ToSet(c)})

(* The layout's word on a redefine: the alternatives in order, <<>> where    *)
(* it says none.  An alternative is [item, by, at]: the member it names, 0    *)
(* where the copybook has no such name; "bytes", "place" or "nothing"; and    *)
(* the occurrences of one selected by place.                                *)
Spoken(s, c) == c[1] \in DOMAIN s.word
WordOn(s, c) == s.word[c[1]]
ByPosition(word) == \E k \in DOMAIN word : word[k].by = "place"
Chosen(word) == Len(word) > 1

(* The first entry at or under one whose count is read out of the record.   *)
HoldsACount(s, i) == Slides(s) /\ \E j \in Entries(s.book) : s.book[j].on # 0 /\ Contains(Upward(s.book, j), i)

(***************************************************************************)
(* The nodes an item resolves to.                                          *)
(***************************************************************************)

(* Padding between the occurrences of an elementary item has to be held by   *)
(* a group, which then is what repeats.                                     *)
ElementaryUnpadded(s, i) == [FieldNode(i, s.laid[i].length) EXCEPT !.rep = RepetitionOf(s, i)]

Elementary(s, i) ==
    LET field == FieldNode(i, s.laid[i].length)
        rep   == RepetitionOf(s, i)
    IN IF s.laid[i].stride = s.laid[i].length THEN [field EXCEPT !.rep = rep]
       ELSE [GroupNode(0, <<field, SlackNode(s.laid[i].stride - s.laid[i].length)>>) EXCEPT !.rep = rep]

RunOf(nodes, chosen) == [nodes |-> nodes, chosen |-> chosen]

(* Each list so far, a gap, and each choice of the next cluster.            *)
Crossed(lists, gap, choices) ==
    FlattenSeq([l \in DOMAIN lists |->
        [c \in DOMAIN choices |->
            RunOf(lists[l].nodes \o SlackOf(gap) \o choices[c].nodes, lists[l].chosen \o choices[c].chosen)]])

RECURSIVE Options(_, _)
First(s, i) == Options(s, i)[1].nodes[1]

Variant(s, c) ==
    LET word   == WordOn(s, c)
        extent == s.laid[c[1]].total
        arm(a) == [item |-> a.item, by |-> a.by, at |-> a.at, body |-> ArmBody(First(s, a.item), extent)]
    IN IF ~Chosen(word) THEN RunOf(Pad(First(s, word[1].item), ClusterExtent(s, c)), <<>>)
       ELSE RunOf(Pad(VariantNode([k \in DOMAIN word |-> arm(word[k])]), ClusterExtent(s, c)), <<>>)

(* Outside a table every alternative becomes a record, inside one none.     *)
Cluster(s, c) ==
    IF Len(c) = 1 THEN Options(s, c[1])
    ELSE IF InTable(s, c[1]) THEN <<Variant(s, c)>>
    ELSE FlattenSeq([m \in DOMAIN c |->
            LET under == Options(s, c[m])
            IN [k \in DOMAIN under |->
                   RunOf(Pad(under[k].nodes[1], ClusterExtent(s, c)), Append(under[k].chosen, c[m]))]])

Group(s, i) ==
    LET clusters == ClustersOf(s, i)
        first(k) == StartOf(s, clusters[k])
        behind(k) == IF k = 0 THEN s.laid[i].offset ELSE first(k) + ClusterExtent(s, clusters[k])
        lists[k \in 0 .. Len(clusters)] ==
            IF k = 0 THEN <<RunOf(<<>>, <<>>)>>
            ELSE Crossed(lists[k - 1], first(k) - behind(k - 1), Cluster(s, clusters[k]))
        every    == lists[Len(clusters)]
        trailing == s.laid[i].offset + s.laid[i].stride - behind(Len(clusters))
        node(nodes) == [GroupNode(i, MergeSlack(nodes \o SlackOf(trailing))) EXCEPT !.rep = RepetitionOf(s, i)]
    IN [k \in DOMAIN every |-> RunOf(<<node(every[k].nodes)>>, every[k].chosen)]

Options(s, i) == IF IsGroup(s.book, i) THEN Group(s, i) ELSE <<RunOf(<<Elementary(s, i)>>, <<>>)>>

(***************************************************************************)
(* What is refused.                                                        *)
(***************************************************************************)

(* A scheduled variant covers 1..M once, for M the declared maximum of the   *)
(* table whichever way it is read.                                         *)
CoverageFaults(word, maximum) ==
    LET named == FlattenSeq([k \in DOMAIN word |-> word[k].at])
        times(n) == Len(SelectSeq(named, LAMBDA m : m = n))
    IN {"EmptySchedule" : k \in {k \in DOMAIN word : word[k].at = <<>>}}
       \cup {"ScheduleRange" : n \in {n \in ToSet(named) : n < 1 \/ n > maximum}}
       \cup {"ScheduleOverlap" : n \in {n \in 1 .. maximum : times(n) > 1}}
       \cup {"ScheduleCoverage" : n \in {n \in 1 .. maximum : times(n) = 0}}

SelectorFaults(s, c) ==
    LET word  == WordOn(s, c)
        mixed == ByPosition(word) /\ \E k \in DOMAIN word : word[k].by = "bytes"
    IN IF ~Chosen(word) THEN {}
       ELSE IF mixed THEN {"MixedSelector"}
       ELSE IF ByPosition(word) THEN CoverageFaults(word, s.book[EnclosingTable(s, c[1])].max)
       ELSE {}

ArmFaults(s, c, a) ==
    IF a.item \notin ToSet(c) THEN {"UnknownAlternative"}
    ELSE IF s.laid[a.item].total > s.laid[c[1]].total THEN {"ArmExtent"}
    ELSE IF HoldsACount(s, a.item) THEN {"ArmVariableCount"}
    ELSE IF Chosen(WordOn(s, c)) /\ ~ByPosition(WordOn(s, c)) /\ a.by # "bytes" THEN {"ArmPredicate"}
    ELSE {}

(* The walk goes on into the arms that stand, and into the redefined item    *)
(* where none does.                                                        *)
RECURSIVE ItemFaults(_, _)
ClusterFaults(s, c) ==
    LET word  == WordOn(s, c)
        arms  == {word[k] : k \in DOMAIN word}
        told  == SelectorFaults(s, c) \cup UNION {ArmFaults(s, c, a) : a \in arms}
        stand == {a.item : a \in {a \in arms : ArmFaults(s, c, a) = {}}}
        base  == IF told = {} THEN {} ELSE {c[1]}
    IN IF Len(c) = 1 \/ ~InTable(s, c[1]) THEN UNION {ItemFaults(s, i) : i \in ToSet(c)}
       ELSE IF ~Spoken(s, c) THEN {"UndiscriminatedRedefine"} \cup ItemFaults(s, c[1])
       ELSE IF word = <<>> THEN {"ArmCount"} \cup ItemFaults(s, c[1])
       ELSE told \cup UNION {ItemFaults(s, i) : i \in stand \cup base}

ItemFaults(s, i) == UNION {ClusterFaults(s, c) : c \in ToSet(ClustersOf(s, i))}

(***************************************************************************)
(* Counts, under the sliding reading alone.                                 *)
(***************************************************************************)

(* An item that varies and lies wholly ahead of the count.                  *)
VariableAhead(s, count) ==
    {i \in Entries(s.book) :
        s.book[i].on # 0 /\ s.laid[i].offset + s.laid[i].total <= s.laid[count].offset}

(* Two descriptions of one run of storage, at whatever depth.               *)
Exclusive(s, i, j) ==
    \E x \in ToSet(Upward(s.book, i)), y \in ToSet(Upward(s.book, j)) :
        /\ x # y
        /\ s.book[x].up = s.book[y].up
        /\ RedefineBase(s.book, x) = RedefineBase(s.book, y)

RangesFarApart(s, i, j) ==
    GreaterOf(s.book[i].min, s.book[j].min) > LesserOf(s.book[i].max, s.book[j].max) + 1

RangesApart(s, i, j) ==
    GreaterOf(s.book[i].min, s.book[j].min) > LesserOf(s.book[i].max, s.book[j].max)

SharedBoundsFaults(s) ==
    {"SharedCountBounds" : p \in {p \in ToSet(DependingTables(s)) \X ToSet(DependingTables(s)) :
        /\ s.book[p[1]].on = s.book[p[2]].on
        /\ ~Exclusive(s, p[1], p[2])
        /\ RangesApart(s, p[1], p[2])}}

CountFaults(s) ==
    LET fault(count) ==
            IF Repeats(s, count) \/ InTable(s, count) THEN {"CountOccurrence"}
            ELSE IF VariableAhead(s, count) # {} THEN {"CountPosition"}
            ELSE {}
    IN UNION {fault(s.book[t].on) : t \in ToSet(DependingTables(s))} \cup SharedBoundsFaults(s)

(***************************************************************************)
(* The dataset's claim on a record's extent.                                *)
(***************************************************************************)

VariesByItem(record) ==
    \E k \in DOMAIN Walk(record.root) : Walk(record.root)[k].item # 0 /\ Walk(record.root)[k].rep.on # 0

Varies(record) == \E k \in DOMAIN Walk(record.root) : Walk(record.root)[k].rep.on # 0

RecordExtent(record) == WidthOf(record.root)

LRECLBound(s) == IF s.framing.lrecl = 0 THEN "unstated" ELSE IF s.framing.kind = "unframed" THEN "exact" ELSE "maximum"

FrameFaults(s, record) ==
    IF s.framing.kind = "none" THEN {}
    ELSE IF s.framing.kind = "unframed" /\ Varies(record) THEN {"VariableExtent"}
    ELSE IF LRECLBound(s) # "unstated" /\ RecordExtent(record) > s.framing.lrecl THEN {"LRECLExtent"}
    ELSE {}

(* A record type shorter than a fixed-length dataset's records is padded.   *)
Framed(s, record) ==
    IF s.framing.kind # "none" /\ LRECLBound(s) = "exact"
    THEN [record EXCEPT !.root.members = MergeSlack(@ \o SlackOf(s.framing.lrecl - RecordExtent(record)))]
    ELSE record

(***************************************************************************)
(* Resolve.                                                                *)
(***************************************************************************)

ResolveFaults(s) ==
    IF DependingTables(s) # <<>> /\ s.reading = "unstated" THEN {"UnstatedReading"}
    ELSE ItemFaults(s, 1) \cup (IF Slides(s) THEN CountFaults(s) ELSE {})

(* The top level is a group whatever the copybook wrote.                    *)
Unframed(s) ==
    LET options == Options(s, 1)
        root(node) == IF node.kind = "group" THEN node ELSE GroupNode(1, <<node>>)
    IN [k \in DOMAIN options |-> [root |-> root(options[k].nodes[1]), alternatives |-> options[k].chosen]]

Resolve(s) ==
    IF ResolveFaults(s) # {} THEN [faults |-> ResolveFaults(s), records |-> <<>>]
    ELSE LET records == Unframed(s)
             faults  == UNION {FrameFaults(s, records[k]) : k \in DOMAIN records}
         IN IF faults # {} THEN [faults |-> faults, records |-> <<>>]
            ELSE [faults |-> {}, records |-> [k \in DOMAIN records |-> Framed(s, records[k])]]

(***************************************************************************)
(* What a consumer does with a record: stand its tables at the counts it     *)
(* decoded, and find an item by summing what is ahead of it.                 *)
(***************************************************************************)

Repetitions(record) == {node.rep : node \in ToSet(Walk(record.root))}
CountsOf(record) == {rep.on : rep \in Repetitions(record)} \ {0}

(* Assembly refuses a table whose count the record does not hold.           *)
Assembled(record) ==
    CountsOf(record) \subseteq {node.item : node \in {n \in ToSet(Walk(record.root)) : n.kind = "field"}}

(* Record.At refuses a count outside any of the ranges it sizes.            *)
Admitted(record, counts) ==
    \A rep \in Repetitions(record) : rep.on # 0 => counts[rep.on] \in rep.min .. rep.max

RECURSIVE StandAt(_, _)
StandAt(node, counts) ==
    [node EXCEPT
        !.rep.count = IF node.rep.on # 0 THEN counts[node.rep.on] ELSE @,
        !.members   = [k \in DOMAIN @ |-> StandAt(@[k], counts)],
        !.arms      = [k \in DOMAIN @ |-> [@[k] EXCEPT !.body = StandAt(@, counts)]]]

RecordAt(record, counts) == [record EXCEPT !.root = StandAt(@, counts)]

(* Where the first occurrence of an item begins, {} where it is not held.   *)
RECURSIVE Positions(_, _, _)
Positions(node, i, at) ==
    IF node.item = i /\ node.kind = "field" THEN {at}
    ELSE LET ahead(k) == Total([j \in 1 .. k - 1 |-> ExtentOf(node.members[j])])
         IN UNION {Positions(node.members[k], i, at + ahead(k)) : k \in DOMAIN node.members}
            \cup UNION {Positions(node.arms[k].body, i, at) : k \in DOMAIN node.arms}

(***************************************************************************)
(* Describe: the alternations of a copybook and the combinations they make.  *)
(***************************************************************************)

ReadAs(s, reading) == [s EXCEPT !.reading = reading]

ReadingDecides(s, i) == InTable(ReadAs(s, "odoslide"), i) # InTable(ReadAs(s, "noodoslide"), i)

CrossedNames(lists, choices) ==
    FlattenSeq([l \in DOMAIN lists |-> [c \in DOMAIN choices |-> lists[l] \o choices[c]]])

RECURSIVE Combinations(_, _)
CombinationsOnTop(s, c) ==
    IF Len(c) = 1 THEN Combinations(s, c[1])
    ELSE IF InTable(s, c[1]) THEN << <<>> >>
    ELSE [m \in DOMAIN c |-> <<c[m]>>]

ClusterCombinations(s, c) ==
    IF Len(c) = 1 THEN Combinations(s, c[1])
    ELSE IF InTable(s, c[1]) THEN << <<>> >>
    ELSE FlattenSeq([m \in DOMAIN c |->
            LET under == Combinations(s, c[m]) IN [k \in DOMAIN under |-> <<c[m]>> \o under[k]]])

Combinations(s, i) ==
    LET clusters == ClustersOf(s, i)
        names[k \in 0 .. Len(clusters)] ==
            IF k = 0 THEN << <<>> >> ELSE CrossedNames(names[k - 1], ClusterCombinations(s, clusters[k]))
    IN names[Len(clusters)]

(* The runs with more than one description, every one of them.              *)
Alternations(s) ==
    {c \in UNION {ToSet(ClustersOf(s, i)) : i \in Entries(s.book)} : Len(c) > 1}

=============================================================================
