----------------------- MODULE RecordExchangeProofs ------------------------
(***************************************************************************)
(* What is proved of a reader, and of a writer and a reader of one layout,  *)
(* for every set of layouts the compiler accepts, every file and every      *)
(* caller.                                                                 *)
(***************************************************************************)
EXTENDS RecordExchange, SequenceTheorems, TLAPS

-----------------------------------------------------------------------------
(* Guards and predicates.                                                  *)

(* Guards that hold in one register file are guards the compiler finds may   *)
(* hold together (satisfiable and holdsTogether in sequence.go).            *)
LEMMA HeldTogether ==
    ASSUME NEW guards, NEW h, AllHold(guards, h)
    PROVE  Satisfiable(guards)
  <1> SUFFICES ASSUME NEW r \in Reads(guards)
               PROVE  HoldsTogether({g \in guards : g.register = r}, r)
    BY DEF Satisfiable
  <1> DEFINE G == {g \in guards : g.register = r}
             tests == {g \in G : ~ g.positive}
             narrowed == {v \in UNION {g.values : g \in tests} : \A g \in tests : v \in g.values}
  <1>1. \A g \in tests : h[r] \in g.values
    BY DEF AllHold, Holds
  <1>2. tests = {} \/ h[r] \in narrowed
    BY <1>1
  <1>3. tests # G => \E g \in G : g.positive
    OBVIOUS
  <1>4. tests # G => h[r] > 0
    BY <1>3 DEF AllHold, Holds
  <1> HIDE DEF narrowed
  <1>5. IF tests = G THEN tests = {} \/ narrowed # {}
                     ELSE tests = {} \/ \E v \in narrowed : r.kind = "bytes" \/ v > 0
    BY <1>2, <1>4
  <1> QED
    BY <1>5 DEF HoldsTogether, narrowed

(* A record of one type that another type's predicate matches is a record    *)
(* the compiler finds that both could be (predicatesOverlap in sequence.go). *)
LEMMA OneRecordOverlaps ==
    ASSUME NEW R \in RecordType, NEW S \in RecordType, NEW raw \in Raw,
           Conforms(R, raw),
           Matches(Discriminator[R], raw), Matches(Discriminator[S], raw)
    PROVE  Overlap(R, S) /\ Overlap(S, R)
  <1> DEFINE p == Discriminator[R]
             q == Discriminator[S]
             v == Target(p, raw)
             w == Target(q, raw)
  <1>1. CASE p = NoPredicate \/ q = NoPredicate
    BY <1>1 DEF Overlap, Unpredicated
  <1>2. CASE p # NoPredicate /\ q # NoPredicate
    <2>1. v \in p.values /\ w \in q.values
      BY <1>2 DEF Matches
    <2>2. Run(q) \subseteq Offset
      BY <1>2, RecordTypes DEF Run, Offset
    <2>3. DOMAIN w = Run(q) /\ \A i \in Run(q) : w[i] = raw[i]
      BY DEF Target
    <2>4. \A i \in Run(p) : v[i] = raw[i]
      BY DEF Target
    <2>5. Carries(R, w)
      BY <2>2, <2>3 DEF Carries, Conforms
    <2>6. \A i \in Shared(p, q) : v[i] = w[i]
      BY <2>3, <2>4 DEF Shared
    <2>7. Shared(q, p) = Shared(p, q)
      BY DEF Shared
    <2> HIDE DEF v, w
    <2>8. LiteralsAgree(R, S)
      BY <2>1, <2>5, <2>6 DEF LiteralsAgree
    <2>9. LiteralsAgree(S, R)
      BY <2>1, <2>5, <2>6, <2>7 DEF LiteralsAgree
    <2> QED
      BY <2>8, <2>9 DEF Overlap
  <1> QED
    BY <1>1, <1>2

(* Two predicates over runs that share no byte are sorted, one way or the    *)
(* other (compiler.order).                                                  *)
LEMMA ApartIsOrdered ==
    ASSUME NEW t, NEW u, t.record \in RecordType, u.record \in RecordType,
           ResolvedByOrder(t.record, u.record)
    PROVE  Before(t, u) \/ Before(u, t)
  <1> DEFINE p == Discriminator[t.record]
             q == Discriminator[u.record]
  <1>1. p # NoPredicate /\ q # NoPredicate /\ Run(p) \cap Run(q) = {}
    BY DEF ResolvedByOrder, Shared
  <1>2. /\ p.at \in Nat /\ p.end \in Int /\ p.at < p.end
        /\ q.at \in Nat /\ q.end \in Int /\ q.at < q.end
    BY <1>1, RecordTypes DEF Offset
  <1>3. p.at # q.at
    <2>1. p.at \in Run(p) /\ q.at \in Run(q)
      BY <1>2 DEF Run
    <2> QED
      BY <2>1, <1>1
  <1> QED
    BY <1>1, <1>2, <1>3 DEF Before

-----------------------------------------------------------------------------
(* The automaton of a layout.                                              *)

(* What the compiler holds a graph to holds of the layout being read.      *)
LEMMA LayoutCompiles ==
    ASSUME layout \in Layouts
    PROVE  /\ WellFormed(A)
           /\ Settled(A, BoundOnEntry(A))
           /\ ReadsBound(A, BoundOnEntry(A))
           /\ Unambiguous(A)
  BY Compiles DEF A

(* Two transitions that take one record of the type one of them admits are   *)
(* ordered, one way or the other.                                           *)
LEMMA TakenAreOrdered ==
    ASSUME layout \in Layouts, NEW s, NEW h, NEW raw \in Raw,
           NEW t \in Leaving(A, s), NEW u \in Leaving(A, s), t # u,
           Takes(t, h, raw), Takes(u, h, raw), Conforms(t.record, raw)
    PROVE  /\ ResolvedByOrder(t.record, u.record)
           /\ ResolvedByOrder(u.record, t.record)
           /\ Satisfiable(t.guards \cup u.guards)
           /\ Before(t, u) \/ Before(u, t)
  <1>1. t \in A.transitions /\ u \in A.transitions /\ t.from = u.from
    BY DEF Leaving
  <1>2. t.record \in RecordType /\ u.record \in RecordType
    BY <1>1, LayoutCompiles DEF WellFormed
  <1>3. AllHold(t.guards \cup u.guards, h)
    BY DEF Takes, AllHold
  <1>4. Satisfiable(t.guards \cup u.guards)
    BY <1>3, HeldTogether
  <1>5. Overlap(t.record, u.record)
    BY <1>2, OneRecordOverlaps DEF Takes
  <1>6. ResolvedByOrder(t.record, u.record)
    BY <1>1, <1>4, <1>5, LayoutCompiles DEF Unambiguous
  <1>7. ResolvedByOrder(u.record, t.record)
    BY <1>6 DEF ResolvedByOrder, Shared
  <1> QED
    BY <1>2, <1>4, <1>6, <1>7, ApartIsOrdered

(* So a record of the type a selected transition admits is taken one way.    *)
LEMMA SelectedIsAlone ==
    ASSUME layout \in Layouts, NEW s, NEW h, NEW raw \in Raw,
           NEW t \in Selected(A, s, h, raw), NEW u \in Selected(A, s, h, raw),
           Conforms(t.record, raw)
    PROVE  t = u
  <1>1. /\ t \in Leaving(A, s) /\ Takes(t, h, raw)
        /\ u \in Leaving(A, s) /\ Takes(u, h, raw)
        /\ ~ Before(t, u) /\ ~ Before(u, t)
    BY DEF Selected
  <1> QED
    BY <1>1, TakenAreOrdered

-----------------------------------------------------------------------------
(* The inductive invariant of the reader.                                  *)

(* The value a register may hold.                                          *)
Value(r) == IF r.kind = "integer" THEN Int ELSE Byte

(* What the compiler proved of the state the read is in, over the registers  *)
(* that are bound; beside it the types.                                    *)
Read ==
    /\ layout \in Layouts
    /\ state \in A.states
    /\ BoundOnEntry(A)[state] \subseteq DOMAIN held
    /\ DOMAIN held \subseteq A.registers
    /\ \A r \in DOMAIN held : held[r] \in Value(r)

(* What Next has said, and how far it is.                                  *)
Progress ==
    /\ file \in Seq(Inputs) /\ Len(file) <= MaxRecords
    /\ ended \in {"open", "closed", "abandoned"}
    /\ consumed \in 0 .. Len(file)
    /\ admitted \in Seq(RecordType)
    /\ done \in BOOLEAN
    /\ said \in {"nothing", "record", "eof"} \cup Faults
    /\ said # "unbound"

ReaderInv == Read /\ Progress

(* Every guard of the state, and what it lowers, is of bound registers.     *)
LEMMA GuardsAreBound ==
    ASSUME Read
    PROVE  /\ ~ UnboundHere
           /\ \A t \in Leaving(A, state) : t.less \subseteq DOMAIN held
           /\ state \in A.accepting => Reads(A.acceptance[state]) \subseteq DOMAIN held
  <1>1. ReadsBound(A, BoundOnEntry(A))
    BY LayoutCompiles DEF Read
  <1>2. \A t \in Leaving(A, state) : Reads(t.guards) \cup t.less \subseteq BoundOnEntry(A)[state]
    BY <1>1 DEF ReadsBound, Leaving
  <1> QED
    BY <1>1, <1>2 DEF Read, ReadsBound, UnboundHere

(* Taking a transition keeps the registers in step with the state.          *)
LEMMA TakingKeepsBound ==
    ASSUME Read, NEW raw \in Raw, NEW t \in Leaving(A, state)
    PROVE  LET file2 == Bound(t, held, raw)
           IN  /\ t.to \in A.states
               /\ BoundOnEntry(A)[t.to] \subseteq DOMAIN file2
               /\ DOMAIN file2 \subseteq A.registers
               /\ \A r \in DOMAIN file2 : file2[r] \in Value(r)
  <1> DEFINE file2 == Bound(t, held, raw)
  <1>1. t \in A.transitions /\ t.from = state
    BY DEF Leaving
  <1>2. WellFormed(A) /\ Settled(A, BoundOnEntry(A))
    BY LayoutCompiles DEF Read
  <1>3. DOMAIN file2 = DOMAIN held \cup t.less \cup t.binds
    BY DEF Bound
  <1>4. t.less \subseteq DOMAIN held
    BY GuardsAreBound
  <1>5. t.to \in A.states
    BY <1>1, <1>2 DEF WellFormed
  <1>6. BoundOnEntry(A)[t.to] \subseteq DOMAIN file2
    BY <1>1, <1>2, <1>3 DEF Settled, Read
  <1>7. DOMAIN file2 \subseteq A.registers
    BY <1>1, <1>2, <1>3 DEF WellFormed, Read
  <1>8. ASSUME NEW r \in DOMAIN file2
        PROVE  file2[r] \in Value(r)
    <2>1. CASE r \in t.less
      <3>1. r.kind = "integer"
        BY <2>1, <1>1, <1>2 DEF WellFormed
      <3>2. held[r] \in Int
        BY <2>1, <3>1, <1>4 DEF Read, Value
      <3>3. file2[r] = held[r] - 1
        BY <2>1, <1>3 DEF Bound
      <3> QED
        BY <3>1, <3>2, <3>3 DEF Value
    <2>2. CASE r \notin t.less /\ r \in t.binds
      <3>1. r.item.at \in Offset
        BY <2>2, <1>1, <1>2 DEF WellFormed
      <3>2. raw[r.item.at] \in Byte
        BY <3>1 DEF Raw
      <3>3. Decoded[raw[r.item.at]] \in Int
        BY <3>2, RecordTypes
      <3>4. file2[r] = FieldOf(r, raw)
        BY <2>2, <1>3 DEF Bound
      <3> QED
        BY <3>2, <3>3, <3>4 DEF FieldOf, Value
    <2>3. CASE r \notin t.less /\ r \notin t.binds
      <3>1. r \in DOMAIN held
        BY <2>3, <1>3
      <3>2. file2[r] = held[r]
        BY <2>3, <1>3 DEF Bound
      <3> QED
        BY <3>1, <3>2 DEF Read
    <2> QED
      BY <2>1, <2>2, <2>3
  <1> QED
    BY <1>5, <1>6, <1>7, <1>8

(* The record in front is a whole record.                                  *)
LEMMA RecordIsRaw ==
    ASSUME Progress, AtRecord
    PROVE  Record \in Raw /\ consumed + 1 \in 1 .. Len(file)
  <1>1. consumed \in Nat /\ Len(file) \in Nat /\ consumed < Len(file)
    BY DEF Progress, AtRecord
  <1>2. consumed + 1 \in 1 .. Len(file)
    BY <1>1
  <1>3. file[consumed + 1] \in Inputs
    BY <1>2, ElementOfSeq DEF Progress
  <1> QED
    BY <1>2, <1>3, Records DEF Record

LEMMA ReaderStarts == StreamInit /\ ReaderInit => ReaderInv
  <1> SUFFICES ASSUME StreamInit, ReaderInit
               PROVE  ReaderInv
    OBVIOUS
  <1>1. WellFormed(A) /\ Settled(A, BoundOnEntry(A))
    BY LayoutCompiles DEF StreamInit
  <1>2. DOMAIN held = {}
    BY DEF ReaderInit
  <1>3. Read
    BY <1>1, <1>2 DEF Read, StreamInit, ReaderInit, WellFormed, Settled
  <1>4. MaxRecords \in Nat
    BY Records
  <1>5. file \in Seq(Inputs) /\ Len(file) <= MaxRecords /\ consumed \in 0 .. Len(file)
    <2>1. file = <<>> /\ consumed = 0
      BY DEF StreamInit, ReaderInit
    <2>2. Len(file) = 0
      BY <2>1
    <2> QED
      BY <2>1, <2>2, <1>4
  <1>6. admitted \in Seq(RecordType) /\ done \in BOOLEAN /\ said = "nothing" /\ ended = "open"
    <2>1. admitted = <<>> /\ done = FALSE /\ said = "nothing" /\ ended = "open"
      BY DEF ReaderInit, StreamInit
    <2>2. admitted \in Seq(RecordType)
      BY <2>1
    <2>3. done \in BOOLEAN
      BY <2>1, Zenon
    <2> QED
      BY <2>1, <2>2, <2>3
  <1>7. Progress
    BY <1>5, <1>6 DEF Progress
  <1> QED
    BY <1>3, <1>7 DEF ReaderInv

(* A call of Next preserves it.                                            *)
LEMMA NextKeeps == ReaderInv /\ Next => ReaderInv'
  <1> SUFFICES ASSUME ReaderInv, Next
               PROVE  ReaderInv'
    OBVIOUS
  <1> USE DEF ReaderInv
  <1>1. CASE Again
    <2>1. Read'
      BY <1>1 DEF Again, Read, A
    <2>2. Progress'
      BY <1>1 DEF Again, Progress, Says
    <2> QED
      BY <2>1, <2>2
  <1>2. CASE EndOfInput
    <2>1. Read'
      BY <1>2 DEF EndOfInput, Read, A
    <2>2. said' \in {"eof", "truncated"}
      BY <1>2, GuardsAreBound DEF EndOfInput, Says
    <2>3. Progress'
      BY <1>2, <2>2 DEF EndOfInput, Progress, Faults
    <2> QED
      BY <2>1, <2>3
  <1>3. CASE Admit
    <2>1. AtRecord
      BY <1>3 DEF Admit
    <2>2. Record \in Raw /\ consumed + 1 \in 1 .. Len(file)
      BY <2>1, RecordIsRaw
    <2>3. PICK t \in Selected(A, state, held, Record) :
             /\ state' = t.to
             /\ held' = Bound(t, held, Record)
             /\ admitted' = Append(admitted, t.record)
      BY <1>3 DEF Admit
    <2>4. t \in Leaving(A, state)
      BY DEF Selected
    <2>5. UNCHANGED <<layout, file, ended, done>> /\ consumed' = consumed + 1 /\ said' = "record"
      BY <1>3 DEF Admit, Says
    <2>6. Read'
      BY <2>2, <2>3, <2>4, <2>5, TakingKeepsBound DEF Read, A
    <2>7. t.record \in RecordType
      BY <2>4, LayoutCompiles DEF Leaving, WellFormed, Read
    <2>8. Progress'
      BY <2>2, <2>3, <2>5, <2>7 DEF Progress
    <2> QED
      BY <2>6, <2>8
  <1>4. CASE Refuse
    <2>1. AtRecord /\ UNCHANGED <<layout, file, ended, state, held, admitted, done>>
          /\ consumed' = consumed + 1
      BY <1>4 DEF Refuse
    <2>2. consumed + 1 \in 1 .. Len(file)
      BY <2>1, RecordIsRaw
    <2>3. said' \in Refused
      BY <1>4 DEF Refuse, Says
    <2>4. said' \in {"excluded", "undescribed", "malformed"}
      BY <2>3, GuardsAreBound DEF Refused
    <2>5. Read'
      BY <2>1 DEF Read, A
    <2>6. Progress'
      BY <2>1, <2>2, <2>4 DEF Progress, Faults
    <2> QED
      BY <2>5, <2>6
  <1> QED
    BY <1>1, <1>2, <1>3, <1>4 DEF Next

(* The file growing behind the reader preserves it.                        *)
LEMMA GrowingKeeps ==
    ASSUME ReaderInv, UNCHANGED <<layout, reader>>,
           file' \in Seq(Inputs), Len(file) <= Len(file'), Len(file') <= MaxRecords,
           ended' \in {"open", "closed", "abandoned"}
    PROVE  ReaderInv'
  <1>1. Read'
    BY DEF ReaderInv, Read, A, reader
  <1>2. consumed \in 0 .. Len(file')
    <2>1. Len(file) \in Nat /\ Len(file') \in Nat
      BY DEF ReaderInv, Progress
    <2> QED
      BY <2>1 DEF ReaderInv, Progress
  <1>3. Progress'
    BY <1>2 DEF ReaderInv, Progress, reader
  <1> QED
    BY <1>1, <1>3 DEF ReaderInv

LEMMA SuppliedKeeps ==
    ASSUME ReaderInv, Supplied \/ Stopped
    PROVE  ReaderInv'
  <1>1. UNCHANGED <<layout, reader>>
    BY DEF Supplied, Stopped, Supply, Stop
  <1>2. CASE Supplied
    <2>1. PICK raw \in Inputs : Len(file) < MaxRecords /\ file' = Append(file, raw) /\ ended' = ended
      <3>1. layout.inputs \subseteq Inputs
        BY Compiles DEF ReaderInv, Read
      <3> QED
        BY <1>2, <3>1 DEF Supplied, Supply
    <2>2. file' \in Seq(Inputs) /\ Len(file') = Len(file) + 1 /\ Len(file) \in Nat
      BY <2>1 DEF ReaderInv, Progress
    <2>3. MaxRecords \in Nat
      BY Records
    <2>4. ended' \in {"open", "closed", "abandoned"}
      BY <2>1 DEF ReaderInv, Progress
    <2>5. Len(file) <= Len(file') /\ Len(file') <= MaxRecords
      BY <2>1, <2>2, <2>3
    <2> QED
      BY <1>1, <2>2, <2>4, <2>5, GrowingKeeps
  <1>3. CASE Stopped
    <2>1. file' = file /\ ended' = "abandoned"
      BY <1>3 DEF Stopped, Stop
    <2>2. file' \in Seq(Inputs) /\ Len(file) <= Len(file') /\ Len(file') <= MaxRecords
      BY <2>1 DEF ReaderInv, Progress
    <2> QED
      BY <1>1, <2>1, <2>2, GrowingKeeps
  <1> QED
    BY <1>2, <1>3

LEMMA ReaderInvariant == ReaderSpec => []ReaderInv
  <1>1. SuppliedInit => ReaderInv
    BY ReaderStarts DEF SuppliedInit
  <1>2. ReaderInv /\ [Next \/ Supplied \/ Stopped]_readerVars => ReaderInv'
    <2> SUFFICES ASSUME ReaderInv, [Next \/ Supplied \/ Stopped]_readerVars
                 PROVE  ReaderInv'
      OBVIOUS
    <2>1. CASE Next
      BY <2>1, NextKeeps
    <2>2. CASE Supplied \/ Stopped
      BY <2>2, SuppliedKeeps
    <2>3. CASE UNCHANGED readerVars
      BY <2>3 DEF readerVars, reader, ReaderInv, Read, Progress, A
    <2> QED
      BY <2>1, <2>2, <2>3
  <1> QED
    BY <1>1, <1>2, PTL DEF ReaderSpec

-----------------------------------------------------------------------------
(* What the invariant gives.                                               *)

(* Every variable of the reader stays in its type, and every register holds  *)
(* what its kind says, however often records rebind it.                     *)
THEOREM ReaderTyped == ReaderSpec => []ReaderTypeOK
  <1>1. ReaderInv => ReaderTypeOK
    BY DEF ReaderInv, Read, Progress, ReaderTypeOK, Value
  <1> QED
    BY <1>1, ReaderInvariant, PTL

(* No file and no caller bring a reader of an accepted layout to a register  *)
(* that nothing has bound: the proof obligation of compiler.prove suffices.  *)
THEOREM NothingReadUnbound == ReaderSpec => []NeverUnbound
  <1>1. ReaderInv => NeverUnbound
    BY DEF ReaderInv, Progress, NeverUnbound
  <1> QED
    BY <1>1, ReaderInvariant, PTL

(* Whatever the reader holds, a record its copybook could describe is taken  *)
(* one way: what checkAmbiguity admits, the order of the transitions decides. *)
THEOREM OneWayThrough == ReaderSpec => []OneWayOn
  <1>1. ReaderInv => OneWayOn
    <2> SUFFICES ASSUME ReaderInv, NEW R \in RecordType, NEW raw \in Inputs, OfType(R, raw),
                        NEW t \in Selected(A, state, held, raw),
                        NEW u \in Selected(A, state, held, raw),
                        t.record = R \/ u.record = R
                 PROVE  t = u
      BY DEF OneWayOn
    <2>1. layout \in Layouts /\ raw \in Raw
      BY Records DEF ReaderInv, Read
    <2>2. Conforms(t.record, raw) \/ Conforms(u.record, raw)
      BY DEF OfType
    <2> QED
      BY <2>1, <2>2, SelectedIsAlone
  <1> QED
    BY <1>1, ReaderInvariant, PTL

(* A register changes by one from above zero or with its own record, on every *)
(* call of Next.                                                            *)
THEOREM CountsOnlyDown == ReaderSpec => CountsDownToZero
  <1> DEFINE Lowered ==
        \A r \in DOMAIN held :
          held'[r] # held[r] =>
              \/ held[r] > 0 /\ held'[r] = held[r] - 1
              \/ r.item.record = admitted'[Len(admitted')]
  <1>1. ReaderInv /\ [Next \/ Supplied \/ Stopped]_readerVars => [Lowered]_readerVars
    <2> SUFFICES ASSUME ReaderInv, [Next \/ Supplied \/ Stopped]_readerVars
                 PROVE  Lowered \/ UNCHANGED readerVars
      OBVIOUS
    <2>1. CASE Again \/ EndOfInput \/ Refuse \/ Supplied \/ Stopped
      BY <2>1 DEF Again, EndOfInput, Refuse, Supplied, Stopped, reader
    <2>2. CASE Admit
      <3>1. PICK t \in Selected(A, state, held, Record) :
               held' = Bound(t, held, Record) /\ admitted' = Append(admitted, t.record)
        BY <2>2 DEF Admit
      <3>2. t \in A.transitions /\ AllHold(t.guards, held)
        BY DEF Selected, Leaving, Takes
      <3>3. WellFormed(A)
        BY LayoutCompiles DEF ReaderInv, Read
      <3>4. admitted'[Len(admitted')] = t.record
        BY <3>1, <3>2, <3>3 DEF ReaderInv, Progress, WellFormed
      <3>5. ASSUME NEW r \in DOMAIN held, held'[r] # held[r]
            PROVE  \/ held[r] > 0 /\ held'[r] = held[r] - 1
                   \/ r.item.record = admitted'[Len(admitted')]
        <4>1. CASE r \in t.less
          <5>1. held'[r] = held[r] - 1
            BY <3>1, <4>1 DEF Bound
          <5>2. PICK g \in t.guards : g.register = r /\ g.positive
            BY <3>2, <3>3, <4>1 DEF WellFormed
          <5>3. held[r] > 0
            BY <3>2, <5>2 DEF AllHold, Holds
          <5> QED
            BY <5>1, <5>3
        <4>2. CASE r \notin t.less
          <5>1. r \in t.binds
            BY <3>1, <3>5, <4>2 DEF Bound
          <5> QED
            BY <5>1, <3>2, <3>3, <3>4 DEF WellFormed
        <4> QED
          BY <4>1, <4>2
      <3> QED
        BY <3>5
    <2>3. CASE UNCHANGED readerVars
      BY <2>3
    <2> QED
      BY <2>1, <2>2, <2>3 DEF Next
  <1> QED
    BY <1>1, ReaderInvariant, PTL DEF ReaderSpec, CountsDownToZero

-----------------------------------------------------------------------------
(* The inductive invariant of a writer and a reader.                       *)

(* The transition a writer took for a record, at a point of its walk.      *)
TakenAt(t, at, R, raw) ==
    /\ t \in Leaving(A, at.state)
    /\ t.record = R
    /\ Conforms(R, raw)
    /\ Takes(t, at.held, raw)
    /\ \A u \in Leaving(A, at.state) : Rival(u, t) => ~ Takes(u, at.held, raw)

Step(i) ==
    \E t \in A.transitions :
        /\ TakenAt(t, trail[i], written[i], file[i])
        /\ trail[i + 1] = Point(t.to, Bound(t, trail[i].held, file[i]))

(* The trail is a walk of the writer's through the file.                    *)
Walk ==
    /\ written \in Seq(RecordType)
    /\ trail = [i \in 1 .. Len(trail) |-> trail[i]]
    /\ Len(trail) = Len(file) + 1
    /\ Len(written) = Len(file)
    /\ trail[Len(file) + 1] = Point(wstate, wheld)
    /\ wstate \in A.states
    /\ DOMAIN wheld \subseteq A.registers
    /\ \A i \in 1 .. Len(file) : Step(i)

(* Where the reader is on that walk, and what it has been told of its end.  *)
Following ==
    /\ trail[consumed + 1] = Point(state, held)
    /\ admitted = SubSeq(written, 1, consumed)
    /\ said \in {"nothing", "record", "eof", "truncated"}
    /\ done => consumed = Len(file) /\ ended # "open"
    /\ said = "truncated" => ended = "abandoned"
    /\ done /\ ended = "closed" => said = "eof"
    /\ ended = "closed" => Accepts(A, wstate, wheld)

ExchangeInv == ReaderInv /\ Walk /\ Following

-----------------------------------------------------------------------------
(* The reader takes the transition the writer took.                         *)

(* The transition a writer took is the one the reader selects, and the only  *)
(* one: a transition of another type in front of it that takes the record    *)
(* would have been a rival (rivalsOf in rival.go).                          *)
LEMMA ReaderTakesTheSame ==
    ASSUME layout \in Layouts, NEW at, NEW R, NEW raw \in Raw,
           NEW t \in A.transitions, TakenAt(t, at, R, raw)
    PROVE  Selected(A, at.state, at.held, raw) = {t}
  <1>1. /\ t \in Leaving(A, at.state) /\ Takes(t, at.held, raw)
        /\ t.record = R /\ Conforms(t.record, raw)
    BY DEF TakenAt
  <1>2. ASSUME NEW u \in Leaving(A, at.state), Before(u, t)
        PROVE  ~ Takes(u, at.held, raw)
    <2> SUFFICES ASSUME Takes(u, at.held, raw)
                 PROVE  FALSE
      OBVIOUS
    <2>1. t.record \in RecordType /\ u.record \in RecordType
      BY LayoutCompiles DEF WellFormed, Leaving
    <2>2. u.record # t.record
      <3> SUFFICES ASSUME u.record = t.record
                   PROVE  FALSE
        OBVIOUS
      <3>1. /\ Discriminator[t.record] # NoPredicate
            /\ \/ Discriminator[t.record].at < Discriminator[t.record].at
               \/ Discriminator[t.record].end < Discriminator[t.record].end
        BY <1>2 DEF Before
      <3>2. Discriminator[t.record].at \in Int /\ Discriminator[t.record].end \in Int
        BY <2>1, <3>1, RecordTypes DEF Offset
      <3> QED
        BY <3>1, <3>2
    <2>3. t # u
      BY <2>2
    <2>4. ResolvedByOrder(u.record, t.record) /\ Satisfiable(t.guards \cup u.guards)
      BY <1>1, <2>3, TakenAreOrdered
    <2>5. u.guards \cup t.guards = t.guards \cup u.guards
      OBVIOUS
    <2>6. Rival(u, t)
      BY <1>2, <2>2, <2>4, <2>5 DEF Rival
    <2> QED
      BY <2>6 DEF TakenAt
  <1>3. t \in Selected(A, at.state, at.held, raw)
    BY <1>1, <1>2 DEF Selected
  <1>4. ASSUME NEW u \in Selected(A, at.state, at.held, raw)
        PROVE  u = t
    BY <1>1, <1>3, SelectedIsAlone
  <1> QED
    BY <1>3, <1>4

(* So at a record the reader admits it, as what it was written as, and moves *)
(* to where the writer went.                                               *)
LEMMA AtWrittenRecord ==
    ASSUME ExchangeInv, AtRecord
    PROVE  /\ ~ Refuse
           /\ Admit => /\ Point(state', held') = trail[consumed + 2]
                       /\ admitted' = Append(admitted, written[consumed + 1])
  <1>1. Record \in Raw /\ consumed + 1 \in 1 .. Len(file)
    BY RecordIsRaw DEF ExchangeInv, ReaderInv
  <1>2. PICK t \in A.transitions :
           /\ TakenAt(t, trail[consumed + 1], written[consumed + 1], file[consumed + 1])
           /\ trail[consumed + 1 + 1] = Point(t.to, Bound(t, trail[consumed + 1].held, file[consumed + 1]))
    BY <1>1 DEF ExchangeInv, Walk, Step
  <1>3. trail[consumed + 1].state = state /\ trail[consumed + 1].held = held
    BY DEF ExchangeInv, Following, Point
  <1>4. Selected(A, state, held, Record) = {t}
    <2>1. layout \in Layouts /\ file[consumed + 1] \in Raw
      BY <1>1 DEF ExchangeInv, ReaderInv, Read, Record
    <2>2. Selected(A, trail[consumed + 1].state, trail[consumed + 1].held, file[consumed + 1]) = {t}
      BY <1>2, <2>1, ReaderTakesTheSame
    <2> QED
      BY <1>3, <2>2 DEF Record
  <1>5. t.record = written[consumed + 1] /\ Conforms(t.record, Record)
    BY <1>2 DEF TakenAt, Record
  <1>6. Refused = {}
    BY <1>4, <1>5, GuardsAreBound DEF Refused, ExchangeInv, ReaderInv
  <1>7. ~ Refuse
    BY <1>6 DEF Refuse
  <1>8. consumed + 1 + 1 = consumed + 2
    BY DEF ExchangeInv, ReaderInv, Progress
  <1>9. ASSUME Admit
        PROVE  /\ Point(state', held') = trail[consumed + 2]
               /\ admitted' = Append(admitted, written[consumed + 1])
    <2>1. state' = t.to /\ held' = Bound(t, held, Record) /\ admitted' = Append(admitted, t.record)
      BY <1>4, <1>9 DEF Admit
    <2> QED
      BY <2>1, <1>2, <1>3, <1>5, <1>8 DEF Record
  <1> QED
    BY <1>7, <1>9

-----------------------------------------------------------------------------
(* The invariant holds.                                                     *)

LEMMA ExchangeStarts == ExchangeInit => ExchangeInv
  <1> SUFFICES ASSUME ExchangeInit
               PROVE  ExchangeInv
    OBVIOUS
  <1>1. ReaderInv
    BY ReaderStarts DEF ExchangeInit
  <1>2. /\ wstate = Start /\ wheld = [r \in {} |-> 0] /\ written = <<>>
        /\ trail = <<Point(Start, [r \in {} |-> 0])>>
        /\ state = Start /\ held = [r \in {} |-> 0] /\ consumed = 0
        /\ admitted = <<>> /\ done = FALSE /\ said = "nothing"
        /\ file = <<>> /\ ended = "open"
    BY DEF ExchangeInit, WriterInit, ReaderInit, StreamInit
  <1>3. Start \in A.states /\ DOMAIN wheld = {}
    BY <1>1, <1>2, LayoutCompiles DEF ReaderInv, Read, WellFormed
  <1>4. Len(trail) = 1 /\ trail[1] = Point(Start, wheld) /\ Len(file) = 0 /\ Len(written) = 0
    BY <1>2
  <1>5. Walk
    <2>1. written \in Seq(RecordType)
      BY <1>2
    <2>2. trail = [i \in 1 .. Len(trail) |-> trail[i]]
      BY <1>2
    <2>3. \A i \in 1 .. Len(file) : Step(i)
      BY <1>4
    <2> QED
      BY <1>2, <1>3, <1>4, <2>1, <2>2, <2>3 DEF Walk
  <1>6. Following
    <2>1. trail[consumed + 1] = Point(state, held)
      BY <1>2, <1>4
    <2>2. admitted = SubSeq(written, 1, consumed)
      BY <1>2
    <2>3. ~ done
      BY <1>2
    <2> QED
      BY <2>1, <2>2, <2>3, <1>2 DEF Following
  <1> QED
    BY <1>1, <1>5, <1>6 DEF ExchangeInv

(* A call of Next moves the reader one point along the trail, or tells it    *)
(* the end of a file it has read to the end.                                *)
LEMMA ReadingKeeps == ExchangeInv /\ Reading => ExchangeInv'
  <1> SUFFICES ASSUME ExchangeInv, Reading
               PROVE  ExchangeInv'
    OBVIOUS
  <1>1. ReaderInv'
    BY NextKeeps DEF Reading, ExchangeInv
  <1>2. UNCHANGED <<layout, file, ended, wstate, wheld, written, trail>>
    BY DEF Reading, Next, Again, EndOfInput, Admit, Refuse, writer
  <1>3. Walk'
    BY <1>2 DEF ExchangeInv, Walk, Step, TakenAt, A, Leaving, Takes, Rival
  <1>4. /\ consumed \in Nat /\ Len(file) \in Nat /\ consumed <= Len(file)
        /\ Len(written) = Len(file) /\ written \in Seq(RecordType)
    BY DEF ExchangeInv, ReaderInv, Progress, Walk
  <1>5. Following'
    <2>1. CASE Again
      BY <2>1, <1>2 DEF Again, Says, ExchangeInv, Following, A
    <2>2. CASE EndOfInput
      <3>1. /\ consumed = Len(file) /\ ended # "open" /\ done' = TRUE
            /\ UNCHANGED <<state, held, consumed, admitted>>
        BY <2>2 DEF EndOfInput
      <3>2. state = wstate /\ held = wheld
        BY <3>1 DEF ExchangeInv, Walk, Following, Point
      <3>3. said' = IF Accepts(A, state, held) THEN "eof" ELSE "truncated"
        BY <2>2, GuardsAreBound DEF EndOfInput, Says, ExchangeInv, ReaderInv
      <3>4. ended = "closed" => Accepts(A, state, held)
        BY <3>2 DEF ExchangeInv, Following
      <3>5. ended \in {"closed", "abandoned"}
        BY <3>1 DEF ExchangeInv, ReaderInv, Progress
      <3> QED
        BY <3>1, <3>3, <3>4, <3>5, <1>2 DEF ExchangeInv, Following, A
    <2>3. CASE Admit
      <3>1. AtRecord /\ UNCHANGED done /\ consumed' = consumed + 1 /\ said' = "record" /\ ~ done
        BY <2>3 DEF Admit, AtRecord, Says
      <3>2. Point(state', held') = trail[consumed + 2] /\ admitted' = Append(admitted, written[consumed + 1])
        BY <2>3, <3>1, AtWrittenRecord
      <3>3. trail'[consumed' + 1] = Point(state', held')
        BY <1>2, <1>4, <3>1, <3>2
      <3>4. consumed < Len(file)
        BY <3>1 DEF AtRecord
      <3>5. admitted' = SubSeq(written, 1, consumed + 1)
        BY <3>2, <3>4, <1>4 DEF ExchangeInv, Following
      <3>6. ended = "closed" => Accepts(A, wstate, wheld)
        BY DEF ExchangeInv, Following
      <3> QED
        BY <3>1, <3>3, <3>5, <3>6, <1>2 DEF Following, A
    <2>4. CASE Refuse
      BY <2>4, AtWrittenRecord DEF Refuse
    <2> QED
      BY <2>1, <2>2, <2>3, <2>4 DEF Reading, Next
  <1> QED
    BY <1>1, <1>3, <1>5 DEF ExchangeInv

(* One more element at the end of a sequence.                               *)
LEMMA OneMore ==
    ASSUME NEW q, NEW x, Len(q) \in Nat, q = [i \in 1 .. Len(q) |-> q[i]]
    PROVE  /\ Len(Append(q, x)) = Len(q) + 1
           /\ Append(q, x) = [i \in 1 .. Len(q) + 1 |-> Append(q, x)[i]]
           /\ \A i \in 1 .. Len(q) : Append(q, x)[i] = q[i]
           /\ Append(q, x)[Len(q) + 1] = x
  <1> DEFINE S == {q[i] : i \in 1 .. Len(q)} \cup {x}
  <1>1. q \in Seq(S)
    OBVIOUS
  <1>2. x \in S
    OBVIOUS
  <1> HIDE DEF S
  <1>3. /\ Append(q, x) \in Seq(S)
        /\ Len(Append(q, x)) = Len(q) + 1
        /\ \A i \in 1 .. Len(q) : Append(q, x)[i] = q[i]
        /\ Append(q, x)[Len(q) + 1] = x
    BY <1>1, <1>2, AppendProperties
  <1> DEFINE a == Append(q, x)
  <1> HIDE DEF a
  <1>4. ASSUME a \in Seq(S), Len(a) = Len(q) + 1
        PROVE  a = [i \in 1 .. Len(q) + 1 |-> a[i]]
    BY <1>4
  <1> QED
    BY <1>3, <1>4 DEF a

(* A record written puts one more point on the trail, and leaves those the   *)
(* reader has yet to come to where they were.                               *)
LEMMA WriteKeeps == ExchangeInv /\ Write /\ UNCHANGED reader => ExchangeInv'
  <1> SUFFICES ASSUME ExchangeInv, Write, UNCHANGED reader
               PROVE  ExchangeInv'
    OBVIOUS
  <1>1. PICK R \in RecordType, raw \in Inputs :
           /\ ended = "open" /\ Len(file) < MaxRecords /\ Conforms(R, raw)
           /\ \E t \in Takeable(R, raw) :
                 /\ ~ Forged(t, raw)
                 /\ file' = Append(file, raw)
                 /\ wstate' = t.to
                 /\ wheld' = Bound(t, wheld, raw)
                 /\ trail' = Append(trail, Point(t.to, Bound(t, wheld, raw)))
           /\ written' = Append(written, R)
           /\ UNCHANGED <<layout, ended>>
    BY DEF Write
  <1>2. PICK t \in Takeable(R, raw) :
           /\ ~ Forged(t, raw)
           /\ file' = Append(file, raw)
           /\ wstate' = t.to
           /\ wheld' = Bound(t, wheld, raw)
           /\ trail' = Append(trail, Point(t.to, Bound(t, wheld, raw)))
    BY <1>1
  <1> DEFINE n == Len(file)
  <1>3. /\ n \in Nat /\ file \in Seq(Inputs) /\ written \in Seq(RecordType)
        /\ Len(written) = n /\ Len(trail) = n + 1
        /\ consumed \in 0 .. n
    BY DEF ExchangeInv, ReaderInv, Progress, Walk
  <1>4. /\ file' \in Seq(Inputs) /\ Len(file') = n + 1
        /\ file'[n + 1] = raw /\ \A i \in 1 .. n : file'[i] = file[i]
    BY <1>2, <1>3
  <1>5. /\ written' \in Seq(RecordType) /\ Len(written') = n + 1
        /\ written'[n + 1] = R /\ \A i \in 1 .. n : written'[i] = written[i]
    BY <1>1, <1>3
  <1>6. /\ Len(trail') = n + 2
        /\ trail' = [i \in 1 .. Len(trail') |-> trail'[i]]
        /\ trail'[n + 2] = Point(wstate', wheld')
        /\ \A i \in 1 .. n + 1 : trail'[i] = trail[i]
    <2>1. trail = [i \in 1 .. Len(trail) |-> trail[i]] /\ Len(trail) \in Nat
      BY <1>3 DEF ExchangeInv, Walk
    <2>2. /\ Len(trail') = Len(trail) + 1
          /\ trail' = [i \in 1 .. Len(trail) + 1 |-> trail'[i]]
          /\ \A i \in 1 .. Len(trail) : trail'[i] = trail[i]
          /\ trail'[Len(trail) + 1] = Point(t.to, Bound(t, wheld, raw))
      BY <2>1, <1>2, OneMore
    <2>3. Len(trail) + 1 = n + 2 /\ Len(trail) = n + 1
      BY <1>3
    <2> HIDE DEF n
    <2> QED
      BY <2>2, <2>3, <1>2
  <1>7. A' = A /\ layout' = layout /\ layout \in Layouts
    BY <1>1 DEF A, ExchangeInv, ReaderInv, Read
  <1>8. t \in A.transitions /\ t \in Leaving(A, wstate)
    BY <1>2 DEF Takeable, Leaving
  <1>9. ReaderInv'
    <2>1. UNCHANGED <<layout, reader>> /\ ended' \in {"open", "closed", "abandoned"}
      BY <1>1
    <2>2. MaxRecords \in Nat
      BY Records
    <2>3. Len(file) <= Len(file') /\ Len(file') <= MaxRecords
      BY <1>1, <1>3, <1>4, <2>2
    <2> QED
      BY <1>4, <2>1, <2>3, GrowingKeeps DEF ExchangeInv
  <1>10. Walk'
    <2>1. wstate' \in A.states /\ DOMAIN wheld' \subseteq A.registers
      <3>1. WellFormed(A)
        BY <1>7, LayoutCompiles
      <3>2. DOMAIN wheld' = DOMAIN wheld \cup t.less \cup t.binds
        BY <1>2 DEF Bound
      <3> QED
        BY <1>2, <1>8, <3>1, <3>2 DEF WellFormed, ExchangeInv, Walk
    <2>2. ASSUME NEW i \in 1 .. n + 1
          PROVE  Step(i)'
      <3>1. CASE i # n + 1
        <4>1. i \in 1 .. n /\ i \in 1 .. n + 1 /\ i + 1 \in 1 .. n + 1
          BY <3>1, <1>3
        <4>2. /\ file'[i] = file[i] /\ written'[i] = written[i]
              /\ trail'[i] = trail[i] /\ trail'[i + 1] = trail[i + 1]
          BY <4>1, <1>4, <1>5, <1>6
        <4>3. Step(i)
          BY <4>1 DEF ExchangeInv, Walk
        <4> QED
          BY <4>2, <4>3, <1>7 DEF Step, TakenAt, Leaving, Takes, Rival
      <3>2. CASE i = n + 1
        <4>1. n + 1 \in 1 .. n + 1
          BY <1>3
        <4>2. trail'[n + 1] = Point(wstate, wheld)
          BY <4>1, <1>6 DEF ExchangeInv, Walk
        <4>3. trail'[n + 1].state = wstate /\ trail'[n + 1].held = wheld
          BY <4>2 DEF Point
        <4>4. \A u \in Leaving(A, wstate) : Rival(u, t) => ~ Takes(u, wheld, raw)
          BY <1>2 DEF Forged
        <4>5. t.record = R /\ Takes(t, wheld, raw)
          BY <1>2 DEF Takeable
        <4>6. TakenAt(t, trail'[n + 1], written'[n + 1], file'[n + 1])
          BY <1>1, <1>4, <1>5, <1>8, <4>3, <4>4, <4>5 DEF TakenAt
        <4>7. trail'[n + 1 + 1] = Point(t.to, Bound(t, trail'[n + 1].held, file'[n + 1]))
          <5>1. n + 1 + 1 = n + 2
            BY <1>3
          <5> QED
            BY <5>1, <4>3, <1>2, <1>4, <1>6
        <4>8. \E v \in A.transitions :
                 /\ TakenAt(v, trail'[n + 1], written'[n + 1], file'[n + 1])
                 /\ trail'[n + 1 + 1] = Point(v.to, Bound(v, trail'[n + 1].held, file'[n + 1]))
          BY <1>8, <4>6, <4>7
        <4> QED
          BY <3>2, <4>8, <1>7 DEF Step, TakenAt, Leaving, Takes, Rival
      <3> QED
        BY <3>1, <3>2
    <2>3. Len(trail') = Len(file') + 1 /\ trail'[Len(file') + 1] = Point(wstate', wheld')
          /\ Len(written') = Len(file')
      <3>1. n + 1 + 1 = n + 2
        BY <1>3
      <3> QED
        BY <3>1, <1>4, <1>5, <1>6
    <2> QED
      BY <1>4, <1>5, <1>6, <1>7, <2>1, <2>2, <2>3 DEF Walk
  <1>11. Following'
    <2>1. UNCHANGED <<state, held, consumed, admitted, done, said>>
      BY DEF reader
    <2>2. trail'[consumed + 1] = trail[consumed + 1]
      <3>1. consumed + 1 \in 1 .. n + 1
        BY <1>3
      <3> QED
        BY <3>1, <1>6
    <2>3. SubSeq(written', 1, consumed) = SubSeq(written, 1, consumed)
      BY <1>1, <1>3
    <2>4. ~ done /\ ended = "open" /\ ended' = "open" /\ said # "truncated"
      BY <1>1 DEF ExchangeInv, Following
    <2> QED
      BY <2>1, <2>2, <2>3, <2>4 DEF ExchangeInv, Following
  <1> QED
    BY <1>9, <1>10, <1>11 DEF ExchangeInv

(* The writer closing the file, or leaving it.                              *)
LEMMA EndingKeeps ==
    ASSUME ExchangeInv, UNCHANGED <<layout, file, writer, reader>>, ended = "open",
           ended' \in {"closed", "abandoned"},
           ended' = "closed" => Accepts(A, wstate, wheld)
    PROVE  ExchangeInv'
  <1>1. UNCHANGED <<wstate, wheld, written, trail, state, held, consumed, admitted, done, said>>
    BY DEF writer, reader
  <1>2. ReaderInv'
    <2>1. Len(file) \in Nat /\ Len(file) <= MaxRecords /\ file \in Seq(Inputs)
      BY DEF ExchangeInv, ReaderInv, Progress
    <2> QED
      BY <2>1, GrowingKeeps DEF ExchangeInv
  <1>3. Walk'
    BY <1>1 DEF ExchangeInv, Walk, Step, TakenAt, A, Leaving, Takes, Rival
  <1>4. Following'
    BY <1>1 DEF ExchangeInv, Following, A
  <1> QED
    BY <1>2, <1>3, <1>4 DEF ExchangeInv

LEMMA ExchangeInvariant == ExchangeSpec => []ExchangeInv
  <1>1. ExchangeInv /\ [ExchangeNext]_exchangeVars => ExchangeInv'
    <2> SUFFICES ASSUME ExchangeInv, [ExchangeNext]_exchangeVars
                 PROVE  ExchangeInv'
      OBVIOUS
    <2>1. CASE Reading
      BY <2>1, ReadingKeeps
    <2>2. CASE Writing
      <3>1. CASE Write
        BY <2>2, <3>1, WriteKeeps DEF Writing
      <3>2. CASE Close
        BY <2>2, <3>2, EndingKeeps DEF Writing, Close
      <3> QED
        BY <2>2, <3>1, <3>2 DEF Writing
    <2>3. CASE Abandoned
      BY <2>3, EndingKeeps DEF Abandoned, Stop
    <2>4. CASE UNCHANGED exchangeVars
      <3>1. UNCHANGED <<layout, file, ended, reader, writer>>
        BY <2>4 DEF exchangeVars
      <3>2. ReaderInv'
        BY <3>1 DEF reader, ExchangeInv, ReaderInv, Read, Progress, A
      <3>3. Walk'
        BY <3>1 DEF writer, ExchangeInv, Walk, Step, TakenAt, A, Leaving, Takes, Rival
      <3>4. Following'
        BY <3>1 DEF reader, writer, ExchangeInv, Following, A
      <3> QED
        BY <3>2, <3>3, <3>4 DEF ExchangeInv
    <2> QED
      BY <2>1, <2>2, <2>3, <2>4 DEF ExchangeNext
  <1> QED
    BY <1>1, ExchangeStarts, PTL DEF ExchangeSpec

-----------------------------------------------------------------------------
(* What the invariant gives.                                               *)

(* Every variable of a writer and a reader at one file stays in its type.    *)
THEOREM ExchangeTyped == ExchangeSpec => []ExchangeTypeOK
  <1>1. ReaderInv => ReaderTypeOK
    BY DEF ReaderInv, Read, Progress, ReaderTypeOK, Value
  <1>2. ExchangeInv => ExchangeTypeOK
    BY <1>1 DEF ExchangeInv, Walk, ExchangeTypeOK
  <1> QED
    BY <1>2, ExchangeInvariant, PTL

(* A reader is always somewhere the writer was, holding what it held there:  *)
(* the rival checks of rival.go and the ambiguity proof of resolve together   *)
(* leave no record that the two take differently.                          *)
THEOREM ReaderFollows == ExchangeSpec => []ReaderFollowsWriter
  <1>1. ExchangeInv => ReaderFollowsWriter
    BY DEF ExchangeInv, Following, ReaderFollowsWriter
  <1> QED
    BY <1>1, ExchangeInvariant, PTL

(* The only fault a reader reports of what a writer wrote is that a file the  *)
(* writer never closed is cut short (Writer.Close in writer.go).            *)
THEOREM WritersAreReadable == ExchangeSpec => []WrittenIsReadable
  <1>1. ExchangeInv => WrittenIsReadable
    BY DEF ExchangeInv, Following, WrittenIsReadable, Faults
  <1> QED
    BY <1>1, ExchangeInvariant, PTL

(* A writer and a reader of one layout implement a queue of records.        *)
THEOREM ExchangeIsAQueue == ExchangeSpec => DeliversInOrder
  <1>1. ExchangeInit => Queue!QueueInit
    BY DEF ExchangeInit, StreamInit, ReaderInit, WriterInit, Queue!QueueInit
  <1>2. ExchangeInv /\ ExchangeInv' /\ [ExchangeNext]_exchangeVars
           => [Queue!Send \/ Queue!Finish \/ Queue!Deliver \/ Queue!Report]_Queue!queue
    <2> SUFFICES ASSUME ExchangeInv, ExchangeInv', [ExchangeNext]_exchangeVars
                 PROVE  [Queue!Send \/ Queue!Finish \/ Queue!Deliver \/ Queue!Report]_Queue!queue
      OBVIOUS
    <2>1. /\ consumed \in Nat /\ consumed <= Len(written)
          /\ written \in Seq(RecordType) /\ Len(written) = Len(file)
          /\ admitted = SubSeq(written, 1, consumed)
      BY DEF ExchangeInv, ReaderInv, Progress, Walk, Following
    <2>2. Len(admitted) = consumed
      BY <2>1
    <2>3. CASE Reading
      <3>1. UNCHANGED <<written, ended>>
        BY <2>3 DEF Reading, writer, Next, Again, EndOfInput, Admit, Refuse
      <3>2. CASE Again \/ EndOfInput
        <4>1. UNCHANGED admitted /\ consumed = Len(file) /\ ended # "open" /\ done'
          BY <3>2 DEF Again, EndOfInput, ExchangeInv, Following
        <4>2. admitted = written
          BY <4>1, <2>1
        <4>3. said' \in {"eof", "truncated"}
          BY <3>2, GuardsAreBound DEF Again, EndOfInput, Says, ExchangeInv, ReaderInv
        <4>4. said' \in IF ended = "closed" THEN {"eof"} ELSE {"eof", "truncated"}
          BY <4>1, <4>3, <3>1 DEF ExchangeInv, Following
        <4>5. Queue!Report
          BY <4>1, <4>2, <4>4, <3>1 DEF Queue!Report
        <4> QED
          BY <4>5
      <3>3. CASE Admit
        <4>1. AtRecord /\ said' = "record" /\ admitted' = Append(admitted, written[consumed + 1])
          BY <3>3, AtWrittenRecord DEF Admit, Says
        <4>2. consumed < Len(file)
          BY <4>1 DEF AtRecord
        <4>3. Queue!Deliver
          BY <4>1, <4>2, <2>1, <2>2, <3>1 DEF Queue!Deliver
        <4> QED
          BY <4>3
      <3>4. CASE Refuse
        BY <3>4, AtWrittenRecord DEF Refuse
      <3> QED
        BY <2>3, <3>2, <3>3, <3>4 DEF Reading, Next
    <2>4. CASE Writing
      <3>1. UNCHANGED <<admitted, said>>
        BY <2>4 DEF Writing, reader
      <3>2. CASE Write
        <4>1. ended = "open" /\ ended' = ended /\ \E R \in RecordType : written' = Append(written, R)
          BY <3>2 DEF Write
        <4>2. Queue!Send
          BY <4>1, <3>1 DEF Queue!Send
        <4> QED
          BY <4>2
      <3>3. CASE Close
        <4>1. ended = "open" /\ ended' \in {"closed", "abandoned"} /\ UNCHANGED written
          BY <3>3 DEF Close, writer
        <4>2. Queue!Finish
          BY <4>1, <3>1 DEF Queue!Finish
        <4> QED
          BY <4>2
      <3> QED
        BY <2>4, <3>2, <3>3 DEF Writing
    <2>5. CASE Abandoned
      <3>1. ended = "open" /\ ended' = "abandoned" /\ UNCHANGED <<written, admitted, said>>
        BY <2>5 DEF Abandoned, Stop, reader, writer
      <3>2. Queue!Finish
        BY <3>1 DEF Queue!Finish
      <3> QED
        BY <3>2
    <2>6. CASE UNCHANGED exchangeVars
      <3>1. UNCHANGED <<written, ended, admitted, said>>
        BY <2>6 DEF exchangeVars, reader, writer
      <3> QED
        BY <3>1 DEF Queue!queue
    <2> QED
      BY <2>3, <2>4, <2>5, <2>6 DEF ExchangeNext
  <1> QED
    BY <1>1, <1>2, ExchangeInvariant, PTL DEF ExchangeSpec, DeliversInOrder, Queue!QueueSpec

=============================================================================
