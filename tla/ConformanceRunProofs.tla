----------------------- MODULE ConformanceRunProofs ------------------------
(***************************************************************************)
(* What a conformance run guarantees for a corpus of any size, any entries *)
(* that state read axes, and pipes of any capacity: its report has one     *)
(* result for every entry, no process outlives it, and it restarts fewer   *)
(* times than the corpus has entries; it asks an adapter only what the     *)
(* contract lets it ask, a misdeed costs no second entry, and a verdict    *)
(* says what the adapter said.                                             *)
(***************************************************************************)
EXTENDS ConformanceRun, FiniteSetTheorems, WellFoundedInduction, TLAPS

(* What the engine has not answered for pays for the restarts there were.  *)
RestartsPaidFor == restarts + Cardinality(left) <= Count

(* Where the engine waits over an entry there is one whose turn it is.     *)
OverTheTurn ==
  pc \in {"sending", "receiving", "ending", "reaping"} /\ AboutAnEntry => left # {}

IInv == TypeOK /\ OneResultEach /\ RestartsPaidFor /\ OverTheTurn

-----------------------------------------------------------------------------
(* The entry whose turn it is is one of those left.                        *)
LEMMA TurnIsLeft == ASSUME left \in SUBSET Entry, left # {} PROVE Turn \in left
<1>1. left \in SUBSET Nat
  BY CountAssumption DEF Entry
<1>2. PICK e \in left : \A f \in left : e <= f
  <2> DEFINE Less == OpToRel(<, Nat)
  <2>1. IsWellFoundedOn(Less, Nat)
    BY NatLessThanWellFounded
  <2>2. \A f, e \in left : <<f, e>> \in Less <=> f < e
    BY <1>1 DEF OpToRel
  <2> HIDE DEF Less
  <2>3. PICK e \in left : \A f \in left : ~ (<<f, e>> \in Less)
    <3>1. left \subseteq Nat /\ left # {}
      BY <1>1
    <3> QED BY <3>1, <2>1, WFMin
  <2>4. \A f \in left : ~ (f < e) => e <= f
    BY <1>1
  <2> QED BY <2>2, <2>3, <2>4
<1> QED BY <1>2 DEF Turn

LEMMA EntriesFinite == ASSUME NEW es \in SUBSET Entry PROVE IsFiniteSet(es)
<1>1. 1 \in Int /\ Count \in Int
  BY CountAssumption
<1>2. IsFiniteSet(Entry)
  BY <1>1, FS_Interval DEF Entry
<1> QED BY <1>2, FS_Subset

(* A process's answers are frames.                                         *)
LEMMA RefusalTyped == ASSUME NEW req \in Request PROVE Refusal(req) \in Frame
BY DEF Refusal, Request, Frame, Silent, Declaration

LEMMA ServedTyped == ASSUME NEW req \in Request PROVE Served(req) \subseteq Frame
<1>1. (IF req.op = "hello" THEN Declaration ELSE {Silent}) \subseteq Declaration
  <2>1. Silent \in Declaration
    BY DEF Silent, Declaration
  <2> QED BY <2>1
<1>2. (IF req.op = "generate" THEN SUBSET req.about ELSE {{}}) \subseteq SUBSET Entry
  BY DEF Request
<1>3. /\ (IF req.op \in {"decode", "roundtrip"} THEN BOOLEAN ELSE {FALSE}) \subseteq BOOLEAN
      /\ (IF req.op = "decode" THEN BOOLEAN ELSE {FALSE}) \subseteq BOOLEAN
  OBVIOUS
<1>4. req.id \in Nat /\ req.op \in Ops /\ req.about \in SUBSET Entry
  BY DEF Request
<1> DEFINE D == IF req.op = "hello" THEN Declaration ELSE {Silent}
           S == IF req.op = "generate" THEN SUBSET req.about ELSE {{}}
           A == IF req.op \in {"decode", "roundtrip"} THEN BOOLEAN ELSE {FALSE}
           W == IF req.op = "decode" THEN BOOLEAN ELSE {FALSE}
           K == {TRUE}
<1>6. D \subseteq Declaration /\ S \subseteq SUBSET Entry /\ A \subseteq BOOLEAN
      /\ W \subseteq BOOLEAN /\ K \subseteq BOOLEAN
  BY <1>1, <1>2, <1>3
<1>7. Served(req) = [id : {req.id}, op : {req.op}, about : {req.about}, ok : K,
                     declares : D, lacks : S, agrees : A, whole : W]
  BY DEF Served
<1> HIDE DEF D, S, A, W, K
<1> SUFFICES ASSUME NEW f \in Served(req) PROVE f \in Frame
  OBVIOUS
<1>8. f = [id |-> f.id, op |-> f.op, about |-> f.about, ok |-> f.ok, declares |-> f.declares,
           lacks |-> f.lacks, agrees |-> f.agrees, whole |-> f.whole]
  BY <1>7
<1>a. f.id = req.id /\ f.op = req.op /\ f.about = req.about
  BY <1>7
<1>b. f.declares \in D /\ f.lacks \in S
  BY <1>7
<1>c. f.ok \in K /\ f.agrees \in A /\ f.whole \in W
  BY <1>7
<1>9. /\ f.id \in Nat /\ f.op \in Ops \cup {"garbage"} /\ f.about \in SUBSET Entry
  BY <1>4, <1>a
<1>10. f.declares \in Declaration /\ f.lacks \in SUBSET Entry
  BY <1>6, <1>b
<1>11. f.ok \in BOOLEAN /\ f.agrees \in BOOLEAN /\ f.whole \in BOOLEAN
  BY <1>6, <1>c
<1> QED BY <1>8, <1>9, <1>10, <1>11 DEF Frame

(* A misbehaving adapter breaks no type either.                            *)
LEMMA ReadTyped ==
  ASSUME inbox \in Seq(Request), Reads
  PROVE  Head(inbox) \in Request /\ inbox' \in Seq(Request)
BY DEF Reads

LEMMA AdapterTyped == ASSUME AdapterTypeOK, Adapter PROVE AdapterTypeOK'
<1> USE DEF AdapterTypeOK
<1>1. CASE Answers
  <2>1. PICK f \in Served(Head(inbox)) :
          /\ Writes(f) /\ Learns(f) /\ lately' = {f}
          /\ unpaid' = unpaid + Cardinality(f.lacks)
    BY <1>1 DEF Answers
  <2>2. Head(inbox) \in Request /\ inbox' \in Seq(Request)
    BY <1>1 DEF Answers, Reads
  <2>3. f \in Frame
    BY <2>2, ServedTyped
  <2>4. f.about \subseteq Entry /\ f.lacks \subseteq Entry /\ f.declares \in Declaration
        /\ f.agrees \in BOOLEAN
    BY <2>3 DEF Frame
  <2>5. Cardinality(f.lacks) \in Nat
    BY <2>4, EntriesFinite, FS_CardinalityType
  <2>6. unpaid' \in Int
    BY <2>1, <2>5
  <2>7. outbox' \in Seq(Frame) /\ lately' \in SUBSET Frame
    BY <2>1, <2>3 DEF Writes
  <2>8. declared' \in Declaration /\ able' \in SUBSET Entry /\ holding' \in SUBSET Entry
    BY <2>1, <2>4 DEF Learns
  <2>9. told' \in [decode : SUBSET BOOLEAN, roundtrip : SUBSET BOOLEAN]
    BY <2>1, <2>4 DEF Learns
  <2> QED BY <1>1, <2>2, <2>6, <2>7, <2>8, <2>9 DEF Answers
<1>2. CASE Refuses
  <2>1. Head(inbox) \in Request /\ inbox' \in Seq(Request)
    BY <1>2 DEF Refuses, Reads
  <2>2. Refusal(Head(inbox)) \in Frame
    BY <2>1, RefusalTyped
  <2> QED BY <1>2, <2>1, <2>2 DEF Refuses, Writes
<1>3. CASE AnswersAboutAnother
  <2>1. Head(inbox) \in Request /\ inbox' \in Seq(Request)
    BY <1>3, ReadTyped DEF AnswersAboutAnother
  <2>2. PICK e \in Entry :
          \E f \in Served([Head(inbox) EXCEPT !.about = {e}]) : Writes(f) /\ lately' = {f}
    BY <1>3 DEF AnswersAboutAnother
  <2> DEFINE req == [Head(inbox) EXCEPT !.about = {e}]
  <2>3. req \in Request
    BY <2>1 DEF Request
  <2>4. \E f \in Served(req) : Writes(f) /\ lately' = {f}
    BY <2>2
  <2> HIDE DEF req
  <2>5. PICK f \in Served(req) : Writes(f) /\ lately' = {f}
    BY <2>4
  <2>6. f \in Frame
    BY <2>3, <2>5, ServedTyped
  <2>7. outbox' \in Seq(Frame) /\ lately' \in SUBSET Frame
    BY <2>5, <2>6 DEF Writes
  <2> QED BY <1>3, <2>1, <2>7 DEF AnswersAboutAnother
<1>4. CASE Repeats
  BY <1>4 DEF Repeats, Writes
<1>5. CASE Babbles
  <2>1. Garbage \in Frame
    BY DEF Garbage, Frame, Silent, Declaration
  <2> QED BY <1>5, <2>1 DEF Babbles, Writes
<1>6. CASE Exits
  BY <1>6 DEF Exits
<1>7. CASE LetsGo
  BY <1>7 DEF LetsGo
<1> QED BY <1>1, <1>2, <1>3, <1>4, <1>5, <1>6, <1>7 DEF Adapter

LEMMA ReceivesTyped ==
  ASSUME AdapterTypeOK, NEW op, Receives(op)
  PROVE  Came \in Frame /\ outbox' \in Seq(Frame)
BY DEF AdapterTypeOK, Receives, Came

LEMMA ReapedTyped ==
  ASSUME process' \in {"none", "up", "exited"}, Forgotten, unpaid' \in Int
  PROVE  AdapterTypeOK'
<1>1. Silent \in Declaration /\ Untold \in [decode : SUBSET BOOLEAN, roundtrip : SUBSET BOOLEAN]
  BY DEF Silent, Declaration, Untold
<1>2. inbox' \in Seq(Request) /\ outbox' \in Seq(Frame)
  BY DEF Forgotten
<1> QED BY <1>1, <1>2 DEF Forgotten, AdapterTypeOK

-----------------------------------------------------------------------------
(* Entries that are given a result, and are left no longer.                *)
LEMMA ListedOnce ==
  ASSUME TypeOK, OneResultEach, NEW es \in SUBSET left, NEW o \in Outcome
  PROVE  /\ Listed(es, o) \in [Entry -> Seq(Outcome)]
         /\ ~notApplicable =>
              \A e \in Entry : Len(Listed(es, o)[e]) = IF e \in left \ es THEN 0 ELSE 1
<1>1. \A e \in Entry : results[e] \in Seq(Outcome)
  BY DEF TypeOK
<1>2. \A e \in Entry : Append(results[e], o) \in Seq(Outcome)
                       /\ Len(Append(results[e], o)) = Len(results[e]) + 1
  BY <1>1
<1>3. \A e \in Entry : Listed(es, o)[e] =
                         IF e \in es THEN Append(results[e], o) ELSE results[e]
  BY DEF Listed
<1>4. Listed(es, o) \in [Entry -> Seq(Outcome)]
  BY <1>1, <1>2 DEF Listed
<1>5. ASSUME ~notApplicable, NEW e \in Entry
      PROVE  Len(Listed(es, o)[e]) = IF e \in left \ es THEN 0 ELSE 1
  <2>1. Len(results[e]) = IF e \in left THEN 0 ELSE 1
    BY <1>5 DEF OneResultEach
  <2>2. CASE e \in es
    <3>1. e \in left
      BY <2>2
    <3>2. Len(results[e]) = 0
      BY <3>1, <2>1
    <3>3. Len(Append(results[e], o)) = Len(results[e]) + 1
      BY <1>2
    <3>4. Listed(es, o)[e] = Append(results[e], o)
      BY <2>2, <1>3
    <3>5. Len(Listed(es, o)[e]) = 1
      BY <3>2, <3>3, <3>4
    <3> QED BY <3>5, <2>2
  <2>3. CASE e \notin es
    BY <2>1, <2>3, <1>3
  <2> QED BY <2>2, <2>3
<1> QED BY <1>4, <1>5

LEMMA LeftIsFinite ==
  ASSUME left \in SUBSET Entry
  PROVE  /\ Cardinality(left) \in Nat
         /\ \A es \in SUBSET left : Cardinality(left \ es) \in Nat
                                    /\ Cardinality(left \ es) <= Cardinality(left)
         /\ \A e \in left : Cardinality(left \ {e}) = Cardinality(left) - 1
         /\ left # {} => Cardinality(left) > 0
<1>1. IsFiniteSet(left)
  BY EntriesFinite
<1>2. Cardinality(left) \in Nat
  BY <1>1, FS_CardinalityType
<1>3. \A es \in SUBSET left : Cardinality(left \ es) \in Nat
                              /\ Cardinality(left \ es) <= Cardinality(left)
  <2> TAKE es \in SUBSET left
  <2>1. left \ es \subseteq left
    OBVIOUS
  <2> QED BY <1>1, <2>1, FS_Subset, FS_CardinalityType
<1>4. \A e \in left : Cardinality(left \ {e}) = Cardinality(left) - 1
  BY <1>1, FS_RemoveElement
<1>5. left # {} => Cardinality(left) > 0
  BY <1>1, <1>2, FS_EmptySet
<1> QED BY <1>2, <1>3, <1>4, <1>5

(* A result for the entry whose turn it is.                                *)
LEMMA Concluding ==
  ASSUME IInv, left # {}, NEW o \in Outcome, Concludes(o)
  PROVE  /\ results' \in [Entry -> Seq(Outcome)]
         /\ left' \in SUBSET Entry
         /\ Cardinality(left') = Cardinality(left) - 1
         /\ ~notApplicable =>
              \A e \in Entry : Len(results'[e]) = IF e \in left' THEN 0 ELSE 1
<1>1. left \in SUBSET Entry /\ TypeOK /\ OneResultEach
  BY DEF IInv, TypeOK
<1>2. Turn \in left
  BY <1>1, TurnIsLeft
<1>3. {Turn} \in SUBSET left
  BY <1>2
<1>4. results' = Listed({Turn}, o) /\ left' = left \ {Turn}
  BY DEF Concludes
<1> QED BY <1>1, <1>2, <1>3, <1>4, ListedOnce, LeftIsFinite

(* A step that gives no result, leaves no entry out and does not end the   *)
(* run keeps everything but the types of what it does change.              *)
LEMMA ReportLeftAlone ==
  ASSUME IInv, UNCHANGED <<left, results, notApplicable, restarts>>,
         pc' # "finished", TypeOK', OverTheTurn'
  PROVE  IInv'
BY DEF IInv, OneResultEach, RestartsPaidFor

(* Every step that ends the run lists what it leaves as lost.              *)
LEMMA Finishing == ASSUME IInv, Finishes PROVE IInv'
<1>1. TypeOK /\ OneResultEach /\ RestartsPaidFor
  BY DEF IInv
<1>2. AdapterTypeOK'
  BY <1>1, ReapedTyped DEF Finishes, Reaped, TypeOK, AdapterTypeOK
<1>3. results' = Listed(left, "Faulted") /\ left' = {}
  BY DEF Finishes
<1>4. /\ results' \in [Entry -> Seq(Outcome)]
      /\ ~notApplicable => \A e \in Entry : Len(results'[e]) = 1
  BY <1>1, <1>3, ListedOnce DEF Outcome
<1>5. TypeOK'
  BY <1>1, <1>2, <1>3, <1>4 DEF Finishes, TypeOK
<1>6. OneResultEach'
  BY <1>3, <1>4 DEF Finishes, OneResultEach
<1>7. RestartsPaidFor'
  <2>1. Cardinality(left') = 0
    BY <1>3, FS_EmptySet
  <2>2. restarts' = restarts /\ restarts \in 0..(Count - 1)
    BY <1>1 DEF Finishes, TypeOK
  <2> QED BY <2>1, <2>2, CountAssumption DEF RestartsPaidFor
<1>8. OverTheTurn'
  BY DEF Finishes, OverTheTurn
<1> QED BY <1>5, <1>6, <1>7, <1>8 DEF IInv

-----------------------------------------------------------------------------
(* The steps that receive a frame and give no result.                      *)
LEMMA ReceivingStep ==
  ASSUME IInv,
         RefusedHello \/ CannotGenerate \/ Generates \/ DecodesWhole \/ ByeAnswered
  PROVE  IInv'
<1>0. TypeOK /\ AdapterTypeOK /\ OverTheTurn
  BY DEF IInv, TypeOK
<1>1. PICK op \in {"hello", "generate", "decode", "bye"} : Receives(op)
  BY DEF RefusedHello, CannotGenerate, Generates, DecodesWhole, ByeAnswered
<1>2. Came \in Frame /\ outbox' \in Seq(Frame)
  BY <1>0, <1>1, ReceivesTyped
<1>3. Came.declares \in Declaration /\ Came.lacks \in SUBSET Entry /\ Came.agrees \in BOOLEAN
  BY <1>2 DEF Frame
<1>4. UNCHANGED <<left, results, notApplicable, restarts, cancelled, session, unpaid>>
      /\ UNCHANGED <<process, held, inbox, declared, able, holding, lately, told>>
  BY <1>1 DEF RefusedHello, CannotGenerate, Generates, DecodesWhole, ByeAnswered, Receives,
       AdapterButOutbox
<1>5. AdapterTypeOK'
  BY <1>0, <1>2, <1>4 DEF AdapterTypeOK
<1>6. asking' \in Request /\ pc' \in {"sending", "choosing", "reaping", "ending"}
      /\ lacking' \in SUBSET Entry /\ agreed' \in BOOLEAN /\ OverTheTurn'
  <2>1. asking \in Request /\ lacking \in SUBSET Entry /\ agreed \in BOOLEAN
    BY <1>0 DEF TypeOK
  <2>2. \A o \in Ops, about \in SUBSET Entry :
          [id |-> asking.id + 1, op |-> o, about |-> about] \in Request
    BY <2>1 DEF Request
  <2>3. CASE RefusedHello
    BY <2>1, <2>3 DEF RefusedHello, Receives, OverTheTurn, AboutAnEntry
  <2>4. CASE CannotGenerate
    BY <2>1, <2>2, <2>4 DEF CannotGenerate, Ask, OverTheTurn, AboutAnEntry, Ops
  <2>5. CASE Generates
    BY <2>1, <2>5, <1>3 DEF Generates, OverTheTurn
  <2>6. CASE DecodesWhole
    <3>1. left # {}
      BY <1>0, <2>6 DEF DecodesWhole, Receives, OverTheTurn, AboutAnEntry
    <3>2. {Turn} \in SUBSET Entry
      BY <1>0, <3>1, TurnIsLeft DEF TypeOK
    <3> QED BY <2>1, <2>2, <2>6, <3>1, <3>2, <1>3, <1>4
            DEF DecodesWhole, Ask, OverTheTurn, Ops
  <2>7. CASE ByeAnswered
    BY <2>1, <2>7 DEF ByeAnswered, Receives, OverTheTurn, AboutAnEntry
  <2> QED BY <2>3, <2>4, <2>5, <2>6, <2>7
<1>7. TypeOK' /\ pc' # "finished"
  BY <1>0, <1>4, <1>5, <1>6 DEF TypeOK
<1> QED BY <1>4, <1>6, <1>7, ReportLeftAlone

(* The other steps that give no result.                                    *)
LEMMA WaitingStep ==
  ASSUME IInv,
         \/ Opens \/ Sends \/ CannotSend \/ TimesOut \/ HearsCancelled \/ Misreads
         \/ ReachesEnd \/ AsksToDecode \/ SaysGoodbye \/ GraceOver \/ IsCancelled
         \/ AdapterActs
  PROVE  IInv'
<1>0. TypeOK /\ AdapterTypeOK /\ OverTheTurn /\ asking \in Request /\ unpaid \in Int
  BY DEF IInv, TypeOK, AdapterTypeOK
<1>a. \A op \in Ops, about \in SUBSET Entry :
        [id |-> asking.id + 1, op |-> op, about |-> about] \in Request
  BY <1>0 DEF Request
<1>1. CASE Opens
  <2>1. [id |-> 1, op |-> "hello", about |-> {}] \in Request
    BY DEF Request, Ops
  <2>2. AdapterTypeOK'
    BY <1>1, ReapedTyped DEF Opens, Started
  <2>3. TypeOK' /\ OverTheTurn'
    BY <1>0, <1>1, <2>1, <2>2 DEF Opens, TypeOK, OverTheTurn, AboutAnEntry
  <2> QED BY <1>1, <2>3, ReportLeftAlone DEF Opens
<1>2. CASE Sends
  <2>1. AdapterTypeOK'
    BY <1>0, <1>2 DEF Sends, AdapterTypeOK
  <2>2. TypeOK' /\ OverTheTurn'
    BY <1>0, <1>2, <2>1 DEF Sends, TypeOK, OverTheTurn, AboutAnEntry
  <2> QED BY <1>2, <2>2, ReportLeftAlone DEF Sends
<1>3. CASE CannotSend \/ TimesOut \/ HearsCancelled \/ Misreads \/ ReachesEnd
  <2>1. Abandons /\ pc \in {"sending", "receiving"}
    BY <1>3 DEF CannotSend, TimesOut, BoundedWait, HearsCancelled, Misreads, ReachesEnd
  <2>2. unpaid' \in Int
    BY <1>0, <1>3 DEF CannotSend, TimesOut, HearsCancelled, Misreads, ReachesEnd
  <2>3. outbox' \in Seq(Frame)
    <3>1. outbox \in Seq(Frame)
      BY <1>0 DEF AdapterTypeOK
    <3>2. outbox' = outbox \/ (outbox # <<>> /\ outbox' = Tail(outbox))
      BY <1>3 DEF CannotSend, TimesOut, HearsCancelled, Misreads, ReachesEnd
    <3> QED BY <3>1, <3>2
  <2>4. AdapterTypeOK'
    BY <1>0, <2>1, <2>2, <2>3 DEF Abandons, AdapterTypeOK
  <2>5. TypeOK' /\ OverTheTurn'
    BY <1>0, <2>1, <2>4 DEF Abandons, TypeOK, OverTheTurn, AboutAnEntry
  <2> QED BY <2>1, <2>5, ReportLeftAlone DEF Abandons
<1>4. CASE AsksToDecode
  <2>1. {Turn} \in SUBSET Entry
    BY <1>0, <1>4, TurnIsLeft DEF AsksToDecode, TypeOK
  <2>2. AdapterTypeOK'
    BY <1>0, <1>4 DEF AsksToDecode, AdapterTypeOK, Untold
  <2>3. TypeOK' /\ OverTheTurn'
    BY <1>0, <1>a, <1>4, <2>1, <2>2 DEF AsksToDecode, Ask, Ops, TypeOK, OverTheTurn
  <2> QED BY <1>4, <2>3, ReportLeftAlone DEF AsksToDecode, Ask
<1>5. CASE SaysGoodbye
  <2>1. AdapterTypeOK'
    BY <1>0, <1>5 DEF SaysGoodbye, adapterVars, AdapterTypeOK
  <2>2. TypeOK' /\ OverTheTurn'
    BY <1>0, <1>a, <1>5, <2>1 DEF SaysGoodbye, Ask, Ops, TypeOK, OverTheTurn, AboutAnEntry
  <2> QED BY <1>5, <2>2, ReportLeftAlone DEF SaysGoodbye, Ask
<1>6. CASE GraceOver
  <2>1. AdapterTypeOK'
    BY <1>0, <1>6 DEF GraceOver, adapterVars, AdapterTypeOK
  <2>2. TypeOK' /\ OverTheTurn'
    BY <1>0, <1>6, <2>1 DEF GraceOver, TypeOK, OverTheTurn, AboutAnEntry
  <2> QED BY <1>6, <2>2, ReportLeftAlone DEF GraceOver
<1>7. CASE IsCancelled
  <2>1. AdapterTypeOK'
    BY <1>0, <1>7 DEF IsCancelled, adapterVars, AdapterTypeOK
  <2>2. TypeOK' /\ OverTheTurn'
    BY <1>0, <1>7, <2>1 DEF IsCancelled, TypeOK, OverTheTurn, AboutAnEntry
  <2> QED BY <1>7, <2>2, ReportLeftAlone DEF IsCancelled
<1>8. CASE AdapterActs
  <2>1. AdapterTypeOK'
    BY <1>0, <1>8, AdapterTyped DEF AdapterActs
  <2>2. TypeOK' /\ OverTheTurn'
    BY <1>0, <1>8, <2>1 DEF AdapterActs, engineVars, TypeOK, OverTheTurn, AboutAnEntry
  <2> QED BY <1>8, <2>2, ReportLeftAlone DEF AdapterActs, engineVars
<1> QED BY <1>1, <1>2, <1>3, <1>4, <1>5, <1>6, <1>7, <1>8

(* The steps that give the entry whose turn it is a result.                *)
LEMMA ConcludingStep ==
  ASSUME IInv, PassesOver \/ Decodes \/ Roundtrips \/ CannotAnswer
  PROVE  IInv'
<1>0. TypeOK /\ AdapterTypeOK /\ OverTheTurn /\ RestartsPaidFor
  BY DEF IInv, TypeOK
<1>1. left # {}
  BY <1>0 DEF PassesOver, Decodes, Roundtrips, CannotAnswer, Receives, OverTheTurn, AboutAnEntry
<1>2. PICK o \in Outcome : Concludes(o)
  BY DEF PassesOver, Decodes, Roundtrips, CannotAnswer, Faults, Judges, Outcome
<1>3. /\ results' \in [Entry -> Seq(Outcome)]
      /\ left' \in SUBSET Entry
      /\ Cardinality(left') = Cardinality(left) - 1
      /\ ~notApplicable =>
           \A e \in Entry : Len(results'[e]) = IF e \in left' THEN 0 ELSE 1
  BY <1>1, <1>2, Concluding
<1>4. pc' = "choosing"
      /\ UNCHANGED <<asking, session, lacking, agreed, notApplicable, restarts, cancelled>>
  BY DEF PassesOver, Decodes, Roundtrips, CannotAnswer, Receives
<1>5. outbox' \in Seq(Frame) /\ unpaid' \in Int
  <2>1. outbox \in Seq(Frame) /\ unpaid \in Int
    BY <1>0 DEF AdapterTypeOK
  <2>2. outbox' = outbox \/ (outbox # <<>> /\ outbox' = Tail(outbox))
    BY DEF PassesOver, Decodes, Roundtrips, CannotAnswer, Receives
  <2>3. unpaid' = unpaid \/ unpaid' = unpaid - 1
    BY DEF PassesOver, Decodes, Roundtrips, CannotAnswer, Faults, Judges
  <2> QED BY <2>1, <2>2, <2>3
<1>6. UNCHANGED AdapterButOutbox
  BY DEF PassesOver, Decodes, Roundtrips, CannotAnswer, Receives
<1>7. AdapterTypeOK'
  BY <1>0, <1>5, <1>6 DEF AdapterTypeOK, AdapterButOutbox
<1>8. TypeOK'
  BY <1>0, <1>3, <1>4, <1>7 DEF TypeOK
<1>9. OneResultEach'
  BY <1>3, <1>4 DEF OneResultEach
<1>10. RestartsPaidFor'
  <2>1. Cardinality(left) \in Nat
    BY <1>0, LeftIsFinite DEF TypeOK
  <2> QED BY <1>0, <1>3, <1>4, <2>1, CountAssumption DEF RestartsPaidFor, TypeOK
<1>11. OverTheTurn'
  BY <1>4 DEF OverTheTurn
<1> QED BY <1>8, <1>9, <1>10, <1>11 DEF IInv

LEMMA RestartingStep == ASSUME IInv, Restarts PROVE IInv'
<1>0. TypeOK /\ AdapterTypeOK /\ OverTheTurn /\ RestartsPaidFor
  BY DEF IInv, TypeOK
<1>1. left # {} /\ left \in SUBSET Entry
  BY <1>0 DEF Restarts, OverTheTurn, TypeOK
<1>2. Concludes("Faulted") /\ unpaid' = unpaid - 1
  BY DEF Restarts, LosesTheEntry, Faults
<1>3. /\ results' \in [Entry -> Seq(Outcome)]
      /\ left' \in SUBSET Entry
      /\ Cardinality(left') = Cardinality(left) - 1
      /\ ~notApplicable =>
           \A e \in Entry : Len(results'[e]) = IF e \in left' THEN 0 ELSE 1
  BY <1>1, <1>2, Concluding DEF Outcome
<1>4. AdapterTypeOK'
  <2>1. unpaid' \in Int
    BY <1>0, <1>2 DEF AdapterTypeOK
  <2> QED BY <2>1, ReapedTyped DEF Restarts, Reaped
<1>5. restarts' \in 0..(Count - 1) /\ restarts' + Cardinality(left') <= Count
  <2>1. restarts \in 0..(Count - 1) /\ restarts + Cardinality(left) <= Count
    BY <1>0 DEF TypeOK, RestartsPaidFor
  <2>2. Cardinality(left) \in Nat /\ Count \in Nat
    BY <1>1, LeftIsFinite, CountAssumption
  <2>3. CASE left' = {}
    BY <2>1, <2>2, <2>3, <1>3 DEF Restarts
  <2>4. CASE left' # {}
    <3>1. Cardinality(left') \in Nat /\ Cardinality(left') # 0
      BY <1>3, <2>4, EntriesFinite, FS_EmptySet, FS_CardinalityType
    <3>2. restarts' = restarts + 1
      BY <2>4 DEF Restarts
    <3> QED BY <2>1, <2>2, <1>3, <3>1, <3>2
  <2> QED BY <2>3, <2>4
<1>6. UNCHANGED <<asking, session, agreed, notApplicable, cancelled>> /\ lacking' = {}
      /\ pc' = IF left' = {} THEN "finished" ELSE "opening"
  BY DEF Restarts
<1>7. TypeOK'
  BY <1>0, <1>3, <1>4, <1>5, <1>6 DEF TypeOK
<1>8. OneResultEach'
  BY <1>3, <1>6 DEF OneResultEach
<1>9. RestartsPaidFor' /\ OverTheTurn'
  BY <1>5, <1>6 DEF RestartsPaidFor, OverTheTurn
<1> QED BY <1>7, <1>8, <1>9 DEF IInv

(* A handshake with a generator that reads files, and with one that does   *)
(* not: what is not offered is listed, or nothing is.                      *)
LEMMA GreetingStep == ASSUME IInv, Greets \/ HasNothingToAsk PROVE IInv'
<1>0. TypeOK /\ AdapterTypeOK /\ OneResultEach /\ RestartsPaidFor
      /\ asking \in Request /\ left \in SUBSET Entry
  BY DEF IInv, TypeOK
<1>1. Receives("hello")
  BY DEF Greets, HasNothingToAsk
<1>2. Came.declares \in Declaration /\ outbox' \in Seq(Frame)
  BY <1>0, <1>1, ReceivesTyped DEF Frame
<1>3. AdapterTypeOK'
  BY <1>0, <1>1, <1>2 DEF Greets, HasNothingToAsk, Receives, AdapterButOutbox, AdapterTypeOK
<1>a. \A op \in Ops, about \in SUBSET Entry :
        [id |-> asking.id + 1, op |-> op, about |-> about] \in Request
  BY <1>0 DEF Request
<1>4. UNCHANGED <<restarts, cancelled>>
  BY <1>1 DEF Receives
<1>5. CASE Greets
  <2> DEFINE es == IF Came.declares.axes THEN {} ELSE left \cap Axed
  <2>1. es \in SUBSET left /\ left' = left \ es /\ results' = Listed(es, "NotOffered")
    BY <1>5 DEF Greets, Offered
  <2>2. UNCHANGED <<notApplicable, lacking, agreed>> /\ session' = Came.declares
    BY <1>5 DEF Greets
  <2> HIDE DEF es
  <2>3. /\ results' \in [Entry -> Seq(Outcome)]
        /\ ~notApplicable =>
             \A e \in Entry : Len(results'[e]) = IF e \in left' THEN 0 ELSE 1
    BY <1>0, <2>1, ListedOnce DEF Outcome
  <2>4. left' \in SUBSET Entry
    BY <1>0, <2>1
  <2>5. pc' = "sending" /\ asking' \in Request /\ ~AboutAnEntry'
    BY <1>a, <1>5, <2>4 DEF Greets, Ask, Ops, AboutAnEntry
  <2>6. TypeOK'
    BY <1>0, <1>2, <1>3, <1>4, <2>2, <2>3, <2>4, <2>5 DEF TypeOK
  <2>7. OneResultEach' /\ OverTheTurn'
    BY <2>2, <2>3, <2>5 DEF OneResultEach, OverTheTurn
  <2>8. RestartsPaidFor'
    <3>1. /\ Cardinality(left) \in Nat /\ Cardinality(left') \in Nat
          /\ Cardinality(left') <= Cardinality(left)
      BY <1>0, <2>1, LeftIsFinite
    <3> QED BY <1>0, <1>4, <3>1, CountAssumption DEF RestartsPaidFor, TypeOK
  <2> QED BY <2>6, <2>7, <2>8 DEF IInv
<1>6. CASE HasNothingToAsk
  <2>1. left' = {} /\ results' = [e \in Entry |-> <<>>] /\ notApplicable' = TRUE
        /\ UNCHANGED <<lacking, agreed>> /\ session' = Came.declares
    BY <1>6 DEF HasNothingToAsk
  <2>2. pc' = "sending" /\ asking' \in Request /\ ~AboutAnEntry'
    BY <1>a, <1>6 DEF HasNothingToAsk, Ask, Ops, AboutAnEntry
  <2>3. TypeOK'
    BY <1>0, <1>2, <1>3, <1>4, <2>1, <2>2 DEF TypeOK
  <2>4. RestartsPaidFor'
    BY <1>0, <1>4, <2>1, FS_EmptySet, CountAssumption DEF RestartsPaidFor, TypeOK
  <2> QED BY <2>1, <2>2, <2>3, <2>4 DEF IInv, OneResultEach, OverTheTurn
<1> QED BY <1>5, <1>6

-----------------------------------------------------------------------------
LEMMA Starts == Init => IInv
<1> SUFFICES ASSUME Init PROVE IInv
  OBVIOUS
<1>a. Silent \in Declaration /\ Untold \in [decode : SUBSET BOOLEAN, roundtrip : SUBSET BOOLEAN]
  BY DEF Silent, Declaration, Untold
<1>b. [id |-> 0, op |-> "bye", about |-> {}] \in Request
  BY DEF Request, Ops
<1>1. AdapterTypeOK
  <2>1. inbox \in Seq(Request) /\ outbox \in Seq(Frame)
    BY DEF Init, NoProcess
  <2>2. process \in {"none", "up", "exited"} /\ held \in BOOLEAN
    BY Zenon DEF Init, NoProcess
  <2>3. declared \in Declaration /\ told \in [decode : SUBSET BOOLEAN, roundtrip : SUBSET BOOLEAN]
    BY <1>a DEF Init, NoProcess
  <2>4. able \in SUBSET Entry /\ holding \in SUBSET Entry /\ lately \in SUBSET Frame
    BY DEF Init, NoProcess
  <2>5. unpaid \in Int
    BY DEF Init, NoProcess
  <2> QED BY <2>1, <2>2, <2>3, <2>4, <2>5 DEF AdapterTypeOK
<1>2. TypeOK
  <2>1. 0 \in 0..(Count - 1)
    BY CountAssumption
  <2>2. [e \in Entry |-> <<>>] \in [Entry -> Seq(Outcome)]
    OBVIOUS
  <2> QED BY <1>a, <1>b, <1>1, <2>1, <2>2 DEF Init, TypeOK
<1>3. OneResultEach /\ OverTheTurn
  BY DEF Init, OneResultEach, OverTheTurn
<1>4. RestartsPaidFor
  <2>1. 1 \in Int /\ Count \in Int /\ Count > 0
    BY CountAssumption
  <2>2. Cardinality(Entry) = Count
    BY <2>1, FS_Interval DEF Entry
  <2> QED BY <2>1, <2>2 DEF Init, RestartsPaidFor
<1> QED BY <1>2, <1>3, <1>4 DEF IInv

LEMMA Holds == Spec => []IInv
<1>1. IInv /\ [Next]_vars => IInv'
  <2> SUFFICES ASSUME IInv, [Next]_vars PROVE IInv'
    OBVIOUS
  <2>1. CASE CannotOpen \/ Ends \/ LosesTheRun
    BY <2>1, Finishing DEF CannotOpen, Ends, LosesTheRun
  <2>2. CASE RefusedHello \/ CannotGenerate \/ Generates \/ DecodesWhole \/ ByeAnswered
    BY <2>2, ReceivingStep
  <2>3. CASE \/ Opens \/ Sends \/ CannotSend \/ TimesOut \/ HearsCancelled \/ Misreads
             \/ ReachesEnd \/ AsksToDecode \/ SaysGoodbye \/ GraceOver \/ IsCancelled
             \/ AdapterActs
    BY <2>3, WaitingStep
  <2>4. CASE PassesOver \/ Decodes \/ Roundtrips \/ CannotAnswer
    BY <2>4, ConcludingStep
  <2>5. CASE Restarts
    BY <2>5, RestartingStep
  <2>6. CASE Greets \/ HasNothingToAsk
    BY <2>6, GreetingStep
  <2>7. CASE UNCHANGED vars
    <3>1. UNCHANGED adapterVars /\ UNCHANGED engineVars
      BY <2>7 DEF vars
    <3> QED BY <3>1 DEF adapterVars, engineVars, IInv, TypeOK, AdapterTypeOK, OneResultEach,
                        RestartsPaidFor, OverTheTurn, AboutAnEntry
  <2> QED BY <2>1, <2>2, <2>3, <2>4, <2>5, <2>6, <2>7 DEF Next
<1> QED BY <1>1, Starts, PTL DEF Spec

(* Every variable of the run keeps to its type, and a run over a corpus    *)
(* restarts its adapter fewer times than the corpus has entries.           *)
THEOREM Typed == Spec => []TypeOK
BY Holds, PTL DEF IInv

(* Whatever an adapter does and whenever it breaks, the report of a run    *)
(* that applies lists every entry once: Engine.Run, pass and offered lose  *)
(* none between the lists they filter, slice and carry.                    *)
THEOREM EveryEntryOnce == Spec => []OneResultEach
BY Holds, PTL DEF IInv

(* Between two processes and after the last there is no process left: each *)
(* is reaped before another is opened and before Run returns.              *)
THEOREM NoProcessLeft == Spec => []NoneLeftBehind
<1>1. Init => NoneLeftBehind
  BY DEF Init, NoProcess, NoneLeftBehind
<1>2. NoneLeftBehind /\ [Next]_vars => NoneLeftBehind'
  <2> SUFFICES ASSUME NoneLeftBehind, [Next]_vars PROVE NoneLeftBehind'
    OBVIOUS
  <2>1. CASE CannotOpen \/ Ends \/ LosesTheRun
    BY <2>1 DEF CannotOpen, Ends, LosesTheRun, Finishes, Reaped, NoneLeftBehind
  <2>2. CASE \/ RefusedHello \/ CannotGenerate \/ Generates \/ DecodesWhole \/ ByeAnswered
             \/ Decodes \/ Roundtrips \/ CannotAnswer \/ Greets \/ HasNothingToAsk
    BY <2>2 DEF RefusedHello, CannotGenerate, Generates, DecodesWhole, ByeAnswered, Decodes,
         Roundtrips, CannotAnswer, Greets, HasNothingToAsk, Ask, NoneLeftBehind
  <2>3. CASE \/ Opens \/ Sends \/ CannotSend \/ TimesOut \/ HearsCancelled \/ Misreads
             \/ ReachesEnd \/ AsksToDecode \/ SaysGoodbye \/ GraceOver \/ PassesOver
    BY <2>3 DEF Opens, Sends, CannotSend, TimesOut, HearsCancelled, Misreads, ReachesEnd,
         AsksToDecode, SaysGoodbye, GraceOver, PassesOver, Abandons, Ask, NoneLeftBehind
  <2>4. CASE IsCancelled
    BY <2>4 DEF IsCancelled, adapterVars, NoneLeftBehind
  <2>5. CASE AdapterActs
    <3>1. process # "none"
      BY <2>5 DEF AdapterActs, Adapter, Answers, Refuses, AnswersAboutAnother, Repeats, Babbles,
           Exits, LetsGo
    <3> QED BY <2>5, <3>1 DEF AdapterActs, engineVars, NoneLeftBehind
  <2>6. CASE Restarts
    BY <2>6 DEF Restarts, Reaped, NoneLeftBehind
  <2>7. CASE UNCHANGED vars
    BY <2>7 DEF vars, adapterVars, engineVars, NoneLeftBehind
  <2> QED BY <2>1, <2>2, <2>3, <2>4, <2>5, <2>6, <2>7 DEF Next
<1> QED BY <1>1, <1>2, PTL DEF Spec

-----------------------------------------------------------------------------
(* The frames in the pipe: what the engine asks, what it is told, and what *)
(* a misdeed of the adapter costs.                                         *)

Waiting == pc \in {"sending", "receiving"}
Talking == Waiting \/ pc = "choosing"
OverEntries == pc = "choosing" \/ (Waiting /\ AboutAnEntry)

(* The frames the engine has not read.                                     *)
Unread == {outbox[i] : i \in 1..Len(outbox)}

(* One request is outstanding at most, it is the engine's last, and an     *)
(* answer to it comes after it was read: numbers only grow.                *)
Numbered ==
  /\ inbox = <<>> \/ inbox = <<asking>>
  /\ pc \in {"sending", "choosing"} => inbox = <<>>
  /\ process = "none" => pc \in {"opening", "finished"} /\ inbox = <<>> /\ lately = {}
  /\ \A f, g \in lately : f = g
  /\ \A f \in lately : f.op # "garbage" /\ f.id <= asking.id
  /\ \A f \in Unread : f.op # "garbage" => f.id <= asking.id
  /\ \A f \in Unread : Pairs(f) => f \in lately
  /\ pc = "sending" \/ inbox # <<>> => \A f \in lately : f.id < asking.id
  /\ pc = "receiving" => \A f \in lately : f.id = asking.id => f \in Unread

(* What a process that gave the answer f has come to know by it.           *)
Learned(f) ==
  /\ f.op = "hello" => declared = f.declares
  /\ f.op = "generate" => able = f.about \ f.lacks
  /\ f.op = "decode" => /\ holding = IF f.whole THEN f.about ELSE {}
                        /\ told = [decode |-> {f.agrees}, roundtrip |-> {}]
  /\ f.op = "roundtrip" => told.roundtrip = {f.agrees}

(* A frame that serves the request outstanding.                            *)
Good(f) == f.id = asking.id /\ f.ok /\ f.about = asking.about

Candid ==
  \A f \in lately : f.id = asking.id =>
    /\ f.op = asking.op
    /\ f.about = asking.about \/ AboutAnEntry
    /\ Good(f) => Learned(f)

(* What the engine has been told holds of the process it talks to.         *)
Understood ==
  /\ Talking /\ asking.op # "hello" => session = declared
  /\ Talking /\ asking.op \notin {"hello", "bye"} =>
       declared.kind = "codec" /\ (declared.axes \/ left \cap Axed = {})
  /\ pc = "choosing" => asking.op \notin {"hello", "bye"}
  /\ pc = "ending" => asking.op = "bye"
  /\ Waiting /\ asking.op = "generate" => asking.about = left
  /\ pc = "opening" \/ (Waiting /\ asking.op \in {"hello", "generate"}) => lacking = {}
  /\ OverEntries => left \ lacking \subseteq able
  /\ Waiting /\ AboutAnEntry => asking.about = {Turn} /\ Turn \in left \ lacking
  /\ Waiting /\ asking.op = "roundtrip" =>
       declared.writes /\ holding = asking.about /\ told.decode = {agreed}

Conversation == IInv /\ Numbered /\ Candid /\ Understood /\ KeepsTheContract

(* Every unread frame but a good answer, an exit and every entry not yet   *)
(* faulted that generate lacks code for is a misdeed still unpaid.         *)
Awaited == pc = "receiving" /\ \E f \in lately : Good(f)
Due == IF Awaited THEN 1 ELSE 0
Departed == IF process = "exited" THEN 1 ELSE 0
Base == Len(outbox) - Due + Departed

Paid ==
  /\ unpaid >= 0
  /\ Talking => unpaid >= Base
  /\ OverEntries => unpaid >= Base + Cardinality(lacking \cap left)
  /\ Awaited /\ asking.op = "generate" =>
       \A f \in lately : Good(f) => unpaid >= Base + Cardinality(f.lacks)
  /\ pc = "reaping" /\ AboutAnEntry => unpaid >= 1


-----------------------------------------------------------------------------
(* What writing and reading a frame do to those that lie unread.           *)
LEMMA Written ==
  ASSUME outbox \in Seq(Frame), NEW f \in Frame, Writes(f)
  PROVE  Unread' = Unread \cup {f} /\ Len(outbox') = Len(outbox) + 1
<1>1. outbox' = Append(outbox, f) /\ Len(outbox) \in Nat
  BY DEF Writes
<1>2. Len(outbox') = Len(outbox) + 1
  BY <1>1
<1>3. \A i \in 1..Len(outbox) : outbox'[i] = outbox[i]
  BY <1>1
<1>4. outbox'[Len(outbox) + 1] = f
  BY <1>1
<1>5. 1..Len(outbox') = (1..Len(outbox)) \cup {Len(outbox) + 1}
  BY <1>1, <1>2
<1> QED BY <1>2, <1>3, <1>4, <1>5 DEF Unread

LEMMA TakenOff ==
  ASSUME outbox \in Seq(Frame), outbox # <<>>, outbox' = Tail(outbox)
  PROVE  /\ Unread' \subseteq Unread /\ Head(outbox) \in Unread
         /\ Len(outbox') = Len(outbox) - 1 /\ Len(outbox) >= 1
<1>1. Len(outbox) \in Nat /\ Len(outbox) >= 1
  OBVIOUS
<1>2. Len(outbox') = Len(outbox) - 1
  BY <1>1
<1>3. \A i \in 1..Len(outbox') : outbox'[i] = outbox[i + 1] /\ i + 1 \in 1..Len(outbox)
  BY <1>1, <1>2
<1>4. Unread' \subseteq Unread
  BY <1>3 DEF Unread
<1>5. Head(outbox) = outbox[1] /\ 1 \in 1..Len(outbox)
  BY <1>1
<1> QED BY <1>1, <1>2, <1>4, <1>5 DEF Unread

LEMMA NothingUnread ==
  ASSUME outbox \in Seq(Frame)
  PROVE  /\ outbox = <<>> <=> Unread = {}
         /\ Len(outbox) \in Nat /\ (outbox # <<>> => Len(outbox) >= 1)
<1>1. Len(outbox) \in Nat /\ (outbox # <<>> => Len(outbox) >= 1)
  OBVIOUS
<1>2. outbox = <<>> => Unread = {}
  BY DEF Unread
<1>3. outbox # <<>> => outbox[1] \in Unread
  BY <1>1 DEF Unread
<1> QED BY <1>1, <1>2, <1>3

(* The frame that answers is the process's last, and there is no other.    *)
LEMMA AnswerReceived ==
  ASSUME IInv, Numbered, Candid, NEW op, Receives(op)
  PROVE  /\ inbox = <<>> /\ lately = {Came} /\ Came \in Frame
         /\ Came.id = asking.id /\ Came.op = op /\ asking.op = op
         /\ Came.about = asking.about \/ AboutAnEntry
         /\ Good(Came) => Learned(Came)
         /\ Unread' \subseteq Unread /\ Len(outbox') = Len(outbox) - 1 /\ Len(outbox) \in Nat
<1>1. outbox \in Seq(Frame) /\ asking \in Request
  BY DEF IInv, TypeOK, AdapterTypeOK
<1>2. outbox # <<>> /\ Pairs(Came) /\ outbox' = Tail(outbox) /\ pc = "receiving"
      /\ asking.op = op
  BY DEF Receives
<1>3. Came \in Unread /\ Unread' \subseteq Unread /\ Len(outbox') = Len(outbox) - 1
  BY <1>1, <1>2, TakenOff DEF Came
<1>4. Came \in lately /\ Came.id = asking.id
  BY <1>2, <1>3 DEF Numbered, Pairs
<1>5. lately = {Came}
  BY <1>4 DEF Numbered
<1>6. inbox = <<>>
  <2>1. asking.id \in Nat
    BY <1>1 DEF Request
  <2>2. ~ (Came.id < asking.id)
    BY <1>4, <2>1
  <2> QED BY <1>4, <2>2 DEF Numbered
<1>7. Came \in Frame
  BY <1>1, <1>2 DEF Came
<1>8. /\ Came.op = asking.op /\ (Came.about = asking.about \/ AboutAnEntry)
      /\ Good(Came) => Learned(Came)
  BY <1>4 DEF Candid
<1> QED BY <1>1, <1>2, <1>3, <1>4, <1>5, <1>6, <1>7, <1>8

LEMMA SameTurn == ASSUME left' = left PROVE Turn' = Turn
BY DEF Turn

-----------------------------------------------------------------------------
(* What a step does to the conversation itself, whatever it does to the    *)
(* report: it leaves the talk, drops the process, asks, or moves on.       *)
TakesOff == outbox' = outbox \/ (outbox # <<>> /\ outbox' = Tail(outbox))
Knows == <<process, inbox, declared, able, holding, lately>>

Hushes ==
  /\ pc \notin {"opening", "finished"}
  /\ pc' \in {"reaping", "ending"} /\ TakesOff /\ asking' = asking
  /\ UNCHANGED <<Knows, told>>

Drops == pc' \in {"finished", "opening"} /\ Reaped

Asks ==
  /\ pc \notin {"opening", "finished"}
  /\ pc' = "sending" /\ inbox = <<>> /\ TakesOff
  /\ asking'.id = asking.id + 1 /\ UNCHANGED Knows

MovesOn ==
  /\ pc \notin {"opening", "finished"}
  /\ pc' = "choosing" /\ inbox = <<>> /\ TakesOff /\ asking' = asking
  /\ UNCHANGED <<Knows, told>>

Leaves ==
  \/ CannotSend \/ TimesOut \/ HearsCancelled \/ Misreads \/ ReachesEnd
  \/ RefusedHello \/ ByeAnswered \/ GraceOver

Loses == CannotOpen \/ Ends \/ LosesTheRun \/ Restarts

Requests ==
  \/ Greets \/ HasNothingToAsk \/ CannotGenerate \/ DecodesWhole \/ AsksToDecode
  \/ SaysGoodbye

Decides == Generates \/ PassesOver \/ Decodes \/ Roundtrips \/ CannotAnswer

Rests == IsCancelled \/ UNCHANGED vars

LEMMA Kinds == [Next]_vars =>
  Leaves \/ Loses \/ Requests \/ Decides \/ Opens \/ Sends \/ AdapterActs \/ Rests
BY DEF Next, Leaves, Loses, Requests, Decides, Rests

LEMMA LeavesHushes == Leaves => Hushes
<1>1. ASSUME NEW op, Receives(op)
      PROVE  TakesOff /\ UNCHANGED <<Knows, told>> /\ pc = "receiving"
  BY <1>1 DEF Receives, AdapterButOutbox, TakesOff, Knows
<1>2. RefusedHello => Hushes
  BY <1>1 DEF RefusedHello, Hushes
<1>3. ByeAnswered => Hushes
  BY <1>1 DEF ByeAnswered, Hushes
<1>4. GraceOver => Hushes
  BY DEF GraceOver, adapterVars, Hushes, Knows, TakesOff
<1>5. Abandons /\ TakesOff /\ pc \in {"sending", "receiving"} => Hushes
  BY DEF Abandons, Hushes, Knows
<1>6. CannotSend \/ TimesOut \/ HearsCancelled \/ Misreads \/ ReachesEnd => Hushes
  BY <1>5 DEF CannotSend, TimesOut, BoundedWait, HearsCancelled, Misreads, ReachesEnd, TakesOff
<1> QED BY <1>2, <1>3, <1>4, <1>6 DEF Leaves

LEMMA LosesDrops == Loses => Drops
BY DEF Loses, CannotOpen, Ends, LosesTheRun, Restarts, Finishes, Drops

LEMMA RequestsAsks == ASSUME IInv, Numbered, Candid, Requests PROVE Asks
<1>1. ASSUME NEW op, Receives(op)
      PROVE  TakesOff /\ UNCHANGED Knows /\ inbox = <<>> /\ pc = "receiving"
  <2>1. inbox = <<>>
    BY <1>1, AnswerReceived
  <2> QED BY <1>1, <2>1 DEF Receives, AdapterButOutbox, TakesOff, Knows
<1>2. ASSUME NEW op, NEW about, Ask(op, about)
      PROVE  pc' = "sending" /\ asking'.id = asking.id + 1
  BY <1>2 DEF Ask
<1>3. CASE Greets \/ HasNothingToAsk \/ CannotGenerate \/ DecodesWhole
  <2>1. \E op \in Ops : Receives(op)
    BY <1>3 DEF Greets, HasNothingToAsk, CannotGenerate, DecodesWhole, Ops
  <2>2. \E op \in Ops, about \in {{}, left', {Turn}} : Ask(op, about)
    BY <1>3 DEF Greets, HasNothingToAsk, CannotGenerate, DecodesWhole, Ops
  <2> QED BY <1>1, <1>2, <2>1, <2>2 DEF Asks
<1>4. CASE AsksToDecode \/ SaysGoodbye
  <2>1. inbox = <<>>
    BY <1>4 DEF AsksToDecode, SaysGoodbye, Numbered
  <2> QED BY <1>2, <1>4, <2>1 DEF AsksToDecode, SaysGoodbye, Asks, Knows, TakesOff, adapterVars
<1> QED BY <1>3, <1>4 DEF Requests

LEMMA DecidesMovesOn == ASSUME IInv, Numbered, Candid, Decides PROVE MovesOn
<1>1. ASSUME NEW op, Receives(op)
      PROVE  TakesOff /\ UNCHANGED <<Knows, told>> /\ inbox = <<>> /\ pc = "receiving"
  <2>1. inbox = <<>>
    BY <1>1, AnswerReceived
  <2> QED BY <1>1, <2>1 DEF Receives, AdapterButOutbox, TakesOff, Knows
<1>2. CASE Generates \/ Decodes \/ Roundtrips \/ CannotAnswer
  <2>1. \E op \in Ops : Receives(op)
    BY <1>2 DEF Generates, Decodes, Roundtrips, CannotAnswer, Ops
  <2>2. pc' = "choosing" /\ asking' = asking
    BY <1>2 DEF Generates, Decodes, Roundtrips, CannotAnswer
  <2> QED BY <1>1, <2>1, <2>2 DEF MovesOn
<1>3. CASE PassesOver
  <2>1. inbox = <<>>
    BY <1>3 DEF PassesOver, Numbered
  <2> QED BY <1>3, <2>1 DEF PassesOver, MovesOn, Knows, TakesOff, AdapterButOutbox
<1> QED BY <1>2, <1>3 DEF Decides

-----------------------------------------------------------------------------
(* An adapter's step: it answers the request it read with a frame that     *)
(* fits it, writes what it may write again, or goes.                       *)
AnswersWith(f) ==
  /\ process = "up" /\ inbox = <<asking>> /\ inbox' = <<>> /\ process' = process
  /\ f \in Frame /\ Writes(f) /\ lately' = {f}
  /\ f.id = asking.id /\ f.op = asking.op
  /\ f.about = asking.about \/ AboutAnEntry

AddsNoise(f) ==
  /\ f \in Frame /\ Writes(f) /\ f \in lately \cup {Garbage} /\ unpaid' = unpaid + 1
  /\ process = "up" /\ UNCHANGED <<Knows, told, holding>>

ServesWith(f) ==
  /\ AnswersWith(f) /\ Learns(f) /\ unpaid' = unpaid + Cardinality(f.lacks)
  /\ f.ok /\ f.about = asking.about

BalksWith(f) ==
  /\ AnswersWith(f) /\ ~(f.ok /\ f.about = asking.about)
  /\ holding' = IF asking.op = "decode" THEN {} ELSE holding
  /\ unpaid' = unpaid + 1
  /\ UNCHANGED <<declared, able, told>>

LEMMA AdapterStep ==
  ASSUME IInv, Numbered, Adapter
  PROVE  \/ \E f \in Frame : ServesWith(f) \/ BalksWith(f) \/ AddsNoise(f)
         \/ Exits \/ LetsGo
<1>0. asking \in Request /\ inbox \in Seq(Request) /\ lately \in SUBSET Frame
  BY DEF IInv, TypeOK, AdapterTypeOK
<1>a. ASSUME Reads PROVE inbox = <<asking>> /\ inbox' = <<>> /\ Head(inbox) = asking
  <2>1. inbox = <<asking>>
    BY <1>a DEF Reads, Numbered
  <2>2. Tail(<<asking>>) = <<>> /\ Head(<<asking>>) = asking
    OBVIOUS
  <2> QED BY <1>a, <2>1, <2>2 DEF Reads
<1>1. CASE Answers
  <2>1. PICK f \in Served(asking) :
          /\ Writes(f) /\ Learns(f) /\ lately' = {f}
          /\ unpaid' = unpaid + Cardinality(f.lacks)
    BY <1>a, <1>1 DEF Answers
  <2>2. f \in Frame
    BY <1>0, <2>1, ServedTyped
  <2>3. f.id = asking.id /\ f.op = asking.op /\ f.about = asking.about /\ f.ok
    BY <2>1 DEF Served
  <2>4. ServesWith(f)
    BY <1>a, <1>1, <2>1, <2>2, <2>3 DEF Answers, AnswersWith, ServesWith
  <2> QED BY <2>2, <2>4
<1>2. CASE Refuses
  <2> DEFINE f == Refusal(asking)
  <2>1. f \in Frame
    BY <1>0, RefusalTyped
  <2>2. Writes(f) /\ lately' = {f}
    BY <1>a, <1>2 DEF Refuses
  <2>3. f.id = asking.id /\ f.op = asking.op /\ f.about = asking.about /\ f.ok = FALSE
    BY DEF Refusal
  <2>4. /\ holding' = IF asking.op = "decode" THEN {} ELSE holding
        /\ unpaid' = unpaid + 1 /\ UNCHANGED <<process, declared, able, told>>
        /\ process = "up" /\ Reads
    BY <1>a, <1>2 DEF Refuses
  <2> HIDE DEF f
  <2>5. BalksWith(f)
    BY <1>a, <2>1, <2>2, <2>3, <2>4 DEF AnswersWith, BalksWith
  <2> QED BY <2>1, <2>5
<1>3. CASE AnswersAboutAnother
  <2>1. PICK e \in Entry \ asking.about :
          \E f \in Served([asking EXCEPT !.about = {e}]) : Writes(f) /\ lately' = {f}
    BY <1>a, <1>3 DEF AnswersAboutAnother
  <2> DEFINE req == [asking EXCEPT !.about = {e}]
  <2>2. req \in Request /\ req.id = asking.id /\ req.op = asking.op /\ req.about = {e}
    BY <1>0 DEF Request
  <2>3. \E f \in Served(req) : Writes(f) /\ lately' = {f}
    BY <2>1
  <2> HIDE DEF req
  <2>4. PICK f \in Served(req) : Writes(f) /\ lately' = {f}
    BY <2>3
  <2>5. f \in Frame
    BY <2>2, ServedTyped
  <2>6. f.id = asking.id /\ f.op = asking.op /\ f.about = {e}
    BY <2>2, <2>4 DEF Served
  <2>7. f.about # asking.about
    BY <2>6
  <2>8. /\ holding' = IF asking.op = "decode" THEN {} ELSE holding
        /\ unpaid' = unpaid + 1 /\ UNCHANGED <<process, declared, able, told>>
        /\ process = "up" /\ Reads /\ AboutAnEntry
    BY <1>a, <1>3 DEF AnswersAboutAnother, AboutAnEntry
  <2>9. BalksWith(f)
    BY <1>a, <2>4, <2>5, <2>6, <2>7, <2>8 DEF AnswersWith, BalksWith
  <2> QED BY <2>5, <2>9
<1>4. CASE Repeats
  <2>1. PICK f \in lately : Writes(f)
    BY <1>4 DEF Repeats
  <2>2. AddsNoise(f)
    BY <1>0, <1>4, <2>1 DEF Repeats, AddsNoise, Knows
  <2> QED BY <1>0, <2>1, <2>2
<1>5. CASE Babbles
  <2>1. Garbage \in Frame
    BY DEF Garbage, Frame, Silent, Declaration
  <2>2. AddsNoise(Garbage)
    BY <1>5, <2>1 DEF Babbles, AddsNoise, Knows
  <2> QED BY <2>1, <2>2
<1> QED BY <1>1, <1>2, <1>3, <1>4, <1>5 DEF Adapter

LEMMA GarbageIsNone == Garbage.op = "garbage"
BY DEF Garbage

-----------------------------------------------------------------------------
LEMMA NumberedKept == ASSUME IInv, Numbered, Candid, [Next]_vars PROVE Numbered'
<1>0. outbox \in Seq(Frame) /\ asking \in Request /\ lately \in SUBSET Frame
      /\ asking.id \in Nat
  BY DEF IInv, TypeOK, AdapterTypeOK, Request
<1>a. TakesOff => Unread' \subseteq Unread
  BY <1>0, TakenOff DEF TakesOff, Unread
<1>i. \A f \in lately : f.id \in Nat
  BY <1>0 DEF Frame
<1>j. \A f \in Unread : f.id \in Nat
  <2>1. \A i \in 1..Len(outbox) : outbox[i] \in Frame
    BY <1>0
  <2>2. \A f \in Frame : f.id \in Nat
    BY DEF Frame
  <2> QED BY <2>1, <2>2 DEF Unread
<1>1. CASE Hushes \/ MovesOn
  <2>1. UNCHANGED <<process, inbox, lately, asking>> /\ pc' \notin {"sending", "receiving"}
        /\ TakesOff /\ (pc' = "choosing" => inbox = <<>>) /\ pc \notin {"opening", "finished"}
    BY <1>1 DEF Hushes, MovesOn, Knows
  <2> QED BY <1>a, <2>1 DEF Numbered, Pairs
<1>2. CASE Drops
  <2>1. inbox' = <<>> /\ outbox' = <<>> /\ lately' = {} /\ pc' \in {"finished", "opening"}
    BY <1>2 DEF Drops, Reaped, Forgotten
  <2>2. Unread' = {}
    BY <2>1 DEF Unread
  <2> QED BY <2>1, <2>2 DEF Numbered
<1>3. CASE Asks
  <2>1. /\ inbox' = <<>> /\ UNCHANGED <<process, lately>> /\ pc' = "sending" /\ TakesOff
        /\ asking'.id = asking.id + 1 /\ pc \notin {"opening", "finished"}
    BY <1>3 DEF Asks, Knows
  <2>2. \A n \in Nat : n <= asking.id => n <= asking'.id /\ n < asking'.id /\ n # asking'.id
    BY <1>0, <2>1
  <2>3. \A f \in lately : f.op # "garbage" /\ f.id < asking'.id /\ f.id <= asking'.id
    BY <1>i, <2>2 DEF Numbered
  <2>4. \A f \in Unread' : f.op # "garbage" => f.id <= asking'.id /\ f.id # asking'.id
    BY <1>a, <1>j, <2>1, <2>2 DEF Numbered
  <2> QED BY <2>1, <2>3, <2>4 DEF Numbered, Pairs
<1>4. CASE Opens
  <2>1. inbox' = <<>> /\ outbox' = <<>> /\ lately' = {} /\ process' = "up"
    BY <1>4 DEF Opens, Started, Forgotten
  <2>2. Unread' = {}
    BY <2>1 DEF Unread
  <2> QED BY <2>1, <2>2 DEF Numbered
<1>5. CASE Sends
  <2>1. /\ inbox' = <<asking>> /\ UNCHANGED <<process, outbox, lately, asking>>
        /\ pc = "sending" /\ pc' = "receiving"
    BY <1>5 DEF Sends, Numbered
  <2>2. Unread' = Unread
    BY <2>1 DEF Unread
  <2>3. \A f \in lately : f.id < asking.id
    BY <2>1 DEF Numbered
  <2>4. process # "none"
    BY <2>1 DEF Numbered
  <2> QED BY <1>i, <1>0, <2>1, <2>2, <2>3, <2>4 DEF Numbered, Pairs
<1>6. CASE AdapterActs
  <2>1. UNCHANGED <<pc, asking>> /\ Adapter
    BY <1>6 DEF AdapterActs, engineVars
  <2>2. ASSUME NEW f \in Frame, AnswersWith(f) PROVE Numbered'
    <3>1. Unread' = Unread \cup {f}
      BY <1>0, <2>2, Written DEF AnswersWith
    <3>2. /\ lately' = {f} /\ inbox = <<asking>> /\ inbox' = <<>> /\ process' = "up"
          /\ f.id = asking.id /\ f.op = asking.op /\ f.op # "garbage" /\ pc # "sending"
      BY <1>0, <2>2 DEF AnswersWith, Request, Ops, Numbered
    <3>3. \A g \in lately : g.id < asking.id
      BY <3>2 DEF Numbered
    <3>4. \A g \in Unread : ~Pairs(g)
      BY <1>0, <1>i, <3>3 DEF Numbered, Pairs
    <3> QED BY <1>0, <2>1, <3>1, <3>2, <3>4 DEF Numbered, Pairs
  <2>3. ASSUME NEW f \in Frame, AddsNoise(f) PROVE Numbered'
    <3>1. Unread' = Unread \cup {f}
      BY <1>0, <2>3, Written DEF AddsNoise
    <3>2. UNCHANGED <<process, inbox, lately, asking, pc>> /\ process = "up"
      BY <2>1, <2>3 DEF AddsNoise, Knows
    <3>3. f \in lately \/ f.op = "garbage"
      BY <2>3, GarbageIsNone DEF AddsNoise
    <3> QED BY <3>1, <3>2, <3>3 DEF Numbered, Pairs
  <2>4. ASSUME Exits \/ LetsGo PROVE Numbered'
    <3>1. UNCHANGED <<inbox, outbox, lately, asking, pc>> /\ process' # "none"
      BY <2>1, <2>4 DEF Exits, LetsGo
    <3>2. Unread' = Unread
      BY <3>1 DEF Unread
    <3> QED BY <3>1, <3>2 DEF Numbered, Pairs
  <2> QED BY <2>1, <2>2, <2>3, <2>4, AdapterStep DEF ServesWith, BalksWith
<1>7. CASE Rests
  <2>1. UNCHANGED <<pc, asking, process, inbox, outbox, lately>>
    BY <1>7 DEF Rests, IsCancelled, vars, adapterVars, engineVars
  <2>2. Unread' = Unread
    BY <2>1 DEF Unread
  <2> QED BY <2>1, <2>2 DEF Numbered, Pairs
<1> QED BY <1>1, <1>2, <1>3, <1>4, <1>5, <1>6, <1>7, Kinds, LeavesHushes, LosesDrops,
           RequestsAsks, DecidesMovesOn

LEMMA CandidKept == ASSUME IInv, Numbered, Candid, [Next]_vars PROVE Candid'
<1>0. /\ asking \in Request /\ lately \in SUBSET Frame /\ asking.id \in Nat
      /\ told \in [decode : SUBSET BOOLEAN, roundtrip : SUBSET BOOLEAN]
  BY DEF IInv, TypeOK, AdapterTypeOK, Request
<1>a. ASSUME UNCHANGED <<lately, asking, declared, able, holding, told>> PROVE Candid'
  BY <1>a DEF Candid, Good, Learned, AboutAnEntry
<1>1. CASE Hushes \/ MovesOn
  BY <1>a, <1>1 DEF Hushes, MovesOn, Knows
<1>2. CASE Drops \/ Opens
  BY <1>2 DEF Drops, Opens, Reaped, Started, Forgotten, Candid
<1>3. CASE Asks
  <2>1. lately' = lately /\ asking'.id = asking.id + 1
    BY <1>3 DEF Asks, Knows
  <2>2. \A f \in lately : f.id \in Nat /\ f.id <= asking.id
    BY <1>0 DEF Frame, Numbered
  <2>3. \A f \in lately' : f.id # asking'.id
    BY <1>0, <2>1, <2>2
  <2> QED BY <2>3 DEF Candid
<1>4. CASE Sends
  BY <1>a, <1>4 DEF Sends
<1>5. CASE AdapterActs
  <2>1. UNCHANGED <<pc, asking>> /\ Adapter
    BY <1>5 DEF AdapterActs, engineVars
  <2>2. ASSUME NEW f \in Frame, ServesWith(f) PROVE Candid'
    <3>1. lately' = {f} /\ f.id = asking.id /\ f.op = asking.op /\ f.about = asking.about
      BY <2>2 DEF ServesWith, AnswersWith
    <3>2. Learned(f)'
      BY <1>0, <2>2 DEF ServesWith, Learns, Learned
    <3> QED BY <2>1, <3>1, <3>2 DEF Candid
  <2>3. ASSUME NEW f \in Frame, BalksWith(f) PROVE Candid'
    <3>1. /\ lately' = {f} /\ f.id = asking.id /\ f.op = asking.op
          /\ f.about = asking.about \/ AboutAnEntry'
      BY <2>1, <2>3 DEF BalksWith, AnswersWith, AboutAnEntry
    <3>2. ~Good(f)'
      BY <2>1, <2>3 DEF BalksWith, Good
    <3> QED BY <2>1, <3>1, <3>2 DEF Candid
  <2>4. ASSUME NEW f \in Frame, AddsNoise(f) PROVE Candid'
    BY <1>a, <2>1, <2>4 DEF AddsNoise, Knows
  <2>5. ASSUME Exits \/ LetsGo PROVE Candid'
    BY <1>a, <2>1, <2>5 DEF Exits, LetsGo
  <2> QED BY <2>1, <2>2, <2>3, <2>4, <2>5, AdapterStep
<1>6. CASE Rests
  BY <1>a, <1>6 DEF Rests, IsCancelled, vars, adapterVars, engineVars
<1> QED BY <1>1, <1>2, <1>3, <1>4, <1>5, <1>6, Kinds, LeavesHushes, LosesDrops,
           RequestsAsks, DecidesMovesOn

-----------------------------------------------------------------------------
(* While the engine does not turn to another entry or request, what it has *)
(* understood stays so unless the process has learnt something else.       *)
LEMMA StillUnderstood ==
  ASSUME Understood, UNCHANGED <<asking, left, session, lacking, agreed>>,
         pc' = pc \/ (pc = "sending" /\ pc' = "receiving"),
         asking.op # "hello" => declared' = declared,
         asking.op # "generate" \/ pc = "choosing" => able' = able,
         asking.op = "roundtrip" => holding' = holding /\ told'.decode = told.decode
  PROVE  Understood'
<1>1. /\ Turn' = Turn /\ AboutAnEntry' = AboutAnEntry /\ Waiting' = Waiting
      /\ (pc' = "choosing") = (pc = "choosing") /\ (pc' = "ending") = (pc = "ending")
      /\ (pc' = "opening") = (pc = "opening")
  BY SameTurn DEF AboutAnEntry, Waiting
<1>2. Talking' = Talking /\ OverEntries' = OverEntries
  BY <1>1 DEF Talking, OverEntries
<1>3. OverEntries => asking.op # "generate" \/ pc = "choosing"
  BY DEF OverEntries, AboutAnEntry
<1>4. AboutAnEntry = (asking.op \in {"decode", "roundtrip"})
  BY DEF AboutAnEntry
<1> QED BY <1>1, <1>2, <1>3, <1>4 DEF Understood

(* What the engine asks next fits what it has been told.                   *)
LEMMA AskedUnderstood ==
  ASSUME IInv, Numbered, Candid, Understood, Requests PROVE Understood'
<1>0. asking \in Request /\ left \in SUBSET Entry /\ OverTheTurn
  BY DEF IInv, TypeOK, AdapterTypeOK
<1>a. ASSUME NEW op, NEW about, Ask(op, about)
      PROVE  /\ asking'.op = op /\ asking'.about = about /\ pc' = "sending" /\ Waiting' /\ Talking'
             /\ AboutAnEntry' = (op \in {"decode", "roundtrip"}) /\ OverEntries' = AboutAnEntry'
  BY <1>a DEF Ask, Waiting, Talking, AboutAnEntry, OverEntries
<1>b. ASSUME Receives("hello"), Came.ok PROVE declared = Came.declares /\ lacking = {}
             /\ UNCHANGED declared
  <2>1. asking.op = "hello" /\ Waiting /\ ~AboutAnEntry
    BY <1>b DEF Receives, Waiting, AboutAnEntry
  <2>2. Came.id = asking.id /\ Came.op = "hello" /\ Came.about = asking.about
        /\ (Good(Came) => Learned(Came))
    BY <1>b, <2>1, AnswerReceived
  <2>3. Learned(Came)
    BY <1>b, <2>2 DEF Good
  <2> QED BY <1>b, <2>1, <2>2, <2>3 DEF Learned, Understood, Receives, AdapterButOutbox
<1>c. ASSUME Ask("bye", {}), session' = declared' PROVE Understood'
  <2>1. asking'.op = "bye" /\ pc' = "sending" /\ ~AboutAnEntry'
    BY <1>c DEF Ask, AboutAnEntry
  <2> QED BY <1>c, <2>1 DEF Understood, OverEntries
<1>1. CASE Greets
  <2>1. /\ declared = Came.declares /\ lacking = {} /\ declared' = declared /\ lacking' = lacking
        /\ session' = Came.declares /\ declared.kind = "codec" /\ left' = Offered(declared)
    BY <1>1, <1>b DEF Greets
  <2>2. declared.axes \/ left' \cap Axed = {}
    BY <2>1 DEF Offered
  <2>3. CASE left' = {}
    <3>1. Ask("bye", {})
      BY <1>1, <2>3 DEF Greets
    <3> QED BY <1>c, <2>1, <3>1
  <2>4. CASE left' # {}
    <3>1. Ask("generate", left')
      BY <1>1, <2>4 DEF Greets
    <3>2. asking'.op = "generate" /\ asking'.about = left' /\ pc' = "sending" /\ ~AboutAnEntry'
      BY <3>1 DEF Ask, AboutAnEntry
    <3> QED BY <2>1, <2>2, <3>2 DEF Understood, OverEntries
  <2> QED BY <2>3, <2>4
<1>2. CASE HasNothingToAsk
  <2>1. declared = Came.declares /\ declared' = declared /\ session' = Came.declares
        /\ Ask("bye", {})
    BY <1>2, <1>b DEF HasNothingToAsk
  <2> QED BY <1>c, <2>1
<1>3. CASE CannotGenerate
  <2>1. asking.op = "generate" /\ Talking /\ Ask("bye", {}) /\ UNCHANGED <<session, declared>>
    BY <1>3 DEF CannotGenerate, Receives, Talking, Waiting, AdapterButOutbox
  <2>2. session = declared
    BY <2>1 DEF Understood
  <2> QED BY <1>c, <2>1, <2>2
<1>4. CASE SaysGoodbye
  <2>1. asking.op # "hello" /\ Talking /\ Ask("bye", {}) /\ UNCHANGED <<session, declared>>
    BY <1>4 DEF SaysGoodbye, Talking, Understood, adapterVars
  <2>2. session = declared
    BY <2>1 DEF Understood
  <2> QED BY <1>c, <2>1, <2>2
<1>5. CASE AsksToDecode
  <2>1. /\ asking.op \notin {"hello", "bye"} /\ Talking /\ OverEntries /\ Ask("decode", {Turn})
        /\ UNCHANGED <<session, declared, able, left, lacking>> /\ Turn \notin lacking
        /\ left # {}
    BY <1>5 DEF AsksToDecode, Talking, OverEntries, Understood
  <2>2. Turn \in left /\ Turn' = Turn
    BY <1>0, <2>1, TurnIsLeft, SameTurn
  <2> QED BY <1>a, <2>1, <2>2 DEF Understood
<1>6. CASE DecodesWhole
  <2>1. /\ Receives("decode") /\ AnswersTheEntry(Came) /\ RoundtripDue(Came)
        /\ Ask("roundtrip", {Turn}) /\ agreed' = Came.agrees
        /\ UNCHANGED <<session, left, lacking, declared, able, holding, told>>
    BY <1>6 DEF DecodesWhole, Receives, AdapterButOutbox
  <2>2. asking.op = "decode" /\ Waiting /\ Talking /\ AboutAnEntry /\ OverEntries
    BY <2>1 DEF Receives, Waiting, Talking, AboutAnEntry, OverEntries
  <2>3. Came.id = asking.id /\ Came.op = "decode" /\ (Good(Came) => Learned(Came))
    BY <2>1, AnswerReceived
  <2>4. /\ holding = Came.about /\ Came.about = asking.about /\ told.decode = {Came.agrees}
        /\ session.writes
    BY <2>1, <2>3 DEF AnswersTheEntry, Good, Learned, RoundtripDue
  <2>5. Turn' = Turn
    BY <2>1, SameTurn
  <2> QED BY <1>a, <2>1, <2>2, <2>4, <2>5 DEF Understood
<1> QED BY <1>1, <1>2, <1>3, <1>4, <1>5, <1>6 DEF Requests

(* The entries it turns to next are among those it was told about.         *)
LEMMA DecidedUnderstood ==
  ASSUME IInv, Numbered, Candid, Understood, Decides PROVE Understood'
<1>a. pc' = "choosing" => Talking' /\ OverEntries' /\ ~Waiting'
  BY DEF Talking, OverEntries, Waiting
<1>1. CASE Generates
  <2>1. /\ Receives("generate") /\ Came.ok /\ lacking' = Came.lacks /\ pc' = "choosing"
        /\ UNCHANGED <<asking, session, left, declared, able>>
    BY <1>1 DEF Generates, Receives, AdapterButOutbox
  <2>2. asking.op = "generate" /\ Waiting /\ Talking /\ ~AboutAnEntry
    BY <2>1 DEF Receives, Waiting, Talking, AboutAnEntry
  <2>3. Came.id = asking.id /\ Came.op = "generate" /\ Came.about = asking.about
        /\ (Good(Came) => Learned(Came))
    BY <2>1, <2>2, AnswerReceived
  <2>4. able = left \ lacking'
    BY <2>1, <2>2, <2>3 DEF Good, Learned, Understood
  <2> QED BY <1>a, <2>1, <2>2, <2>4 DEF Understood
<1>2. CASE PassesOver \/ Decodes \/ Roundtrips \/ CannotAnswer
  <2>1. /\ pc' = "choosing" /\ left' \subseteq left
        /\ UNCHANGED <<asking, session, lacking, declared, able>>
    BY <1>2 DEF PassesOver, Decodes, Roundtrips, CannotAnswer, Receives, AdapterButOutbox,
       Faults, Judges, Concludes
  <2>2. Talking /\ OverEntries /\ asking.op \notin {"hello", "bye"}
    BY <1>2 DEF PassesOver, Decodes, Roundtrips, CannotAnswer, Receives, Talking, Waiting,
       OverEntries, AboutAnEntry, Understood
  <2> QED BY <1>a, <2>1, <2>2 DEF Understood
<1> QED BY <1>1, <1>2 DEF Decides

LEMMA UnderstoodKept ==
  ASSUME IInv, Numbered, Candid, Understood, [Next]_vars PROVE Understood'
<1>0. /\ asking \in Request /\ left \in SUBSET Entry /\ OverTheTurn
      /\ told \in [decode : SUBSET BOOLEAN, roundtrip : SUBSET BOOLEAN]
  BY DEF IInv, TypeOK, AdapterTypeOK
<1>1. CASE Leaves
  <2>1. pc' = "reaping" \/ (pc' = "ending" /\ asking'.op = "bye")
    BY <1>1 DEF Leaves, CannotSend, TimesOut, HearsCancelled, Misreads, ReachesEnd,
       RefusedHello, ByeAnswered, GraceOver, Abandons, Receives
  <2> QED BY <2>1 DEF Understood, Talking, Waiting, OverEntries
<1>2. CASE Loses
  <2>1. pc' \in {"finished", "opening"} /\ lacking' = {}
    BY <1>2 DEF Loses, CannotOpen, Ends, LosesTheRun, Restarts, Finishes
  <2> QED BY <2>1 DEF Understood, Talking, Waiting, OverEntries
<1>3. CASE Opens
  <2>1. pc' = "sending" /\ asking'.op = "hello" /\ lacking' = lacking /\ lacking = {}
    BY <1>3 DEF Opens, Understood
  <2> QED BY <2>1 DEF Understood, Talking, Waiting, OverEntries, AboutAnEntry
<1>4. CASE Sends
  BY <1>4, StillUnderstood DEF Sends
<1>5. CASE Rests
  <2>1. UNCHANGED <<pc, asking, left, session, lacking, agreed, declared, able, holding, told>>
    BY <1>5 DEF Rests, IsCancelled, vars, adapterVars, engineVars
  <2> QED BY <2>1, StillUnderstood
<1>6. CASE Requests
  BY <1>6, AskedUnderstood
<1>7. CASE Decides
  BY <1>7, DecidedUnderstood
<1>8. CASE AdapterActs
  <2>1. UNCHANGED <<pc, asking, left, session, lacking, agreed>> /\ Adapter
    BY <1>8 DEF AdapterActs, engineVars
  <2>2. ASSUME NEW f \in Frame, ServesWith(f) PROVE Understood'
    <3>1. f.op = asking.op /\ Learns(f)
      BY <2>2 DEF ServesWith, AnswersWith
    <3>2. /\ asking.op # "hello" => declared' = declared
          /\ asking.op # "generate" \/ pc = "choosing" => able' = able
      <4>1. pc # "choosing"
        BY <2>2 DEF ServesWith, AnswersWith, Numbered
      <4> QED BY <3>1, <4>1 DEF Learns
    <3>3. asking.op = "roundtrip" => holding' = holding /\ told'.decode = told.decode
      BY <1>0, <3>1 DEF Learns
    <3> QED BY <2>1, <3>2, <3>3, StillUnderstood
  <2>3. ASSUME NEW f \in Frame, BalksWith(f) PROVE Understood'
    BY <2>1, <2>3, StillUnderstood DEF BalksWith
  <2>4. ASSUME NEW f \in Frame, AddsNoise(f) PROVE Understood'
    BY <2>1, <2>4, StillUnderstood DEF AddsNoise, Knows
  <2>5. ASSUME Exits \/ LetsGo PROVE Understood'
    BY <2>1, <2>5, StillUnderstood DEF Exits, LetsGo
  <2> QED BY <2>1, <2>2, <2>3, <2>4, <2>5, AdapterStep
<1> QED BY <1>1, <1>2, <1>3, <1>4, <1>5, <1>6, <1>7, <1>8, Kinds

-----------------------------------------------------------------------------
LEMMA ContractKept ==
  ASSUME IInv, Numbered, Candid, Understood, KeepsTheContract, [Next]_vars
  PROVE  KeepsTheContract'
<1>0. left \in SUBSET Entry
  BY DEF IInv, TypeOK
<1>a. ASSUME UNCHANGED <<inbox, declared, able, holding>> PROVE KeepsTheContract'
  BY <1>a DEF KeepsTheContract
<1>b. ASSUME inbox' = <<>> PROVE KeepsTheContract'
  BY <1>b DEF KeepsTheContract
<1>1. CASE Hushes \/ MovesOn
  BY <1>1, <1>a DEF Hushes, MovesOn, Knows
<1>2. CASE Drops \/ Opens
  BY <1>2, <1>b DEF Drops, Opens, Reaped, Started, Forgotten
<1>3. CASE Asks
  BY <1>3, <1>b DEF Asks, Knows
<1>4. CASE Sends
  <2>1. /\ inbox' = <<asking>> /\ UNCHANGED <<declared, able, holding>>
        /\ Waiting /\ Talking /\ (AboutAnEntry => OverEntries)
    BY <1>4 DEF Sends, Numbered, Waiting, Talking, OverEntries
  <2>2. Len(inbox') = 1 /\ Head(inbox') = asking
    BY <2>1
  <2>3. asking.op \notin {"hello", "bye"} => declared.kind = "codec"
    BY <2>1 DEF Understood
  <2>4. ASSUME AboutAnEntry PROVE asking.about \subseteq left /\ asking.about \subseteq able
    BY <2>1, <2>4 DEF Understood
  <2>5. asking.op \in {"generate", "decode"} /\ ~declared.axes => asking.about \cap Axed = {}
    <3>1. asking.op \in {"generate", "decode"} => asking.about \subseteq left
      BY <2>1, <2>4 DEF Understood, AboutAnEntry
    <3>2. asking.op \in {"generate", "decode"} /\ ~declared.axes => left \cap Axed = {}
      BY <2>1 DEF Understood
    <3> QED BY <3>1, <3>2
  <2>6. asking.op = "decode" => asking.about \subseteq able
    BY <2>4 DEF AboutAnEntry
  <2>7. asking.op = "roundtrip" => declared.writes /\ asking.about = holding
    BY <2>1 DEF Understood
  <2> QED BY <2>1, <2>2, <2>3, <2>5, <2>6, <2>7 DEF KeepsTheContract
<1>5. CASE Rests
  BY <1>5, <1>a DEF Rests, IsCancelled, vars, adapterVars
<1>6. CASE AdapterActs
  <2>1. Adapter
    BY <1>6 DEF AdapterActs
  <2>2. ASSUME NEW f \in Frame, AnswersWith(f) PROVE KeepsTheContract'
    BY <2>2, <1>b DEF AnswersWith
  <2>3. ASSUME NEW f \in Frame, AddsNoise(f) PROVE KeepsTheContract'
    BY <2>3, <1>a DEF AddsNoise, Knows
  <2>4. ASSUME Exits \/ LetsGo PROVE KeepsTheContract'
    BY <2>4, <1>a DEF Exits, LetsGo
  <2> QED BY <2>1, <2>2, <2>3, <2>4, AdapterStep DEF ServesWith, BalksWith
<1> QED BY <1>1, <1>2, <1>3, <1>4, <1>5, <1>6, Kinds, LeavesHushes, LosesDrops,
           RequestsAsks, DecidesMovesOn

LEMMA ConversationHolds == Spec => []Conversation
<1>1. Init /\ IInv => Conversation
  <2> SUFFICES ASSUME Init, IInv PROVE Conversation
    OBVIOUS
  <2>1. inbox = <<>> /\ outbox = <<>> /\ lately = {} /\ pc = "opening" /\ lacking = {}
    BY DEF Init, NoProcess
  <2>2. Unread = {}
    BY <2>1 DEF Unread
  <2>3. Numbered /\ Candid /\ KeepsTheContract
    BY <2>1, <2>2 DEF Numbered, Candid, KeepsTheContract
  <2>4. Understood
    BY <2>1 DEF Understood, Talking, Waiting, OverEntries
  <2> QED BY <2>3, <2>4 DEF Conversation
<1>2. Conversation /\ IInv' /\ [Next]_vars => Conversation'
  BY NumberedKept, CandidKept, UnderstoodKept, ContractKept DEF Conversation
<1> QED BY <1>1, <1>2, Holds, PTL DEF Spec

(* Whatever an adapter answers, doubles or leaves out, the engine asks it  *)
(* only what the contract lets it ask: conn.exchange has one request       *)
(* outstanding, and session.handshake, session.generate, Engine.offered    *)
(* and session.ask gate the rest by what this process has said.            *)
THEOREM ContractHolds == Spec => []KeepsTheContract
BY ConversationHolds, PTL DEF Conversation

-----------------------------------------------------------------------------
(* A verdict a step gives an entry is what was said of it.                 *)
Verdict(e) ==
  LET said == told.decode \cup told.roundtrip IN
  Len(results'[e]) = Len(results[e]) + 1 =>
    CASE results'[e][Len(results'[e])] = "Passed" ->
           /\ told.decode = {TRUE} /\ said = {TRUE}
           /\ declared.writes /\ holding = {e} => told.roundtrip = {TRUE}
      [] results'[e][Len(results'[e])] = "Mismatched" -> FALSE \in said
      [] OTHER -> TRUE

VerdictsGiven == \A e \in Entry : Verdict(e)

LEMMA ListedLast ==
  ASSUME IInv, NEW es, NEW o \in Outcome, results' = Listed(es, o), NEW e \in Entry
  PROVE  /\ e \in es => results'[e][Len(results'[e])] = o
         /\ e \notin es => Len(results'[e]) # Len(results[e]) + 1
<1>1. results[e] \in Seq(Outcome) /\ Len(results[e]) \in Nat
  BY DEF IInv, TypeOK
<1>2. results'[e] = IF e \in es THEN Append(results[e], o) ELSE results[e]
  BY DEF Listed
<1>3. Append(results[e], o)[Len(Append(results[e], o))] = o
  BY <1>1
<1> QED BY <1>1, <1>2, <1>3

LEMMA NoVerdict ==
  ASSUME IInv, NEW es, NEW o \in {"Faulted", "NotOffered"}, results' = Listed(es, o)
  PROVE  VerdictsGiven
<1> SUFFICES ASSUME NEW e \in Entry PROVE Verdict(e)
  BY DEF VerdictsGiven
<1>1. CASE e \in es
  <2>1. results'[e][Len(results'[e])] \notin {"Passed", "Mismatched"}
    BY <1>1, ListedLast DEF Outcome
  <2> QED BY <2>1 DEF Verdict
<1>2. CASE e \notin es
  BY <1>2, ListedLast DEF Verdict, Outcome
<1> QED BY <1>1, <1>2

LEMMA VerdictStep == ASSUME Conversation, [Next]_vars PROVE VerdictsGiven
<1>0. /\ IInv /\ Numbered /\ Candid /\ Understood /\ results \in [Entry -> Seq(Outcome)]
      /\ told \in [decode : SUBSET BOOLEAN, roundtrip : SUBSET BOOLEAN] /\ agreed \in BOOLEAN
  BY DEF Conversation, IInv, TypeOK, AdapterTypeOK
<1>a. \A e \in Entry : Len(results[e]) \in Nat
  BY <1>0
<1>1. ASSUME results' = results PROVE VerdictsGiven
  <2>1. \A e \in Entry : Len(results'[e]) # Len(results[e]) + 1
    BY <1>1, <1>a
  <2> QED BY <2>1 DEF VerdictsGiven, Verdict
<1>2. CASE Leaves
  BY <1>1, <1>2 DEF Leaves, CannotSend, TimesOut, HearsCancelled, Misreads, ReachesEnd,
     RefusedHello, ByeAnswered, GraceOver, Abandons
<1>3. CASE Loses
  <2>1. results' = Listed(left, "Faulted") \/ results' = Listed({Turn}, "Faulted")
    BY <1>3 DEF Loses, CannotOpen, Ends, LosesTheRun, Finishes, Restarts, LosesTheEntry, Faults,
       Concludes
  <2> QED BY <1>0, <2>1, NoVerdict
<1>4. CASE Opens \/ Sends \/ AdapterActs \/ Rests
  BY <1>1, <1>4 DEF Opens, Sends, AdapterActs, Rests, IsCancelled, vars, engineVars
<1>5. CASE CannotGenerate \/ DecodesWhole \/ AsksToDecode \/ SaysGoodbye \/ Generates
  BY <1>1, <1>5 DEF CannotGenerate, DecodesWhole, AsksToDecode, SaysGoodbye, Generates
<1>6. CASE Greets
  <2>1. \E es \in SUBSET Entry : results' = Listed(es, "NotOffered")
    <3> DEFINE es == IF Came.declares.axes THEN {} ELSE left \cap Axed
    <3>1. es \in SUBSET Entry
      BY AxedAssumption
    <3>2. results' = Listed(es, "NotOffered")
      BY <1>6 DEF Greets
    <3> QED BY <3>1, <3>2
  <2> QED BY <1>0, <2>1, NoVerdict
<1>7. CASE HasNothingToAsk
  <2>1. \A e \in Entry : Len(results'[e]) = 0
    BY <1>7 DEF HasNothingToAsk
  <2>2. \A e \in Entry : Len(results'[e]) # Len(results[e]) + 1
    BY <1>a, <2>1
  <2> QED BY <2>2 DEF VerdictsGiven, Verdict
<1>8. CASE PassesOver \/ CannotAnswer
  <2>1. results' = Listed({Turn}, "Faulted")
    BY <1>8 DEF PassesOver, CannotAnswer, Faults, Concludes
  <2> QED BY <1>0, <2>1, NoVerdict
<1>9. CASE Decodes \/ Roundtrips
  <2>1. PICK op \in {"decode", "roundtrip"} : Receives(op) /\ AnswersTheEntry(Came)
    BY <1>9 DEF Decodes, Roundtrips
  <2>2. /\ Came.agrees \in BOOLEAN /\ Learned(Came) /\ Came.op = op /\ asking.op = op
        /\ Waiting /\ Talking /\ session = declared /\ asking.about = {Turn}
        /\ Came.about = {Turn} /\ AboutAnEntry
    <3>1. Came \in Frame /\ Came.op = op /\ asking.op = op /\ Good(Came) => Learned(Came)
      BY <1>0, <2>1, AnswerReceived
    <3>2. Came.id = asking.id /\ Came \in Frame /\ asking.op = op /\ Came.op = op
      BY <1>0, <2>1, AnswerReceived
    <3>3. Waiting /\ Talking /\ AboutAnEntry
      BY <2>1, <3>2 DEF Receives, Waiting, Talking, AboutAnEntry
    <3>4. Good(Came) /\ Came.about = asking.about
      BY <2>1, <3>2 DEF AnswersTheEntry, Good
    <3>5. session = declared /\ asking.about = {Turn}
      BY <1>0, <2>1, <3>2, <3>3 DEF Understood
    <3> QED BY <3>1, <3>2, <3>3, <3>4, <3>5 DEF Frame
  <2> DEFINE agrees == IF op = "decode" THEN Came.agrees ELSE agreed /\ Came.agrees
             o == IF agrees THEN "Passed" ELSE "Mismatched"
  <2>3. PICK v \in Outcome : results' = Listed({Turn}, v) /\ v = o
    <3>1. results' = Listed({Turn}, o) /\ o \in Outcome
      BY <1>9, <2>2 DEF Decodes, Roundtrips, Judges, Concludes, Outcome, Receives
    <3> QED BY <3>1
  <2>a. results' = Listed({Turn}, v)
    BY <2>3
  <2>4. told.decode \cup told.roundtrip = (IF op = "decode" THEN {Came.agrees}
                                           ELSE {agreed, Came.agrees})
        /\ told.decode = {IF op = "decode" THEN Came.agrees ELSE agreed}
    BY <1>0, <2>2 DEF Learned, Understood
  <2>5. op = "roundtrip" => told.roundtrip = {Came.agrees}
    BY <2>2 DEF Learned
  <2>6. op = "decode" => ~ (declared.writes /\ holding = {Turn})
    <3>1. op = "decode" => ~RoundtripDue(Came)
      BY <1>9, <2>2 DEF Decodes, Roundtrips, Receives
    <3> QED BY <2>2, <3>1 DEF RoundtripDue, Learned
  <2>7. ASSUME NEW e \in Entry PROVE Verdict(e)
    <3>1. CASE e # Turn
      <4>1. Len(results'[e]) # Len(results[e]) + 1
        <5>1. e \notin {Turn}
          BY <3>1
        <5> QED BY <1>0, <2>a, <5>1, ListedLast
      <4> QED BY <4>1 DEF Verdict
    <3>2. CASE e = Turn
      <4>1. results'[e][Len(results'[e])] = v
        <5> DEFINE es == {Turn}
        <5>1. e \in es /\ results' = Listed(es, v)
          BY <2>a, <3>2
        <5> HIDE DEF es
        <5> QED BY <1>0, <5>1, ListedLast
      <4>2. CASE agrees
        <5>1. Came.agrees = TRUE /\ (op = "roundtrip" => agreed = TRUE) /\ v = "Passed"
          BY <1>0, <2>2, <2>3, <4>2
        <5>2. told.decode = {TRUE} /\ told.decode \cup told.roundtrip = {TRUE}
          BY <2>4, <5>1
        <5>3. declared.writes /\ holding = {e} => told.roundtrip = {TRUE}
          BY <2>1, <2>5, <2>6, <3>2, <5>1
        <5> QED BY <4>1, <5>1, <5>2, <5>3 DEF Verdict
      <4>3. CASE ~agrees
        <5>1. v = "Mismatched" /\ (Came.agrees = FALSE \/ (op = "roundtrip" /\ agreed = FALSE))
          BY <1>0, <2>1, <2>2, <2>3, <4>3
        <5>2. FALSE \in told.decode \cup told.roundtrip
          BY <2>1, <2>4, <5>1
        <5> QED BY <4>1, <5>1, <5>2 DEF Verdict
      <4> QED BY <4>2, <4>3
    <3> QED BY <3>1, <3>2
  <2> QED BY <2>7 DEF VerdictsGiven
<1> QED BY <1>2, <1>3, <1>4, <1>5, <1>6, <1>7, <1>8, <1>9, Kinds DEF Requests, Decides

(* A verdict in the report (Engine.compare) is what the adapter, asked     *)
(* about that entry, said of it, and the round trip a whole decode makes   *)
(* due was made.                                                           *)
THEOREM VerdictsHold == Spec => VerdictsAreTold
<1>1. Conversation /\ [Next]_vars => [VerdictsGiven]_vars
  BY VerdictStep
<1>2. VerdictsAreTold <=> [][VerdictsGiven]_vars
  BY DEF VerdictsAreTold, VerdictsGiven, Verdict
<1> QED BY <1>1, <1>2, ConversationHolds, PTL DEF Spec

-----------------------------------------------------------------------------
(* Counting the entries generate lacked code for as they are passed over.  *)
LEMMA LackingCounted ==
  ASSUME TypeOK
  PROVE  /\ Cardinality(lacking \cap left) \in Nat
         /\ \A l \in SUBSET left : Cardinality(lacking \cap l) \in Nat
                                   /\ Cardinality(lacking \cap l) <= Cardinality(lacking \cap left)
         /\ \A e \in lacking \cap left :
              Cardinality(lacking \cap (left \ {e})) = Cardinality(lacking \cap left) - 1
<1>1. lacking \cap left \in SUBSET Entry
  BY DEF TypeOK
<1>2. IsFiniteSet(lacking \cap left)
  BY <1>1, EntriesFinite
<1>3. Cardinality(lacking \cap left) \in Nat
  BY <1>2, FS_CardinalityType
<1>4. ASSUME NEW l \in SUBSET left
      PROVE  Cardinality(lacking \cap l) \in Nat
             /\ Cardinality(lacking \cap l) <= Cardinality(lacking \cap left)
  <2>1. lacking \cap l \subseteq lacking \cap left
    OBVIOUS
  <2> QED BY <1>2, <2>1, FS_Subset, FS_CardinalityType
<1>5. ASSUME NEW e \in lacking \cap left
      PROVE  Cardinality(lacking \cap (left \ {e})) = Cardinality(lacking \cap left) - 1
  <2>1. lacking \cap (left \ {e}) = (lacking \cap left) \ {e}
    OBVIOUS
  <2> QED BY <1>2, <2>1, FS_RemoveElement
<1> QED BY <1>3, <1>4, <1>5

LEMMA Costs == ASSUME NEW es \in SUBSET Entry PROVE Cardinality(es) \in Nat
BY EntriesFinite, FS_CardinalityType

LEMMA BaseCounts ==
  /\ Due \in {0, 1} /\ Departed \in {0, 1} /\ Due' \in {0, 1} /\ Departed' \in {0, 1}
  /\ TypeOK => Len(outbox) \in Nat /\ Base \in Int /\ unpaid \in Int
  /\ TypeOK' => Len(outbox') \in Nat /\ Base' \in Int /\ unpaid' \in Int
<1>1. Due \in {0, 1} /\ Departed \in {0, 1} /\ Due' \in {0, 1} /\ Departed' \in {0, 1}
  BY DEF Due, Departed
<1>2. TypeOK => Len(outbox) \in Nat /\ unpaid \in Int
  BY DEF TypeOK, AdapterTypeOK
<1>3. TypeOK' => Len(outbox') \in Nat /\ unpaid' \in Int
  BY DEF TypeOK, AdapterTypeOK
<1>4. TypeOK => Base \in Int
  BY <1>1, <1>2 DEF Base
<1>5. TypeOK' => Base' \in Int
  BY <1>1, <1>3 DEF Base
<1> QED BY <1>1, <1>2, <1>3, <1>4, <1>5

(* A good answer counts against nobody; any other frame read is a misdeed. *)
LEMMA AwaitedAnswer ==
  ASSUME Conversation, NEW op, Receives(op)
  PROVE  /\ Awaited <=> Good(Came)
         /\ pc' # "receiving" =>
              Base' = IF Good(Came) THEN Base ELSE Base - 1
<1>0. IInv /\ Numbered /\ Candid /\ TypeOK
  BY DEF Conversation, IInv
<1>1. lately = {Came} /\ Len(outbox') = Len(outbox) - 1
  BY <1>0, AnswerReceived
<1>2. pc = "receiving" /\ process' = process
  BY DEF Receives, AdapterButOutbox
<1>3. Awaited <=> Good(Came)
  BY <1>1, <1>2 DEF Awaited
<1>4. pc' # "receiving" => ~Awaited'
  BY DEF Awaited
<1>5. Len(outbox) \in Nat
  BY <1>0, BaseCounts
<1>6. ASSUME pc' # "receiving"
      PROVE  Base' = IF Good(Came) THEN Base ELSE Base - 1
  <2>1. Due' = 0 /\ Departed' = Departed /\ Due = IF Good(Came) THEN 1 ELSE 0
    BY <1>2, <1>3, <1>4, <1>6 DEF Due, Departed
  <2> QED BY <1>1, <1>5, <2>1, BaseCounts DEF Base
<1> QED BY <1>3, <1>6

(* A step of the adapter that is a misdeed adds no more than it pays for.  *)
LEMMA MisdeedPaid ==
  ASSUME Conversation, Paid, UNCHANGED <<pc, asking, left, lacking>>,
         unpaid' = unpaid + 1, Base' <= Base + 1, Base' \in Int,
         \A f \in lately' : Good(f) => f \in lately
  PROVE  Paid'
<1>0. TypeOK /\ unpaid \in Int /\ Base \in Int /\ Cardinality(lacking \cap left) \in Nat
      /\ lately \in SUBSET Frame
  BY BaseCounts, LackingCounted DEF Conversation, IInv, TypeOK, AdapterTypeOK
<1>1. Talking' = Talking /\ OverEntries' = OverEntries /\ AboutAnEntry' = AboutAnEntry
  BY DEF Talking, Waiting, OverEntries, AboutAnEntry
<1>2. Awaited' => Awaited
  BY DEF Awaited, Good
<1>3. \A f : Good(f)' <=> Good(f)
  BY DEF Good
<1>4. \A f \in lately : Cardinality(f.lacks) \in Nat
  BY <1>0, Costs DEF Frame
<1> QED BY <1>0, <1>1, <1>2, <1>3, <1>4 DEF Paid

LEMMA AdapterPays == ASSUME Conversation, Conversation', Paid, AdapterActs PROVE Paid'
<1>0. /\ IInv /\ Numbered /\ Candid /\ Understood /\ TypeOK /\ TypeOK'
      /\ outbox \in Seq(Frame) /\ asking.id \in Nat /\ unpaid \in Int
  BY DEF Conversation, IInv, TypeOK, AdapterTypeOK, Request
<1>1. UNCHANGED <<pc, asking, left, lacking>> /\ Adapter
  BY DEF AdapterActs, engineVars
<1>2. Len(outbox) \in Nat /\ Base \in Int /\ Base' \in Int
  BY <1>0, BaseCounts
<1>a. Talking' = Talking /\ OverEntries' = OverEntries /\ AboutAnEntry' = AboutAnEntry
  BY <1>1 DEF Talking, Waiting, OverEntries, AboutAnEntry
<1>b. \A f : Good(f)' <=> Good(f)
  BY <1>1 DEF Good
<1>3. ASSUME NEW f \in Frame, AnswersWith(f)
      PROVE  ~Awaited /\ Len(outbox') = Len(outbox) + 1 /\ (Talking => pc = "receiving")
             /\ process' = process
  <2>1. \A g \in lately : g.id < asking.id
    BY <1>0, <1>3 DEF AnswersWith, Numbered
  <2>2. \A g \in lately : g.id # asking.id
    <3>1. \A g \in lately : g.id \in Nat
      BY <1>0 DEF TypeOK, AdapterTypeOK, Frame
    <3> QED BY <1>0, <2>1, <3>1
  <2>3. Len(outbox') = Len(outbox) + 1
    BY <1>0, <1>3, Written DEF AnswersWith
  <2> QED BY <1>0, <1>3, <2>2, <2>3 DEF AnswersWith, Awaited, Good, Numbered, Talking, Waiting
<1>4. ASSUME NEW f \in Frame, ServesWith(f) PROVE Paid'
  <2>1. /\ ~Awaited /\ Len(outbox') = Len(outbox) + 1 /\ (Talking => pc = "receiving")
        /\ process' = process /\ lately' = {f} /\ Good(f)'
        /\ unpaid' = unpaid + Cardinality(f.lacks) /\ Cardinality(f.lacks) \in Nat
    BY <1>1, <1>3, <1>4, Costs DEF ServesWith, AnswersWith, Good, Frame
  <2>2. Talking => Base' = Base
    <3>1. Talking => Due' = 1 /\ Due = 0 /\ Departed' = Departed
      BY <1>1, <2>1 DEF Due, Departed, Awaited
    <3> QED BY <1>2, <2>1, <3>1, BaseCounts DEF Base
  <2>3. Awaited' => Talking
    BY <1>1 DEF Awaited, Talking, Waiting
  <2>4. OverEntries => Talking
    BY DEF OverEntries, Talking
  <2>5. Cardinality(lacking \cap left) \in Nat
    BY <1>0, LackingCounted
  <2> QED BY <1>0, <1>1, <1>2, <1>a, <1>b, <2>1, <2>2, <2>3, <2>4, <2>5 DEF Paid
<1>5. ASSUME NEW f \in Frame, BalksWith(f) PROVE Paid'
  <2>1. /\ ~Awaited /\ Len(outbox') = Len(outbox) + 1
        /\ process' = process /\ lately' = {f} /\ ~Good(f) /\ unpaid' = unpaid + 1
    BY <1>3, <1>5 DEF BalksWith, AnswersWith, Good
  <2>2. ~Awaited'
    BY <1>b, <2>1 DEF Awaited
  <2>3. Base' = Base + 1
    <3>1. Due' = 0 /\ Due = 0 /\ Departed' = Departed
      BY <2>1, <2>2 DEF Due, Departed
    <3> QED BY <1>2, <2>1, <3>1, BaseCounts DEF Base
  <2> QED BY <1>1, <1>2, <2>1, <2>3, MisdeedPaid
<1>6. ASSUME NEW f \in Frame, AddsNoise(f) PROVE Paid'
  <2>1. /\ Len(outbox') = Len(outbox) + 1 /\ UNCHANGED <<process, lately>> /\ unpaid' = unpaid + 1
    BY <1>0, <1>6, Written DEF AddsNoise, Knows
  <2>2. Awaited' <=> Awaited
    BY <1>1, <1>b, <2>1 DEF Awaited
  <2>3. Base' = Base + 1
    <3>1. Due' = Due /\ Departed' = Departed
      BY <2>1, <2>2 DEF Due, Departed
    <3> QED BY <1>2, <2>1, <3>1, BaseCounts DEF Base
  <2> QED BY <1>1, <1>2, <2>1, <2>3, MisdeedPaid
<1>7. ASSUME Exits PROVE Paid'
  <2>1. UNCHANGED <<outbox, lately>> /\ unpaid' = unpaid + 1 /\ process = "up"
        /\ process' = "exited"
    BY <1>7 DEF Exits
  <2>2. Awaited' <=> Awaited
    BY <1>1, <1>b, <2>1 DEF Awaited
  <2>3. Base' = Base + 1
    <3>1. Due' = Due /\ Departed = 0 /\ Departed' = 1
      BY <2>1, <2>2 DEF Due, Departed
    <3> QED BY <1>2, <2>1, <3>1, BaseCounts DEF Base
  <2> QED BY <1>1, <1>2, <2>1, <2>3, MisdeedPaid
<1>8. ASSUME LetsGo PROVE Paid'
  <2>1. UNCHANGED <<outbox, lately, process, unpaid>>
    BY <1>8 DEF LetsGo
  <2>2. Awaited' <=> Awaited
    BY <1>1, <1>b, <2>1 DEF Awaited
  <2>3. Base' = Base
    BY <2>1, <2>2 DEF Base, Due, Departed
  <2> QED BY <1>1, <1>a, <1>b, <2>1, <2>2, <2>3 DEF Paid
<1> QED BY <1>0, <1>1, <1>4, <1>5, <1>6, <1>7, <1>8, AdapterStep


(* Where the engine hangs up on a process there is a misdeed to pay for it *)
(* when it did so over an entry.                                           *)
LEMMA LeavesPays == ASSUME Conversation, Paid, Leaves PROVE Paid'
<1>0. /\ IInv /\ Numbered /\ Candid /\ Understood /\ TypeOK
      /\ outbox \in Seq(Frame)
      /\ Len(outbox) \in Nat /\ Base \in Int /\ unpaid \in Int
  BY BaseCounts DEF Conversation, IInv, TypeOK, AdapterTypeOK
<1>1. pc' \in {"reaping", "ending"} /\ asking' = asking
  BY LeavesHushes DEF Hushes
<1>2. ASSUME unpaid' \in Int, unpaid' >= 0, pc' = "reaping" /\ AboutAnEntry => unpaid' >= 1
      PROVE  Paid'
  <2>1. ~Talking' /\ ~OverEntries' /\ ~Awaited' /\ AboutAnEntry' = AboutAnEntry
    BY <1>1 DEF Talking, Waiting, OverEntries, Awaited, AboutAnEntry
  <2> QED BY <1>2, <2>1 DEF Paid
<1>3. unpaid >= 0 /\ (Talking => unpaid >= Base)
  BY DEF Paid
<1>4. CASE TimesOut \/ HearsCancelled
  <2>1. unpaid' = unpaid + 1
    BY <1>4 DEF TimesOut, HearsCancelled
  <2> QED BY <1>0, <1>2, <1>3, <2>1
<1>5. CASE CannotSend
  <2>1. unpaid' = unpaid /\ Talking /\ Due = 0 /\ Departed = 1
    BY <1>5 DEF CannotSend, Talking, Waiting, Due, Awaited, Departed
  <2> QED BY <1>0, <1>2, <1>3, <2>1 DEF Base
<1>6. CASE Misreads
  <2>1. /\ unpaid' = unpaid /\ Talking /\ pc = "receiving" /\ outbox # <<>>
        /\ ~Pairs(Head(outbox))
    BY <1>6 DEF Misreads, Talking, Waiting
  <2>2. Head(outbox) = outbox[1] /\ Len(outbox) >= 1
    BY <1>0, <2>1
  <2>3. ASSUME Awaited PROVE Len(outbox) >= 2
    <3>1. PICK f \in lately : f.id = asking.id
      BY <2>3 DEF Awaited, Good
    <3>2. f \in Unread /\ Pairs(f)
      BY <1>0, <2>1, <3>1 DEF Numbered, Pairs
    <3>3. PICK i \in 1..Len(outbox) : outbox[i] = f
      BY <3>2 DEF Unread
    <3>4. i # 1
      BY <2>1, <2>2, <3>2, <3>3
    <3> QED BY <1>0, <3>3, <3>4
  <2>4. Len(outbox) - Due >= 1
    BY <1>0, <2>2, <2>3 DEF Due
  <2> QED BY <1>0, <1>2, <1>3, <2>1, <2>4, BaseCounts DEF Base
<1>7. CASE ReachesEnd
  <2>1. unpaid' = unpaid /\ Talking /\ pc = "receiving" /\ outbox = <<>> /\ Departed = 1
    BY <1>7 DEF ReachesEnd, Talking, Waiting, Departed
  <2>2. Unread = {}
    BY <1>0, <2>1, NothingUnread
  <2>3. Due = 0
    BY <1>0, <2>1, <2>2 DEF Due, Awaited, Good, Numbered
  <2> QED BY <1>0, <1>2, <1>3, <2>1, <2>3 DEF Base
<1>8. CASE RefusedHello \/ ByeAnswered \/ GraceOver
  <2>1. unpaid' = unpaid /\ ~AboutAnEntry
    BY <1>0, <1>8 DEF RefusedHello, ByeAnswered, GraceOver, Receives, AboutAnEntry, adapterVars,
       Understood
  <2> QED BY <1>0, <1>2, <1>3, <2>1
<1> QED BY <1>4, <1>5, <1>6, <1>7, <1>8 DEF Leaves

LEMMA LosesPays == ASSUME Conversation, Paid, Loses PROVE Paid'
<1>0. unpaid \in Int /\ unpaid >= 0
  BY BaseCounts DEF Conversation, IInv, Paid
<1>1. pc' \in {"finished", "opening"}
  BY LosesDrops DEF Drops
<1>2. unpaid' = unpaid \/ (unpaid' = unpaid - 1 /\ unpaid >= 1)
  <2>1. CannotOpen \/ Ends \/ LosesTheRun => unpaid' = unpaid
    BY DEF CannotOpen, Ends, LosesTheRun, Finishes
  <2>2. Restarts => unpaid' = unpaid - 1 /\ unpaid >= 1
    BY DEF Restarts, LosesTheEntry, Faults, Paid
  <2> QED BY <2>1, <2>2 DEF Loses
<1>3. ~Talking' /\ ~OverEntries' /\ ~Awaited'
  BY <1>1 DEF Talking, Waiting, OverEntries, Awaited
<1> QED BY <1>0, <1>1, <1>2, <1>3 DEF Paid

LEMMA RequestsPay == ASSUME Conversation, Paid, Requests PROVE Paid'
<1>0. /\ IInv /\ Numbered /\ Candid /\ Understood /\ TypeOK
      /\ Len(outbox) \in Nat /\ Base \in Int /\ unpaid \in Int
      /\ Cardinality(lacking \cap left) \in Nat
  BY BaseCounts, LackingCounted DEF Conversation, IInv
<1>1. pc' = "sending" /\ process' = process /\ ~Awaited'
  BY <1>0, RequestsAsks DEF Asks, Knows, Awaited
<1>2. unpaid' = unpaid /\ (OverEntries' => OverEntries /\ UNCHANGED <<lacking, left>>)
  BY DEF Requests, Greets, HasNothingToAsk, CannotGenerate, DecodesWhole, AsksToDecode,
     SaysGoodbye, Ask, OverEntries, Waiting, AboutAnEntry, adapterVars, Receives
<1>3. Base' <= Base /\ Base' \in Int /\ Talking
  <2>1. CASE AsksToDecode \/ SaysGoodbye
    <3>1. Due = 0 /\ Due' = 0 /\ Departed' = Departed /\ outbox' = outbox /\ Talking
      BY <1>1, <2>1 DEF AsksToDecode, SaysGoodbye, Due, Awaited, Departed, Talking, adapterVars
    <3> QED BY <1>0, <3>1, BaseCounts DEF Base
  <2>2. CASE Greets \/ HasNothingToAsk \/ CannotGenerate \/ DecodesWhole
    <3>1. PICK op \in Ops : Receives(op)
      BY <2>2 DEF Greets, HasNothingToAsk, CannotGenerate, DecodesWhole, Ops
    <3>2. Base' = IF Good(Came) THEN Base ELSE Base - 1
      BY <1>1, <3>1, AwaitedAnswer
    <3>3. Talking
      BY <3>1 DEF Receives, Talking, Waiting
    <3> QED BY <1>0, <3>2, <3>3
  <2> QED BY <2>1, <2>2 DEF Requests
<1>4. unpaid' >= 0 /\ unpaid' >= Base'
  BY <1>0, <1>2, <1>3 DEF Paid
<1>5. ASSUME OverEntries' PROVE unpaid' >= Base' + Cardinality(lacking' \cap left')
  <2>1. lacking' \cap left' = lacking \cap left /\ unpaid >= Base + Cardinality(lacking \cap left)
    <3>1. OverEntries /\ lacking' = lacking /\ left' = left
      BY <1>2, <1>5
    <3> QED BY <3>1 DEF Paid
  <2> DEFINE n == Cardinality(lacking \cap left)
  <2>2. n \in Nat /\ unpaid >= Base + n
    BY <1>0, <2>1
  <2> HIDE DEF n
  <2>3. unpaid' = unpaid /\ Base' <= Base /\ Base \in Int /\ Base' \in Int /\ unpaid \in Int
    BY <1>0, <1>2, <1>3
  <2>4. \A u, b, c \in Int, m \in Nat : u >= b + m /\ c <= b => u >= c + m
    OBVIOUS
  <2>5. unpaid >= Base' + n
    BY <2>2, <2>3, <2>4
  <2> QED BY <2>1, <2>3, <2>5 DEF n
<1> QED BY <1>1, <1>4, <1>5 DEF Paid

LEMMA DecidesPays == ASSUME Conversation, Paid, Decides PROVE Paid'
<1>0. /\ IInv /\ Numbered /\ Candid /\ Understood /\ TypeOK /\ OverTheTurn
      /\ Len(outbox) \in Nat /\ Base \in Int /\ unpaid \in Int
      /\ Cardinality(lacking \cap left) \in Nat /\ left \in SUBSET Entry
  BY BaseCounts, LackingCounted DEF Conversation, IInv, TypeOK
<1>1. pc' = "choosing" /\ process' = process /\ ~Awaited'
  BY <1>0, DecidesMovesOn DEF MovesOn, Knows, Awaited
<1>2. ASSUME unpaid' \in Int, Base' \in Int, Cardinality(lacking' \cap left') \in Nat,
             unpaid' >= 0, unpaid' >= Base' + Cardinality(lacking' \cap left')
      PROVE  Paid'
  BY <1>1, <1>2 DEF Paid
<1>3. CASE Generates
  <2>1. /\ Receives("generate") /\ Came.ok /\ lacking' = Came.lacks /\ left' = left
        /\ unpaid' = unpaid
    BY <1>3 DEF Generates
  <2>2. asking.op = "generate" /\ ~AboutAnEntry /\ lately = {Came} /\ Came \in Frame
    BY <1>0, <2>1, AnswerReceived DEF AboutAnEntry
  <2>3. Good(Came)
    BY <1>0, <2>1, <2>2, AnswerReceived DEF Good
  <2>4. Base' = Base /\ Awaited
    BY <1>1, <2>1, <2>3, AwaitedAnswer
  <2>5. unpaid >= Base + Cardinality(Came.lacks)
    BY <2>2, <2>3, <2>4 DEF Paid
  <2>6. /\ Cardinality(Came.lacks) \in Nat /\ Cardinality(lacking' \cap left') \in Nat
        /\ Cardinality(lacking' \cap left') <= Cardinality(Came.lacks)
    <3>1. Came.lacks \in SUBSET Entry
      BY <2>2 DEF Frame
    <3>2. IsFiniteSet(Came.lacks) /\ lacking' \cap left' \subseteq Came.lacks
      BY <2>1, <3>1, EntriesFinite
    <3> QED BY <3>2, FS_Subset, FS_CardinalityType
  <2>7. unpaid >= 0
    BY DEF Paid
  <2> QED BY <1>0, <1>2, <2>1, <2>4, <2>5, <2>6, <2>7
<1>4. OverEntries => unpaid >= Base + Cardinality(lacking \cap left)
  BY DEF Paid
<1>5. CASE PassesOver
  <2>1. /\ Turn \in lacking \cap left /\ left' = left \ {Turn} /\ lacking' = lacking
        /\ unpaid' = unpaid - 1 /\ outbox' = outbox /\ OverEntries /\ Talking /\ pc = "choosing"
    BY <1>0, <1>5, TurnIsLeft DEF PassesOver, Faults, Concludes, OverEntries, Talking
  <2>2. Cardinality(lacking' \cap left') = Cardinality(lacking \cap left) - 1
        /\ Cardinality(lacking' \cap left') \in Nat
    BY <1>0, <2>1, LackingCounted
  <2>3. Due = 0 /\ Due' = 0 /\ Departed' = Departed
    BY <1>1, <2>1 DEF Due, Awaited, Departed
  <2>4. Base' = Base /\ Base >= 0
    BY <1>0, <2>1, <2>3, BaseCounts DEF Base
  <2> QED BY <1>0, <1>2, <1>4, <2>1, <2>2, <2>4
<1>6. CASE Decodes \/ Roundtrips \/ CannotAnswer
  <2>1. PICK op \in {"decode", "roundtrip"} : Receives(op)
    BY <1>6 DEF Decodes, Roundtrips, CannotAnswer
  <2>2. asking.op = op /\ Came.op = op /\ Came.id = asking.id /\ Len(outbox) >= 1 /\ OverEntries
    <3>1. asking.op = op /\ Came.op = op /\ Came.id = asking.id
      BY <1>0, <2>1, AnswerReceived
    <3>2. Len(outbox) >= 1
      BY <1>0, <2>1 DEF Receives, TypeOK, AdapterTypeOK
    <3> QED BY <2>1, <3>1, <3>2 DEF Receives, OverEntries, Waiting, AboutAnEntry
  <2>3. /\ left' \in SUBSET left /\ lacking' = lacking
        /\ unpaid' = IF Good(Came) THEN unpaid ELSE unpaid - 1
    BY <1>6, <2>2 DEF Decodes, Roundtrips, CannotAnswer, Judges, Faults, Concludes,
       AnswersTheEntry, Good
  <2>4. Base' = (IF Good(Came) THEN Base ELSE Base - 1) /\ (Awaited <=> Good(Came))
    BY <1>1, <2>1, AwaitedAnswer
  <2>5. ~Good(Came) => Base >= 1
    <3>1. ~Good(Came) => Due = 0
      BY <2>4 DEF Due
    <3> QED BY <1>0, <2>2, <3>1, BaseCounts DEF Base
  <2>6. Cardinality(lacking' \cap left') \in Nat
        /\ Cardinality(lacking' \cap left') <= Cardinality(lacking \cap left)
    BY <1>0, <2>3, LackingCounted
  <2>7. unpaid >= 0 /\ unpaid >= Base + Cardinality(lacking \cap left)
    BY <1>4, <2>2 DEF Paid
  <2>8. CASE Good(Came)
    BY <1>0, <1>2, <2>3, <2>4, <2>6, <2>7, <2>8
  <2>9. CASE ~Good(Came)
    BY <1>0, <1>2, <2>3, <2>4, <2>5, <2>6, <2>7, <2>9
  <2> QED BY <2>8, <2>9
<1> QED BY <1>3, <1>5, <1>6 DEF Decides

LEMMA PaidHolds == Spec => []Paid
<1>1. Init => Paid
  BY DEF Init, NoProcess, Paid, Talking, Waiting, OverEntries, Awaited
<1>2. Conversation /\ Conversation' /\ Paid /\ [Next]_vars => Paid'
  <2> SUFFICES ASSUME Conversation, Conversation', Paid, [Next]_vars PROVE Paid'
    OBVIOUS
  <2>0. TypeOK /\ Numbered
    BY DEF Conversation, IInv
  <2>1. CASE Opens
    <3>1. unpaid' = 0 /\ outbox' = <<>> /\ pc' = "sending" /\ asking'.op = "hello"
          /\ process' = "up"
      BY <2>1 DEF Opens, Started, Forgotten
    <3>2. Due' = 0 /\ Departed' = 0 /\ ~OverEntries' /\ ~Awaited' /\ Len(outbox') = 0
      BY <3>1 DEF Due, Departed, Awaited, OverEntries, AboutAnEntry
    <3>3. Base' = 0
      BY <3>2 DEF Base
    <3> QED BY <3>1, <3>2, <3>3 DEF Paid
  <2>2. CASE Sends
    <3>1. /\ UNCHANGED <<outbox, process, lately, asking, lacking, left, unpaid>>
          /\ pc = "sending" /\ pc' = "receiving"
      BY <2>2 DEF Sends
    <3>2. \A f \in lately : f.id < asking.id /\ f.id \in Nat /\ asking.id \in Nat
      BY <2>0, <3>1 DEF Numbered, TypeOK, AdapterTypeOK, Frame, Request
    <3>3. ~Awaited /\ ~Awaited'
      BY <3>1, <3>2 DEF Awaited, Good
    <3>4. Due' = Due /\ Departed' = Departed
      BY <3>1, <3>3 DEF Due, Departed
    <3>5. Base' = Base
      BY <3>1, <3>4 DEF Base
    <3>6. Talking /\ (OverEntries' => OverEntries)
      BY <3>1 DEF Talking, Waiting, OverEntries, AboutAnEntry
    <3> QED BY <3>1, <3>3, <3>5, <3>6 DEF Paid
  <2>3. CASE Rests
    <3>1. /\ UNCHANGED <<outbox, process, lately, asking, lacking, left, unpaid, pc>>
      BY <2>3 DEF Rests, IsCancelled, vars, adapterVars, engineVars
    <3> QED BY <3>1 DEF Paid, Base, Due, Departed, Awaited, Good, Talking, Waiting, OverEntries,
            AboutAnEntry
  <2> QED BY <2>1, <2>2, <2>3, Kinds, LeavesPays, LosesPays, RequestsPay, DecidesPays, AdapterPays
<1> QED BY <1>1, <1>2, ConversationHolds, PTL DEF Spec

(* An adapter that breaks, refuses, babbles or doubles a frame costs the   *)
(* entry it was asked about and no other (Engine.pass): every entry the    *)
(* engine faults while a process runs has a misdeed of its own behind it.  *)
THEOREM FaultsAreIsolated == Spec => []OneMisdeedOneFault
<1>1. Paid => OneMisdeedOneFault
  BY DEF Paid, OneMisdeedOneFault
<1> QED BY <1>1, PaidHolds, PTL
=============================================================================
