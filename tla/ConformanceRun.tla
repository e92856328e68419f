--------------------------- MODULE ConformanceRun ----------------------------
(***************************************************************************)
(* One run of the conformance engine over a corpus                         *)
(* (internal/conformance/engine: engine.go, conn.go, report.go): hello,    *)
(* generate for every entry at once, decode and perhaps roundtrip for each *)
(* entry in turn, bye; a fresh process for what is left when one breaks.   *)
(*                                                                         *)
(* The engine is one thread: between two waits it does all it does in one  *)
(* step. It waits to send, to receive, for a process to leave and for one  *)
(* it killed to be reaped. The report is kept by entry, what is left of    *)
(* the corpus as a set taken in order. Notes are not kept.                 *)
(***************************************************************************)
EXTENDS AdapterProcess

VARIABLES
  pc,             \* what the engine is doing, or waiting for
  asking,         \* the request it is sending or waiting on; its last one
  left,           \* the entries it has no result for
  session,        \* what the process it talks to declared
  lacking,        \* the entries generate faulted that it has yet to come to
  agreed,         \* whether the decode of the entry agreed
  results,        \* for each entry, the outcomes the report lists
  notApplicable,  \* Report.NotApplicable
  restarts,       \* Report.Restarts
  cancelled       \* the context of the run has been cancelled

engineVars == <<pc, asking, left, session, lacking, agreed, results,
                notApplicable, restarts, cancelled>>
vars == <<adapterVars, engineVars>>

Outcome == {"Passed", "Mismatched", "Faulted", "NotOffered"}

TypeOK ==
  /\ AdapterTypeOK
  /\ pc \in {"opening", "sending", "receiving", "choosing", "ending", "reaping", "finished"}
  /\ asking \in Request
  /\ left \in SUBSET Entry
  /\ session \in Declaration
  /\ lacking \in SUBSET Entry
  /\ agreed \in BOOLEAN
  /\ results \in [Entry -> Seq(Outcome)]
  /\ notApplicable \in BOOLEAN
  /\ restarts \in 0..(Count - 1)
  /\ cancelled \in BOOLEAN

Init ==
  /\ NoProcess
  /\ pc = "opening"
  /\ asking = [id |-> 0, op |-> "bye", about |-> {}]
  /\ left = Entry
  /\ session = Silent
  /\ lacking = {} /\ agreed = FALSE
  /\ results = [e \in Entry |-> <<>>]
  /\ notApplicable = FALSE /\ restarts = 0 /\ cancelled = FALSE

-----------------------------------------------------------------------------
(* The entry whose turn it is.                                             *)
Turn == CHOOSE e \in left : \A f \in left : e <= f

Listed(es, o) == [e \in Entry |-> IF e \in es THEN Append(results[e], o) ELSE results[e]]

(* conn.exchange begins: the next request of the conversation.             *)
Ask(op, about) ==
  /\ asking' = [id |-> asking.id + 1, op |-> op, about |-> about]
  /\ pc' = "sending"

(* A result for the entry whose turn it is.                                *)
Concludes(o) ==
  /\ results' = Listed({Turn}, o)
  /\ left' = left \ {Turn}

Faults ==
  /\ Concludes("Faulted")
  /\ unpaid' = unpaid - 1

Judges(agrees) ==
  /\ Concludes(IF agrees THEN "Passed" ELSE "Mismatched")
  /\ UNCHANGED unpaid

(* The run is over, and what is left was lost with it.                     *)
Finishes ==
  /\ pc' = "finished"
  /\ results' = Listed(left, "Faulted")
  /\ left' = {}
  /\ Reaped /\ lacking' = {}
  /\ UNCHANGED <<unpaid, asking, session, agreed, notApplicable, restarts, cancelled>>

AdapterButOutbox == <<process, held, inbox, declared, able, holding, lately, told>>

-----------------------------------------------------------------------------
Opens ==
  /\ pc = "opening" /\ ~cancelled
  /\ Started
  /\ asking' = [id |-> 1, op |-> "hello", about |-> {}]
  /\ pc' = "sending"
  /\ UNCHANGED <<left, session, lacking, agreed, results, notApplicable, restarts, cancelled>>

CannotOpen == pc = "opening" /\ Finishes

(* The whole frame has gone into the pipe.                                 *)
Sends ==
  /\ pc = "sending"
  /\ inbox' = Append(inbox, asking)
  /\ pc' = "receiving"
  /\ UNCHANGED <<process, held, outbox, declared, able, holding, lately, told, unpaid,
                 asking, left, session, lacking, agreed, results, notApplicable, restarts, cancelled>>

(* The conversation is over: its process is told so, and killed.           *)
Abandons ==
  /\ pc' = "reaping"
  /\ UNCHANGED <<process, held, inbox, declared, able, holding, lately, told, asking, left,
                 session, lacking, agreed, results, notApplicable, restarts, cancelled>>

CannotSend == pc = "sending" /\ process = "exited" /\ Abandons /\ UNCHANGED <<outbox, unpaid>>

(* Mutant: the deadline bounds the answer alone.                           *)
BoundedWaitsReceive == pc = "receiving"

BoundedWait == pc \in {"sending", "receiving"}

TimesOut ==
  /\ BoundedWait
  /\ Abandons /\ unpaid' = unpaid + 1 /\ UNCHANGED outbox

HearsCancelled ==
  /\ cancelled /\ pc \in {"sending", "receiving"}
  /\ Abandons /\ unpaid' = unpaid + 1 /\ UNCHANGED outbox

(* Mutant: whatever frame comes next is the answer.                        *)
PairsAnything(f) == f.op # "garbage"

(* A frame that answers the request outstanding.                           *)
Pairs(f) == f.op # "garbage" /\ f.id = asking.id

Misreads ==
  /\ pc = "receiving" /\ outbox # <<>> /\ ~Pairs(Head(outbox))
  /\ outbox' = Tail(outbox)
  /\ Abandons /\ UNCHANGED unpaid

ReachesEnd ==
  /\ pc = "receiving" /\ outbox = <<>> /\ process = "exited"
  /\ Abandons /\ UNCHANGED <<outbox, unpaid>>

(* The frame that has come.                                                *)
Came == Head(outbox)

Receives(op) ==
  /\ pc = "receiving" /\ asking.op = op
  /\ outbox # <<>> /\ Pairs(Came)
  /\ outbox' = Tail(outbox)
  /\ UNCHANGED <<AdapterButOutbox, restarts, cancelled>>

-----------------------------------------------------------------------------
(* Mutant: entries that are not offered are not asked for, and kept.       *)
OfferedKept(d) == left

(* The entries left that an adapter which declared d is to be asked about. *)
Offered(d) == IF d.axes THEN left ELSE left \ Axed

RefusedHello ==
  /\ Receives("hello") /\ ~Came.ok
  /\ pc' = "reaping"
  /\ UNCHANGED <<unpaid, asking, left, session, lacking, agreed, results, notApplicable>>

Greets ==
  /\ Receives("hello") /\ Came.ok /\ Came.declares.kind = "codec"
  /\ session' = Came.declares
  /\ left' = Offered(Came.declares)
  /\ results' = Listed(IF Came.declares.axes THEN {} ELSE left \cap Axed, "NotOffered")
  /\ IF left' = {} THEN Ask("bye", {}) ELSE Ask("generate", left')
  /\ UNCHANGED <<unpaid, lacking, agreed, notApplicable>>

HasNothingToAsk ==
  /\ Receives("hello") /\ Came.ok /\ Came.declares.kind = "descriptive"
  /\ session' = Came.declares
  /\ notApplicable' = TRUE
  /\ results' = [e \in Entry |-> <<>>] /\ left' = {}
  /\ Ask("bye", {})
  /\ UNCHANGED <<unpaid, lacking, agreed>>

CannotGenerate ==
  /\ Receives("generate") /\ ~Came.ok
  /\ Ask("bye", {})
  /\ UNCHANGED <<unpaid, left, session, lacking, agreed, results, notApplicable>>

Generates ==
  /\ Receives("generate") /\ Came.ok
  /\ lacking' = Came.lacks
  /\ pc' = "choosing"
  /\ UNCHANGED <<unpaid, asking, left, session, agreed, results, notApplicable>>

PassesOver ==
  /\ pc = "choosing" /\ left # {} /\ Turn \in lacking
  /\ Faults
  /\ UNCHANGED <<AdapterButOutbox, outbox, pc, asking, session, lacking, agreed,
                 notApplicable, restarts, cancelled>>

AsksToDecode ==
  /\ pc = "choosing" /\ left # {} /\ Turn \notin lacking
  /\ Ask("decode", {Turn})
  /\ told' = Untold
  /\ UNCHANGED <<process, held, inbox, outbox, declared, able, holding, lately, unpaid, left,
                 session, lacking, agreed, results, notApplicable, restarts, cancelled>>

SaysGoodbye ==
  /\ pc = "choosing" /\ left = {}
  /\ Ask("bye", {})
  /\ UNCHANGED <<adapterVars, left, session, lacking, agreed, results, notApplicable,
                 restarts, cancelled>>

(* Mutant: what the answer is about is not looked at.                      *)
AnswersAnyEntry(f) == f.ok /\ f.op = asking.op

(* The answer was served, echoes the entry, and carries the document.      *)
AnswersTheEntry(f) == f.ok /\ f.about = asking.about /\ f.op = asking.op

(* Mutant: what was read is written back, however much it was.             *)
RoundtripAfterAnyRead(f) == session.writes

RoundtripDue(f) == session.writes /\ f.whole

Decodes ==
  /\ Receives("decode") /\ AnswersTheEntry(Came) /\ ~RoundtripDue(Came)
  /\ Judges(Came.agrees)
  /\ pc' = "choosing"
  /\ UNCHANGED <<asking, session, lacking, agreed, notApplicable>>

DecodesWhole ==
  /\ Receives("decode") /\ AnswersTheEntry(Came) /\ RoundtripDue(Came)
  /\ agreed' = Came.agrees
  /\ Ask("roundtrip", {Turn})
  /\ UNCHANGED <<unpaid, left, session, lacking, results, notApplicable>>

Roundtrips ==
  /\ Receives("roundtrip") /\ AnswersTheEntry(Came)
  /\ Judges(agreed /\ Came.agrees)
  /\ pc' = "choosing"
  /\ UNCHANGED <<asking, session, lacking, agreed, notApplicable>>

CannotAnswer == \E op \in {"decode", "roundtrip"} :
  /\ Receives(op) /\ ~AnswersTheEntry(Came)
  /\ Faults
  /\ pc' = "choosing"
  /\ UNCHANGED <<asking, session, lacking, agreed, notApplicable>>

ByeAnswered ==
  /\ Receives("bye")
  /\ pc' = "ending"
  /\ UNCHANGED <<unpaid, asking, left, session, lacking, agreed, results, notApplicable>>

-----------------------------------------------------------------------------
(* Wait has returned: the process is gone and its standard error closed.   *)
Gone == process = "exited" /\ ~held

Ends == pc = "ending" /\ Gone /\ Finishes

(* Mutant: a process that was killed is not waited for.                    *)
GraceOverUnreaped ==
  /\ pc = "ending"
  /\ pc' = "finished"
  /\ UNCHANGED <<adapterVars, asking, left, session, lacking, agreed, results,
                 notApplicable, restarts, cancelled>>

GraceOver ==
  /\ pc = "ending"
  /\ pc' = "reaping"
  /\ UNCHANGED <<adapterVars, asking, left, session, lacking, agreed, results,
                 notApplicable, restarts, cancelled>>

AboutAnEntry == asking.op \in {"decode", "roundtrip"}

(* A process that broke before or after the entries ends the run.          *)
LosesTheRun == pc = "reaping" /\ Gone /\ ~AboutAnEntry /\ Finishes

LosesTheEntry == Faults

(* One that broke over an entry costs that entry.                          *)
Restarts ==
  /\ pc = "reaping" /\ Gone /\ AboutAnEntry
  /\ LosesTheEntry
  /\ Reaped /\ lacking' = {}
  /\ pc' = IF left' = {} THEN "finished" ELSE "opening"
  /\ restarts' = IF left' = {} THEN restarts ELSE restarts + 1
  /\ UNCHANGED <<asking, session, agreed, notApplicable, cancelled>>

IsCancelled ==
  /\ pc # "finished" /\ ~cancelled /\ cancelled' = TRUE
  /\ UNCHANGED <<adapterVars, pc, asking, left, session, lacking, agreed, results,
                 notApplicable, restarts>>

AdapterActs == pc # "finished" /\ Adapter /\ UNCHANGED engineVars

Reaps == Ends \/ LosesTheRun \/ Restarts

Next ==
  \/ Opens \/ CannotOpen \/ Sends \/ CannotSend \/ TimesOut \/ HearsCancelled
  \/ Misreads \/ ReachesEnd \/ RefusedHello \/ Greets \/ HasNothingToAsk
  \/ CannotGenerate \/ Generates \/ PassesOver \/ AsksToDecode \/ SaysGoodbye
  \/ Decodes \/ DecodesWhole \/ Roundtrips \/ CannotAnswer \/ ByeAnswered
  \/ Ends \/ GraceOver \/ LosesTheRun \/ Restarts \/ IsCancelled
  \/ AdapterActs

(* The engine's own steps and its timers come; a killed process dies. The  *)
(* adapter owes nothing, and a frame need not fit in the pipe.             *)
Fairness ==
  /\ WF_vars(Opens \/ CannotOpen)
  /\ WF_vars(PassesOver \/ AsksToDecode \/ SaysGoodbye)
  /\ WF_vars(TimesOut) /\ WF_vars(GraceOver)
  /\ WF_vars(pc = "reaping" /\ Exits /\ UNCHANGED engineVars)
  /\ WF_vars(Reaps)

Spec == Init /\ [][Next]_vars
FairSpec == Spec /\ Fairness

-----------------------------------------------------------------------------
(* A finished run has one result for every entry of the corpus, and until  *)
(* then every entry is either left or has its one result, whatever broke,  *)
(* how often, and wherever: the filtered, sliced and carried lists of Run, *)
(* pass, offered and faultAll neither drop an entry nor list one twice.    *)
OneResultEach ==
  ~notApplicable =>
    /\ \A e \in Entry : Len(results[e]) = IF e \in left THEN 0 ELSE 1
    /\ pc = "finished" => left = {}

(* An adapter that breaks costs the entry it was asked about and nothing   *)
(* else ("Fault isolation", Engine.Run): no misdeed of an adapter, late,   *)
(* early or doubled, is ever the reason of a second entry's fault.         *)
OneMisdeedOneFault == unpaid >= 0

(* What the engine sends is what the adapter contract lets it send, by     *)
(* what the very process it is sent to has said: nothing but bye to a      *)
(* descriptive adapter, no axes to one that offers none, no decode without *)
(* code for the entry, no roundtrip without a writer and a whole read of   *)
(* that entry, and no request before the last one was read.                *)
KeepsTheContract ==
  /\ Len(inbox) <= 1
  /\ inbox # <<>> =>
       LET req == Head(inbox) IN
       /\ req.op \notin {"hello", "bye"} => declared.kind = "codec"
       /\ req.op \in {"generate", "decode"} /\ ~declared.axes => req.about \cap Axed = {}
       /\ req.op = "decode" => req.about \subseteq able
       /\ req.op = "roundtrip" => declared.writes /\ req.about = holding

(* When the run is over no process it opened is left running or unreaped:  *)
(* every way out of a conversation goes through end or abandon.            *)
NoneLeftBehind == pc \in {"opening", "finished"} => process = "none"

(* A verdict on an entry is what the adapter, asked about that entry, said *)
(* of it: it passes when the decode agreed and so did the roundtrip, if    *)
(* one was due, and it is a mismatch when one of them did not.             *)
VerdictsAreTold ==
  [][\A e \in Entry :
       LET said == told.decode \cup told.roundtrip IN
       Len(results'[e]) = Len(results[e]) + 1 =>
         CASE results'[e][Len(results'[e])] = "Passed" ->
                /\ told.decode = {TRUE} /\ said = {TRUE}
                /\ declared.writes /\ holding = {e} => told.roundtrip = {TRUE}
           [] results'[e][Len(results'[e])] = "Mismatched" -> FALSE \in said
           [] OTHER -> TRUE]_vars

(* Every run ends, whatever the adapter does or leaves undone, as long as  *)
(* nothing it started keeps its standard error open for ever: Wait has no  *)
(* bound of its own.                                                       *)
RunEnds == []<>~held => <>(pc = "finished")

=============================================================================
