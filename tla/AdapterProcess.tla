--------------------------- MODULE AdapterProcess ----------------------------
(***************************************************************************)
(* One adapter process at a time, and the pipes the conformance engine     *)
(* talks to it through (internal/conformance/engine: door.go, frame.go).   *)
(* The process is somebody else's program. It answers what it is asked,    *)
(* rightly or wrongly, it refuses, and it misbehaves: it falls silent,     *)
(* exits, answers about another entry, writes a frame twice, or writes     *)
(* something that is no frame. It never guesses: what it says about an     *)
(* entry it says having been asked about that entry.                       *)
(***************************************************************************)
EXTENDS Integers, Sequences, FiniteSets

CONSTANTS Count,    \* how many entries the corpus has
          Axed,     \* the entries that state read axes
          Room      \* how many frames may lie unread before a write blocks

Entry == 1..Count

ASSUME CountAssumption == Count \in Nat \ {0}
ASSUME AxedAssumption == Axed \subseteq Entry
ASSUME RoomAssumption == Room \in Nat \ {0}

VARIABLES
  process,    \* whether there is one, and whether it still runs
  held,       \* something it started keeps its standard error open
  inbox,      \* requests it has not read
  outbox,     \* frames the engine has not read
  declared,   \* what it said of itself at the handshake
  able,       \* the entries it said it has code for
  holding,    \* the entry whose records it read to the end
  lately,     \* the frames it could write again: its last one
  told,       \* what it said of the entry it was last asked to decode
  unpaid      \* its misdeeds that no entry was faulted for, as yet

adapterVars ==
  <<process, held, inbox, outbox, declared, able, holding, lately, told, unpaid>>

Ops == {"hello", "generate", "decode", "roundtrip", "bye"}
Declaration == [kind : {"codec", "descriptive"}, writes : BOOLEAN, axes : BOOLEAN]
Request == [id : Nat, op : Ops, about : SUBSET Entry]

(* A frame names the request and the entries it is about; the document it  *)
(* carries belongs to its operation. "agrees" stands for the comparison of *)
(* the document with what the entry states, "whole" for a document that    *)
(* tells of no failure and no refused axes.                                *)
Frame == [id : Nat, op : Ops \cup {"garbage"}, about : SUBSET Entry,
          ok : BOOLEAN, declares : Declaration, lacks : SUBSET Entry,
          agrees : BOOLEAN, whole : BOOLEAN]

Silent == [kind |-> "descriptive", writes |-> FALSE, axes |-> FALSE]
Untold == [decode |-> {}, roundtrip |-> {}]

AdapterTypeOK ==
  /\ process \in {"none", "up", "exited"}
  /\ held \in BOOLEAN
  /\ inbox \in Seq(Request)
  /\ outbox \in Seq(Frame)
  /\ declared \in Declaration
  /\ able \in SUBSET Entry
  /\ holding \in SUBSET Entry
  /\ lately \in SUBSET Frame
  /\ told \in [decode : SUBSET BOOLEAN, roundtrip : SUBSET BOOLEAN]
  /\ unpaid \in Int

(* A refusal carries no document, and what is no frame carries nothing.    *)
Refusal(req) ==
  [id |-> req.id, op |-> req.op, about |-> req.about, ok |-> FALSE, declares |-> Silent,
   lacks |-> {}, agrees |-> FALSE, whole |-> FALSE]

Garbage ==
  [id |-> 0, op |-> "garbage", about |-> {}, ok |-> FALSE, declares |-> Silent,
   lacks |-> {}, agrees |-> FALSE, whole |-> FALSE]

(* What an adapter that serves a request may answer it.                    *)
Served(req) ==
  [id : {req.id}, op : {req.op}, about : {req.about}, ok : {TRUE},
   declares : IF req.op = "hello" THEN Declaration ELSE {Silent},
   lacks : IF req.op = "generate" THEN SUBSET req.about ELSE {{}},
   agrees : IF req.op \in {"decode", "roundtrip"} THEN BOOLEAN ELSE {FALSE},
   whole : IF req.op = "decode" THEN BOOLEAN ELSE {FALSE}]

-----------------------------------------------------------------------------
NoProcess ==
  /\ process = "none" /\ held = FALSE /\ inbox = <<>> /\ outbox = <<>>
  /\ declared = Silent /\ able = {} /\ holding = {} /\ lately = {}
  /\ told = Untold /\ unpaid = 0

(* What was between the engine and its process is no more.                 *)
Forgotten ==
  /\ held' = FALSE /\ inbox' = <<>> /\ outbox' = <<>>
  /\ declared' = Silent /\ able' = {} /\ holding' = {} /\ lately' = {}
  /\ told' = Untold

(* A door starts a process that has been told nothing.                     *)
Started == process' = "up" /\ Forgotten /\ unpaid' = 0

(* The process has been reaped.                                            *)
Reaped == process' = "none" /\ Forgotten

(* What a process that wrote frame f in answer to a request now knows.     *)
Learns(f) ==
  /\ declared' = IF f.op = "hello" THEN f.declares ELSE declared
  /\ able' = IF f.op = "generate" THEN f.about \ f.lacks ELSE able
  /\ holding' = IF f.op = "decode" THEN IF f.whole THEN f.about ELSE {} ELSE holding
  /\ told' = CASE f.op = "decode" -> [decode |-> {f.agrees}, roundtrip |-> {}]
               [] f.op = "roundtrip" -> [told EXCEPT !.roundtrip = {f.agrees}]
               [] OTHER -> told

Writes(f) == Len(outbox) < Room /\ outbox' = Append(outbox, f)
Reads == inbox # <<>> /\ inbox' = Tail(inbox)

Answers ==
  /\ process = "up" /\ Reads
  /\ \E f \in Served(Head(inbox)) :
       /\ Writes(f) /\ Learns(f)
       /\ lately' = {f}
       /\ unpaid' = unpaid + Cardinality(f.lacks)
  /\ UNCHANGED <<process, held>>

(* It cannot serve the request, or answers in terms the engine must refuse *)
(* without the stream being in doubt: another protocol, no name, a result  *)
(* missing, a document that is no values document.                         *)
Refuses ==
  /\ process = "up" /\ Reads
  /\ Writes(Refusal(Head(inbox)))
  /\ lately' = {Refusal(Head(inbox))}
  /\ holding' = IF Head(inbox).op = "decode" THEN {} ELSE holding
  /\ unpaid' = unpaid + 1
  /\ UNCHANGED <<process, held, declared, able, told>>

AnswersAboutAnother ==
  /\ process = "up" /\ Reads
  /\ Head(inbox).op \in {"decode", "roundtrip"}
  /\ \E e \in Entry \ Head(inbox).about :
       \E f \in Served([Head(inbox) EXCEPT !.about = {e}]) :
         Writes(f) /\ lately' = {f}
  /\ holding' = IF Head(inbox).op = "decode" THEN {} ELSE holding
  /\ unpaid' = unpaid + 1
  /\ UNCHANGED <<process, held, declared, able, told>>

Repeats ==
  /\ process = "up"
  /\ \E f \in lately : Writes(f)
  /\ unpaid' = unpaid + 1
  /\ UNCHANGED <<process, held, inbox, declared, able, holding, lately, told>>

Babbles ==
  /\ process = "up"
  /\ Writes(Garbage)
  /\ unpaid' = unpaid + 1
  /\ UNCHANGED <<process, held, inbox, declared, able, holding, lately, told>>

(* It exits, of itself or killed. What it started may live on and hold the *)
(* standard error it was given, until it lets go.                          *)
Exits ==
  /\ process = "up" /\ process' = "exited"
  /\ held' \in BOOLEAN
  /\ unpaid' = unpaid + 1
  /\ UNCHANGED <<inbox, outbox, declared, able, holding, lately, told>>

LetsGo ==
  /\ process = "exited" /\ held /\ held' = FALSE
  /\ UNCHANGED <<process, inbox, outbox, declared, able, holding, lately, told, unpaid>>

Adapter ==
  \/ Answers \/ Refuses \/ AnswersAboutAnother \/ Repeats \/ Babbles
  \/ Exits \/ LetsGo

=============================================================================
