----------------------------- MODULE PluginRun -----------------------------
(***************************************************************************)
(* internal/plugin's Runner.Run: every generator of a manifest run at once, *)
(* each in a goroutine of its own that writes its descriptor, starts it,    *)
(* reads its two streams while it runs and says how it ended; beside it the *)
(* goroutine of cmd/cpybkc that turns the first signal into a cancelled     *)
(* context, and the report cmd/cpybkc makes of it all.                      *)
(*                                                                         *)
(* A stream passes through three places: the pipe of the operating system,  *)
(* what os/exec's copying goroutine has read of it, and the buffer of the   *)
(* scanner that surfaces it.  A generator writes pieces of lines, of which  *)
(* the last one of a line carries its newline.                             *)
(***************************************************************************)
EXTENDS Integers, Sequences, SequencesExt

CONSTANTS
    Streams,   \* the streams of a generator that are read
    MaxLine,   \* the pieces of one line that are held before they are surfaced
    Runs       \* the runs under study: which invocations, by position, pass
               \* Invocation.check, and the most pieces that are written to
               \* each stream of each generator

ASSUME PluginAssumption ==
    /\ MaxLine \in Nat \ {0}
    /\ \A r \in Runs : /\ r.valid \in Seq(BOOLEAN)
                       /\ r.pieces \in [(DOMAIN r.valid) \X Streams -> Nat]

Positions == UNION {DOMAIN r.valid : r \in Runs}

VARIABLES
    run,       \* which of the runs it is
    stage,     \* where the goroutine of each invocation is
    place,     \* the descriptor's directory: not there, empty, part or whole
    process,   \* the generator itself
    child,     \* whether something it started holds streams of it that are read
    waited,    \* what cmd.Wait has made of how it ended
    late,      \* whether its streams were given up before they ended
    fault,     \* faults[i], once the goroutine has returned
    wrote,     \* history: the pieces written to each stream
    piped,     \* the pieces in the pipe
    carried,   \* the pieces the copying goroutine holds
    held,      \* the pieces in the scanner's buffer
    surfaced,  \* the records logged, each a sequence of pieces
    handler,   \* where cancellable's goroutine is
    arrived,   \* whether a signal is in its channel
    outcome,   \* how the run ended, "none" before
    told       \* the generators named in its report

streams == <<wrote, piped, carried, held, surfaced>>
ending == <<waited, late, fault>>
signals == <<handler, arrived>>
report == <<outcome, told>>

vars == <<run, stage, place, process, child, ending, streams, signals, report>>

Generators == DOMAIN run.valid
Channels == Generators \X Streams

Going == outcome = "none"

Cancelled == handler = "cancelled"

Ended == {"zero", "nonzero", "signal", "killed"}

Init ==
    /\ run \in Runs
    /\ stage = [i \in Generators |-> "checking"]
    /\ place = [i \in Generators |-> "none"]
    /\ process = [i \in Generators |-> "unstarted"]
    /\ child = [i \in Generators |-> FALSE]
    /\ waited = [i \in Generators |-> "none"]
    /\ late = [i \in Generators |-> FALSE]
    /\ fault = [i \in Generators |-> "none"]
    /\ wrote = [c \in Channels |-> <<>>]
    /\ piped = wrote /\ carried = wrote /\ held = wrote /\ surfaced = wrote
    /\ handler = "waiting" /\ arrived = FALSE
    /\ outcome = "none" /\ told = <<>>

At(i, where) == Going /\ stage[i] = where

GoesTo(i, where) == stage' = [stage EXCEPT ![i] = where]

(* The descriptor's directory becomes what. *)
Holds(i, what) == place' = [place EXCEPT ![i] = what]

Blames(i, what) == fault' = [fault EXCEPT ![i] = what]

-----------------------------------------------------------------------------
(* Run: every invocation is checked before any generator starts. *)

Invalid == {i \in Generators : ~ run.valid[i]}

(* In the order of the manifest. *)
InOrder(names) ==
    CHOOSE order \in UNION {[1 .. n -> names] : n \in Generators \cup {0}} :
        /\ {order[n] : n \in DOMAIN order} = names
        /\ \A m, n \in DOMAIN order : m < n => order[m] < order[n]

Check ==
    /\ Going
    /\ \A i \in Generators : stage[i] = "checking"
    /\ IF Invalid = {}
         THEN /\ stage' = [i \in Generators |-> "placing"]
              /\ UNCHANGED report
         ELSE /\ outcome' = "refused"
              /\ told' = InOrder(Invalid)
              /\ UNCHANGED stage
    /\ UNCHANGED <<run, place, process, child, ending, streams, signals>>

-----------------------------------------------------------------------------
(* invoke: the descriptor, and then the generator. *)

(* os.MkdirTemp beside the output directory.                                *)
MakePlace(i) ==
    /\ At(i, "placing")
    /\ \/ /\ Holds(i, "empty")
          /\ GoesTo(i, "writing")
          /\ UNCHANGED fault
       \/ /\ Blames(i, "descriptor")
          /\ GoesTo(i, "done")
          /\ UNCHANGED place
    /\ UNCHANGED <<run, process, child, waited, late, streams, signals, report>>

(* Where os.WriteFile is once it has made the file longer.                  *)
Onward(i) == IF place[i] = "empty" THEN "writing" ELSE "starting"

(* os.WriteFile: the file is created, and then it is filled.                *)
WriteDescriptor(i) ==
    /\ At(i, "writing")
    /\ Holds(i, IF place[i] = "empty" THEN "part" ELSE "whole")
    /\ GoesTo(i, Onward(i))
    /\ UNCHANGED <<run, process, child, ending, streams, signals, report>>

WriteFails(i) ==
    /\ At(i, "writing")
    /\ Blames(i, "descriptor")
    /\ GoesTo(i, "removing")
    /\ UNCHANGED <<run, place, process, child, waited, late, streams, signals, report>>

(* cmd.Start, which a cancelled context does not get past.                  *)
Start(i) ==
    /\ At(i, "starting")
    /\ ~ Cancelled
    /\ process' = [process EXCEPT ![i] = "running"]
    /\ GoesTo(i, "waiting")
    /\ UNCHANGED <<run, place, child, ending, streams, signals, report>>

StartFails(i) ==
    /\ At(i, "starting")
    /\ waited' = [waited EXCEPT ![i] = "start"]
    /\ GoesTo(i, "closing")
    /\ UNCHANGED <<run, place, process, child, late, fault, streams, signals, report>>

-----------------------------------------------------------------------------
(* The generator, and what it leaves behind. *)

Running(i) == process[i] = "running"

Writes(c, ends) ==
    /\ Going
    /\ Running(c[1]) \/ child[c[1]]
    /\ stage[c[1]] \in {"waiting", "draining"} /\ ~ late[c[1]]
    /\ Len(wrote[c]) < run.pieces[c]
    /\ LET piece == [n |-> Len(wrote[c]) + 1, ends |-> ends]
       IN  /\ wrote' = [wrote EXCEPT ![c] = Append(@, piece)]
           /\ piped' = [piped EXCEPT ![c] = Append(@, piece)]
    /\ UNCHANGED <<run, stage, place, process, child, ending, carried, held, surfaced,
                   signals, report>>

(* It starts something that inherits its streams and does not wait for it.  *)
Forks(i) ==
    /\ Going
    /\ Running(i)
    /\ ~ child[i]
    /\ child' = [child EXCEPT ![i] = TRUE]
    /\ UNCHANGED <<run, stage, place, process, ending, streams, signals, report>>

ChildExits(i) ==
    /\ Going
    /\ child[i]
    /\ child' = [child EXCEPT ![i] = FALSE]
    /\ UNCHANGED <<run, stage, place, process, ending, streams, signals, report>>

Exits(i, how) ==
    /\ Going
    /\ Running(i)
    /\ process' = [process EXCEPT ![i] = how]
    /\ UNCHANGED <<run, stage, place, child, ending, streams, signals, report>>

(* The context kills a generator that is still running, and nothing else.   *)
Kill(i) == Cancelled /\ Exits(i, "killed")

-----------------------------------------------------------------------------
(* cmd.Wait: the process, then its streams, which it does not wait for      *)
(* longer than outputGrace.                                                *)

(* A context cancelled as the generator exits zero may reach it too late to *)
(* kill it and be what Wait returns all the same.                           *)
Verdicts(i) ==
    {process[i]} \cup IF Cancelled /\ process[i] = "zero" THEN {"unwaited"} ELSE {}

Reap(i) ==
    /\ At(i, "waiting")
    /\ process[i] \in Ended
    /\ \E verdict \in Verdicts(i) : waited' = [waited EXCEPT ![i] = verdict]
    /\ GoesTo(i, "draining")
    /\ UNCHANGED <<run, place, process, child, late, fault, streams, signals, report>>

(* The copying goroutine reads what there is, and hands it on.              *)
Carry(c) ==
    /\ Going
    /\ carried[c] = <<>>
    /\ piped[c] # <<>>
    /\ carried' = [carried EXCEPT ![c] = piped[c]]
    /\ piped' = [piped EXCEPT ![c] = <<>>]
    /\ UNCHANGED <<run, stage, place, process, child, ending, wrote, held, surfaced,
                   signals, report>>

(* Both copying goroutines have nothing left in their hands.                *)
Copied(i) == \A s \in Streams : carried[<<i, s>>] = <<>>

(* Every stream has ended, and all that was in it has been read.            *)
Drained(i) ==
    /\ Copied(i)
    /\ ~ child[i]
    /\ \A s \in Streams : piped[<<i, s>>] = <<>>

(* Mutant: a WaitDelay of zero, which waits for as long as it takes.        *)
NoGrace(i) == FALSE

Grace(i) == ~ Drained(i)

(* The grace is over: the pipes are closed under whoever still writes.      *)
GiveUp(i) ==
    /\ At(i, "draining")
    /\ ~ late[i]
    /\ Grace(i)
    /\ late' = [late EXCEPT ![i] = TRUE]
    /\ piped' = [c \in Channels |-> IF c[1] = i THEN <<>> ELSE piped[c]]
    /\ UNCHANGED <<run, stage, place, process, child, waited, fault, wrote, carried, held,
                   surfaced, signals, report>>

(* closeStreams: from here on the scanners meet the end of their streams.   *)
Close(i) ==
    /\ At(i, "draining")
    /\ IF late[i] THEN Copied(i) ELSE Drained(i)
    /\ child' = [child EXCEPT ![i] = FALSE]
    /\ GoesTo(i, "closing")
    /\ UNCHANGED <<run, place, process, ending, streams, signals, report>>

-----------------------------------------------------------------------------
(* surface: a scanner for each stream. *)

(* Mutant: as much is surfaced at once as there is room for.                *)
BufferFull(c) == Len(held[c]) >= MaxLine

(* splitLines: a newline, or as much of a line as is held for one.          *)
TokenReady(c) == held[c] # <<>> /\ (Last(held[c]).ends \/ Len(held[c]) >= MaxLine)

Read(c) ==
    /\ Going
    /\ ~ TokenReady(c)
    /\ carried[c] # <<>>
    /\ held' = [held EXCEPT ![c] = Append(@, Head(carried[c]))]
    /\ carried' = [carried EXCEPT ![c] = Tail(@)]
    /\ UNCHANGED <<run, stage, place, process, child, ending, wrote, piped, surfaced,
                   signals, report>>

AtEOF(c) == stage[c[1]] = "closing"

Surface(c) ==
    /\ Going
    /\ TokenReady(c) \/ (AtEOF(c) /\ held[c] # <<>>)
    /\ surfaced' = [surfaced EXCEPT ![c] = Append(@, held[c])]
    /\ held' = [held EXCEPT ![c] = <<>>]
    /\ UNCHANGED <<run, stage, place, process, child, ending, wrote, piped, carried,
                   signals, report>>

(* streams.Wait: both scanners have said all they were handed.              *)
Surfaced(i) == \A s \in Streams : held[<<i, s>>] = <<>>

(* Mutant: streams that outlive their generator are its fault.              *)
LateIsAFault(i) == IF waited[i] = "zero" THEN IF late[i] THEN "unwaited" ELSE "none" ELSE waited[i]

(* failure: the exit status is the verdict, and its streams are not.        *)
Failure(i) == IF waited[i] = "zero" THEN "none" ELSE waited[i]

Judge(i) ==
    /\ At(i, "closing")
    /\ Surfaced(i)
    /\ Blames(i, Failure(i))
    /\ waited' = [waited EXCEPT ![i] = "none"]
    /\ GoesTo(i, "removing")
    /\ UNCHANGED <<run, place, process, child, late, streams, signals, report>>

(* Mutant: only a generator that succeeded has its descriptor taken away.   *)
RemovedOnSuccess(i) == IF fault[i] = "none" THEN "none" ELSE place[i]

(* The deferred os.RemoveAll, on every way out.                             *)
Removed(i) == "none"

Return(i) ==
    /\ At(i, "removing")
    /\ Holds(i, Removed(i))
    /\ GoesTo(i, "done")
    /\ UNCHANGED <<run, process, child, ending, streams, signals, report>>

-----------------------------------------------------------------------------
(* The report, and the signals. *)

Faulty == {i \in Generators : fault[i] # "none"}

(* running.Wait, and then cancelled, which puts the cancellation in the     *)
(* place of what it made the generators say.                                *)
Report ==
    /\ Going
    /\ \A i \in Generators : stage[i] = "done"
    /\ outcome' = IF Faulty = {} THEN "ok" ELSE IF Cancelled THEN "cancelled" ELSE "failed"
    /\ told' = IF Faulty # {} /\ ~ Cancelled THEN InOrder(Faulty) ELSE <<>>
    /\ UNCHANGED <<run, stage, place, process, child, ending, streams, signals>>

(* A signal goes into the channel where there is room and is dropped where  *)
(* there is none; after signal.Stop it ends the process.                    *)
Signal ==
    /\ Going
    /\ IF handler \in {"waiting", "received"}
         THEN /\ arrived' = TRUE
              /\ UNCHANGED report
         ELSE /\ outcome' = "killed"
              /\ UNCHANGED <<told, arrived>>
    /\ UNCHANGED <<run, stage, place, process, child, ending, streams, handler>>

Handles(from, to) ==
    /\ Going
    /\ handler = from
    /\ handler' = to
    /\ UNCHANGED <<run, stage, place, process, child, ending, streams, report>>

Receive == arrived /\ arrived' = FALSE /\ Handles("waiting", "received")

StopNotifying == Handles("received", "stopped") /\ UNCHANGED arrived

CancelContext == Handles("stopped", "cancelled") /\ UNCHANGED arrived

-----------------------------------------------------------------------------
Invoke(i) ==
    \/ MakePlace(i) \/ WriteDescriptor(i) \/ WriteFails(i) \/ Start(i) \/ StartFails(i)
    \/ Reap(i) \/ GiveUp(i) \/ Close(i) \/ Judge(i) \/ Return(i)

Relay(c) == Carry(c) \/ Read(c) \/ Surface(c)

Handle == Receive \/ StopNotifying \/ CancelContext

Outside ==
    \/ \E c \in Channels, ends \in BOOLEAN : Writes(c, ends)
    \/ \E i \in Generators : Forks(i) \/ ChildExits(i)
    \/ \E i \in Generators, how \in {"zero", "nonzero", "signal"} : Exits(i, how)
    \/ Signal

(* What the goroutines of cpybkc do, the timer of the grace and the context. *)
Own ==
    \/ Check
    \/ \E i \in Generators : Invoke(i) \/ Kill(i)
    \/ \E c \in Channels : Relay(c)
    \/ Report
    \/ Handle

Next == Own \/ Outside

Spec == Init /\ [][Next]_vars

(***************************************************************************)
(* cpybkc goes on while one of its goroutines can: none of them waits for   *)
(* another but where a guard says so.  What generators do, and what they    *)
(* leave behind, nobody can rely on.                                       *)
(***************************************************************************)
Fairness == WF_vars(Own)

FairSpec == Spec /\ Fairness

-----------------------------------------------------------------------------
Stage == {"checking", "placing", "writing", "starting", "waiting", "draining", "closing",
          "removing", "done"}

Reading == {"waiting", "draining", "closing"}

Verdict == {"none", "start", "unwaited"} \cup Ended

Piece == [n : Nat, ends : BOOLEAN]

Typed ==
    /\ run \in Runs
    /\ stage \in [Generators -> Stage]
    /\ place \in [Generators -> {"none", "empty", "part", "whole"}]
    /\ process \in [Generators -> {"unstarted", "running"} \cup Ended]
    /\ child \in [Generators -> BOOLEAN]
    /\ waited \in [Generators -> Verdict]
    /\ late \in [Generators -> BOOLEAN]
    /\ fault \in [Generators -> Verdict \cup {"descriptor"}]
    /\ wrote \in [Channels -> Seq(Piece)] /\ piped \in [Channels -> Seq(Piece)]
    /\ carried \in [Channels -> Seq(Piece)] /\ held \in [Channels -> Seq(Piece)]
    /\ surfaced \in [Channels -> Seq(Seq(Piece))]
    /\ handler \in {"waiting", "received", "stopped", "cancelled"}
    /\ arrived \in BOOLEAN
    /\ outcome \in {"none", "refused", "ok", "failed", "cancelled", "killed"}

(* Every variable stays in its type, the buffer of a scanner within its     *)
(* bound, and there is nothing in it but while its stream is read (surface, *)
(* splitLines, streams.Wait).                                               *)
TypeOK ==
    /\ Typed
    /\ \A c \in Channels : /\ Len(held[c]) <= MaxLine
                          /\ stage[c[1]] \notin Reading => held[c] = <<>>

(* While a generator runs its descriptor is there, whole, and its own; once *)
(* its invocation is over nothing of it is left, whichever way it ended     *)
(* (invoke: "removed with its directory once the generator has exited").    *)
DescriptorThere ==
    \A i \in Generators :
        /\ Running(i) => place[i] = "whole"
        /\ stage[i] = "done" => place[i] = "none"

(* The last piece of a stream that is in the log.                           *)
LoggedTo(c) == IF surfaced[c] = <<>> THEN 0 ELSE Last(Last(surfaced[c])).n

(* Nothing a generator writes is lost, moved or doubled on its way to the   *)
(* log: each record goes on in the stream where the one before it ended and *)
(* runs no line into the next, and by the time the verdict is in the last   *)
(* of them has ended where the stream did, unless the wait for it was given *)
(* up (surface, closeStreams: every line reaches the log in order).         *)
EveryLineSurfaced ==
    \A c \in Channels :
        /\ \A k \in DOMAIN surfaced[c] :
              LET line  == surfaced[c][k]
                  start == IF k = 1 THEN 0 ELSE Last(surfaced[c][k - 1]).n
              IN  /\ line # <<>>
                  /\ \A p \in DOMAIN line :
                        start + p <= Len(wrote[c]) /\ line[p] = wrote[c][start + p]
                  /\ \A p \in 1 .. Len(line) - 1 : ~ line[p].ends
        /\ stage[c[1]] \in {"removing", "done"} /\ ~ late[c[1]] => LoggedTo(c) = Len(wrote[c])

HasEnded(i) == i \in Generators /\ process[i] \in Ended

IsDone(i) == i \in Generators /\ stage[i] = "done"

(* A run that has been told to stop ends, and an invocation whose generator *)
(* has ended does, though something the generator started holds its         *)
(* streams open for ever and signals meant as the second one were dropped   *)
(* (outputGrace, cancellable).                                              *)
EndsOnceItMay ==
    /\ (arrived \/ handler # "waiting") ~> ~ Going
    /\ \A i \in Positions : HasEnded(i) ~> (~ Going \/ IsDone(i))

-----------------------------------------------------------------------------
(* How far the generator of an invocation that may have failed before it    *)
(* has come.                                                                *)
Unable(i) == process[i] = "unstarted" /\ (fault[i] \in {"descriptor", "start"} \/ waited[i] = "start")

Promise == INSTANCE GeneratorVerdicts WITH
    process <- [i \in Generators |-> IF Unable(i) THEN "unable" ELSE process[i]],
    stopped <- Cancelled

(* However the goroutines, the generators and the signals interleave, the   *)
(* run keeps what internal/generate rests on: nobody is left running, the   *)
(* exits are the verdict, and it is told in the declared order (Run).       *)
KeepsTheVerdicts == Promise!Spec

=============================================================================
