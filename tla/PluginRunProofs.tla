-------------------------- MODULE PluginRunProofs --------------------------
(***************************************************************************)
(* What is proved of a run of the generators, for any number of them, any   *)
(* number of streams and lines of any length.                              *)
(***************************************************************************)
EXTENDS PluginRun, TLAPS

-----------------------------------------------------------------------------
(* The inductive invariant, a conjunct for each thing that is kept.         *)

Before == {"checking", "placing", "writing", "starting"}

(* What stage the goroutine of an invocation is in says how its generator   *)
(* stands, and what is known of how it ended.                               *)
Follows(i) ==
    /\ stage[i] \in Before =>
          process[i] = "unstarted" /\ waited[i] = "none" /\ fault[i] = "none"
    /\ stage[i] = "waiting" =>
          process[i] # "unstarted" /\ waited[i] = "none" /\ fault[i] = "none"
    /\ stage[i] = "draining" =>
          process[i] \in Ended /\ waited[i] \in Verdicts(i) /\ fault[i] = "none"
    /\ stage[i] = "closing" =>
          /\ fault[i] = "none"
          /\ \/ process[i] = "unstarted" /\ waited[i] = "start"
             \/ process[i] \in Ended /\ waited[i] \in Verdicts(i)
    /\ stage[i] \in {"removing", "done"} =>
          /\ waited[i] = "none"
          /\ \/ process[i] = "unstarted" /\ fault[i] \in {"descriptor", "start"}
             \/ process[i] = "zero" /\ (fault[i] = "none" \/ (Cancelled /\ fault[i] = "unwaited"))
             \/ process[i] \in Ended \ {"zero"} /\ fault[i] = process[i]

Placed(i) ==
    /\ stage[i] \in {"checking", "placing", "done"} => place[i] = "none"
    /\ stage[i] = "writing" => place[i] \in {"empty", "part"}
    /\ stage[i] \in {"starting", "waiting"} => place[i] = "whole"

(* Where the pieces of a stream may be.                                     *)
Flows(c) ==
    /\ stage[c[1]] \notin {"waiting", "draining"} => piped[c] = <<>> /\ carried[c] = <<>>
    /\ late[c[1]] => piped[c] = <<>>
    /\ stage[c[1]] \notin Reading => held[c] = <<>>
    /\ Len(held[c]) <= MaxLine

Inv ==
    /\ Typed
    /\ \A i \in Generators : Follows(i) /\ Placed(i)
    /\ \A c \in Channels : Flows(c)
    /\ Going => told = <<>>

LEMMA Channelled ==
    ASSUME NEW c \in Channels
    PROVE  c[1] \in Generators /\ c[2] \in Streams /\ c = <<c[1], c[2]>>
  BY DEF Channels

LEMMA Starts == Init => Inv
  <1> SUFFICES ASSUME Init
               PROVE  Inv
    OBVIOUS
  <1>1. Typed
    <2>1. <<>> \in Seq(Piece) /\ <<>> \in Seq(Seq(Piece))
      OBVIOUS
    <2>2. /\ wrote = [c \in Channels |-> <<>>] /\ piped = [c \in Channels |-> <<>>]
          /\ carried = [c \in Channels |-> <<>>] /\ held = [c \in Channels |-> <<>>]
          /\ surfaced = [c \in Channels |-> <<>>]
      BY Zenon DEF Init
    <2>3. /\ wrote \in [Channels -> Seq(Piece)] /\ piped \in [Channels -> Seq(Piece)]
          /\ carried \in [Channels -> Seq(Piece)] /\ held \in [Channels -> Seq(Piece)]
          /\ surfaced \in [Channels -> Seq(Seq(Piece))]
      BY <2>1, <2>2
    <2> QED
      BY <2>3 DEF Init, Typed, Stage, Verdict
  <1>2. ASSUME NEW i \in Generators
        PROVE  Follows(i) /\ Placed(i)
    BY DEF Init, Follows, Placed, Before
  <1>3. ASSUME NEW c \in Channels
        PROVE  Flows(c)
    BY Channelled, PluginAssumption DEF Init, Flows, Reading
  <1> QED
    BY <1>1, <1>2, <1>3 DEF Init, Inv

-----------------------------------------------------------------------------
(* Types.                                                                  *)

LEMMA TypesOfInvoke ==
    ASSUME Typed, NEW i \in Generators, Invoke(i) \/ Kill(i)
    PROVE  Typed'
  <1> USE DEF Typed, At, GoesTo, Holds, Blames, Stage, Verdict, Ended, ending, streams, signals,
              report, Generators, Channels
  <1>1. CASE MakePlace(i)
    <2>1. CASE Holds(i, "empty") /\ GoesTo(i, "writing") /\ UNCHANGED fault
      BY <1>1, <2>1 DEF MakePlace
    <2>2. CASE Blames(i, "descriptor") /\ GoesTo(i, "done") /\ UNCHANGED place
      BY <1>1, <2>2 DEF MakePlace
    <2> QED
      BY <1>1, <2>1, <2>2 DEF MakePlace
  <1>2. CASE WriteDescriptor(i)
    BY <1>2 DEF WriteDescriptor, Onward
  <1>3. CASE WriteFails(i)
    BY <1>3 DEF WriteFails
  <1>4. CASE Start(i)
    BY <1>4 DEF Start
  <1>5. CASE StartFails(i)
    BY <1>5 DEF StartFails
  <1>6. CASE Reap(i)
    BY <1>6 DEF Reap, Verdicts
  <1>7. CASE GiveUp(i)
    BY <1>7 DEF GiveUp
  <1>8. CASE Close(i)
    BY <1>8 DEF Close
  <1>9. CASE Judge(i)
    BY <1>9 DEF Judge, Failure
  <1>10. CASE Return(i)
    BY <1>10 DEF Return, Removed
  <1>11. CASE Kill(i)
    BY <1>11 DEF Kill, Exits, Running
  <1> QED
    BY <1>1, <1>2, <1>3, <1>4, <1>5, <1>6, <1>7, <1>8, <1>9, <1>10, <1>11 DEF Invoke

LEMMA TypesOfRelay ==
    ASSUME Typed, NEW c \in Channels,
           Relay(c) \/ (\E ends \in BOOLEAN : Writes(c, ends))
    PROVE  Typed'
  <1> USE DEF Typed, ending, signals, report
  <1>1. /\ wrote[c] \in Seq(Piece) /\ piped[c] \in Seq(Piece)
        /\ carried[c] \in Seq(Piece) /\ held[c] \in Seq(Piece)
        /\ surfaced[c] \in Seq(Seq(Piece))
    OBVIOUS
  <1>2. CASE Carry(c)
    BY <1>1, <1>2 DEF Carry, Generators, Channels
  <1>3. CASE Read(c)
    <2>1. Append(held[c], Head(carried[c])) \in Seq(Piece) /\ Tail(carried[c]) \in Seq(Piece)
      BY <1>1, <1>3 DEF Read
    <2> QED
      BY <1>3, <2>1 DEF Read, Generators, Channels
  <1>4. CASE Surface(c)
    <2>1. Append(surfaced[c], held[c]) \in Seq(Seq(Piece)) /\ <<>> \in Seq(Piece)
      BY <1>1
    <2> QED
      BY <1>4, <2>1 DEF Surface, Generators, Channels
  <1>5. ASSUME NEW ends \in BOOLEAN, Writes(c, ends)
        PROVE  Typed'
    <2> DEFINE piece == [n |-> Len(wrote[c]) + 1, ends |-> ends]
    <2>1. piece \in Piece
      BY <1>1 DEF Piece
    <2>2. Append(wrote[c], piece) \in Seq(Piece) /\ Append(piped[c], piece) \in Seq(Piece)
      BY <1>1, <2>1
    <2>3. /\ wrote' = [wrote EXCEPT ![c] = Append(@, piece)]
          /\ piped' = [piped EXCEPT ![c] = Append(@, piece)]
          /\ UNCHANGED <<run, stage, place, process, child, ending, carried, held, surfaced,
                         signals, report>>
      BY <1>5 DEF Writes
    <2> QED
      BY <2>2, <2>3 DEF Generators, Channels
  <1> QED
    BY <1>2, <1>3, <1>4, <1>5 DEF Relay

(* A step of the run as a whole, of the handler, or of somebody outside      *)
(* that no channel sees.                                                   *)
Aside ==
    \/ Check \/ Report \/ Handle \/ Signal
    \/ \E i \in Generators : Forks(i) \/ ChildExits(i)
    \/ \E i \in Generators, how \in {"zero", "nonzero", "signal"} : Exits(i, how)

LEMMA TypesOfAside ==
    ASSUME Typed, Aside
    PROVE  Typed'
  <1> USE DEF Typed, ending, streams, signals, report, Generators, Channels
  <1>1. CASE Check
    BY <1>1 DEF Check, Stage
  <1>2. CASE Report
    BY <1>2 DEF Report
  <1>3. CASE Handle
    BY <1>3 DEF Handle, Handles, Receive, StopNotifying, CancelContext
  <1>4. CASE Signal
    BY <1>4 DEF Signal
  <1>5. ASSUME NEW i \in Generators, Forks(i) \/ ChildExits(i)
        PROVE  Typed'
    BY <1>5 DEF Forks, ChildExits
  <1>6. ASSUME NEW i \in Generators, NEW how \in {"zero", "nonzero", "signal"}, Exits(i, how)
        PROVE  Typed'
    BY <1>6 DEF Exits, Ended
  <1> QED
    BY <1>1, <1>2, <1>3, <1>4, <1>5, <1>6 DEF Aside

(* Every step is one of these.                                             *)
LEMMA Kinds ==
    ASSUME Next
    PROVE  \/ \E i \in Generators : Invoke(i) \/ Kill(i)
           \/ \E c \in Channels : Relay(c) \/ (\E ends \in BOOLEAN : Writes(c, ends))
           \/ Aside
  BY Zenon DEF Next, Own, Outside, Aside

LEMMA Types ==
    ASSUME Typed, Next
    PROVE  Typed'
  BY Kinds, TypesOfInvoke, TypesOfRelay, TypesOfAside

-----------------------------------------------------------------------------
(* How a generator stands, and its descriptor.                             *)

LEMMA InvokeFollows ==
    ASSUME Typed, NEW k \in Generators, Invoke(k) \/ Kill(k),
           NEW i \in Generators, Follows(i), Placed(i)
    PROVE  Follows(i)' /\ Placed(i)'
  <1> USE DEF Typed, Follows, Placed, Before, Ended, Cancelled, Verdicts, At, GoesTo, Holds,
              Blames, ending, signals, report
  <1>1. CASE MakePlace(k)
    BY <1>1 DEF MakePlace
  <1>2. CASE WriteDescriptor(k)
    BY <1>2 DEF WriteDescriptor, Onward
  <1>3. CASE WriteFails(k)
    BY <1>3 DEF WriteFails
  <1>4. CASE Start(k)
    BY <1>4 DEF Start
  <1>5. CASE StartFails(k)
    BY <1>5 DEF StartFails
  <1>6. CASE Reap(k)
    BY <1>6 DEF Reap
  <1>7. CASE GiveUp(k)
    BY <1>7 DEF GiveUp
  <1>8. CASE Close(k)
    BY <1>8 DEF Close
  <1>9. CASE Judge(k)
    BY <1>9 DEF Judge, Failure
  <1>10. CASE Return(k)
    BY <1>10 DEF Return, Removed
  <1>11. CASE Kill(k)
    BY <1>11 DEF Kill, Exits, Running
  <1> QED
    BY <1>1, <1>2, <1>3, <1>4, <1>5, <1>6, <1>7, <1>8, <1>9, <1>10, <1>11 DEF Invoke

LEMMA RelayFollows ==
    ASSUME Typed, NEW c \in Channels, Relay(c) \/ (\E ends \in BOOLEAN : Writes(c, ends)),
           NEW i \in Generators, Follows(i), Placed(i)
    PROVE  Follows(i)' /\ Placed(i)'
  <1>1. UNCHANGED <<stage, place, process, waited, fault, handler>>
    BY DEF Relay, Carry, Read, Surface, Writes, ending, signals
  <1> QED
    BY <1>1 DEF Follows, Placed, Verdicts, Cancelled

LEMMA AsideFollows ==
    ASSUME Typed, \A j \in Generators : Follows(j) /\ Placed(j), Aside, NEW i \in Generators
    PROVE  Follows(i)' /\ Placed(i)'
  <1> USE DEF Typed, Follows, Placed, Before, Ended, Cancelled, Verdicts,
              ending, streams, signals, report
  <1>1. CASE Check
    BY <1>1 DEF Check
  <1>2. CASE Report
    BY <1>2 DEF Report
  <1>3. CASE Handle
    BY <1>3 DEF Handle, Handles, Receive, StopNotifying, CancelContext
  <1>4. CASE Signal
    BY <1>4 DEF Signal
  <1>5. ASSUME NEW k \in Generators, Forks(k) \/ ChildExits(k)
        PROVE  Follows(i)' /\ Placed(i)'
    BY <1>5 DEF Forks, ChildExits
  <1>6. ASSUME NEW k \in Generators, NEW how \in {"zero", "nonzero", "signal"}, Exits(k, how)
        PROVE  Follows(i)' /\ Placed(i)'
    BY <1>6 DEF Exits, Running
  <1> QED
    BY <1>1, <1>2, <1>3, <1>4, <1>5, <1>6 DEF Aside

-----------------------------------------------------------------------------
(* Where the pieces of a stream may be.                                    *)

LEMMA InvokeFlows ==
    ASSUME Typed, NEW k \in Generators, Invoke(k) \/ Kill(k), NEW c \in Channels, Flows(c)
    PROVE  Flows(c)'
  <1> USE Channelled DEF Typed, Flows, Reading, At, GoesTo, Holds, Blames, ending, streams, signals, report
  <1>1. CASE MakePlace(k)
    BY <1>1 DEF MakePlace
  <1>2. CASE WriteDescriptor(k)
    BY <1>2 DEF WriteDescriptor, Onward
  <1>3. CASE WriteFails(k)
    BY <1>3 DEF WriteFails
  <1>4. CASE Start(k)
    BY <1>4 DEF Start
  <1>5. CASE StartFails(k)
    BY <1>5 DEF StartFails
  <1>6. CASE Reap(k)
    BY <1>6 DEF Reap
  <1>7. CASE GiveUp(k)
    BY <1>7 DEF GiveUp
  <1>8. CASE Close(k)
    <2>1. c[1] = k => piped[c] = <<>> /\ carried[c] = <<>>
      BY <1>8 DEF Close, Copied, Drained
    <2> QED
      BY <1>8, <2>1 DEF Close
  <1>9. CASE Judge(k)
    <2>1. c[1] = k => held[c] = <<>>
      BY <1>9 DEF Judge, Surfaced
    <2> QED
      BY <1>9, <2>1 DEF Judge
  <1>10. CASE Return(k)
    BY <1>10 DEF Return
  <1>11. CASE Kill(k)
    BY <1>11 DEF Kill, Exits
  <1> QED
    BY <1>1, <1>2, <1>3, <1>4, <1>5, <1>6, <1>7, <1>8, <1>9, <1>10, <1>11 DEF Invoke

LEMMA RelayFlows ==
    ASSUME Typed, NEW d \in Channels, Relay(d) \/ (\E ends \in BOOLEAN : Writes(d, ends)),
           NEW c \in Channels, Flows(c)
    PROVE  Flows(c)'
  <1> USE Channelled DEF Flows, Reading
  <1>1. UNCHANGED <<stage, late>>
    BY DEF Relay, Carry, Read, Surface, Writes, ending
  <1>2. CASE Carry(d)
    BY <1>1, <1>2 DEF Carry, Typed
  <1>3. CASE Read(d)
    <2>1. held[d] \in Seq(Piece) /\ MaxLine \in Nat \ {0}
      BY PluginAssumption DEF Typed
    <2>2. Len(held[d]) < MaxLine
      BY <1>3, <2>1 DEF Read, TokenReady
    <2>3. Len(Append(held[d], Head(carried[d]))) <= MaxLine
      BY <2>1, <2>2
    <2>4. UNCHANGED piped
      BY <1>3 DEF Read
    <2>5. CASE c # d
      BY <1>1, <1>3, <2>4, <2>5 DEF Read, Typed
    <2>6. CASE c = d
      <3>1. stage[c[1]] \in {"waiting", "draining"}
        BY <1>3, <2>6 DEF Read
      <3>2. held'[c] = Append(held[c], Head(carried[c]))
        BY <1>3, <2>6 DEF Read, Typed
      <3> QED
        BY <1>1, <2>3, <2>4, <2>6, <3>1, <3>2
    <2> QED
      BY <2>5, <2>6
  <1>4. CASE Surface(d)
    <2>1. MaxLine \in Nat
      BY PluginAssumption
    <2> QED
      BY <1>1, <1>4, <2>1 DEF Surface, Typed
  <1>5. CASE \E ends \in BOOLEAN : Writes(d, ends)
    <2>1. PICK ends \in BOOLEAN : Writes(d, ends)
      BY <1>5
    <2>2. stage[d[1]] \in {"waiting", "draining"} /\ ~ late[d[1]] /\ UNCHANGED <<carried, held>>
      BY <2>1 DEF Writes
    <2>3. c # d => piped'[c] = piped[c]
      BY <2>1 DEF Writes, Typed
    <2> QED
      BY <1>1, <2>2, <2>3
  <1> QED
    BY <1>2, <1>3, <1>4, <1>5 DEF Relay

LEMMA AsideFlows ==
    ASSUME Typed, Aside, NEW c \in Channels, Flows(c)
    PROVE  Flows(c)'
  <1>1. UNCHANGED <<piped, carried, held, late>>
    BY DEF Aside, Check, Report, Handle, Handles, Receive, StopNotifying, CancelContext, Signal,
           Forks, ChildExits, Exits, streams, ending
  <1>2. CASE UNCHANGED stage
    BY <1>1, <1>2 DEF Flows
  <1>3. CASE Check
    BY <1>1, <1>3, Channelled DEF Check, Flows, Reading, Typed
  <1> QED
    BY <1>2, <1>3 DEF Aside, Report, Handle, Handles, Receive, StopNotifying, CancelContext, Signal,
                      Forks, ChildExits, Exits

-----------------------------------------------------------------------------
(* The invariant, and what it gives.                                       *)

LEMMA Invariant == Spec => []Inv
  <1>1. Inv /\ [Next]_vars => Inv'
    <2> SUFFICES ASSUME Inv, [Next]_vars
                 PROVE  Inv'
      OBVIOUS
    <2>1. CASE Next
      <3>1. Generators' = Generators /\ Channels' = Channels
        <4>1. run' = run
          BY <2>1, Kinds DEF Invoke, Kill, Exits, MakePlace, WriteDescriptor, WriteFails, Start,
             StartFails, Reap, GiveUp, Close, Judge, Return, Relay, Carry, Read, Surface, Writes,
             Aside, Check, Report, Handle, Handles, Receive, StopNotifying, CancelContext, Signal,
             Forks, ChildExits
        <4> QED
          BY <4>1 DEF Generators, Channels
      <3>2. Typed'
        BY <2>1, Types DEF Inv
      <3>3. ASSUME NEW i \in Generators
            PROVE  Follows(i)' /\ Placed(i)'
        BY <2>1, Kinds, InvokeFollows, RelayFollows, AsideFollows DEF Inv
      <3>4. ASSUME NEW c \in Channels
            PROVE  Flows(c)'
        BY <2>1, Kinds, InvokeFlows, RelayFlows, AsideFlows DEF Inv
      <3>5. (Going => told = <<>>)'
        <4>1. CASE UNCHANGED report
          BY <4>1 DEF report, Inv, Going
        <4>2. CASE Check \/ Report \/ Signal
          BY <4>2 DEF Check, Report, Signal, report, Inv, Going
        <4> QED
          BY <4>1, <4>2, <2>1, Kinds DEF Invoke, Kill, Exits, MakePlace, WriteDescriptor, WriteFails,
             Start, StartFails, Reap, GiveUp, Close, Judge, Return, Relay, Carry, Read, Surface,
             Writes, Aside, Handle, Handles, Receive, StopNotifying, CancelContext, Forks, ChildExits
      <3> QED
        BY <3>1, <3>2, <3>3, <3>4, <3>5 DEF Inv
    <2>2. CASE UNCHANGED vars
      BY <2>2 DEF vars, ending, streams, signals, report, Inv, Typed, Generators, Channels,
                  Follows, Placed, Flows, Verdicts, Cancelled, Going
    <2> QED
      BY <2>1, <2>2
  <1> QED
    BY <1>1, Starts, PTL DEF Spec

(* Every variable stays in its type and the buffer of every scanner within   *)
(* its bound, whatever the generators write, and the buffer is empty when    *)
(* nobody is left to surface it.                                           *)
THEOREM TypeCorrect == Spec => []TypeOK
  <1>1. Inv => TypeOK
    BY DEF Inv, TypeOK, Flows
  <1> QED
    BY <1>1, Invariant, PTL

(* However the goroutines interleave, no generator runs beside a descriptor  *)
(* that is not there, or not whole, and none is left of an invocation that   *)
(* is over.                                                                *)
THEOREM DescriptorsAreThere == Spec => []DescriptorThere
  <1>1. ASSUME Inv, NEW i \in Generators
        PROVE  /\ Running(i) => place[i] = "whole"
               /\ stage[i] = "done" => place[i] = "none"
    <2>1. stage[i] \in Stage /\ Follows(i) /\ Placed(i)
      BY <1>1 DEF Inv, Typed
    <2> QED
      BY <2>1 DEF Stage, Follows, Placed, Before, Running, Ended
  <1>2. Inv => DescriptorThere
    BY <1>1 DEF DescriptorThere
  <1> QED
    BY <1>2, Invariant, PTL

-----------------------------------------------------------------------------
(* What internal/generate rests on.                                        *)

Standing == [i \in Generators |-> IF Unable(i) THEN "unable" ELSE process[i]]

LEMMA Ordered == \A names : Promise!InOrder(names) = InOrder(names)
  <1>1. Promise!Generators = Generators
    BY DEF Promise!Generators
  <1> QED
    BY <1>1 DEF Promise!InOrder, InOrder

(* A step of the goroutine of one invocation, or of the context, is one of   *)
(* its generator, or none.                                                 *)
LEMMA InvokeStands ==
    ASSUME Typed, NEW k \in Generators, Invoke(k) \/ Kill(k), Follows(k)
    PROVE  \/ Standing' = Standing
           \/ Going /\ Standing[k] = "unstarted" /\ Standing' = [Standing EXCEPT ![k] = "running"]
           \/ Going /\ Standing[k] = "unstarted" /\ Standing' = [Standing EXCEPT ![k] = "unable"]
           \/ /\ Going /\ Cancelled
              /\ Standing[k] = "running" /\ Standing' = [Standing EXCEPT ![k] = "killed"]
  <1> USE DEF Typed, Standing, Unable, At, GoesTo, Holds, Blames, ending, streams, signals, report,
              Generators, Follows, Before, Ended, Verdicts
  <1>1. CASE MakePlace(k)
    <2>1. CASE Holds(k, "empty") /\ GoesTo(k, "writing") /\ UNCHANGED fault
      BY <1>1, <2>1 DEF MakePlace
    <2>2. CASE Blames(k, "descriptor") /\ GoesTo(k, "done") /\ UNCHANGED place
      <3>1. Standing[k] = "unstarted" /\ Standing' = [Standing EXCEPT ![k] = "unable"]
        BY <1>1, <2>2 DEF MakePlace
      <3> QED
        BY <1>1, <3>1 DEF MakePlace
    <2> QED
      BY <1>1, <2>1, <2>2 DEF MakePlace
  <1>2. CASE WriteDescriptor(k)
    BY <1>2 DEF WriteDescriptor
  <1>3. CASE WriteFails(k)
    BY <1>3 DEF WriteFails
  <1>4. CASE Start(k)
    BY <1>4 DEF Start
  <1>5. CASE StartFails(k)
    BY <1>5 DEF StartFails
  <1>6. CASE Reap(k)
    BY <1>6 DEF Reap
  <1>7. CASE GiveUp(k)
    BY <1>7 DEF GiveUp
  <1>8. CASE Close(k)
    BY <1>8 DEF Close
  <1>9. CASE Judge(k)
    BY <1>9 DEF Judge, Failure
  <1>10. CASE Return(k)
    BY <1>10 DEF Return
  <1>11. CASE Kill(k)
    BY <1>11 DEF Kill, Exits, Running
  <1> QED
    BY <1>1, <1>2, <1>3, <1>4, <1>5, <1>6, <1>7, <1>8, <1>9, <1>10, <1>11 DEF Invoke

LEMMA InvokePromised ==
    ASSUME Inv, NEW k \in Generators, Invoke(k) \/ Kill(k)
    PROVE  Promise!Next \/ UNCHANGED Promise!vars
  <1>1. UNCHANGED <<handler, outcome, told>>
    BY DEF Invoke, Kill, Exits, MakePlace, WriteDescriptor, WriteFails, Start,
           StartFails, Reap, GiveUp, Close, Judge, Return, signals, report
  <1>2. k \in Promise!Generators
    BY DEF Promise!Generators
  <1>3. \/ Standing' = Standing
        \/ Going /\ Standing[k] = "unstarted" /\ Standing' = [Standing EXCEPT ![k] = "running"]
        \/ Going /\ Standing[k] = "unstarted" /\ Standing' = [Standing EXCEPT ![k] = "unable"]
        \/ /\ Going /\ Cancelled
           /\ Standing[k] = "running" /\ Standing' = [Standing EXCEPT ![k] = "killed"]
    BY InvokeStands DEF Inv
  <1> QED
    BY <1>1, <1>2, <1>3 DEF Promise!Next, Promise!vars, Promise!Start, Promise!GiveUp, Promise!Kill,
       Promise!Becomes, Promise!Going, Going, Standing, Cancelled

LEMMA RelayPromised ==
    ASSUME NEW c \in Channels, Relay(c) \/ (\E ends \in BOOLEAN : Writes(c, ends))
    PROVE  UNCHANGED Promise!vars
  <1>1. UNCHANGED <<run, process, waited, fault, handler, outcome, told>>
    BY DEF Relay, Carry, Read, Surface, Writes, ending, signals, report
  <1> QED
    BY <1>1 DEF Promise!vars, Unable, Generators, Cancelled

(* What the report says is what became of the generators.                   *)
LEMMA ReportPromised ==
    ASSUME Inv, Report
    PROVE  Promise!Next
  <1>1. ASSUME NEW i \in Generators
        PROVE  /\ Standing[i] \in Promise!Ended
               /\ fault[i] = "none" => Standing[i] = "zero"
               /\ ~ Cancelled /\ fault[i] # "none" => Standing[i] # "zero"
    <2>1. stage[i] = "done" /\ Follows(i) /\ process[i] \in {"unstarted", "running"} \cup Ended
      BY DEF Report, Inv, Typed
    <2> QED
      BY <2>1 DEF Standing, Unable, Promise!Ended, Ended, Follows
  <1>2. Promise!Generators = Generators
    BY DEF Promise!Generators
  <1>3. Promise!AllEnded
    BY <1>1, <1>2 DEF Promise!AllEnded, Standing
  <1>4. Promise!Failing = {i \in Generators : Standing[i] # "zero"}
    BY <1>2 DEF Promise!Failing, Standing
  <1>5. UNCHANGED <<run, process, waited, fault, handler>> /\ Going
    BY DEF Report, ending, signals
  <1>6. UNCHANGED <<Standing, Cancelled>>
    BY <1>5 DEF Standing, Unable, Generators, Cancelled
  <1>7. CASE Faulty = {}
    <2>1. outcome' = "ok" /\ told' = <<>>
      BY <1>7 DEF Report
    <2>2. Promise!Failing = {}
      BY <1>1, <1>4, <1>7 DEF Faulty
    <2>3. Promise!Succeed
      BY <1>3, <1>5, <1>6, <2>1, <2>2 DEF Promise!Succeed, Promise!Report, Promise!Going, Going, Standing
    <2> QED
      BY <2>3 DEF Promise!Next
  <1>8. CASE Faulty # {} /\ Cancelled
    <2>1. outcome' = "cancelled" /\ told' = <<>>
      BY <1>8 DEF Report
    <2>2. Promise!Cancel
      BY <1>3, <1>5, <1>6, <1>8, <2>1 DEF Promise!Cancel, Promise!Report, Promise!Going, Going, Standing
    <2> QED
      BY <2>2 DEF Promise!Next
  <1>9. CASE Faulty # {} /\ ~ Cancelled
    <2>1. outcome' = "failed" /\ told' = InOrder(Faulty)
      BY <1>9 DEF Report
    <2>2. Promise!Failing = Faulty
      BY <1>1, <1>4, <1>9 DEF Faulty
    <2>3. told' = Promise!InOrder(Promise!Failing)
      BY <2>1, <2>2, Ordered
    <2>4. Promise!Fail
      BY <1>3, <1>5, <1>6, <1>9, <2>1, <2>2, <2>3
         DEF Promise!Fail, Promise!Report, Promise!Going, Going, Standing
    <2> QED
      BY <2>4 DEF Promise!Next
  <1> QED
    BY <1>7, <1>8, <1>9

LEMMA CheckPromised ==
    ASSUME Inv, Check
    PROVE  Promise!Next \/ UNCHANGED Promise!vars
  <1>1. UNCHANGED <<run, process, waited, fault, handler>> /\ Going
    BY DEF Check, ending, signals
  <1>2. UNCHANGED <<Standing, Cancelled>>
    BY <1>1 DEF Standing, Unable, Generators, Cancelled
  <1>3. CASE Invalid = {}
    BY <1>2, <1>3 DEF Check, report, Promise!vars, Standing
  <1>4. CASE Invalid # {}
    <2>1. outcome' = "refused" /\ told' = InOrder(Invalid)
      BY <1>4 DEF Check
    <2>2. Promise!Generators = Generators
      BY DEF Promise!Generators
    <2>3. Invalid \in (SUBSET Promise!Generators) \ {{}}
      BY <1>4, <2>2 DEF Invalid
    <2>4. ASSUME NEW i \in Generators
          PROVE  Standing[i] = "unstarted"
      <3>1. stage[i] = "checking" /\ Follows(i)
        BY DEF Check, Inv
      <3>2. process[i] = "unstarted" /\ waited[i] = "none" /\ fault[i] = "none"
        BY <3>1 DEF Follows, Before
      <3> QED
        BY <3>2 DEF Standing, Unable
    <2>5. Promise!Refuse
      BY <1>1, <1>2, <2>1, <2>2, <2>3, <2>4, Ordered
         DEF Promise!Refuse, Promise!Report, Promise!Going, Going, Standing
    <2> QED
      BY <2>5 DEF Promise!Next
  <1> QED
    BY <1>3, <1>4

LEMMA AsidePromised ==
    ASSUME Inv, Aside
    PROVE  Promise!Next \/ UNCHANGED Promise!vars
  <1>1. CASE Check
    BY <1>1, CheckPromised
  <1>2. CASE Report
    BY <1>2, ReportPromised
  <1>3. CASE Handle
    <2>1. UNCHANGED <<run, process, waited, fault, outcome, told>> /\ Going
      BY <1>3 DEF Handle, Handles, Receive, StopNotifying, CancelContext, ending, report
    <2>2. UNCHANGED Standing
      BY <2>1 DEF Standing, Unable, Generators
    <2>3. CASE CancelContext
      BY <2>1, <2>2, <2>3 DEF CancelContext, Handles, Cancelled, Promise!Next, Promise!Stop,
         Promise!Going, Going, Standing
    <2>4. CASE ~ CancelContext
      <3>1. UNCHANGED Cancelled
        BY <1>3, <2>4 DEF Handle, Handles, Receive, StopNotifying, Cancelled
      <3> QED
        BY <2>1, <2>2, <3>1 DEF Promise!vars, Standing
    <2> QED
      BY <2>3, <2>4
  <1>4. CASE Signal
    <2>1. UNCHANGED <<run, process, waited, fault, handler, told>> /\ Going
      BY <1>4 DEF Signal, ending, report
    <2>2. UNCHANGED <<Standing, Cancelled>>
      BY <2>1 DEF Standing, Unable, Generators, Cancelled
    <2>3. told = <<>>
      BY <2>1 DEF Inv
    <2>4. outcome' = outcome \/ outcome' = "killed"
      BY <1>4 DEF Signal, report
    <2>5. CASE outcome' = outcome
      BY <2>1, <2>2, <2>5 DEF Promise!vars, Standing
    <2>6. CASE outcome' = "killed"
      BY <2>1, <2>2, <2>3, <2>6 DEF Promise!Next, Promise!Die, Promise!Report, Promise!Going, Going,
         Standing
    <2> QED
      BY <2>4, <2>5, <2>6
  <1>5. ASSUME NEW i \in Generators, Forks(i) \/ ChildExits(i)
        PROVE  UNCHANGED Promise!vars
    BY <1>5 DEF Forks, ChildExits, ending, signals, report, Promise!vars, Unable, Generators, Cancelled
  <1>6. ASSUME NEW i \in Generators, NEW how \in {"zero", "nonzero", "signal"}, Exits(i, how)
        PROVE  Promise!Next
    <2>1. /\ UNCHANGED <<run, waited, fault, handler, outcome, told>> /\ Going
          /\ process[i] = "running" /\ process' = [process EXCEPT ![i] = how]
      BY <1>6 DEF Exits, Running, ending, signals, report
    <2>2. Standing[i] = "running" /\ Standing' = [Standing EXCEPT ![i] = how]
      BY <2>1 DEF Standing, Unable, Generators, Inv, Typed
    <2>3. i \in Promise!Generators
      BY DEF Promise!Generators
    <2>4. Promise!Exit(i)
      BY <2>1, <2>2 DEF Promise!Exit, Promise!Becomes, Promise!Going, Going, Standing, Cancelled
    <2> QED
      BY <2>3, <2>4 DEF Promise!Next
  <1> QED
    BY <1>1, <1>2, <1>3, <1>4, <1>5, <1>6 DEF Aside

(* Nobody is left running behind a run, its verdict is what its generators   *)
(* exited with, told in the declared order, and only a run that was told to  *)
(* stop kills one: whatever the signals, however many the generators.        *)
THEOREM VerdictsAreKept == Spec => KeepsTheVerdicts
  <1>1. Init => Promise!Init
    BY DEF Init, Promise!Init, Promise!Generators, Generators, Unable, Cancelled
  <1>2. Inv /\ [Next]_vars => [Promise!Next]_(Promise!vars)
    <2> SUFFICES ASSUME Inv, [Next]_vars
                 PROVE  Promise!Next \/ UNCHANGED Promise!vars
      OBVIOUS
    <2>1. CASE Next
      BY <2>1, Kinds, InvokePromised, RelayPromised, AsidePromised
    <2>2. CASE UNCHANGED vars
      BY <2>2 DEF vars, ending, signals, report, Promise!vars, Unable, Generators, Cancelled
    <2> QED
      BY <2>1, <2>2
  <1> QED
    BY <1>1, <1>2, Invariant, PTL DEF Spec, KeepsTheVerdicts, Promise!Spec

-----------------------------------------------------------------------------
(* Where the pieces of a stream are, and that none is lost between.        *)

(* A line in the log is a run of what was written to its stream behind      *)
(* start, and ends where a line may.                                       *)
InStream(line, start, c) ==
    /\ line # <<>>
    /\ \A p \in DOMAIN line : start + p <= Len(wrote[c]) /\ line[p] = wrote[c][start + p]
    /\ \A p \in 1 .. Len(line) - 1 : ~ line[p].ends

StartOf(k, c) == IF k = 1 THEN 0 ELSE Last(surfaced[c][k - 1]).n

(* Some pieces are those of the stream behind the first so many.            *)
Continues(pieces, start, c) ==
    \A p \in DOMAIN pieces : start + p <= Len(wrote[c]) /\ pieces[p] = wrote[c][start + p]

(* What a stream was written is in the log, in the scanner's buffer, in the *)
(* copying goroutine's hands and in the pipe, in this order.                *)
Along(c) ==
    /\ \A n \in DOMAIN wrote[c] : wrote[c][n].n = n
    /\ \A k \in DOMAIN surfaced[c] : InStream(surfaced[c][k], StartOf(k, c), c)
    /\ Continues(held[c], LoggedTo(c), c)
    /\ \A p \in 1 .. Len(held[c]) - 1 : ~ held[c][p].ends
    /\ Continues(carried[c], LoggedTo(c) + Len(held[c]), c)
    /\ Continues(piped[c], LoggedTo(c) + Len(held[c]) + Len(carried[c]), c)
    /\ ~ late[c[1]] =>
          LoggedTo(c) + Len(held[c]) + Len(carried[c]) + Len(piped[c]) = Len(wrote[c])

(* A piece is counted where it lies.                                        *)
LEMMA LoggedToTyped ==
    ASSUME Typed, NEW c \in Channels, Along(c)
    PROVE  LoggedTo(c) \in Nat
  <1>1. surfaced[c] \in Seq(Seq(Piece))
    BY DEF Typed
  <1>2. CASE surfaced[c] # <<>>
    <2> DEFINE k == Len(surfaced[c])
    <2>1. k \in DOMAIN surfaced[c] /\ surfaced[c][k] \in Seq(Piece)
      BY <1>1, <1>2
    <2>2. surfaced[c][k] # <<>>
      BY <2>1 DEF Along, InStream
    <2>3. Last(surfaced[c][k]) \in Piece
      BY <2>1, <2>2 DEF Last
    <2> QED
      BY <1>2, <2>3 DEF LoggedTo, Last, Piece
  <1> QED
    BY <1>2 DEF LoggedTo

(* Nothing of the stream has moved.                                         *)
LEMMA AlongStays ==
    ASSUME NEW c \in Channels, Along(c),
           wrote'[c] = wrote[c], piped'[c] = piped[c], carried'[c] = carried[c],
           held'[c] = held[c], surfaced'[c] = surfaced[c], late'[c[1]] = late[c[1]]
    PROVE  Along(c)'
  BY DEF Along, InStream, StartOf, Continues, LoggedTo

LEMMA WritesAlong ==
    ASSUME Typed, NEW c \in Channels, Along(c), NEW ends \in BOOLEAN, Writes(c, ends)
    PROVE  Along(c)'
  <1> DEFINE piece == [n |-> Len(wrote[c]) + 1, ends |-> ends]
             at == LoggedTo(c) + Len(held[c]) + Len(carried[c])
  <1>1. /\ wrote[c] \in Seq(Piece) /\ piped[c] \in Seq(Piece) /\ carried[c] \in Seq(Piece)
        /\ held[c] \in Seq(Piece) /\ LoggedTo(c) \in Nat
    BY LoggedToTyped DEF Typed
  <1>2. /\ wrote'[c] = Append(wrote[c], piece) /\ piped'[c] = Append(piped[c], piece)
        /\ UNCHANGED <<carried, held, surfaced, late>> /\ ~ late[c[1]]
    BY DEF Writes, Typed, ending
  <1>3. piece \in Piece
    BY <1>1 DEF Piece
  <1> HIDE DEF piece
  <1>4. piece.n = Len(wrote[c]) + 1
    BY DEF piece
  <1>5. \A n \in DOMAIN wrote'[c] : wrote'[c][n].n = n
    BY <1>1, <1>2, <1>3, <1>4 DEF Along
  <1>6. \A n \in DOMAIN wrote[c] : wrote'[c][n] = wrote[c][n]
    BY <1>1, <1>2, <1>3
  <1>7. Len(wrote'[c]) = Len(wrote[c]) + 1 /\ Len(piped'[c]) = Len(piped[c]) + 1
    BY <1>1, <1>2, <1>3
  <1>8. LoggedTo(c)' = LoggedTo(c) /\ \A k \in DOMAIN surfaced[c] : StartOf(k, c)' = StartOf(k, c)
    BY <1>2 DEF LoggedTo, StartOf
  <1>9. \A k \in DOMAIN surfaced[c] : InStream(surfaced[c][k], StartOf(k, c), c)'
    <2> SUFFICES ASSUME NEW k \in DOMAIN surfaced[c], NEW p \in DOMAIN surfaced[c][k]
                 PROVE  /\ StartOf(k, c) + p <= Len(wrote'[c])
                        /\ surfaced[c][k][p] = wrote'[c][StartOf(k, c) + p]
      BY <1>2, <1>8 DEF Along, InStream
    <2>1. /\ StartOf(k, c) + p <= Len(wrote[c])
          /\ surfaced[c][k][p] = wrote[c][StartOf(k, c) + p]
      BY DEF Along, InStream
    <2>2. StartOf(k, c) \in Nat /\ p \in Nat \ {0}
      <3>1. surfaced[c] \in Seq(Seq(Piece)) /\ k \in Nat \ {0}
        BY DEF Typed
      <3>2. surfaced[c][k] \in Seq(Piece)
        BY <3>1
      <3>3. CASE k # 1
        <4>1. k - 1 \in DOMAIN surfaced[c]
          BY <3>1, <3>3
        <4>2. surfaced[c][k - 1] \in Seq(Piece) /\ surfaced[c][k - 1] # <<>>
          BY <3>1, <4>1 DEF Along, InStream
        <4>3. Last(surfaced[c][k - 1]) \in Piece
          <5>1. Len(surfaced[c][k - 1]) \in DOMAIN surfaced[c][k - 1]
            BY <4>2
          <5> QED
            BY <4>2, <5>1 DEF Last
        <4> QED
          BY <3>2, <3>3, <4>3 DEF StartOf, Piece
      <3> QED
        BY <3>2, <3>3 DEF StartOf
    <2>3. StartOf(k, c) + p \in DOMAIN wrote[c]
      BY <1>1, <2>1, <2>2
    <2> QED
      BY <1>1, <1>6, <1>7, <2>1, <2>2, <2>3
  <1>10. ASSUME NEW pieces \in Seq(Piece), NEW start \in Nat, Continues(pieces, start, c)
         PROVE  \A p \in DOMAIN pieces :
                  start + p <= Len(wrote'[c]) /\ pieces[p] = wrote'[c][start + p]
    <2> TAKE p \in DOMAIN pieces
    <2>1. start + p <= Len(wrote[c]) /\ pieces[p] = wrote[c][start + p] /\ p \in Nat \ {0}
      BY <1>10 DEF Continues
    <2>2. start + p \in DOMAIN wrote[c]
      BY <1>1, <2>1
    <2> QED
      BY <1>1, <1>6, <1>7, <2>1, <2>2
  <1>11. LoggedTo(c) + Len(held[c]) \in Nat /\ at \in Nat
    BY <1>1
  <1>12. Continues(held[c], LoggedTo(c), c)' /\ Continues(carried[c], LoggedTo(c) + Len(held[c]), c)'
    <2>1. Continues(held[c], LoggedTo(c), c) /\ Continues(carried[c], LoggedTo(c) + Len(held[c]), c)
      BY DEF Along
    <2>2. \A p \in DOMAIN held[c] :
            LoggedTo(c) + p <= Len(wrote'[c]) /\ held[c][p] = wrote'[c][LoggedTo(c) + p]
      BY <1>1, <1>10, <2>1
    <2>3. \A p \in DOMAIN carried[c] :
            /\ LoggedTo(c) + Len(held[c]) + p <= Len(wrote'[c])
            /\ carried[c][p] = wrote'[c][LoggedTo(c) + Len(held[c]) + p]
      BY <1>1, <1>10, <1>11, <2>1
    <2> QED
      BY <1>2, <1>8, <2>2, <2>3 DEF Continues
  <1>13. at + Len(piped[c]) = Len(wrote[c])
    BY <1>2 DEF Along
  <1>14. Continues(piped[c], at, c)'
    <2> SUFFICES ASSUME NEW p \in DOMAIN piped'[c]
                 PROVE  at + p <= Len(wrote'[c]) /\ piped'[c][p] = wrote'[c][at + p]
      BY <1>2, <1>8 DEF Continues
    <2>1. CASE p \in DOMAIN piped[c]
      <3>1. piped'[c][p] = piped[c][p]
        BY <1>1, <1>2, <1>3, <2>1
      <3>2. Continues(piped[c], at, c)
        BY DEF Along
      <3> QED
        BY <1>1, <1>10, <1>11, <2>1, <3>1, <3>2
    <2>2. CASE p = Len(piped[c]) + 1
      <3>1. at + p = Len(wrote[c]) + 1
        <4>1. Len(piped[c]) \in Nat
          BY <1>1
        <4> HIDE DEF at
        <4> QED
          BY <1>13, <1>11, <2>2, <4>1
      <3>2. piped'[c][p] = piece /\ wrote'[c][Len(wrote[c]) + 1] = piece
        BY <1>1, <1>2, <1>3, <2>2
      <3> QED
        BY <1>7, <3>1, <3>2
    <2>3. p \in DOMAIN piped[c] \/ p = Len(piped[c]) + 1
      <3>1. DOMAIN piped'[c] = 1 .. Len(piped[c]) + 1 /\ DOMAIN piped[c] = 1 .. Len(piped[c])
            /\ Len(piped[c]) \in Nat
        BY <1>1, <1>2, <1>3
      <3> QED
        BY <3>1
    <2> QED
      BY <2>1, <2>2, <2>3
  <1>15. at + Len(piped'[c]) = Len(wrote'[c])
    <2>1. Len(piped[c]) \in Nat
      BY <1>1
    <2> HIDE DEF at
    <2> QED
      BY <1>7, <1>13, <1>11, <2>1
  <1>16. (LoggedTo(c) + Len(held[c]) + Len(carried[c]))' = at
    BY <1>2, <1>8
  <1>17. \A p \in 1 .. Len(held'[c]) - 1 : ~ held'[c][p].ends
    BY <1>2 DEF Along
  <1>18. \A k \in DOMAIN surfaced'[c] : InStream(surfaced[c][k], StartOf(k, c), c)'
    BY <1>2, <1>9
  <1>19. Continues(piped[c], LoggedTo(c) + Len(held[c]) + Len(carried[c]), c)'
    BY <1>14, <1>16 DEF Continues
  <1> HIDE DEF at
  <1> QED
    BY <1>5, <1>12, <1>15, <1>16, <1>17, <1>18, <1>19 DEF Along

LEMMA CarryAlong ==
    ASSUME Typed, NEW c \in Channels, Along(c), Carry(c)
    PROVE  Along(c)'
  <1>1. /\ piped[c] \in Seq(Piece) /\ held[c] \in Seq(Piece) /\ LoggedTo(c) \in Nat
    BY LoggedToTyped DEF Typed
  <1>2. /\ carried[c] = <<>> /\ carried'[c] = piped[c] /\ piped'[c] = <<>>
        /\ UNCHANGED <<wrote, held, surfaced, late>>
    BY DEF Carry, Typed, ending
  <1>3. LoggedTo(c)' = LoggedTo(c) /\ \A k \in DOMAIN surfaced[c] : StartOf(k, c)' = StartOf(k, c)
    BY <1>2 DEF LoggedTo, StartOf
  <1>4. LoggedTo(c) + Len(held[c]) + Len(carried[c]) = LoggedTo(c) + Len(held[c])
    BY <1>1, <1>2
  <1> QED
    BY <1>1, <1>2, <1>3, <1>4 DEF Along, InStream, Continues

LEMMA ReadAlong ==
    ASSUME Typed, NEW c \in Channels, Along(c), Read(c)
    PROVE  Along(c)'
  <1> DEFINE a == LoggedTo(c)
             h == held[c]
             q == carried[c]
  <1>1. /\ piped[c] \in Seq(Piece) /\ h \in Seq(Piece) /\ a \in Nat
        /\ q \in Seq(Piece) /\ q # <<>>
    BY LoggedToTyped DEF Typed, Read
  <1>2. /\ held'[c] = Append(h, Head(q)) /\ carried'[c] = Tail(q)
        /\ UNCHANGED <<wrote, piped, surfaced, late>> /\ ~ TokenReady(c)
    BY DEF Read, Typed, ending
  <1>3. a' = a /\ \A k \in DOMAIN surfaced[c] : StartOf(k, c)' = StartOf(k, c)
    BY <1>2 DEF LoggedTo, StartOf
  <1>4. Len(held'[c]) = Len(h) + 1 /\ Len(carried'[c]) = Len(q) - 1 /\ Len(q) \in Nat \ {0}
    BY <1>1, <1>2
  <1>5. /\ Continues(h, a, c) /\ Continues(q, a + Len(h), c)
        /\ Continues(piped[c], a + Len(h) + Len(q), c)
    BY DEF Along
  <1>6. Continues(held[c], LoggedTo(c), c)'
    <2> SUFFICES ASSUME NEW p \in DOMAIN held'[c]
                 PROVE  a + p <= Len(wrote[c]) /\ held'[c][p] = wrote[c][a + p]
      BY <1>2, <1>3 DEF Continues
    <2>1. CASE p \in DOMAIN h
      <3>1. held'[c][p] = h[p]
        BY <1>1, <1>2, <2>1
      <3> QED
        BY <1>5, <2>1, <3>1 DEF Continues
    <2>2. CASE p = Len(h) + 1
      <3>1. held'[c][p] = q[1] /\ 1 \in DOMAIN q
        BY <1>1, <1>2, <2>2
      <3>2. a + Len(h) + 1 = a + p
        <4>1. Len(h) \in Nat
          BY <1>1
        <4> HIDE DEF a, h
        <4> QED
          BY <1>1, <2>2, <4>1
      <3> QED
        BY <1>5, <3>1, <3>2 DEF Continues
    <2> QED
      BY <1>1, <1>2, <2>1, <2>2
  <1>7. Continues(carried[c], LoggedTo(c) + Len(held[c]), c)'
    <2> SUFFICES ASSUME NEW p \in DOMAIN carried'[c]
                 PROVE  /\ a + (Len(h) + 1) + p <= Len(wrote[c])
                        /\ carried'[c][p] = wrote[c][a + (Len(h) + 1) + p]
      BY <1>2, <1>3, <1>4 DEF Continues
    <2>1. p \in Nat /\ p + 1 \in DOMAIN q /\ carried'[c][p] = q[p + 1]
      BY <1>1, <1>2
    <2>2. a + Len(h) + (p + 1) = a + (Len(h) + 1) + p
      <3>1. Len(h) \in Nat
        BY <1>1
      <3> HIDE DEF a, h
      <3> QED
        BY <1>1, <2>1, <3>1
    <2> QED
      BY <1>5, <2>1, <2>2 DEF Continues
  <1>8. (LoggedTo(c) + Len(held[c]) + Len(carried[c]))' = a + Len(h) + Len(q)
    BY <1>1, <1>3, <1>4
  <1>9. Continues(piped[c], LoggedTo(c) + Len(held[c]) + Len(carried[c]), c)'
    BY <1>2, <1>5, <1>8 DEF Continues
  <1>10. \A p \in 1 .. Len(held'[c]) - 1 : ~ held'[c][p].ends
    <2> SUFFICES ASSUME NEW p \in 1 .. Len(h)
                 PROVE  ~ held'[c][p].ends
      BY <1>1, <1>4
    <2>1. held'[c][p] = h[p]
      BY <1>1, <1>2
    <2>2. CASE p = Len(h)
      <3>1. h # <<>> /\ Last(h) = h[p]
        BY <1>1, <2>2 DEF Last
      <3> QED
        BY <1>2, <2>1, <3>1 DEF TokenReady
    <2>3. CASE p \in 1 .. Len(h) - 1
      BY <2>1, <2>3 DEF Along
    <2> QED
      BY <1>1, <2>2, <2>3
  <1>11. \A k \in DOMAIN surfaced[c] : InStream(surfaced[c][k], StartOf(k, c), c)'
    BY <1>2, <1>3 DEF Along, InStream
  <1> QED
    BY <1>2, <1>6, <1>7, <1>8, <1>9, <1>10, <1>11 DEF Along

LEMMA SurfaceAlong ==
    ASSUME Typed, NEW c \in Channels, Along(c), Surface(c)
    PROVE  Along(c)'
  <1> DEFINE a == LoggedTo(c)
             h == held[c]
             log == surfaced[c]
  <1>1. /\ piped[c] \in Seq(Piece) /\ h \in Seq(Piece) /\ a \in Nat /\ h # <<>>
        /\ carried[c] \in Seq(Piece) /\ log \in Seq(Seq(Piece)) /\ wrote[c] \in Seq(Piece)
    BY LoggedToTyped DEF Typed, Surface, TokenReady
  <1>2. /\ surfaced'[c] = Append(log, h) /\ held'[c] = <<>>
        /\ UNCHANGED <<wrote, piped, carried, late>>
    BY DEF Surface, Typed, ending
  <1>3. /\ Continues(h, a, c) /\ Continues(carried[c], a + Len(h), c)
        /\ Continues(piped[c], a + Len(h) + Len(carried[c]), c)
    BY DEF Along
  <1>4. /\ Len(h) \in DOMAIN h /\ Last(h) = h[Len(h)]
    BY <1>1 DEF Last
  <1>5. Last(h).n = a + Len(h)
    <2>1. a + Len(h) <= Len(wrote[c]) /\ Last(h) = wrote[c][a + Len(h)]
      BY <1>3, <1>4 DEF Continues
    <2>2. a + Len(h) \in DOMAIN wrote[c]
      BY <1>1, <1>4, <2>1
    <2> QED
      BY <2>1, <2>2 DEF Along
  <1>6. /\ Len(surfaced'[c]) = Len(log) + 1 /\ surfaced'[c][Len(log) + 1] = h
        /\ \A k \in DOMAIN log : surfaced'[c][k] = log[k]
        /\ Len(log) \in Nat
    BY <1>1, <1>2
  <1>7. LoggedTo(c)' = a + Len(h)
    <2>1. surfaced'[c] # <<>>
      <3>1. Len(surfaced'[c]) # 0
        BY <1>6
      <3> QED
        BY <3>1
    <2> QED
      BY <1>5, <1>6, <2>1 DEF LoggedTo, Last
  <1>8. ASSUME NEW k \in DOMAIN surfaced'[c]
        PROVE  InStream(surfaced[c][k], StartOf(k, c), c)'
    <2>1. k \in 1 .. Len(log) + 1 /\ Len(log) \in Nat
      BY <1>1, <1>2
    <2>2. CASE k \in 1 .. Len(log)
      <3>1. k \in DOMAIN log /\ (k # 1 => k - 1 \in DOMAIN log)
        BY <1>1, <2>2
      <3>2. StartOf(k, c)' = StartOf(k, c)
        BY <1>6, <3>1 DEF StartOf
      <3> QED
        BY <1>2, <1>6, <3>1, <3>2 DEF Along, InStream
    <2>3. CASE k = Len(log) + 1
      <3>1. StartOf(k, c)' = a
        <4>1. CASE log = <<>>
          BY <2>3, <4>1 DEF StartOf, LoggedTo
        <4>2. CASE log # <<>>
          <5>1. k # 1 /\ k - 1 = Len(log) /\ Len(log) \in DOMAIN log
            BY <1>1, <2>3, <4>2
          <5> QED
            BY <1>6, <4>2, <5>1 DEF StartOf, LoggedTo, Last
        <4> QED
          BY <4>1, <4>2
      <3> QED
        BY <1>1, <1>2, <1>3, <1>6, <2>3, <3>1 DEF Along, InStream, Continues
    <2> QED
      BY <2>1, <2>2, <2>3
  <1>9. Len(held'[c]) = 0
    BY <1>2
  <1>10. (LoggedTo(c) + Len(held[c]))' = a + Len(h)
    BY <1>1, <1>7, <1>9
  <1> QED
    BY <1>1, <1>2, <1>3, <1>7, <1>8, <1>9, <1>10 DEF Along, Continues

(* A step keeps every stream in one piece.                                  *)
LEMMA StepAlong ==
    ASSUME Typed, Next, NEW c \in Channels, Along(c)
    PROVE  Along(c)'
  <1>1. c[1] \in Generators
    BY Channelled
  <1>2. ASSUME NEW i \in Generators, GiveUp(i)
        PROVE  Along(c)'
    <2>1. UNCHANGED <<wrote, carried, held, surfaced>>
      BY <1>2 DEF GiveUp
    <2>2. CASE c[1] = i
      <3>1. late'[c[1]] /\ piped'[c] = <<>>
        BY <1>1, <1>2, <2>2 DEF GiveUp, Typed
      <3> QED
        BY <2>1, <3>1 DEF Along, InStream, StartOf, Continues, LoggedTo
    <2>3. CASE c[1] # i
      <3>1. late'[c[1]] = late[c[1]] /\ piped'[c] = piped[c]
        BY <1>1, <1>2, <2>3 DEF GiveUp, Typed
      <3> QED
        BY <2>1, <3>1, AlongStays
    <2> QED
      BY <2>2, <2>3
  <1>3. CASE UNCHANGED <<streams, late>>
    BY <1>3, AlongStays DEF streams
  <1>4. ASSUME NEW i \in Generators, Invoke(i) \/ Kill(i), ~ GiveUp(i)
        PROVE  UNCHANGED <<streams, late>>
    BY <1>4 DEF Invoke, Kill, Exits, MakePlace, WriteDescriptor, WriteFails, Start, StartFails,
       Reap, Close, Judge, Return, ending
  <1>5. Aside => UNCHANGED <<streams, late>>
    BY DEF Aside, Check, Report, Handle, Handles, Receive, StopNotifying, CancelContext, Signal,
       Forks, ChildExits, Exits, ending
  <1>6. ASSUME NEW d \in Channels, Relay(d) \/ (\E ends \in BOOLEAN : Writes(d, ends))
        PROVE  Along(c)'
    <2>1. CASE d = c
      BY <1>6, <2>1, WritesAlong, CarryAlong, ReadAlong, SurfaceAlong DEF Relay
    <2>2. CASE d # c
      <3>1. /\ wrote'[c] = wrote[c] /\ piped'[c] = piped[c] /\ carried'[c] = carried[c]
            /\ held'[c] = held[c] /\ surfaced'[c] = surfaced[c] /\ UNCHANGED late
        BY <1>6, <2>2 DEF Relay, Writes, Carry, Read, Surface, Typed, ending
      <3> QED
        BY <3>1, AlongStays
    <2> QED
      BY <2>1, <2>2
  <1> QED
    BY <1>2, <1>3, <1>4, <1>5, <1>6, Kinds

(* However the generator, the copying goroutines, the scanners and the timer *)
(* of the grace interleave, no piece of a stream is lost, moved or doubled   *)
(* on its way to the log, for lines and streams of any length.             *)
THEOREM NothingUnsaid == Spec => []EveryLineSurfaced
  <1>1. Init => \A c \in Channels : Along(c)
    BY Channelled DEF Init, Along, InStream, StartOf, Continues, LoggedTo
  <1>2. Inv /\ (\A c \in Channels : Along(c)) /\ [Next]_vars => (\A c \in Channels : Along(c))'
    <2> SUFFICES ASSUME Inv, \A c \in Channels : Along(c), [Next]_vars
                 PROVE  (\A c \in Channels : Along(c))'
      OBVIOUS
    <2>1. run' = run
      <3>1. CASE Next
        BY <3>1, Kinds DEF Invoke, Kill, Exits, MakePlace, WriteDescriptor, WriteFails, Start,
           StartFails, Reap, GiveUp, Close, Judge, Return, Relay, Carry, Read, Surface, Writes,
           Aside, Check, Report, Handle, Handles, Receive, StopNotifying, CancelContext, Signal,
           Forks, ChildExits
      <3> QED
        BY <3>1 DEF vars
    <2>2. Channels' = Channels
      BY <2>1 DEF Channels, Generators
    <2>3. ASSUME NEW c \in Channels
          PROVE  Along(c)'
      <3>1. CASE UNCHANGED vars
        BY <3>1, AlongStays DEF vars, streams, ending
      <3> QED
        BY <3>1, StepAlong DEF Inv
    <2> QED
      BY <2>2, <2>3
  <1>3. Inv /\ (\A c \in Channels : Along(c)) => EveryLineSurfaced
    <2> SUFFICES ASSUME Inv, NEW c \in Channels, Along(c)
                 PROVE  /\ \A k \in DOMAIN surfaced[c] : InStream(surfaced[c][k], StartOf(k, c), c)
                        /\ stage[c[1]] \in {"removing", "done"} /\ ~ late[c[1]] =>
                              LoggedTo(c) = Len(wrote[c])
      BY DEF EveryLineSurfaced, InStream, StartOf
    <2>1. LoggedTo(c) \in Nat
      BY LoggedToTyped DEF Inv
    <2>2. ASSUME stage[c[1]] \in {"removing", "done"}
          PROVE  piped[c] = <<>> /\ carried[c] = <<>> /\ held[c] = <<>>
      BY <2>2 DEF Inv, Flows, Reading
    <2>3. ASSUME stage[c[1]] \in {"removing", "done"}, ~ late[c[1]]
          PROVE  LoggedTo(c) = Len(wrote[c])
      <3>1. Len(piped[c]) = 0 /\ Len(carried[c]) = 0 /\ Len(held[c]) = 0
        BY <2>2, <2>3
      <3> QED
        BY <2>1, <2>3, <3>1 DEF Along
    <2> QED
      BY <2>3 DEF Along
  <1> QED
    BY <1>1, <1>2, <1>3, Invariant, PTL DEF Spec

=============================================================================
