--------------------------- MODULE RecordWriter ----------------------------
(***************************************************************************)
(* The writer cpybkc-gen-go generates: Writer.Write, which narrows to the    *)
(* transitions admitting the record it was handed and refuses one that an    *)
(* earlier transition would take, and Writer.Close                          *)
(* (cmd/cpybkc-gen-go/writer.go and rival.go).                              *)
(***************************************************************************)
EXTENDS RecordStream

VARIABLES
    wstate,   \* where in the automaton the write is
    wheld,    \* the registers bound so far and what they hold
    written,  \* the record types of the records written, in order
    trail     \* wstate and wheld as they were before each record, and now

writer == <<wstate, wheld, written, trail>>

Point(s, h) == [state |-> s, held |-> h]

WriterInit ==
    /\ wstate = Start
    /\ wheld = [r \in {} |-> 0]
    /\ written = <<>>
    /\ trail = <<Point(Start, [r \in {} |-> 0])>>

(* The later transitions tried in place of the earlier ones. *)
RivalBehind(u, t) ==
    /\ Before(t, u)
    /\ u.record # t.record
    /\ ResolvedByOrder(u.record, t.record)
    /\ Satisfiable(u.guards \cup t.guards)

(* The earlier transitions whose predicate a writer taking t has to try: a   *)
(* pair sharing a byte is told apart by its literals, one that cannot be     *)
(* eligible with t is never in its way, and neither is one admitting the     *)
(* record in hand.                                                         *)
Rival(u, t) ==
    /\ Before(u, t)
    /\ u.record # t.record
    /\ ResolvedByOrder(u.record, t.record)
    /\ Satisfiable(u.guards \cup t.guards)

(* No rival tried at all. *)
NeverForged(t, raw) == FALSE

Forged(t, raw) ==
    \E u \in Leaving(A, wstate) : Rival(u, t) /\ Takes(u, wheld, raw)

Takeable(R, raw) == {t \in Leaving(A, wstate) : t.record = R /\ Takes(t, wheld, raw)}

(* A caller's record of type R is marshalled into raw, the transition found, *)
(* and the record emitted before the bindings are applied.  A record that    *)
(* belongs nowhere here is refused and changes nothing.                     *)
Write == \E R \in RecordType : \E raw \in Inputs :
    /\ ended = "open"
    /\ Len(file) < MaxRecords
    /\ Conforms(R, raw)
    /\ \E t \in Takeable(R, raw) :
          /\ ~ Forged(t, raw)
          /\ file' = Append(file, raw)
          /\ wstate' = t.to
          /\ wheld' = Bound(t, wheld, raw)
          /\ trail' = Append(trail, Point(t.to, Bound(t, wheld, raw)))
    /\ written' = Append(written, R)
    /\ UNCHANGED <<layout, ended>>

(* Close reports a state that does not accept, and the caller then leaves    *)
(* the file as it is.                                                      *)
Close ==
    /\ ended = "open"
    /\ ended' = IF Accepts(A, wstate, wheld) THEN "closed" ELSE "abandoned"
    /\ UNCHANGED <<layout, file, writer>>

=============================================================================
