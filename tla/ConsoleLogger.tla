--------------------------- MODULE ConsoleLogger ---------------------------
(***************************************************************************)
(* xopconsole: a stream of text that is read as it comes.  A span is       *)
(* introduced by a Start record, and every Done writes one more, with its  *)
(* version and attributes.                                                 *)
(***************************************************************************)
EXTENDS BaseProgram

VARIABLE tail \* per span, what the array of its Prefilled holds past the prefill

ConsoleInit ==
    /\ tail = [s \in Spans |-> 0]
    /\ base = "console" => output = <<[record |-> "Start", span |-> "request"]>>

(* Fault: the span is not introduced. *)
ConsoleSpanSilent(p) == Span(p) /\ UNCHANGED <<output, tail>>

ConsoleSpan(p) ==
    /\ Span(p) /\ Write([record |-> "Start", span |-> "child"])
    /\ UNCHANGED tail

(* The line gets the slice of its Prefilled, not a copy: where that has    *)
(* room, the line's attributes go into an array that other lines share.    *)
ConsoleLine(p, s) ==
    /\ Line(p, s)
    /\ tail' = IF Prefilled THEN [tail EXCEPT ![s] = clock'] ELSE tail
    /\ UNCHANGED endTime

(* Msg and Template prepend the prefilled message, Model and Link do not. *)
ConsoleSend(p) ==
    /\ BaseStep(p, "send", "mark")
    /\ LET c == call[p] IN
       Write([record |-> "line", span |-> c.span, time |-> c.time,
              attr |-> IF Prefilled THEN tail[c.span] ELSE c.time, kind |-> Kind,
              prefix |-> Prefilled /\ Kind \in {"msg", "template"}])
    /\ UNCHANGED <<draft, version, tail>>

ConsoleMetadata(p, s) == Metadata(p, s, "mark") /\ UNCHANGED tail

(* VersionNumber is incremented without a lock: loaded, *)
ConsoleDone(p) ==
    /\ DoneStep(p, "done", "number")
    /\ draft' = [draft EXCEPT ![p] =
           [span |-> @.span, time |-> @.time, ver |-> version[@.span]]]
    /\ UNCHANGED <<endTime, version, output, tail>>

(* stored, and the attributes follow; *)
ConsoleNumber(p) ==
    /\ DoneStep(p, "number", "write")
    /\ LET d == draft[p] IN
       /\ version' = [version EXCEPT ![d.span] = d.ver + 1]
       /\ draft' = [draft EXCEPT ![p] =
              [record |-> "v", span |-> d.span, time |-> d.time, ver |-> d.ver + 1,
               attributes |-> attributes[d.span]]]
    /\ UNCHANGED <<endTime, output, tail>>

(* and the record is written. *)
ConsoleWrite(p) ==
    /\ DoneEnds(p, "write")
    /\ Write(draft[p])
    /\ UNCHANGED <<endTime, version, tail>>

ConsoleFlush(p) ==
    /\ BaseStep(p, "flush", "idle")
    /\ UNCHANGED <<draft, version, output, tail>>

ConsoleStep(p) ==
    \/ ProgramStep(p) /\ UNCHANGED tail
    \/ ConsoleSpan(p) \/ (\E s \in Spans : ConsoleLine(p, s) \/ ConsoleMetadata(p, s))
    \/ ConsoleSend(p) \/ ConsoleDone(p) \/ ConsoleNumber(p) \/ ConsoleWrite(p) \/ ConsoleFlush(p)

-----------------------------------------------------------------------------
(* Replay: record by record. *)
ConsoleCall(e) ==
    CASE e.record = "Start" /\ e.span = "request" -> <<[op |-> "request"]>>
      [] e.record = "Start" /\ e.span = "child" ->
            <<[op |-> "span", span |-> "child", parent |-> "request"]>>
      [] e.record = "line"  ->
            <<[op |-> "line", span |-> e.span, time |-> e.time, attr |-> e.attr,
               kind |-> e.kind, prefix |-> e.prefix]>>
      [] e.record = "v" ->
            Append(SetToSeq({[op |-> "metadata", span |-> e.span, time |-> t] : t \in e.attributes}),
                   [op |-> "done", span |-> e.span, time |-> e.time])

ConsoleReadCalls == AllOf([i \in DOMAIN output |-> ConsoleCall(output[i])])
=============================================================================
