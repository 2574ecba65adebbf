------------------------------ MODULE Recorder ------------------------------
(***************************************************************************)
(* xoprecorder: it keeps spans, lines and attributes in memory, with the   *)
(* events in their order, from which it replays them.  What it makes of a  *)
(* sequence of calls is also what a replay into a recorder gives.          *)
(***************************************************************************)
EXTENDS BaseProgram

VARIABLE provisional \* per span, Span.provisionalEndTime

RecorderInit ==
    /\ provisional = [s \in Spans |-> 0]
    /\ base = "recorder" => output = <<[op |-> "request"]>>

RecorderSpan(p) ==
    /\ Span(p) /\ Write([op |-> "span", span |-> "child", parent |-> "request"])
    /\ UNCHANGED provisional

RecorderLine(p, s) ==
    /\ Line(p, s)
    /\ provisional' = [provisional EXCEPT ![s] = Larger(@, clock')]
    /\ UNCHANGED endTime

(* line.Msg, Template, Model, Link: each prepends the prefilled message. *)
RecorderSend(p) ==
    /\ BaseStep(p, "send", "mark")
    /\ Write([op |-> "line", span |-> call[p].span, time |-> call[p].time,
              attr |-> call[p].time, kind |-> Kind, prefix |-> Prefilled])
    /\ UNCHANGED <<draft, version, provisional>>

RecorderMetadata(p, s) ==
    /\ Metadata(p, s, "note") /\ UNCHANGED provisional

RecorderNote(p) ==
    /\ BaseStep(p, "note", "mark")
    /\ Write([op |-> "metadata", span |-> call[p].span, time |-> call[p].time])
    /\ UNCHANGED <<draft, version, provisional>>

(* Fault: the times of the lines are left out. *)
RecorderDoneAlone(p) ==
    /\ DoneStep(p, "done", "end")
    /\ UNCHANGED <<draft, provisional, endTime, version, output>>

(* EndTime becomes the maximum of itself and of what is returned here. *)
RecorderDone(p) ==
    /\ DoneStep(p, "done", "end")
    /\ LET s == draft[p].span
           m == Larger(provisional[s], draft[p].time) IN
       /\ provisional' = [provisional EXCEPT ![s] = m]
       /\ draft' = [draft EXCEPT ![p].time = m]
    /\ UNCHANGED <<endTime, version, output>>

RecorderEnd(p) ==
    /\ DoneStep(p, "end", "event")
    /\ endTime' = [endTime EXCEPT ![draft[p].span] = Larger(@, draft[p].time)]
    /\ UNCHANGED <<draft, version, output, provisional>>

RecorderEvent(p) ==
    /\ DoneEnds(p, "event")
    /\ Write([op |-> "done", span |-> draft[p].span])
    /\ UNCHANGED <<endTime, version, provisional>>

RecorderFlush(p) ==
    /\ BaseStep(p, "flush", "idle")
    /\ Write([op |-> "flush"])
    /\ UNCHANGED <<draft, version, provisional>>

RecorderStep(p) ==
    \/ ProgramStep(p) /\ UNCHANGED provisional
    \/ RecorderSpan(p) \/ (\E s \in Spans : RecorderLine(p, s) \/ RecorderMetadata(p, s))
    \/ RecorderSend(p) \/ RecorderNote(p)
    \/ RecorderDone(p) \/ RecorderEnd(p) \/ RecorderEvent(p) \/ RecorderFlush(p)

-----------------------------------------------------------------------------
(* A recording, and what a call to the recorder makes of it.  A call about *)
(* a span that is not there is where a replay stops with an error.         *)
Empty == [error |-> FALSE, spans |-> {}, lines |-> <<>>,
          attributes |-> [s \in Spans |-> {}],
          provisional |-> [s \in Spans |-> 0], end |-> [s \in Spans |-> 0]]

Knows(r, c) ==
    CASE c.op \in {"request", "flush"} -> TRUE
      [] c.op = "span" -> c.parent \in r.spans
      [] OTHER -> c.span \in r.spans

Receive(r, c) ==
    IF r.error \/ ~Knows(r, c) THEN [r EXCEPT !.error = TRUE] ELSE
    CASE c.op = "request"  -> [r EXCEPT !.spans = @ \cup {"request"}]
      [] c.op = "span"     -> [r EXCEPT !.spans = @ \cup {c.span}]
      [] c.op = "metadata" -> [r EXCEPT !.attributes[c.span] = @ \cup {c.time}]
      [] c.op = "line"     -> [r EXCEPT !.lines = Append(@, c),
                                        !.provisional[c.span] = Larger(@, c.time)]
      [] c.op = "done"     -> LET m == Larger(r.provisional[c.span], c.time) IN
                              [r EXCEPT !.provisional[c.span] = m,
                                        !.end[c.span] = Larger(@, m)]
      [] OTHER             -> r

Recording(calls) == FoldLeft(Receive, Empty, calls)

(* Replay reads the end time of a span when it comes to its done event. *)
RecorderCalls ==
    [i \in DOMAIN output |->
        IF output[i].op = "done"
        THEN [op |-> "done", span |-> output[i].span, time |-> endTime[output[i].span]]
        ELSE output[i]]
=============================================================================
