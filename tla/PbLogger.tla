------------------------------ MODULE PbLogger ------------------------------
(***************************************************************************)
(* xoppb: nothing is written before Flush, which makes one chunk of the    *)
(* request, of the sub-spans that had a Done since the last Flush, and of  *)
(* the lines since then.  The parts are taken under different locks, one   *)
(* after the other.                                                        *)
(***************************************************************************)
EXTENDS BaseProgram

VARIABLES
    needFlushing, \* the request's: sub-spans that had a Done, in that order
    buffered,     \* lines that wait for a flush
    priorLines    \* how many lines the chunks before this one had

pbVars == <<needFlushing, buffered, priorLines>>

PbInit ==
    /\ needFlushing = <<>> /\ buffered = <<>> /\ priorLines = 0
    /\ base = "pb" => output = <<>>

PbSpan(p) == Span(p) /\ UNCHANGED <<output, pbVars>>

PbLine(p, s) ==
    /\ Line(p, s)
    /\ endTime' = [endTime EXCEPT ![s] = Larger(@, clock')]
    /\ UNCHANGED pbVars

(* Fault: the prefilled message is prepended whatever the kind of the line. *)
PbSendPrefixed(p) ==
    /\ BaseStep(p, "send", "mark")
    /\ buffered' = Append(buffered,
           [op |-> "line", span |-> call[p].span, time |-> call[p].time,
            attr |-> call[p].time, kind |-> Kind, prefix |-> Prefilled])
    /\ UNCHANGED <<draft, version, output, needFlushing, priorLines>>

(* Msg and Template prepend the prefilled message, Model and Link do not. *)
PbSend(p) ==
    /\ BaseStep(p, "send", "mark")
    /\ buffered' = Append(buffered,
           [op |-> "line", span |-> call[p].span, time |-> call[p].time,
            attr |-> call[p].time, kind |-> Kind,
            prefix |-> Prefilled /\ Kind \in {"msg", "template"}])
    /\ UNCHANGED <<draft, version, output, needFlushing, priorLines>>

PbMetadata(p, s) == Metadata(p, s, "mark") /\ UNCHANGED pbVars

PbDone(p) ==
    /\ DoneStep(p, "done", "queue")
    /\ endTime' = [endTime EXCEPT ![draft[p].span] = Larger(@, draft[p].time)]
    /\ UNCHANGED <<draft, version, output, pbVars>>

PbQueue(p) ==
    /\ DoneEnds(p, "queue")
    /\ needFlushing' = IF draft[p].span = "child" THEN Append(needFlushing, "child") ELSE needFlushing
    /\ UNCHANGED <<endTime, version, output, buffered, priorLines>>

(* getProto: the next version of a span, and what it is now. *)
Proto(s) == [span |-> s, ver |-> version[s] + 1, ended |-> endTime[s] # 0, attributes |-> attributes[s]]

(* Flush: getProto of the request; *)
PbProto(p) ==
    /\ BaseStep(p, "flush", "subspans")
    /\ version' = [version EXCEPT !["request"] = @ + 1]
    /\ draft' = [draft EXCEPT ![p] = [request |-> Proto("request"), children |-> <<>>]]
    /\ UNCHANGED <<output, pbVars>>

(* its list of sub-spans is taken, *)
PbTakeSpans(p) ==
    /\ BaseStep(p, "subspans", IF needFlushing = <<>> THEN "lines" ELSE "subproto")
    /\ needFlushing' = <<>>
    /\ UNCHANGED <<draft, version, output, buffered, priorLines>>

(* and getProto of each, once in a flush; *)
PbSubProto(p) ==
    /\ BaseStep(p, "subproto", "lines")
    /\ version' = [version EXCEPT !["child"] = @ + 1]
    /\ draft' = [draft EXCEPT ![p].children = <<Proto("child")>>]
    /\ UNCHANGED <<output, pbVars>>

(* Fault: the lines stay where they were. *)
PbTakeLinesTwice(p) ==
    /\ BaseStep(p, "lines", "chunk")
    /\ draft' = [draft EXCEPT ![p] =
           [request |-> @.request, children |-> @.children, prior |-> priorLines, lines |-> buffered]]
    /\ UNCHANGED <<version, output, needFlushing, priorLines, buffered>>

(* the lines are taken; *)
PbTakeLines(p) ==
    /\ BaseStep(p, "lines", "chunk")
    /\ draft' = [draft EXCEPT ![p] =
           [request |-> @.request, children |-> @.children, prior |-> priorLines, lines |-> buffered]]
    /\ priorLines' = priorLines + Len(buffered)
    /\ buffered' = <<>>
    /\ UNCHANGED <<version, output, needFlushing>>

(* and the chunk is written.  It points to the end times: they are those of *)
(* this moment.                                                            *)
PbWrite(p) ==
    /\ BaseStep(p, "chunk", "idle")
    /\ LET Ended(d) == [span |-> d.span, ver |-> d.ver, attributes |-> d.attributes,
                        ended |-> d.ended, end |-> endTime[d.span]]
           c == draft[p] IN
       Write([request |-> Ended(c.request), children |-> [i \in DOMAIN c.children |-> Ended(c.children[i])],
              prior |-> c.prior, lines |-> c.lines])
    /\ draft' = [draft EXCEPT ![p] = <<>>]
    /\ UNCHANGED <<version, pbVars>>

PbStep(p) ==
    \/ ProgramStep(p) /\ UNCHANGED pbVars
    \/ PbSpan(p) \/ (\E s \in Spans : PbLine(p, s) \/ PbMetadata(p, s))
    \/ PbSend(p) \/ PbDone(p) \/ PbQueue(p)
    \/ PbProto(p) \/ PbTakeSpans(p) \/ PbSubProto(p) \/ PbTakeLines(p) \/ PbWrite(p)

-----------------------------------------------------------------------------
(* Replay: chunk by chunk.  A span that was seen is not started again, and *)
(* one of an older version than was seen is left out, a request with all   *)
(* that is in its chunk.                                                   *)
SeenBefore(i, s) ==
    IF s = "request" THEN {output[j].request.ver : j \in 1 .. i - 1}
    ELSE {c.ver : c \in UNION {ToSet(output[j].children) : j \in 1 .. i - 1}}

Outdated(i, d) == \E v \in SeenBefore(i, d.span) : v > d.ver

PbAttributeCalls(d) ==
    SetToSeq({[op |-> "metadata", span |-> d.span, time |-> t] : t \in d.attributes})
PbDoneCalls(d) == IF d.ended THEN <<[op |-> "done", span |-> d.span, time |-> d.end]>> ELSE <<>>

PbSpanCalls(i, d) ==
    IF Outdated(i, d) THEN <<>>
    ELSE (IF SeenBefore(i, d.span) # {} THEN <<>>
          ELSE <<[op |-> "span", span |-> d.span, parent |-> "request"]>>)
         \o PbAttributeCalls(d) \o PbDoneCalls(d)

PbChunkCalls(i) ==
    LET c == output[i] IN
    IF Outdated(i, c.request) THEN <<>>
    ELSE (IF SeenBefore(i, "request") # {} THEN <<>> ELSE <<[op |-> "request"]>>)
         \o AllOf([k \in DOMAIN c.children |-> PbSpanCalls(i, c.children[k])])
         \o PbAttributeCalls(c.request) \o c.lines \o PbDoneCalls(c.request)

PbCalls == AllOf([i \in DOMAIN output |-> PbChunkCalls(i)])
=============================================================================
