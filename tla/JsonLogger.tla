----------------------------- MODULE JsonLogger -----------------------------
(***************************************************************************)
(* xopjson: a file of records of spans and lines, each one a line of JSON. *)
(* A span is written again at every Done, with a version; a reader takes   *)
(* the last record of each span, wherever in the file it is.               *)
(***************************************************************************)
EXTENDS BaseProgram

VARIABLE spanStarts \* the option WithSpanStarts

(* The record at the start of a span has no duration and no attributes. *)
JsonStart(s) == [type |-> s, ver |-> 0, ended |-> FALSE, end |-> 0, attributes |-> {}]
StartCount   == IF spanStarts THEN 1 ELSE 0

JsonInit ==
    /\ spanStarts \in BOOLEAN
    /\ base = "json" => output = IF spanStarts THEN <<JsonStart("request")>> ELSE <<>>

(* serializationCount, which the start record increments. *)
Count(s) == version[s] + StartCount

JsonSpan(p) ==
    /\ Span(p)
    /\ IF spanStarts THEN Write(JsonStart("child")) ELSE UNCHANGED output
    /\ UNCHANGED spanStarts

JsonLine(p, s) ==
    /\ Line(p, s)
    /\ endTime' = [endTime EXCEPT ![s] = clock']
    /\ UNCHANGED spanStarts

(* Template leaves the prefilled message out, Model and Link do not. *)
JsonSend(p) ==
    /\ BaseStep(p, "send", "mark")
    /\ Write([type |-> "line", span |-> call[p].span, time |-> call[p].time,
              attr |-> call[p].time, kind |-> Kind,
              prefix |-> Prefilled /\ Kind # "template"])
    /\ UNCHANGED <<draft, version, spanStarts>>

JsonMetadata(p, s) == Metadata(p, s, "mark") /\ UNCHANGED spanStarts

JsonDone(p) ==
    /\ DoneStep(p, "done", "number")
    /\ endTime' = [endTime EXCEPT ![draft[p].span] = draft[p].time]
    /\ UNCHANGED <<draft, version, output, spanStarts>>

(* flushAttributes: span.ver is put into the record first; *)
JsonNumber(p) ==
    /\ DoneStep(p, "number", "fill")
    /\ draft' = [draft EXCEPT ![p] =
           [type |-> @.span, span |-> @.span, ver |-> Count(@.span)]]
    /\ UNCHANGED <<endTime, version, output, spanStarts>>

(* Fault: the count is not incremented. *)
JsonFillUncounted(p) ==
    /\ DoneStep(p, "fill", "write")
    /\ LET s == draft[p].span IN
       draft' = [draft EXCEPT ![p] =
              [type |-> s, span |-> s, ver |-> @.ver, ended |-> TRUE,
               end |-> endTime[s], attributes |-> attributes[s]]]
    /\ UNCHANGED <<endTime, version, output, spanStarts>>

(* the count is incremented without a lock, where an increment in between  *)
(* may get lost, and the duration and the attributes follow;               *)
JsonFill(p) ==
    /\ DoneStep(p, "fill", "write")
    /\ LET s == draft[p].span IN
       /\ draft' = [draft EXCEPT ![p] =
              [type |-> s, span |-> s, ver |-> @.ver, ended |-> TRUE,
               end |-> endTime[s], attributes |-> attributes[s]]]
       /\ \E v \in {Count(s), draft[p].ver} :
              version' = [version EXCEPT ![s] = v + 1 - StartCount]
    /\ UNCHANGED <<endTime, output, spanStarts>>

(* and the record is written. *)
JsonWrite(p) ==
    /\ DoneEnds(p, "write")
    /\ Write(draft[p])
    /\ UNCHANGED <<endTime, version, spanStarts>>

JsonFlush(p) ==
    /\ BaseStep(p, "flush", "idle")
    /\ UNCHANGED <<draft, version, output, spanStarts>>

JsonStep(p) ==
    \/ ProgramStep(p) /\ UNCHANGED spanStarts
    \/ JsonSpan(p) \/ (\E s \in Spans : JsonLine(p, s) \/ JsonMetadata(p, s))
    \/ JsonSend(p) \/ JsonDone(p) \/ JsonNumber(p) \/ JsonFill(p) \/ JsonWrite(p) \/ JsonFlush(p)

-----------------------------------------------------------------------------
RecordsOf(s) == {i \in DOMAIN output : output[i].type = s}
LastOf(s)    == output[Max(RecordsOf(s))]
Written(s)   == RecordsOf(s) # {}

(* ReplayFromStrings: the request with its attributes, its sub-spans, each *)
(* finished at once, the lines, and at the end the request's Done.         *)
JsonAttributeCalls(s) ==
    SetToSeq({[op |-> "metadata", span |-> s, time |-> t] : t \in LastOf(s).attributes})

JsonDoneCalls(s) ==
    IF LastOf(s).ended THEN <<[op |-> "done", span |-> s, time |-> LastOf(s).end]>> ELSE <<>>

JsonSpanCalls ==
    IF ~Written("child") THEN <<>>
    ELSE <<[op |-> "span", span |-> "child", parent |-> "request"]>>
         \o JsonAttributeCalls("child") \o JsonDoneCalls("child")

JsonLineCall(e) ==
    IF e.type # "line" THEN <<>>
    ELSE <<[op |-> "line", span |-> e.span, time |-> e.time,
            attr |-> e.attr, kind |-> e.kind, prefix |-> e.prefix]>>
JsonLineCalls == AllOf([i \in DOMAIN output |-> JsonLineCall(output[i])])

JsonCalls ==
    IF ~Written("request") THEN JsonSpanCalls \o JsonLineCalls
    ELSE <<[op |-> "request"]>> \o JsonAttributeCalls("request") \o JsonSpanCalls
         \o JsonLineCalls \o JsonDoneCalls("request")
=============================================================================
