------------------------------- MODULE Storage -------------------------------
(***************************************************************************)
(* What the base loggers write, and whether the program's spans, lines and *)
(* attributes come back when it is replayed: the recorder, JSON, the       *)
(* console and protobuf, each alone with the same program.                 *)
(***************************************************************************)
EXTENDS Recorder, JsonLogger, ConsoleLogger, PbLogger

storageVars == <<programVars, provisional, spanStarts, tail, pbVars>>

Init ==
    /\ ProgramInit
    /\ RecorderInit /\ ConsoleInit /\ PbInit
    /\ JsonInit /\ (base # "json" => spanStarts)

Next ==
    \/ StartFlush /\ UNCHANGED <<provisional, spanStarts, tail, pbVars>>
    \/ \E p \in Procs :
        \/ base = "recorder" /\ RecorderStep(p) /\ UNCHANGED <<spanStarts, tail, pbVars>>
        \/ base = "json"     /\ JsonStep(p)     /\ UNCHANGED <<provisional, tail, pbVars>>
        \/ base = "console"  /\ ConsoleStep(p)  /\ UNCHANGED <<provisional, spanStarts, pbVars>>
        \/ base = "pb"       /\ PbStep(p)       /\ UNCHANGED <<provisional, spanStarts, tail>>

Spec == Init /\ [][Next]_storageVars

-----------------------------------------------------------------------------
Replayed ==
    Recording(CASE base = "recorder" -> RecorderCalls
                [] base = "json"     -> JsonCalls
                [] base = "console"  -> ConsoleReadCalls
                [] base = "pb"       -> PbCalls)

(* Is the output one that replays at every moment, or has the JSON logger  *)
(* no start records, so that a line can come before its span?              *)
Streaming == base \in {"recorder", "console"} \/ (base = "json" /\ spanStarts)

(* A chunk of protobuf may have lines of a span that no chunk until then   *)
(* has, which makes the replay of the trace fail: only if a flush and      *)
(* another call overlapped.                                                *)
Orphaned ==
    base = "pb" /\ \E i \in DOMAIN output : \E l \in ToSet(output[i].lines) :
        l.span = "child" /\ output[i].children = <<>> /\ SeenBefore(i, "child") = {}

(* If the program ends at any moment, what was written until then replays, *)
(* and every line for which Msg had returned is there, once, in its span.  *)
(* Protobuf writes no line of a span that is not there, or is to be read   *)
(* before, unless a flush and another call overlapped.                     *)
ReadableAnytime ==
    /\ Streaming =>
          LET r == Replayed IN
          /\ ~r.error
          /\ \A l \in lines :
                Cardinality({i \in DOMAIN r.lines : r.lines[i].time = l.time /\ r.lines[i].span = l.span}) = 1
    /\ Orphaned => raced

(* After a flush that nothing overlapped, all that the program did comes   *)
(* back: its spans, their attributes, and every line once in its span.     *)
ReplayComplete ==
    Settled /\ ~Orphaned =>
        LET r == Replayed IN
        /\ ~r.error
        /\ r.spans = open
        /\ r.attributes = attributes
        /\ {[span |-> r.lines[i].span, time |-> r.lines[i].time] : i \in DOMAIN r.lines}
               = {[span |-> l.span, time |-> l.time] : l \in lines}
        /\ Len(r.lines) = Cardinality(lines)

(* The end time that comes back, and the one that the recorder has, is     *)
(* that of the last Done or line.  In JSON it may be earlier for the       *)
(* request, if a flush that another call overlapped wrote it with the time *)
(* at which the flush had begun.                                           *)
Latest(s) == LET ofLines == {l.time : l \in {l \in lines : l.span = s}} IN
             Max({ends[s]} \cup ofLines)

EndTimes ==
    Settled /\ ~Orphaned =>
        LET r == Replayed IN
        \A s \in open :
            /\ r.end[s] = Latest(s) \/ (base = "json" /\ s = "request" /\ raced)
            /\ base = "recorder" => endTime[s] = Latest(s)

(* The prefilled text is prepended in Msg and Template and ignored in      *)
(* Model and Link (sub.go): so do the console and protobuf, and for Msg    *)
(* all do.  A line has its own attributes; the lines of a prefilled logger *)
(* of the console, which share an array, have those of some line.          *)
LineText ==
    Settled /\ ~Orphaned =>
        LET r == Replayed IN
        \A i \in DOMAIN r.lines :
            LET l == r.lines[i] IN
            /\ l.kind = Kind
            /\ (base \in {"console", "pb"} \/ Kind = "msg") =>
                  (l.prefix <=> Prefilled /\ Kind \in {"msg", "template"})
            /\ l.attr = l.time
                  \/ (base = "console" /\ Prefilled /\ \E k \in lines : k.span = l.span /\ k.time = l.attr)

(* "Each time the span is serialized, span.ver is incremented": in the     *)
(* order of the file, where Dones of one span do not overlap.              *)
RecordsIn(e, s) ==
    CASE base = "json"    -> IF e.type = s THEN <<e>> ELSE <<>>
      [] base = "console" -> IF e.record = "v" /\ e.span = s THEN <<e>> ELSE <<>>
      [] base = "pb"      -> IF s = "request" THEN <<e.request>> ELSE e.children
      [] OTHER            -> <<>>

SpanVersionIncremented ==
    (base = "pb" \/ base \notin Overlapping) =>
        \A s \in Spans : \A i, j \in DOMAIN output :
            \A k \in DOMAIN RecordsIn(output[i], s), m \in DOMAIN RecordsIn(output[j], s) :
                (i < j \/ (i = j /\ k < m)) =>
                    RecordsIn(output[i], s)[k].ver < RecordsIn(output[j], s)[m].ver
=============================================================================
