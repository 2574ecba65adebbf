-------------------------------- MODULE Lines -------------------------------
(***************************************************************************)
(* The lines of a program (logger.go:512-698, line.go): a Line comes from  *)
(* the pool of its span, which the loggers of the span share, and goes     *)
(* back when it is sent.  What it carries is one string attribute, of      *)
(* which we follow the redaction.  sync.Pool is external: Get may answer   *)
(* with any element or with none.                                          *)
(***************************************************************************)
EXTENDS Spans

VARIABLES
    lines,   \* the Line objects: whose they are, and what they hold
    sent     \* the lines that reached the bases

linesVars == <<lines, sent>>

Free == "free"   \* in the pool
Gone == "gone"   \* dropped: neither in use nor in the pool

SettingsOf(l) == loggers[l].settings
SpanOf(l) == loggers[l].span

Pooled(l) == {i \in DOMAIN lines : lines[i].holder = Free /\ SpanOf(lines[i].logger) = SpanOf(l)}

(* What logLine puts into a Line, new or not; "starter" is of the model. *)
Started(line, g, l, level) ==
    [line EXCEPT !.holder = g, !.starter = l, !.level = level, !.redacted = "no attribute",
                 !.skip = level < SettingsOf(l).min]

(* Fault: a recycled line keeps the decision to skip it. *)
StartKeepingSkip(g, l, level) ==
    /\ Idle(g) /\ Does("line")
    /\ \A i \in DOMAIN lines : lines[i].holder # g
    /\ \/ \E i \in Pooled(l) :
             lines' = [lines EXCEPT ![i] = [Started(@, g, l, level) EXCEPT !.skip = lines[i].skip]]
       \/ lines' = Append(lines, Started([holder |-> g, logger |-> l, starter |-> l, level |-> level,
                                          skip |-> FALSE, redacted |-> ""], g, l, level))
    /\ UNCHANGED <<heap, fresh, seeds, spans, loggers, trees, baseRequests, superseded, pending, sent>>

(* Only a new Line gets the logger; a recycled one keeps the one it had.  (A
   bound: a goroutine has one line at a time.) *)
StartLine(g, l, level) ==
    /\ Idle(g) /\ Does("line")
    /\ \A i \in DOMAIN lines : lines[i].holder # g
    /\ \/ \E i \in Pooled(l) : lines' = [lines EXCEPT ![i] = Started(@, g, l, level)]
       \/ lines' = Append(lines, Started([holder |-> g, logger |-> l, starter |-> l, level |-> level,
                                          skip |-> FALSE, redacted |-> ""], g, l, level))
    /\ UNCHANGED <<heap, fresh, seeds, spans, loggers, trees, baseRequests, superseded, pending, sent>>

(* Line.String, Stringer, Error, Any: redacted by the logger of the Line. *)
String(g, i) ==
    /\ lines[i].holder = g /\ lines[i].redacted = "no attribute"
    /\ lines' = [lines EXCEPT ![i].redacted = IF lines[i].skip THEN "dropped"
                                              ELSE SettingsOf(lines[i].logger).redact]
    /\ UNCHANGED <<spansVars, sent>>

(* The base line is of the logger that started it, or is the SkipLine. *)
Delivered(i) ==
    IF lines[i].skip THEN sent
    ELSE Append(sent, [starter |-> lines[i].starter, level |-> lines[i].level,
                       redacted |-> lines[i].redacted])

(* Msg, Template, Model, Link: the Line goes back to the pool. *)
Send(g, i) ==
    /\ lines[i].holder = g
    /\ sent' = Delivered(i)
    /\ lines' = [lines EXCEPT ![i].holder = Free]
    /\ UNCHANGED spansVars

(* Msgf on a line to be skipped, or a program that drops its line. *)
Drop(g, i) ==
    /\ lines[i].holder = g
    /\ lines' = [lines EXCEPT ![i].holder = Gone]
    /\ UNCHANGED <<spansVars, sent>>

-----------------------------------------------------------------------------
LinesInit == lines = <<>> /\ sent = <<>>

LinesNext(g) ==
    \/ \E l \in DOMAIN loggers, level \in Program.levels : StartLine(g, l, level)
    \/ \E i \in DOMAIN lines : String(g, i) \/ Send(g, i) \/ Drop(g, i)
=============================================================================
