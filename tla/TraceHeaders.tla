---------------------------- MODULE TraceHeaders ----------------------------
(***************************************************************************)
(* xopmiddle: the trace of a request from the headers that came with it.   *)
(* A header is "none", "malformed", "sampled" (a b3 header of that alone)  *)
(* or "ids", with a trace, a span and a parent of which any may be Zero:   *)
(* absent, all zeros, or, in the X-B3 headers, not hexadecimal.            *)
(* A bundle in the making: [parent, trace, fresh].                         *)
(***************************************************************************)
EXTENDS Seeds

IsId(id) == id = Zero \/ FromProgram(id)
HasIds(h) == h.is = "ids" /\ IsId(h.trace) /\ IsId(h.span) /\ IsId(h.parent)

AreHeaders(h) ==
    /\ h.b3.is \in {"none", "malformed", "sampled"} \/ HasIds(h.b3)
    /\ h.traceparent.is \in {"none", "malformed"} \/ HasIds(h.traceparent)
    /\ h.xb3.is = "none" \/ HasIds(h.xb3)

RandomIds(b, trace, span) ==
    LET t == IF trace THEN [b EXCEPT !.fresh = @ + 1, !.trace.trace = b.fresh + 1] ELSE b IN
    IF span THEN [t EXCEPT !.fresh = @ + 1, !.trace.span = t.fresh + 1] ELSE t

SetByParentTraceHeader(b, h) ==
    IF h.is = "malformed" THEN RandomIds([b EXCEPT !.trace = NoTrace], TRUE, TRUE)
    ELSE LET parent == [trace |-> h.trace, span |-> h.span] IN
         RandomIds([b EXCEPT !.parent = parent, !.trace = parent], FALSE, TRUE)

SetByB3Header(b, h) ==
    CASE h.is = "sampled"   -> RandomIds([b EXCEPT !.parent = NoTrace, !.trace = NoTrace], TRUE, TRUE)
      [] h.is = "malformed" -> b
      [] h.is = "ids"       -> [b EXCEPT !.parent = [trace |-> h.trace, span |-> h.parent],
                                         !.trace  = [trace |-> h.trace, span |-> h.span]]

SetByXB3Headers(b, h) ==
    LET t == [b EXCEPT !.trace.trace = h.trace,
                       !.parent = [trace |-> h.trace, span |-> h.parent]] IN
    IF h.span = Zero THEN RandomIds(t, FALSE, TRUE) ELSE [t EXCEPT !.trace.span = h.span]

(* Fault: zeros in a header are taken as identifiers. *)
HeadersAsTheyCome(b, h) ==
    CASE h.b3.is # "none" -> SetByB3Header(b, h.b3)
      [] h.b3.is = "none" /\ h.traceparent.is # "none" -> SetByParentTraceHeader(b, h.traceparent)
      [] h.b3.is = "none" /\ h.traceparent.is = "none" /\ h.xb3.is # "none" -> SetByXB3Headers(b, h.xb3)
      [] OTHER -> b

(* makeChildSpan, up to the seed: the first kind of header that is there. *)
FromHeaders(b, h) ==
    LET s == CASE h.b3.is # "none" -> SetByB3Header(b, h.b3)
               [] h.b3.is = "none" /\ h.traceparent.is # "none" -> SetByParentTraceHeader(b, h.traceparent)
               [] h.b3.is = "none" /\ h.traceparent.is = "none" /\ h.xb3.is # "none" ->
                      SetByXB3Headers(b, h.xb3)
               [] OTHER -> b IN
    RandomIds(s, s.trace.trace = Zero, s.trace.span = Zero)
=============================================================================
