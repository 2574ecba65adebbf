-------------------------------- MODULE Front -------------------------------
(***************************************************************************)
(* The front of the library at work: seeds, spans and base loggers         *)
(* (Spans), lines (Lines), and the end time of a span (SpanEnd).           *)
(***************************************************************************)
EXTENDS Lines, SpanEnd

ASSUME GoroutinesCall == Goroutines = Callers

vars == <<spansVars, linesVars, endVars>>

Init == SpansInit /\ LinesInit /\ EndInit

BeginCall(g, call, t) ==
    /\ Idle(g) /\ Does("end")
    /\ Begin(g, call, t)
    /\ UNCHANGED <<heap, fresh, seeds, spans, loggers, trees, baseRequests, superseded, pending>>

Next ==
    \E g \in Goroutines :
        \/ SpansNext(g) /\ UNCHANGED <<linesVars, endVars>>
        \/ LinesNext(g) /\ UNCHANGED endVars
        \/ \E call \in {"line", "done"}, t \in Times : BeginCall(g, call, t) /\ UNCHANGED linesVars
        \/ EndStep(g) /\ UNCHANGED <<spansVars, linesVars>>

Spec == Init /\ [][Next]_vars

-----------------------------------------------------------------------------
ThenThoseOf(mods, f) == mods \o Callbacks[f]
AllMods(s) == FoldLeft(ThenThoseOf, s.mods, s.called)
Asks(s, op) == {m.arg : m \in {n \in ToSet(AllMods(s)) : n.op = op}}
Overrides(s) == Asks(s, "span") \cup Asks(s, "trace") \cup Asks(s, "bundle") # {}

Children == {i \in DOMAIN spans : spans[i].parent # 0}
Written(s) == {b \in Bases : s.bases[b] # 0}

(* Just as a seed sprouts, each of its callbacks is called, once and in
   order, and none that they add - for a request from a seed that has not
   sprouted before, and for any sub-span.  (A seed that sprouts again shares
   its slots with the first time: where a callback has removed itself, its
   slot is empty and react() jumps over the callback after it.) *)
CallbacksCalled ==
    \A i \in DOMAIN spans :
        \/ spans[i].called = spans[i].origin.callbacks
        \/ spans[i].origin.reused /\ spans[i].parent = 0

(* What a callback does to its place in the list reaches one seed: the copies
   of a seed and the spans made from it keep their callbacks. *)
CallbacksNotShared ==
    [][/\ \A i, j \in DOMAIN seeds :
             /\ View(heap, seeds[i].reactive) # View(heap', seeds'[i].reactive)
             /\ View(heap, seeds[j].reactive) # View(heap', seeds'[j].reactive)
             => i = j
       /\ \A i \in DOMAIN spans :
             View(heap, spans[i].seed.reactive) = View(heap', spans'[i].seed.reactive)]_vars

(* Every base request that a span writes to is flushed: it is in Flushers, or
   lost its place there to a request that another goroutine made for the same
   base between the question and the answer - two forks that add a base at
   once cost the lines of one of them. *)
WritersFlushed ==
    /\ \A i \in DOMAIN spans, b \in Bases :
          spans[i].bases[b] \in {0, trees[spans[i].tree][b]} \cup superseded
    /\ Program.sequential => superseded = {}

(* A sub-span writes where its parent does, except for the bases that were
   added or removed for it or in it - not those for its parent.  An added base
   is left out when it has a request that the parent does not write to.
   (WithoutBase on a base that is not the last of the list takes out another
   one as well, and nothing is promised after that.) *)
BasesAsAsked ==
    \A i \in Children, b \in Bases :
        LET s == spans[i]
            before == spans[s.parent].bases[b] IN
        ~s.seed.swapped =>
            /\ b \notin Asks(s, "base") \cup Asks(s, "without") => s.bases[b] = before
            /\ b \in Asks(s, "without") \ Asks(s, "base") => s.bases[b] = 0
            /\ b \in Asks(s, "base") => s.bases[b] # 0 \/ b \in s.ignored

(* The list of bases in the seed of a span, from which its descendants are
   made and from which the span knows whether it has to be flushed, is the
   list of those it writes to. *)
BasesListed ==
    \A i \in DOMAIN spans :
        LET s == spans[i] IN
        ~s.seed.swapped =>
            /\ \A b \in Bases \ s.ignored :
                  b \in Written(s) <=> b \in ToSet(View(heap, s.seed.list))
            /\ Written(s) \cap BufferedBases # {} => s.buffered

(* No two spans of a request have the same sequence code, however many were
   forked and stepped before. *)
CodesDistinct ==
    \A i, j \in DOMAIN spans :
        i # j /\ spans[i].tree = spans[j].tree => spans[i].seed.code # spans[j].seed.code

(* No two spans have the same identifier, but for requests of one seed that
   has sprouted before, and for identifiers that the program gave; and those
   do not spread to the sub-spans. *)
IdentifiersDistinct ==
    /\ \A i, j \in DOMAIN spans :
          i # j /\ spans[i].seed.trace.span = spans[j].seed.trace.span =>
              \/ FromProgram(spans[i].seed.trace.span)
              \/ spans[i].origin.reused \/ spans[j].origin.reused
    /\ \A i \in Children : FromProgram(spans[i].seed.trace.span) => Overrides(spans[i])

(* Every span has a trace and a span identifier, whatever the seed and the
   headers had; a request that came with the identifiers of a trace, in the
   first kind of header it has, is in that trace, and a sub-span is in the
   trace of its parent and points to it - unless a modifier of its own, or a
   callback, says otherwise. *)
Identified ==
    /\ \A i \in DOMAIN spans :
          LET t == spans[i].seed.trace
              h == spans[i].origin.headers
              used == IF h.b3.is # "none" THEN h.b3
                      ELSE IF h.traceparent.is # "none" THEN h.traceparent ELSE h.xb3 IN
          /\ t.trace # Zero /\ t.span # Zero
          /\ used.is = "ids" /\ used.trace # Zero /\ ~Overrides(spans[i]) =>
                t.trace = used.trace /\ spans[i].seed.parent.trace = used.trace
    /\ \A i \in Children :
          LET s == spans[i]
              p == spans[s.parent].seed.trace IN
          ~Overrides(s) => s.seed.parent = p /\ s.seed.trace.trace = p.trace

-----------------------------------------------------------------------------
(* A Line, recycled or not, works for the span it was started in, though it
   may be with another logger of that span, and reaches the bases if and only if
   its level is not below the minimum of the logger it was started on, whatever
   the recycled Line was before. *)
LinesAsStarted ==
    /\ \A i \in DOMAIN sent : ~(sent[i].level < SettingsOf(sent[i].starter).min)
    /\ \A i \in DOMAIN lines :
          /\ lines[i].skip <=> lines[i].level < SettingsOf(lines[i].starter).min
          /\ lines[i].holder # Gone => SpanOf(lines[i].logger) = SpanOf(lines[i].starter)

(* sub.go:653-654: "SetRedactStringFunc sets a redaction function to be used
   when Line.String() is called"; logger.go:119-120: a sub-logger "can have
   different settings from its parent logger".  A recycled Line redacts as the
   logger that allocated it. *)
RedactedByOwnLogger ==
    \A i \in DOMAIN sent :
        sent[i].redacted \in {"no attribute", SettingsOf(sent[i].starter).redact}
=============================================================================
