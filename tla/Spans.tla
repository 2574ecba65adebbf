-------------------------------- MODULE Spans -------------------------------
(***************************************************************************)
(* How seeds become requests and spans: Request(), SubSpan(), SubSeed(),   *)
(* Copy() (seed.go), Fork(), Step() (sub.go), request(), Sub.Logger(),     *)
(* newChildLog() (logger.go), startRequests() (basegroup.go), and the      *)
(* HTTP middleware.  A goroutine in newChildLog() asks for the flushers    *)
(* and adds to them under FlusherLock, and calls a base in between: these  *)
(* are steps of their own; the rest touches what only it knows.            *)
(*                                                                         *)
(* The behaviours are those of the programs of some scenario: its initial  *)
(* seeds, the calls it makes and with what modifiers, and how many.        *)
(***************************************************************************)
EXTENDS TraceHeaders, FiniteSets

CONSTANTS
    Goroutines,
    Programs,      \* the programs of each scenario
    BufferedBases  \* the bases whose Buffered() is true

ASSUME ProgramsAssumption ==
    \A s \in DOMAIN Programs :
        /\ \A mods \in Programs[s].seeds \cup Programs[s].mods : AreMods(mods)
        /\ \A headers \in Programs[s].headers : AreHeaders(headers)
        /\ Programs[s].forks \in Nat

VARIABLES
    scenario,
    heap, fresh,   \* see Seeds
    seeds,         \* the seeds that the program holds
    spans,         \* the spans, each with its request (tree) and base spans
    loggers,       \* the loggers: their span and their settings
    trees,         \* per request, shared.Flushers
    baseRequests,  \* how many base requests there are
    superseded,    \* those whose place in Flushers another one took
    pending,       \* per goroutine, the newChildLog() it is in
    ops            \* how many calls the program has made

spansVars == <<scenario, heap, fresh, seeds, spans, loggers, trees,
               baseRequests, superseded, pending, ops>>

Program == Programs[scenario]

NoHeaders == [b3 |-> [is |-> "none"], traceparent |-> [is |-> "none"], xb3 |-> [is |-> "none"]]

None == [todo |-> <<>>, stage |-> "none"]

-----------------------------------------------------------------------------
Does(op) ==
    /\ op \in Program.ops
    /\ ops < Program.limit
    /\ ops' = ops + 1
    /\ UNCHANGED scenario

Idle(g) ==
    /\ pending[g] = None
    /\ Program.sequential => \A h \in Goroutines : pending[h] = None

Of(seed) == [heap |-> heap, fresh |-> fresh, seed |-> seed, called |-> <<>>]

Take(w) == heap' = w.heap /\ fresh' = w.fresh

Copy(g, i, mods) ==
    /\ Idle(g) /\ Does("copy")
    /\ LET w == CopySeed(Of(seeds[i]), mods) IN
       Take(w) /\ seeds' = Append(seeds, w.seed)
    /\ UNCHANGED <<spans, loggers, trees, baseRequests, superseded, pending>>

MakeSubSeed(g, l, mods) ==
    /\ Idle(g) /\ Does("subseed")
    /\ LET w == SubSeed(Of(spans[loggers[l].span].seed), loggers[l].settings, mods) IN
       Take(w) /\ seeds' = Append(seeds, w.seed)
    /\ UNCHANGED <<spans, loggers, trees, baseRequests, superseded, pending>>

-----------------------------------------------------------------------------
BufferedIn(list) == \E i \in DOMAIN list : list[i] \in BufferedBases

(* startRequests: a request from every base, once if it is listed twice. *)
StartRequests(list) ==
    LET once == FoldLeft(LAMBDA s, b : IF b \in ToSet(s) THEN s ELSE Append(s, b), <<>>, list) IN
    [b \in Bases |-> IF b \in ToSet(list) THEN baseRequests + SelectInSeq(once, LAMBDA x : x = b) ELSE 0]

(* Seed.request; forks is what the request has forked before we look.  Of the
   model are the origin of a span (the callbacks of its seed, whether that
   had sprouted before, the headers it came with), and its mods, called and
   ignored: what was asked for it and what became of that. *)
Sprouted(w, origin) ==
    LET c == CopySpanSeed(w, FALSE)
        list == View(c.heap, c.seed.list)
        bases == StartRequests(list) IN
    /\ Take(c)
    /\ trees' = Append(trees, bases)
    /\ baseRequests' = baseRequests + Cardinality(ToSet(list))
    /\ spans' = Append(spans, [tree |-> Len(trees) + 1, parent |-> 0, bases |-> bases,
                               seed |-> [c.seed EXCEPT !.used = FALSE], buffered |-> BufferedIn(list),
                               forks |-> Program.forks, steps |-> 0,
                               mods |-> <<>>, called |-> c.called, ignored |-> {}, origin |-> origin])
    /\ loggers' = Append(loggers, [span |-> Len(spans) + 1, settings |-> c.seed.settings])

Origin(seed, headers) ==
    [callbacks |-> Filled(View(heap, seed.reactive)), reused |-> seed.used, headers |-> headers]

(* Seed.Request and, for a seed that has a trace, Seed.SubSpan. *)
Request(g, i, isRequest) ==
    /\ Idle(g) /\ Does("request")
    /\ isRequest \/ seeds[i].trace.trace # Zero
    /\ Sprouted(React(Of(seeds[i]), isRequest), Origin(seeds[i], NoHeaders))
    /\ seeds' = [seeds EXCEPT ![i].used = TRUE]
    /\ UNCHANGED <<superseded, pending>>

(* Inbound.makeChildSpan, from the seed of the middleware. *)
HandleRequest(g, headers) ==
    /\ Idle(g) /\ Does("http")
    /\ LET b == FromHeaders([parent |-> seeds[1].parent, trace |-> seeds[1].trace, fresh |-> fresh], headers)
           w == [Of(seeds[1]) EXCEPT !.fresh = b.fresh] IN
       Sprouted(React(CopySeed(w, <<[op |-> "bundle", arg |-> b]>>), TRUE),
                Origin(seeds[1], headers))
    /\ UNCHANGED <<seeds, superseded, pending>>

(* Sub().Logger() *)
SubLogger(g, l, settings) ==
    /\ Idle(g) /\ Does("sublogger")
    /\ loggers' = Append(loggers, [loggers[l] EXCEPT !.settings = settings])
    /\ UNCHANGED <<heap, fresh, seeds, spans, trees, baseRequests, superseded, pending>>

-----------------------------------------------------------------------------
(* Fork, Step and newChildLog. *)

Digits(n, radix, first) ==
    LET d[k \in Nat] == IF k < radix THEN <<first + k>>
                        ELSE Append(d[k \div radix], first + (k % radix)) IN
    d[n]

(* A sequence code is a text: its digits are 0..9, its letters 10..35. *)
Dot == 36

(* Fault: forks are numbered as steps are. *)
ForkCodeDecimal(counter) == <<Dot>> \o Digits(counter, 10, 0)

ForkCode(counter) == <<Dot>> \o Digits(counter - 1, 26, 10)
StepCode(counter) == <<Dot>> \o Digits(counter, 10, 0)

ListSpan(s, settings) ==
    /\ spans' = Append(spans, s)
    /\ loggers' = Append(loggers, [span |-> Len(spans) + 1, settings |-> settings])

(* The seed of the child, before react(). *)
ChildSeed(l, op, mods, settings) ==
    LET s == spans[loggers[l].span]
        w == SubSeed(Of(s.seed), loggers[l].settings, mods)
        code == IF op = "fork" THEN ForkCode(s.forks + 1) ELSE StepCode(s.steps + 1) IN
    [w EXCEPT !.seed.code = @ \o code, !.seed.settings = settings]

(* The counters are atomic: no two goroutines get one number. *)
NewChildLog(g, l, op, mods, settings) ==
    /\ Idle(g) /\ Does(op)
    /\ LET p == loggers[l].span
           bud == ChildSeed(l, op, mods, settings)
           w == React(bud, FALSE)
           counted == [spans EXCEPT ![p].forks = IF op = "fork" THEN @ + 1 ELSE @,
                                    ![p].steps = IF op = "step" THEN @ + 1 ELSE @]
           child == [spans[p] EXCEPT !.parent = p, !.seed = w.seed, !.forks = 0, !.steps = 0,
                                     !.mods = mods, !.called = w.called,
                                     !.origin = [callbacks |-> View(bud.heap, bud.seed.reactive),
                                                 reused |-> FALSE, headers |-> NoHeaders],
                                     !.bases = [b \in Bases |-> IF b \in ToSet(w.seed.removed) THEN 0 ELSE @[b]]] IN
       /\ Take(w)
       /\ IF w.seed.added = <<>> /\ w.seed.removed = <<>>
          THEN /\ spans' = Append(counted, child)
               /\ loggers' = Append(loggers, [span |-> Len(spans) + 1, settings |-> w.seed.settings])
               /\ UNCHANGED pending
          ELSE /\ pending' = [pending EXCEPT ![g] =
                      [stage |-> "ask", todo |-> w.seed.added, span |-> child]]
               /\ spans' = counted
               /\ UNCHANGED loggers
    /\ UNCHANGED <<seeds, trees, baseRequests, superseded>>

Asked(g) == Head(pending[g].todo)

(* Fault: it does not ask for the flushers. *)
AskSpansOnly(g) ==
    /\ pending[g].stage = "ask" /\ pending[g].todo # <<>>
    /\ LET b == Asked(g) s == pending[g].span IN
       IF s.bases[b] # 0
       THEN /\ pending' = [pending EXCEPT ![g].todo = Tail(@)]
            /\ UNCHANGED baseRequests
       ELSE /\ baseRequests' = baseRequests + 1
            /\ pending' = [pending EXCEPT ![g].stage = "add", ![g].span.bases[b] = baseRequests + 1]
    /\ UNCHANGED <<scenario, heap, fresh, seeds, spans, loggers, trees, superseded, ops>>

(* An added base: is it in the span or in Flushers?  Else it gets a request. *)
AskFlushers(g) ==
    /\ pending[g].stage = "ask" /\ pending[g].todo # <<>>
    /\ LET b == Asked(g) s == pending[g].span IN
       IF s.bases[b] # 0 \/ trees[s.tree][b] # 0
       THEN /\ pending' = [pending EXCEPT ![g].todo = Tail(@),
                                          ![g].span.ignored = IF s.bases[b] # 0 THEN @ ELSE @ \cup {b}]
            /\ UNCHANGED baseRequests
       ELSE /\ baseRequests' = baseRequests + 1
            /\ pending' = [pending EXCEPT ![g].stage = "add", ![g].span.bases[b] = baseRequests + 1]
    /\ UNCHANGED <<scenario, heap, fresh, seeds, spans, loggers, trees, superseded, ops>>

AddFlusher(g) ==
    /\ pending[g].stage = "add"
    /\ LET b == Asked(g) s == pending[g].span IN
       /\ trees' = [trees EXCEPT ![s.tree][b] = s.bases[b]]
       /\ superseded' = superseded \cup ({trees[s.tree][b]} \ {0})
    /\ pending' = [pending EXCEPT ![g].stage = "ask", ![g].todo = Tail(@)]
    /\ UNCHANGED <<scenario, heap, fresh, seeds, spans, loggers, baseRequests, ops>>

ChildReady(g) ==
    /\ pending[g].stage = "ask" /\ pending[g].todo = <<>>
    /\ LET s == pending[g].span IN
       ListSpan([s EXCEPT !.buffered = BufferedIn(View(heap, s.seed.list))], s.seed.settings)
    /\ pending' = [pending EXCEPT ![g] = None]
    /\ UNCHANGED <<scenario, heap, fresh, seeds, trees, baseRequests, superseded, ops>>

-----------------------------------------------------------------------------
SpansInit ==
    /\ scenario \in DOMAIN Programs
    /\ \E mods \in Program.seeds :
          LET w == NewSeed(NewHeap, 0, Program.settings, mods) IN
          heap = w.heap /\ fresh = w.fresh /\ seeds = <<w.seed>>
    /\ spans = <<>> /\ loggers = <<>> /\ trees = <<>>
    /\ baseRequests = 0 /\ superseded = {}
    /\ pending = [g \in Goroutines |-> None]
    /\ ops = 0

SpansNext(g) ==
    \/ \E i \in DOMAIN seeds, mods \in Program.mods : Copy(g, i, mods)
    \/ \E i \in DOMAIN seeds, isRequest \in BOOLEAN : Request(g, i, isRequest)
    \/ \E l \in DOMAIN loggers, mods \in Program.mods : MakeSubSeed(g, l, mods)
    \/ \E headers \in Program.headers : HandleRequest(g, headers)
    \/ \E l \in DOMAIN loggers, settings \in Program.others : SubLogger(g, l, settings)
    \/ \E l \in DOMAIN loggers, op \in {"fork", "step"}, mods \in Program.mods,
          settings \in Program.others : NewChildLog(g, l, op, mods, settings)
    \/ AskFlushers(g) \/ AddFlusher(g) \/ ChildReady(g)
=============================================================================
