------------------------------- MODULE Seeds --------------------------------
(***************************************************************************)
(* seed.go, base.go, config.go and the seeds of sub.go: what a seed is,    *)
(* what modifiers and reactive callbacks do to it, what its copies share.  *)
(*                                                                         *)
(* A Seed is passed by value, but its slices are not: a slice is a view,   *)
(* [array, len], of an array on the heap, which other seeds may view too.  *)
(* A world, w, is a heap with one seed in the making: [heap, fresh, seed,  *)
(* called]; fresh counts the random identifiers drawn, called has the      *)
(* callbacks that react() has called.                                      *)
(***************************************************************************)
EXTENDS Integers, Sequences, SequencesExt

CONSTANTS
    Bases,      \* identifiers of base loggers
    Callbacks   \* the modifiers that each SeedReactiveCallback returns

Nil  == "nil"
Zero == 0                    \* an identifier that is not set

(* Identifiers that are drawn are 1, 2, 3, ...; those that come from the
   program, or with a request, are negative. *)
FromProgram(id) == id \in Int /\ id < Zero

NoSlice == [array |-> 1, len |-> 0]
NewHeap == <<<<>>>>           \* the nil slice views its first, empty, array

View(heap, slice) == SubSeq(heap[slice.array], 1, slice.len)

(* append: in place where there is room, else to an array twice as long. *)
Appended(heap, slice, x) ==
    LET room == Len(heap[slice.array]) > slice.len
        spare == IF slice.len = 0 THEN <<>> ELSE [i \in 1..(slice.len - 1) |-> Nil] IN
    IF room
    THEN [heap  |-> [heap EXCEPT ![slice.array][slice.len + 1] = x],
          slice |-> [slice EXCEPT !.len = @ + 1]]
    ELSE [heap  |-> Append(heap, Append(View(heap, slice), x) \o spare),
          slice |-> [array |-> Len(heap) + 1, len |-> slice.len + 1]]

(* make and copy: a new array with just these elements. *)
Fresh(heap, elements) ==
    [heap  |-> Append(heap, elements),
     slice |-> [array |-> Len(heap) + 1, len |-> Len(elements)]]

-----------------------------------------------------------------------------
(* The modifiers. *)

WithBase(w, b) ==
    LET a == Appended(w.heap, w.seed.list, b) IN
    [w EXCEPT !.heap = a.heap, !.seed.list = a.slice, !.seed.added = Append(@, b)]

(* Fault: the list stays as it is. *)
TakeNothing(w, i) ==
    [w EXCEPT !.seed.removed = Append(@, w.heap[w.seed.list.array][i])]

(* It ranges over the list as it was, and swaps and shortens it meanwhile:
   an element put behind the end is met again.  "swapped" is of the model:
   the seed has been through that. *)
TakeOut(w, i) ==
    LET list == w.seed.list
        array == w.heap[list.array] IN
    [w EXCEPT !.seed.removed = Append(@, array[i]),
              !.heap[list.array] =
                  IF i < list.len
                  THEN [@ EXCEPT ![i] = array[list.len], ![list.len] = array[i]]
                  ELSE @,
              !.seed.swapped = @ \/ i < list.len,
              !.seed.list.len = @ - 1]

TakeOutIf(v, e) == IF v.heap[v.seed.list.array][e.index] = e.base THEN TakeOut(v, e.index) ELSE v

WithoutBase(w, b) ==
    FoldLeft(TakeOutIf, w, [i \in 1..w.seed.list.len |-> [index |-> i, base |-> b]])

WithReactive(w, f) ==
    LET a == Appended(w.heap, w.seed.reactive, f) IN
    [w EXCEPT !.heap = a.heap, !.seed.reactive = a.slice]

WithReactiveReplaced(w, f) ==
    [w EXCEPT !.heap[w.seed.reactive.array][w.seed.current] = f]

WithSpan(w, id) ==
    [w EXCEPT !.seed.trace.span = id, !.seed.spanSet = @ \/ w.seed.current = 0]

WithTrace(w, trace) ==
    [w EXCEPT !.seed.trace = trace,
              !.seed.traceSet = @ \/ w.seed.current = 0,
              !.seed.spanSet  = @ \/ w.seed.current = 0]

WithBundle(w, bundle) ==
    WithTrace([w EXCEPT !.seed.parent = bundle.parent], bundle.trace)

WithSettings(w, settings) == [w EXCEPT !.seed.settings = settings]

Modified(w, m) ==
    CASE m.op = "base"     -> WithBase(w, m.arg)
      [] m.op = "without"  -> WithoutBase(w, m.arg)
      [] m.op = "reactive" -> WithReactive(w, m.arg)
      [] m.op = "replaced" -> WithReactiveReplaced(w, m.arg)
      [] m.op = "span"     -> WithSpan(w, m.arg)
      [] m.op = "trace"    -> WithTrace(w, m.arg)
      [] m.op = "bundle"   -> WithBundle(w, m.arg)
      [] m.op = "settings" -> WithSettings(w, m.arg)

ApplyMods(w, mods) == FoldLeft(Modified, w, mods)

(* What modifiers there are, and what they are given. *)
IsPair(t)  == DOMAIN t = {"trace", "span"}
IsTrace(t) == IsPair(t) /\ FromProgram(t.trace) /\ FromProgram(t.span)

IsMod(m) ==
    /\ DOMAIN m = {"op", "arg"}
    /\ \/ m.op \in {"base", "without"} /\ m.arg \in Bases
       \/ m.op = "reactive" /\ m.arg \in DOMAIN Callbacks
       \/ m.op = "replaced" /\ m.arg \in DOMAIN Callbacks \cup {Nil}
       \/ m.op = "span" /\ FromProgram(m.arg)
       \/ m.op = "trace" /\ IsTrace(m.arg)
       \/ m.op = "bundle" /\ {"parent", "trace"} \subseteq DOMAIN m.arg
                         /\ IsPair(m.arg.parent) /\ IsTrace(m.arg.trace)
       \/ m.op = "settings"

AreMods(mods) == mods \in Seq(ToSet(mods)) /\ \A m \in ToSet(mods) : IsMod(m)

ASSUME CallbacksAssumption ==
    Nil \notin DOMAIN Callbacks /\ \A f \in DOMAIN Callbacks : AreMods(Callbacks[f])

-----------------------------------------------------------------------------
(* Seeds made from nothing, from a seed, and from a span. *)

RandomSpan(w) == [w EXCEPT !.fresh = @ + 1, !.seed.trace.span = w.fresh + 1]

NoTrace == [trace |-> Zero, span |-> Zero]

NewSeed(heap, fresh, settings, mods) ==
    ApplyMods([heap   |-> heap, fresh |-> fresh, called |-> <<>>,
               seed   |-> [list |-> NoSlice, added |-> <<>>, removed |-> <<>>,
                           reactive |-> NoSlice, current |-> 0,
                           parent |-> NoTrace, trace |-> NoTrace,
                           traceSet |-> FALSE, spanSet |-> FALSE,
                           code |-> <<>>, settings |-> settings,
                           swapped |-> FALSE, used |-> FALSE]],
              mods)

(* Fault: the copies share the callbacks. *)
CopyShallow(w, keepHistory) ==
    LET l == Fresh(w.heap, View(w.heap, w.seed.list)) IN
    [w EXCEPT !.heap = l.heap, !.seed.list = l.slice,
              !.seed.added   = IF keepHistory THEN @ ELSE <<>>,
              !.seed.removed = IF keepHistory THEN @ ELSE <<>>]

(* Fault: what was added and removed for a span is so again for its children. *)
CopyWithHistory(w, keepHistory) ==
    LET l == Fresh(w.heap, View(w.heap, w.seed.list))
        r == Fresh(l.heap, View(l.heap, w.seed.reactive)) IN
    [w EXCEPT !.heap = r.heap, !.seed.list = l.slice, !.seed.reactive = r.slice]

(* spanSeed.copy, loggers.Copy, seedReactiveCallbacks.Copy *)
CopySpanSeed(w, keepHistory) ==
    LET l == Fresh(w.heap, View(w.heap, w.seed.list))
        r == Fresh(l.heap, View(l.heap, w.seed.reactive)) IN
    [w EXCEPT !.heap = r.heap, !.seed.list = l.slice, !.seed.reactive = r.slice,
              !.seed.added   = IF keepHistory THEN @ ELSE <<>>,
              !.seed.removed = IF keepHistory THEN @ ELSE <<>>]

CopySeed(w, mods) ==
    LET c == CopySpanSeed(w, TRUE) IN
    ApplyMods(IF w.seed.spanSet THEN c ELSE RandomSpan(c), mods)

(* Span.SubSeed: w.seed is the seed of the span, settings those of its logger. *)
SubSeed(w, settings, mods) ==
    LET c == [CopySpanSeed(w, FALSE) EXCEPT !.seed.settings = settings,
                                            !.seed.parent = w.seed.trace] IN
    ApplyMods(IF w.seed.spanSet THEN c ELSE RandomSpan(c), mods)

-----------------------------------------------------------------------------
(* react(): the callbacks, at the moment that a seed sprouts. *)

RebuildSetNonZero(w) ==
    LET t == IF w.seed.trace.trace = Zero
             THEN [w EXCEPT !.fresh = @ + 1, !.seed.trace.trace = w.fresh + 1]
             ELSE w IN
    IF t.seed.trace.span = Zero THEN RandomSpan(t) ELSE t

Turning(w, nilSeen) ==
    [heap |-> w.heap, fresh |-> w.fresh, seed |-> w.seed, called |-> w.called,
     skip |-> FALSE, nilSeen |-> nilSeen]

(* One turn of the loop; "skip" is the second increment of its index, by
   which it jumps over the callback that follows an empty slot. *)
CallBack(v, i) ==
    LET f == v.heap[v.seed.reactive.array][i]
        w == ApplyMods([heap |-> v.heap, fresh |-> v.fresh, called |-> Append(v.called, f),
                        seed |-> [v.seed EXCEPT !.current = i]], Callbacks[f]) IN
    CASE v.skip  -> [v EXCEPT !.skip = FALSE]
      [] ~v.skip /\ f = Nil -> [v EXCEPT !.skip = TRUE, !.nilSeen = TRUE]
      [] OTHER -> Turning(w, v.nilSeen \/ w.heap[w.seed.reactive.array][i] = Nil)

AppendCallback(s, f) == IF f = Nil THEN s ELSE Append(s, f)
Filled(slots) == FoldLeft(AppendCallback, <<>>, slots)

Compacted(w) ==
    LET c == Fresh(w.heap, Filled(View(w.heap, w.seed.reactive))) IN
    [w EXCEPT !.heap = c.heap, !.seed.reactive = c.slice]

World(v) == [heap |-> v.heap, fresh |-> v.fresh, seed |-> v.seed, called |-> v.called]

(* Fault: the overrides of the identifiers stay in force. *)
ReactKeepingSet(w, isRequest) ==
    LET start == IF isRequest /\ ~w.seed.traceSet THEN RebuildSetNonZero(w) ELSE w
        end   == FoldLeft(CallBack, Turning(start, FALSE),
                          [i \in 1..w.seed.reactive.len |-> i])
        done  == [World(end) EXCEPT !.seed.current = 0] IN
    IF end.nilSeen THEN Compacted(done) ELSE done

(* Fault: the callbacks that the callbacks add are called, too. *)
ReactToNew(w, isRequest) ==
    LET start == IF isRequest /\ ~w.seed.traceSet THEN RebuildSetNonZero(w) ELSE w
        clear == [start EXCEPT !.seed.traceSet = FALSE, !.seed.spanSet = FALSE]
        Turn(v, i) == IF i <= v.seed.reactive.len THEN CallBack(v, i) ELSE v
        end   == FoldLeft(Turn, Turning(clear, FALSE),
                          [i \in 1..(w.seed.reactive.len + 1) |-> i])
        done  == [World(end) EXCEPT !.seed.current = 0] IN
    IF end.nilSeen THEN Compacted(done) ELSE done

React(w, isRequest) ==
    LET start == IF isRequest /\ ~w.seed.traceSet THEN RebuildSetNonZero(w) ELSE w
        clear == [start EXCEPT !.seed.traceSet = FALSE, !.seed.spanSet = FALSE]
        end   == FoldLeft(CallBack, Turning(clear, FALSE),
                          [i \in 1..w.seed.reactive.len |-> i])
        done  == [World(end) EXCEPT !.seed.current = 0] IN
    IF end.nilSeen THEN Compacted(done) ELSE done
=============================================================================
