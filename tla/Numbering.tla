----------------------------- MODULE Numbering -----------------------------
(***************************************************************************)
(* What xoputil.RequestCounter promises the base loggers that share it:    *)
(* traces are numbered 1, 2, 3, ... as they are first seen, the requests   *)
(* of a trace are numbered 1, 2, 3, ... within it, everyone is told the    *)
(* same numbers, and at most one caller is told that a request is new.     *)
(***************************************************************************)
EXTENDS Integers

CONSTANTS Procs, Traces, Spans,
          NoSpan, \* stands for the span where a trace itself is numbered
          All     \* names the counter of traces

(* What is numbered: traces, as <<t, NoSpan>>, and requests, as <<t, s>>.  *)
Keys         == Traces \X (Spans \cup {NoSpan})
TraceKey(t)  == <<t, NoSpan>>
Counters     == Traces \cup {All}
CounterOf(k) == IF k[2] = NoSpan THEN All ELSE k[1]

Calls   == [trace : Traces, span : Spans]
Answers == [trace : Nat, request : Nat, isNew : BOOLEAN]
NoAnswer == [trace |-> 0, request |-> 0, isNew |-> FALSE]

VARIABLES
    busy,     \* goroutines inside GetNumber
    call,     \* the last call of each goroutine
    answer,   \* what it returned, no numbers while it has not
    count,    \* how many numbers each counter gave out
    assigned, \* the number of each key, 0 while it has none
    told      \* the requests that some caller was told are new

vars == <<busy, call, answer, count, assigned, told>>

RequestKey(c) == <<c.trace, c.span>>

Init ==
    /\ busy = {}
    /\ \E c \in Calls : call = [p \in Procs |-> c]
    /\ answer = [p \in Procs |-> NoAnswer]
    /\ count = [c \in Counters |-> 0]
    /\ assigned = [k \in Keys |-> 0]
    /\ told = {}

Ask(p, c) ==
    /\ p \notin busy
    /\ busy' = busy \cup {p}
    /\ call' = [call EXCEPT ![p] = c]
    /\ answer' = [answer EXCEPT ![p] = NoAnswer]
    /\ UNCHANGED <<count, assigned, told>>

(* Only what somebody asked for is numbered, the trace first. *)
Assign(p, k) ==
    /\ p \in busy /\ assigned[k] = 0
    /\ \/ k = TraceKey(call[p].trace)
       \/ k = RequestKey(call[p]) /\ assigned[TraceKey(call[p].trace)] # 0
    /\ count' = [count EXCEPT ![CounterOf(k)] = @ + 1]
    /\ assigned' = [assigned EXCEPT ![k] = count[CounterOf(k)] + 1]
    /\ UNCHANGED <<busy, call, answer, told>>

Answer(p, isNew) ==
    LET r == RequestKey(call[p])
        t == TraceKey(call[p].trace) IN
      /\ p \in busy /\ assigned[t] # 0 /\ assigned[r] # 0
      /\ isNew => r \notin told
      /\ busy' = busy \ {p}
      /\ answer' = [answer EXCEPT ![p] = [trace |-> assigned[t], request |-> assigned[r],
                                          isNew |-> isNew]]
      /\ told' = IF isNew THEN told \cup {r} ELSE told
      /\ UNCHANGED <<call, count, assigned>>

Next == \E p \in Procs :
    \/ \E c \in Calls : Ask(p, c)
    \/ \E k \in Keys : Assign(p, k)
    \/ \E isNew \in BOOLEAN : Answer(p, isNew)

Spec == Init /\ [][Next]_vars
=============================================================================
