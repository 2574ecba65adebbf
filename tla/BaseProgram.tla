---------------------------- MODULE BaseProgram ----------------------------
(***************************************************************************)
(* What a base logger (xopbase.Logger) sees of one request with one        *)
(* sub-span: goroutines that start the sub-span, write lines, set          *)
(* attributes and call Done, and the flusher, which calls Done on what was *)
(* active and then Flush.  Of the life cycle of the loggers (Lifecycle) it *)
(* keeps the promise: activity puts a span on the list of those that get a *)
(* Done before the next Flush.  The modules of the base loggers extend     *)
(* this one, and take each call through the steps of their own.            *)
(***************************************************************************)
EXTENDS Integers, Sequences, SequencesExt

CONSTANTS
    Users, Flusher,      \* goroutines
    Bases,               \* the base loggers to look at
    Shapes,              \* pairs: the kind of the lines, are they prefilled
    Overlapping,         \* bases for which Dones of one span may overlap
    MaxTime, MaxFlushes  \* bounds: calls and flushes, for each shape; flushes

Procs == Users \cup {Flusher}
Spans == {"request", "child"}

ASSUME BaseProgramAssumption ==
    /\ Bases \subseteq {"recorder", "json", "console", "pb"}
    /\ Shapes \subseteq {"msg", "template", "model", "link"} \X BOOLEAN
    /\ Overlapping \subseteq Bases
    /\ Flusher \notin Users
    /\ MaxTime \in [Shapes -> Nat] /\ MaxFlushes \in Nat

VARIABLES
    base,       \* which base logger this behaviour is about
    shape,      \* of its lines
    clock,      \* every call that takes the time gets another one
    open,       \* spans that the program can use
    active,     \* spans that get a Done before the next Flush
    at, call,   \* where each goroutine is, and in which call
    todo,       \* the spans that are still to be visited
    draft,      \* what a call has put together so far
    attributes, \* per span, the attributes that were set (by their times)
    endTime,    \* per span, the field of the base logger's span
    version,    \* per span, how often it was written
    output,     \* what the base logger has written
    lines, ends,\* history: the lines that were completed, the last Dones
    flushes,    \* history, for the bound
    dirty,      \* something was completed after the last flush began
    raced       \* a flush and another call overlapped

choiceVars  == <<base, shape>>
flowVars    == <<clock, open, active, at, call, todo, lines, ends, flushes, dirty, raced>>
programVars == <<choiceVars, flowVars, draft, attributes, endTime, version, output>>

Larger(a, b) == IF a > b THEN a ELSE b
Nothing      == [op |-> "none", span |-> "request", time |-> 0]
Go(p, pl)    == at' = [at EXCEPT ![p] = pl]
Write(entry) == output' = Append(output, entry)
Kind         == shape[1]
Prefilled    == shape[2]
Busy(p)      == at[p] # "idle"

ProgramInit ==
    /\ base \in Bases /\ shape \in Shapes
    /\ clock = 0 /\ open = {"request"} /\ active = {"request"}
    /\ at = [p \in Procs |-> "idle"] /\ call = [p \in Procs |-> Nothing]
    /\ todo = [p \in Procs |-> <<>>] /\ draft = [p \in Procs |-> <<>>]
    /\ attributes = [s \in Spans |-> {}]
    /\ endTime = [s \in Spans |-> 0] /\ version = [s \in Spans |-> 0]
    /\ lines = {} /\ ends = [s \in Spans |-> 0]
    /\ flushes = 0 /\ dirty = TRUE /\ raced = FALSE

(* A goroutine of the program enters a call about span s. *)
Begin(p, op, s, pl) ==
    /\ p \in Users /\ ~Busy(p) /\ clock < MaxTime[shape]
    /\ clock' = clock + 1
    /\ call' = [call EXCEPT ![p] = [op |-> op, span |-> s, time |-> clock + 1]]
    /\ Go(p, pl)
    /\ raced' = (raced \/ Busy(Flusher))

(* span.Span: the base logger's part comes before the span is registered. *)
Span(p) ==
    /\ "child" \notin open /\ \A q \in Users : at[q] # "register"
    /\ Begin(p, "span", "child", "register")
    /\ UNCHANGED <<choiceVars, open, active, todo, lines, ends, flushes, dirty,
                   draft, attributes, endTime, version>>

Register(p) ==
    /\ at[p] = "register"
    /\ open' = open \cup {"child"} /\ active' = active \cup {"child"}
    /\ dirty' = TRUE
    /\ Go(p, "idle")
    /\ UNCHANGED <<choiceVars, clock, call, todo, lines, ends, flushes, raced,
                   draft, attributes, endTime, version, output>>

(* prefilled.Line with the line's attributes: the line is not written yet. *)
Line(p, s) ==
    /\ s \in open
    /\ Begin(p, "line", s, "send")
    /\ UNCHANGED <<choiceVars, open, active, todo, lines, ends, flushes, dirty,
                   draft, attributes, version, output>>

(* span.MetadataX, up to where the value is stored; pl is what follows. *)
Metadata(p, s, pl) ==
    /\ s \in open
    /\ Begin(p, "metadata", s, pl)
    /\ attributes' = [attributes EXCEPT ![s] = @ \cup {clock'}]
    /\ UNCHANGED <<choiceVars, open, active, todo, lines, ends, flushes, dirty,
                   draft, endTime, version, output>>

(* After the base logger has returned, the activity is noted. *)
Mark(p) ==
    /\ at[p] = "mark"
    /\ active' = active \cup {call[p].span}
    /\ dirty' = TRUE
    /\ lines' = IF call[p].op = "line" THEN lines \cup {call[p]} ELSE lines
    /\ Go(p, "idle")
    /\ UNCHANGED <<choiceVars, clock, open, call, todo, ends, flushes, raced,
                   draft, attributes, endTime, version, output>>

(* logger.Done: the request's is followed by those of its active sub-spans. *)
StartDone(p, s) ==
    /\ s \in open
    /\ Begin(p, "done", s, "visit")
    /\ todo' = [todo EXCEPT ![p] = IF s = "request" THEN <<"request", "child">> ELSE <<s>>]
    /\ UNCHANGED <<choiceVars, open, active, lines, ends, flushes, dirty,
                   draft, attributes, endTime, version, output>>

StartFlush ==
    /\ ~Busy(Flusher) /\ clock < MaxTime[shape] /\ flushes < MaxFlushes
    /\ clock' = clock + 1 /\ flushes' = flushes + 1
    /\ call' = [call EXCEPT ![Flusher] = [op |-> "flush", span |-> "request", time |-> clock + 1]]
    /\ todo' = [todo EXCEPT ![Flusher] = <<"request", "child">>]
    /\ dirty' = FALSE
    /\ raced' = (raced \/ \E q \in Users : Busy(q))
    /\ Go(Flusher, "visit")
    /\ UNCHANGED <<choiceVars, open, active, lines, ends,
                   draft, attributes, endTime, version, output>>

(* The span that the program called Done on, which need not be active. *)
Explicit(p) == call[p].op = "done" /\ call[p].span = Head(todo[p])

InDone(q, s) == todo[q] # <<>> /\ Head(todo[q]) = s /\ draft[q] # <<>>

(* span.Done of the base logger is entered, for the request of a flush     *)
(* with the time at which the flush began, and else with a new one.        *)
Visit(p) ==
    /\ at[p] = "visit" /\ todo[p] # <<>>
    /\ LET s == Head(todo[p])
           t == IF p = Flusher /\ s = "request" THEN call[p].time ELSE clock + 1 IN
       /\ Explicit(p) \/ s \in active
       /\ (base \in Overlapping \/ ~\E q \in Procs : InDone(q, s))
       /\ draft' = [draft EXCEPT ![p] = [span |-> s, time |-> t]]
       /\ clock' = Larger(clock, t)
       /\ active' = active \ {s}
       /\ ends' = [ends EXCEPT ![s] = Larger(@, t)]
    /\ Go(p, "done")
    /\ UNCHANGED <<choiceVars, open, call, todo, lines, flushes, dirty, raced,
                   attributes, endTime, version, output>>

Pass(p) ==
    /\ at[p] = "visit" /\ todo[p] # <<>>
    /\ ~Explicit(p) /\ Head(todo[p]) \notin active
    /\ todo' = [todo EXCEPT ![p] = Tail(@)]
    /\ UNCHANGED <<choiceVars, clock, open, active, at, call, lines, ends, flushes, dirty, raced,
                   draft, attributes, endTime, version, output>>

(* A step of the base logger's Done, and its last one. *)
DoneStep(p, from, to) ==
    /\ at[p] = from /\ Go(p, to)
    /\ UNCHANGED <<choiceVars, clock, open, active, call, todo, lines, ends, flushes, dirty, raced,
                   attributes>>

DoneEnds(p, from) ==
    /\ at[p] = from /\ Go(p, "visit")
    /\ todo' = [todo EXCEPT ![p] = Tail(@)]
    /\ draft' = [draft EXCEPT ![p] = <<>>]
    /\ UNCHANGED <<choiceVars, clock, open, active, call, lines, ends, flushes, dirty, raced,
                   attributes>>

(* Everything is visited: Done returns, and a flush goes on. *)
Visited(p) ==
    /\ at[p] = "visit" /\ todo[p] = <<>>
    /\ Go(p, IF p = Flusher THEN "flush" ELSE "idle")
    /\ dirty' = (dirty \/ p # Flusher)
    /\ UNCHANGED <<choiceVars, clock, open, active, call, todo, lines, ends, flushes, raced,
                   draft, attributes, endTime, version, output>>

(* A step of the base logger's calls in which the program does not change. *)
BaseStep(p, from, to) ==
    /\ at[p] = from /\ Go(p, to)
    /\ UNCHANGED <<choiceVars, clock, open, active, call, todo, lines, ends, flushes, dirty, raced,
                   attributes, endTime>>

ProgramStep(p) ==
    Register(p) \/ Mark(p) \/ (\E s \in Spans : StartDone(p, s)) \/ Visit(p) \/ Pass(p) \/ Visited(p)

-----------------------------------------------------------------------------
(* What a reader calls, one part of the output after the other. *)
AndThen(calls, more) == calls \o more
AllOf(parts)         == FoldLeft(AndThen, <<>>, parts)

(* All calls have returned, and after the last of them there was a flush. *)
Settled == (\A p \in Procs : ~Busy(p)) /\ ~dirty
=============================================================================
