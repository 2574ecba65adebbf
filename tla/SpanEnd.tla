------------------------------ MODULE SpanEnd -------------------------------
(***************************************************************************)
(* The end time of one span in xoprecorder (and, by the same two calls, in *)
(* xopcon and xopconsole): lines and Done() raise the provisional end      *)
(* time, and Done() then raises EndTime to what that has become.  The      *)
(* maxima are raised by the loop of AtomicMax.                             *)
(***************************************************************************)
EXTENDS Integers

CONSTANTS Callers, Times

ASSUME TimesAssumption == Times \subseteq Nat

VARIABLES
    provisional, raising,  \* provisionalEndTime, and the calls that raise it
    endTime, ending,       \* EndTime, and the calls that raise it
    doing,                 \* per goroutine: "nothing", "line", "done"
    clock,                 \* the latest time that was taken
    written,               \* the time of the latest line that is done with
    owed,                  \* per goroutine in Done(): what EndTime has to cover
    floor                  \* what the calls of Done() that returned have to cover

endVars == <<provisional, raising, endTime, ending, doing, clock, written, owed, floor>>

P == INSTANCE AtomicMax WITH Values <- Times, target <- provisional, loop <- raising
E == INSTANCE AtomicMax WITH Values <- Times, target <- endTime, loop <- ending

Later(a, b) == IF a >= b THEN a ELSE b

EndInit ==
    /\ P!Init /\ E!Init
    /\ doing = [c \in Callers |-> "nothing"]
    /\ clock = 0 /\ written = 0 /\ floor = 0
    /\ owed = [c \in Callers |-> 0]

(* The time was taken some time before: a line's when it was started, that of
   Done() when the Flush() began that calls it. *)
Begin(c, call, t) ==
    /\ doing[c] = "nothing"
    /\ P!Call(c, t)
    /\ clock' = Later(clock, t)
    /\ doing' = [doing EXCEPT ![c] = call]
    /\ owed' = [owed EXCEPT ![c] = Later(t, written)]
    /\ UNCHANGED <<endTime, ending, written, floor>>

Raising(c) ==
    /\ P!Load(c) \/ P!Swap(c)
    /\ UNCHANGED <<endTime, ending, doing, clock, written, owed, floor>>

LineReturns(c) ==
    /\ doing[c] = "line" /\ raising[c].at = "idle"
    /\ doing' = [doing EXCEPT ![c] = "nothing"]
    /\ written' = Later(written, raising[c].value)
    /\ UNCHANGED <<provisional, raising, endTime, ending, clock, owed, floor>>

(* Fault: Done() raises EndTime to its own time. *)
BeginEndAtOwnTime(c) ==
    /\ doing[c] = "done" /\ raising[c].at = "idle"
    /\ E!Call(c, raising[c].value)
    /\ doing' = [doing EXCEPT ![c] = "end"]
    /\ UNCHANGED <<provisional, raising, clock, written, owed, floor>>

BeginEnd(c) ==
    /\ doing[c] = "done" /\ raising[c].at = "idle"
    /\ E!Call(c, raising[c].result)
    /\ doing' = [doing EXCEPT ![c] = "end"]
    /\ UNCHANGED <<provisional, raising, clock, written, owed, floor>>

Ending(c) ==
    /\ E!Load(c) \/ E!Swap(c)
    /\ UNCHANGED <<provisional, raising, doing, clock, written, owed, floor>>

DoneReturns(c) ==
    /\ doing[c] = "end" /\ ending[c].at = "idle"
    /\ doing' = [doing EXCEPT ![c] = "nothing"]
    /\ floor' = Later(floor, owed[c])
    /\ UNCHANGED <<provisional, raising, endTime, ending, clock, written, owed>>

EndStep(c) ==
    \/ Raising(c) \/ LineReturns(c) \/ BeginEnd(c) \/ Ending(c) \/ DoneReturns(c)

EndNext ==
    \E c \in Callers :
        EndStep(c) \/ \E call \in {"line", "done"}, t \in Times : Begin(c, call, t)

EndSpec == EndInit /\ [][EndNext]_endVars

-----------------------------------------------------------------------------
(* When Done() has returned, the end of the span is not before it, nor before
   any line that was finished when it was called, whatever other lines and
   calls of Done() were raising the same two maxima; and it is a time that
   the span has seen. *)
EndCovers == floor <= endTime /\ endTime <= provisional /\ provisional <= clock

(* The end times are raised from each other, by lines and calls of Done() at
   once, and both are still maxima in the sense of Maximum. *)
EndTimesAreMaxima == P!IsMaximum /\ E!IsMaximum
=============================================================================
