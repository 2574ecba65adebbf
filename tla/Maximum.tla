------------------------------ MODULE Maximum -------------------------------
(***************************************************************************)
(* What a maximum promises that several goroutines raise at once: a call   *)
(* raises the target to its value, or leaves it when it is higher, at one  *)
(* moment between call and return, and returns what the target is then.    *)
(* This is how the base loggers are modelled to keep their end times.      *)
(***************************************************************************)
EXTENDS Integers

CONSTANTS
    Callers,   \* the goroutines
    Values     \* what they offer

VARIABLES
    target,    \* the maximum
    calls      \* per caller: whether a call is open, its value, the last result

vars == <<target, calls>>

Higher(a, b) == IF a >= b THEN a ELSE b

Init ==
    /\ target = 0
    /\ calls = [c \in Callers |-> [open |-> FALSE, value |-> 0, result |-> 0]]

Call(c, v) ==
    /\ ~calls[c].open
    /\ calls' = [calls EXCEPT ![c] = [open |-> TRUE, value |-> v, result |-> @.result]]
    /\ UNCHANGED target

Raise(c) ==
    /\ calls[c].open
    /\ target' = Higher(target, calls[c].value)
    /\ calls' = [calls EXCEPT ![c] = [open |-> FALSE, value |-> @.value, result |-> target']]

Next == \E c \in Callers : Raise(c) \/ \E v \in Values : Call(c, v)

Spec == Init /\ [][Next]_vars
=============================================================================
