----------------------------- MODULE AtomicMax ------------------------------
(***************************************************************************)
(* xoputil.AtomicMaxInt64: a loop that loads the target and, if its value  *)
(* is higher, swaps it in where the target is still what was loaded.  Each *)
(* access to the target is a step.                                         *)
(***************************************************************************)
EXTENDS Integers

CONSTANTS
    Callers,   \* the goroutines
    Values     \* what they offer

VARIABLES
    target,    \* *target
    loop       \* per caller: where it is, value, old, and the last result

vars == <<target, loop>>

Places == {"idle", "load", "swap"}

Calls == [at : Places, value : Int, old : Int, result : Int]

AtomicTypeOK == target \in Int /\ loop \in [Callers -> Calls]

Init ==
    /\ target = 0
    /\ loop = [c \in Callers |-> [at |-> "idle", value |-> 0, old |-> 0, result |-> 0]]

Call(c, v) ==
    /\ loop[c].at = "idle"
    /\ loop' = [loop EXCEPT ![c] = [at |-> "load", value |-> v, old |-> @.old, result |-> @.result]]
    /\ UNCHANGED target

Load(c) ==
    /\ loop[c].at = "load"
    /\ loop' = [loop EXCEPT ![c] =
           IF target >= @.value
           THEN [at |-> "idle", value |-> @.value, old |-> target, result |-> target]
           ELSE [at |-> "swap", value |-> @.value, old |-> target, result |-> @.result]]
    /\ UNCHANGED target

(* Fault: it does not try again when another caller was faster. *)
SwapOnce(c) ==
    /\ loop[c].at = "swap"
    /\ target' = IF target = loop[c].old THEN loop[c].value ELSE target
    /\ loop' = [loop EXCEPT ![c] = [at |-> "idle", value |-> @.value, old |-> @.old, result |-> @.value]]

Swap(c) ==
    /\ loop[c].at = "swap"
    /\ IF target = loop[c].old
       THEN /\ target' = loop[c].value
            /\ loop' = [loop EXCEPT ![c] =
                   [at |-> "idle", value |-> @.value, old |-> @.old, result |-> @.value]]
       ELSE /\ loop' = [loop EXCEPT ![c] =
                   [at |-> "load", value |-> @.value, old |-> @.old, result |-> @.result]]
            /\ UNCHANGED target

Next == \E c \in Callers : Load(c) \/ Swap(c) \/ \E v \in Values : Call(c, v)

Spec == Init /\ [][Next]_vars

-----------------------------------------------------------------------------
(* The call takes effect with the load that finds the target high enough, or
   with the swap that succeeds. *)
Max == INSTANCE Maximum WITH
    calls <- [c \in Callers |-> [open   |-> loop[c].at # "idle",
                                 value  |-> loop[c].value,
                                 result |-> loop[c].result]]

(* Concurrent calls of AtomicMaxInt64 do what calls one after the other
   would: the target ends as the highest value, each call returns what the
   target was at some moment of it, at least its own value. *)
IsMaximum == Max!Spec
=============================================================================
