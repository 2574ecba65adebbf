-------------------------- MODULE AtomicMaxProofs ---------------------------
(* Theorems about AtomicMax, for any number of callers and any integers. *)
EXTENDS AtomicMax, TLAPS

(* A caller that is about to swap has loaded less than it has to offer, and
   the target has not fallen since. *)
SwapRaises == \A c \in Callers : loop[c].at = "swap" => loop[c].old < loop[c].value /\ loop[c].old <= target

(* What a call of AtomicMaxInt64 returned is at least what it offered, and
   the target is never below it again: no other call loses it. *)
ResultsKept == \A c \in Callers :
    /\ loop[c].result <= target
    /\ loop[c].at = "idle" => loop[c].value <= loop[c].result

MaxInv == AtomicTypeOK /\ SwapRaises /\ ResultsKept

(* The loop of AtomicMaxInt64 begins in a state of the invariant. *)
LEMMA MaxInvInit == Init => MaxInv
BY DEF Init, MaxInv, AtomicTypeOK, SwapRaises, ResultsKept, Calls, Places

(* Each access of AtomicMaxInt64 to its target keeps the invariant. *)
LEMMA MaxInvStep ==
    ASSUME Values \subseteq Int, MaxInv, [Next]_vars
    PROVE  MaxInv'
<1>1. CASE UNCHANGED vars
  BY <1>1 DEF MaxInv, AtomicTypeOK, SwapRaises, ResultsKept, vars
<1>2. ASSUME NEW c \in Callers, Load(c) PROVE MaxInv'
  <2>1. AtomicTypeOK'
    BY <1>2 DEF MaxInv, AtomicTypeOK, Load, Calls, Places
  <2>2. SwapRaises'
    BY <1>2 DEF MaxInv, AtomicTypeOK, SwapRaises, Load, Calls, Places
  <2>3. ResultsKept'
    BY <1>2 DEF MaxInv, AtomicTypeOK, ResultsKept, Load, Calls, Places
  <2> QED BY <2>1, <2>2, <2>3 DEF MaxInv
<1>3. ASSUME NEW c \in Callers, Swap(c) PROVE MaxInv'
  <2>1. AtomicTypeOK'
    BY <1>3 DEF MaxInv, AtomicTypeOK, Swap, Calls, Places
  <2>2. target <= target'
    BY <1>3 DEF MaxInv, AtomicTypeOK, SwapRaises, Swap, Calls
  <2>3. SwapRaises'
    BY <1>3, <2>1, <2>2 DEF MaxInv, AtomicTypeOK, SwapRaises, Swap, Calls, Places
  <2>4. ResultsKept'
    BY <1>3, <2>1, <2>2 DEF MaxInv, AtomicTypeOK, SwapRaises, ResultsKept, Swap, Calls, Places
  <2> QED BY <2>1, <2>3, <2>4 DEF MaxInv
<1>4. ASSUME NEW c \in Callers, NEW v \in Values, Call(c, v) PROVE MaxInv'
  BY <1>4 DEF MaxInv, AtomicTypeOK, SwapRaises, ResultsKept, Call, Calls, Places
<1> QED BY <1>1, <1>2, <1>3, <1>4 DEF Next

(* The invariant holds of every use of AtomicMaxInt64. *)
THEOREM AtomicMaxInvariant ==
    ASSUME Values \subseteq Int
    PROVE  Spec => []MaxInv
<1>1. MaxInv /\ [Next]_vars => MaxInv'
  BY MaxInvStep
<1> QED BY <1>1, MaxInvInit, PTL DEF Spec

(* What AtomicMaxInt64 returned is never lost again. *)
THEOREM AtomicMaxKeeps ==
    ASSUME Values \subseteq Int
    PROVE  Spec => []ResultsKept
<1>1. MaxInv => ResultsKept
  BY DEF MaxInv
<1> QED BY <1>1, AtomicMaxInvariant, PTL

-----------------------------------------------------------------------------
(* Every access of AtomicMaxInt64 to its target is a step of the abstract
   maximum, or changes nothing there. *)
LEMMA MaxStep ==
    ASSUME Values \subseteq Int, MaxInv, [Next]_vars
    PROVE  [Max!Next]_(Max!vars)
<1>1. CASE UNCHANGED vars
  BY <1>1 DEF vars, Max!vars
<1>2. ASSUME NEW c \in Callers, Load(c) PROVE [Max!Next]_(Max!vars)
  <2>1. CASE target >= loop[c].value
    <3>1. Max!Raise(c)
      BY <1>2, <2>1 DEF MaxInv, AtomicTypeOK, Load, Calls, Places, Max!Raise, Max!Higher
    <3> QED BY <3>1 DEF Max!Next
  <2>2. CASE ~(target >= loop[c].value)
    BY <1>2, <2>2 DEF MaxInv, AtomicTypeOK, Load, Calls, Places, Max!vars
  <2> QED BY <2>1, <2>2
<1>3. ASSUME NEW c \in Callers, Swap(c) PROVE [Max!Next]_(Max!vars)
  <2>1. CASE target = loop[c].old
    <3>1. target < loop[c].value
      BY <1>3, <2>1 DEF MaxInv, SwapRaises, Swap
    <3>2. target' = loop[c].value /\ target' = Max!Higher(target, loop[c].value)
      BY <1>3, <2>1, <3>1 DEF MaxInv, AtomicTypeOK, Swap, Calls, Max!Higher
    <3>3. loop' = [loop EXCEPT ![c] = [at |-> "idle", value |-> loop[c].value,
                                       old |-> loop[c].old, result |-> loop[c].value]]
      BY <1>3, <2>1 DEF Swap
    <3>4. Max!Raise(c)
      BY <1>3, <3>2, <3>3 DEF MaxInv, AtomicTypeOK, Swap, Max!Raise
    <3> QED BY <3>4 DEF Max!Next
  <2>2. CASE target # loop[c].old
    BY <1>3, <2>2 DEF MaxInv, AtomicTypeOK, Swap, Calls, Places, Max!vars
  <2> QED BY <2>1, <2>2
<1>4. ASSUME NEW c \in Callers, NEW v \in Values, Call(c, v) PROVE [Max!Next]_(Max!vars)
  <2>1. Max!Call(c, v)
    BY <1>4 DEF MaxInv, AtomicTypeOK, Call, Calls, Places, Max!Call
  <2> QED BY <2>1 DEF Max!Next
<1> QED BY <1>1, <1>2, <1>3, <1>4 DEF Next

(* AtomicMaxInt64, called by any goroutines at once, does what calls one after
   the other would do. *)
THEOREM AtomicMaxImplements ==
    ASSUME Values \subseteq Int
    PROVE  Spec => IsMaximum
<1>1. Init => Max!Init
  <2> SUFFICES ASSUME Init PROVE Max!Init
    OBVIOUS
  <2>1. \A c \in Callers : loop[c].at = "idle" /\ loop[c].value = 0 /\ loop[c].result = 0
    BY DEF Init
  <2> QED BY <2>1 DEF Init, Max!Init
<1>2. MaxInv /\ [Next]_vars => [Max!Next]_(Max!vars)
  BY MaxStep
<1> QED BY <1>1, <1>2, AtomicMaxInvariant, PTL DEF Spec, IsMaximum, Max!Spec
=============================================================================
