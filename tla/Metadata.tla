------------------------------ MODULE Metadata ------------------------------
(***************************************************************************)
(* What the attributes of a span promise, whichever base logger keeps them *)
(* (xopat.Make): an attribute has one value, the last one that was set;    *)
(* a locked attribute "only keep[s] the first value"; an attribute that is *)
(* multiple keeps "all values if the attribute is given multiple times",   *)
(* and if it is distinct too, "only distinct values".                      *)
(*                                                                         *)
(* Callers set attributes concurrently.  A call takes effect at one        *)
(* moment between its beginning and its end.                               *)
(***************************************************************************)
EXTENDS Sequences

CONSTANTS
    Procs, Keys, Values,
    Multiple, Distinct, Locked, \* the attributes that were made so
    Identity                    \* Identity[k][v]: what has to differ to be distinct

VARIABLES
    kept,    \* the values of each attribute, at most one if it is not multiple
    setting, \* Procs -> the call in progress, <<>> between calls
    taken    \* the callers whose call has had its effect

vars == <<kept, setting, taken>>

(* The values after setting key k, whose values are s, to v. *)
With(s, k, v) ==
    IF k \in Multiple
    THEN IF k \in Distinct /\ \E i \in DOMAIN s : Identity[k][s[i]] = Identity[k][v]
         THEN s ELSE Append(s, v)
    ELSE IF k \in Locked /\ s # <<>> THEN s ELSE <<v>>

Init ==
    /\ kept = [k \in Keys |-> <<>>]
    /\ setting = [p \in Procs |-> <<>>]
    /\ taken = {}

Begin(p, k, v) ==
    /\ setting[p] = <<>>
    /\ setting' = [setting EXCEPT ![p] = <<k, v>>]
    /\ UNCHANGED <<kept, taken>>

Take(p) ==
    /\ setting[p] # <<>> /\ p \notin taken
    /\ kept' = [kept EXCEPT ![setting[p][1]] = With(@, setting[p][1], setting[p][2])]
    /\ taken' = taken \cup {p}
    /\ UNCHANGED setting

End(p) ==
    /\ p \in taken
    /\ setting' = [setting EXCEPT ![p] = <<>>]
    /\ taken' = taken \ {p}
    /\ UNCHANGED kept

Next == \E p \in Procs :
    \/ \E k \in Keys, v \in Values : Begin(p, k, v)
    \/ Take(p)
    \/ End(p)

Spec == Init /\ [][Next]_vars
=============================================================================
