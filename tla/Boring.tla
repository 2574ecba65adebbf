------------------------------- MODULE Boring -------------------------------
(***************************************************************************)
(* Which spans the base loggers believe to be boring: logger.go, Boring()  *)
(* and notBoring().  Boring() says that the request is boring unless it    *)
(* had an error; the first error of a span says that the span is not, and  *)
(* the first of the request that the request is not.  No lock orders what  *)
(* they tell the base: every action is one atomic operation or one call.   *)
(***************************************************************************)
EXTENDS Integers

CONSTANTS
    Procs,
    Spans,    \* spans of one request, the request's own among them
    Request,
    MaxCalls  \* bound: calls of Boring(), Error() and Alert()

ASSUME BoringAssumption == Request \in Spans /\ MaxCalls \in Nat

VARIABLES
    at,       \* where each goroutine is in Boring() or notBoring()
    on,       \* the span whose logger it was called on
    boring,   \* span.boring: 0 = boring
    told,     \* what the base was last told of each span: TRUE is boring
    calls     \* calls so far

vars == <<at, on, boring, told, calls>>

Places == {"idle", "loadRequest", "tellBoring", "reload", "tellNot",
           "addSpan", "tellSpan", "addRequest", "tellRequest"}

Go(p, pl)  == at' = [at EXCEPT ![p] = pl]

(* newChildLog tells the base that the new span is boring; the request     *)
(* starts without being called either.                                     *)
Init ==
    /\ at = [p \in Procs |-> "idle"] /\ on = [p \in Procs |-> Request]
    /\ boring = [s \in Spans |-> 0]
    /\ told = [s \in Spans |-> s # Request]
    /\ calls = 0

Call(p, s, pl) ==
    /\ at[p] = "idle" /\ calls < MaxCalls
    /\ calls' = calls + 1
    /\ on' = [on EXCEPT ![p] = s]
    /\ Go(p, pl)
    /\ UNCHANGED <<boring, told>>

(* Boring() is about the request, whichever logger it is called on. *)
CallBoring(p) == Call(p, Request, "loadRequest")
CallError(p)  == \E s \in Spans : Call(p, s, "addSpan")

LoadRequest(p) ==
    /\ at[p] = "loadRequest"
    /\ Go(p, IF boring[Request] # 0 THEN "idle" ELSE "tellBoring")
    /\ UNCHANGED <<on, boring, told, calls>>

TellBoring(p) ==
    /\ at[p] = "tellBoring"
    /\ told' = [told EXCEPT ![Request] = TRUE]
    /\ Go(p, "reload")
    /\ UNCHANGED <<on, boring, calls>>

(* Fault: whether there was an error meanwhile is not looked at. *)
ReloadSkipped(p) ==
    /\ at[p] = "reload"
    /\ Go(p, "idle")
    /\ UNCHANGED <<on, boring, told, calls>>

(* "There is chance that in the time we were sending that boring=true, the *)
(* request became un-boring."                                              *)
Reload(p) ==
    /\ at[p] = "reload"
    /\ Go(p, IF boring[Request] # 0 THEN "tellNot" ELSE "idle")
    /\ UNCHANGED <<on, boring, told, calls>>

TellNot(p) ==
    /\ at[p] = "tellNot"
    /\ told' = [told EXCEPT ![Request] = FALSE]
    /\ Go(p, "idle")
    /\ UNCHANGED <<on, boring, calls>>

(* notBoring(); on the request's own logger the request is counted twice,  *)
(* and told once.                                                          *)
AddSpan(p) ==
    /\ at[p] = "addSpan"
    /\ boring' = [boring EXCEPT ![on[p]] = @ + 1]
    /\ Go(p, IF boring[on[p]] = 0 THEN "tellSpan" ELSE "idle")
    /\ UNCHANGED <<on, told, calls>>

(* Fault: the request is not counted. *)
TellSpanOnly(p) ==
    /\ at[p] = "tellSpan"
    /\ told' = [told EXCEPT ![on[p]] = FALSE]
    /\ Go(p, "idle")
    /\ UNCHANGED <<on, boring, calls>>

TellSpan(p) ==
    /\ at[p] = "tellSpan"
    /\ told' = [told EXCEPT ![on[p]] = FALSE]
    /\ Go(p, "addRequest")
    /\ UNCHANGED <<on, boring, calls>>

AddRequest(p) ==
    /\ at[p] = "addRequest"
    /\ boring' = [boring EXCEPT ![Request] = @ + 1]
    /\ Go(p, IF boring[Request] = 0 THEN "tellRequest" ELSE "idle")
    /\ UNCHANGED <<on, told, calls>>

TellRequest(p) ==
    /\ at[p] = "tellRequest"
    /\ told' = [told EXCEPT ![Request] = FALSE]
    /\ Go(p, "idle")
    /\ UNCHANGED <<on, boring, calls>>

Step(p) ==
    \/ LoadRequest(p) \/ TellBoring(p) \/ Reload(p) \/ TellNot(p)
    \/ AddSpan(p) \/ TellSpan(p) \/ AddRequest(p) \/ TellRequest(p)

Next == \E p \in Procs : CallBoring(p) \/ CallError(p) \/ Step(p)

Spec == Init /\ [][Next]_vars

-----------------------------------------------------------------------------
(* Type correctness of the two counters and of what the base was told. *)
TypeOK ==
    /\ at \in [Procs -> Places] /\ on \in [Procs -> Spans]
    /\ boring \in [Spans -> Nat] /\ told \in [Spans -> BOOLEAN] /\ calls \in Nat

(* Who is about to tell the base that s is not boring.                     *)
WillTell(p, s) ==
    \/ at[p] = "tellSpan" /\ on[p] = s
    \/ s = Request /\ at[p] \in {"reload", "tellNot", "tellRequest"}

(* Once a span had an error, the base believes it is not boring, or is     *)
(* about to be told so; in particular when nobody is in a call any more    *)
(* the base was last told FALSE, whatever Boring() calls raced with the    *)
(* error (logger.go:480-484).                                              *)
ErrorsSeen ==
    \A s \in Spans : boring[s] # 0 => ~told[s] \/ \E p \in Procs : WillTell(p, s)

(* An error of any span makes the request not boring, too. *)
Quiescent == \A p \in Procs : at[p] = "idle"
ErrorsReachRequest ==
    Quiescent /\ (\E s \in Spans : boring[s] # 0) => ~told[Request] /\ boring[Request] # 0
=============================================================================
