---------------------------- MODULE BoringProofs ----------------------------
(***************************************************************************)
(* Proofs about Boring, for any number of goroutines, spans and calls.     *)
(***************************************************************************)
EXTENDS Boring, TLAPS

(* A span with an error has made the request not boring, or is about to.   *)
Reaching ==
    \A s \in Spans : boring[s] # 0 =>
        boring[Request] # 0 \/ \E p \in Procs : at[p] \in {"tellSpan", "addRequest"}

BoringInv == TypeOK /\ ErrorsSeen /\ Reaching

(* Nothing has happened yet. *)
LEMMA BoringInit == Init => BoringInv
  BY BoringAssumption DEF BoringAssumption, Init, BoringInv, TypeOK, Places, ErrorsSeen, Reaching

(* Beginning a call changes neither what was told nor who will tell. *)
LEMMA BoringCall ==
  ASSUME BoringInv, NEW p \in Procs, CallBoring(p) \/ CallError(p)
  PROVE  BoringInv'
  <1>1. PICK s \in Spans, pl \in {"loadRequest", "addSpan"} : Call(p, s, pl)
    BY BoringAssumption DEF BoringAssumption, CallBoring, CallError
  <1>2. /\ at[p] = "idle" /\ at' = [at EXCEPT ![p] = pl] /\ on' = [on EXCEPT ![p] = s]
        /\ calls' = calls + 1 /\ UNCHANGED <<boring, told>>
    BY <1>1 DEF Call, Go
  <1>3. TypeOK'
    BY <1>2 DEF BoringInv, TypeOK, Places
  <1>4. \A q \in Procs, z \in Spans : WillTell(q, z) => WillTell(q, z)'
    BY <1>2 DEF BoringInv, TypeOK, WillTell
  <1>5. ErrorsSeen'
    BY <1>2, <1>4 DEF BoringInv, ErrorsSeen
  <1>6. Reaching'
    BY <1>2 DEF BoringInv, Reaching, TypeOK
  <1> QED
    BY <1>3, <1>5, <1>6 DEF BoringInv

(* Each step that makes the base believe that the request is boring, or    *)
(* counts a first error, leaves its goroutine with something to tell.      *)
LEMMA BoringStep ==
  ASSUME BoringInv, NEW p \in Procs, Step(p)
  PROVE  BoringInv'
  <1> USE BoringAssumption DEF BoringAssumption, BoringInv, Go
  <1>1. TypeOK'
    <2>1. CASE LoadRequest(p)
      BY <2>1 DEF LoadRequest, TypeOK, Places
    <2>2. CASE TellBoring(p) \/ TellNot(p) \/ TellSpan(p) \/ TellRequest(p)
      BY <2>2 DEF TellBoring, TellNot, TellSpan, TellRequest, TypeOK, Places
    <2>3. CASE Reload(p)
      BY <2>3 DEF Reload, TypeOK, Places
    <2>4. CASE AddSpan(p) \/ AddRequest(p)
      BY <2>4 DEF AddSpan, AddRequest, TypeOK, Places
    <2> QED
      BY <2>1, <2>2, <2>3, <2>4 DEF Step
  <1>2. ErrorsSeen'
    <2>o. \A q \in Procs \ {p}, s \in Spans : at'[q] = at[q] /\ on' = on
                                              /\ (WillTell(q, s)' <=> WillTell(q, s))
      BY DEF Step, LoadRequest, TellBoring, Reload, TellNot, AddSpan, TellSpan, AddRequest,
             TellRequest, TypeOK, WillTell
    <2>1. CASE LoadRequest(p)
      <3>1. ~WillTell(p, Request) /\ \A s \in Spans : ~WillTell(p, s)
        BY <2>1 DEF LoadRequest, WillTell
      <3> QED
        BY <2>1, <2>o, <3>1 DEF LoadRequest, ErrorsSeen
    <2>2. CASE TellBoring(p)
      <3>1. /\ told' = [told EXCEPT ![Request] = TRUE] /\ boring' = boring
            /\ \A s \in Spans : ~WillTell(p, s)
            /\ WillTell(p, Request)'
        BY <2>2 DEF TellBoring, WillTell, TypeOK
      <3> QED
        BY <2>o, <3>1 DEF ErrorsSeen, TypeOK
    <2>3. CASE Reload(p)
      <3>1. CASE boring[Request] = 0
        <4>1. /\ told' = told /\ boring' = boring
              /\ \A s \in Spans : s # Request => ~WillTell(p, s)
          BY <2>3 DEF Reload, WillTell
        <4> QED
          BY <2>o, <3>1, <4>1 DEF ErrorsSeen
      <3>2. CASE boring[Request] # 0
        <4>1. /\ told' = told /\ boring' = boring
              /\ \A s \in Spans : s # Request => ~WillTell(p, s)
              /\ WillTell(p, Request)'
          BY <2>3, <3>2 DEF Reload, WillTell, TypeOK
        <4> QED
          BY <2>o, <4>1 DEF ErrorsSeen
      <3> QED
        BY <3>1, <3>2
    <2>4. CASE TellNot(p) \/ TellRequest(p)
      <3>1. /\ told' = [told EXCEPT ![Request] = FALSE] /\ boring' = boring
            /\ \A s \in Spans : s # Request => ~WillTell(p, s)
        BY <2>4 DEF TellNot, TellRequest, WillTell
      <3> QED
        BY <2>o, <3>1 DEF ErrorsSeen, TypeOK
    <2>5. CASE AddSpan(p)
      <3>1. CASE boring[on[p]] = 0
        <4>1. /\ told' = told /\ boring' = [boring EXCEPT ![on[p]] = 1]
              /\ \A s \in Spans : ~WillTell(p, s)
              /\ WillTell(p, on[p])' /\ on' = on
          BY <2>5, <3>1 DEF AddSpan, WillTell, TypeOK
        <4>2. \A s \in Spans : s = on[p] => WillTell(p, s)'
          BY <4>1 DEF WillTell
        <4> QED
          BY <2>o, <4>1, <4>2 DEF ErrorsSeen, TypeOK
      <3>2. CASE boring[on[p]] # 0
        <4>1. /\ told' = told /\ \A s \in Spans : boring'[s] # 0 => boring[s] # 0
              /\ \A s \in Spans : ~WillTell(p, s)
          BY <2>5, <3>2 DEF AddSpan, WillTell, TypeOK
        <4> QED
          BY <2>o, <4>1 DEF ErrorsSeen
      <3> QED
        BY <3>1, <3>2
    <2>6. CASE TellSpan(p)
      <3>1. /\ told' = [told EXCEPT ![on[p]] = FALSE] /\ boring' = boring
            /\ \A s \in Spans : s # on[p] => ~WillTell(p, s)
        BY <2>6 DEF TellSpan, WillTell
      <3> QED
        BY <2>o, <3>1 DEF ErrorsSeen, TypeOK
    <2>7. CASE AddRequest(p)
      <3>1. CASE boring[Request] = 0
        <4>1. /\ told' = told /\ boring' = [boring EXCEPT ![Request] = 1]
              /\ \A s \in Spans : ~WillTell(p, s)
              /\ WillTell(p, Request)'
          BY <2>7, <3>1 DEF AddRequest, WillTell, TypeOK
        <4> QED
          BY <2>o, <4>1 DEF ErrorsSeen, TypeOK
      <3>2. CASE boring[Request] # 0
        <4>1. /\ told' = told /\ \A s \in Spans : boring'[s] # 0 => boring[s] # 0
              /\ \A s \in Spans : ~WillTell(p, s)
          BY <2>7, <3>2 DEF AddRequest, WillTell, TypeOK
        <4> QED
          BY <2>o, <4>1 DEF ErrorsSeen
      <3> QED
        BY <3>1, <3>2
    <2> QED
      BY <2>1, <2>2, <2>3, <2>4, <2>5, <2>6, <2>7 DEF Step
  <1>3. Reaching'
    <2>1. CASE AddSpan(p)
      <3>1. CASE boring[on[p]] = 0
        <4>1. at'[p] = "tellSpan"
          BY <2>1, <3>1 DEF AddSpan, TypeOK
        <4> QED
          BY <4>1 DEF Reaching
      <3>2. CASE boring[on[p]] # 0
        <4>1. /\ \A s \in Spans : (boring'[s] # 0 <=> boring[s] # 0)
              /\ at[p] = "addSpan" /\ \A q \in Procs \ {p} : at'[q] = at[q]
          BY <2>1, <3>2 DEF AddSpan, TypeOK
        <4> QED
          BY <4>1 DEF Reaching
      <3> QED
        BY <3>1, <3>2
    <2>2. CASE AddRequest(p)
      <3>1. boring'[Request] # 0
        BY <2>2 DEF AddRequest, TypeOK
      <3> QED
        BY <3>1 DEF Reaching
    <2>3. CASE TellSpan(p)
      <3>1. at'[p] = "addRequest"
        BY <2>3 DEF TellSpan, TypeOK
      <3> QED
        BY <3>1 DEF Reaching
    <2>4. CASE LoadRequest(p) \/ TellBoring(p) \/ Reload(p) \/ TellNot(p) \/ TellRequest(p)
      <3>1. /\ boring' = boring /\ at[p] \notin {"tellSpan", "addRequest"}
            /\ \A q \in Procs \ {p} : at'[q] = at[q]
        BY <2>4 DEF LoadRequest, TellBoring, Reload, TellNot, TellRequest, TypeOK
      <3> QED
        BY <3>1 DEF Reaching
    <2> QED
      BY <2>1, <2>2, <2>3, <2>4 DEF Step
  <1> QED
    BY <1>1, <1>2, <1>3

(* Every step of the system keeps the invariant. *)
LEMMA BoringNext == BoringInv /\ [Next]_vars => BoringInv'
  <1>1. ASSUME BoringInv, UNCHANGED vars PROVE BoringInv'
    BY <1>1 DEF BoringInv, vars, TypeOK, ErrorsSeen, Reaching, WillTell
  <1> QED
    BY <1>1, BoringCall, BoringStep DEF Next

(* Once a span had an error, the base believes that it is not boring or is *)
(* about to be told: no race of Boring() with Error() lets the last word   *)
(* be that a request with an error is boring.                              *)
THEOREM ErrorsAreSeen == Spec => []ErrorsSeen
  <1>1. BoringInv => ErrorsSeen
    BY DEF BoringInv
  <1> QED
    BY <1>1, BoringInit, BoringNext, PTL DEF Spec

(* When no call is in progress an error of any span has reached the        *)
(* request, and the base was told so last.                                 *)
THEOREM ErrorsDoReachRequest == Spec => []ErrorsReachRequest
  <1>1. BoringInv => ErrorsReachRequest
    BY BoringAssumption DEF BoringAssumption, BoringInv, ErrorsSeen, Reaching, ErrorsReachRequest,
       Quiescent, WillTell
  <1> QED
    BY <1>1, BoringInit, BoringNext, PTL DEF Spec
=============================================================================
