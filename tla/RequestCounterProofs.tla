------------------------ MODULE RequestCounterProofs ------------------------
(***************************************************************************)
(* Proofs about RequestCounter, for any numbers of goroutines, traces and  *)
(* spans: its inductive invariant, that it implements Numbering, and that  *)
(* no number is given out twice.                                           *)
(***************************************************************************)
EXTENDS RequestCounter, TLAPS

-----------------------------------------------------------------------------
(* Typing. *)

(* The key a goroutine works on is a key, and has a counter. *)
LEMMA KeyTyped ==
  ASSUME TypeOK, NEW p \in Procs
  PROVE  /\ Key(p) \in N!Keys /\ N!CounterOf(Key(p)) \in N!Counters
         /\ N!TraceKey(call[p].trace) \in N!Keys
         /\ call[p] \in N!Calls /\ N!RequestKey(call[p]) \in N!Keys
         /\ level[p] = 1 => Key(p) = N!TraceKey(call[p].trace)
         /\ level[p] = 2 => Key(p) = N!RequestKey(call[p])
  <1>1. call[p] \in [trace : Traces, span : Spans] /\ level[p] \in {1, 2}
    BY DEF TypeOK, N!Calls
  <1> QED
    BY <1>1 DEF Key, N!Keys, N!CounterOf, N!Counters, N!TraceKey, N!RequestKey, N!Calls

(* Initially nothing is stored and nobody is in GetNumber. *)
LEMMA InvInit == Init => CounterInv
  <1> SUFFICES ASSUME Init PROVE CounterInv
    OBVIOUS
  <1>1. TypeOK
    BY DEF Init, TypeOK, Places, N!Answers, N!NoAnswer
  <1>2. Ownership /\ Settled /\ Past /\ Newness
    BY RequestCounterAssumption DEF Init, Ownership, Settled, Past, Newness, Owns,
       RequestCounterAssumption
  <1> QED
    BY <1>1, <1>2 DEF CounterInv

(* Every step keeps the types. *)
LEMMA TypeNext == TypeOK /\ [Next]_vars => TypeOK'
  <1> SUFFICES ASSUME TypeOK, [Next]_vars PROVE TypeOK'
    OBVIOUS
  <1> USE DEF local, shared, Places, Go
  <1>0. CASE UNCHANGED vars
    BY <1>0 DEF TypeOK, vars
  <1>1. ASSUME NEW p \in Procs, NEW c \in N!Calls, GetNumber(p, c) PROVE TypeOK'
    BY <1>1 DEF GetNumber, TypeOK, N!Answers, N!NoAnswer
  <1>2. ASSUME NEW p \in Procs, Step(p) PROVE TypeOK'
    <2>k. Key(p) \in N!Keys /\ N!CounterOf(Key(p)) \in N!Counters
          /\ N!TraceKey(call[p].trace) \in N!Keys
      BY KeyTyped
    <2>1. CASE Load(p)
      BY <2>1 DEF Load, TypeOK
    <2>2. CASE Store(p)
      <3>1. CASE Key(p) \in stored
        BY <2>2, <3>1 DEF Store, TypeOK
      <3>2. CASE Key(p) \notin stored
        <4>1. isNew' \in [Procs -> BOOLEAN]
          <5>1. (level[p] = 2) \in BOOLEAN
            OBVIOUS
          <5> QED
            BY <2>2, <3>2, <5>1, Zenon DEF Store, TypeOK
        <4>2. /\ at' = [at EXCEPT ![p] = "count"] /\ stored' = stored \cup {Key(p)}
              /\ lock' = [lock EXCEPT ![Key(p)] = p]
              /\ UNCHANGED <<level, call, fetched, answer, number, count, told>>
          BY <2>2, <3>2, Zenon DEF Store
        <4> QED
          BY <4>1, <4>2, <2>k DEF TypeOK
      <3> QED
        BY <3>1, <3>2
    <2>3. CASE Count(p)
      BY <2>3, <2>k DEF Count, TypeOK
    <2>4. CASE Set(p)
      BY <2>4, <2>k DEF Set, TypeOK
    <2>5. CASE Unlock(p)
      BY <2>5, <2>k DEF Unlock, TypeOK
    <2>6. CASE Check(p)
      BY <2>6 DEF Check, Advance, TypeOK
    <2>7. CASE Wait(p)
      BY <2>7 DEF Wait, Advance, TypeOK
    <2>8. CASE Return(p)
      <3>1. [trace |-> number[N!TraceKey(call[p].trace)], request |-> number[Key(p)],
             isNew |-> isNew[p]] \in N!Answers
        BY <2>k DEF TypeOK, N!Answers
      <3>2. told' \subseteq N!Keys
        BY <2>8, <2>k DEF Return, TypeOK
      <3> QED
        BY <2>8, <3>1, <3>2 DEF Return, TypeOK
    <2> QED
      BY <1>2, <2>1, <2>2, <2>3, <2>4, <2>5, <2>6, <2>7, <2>8 DEF Step
  <1> QED
    BY <1>0, <1>1, <1>2 DEF Next

-----------------------------------------------------------------------------
(* The inductive invariant. *)

(* Every step of a call keeps the invariant. *)
LEMMA InvStep ==
  ASSUME CounterInv, TypeOK', NEW p \in Procs, Step(p)
  PROVE  Ownership' /\ Settled' /\ Past' /\ Newness'
  <1> USE RequestCounterAssumption DEF CounterInv, local, shared, Go, RequestCounterAssumption
  <1>k. \A q \in Procs : /\ Key(q) \in N!Keys /\ N!TraceKey(call[q].trace) \in N!Keys
                         /\ level[q] = 1 => Key(q) = N!TraceKey(call[q].trace)
    BY KeyTyped
  <1>1. CASE Load(p)
    <2>1. \A q \in Procs : Key(q)' = Key(q)
      BY <1>1 DEF Load, Key
    <2>2. UNCHANGED <<call, level>>
      BY <1>1 DEF Load
    <2>4. Ownership'
      BY <1>1, <1>k, <2>1, <2>2 DEF Load, Ownership, Owns, TypeOK
    <2>5. Settled'
      BY <1>1, <1>k, <2>1, <2>2 DEF Load, Settled, Ownership, Owns, TypeOK
    <2>6. Past'
      BY <1>1, <1>k, <2>1, <2>2 DEF Load, Past, Settled, Ownership, Owns, TypeOK
    <2>7. Newness'
      BY <1>1, <1>k, <2>1, <2>2 DEF Load, Newness, Past, Ownership, Settled, Owns, TypeOK
    <2> QED
      BY <2>4, <2>5, <2>6, <2>7
  <1>2. CASE Store(p)
    <2>1. \A q \in Procs : Key(q)' = Key(q)
      BY <1>2 DEF Store, Key
    <2>2. UNCHANGED <<call, level>>
      BY <1>2 DEF Store
    <2>4. Ownership'
      <3>1. CASE Key(p) \in stored
        BY <3>1, <1>2, <1>k, <2>1, <2>2 DEF Store, Ownership, Owns, TypeOK
      <3>2. CASE Key(p) \notin stored
        <4>1. at' = [at EXCEPT ![p] = "count"] /\ lock' = [lock EXCEPT ![Key(p)] = p]
          BY <1>2, <3>2, Zenon DEF Store
        <4>2. lock[Key(p)] = Nobody
          BY <3>2, <1>k DEF Settled
        <4> QED
          BY <4>1, <4>2, <1>k, <2>1 DEF Ownership, Owns, TypeOK
      <3> QED
        BY <3>1, <3>2
    <2>5. Settled'
      BY <1>2, <1>k, <2>1, <2>2 DEF Store, Settled, Ownership, Owns, TypeOK
    <2>6. Past'
      BY <1>2, <1>k, <2>1, <2>2 DEF Store, Past, Settled, Ownership, Owns, TypeOK
    <2>7. Newness'
      BY <1>2, <1>k, <2>1, <2>2 DEF Store, Newness, Past, Ownership, Settled, Owns, TypeOK
    <2> QED
      BY <2>4, <2>5, <2>6, <2>7
  <1>3. CASE Count(p)
    <2>1. \A q \in Procs : Key(q)' = Key(q)
      BY <1>3 DEF Count, Key
    <2>2. UNCHANGED <<call, level>>
      BY <1>3 DEF Count
    <2>4. Ownership'
      BY <1>3, <1>k, <2>1, <2>2 DEF Count, Ownership, Owns, TypeOK
    <2>5. Settled'
      BY <1>3, <1>k, <2>1, <2>2 DEF Count, Settled, Ownership, Owns, TypeOK
    <2>6. Past'
      BY <1>3, <1>k, <2>1, <2>2 DEF Count, Past, Settled, Ownership, Owns, TypeOK
    <2>7. Newness'
      BY <1>3, <1>k, <2>1, <2>2 DEF Count, Newness, Past, Ownership, Settled, Owns, TypeOK
    <2> QED
      BY <2>4, <2>5, <2>6, <2>7
  <1>4. CASE Set(p)
    <2>1. \A q \in Procs : Key(q)' = Key(q)
      BY <1>4 DEF Set, Key
    <2>2. UNCHANGED <<call, level>>
      BY <1>4 DEF Set
    <2>4. Ownership'
      BY <1>4, <1>k, <2>1, <2>2 DEF Set, Ownership, Owns, TypeOK
    <2>5. Settled'
      BY <1>4, <1>k, <2>1, <2>2 DEF Set, Settled, Ownership, Owns, TypeOK
    <2>6. Past'
      BY <1>4, <1>k, <2>1, <2>2 DEF Set, Past, Settled, Ownership, Owns, TypeOK
    <2>7. Newness'
      BY <1>4, <1>k, <2>1, <2>2 DEF Set, Newness, Past, Ownership, Settled, Owns, TypeOK
    <2> QED
      BY <2>4, <2>5, <2>6, <2>7
  <1>5. CASE Unlock(p)
    <2>1. \A q \in Procs : Key(q)' = Key(q)
      BY <1>5 DEF Unlock, Key
    <2>2. UNCHANGED <<call, level>>
      BY <1>5 DEF Unlock
    <2>4. Ownership'
      BY <1>5, <1>k, <2>1, <2>2 DEF Unlock, Ownership, Owns, TypeOK
    <2>5. Settled'
      BY <1>5, <1>k, <2>1, <2>2 DEF Unlock, Settled, Ownership, Owns, TypeOK
    <2>6. Past'
      BY <1>5, <1>k, <2>1, <2>2 DEF Unlock, Past, Settled, Ownership, Owns, TypeOK
    <2>7. Newness'
      BY <1>5, <1>k, <2>1, <2>2 DEF Unlock, Newness, Past, Ownership, Settled, Owns, TypeOK
    <2> QED
      BY <2>4, <2>5, <2>6, <2>7
  <1>6. CASE Check(p)
    <2>1. \A q \in Procs \ {p} : Key(q)' = Key(q) /\ at'[q] = at[q] /\ level'[q] = level[q]
      BY <1>6 DEF Check, Advance, Key, TypeOK
    <2>2. /\ UNCHANGED <<call, fetched, isNew, stored, lock, number, count, told>> /\ at[p] \in {"check", "wait"}
          /\ \/ at'[p] = "wait" /\ level'[p] = level[p] /\ Key(p)' = Key(p)
             \/ number[Key(p)] # 0 /\ level'[p] = 2 /\ at'[p] = (IF level[p] = 1 THEN "load" ELSE "return")
      BY <1>6, <1>k DEF Check, Advance, Key, TypeOK, Settled, Past
    <2>3. level[p] = 2 => (Key(p)' = Key(p))
      BY <2>2 DEF Key
    <2>4. Ownership'
      BY <1>k, <2>1, <2>2, <2>3 DEF Ownership, Owns, TypeOK
    <2>5. Settled'
      BY <1>k, <2>1, <2>2, <2>3 DEF Settled, Ownership, Owns, TypeOK
    <2>6. Past'
      BY <1>k, <2>1, <2>2, <2>3 DEF Past, Settled, Ownership, Owns, TypeOK
    <2>7. Newness'
      BY <1>k, <2>1, <2>2, <2>3 DEF Newness, Past, Ownership, Settled, Owns, TypeOK
    <2> QED
      BY <2>4, <2>5, <2>6, <2>7
  <1>7. CASE Wait(p)
    <2>1. \A q \in Procs \ {p} : Key(q)' = Key(q) /\ at'[q] = at[q] /\ level'[q] = level[q]
      BY <1>7 DEF Wait, Advance, Key, TypeOK
    <2>2. /\ UNCHANGED <<call, fetched, isNew, stored, lock, number, count, told>> /\ at[p] \in {"check", "wait"}
          /\ \/ at'[p] = "wait" /\ level'[p] = level[p] /\ Key(p)' = Key(p)
             \/ number[Key(p)] # 0 /\ level'[p] = 2 /\ at'[p] = (IF level[p] = 1 THEN "load" ELSE "return")
      BY <1>7, <1>k DEF Wait, Advance, Key, TypeOK, Settled, Past
    <2>3. level[p] = 2 => (Key(p)' = Key(p))
      BY <2>2 DEF Key
    <2>4. Ownership'
      BY <1>k, <2>1, <2>2, <2>3 DEF Ownership, Owns, TypeOK
    <2>5. Settled'
      BY <1>k, <2>1, <2>2, <2>3 DEF Settled, Ownership, Owns, TypeOK
    <2>6. Past'
      BY <1>k, <2>1, <2>2, <2>3 DEF Past, Settled, Ownership, Owns, TypeOK
    <2>7. Newness'
      BY <1>k, <2>1, <2>2, <2>3 DEF Newness, Past, Ownership, Settled, Owns, TypeOK
    <2> QED
      BY <2>4, <2>5, <2>6, <2>7
  <1>8. CASE Return(p)
    <2>1. \A q \in Procs \ {p} : Key(q)' = Key(q) /\ at'[q] = at[q] /\ level'[q] = level[q]
      BY <1>8 DEF Return, Key, TypeOK
    <2>2. at[p] = "return" /\ at'[p] = "idle" /\ call' = call /\ level'[p] = 1
      BY <1>8 DEF Return, TypeOK
    <2>4. Ownership'
      BY <1>8, <1>k, <2>1, <2>2 DEF Return, Ownership, Owns, TypeOK
    <2>5. Settled'
      BY <1>8, <1>k, <2>1, <2>2 DEF Return, Settled, Ownership, Owns, TypeOK
    <2>6. Past'
      BY <1>8, <1>k, <2>1, <2>2 DEF Return, Past, Settled, Ownership, Owns, TypeOK
    <2>7. Newness'
      BY <1>8, <1>k, <2>1, <2>2 DEF Return, Newness, Past, Ownership, Settled, Owns, TypeOK
    <2> QED
      BY <2>4, <2>5, <2>6, <2>7
  <1> QED
    BY <1>1, <1>2, <1>3, <1>4, <1>5, <1>6, <1>7, <1>8 DEF Step

(* So does the beginning of a call. *)
LEMMA InvNext == CounterInv /\ [Next]_vars => CounterInv'
  <1> SUFFICES ASSUME CounterInv, [Next]_vars PROVE CounterInv'
    OBVIOUS
  <1>t. TypeOK /\ Ownership /\ Settled /\ Past /\ Newness /\ TypeOK'
    BY TypeNext DEF CounterInv
  <1>0. CASE UNCHANGED vars
    BY <1>0, <1>t DEF vars, local, shared, CounterInv, Ownership, Settled, Past, Newness, Key
  <1>1. ASSUME NEW p \in Procs, NEW c \in N!Calls, GetNumber(p, c) PROVE CounterInv'
    <2>1. /\ at[p] = "idle" /\ at' = [at EXCEPT ![p] = "load"]
          /\ call' = [call EXCEPT ![p] = c]
          /\ UNCHANGED <<level, fetched, isNew, stored, lock, number, count, told>>
      BY <1>1 DEF GetNumber, Go, shared
    <2>2. \A q \in Procs \ {p} : Key(q)' = Key(q) /\ at'[q] = at[q] /\ call'[q] = call[q]
      BY <1>t, <2>1 DEF Key, TypeOK
    <2>3. level[p] = 1
      BY <1>t, <2>1 DEF Past, TypeOK
    <2>4. Ownership'
      BY <1>t, <2>1, <2>2, RequestCounterAssumption DEF Ownership, Owns, TypeOK,
         RequestCounterAssumption
    <2>5. Settled'
      BY <1>t, <2>1, <2>2 DEF Settled, Ownership, Owns, TypeOK
    <2>6. Past'
      BY <1>t, <2>1, <2>2, <2>3 DEF Past, TypeOK
    <2>7. Newness'
      BY <1>t, <2>1, <2>2, <2>3 DEF Newness, Owns, TypeOK
    <2> QED
      BY <1>t, <2>4, <2>5, <2>6, <2>7 DEF CounterInv
  <1>2. ASSUME NEW p \in Procs, Step(p) PROVE CounterInv'
    BY <1>2, <1>t, InvStep DEF CounterInv
  <1> QED
    BY <1>0, <1>1, <1>2 DEF Next

(* No goroutine ever gets past an entry that has no number yet, only the   *)
(* goroutine that stored a request is going to report it as new, and the   *)
(* mutex of an entry is free once it has its number.                       *)
THEOREM CounterInvariant == Spec => []CounterInv
  BY InvInit, InvNext, PTL DEF Spec

-----------------------------------------------------------------------------
(* RequestCounter implements Numbering. *)

(* The refinement mapping: a number counts as assigned from the moment     *)
(* that AddInt32 returned it.                                              *)
Busy     == {p \in Procs : at[p] # "idle"}
Assigned == [k \in Traces \X (Spans \cup {NoSpan}) |->
               IF lock[k] \in Procs /\ at[lock[k]] = "set"
               THEN fetched[lock[k]] ELSE number[k]]

(* A number that was set is an assigned one. *)
LEMMA AssignedNumber ==
  ASSUME CounterInv, NEW k \in N!Keys
  PROVE  /\ k \in DOMAIN Assigned
         /\ number[k] # 0 => Assigned[k] = number[k]
         /\ \A p \in Procs : at[p] = "set" /\ Key(p) = k => Assigned[k] = fetched[p]
         /\ \A p \in Procs : at[p] = "count" /\ Key(p) = k => Assigned[k] = 0
         /\ Assigned[k] = 0 \/ k \in stored
  <1>1. Assigned[k] = (IF lock[k] \in Procs /\ at[lock[k]] = "set"
                       THEN fetched[lock[k]] ELSE number[k]) /\ k \in DOMAIN Assigned
    BY DEF Assigned, N!Keys
  <1>2. lock[k] \in Procs \/ lock[k] = Nobody
    BY DEF CounterInv, TypeOK
  <1>3. number[k] # 0 => Assigned[k] = number[k]
    BY <1>1 DEF CounterInv, Settled
  <1>4. \A p \in Procs : at[p] = "set" /\ Key(p) = k => Assigned[k] = fetched[p]
    BY <1>1 DEF CounterInv, Ownership, Owns
  <1>5. \A p \in Procs : at[p] = "count" /\ Key(p) = k => Assigned[k] = 0
    BY <1>1 DEF CounterInv, Ownership, Owns, Settled
  <1>6. Assigned[k] = 0 \/ k \in stored
    BY <1>1, <1>2, RequestCounterAssumption DEF CounterInv, Settled, RequestCounterAssumption
  <1> QED
    BY <1>1, <1>3, <1>4, <1>5, <1>6

(* Only Count assigns. *)
LEMMA AssignedStep ==
  ASSUME CounterInv, CounterInv', NEW p \in Procs, Step(p)
  PROVE  IF Count(p)
         THEN Assigned' = [Assigned EXCEPT ![Key(p)] = count[N!CounterOf(Key(p))] + 1]
         ELSE Assigned' = Assigned
  <1> USE RequestCounterAssumption DEF local, shared, Go, RequestCounterAssumption
  <1> DEFINE Now(k) == IF lock[k] \in Procs /\ at[lock[k]] = "set"
                       THEN fetched[lock[k]] ELSE number[k]
             D      == Traces \X (Spans \cup {NoSpan})
  <1>t. TypeOK /\ Ownership /\ Settled /\ D = N!Keys /\ Key(p) \in D
    BY KeyTyped DEF CounterInv, N!Keys
  <1>d. Assigned = [k \in D |-> Now(k)]
    BY DEF Assigned
  <1>p. Assigned' = [k \in D |-> Now(k)']
    BY DEF Assigned
  <1>s. ASSUME \A k \in D : Now(k)' = Now(k) PROVE Assigned' = Assigned
    BY <1>s, <1>d, <1>p, Zenon
  <1> HIDE DEF D
  <1>1. CASE Load(p) \/ Check(p) \/ Wait(p) \/ Return(p)
    <2>1. /\ UNCHANGED <<fetched, lock, number>> /\ at[p] # "set" /\ at'[p] # "set"
          /\ \A q \in Procs \ {p} : at'[q] = at[q]
      BY <1>1, <1>t DEF Load, Check, Wait, Return, Advance, TypeOK
    <2>2. \A k \in D : Now(k)' = Now(k)
      BY <2>1
    <2>3. ~Count(p)
      BY <1>1 DEF Load, Check, Wait, Return, Count
    <2> QED
      BY <1>s, <2>2, <2>3
  <1>2. CASE Store(p)
    <2>1. /\ UNCHANGED <<fetched, number>> /\ at[p] = "store" /\ at'[p] # "set"
          /\ \A q \in Procs \ {p} : at'[q] = at[q]
          /\ lock' = lock \/ (lock' = [lock EXCEPT ![Key(p)] = p] /\ Key(p) \notin stored)
      <3>1. at' = [at EXCEPT ![p] = "check"] \/ at' = [at EXCEPT ![p] = "count"]
        BY <1>2, Zenon DEF Store
      <3>2. lock' = lock \/ (lock' = [lock EXCEPT ![Key(p)] = p] /\ Key(p) \notin stored)
        BY <1>2, Zenon DEF Store
      <3> QED
        BY <1>2, <1>t, <3>1, <3>2 DEF Store, TypeOK
    <2>2. \A k \in D : Now(k)' = Now(k)
      BY <2>1, <1>t DEF TypeOK, Settled, Ownership, Owns
    <2>3. ~Count(p)
      BY <2>1 DEF Count
    <2> QED
      BY <1>s, <2>2, <2>3
  <1>3. CASE Count(p)
    <2> DEFINE n == count[N!CounterOf(Key(p))] + 1
    <2>1. /\ UNCHANGED <<lock, number>> /\ at[p] = "count" /\ at' = [at EXCEPT ![p] = "set"]
          /\ fetched' = [fetched EXCEPT ![p] = n]
      BY <1>3 DEF Count
    <2> HIDE DEF n
    <2>2. lock[Key(p)] = p
      BY <1>t, <2>1 DEF Ownership, Owns
    <2>3. \A k \in D : k = Key(p) => Now(k)' = n
      BY <1>t, <2>1, <2>2 DEF TypeOK
    <2>4. \A k \in D \ {Key(p)} : lock[k] # p
      BY <1>t, <2>2 DEF Ownership
    <2>5. \A k \in D \ {Key(p)} : Now(k)' = Now(k)
      BY <1>t, <2>1, <2>4 DEF TypeOK
    <2>6. Assigned' = [Assigned EXCEPT ![Key(p)] = n]
      <3>1. \A k \in D : Now(k)' = IF k = Key(p) THEN n ELSE Now(k)
        BY <2>3, <2>5, Zenon
      <3>2. [Assigned EXCEPT ![Key(p)] = n] = [k \in D |-> IF k = Key(p) THEN n ELSE Now(k)]
        BY <1>d, <1>t, Zenon
      <3> QED
        BY <1>p, <3>1, <3>2, Zenon
    <2> QED
      BY <1>3, <2>6 DEF n
  <1>4. CASE Set(p)
    <2>1. /\ UNCHANGED lock /\ at[p] = "set" /\ at' = [at EXCEPT ![p] = "unlock"]
          /\ number' = [number EXCEPT ![Key(p)] = fetched[p]]
          /\ fetched' = [fetched EXCEPT ![p] = 0]
      BY <1>4 DEF Set
    <2>2. lock[Key(p)] = p
      BY <1>t, <2>1 DEF Ownership, Owns
    <2>3. \A k \in D : k = Key(p) => Now(k)' = Now(k)
      BY <1>t, <2>1, <2>2 DEF TypeOK
    <2>4. \A k \in D \ {Key(p)} : lock[k] # p
      BY <1>t, <2>2 DEF Ownership
    <2>5. \A k \in D \ {Key(p)} : Now(k)' = Now(k)
      BY <1>t, <2>1, <2>4 DEF TypeOK
    <2>6. \A k \in D : Now(k)' = Now(k)
      BY <2>3, <2>5, Zenon
    <2>7. ~Count(p)
      BY <2>1 DEF Count
    <2> QED
      BY <1>s, <2>6, <2>7
  <1>5. CASE Unlock(p)
    <2>1. /\ UNCHANGED <<fetched, number>> /\ at[p] = "unlock"
          /\ at' = [at EXCEPT ![p] = "check"] /\ lock' = [lock EXCEPT ![Key(p)] = Nobody]
      BY <1>5 DEF Unlock
    <2>2. lock[Key(p)] = p
      BY <1>t, <2>1 DEF Ownership, Owns
    <2>3. \A k \in D : Now(k)' = Now(k)
      BY <1>t, <2>1, <2>2 DEF TypeOK
    <2>4. ~Count(p)
      BY <2>1 DEF Count
    <2> QED
      BY <1>s, <2>3, <2>4
  <1> QED
    BY <1>1, <1>2, <1>3, <1>4, <1>5 DEF Step

(* Every step is a step of Numbering, or none: the call begins with Ask,   *)
(* Count assigns, Return answers.                                          *)
LEMMA StepImplements ==
  ASSUME CounterInv, CounterInv', NEW p \in Procs, Step(p)
  PROVE  [N!Next]_(N!vars)
  <1> USE DEF local, shared, Go
  <1>t. /\ TypeOK /\ Ownership /\ Settled /\ Past /\ Newness
        /\ Key(p) \in N!Keys /\ N!RequestKey(call[p]) \in N!Keys
        /\ N!TraceKey(call[p].trace) \in N!Keys
        /\ level[p] = 1 => Key(p) = N!TraceKey(call[p].trace)
        /\ level[p] = 2 => Key(p) = N!RequestKey(call[p])
        /\ level[p] \in {1, 2}
    BY KeyTyped DEF CounterInv, TypeOK
  <1>1. CASE ~Count(p) /\ ~Return(p)
    <2>1. Assigned' = Assigned
      BY <1>1, AssignedStep
    <2>2. UNCHANGED <<call, answer, count, told>>
      <3>1. Load(p) \/ Store(p) \/ Set(p) \/ Unlock(p) \/ Check(p) \/ Wait(p)
        BY <1>1 DEF Step
      <3> QED
        BY <3>1, Zenon DEF Load, Store, Set, Unlock, Check, Wait
    <2>3. Busy' = Busy
      <3>1. at[p] # "idle" /\ at'[p] # "idle" /\ \A q \in Procs \ {p} : at'[q] = at[q]
        BY <1>1, <1>t DEF Step, Load, Store, Set, Unlock, Check, Wait, Advance, TypeOK
      <3> QED
        BY <3>1 DEF Busy
    <2>4. UNCHANGED N!vars
      BY <2>1, <2>2, <2>3, Zenon DEF N!vars, Assigned, Busy
    <2> QED
      BY <2>4
  <1>2. CASE Count(p)
    <2>1. /\ at[p] = "count" /\ at' = [at EXCEPT ![p] = "set"]
          /\ count' = [count EXCEPT ![N!CounterOf(Key(p))] = @ + 1]
          /\ UNCHANGED <<call, answer, told>>
      BY <1>2 DEF Count
    <2>2. Assigned' = [Assigned EXCEPT ![Key(p)] = count[N!CounterOf(Key(p))] + 1]
      BY <1>2, AssignedStep
    <2>3. Busy' = Busy /\ p \in Busy
      BY <1>t, <2>1 DEF Busy, TypeOK
    <2>4. Assigned[Key(p)] = 0
      BY <1>t, <2>1, AssignedNumber
    <2>5. \/ Key(p) = N!TraceKey(call[p].trace)
          \/ Key(p) = N!RequestKey(call[p]) /\ Assigned[N!TraceKey(call[p].trace)] # 0
      <3>1. level[p] = 2 => number[N!TraceKey(call[p].trace)] # 0
        BY <1>t, <2>1 DEF Past
      <3> QED
        BY <1>t, <3>1, AssignedNumber
    <2>6. PICK k \in N!Keys : k = Key(p)
      BY <1>t
    <2>7. N!Assign(p, k)
      BY <2>1, <2>2, <2>3, <2>4, <2>5, <2>6, Zenon DEF N!Assign, Assigned, Busy
    <2> QED
      BY <2>7, Zenon DEF N!Next
  <1>3. CASE Return(p)
    <2> DEFINE t == N!TraceKey(call[p].trace)
               r == N!RequestKey(call[p])
    <2>1. /\ at[p] = "return" /\ at' = [at EXCEPT ![p] = "idle"]
          /\ answer' = [answer EXCEPT ![p] = [trace |-> number[t], request |-> number[Key(p)],
                                              isNew |-> isNew[p]]]
          /\ told' = (IF isNew[p] THEN told \cup {Key(p)} ELSE told)
          /\ UNCHANGED <<call, count>>
      BY <1>3 DEF Return
    <2>2. Assigned' = Assigned
      <3>1. ~Count(p)
        BY <2>1 DEF Count
      <3> QED
        BY <3>1, AssignedStep
    <2>3. Key(p) = r /\ number[t] # 0 /\ number[r] # 0
      BY <1>t, <2>1 DEF Past
    <2>4. Assigned[t] = number[t] /\ Assigned[r] = number[r]
      BY <1>t, <2>3, AssignedNumber
    <2>5. p \in Busy /\ Busy' = Busy \ {p}
      BY <1>t, <2>1 DEF Busy, TypeOK
    <2>6. isNew[p] => r \notin told
      BY <1>t, <2>3 DEF Newness
    <2>7. isNew[p] \in BOOLEAN
      BY <1>t DEF TypeOK
    <2>8. Assigned[t] # 0 /\ Assigned[r] # 0
      BY <2>3, <2>4
    <2>9. answer' = [answer EXCEPT ![p] = [trace |-> Assigned[t], request |-> Assigned[r],
                                           isNew |-> isNew[p]]]
      BY <2>1, <2>3, <2>4, Zenon
    <2>10. told' = (IF isNew[p] THEN told \cup {r} ELSE told)
      BY <2>1, <2>3, Zenon
    <2>11. PICK new \in BOOLEAN : new = isNew[p]
      BY <2>7
    <2>12. N!Answer(p, new)
      BY <2>1, <2>2, <2>5, <2>6, <2>8, <2>9, <2>10, <2>11, Zenon DEF N!Answer, Assigned, Busy
    <2> QED
      BY <2>12, Zenon DEF N!Next
  <1> QED
    BY <1>1, <1>2, <1>3

(* The beginning of a call, and stuttering, are steps of Numbering too.    *)
LEMMA NextImplements ==
  ASSUME CounterInv, CounterInv', [Next]_vars
  PROVE  [N!Next]_(N!vars)
  <1> USE DEF local, shared, Go
  <1>t. TypeOK /\ Ownership
    BY DEF CounterInv
  <1>0. CASE UNCHANGED vars
    BY <1>0 DEF vars, N!vars
  <1>1. ASSUME NEW p \in Procs, NEW c \in N!Calls, GetNumber(p, c) PROVE [N!Next]_(N!vars)
    <2>1. /\ at[p] = "idle" /\ at' = [at EXCEPT ![p] = "load"]
          /\ call' = [call EXCEPT ![p] = c] /\ answer' = [answer EXCEPT ![p] = N!NoAnswer]
          /\ UNCHANGED <<fetched, lock, number, count, told>>
      BY <1>1 DEF GetNumber
    <2>2. p \notin Busy /\ Busy' = Busy \cup {p}
      BY <1>t, <2>1 DEF Busy, TypeOK
    <2> DEFINE D == Traces \X (Spans \cup {NoSpan})
               Now(k) == IF lock[k] \in Procs /\ at[lock[k]] = "set"
                         THEN fetched[lock[k]] ELSE number[k]
    <2>3. \A k \in D : Now(k)' = Now(k)
      BY <1>t, <2>1 DEF TypeOK
    <2>4. Assigned' = Assigned
      BY <2>3, Zenon DEF Assigned
    <2>5. N!Ask(p, c)
      BY <2>1, <2>2, <2>4, Zenon DEF N!Ask, Assigned, Busy
    <2> QED
      BY <2>5, Zenon DEF N!Next
  <1>2. ASSUME NEW p \in Procs, Step(p) PROVE [N!Next]_(N!vars)
    BY <1>2, StepImplements
  <1> QED
    BY <1>0, <1>1, <1>2 DEF Next

(* The initial state is one of Numbering. *)
LEMMA InitImplements == Init => N!Init
  <1> SUFFICES ASSUME Init PROVE N!Init
    OBVIOUS
  <1>1. Busy = {}
    BY DEF Init, Busy
  <1>2. Assigned = [k \in N!Keys |-> 0]
    BY RequestCounterAssumption DEF Init, Assigned, N!Keys, RequestCounterAssumption
  <1> QED
    BY <1>1, <1>2, Zenon DEF Init, N!Init, Assigned, Busy

(* GetNumber's locking hands out numbers as if it were one atomic table:   *)
(* every caller gets the numbers that Numbering allows.                    *)
THEOREM Implements == Spec => Numbered
  BY InitImplements, NextImplements, CounterInvariant, PTL DEF Spec, N!Spec, Numbered

-----------------------------------------------------------------------------
(* No number is given out twice. *)

(* What is assigned was counted, and no two keys of a counter share it.    *)
Counted ==
    /\ \A k \in N!Keys : Assigned[k] \in 0 .. count[N!CounterOf(k)]
    /\ \A j, k \in N!Keys : N!CounterOf(j) = N!CounterOf(k) /\ Assigned[j] = Assigned[k]
                            /\ Assigned[j] # 0 => j = k

(* Only a fresh number of the counter is ever assigned. *)
LEMMA CountedNext ==
  ASSUME CounterInv, CounterInv', Counted, [Next]_vars
  PROVE  Counted'
  <1> USE DEF local, shared, Go
  <1>t. TypeOK /\ DOMAIN Assigned = N!Keys
    BY DEF CounterInv, Assigned, N!Keys
  <1>c. \A k \in N!Keys : N!CounterOf(k) \in N!Counters
    BY DEF N!Keys, N!Counters, N!CounterOf
  <1>s. ASSUME Assigned' = Assigned, count' = count PROVE Counted'
    BY <1>s DEF Counted
  <1>0. CASE UNCHANGED vars
    BY <1>0, <1>s DEF vars, Assigned
  <1>1. ASSUME NEW p \in Procs, NEW c \in N!Calls, GetNumber(p, c) PROVE Counted'
    <2>1. /\ at[p] = "idle" /\ at' = [at EXCEPT ![p] = "load"]
          /\ UNCHANGED <<fetched, lock, number, count>>
      BY <1>1 DEF GetNumber
    <2> DEFINE D == Traces \X (Spans \cup {NoSpan})
               Now(k) == IF lock[k] \in Procs /\ at[lock[k]] = "set"
                         THEN fetched[lock[k]] ELSE number[k]
    <2>2. \A k \in D : Now(k)' = Now(k)
      BY <1>t, <2>1 DEF TypeOK
    <2>3. Assigned' = Assigned
      BY <2>2, Zenon DEF Assigned
    <2> QED
      BY <1>s, <2>1, <2>3
  <1>2. ASSUME NEW p \in Procs, Step(p) PROVE Counted'
    <2>1. CASE Count(p)
      <3> DEFINE c == N!CounterOf(Key(p))
                 n == count[c] + 1
      <3>1. Key(p) \in N!Keys /\ c \in N!Counters /\ count[c] \in Nat
        BY <1>t, KeyTyped DEF TypeOK
      <3>2. Assigned' = [Assigned EXCEPT ![Key(p)] = n] /\ count' = [count EXCEPT ![c] = n]
        <4>1. Assigned' = [Assigned EXCEPT ![Key(p)] = n]
          BY <1>2, <2>1, AssignedStep
        <4> QED
          BY <4>1, <2>1 DEF Count
      <3>3. n = count[c] + 1
        OBVIOUS
      <3> HIDE DEF n
      <3>4. \A k \in N!Keys : count[N!CounterOf(k)] \in Nat
        BY <1>t, <1>c DEF TypeOK
      <3>5. \A k \in N!Keys : N!CounterOf(k)' = N!CounterOf(k)
        BY DEF N!CounterOf
      <3>6. \A k \in N!Keys : /\ k = Key(p) => Assigned'[k] = n
                              /\ k # Key(p) => Assigned'[k] = Assigned[k]
        BY <1>t, <3>2
      <3>7. \A k \in N!Keys : count'[N!CounterOf(k)] = IF N!CounterOf(k) = c THEN n ELSE count[N!CounterOf(k)]
        BY <1>t, <1>c, <3>2 DEF TypeOK
      <3>8. \A k \in N!Keys : Assigned'[k] \in 0 .. count'[N!CounterOf(k)]
        BY <3>1, <3>3, <3>4, <3>6, <3>7 DEF Counted
      <3>9. \A k \in N!Keys : N!CounterOf(k) = c => Assigned[k] # n
        BY <3>1, <3>3, <3>4 DEF Counted
      <3>10. \A j, k \in N!Keys : N!CounterOf(j) = N!CounterOf(k) /\ Assigned'[j] = Assigned'[k]
                                  /\ Assigned'[j] # 0 => j = k
        BY <3>1, <3>6, <3>9 DEF Counted
      <3> QED
        BY <3>8, <3>10 DEF Counted
    <2>2. CASE ~Count(p)
      <3>1. Assigned' = Assigned
        BY <1>2, <2>2, AssignedStep
      <3>2. count' = count
        BY <1>2, <2>2, Zenon DEF Step, Load, Store, Set, Unlock, Check, Wait, Return
      <3> QED
        BY <1>s, <3>1, <3>2
    <2> QED
      BY <2>1, <2>2
  <1> QED
    BY <1>0, <1>1, <1>2 DEF Next

(* Nothing is assigned initially. *)
LEMMA CountedInit == Init => Counted
  <1> SUFFICES ASSUME Init PROVE Counted
    OBVIOUS
  <1>1. Assigned = [k \in N!Keys |-> 0]
    BY RequestCounterAssumption DEF Init, Assigned, N!Keys, RequestCounterAssumption
  <1>2. \A k \in N!Keys : count[N!CounterOf(k)] = 0
    BY DEF Init, N!Keys, N!Counters, N!CounterOf
  <1> QED
    BY <1>1, <1>2 DEF Counted

(* Two traces never get the same number, nor do two requests of a trace,   *)
(* whatever the interleaving of the goroutines that ask for them.          *)
THEOREM NumbersDistinct == Spec => []Distinct
  <1>1. CounterInv /\ Counted => Distinct
    BY AssignedNumber DEF Counted, Distinct
  <1> QED
    BY <1>1, CountedInit, CountedNext, CounterInvariant, PTL DEF Spec

=============================================================================
