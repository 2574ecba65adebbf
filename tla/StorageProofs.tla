---------------------------- MODULE StorageProofs ----------------------------
(***************************************************************************)
(* Proofs about Storage, for any goroutines, shapes of lines and bounds:   *)
(* the versions of a span increase in the output of each base logger, and  *)
(* what was written until any moment replays.                              *)
(***************************************************************************)
EXTENDS Storage, FiniteSetTheorems, SequenceTheorems, TLAPS

Calling == {"send", "note", "mark"}
Stages  == {"done", "number", "fill", "write", "end", "event", "queue"}
Chunks  == {"flush", "subspans", "subproto", "lines", "chunk"}
Places  == {"idle", "register", "visit"} \cup Calling \cup Stages \cup Chunks
Calls   == [op : {"none", "span", "line", "metadata", "done", "flush"}, span : Spans, time : Nat]

FlowTypeOK ==
    /\ base \in {"recorder", "json", "console", "pb"} /\ shape \in Shapes
    /\ clock \in Nat
    /\ open \subseteq Spans /\ "request" \in open /\ active \subseteq open
    /\ at \in [Procs -> Places] /\ call \in [Procs -> Calls]
    /\ todo \in [Procs -> Seq(Spans)]
    /\ attributes \in [Spans -> SUBSET Nat] /\ \A s \in Spans : IsFiniteSet(attributes[s])
    /\ dirty \in BOOLEAN /\ raced \in BOOLEAN

(* What call a goroutine is in, given where it is. *)
PlaceOK(p) ==
    /\ at[p] = "register" => p \in Users /\ "child" \notin open
    /\ at[p] \in Calling => p \in Users /\ call[p].span \in open
    /\ at[p] = "send" => call[p].op = "line"
    /\ at[p] = "note" => call[p].op = "metadata"
    /\ at[p] = "mark" => call[p].op \in {"line", "metadata"}
    /\ at[p] \in Stages \cup {"visit"} =>
          \/ p = Flusher /\ call[p].op = "flush"
          \/ p \in Users /\ call[p].op = "done" /\ call[p].span \in open
    /\ at[p] \in Chunks => p = Flusher
    /\ at[p] \in Stages => todo[p] # <<>> /\ Head(todo[p]) \in open
    /\ at[p] \notin Stages \cup {"visit"} => todo[p] = <<>>
    /\ at[p] # "idle" => call[p].time <= clock

OneStarts   == \A p, q \in Procs : at[p] = "register" /\ at[q] = "register" => p = q
CallsDiffer == \A p, q \in Procs :
                  at[p] # "idle" /\ at[q] # "idle" /\ call[p].time = call[q].time => p = q

(* A goroutine that is in a Done of the base logger shows in the draft. *)
Drafted == /\ DOMAIN draft = Procs
           /\ \A p \in Procs : at[p] \in Stages => draft[p] # <<>> /\ draft[p].span = Head(todo[p])
DonesApart ==
    base \notin Overlapping =>
        \A p, q \in Procs :
            at[p] \in Stages /\ at[q] \in Stages /\ Head(todo[p]) = Head(todo[q]) => p = q

(* What is active when nothing overlaps a flush, the flush has yet to visit. *)
Alone ==
    ~raced => /\ at[Flusher] = "idle" \/ \A u \in Users : at[u] = "idle"
              /\ at[Flusher] # "idle" => active \subseteq ToSet(todo[Flusher])
              /\ at[Flusher] \in Stages => Head(todo[Flusher]) \notin active

FlowInv ==
    /\ FlowTypeOK /\ \A p \in Procs : PlaceOK(p)
    /\ OneStarts /\ CallsDiffer /\ Drafted /\ DonesApart /\ Alone

(* Only p's part of a step is to be looked at. *)
Others(p) == \A q \in Procs \ {p} :
    at'[q] = at[q] /\ call'[q] = call[q] /\ todo'[q] = todo[q] /\ draft'[q] = draft[q]

(* The sub-span can be used, or is just about to. *)
ChildThere == "child" \in open \/ \E p \in Procs : at[p] = "register"
StillThere == ChildThere' <=> ChildThere

(* The lines that were handed to the base logger. *)
LinesDone == lines \cup {call[p] : p \in {q \in Procs : at[q] = "mark" /\ call[q].op = "line"}}

(* A step of p in which no line is. *)
Quiet(p) == /\ LinesDone' = LinesDone
            /\ at'[p] = "send" => call'[p].time > clock
            /\ open \subseteq open' /\ clock' >= clock

-----------------------------------------------------------------------------
(* A goroutine is a user or the flusher. *)
LEMMA Goroutines ==
    /\ Flusher \in Procs /\ Flusher \notin Users /\ Users \subseteq Procs
    /\ \A p \in Procs : p # Flusher => p \in Users
BY BaseProgramAssumption DEF BaseProgramAssumption, Procs

(* The empty sequence has no indices. *)
LEMMA EmptyDomain == DOMAIN <<>> = {}
OBVIOUS

(* What is appended is the last element. *)
LEMMA Appended ==
    ASSUME NEW X, NEW s \in Seq(X), NEW x \in X
    PROVE  /\ Append(s, x) \in Seq(X) /\ Len(s) \in Nat /\ DOMAIN s = 1..Len(s)
           /\ DOMAIN Append(s, x) = 1..Len(s) + 1 /\ Append(s, x)[Len(s) + 1] = x
           /\ \A i \in DOMAIN s : Append(s, x)[i] = s[i]
OBVIOUS

(* The head and the rest of what is still to be visited. *)
LEMMA HeadAndTail ==
    ASSUME NEW s \in Seq(Spans), s # <<>>
    PROVE  /\ Head(s) \in Spans /\ Tail(s) \in Seq(Spans)
           /\ ToSet(s) \subseteq {Head(s)} \cup ToSet(Tail(s))
<1>1. Len(s) \in Nat /\ Len(s) >= 1 /\ DOMAIN s = 1..Len(s) /\ Head(s) = s[1]
  BY EmptySeq
<1>2. Tail(s) \in Seq(Spans) /\ Len(Tail(s)) = Len(s) - 1 /\ \A i \in 1..Len(s) - 1 : Tail(s)[i] = s[i + 1]
  BY <1>1, HeadTailProperties
<1>3. ASSUME NEW i \in DOMAIN s PROVE s[i] \in {Head(s)} \cup ToSet(Tail(s))
  <2>1. CASE i = 1
    BY <2>1, <1>1
  <2>2. CASE i # 1
    <3>1. i - 1 \in DOMAIN Tail(s) /\ Tail(s)[i - 1] = s[i]
      BY <2>2, <1>1, <1>2
    <3> QED BY <3>1 DEF ToSet
  <2> QED BY <2>1, <2>2
<1> QED BY <1>1, <1>2, <1>3 DEF ToSet

(* When no line is handed over. *)
LEMMA NoneHandedOver ==
    ASSUME NEW p \in Procs, Others(p), lines' = lines,
           ~(at[p] = "mark" /\ call[p].op = "line"), ~(at'[p] = "mark" /\ call'[p].op = "line")
    PROVE  LinesDone' = LinesDone
<1>1. \A q \in Procs : at[q] = "mark" /\ call[q].op = "line" => at'[q] = "mark" /\ call'[q].op = "line" /\ call'[q] = call[q]
  BY DEF Others
<1>2. \A q \in Procs : at'[q] = "mark" /\ call'[q].op = "line" => at[q] = "mark" /\ call[q].op = "line" /\ call'[q] = call[q]
  BY DEF Others
<1> QED BY <1>1, <1>2 DEF LinesDone

(* A call begins: it is the latest, and overlaps a flush that goes on. *)
LEMMA BeginFlows ==
    ASSUME FlowInv, NEW p, NEW op \in {"span", "line", "metadata", "done"}, NEW s \in Spans,
           NEW pl \in {"register", "send", "note", "mark", "visit"},
           Begin(p, op, s, pl), UNCHANGED <<choiceVars, open, active, dirty, draft, lines>>,
           attributes' \in [Spans -> SUBSET Nat], \A r \in Spans : IsFiniteSet(attributes'[r]),
           pl = "register" => "child" \notin open /\ \A q \in Users : at[q] # "register",
           pl # "register" => s \in open,
           pl = "send" => op = "line", pl = "note" => op = "metadata",
           pl = "mark" => op = "metadata", pl = "visit" => op = "done",
           NEW td \in Seq(Spans), todo' = [todo EXCEPT ![p] = td], pl # "visit" => td = todo[p]
    PROVE  FlowInv' /\ Others(p) /\ (pl # "register" => StillThere) /\ Quiet(p)
<1> USE DEF FlowInv, FlowTypeOK
<1>1. /\ p \in Procs /\ p \in Users /\ p # Flusher /\ at[p] = "idle"
      /\ clock' = clock + 1 /\ at' = [at EXCEPT ![p] = pl]
      /\ call' = [call EXCEPT ![p] = [op |-> op, span |-> s, time |-> clock + 1]]
      /\ raced' = (raced \/ at[Flusher] # "idle")
      /\ UNCHANGED <<base, shape, open, active, dirty, draft>>
  BY Goroutines DEF Begin, Busy, Go, choiceVars
<1>2. at'[p] = pl /\ call'[p] = [op |-> op, span |-> s, time |-> clock + 1] /\ Others(p)
  BY <1>1 DEF Others
<1>3. pl \in Places
  BY DEF Places, Calling, Stages, Chunks
<1>4. todo' \in [Procs -> Seq(Spans)]
  BY <1>1
<1>5. FlowTypeOK'
  BY <1>1, <1>3, <1>4 DEF Places, Calls
<1>6. \A q \in Procs : PlaceOK(q)'
  BY <1>1, <1>2 DEF PlaceOK, Others, Calling, Stages, Chunks, Calls
<1>7. OneStarts' /\ CallsDiffer'
  <2>1. OneStarts'
    BY <1>1, <1>2, Goroutines DEF PlaceOK, Others, OneStarts
  <2>2. \A q \in Procs \ {p} : at'[q] = at[q] /\ call'[q] = call[q]
    BY <1>2 DEF Others
  <2>3. \A q \in Procs : at[q] # "idle" => call[q].time <= clock
    BY DEF PlaceOK
  <2>4. call'[p].time = clock + 1 /\ clock \in Nat
    BY <1>2
  <2>5. \A q \in Procs \ {p} : at'[q] # "idle" => call'[q].time = call[q].time /\ call[q].time # clock + 1
    <3> SUFFICES ASSUME NEW q \in Procs \ {p}, at'[q] # "idle"
                 PROVE  call'[q].time = call[q].time /\ call[q].time # clock + 1
      OBVIOUS
    <3>1. call[q].time \in Nat
      <4>1. call[q] \in Calls
        OBVIOUS
      <4> QED BY <4>1 DEF Calls
    <3> QED BY <2>2, <2>3, <2>4, <3>1
  <2>6. ASSUME NEW q \in Procs, NEW r \in Procs, at'[q] # "idle", at'[r] # "idle", call'[q].time = call'[r].time
        PROVE  q = r
    <3>1. CASE q # p /\ r # p
      BY <2>2, <2>6, <3>1 DEF CallsDiffer
    <3> QED BY <2>4, <2>5, <2>6, <3>1
  <2>7. CallsDiffer'
    BY <2>6 DEF CallsDiffer
  <2> QED BY <2>1, <2>7
<1>8. \A q \in Procs : at'[q] \in Stages => at[q] \in Stages /\ q # p
  BY <1>1, <1>2 DEF Others, Stages
<1>9. Drafted' /\ DonesApart'
  BY <1>1, <1>2, <1>8 DEF Others, Drafted, DonesApart
<1>10. Alone'
  BY <1>1, <1>2, <1>8, Goroutines DEF Others, Alone
<1>s. pl # "register" => StillThere
  <2>1. open' = open /\ at[p] # "register" /\ at'[p] = pl
    BY <1>1, <1>2
  <2> QED BY <2>1, <1>2 DEF StillThere, ChildThere, Others
<1>q. Quiet(p)
  <2>1. lines' = lines /\ open \subseteq open' /\ clock' >= clock /\ at[p] # "mark" /\ call'[p].time > clock
    BY <1>1, <1>2
  <2>2. ~(at'[p] = "mark" /\ call'[p].op = "line")
    BY <1>1, <1>2
  <2> QED BY <1>1, <1>2, <2>1, <2>2, NoneHandedOver DEF Quiet
<1> QED BY <1>q, <1>s, <1>2, <1>5, <1>6, <1>7, <1>9, <1>10

(* The sub-span can be used. *)
LEMMA RegisterFlows ==
    ASSUME FlowInv, NEW p \in Procs, Register(p)
    PROVE  FlowInv' /\ Others(p) /\ StillThere /\ Quiet(p)
<1> USE DEF FlowInv, FlowTypeOK
<1>1. /\ at[p] = "register" /\ at' = [at EXCEPT ![p] = "idle"]
      /\ open' = open \cup {"child"} /\ active' = active \cup {"child"} /\ dirty' = TRUE
      /\ UNCHANGED <<base, shape, clock, call, todo, attributes, raced, draft>>
  BY DEF Register, Go, choiceVars
<1>2. at'[p] = "idle" /\ Others(p) /\ p \in Users /\ p # Flusher
  BY <1>1, Goroutines DEF Others, PlaceOK
<1>3. FlowTypeOK'
  BY <1>1 DEF Places, Spans
<1>4. \A q \in Procs \ {p} : at[q] # "register"
  BY <1>1 DEF OneStarts
<1>5. todo[p] = <<>>
  BY <1>1 DEF PlaceOK, Stages
<1>6. \A q \in Procs : PlaceOK(q)'
  BY <1>1, <1>2, <1>4, <1>5 DEF PlaceOK, Others, Calling, Stages, Chunks
<1>7. \A q \in Procs : at'[q] # "idle" => q # p
  BY <1>2
<1>9. OneStarts' /\ CallsDiffer'
  BY <1>1, <1>2, <1>7 DEF Others, OneStarts, CallsDiffer
<1>10. \A q \in Procs : at'[q] \in Stages => q # p
  BY <1>7 DEF Stages
<1>11. Drafted' /\ DonesApart'
  BY <1>1, <1>2, <1>10 DEF Others, Drafted, DonesApart
<1>8. Alone'
  BY <1>1, <1>2, Goroutines DEF Others, Alone, Stages
<1>s. StillThere
  BY <1>1 DEF StillThere, ChildThere
<1>q. Quiet(p)
  <2>1. lines' = lines /\ open \subseteq open' /\ clock' >= clock /\ at[p] # "mark" /\ at'[p] # "send" /\ at'[p] # "mark"
    BY <1>1, <1>2 DEF Register
  <2> QED BY <2>1, <1>2, NoneHandedOver, Goroutines DEF Quiet
<1> QED BY <1>q, <1>s, <1>2, <1>3, <1>6, <1>8, <1>9, <1>11

(* What a call did is noted. *)
LEMMA MarkFlows ==
    ASSUME FlowInv, NEW p \in Procs, Mark(p)
    PROVE  FlowInv' /\ Others(p) /\ StillThere /\ Quiet(p)
<1> USE DEF FlowInv, FlowTypeOK
<1>1. /\ at[p] = "mark" /\ at' = [at EXCEPT ![p] = "idle"]
      /\ active' = active \cup {call[p].span} /\ dirty' = TRUE
      /\ UNCHANGED <<base, shape, clock, open, call, todo, attributes, raced, draft>>
  BY DEF Mark, Go, choiceVars
<1>2. at'[p] = "idle" /\ Others(p) /\ p \in Users /\ p # Flusher /\ call[p].span \in open
  BY <1>1, Goroutines DEF Others, PlaceOK, Calling
<1>3. FlowTypeOK'
  BY <1>1, <1>2 DEF Places
<1>5. todo[p] = <<>>
  BY <1>1 DEF PlaceOK, Stages
<1>6. \A q \in Procs : PlaceOK(q)'
  BY <1>1, <1>2, <1>5 DEF PlaceOK, Others, Calling, Stages, Chunks
<1>7. \A q \in Procs : at'[q] # "idle" => q # p
  BY <1>2
<1>9. OneStarts' /\ CallsDiffer'
  BY <1>1, <1>2, <1>7 DEF Others, OneStarts, CallsDiffer
<1>10. \A q \in Procs : at'[q] \in Stages => q # p
  BY <1>7 DEF Stages
<1>11. Drafted' /\ DonesApart'
  BY <1>1, <1>2, <1>10 DEF Others, Drafted, DonesApart
<1>8. Alone'
  BY <1>1, <1>2, Goroutines DEF Others, Alone, Stages
<1>s. StillThere
  <2>1. open' = open /\ at[p] # "register" /\ at'[p] # "register"
    BY <1>1, <1>2
  <2> QED BY <2>1, <1>2 DEF StillThere, ChildThere, Others
<1>q. Quiet(p)
  <2>1. lines' = IF call[p].op = "line" THEN lines \cup {call[p]} ELSE lines
    BY DEF Mark
  <2>2. \A q \in Procs : at'[q] = "mark" <=> at[q] = "mark" /\ q # p
    BY <1>1, <1>2 DEF Others
  <2>3. LinesDone' = LinesDone
    BY <1>1, <2>1, <2>2 DEF LinesDone
  <2> QED BY <1>1, <1>2, <2>3 DEF Quiet
<1> QED BY <1>q, <1>s, <1>2, <1>3, <1>6, <1>8, <1>9, <1>11

(* What is to be visited, in a call about the request or about a span. *)
LEMMA ToVisit ==
    /\ <<"request", "child">> \in Seq(Spans) /\ ToSet(<<"request", "child">>) = Spans
    /\ \A s \in Spans : <<s>> \in Seq(Spans)
<1>1. <<"request", "child">> \in Seq(Spans) /\ \A s \in Spans : <<s>> \in Seq(Spans)
  BY DEF Spans
<1>2. PICK x \in Seq(Spans) : x = <<"request", "child">>
  BY <1>1
<1>3. DOMAIN x = {1, 2} /\ x[1] = "request" /\ x[2] = "child"
  BY <1>2
<1>4. ToSet(x) = Spans
  BY <1>3 DEF ToSet, Spans
<1> QED BY <1>1, <1>2, <1>4

(* The program calls Done. *)
LEMMA StartDoneFlows ==
    ASSUME FlowInv, NEW p \in Procs, NEW s \in Spans, StartDone(p, s)
    PROVE  FlowInv' /\ Others(p) /\ StillThere /\ Quiet(p)
<1>1. PICK td \in Seq(Spans) : todo' = [todo EXCEPT ![p] = td]
  BY ToVisit DEF StartDone
<1>2. /\ s \in open /\ Begin(p, "done", s, "visit")
      /\ UNCHANGED <<choiceVars, open, active, dirty, draft, attributes, lines>>
  BY DEF StartDone
<1>3. attributes' \in [Spans -> SUBSET Nat] /\ \A r \in Spans : IsFiniteSet(attributes'[r])
  BY <1>2 DEF FlowInv, FlowTypeOK
<1> QED BY <1>1, <1>2, <1>3, BeginFlows

(* A flush begins: all that is active is to be visited. *)
LEMMA StartFlushFlows ==
    ASSUME FlowInv, StartFlush
    PROVE  FlowInv' /\ Others(Flusher) /\ StillThere /\ Quiet(Flusher)
<1> USE DEF FlowInv, FlowTypeOK
<1>1. PICK td \in Seq(Spans) : td = <<"request", "child">>
  BY ToVisit
<1>2. ToSet(td) = Spans
  BY <1>1, ToVisit
<1>3. /\ at[Flusher] = "idle" /\ at' = [at EXCEPT ![Flusher] = "visit"] /\ clock' = clock + 1
      /\ call' = [call EXCEPT ![Flusher] = [op |-> "flush", span |-> "request", time |-> clock + 1]]
      /\ todo' = [todo EXCEPT ![Flusher] = td] /\ dirty' = FALSE
      /\ UNCHANGED <<base, shape, open, active, attributes, draft>>
  BY <1>1 DEF StartFlush, Busy, Go, choiceVars
<1>r. raced' \in BOOLEAN /\ (~raced' => ~raced /\ \A u \in Users : at[u] = "idle")
  BY Zenon DEF StartFlush, Busy
<1>4. /\ at'[Flusher] = "visit" /\ Others(Flusher) /\ todo'[Flusher] = td
      /\ call'[Flusher] = [op |-> "flush", span |-> "request", time |-> clock + 1]
  BY <1>3, Goroutines DEF Others
<1>5. FlowTypeOK'
  <2>1. "request" \in Spans /\ "visit" \in Places
    BY DEF Spans, Places
  <2>2. call' \in [Procs -> Calls]
    BY <1>3, <2>1, Goroutines DEF Calls
  <2>3. at' \in [Procs -> Places] /\ todo' \in [Procs -> Seq(Spans)] /\ clock' \in Nat
    BY <1>3, <2>1, Goroutines
  <2> QED BY <1>3, <1>r, <2>2, <2>3
<1>6. \A q \in Procs : PlaceOK(q)'
  BY <1>3, <1>4, Goroutines DEF PlaceOK, Others, Calling, Stages, Chunks, Calls
<1>7. OneStarts' /\ CallsDiffer'
  <2>1. OneStarts'
    BY <1>3, <1>4, Goroutines DEF Others, OneStarts
  <2>2. \A q \in Procs : at[q] # "idle" => call[q].time # clock + 1
    <3>1. \A q \in Procs : call[q].time \in Nat
      BY DEF Calls
    <3> QED BY <3>1 DEF PlaceOK
  <2>3. CallsDiffer'
    BY <1>3, <1>4, <2>2, Goroutines DEF Others, CallsDiffer
  <2> QED BY <2>1, <2>3
<1>8. \A q \in Procs : at'[q] \in Stages => at[q] \in Stages /\ q # Flusher
  BY <1>3, <1>4 DEF Others, Stages
<1>9. Drafted' /\ DonesApart'
  BY <1>3, <1>4, <1>8 DEF Others, Drafted, DonesApart
<1>10. Alone'
  BY <1>2, <1>3, <1>r, <1>4, <1>8, Goroutines DEF Others, Alone
<1>s. StillThere
  <2>1. open' = open /\ at[Flusher] # "register" /\ at'[Flusher] # "register"
    BY <1>3, <1>4
  <2> QED BY <2>1, <1>4 DEF StillThere, ChildThere, Others
<1>q. Quiet(Flusher)
  <2>1. lines' = lines /\ open \subseteq open' /\ clock' >= clock /\ at[Flusher] # "mark" /\ at'[Flusher] # "send" /\ at'[Flusher] # "mark"
    BY <1>3, <1>4 DEF StartFlush
  <2> QED BY <2>1, <1>4, NoneHandedOver, Goroutines DEF Quiet
<1> QED BY <1>q, <1>s, <1>4, <1>5, <1>6, <1>7, <1>9, <1>10

(* The first half of the calls about a span. *)
LEMMA SpanFlows ==
    ASSUME FlowInv, NEW p, Span(p)
    PROVE  /\ FlowInv' /\ Others(p) /\ ChildThere' /\ ~ChildThere /\ Quiet(p) /\ p \in Users /\ at'[p] = "register"
           /\ "child" \notin open /\ (\A q \in Users : at[q] # "register")
           /\ UNCHANGED <<base, shape, open, version, draft, attributes, endTime, lines>>
<1>1. todo \in [Procs -> Seq(Spans)] /\ "child" \in Spans /\ p \in Users /\ p \in Procs
  BY Goroutines DEF FlowInv, FlowTypeOK, Spans, Span, Begin
<1>2. PICK td \in Seq(Spans) : td = todo[p]
  BY <1>1
<1>3. /\ todo' = [todo EXCEPT ![p] = td] /\ Begin(p, "span", "child", "register")
      /\ "child" \notin open /\ (\A q \in Users : at[q] # "register")
      /\ UNCHANGED <<choiceVars, open, active, dirty, version, draft, attributes, endTime, lines>>
  BY <1>1, <1>2 DEF Span
<1>4. attributes' \in [Spans -> SUBSET Nat] /\ \A r \in Spans : IsFiniteSet(attributes'[r])
  BY <1>3 DEF FlowInv, FlowTypeOK
<1>5. FlowInv' /\ Others(p) /\ Quiet(p)
  BY <1>1, <1>2, <1>3, <1>4, BeginFlows
<1>6. at'[p] = "register" /\ UNCHANGED <<base, shape>>
  BY <1>1, <1>3 DEF Begin, Go, choiceVars, FlowInv, FlowTypeOK
<1>7. ChildThere' /\ ~ChildThere
  BY <1>1, <1>3, <1>6, Goroutines DEF ChildThere, FlowInv, PlaceOK
<1> QED BY <1>7, <1>1, <1>3, <1>5, <1>6

(* A line is numbered with the time of its call, and its user is about to send it. *)
LEMMA LineFlows ==
    ASSUME FlowInv, NEW p, NEW s \in Spans, Line(p, s)
    PROVE  /\ FlowInv' /\ Others(p) /\ StillThere /\ Quiet(p) /\ p \in Users /\ at'[p] = "send"
           /\ call'[p] = [op |-> "line", span |-> s, time |-> clock']
           /\ UNCHANGED <<base, shape, open, version, draft, attributes, output, lines>> /\ clock' = clock + 1
<1>1. todo \in [Procs -> Seq(Spans)] /\ p \in Users /\ p \in Procs
  BY Goroutines DEF FlowInv, FlowTypeOK, Line, Begin
<1>2. PICK td \in Seq(Spans) : td = todo[p]
  BY <1>1
<1>3. /\ todo' = [todo EXCEPT ![p] = td] /\ Begin(p, "line", s, "send") /\ s \in open
      /\ UNCHANGED <<choiceVars, open, active, dirty, version, draft, attributes, output, lines>>
  BY <1>1, <1>2 DEF Line
<1>4. attributes' \in [Spans -> SUBSET Nat] /\ \A r \in Spans : IsFiniteSet(attributes'[r])
  BY <1>3 DEF FlowInv, FlowTypeOK
<1>5. FlowInv' /\ Others(p) /\ StillThere /\ Quiet(p)
  BY <1>1, <1>2, <1>3, <1>4, BeginFlows
<1>6. /\ at'[p] = "send" /\ UNCHANGED <<base, shape>> /\ clock' = clock + 1
      /\ call'[p] = [op |-> "line", span |-> s, time |-> clock']
  BY <1>1, <1>3 DEF Begin, Go, choiceVars, FlowInv, FlowTypeOK
<1> QED BY <1>1, <1>3, <1>5, <1>6

(* Metadata is given a time, and its user is about to note it or to mark the span. *)
LEMMA MetadataFlows ==
    ASSUME FlowInv, NEW p, NEW s \in Spans, NEW pl \in {"note", "mark"}, Metadata(p, s, pl)
    PROVE  /\ FlowInv' /\ Others(p) /\ StillThere /\ Quiet(p) /\ p \in Users /\ at'[p] = pl
           /\ call'[p] = [op |-> "metadata", span |-> s, time |-> clock']
           /\ UNCHANGED <<base, shape, open, version, draft, output, endTime, lines>> /\ clock' = clock + 1
<1>1. todo \in [Procs -> Seq(Spans)] /\ p \in Users /\ p \in Procs
  BY Goroutines DEF FlowInv, FlowTypeOK, Metadata, Begin
<1>2. PICK td \in Seq(Spans) : td = todo[p]
  BY <1>1
<1>3. /\ todo' = [todo EXCEPT ![p] = td] /\ Begin(p, "metadata", s, pl) /\ s \in open
      /\ UNCHANGED <<choiceVars, open, active, dirty, version, draft, output, endTime, lines>>
  BY <1>1, <1>2 DEF Metadata
<1>4. /\ at'[p] = pl /\ UNCHANGED <<base, shape>> /\ clock' = clock + 1 /\ clock' \in Nat
      /\ call'[p] = [op |-> "metadata", span |-> s, time |-> clock']
  BY <1>1, <1>3 DEF Begin, Go, choiceVars, FlowInv, FlowTypeOK
<1>5. attributes' = [attributes EXCEPT ![s] = attributes[s] \cup {clock'}]
  BY DEF Metadata
<1>6. attributes' \in [Spans -> SUBSET Nat] /\ \A r \in Spans : IsFiniteSet(attributes'[r])
  <2>1. attributes \in [Spans -> SUBSET Nat] /\ \A r \in Spans : IsFiniteSet(attributes[r])
    BY DEF FlowInv, FlowTypeOK
  <2>2. PICK A \in SUBSET Nat : A = attributes[s] \cup {clock'}
    BY <1>4, <2>1
  <2>3. IsFiniteSet(A)
    BY <2>1, <2>2, FS_AddElement
  <2>4. attributes' = [attributes EXCEPT ![s] = A]
    BY <1>5, <2>2
  <2> HIDE <2>2
  <2> QED BY <2>1, <2>3, <2>4
<1>7. FlowInv' /\ Others(p) /\ StillThere /\ Quiet(p)
  BY <1>1, <1>2, <1>3, <1>6, BeginFlows
<1> QED BY <1>1, <1>3, <1>4, <1>7

(* A record is no empty sequence. *)
LEMMA DraftShows == \A s, t : [span |-> s, time |-> t] # <<>>
<1> SUFFICES ASSUME NEW s, NEW t PROVE [span |-> s, time |-> t] # <<>>
  OBVIOUS
<1>1. "span" \in DOMAIN [span |-> s, time |-> t]
  OBVIOUS
<1> QED BY <1>1, EmptyDomain

(* A Done of the base logger is entered: no other is in one of this span. *)
LEMMA VisitFlows ==
    ASSUME FlowInv, NEW p \in Procs, Visit(p)
    PROVE  /\ FlowInv' /\ Others(p) /\ StillThere /\ Quiet(p)
           /\ at'[p] = "done" /\ todo' = todo /\ \E t \in Nat : draft'[p] = [span |-> Head(todo[p]), time |-> t]
<1> USE DEF FlowInv, FlowTypeOK
<1>1. PICK t : /\ t = (IF p = Flusher /\ Head(todo[p]) = "request" THEN call[p].time ELSE clock + 1)
               /\ draft' = [draft EXCEPT ![p] = [span |-> Head(todo[p]), time |-> t]]
               /\ clock' = Larger(clock, t)
  BY DEF Visit
<1>2. /\ at[p] = "visit" /\ todo[p] # <<>> /\ at' = [at EXCEPT ![p] = "done"]
      /\ Explicit(p) \/ Head(todo[p]) \in active
      /\ base \in Overlapping \/ ~\E q \in Procs : InDone(q, Head(todo[p]))
      /\ active' = active \ {Head(todo[p])}
      /\ UNCHANGED <<base, shape, open, call, todo, attributes, dirty, raced>>
  BY DEF Visit, Go, choiceVars
<1>3. t \in Nat /\ clock' \in Nat /\ clock' >= clock
  <2>1. call[p].time \in Nat
    BY DEF Calls
  <2> QED BY <1>1, <2>1 DEF Larger
<1>4. at'[p] = "done" /\ Others(p) /\ DOMAIN draft' = Procs
  BY <1>1, <1>2 DEF Others, Drafted
<1>5. draft'[p] = [span |-> Head(todo[p]), time |-> t]
  BY <1>1 DEF Drafted
<1>6. FlowTypeOK'
  BY <1>2, <1>3 DEF Places, Stages
<1>7. Head(todo[p]) \in open
  BY <1>2 DEF Explicit, PlaceOK
<1>8. \A q \in Procs : PlaceOK(q)'
  <2>1. PlaceOK(p)'
    <3>1. call[p].time \in Nat /\ call'[p] = call[p] /\ todo'[p] = todo[p]
      BY <1>2 DEF Calls
    <3>2. call[p].time <= clock'
      BY <1>2, <1>3, <3>1 DEF PlaceOK
    <3> QED BY <1>2, <1>4, <1>7, <3>1, <3>2 DEF PlaceOK, Calling, Stages, Chunks
  <2>2. ASSUME NEW q \in Procs \ {p} PROVE PlaceOK(q)'
    <3>1. call[q].time \in Nat
      BY DEF Calls
    <3> QED BY <1>2, <1>3, <1>4, <3>1 DEF PlaceOK, Others
  <2> QED BY <2>1, <2>2
<1>9. OneStarts' /\ CallsDiffer'
  BY <1>2, <1>4 DEF Others, OneStarts, CallsDiffer
<1>10. Drafted'
  BY <1>2, <1>4, <1>5, DraftShows DEF Others, Drafted
<1>11. ASSUME base \notin Overlapping, NEW q \in Procs \ {p}, at[q] \in Stages
       PROVE  Head(todo[q]) # Head(todo[p])
  BY <1>2, <1>11 DEF InDone, Drafted, PlaceOK
<1>12. DonesApart'
  BY <1>2, <1>4, <1>11 DEF Others, DonesApart
<1>13. Alone'
  <2>1. ASSUME ~raced, p = Flusher
        PROVE  active' \subseteq ToSet(todo[Flusher]) /\ Head(todo[Flusher]) \notin active'
    BY <1>2, <2>1 DEF Alone
  <2>2. ASSUME ~raced, p # Flusher
        PROVE  at[Flusher] = "idle" /\ at'[Flusher] = "idle"
    BY <1>2, <1>4, <2>2, Goroutines DEF Alone, Others
  <2>3. ASSUME ~raced, p = Flusher, NEW u \in Users PROVE at'[u] = "idle"
    BY <1>2, <1>4, <2>3, Goroutines DEF Alone, Others
  <2>4. CASE p = Flusher
    <3>1. ~raced => active' \subseteq ToSet(todo[Flusher]) /\ Head(todo[Flusher]) \notin active'
      BY <2>1, <2>4
    <3>2. ~raced => \A u \in Users : at'[u] = "idle"
      BY <2>3, <2>4
    <3> QED BY <1>2, <3>1, <3>2 DEF Alone
  <2>5. CASE p # Flusher
    BY <1>2, <2>2, <2>5 DEF Alone, Stages
  <2> QED BY <2>4, <2>5
<1>s. StillThere
  <2>1. open' = open /\ at[p] # "register" /\ at'[p] # "register"
    BY <1>2, <1>4
  <2> QED BY <2>1, <1>4 DEF StillThere, ChildThere, Others
<1>q. Quiet(p)
  <2>1. lines' = lines /\ open \subseteq open' /\ clock' >= clock /\ at[p] # "mark" /\ at'[p] # "send" /\ at'[p] # "mark"
    BY <1>2, <1>3, <1>4 DEF Visit
  <2> QED BY <2>1, <1>4, NoneHandedOver, Goroutines DEF Quiet
<1> QED BY <1>q, <1>s, <1>2, <1>3, <1>4, <1>5, <1>6, <1>8, <1>9, <1>10, <1>12, <1>13

(* What is not active is passed over. *)
LEMMA PassFlows ==
    ASSUME FlowInv, NEW p \in Procs, Pass(p)
    PROVE  FlowInv' /\ Others(p) /\ StillThere /\ Quiet(p)
<1> USE DEF FlowInv, FlowTypeOK
<1>1. /\ at[p] = "visit" /\ todo[p] # <<>> /\ Head(todo[p]) \notin active
      /\ todo' = [todo EXCEPT ![p] = Tail(todo[p])]
      /\ UNCHANGED <<base, shape, clock, open, active, at, call, attributes, dirty, raced, draft>>
  BY DEF Pass, choiceVars
<1>2. Others(p) /\ todo'[p] = Tail(todo[p])
  BY <1>1 DEF Others
<1>3. Tail(todo[p]) \in Seq(Spans) /\ ToSet(todo[p]) \subseteq {Head(todo[p])} \cup ToSet(Tail(todo[p]))
  BY <1>1, HeadAndTail
<1>4. FlowTypeOK'
  BY <1>1, <1>3
<1>5. at[p] \notin Stages /\ \A q \in Procs : at[q] \in Stages => todo'[q] = todo[q]
  BY <1>1, <1>2 DEF Others, Stages
<1>6. \A q \in Procs : PlaceOK(q)'
  BY <1>1, <1>2, <1>5 DEF PlaceOK, Others
<1>7. OneStarts' /\ CallsDiffer' /\ Drafted' /\ DonesApart'
  BY <1>1, <1>5 DEF OneStarts, CallsDiffer, Drafted, DonesApart
<1>8. Alone'
  BY <1>1, <1>2, <1>3, <1>5, Goroutines DEF Others, Alone
<1>s. StillThere
  <2>1. open' = open /\ at[p] # "register" /\ at'[p] # "register"
    BY <1>1
  <2> QED BY <2>1, <1>2 DEF StillThere, ChildThere, Others
<1>q. Quiet(p)
  <2>1. lines' = lines /\ open \subseteq open' /\ clock' >= clock /\ at[p] # "mark" /\ at'[p] # "send" /\ at'[p] # "mark"
    BY <1>1 DEF Pass
  <2> QED BY <2>1, <1>2, NoneHandedOver, Goroutines DEF Quiet
<1> QED BY <1>q, <1>s, <1>2, <1>4, <1>6, <1>7, <1>8

(* Everything is visited. *)
LEMMA VisitedFlows ==
    ASSUME FlowInv, NEW p \in Procs, Visited(p)
    PROVE  FlowInv' /\ Others(p) /\ StillThere /\ Quiet(p)
<1> USE DEF FlowInv, FlowTypeOK
<1>0. PICK pl \in {"flush", "idle"} : pl = IF p = Flusher THEN "flush" ELSE "idle"
  OBVIOUS
<1>1. /\ at[p] = "visit" /\ todo[p] = <<>> /\ at' = [at EXCEPT ![p] = pl]
      /\ dirty' \in BOOLEAN
      /\ UNCHANGED <<base, shape, clock, open, active, call, todo, attributes, raced, draft>>
  BY <1>0 DEF Visited, Go, choiceVars
<1>2. Others(p) /\ at'[p] = pl
  BY <1>1 DEF Others
<1>3. FlowTypeOK'
  BY <1>1 DEF Places, Chunks
<1>4. \A q \in Procs : at'[q] \in Stages => q # p
  BY <1>2 DEF Stages
<1>5. \A q \in Procs : PlaceOK(q)'
  BY <1>0, <1>1, <1>2 DEF PlaceOK, Others, Calling, Stages, Chunks
<1>6. OneStarts' /\ CallsDiffer'
  BY <1>1, <1>2 DEF Others, OneStarts, CallsDiffer
<1>7. Drafted' /\ DonesApart'
  BY <1>1, <1>2, <1>4 DEF Others, Drafted, DonesApart
<1>8. Alone'
  BY <1>0, <1>1, <1>2, <1>4, Goroutines DEF Others, Alone
<1>s. StillThere
  <2>1. open' = open /\ at[p] # "register" /\ at'[p] # "register"
    BY <1>0, <1>1, <1>2
  <2> QED BY <2>1, <1>2 DEF StillThere, ChildThere, Others
<1>q. Quiet(p)
  <2>1. lines' = lines /\ open \subseteq open' /\ clock' >= clock /\ at[p] # "mark" /\ at'[p] # "send" /\ at'[p] # "mark"
    BY <1>0, <1>1, <1>2 DEF Visited
  <2> QED BY <2>1, <1>2, NoneHandedOver, Goroutines DEF Quiet
<1> QED BY <1>q, <1>s, <1>2, <1>3, <1>5, <1>6, <1>7, <1>8

(* A step of a Done of the base logger. *)
LEMMA DoneStepFlows ==
    ASSUME FlowInv, NEW p \in Procs, NEW from \in Stages, NEW to \in Stages, DoneStep(p, from, to),
           DOMAIN draft' = Procs, \A q \in Procs \ {p} : draft'[q] = draft[q],
           draft'[p] # <<>>, draft'[p].span = draft[p].span
    PROVE  FlowInv' /\ Others(p) /\ StillThere /\ Quiet(p)
<1> USE DEF FlowInv, FlowTypeOK
<1>1. /\ at[p] = from /\ at' = [at EXCEPT ![p] = to]
      /\ UNCHANGED <<base, shape, clock, open, active, call, todo, attributes, dirty, raced>>
  BY DEF DoneStep, Go, choiceVars
<1>2. Others(p) /\ at'[p] = to
  BY <1>1 DEF Others
<1>3. FlowTypeOK'
  BY <1>1 DEF Places
<1>4. \A q \in Procs : at'[q] \in Stages <=> at[q] \in Stages
  BY <1>1, <1>2 DEF Others
<1>5. to \notin {"idle", "register", "visit"} \cup Calling \cup Chunks
  BY DEF Stages, Calling, Chunks
<1>6. \A q \in Procs : PlaceOK(q)'
  <2>1. PlaceOK(p)'
    BY <1>1, <1>2, <1>5 DEF PlaceOK, Calling, Stages, Chunks
  <2> QED BY <1>1, <1>2, <2>1 DEF PlaceOK, Others
<1>7. OneStarts' /\ CallsDiffer'
  <2>1. at[p] # "idle"
    BY <1>1 DEF Stages
  <2> QED BY <1>1, <1>2, <1>5, <2>1 DEF Others, OneStarts, CallsDiffer
<1>8. Drafted' /\ DonesApart'
  BY <1>1, <1>2, <1>4 DEF Others, Drafted, DonesApart
<1>9. Alone'
  <2>1. at[p] # "idle" /\ at'[p] # "idle"
    BY <1>1, <1>2 DEF Stages
  <2>2. \A q \in Procs : at'[q] = "idle" <=> at[q] = "idle"
    BY <1>2, <2>1 DEF Others
  <2> QED BY <1>1, <1>4, <2>2, Goroutines DEF Alone
<1>s. StillThere
  <2>1. open' = open /\ at[p] # "register" /\ at'[p] # "register"
    BY <1>1, <1>2 DEF Stages
  <2> QED BY <2>1, <1>2 DEF StillThere, ChildThere, Others
<1>q. Quiet(p)
  <2>1. lines' = lines /\ open \subseteq open' /\ clock' >= clock /\ at[p] # "mark" /\ at'[p] # "send" /\ at'[p] # "mark"
    BY <1>1, <1>2 DEF Stages, DoneStep
  <2> QED BY <2>1, <1>2, NoneHandedOver, Goroutines DEF Quiet
<1> QED BY <1>q, <1>s, <1>2, <1>3, <1>6, <1>7, <1>8, <1>9

(* The last step of one. *)
LEMMA DoneEndsFlows ==
    ASSUME FlowInv, NEW p \in Procs, NEW from \in Stages, DoneEnds(p, from)
    PROVE  FlowInv' /\ Others(p) /\ StillThere /\ Quiet(p)
<1> USE DEF FlowInv, FlowTypeOK
<1>1. /\ at[p] = from /\ at' = [at EXCEPT ![p] = "visit"]
      /\ todo' = [todo EXCEPT ![p] = Tail(todo[p])] /\ draft' = [draft EXCEPT ![p] = <<>>]
      /\ UNCHANGED <<base, shape, clock, open, active, call, attributes, dirty, raced>>
  BY DEF DoneEnds, Go, choiceVars
<1>2. Others(p) /\ at'[p] = "visit" /\ todo'[p] = Tail(todo[p]) /\ DOMAIN draft' = Procs
  BY <1>1 DEF Others, Drafted
<1>3. Tail(todo[p]) \in Seq(Spans) /\ ToSet(todo[p]) \subseteq {Head(todo[p])} \cup ToSet(Tail(todo[p]))
  BY <1>1, HeadAndTail DEF PlaceOK
<1>4. FlowTypeOK'
  BY <1>1, <1>3 DEF Places
<1>5. \A q \in Procs : at'[q] \in Stages => at[q] \in Stages /\ q # p
  BY <1>1, <1>2 DEF Others, Stages
<1>6. \A q \in Procs : PlaceOK(q)'
  <2>1. PlaceOK(p)'
    BY <1>1, <1>2 DEF PlaceOK, Calling, Stages, Chunks
  <2> QED BY <1>1, <1>2, <2>1 DEF PlaceOK, Others
<1>7. OneStarts' /\ CallsDiffer'
  <2>1. at[p] # "idle"
    BY <1>1 DEF Stages
  <2> QED BY <1>1, <1>2, <2>1 DEF Others, OneStarts, CallsDiffer
<1>8. Drafted' /\ DonesApart'
  BY <1>1, <1>2, <1>5 DEF Others, Drafted, DonesApart
<1>9. Alone'
  <2>1. at[p] # "idle" /\ at'[p] # "idle"
    BY <1>1, <1>2 DEF Stages
  <2>2. \A q \in Procs : at'[q] = "idle" <=> at[q] = "idle"
    BY <1>2, <2>1 DEF Others
  <2>3. CASE p = Flusher
    BY <1>1, <1>2, <1>3, <1>5, <2>2, <2>3, Goroutines DEF Alone
  <2>4. CASE p # Flusher
    <3>1. ~raced => at[Flusher] = "idle"
      BY <2>1, <2>4, Goroutines DEF Alone
    <3> QED BY <1>1, <2>2, <3>1, Goroutines DEF Alone, Stages
  <2> QED BY <2>3, <2>4
<1>s. StillThere
  <2>1. open' = open /\ at[p] # "register" /\ at'[p] # "register"
    BY <1>1, <1>2 DEF Stages
  <2> QED BY <2>1, <1>2 DEF StillThere, ChildThere, Others
<1>q. Quiet(p)
  <2>1. lines' = lines /\ open \subseteq open' /\ clock' >= clock /\ at[p] # "mark" /\ at'[p] # "send" /\ at'[p] # "mark"
    BY <1>1, <1>2 DEF Stages, DoneEnds
  <2> QED BY <2>1, <1>2, NoneHandedOver, Goroutines DEF Quiet
<1> QED BY <1>q, <1>s, <1>2, <1>4, <1>6, <1>7, <1>8, <1>9

(* A step of another call of the base logger. *)
LEMMA BaseStepFlows ==
    ASSUME FlowInv, NEW p \in Procs, NEW from, NEW to, BaseStep(p, from, to),
           \/ from \in {"send", "note"} /\ to \in {"mark"}
           \/ from \in Chunks /\ to \in Chunks \cup {"idle"},
           DOMAIN draft' = Procs, \A q \in Procs \ {p} : draft'[q] = draft[q]
    PROVE  FlowInv' /\ Others(p) /\ StillThere
           /\ (from # "send" => Quiet(p))
           /\ (from = "send" => LinesDone' = LinesDone \cup {call[p]} /\ UNCHANGED <<open, clock>>)
<1> USE DEF FlowInv, FlowTypeOK
<1>1. /\ at[p] = from /\ at' = [at EXCEPT ![p] = to]
      /\ UNCHANGED <<base, shape, clock, open, active, call, todo, attributes, dirty, raced>>
  BY DEF BaseStep, Go, choiceVars
<1>2. Others(p) /\ at'[p] = to
  BY <1>1 DEF Others
<1>3. FlowTypeOK'
  BY <1>1 DEF Places, Calling
<1>4. \A q \in Procs : at'[q] \in Stages => at[q] \in Stages /\ q # p
  BY <1>1, <1>2 DEF Others, Stages, Chunks
<1>5. at[p] # "idle" /\ at[p] \notin Stages /\ at'[p] # "register" /\ at'[p] \notin Stages
  BY <1>1, <1>2 DEF Chunks, Stages
<1>6. \A q \in Procs : PlaceOK(q)'
  <2>1. PlaceOK(p)'
    BY <1>1, <1>2 DEF PlaceOK, Calling, Stages, Chunks
  <2> QED BY <1>1, <1>2, <2>1 DEF PlaceOK, Others
<1>7. OneStarts' /\ CallsDiffer'
  BY <1>1, <1>2, <1>5 DEF Others, OneStarts, CallsDiffer
<1>8. Drafted' /\ DonesApart'
  BY <1>1, <1>2, <1>4 DEF Others, Drafted, DonesApart
<1>9. Alone'
  <2>1. \A q \in Procs : at'[q] # "idle" => at[q] # "idle"
    BY <1>2, <1>5 DEF Others
  <2> QED BY <1>1, <1>4, <2>1, Goroutines DEF Alone
<1>s. StillThere
  <2>1. open' = open /\ at[p] # "register" /\ at'[p] # "register"
    BY <1>1, <1>2 DEF Chunks
  <2> QED BY <2>1, <1>2 DEF StillThere, ChildThere, Others
<1>q. from # "send" => Quiet(p)
  <2>1. lines' = lines /\ open \subseteq open' /\ clock' >= clock /\ at[p] # "mark" /\ at'[p] # "send"
    BY <1>1, <1>2 DEF BaseStep, Chunks
  <2>2. from # "send" => ~(at'[p] = "mark" /\ call'[p].op = "line")
    BY <1>1, <1>2 DEF PlaceOK, Chunks
  <2> QED BY <1>2, <2>1, <2>2, NoneHandedOver DEF Quiet
<1>r. ASSUME from = "send" PROVE LinesDone' = LinesDone \cup {call[p]}
  <2>1. lines' = lines
    BY DEF BaseStep
  <2>2. call[p].op = "line" /\ at'[p] = "mark" /\ call' = call
    BY <1>1, <1>2, <1>r DEF PlaceOK, Chunks
  <2>3. \A q \in Procs : at'[q] = "mark" <=> at[q] = "mark" \/ q = p
    BY <2>2, <1>2 DEF Others
  <2> QED BY <2>1, <2>2, <2>3 DEF LinesDone
<1> QED BY <1>1, <1>q, <1>r, <1>s, <1>2, <1>3, <1>6, <1>7, <1>8, <1>9

Timed == [span : Spans, time : Nat]

(* What is numbered with a time is something. *)
LEMMA TimedShows == \A d \in Timed : d # <<>>
<1> SUFFICES ASSUME NEW d \in Timed PROVE d # <<>>
  OBVIOUS
<1>1. "span" \in DOMAIN d
  BY DEF Timed
<1> QED BY <1>1, EmptyDomain

(* Steps of the program that no base logger has a part in but for the draft
   of a Done that is entered. *)
LEMMA ProgramStepFlows ==
    ASSUME FlowInv, NEW p \in Procs, ProgramStep(p)
    PROVE  /\ FlowInv' /\ Others(p) /\ StillThere /\ Quiet(p) /\ UNCHANGED <<base, shape, version, output>>
           /\ \/ at'[p] \notin Stages /\ draft' = draft
              \/ at'[p] = "done" /\ draft'[p] \in Timed
<1>1. CASE Register(p)
  <2>1. at'[p] = "idle" /\ draft' = draft
    BY <1>1 DEF Register, Go, FlowInv, FlowTypeOK
  <2> QED BY <1>1, <2>1, RegisterFlows DEF Register, choiceVars, Stages
<1>2. CASE Mark(p)
  <2>1. at'[p] = "idle" /\ draft' = draft
    BY <1>2 DEF Mark, Go, FlowInv, FlowTypeOK
  <2> QED BY <1>2, <2>1, MarkFlows DEF Mark, choiceVars, Stages
<1>3. CASE \E s \in Spans : StartDone(p, s)
  <2>1. PICK s \in Spans : StartDone(p, s)
    BY <1>3
  <2>2. at'[p] = "visit" /\ draft' = draft /\ UNCHANGED <<base, shape, version, output>>
    BY <2>1 DEF StartDone, Begin, Go, choiceVars, FlowInv, FlowTypeOK
  <2> QED BY <2>1, <2>2, StartDoneFlows DEF Stages
<1>4. CASE Visit(p)
  <2>1. PICK t \in Nat : draft'[p] = [span |-> Head(todo[p]), time |-> t]
    BY <1>4, VisitFlows
  <2>2. Head(todo[p]) \in Spans
    BY <1>4, HeadAndTail DEF Visit, FlowInv, FlowTypeOK
  <2>3. draft'[p] \in Timed
    BY <2>1, <2>2 DEF Timed
  <2>4. UNCHANGED <<base, shape, version, output>>
    BY <1>4 DEF Visit, choiceVars
  <2> QED BY <1>4, <2>3, <2>4, VisitFlows
<1>5. CASE Pass(p)
  <2>1. at'[p] = "visit" /\ draft' = draft
    BY <1>5 DEF Pass
  <2> QED BY <1>5, <2>1, PassFlows DEF Pass, choiceVars, Stages
<1>6. CASE Visited(p)
  <2>1. at'[p] \in {"idle", "flush"} /\ draft' = draft
    BY <1>6 DEF Visited, Go, FlowInv, FlowTypeOK
  <2> QED BY <1>6, <2>1, VisitedFlows DEF Visited, choiceVars, Stages
<1> QED BY <1>1, <1>2, <1>3, <1>4, <1>5, <1>6 DEF ProgramStep

-----------------------------------------------------------------------------
(* Lines have times of their own, and so have those that are on their way. *)
LinesInv ==
    /\ \A l \in LinesDone : l \in Calls /\ l.op = "line" /\ l.span \in open /\ l.time <= clock
    /\ \A l, k \in LinesDone : l.time = k.time => l = k
    /\ \A p \in Procs : at[p] = "send" => \A l \in LinesDone : l.time # call[p].time

(* The lines handed over, and one on its way, have times of their own. *)
LEMMA LinesFlow ==
    ASSUME FlowInv, LinesInv, NEW p \in Procs, Others(p), FlowInv',
           \/ Quiet(p)
           \/ /\ at[p] = "send" /\ at'[p] = "mark" /\ LinesDone' = LinesDone \cup {call[p]}
              /\ UNCHANGED <<open, clock>>
    PROVE  LinesInv'
<1> USE DEF LinesInv
<1>1. \A l \in LinesDone : l.time \in Nat
  BY DEF Calls
<1>2. CASE Quiet(p)
  <2>1. ASSUME NEW q \in Procs, at'[q] = "send", NEW l \in LinesDone PROVE l.time # call'[q].time
    <3>1. CASE q = p
      <4>1. call'[p].time > clock /\ l.time <= clock /\ clock \in Nat
        BY <1>2, <2>1, <3>1 DEF Quiet, FlowInv, FlowTypeOK
      <4> QED BY <1>1, <3>1, <4>1
    <3>2. CASE q # p
      BY <2>1, <3>2 DEF Others
    <3> QED BY <3>1, <3>2
  <2>2. clock \in Nat /\ clock' \in Nat
    BY DEF FlowInv, FlowTypeOK
  <2> QED BY <1>1, <1>2, <2>1, <2>2 DEF Quiet
<1>3. CASE /\ at[p] = "send" /\ at'[p] = "mark" /\ LinesDone' = LinesDone \cup {call[p]}
           /\ UNCHANGED <<open, clock>>
  <2>1. call[p] \in Calls /\ call[p].op = "line" /\ call[p].span \in open /\ call[p].time <= clock
    BY <1>3 DEF FlowInv, FlowTypeOK, PlaceOK, Calling
  <2>2. ASSUME NEW q \in Procs, at'[q] = "send"
        PROVE  q # p /\ at[q] = "send" /\ call'[q] = call[q] /\ call[q].time # call[p].time
    BY <1>3, <2>2 DEF Others, FlowInv, CallsDiffer
  <2> QED BY <1>3, <2>1, <2>2
<1> QED BY <1>2, <1>3

-----------------------------------------------------------------------------
(* What an element of the output of base logger b is: a line, the first of
   a span, and of span s in any way. *)
LineIn(b, e) == CASE b = "recorder" -> e.op = "line"
                  [] b = "json"     -> e.type = "line"
                  [] b = "console"  -> e.record = "line"
                  [] OTHER          -> FALSE
FirstIn(b, e, s) == CASE b = "recorder" -> e.op = IF s = "request" THEN "request" ELSE "span"
                      [] b = "json"     -> e.type = s /\ ~e.ended
                      [] b = "console"  -> e.record = "Start" /\ e.span = s
                      [] OTHER          -> FALSE
AboutIn(b, e, s) == CASE b = "recorder" -> e.op \in {"metadata", "line", "done"} /\ e.span = s
                      [] b = "json"     -> (e.type = "line" /\ e.span = s) \/ (e.type = s /\ e.ended)
                      [] b = "console"  -> e.record \in {"line", "v"} /\ e.span = s
                      [] OTHER          -> FALSE
SameLine(e, l) == e.span = l.span /\ e.time = l.time

(* Every line that was handed over is in the output, and once; *)
Sent ==
    /\ \A i \in DOMAIN output : LineIn(base, output[i]) => \E l \in LinesDone : SameLine(output[i], l)
    /\ \A l \in LinesDone : \E i \in DOMAIN output : LineIn(base, output[i]) /\ SameLine(output[i], l)
    /\ \A i, j \in DOMAIN output :
          LineIn(base, output[i]) /\ LineIn(base, output[j]) /\ output[i].time = output[j].time => i = j

(* and every span is introduced before anything that is about it. *)
Told ==
    /\ output # <<>> /\ FirstIn(base, output[1], "request")
    /\ \A i \in DOMAIN output : AboutIn(base, output[i], "child") =>
          \E j \in 1..i - 1 : FirstIn(base, output[j], "child")
    /\ ChildThere <=> \E i \in DOMAIN output : FirstIn(base, output[i], "child")

(* An output keeps one element for each line that arrived, as long as what is
   appended is no line or the line that arrives. *)
LEMMA SentKept ==
    ASSUME FlowInv, LinesInv, Sent, NEW p \in Procs, base' = base, NEW X, output \in Seq(X),
           \/ output' = output /\ Quiet(p)
           \/ /\ \E e \in X : output' = Append(output, e) /\ ~LineIn(base, e)
              /\ Quiet(p)
           \/ /\ \E e \in X : output' = Append(output, e) /\ LineIn(base, e) /\ SameLine(e, call[p])
              /\ at[p] = "send" /\ LinesDone' = LinesDone \cup {call[p]}
    PROVE  Sent'
<1> USE DEF Sent
<1>1. CASE output' = output /\ Quiet(p)
  BY <1>1 DEF Quiet
<1>2. ASSUME NEW e \in X, output' = Append(output, e), ~LineIn(base, e), Quiet(p) PROVE Sent'
  <2>1. /\ DOMAIN output' = 1..Len(output) + 1 /\ output'[Len(output) + 1] = e
        /\ \A i \in DOMAIN output : output'[i] = output[i]
        /\ DOMAIN output = 1..Len(output) /\ Len(output) \in Nat
    BY <1>2, Appended
  <2>2. ASSUME NEW i \in DOMAIN output', LineIn(base, output'[i]) PROVE i \in DOMAIN output
    <3>1. i # Len(output) + 1
      BY <1>2, <2>1, <2>2
    <3> QED BY <2>1, <3>1
  <2>3. DOMAIN output \subseteq DOMAIN output'
    BY <2>1
  <2> QED BY <1>2, <2>1, <2>2, <2>3 DEF Quiet
<1>3. ASSUME NEW e \in X, output' = Append(output, e), LineIn(base, e), SameLine(e, call[p]),
             at[p] = "send", LinesDone' = LinesDone \cup {call[p]}
      PROVE  Sent'
  <2>1. /\ DOMAIN output' = 1..Len(output) + 1 /\ output'[Len(output) + 1] = e
        /\ \A i \in DOMAIN output : output'[i] = output[i]
        /\ DOMAIN output = 1..Len(output) /\ Len(output) \in Nat
    BY <1>3, Appended
  <2>2. DOMAIN output \subseteq DOMAIN output' /\ Len(output) + 1 \in DOMAIN output'
        /\ \A i \in DOMAIN output' : i \in DOMAIN output \/ (i = Len(output) + 1 /\ output'[i] = e)
    BY <2>1
  <2>3. \A l \in LinesDone : l.time # call[p].time
    BY <1>3 DEF LinesInv
  <2>4. \A i \in DOMAIN output : LineIn(base, output[i]) => output[i].time # e.time
    BY <1>3, <2>3 DEF SameLine
  <2>5. ASSUME NEW i \in DOMAIN output', LineIn(base, output'[i])
        PROVE  \E l \in LinesDone' : SameLine(output'[i], l)
    <3>1. CASE i \in DOMAIN output
      <4>1. output'[i] = output[i]
        BY <2>1, <3>1
      <4>2. PICK l \in LinesDone : SameLine(output[i], l)
        BY <2>5, <3>1, <4>1
      <4>3. l \in LinesDone'
        BY <1>3
      <4> QED BY <4>1, <4>2, <4>3
    <3>2. CASE output'[i] = e
      <4>1. SameLine(e, call[p]) /\ call[p] \in LinesDone'
        BY <1>3
      <4> QED BY <3>2, <4>1
    <3> QED BY <2>2, <3>1, <3>2
  <2>6. ASSUME NEW l \in LinesDone'
        PROVE  \E i \in DOMAIN output' : LineIn(base, output'[i]) /\ SameLine(output'[i], l)
    <3>1. CASE l \in LinesDone
      <4>1. PICK i \in DOMAIN output : LineIn(base, output[i]) /\ SameLine(output[i], l)
        BY <3>1
      <4>2. i \in DOMAIN output' /\ output'[i] = output[i]
        BY <2>1, <2>2
      <4> QED BY <4>1, <4>2
    <3>2. CASE l = call[p]
      <4>1. output'[Len(output) + 1] = e /\ Len(output) + 1 \in DOMAIN output'
        BY <2>1, <2>2
      <4>2. LineIn(base, e) /\ SameLine(e, l)
        BY <1>3, <3>2
      <4> QED BY <4>1, <4>2, Zenon
    <3> QED BY <1>3, <3>1, <3>2
  <2>7. ASSUME NEW i \in DOMAIN output', NEW j \in DOMAIN output',
               LineIn(base, output'[i]), LineIn(base, output'[j]), output'[i].time = output'[j].time
        PROVE  i = j
    <3>1. CASE i \in DOMAIN output /\ j \in DOMAIN output
      BY <2>1, <2>7, <3>1
    <3>2. CASE i \in DOMAIN output /\ j \notin DOMAIN output
      BY <2>1, <2>2, <2>4, <2>7, <3>2
    <3>3. CASE i \notin DOMAIN output /\ j \in DOMAIN output
      BY <2>1, <2>2, <2>4, <2>7, <3>3
    <3> QED BY <2>2, <3>1, <3>2, <3>3
  <2> QED BY <2>5, <2>6, <2>7
<1> QED BY <1>1, <1>2, <1>3

(* An output keeps telling of the spans in order, as long as nothing about the
   sub-span is appended before it was started. *)
LEMMA ToldKept ==
    ASSUME FlowInv, Told, NEW p \in Procs, base' = base, NEW X, output \in Seq(X),
           \/ output' = output /\ StillThere
           \/ /\ \E e \in X : output' = Append(output, e) /\ ~FirstIn(base, e, "child")
                              /\ (AboutIn(base, e, "child") => "child" \in open)
              /\ StillThere
           \/ /\ \E e \in X : output' = Append(output, e) /\ FirstIn(base, e, "child") /\ ~AboutIn(base, e, "child")
              /\ ChildThere' /\ ~ChildThere
    PROVE  Told'
<1> USE DEF Told
<1>1. CASE output' = output /\ StillThere
  BY <1>1 DEF StillThere
<1>2. ASSUME NEW e \in X, output' = Append(output, e)
      PROVE  /\ DOMAIN output' = 1..Len(output) + 1 /\ output'[Len(output) + 1] = e
             /\ \A i \in DOMAIN output : output'[i] = output[i]
             /\ DOMAIN output = 1..Len(output) /\ Len(output) \in Nat /\ Len(output) >= 1
             /\ output' # <<>> /\ output'[1] = output[1]
             /\ \A i \in DOMAIN output' : i \in DOMAIN output \/ (i = Len(output) + 1 /\ output'[i] = e)
             /\ \A i \in DOMAIN output : \A j \in 1..i - 1 : output'[j] = output[j]
  <2>1. /\ DOMAIN output' = 1..Len(output) + 1 /\ output'[Len(output) + 1] = e
        /\ \A i \in DOMAIN output : output'[i] = output[i]
        /\ DOMAIN output = 1..Len(output) /\ Len(output) \in Nat
    BY <1>2, Appended
  <2>2. Len(output) >= 1
    BY <2>1, EmptySeq
  <2>3. output' # <<>>
    BY <2>1, <2>2, EmptyDomain
  <2> QED BY <2>1, <2>2, <2>3
<1>3. ASSUME NEW e \in X, output' = Append(output, e), ~FirstIn(base, e, "child"),
             AboutIn(base, e, "child") => "child" \in open, StillThere
      PROVE  Told'
  <2>1. \A i \in DOMAIN output' : AboutIn(base, output'[i], "child") =>
          \E j \in 1..i - 1 : FirstIn(base, output'[j], "child")
    <3>1. ASSUME AboutIn(base, e, "child")
          PROVE  \E j \in 1..Len(output) : FirstIn(base, output'[j], "child")
      BY <1>3, <1>2, <3>1 DEF ChildThere
    <3> QED BY <1>3, <1>2, <3>1
  <2>2. ChildThere' <=> \E i \in DOMAIN output' : FirstIn(base, output'[i], "child")
    BY <1>3, <1>2 DEF StillThere
  <2> QED BY <1>3, <1>2, <2>1, <2>2
<1>4. ASSUME NEW e \in X, output' = Append(output, e), FirstIn(base, e, "child"), ~AboutIn(base, e, "child"),
             ChildThere', ~ChildThere
      PROVE  Told'
  <2>1. \A i \in DOMAIN output' : AboutIn(base, output'[i], "child") =>
          \E j \in 1..i - 1 : FirstIn(base, output'[j], "child")
    BY <1>4, <1>2
  <2>2. \E i \in DOMAIN output' : FirstIn(base, output'[i], "child")
    BY <1>4, <1>2
  <2> QED BY <1>4, <1>2, <2>1, <2>2
<1> QED BY <1>1, <1>3, <1>4

-----------------------------------------------------------------------------
Kinds == {"msg", "template", "model", "link"}

(* What a record of the console is, and the drafts of one. *)
Numbered  == [span : Spans, time : Nat, ver : Nat]
VRecord   == [record : {"v"}, span : Spans, time : Nat, ver : Nat, attributes : SUBSET Nat]
ConsoleLn == [record : {"line"}, span : Spans, time : Nat, attr : Nat, kind : Kinds, prefix : BOOLEAN]
ConsoleEntry == [record : {"Start"}, span : Spans] \cup ConsoleLn \cup VRecord

ConsoleTypeOK ==
    /\ output \in Seq(ConsoleEntry) /\ version \in [Spans -> Nat] /\ tail \in [Spans -> Nat]
    /\ \A i \in DOMAIN output : output[i].record = "v" => IsFiniteSet(output[i].attributes)
    /\ \A p \in Procs :
          /\ at[p] = "done"   => draft[p] \in Timed
          /\ at[p] = "number" => draft[p] \in Numbered
          /\ at[p] = "write"  => draft[p] \in VRecord /\ IsFiniteSet(draft[p].attributes)

(* The steps of the console's base logger: what each writes and numbers. *)
ConsoleSays(p) ==
    \/ /\ UNCHANGED <<output, version>> /\ at'[p] \notin {"number", "write"}
       /\ StillThere /\ Quiet(p)
    \/ /\ output' = Append(output, [record |-> "Start", span |-> "child"])
       /\ ChildThere' /\ ~ChildThere /\ Quiet(p)
       /\ at'[p] = "register" /\ version' = version
    \/ /\ at[p] = "send" /\ at'[p] = "mark" /\ version' = version
       /\ StillThere /\ LinesDone' = LinesDone \cup {call[p]} /\ UNCHANGED <<open, clock>>
       /\ \E a \in Nat, pre \in BOOLEAN :
             output' = Append(output, [record |-> "line", span |-> call[p].span, time |-> call[p].time,
                                       attr |-> a, kind |-> Kind, prefix |-> pre])
    \/ /\ at[p] = "done" /\ at'[p] = "number" /\ UNCHANGED <<output, version>>
       /\ StillThere /\ Quiet(p)
       /\ draft'[p].span = draft[p].span /\ draft'[p].ver = version[draft[p].span]
    \/ /\ at[p] = "number" /\ at'[p] = "write" /\ output' = output
       /\ StillThere /\ Quiet(p)
       /\ version' = [version EXCEPT ![draft[p].span] = draft[p].ver + 1]
       /\ draft'[p].span = draft[p].span /\ draft'[p].ver = draft[p].ver + 1
    \/ /\ at[p] = "write" /\ at'[p] = "visit" /\ version' = version
       /\ StillThere /\ Quiet(p)
       /\ output' = Append(output, draft[p])

(* The kinds of lines are known, and of lines prefilled or not. *)
LEMMA ShapeOf == shape \in Shapes => Kind \in Kinds /\ Prefilled \in BOOLEAN
BY BaseProgramAssumption DEF BaseProgramAssumption, Kind, Prefilled, Kinds

(* A step of p that keeps its own types keeps all. *)
LEMMA ConsoleTyped ==
    ASSUME ConsoleTypeOK, NEW p \in Procs, Others(p),
           \/ output' = output
           \/ \E e \in ConsoleEntry : /\ output' = Append(output, e)
                                      /\ e.record = "v" => IsFiniteSet(e.attributes),
           version' \in [Spans -> Nat], tail' \in [Spans -> Nat],
           at'[p] = "done"   => draft'[p] \in Timed,
           at'[p] = "number" => draft'[p] \in Numbered,
           at'[p] = "write"  => draft'[p] \in VRecord /\ IsFiniteSet(draft'[p].attributes)
    PROVE  ConsoleTypeOK'
<1> USE DEF ConsoleTypeOK
<1>1. output' \in Seq(ConsoleEntry) /\ \A i \in DOMAIN output' : output'[i].record = "v" => IsFiniteSet(output'[i].attributes)
  <2>1. CASE output' = output
    BY <2>1
  <2>2. ASSUME NEW e \in ConsoleEntry, output' = Append(output, e), e.record = "v" => IsFiniteSet(e.attributes)
        PROVE  output' \in Seq(ConsoleEntry) /\ \A i \in DOMAIN output' : output'[i].record = "v" => IsFiniteSet(output'[i].attributes)
    BY <2>2, Appended
  <2> QED BY <2>1, <2>2
<1>2. ASSUME NEW q \in Procs
      PROVE  /\ at'[q] = "done"   => draft'[q] \in Timed
             /\ at'[q] = "number" => draft'[q] \in Numbered
             /\ at'[q] = "write"  => draft'[q] \in VRecord /\ IsFiniteSet(draft'[q].attributes)
  BY DEF Others
<1> QED BY <1>1, <1>2

(* A draft is of a span that can be used. *)
LEMMA DraftSpan ==
    ASSUME FlowInv'
    PROVE  \A p \in Procs : at'[p] \in Stages =>
              draft'[p] # <<>> /\ draft'[p].span \in open' /\ draft'[p].span \in Spans
BY DEF FlowInv, FlowTypeOK, PlaceOK, Drafted

(* Every step of the console's base logger. *)
LEMMA ConsoleSteps ==
    ASSUME FlowInv, ConsoleTypeOK, NEW p \in Procs, ConsoleStep(p)
    PROVE  FlowInv' /\ Others(p) /\ base' = base /\ ConsoleTypeOK' /\ ConsoleSays(p)
<1> USE DEF ConsoleTypeOK
<1>0. /\ at \in [Procs -> Places] /\ clock \in Nat /\ call[p] \in Calls /\ DOMAIN draft = Procs
      /\ shape \in Shapes /\ open \subseteq Spans
      /\ attributes \in [Spans -> SUBSET Nat] /\ \A s \in Spans : IsFiniteSet(attributes[s])
  BY DEF FlowInv, FlowTypeOK, Drafted
<1>1. CASE ProgramStep(p) /\ UNCHANGED tail
  <2>1. /\ FlowInv' /\ Others(p) /\ StillThere /\ Quiet(p) /\ UNCHANGED <<base, shape, version, output>>
        /\ \/ at'[p] \notin Stages /\ draft' = draft
           \/ at'[p] = "done" /\ draft'[p] \in Timed
    BY <1>1, ProgramStepFlows
  <2>2. at'[p] \notin {"number", "write"}
    BY <2>1 DEF Stages
  <2>3. at'[p] = "done" => draft'[p] \in Timed
    BY <2>1 DEF Stages
  <2>4. ConsoleTypeOK'
    BY <1>1, <2>1, <2>2, <2>3, ConsoleTyped
  <2> QED BY <2>1, <2>2, <2>4 DEF ConsoleSays
<1>2. CASE ConsoleSpan(p)
  <2>1. FlowInv' /\ Others(p) /\ ChildThere' /\ ~ChildThere /\ Quiet(p)
    BY <1>2, SpanFlows DEF ConsoleSpan
  <2>2. /\ output' = Append(output, [record |-> "Start", span |-> "child"]) /\ base' = base
        /\ at'[p] = "register" /\ UNCHANGED <<version, tail>>
    BY <1>2, <1>0 DEF ConsoleSpan, Span, Begin, Go, Write, choiceVars
  <2>3. [record |-> "Start", span |-> "child"] \in ConsoleEntry
    BY DEF ConsoleEntry, Spans
  <2>4. ConsoleTypeOK'
    BY <2>1, <2>2, <2>3, ConsoleTyped
  <2> QED BY <2>1, <2>2, <2>4 DEF ConsoleSays
<1>3. CASE \E s \in Spans : ConsoleLine(p, s)
  <2>1. PICK s \in Spans : ConsoleLine(p, s)
    BY <1>3
  <2>2. FlowInv' /\ Others(p) /\ StillThere /\ Quiet(p)
    BY <2>1, LineFlows DEF ConsoleLine
  <2>3. /\ at'[p] = "send" /\ UNCHANGED <<base, output, version, draft>> /\ clock' = clock + 1
    BY <2>1, <1>0 DEF ConsoleLine, Line, Begin, Go, choiceVars
  <2>4. tail' \in [Spans -> Nat]
    BY <2>1, <2>3, <1>0 DEF ConsoleLine
  <2>5. ConsoleTypeOK'
    BY <2>2, <2>3, <2>4, ConsoleTyped
  <2> QED BY <2>2, <2>3, <2>5 DEF ConsoleSays
<1>4. CASE \E s \in Spans : ConsoleMetadata(p, s)
  <2>1. PICK s \in Spans : ConsoleMetadata(p, s)
    BY <1>4
  <2>2. FlowInv' /\ Others(p) /\ StillThere /\ Quiet(p)
    BY <2>1, MetadataFlows DEF ConsoleMetadata
  <2>3. at'[p] = "mark" /\ UNCHANGED <<base, output, version, draft, tail>>
    BY <2>1, <1>0 DEF ConsoleMetadata, Metadata, Begin, Go, choiceVars
  <2>5. ConsoleTypeOK'
    BY <2>2, <2>3, ConsoleTyped
  <2> QED BY <2>2, <2>3, <2>5 DEF ConsoleSays
<1>5. CASE ConsoleSend(p)
  <2>0. /\ BaseStep(p, "send", "mark") /\ UNCHANGED <<draft, version, tail>> /\ at[p] = "send"
    BY <1>5 DEF ConsoleSend, BaseStep
  <2>1. /\ FlowInv' /\ Others(p) /\ StillThere
        /\ LinesDone' = LinesDone \cup {call[p]} /\ UNCHANGED <<open, clock>>
    BY <2>0, <1>0, BaseStepFlows
  <2>2. at'[p] = "mark" /\ base' = base
    BY <2>0, <1>0 DEF BaseStep, Go, choiceVars
  <2>3. PICK a \in Nat, pre \in BOOLEAN :
             output' = Append(output, [record |-> "line", span |-> call[p].span, time |-> call[p].time,
                                       attr |-> a, kind |-> Kind, prefix |-> pre])
    <3>1. call[p].span \in Spans /\ call[p].time \in Nat
      BY <1>0 DEF Calls
    <3>2. tail[call[p].span] \in Nat
      BY <3>1
    <3>3. (IF Prefilled THEN tail[call[p].span] ELSE call[p].time) \in Nat
      BY <3>1, <3>2
    <3> QED BY <1>5, <3>3 DEF ConsoleSend, Write
  <2>4. [record |-> "line", span |-> call[p].span, time |-> call[p].time,
                                       attr |-> a, kind |-> Kind, prefix |-> pre] \in ConsoleEntry
    BY <1>0, ShapeOf DEF ConsoleEntry, ConsoleLn, Calls
  <2>5. ConsoleTypeOK'
    BY <2>0, <2>1, <2>2, <2>3, <2>4, ConsoleTyped
  <2> QED BY <2>0, <2>1, <2>2, <2>3, <2>5 DEF ConsoleSays
<1>6. CASE ConsoleDone(p)
  <2>1. /\ DoneStep(p, "done", "number") /\ at[p] = "done" /\ UNCHANGED <<output, version, tail>>
        /\ draft' = [draft EXCEPT ![p] = [span |-> draft[p].span, time |-> draft[p].time, ver |-> version[draft[p].span]]]
    BY <1>6 DEF ConsoleDone, DoneStep
  <2>2. draft[p].span \in Spans /\ draft[p].time \in Nat /\ version[draft[p].span] \in Nat
    BY <2>1 DEF Timed
  <2>3. /\ draft'[p] = [span |-> draft[p].span, time |-> draft[p].time, ver |-> version[draft[p].span]]
        /\ draft'[p] \in Numbered /\ DOMAIN draft' = Procs /\ \A q \in Procs \ {p} : draft'[q] = draft[q]
    BY <2>1, <2>2, <1>0 DEF Numbered
  <2>4. draft'[p] # <<>>
    <3>1. "span" \in DOMAIN draft'[p]
      BY <2>3
    <3> QED BY <3>1, EmptyDomain
  <2>5. FlowInv' /\ Others(p) /\ StillThere /\ Quiet(p)
    BY <2>1, <2>3, <2>4, DoneStepFlows DEF Stages
  <2>6. at'[p] = "number" /\ base' = base
    BY <2>1, <1>0 DEF DoneStep, Go, choiceVars
  <2>7. ConsoleTypeOK'
    BY <2>1, <2>3, <2>5, <2>6, ConsoleTyped
  <2> QED BY <2>1, <2>3, <2>5, <2>6, <2>7 DEF ConsoleSays
<1>7. CASE ConsoleNumber(p)
  <2>1. /\ DoneStep(p, "number", "write") /\ at[p] = "number" /\ UNCHANGED <<output, tail>>
        /\ version' = [version EXCEPT ![draft[p].span] = draft[p].ver + 1]
        /\ draft' = [draft EXCEPT ![p] =
              [record |-> "v", span |-> draft[p].span, time |-> draft[p].time, ver |-> draft[p].ver + 1,
               attributes |-> attributes[draft[p].span]]]
    BY <1>7 DEF ConsoleNumber, DoneStep
  <2>2. draft[p].span \in Spans /\ draft[p].time \in Nat /\ draft[p].ver \in Nat
    BY <2>1 DEF Numbered
  <2>3. /\ draft'[p] = [record |-> "v", span |-> draft[p].span, time |-> draft[p].time, ver |-> draft[p].ver + 1,
                        attributes |-> attributes[draft[p].span]]
        /\ DOMAIN draft' = Procs /\ \A q \in Procs \ {p} : draft'[q] = draft[q]
    BY <2>1, <1>0
  <2>4. draft'[p] \in VRecord /\ IsFiniteSet(draft'[p].attributes)
    BY <2>2, <2>3, <1>0 DEF VRecord
  <2>5. draft'[p] # <<>> /\ draft'[p].span = draft[p].span
    <3>1. "span" \in DOMAIN draft'[p]
      BY <2>3
    <3> QED BY <2>3, <3>1, EmptyDomain
  <2>6. FlowInv' /\ Others(p) /\ StillThere /\ Quiet(p)
    BY <2>1, <2>3, <2>5, DoneStepFlows DEF Stages
  <2>7. at'[p] = "write" /\ base' = base /\ version' \in [Spans -> Nat]
    BY <2>1, <2>2, <1>0 DEF DoneStep, Go, choiceVars
  <2>8. ConsoleTypeOK'
    BY <2>1, <2>4, <2>6, <2>7, ConsoleTyped
  <2> QED BY <2>1, <2>3, <2>6, <2>7, <2>8 DEF ConsoleSays
<1>8. CASE ConsoleWrite(p)
  <2>1. /\ DoneEnds(p, "write") /\ at[p] = "write" /\ UNCHANGED <<version, tail>>
        /\ output' = Append(output, draft[p])
    BY <1>8 DEF ConsoleWrite, DoneEnds, Write
  <2>2. FlowInv' /\ Others(p) /\ StillThere /\ Quiet(p)
    BY <2>1, DoneEndsFlows DEF Stages
  <2>3. at'[p] = "visit" /\ base' = base
    BY <2>1, <1>0 DEF DoneEnds, Go, choiceVars
  <2>4. draft[p] \in ConsoleEntry /\ IsFiniteSet(draft[p].attributes)
    BY <2>1 DEF ConsoleEntry
  <2>5. ConsoleTypeOK'
    BY <2>1, <2>2, <2>3, <2>4, ConsoleTyped
  <2> QED BY <2>1, <2>2, <2>3, <2>5 DEF ConsoleSays
<1>9. CASE ConsoleFlush(p)
  <2>0. BaseStep(p, "flush", "idle") /\ UNCHANGED <<draft, version, output, tail>>
    BY <1>9 DEF ConsoleFlush
  <2>1. FlowInv' /\ Others(p) /\ StillThere /\ Quiet(p)
    BY <2>0, <1>0, BaseStepFlows DEF Chunks
  <2>2. at'[p] = "idle" /\ base' = base
    BY <2>0, <1>0 DEF BaseStep, Go, choiceVars
  <2>3. ConsoleTypeOK'
    BY <2>0, <2>1, <2>2, ConsoleTyped
  <2> QED BY <2>0, <2>1, <2>2, <2>3 DEF ConsoleSays
<1> QED BY <1>1, <1>2, <1>3, <1>4, <1>5, <1>6, <1>7, <1>8, <1>9 DEF ConsoleStep

(* The order of the versions of the console's records, where Dones of one
   span do not overlap. *)
IsV(e, s) == e.record = "v" /\ e.span = s

ConsoleCounted == \A s \in Spans : \A i \in DOMAIN output : IsV(output[i], s) => output[i].ver <= version[s]
ConsoleDrafted == \A p \in Procs :
    /\ at[p] = "number" => draft[p].ver = version[draft[p].span]
    /\ at[p] = "write" =>
          /\ draft[p].ver <= version[draft[p].span]
          /\ \A i \in DOMAIN output : IsV(output[i], draft[p].span) => output[i].ver < draft[p].ver
ConsoleGrow == \A s \in Spans : \A i, j \in DOMAIN output :
    i < j /\ IsV(output[i], s) /\ IsV(output[j], s) => output[i].ver < output[j].ver
ConsoleVersions == ConsoleCounted /\ ConsoleDrafted /\ ConsoleGrow

(* Two goroutines in a Done of the base logger are in those of two spans. *)
LEMMA SpansApart ==
    ASSUME FlowInv, base \notin Overlapping, NEW p \in Procs, NEW q \in Procs \ {p},
           at[p] \in Stages, at[q] \in Stages
    PROVE  draft[p].span # draft[q].span
BY DEF FlowInv, Drafted, DonesApart

(* A record of a span on the console has a version above the records before it
   (baseconsole), when the calls do not overlap. *)
LEMMA ConsoleVersionsKept ==
    ASSUME FlowInv, ConsoleTypeOK, ConsoleVersions, base \notin Overlapping,
           NEW p \in Procs, Others(p), ConsoleTypeOK', ConsoleSays(p)
    PROVE  ConsoleVersions'
<1> USE DEF ConsoleVersions
<1>0. /\ \A i \in DOMAIN output : output[i] \in ConsoleEntry
      /\ DOMAIN output = 1..Len(output) /\ Len(output) \in Nat
      /\ version \in [Spans -> Nat]
      /\ \A s \in Spans, i \in DOMAIN output : IsV(output[i], s) => output[i].ver \in Nat
  <2>1. \A i \in DOMAIN output : output[i] \in ConsoleEntry
    BY DEF ConsoleTypeOK
  <2>2. \A e \in ConsoleEntry : e.record = "v" => e \in VRecord
    BY DEF ConsoleEntry, ConsoleLn
  <2>3. \A e \in VRecord : e.ver \in Nat
    BY DEF VRecord
  <2>4. \A s \in Spans, i \in DOMAIN output : IsV(output[i], s) => output[i].ver \in Nat
    BY <2>1, <2>2, <2>3 DEF IsV
  <2> QED BY <2>1, <2>4 DEF ConsoleTypeOK
<1>1. CASE UNCHANGED <<output, version>> /\ at'[p] \notin {"number", "write"}
  BY <1>1 DEF Others, ConsoleCounted, ConsoleDrafted, ConsoleGrow
<1>2. ASSUME version' = version, at'[p] \notin {"number", "write"},
             NEW e \in ConsoleEntry, e.record # "v", output' = Append(output, e)
      PROVE  ConsoleVersions'
  <2>0. output \in Seq(ConsoleEntry) /\ output' = Append(output, e)
    BY <1>2 DEF ConsoleTypeOK
  <2>1. /\ DOMAIN output' = 1..Len(output) + 1 /\ output'[Len(output) + 1] = e
        /\ \A i \in DOMAIN output : output'[i] = output[i]
    BY <2>0, Appended
  <2>2. ASSUME NEW s, NEW i \in DOMAIN output', IsV(output'[i], s)
        PROVE  i \in DOMAIN output /\ output'[i] = output[i] /\ IsV(output[i], s)
    <3>1. i # Len(output) + 1
      BY <1>2, <2>1, <2>2 DEF IsV
    <3>2. i \in DOMAIN output
      BY <1>0, <2>1, <3>1
    <3> QED BY <2>1, <2>2, <3>2
  <2>3. ConsoleCounted'
    BY <1>2, <2>2 DEF ConsoleCounted
  <2>4. ConsoleGrow'
    BY <2>2 DEF ConsoleGrow
  <2>5. ConsoleDrafted'
    <3>1. ASSUME NEW q \in Procs, at'[q] \in {"number", "write"}
          PROVE  at[q] = at'[q] /\ draft'[q] = draft[q]
      BY <1>2, <3>1 DEF Others
    <3>2. version' = version
      BY <1>2
    <3> QED BY <2>2, <3>1, <3>2 DEF ConsoleDrafted
  <2> QED BY <2>3, <2>4, <2>5
<1>3. ASSUME at[p] = "done", at'[p] = "number", UNCHANGED <<output, version>>,
             draft'[p].span = draft[p].span, draft'[p].ver = version[draft[p].span]
      PROVE  ConsoleVersions'
  BY <1>3 DEF Others, ConsoleCounted, ConsoleDrafted, ConsoleGrow
<1>4. ASSUME at[p] = "number", at'[p] = "write", output' = output,
             version' = [version EXCEPT ![draft[p].span] = draft[p].ver + 1],
             draft'[p].span = draft[p].span, draft'[p].ver = draft[p].ver + 1
      PROVE  ConsoleVersions'
  <2>1. draft[p].span \in Spans /\ draft[p].ver = version[draft[p].span]
    BY <1>4 DEF ConsoleTypeOK, Numbered, ConsoleDrafted
  <2>2. /\ version'[draft[p].span] = version[draft[p].span] + 1
        /\ \A s \in Spans : s # draft[p].span => version'[s] = version[s]
    BY <1>0, <1>4, <2>1
  <2>3. ConsoleCounted' /\ ConsoleGrow'
    BY <1>0, <1>4, <2>1, <2>2 DEF ConsoleCounted, ConsoleGrow
  <2>4. \A i \in DOMAIN output : IsV(output[i], draft[p].span) => output[i].ver < draft[p].ver + 1
    BY <1>0, <2>1 DEF ConsoleCounted
  <2>5. ASSUME NEW q \in Procs \ {p}, at[q] \in {"number", "write"}
        PROVE  draft[q].span \in Spans /\ version'[draft[q].span] = version[draft[q].span]
    <3>1. draft[p].span # draft[q].span
      BY <1>4, <2>5, SpansApart DEF Stages
    <3>2. draft[q].span \in Spans
      BY <2>5 DEF ConsoleTypeOK, Numbered, VRecord
    <3> QED BY <2>2, <3>1, <3>2
  <2>6. ConsoleDrafted'
    <3>1. ASSUME NEW q \in Procs, q # p, at'[q] \in {"number", "write"}
          PROVE  at[q] = at'[q] /\ draft'[q] = draft[q] /\ version'[draft[q].span] = version[draft[q].span]
      BY <3>1, <2>5 DEF Others
    <3> QED BY <1>4, <2>1, <2>2, <2>4, <3>1, <1>0 DEF ConsoleDrafted
  <2> QED BY <2>3, <2>6
<1>5. ASSUME at[p] = "write", at'[p] = "visit", version' = version, output' = Append(output, draft[p])
      PROVE  ConsoleVersions'
  <2>0. /\ draft[p] \in ConsoleEntry /\ draft[p].span \in Spans /\ draft[p].ver \in Nat
        /\ draft[p].ver <= version[draft[p].span]
        /\ \A i \in DOMAIN output : IsV(output[i], draft[p].span) => output[i].ver < draft[p].ver
    BY <1>5 DEF ConsoleTypeOK, ConsoleEntry, VRecord, ConsoleDrafted
  <2>1. /\ DOMAIN output' = 1..Len(output) + 1 /\ output'[Len(output) + 1] = draft[p]
        /\ \A i \in DOMAIN output : output'[i] = output[i]
    BY <1>5, <2>0, Appended DEF ConsoleTypeOK
  <2>2. \A i \in DOMAIN output' : i \in DOMAIN output \/ (i = Len(output) + 1 /\ output'[i] = draft[p])
    BY <1>0, <2>1
  <2>3. \A s : IsV(draft[p], s) => s = draft[p].span
    BY DEF IsV
  <2>4. ConsoleCounted'
    BY <1>5, <2>0, <2>1, <2>2, <2>3 DEF ConsoleCounted
  <2>5. ConsoleGrow'
    BY <1>0, <1>5, <2>0, <2>1, <2>2, <2>3 DEF ConsoleGrow
  <2>6. ConsoleDrafted'
    <3>1. ASSUME NEW q \in Procs, at'[q] = "number"
          PROVE  at[q] = "number" /\ draft'[q] = draft[q]
      BY <1>5, <3>1 DEF Others
    <3>2. ASSUME NEW q \in Procs, at'[q] = "write"
          PROVE  at[q] = "write" /\ draft'[q] = draft[q] /\ draft[p].span # draft[q].span
      BY <1>5, <3>2, SpansApart DEF Others, Stages
    <3> QED BY <1>5, <2>1, <2>2, <2>3, <3>1, <3>2 DEF ConsoleDrafted
  <2> QED BY <2>4, <2>5, <2>6
<1> QED
  <2>1. [record |-> "Start", span |-> "child"] \in ConsoleEntry
    BY DEF ConsoleEntry, Spans
  <2>2. \A a \in Nat, pre \in BOOLEAN :
            [record |-> "line", span |-> call[p].span, time |-> call[p].time,
             attr |-> a, kind |-> Kind, prefix |-> pre] \in ConsoleEntry
    BY ShapeOf DEF ConsoleEntry, ConsoleLn, Calls, FlowInv, FlowTypeOK
  <2> QED BY <1>1, <1>2, <1>3, <1>4, <1>5, <2>1, <2>2 DEF ConsoleSays

(* The console's base logger keeps what was said of its output. *)
LEMMA ConsoleStreams ==
    ASSUME FlowInv, LinesInv, ConsoleTypeOK, Sent, Told, base = "console", base' = base,
           NEW p \in Procs, ConsoleSays(p)
    PROVE  Sent' /\ Told'
<1> USE DEF LineIn, FirstIn, AboutIn
<1>0. output \in Seq(ConsoleEntry)
  BY DEF ConsoleTypeOK
<1>1. CASE output' = output /\ StillThere /\ Quiet(p)
  BY <1>0, <1>1, SentKept, ToldKept
<1>2. CASE /\ output' = Append(output, [record |-> "Start", span |-> "child"])
           /\ ChildThere' /\ ~ChildThere /\ Quiet(p)
  <2>1. PICK e \in ConsoleEntry : e = [record |-> "Start", span |-> "child"]
    BY DEF ConsoleEntry, Spans
  <2>2. output' = Append(output, e) /\ ~LineIn(base, e) /\ FirstIn(base, e, "child") /\ ~AboutIn(base, e, "child")
    BY <1>2, <2>1
  <2> HIDE DEF LineIn, FirstIn, AboutIn
  <2> QED BY <1>0, <1>2, <2>2, SentKept, ToldKept
<1>3. ASSUME at[p] = "send", StillThere, LinesDone' = LinesDone \cup {call[p]}, NEW a \in Nat, NEW pre \in BOOLEAN,
             output' = Append(output, [record |-> "line", span |-> call[p].span, time |-> call[p].time,
                                       attr |-> a, kind |-> Kind, prefix |-> pre])
      PROVE  Sent' /\ Told'
  <2>1. PICK e \in ConsoleEntry : e = [record |-> "line", span |-> call[p].span, time |-> call[p].time,
                                       attr |-> a, kind |-> Kind, prefix |-> pre]
    BY ShapeOf DEF ConsoleEntry, ConsoleLn, Calls, FlowInv, FlowTypeOK
  <2>2. output' = Append(output, e) /\ LineIn(base, e) /\ SameLine(e, call[p]) /\ ~FirstIn(base, e, "child")
        /\ (AboutIn(base, e, "child") => "child" \in open)
    BY <1>3, <2>1 DEF SameLine, FlowInv, PlaceOK, Calling
  <2> HIDE DEF LineIn, FirstIn, AboutIn
  <2> QED BY <1>0, <1>3, <2>2, SentKept, ToldKept
<1>4. ASSUME at[p] = "write", StillThere, Quiet(p), output' = Append(output, draft[p]) PROVE Sent' /\ Told'
  <2>1. draft[p] \in VRecord /\ draft[p].span \in open
    BY <1>4 DEF ConsoleTypeOK, FlowInv, PlaceOK, Drafted, Stages
  <2>2. /\ draft[p] \in ConsoleEntry /\ ~LineIn(base, draft[p]) /\ ~FirstIn(base, draft[p], "child")
        /\ (AboutIn(base, draft[p], "child") => "child" \in open)
    BY <2>1 DEF ConsoleEntry, VRecord
  <2> HIDE DEF LineIn, FirstIn, AboutIn
  <2> QED BY <1>0, <1>4, <2>2, SentKept, ToldKept
<1> QED BY <1>1, <1>2, <1>3, <1>4 DEF ConsoleSays

-----------------------------------------------------------------------------
(* What a record of the recorder is, and the drafts of a Done. *)
RecorderLn    == [op : {"line"}, span : Spans, time : Nat, attr : Nat, kind : Kinds, prefix : BOOLEAN]
RecorderEntry ==
    [op : {"request", "flush"}] \cup [op : {"span"}, span : {"child"}, parent : {"request"}]
        \cup [op : {"metadata"}, span : Spans, time : Nat] \cup RecorderLn \cup [op : {"done"}, span : Spans]

RecorderTypeOK ==
    /\ output \in Seq(RecorderEntry)
    /\ provisional \in [Spans -> Nat] /\ endTime \in [Spans -> Nat]
    /\ \A p \in Procs : at[p] \in {"done", "end", "event"} => draft[p] \in Timed

(* The steps of the recorder: what each writes. *)
RecorderSays(p) ==
    \/ UNCHANGED output /\ StillThere /\ Quiet(p)
    \/ /\ output' = Append(output, [op |-> "span", span |-> "child", parent |-> "request"])
       /\ ChildThere' /\ ~ChildThere /\ Quiet(p)
    \/ /\ at[p] = "send" /\ StillThere /\ LinesDone' = LinesDone \cup {call[p]} /\ UNCHANGED <<open, clock>>
       /\ at'[p] = "mark"
       /\ output' = Append(output, [op |-> "line", span |-> call[p].span, time |-> call[p].time,
                                    attr |-> call[p].time, kind |-> Kind, prefix |-> Prefilled])
    \/ /\ \E e \in RecorderEntry : /\ output' = Append(output, e) /\ e.op \in {"metadata", "done", "flush"}
                                   /\ e.op # "flush" => e.span \in open
       /\ StillThere /\ Quiet(p)

(* A step of p that keeps its own types keeps all. *)
LEMMA RecorderTyped ==
    ASSUME RecorderTypeOK, NEW p \in Procs, Others(p),
           output' = output \/ \E e \in RecorderEntry : output' = Append(output, e),
           provisional' \in [Spans -> Nat], endTime' \in [Spans -> Nat],
           at'[p] \in {"done", "end", "event"} => draft'[p] \in Timed
    PROVE  RecorderTypeOK'
<1> USE DEF RecorderTypeOK
<1>1. output' \in Seq(RecorderEntry)
  <2>1. ASSUME NEW e \in RecorderEntry PROVE Append(output, e) \in Seq(RecorderEntry)
    BY Appended
  <2> QED BY <2>1
<1>2. ASSUME NEW q \in Procs, at'[q] \in {"done", "end", "event"} PROVE draft'[q] \in Timed
  BY <1>2 DEF Others
<1> QED BY <1>1, <1>2

(* Every step of the recorder. *)
LEMMA RecorderSteps ==
    ASSUME FlowInv, RecorderTypeOK, NEW p \in Procs, RecorderStep(p), base = "recorder"
    PROVE  FlowInv' /\ Others(p) /\ base' = base /\ RecorderTypeOK' /\ RecorderSays(p)
<1> USE DEF RecorderTypeOK
<1>0. /\ at \in [Procs -> Places] /\ clock \in Nat /\ call[p] \in Calls /\ DOMAIN draft = Procs
      /\ shape \in Shapes /\ open \subseteq Spans
  BY DEF FlowInv, FlowTypeOK, Drafted
<1>1. CASE ProgramStep(p) /\ UNCHANGED provisional
  <2>1. /\ FlowInv' /\ Others(p) /\ StillThere /\ Quiet(p) /\ UNCHANGED <<base, shape, version, output>>
        /\ \/ at'[p] \notin Stages /\ draft' = draft
           \/ at'[p] = "done" /\ draft'[p] \in Timed
    BY <1>1, ProgramStepFlows
  <2>2. at'[p] \in {"done", "end", "event"} => draft'[p] \in Timed
    BY <2>1 DEF Stages
  <2>3. endTime' = endTime
    BY <1>1 DEF ProgramStep, Register, Mark, StartDone, Visit, Pass, Visited
  <2>4. RecorderTypeOK'
    BY <1>1, <2>1, <2>2, <2>3, RecorderTyped
  <2> QED BY <2>1, <2>4 DEF RecorderSays
<1>2. CASE RecorderSpan(p)
  <2>1. /\ FlowInv' /\ Others(p) /\ ChildThere' /\ ~ChildThere /\ Quiet(p) /\ base' = base
        /\ at'[p] = "register" /\ UNCHANGED <<endTime, provisional>>
    BY <1>2, SpanFlows DEF RecorderSpan
  <2>2. output' = Append(output, [op |-> "span", span |-> "child", parent |-> "request"])
    BY <1>2 DEF RecorderSpan, Write
  <2>3. [op |-> "span", span |-> "child", parent |-> "request"] \in RecorderEntry
    BY DEF RecorderEntry
  <2>4. RecorderTypeOK'
    BY <2>1, <2>2, <2>3, RecorderTyped
  <2> QED BY <2>1, <2>2, <2>4 DEF RecorderSays
<1>3. CASE \E s \in Spans : RecorderLine(p, s)
  <2>1. PICK s \in Spans : RecorderLine(p, s)
    BY <1>3
  <2>2. /\ FlowInv' /\ Others(p) /\ StillThere /\ Quiet(p) /\ at'[p] = "send" /\ clock' = clock + 1
        /\ UNCHANGED <<base, output>>
    BY <2>1, LineFlows DEF RecorderLine
  <2>3. provisional' \in [Spans -> Nat] /\ endTime' = endTime
    BY <2>1, <2>2, <1>0 DEF RecorderLine, Larger
  <2>4. RecorderTypeOK'
    BY <2>2, <2>3, RecorderTyped
  <2> QED BY <2>2, <2>4 DEF RecorderSays
<1>4. CASE \E s \in Spans : RecorderMetadata(p, s)
  <2>1. PICK s \in Spans : RecorderMetadata(p, s)
    BY <1>4
  <2>2. /\ FlowInv' /\ Others(p) /\ StillThere /\ Quiet(p) /\ at'[p] = "note"
        /\ UNCHANGED <<base, output, endTime>>
    BY <2>1, MetadataFlows DEF RecorderMetadata
  <2>4. RecorderTypeOK'
    BY <2>1, <2>2, RecorderTyped DEF RecorderMetadata
  <2> QED BY <2>2, <2>4 DEF RecorderSays
<1>5. CASE RecorderSend(p)
  <2>0. /\ BaseStep(p, "send", "mark") /\ UNCHANGED <<draft, version, provisional>> /\ at[p] = "send"
        /\ output' = Append(output, [op |-> "line", span |-> call[p].span, time |-> call[p].time,
                                    attr |-> call[p].time, kind |-> Kind, prefix |-> Prefilled])
    BY <1>5 DEF RecorderSend, BaseStep, Write
  <2>1. /\ FlowInv' /\ Others(p) /\ StillThere
        /\ LinesDone' = LinesDone \cup {call[p]} /\ UNCHANGED <<open, clock>>
    BY <2>0, <1>0, BaseStepFlows
  <2>2. at'[p] = "mark" /\ base' = base /\ endTime' = endTime
    BY <2>0, <1>0 DEF BaseStep, Go, choiceVars
  <2>4. [op |-> "line", span |-> call[p].span, time |-> call[p].time,
         attr |-> call[p].time, kind |-> Kind, prefix |-> Prefilled] \in RecorderEntry
    BY <1>0, ShapeOf DEF RecorderEntry, RecorderLn, Calls
  <2>5. RecorderTypeOK'
    BY <2>0, <2>1, <2>2, <2>4, RecorderTyped
  <2> QED BY <2>0, <2>1, <2>2, <2>5 DEF RecorderSays
<1>6. CASE RecorderNote(p)
  <2>0. /\ BaseStep(p, "note", "mark") /\ UNCHANGED <<draft, version, provisional>> /\ at[p] = "note"
        /\ output' = Append(output, [op |-> "metadata", span |-> call[p].span, time |-> call[p].time])
    BY <1>6 DEF RecorderNote, BaseStep, Write
  <2>1. FlowInv' /\ Others(p) /\ StillThere /\ Quiet(p)
    BY <2>0, <1>0, BaseStepFlows
  <2>2. at'[p] = "mark" /\ base' = base /\ endTime' = endTime
    BY <2>0, <1>0 DEF BaseStep, Go, choiceVars
  <2>3. call[p].span \in open
    BY <2>0 DEF FlowInv, PlaceOK, Calling
  <2>4. PICK e \in RecorderEntry : e = [op |-> "metadata", span |-> call[p].span, time |-> call[p].time]
    BY <1>0 DEF RecorderEntry, Calls
  <2>5. RecorderTypeOK'
    BY <2>0, <2>1, <2>2, <2>4, RecorderTyped
  <2> QED BY <2>0, <2>1, <2>2, <2>3, <2>4, <2>5 DEF RecorderSays
<1>7. CASE RecorderDone(p)
  <2>1. PICK m : /\ m = Larger(provisional[draft[p].span], draft[p].time)
                 /\ provisional' = [provisional EXCEPT ![draft[p].span] = m]
                 /\ draft' = [draft EXCEPT ![p].time = m]
    BY <1>7 DEF RecorderDone
  <2>2. DoneStep(p, "done", "end") /\ at[p] = "done" /\ UNCHANGED <<endTime, output>>
    BY <1>7 DEF RecorderDone, DoneStep
  <2>3. draft[p] \in Timed /\ draft[p].span \in Spans /\ draft[p].time \in Nat /\ m \in Nat
    BY <2>1, <2>2 DEF Timed, Larger
  <2>4. provisional' \in [Spans -> Nat]
    BY <2>1, <2>3
  <2>5. /\ draft'[p] \in Timed /\ draft'[p].span = draft[p].span
        /\ DOMAIN draft' = Procs /\ \A q \in Procs \ {p} : draft'[q] = draft[q]
    BY <2>1, <2>3, <1>0 DEF Timed
  <2>6. draft'[p] # <<>>
    BY <2>5, TimedShows
  <2>7. FlowInv' /\ Others(p) /\ StillThere /\ Quiet(p)
    BY <2>2, <2>5, <2>6, DoneStepFlows DEF Stages
  <2>8. base' = base
    BY <2>2 DEF DoneStep, choiceVars
  <2>9. RecorderTypeOK'
    BY <2>2, <2>4, <2>5, <2>7, RecorderTyped
  <2> QED BY <2>2, <2>7, <2>8, <2>9 DEF RecorderSays
<1>8. CASE RecorderEnd(p)
  <2>1. /\ DoneStep(p, "end", "event") /\ at[p] = "end" /\ UNCHANGED <<draft, output, provisional>>
        /\ endTime' = [endTime EXCEPT ![draft[p].span] = Larger(@, draft[p].time)]
    BY <1>8 DEF RecorderEnd, DoneStep
  <2>2. draft[p] \in Timed /\ draft[p].span \in Spans /\ draft[p].time \in Nat
    BY <2>1 DEF Timed
  <2>3. endTime' \in [Spans -> Nat]
    BY <2>1, <2>2 DEF Larger
  <2>4. draft[p] # <<>>
    BY <2>2, TimedShows
  <2>5. FlowInv' /\ Others(p) /\ StillThere /\ Quiet(p)
    BY <2>1, <2>4, <1>0, DoneStepFlows DEF Stages
  <2>6. base' = base
    BY <2>1 DEF DoneStep, choiceVars
  <2>7. RecorderTypeOK'
    BY <2>1, <2>2, <2>3, <2>5, RecorderTyped
  <2> QED BY <2>1, <2>5, <2>6, <2>7 DEF RecorderSays
<1>9. CASE RecorderEvent(p)
  <2>1. /\ DoneEnds(p, "event") /\ at[p] = "event" /\ UNCHANGED <<endTime, provisional>>
        /\ output' = Append(output, [op |-> "done", span |-> draft[p].span])
    BY <1>9 DEF RecorderEvent, DoneEnds, Write
  <2>2. FlowInv' /\ Others(p) /\ StillThere /\ Quiet(p)
    BY <2>1, DoneEndsFlows DEF Stages
  <2>3. at'[p] = "visit" /\ base' = base
    BY <2>1, <1>0 DEF DoneEnds, Go, choiceVars
  <2>4. draft[p].span \in open
    BY <2>1 DEF FlowInv, PlaceOK, Drafted, Stages
  <2>5. PICK e \in RecorderEntry : e = [op |-> "done", span |-> draft[p].span]
    BY <1>0, <2>4 DEF RecorderEntry
  <2>6. RecorderTypeOK'
    BY <2>1, <2>2, <2>3, <2>5, RecorderTyped
  <2> QED BY <2>1, <2>2, <2>3, <2>4, <2>5, <2>6 DEF RecorderSays
<1>10. CASE RecorderFlush(p)
  <2>0. BaseStep(p, "flush", "idle") /\ UNCHANGED <<draft, provisional>> /\ output' = Append(output, [op |-> "flush"])
    BY <1>10 DEF RecorderFlush, Write
  <2>1. FlowInv' /\ Others(p) /\ StillThere /\ Quiet(p)
    BY <2>0, <1>0, BaseStepFlows DEF Chunks
  <2>2. at'[p] = "idle" /\ base' = base /\ endTime' = endTime
    BY <2>0, <1>0 DEF BaseStep, Go, choiceVars
  <2>3. PICK e \in RecorderEntry : e = [op |-> "flush"]
    BY DEF RecorderEntry
  <2>4. RecorderTypeOK'
    BY <2>0, <2>1, <2>2, <2>3, RecorderTyped
  <2> QED BY <2>0, <2>1, <2>2, <2>3, <2>4 DEF RecorderSays
<1> QED BY <1>1, <1>2, <1>3, <1>4, <1>5, <1>6, <1>7, <1>8, <1>9, <1>10 DEF RecorderStep

(* The recorder keeps what was said of its output. *)
LEMMA RecorderStreams ==
    ASSUME FlowInv, LinesInv, RecorderTypeOK, Sent, Told, base = "recorder", base' = base,
           NEW p \in Procs, RecorderSays(p)
    PROVE  Sent' /\ Told'
<1> USE DEF LineIn, FirstIn, AboutIn
<1>0. output \in Seq(RecorderEntry)
  BY DEF RecorderTypeOK
<1>1. CASE output' = output /\ StillThere /\ Quiet(p)
  BY <1>0, <1>1, SentKept, ToldKept
<1>2. CASE /\ output' = Append(output, [op |-> "span", span |-> "child", parent |-> "request"])
           /\ ChildThere' /\ ~ChildThere /\ Quiet(p)
  <2>1. PICK e \in RecorderEntry : e = [op |-> "span", span |-> "child", parent |-> "request"]
    BY DEF RecorderEntry
  <2>2. output' = Append(output, e) /\ ~LineIn(base, e) /\ FirstIn(base, e, "child") /\ ~AboutIn(base, e, "child")
    BY <1>2, <2>1
  <2> HIDE DEF LineIn, FirstIn, AboutIn
  <2> QED BY <1>0, <1>2, <2>2, SentKept, ToldKept
<1>3. ASSUME at[p] = "send", StillThere, LinesDone' = LinesDone \cup {call[p]},
             output' = Append(output, [op |-> "line", span |-> call[p].span, time |-> call[p].time,
                                       attr |-> call[p].time, kind |-> Kind, prefix |-> Prefilled])
      PROVE  Sent' /\ Told'
  <2>1. PICK e \in RecorderEntry : e = [op |-> "line", span |-> call[p].span, time |-> call[p].time,
                                       attr |-> call[p].time, kind |-> Kind, prefix |-> Prefilled]
    BY ShapeOf DEF RecorderEntry, RecorderLn, Calls, FlowInv, FlowTypeOK
  <2>2. output' = Append(output, e) /\ LineIn(base, e) /\ SameLine(e, call[p]) /\ ~FirstIn(base, e, "child")
        /\ (AboutIn(base, e, "child") => "child" \in open)
    BY <1>3, <2>1 DEF SameLine, FlowInv, PlaceOK, Calling
  <2> HIDE DEF LineIn, FirstIn, AboutIn
  <2> QED BY <1>0, <1>3, <2>2, SentKept, ToldKept
<1>4. ASSUME NEW e \in RecorderEntry, output' = Append(output, e), e.op \in {"metadata", "done", "flush"},
             e.op # "flush" => e.span \in open, StillThere, Quiet(p)
      PROVE  Sent' /\ Told'
  <2>2. ~LineIn(base, e) /\ ~FirstIn(base, e, "child") /\ (AboutIn(base, e, "child") => "child" \in open)
    BY <1>4
  <2> HIDE DEF LineIn, FirstIn, AboutIn
  <2> QED BY <1>0, <1>4, <2>2, SentKept, ToldKept
<1> QED BY <1>1, <1>2, <1>3, <1>4 DEF RecorderSays

-----------------------------------------------------------------------------
(* What a record of JSON is, and the drafts of one. *)
JsonStarts   == [type : Spans, ver : Nat, ended : {FALSE}, end : {0}, attributes : {{}}]
JsonNumbered == [type : Spans, span : Spans, ver : Nat]
JsonRecord   == [type : Spans, span : Spans, ver : Nat, ended : {TRUE}, end : Nat, attributes : SUBSET Nat]
JsonLn       == [type : {"line"}, span : Spans, time : Nat, attr : Nat, kind : Kinds, prefix : BOOLEAN]
JsonEntry    == JsonStarts \cup JsonRecord \cup JsonLn

JsonTypeOK ==
    /\ output \in Seq(JsonEntry) /\ spanStarts \in BOOLEAN
    /\ version \in [Spans -> Nat] /\ endTime \in [Spans -> Nat]
    /\ \A i \in DOMAIN output : output[i].type \in Spans => IsFiniteSet(output[i].attributes)
    /\ \A p \in Procs :
          /\ at[p] \in {"done", "number"} => draft[p] \in Timed
          /\ at[p] = "fill"  => draft[p] \in JsonNumbered /\ draft[p].type = draft[p].span /\ draft[p].ver >= StartCount
          /\ at[p] = "write" => draft[p] \in JsonRecord /\ draft[p].type = draft[p].span /\ IsFiniteSet(draft[p].attributes)

(* The steps of the JSON base logger: what each writes and numbers. *)
JsonSays(p) ==
    \/ /\ UNCHANGED <<output, version>> /\ at'[p] \notin {"fill", "write"} /\ Quiet(p)
       /\ spanStarts => StillThere
       /\ ChildThere => ChildThere'
    \/ /\ spanStarts /\ output' = Append(output, JsonStart("child"))
       /\ ChildThere' /\ ~ChildThere /\ Quiet(p)
       /\ at'[p] = "register" /\ version' = version
    \/ /\ at[p] = "send" /\ at'[p] = "mark" /\ version' = version
       /\ StillThere /\ LinesDone' = LinesDone \cup {call[p]} /\ UNCHANGED <<open, clock>>
       /\ \E a \in Nat, pre \in BOOLEAN :
             output' = Append(output, [type |-> "line", span |-> call[p].span, time |-> call[p].time,
                                       attr |-> a, kind |-> Kind, prefix |-> pre])
    \/ /\ at[p] = "number" /\ at'[p] = "fill" /\ UNCHANGED <<output, version>>
       /\ StillThere /\ Quiet(p)
       /\ draft'[p].span = draft[p].span /\ draft'[p].ver = Count(draft[p].span)
    \/ /\ at[p] = "fill" /\ at'[p] = "write" /\ output' = output
       /\ StillThere /\ Quiet(p)
       /\ \E v \in {Count(draft[p].span), draft[p].ver} :
             version' = [version EXCEPT ![draft[p].span] = v + 1 - StartCount]
       /\ draft'[p].span = draft[p].span /\ draft'[p].ver = draft[p].ver
    \/ /\ at[p] = "write" /\ at'[p] = "visit" /\ version' = version
       /\ StillThere /\ Quiet(p)
       /\ output' = Append(output, draft[p])

(* A step of p that keeps its own types keeps all. *)
LEMMA JsonTyped ==
    ASSUME JsonTypeOK, NEW p \in Procs, Others(p), spanStarts' = spanStarts,
           \/ output' = output
           \/ \E e \in JsonEntry : /\ output' = Append(output, e)
                                   /\ e.type \in Spans => IsFiniteSet(e.attributes),
           version' \in [Spans -> Nat], endTime' \in [Spans -> Nat],
           at'[p] \in {"done", "number"} => draft'[p] \in Timed,
           at'[p] = "fill"  => draft'[p] \in JsonNumbered /\ draft'[p].type = draft'[p].span /\ draft'[p].ver >= StartCount,
           at'[p] = "write" => draft'[p] \in JsonRecord /\ draft'[p].type = draft'[p].span /\ IsFiniteSet(draft'[p].attributes)
    PROVE  JsonTypeOK'
<1> USE DEF JsonTypeOK
<1>1. output' \in Seq(JsonEntry) /\ \A i \in DOMAIN output' : output'[i].type \in Spans => IsFiniteSet(output'[i].attributes)
  <2>1. CASE output' = output
    BY <2>1
  <2>2. ASSUME NEW e \in JsonEntry, output' = Append(output, e), e.type \in Spans => IsFiniteSet(e.attributes)
        PROVE  output' \in Seq(JsonEntry) /\ \A i \in DOMAIN output' : output'[i].type \in Spans => IsFiniteSet(output'[i].attributes)
    BY <2>2, Appended
  <2> QED BY <2>1, <2>2
<1>2. ASSUME NEW q \in Procs
      PROVE  /\ at'[q] \in {"done", "number"} => draft'[q] \in Timed
             /\ at'[q] = "fill"  => draft'[q] \in JsonNumbered /\ draft'[q].type = draft'[q].span /\ draft'[q].ver >= StartCount
             /\ at'[q] = "write" => draft'[q] \in JsonRecord /\ draft'[q].type = draft'[q].span /\ IsFiniteSet(draft'[q].attributes)
  BY DEF Others
<1>3. StartCount' = StartCount
  BY DEF StartCount
<1> QED BY <1>1, <1>2, <1>3

(* Every step of the JSON base logger. *)
LEMMA JsonSteps ==
    ASSUME FlowInv, JsonTypeOK, NEW p \in Procs, JsonStep(p)
    PROVE  FlowInv' /\ Others(p) /\ UNCHANGED <<base, spanStarts>> /\ JsonTypeOK' /\ JsonSays(p)
<1> USE DEF JsonTypeOK
<1>0. /\ at \in [Procs -> Places] /\ clock \in Nat /\ call[p] \in Calls /\ DOMAIN draft = Procs
      /\ shape \in Shapes /\ open \subseteq Spans
      /\ attributes \in [Spans -> SUBSET Nat] /\ \A s \in Spans : IsFiniteSet(attributes[s])
  BY DEF FlowInv, FlowTypeOK, Drafted
<1>c. StartCount \in {0, 1}
  BY DEF StartCount
<1>h. spanStarts' = spanStarts
  BY DEF JsonStep, JsonSpan, JsonLine, JsonMetadata, JsonSend, JsonDone, JsonNumber, JsonFill, JsonWrite, JsonFlush
<1>1. CASE ProgramStep(p)
  <2>1. /\ FlowInv' /\ Others(p) /\ StillThere /\ Quiet(p) /\ UNCHANGED <<base, shape, version, output>>
        /\ \/ at'[p] \notin Stages /\ draft' = draft
           \/ at'[p] = "done" /\ draft'[p] \in Timed
    BY <1>1, ProgramStepFlows
  <2>2. at'[p] \notin {"number", "fill", "write"}
    BY <2>1 DEF Stages
  <2>3. at'[p] = "done" => draft'[p] \in Timed
    BY <2>1 DEF Stages
  <2>4. endTime' = endTime
    BY <1>1 DEF ProgramStep, Register, Mark, StartDone, Visit, Pass, Visited
  <2>5. JsonTypeOK'
    BY <1>1, <1>h, <2>1, <2>2, <2>3, <2>4, JsonTyped
  <2> QED BY <1>h, <2>1, <2>2, <2>5 DEF JsonSays, StillThere
<1>2. CASE JsonSpan(p)
  <2>1. /\ FlowInv' /\ Others(p) /\ ChildThere' /\ ~ChildThere /\ Quiet(p)
        /\ at'[p] = "register" /\ UNCHANGED <<base, endTime, version>>
    BY <1>2, SpanFlows DEF JsonSpan
  <2>2. IF spanStarts THEN output' = Append(output, JsonStart("child")) ELSE output' = output
    BY <1>2 DEF JsonSpan, Write
  <2>3. JsonStart("child") \in JsonEntry /\ IsFiniteSet(JsonStart("child").attributes)
    BY FS_EmptySet DEF JsonEntry, JsonStarts, JsonStart, Spans
  <2>4. JsonTypeOK'
    BY <1>h, <2>1, <2>2, <2>3, JsonTyped
  <2> QED BY <1>h, <2>1, <2>2, <2>4 DEF JsonSays
<1>3. CASE \E s \in Spans : JsonLine(p, s)
  <2>1. PICK s \in Spans : JsonLine(p, s)
    BY <1>3
  <2>2. /\ FlowInv' /\ Others(p) /\ StillThere /\ Quiet(p) /\ at'[p] = "send" /\ clock' = clock + 1
        /\ UNCHANGED <<base, output, version>>
    BY <2>1, LineFlows DEF JsonLine
  <2>3. endTime' \in [Spans -> Nat]
    BY <2>1, <2>2, <1>0 DEF JsonLine
  <2>4. JsonTypeOK'
    BY <1>h, <2>2, <2>3, JsonTyped
  <2> QED BY <1>h, <2>2, <2>4 DEF JsonSays, StillThere
<1>4. CASE \E s \in Spans : JsonMetadata(p, s)
  <2>1. PICK s \in Spans : JsonMetadata(p, s)
    BY <1>4
  <2>2. /\ FlowInv' /\ Others(p) /\ StillThere /\ Quiet(p) /\ at'[p] = "mark"
        /\ UNCHANGED <<base, output, version, endTime>>
    BY <2>1, MetadataFlows DEF JsonMetadata
  <2>4. JsonTypeOK'
    BY <1>h, <2>2, JsonTyped
  <2> QED BY <1>h, <2>2, <2>4 DEF JsonSays, StillThere
<1>5. CASE JsonSend(p)
  <2>0. /\ BaseStep(p, "send", "mark") /\ UNCHANGED <<draft, version>> /\ at[p] = "send"
        /\ output' = Append(output, [type |-> "line", span |-> call[p].span, time |-> call[p].time,
                                    attr |-> call[p].time, kind |-> Kind, prefix |-> Prefilled /\ Kind # "template"])
    BY <1>5 DEF JsonSend, BaseStep, Write
  <2>p. PICK pre \in BOOLEAN : pre = (Prefilled /\ Kind # "template")
    OBVIOUS
  <2>1. /\ FlowInv' /\ Others(p) /\ StillThere
        /\ LinesDone' = LinesDone \cup {call[p]} /\ UNCHANGED <<open, clock>>
    BY <2>0, <1>0, BaseStepFlows
  <2>2. at'[p] = "mark" /\ base' = base /\ endTime' = endTime
    BY <2>0, <1>0 DEF BaseStep, Go, choiceVars
  <2>3. call[p].time \in Nat
    BY <1>0 DEF Calls
  <2>4. /\ [type |-> "line", span |-> call[p].span, time |-> call[p].time,
             attr |-> call[p].time, kind |-> Kind, prefix |-> pre] \in JsonEntry
        /\ output' = Append(output, [type |-> "line", span |-> call[p].span, time |-> call[p].time,
             attr |-> call[p].time, kind |-> Kind, prefix |-> pre])
    BY <1>0, <2>0, <2>p, ShapeOf DEF JsonEntry, JsonLn, Calls
  <2>5. "line" \notin Spans
    BY DEF Spans
  <2>6. JsonTypeOK'
    BY <1>h, <2>0, <2>1, <2>2, <2>4, <2>5, JsonTyped
  <2> QED BY <1>h, <2>0, <2>1, <2>2, <2>3, <2>4, <2>6 DEF JsonSays
<1>6. CASE JsonDone(p)
  <2>1. /\ DoneStep(p, "done", "number") /\ at[p] = "done" /\ UNCHANGED <<draft, version, output>>
        /\ endTime' = [endTime EXCEPT ![draft[p].span] = draft[p].time]
    BY <1>6 DEF JsonDone, DoneStep
  <2>2. draft[p] \in Timed /\ draft[p].span \in Spans /\ draft[p].time \in Nat
    BY <2>1 DEF Timed
  <2>3. endTime' \in [Spans -> Nat]
    BY <2>1, <2>2
  <2>4. draft[p] # <<>>
    BY <2>2, TimedShows
  <2>5. FlowInv' /\ Others(p) /\ StillThere /\ Quiet(p)
    BY <2>1, <2>4, <1>0, DoneStepFlows DEF Stages
  <2>6. at'[p] = "number" /\ base' = base
    BY <2>1, <1>0 DEF DoneStep, Go, choiceVars
  <2>7. JsonTypeOK'
    BY <1>h, <2>1, <2>2, <2>3, <2>5, <2>6, JsonTyped
  <2> QED BY <1>h, <2>1, <2>5, <2>6, <2>7 DEF JsonSays, StillThere
<1>7. CASE JsonNumber(p)
  <2>1. /\ DoneStep(p, "number", "fill") /\ at[p] = "number" /\ UNCHANGED <<endTime, version, output>>
        /\ draft' = [draft EXCEPT ![p] =
              [type |-> draft[p].span, span |-> draft[p].span, ver |-> Count(draft[p].span)]]
    BY <1>7 DEF JsonNumber, DoneStep
  <2>2. draft[p].span \in Spans
    BY <2>1 DEF Timed
  <2>3. Count(draft[p].span) \in Nat /\ Count(draft[p].span) >= StartCount
    BY <1>c, <2>2 DEF Count
  <2>4. /\ draft'[p] = [type |-> draft[p].span, span |-> draft[p].span, ver |-> Count(draft[p].span)]
        /\ DOMAIN draft' = Procs /\ \A q \in Procs \ {p} : draft'[q] = draft[q]
    BY <2>1, <1>0
  <2>5. /\ draft'[p] \in JsonNumbered /\ draft'[p].type = draft'[p].span /\ draft'[p].ver >= StartCount
        /\ draft'[p].span = draft[p].span /\ draft'[p].ver = Count(draft[p].span)
    BY <2>2, <2>3, <2>4 DEF JsonNumbered
  <2>6. draft'[p] # <<>>
    <3>1. "span" \in DOMAIN draft'[p]
      BY <2>4
    <3> QED BY <3>1, EmptyDomain
  <2>7. FlowInv' /\ Others(p) /\ StillThere /\ Quiet(p)
    BY <2>1, <2>4, <2>5, <2>6, DoneStepFlows DEF Stages
  <2>8. at'[p] = "fill" /\ base' = base
    BY <2>1, <1>0 DEF DoneStep, Go, choiceVars
  <2>9. JsonTypeOK'
    BY <1>h, <2>1, <2>5, <2>7, <2>8, JsonTyped
  <2> QED BY <1>h, <2>1, <2>5, <2>7, <2>8, <2>9 DEF JsonSays
<1>8. CASE JsonFill(p)
  <2>1. /\ DoneStep(p, "fill", "write") /\ at[p] = "fill" /\ UNCHANGED <<endTime, output>>
        /\ draft' = [draft EXCEPT ![p] =
              [type |-> draft[p].span, span |-> draft[p].span, ver |-> draft[p].ver, ended |-> TRUE,
               end |-> endTime[draft[p].span], attributes |-> attributes[draft[p].span]]]
        /\ \E v \in {Count(draft[p].span), draft[p].ver} :
              version' = [version EXCEPT ![draft[p].span] = v + 1 - StartCount]
    BY <1>8 DEF JsonFill, DoneStep
  <2>2. draft[p].span \in Spans /\ draft[p].ver \in Nat /\ draft[p].ver >= StartCount
    BY <2>1 DEF JsonNumbered
  <2>3. version' \in [Spans -> Nat]
    <3>1. PICK v \in {Count(draft[p].span), draft[p].ver} :
              version' = [version EXCEPT ![draft[p].span] = v + 1 - StartCount]
      BY <2>1
    <3>2. v \in Nat /\ v >= StartCount
      BY <1>c, <2>2 DEF Count
    <3>3. v + 1 - StartCount \in Nat
      BY <1>c, <3>2
    <3> QED BY <3>1, <3>3
  <2>4. /\ draft'[p] = [type |-> draft[p].span, span |-> draft[p].span, ver |-> draft[p].ver, ended |-> TRUE,
                        end |-> endTime[draft[p].span], attributes |-> attributes[draft[p].span]]
        /\ DOMAIN draft' = Procs /\ \A q \in Procs \ {p} : draft'[q] = draft[q]
    BY <2>1, <1>0
  <2>5. /\ draft'[p] \in JsonRecord /\ draft'[p].type = draft'[p].span /\ IsFiniteSet(draft'[p].attributes)
        /\ draft'[p].span = draft[p].span /\ draft'[p].ver = draft[p].ver
    BY <1>0, <2>2, <2>4 DEF JsonRecord
  <2>6. draft'[p] # <<>>
    <3>1. "span" \in DOMAIN draft'[p]
      BY <2>4
    <3> QED BY <3>1, EmptyDomain
  <2>7. FlowInv' /\ Others(p) /\ StillThere /\ Quiet(p)
    BY <2>1, <2>4, <2>5, <2>6, DoneStepFlows DEF Stages
  <2>8. at'[p] = "write" /\ base' = base
    BY <2>1, <1>0 DEF DoneStep, Go, choiceVars
  <2>9. JsonTypeOK'
    BY <1>h, <2>1, <2>3, <2>5, <2>7, <2>8, JsonTyped
  <2> QED BY <1>h, <2>1, <2>5, <2>7, <2>8, <2>9 DEF JsonSays
<1>9. CASE JsonWrite(p)
  <2>1. /\ DoneEnds(p, "write") /\ at[p] = "write" /\ UNCHANGED <<version, endTime>>
        /\ output' = Append(output, draft[p])
    BY <1>9 DEF JsonWrite, DoneEnds, Write
  <2>2. FlowInv' /\ Others(p) /\ StillThere /\ Quiet(p)
    BY <2>1, DoneEndsFlows DEF Stages
  <2>3. at'[p] = "visit" /\ base' = base
    BY <2>1, <1>0 DEF DoneEnds, Go, choiceVars
  <2>4. draft[p] \in JsonEntry /\ IsFiniteSet(draft[p].attributes)
    BY <2>1 DEF JsonEntry
  <2>5. JsonTypeOK'
    BY <1>h, <2>1, <2>2, <2>3, <2>4, JsonTyped
  <2> QED BY <1>h, <2>1, <2>2, <2>3, <2>5 DEF JsonSays
<1>10. CASE JsonFlush(p)
  <2>0. BaseStep(p, "flush", "idle") /\ UNCHANGED <<draft, version, output>>
    BY <1>10 DEF JsonFlush
  <2>1. FlowInv' /\ Others(p) /\ StillThere /\ Quiet(p)
    BY <2>0, <1>0, BaseStepFlows DEF Chunks
  <2>2. at'[p] = "idle" /\ base' = base /\ endTime' = endTime
    BY <2>0, <1>0 DEF BaseStep, Go, choiceVars
  <2>3. JsonTypeOK'
    BY <1>h, <2>0, <2>1, <2>2, JsonTyped
  <2> QED BY <1>h, <2>0, <2>1, <2>2, <2>3 DEF JsonSays, StillThere
<1> QED BY <1>1, <1>2, <1>3, <1>4, <1>5, <1>6, <1>7, <1>8, <1>9, <1>10 DEF JsonStep

(* The order of the versions of the records of JSON, where Dones of one span
   do not overlap. *)
JsonCounted == \A s \in Spans : \A i \in DOMAIN output : output[i].type = s => output[i].ver < Count(s)
JsonDrafted == \A p \in Procs :
    /\ at[p] = "fill" => draft[p].ver = Count(draft[p].span)
    /\ at[p] = "write" =>
          /\ draft[p].ver < Count(draft[p].span)
          /\ \A i \in DOMAIN output : output[i].type = draft[p].span => output[i].ver < draft[p].ver
JsonGrow == \A s \in Spans : \A i, j \in DOMAIN output :
    i < j /\ output[i].type = s /\ output[j].type = s => output[i].ver < output[j].ver
JsonOfChild == \A i \in DOMAIN output : output[i].type = "child" => ChildThere
JsonVersions == JsonCounted /\ JsonDrafted /\ JsonGrow /\ JsonOfChild

(* A record of a span in JSON has a version above the records before it
   (basejson), when the calls do not overlap. *)
LEMMA JsonVersionsKept ==
    ASSUME FlowInv, JsonTypeOK, JsonVersions, base \notin Overlapping,
           NEW p \in Procs, Others(p), JsonTypeOK', JsonSays(p), spanStarts' = spanStarts
    PROVE  JsonVersions'
<1> USE DEF JsonVersions
<1>0. /\ \A i \in DOMAIN output : output[i] \in JsonEntry
      /\ DOMAIN output = 1..Len(output) /\ Len(output) \in Nat
      /\ version \in [Spans -> Nat] /\ StartCount \in {0, 1} /\ StartCount' = StartCount
      /\ \A s \in Spans, i \in DOMAIN output : output[i].type = s => output[i].ver \in Nat
  <2>1. \A i \in DOMAIN output : output[i] \in JsonEntry
    BY DEF JsonTypeOK
  <2>2. \A e \in JsonEntry : e.type \in Spans => e.ver \in Nat
    BY DEF JsonEntry, JsonStarts, JsonRecord, JsonLn, Spans
  <2> QED BY <2>1, <2>2 DEF JsonTypeOK, StartCount
<1>1. ASSUME UNCHANGED <<output, version>>, at'[p] \notin {"fill", "write"}, ChildThere => ChildThere'
      PROVE  JsonVersions'
  <2>1. \A s : Count(s)' = Count(s)
    BY <1>1 DEF Count, StartCount
  <2> QED BY <1>1, <2>1 DEF Others, JsonCounted, JsonDrafted, JsonGrow, JsonOfChild
<1>2. ASSUME version' = version, at'[p] \notin {"fill", "write"}, ChildThere => ChildThere',
             NEW e \in JsonEntry, e.type = "line", output' = Append(output, e)
      PROVE  JsonVersions'
  <2>1. /\ DOMAIN output' = 1..Len(output) + 1 /\ output'[Len(output) + 1] = e
        /\ \A i \in DOMAIN output : output'[i] = output[i]
    BY <1>2, Appended DEF JsonTypeOK
  <2>2. \A i \in DOMAIN output' : output'[i].type \in Spans => i \in DOMAIN output /\ output'[i] = output[i]
    BY <1>0, <1>2, <2>1 DEF Spans
  <2>3. \A s : Count(s)' = Count(s)
    BY <1>2 DEF Count, StartCount
  <2>4. JsonCounted' /\ JsonGrow' /\ JsonOfChild'
    BY <1>2, <2>1, <2>2, <2>3 DEF JsonCounted, JsonGrow, JsonOfChild, Spans
  <2>5. \A q \in Procs : at[q] = "write" => draft[q].span \in Spans
    BY DEF JsonTypeOK, JsonRecord
  <2>6. JsonDrafted'
    <3>1. ASSUME NEW q \in Procs, at'[q] \in {"fill", "write"}
          PROVE  at[q] = at'[q] /\ draft'[q] = draft[q]
      BY <1>2, <3>1 DEF Others
    <3> QED BY <1>2, <2>1, <2>2, <2>3, <2>5, <3>1 DEF JsonDrafted
  <2> QED BY <2>4, <2>6
<1>3. ASSUME version' = version, at'[p] = "register", ChildThere', ~ChildThere,
             NEW e \in JsonEntry, e.type = "child", e.ver = 0, spanStarts, output' = Append(output, e)
      PROVE  JsonVersions'
  <2>1. /\ DOMAIN output' = 1..Len(output) + 1 /\ output'[Len(output) + 1] = e
        /\ \A i \in DOMAIN output : output'[i] = output[i]
    BY <1>3, Appended DEF JsonTypeOK
  <2>2. \A i \in DOMAIN output' : i \in DOMAIN output \/ (i = Len(output) + 1 /\ output'[i] = e)
    BY <1>0, <2>1
  <2>3. \A s : Count(s)' = Count(s)
    BY <1>3 DEF Count, StartCount
  <2>4. \A i \in DOMAIN output : output[i].type # "child"
    BY <1>3 DEF JsonOfChild
  <2>5. Count("child") > 0
    BY <1>0, <1>3 DEF Count, StartCount, Spans
  <2>6. JsonCounted' /\ JsonOfChild'
    BY <1>3, <2>1, <2>2, <2>3, <2>5 DEF JsonCounted, JsonOfChild, Spans
  <2>7. JsonGrow'
    BY <1>0, <1>3, <2>1, <2>2, <2>4 DEF JsonGrow
  <2>8. ASSUME NEW q \in Procs, at'[q] \in {"fill", "write"}
        PROVE  at[q] = at'[q] /\ draft'[q] = draft[q] /\ draft[q].span # "child"
    <3>1. at[q] = at'[q] /\ draft'[q] = draft[q]
      BY <1>3, <2>8 DEF Others
    <3>2. draft[q].span \in open
      BY <2>8, <3>1 DEF FlowInv, PlaceOK, Drafted, Stages
    <3> QED BY <1>3, <3>1, <3>2 DEF ChildThere
  <2>9. JsonDrafted'
    BY <1>3, <2>1, <2>2, <2>3, <2>8 DEF JsonDrafted
  <2> QED BY <2>6, <2>7, <2>9
<1>4. ASSUME at[p] = "number", at'[p] = "fill", UNCHANGED <<output, version>>, ChildThere => ChildThere',
             draft'[p].span = draft[p].span, draft'[p].ver = Count(draft[p].span)
      PROVE  JsonVersions'
  <2>1. \A s : Count(s)' = Count(s)
    BY <1>4 DEF Count, StartCount
  <2> QED BY <1>4, <2>1 DEF Others, JsonCounted, JsonDrafted, JsonGrow, JsonOfChild
<1>5. ASSUME at[p] = "fill", at'[p] = "write", output' = output, ChildThere => ChildThere',
             NEW v \in {Count(draft[p].span), draft[p].ver},
             version' = [version EXCEPT ![draft[p].span] = v + 1 - StartCount],
             draft'[p].span = draft[p].span, draft'[p].ver = draft[p].ver
      PROVE  JsonVersions'
  <2>1. draft[p].span \in Spans /\ draft[p].ver = Count(draft[p].span) /\ v = Count(draft[p].span)
    BY <1>5 DEF JsonTypeOK, JsonNumbered, JsonDrafted
  <2> DEFINE after(s) == version'[s] + StartCount
  <2>2. /\ after(draft[p].span) = Count(draft[p].span) + 1
        /\ \A s \in Spans : s # draft[p].span => after(s) = Count(s)
    BY <1>0, <1>5, <2>1 DEF Count
  <2>n. \A s \in Spans : Count(s) \in Nat /\ after(s) >= Count(s) /\ after(s) \in Nat
    <3>1. \A s \in Spans : Count(s) \in Nat
      BY <1>0 DEF Count
    <3> HIDE DEF after
    <3>2. \A s \in Spans : after(s) = Count(s) \/ after(s) = Count(s) + 1
      BY <2>2
    <3> QED BY <3>1, <3>2
  <2>a. /\ JsonCounted' <=> \A s \in Spans : \A i \in DOMAIN output' : output'[i].type = s => output'[i].ver < after(s)
        /\ JsonDrafted' <=> \A q \in Procs :
              /\ at'[q] = "fill" => draft'[q].ver = after(draft'[q].span)
              /\ at'[q] = "write" =>
                    /\ draft'[q].ver < after(draft'[q].span)
                    /\ \A i \in DOMAIN output' : output'[i].type = draft'[q].span => output'[i].ver < draft'[q].ver
    BY <1>0 DEF JsonCounted, JsonDrafted, Count
  <2> HIDE DEF after
  <2>3. JsonCounted' /\ JsonGrow' /\ JsonOfChild'
    BY <1>0, <1>5, <2>n, <2>a DEF JsonCounted, JsonGrow, JsonOfChild
  <2>4. \A i \in DOMAIN output : output[i].type = draft[p].span => output[i].ver < draft[p].ver
    BY <1>0, <2>1 DEF JsonCounted
  <2>5. ASSUME NEW q \in Procs \ {p}, at[q] \in {"fill", "write"}
        PROVE  after(draft[q].span) = Count(draft[q].span)
    <3>1. draft[p].span # draft[q].span
      BY <1>5, <2>5, SpansApart DEF Stages
    <3>2. draft[q].span \in Spans
      BY <2>5 DEF JsonTypeOK, JsonNumbered, JsonRecord
    <3> QED BY <2>2, <3>1, <3>2
  <2>6. JsonDrafted'
    <3>1. ASSUME NEW q \in Procs, q # p, at'[q] \in {"fill", "write"}
          PROVE  at[q] = at'[q] /\ draft'[q] = draft[q] /\ after(draft'[q].span) = Count(draft[q].span)
      BY <3>1, <2>5 DEF Others
    <3>2. ASSUME NEW q \in Procs, at'[q] = "fill"
          PROVE  draft'[q].ver = after(draft'[q].span)
      BY <1>5, <3>1, <3>2 DEF JsonDrafted
    <3>3. ASSUME NEW q \in Procs, at'[q] = "write"
          PROVE  /\ draft'[q].ver < after(draft'[q].span)
                 /\ \A i \in DOMAIN output' : output'[i].type = draft'[q].span => output'[i].ver < draft'[q].ver
      <4>1. CASE q = p
        BY <1>5, <2>1, <2>2, <2>4, <2>n, <4>1
      <4>2. CASE q # p
        BY <1>5, <3>1, <3>3, <4>2 DEF JsonDrafted
      <4> QED BY <4>1, <4>2
    <3> QED BY <3>2, <3>3, <2>a
  <2> QED BY <2>3, <2>6
<1>6. ASSUME at[p] = "write", at'[p] = "visit", version' = version, output' = Append(output, draft[p]), ChildThere => ChildThere'
      PROVE  JsonVersions'
  <2>0. /\ draft[p] \in JsonEntry /\ draft[p].span \in Spans /\ draft[p].ver \in Nat
        /\ draft[p].type = draft[p].span /\ draft[p].span \in open
        /\ draft[p].ver < Count(draft[p].span)
        /\ \A i \in DOMAIN output : output[i].type = draft[p].span => output[i].ver < draft[p].ver
    <3>1. draft[p] \in JsonEntry /\ draft[p].span \in Spans /\ draft[p].ver \in Nat /\ draft[p].type = draft[p].span
      BY <1>6 DEF JsonTypeOK, JsonEntry, JsonRecord
    <3>2. draft[p].span \in open
      BY <1>6 DEF FlowInv, PlaceOK, Drafted, Stages
    <3> QED BY <1>6, <3>1, <3>2 DEF JsonDrafted
  <2>1. /\ DOMAIN output' = 1..Len(output) + 1 /\ output'[Len(output) + 1] = draft[p]
        /\ \A i \in DOMAIN output : output'[i] = output[i]
    BY <1>6, <2>0, Appended DEF JsonTypeOK
  <2>2. \A i \in DOMAIN output' : i \in DOMAIN output \/ (i = Len(output) + 1 /\ output'[i] = draft[p])
    BY <1>0, <2>1
  <2>3. \A s : Count(s)' = Count(s)
    BY <1>6 DEF Count, StartCount
  <2>4. JsonCounted'
    BY <1>6, <2>0, <2>1, <2>2, <2>3 DEF JsonCounted
  <2>5. JsonGrow'
    BY <1>0, <1>6, <2>0, <2>1, <2>2 DEF JsonGrow
  <2>6. JsonDrafted'
    <3>1. ASSUME NEW q \in Procs, at'[q] = "fill"
          PROVE  at[q] = "fill" /\ draft'[q] = draft[q]
      BY <1>6, <3>1 DEF Others
    <3>2. ASSUME NEW q \in Procs, at'[q] = "write"
          PROVE  at[q] = "write" /\ draft'[q] = draft[q] /\ draft[p].span # draft[q].span
      BY <1>6, <3>2, SpansApart DEF Others, Stages
    <3> QED BY <1>6, <2>0, <2>1, <2>2, <2>3, <3>1, <3>2 DEF JsonDrafted
  <2>7. JsonOfChild'
    BY <1>6, <2>0, <2>1, <2>2 DEF JsonOfChild, ChildThere
  <2> QED BY <2>4, <2>5, <2>6, <2>7
<1> QED
  <2>1. JsonStart("child") \in JsonEntry /\ JsonStart("child").type = "child" /\ JsonStart("child").ver = 0
    BY DEF JsonEntry, JsonStarts, JsonStart, Spans
  <2>2. \A a \in Nat, pre \in BOOLEAN :
            [type |-> "line", span |-> call[p].span, time |-> call[p].time,
             attr |-> a, kind |-> Kind, prefix |-> pre] \in JsonEntry
    BY ShapeOf DEF JsonEntry, JsonLn, Calls, FlowInv, FlowTypeOK
  <2>3. StillThere => (ChildThere => ChildThere')
    BY DEF StillThere
  <2> QED BY <1>1, <1>2, <1>3, <1>4, <1>5, <1>6, <2>1, <2>2, <2>3 DEF JsonSays

(* The JSON base logger keeps what was said of its output. *)
LEMMA JsonStreams ==
    ASSUME FlowInv, LinesInv, JsonTypeOK, Sent, spanStarts => Told, base = "json", base' = base,
           spanStarts' = spanStarts, NEW p \in Procs, JsonSays(p)
    PROVE  Sent' /\ (spanStarts => Told')
<1> USE DEF LineIn, FirstIn, AboutIn
<1>0. output \in Seq(JsonEntry)
  BY DEF JsonTypeOK
<1>1. CASE output' = output /\ (spanStarts => StillThere) /\ Quiet(p)
  BY <1>0, <1>1, SentKept, ToldKept
<1>2. CASE /\ spanStarts /\ output' = Append(output, JsonStart("child"))
           /\ ChildThere' /\ ~ChildThere /\ Quiet(p)
  <2>1. PICK e \in JsonEntry : e = JsonStart("child")
    BY DEF JsonEntry, JsonStarts, JsonStart, Spans
  <2>2. output' = Append(output, e) /\ ~LineIn(base, e) /\ FirstIn(base, e, "child") /\ ~AboutIn(base, e, "child")
    BY <1>2, <2>1 DEF JsonStart
  <2> HIDE DEF LineIn, FirstIn, AboutIn
  <2> QED BY <1>0, <1>2, <2>2, SentKept, ToldKept
<1>3. ASSUME at[p] = "send", StillThere, LinesDone' = LinesDone \cup {call[p]}, NEW a \in Nat, NEW pre \in BOOLEAN,
             output' = Append(output, [type |-> "line", span |-> call[p].span, time |-> call[p].time,
                                       attr |-> a, kind |-> Kind, prefix |-> pre])
      PROVE  Sent' /\ (spanStarts => Told')
  <2>1. PICK e \in JsonEntry : e = [type |-> "line", span |-> call[p].span, time |-> call[p].time,
                                       attr |-> a, kind |-> Kind, prefix |-> pre]
    BY ShapeOf DEF JsonEntry, JsonLn, Calls, FlowInv, FlowTypeOK
  <2>2. output' = Append(output, e) /\ LineIn(base, e) /\ SameLine(e, call[p]) /\ ~FirstIn(base, e, "child")
        /\ (AboutIn(base, e, "child") => "child" \in open)
    BY <1>3, <2>1 DEF SameLine, FlowInv, PlaceOK, Calling
  <2> HIDE DEF LineIn, FirstIn, AboutIn
  <2> QED BY <1>0, <1>3, <2>2, SentKept, ToldKept
<1>4. ASSUME at[p] = "write", StillThere, Quiet(p), output' = Append(output, draft[p])
      PROVE  Sent' /\ (spanStarts => Told')
  <2>1. draft[p] \in JsonRecord /\ draft[p].type = draft[p].span /\ draft[p].span \in open
    BY <1>4 DEF JsonTypeOK, FlowInv, PlaceOK, Drafted, Stages
  <2>2. /\ draft[p] \in JsonEntry /\ ~LineIn(base, draft[p]) /\ ~FirstIn(base, draft[p], "child")
        /\ (AboutIn(base, draft[p], "child") => "child" \in open)
    BY <2>1 DEF JsonEntry, JsonRecord, Spans
  <2> HIDE DEF LineIn, FirstIn, AboutIn
  <2> QED BY <1>0, <1>4, <2>2, SentKept, ToldKept
<1> QED BY <1>1, <1>2, <1>3, <1>4 DEF JsonSays

-----------------------------------------------------------------------------
(* What a chunk of protobuf is, and the draft of one. *)
PbLn     == [op : {"line"}, span : Spans, time : Nat, attr : Nat, kind : Kinds, prefix : BOOLEAN]
Protos   == [span : Spans, ver : Nat, ended : BOOLEAN, attributes : SUBSET Nat]
Endeds   == [span : Spans, ver : Nat, ended : BOOLEAN, attributes : SUBSET Nat, end : Nat]
PbChunk  == [request : Endeds, children : {c \in Seq(Endeds) : Len(c) <= 1}, prior : Nat, lines : Seq(PbLn)]
ProtoDraft == [request : Protos, children : {c \in Seq(Protos) : Len(c) <= 1}]
LinesDraft == [request : Protos, children : {c \in Seq(Protos) : Len(c) <= 1}, prior : Nat, lines : Seq(PbLn)]

PbTypeOK ==
    /\ output \in Seq(PbChunk) /\ buffered \in Seq(PbLn) /\ priorLines \in Nat
    /\ needFlushing \in Seq({"child"})
    /\ version \in [Spans -> Nat] /\ endTime \in [Spans -> Nat]
    /\ \A p \in Procs :
          /\ at[p] \in {"done", "queue"} => draft[p] \in Timed
          /\ at[p] \in {"subspans", "subproto", "lines"} => draft[p] \in ProtoDraft
          /\ at[p] = "chunk" => draft[p] \in LinesDraft
          /\ at[p] \in Stages => at[p] \in {"done", "queue"}

(* What was active or can be used from now on is active or gets a Done. *)
ActiveKept(p) ==
    /\ "child" \in open' => "child" \in open \/ "child" \in active'
    /\ "child" \in active => "child" \in active' \/ (at'[p] = "done" /\ Head(todo'[p]) = "child")
    /\ raced => raced'

(* The steps of the protobuf base logger. *)
PbSays(p) ==
    \/ /\ UNCHANGED <<output, pbVars, version>> /\ ActiveKept(p)
       /\ at[p] \notin {"queue"} \cup Chunks /\ at'[p] \notin Chunks \ {"flush"}
       /\ at[p] = "done" => at'[p] = "queue" /\ todo' = todo
    \/ /\ UNCHANGED <<output, needFlushing, version, active, open, raced>>
       /\ at[p] = "send" /\ at'[p] = "mark"
       /\ \E e \in PbLn : buffered' = Append(buffered, e) /\ e.span \in open
    \/ /\ UNCHANGED <<output, buffered, version, active, open, raced>>
       /\ at[p] = "queue" /\ at'[p] = "visit"
       /\ needFlushing' = IF Head(todo[p]) = "child" THEN Append(needFlushing, "child") ELSE needFlushing
    \/ /\ UNCHANGED <<output, buffered, needFlushing, active, open, raced>>
       /\ at[p] = "flush" /\ at'[p] = "subspans"
       /\ version' = [version EXCEPT !["request"] = @ + 1]
       /\ draft'[p].request.ver = version["request"] + 1 /\ draft'[p].children = <<>>
    \/ /\ UNCHANGED <<output, buffered, version, active, open, raced, draft>>
       /\ at[p] = "subspans" /\ at'[p] = IF needFlushing = <<>> THEN "lines" ELSE "subproto"
       /\ needFlushing' = <<>>
    \/ /\ UNCHANGED <<output, buffered, needFlushing, active, open, raced>>
       /\ at[p] = "subproto" /\ at'[p] = "lines"
       /\ version' = [version EXCEPT !["child"] = @ + 1]
       /\ draft'[p].request = draft[p].request
       /\ \E c \in Protos : draft'[p].children = <<c>> /\ c.ver = version["child"] + 1
    \/ /\ UNCHANGED <<output, needFlushing, version, active, open, raced>>
       /\ at[p] = "lines" /\ at'[p] = "chunk" /\ buffered' = <<>>
       /\ draft'[p].request = draft[p].request /\ draft'[p].children = draft[p].children
       /\ draft'[p].lines = buffered
    \/ /\ UNCHANGED <<buffered, needFlushing, version, active, open, raced>>
       /\ at[p] = "chunk" /\ at'[p] = "idle"
       /\ \E e \in PbChunk :
             /\ output' = Append(output, e) /\ e.request.ver = draft[p].request.ver /\ e.lines = draft[p].lines
             /\ DOMAIN e.children = DOMAIN draft[p].children
             /\ \A k \in DOMAIN e.children : e.children[k].ver = draft[p].children[k].ver

(* No step of the program loses a span, or forgets that calls overlapped. *)
LEMMA ProgramActive ==
    ASSUME FlowInv, NEW p \in Procs, ProgramStep(p)
    PROVE  ActiveKept(p) /\ at[p] \in {"idle", "register", "mark", "visit"} /\ UNCHANGED endTime
           /\ at'[p] \notin Chunks \ {"flush"} /\ at'[p] # "queue"
<1> USE DEF FlowInv, FlowTypeOK, ActiveKept, Go, Chunks
<1>1. CASE Register(p)
  BY <1>1 DEF Register
<1>2. CASE Mark(p)
  BY <1>2 DEF Mark
<1>3. CASE \E s \in Spans : StartDone(p, s)
  BY <1>3, Zenon DEF StartDone, Begin, Busy
<1>4. CASE Visit(p)
  BY <1>4 DEF Visit
<1>5. CASE Pass(p)
  BY <1>5 DEF Pass
<1>6. CASE Visited(p)
  BY <1>6 DEF Visited
<1> QED BY <1>1, <1>2, <1>3, <1>4, <1>5, <1>6 DEF ProgramStep

(* A step of p that keeps its own types keeps all. *)
LEMMA PbTyped ==
    ASSUME PbTypeOK, NEW p \in Procs, Others(p),
           \/ output' = output
           \/ \E e \in PbChunk : output' = Append(output, e),
           buffered' \in Seq(PbLn), priorLines' \in Nat, needFlushing' \in Seq({"child"}),
           version' \in [Spans -> Nat], endTime' \in [Spans -> Nat],
           at'[p] \in {"done", "queue"} => draft'[p] \in Timed,
           at'[p] \in {"subspans", "subproto", "lines"} => draft'[p] \in ProtoDraft,
           at'[p] = "chunk" => draft'[p] \in LinesDraft,
           at'[p] \in Stages => at'[p] \in {"done", "queue"}
    PROVE  PbTypeOK'
<1> USE DEF PbTypeOK
<1>1. output' \in Seq(PbChunk)
  <2>1. CASE output' = output
    BY <2>1
  <2>2. ASSUME NEW e \in PbChunk, output' = Append(output, e) PROVE output' \in Seq(PbChunk)
    BY <2>2, Appended
  <2> QED BY <2>1, <2>2
<1>2. ASSUME NEW q \in Procs
      PROVE  /\ at'[q] \in {"done", "queue"} => draft'[q] \in Timed
             /\ at'[q] \in {"subspans", "subproto", "lines"} => draft'[q] \in ProtoDraft
             /\ at'[q] = "chunk" => draft'[q] \in LinesDraft
             /\ at'[q] \in Stages => at'[q] \in {"done", "queue"}
  BY DEF Others
<1> QED BY <1>1, <1>2

(* The children that a flush puts into its draft: none, or the sub-span. *)
LEMMA OneChild ==
    /\ <<>> \in {c \in Seq(Protos) : Len(c) <= 1}
    /\ \A d \in Protos : <<d>> \in {c \in Seq(Protos) : Len(c) <= 1}
    /\ {"child"} # {} /\ <<>> \in Seq({"child"}) /\ <<>> \in Seq(PbLn)
OBVIOUS

(* What getProto returns of a span. *)
LEMMA ProtoOf ==
    ASSUME FlowInv, PbTypeOK, NEW s \in Spans
    PROVE  Proto(s) \in Protos /\ Proto(s).ver = version[s] + 1 /\ version[s] + 1 \in Nat
BY DEF Proto, Protos, FlowInv, FlowTypeOK, PbTypeOK

(* Every step of the protobuf base logger. *)
LEMMA PbSteps ==
    ASSUME FlowInv, PbTypeOK, NEW p \in Procs, PbStep(p)
    PROVE  FlowInv' /\ Others(p) /\ base' = base /\ PbTypeOK' /\ PbSays(p)
<1> USE DEF PbTypeOK
<1>0. /\ at \in [Procs -> Places] /\ clock \in Nat /\ call[p] \in Calls /\ DOMAIN draft = Procs
      /\ shape \in Shapes /\ open \subseteq Spans
      /\ attributes \in [Spans -> SUBSET Nat] /\ "request" \in Spans /\ "child" \in Spans
  BY DEF FlowInv, FlowTypeOK, Drafted, Spans
<1>1. CASE ProgramStep(p) /\ UNCHANGED pbVars
  <2>1. /\ FlowInv' /\ Others(p) /\ UNCHANGED <<base, shape, version, output>>
        /\ \/ at'[p] \notin Stages /\ draft' = draft
           \/ at'[p] = "done" /\ draft'[p] \in Timed
    BY <1>1, ProgramStepFlows
  <2>2. /\ ActiveKept(p) /\ at[p] \in {"idle", "register", "mark", "visit"} /\ UNCHANGED endTime
        /\ at'[p] \notin Chunks \ {"flush"} /\ at'[p] # "queue"
    BY <1>1, ProgramActive
  <2>3. UNCHANGED <<needFlushing, buffered, priorLines>>
    BY <1>1 DEF pbVars
  <2>4. at'[p] = "done" => draft'[p] \in Timed
    BY <2>1 DEF Stages
  <2>5. at'[p] \in Stages => at'[p] = "done"
    BY <2>1
  <2>6. PbTypeOK'
    BY <2>1, <2>2, <2>3, <2>4, <2>5, PbTyped DEF Chunks
  <2>7. at[p] \notin {"queue", "done"} \cup Chunks
    BY <2>2 DEF Chunks
  <2> QED BY <1>1, <2>1, <2>2, <2>6, <2>7 DEF PbSays
<1>2. CASE PbSpan(p)
  <2>1. /\ FlowInv' /\ Others(p) /\ at'[p] = "register" /\ UNCHANGED <<base, open, endTime, version, draft>>
    BY <1>2, SpanFlows DEF PbSpan
  <2>2. /\ UNCHANGED <<output, pbVars, needFlushing, buffered, priorLines, active>> /\ at[p] = "idle"
        /\ (raced => raced')
    BY <1>2, Zenon DEF PbSpan, pbVars, Span, Begin, Busy
  <2>3. PbTypeOK'
    BY <2>1, <2>2, PbTyped DEF Stages
  <2> QED BY <2>1, <2>2, <2>3 DEF PbSays, ActiveKept, Chunks
<1>3. CASE \E s \in Spans : PbLine(p, s)
  <2>0. PICK s \in Spans : PbLine(p, s)
    BY <1>3
  <2>1. /\ FlowInv' /\ Others(p) /\ at'[p] = "send" /\ clock' = clock + 1
        /\ UNCHANGED <<base, open, version, draft, output>>
    BY <2>0, LineFlows DEF PbLine
  <2>2. /\ UNCHANGED <<pbVars, needFlushing, buffered, priorLines, active>> /\ at[p] = "idle"
        /\ (raced => raced')
    BY <2>0, Zenon DEF PbLine, pbVars, Line, Begin, Busy
  <2>3. endTime' \in [Spans -> Nat]
    BY <2>0, <2>1, <1>0 DEF PbLine, Larger
  <2>4. PbTypeOK'
    BY <2>1, <2>2, <2>3, PbTyped DEF Stages
  <2> QED BY <2>1, <2>2, <2>4 DEF PbSays, ActiveKept, Chunks
<1>4. CASE \E s \in Spans : PbMetadata(p, s)
  <2>0. PICK s \in Spans : PbMetadata(p, s)
    BY <1>4
  <2>1. /\ FlowInv' /\ Others(p) /\ at'[p] = "mark" /\ UNCHANGED <<base, open, version, output, endTime>>
    BY <2>0, MetadataFlows DEF PbMetadata
  <2>2. /\ UNCHANGED <<pbVars, needFlushing, buffered, priorLines, active, draft>> /\ at[p] = "idle"
        /\ (raced => raced')
    BY <2>0, Zenon DEF PbMetadata, pbVars, Metadata, Begin, Busy
  <2>4. PbTypeOK'
    BY <2>1, <2>2, PbTyped DEF Stages
  <2> QED BY <2>1, <2>2, <2>4 DEF PbSays, ActiveKept, Chunks
<1>5. CASE PbSend(p)
  <2>0. /\ BaseStep(p, "send", "mark") /\ at[p] = "send"
        /\ UNCHANGED <<draft, version, output, needFlushing, priorLines, active, open, raced, endTime>>
    BY <1>5 DEF PbSend, BaseStep
  <2>1. FlowInv' /\ Others(p)
    BY <2>0, <1>0, BaseStepFlows
  <2>2. at'[p] = "mark" /\ base' = base
    BY <2>0, <1>0 DEF BaseStep, Go, choiceVars
  <2>p. PICK pre \in BOOLEAN : pre = (Prefilled /\ Kind \in {"msg", "template"})
    OBVIOUS
  <2>3. PICK e \in PbLn : e = [op |-> "line", span |-> call[p].span, time |-> call[p].time,
                               attr |-> call[p].time, kind |-> Kind, prefix |-> pre]
    BY <1>0, ShapeOf DEF PbLn, Calls
  <2>4. buffered' = Append(buffered, e)
    BY <1>5, <2>p, <2>3 DEF PbSend
  <2>5. e.span \in open
    BY <2>0, <2>3 DEF FlowInv, PlaceOK, Calling
  <2>6. buffered' \in Seq(PbLn)
    BY <2>4
  <2>7. PbTypeOK'
    BY <2>0, <2>1, <2>2, <2>6, PbTyped DEF Stages
  <2> QED BY <2>0, <2>1, <2>2, <2>4, <2>5, <2>7 DEF PbSays
<1>6. CASE PbDone(p)
  <2>1. /\ DoneStep(p, "done", "queue") /\ at[p] = "done"
        /\ UNCHANGED <<draft, version, output, pbVars, needFlushing, buffered, priorLines, todo, active, open, raced>>
        /\ endTime' = [endTime EXCEPT ![draft[p].span] = Larger(@, draft[p].time)]
    BY <1>6 DEF PbDone, DoneStep, pbVars
  <2>2. draft[p] \in Timed /\ draft[p].span \in Spans /\ draft[p].time \in Nat
    BY <2>1 DEF Timed
  <2>3. endTime' \in [Spans -> Nat]
    BY <2>1, <2>2 DEF Larger
  <2>4. draft[p] # <<>>
    BY <2>2, TimedShows
  <2>5. FlowInv' /\ Others(p)
    BY <2>1, <2>4, <1>0, DoneStepFlows DEF Stages
  <2>6. at'[p] = "queue" /\ base' = base
    BY <2>1, <1>0 DEF DoneStep, Go, choiceVars
  <2>7. PbTypeOK'
    BY <2>1, <2>2, <2>3, <2>5, <2>6, PbTyped
  <2> QED BY <2>1, <2>5, <2>6, <2>7 DEF PbSays, ActiveKept, Chunks
<1>7. CASE PbQueue(p)
  <2>1. /\ DoneEnds(p, "queue") /\ at[p] = "queue"
        /\ UNCHANGED <<endTime, version, output, buffered, priorLines, active, open, raced>>
        /\ needFlushing' = IF draft[p].span = "child" THEN Append(needFlushing, "child") ELSE needFlushing
    BY <1>7 DEF PbQueue, DoneEnds
  <2>2. FlowInv' /\ Others(p)
    BY <2>1, DoneEndsFlows DEF Stages
  <2>3. at'[p] = "visit" /\ base' = base
    BY <2>1, <1>0 DEF DoneEnds, Go, choiceVars
  <2>4. draft[p].span = Head(todo[p])
    BY <2>1 DEF FlowInv, Drafted, Stages
  <2>5. needFlushing' \in Seq({"child"})
    BY <2>1
  <2>6. PbTypeOK'
    BY <2>1, <2>2, <2>3, <2>5, PbTyped DEF Stages
  <2> QED BY <2>1, <2>2, <2>3, <2>4, <2>6 DEF PbSays
<1>8. CASE PbProto(p)
  <2>1. /\ BaseStep(p, "flush", "subspans") /\ at[p] = "flush"
        /\ UNCHANGED <<output, needFlushing, buffered, priorLines, active, open, raced, endTime>>
        /\ version' = [version EXCEPT !["request"] = version["request"] + 1]
        /\ draft' = [draft EXCEPT ![p] = [request |-> Proto("request"), children |-> <<>>]]
    BY <1>8 DEF PbProto, BaseStep, pbVars
  <2>2. PICK d \in Protos : d = Proto("request") /\ d.ver = version["request"] + 1
    BY <1>0, ProtoOf
  <2>3. PICK none \in {c \in Seq(Protos) : Len(c) <= 1} : none = <<>>
    BY OneChild
  <2>4. /\ draft'[p] = [request |-> d, children |-> none]
        /\ DOMAIN draft' = Procs /\ \A q \in Procs \ {p} : draft'[q] = draft[q]
    BY <2>1, <2>2, <2>3, <1>0
  <2>5. FlowInv' /\ Others(p)
    BY <2>1, <2>4, BaseStepFlows DEF Chunks
  <2>6. at'[p] = "subspans" /\ base' = base /\ version' \in [Spans -> Nat]
    BY <2>1, <1>0 DEF BaseStep, Go, choiceVars
  <2>7. draft'[p] \in ProtoDraft
    BY <2>4 DEF ProtoDraft
  <2>8. PbTypeOK'
    BY <2>1, <2>5, <2>6, <2>7, PbTyped DEF Stages
  <2> QED BY <2>1, <2>2, <2>3, <2>4, <2>5, <2>6, <2>8 DEF PbSays
<1>9. CASE PbTakeSpans(p)
  <2>0. PICK to \in {"lines", "subproto"} : to = IF needFlushing = <<>> THEN "lines" ELSE "subproto"
    OBVIOUS
  <2>1. /\ BaseStep(p, "subspans", to) /\ at[p] = "subspans"
        /\ UNCHANGED <<draft, version, output, buffered, priorLines, active, open, raced, endTime>>
        /\ needFlushing' = <<>>
    BY <1>9, <2>0 DEF PbTakeSpans, BaseStep
  <2>2. FlowInv' /\ Others(p)
    BY <2>1, <1>0, BaseStepFlows DEF Chunks
  <2>3. at'[p] = to /\ base' = base /\ needFlushing' \in Seq({"child"})
    BY <2>1, <1>0 DEF BaseStep, Go, choiceVars
  <2>4. draft'[p] \in ProtoDraft
    BY <2>1
  <2>5. PbTypeOK'
    BY <2>1, <2>2, <2>3, <2>4, PbTyped DEF Stages
  <2> QED BY <2>0, <2>1, <2>2, <2>3, <2>5 DEF PbSays
<1>10. CASE PbSubProto(p)
  <2>1. /\ BaseStep(p, "subproto", "lines") /\ at[p] = "subproto"
        /\ UNCHANGED <<output, needFlushing, buffered, priorLines, active, open, raced, endTime>>
        /\ version' = [version EXCEPT !["child"] = version["child"] + 1]
        /\ draft' = [draft EXCEPT ![p].children = <<Proto("child")>>]
    BY <1>10 DEF PbSubProto, BaseStep, pbVars
  <2>2. PICK d \in Protos : d = Proto("child") /\ d.ver = version["child"] + 1
    BY <1>0, ProtoOf
  <2>3. PICK one \in {c \in Seq(Protos) : Len(c) <= 1} : one = <<d>>
    BY OneChild
  <2>d. draft[p] \in ProtoDraft
    BY <2>1
  <2>4. /\ draft'[p] = [draft[p] EXCEPT !.children = one]
        /\ DOMAIN draft' = Procs /\ \A q \in Procs \ {p} : draft'[q] = draft[q]
    BY <2>1, <2>2, <2>3, <1>0
  <2>5. FlowInv' /\ Others(p)
    BY <2>1, <2>4, BaseStepFlows DEF Chunks
  <2>6. at'[p] = "lines" /\ base' = base /\ version' \in [Spans -> Nat]
    BY <2>1, <1>0 DEF BaseStep, Go, choiceVars
  <2>7. draft'[p] \in ProtoDraft /\ draft'[p].request = draft[p].request /\ draft'[p].children = one
    BY <2>d, <2>4 DEF ProtoDraft
  <2>8. PbTypeOK'
    BY <2>1, <2>5, <2>6, <2>7, PbTyped DEF Stages
  <2> QED BY <2>1, <2>2, <2>3, <2>5, <2>6, <2>7, <2>8 DEF PbSays
<1>11. CASE PbTakeLines(p)
  <2>1. /\ BaseStep(p, "lines", "chunk") /\ at[p] = "lines"
        /\ UNCHANGED <<output, needFlushing, version, active, open, raced, endTime>>
        /\ draft' = [draft EXCEPT ![p] = [request |-> draft[p].request, children |-> draft[p].children,
                                          prior |-> priorLines, lines |-> buffered]]
        /\ priorLines' = priorLines + Len(buffered) /\ buffered' = <<>>
    BY <1>11 DEF PbTakeLines, BaseStep
  <2>d. draft[p] \in ProtoDraft
    BY <2>1
  <2>4. /\ draft'[p] = [request |-> draft[p].request, children |-> draft[p].children,
                        prior |-> priorLines, lines |-> buffered]
        /\ DOMAIN draft' = Procs /\ \A q \in Procs \ {p} : draft'[q] = draft[q]
    BY <2>1, <1>0
  <2>5. FlowInv' /\ Others(p)
    BY <2>1, <2>4, BaseStepFlows DEF Chunks
  <2>6. at'[p] = "chunk" /\ base' = base /\ priorLines' \in Nat /\ buffered' \in Seq(PbLn)
    BY <2>1, <1>0 DEF BaseStep, Go, choiceVars
  <2>7. draft'[p] \in LinesDraft
    BY <2>d, <2>4 DEF ProtoDraft, LinesDraft
  <2>8. PbTypeOK'
    BY <2>1, <2>5, <2>6, <2>7, PbTyped DEF Stages
  <2> QED BY <2>1, <2>4, <2>5, <2>6, <2>8 DEF PbSays
<1>12. CASE PbWrite(p)
  <2> DEFINE Ended(d) == [span |-> d.span, ver |-> d.ver, attributes |-> d.attributes,
                          ended |-> d.ended, end |-> endTime[d.span]]
             c == draft[p]
             e == [request |-> Ended(c.request), children |-> [i \in DOMAIN c.children |-> Ended(c.children[i])],
                   prior |-> c.prior, lines |-> c.lines]
  <2>1. /\ BaseStep(p, "chunk", "idle") /\ at[p] = "chunk"
        /\ UNCHANGED <<buffered, needFlushing, priorLines, version, active, open, raced, endTime>>
        /\ output' = Append(output, e) /\ draft' = [draft EXCEPT ![p] = <<>>]
    BY <1>12 DEF PbWrite, BaseStep, pbVars, Write
  <2>2. c \in LinesDraft
    BY <2>1
  <2>3. \A d \in Protos : Ended(d) \in Endeds /\ Ended(d).ver = d.ver
    BY DEF Protos, Endeds
  <2>4. /\ c.request \in Protos /\ c.children \in Seq(Protos) /\ Len(c.children) <= 1
        /\ c.prior \in Nat /\ c.lines \in Seq(PbLn)
    BY <2>2 DEF LinesDraft
  <2> HIDE DEF Ended, c
  <2>5. /\ e.children \in {x \in Seq(Endeds) : Len(x) <= 1} /\ DOMAIN e.children = DOMAIN c.children
        /\ \A k \in DOMAIN e.children : e.children[k].ver = c.children[k].ver
    BY <2>3, <2>4
  <2>6. e \in PbChunk /\ e.request.ver = c.request.ver /\ e.lines = c.lines
    BY <2>3, <2>4, <2>5 DEF PbChunk
  <2>7. /\ DOMAIN draft' = Procs /\ \A q \in Procs \ {p} : draft'[q] = draft[q]
    BY <2>1, <1>0
  <2>8. FlowInv' /\ Others(p)
    BY <2>1, <2>7, BaseStepFlows DEF Chunks
  <2>9. at'[p] = "idle" /\ base' = base
    BY <2>1, <1>0 DEF BaseStep, Go, choiceVars
  <2> HIDE DEF e
  <2>10. PbTypeOK'
    BY <2>1, <2>6, <2>8, <2>9, PbTyped DEF Stages
  <2> QED BY <2>1, <2>5, <2>6, <2>8, <2>9, <2>10 DEF PbSays, c
<1> QED BY <1>1, <1>2, <1>3, <1>4, <1>5, <1>6, <1>7, <1>8, <1>9, <1>10, <1>11, <1>12 DEF PbStep

(* The order of the versions in the chunks: those of a draft are above all
   that was written, and no other is given out after them. *)
Drafting == {"subspans", "subproto", "lines", "chunk"}
PbCounted == \A i \in DOMAIN output :
    /\ output[i].request.ver <= version["request"]
    /\ \A k \in DOMAIN output[i].children : output[i].children[k].ver <= version["child"]
PbDrafted == at[Flusher] \in Drafting =>
    LET d == draft[Flusher] IN
    /\ d.request.ver <= version["request"]
    /\ \A i \in DOMAIN output : output[i].request.ver < d.request.ver
    /\ \A k \in DOMAIN d.children :
          /\ d.children[k].ver <= version["child"]
          /\ \A i \in DOMAIN output : \A m \in DOMAIN output[i].children : output[i].children[m].ver < d.children[k].ver
    /\ at[Flusher] \in {"subspans", "subproto"} => d.children = <<>>
PbGrow == \A i, j \in DOMAIN output : i < j =>
    /\ output[i].request.ver < output[j].request.ver
    /\ \A k \in DOMAIN output[i].children, m \in DOMAIN output[j].children :
          output[i].children[k].ver < output[j].children[m].ver
PbVersions == PbCounted /\ PbDrafted /\ PbGrow

(* The versions of what protobuf has written and drafted are numbers. *)
LEMMA PbNumbers ==
    ASSUME FlowInv, PbTypeOK
    PROVE  /\ DOMAIN output = 1..Len(output) /\ Len(output) \in Nat
           /\ version["request"] \in Nat /\ version["child"] \in Nat
           /\ \A i \in DOMAIN output : /\ output[i] \in PbChunk /\ output[i].request.ver \in Nat
                                        /\ \A k \in DOMAIN output[i].children : output[i].children[k].ver \in Nat
           /\ at[Flusher] \in Drafting =>
                 /\ draft[Flusher].request.ver \in Nat
                 /\ \A k \in DOMAIN draft[Flusher].children : draft[Flusher].children[k].ver \in Nat
<1> USE DEF PbTypeOK
<1>1. \A i \in DOMAIN output : output[i] \in PbChunk
  OBVIOUS
<1>2. \A e \in PbChunk : e.request.ver \in Nat /\ \A k \in DOMAIN e.children : e.children[k].ver \in Nat
  <2>1. \A d \in Endeds : d.ver \in Nat
    BY DEF Endeds
  <2>2. \A e \in PbChunk : e.request \in Endeds /\ e.children \in Seq(Endeds)
    BY DEF PbChunk
  <2> QED BY <2>1, <2>2
<1>3. \A d \in ProtoDraft \cup LinesDraft :
          d.request.ver \in Nat /\ \A k \in DOMAIN d.children : d.children[k].ver \in Nat
  <2>1. \A d \in Protos : d.ver \in Nat
    BY DEF Protos
  <2>2. \A d \in ProtoDraft \cup LinesDraft : d.request \in Protos /\ d.children \in Seq(Protos)
    BY DEF ProtoDraft, LinesDraft
  <2> QED BY <2>1, <2>2
<1>4. at[Flusher] \in Drafting => draft[Flusher] \in ProtoDraft \cup LinesDraft
  BY Goroutines DEF Drafting
<1>5. version["request"] \in Nat /\ version["child"] \in Nat
  BY DEF Spans
<1> QED BY <1>1, <1>2, <1>3, <1>4, <1>5

(* Where the flusher is, if it takes no step of its own in a chunk. *)
LEMMA Drafts ==
    ASSUME NEW p \in Procs, Others(p), at'[p] \notin Drafting
    PROVE  at'[Flusher] \in Drafting => at[Flusher] = at'[Flusher] /\ draft'[Flusher] = draft[Flusher] /\ p # Flusher
BY Goroutines DEF Others

(* No step of the protobuf base logger breaks the order. *)
LEMMA PbVersionsKept ==
    ASSUME FlowInv, PbTypeOK, PbVersions, NEW p \in Procs, Others(p), FlowInv', PbTypeOK', PbSays(p)
    PROVE  PbVersions'
<1> USE DEF PbVersions
<1>0. /\ DOMAIN output = 1..Len(output) /\ Len(output) \in Nat
      /\ version["request"] \in Nat /\ version["child"] \in Nat
      /\ \A i \in DOMAIN output : /\ output[i] \in PbChunk /\ output[i].request.ver \in Nat
                                   /\ \A k \in DOMAIN output[i].children : output[i].children[k].ver \in Nat
  BY PbNumbers
<1>c. version' \in [Spans -> Nat] /\ version \in [Spans -> Nat] /\ "request" \in Spans /\ "child" \in Spans
  BY DEF PbTypeOK, Spans
<1>1. CASE UNCHANGED <<output, version>> /\ at'[p] \notin Drafting
  BY <1>1, Drafts DEF PbCounted, PbDrafted, PbGrow
<1>2. ASSUME UNCHANGED output, p = Flusher, at[p] = "flush", at'[p] = "subspans",
             version' = [version EXCEPT !["request"] = @ + 1],
             draft'[p].request.ver = version["request"] + 1, draft'[p].children = <<>>
      PROVE  PbVersions'
  <2>1. version'["request"] = version["request"] + 1 /\ version'["child"] = version["child"]
    BY <1>2, <1>c
  <2>2. DOMAIN draft'[p].children = {}
    BY <1>2, EmptyDomain
  <2>3. PbCounted' /\ PbGrow'
    BY <1>0, <1>2, <2>1 DEF PbCounted, PbGrow
  <2>4. PbDrafted'
    BY <1>0, <1>2, <2>1, <2>2 DEF PbCounted, PbDrafted
  <2> QED BY <2>3, <2>4
<1>3. ASSUME UNCHANGED <<output, version, draft>>, p = Flusher, at[p] = "subspans", at'[p] \in {"lines", "subproto"}
      PROVE  PbVersions'
  BY <1>3 DEF PbCounted, PbDrafted, PbGrow, Drafting
<1>4. ASSUME UNCHANGED output, p = Flusher, at[p] = "subproto", at'[p] = "lines",
             version' = [version EXCEPT !["child"] = @ + 1],
             draft'[p].request = draft[p].request,
             NEW c \in Protos, draft'[p].children = <<c>>, c.ver = version["child"] + 1
      PROVE  PbVersions'
  <2>1. version'["child"] = version["child"] + 1 /\ version'["request"] = version["request"]
    BY <1>4, <1>c
  <2>2. DOMAIN draft'[p].children = {1} /\ draft'[p].children[1] = c
    BY <1>4
  <2>3. PbCounted' /\ PbGrow'
    BY <1>0, <1>4, <2>1 DEF PbCounted, PbGrow
  <2>4. PbDrafted'
    BY <1>0, <1>4, <2>1, <2>2 DEF PbCounted, PbDrafted, Drafting
  <2> QED BY <2>3, <2>4
<1>5. ASSUME UNCHANGED <<output, version>>, p = Flusher, at[p] = "lines", at'[p] = "chunk",
             draft'[p].request = draft[p].request, draft'[p].children = draft[p].children
      PROVE  PbVersions'
  BY <1>5 DEF PbCounted, PbDrafted, PbGrow, Drafting
<1>6. ASSUME UNCHANGED version, p = Flusher, at[p] = "chunk", at'[p] = "idle",
             NEW e \in PbChunk, output' = Append(output, e), e.request.ver = draft[p].request.ver,
             DOMAIN e.children = DOMAIN draft[p].children,
             \A k \in DOMAIN e.children : e.children[k].ver = draft[p].children[k].ver
      PROVE  PbVersions'
  <2>1. /\ DOMAIN output' = 1..Len(output) + 1 /\ output'[Len(output) + 1] = e
        /\ \A i \in DOMAIN output : output'[i] = output[i]
    BY <1>6, Appended DEF PbTypeOK
  <2>2. \A i \in DOMAIN output' : i \in DOMAIN output \/ (i = Len(output) + 1 /\ output'[i] = e)
    BY <1>0, <2>1
  <2>3. /\ e.request.ver <= version["request"]
        /\ \A i \in DOMAIN output : output[i].request.ver < e.request.ver
        /\ \A k \in DOMAIN e.children :
              /\ e.children[k].ver <= version["child"]
              /\ \A i \in DOMAIN output : \A m \in DOMAIN output[i].children : output[i].children[m].ver < e.children[k].ver
    BY <1>6 DEF PbDrafted, Drafting
  <2>4. PbCounted'
    BY <1>6, <2>1, <2>2, <2>3 DEF PbCounted
  <2>5. ASSUME NEW i \in DOMAIN output', NEW j \in DOMAIN output', i < j
        PROVE  /\ output'[i].request.ver < output'[j].request.ver
               /\ \A k \in DOMAIN output'[i].children, m \in DOMAIN output'[j].children :
                     output'[i].children[k].ver < output'[j].children[m].ver
    <3>1. i \in DOMAIN output /\ output'[i] = output[i]
      BY <1>0, <2>1, <2>5
    <3>2. CASE j \in DOMAIN output
      BY <2>1, <2>5, <3>1, <3>2 DEF PbGrow
    <3>3. CASE output'[j] = e
      BY <2>3, <3>1, <3>3
    <3> QED BY <2>2, <3>2, <3>3
  <2>6. PbDrafted'
    BY <1>6 DEF PbDrafted, Drafting
  <2> QED BY <2>4, <2>5, <2>6 DEF PbGrow
<1>7. at[p] \in Chunks => p = Flusher
  BY DEF FlowInv, PlaceOK
<1>8. CASE UNCHANGED <<output, version>> /\ (at'[p] \notin Chunks \ {"flush"} \/ at'[p] \in {"mark", "visit"})
  BY <1>1, <1>8 DEF Chunks, Drafting
<1> HIDE DEF PbVersions
<1> QED BY <1>2, <1>3, <1>4, <1>5, <1>6, <1>7, <1>8 DEF PbSays, Chunks

(* Where the sub-span is, from when it can be used until a chunk has it. *)
ChildSeen == \E i \in DOMAIN output : output[i].children # <<>>
ChildComing ==
    \/ "child" \in active
    \/ \E p \in Procs : at[p] \in {"done", "queue"} /\ Head(todo[p]) = "child"
    \/ needFlushing # <<>> \/ at[Flusher] = "subproto"
    \/ at[Flusher] \in {"lines", "chunk"} /\ draft[Flusher].children # <<>>

(* No chunk has a line of the sub-span before one has the sub-span, if
   nothing overlapped a flush.  The lines wait for the flush after the
   sub-spans were taken, so what was started in between would come too late. *)
PbOnItsWay  == "child" \in open => ChildSeen \/ ChildComing
PbBuffered  == \A i \in DOMAIN buffered : buffered[i].span \in open
PbAllTaken  == ~raced /\ at[Flusher] \in {"subproto", "lines", "chunk"} => needFlushing = <<>>
PbLinesWith == ~raced /\ at[Flusher] = "chunk" /\ draft[Flusher].children = <<>> /\ ~ChildSeen =>
                  \A i \in DOMAIN draft[Flusher].lines : draft[Flusher].lines[i].span # "child"
PbInOrder   == ~raced => \A i \in DOMAIN output : \A k \in DOMAIN output[i].lines :
                  output[i].lines[k].span = "child" => \E j \in 1..i : output[j].children # <<>>
NoOrphans   == PbOnItsWay /\ PbBuffered /\ PbAllTaken /\ PbLinesWith /\ PbInOrder

(* The protobuf base logger keeps the sub-span ahead of its lines. *)
LEMMA NoOrphansKept ==
    ASSUME FlowInv, PbTypeOK, NoOrphans, NEW p \in Procs, Others(p), FlowInv', PbTypeOK', PbSays(p),
           open \subseteq open'
    PROVE  NoOrphans'
<1> USE DEF NoOrphans
<1>0. /\ DOMAIN output = 1..Len(output) /\ Len(output) \in Nat
      /\ Flusher \in Procs /\ raced \in BOOLEAN /\ raced' \in BOOLEAN
  BY PbNumbers, Goroutines DEF FlowInv, FlowTypeOK
<1>7. at[p] \in Chunks => p = Flusher
  BY DEF FlowInv, PlaceOK
<1>1. ASSUME UNCHANGED <<output, pbVars, version>>, ActiveKept(p),
             at[p] \notin {"queue"} \cup Chunks, at'[p] \notin Chunks \ {"flush"},
             at[p] = "done" => at'[p] = "queue" /\ todo' = todo
      PROVE  NoOrphans'
  <2>1. /\ UNCHANGED <<output, needFlushing, buffered, ChildSeen>> /\ (raced => raced')
        /\ "child" \in open' => "child" \in open \/ "child" \in active'
        /\ "child" \in active => "child" \in active' \/ (at'[p] = "done" /\ Head(todo'[p]) = "child")
    BY <1>1 DEF pbVars, ChildSeen, ActiveKept
  <2>2. at'[Flusher] \in Drafting \/ at[Flusher] \in Drafting
           => at[Flusher] = at'[Flusher] /\ draft'[Flusher] = draft[Flusher] /\ p # Flusher
    BY <1>0, <1>1 DEF Others, Chunks, Drafting
  <2>3. ChildComing => ChildComing'
    <3>1. ASSUME NEW q \in Procs, at[q] \in {"done", "queue"}, Head(todo[q]) = "child"
          PROVE  at'[q] \in {"done", "queue"} /\ Head(todo'[q]) = "child"
      BY <1>1, <3>1 DEF Others
    <3> QED BY <2>1, <2>2, <3>1 DEF ChildComing, Drafting
  <2>4. PbOnItsWay'
    BY <2>1, <2>3 DEF PbOnItsWay, ChildComing
  <2> QED BY <2>1, <2>2, <2>4 DEF PbBuffered, PbAllTaken, PbLinesWith, PbInOrder, Drafting
<1>2. ASSUME UNCHANGED <<output, needFlushing, version, active, open, raced>>,
             at[p] = "send", at'[p] = "mark",
             NEW e \in PbLn, buffered' = Append(buffered, e), e.span \in open
      PROVE  NoOrphans'
  <2>1. p # Flusher /\ at'[Flusher] = at[Flusher] /\ draft'[Flusher] = draft[Flusher]
    BY <1>0, <1>2, Goroutines DEF FlowInv, PlaceOK, Calling, Others
  <2>2. ChildSeen' = ChildSeen
    BY <1>2 DEF ChildSeen
  <2>3. ChildComing => ChildComing'
    <3>1. ASSUME NEW q \in Procs, at[q] \in {"done", "queue"}, Head(todo[q]) = "child"
          PROVE  at'[q] \in {"done", "queue"} /\ Head(todo'[q]) = "child"
      BY <1>2, <3>1 DEF Others
    <3> QED BY <1>2, <2>1, <3>1 DEF ChildComing
  <2>4. PbBuffered'
    BY <1>2, Appended DEF PbTypeOK, PbBuffered
  <2> QED BY <1>2, <2>1, <2>2, <2>3, <2>4 DEF PbOnItsWay, PbAllTaken, PbLinesWith, PbInOrder
<1>3. ASSUME UNCHANGED <<output, buffered, version, active, open, raced>>, at[p] = "queue", at'[p] = "visit",
             needFlushing' = IF Head(todo[p]) = "child" THEN Append(needFlushing, "child") ELSE needFlushing
      PROVE  NoOrphans'
  <2>1. ChildSeen' = ChildSeen
    BY <1>3 DEF ChildSeen
  <2>2. Head(todo[p]) = "child" => needFlushing' # <<>>
    <3>1. needFlushing \in Seq({"child"})
      BY DEF PbTypeOK
    <3>2. Len(Append(needFlushing, "child")) = Len(needFlushing) + 1 /\ Len(needFlushing) \in Nat
      BY <3>1
    <3>3. Len(Append(needFlushing, "child")) # Len(<<>>)
      <4>1. Len(<<>>) = 0
        OBVIOUS
      <4> QED BY <3>2, <4>1
    <3>4. Append(needFlushing, "child") # <<>>
      BY <3>3, Zenon
    <3> QED BY <1>3, <3>4
  <2>3. at'[Flusher] \in Drafting \/ at[Flusher] \in Drafting
           => at[Flusher] = at'[Flusher] /\ draft'[Flusher] = draft[Flusher] /\ p # Flusher
    BY <1>0, <1>3 DEF Others, Drafting
  <2>4. ChildComing => ChildComing'
    <3>1. ASSUME NEW q \in Procs, at[q] \in {"done", "queue"}, Head(todo[q]) = "child"
          PROVE  \/ at'[q] \in {"done", "queue"} /\ Head(todo'[q]) = "child"
                 \/ needFlushing' # <<>>
      BY <1>3, <2>2, <3>1 DEF Others
    <3>2. needFlushing # <<>> => needFlushing' # <<>>
      BY <1>3, <2>2
    <3> QED BY <1>3, <2>3, <3>1, <3>2 DEF ChildComing, Drafting
  <2>5. PbAllTaken'
    <3>1. p = Flusher => at'[Flusher] = "visit"
      BY <1>3
    <3>2. p # Flusher /\ ~raced => at[Flusher] = "idle"
      BY <1>3, Goroutines DEF FlowInv, Alone
    <3> QED BY <1>3, <2>3, <3>1, <3>2 DEF PbAllTaken, Drafting
  <2> QED BY <1>3, <2>1, <2>3, <2>4, <2>5 DEF PbOnItsWay, PbBuffered, PbLinesWith, PbInOrder, Drafting
<1>c. ASSUME p = Flusher, at[p] \in Chunks, at'[p] \in Chunks \cup {"idle"}, UNCHANGED <<active, output>>,
             needFlushing # <<>> => needFlushing' # <<>> \/ at'[p] = "subproto",
             at[p] = "subproto" => at'[p] = "lines" /\ draft'[p].children # <<>>,
             at[p] = "lines" => at'[p] = "chunk" /\ draft'[p].children = draft[p].children,
             at[p] # "chunk"
      PROVE  ChildComing => ChildComing'
  <2>1. ASSUME NEW q \in Procs, at[q] \in {"done", "queue"}, Head(todo[q]) = "child"
        PROVE  at'[q] \in {"done", "queue"} /\ Head(todo'[q]) = "child"
    BY <1>c, <2>1 DEF Others, Chunks
  <2> QED BY <1>c, <2>1 DEF ChildComing
<1>4. ASSUME UNCHANGED <<output, buffered, needFlushing, active, open, raced>>, p = Flusher,
             \/ at[p] = "flush" /\ at'[p] = "subspans"
             \/ at[p] = "subproto" /\ at'[p] = "lines" /\ draft'[p].children # <<>>
      PROVE  NoOrphans'
  <2>1. (ChildComing => ChildComing') /\ ChildSeen' = ChildSeen
    BY <1>c, <1>4 DEF Chunks, ChildSeen
  <2> QED BY <1>4, <2>1 DEF PbOnItsWay, PbBuffered, PbAllTaken, PbLinesWith, PbInOrder
<1>5. ASSUME UNCHANGED <<output, buffered, version, active, open, raced, draft>>, p = Flusher,
             at[p] = "subspans", at'[p] = (IF needFlushing = <<>> THEN "lines" ELSE "subproto"), needFlushing' = <<>>
      PROVE  NoOrphans'
  <2>1. (ChildComing => ChildComing') /\ ChildSeen' = ChildSeen
    BY <1>c, <1>5 DEF Chunks, ChildSeen
  <2> QED BY <1>5, <2>1 DEF PbOnItsWay, PbBuffered, PbAllTaken, PbLinesWith, PbInOrder
<1>6. ASSUME UNCHANGED <<output, needFlushing, version, active, open, raced>>, p = Flusher,
             at[p] = "lines", at'[p] = "chunk", buffered' = <<>>,
             draft'[p].children = draft[p].children, draft'[p].lines = buffered
      PROVE  NoOrphans'
  <2>1. (ChildComing => ChildComing') /\ ChildSeen' = ChildSeen
    BY <1>c, <1>6 DEF Chunks, ChildSeen
  <2>2. ASSUME ~raced, draft[p].children = <<>>, ~ChildSeen PROVE "child" \notin open
    <3>1. needFlushing = <<>>
      BY <1>6, <2>2 DEF PbAllTaken
    <3>2. todo[p] = <<>>
      BY <1>6 DEF FlowInv, PlaceOK, Stages
    <3>3. ToSet(todo[p]) = {}
      BY <3>2, EmptyDomain DEF ToSet
    <3>4. active \subseteq ToSet(todo[p]) /\ \A u \in Users : at[u] = "idle"
      BY <1>6, <2>2 DEF FlowInv, Alone
    <3>5. \A q \in Procs : at[q] \notin {"done", "queue"}
      BY <1>6, <3>4, Goroutines
    <3> QED BY <1>6, <2>2, <3>1, <3>3, <3>4, <3>5 DEF ChildComing, PbOnItsWay
  <2>3. PbLinesWith'
    BY <1>6, <2>1, <2>2 DEF PbLinesWith, PbBuffered
  <2>4. PbBuffered'
    BY <1>6, EmptyDomain DEF PbBuffered
  <2> QED BY <1>6, <2>1, <2>3, <2>4 DEF PbOnItsWay, PbAllTaken, PbInOrder
<1>8. ASSUME UNCHANGED <<buffered, needFlushing, version, active, open, raced>>, p = Flusher,
             at[p] = "chunk", at'[p] = "idle", NEW e \in PbChunk, output' = Append(output, e), e.lines = draft[p].lines,
             DOMAIN e.children = DOMAIN draft[p].children
      PROVE  NoOrphans'
  <2>1. /\ DOMAIN output' = 1..Len(output) + 1 /\ output'[Len(output) + 1] = e
        /\ \A i \in DOMAIN output : output'[i] = output[i]
    BY <1>8, Appended DEF PbTypeOK
  <2>2. \A i \in DOMAIN output' : i \in DOMAIN output \/ (i = Len(output) + 1 /\ output'[i] = e)
    BY <1>0, <2>1
  <2>3. e.children = <<>> <=> draft[p].children = <<>>
    <3>1. draft[p] \in LinesDraft
      BY <1>8 DEF PbTypeOK
    <3>2. e.children \in Seq(Endeds) /\ draft[p].children \in Seq(Protos)
      BY <3>1 DEF PbChunk, LinesDraft
    <3> QED BY <1>8, <3>2, EmptySeq, EmptyDomain
  <2>4. ChildSeen' <=> ChildSeen \/ draft[p].children # <<>>
    <3>1. Len(output) + 1 \in DOMAIN output' /\ DOMAIN output \subseteq DOMAIN output'
      BY <1>0, <2>1
    <3> QED BY <2>1, <2>2, <2>3, <3>1 DEF ChildSeen
  <2>5. ChildComing => ChildComing' \/ ChildSeen'
    <3>1. ASSUME NEW q \in Procs, at[q] \in {"done", "queue"}, Head(todo[q]) = "child"
          PROVE  at'[q] \in {"done", "queue"} /\ Head(todo'[q]) = "child"
      BY <1>8, <3>1 DEF Others
    <3> QED BY <1>8, <2>4, <3>1 DEF ChildComing
  <2>6. PbOnItsWay' /\ PbBuffered' /\ PbAllTaken' /\ PbLinesWith'
    BY <1>8, <2>4, <2>5 DEF PbOnItsWay, PbBuffered, PbAllTaken, PbLinesWith
  <2>7. ASSUME ~raced, NEW k \in DOMAIN e.lines, e.lines[k].span = "child"
        PROVE  \E j \in 1..Len(output) + 1 : output'[j].children # <<>>
    <3>1. ChildSeen'
      BY <1>8, <2>4, <2>7 DEF PbLinesWith
    <3> QED BY <2>1, <3>1 DEF ChildSeen
  <2>8. ASSUME ~raced, NEW i \in DOMAIN output, NEW k \in DOMAIN output[i].lines, output[i].lines[k].span = "child"
        PROVE  \E j \in 1..i : output'[j].children # <<>>
    <3>1. PICK j \in 1..i : output[j].children # <<>>
      BY <2>8 DEF PbInOrder
    <3>2. j \in DOMAIN output
      BY <1>0, <2>8
    <3> QED BY <2>1, <3>1, <3>2
  <2>9. PbInOrder'
    BY <1>8, <2>1, <2>2, <2>7, <2>8 DEF PbInOrder
  <2> QED BY <2>6, <2>9
<1> HIDE DEF NoOrphans
<1>9. \A x : <<x>> # <<>>
  OBVIOUS
<1>10. at[p] \in {"flush", "subspans", "subproto", "lines", "chunk"} => p = Flusher
  BY <1>7 DEF Chunks
<1> QED BY <1>1, <1>2, <1>3, <1>4, <1>5, <1>6, <1>8, <1>9, <1>10 DEF PbSays

-----------------------------------------------------------------------------
(* What holds at every moment, for each of the base loggers. *)
RecorderInv == RecorderTypeOK /\ LinesInv /\ Sent /\ Told
ConsoleInv  == ConsoleTypeOK /\ LinesInv /\ Sent /\ Told /\ (base \notin Overlapping => ConsoleVersions)
JsonInv     == /\ JsonTypeOK /\ LinesInv /\ Sent /\ (spanStarts => Told)
               /\ base \notin Overlapping => JsonVersions
PbInv       == PbTypeOK /\ PbVersions /\ NoOrphans
StorageInv  ==
    /\ FlowInv
    /\ base = "recorder" => RecorderInv
    /\ base = "console"  => ConsoleInv
    /\ base = "json"     => JsonInv
    /\ base = "pb"       => PbInv

(* The program has not begun. *)
LEMMA ProgramBegins ==
    ASSUME ProgramInit
    PROVE  /\ FlowInv /\ LinesInv /\ LinesDone = {} /\ ~ChildThere /\ open = {"request"}
           /\ version = [s \in Spans |-> 0] /\ endTime = [s \in Spans |-> 0] /\ \A p \in Procs : at[p] = "idle"
<1> USE DEF ProgramInit
<1>1. FlowTypeOK
  <2>1. Nothing \in Calls /\ "idle" \in Places /\ <<>> \in Seq(Spans) /\ "request" \in Spans
    BY DEF Nothing, Calls, Places, Spans
  <2>2. base \in {"recorder", "json", "console", "pb"}
    BY BaseProgramAssumption DEF BaseProgramAssumption
  <2>3. \A s \in Spans : IsFiniteSet(attributes[s])
    BY FS_EmptySet
  <2> QED BY <2>1, <2>2, <2>3 DEF FlowTypeOK
<1>2. \A p \in Procs : at[p] = "idle" /\ todo[p] = <<>>
  OBVIOUS
<1>3. \A p \in Procs : PlaceOK(p)
  BY <1>2 DEF PlaceOK, Calling, Stages, Chunks
<1>4. OneStarts /\ CallsDiffer /\ Drafted /\ DonesApart
  BY <1>2 DEF OneStarts, CallsDiffer, Drafted, DonesApart, Stages
<1>5. Alone
  BY <1>2, Goroutines DEF Alone, Stages
<1>6. LinesDone = {}
  BY <1>2 DEF LinesDone
<1>7. LinesInv
  BY <1>2, <1>6 DEF LinesInv
<1>8. ~ChildThere
  BY <1>2 DEF ChildThere
<1> QED BY <1>1, <1>2, <1>3, <1>4, <1>5, <1>6, <1>7, <1>8 DEF FlowInv

(* The first record introduces the request. *)
LEMMA StreamBegins ==
    ASSUME LinesDone = {}, ~ChildThere, NEW X, NEW e \in X, output = <<e>>,
           ~LineIn(base, e), FirstIn(base, e, "request"), ~FirstIn(base, e, "child"), ~AboutIn(base, e, "child")
    PROVE  output \in Seq(X) /\ output # <<>> /\ DOMAIN output = {1} /\ output[1] = e /\ Sent /\ Told
<1>1. output \in Seq(X) /\ DOMAIN output = {1} /\ output[1] = e
  OBVIOUS
<1>2. output # <<>>
  BY <1>1, EmptyDomain
<1>3. Sent
  BY <1>1 DEF Sent
<1>4. Told
  BY <1>1, <1>2 DEF Told
<1> QED BY <1>1, <1>2, <1>3, <1>4

(* The invariant holds when the program starts. *)
LEMMA StorageBegins == Init => StorageInv
<1> SUFFICES ASSUME Init PROVE StorageInv
  OBVIOUS
<1>0. /\ FlowInv /\ LinesInv /\ LinesDone = {} /\ ~ChildThere /\ open = {"request"}
      /\ version = [s \in Spans |-> 0] /\ endTime = [s \in Spans |-> 0] /\ \A p \in Procs : at[p] = "idle"
      /\ version \in [Spans -> Nat] /\ endTime \in [Spans -> Nat] /\ Flusher \in Procs
  BY ProgramBegins, Goroutines DEF Init
<1>1. ASSUME base = "recorder" PROVE RecorderInv
  <2>1. PICK e \in RecorderEntry : e = [op |-> "request"]
    BY DEF RecorderEntry
  <2>2. output = <<e>> /\ provisional = [s \in Spans |-> 0]
    BY <1>1, <2>1 DEF Init, RecorderInit
  <2>3. /\ ~LineIn(base, e) /\ FirstIn(base, e, "request") /\ ~FirstIn(base, e, "child") /\ ~AboutIn(base, e, "child")
    BY <1>1, <2>1 DEF LineIn, FirstIn, AboutIn
  <2>4. output \in Seq(RecorderEntry) /\ Sent /\ Told
    BY <1>0, <2>2, <2>3, StreamBegins
  <2>5. RecorderTypeOK
    BY <1>0, <2>2, <2>4 DEF RecorderTypeOK
  <2> QED BY <1>0, <2>4, <2>5 DEF RecorderInv
<1>2. ASSUME base = "console" PROVE ConsoleInv
  <2>1. PICK e \in ConsoleEntry : e = [record |-> "Start", span |-> "request"]
    BY DEF ConsoleEntry, Spans
  <2>2. output = <<e>> /\ tail = [s \in Spans |-> 0]
    BY <1>2, <2>1 DEF Init, ConsoleInit
  <2>3. /\ ~LineIn(base, e) /\ FirstIn(base, e, "request") /\ ~FirstIn(base, e, "child") /\ ~AboutIn(base, e, "child")
    BY <1>2, <2>1 DEF LineIn, FirstIn, AboutIn
  <2>4. output \in Seq(ConsoleEntry) /\ DOMAIN output = {1} /\ output[1] = e /\ Sent /\ Told
    BY <1>0, <2>2, <2>3, StreamBegins
  <2>5. ConsoleTypeOK
    BY <1>0, <2>1, <2>2, <2>4 DEF ConsoleTypeOK
  <2>6. ConsoleVersions
    BY <1>0, <2>1, <2>4 DEF ConsoleVersions, ConsoleCounted, ConsoleDrafted, ConsoleGrow, IsV
  <2> QED BY <1>0, <2>4, <2>5, <2>6 DEF ConsoleInv
<1>3. ASSUME base = "json" PROVE JsonInv
  <2>0. spanStarts \in BOOLEAN /\ output = IF spanStarts THEN <<JsonStart("request")>> ELSE <<>>
    BY <1>3 DEF Init, JsonInit
  <2>1. CASE spanStarts
    <3>1. PICK e \in JsonEntry : e = JsonStart("request")
      BY DEF JsonEntry, JsonStarts, JsonStart, Spans
    <3>2. output = <<e>> /\ e.type = "request" /\ ~e.ended /\ e.ver = 0 /\ e.attributes = {}
      BY <2>0, <2>1, <3>1 DEF JsonStart
    <3>3. ~LineIn(base, e) /\ FirstIn(base, e, "request") /\ ~FirstIn(base, e, "child") /\ ~AboutIn(base, e, "child")
      BY <1>3, <3>2 DEF LineIn, FirstIn, AboutIn
    <3>4. output \in Seq(JsonEntry) /\ DOMAIN output = {1} /\ output[1] = e /\ Sent /\ Told
      BY <1>0, <3>2, <3>3, StreamBegins
    <3>5. JsonTypeOK
      <4>1. IsFiniteSet({})
        BY FS_EmptySet
      <4> QED BY <1>0, <2>0, <3>2, <3>4, <4>1 DEF JsonTypeOK
    <3>6. Count("request") = 1
      BY <1>0, <2>1 DEF Count, StartCount, Spans
    <3>7. JsonVersions
      BY <1>0, <3>2, <3>4, <3>6 DEF JsonVersions, JsonCounted, JsonDrafted, JsonGrow, JsonOfChild
    <3> QED BY <1>0, <3>4, <3>5, <3>7 DEF JsonInv
  <2>2. CASE ~spanStarts
    <3>1. output \in Seq(JsonEntry) /\ DOMAIN output = {}
      BY <2>0, <2>2
    <3>2. Sent
      BY <1>0, <3>1 DEF Sent
    <3>3. JsonTypeOK
      BY <1>0, <2>0, <3>1 DEF JsonTypeOK
    <3>4. JsonVersions
      BY <1>0, <3>1 DEF JsonVersions, JsonCounted, JsonDrafted, JsonGrow, JsonOfChild
    <3> QED BY <1>0, <2>2, <3>2, <3>3, <3>4 DEF JsonInv
  <2> QED BY <2>0, <2>1, <2>2
<1>4. ASSUME base = "pb" PROVE PbInv
  <2>1. output = <<>> /\ needFlushing = <<>> /\ buffered = <<>> /\ priorLines = 0
    BY <1>4 DEF Init, PbInit
  <2>2. output \in Seq(PbChunk) /\ needFlushing \in Seq({"child"}) /\ buffered \in Seq(PbLn) /\ DOMAIN output = {} /\ DOMAIN buffered = {}
    BY <2>1
  <2>3. PbTypeOK
    BY <1>0, <2>1, <2>2 DEF PbTypeOK, Stages
  <2>4. PbVersions
    BY <1>0, <2>2 DEF PbVersions, PbCounted, PbDrafted, PbGrow, Drafting
  <2>5. NoOrphans
    BY <1>0, <2>2 DEF NoOrphans, PbOnItsWay, PbBuffered, PbAllTaken, PbLinesWith, PbInOrder
  <2> QED BY <2>3, <2>4, <2>5 DEF PbInv
<1> QED BY <1>0, <1>1, <1>2, <1>3, <1>4 DEF StorageInv

(* A flush that begins is no step of a base logger. *)
LEMMA FlushSays ==
    ASSUME FlowInv, StartFlush
    PROVE  /\ FlowInv' /\ Others(Flusher) /\ StillThere /\ Quiet(Flusher) /\ Flusher \in Procs
           /\ at'[Flusher] = "visit" /\ ActiveKept(Flusher) /\ at[Flusher] = "idle"
           /\ UNCHANGED <<base, version, output, endTime, draft>> /\ open' = open
<1>1. FlowInv' /\ Others(Flusher) /\ StillThere /\ Quiet(Flusher) /\ Flusher \in Procs
  BY StartFlushFlows, Goroutines
<1>2. at'[Flusher] = "visit" /\ at[Flusher] = "idle" /\ UNCHANGED <<base, version, output, endTime, draft, open, active>>
  BY Goroutines DEF StartFlush, Go, Busy, choiceVars, FlowInv, FlowTypeOK
<1>3. raced => raced'
  BY Zenon DEF StartFlush
<1> QED BY <1>1, <1>2, <1>3 DEF ActiveKept

(* Every step keeps the invariant. *)
LEMMA RecorderKept ==
    ASSUME FlowInv, base = "recorder", RecorderInv, NEW p \in Procs,
           RecorderStep(p) \/ (p = Flusher /\ StartFlush /\ provisional' = provisional)
    PROVE  FlowInv' /\ base' = base /\ RecorderInv'
<1> USE DEF RecorderInv
<1>1. FlowInv' /\ Others(p) /\ base' = base /\ RecorderTypeOK' /\ RecorderSays(p)
  <2>1. CASE RecorderStep(p)
    BY <2>1, RecorderSteps
  <2>2. CASE p = Flusher /\ StartFlush /\ provisional' = provisional
    <3>1. /\ FlowInv' /\ Others(p) /\ StillThere /\ Quiet(p) /\ at'[p] = "visit"
          /\ UNCHANGED <<base, output, endTime, provisional>>
      BY <2>2, FlushSays
    <3>2. RecorderTypeOK'
      BY <3>1, RecorderTyped DEF RecorderTypeOK
    <3> QED BY <3>1, <3>2 DEF RecorderSays
  <2> QED BY <2>1, <2>2
<1>2. Sent' /\ Told'
  BY <1>1, RecorderStreams
<1>3. LinesInv'
  BY <1>1, LinesFlow DEF RecorderSays
<1> QED BY <1>1, <1>2, <1>3

(* The same for the console, *)
LEMMA ConsoleKept ==
    ASSUME FlowInv, base = "console", ConsoleInv, NEW p \in Procs,
           ConsoleStep(p) \/ (p = Flusher /\ StartFlush /\ tail' = tail)
    PROVE  FlowInv' /\ base' = base /\ ConsoleInv'
<1> USE DEF ConsoleInv
<1>1. FlowInv' /\ Others(p) /\ base' = base /\ ConsoleTypeOK' /\ ConsoleSays(p)
  <2>1. CASE ConsoleStep(p)
    BY <2>1, ConsoleSteps
  <2>2. CASE p = Flusher /\ StartFlush /\ tail' = tail
    <3>1. /\ FlowInv' /\ Others(p) /\ StillThere /\ Quiet(p) /\ at'[p] = "visit"
          /\ UNCHANGED <<base, output, version, tail>>
      BY <2>2, FlushSays
    <3>2. ConsoleTypeOK'
      BY <3>1, ConsoleTyped DEF ConsoleTypeOK
    <3> QED BY <3>1, <3>2 DEF ConsoleSays
  <2> QED BY <2>1, <2>2
<1>2. Sent' /\ Told'
  BY <1>1, ConsoleStreams
<1>3. LinesInv'
  BY <1>1, LinesFlow DEF ConsoleSays
<1>4. base \notin Overlapping => ConsoleVersions'
  BY <1>1, ConsoleVersionsKept
<1> QED BY <1>1, <1>2, <1>3, <1>4

(* for JSON, *)
LEMMA JsonKept ==
    ASSUME FlowInv, base = "json", JsonInv, NEW p \in Procs,
           JsonStep(p) \/ (p = Flusher /\ StartFlush /\ spanStarts' = spanStarts)
    PROVE  FlowInv' /\ base' = base /\ JsonInv'
<1> USE DEF JsonInv
<1>1. FlowInv' /\ Others(p) /\ UNCHANGED <<base, spanStarts>> /\ JsonTypeOK' /\ JsonSays(p)
  <2>1. CASE JsonStep(p)
    BY <2>1, JsonSteps
  <2>2. CASE p = Flusher /\ StartFlush /\ spanStarts' = spanStarts
    <3>1. /\ FlowInv' /\ Others(p) /\ StillThere /\ Quiet(p) /\ at'[p] = "visit"
          /\ UNCHANGED <<base, output, version, endTime, spanStarts>>
      BY <2>2, FlushSays
    <3>2. JsonTypeOK'
      BY <3>1, JsonTyped DEF JsonTypeOK
    <3> QED BY <3>1, <3>2 DEF JsonSays, StillThere
  <2> QED BY <2>1, <2>2
<1>2. Sent' /\ (spanStarts => Told')
  BY <1>1, JsonStreams
<1>3. LinesInv'
  BY <1>1, LinesFlow DEF JsonSays
<1>4. base \notin Overlapping => JsonVersions'
  BY <1>1, JsonVersionsKept
<1> QED BY <1>1, <1>2, <1>3, <1>4

(* and for protobuf. *)
LEMMA PbKept ==
    ASSUME FlowInv, base = "pb", PbInv, NEW p \in Procs,
           PbStep(p) \/ (p = Flusher /\ StartFlush /\ UNCHANGED pbVars)
    PROVE  FlowInv' /\ base' = base /\ PbInv'
<1> USE DEF PbInv
<1>1. FlowInv' /\ Others(p) /\ base' = base /\ PbTypeOK' /\ PbSays(p)
  <2>1. CASE PbStep(p)
    BY <2>1, PbSteps
  <2>2. CASE p = Flusher /\ StartFlush /\ UNCHANGED pbVars
    <3>1. /\ FlowInv' /\ Others(p) /\ at'[p] = "visit" /\ ActiveKept(p) /\ at[p] = "idle"
          /\ UNCHANGED <<base, output, version, endTime, pbVars>>
          /\ UNCHANGED <<needFlushing, buffered, priorLines>>
      BY <2>2, FlushSays DEF pbVars
    <3>2. PbTypeOK'
      BY <3>1, PbTyped DEF PbTypeOK, Stages
    <3> QED BY <3>1, <3>2 DEF PbSays, Chunks
  <2> QED BY <2>1, <2>2
<1>2. PbVersions'
  BY <1>1, PbVersionsKept
<1>3. open \subseteq open'
  <2>1. CASE StartFlush
    BY <2>1 DEF StartFlush
  <2>2. CASE PbStep(p)
    BY <2>2 DEF PbStep, ProgramStep, Register, Mark, StartDone, Visit, Pass, Visited, PbSpan, Span, PbLine, Line,
                PbMetadata, Metadata, PbSend, PbDone, PbQueue, PbProto, PbTakeSpans, PbSubProto, PbTakeLines, PbWrite,
                BaseStep, DoneStep, DoneEnds
  <2> QED BY <2>1, <2>2
<1>4. NoOrphans'
  BY <1>1, <1>3, NoOrphansKept
<1> QED BY <1>1, <1>2, <1>4

(* Nothing changes when nothing is done. *)
LEMMA StorageStutters == StorageInv /\ UNCHANGED storageVars => StorageInv'
<1> SUFFICES ASSUME StorageInv, UNCHANGED storageVars PROVE StorageInv'
  OBVIOUS
<1>1. /\ UNCHANGED <<base, shape, clock, open, active, at, call, todo, lines, ends, flushes, dirty, raced>>
      /\ UNCHANGED <<draft, attributes, endTime, version, output, provisional, spanStarts, tail>>
      /\ UNCHANGED <<needFlushing, buffered, priorLines>>
  BY DEF storageVars, programVars, choiceVars, flowVars, pbVars
<1>2. FlowInv' <=> FlowInv
  BY <1>1 DEF FlowInv, FlowTypeOK, PlaceOK, OneStarts, CallsDiffer, Drafted, DonesApart, Alone
<1>3. LinesDone' = LinesDone /\ (ChildThere' <=> ChildThere)
  BY <1>1 DEF LinesDone, ChildThere
<1>4. (LinesInv' <=> LinesInv) /\ (Sent' <=> Sent) /\ (Told' <=> Told)
  BY <1>1, <1>3 DEF LinesInv, Sent, Told, LineIn, FirstIn, AboutIn
<1>5. RecorderInv => RecorderInv'
  BY <1>1, <1>4 DEF RecorderInv, RecorderTypeOK
<1>6. ConsoleInv => ConsoleInv'
  BY <1>1, <1>4 DEF ConsoleInv, ConsoleTypeOK, ConsoleVersions, ConsoleCounted, ConsoleDrafted, ConsoleGrow
<1>7. JsonInv => JsonInv'
  BY <1>1, <1>3, <1>4 DEF JsonInv, JsonTypeOK, JsonVersions, JsonCounted, JsonDrafted, JsonGrow, JsonOfChild, Count, StartCount
<1>8. PbInv => PbInv'
  BY <1>1 DEF PbInv, PbTypeOK, PbVersions, PbCounted, PbDrafted, PbGrow,
              NoOrphans, PbOnItsWay, PbBuffered, PbAllTaken, PbLinesWith, PbInOrder, ChildSeen, ChildComing
<1> QED BY <1>1, <1>2, <1>5, <1>6, <1>7, <1>8 DEF StorageInv

(* Every step keeps the invariant. *)
LEMMA StorageSteps == StorageInv /\ Next => StorageInv'
<1> SUFFICES ASSUME StorageInv, Next PROVE StorageInv'
  OBVIOUS
<1> USE DEF StorageInv
<1>0. base \in {"recorder", "json", "console", "pb"} /\ Flusher \in Procs
  BY Goroutines DEF FlowInv, FlowTypeOK
<1>1. PICK p \in Procs :
        \/ p = Flusher /\ StartFlush /\ UNCHANGED <<provisional, spanStarts, tail, pbVars>>
        \/ base = "recorder" /\ RecorderStep(p)
        \/ base = "json"     /\ JsonStep(p)
        \/ base = "console"  /\ ConsoleStep(p)
        \/ base = "pb"       /\ PbStep(p)
  BY <1>0 DEF Next
<1>2. CASE base = "recorder"
  BY <1>1, <1>2, RecorderKept
<1>3. CASE base = "console"
  BY <1>1, <1>3, ConsoleKept
<1>4. CASE base = "json"
  BY <1>1, <1>4, JsonKept
<1>5. CASE base = "pb"
  BY <1>1, <1>5, PbKept
<1> QED BY <1>0, <1>2, <1>3, <1>4, <1>5

(* What holds at every moment of the program and of its base logger: where
   the goroutines are, what was written of the lines and the spans, and the
   versions that were given out. *)
THEOREM StorageInvariant == Spec => []StorageInv
<1>1. StorageInv /\ [Next]_storageVars => StorageInv'
  BY StorageSteps, StorageStutters
<1> QED BY StorageBegins, <1>1, PTL DEF Spec

(* "Each time the span is serialized, span.ver is incremented" (xopjson,
   xopconsole, xoppb): of two records of a span the later one has the larger
   version, for protobuf whatever overlaps and for the others if Dones of
   one span do not. *)
THEOREM SpanVersionsIncremented == Spec => []SpanVersionIncremented
<1>1. StorageInv => SpanVersionIncremented
  <2> SUFFICES ASSUME StorageInv, base = "pb" \/ base \notin Overlapping,
                      NEW s \in Spans, NEW i \in DOMAIN output, NEW j \in DOMAIN output,
                      NEW k \in DOMAIN RecordsIn(output[i], s), NEW m \in DOMAIN RecordsIn(output[j], s),
                      i < j \/ (i = j /\ k < m)
               PROVE  RecordsIn(output[i], s)[k].ver < RecordsIn(output[j], s)[m].ver
    BY DEF SpanVersionIncremented
  <2>0. \A e : DOMAIN <<e>> = {1} /\ <<e>>[1] = e
    OBVIOUS
  <2>1. CASE base = "json"
    <3>1. \A n \in DOMAIN output : RecordsIn(output[n], s) = IF output[n].type = s THEN <<output[n]>> ELSE <<>>
      BY <2>1 DEF RecordsIn
    <3>2. /\ output[i].type = s /\ k = 1 /\ RecordsIn(output[i], s)[k] = output[i]
          /\ output[j].type = s /\ m = 1 /\ RecordsIn(output[j], s)[m] = output[j]
      BY <2>0, <3>1, EmptyDomain
    <3>3. i < j
      BY <3>2
    <3> QED BY <2>1, <3>2, <3>3 DEF StorageInv, JsonInv, JsonVersions, JsonGrow
  <2>2. CASE base = "console"
    <3>1. \A n \in DOMAIN output : RecordsIn(output[n], s) = IF IsV(output[n], s) THEN <<output[n]>> ELSE <<>>
      BY <2>2 DEF RecordsIn, IsV
    <3>2. /\ IsV(output[i], s) /\ k = 1 /\ RecordsIn(output[i], s)[k] = output[i]
          /\ IsV(output[j], s) /\ m = 1 /\ RecordsIn(output[j], s)[m] = output[j]
      BY <2>0, <3>1, EmptyDomain
    <3>3. i < j
      BY <3>2
    <3> QED BY <2>2, <3>2, <3>3 DEF StorageInv, ConsoleInv, ConsoleVersions, ConsoleGrow
  <2>3. CASE base = "pb"
    <3>0. PbGrow /\ output \in Seq(PbChunk)
      BY <2>3 DEF StorageInv, PbInv, PbVersions, PbTypeOK
    <3>1. CASE s = "request"
      <4>1. \A n \in DOMAIN output : RecordsIn(output[n], s) = <<output[n].request>>
        BY <2>3, <3>1 DEF RecordsIn
      <4>2. /\ k = 1 /\ RecordsIn(output[i], s)[k] = output[i].request
            /\ m = 1 /\ RecordsIn(output[j], s)[m] = output[j].request
        BY <2>0, <4>1
      <4>3. i < j
        BY <4>2
      <4> QED BY <3>0, <4>2, <4>3 DEF PbGrow
    <3>2. CASE s # "request"
      <4>1. \A n \in DOMAIN output : RecordsIn(output[n], s) = output[n].children
        BY <2>3, <3>2 DEF RecordsIn
      <4>2. output[i] \in PbChunk /\ output[j] \in PbChunk
        BY <3>0
      <4>3. output[i].children \in Seq(Endeds) /\ Len(output[i].children) <= 1
        BY <4>2 DEF PbChunk
      <4>4. DOMAIN output[i].children = 1..Len(output[i].children) /\ Len(output[i].children) \in Nat
        BY <4>3
      <4>5. k \in DOMAIN output[i].children /\ m \in DOMAIN output[j].children
        BY <4>1
      <4>6. i < j
        <5> SUFFICES ASSUME i = j, k < m PROVE FALSE
          OBVIOUS
        <5>1. k \in 1..Len(output[i].children) /\ m \in 1..Len(output[i].children)
          BY <4>4, <4>5
        <5> QED BY <4>3, <4>4, <5>1
      <4>7. output[i].children[k].ver < output[j].children[m].ver
        BY <3>0, <4>5, <4>6 DEF PbGrow
      <4> QED BY <4>1, <4>7
    <3> QED BY <3>1, <3>2
  <2>4. CASE base \notin {"json", "console", "pb"}
    <3>1. RecordsIn(output[i], s) = <<>>
      BY <2>4 DEF RecordsIn
    <3> QED BY <3>1, EmptyDomain
  <2> QED BY <2>1, <2>2, <2>3, <2>4
<1> QED BY StorageInvariant, <1>1, PTL

-----------------------------------------------------------------------------
(* Replays: what is made of a sequence of calls. *)
CallsFold == INSTANCE FoldProofs WITH Step <- Receive
PartsFold == INSTANCE FoldProofs WITH Step <- AndThen

CallLn    == [op : {"line"}, span : Spans, time : Nat, attr : Nat, kind : Kinds, prefix : BOOLEAN]
CallTimed == [op : {"metadata", "done"}, span : Spans, time : Nat]
CallSpan  == [op : {"span"}, span : {"child"}, parent : {"request"}]
CallBare  == [op : {"request", "flush"}]
ReadCall  == CallBare \cup CallSpan \cup CallTimed \cup CallLn

(* The call that introduces span s; a call about a span that one of those in
   S is or an earlier call introduces. *)
Names(d, s) == d.op = IF s = "request" THEN "request" ELSE "span"
Needs(d)    == CASE d.op = "span" -> {"request"}
                 [] d.op \in {"metadata", "line", "done"} -> {d.span}
                 [] OTHER -> {}
Introduced(S, c) == \A i \in DOMAIN c : \A s \in Needs(c[i]) : s \in S \/ \E j \in 1..i - 1 : Names(c[j], s)
NamedIn(c)  == {s \in Spans : \E i \in DOMAIN c : Names(c[i], s)}

(* The line l is among the calls, once. *)
Hit(d, l)     == d.op = "line" /\ SameLine(d, l)
OneLine(c, l) == \E i \in DOMAIN c : \A j \in DOMAIN c : Hit(c[j], l) <=> j = i

(* What a recorder has so far. *)
Recorded == [error : {FALSE}, spans : SUBSET Spans, lines : Seq(CallLn), attributes : [Spans -> SUBSET Nat],
             provisional : [Spans -> Nat], end : [Spans -> Nat]]

(* The recorder takes a call about a span that it knows. *)
LEMMA Receives ==
    ASSUME NEW r \in Recorded, NEW d \in ReadCall, Needs(d) \subseteq r.spans
    PROVE  /\ Receive(r, d) \in Recorded /\ r.spans \subseteq Receive(r, d).spans
           /\ \A s \in Spans : Names(d, s) => s \in Receive(r, d).spans
           /\ Receive(r, d).lines = IF d.op = "line" THEN Append(r.lines, d) ELSE r.lines
<1>1. ~r.error /\ r.spans \in SUBSET Spans /\ r.lines \in Seq(CallLn)
      /\ r.provisional \in [Spans -> Nat] /\ r.end \in [Spans -> Nat]
  BY DEF Recorded
<1>2. CASE d \in CallBare
  <2>1. d.op \in {"request", "flush"} /\ Knows(r, d)
    BY <1>2 DEF CallBare, Knows
  <2>2. \A s \in Spans : Names(d, s) => s = "request" /\ d.op = "request"
    BY <2>1 DEF Names, Spans
  <2>3. PICK S \in SUBSET Spans : S = r.spans \cup {"request"}
    BY <1>1 DEF Spans
  <2>4. Receive(r, d) = IF d.op = "request" THEN [r EXCEPT !.spans = S] ELSE r
    BY <1>1, <2>1, <2>3 DEF Receive
  <2>5. /\ [r EXCEPT !.spans = S] \in Recorded /\ [r EXCEPT !.spans = S].spans = S
        /\ [r EXCEPT !.spans = S].lines = r.lines
    <3> HIDE <2>3
    <3> QED BY <1>1 DEF Recorded
  <2> QED BY <2>1, <2>2, <2>3, <2>4, <2>5
<1>3. CASE d \in CallSpan
  <2>1. d.op = "span" /\ d.span = "child" /\ d.parent = "request" /\ "request" \in r.spans
    BY <1>3 DEF CallSpan, Needs
  <2>2. PICK S \in SUBSET Spans : S = r.spans \cup {"child"}
    BY <1>1 DEF Spans
  <2>3. Receive(r, d) = [r EXCEPT !.spans = S]
    BY <1>1, <2>1, <2>2 DEF Receive, Knows
  <2>4. /\ [r EXCEPT !.spans = S] \in Recorded /\ [r EXCEPT !.spans = S].spans = S
        /\ [r EXCEPT !.spans = S].lines = r.lines
    <3> HIDE <2>2
    <3> QED BY <1>1 DEF Recorded
  <2>5. \A s \in Spans : Names(d, s) => s = "child"
    BY <2>1 DEF Names, Spans
  <2> QED BY <2>1, <2>2, <2>3, <2>4, <2>5
<1>4. CASE d \in CallTimed
  <2>1. d.op \in {"metadata", "done"} /\ d.span \in Spans /\ d.time \in Nat
    BY <1>4 DEF CallTimed
  <2>2. d.span \in r.spans /\ Knows(r, d)
    BY <2>1 DEF Needs, Knows
  <2>3. \A s \in Spans : ~Names(d, s)
    BY <2>1 DEF Names
  <2>4. CASE d.op = "metadata"
    <3>1. Receive(r, d) = [r EXCEPT !.attributes[d.span] = @ \cup {d.time}]
      BY <1>1, <2>2, <2>4 DEF Receive
    <3>2. /\ [r EXCEPT !.attributes[d.span] = @ \cup {d.time}] \in Recorded
          /\ [r EXCEPT !.attributes[d.span] = @ \cup {d.time}].spans = r.spans
          /\ [r EXCEPT !.attributes[d.span] = @ \cup {d.time}].lines = r.lines
      BY <2>1 DEF Recorded
    <3> QED BY <2>1, <2>3, <2>4, <3>1, <3>2
  <2>5. CASE d.op = "done"
    <3>1. PICK n \in Nat : n = Larger(r.provisional[d.span], d.time)
      BY <1>1, <2>1 DEF Larger
    <3>2. PICK m \in Nat : m = Larger(r.end[d.span], n)
      BY <1>1, <2>1 DEF Larger
    <3>3. Receive(r, d) = [r EXCEPT !.provisional[d.span] = n, !.end[d.span] = m]
      BY <1>1, <2>2, <2>5, <3>1, <3>2 DEF Receive
    <3>4. /\ [r EXCEPT !.provisional[d.span] = n, !.end[d.span] = m] \in Recorded
          /\ [r EXCEPT !.provisional[d.span] = n, !.end[d.span] = m].spans = r.spans
          /\ [r EXCEPT !.provisional[d.span] = n, !.end[d.span] = m].lines = r.lines
      <4> HIDE <3>1, <3>2
      <4> QED BY <2>1 DEF Recorded
    <3> QED BY <2>1, <2>3, <2>5, <3>3, <3>4
  <2> QED BY <2>1, <2>4, <2>5
<1>5. CASE d \in CallLn
  <2>1. d.op = "line" /\ d.span \in Spans /\ d.time \in Nat
    BY <1>5 DEF CallLn
  <2>2. d.span \in r.spans /\ Knows(r, d)
    BY <2>1 DEF Needs, Knows
  <2>3. PICK n \in Nat : n = Larger(r.provisional[d.span], d.time)
    BY <1>1, <2>1 DEF Larger
  <2>4. PICK z \in Seq(CallLn) : z = Append(r.lines, d)
    <3>1. Append(r.lines, d) \in Seq(CallLn)
      BY <1>1, <1>5
    <3> QED BY <3>1
  <2>5. Receive(r, d) = [r EXCEPT !.lines = z, !.provisional[d.span] = n]
    BY <1>1, <2>1, <2>2, <2>3, <2>4 DEF Receive
  <2>6. /\ Receive(r, d) \in Recorded /\ Receive(r, d).spans = r.spans /\ Receive(r, d).lines = z
    <3>1. /\ [r EXCEPT !.lines = z, !.provisional[d.span] = n] \in Recorded
          /\ [r EXCEPT !.lines = z, !.provisional[d.span] = n].spans = r.spans
          /\ [r EXCEPT !.lines = z, !.provisional[d.span] = n].lines = z
      <4> HIDE <2>3, <2>4
      <4> QED BY <2>1 DEF Recorded
    <3> QED BY <2>5, <3>1
  <2>7. \A s \in Spans : ~Names(d, s)
    BY <2>1 DEF Names
  <2> QED BY <2>1, <2>4, <2>6, <2>7
<1> QED BY <1>2, <1>3, <1>4, <1>5 DEF ReadCall

(* A replay of calls, each about a span that was introduced, has no error,
   and a line that is among them once comes out of it once. *)
LEMMA Reads ==
    ASSUME NEW c \in Seq(ReadCall), Introduced({}, c)
    PROVE  /\ ~Recording(c).error
           /\ \A l : OneLine(c, l) => \E m \in DOMAIN Recording(c).lines :
                 \A k \in DOMAIN Recording(c).lines : SameLine(Recording(c).lines[k], l) <=> k = m
<1>1. PICK run : /\ run[0] = Empty
                 /\ \A k \in 1..Len(c) : run[k] = Receive(run[k - 1], c[k])
                 /\ run[Len(c)] = CallsFold!FoldLeft(Receive, Empty, c)
  BY CallsFold!FoldRuns
<1>2. run[Len(c)] = Recording(c)
  BY <1>1, Zenon DEF Recording, FoldLeft, CallsFold!FoldLeft, MapThenFoldSet, CallsFold!MapThenFoldSet, Max, CallsFold!Max
<1>3. Len(c) \in Nat /\ DOMAIN c = 1..Len(c) /\ \A k \in 1..Len(c) : c[k] \in ReadCall
  OBVIOUS
<1>4. /\ Empty \in Recorded
      /\ Empty.lines = <<>>
  BY DEF Empty, Recorded
<1> DEFINE Known(k) == run[k] \in Recorded /\ \A s \in Spans : (\E j \in 1..k : Names(c[j], s)) => s \in run[k].spans
           K == {k \in Nat : k <= Len(c) => Known(k)}
<1>5. 0 \in K
  BY <1>1, <1>4
<1>6. ASSUME NEW k \in Nat, k + 1 <= Len(c), Known(k)
      PROVE  /\ Known(k + 1) /\ run[k] \in Recorded
             /\ run[k + 1].lines = IF c[k + 1].op = "line" THEN Append(run[k].lines, c[k + 1]) ELSE run[k].lines
  <2>1. k + 1 \in 1..Len(c) /\ (k + 1) - 1 = k /\ c[k + 1] \in ReadCall /\ run[k + 1] = Receive(run[k], c[k + 1])
    BY <1>1, <1>3, <1>6
  <2>2. Needs(c[k + 1]) \subseteq Spans
    BY <2>1 DEF Needs, ReadCall, CallBare, CallSpan, CallTimed, CallLn, Spans
  <2>3. Needs(c[k + 1]) \subseteq run[k].spans
    BY <1>3, <1>6, <2>1, <2>2 DEF Introduced
  <2>4. /\ run[k + 1] \in Recorded /\ run[k].spans \subseteq run[k + 1].spans
        /\ \A s \in Spans : Names(c[k + 1], s) => s \in run[k + 1].spans
        /\ run[k + 1].lines = IF c[k + 1].op = "line" THEN Append(run[k].lines, c[k + 1]) ELSE run[k].lines
    BY <1>6, <2>1, <2>3, Receives
  <2>5. \A j \in 1..(k + 1) : j \in 1..k \/ j = k + 1
    OBVIOUS
  <2> QED BY <1>6, <2>4, <2>5
<1> HIDE DEF Known
<1>7. \A k \in 0..Len(c) : Known(k)
  <2>1. ASSUME NEW k \in Nat, k \in K PROVE k + 1 \in K
    BY <1>3, <1>6, <2>1
  <2>2. Nat \subseteq K
    <3> HIDE DEF K
    <3> QED BY <1>5, <2>1, CallsFold!SetInduction
  <2> QED BY <1>3, <2>2
<1>8. ~Recording(c).error
  <2>1. run[Len(c)] \in Recorded
    BY <1>3, <1>7 DEF Known
  <2>2. \A q \in Recorded : ~q.error
    BY DEF Recorded
  <2> QED BY <1>2, <2>1, <2>2
<1>9. ASSUME NEW l, OneLine(c, l)
      PROVE  \E m \in DOMAIN Recording(c).lines :
                 \A k \in DOMAIN Recording(c).lines : SameLine(Recording(c).lines[k], l) <=> k = m
  <2>1. PICK i \in DOMAIN c : \A j \in DOMAIN c : Hit(c[j], l) <=> j = i
    BY <1>9 DEF OneLine
  <2> DEFINE None(s) == \A m \in DOMAIN s : ~SameLine(s[m], l)
             One(s)  == \E m \in DOMAIN s : \A n \in DOMAIN s : SameLine(s[n], l) <=> n = m
             T == {k \in Nat : k <= Len(c) => IF k < i THEN None(run[k].lines) ELSE One(run[k].lines)}
  <2>2. 0 \in T
    BY <1>1, <1>3, <1>4, <2>1
  <2>3. ASSUME NEW s \in Seq(CallLn), NEW d \in CallLn
        PROVE  /\ None(s) /\ ~SameLine(d, l) => None(Append(s, d))
               /\ None(s) /\ SameLine(d, l)  => One(Append(s, d))
               /\ One(s)  /\ ~SameLine(d, l) => One(Append(s, d))
    <3>1. /\ Len(s) \in Nat /\ DOMAIN s = 1..Len(s)
          /\ DOMAIN Append(s, d) = 1..Len(s) + 1 /\ Append(s, d)[Len(s) + 1] = d
          /\ \A n \in DOMAIN s : Append(s, d)[n] = s[n]
      BY Appended
    <3>2. PICK z : z = Append(s, d)
      OBVIOUS
    <3>3. /\ DOMAIN s \subseteq DOMAIN z /\ \A n \in DOMAIN z : n \in DOMAIN s \/ n = Len(s) + 1
          /\ z[Len(s) + 1] = d /\ Len(s) + 1 \in DOMAIN z /\ Len(s) + 1 \notin DOMAIN s
          /\ \A n \in DOMAIN s : z[n] = s[n]
      BY <3>1, <3>2
    <3> HIDE <3>2
    <3>4. None(s) /\ ~SameLine(d, l) => None(z)
      BY <3>3
    <3>5. None(s) /\ SameLine(d, l) => One(z)
      BY <3>3
    <3>6. One(s) /\ ~SameLine(d, l) => One(z)
      BY <3>3
    <3> QED BY <3>2, <3>4, <3>5, <3>6
  <2>4. ASSUME NEW k \in Nat, k \in T PROVE k + 1 \in T
    <3> SUFFICES ASSUME k + 1 <= Len(c)
                 PROVE  IF k + 1 < i THEN None(run[k + 1].lines) ELSE One(run[k + 1].lines)
      OBVIOUS
    <3>1. /\ Known(k) /\ k + 1 \in DOMAIN c /\ c[k + 1] \in ReadCall
          /\ IF k < i THEN None(run[k].lines) ELSE One(run[k].lines)
      BY <1>3, <1>7, <2>4
    <3>2. /\ run[k].lines \in Seq(CallLn)
          /\ run[k + 1].lines = IF c[k + 1].op = "line" THEN Append(run[k].lines, c[k + 1]) ELSE run[k].lines
      BY <1>6, <3>1 DEF Recorded
    <3>3. c[k + 1].op = "line" => c[k + 1] \in CallLn
      BY <3>1 DEF ReadCall, CallBare, CallSpan, CallTimed
    <3>4. Hit(c[k + 1], l) <=> k + 1 = i
      BY <2>1, <3>1
    <3> HIDE DEF None, One
    <3>5. CASE c[k + 1].op # "line"
      <4>1. k + 1 # i
        BY <3>4, <3>5 DEF Hit
      <4> QED BY <1>3, <2>1, <3>1, <3>2, <3>5, <4>1
    <3>6. CASE c[k + 1].op = "line"
      <4>1. SameLine(c[k + 1], l) <=> k + 1 = i
        BY <3>4, <3>6 DEF Hit
      <4> QED BY <1>3, <2>1, <2>3, <3>1, <3>2, <3>3, <3>6, <4>1
    <3> QED BY <3>5, <3>6
  <2>5. Len(c) \in T
    <3> HIDE DEF T
    <3> QED BY <1>3, <2>2, <2>4, CallsFold!SetInduction
  <2>6. One(run[Len(c)].lines)
    BY <1>3, <2>1, <2>5
  <2> QED BY <1>2, <2>6
<1> QED BY <1>8, <1>9
(* A set that is put in some order. *)
LEMMA SeqOfSet ==
    ASSUME NEW S, IsFiniteSet(S)
    PROVE  SetToSeq(S) \in Seq(S)
<1>1. Cardinality(S) \in Nat /\ ExistsBijection(1..Cardinality(S), S)
  BY FS_CardinalityType
<1>2. PICK n \in Nat : n = Cardinality(S)
  BY <1>1
<1>3. PICK g : g \in Bijection(1..n, S)
  BY <1>1, <1>2 DEF ExistsBijection
<1>4. \E f \in [1..n -> S] : IsInjective(f)
  BY <1>3 DEF Bijection, Injection
<1>5. SetToSeq(S) \in [1..n -> S]
  BY <1>2, <1>4, Zenon DEF SetToSeq
<1> QED BY <1>5

(* A sequence over a set, and over any set that has that one's elements. *)
LEMMA SeqWithin ==
    ASSUME NEW S, NEW T, S \subseteq T, NEW q \in Seq(S)
    PROVE  q \in Seq(T)
<1>1. Len(q) \in Nat /\ q = [i \in 1..Len(q) |-> q[i]] /\ \A i \in 1..Len(q) : q[i] \in S
  OBVIOUS
<1>2. \A i \in 1..Len(q) : q[i] \in T
  BY <1>1
<1> QED BY <1>1, <1>2

(* One sequence after another. *)
LEMMA Joined ==
    ASSUME NEW X, NEW a \in Seq(X), NEW b \in Seq(X)
    PROVE  /\ a \o b \in Seq(X) /\ Len(a) \in Nat /\ Len(b) \in Nat
           /\ DOMAIN a = 1..Len(a) /\ DOMAIN b = 1..Len(b) /\ DOMAIN (a \o b) = 1..Len(a) + Len(b)
           /\ \A i \in 1..Len(a) : (a \o b)[i] = a[i]
           /\ \A i \in 1..Len(b) : (a \o b)[Len(a) + i] = b[i]
<1>1. Len(a) \in Nat /\ Len(b) \in Nat /\ DOMAIN a = 1..Len(a) /\ DOMAIN b = 1..Len(b)
  OBVIOUS
<1>2. /\ a \o b \in Seq(X) /\ Len(a \o b) = Len(a) + Len(b)
      /\ \A i \in 1..Len(a) + Len(b) : (a \o b)[i] = IF i <= Len(a) THEN a[i] ELSE b[i - Len(a)]
  BY ConcatProperties
<1>3. \A z \in Seq(X) : DOMAIN z = 1..Len(z)
  OBVIOUS
<1>4. DOMAIN (a \o b) = 1..Len(a) + Len(b)
  BY <1>2, <1>3
<1>5. \A i \in 1..Len(a) : i \in 1..Len(a) + Len(b) /\ i <= Len(a)
  BY <1>1
<1>6. \A i \in 1..Len(b) : Len(a) + i \in 1..Len(a) + Len(b) /\ ~(Len(a) + i <= Len(a)) /\ (Len(a) + i) - Len(a) = i
  BY <1>1
<1> QED BY <1>1, <1>2, <1>4, <1>5, <1>6

(* The calls that set the attributes of a span. *)
LEMMA AttributesRead ==
    ASSUME NEW s \in Spans, NEW A \in SUBSET Nat, IsFiniteSet(A)
    PROVE  SetToSeq({[op |-> "metadata", span |-> s, time |-> t] : t \in A})
               \in Seq([op : {"metadata"}, span : {s}, time : Nat])
<1> DEFINE D(t) == [op |-> "metadata", span |-> s, time |-> t]
           S == {D(t) : t \in A}
           f == [t \in A |-> D(t)]
<1>1. \A t, u \in A : D(t) = D(u) => t = u
  <2>1. \A t : D(t).time = t
    OBVIOUS
  <2> HIDE DEF D
  <2> QED BY <2>1
<1>2. S \subseteq [op : {"metadata"}, span : {s}, time : Nat]
  OBVIOUS
<1>3. IsFiniteSet(S)
  <2> HIDE DEF D
  <2>1. f \in Bijection(A, S)
    BY <1>1 DEF Bijection, Injection, Surjection, IsInjective
  <2> QED BY <2>1, FS_Bijection DEF ExistsBijection
<1> HIDE DEF S
<1>4. SetToSeq(S) \in Seq(S)
  BY <1>3, SeqOfSet
<1>5. SetToSeq(S) \in Seq([op : {"metadata"}, span : {s}, time : Nat])
  BY <1>2, <1>4, SeqWithin
<1> QED BY <1>5 DEF S

(* Where the calls of each part are: i is call pos[i] of part src[i]. *)
Placed(z, n, parts, src, pos) ==
    /\ \A i \in DOMAIN z : /\ src[i] \in 1..n /\ pos[i] \in DOMAIN parts[src[i]]
                           /\ z[i] = parts[src[i]][pos[i]]
    /\ \A i, j \in DOMAIN z : i < j => src[i] <= src[j]
    /\ \A i, j \in DOMAIN z : src[i] = src[j] /\ pos[i] = pos[j] => i = j
    /\ \A k \in 1..n : \A m \in DOMAIN parts[k] : \E i \in DOMAIN z : src[i] = k /\ pos[i] = m

(* They stay where they were when another part follows. *)
LEMMA PlacesGrow ==
    ASSUME NEW X, NEW a \in Seq(X), NEW b \in Seq(X), NEW k \in Nat, NEW parts, parts[k + 1] = b,
           NEW src, NEW pos, Placed(a, k, parts, src, pos)
    PROVE  \E src2, pos2 : Placed(a \o b, k + 1, parts, src2, pos2)
<1>1. PICK z \in Seq(X) : z = a \o b
  BY Joined
<1>2. PICK la \in Nat : la = Len(a)
  BY Joined
<1>3. /\ Len(b) \in Nat /\ DOMAIN a = 1..la /\ DOMAIN b = 1..Len(b) /\ DOMAIN z = 1..la + Len(b)
      /\ \A i \in 1..la : z[i] = a[i]
      /\ \A i \in 1..Len(b) : z[la + i] = b[i]
  BY <1>1, <1>2, Joined
<1>4. /\ \A i \in 1..la : src[i] \in 1..k /\ pos[i] \in DOMAIN parts[src[i]] /\ a[i] = parts[src[i]][pos[i]]
      /\ \A i, j \in 1..la : i < j => src[i] <= src[j]
      /\ \A i, j \in 1..la : src[i] = src[j] /\ pos[i] = pos[j] => i = j
      /\ \A h \in 1..k : \A m \in DOMAIN parts[h] : \E i \in 1..la : src[i] = h /\ pos[i] = m
  <2>1. DOMAIN a = 1..la
    BY <1>3
  <2>2. \A i \in 1..la : src[i] \in 1..k /\ pos[i] \in DOMAIN parts[src[i]] /\ a[i] = parts[src[i]][pos[i]]
    BY <2>1 DEF Placed
  <2>3. \A i, j \in 1..la : i < j => src[i] <= src[j]
    BY <2>1 DEF Placed
  <2>4. \A i, j \in 1..la : src[i] = src[j] /\ pos[i] = pos[j] => i = j
    BY <2>1 DEF Placed
  <2>5. \A h \in 1..k : \A m \in DOMAIN parts[h] : \E i \in 1..la : src[i] = h /\ pos[i] = m
    BY <2>1 DEF Placed
  <2> QED BY <2>2, <2>3, <2>4, <2>5
<1> HIDE <1>1, <1>2
<1> DEFINE src2 == [i \in DOMAIN z |-> IF i <= la THEN src[i] ELSE k + 1]
           pos2 == [i \in DOMAIN z |-> IF i <= la THEN pos[i] ELSE i - la]
<1>5. /\ \A i \in 1..la : i \in DOMAIN z /\ src2[i] = src[i] /\ pos2[i] = pos[i]
      /\ \A i \in 1..Len(b) : la + i \in DOMAIN z /\ src2[la + i] = k + 1 /\ pos2[la + i] = i
      /\ \A i \in DOMAIN z : i \in 1..la \/ \E m \in 1..Len(b) : i = la + m
  <2>1. \A i \in 1..la : i \in DOMAIN z /\ i <= la
    BY <1>3
  <2>2. \A i \in 1..Len(b) : la + i \in DOMAIN z /\ ~(la + i <= la) /\ (la + i) - la = i
    BY <1>3
  <2>3. \A i \in DOMAIN z : i \in 1..la \/ (i - la \in 1..Len(b) /\ i = la + (i - la))
    BY <1>3
  <2> QED BY <2>1, <2>2, <2>3
<1> HIDE DEF src2, pos2
<1>6. \A i \in DOMAIN z : \/ /\ i \in 1..la /\ src2[i] = src[i] /\ pos2[i] = pos[i]
                              /\ src[i] \in 1..k /\ src2[i] # k + 1
                           \/ /\ i \notin 1..la /\ src2[i] = k + 1
                              /\ \E m \in 1..Len(b) : i = la + m /\ pos2[i] = m /\ z[i] = b[m]
  <2>1. \A i \in 1..la : src[i] # k + 1
    BY <1>4
  <2>2. \A m \in 1..Len(b) : la + m \notin 1..la
    OBVIOUS
  <2> QED BY <1>3, <1>4, <1>5, <2>1, <2>2
<1>7. \A i \in DOMAIN z : src2[i] \in 1..k + 1 /\ pos2[i] \in DOMAIN parts[src2[i]] /\ z[i] = parts[src2[i]][pos2[i]]
  <2> SUFFICES ASSUME NEW i \in DOMAIN z
               PROVE  src2[i] \in 1..k + 1 /\ pos2[i] \in DOMAIN parts[src2[i]] /\ z[i] = parts[src2[i]][pos2[i]]
    OBVIOUS
  <2>1. CASE i \in 1..la
    <3>1. src2[i] = src[i] /\ pos2[i] = pos[i] /\ z[i] = a[i]
      BY <1>3, <1>5, <2>1
    <3>2. src[i] \in 1..k /\ pos[i] \in DOMAIN parts[src[i]] /\ a[i] = parts[src[i]][pos[i]]
      BY <1>4, <2>1
    <3>3. \A h \in 1..k : h \in 1..k + 1
      OBVIOUS
    <3> QED BY <3>1, <3>2, <3>3
  <2>2. CASE i \notin 1..la
    <3>1. PICK m \in 1..Len(b) : src2[i] = k + 1 /\ pos2[i] = m /\ z[i] = b[m]
      BY <1>6, <2>2
    <3> QED BY <1>3, <3>1
  <2> QED BY <2>1, <2>2
<1>8. \A i, j \in DOMAIN z : i < j => src2[i] <= src2[j]
  <2> SUFFICES ASSUME NEW i \in DOMAIN z, NEW j \in DOMAIN z, i < j PROVE src2[i] <= src2[j]
    OBVIOUS
  <2>1. CASE j \in 1..la
    <3>1. i \in 1..la
      BY <1>3, <2>1
    <3> QED BY <1>4, <1>5, <2>1, <3>1
  <2>2. CASE j \notin 1..la
    <3>1. src2[j] = k + 1
      BY <1>6, <2>2
    <3>2. src2[i] \in 1..k + 1
      BY <1>7
    <3> QED BY <3>1, <3>2
  <2> QED BY <2>1, <2>2
<1>9. \A i, j \in DOMAIN z : src2[i] = src2[j] /\ pos2[i] = pos2[j] => i = j
  <2> SUFFICES ASSUME NEW i \in DOMAIN z, NEW j \in DOMAIN z, src2[i] = src2[j], pos2[i] = pos2[j] PROVE i = j
    OBVIOUS
  <2>1. CASE i \in 1..la /\ j \in 1..la
    <3>1. src[i] = src[j] /\ pos[i] = pos[j]
      BY <1>5, <2>1
    <3> QED BY <1>4, <2>1, <3>1
  <2>2. CASE i \notin 1..la /\ j \notin 1..la
    BY <1>6, <2>2
  <2> QED BY <1>6, <2>1, <2>2
<1>10. \A h \in 1..k + 1 : \A m \in DOMAIN parts[h] : \E i \in DOMAIN z : src2[i] = h /\ pos2[i] = m
  <2> SUFFICES ASSUME NEW h \in 1..k + 1, NEW m \in DOMAIN parts[h]
               PROVE  \E i \in DOMAIN z : src2[i] = h /\ pos2[i] = m
    OBVIOUS
  <2>1. CASE h = k + 1
    BY <1>3, <1>5, <2>1
  <2>2. CASE h # k + 1
    <3>1. PICK i \in 1..la : src[i] = h /\ pos[i] = m
      BY <1>4, <2>2
    <3> QED BY <1>5, <3>1
  <2> QED BY <2>1, <2>2
<1>11. Placed(z, k + 1, parts, src2, pos2)
  BY <1>7, <1>8, <1>9, <1>10 DEF Placed
<1>12. z = a \o b
  BY <1>1
<1> QED BY <1>11, <1>12

(* The calls of all parts, in the order of the parts. *)
LEMMA AllPlaces ==
    ASSUME NEW X, NEW parts \in Seq(Seq(X))
    PROVE  AllOf(parts) \in Seq(X) /\ \E src, pos : Placed(AllOf(parts), Len(parts), parts, src, pos)
<1>1. PICK run : /\ run[0] = <<>>
                 /\ \A k \in 1..Len(parts) : run[k] = AndThen(run[k - 1], parts[k])
                 /\ run[Len(parts)] = PartsFold!FoldLeft(AndThen, <<>>, parts)
  BY PartsFold!FoldRuns
<1>2. run[Len(parts)] = AllOf(parts)
  BY <1>1, Zenon DEF AllOf, FoldLeft, PartsFold!FoldLeft, MapThenFoldSet, PartsFold!MapThenFoldSet, Max, PartsFold!Max
<1>3. Len(parts) \in Nat /\ \A k \in 1..Len(parts) : parts[k] \in Seq(X)
  OBVIOUS
<1> DEFINE Goes(k) == run[k] \in Seq(X) /\ \E src, pos : Placed(run[k], k, parts, src, pos)
           T == {k \in Nat : k <= Len(parts) => Goes(k)}
<1>4. 0 \in T
  <2>1. run[0] \in Seq(X) /\ DOMAIN run[0] = {}
    BY <1>1
  <2>2. Placed(run[0], 0, parts, <<>>, <<>>)
    BY <2>1 DEF Placed
  <2> QED BY <2>1, <2>2
<1>5. ASSUME NEW k \in Nat, k \in T PROVE k + 1 \in T
  <2> SUFFICES ASSUME k + 1 <= Len(parts) PROVE Goes(k + 1)
    OBVIOUS
  <2>1. k + 1 \in 1..Len(parts) /\ (k + 1) - 1 = k /\ k <= Len(parts)
    BY <1>3
  <2>2. run[k + 1] = run[k] \o parts[k + 1] /\ parts[k + 1] \in Seq(X)
    BY <1>1, <1>3, <2>1 DEF AndThen
  <2>3. Goes(k)
    BY <1>5, <2>1
  <2>4. PICK src, pos : Placed(run[k], k, parts, src, pos)
    BY <2>3
  <2>5. PICK a \in Seq(X) : a = run[k]
    BY <2>3
  <2>6. PICK b \in Seq(X) : b = parts[k + 1]
    BY <2>2
  <2>7. Placed(a, k, parts, src, pos) /\ parts[k + 1] = b /\ run[k + 1] = a \o b
    BY <2>2, <2>4, <2>5, <2>6
  <2> HIDE <2>5, <2>6
  <2>8. a \o b \in Seq(X) /\ \E src2, pos2 : Placed(a \o b, k + 1, parts, src2, pos2)
    BY <2>7, Joined, PlacesGrow
  <2> QED BY <2>7, <2>8
<1>6. Len(parts) \in T
  <2> HIDE DEF T
  <2> QED BY <1>3, <1>4, <1>5, PartsFold!SetInduction
<1> QED BY <1>2, <1>3, <1>6

(* Every span that a part needs is among those given or named by an earlier
   part; one part is the line l, and no other part has it. *)
Supplied(S, parts) ==
    \A k \in DOMAIN parts : \A m \in DOMAIN parts[k] : \A s \in Needs(parts[k][m]) :
        s \in S \/ \E j \in 1..k - 1 : \E h \in DOMAIN parts[j] : Names(parts[j][h], s)

OnePart(parts, l) ==
    \E k \in DOMAIN parts :
        /\ DOMAIN parts[k] = {1} /\ Hit(parts[k][1], l)
        /\ \A j \in DOMAIN parts : \A m \in DOMAIN parts[j] : Hit(parts[j][m], l) => j = k

(* What all parts say is told in time if each part says only what an earlier
   one has introduced, and a line that one part is has no other place. *)
LEMMA Spells ==
    ASSUME NEW parts \in Seq(Seq(ReadCall)), NEW S, Supplied(S, parts)
    PROVE  /\ AllOf(parts) \in Seq(ReadCall) /\ Introduced(S, AllOf(parts))
           /\ \A l : OnePart(parts, l) => OneLine(AllOf(parts), l)
           /\ (\A k \in DOMAIN parts : \A m \in DOMAIN parts[k] : parts[k][m].op = "line")
                 => \A i \in DOMAIN AllOf(parts) : AllOf(parts)[i].op = "line"
<1>1. PICK z \in Seq(ReadCall) : z = AllOf(parts) /\ \E src, pos : Placed(z, Len(parts), parts, src, pos)
  BY AllPlaces
<1>2. PICK src, pos : Placed(z, Len(parts), parts, src, pos)
  BY <1>1
<1>3. DOMAIN z = 1..Len(z) /\ Len(z) \in Nat /\ DOMAIN parts = 1..Len(parts) /\ Len(parts) \in Nat
  OBVIOUS
<1>4. /\ \A i \in DOMAIN z : /\ src[i] \in DOMAIN parts /\ pos[i] \in DOMAIN parts[src[i]]
                             /\ z[i] = parts[src[i]][pos[i]]
      /\ \A i, j \in DOMAIN z : i < j => src[i] <= src[j]
  BY <1>2, <1>3, Zenon DEF Placed
<1>5. \A i, j \in DOMAIN z : src[i] = src[j] /\ pos[i] = pos[j] => i = j
  BY <1>2, Zenon DEF Placed
<1>6. \A k \in DOMAIN parts : \A m \in DOMAIN parts[k] : \E i \in DOMAIN z : src[i] = k /\ pos[i] = m
  BY <1>2, <1>3, Zenon DEF Placed
<1>7. Introduced(S, z)
  <2> SUFFICES ASSUME NEW i \in DOMAIN z, NEW s \in Needs(z[i]), s \notin S
               PROVE  \E j \in 1..i - 1 : Names(z[j], s)
    BY DEF Introduced
  <2>1. PICK j \in 1..src[i] - 1 : \E h \in DOMAIN parts[j] : Names(parts[j][h], s)
    <3>1. /\ src[i] \in DOMAIN parts /\ pos[i] \in DOMAIN parts[src[i]]
          /\ s \in Needs(parts[src[i]][pos[i]])
      BY <1>4
    <3> QED BY <3>1 DEF Supplied
  <2>2. j \in DOMAIN parts /\ j < src[i]
    BY <1>3, <1>4
  <2>3. PICK h \in DOMAIN parts[j] : Names(parts[j][h], s)
    BY <2>1
  <2>4. PICK g \in DOMAIN z : src[g] = j /\ pos[g] = h
    BY <1>6, <2>2
  <2>5. Names(z[g], s)
    BY <1>4, <2>3, <2>4
  <2>6. src[i] \in Nat /\ j \in Nat
    BY <1>3, <1>4, <2>2
  <2>7. ~(i < g) /\ i # g
    <3>1. i < g => src[i] <= src[g]
      BY <1>4
    <3> QED BY <2>2, <2>4, <2>6, <3>1
  <2>8. g \in 1..i - 1
    BY <1>3, <2>7
  <2> QED BY <2>5, <2>8
<1>8. ASSUME NEW l, OnePart(parts, l) PROVE OneLine(z, l)
  <2>0. PICK k \in DOMAIN parts :
            /\ DOMAIN parts[k] = {1} /\ Hit(parts[k][1], l)
            /\ \A j \in DOMAIN parts : \A m \in DOMAIN parts[j] : Hit(parts[j][m], l) => j = k
    BY <1>8 DEF OnePart
  <2>1. PICK g \in DOMAIN z : src[g] = k /\ pos[g] = 1
    BY <1>6, <2>0
  <2>2. Hit(z[g], l)
    BY <1>4, <2>0, <2>1
  <2>3. ASSUME NEW j \in DOMAIN z, Hit(z[j], l) PROVE j = g
    <3>1. src[j] = k /\ pos[j] \in {1}
      BY <1>4, <2>0, <2>3
    <3> QED BY <1>5, <2>1, <3>1
  <2> QED BY <2>2, <2>3 DEF OneLine
<1>9. (\A k \in DOMAIN parts : \A m \in DOMAIN parts[k] : parts[k][m].op = "line")
         => \A i \in DOMAIN z : z[i].op = "line"
  <2> SUFFICES ASSUME \A k \in DOMAIN parts : \A m \in DOMAIN parts[k] : parts[k][m].op = "line",
                      NEW i \in DOMAIN z
               PROVE  z[i].op = "line"
    OBVIOUS
  <2>1. src[i] \in DOMAIN parts /\ pos[i] \in DOMAIN parts[src[i]] /\ z[i] = parts[src[i]][pos[i]]
    BY <1>4
  <2>2. parts[src[i]][pos[i]].op = "line"
    BY <2>1
  <2> QED BY <2>1, <2>2
<1> HIDE DEF Introduced, OneLine
<1> QED BY <1>1, <1>7, <1>8, <1>9

(* No call of c is a line. *)
NoLine(c) == \A i \in DOMAIN c : c[i].op # "line"

(* Calls, and others after them that need only spans named so far. *)
LEMMA Continues ==
    ASSUME NEW a \in Seq(ReadCall), NEW b \in Seq(ReadCall), NEW S, NEW T \in SUBSET Spans,
           Introduced(S, a), Introduced(T, b), T \subseteq S \cup NamedIn(a)
    PROVE  /\ a \o b \in Seq(ReadCall) /\ Introduced(S, a \o b)
           /\ NamedIn(a) \cup NamedIn(b) \subseteq NamedIn(a \o b)
           /\ NoLine(a) /\ NoLine(b) => NoLine(a \o b)
           /\ \A l : /\ NoLine(a) /\ OneLine(b, l) => OneLine(a \o b, l)
                     /\ OneLine(a, l) /\ NoLine(b) => OneLine(a \o b, l)
<1>1. PICK z \in Seq(ReadCall) : z = a \o b
  BY Joined
<1>2. PICK la \in Nat : la = Len(a)
  BY Joined
<1>3. /\ Len(b) \in Nat /\ DOMAIN a = 1..la /\ DOMAIN b = 1..Len(b) /\ DOMAIN z = 1..la + Len(b)
      /\ \A i \in 1..la : z[i] = a[i]
      /\ \A i \in 1..Len(b) : z[la + i] = b[i]
  BY <1>1, <1>2, Joined
<1> HIDE <1>1, <1>2
<1>4. /\ \A i \in DOMAIN a : i \in DOMAIN z /\ z[i] = a[i]
      /\ \A i \in DOMAIN b : la + i \in DOMAIN z /\ z[la + i] = b[i] /\ la + i \notin DOMAIN a
      /\ \A i \in DOMAIN z : i \in DOMAIN a \/ \E m \in DOMAIN b : i = la + m
  <2>1. \A i \in 1..la + Len(b) : i \in 1..la \/ (i - la \in 1..Len(b) /\ i = la + (i - la))
    BY <1>3
  <2>2. \A i \in 1..la + Len(b) : i \in 1..la \/ \E m \in 1..Len(b) : i = la + m
    BY <2>1
  <2>3. /\ \A i \in 1..la : i \in 1..la + Len(b)
        /\ \A i \in 1..Len(b) : la + i \in 1..la + Len(b) /\ la + i \notin 1..la
    BY <1>3
  <2> QED BY <1>3, <2>2, <2>3
<1>5. Introduced(S, z)
  <2> SUFFICES ASSUME NEW i \in DOMAIN z, NEW s \in Needs(z[i]), s \notin S
               PROVE  \E j \in 1..i - 1 : Names(z[j], s)
    BY DEF Introduced
  <2>1. CASE i \in DOMAIN a
    <3>1. PICK j \in 1..i - 1 : Names(a[j], s)
      BY <1>4, <2>1 DEF Introduced
    <3>2. j \in DOMAIN a
      BY <1>3, <2>1
    <3> QED BY <1>4, <3>1, <3>2
  <2>2. CASE i \notin DOMAIN a
    <3>1. PICK m \in DOMAIN b : i = la + m /\ z[i] = b[m]
      BY <1>4, <2>2
    <3>2. s \in T \/ \E j \in 1..m - 1 : Names(b[j], s)
      BY <3>1 DEF Introduced
    <3>3. CASE s \in T
      <4>1. PICK j \in DOMAIN a : Names(a[j], s)
        BY <3>3 DEF NamedIn
      <4>2. j \in 1..i - 1 /\ z[j] = a[j]
        BY <1>3, <1>4, <3>1
      <4> QED BY <4>1, <4>2
    <3>4. CASE \E j \in 1..m - 1 : Names(b[j], s)
      <4>1. PICK j \in 1..m - 1 : Names(b[j], s)
        BY <3>4
      <4>2. j \in DOMAIN b /\ la + j \in 1..i - 1
        BY <1>3, <3>1
      <4> QED BY <1>4, <4>1, <4>2
    <3> QED BY <3>2, <3>3, <3>4
  <2> QED BY <2>1, <2>2
<1>6. NamedIn(a) \cup NamedIn(b) \subseteq NamedIn(z)
  BY <1>4 DEF NamedIn
<1>7. NoLine(a) /\ NoLine(b) => NoLine(z)
  BY <1>4 DEF NoLine
<1>8. ASSUME NEW l PROVE  /\ NoLine(a) /\ OneLine(b, l) => OneLine(z, l)
                          /\ OneLine(a, l) /\ NoLine(b) => OneLine(z, l)
  <2>1. ASSUME NoLine(a), OneLine(b, l) PROVE OneLine(z, l)
    <3>1. PICK m \in DOMAIN b : \A j \in DOMAIN b : Hit(b[j], l) <=> j = m
      BY <2>1 DEF OneLine
    <3>2. \A j \in DOMAIN a : ~Hit(z[j], l)
      BY <1>4, <2>1 DEF NoLine, Hit
    <3>3. \A j \in DOMAIN z : Hit(z[j], l) <=> j = la + m
      <4> SUFFICES ASSUME NEW j \in DOMAIN z PROVE Hit(z[j], l) <=> j = la + m
        OBVIOUS
      <4>1. CASE j \in DOMAIN a
        BY <1>4, <3>2, <4>1
      <4>2. CASE j \notin DOMAIN a
        <5>1. PICK n \in DOMAIN b : j = la + n /\ z[j] = b[n]
          BY <1>4, <4>2
        <5>2. n \in Nat /\ m \in Nat
          BY <1>3
        <5> QED BY <3>1, <5>1, <5>2
      <4> QED BY <4>1, <4>2
    <3> QED BY <1>4, <3>3 DEF OneLine
  <2>2. ASSUME OneLine(a, l), NoLine(b) PROVE OneLine(z, l)
    <3>1. PICK m \in DOMAIN a : \A j \in DOMAIN a : Hit(a[j], l) <=> j = m
      BY <2>2 DEF OneLine
    <3>2. \A n \in DOMAIN b : ~Hit(z[la + n], l)
      BY <1>4, <2>2 DEF NoLine, Hit
    <3>3. \A j \in DOMAIN z : Hit(z[j], l) <=> j = m
      BY <1>4, <3>1, <3>2
    <3> QED BY <1>4, <3>3 DEF OneLine
  <2> QED BY <2>1, <2>2
<1>9. z = a \o b
  BY <1>1
<1> HIDE DEF Introduced, OneLine, NoLine, NamedIn
<1> QED BY <1>5, <1>6, <1>7, <1>8, <1>9
(* The calls q that are read from element e of an output that tells of every
   span before it says anything about it. *)
Spelled(e, q) ==
    /\ q \in Seq(ReadCall)
    /\ \A s \in Spans : FirstIn(base, e, s) => \E h \in DOMAIN q : Names(q[h], s)
    /\ FirstIn(base, e, "request") => \A m \in DOMAIN q : Needs(q[m]) = {}
    /\ \A m \in DOMAIN q : "child" \in Needs(q[m]) => AboutIn(base, e, "child")
    /\ LineIn(base, e) => DOMAIN q = {1} /\ Hit(q[1], e)
    /\ ~LineIn(base, e) => NoLine(q)

(* The line of an output is that of one of its elements. *)
LEMMA OneOfThem ==
    ASSUME Sent, NEW l \in LinesDone, NEW parts, DOMAIN parts = DOMAIN output,
           \A k \in DOMAIN output : IF LineIn(base, output[k]) THEN DOMAIN parts[k] = {1} /\ Hit(parts[k][1], output[k])
                                                              ELSE NoLine(parts[k])
    PROVE  OnePart(parts, l)
<1>1. PICK k \in DOMAIN output : LineIn(base, output[k]) /\ SameLine(output[k], l)
  BY DEF Sent
<1>2. DOMAIN parts[k] = {1} /\ Hit(parts[k][1], l)
  BY <1>1 DEF Hit, SameLine
<1>3. ASSUME NEW j \in DOMAIN output, NEW m \in DOMAIN parts[j], Hit(parts[j][m], l) PROVE j = k
  <2>1. LineIn(base, output[j])
    BY <1>3 DEF NoLine, Hit
  <2>2. m = 1 /\ Hit(parts[j][1], output[j])
    BY <2>1
  <2>3. output[j].time = output[k].time
    BY <1>1, <1>3, <2>2 DEF Hit, SameLine
  <2> QED BY <1>1, <2>1, <2>3 DEF Sent
<1> QED BY <1>2, <1>3 DEF OnePart

(* What is read element by element. *)
LEMMA ReadsOutput ==
    ASSUME Sent, Told, NEW parts \in Seq(Seq(ReadCall)), DOMAIN parts = DOMAIN output,
           \A k \in DOMAIN output : Spelled(output[k], parts[k])
    PROVE  /\ AllOf(parts) \in Seq(ReadCall) /\ Introduced({}, AllOf(parts))
           /\ \A l \in LinesDone : OneLine(AllOf(parts), l)
<1>1. DOMAIN parts = 1..Len(parts) /\ Len(parts) \in Nat
  OBVIOUS
<1>2. ASSUME NEW k \in DOMAIN parts, NEW m \in DOMAIN parts[k], NEW s \in Needs(parts[k][m])
      PROVE  \E j \in 1..k - 1 : \E h \in DOMAIN parts[j] : Names(parts[j][h], s)
  <2>1. parts[k][m] \in ReadCall
    BY <1>1
  <2>2. s \in Spans
    BY <2>1 DEF Needs, ReadCall, CallBare, CallSpan, CallTimed, CallLn, Spans
  <2>3. CASE s = "request"
    <3>1. FirstIn(base, output[1], "request")
      BY DEF Told
    <3>2. k # 1
      BY <1>2, <3>1 DEF Spelled
    <3>3. 1 \in 1..k - 1 /\ 1 \in DOMAIN output
      BY <1>1, <3>2
    <3> QED BY <2>2, <2>3, <3>1, <3>3 DEF Spelled
  <2>4. CASE s = "child"
    <3>1. AboutIn(base, output[k], "child")
      BY <1>2, <2>4 DEF Spelled
    <3>2. PICK j \in 1..k - 1 : FirstIn(base, output[j], "child")
      BY <3>1 DEF Told
    <3>3. j \in DOMAIN output
      BY <1>1
    <3> QED BY <2>2, <2>4, <3>2, <3>3 DEF Spelled
  <2> QED BY <2>2, <2>3, <2>4 DEF Spans
<1>3. /\ AllOf(parts) \in Seq(ReadCall) /\ Introduced({}, AllOf(parts))
      /\ \A l : OnePart(parts, l) => OneLine(AllOf(parts), l)
  <2>1. Supplied({}, parts)
    BY <1>2 DEF Supplied
  <2> QED BY <2>1, Spells
<1>4. ASSUME NEW l \in LinesDone
      PROVE  OnePart(parts, l)
  <2>1. \A k \in DOMAIN output : IF LineIn(base, output[k]) THEN DOMAIN parts[k] = {1} /\ Hit(parts[k][1], output[k])
                                                           ELSE NoLine(parts[k])
    BY DEF Spelled
  <2> QED BY <2>1, OneOfThem
<1> QED BY <1>3, <1>4

(* A record of the console is read as what it was written for. *)
LEMMA ConsoleReads ==
    ASSUME base = "console", NEW e \in ConsoleEntry, e.record = "v" => IsFiniteSet(e.attributes)
    PROVE  Spelled(e, ConsoleCall(e))
<1>1. CASE e \in [record : {"Start"}, span : Spans]
  <2>0. /\ e.record = "Start" /\ e.span \in {"request", "child"}
        /\ [op |-> "request"] \in ReadCall /\ [op |-> "span", span |-> "child", parent |-> "request"] \in ReadCall
    BY <1>1 DEF ReadCall, CallBare, CallSpan, Spans
  <2>1. PICK d \in ReadCall : d = IF e.span = "request" THEN [op |-> "request"]
                                  ELSE [op |-> "span", span |-> "child", parent |-> "request"]
    BY <2>0
  <2>2. /\ d.op = IF e.span = "request" THEN "request" ELSE "span"
        /\ e.record = "Start" /\ e.span \in Spans
    BY <2>0, <2>1 DEF Spans
  <2>3. ConsoleCall(e) = <<d>>
    <3>1. CASE e.span = "request"
      BY <2>0, <2>1, <3>1 DEF ConsoleCall
    <3>2. CASE e.span = "child"
      BY <2>0, <2>1, <3>2 DEF ConsoleCall
    <3> QED BY <2>0, <3>1, <3>2
  <2>4. <<d>> \in Seq(ReadCall) /\ DOMAIN <<d>> = {1} /\ <<d>>[1] = d
    OBVIOUS
  <2>5. /\ \A s \in Spans : e.span = s => Names(d, s)
        /\ e.span = "request" => Needs(d) = {}
        /\ "child" \notin Needs(d) /\ d.op # "line"
    BY <2>2 DEF Names, Needs, Spans
  <2>6. /\ \A s \in Spans : FirstIn(base, e, s) <=> e.span = s
        /\ ~LineIn(base, e)
    BY <2>2 DEF FirstIn, LineIn
  <2>7. "request" \in Spans
    BY DEF Spans
  <2> QED BY <2>3, <2>4, <2>5, <2>6, <2>7 DEF Spelled, NoLine
<1>2. CASE e \in ConsoleLn
  <2>1. PICK d \in CallLn : d = [op |-> "line", span |-> e.span, time |-> e.time,
                                 attr |-> e.attr, kind |-> e.kind, prefix |-> e.prefix]
    BY <1>2 DEF ConsoleLn, CallLn
  <2>2. /\ d.op = "line" /\ d.span = e.span /\ d.time = e.time
        /\ e.record = "line" /\ e.span \in Spans
    BY <1>2, <2>1 DEF ConsoleLn
  <2>3. ConsoleCall(e) = <<d>>
    BY <2>1, <2>2 DEF ConsoleCall
  <2>4. <<d>> \in Seq(ReadCall) /\ DOMAIN <<d>> = {1} /\ <<d>>[1] = d
    BY DEF ReadCall
  <2>5. Needs(d) = {e.span} /\ Hit(d, e)
    BY <2>2 DEF Needs, Hit, SameLine
  <2>6. /\ \A s \in Spans : ~FirstIn(base, e, s)
        /\ LineIn(base, e) /\ (e.span = "child" => AboutIn(base, e, "child"))
    BY <2>2 DEF FirstIn, LineIn, AboutIn
  <2>7. "request" \in Spans
    BY DEF Spans
  <2> QED BY <2>3, <2>4, <2>5, <2>6, <2>7 DEF Spelled
<1>3. CASE e \in VRecord
  <2>1. /\ e.record = "v" /\ e.span \in Spans /\ e.time \in Nat /\ e.attributes \in SUBSET Nat
        /\ IsFiniteSet(e.attributes)
    BY <1>3 DEF VRecord
  <2>2. PICK d : d = [op |-> "done", span |-> e.span, time |-> e.time]
    OBVIOUS
  <2>3. PICK D : D = [op : {"metadata", "done"}, span : {e.span}, time : Nat]
    OBVIOUS
  <2>4. d \in D
    BY <2>1, <2>2, <2>3
  <2>5. PICK q \in Seq(D) : q = SetToSeq({[op |-> "metadata", span |-> e.span, time |-> t] : t \in e.attributes})
    <3>1. [op : {"metadata"}, span : {e.span}, time : Nat] \subseteq D
      BY <2>3
    <3>2. PICK q \in Seq([op : {"metadata"}, span : {e.span}, time : Nat]) :
              q = SetToSeq({[op |-> "metadata", span |-> e.span, time |-> t] : t \in e.attributes})
      BY <2>1, AttributesRead
    <3>3. q \in Seq(D)
      <4> HIDE <3>2
      <4> QED BY <3>1, SeqWithin
    <3> QED BY <3>2, <3>3
  <2>6. ConsoleCall(e) = Append(q, d)
    BY <2>1, <2>2, <2>5 DEF ConsoleCall
  <2>7. \A x \in D : x \in ReadCall /\ Needs(x) = {e.span} /\ x.op # "line"
    <3> SUFFICES ASSUME NEW x \in D PROVE x \in ReadCall /\ Needs(x) = {e.span} /\ x.op # "line"
      OBVIOUS
    <3>1. x.op \in {"metadata", "done"} /\ x.span = e.span
      BY <2>3
    <3>2. x \in CallTimed
      BY <2>1, <2>3 DEF CallTimed
    <3> QED BY <3>1, <3>2 DEF ReadCall, Needs
  <2> HIDE <2>2, <2>3, <2>5
  <2>8. PICK z \in Seq(D) : z = Append(q, d)
    <3>1. Append(q, d) \in Seq(D)
      BY <2>4
    <3> QED BY <3>1
  <2>9. z \in Seq(ReadCall) /\ \A m \in DOMAIN z : z[m] \in D
    BY <2>7, SeqWithin
  <2>10. \A m \in DOMAIN z : Needs(z[m]) = {e.span} /\ z[m].op # "line"
    BY <2>7, <2>9
  <2>11. /\ \A s \in Spans : ~FirstIn(base, e, s)
         /\ ~LineIn(base, e) /\ (e.span = "child" => AboutIn(base, e, "child"))
    BY <2>1 DEF FirstIn, LineIn, AboutIn
  <2>12. "request" \in Spans
    BY DEF Spans
  <2>13. Spelled(e, z)
    BY <2>9, <2>10, <2>11, <2>12 DEF Spelled, NoLine
  <2> QED BY <2>6, <2>8, <2>13
<1> QED BY <1>1, <1>2, <1>3 DEF ConsoleEntry

(* The console, record by record. *)
LEMMA ConsoleReplays ==
    ASSUME base = "console", ConsoleTypeOK, Sent, Told
    PROVE  /\ ConsoleReadCalls \in Seq(ReadCall) /\ Introduced({}, ConsoleReadCalls)
           /\ \A l \in LinesDone : OneLine(ConsoleReadCalls, l)
<1>1. PICK parts : parts = [k \in DOMAIN output |-> ConsoleCall(output[k])]
  OBVIOUS
<1>2. output \in Seq(ConsoleEntry) /\ \A k \in DOMAIN output : output[k].record = "v" => IsFiniteSet(output[k].attributes)
  BY DEF ConsoleTypeOK
<1>3. DOMAIN output = 1..Len(output) /\ Len(output) \in Nat /\ \A k \in DOMAIN output : output[k] \in ConsoleEntry
  BY <1>2
<1>4. DOMAIN parts = DOMAIN output /\ \A k \in DOMAIN output : parts[k] = ConsoleCall(output[k])
  BY <1>1
<1>5. \A k \in DOMAIN output : Spelled(output[k], parts[k])
  BY <1>2, <1>3, <1>4, ConsoleReads
<1>6. \A k \in DOMAIN output : parts[k] \in Seq(ReadCall)
  BY <1>5 DEF Spelled
<1>7. parts \in Seq(Seq(ReadCall))
  BY <1>1, <1>3, <1>4, <1>6
<1>8. AllOf(parts) = ConsoleReadCalls
  BY <1>1 DEF ConsoleReadCalls
<1> HIDE <1>1
<1> QED BY <1>4, <1>5, <1>7, <1>8, ReadsOutput
(* The recorder, which replays its own calls. *)
LEMMA RecorderReplays ==
    ASSUME base = "recorder", RecorderTypeOK, Sent, Told
    PROVE  /\ RecorderCalls \in Seq(ReadCall) /\ Introduced({}, RecorderCalls)
           /\ \A l \in LinesDone : OneLine(RecorderCalls, l)
<1>1. PICK c : c = RecorderCalls
  OBVIOUS
<1>2. output \in Seq(RecorderEntry) /\ endTime \in [Spans -> Nat]
  BY DEF RecorderTypeOK
<1>3. DOMAIN output = 1..Len(output) /\ Len(output) \in Nat /\ \A k \in DOMAIN output : output[k] \in RecorderEntry
  BY <1>2
<1>4. /\ c = [i \in DOMAIN output |-> c[i]] /\ DOMAIN c = DOMAIN output
      /\ \A i \in DOMAIN output : c[i] = IF output[i].op = "done"
                                         THEN [op |-> "done", span |-> output[i].span, time |-> endTime[output[i].span]]
                                         ELSE output[i]
  BY <1>1 DEF RecorderCalls
<1> HIDE <1>1
<1>5. ASSUME NEW i \in DOMAIN output
      PROVE  /\ c[i] \in ReadCall /\ c[i].op = output[i].op
             /\ c[i].op = "line" => c[i] = output[i]
             /\ \A s \in Spans : s \in Needs(c[i]) => output[i].op # "request"
             /\ "child" \in Needs(c[i]) => AboutIn(base, output[i], "child")
  <2>1. CASE output[i].op = "done"
    <3>1. output[i] \in [op : {"done"}, span : Spans]
      BY <1>3, <2>1 DEF RecorderEntry, RecorderLn
    <3>2. PICK d \in CallTimed : d = [op |-> "done", span |-> output[i].span, time |-> endTime[output[i].span]]
      BY <1>2, <3>1 DEF CallTimed
    <3>3. c[i] = d /\ d.op = "done" /\ d.span = output[i].span
      BY <1>4, <2>1, <3>2
    <3> QED BY <2>1, <3>3 DEF ReadCall, Needs, AboutIn
  <2>2. CASE output[i].op # "done"
    <3>1. c[i] = output[i]
      BY <1>4, <2>2
    <3>2. output[i] \in ReadCall
      BY <1>3, <2>2 DEF RecorderEntry, RecorderLn, ReadCall, CallBare, CallSpan, CallTimed, CallLn
    <3> QED BY <3>1, <3>2, <2>2 DEF Needs, AboutIn
  <2> QED BY <2>1, <2>2
<1>6. c \in Seq(ReadCall)
  BY <1>3, <1>4, <1>5
<1>7. Introduced({}, c)
  <2> SUFFICES ASSUME NEW i \in DOMAIN output, NEW s \in Needs(c[i])
               PROVE  \E j \in 1..i - 1 : Names(c[j], s)
    BY <1>4 DEF Introduced
  <2>1. s \in Spans
    BY <1>5 DEF Needs, ReadCall, CallBare, CallSpan, CallTimed, CallLn, Spans
  <2>2. CASE s = "request"
    <3>1. output[1].op = "request" /\ 1 \in DOMAIN output
      <4>1. FirstIn(base, output[1], "request") /\ output # <<>>
        BY DEF Told
      <4> QED BY <1>3, <4>1 DEF FirstIn
    <3>2. i # 1
      BY <1>5, <2>1, <3>1
    <3>3. 1 \in 1..i - 1
      BY <1>3, <3>2
    <3> QED BY <1>5, <2>2, <3>1, <3>3 DEF Names
  <2>3. CASE s = "child"
    <3>1. PICK j \in 1..i - 1 : FirstIn(base, output[j], "child")
      BY <1>5, <2>3 DEF Told
    <3>2. j \in DOMAIN output /\ output[j].op = "span"
      BY <1>3, <3>1 DEF FirstIn
    <3> QED BY <1>5, <2>3, <3>1, <3>2 DEF Names
  <2> QED BY <2>1, <2>2, <2>3 DEF Spans
<1>8. ASSUME NEW l \in LinesDone PROVE OneLine(c, l)
  <2>1. PICK k \in DOMAIN output : LineIn(base, output[k]) /\ SameLine(output[k], l)
    BY DEF Sent
  <2>2. \A j \in DOMAIN output : Hit(c[j], l) <=> LineIn(base, output[j]) /\ SameLine(output[j], l)
    BY <1>5 DEF Hit, LineIn
  <2>3. ASSUME NEW j \in DOMAIN output, Hit(c[j], l) PROVE j = k
    <3>1. LineIn(base, output[j]) /\ output[j].time = output[k].time
      BY <2>1, <2>2, <2>3 DEF SameLine
    <3> QED BY <2>1, <3>1 DEF Sent
  <2> QED BY <1>4, <2>1, <2>2, <2>3 DEF OneLine
<1>9. c = RecorderCalls
  BY <1>1
<1> QED BY <1>6, <1>7, <1>8, <1>9

(* Calls about one span, which was introduced. *)
LEMMA AboutOne ==
    ASSUME NEW s \in Spans, NEW q \in Seq([op : {"metadata", "done"}, span : {s}, time : Nat])
    PROVE  q \in Seq(ReadCall) /\ Introduced({s}, q) /\ NoLine(q)
<1>1. PICK D : D = [op : {"metadata", "done"}, span : {s}, time : Nat]
  OBVIOUS
<1>2. \A x \in D : x \in ReadCall /\ Needs(x) = {s} /\ x.op # "line"
  <2> SUFFICES ASSUME NEW x \in D PROVE x \in ReadCall /\ Needs(x) = {s} /\ x.op # "line"
    OBVIOUS
  <2>1. x.op \in {"metadata", "done"} /\ x.span = s
    BY <1>1
  <2>2. x \in CallTimed
    BY <1>1 DEF CallTimed
  <2> QED BY <2>1, <2>2 DEF ReadCall, Needs
<1>3. q \in Seq(D)
  BY <1>1
<1> HIDE <1>1
<1>4. q \in Seq(ReadCall)
  BY <1>2, <1>3, SeqWithin
<1>5. \A i \in DOMAIN q : q[i] \in D
  BY <1>3
<1> QED BY <1>2, <1>4, <1>5 DEF Introduced, NoLine

(* The calls that introduce the spans. *)
LEMMA Introductions ==
    /\ <<[op |-> "request"]>> \in Seq(ReadCall) /\ Introduced({}, <<[op |-> "request"]>>)
    /\ "request" \in NamedIn(<<[op |-> "request"]>>) /\ NoLine(<<[op |-> "request"]>>)
    /\ <<[op |-> "span", span |-> "child", parent |-> "request"]>> \in Seq(ReadCall)
    /\ Introduced({"request"}, <<[op |-> "span", span |-> "child", parent |-> "request"]>>)
    /\ "child" \in NamedIn(<<[op |-> "span", span |-> "child", parent |-> "request"]>>)
    /\ NoLine(<<[op |-> "span", span |-> "child", parent |-> "request"]>>)
<1>1. \A d \in ReadCall : <<d>> \in Seq(ReadCall) /\ DOMAIN <<d>> = {1} /\ <<d>>[1] = d
  OBVIOUS
<1>2. PICK d \in ReadCall : d = [op |-> "request"]
  <2>1. [op |-> "request"] \in ReadCall
    BY DEF ReadCall, CallBare
  <2> QED BY <2>1
<1>3. PICK e \in ReadCall : e = [op |-> "span", span |-> "child", parent |-> "request"]
  <2>1. [op |-> "span", span |-> "child", parent |-> "request"] \in ReadCall
    BY DEF ReadCall, CallSpan
  <2> QED BY <2>1
<1>4. d.op = "request" /\ Needs(d) = {} /\ Names(d, "request")
  BY <1>2 DEF Needs, Names
<1>5. e.op = "span" /\ Needs(e) = {"request"} /\ Names(e, "child")
  BY <1>3 DEF Needs, Names
<1>6. <<d>> \in Seq(ReadCall) /\ Introduced({}, <<d>>) /\ "request" \in NamedIn(<<d>>) /\ NoLine(<<d>>)
  <2> HIDE <1>2
  <2> QED BY <1>1, <1>4 DEF Introduced, NamedIn, NoLine, Spans
<1>7. <<e>> \in Seq(ReadCall) /\ Introduced({"request"}, <<e>>) /\ "child" \in NamedIn(<<e>>) /\ NoLine(<<e>>)
  <2> HIDE <1>3
  <2> QED BY <1>1, <1>5 DEF Introduced, NamedIn, NoLine, Spans
<1> QED BY <1>2, <1>3, <1>6, <1>7

(* The last record of a span that was written. *)
LEMMA LastWritten ==
    ASSUME JsonTypeOK, NEW s \in Spans, Written(s)
    PROVE  /\ LastOf(s).attributes \in SUBSET Nat /\ IsFiniteSet(LastOf(s).attributes)
           /\ LastOf(s).ended \in BOOLEAN /\ LastOf(s).end \in Nat
<1>1. output \in Seq(JsonEntry)
  BY DEF JsonTypeOK
<1>2. DOMAIN output = 1..Len(output) /\ Len(output) \in Nat /\ \A i \in DOMAIN output : output[i] \in JsonEntry
  BY <1>1
<1>3. PICK R : R = RecordsOf(s)
  OBVIOUS
<1>4. R \subseteq 1..Len(output) /\ R # {}
  BY <1>2, <1>3 DEF RecordsOf, Written
<1> DEFINE T == {n \in Nat : \A x \in R : x <= n}
<1>5. Len(output) \in T
  BY <1>2, <1>4
<1>6. PICK n \in T : \A m \in T : n <= m
  BY <1>5, CallsFold!LeastNumber
<1>7. n \in R
  <2> SUFFICES ASSUME n \notin R PROVE FALSE
    OBVIOUS
  <2>1. \A x \in R : x \in Nat /\ x >= 1 /\ x <= n - 1
    BY <1>4
  <2>2. PICK z \in R : z >= 1 /\ z <= n - 1
    BY <1>4, <2>1
  <2>3. n - 1 \in Nat
    BY <1>4, <2>2
  <2>4. n - 1 \in T
    BY <2>1, <2>3
  <2> QED BY <1>6, <2>4
<1>8. Max(R) \in R
  BY <1>4, <1>7 DEF Max
<1>9. PICK e : e = LastOf(s)
  OBVIOUS
<1>10. PICK i \in DOMAIN output : e = output[i] /\ output[i].type = s
  BY <1>3, <1>8, <1>9 DEF RecordsOf, LastOf
<1>11. e \in JsonEntry /\ e.type \in Spans /\ IsFiniteSet(e.attributes)
  BY <1>2, <1>10 DEF JsonTypeOK
<1>12. e \in JsonStarts \/ e \in JsonRecord
  BY <1>11 DEF JsonEntry, JsonLn, Spans
<1>13. e.attributes \in SUBSET Nat /\ e.ended \in BOOLEAN /\ e.end \in Nat
  <2>1. CASE e \in JsonStarts
    <3>1. e.attributes = {} /\ e.ended = FALSE /\ e.end = 0
      BY <2>1 DEF JsonStarts
    <3>2. e.ended \in BOOLEAN
      BY <3>1, Zenon
    <3>3. e.attributes \in SUBSET Nat /\ e.end \in Nat
      BY <3>1
    <3> QED BY <3>2, <3>3
  <2>2. CASE e \in JsonRecord
    <3>1. e.attributes \in SUBSET Nat /\ e.ended = TRUE /\ e.end \in Nat
      BY <2>2 DEF JsonRecord
    <3> QED BY <3>1
  <2> QED BY <1>12, <2>1, <2>2
<1> QED BY <1>9, <1>11, <1>13

(* The calls about a span that was written. *)
LEMMA JsonAbout ==
    ASSUME JsonTypeOK, NEW s \in Spans, Written(s)
    PROVE  /\ JsonAttributeCalls(s) \in Seq(ReadCall) /\ Introduced({s}, JsonAttributeCalls(s))
           /\ NoLine(JsonAttributeCalls(s))
           /\ JsonDoneCalls(s) \in Seq(ReadCall) /\ Introduced({s}, JsonDoneCalls(s)) /\ NoLine(JsonDoneCalls(s))
<1>1. PICK D : D = [op : {"metadata", "done"}, span : {s}, time : Nat]
  OBVIOUS
<1>2. PICK e : e = LastOf(s)
  OBVIOUS
<1>3. e.attributes \in SUBSET Nat /\ IsFiniteSet(e.attributes) /\ e.ended \in BOOLEAN /\ e.end \in Nat
  BY <1>2, LastWritten
<1>4. JsonAttributeCalls(s) \in Seq(D)
  <2>1. [op : {"metadata"}, span : {s}, time : Nat] \subseteq D
    BY <1>1
  <2>2. PICK q \in Seq([op : {"metadata"}, span : {s}, time : Nat]) :
            q = SetToSeq({[op |-> "metadata", span |-> s, time |-> t] : t \in e.attributes})
    BY <1>3, AttributesRead
  <2>3. q = JsonAttributeCalls(s)
    BY <1>2, <2>2 DEF JsonAttributeCalls
  <2> HIDE <2>2
  <2>4. q \in Seq(D)
    BY <2>1, SeqWithin
  <2> QED BY <2>3, <2>4
<1>5. JsonDoneCalls(s) \in Seq(D)
  <2>1. [op |-> "done", span |-> s, time |-> e.end] \in D
    BY <1>1, <1>3
  <2>2. PICK d \in D : d = [op |-> "done", span |-> s, time |-> e.end]
    BY <2>1
  <2>3. JsonDoneCalls(s) = IF e.ended THEN <<d>> ELSE <<>>
    BY <1>2, <2>2 DEF JsonDoneCalls
  <2>4. <<d>> \in Seq(D) /\ <<>> \in Seq(D)
    <3> HIDE <2>2, <1>1
    <3> QED OBVIOUS
  <2> QED BY <2>3, <2>4
<1> QED BY <1>1, <1>4, <1>5, AboutOne
(* A line of a file is read as that line, and nothing else as one. *)
LEMMA JsonLineReads ==
    ASSUME base = "json", NEW e \in JsonEntry
    PROVE  /\ JsonLineCall(e) \in Seq(ReadCall)
           /\ IF LineIn(base, e) THEN DOMAIN JsonLineCall(e) = {1} /\ Hit(JsonLineCall(e)[1], e)
                                 ELSE NoLine(JsonLineCall(e))
           /\ \A m \in DOMAIN JsonLineCall(e) :
                 /\ JsonLineCall(e)[m].op = "line" /\ Needs(JsonLineCall(e)[m]) \subseteq Spans
                 /\ "child" \in Needs(JsonLineCall(e)[m]) => AboutIn(base, e, "child")
<1>1. CASE e.type = "line"
  <2>1. e \in JsonLn
    BY <1>1 DEF JsonEntry, JsonStarts, JsonRecord, Spans
  <2>2. PICK d \in CallLn : d = [op |-> "line", span |-> e.span, time |-> e.time,
                                 attr |-> e.attr, kind |-> e.kind, prefix |-> e.prefix]
    BY <2>1 DEF JsonLn, CallLn
  <2>3. d.op = "line" /\ d.span = e.span /\ d.time = e.time /\ e.span \in Spans
    BY <2>1, <2>2 DEF JsonLn
  <2>4. JsonLineCall(e) = <<d>>
    BY <1>1, <2>2 DEF JsonLineCall
  <2>5. <<d>> \in Seq(ReadCall) /\ DOMAIN <<d>> = {1} /\ <<d>>[1] = d
    <3> HIDE <2>2
    <3> QED BY DEF ReadCall
  <2>6. Needs(d) = {e.span} /\ Hit(d, e)
    BY <2>3 DEF Needs, Hit, SameLine
  <2>7. LineIn(base, e) /\ (e.span = "child" => AboutIn(base, e, "child"))
    BY <1>1 DEF LineIn, AboutIn
  <2> QED BY <2>3, <2>4, <2>5, <2>6, <2>7
<1>2. CASE e.type # "line"
  <2>1. JsonLineCall(e) = <<>> /\ ~LineIn(base, e)
    BY <1>2 DEF JsonLineCall, LineIn
  <2>2. <<>> \in Seq(ReadCall) /\ DOMAIN <<>> = {}
    BY EmptyDomain
  <2> QED BY <2>1, <2>2 DEF NoLine
<1> QED BY <1>1, <1>2

(* The lines of a file, each of a span that was written. *)
LEMMA JsonLinesRead ==
    ASSUME base = "json", JsonTypeOK, Sent, Told
    PROVE  /\ JsonLineCalls \in Seq(ReadCall)
           /\ Introduced({s \in Spans : Written(s)}, JsonLineCalls)
           /\ \A l \in LinesDone : OneLine(JsonLineCalls, l)
<1>1. PICK parts : parts = [i \in DOMAIN output |-> JsonLineCall(output[i])]
  OBVIOUS
<1>2. output \in Seq(JsonEntry)
  BY DEF JsonTypeOK
<1>3. DOMAIN output = 1..Len(output) /\ Len(output) \in Nat /\ \A k \in DOMAIN output : output[k] \in JsonEntry
  BY <1>2
<1>4. DOMAIN parts = DOMAIN output /\ \A k \in DOMAIN output : parts[k] = JsonLineCall(output[k])
  BY <1>1
<1>5. \A k \in DOMAIN output :
         /\ parts[k] \in Seq(ReadCall)
         /\ IF LineIn(base, output[k]) THEN DOMAIN parts[k] = {1} /\ Hit(parts[k][1], output[k]) ELSE NoLine(parts[k])
         /\ \A m \in DOMAIN parts[k] : /\ Needs(parts[k][m]) \subseteq Spans
                                       /\ "child" \in Needs(parts[k][m]) => AboutIn(base, output[k], "child")
  BY <1>3, <1>4, JsonLineReads
<1>6. parts \in Seq(Seq(ReadCall))
  BY <1>1, <1>3, <1>4, <1>5
<1>7. AllOf(parts) = JsonLineCalls
  BY <1>1 DEF JsonLineCalls
<1> HIDE <1>1
<1>8. Written("request")
  <2>1. output # <<>> /\ FirstIn(base, output[1], "request")
    BY DEF Told
  <2>2. 1 \in DOMAIN output /\ output[1].type = "request"
    BY <1>3, <2>1 DEF FirstIn
  <2> QED BY <2>2 DEF Written, RecordsOf
<1>9. ASSUME NEW k \in DOMAIN output, AboutIn(base, output[k], "child") PROVE Written("child")
  <2>1. PICK j \in 1..k - 1 : FirstIn(base, output[j], "child")
    BY <1>9 DEF Told
  <2>2. j \in DOMAIN output /\ output[j].type = "child"
    BY <1>3, <2>1 DEF FirstIn
  <2> QED BY <2>2 DEF Written, RecordsOf
<1>10. \A k \in DOMAIN parts : \A m \in DOMAIN parts[k] : \A s \in Needs(parts[k][m]) : s \in {x \in Spans : Written(x)}
  BY <1>4, <1>5, <1>8, <1>9 DEF Spans
<1>11. ASSUME NEW l \in LinesDone
       PROVE  OnePart(parts, l)
  BY <1>4, <1>5, OneOfThem
<1>12. /\ AllOf(parts) \in Seq(ReadCall) /\ Introduced({x \in Spans : Written(x)}, AllOf(parts))
       /\ \A l : OnePart(parts, l) => OneLine(AllOf(parts), l)
  <2>1. PICK S : S = {x \in Spans : Written(x)}
    OBVIOUS
  <2>2. Supplied(S, parts)
    BY <1>10, <2>1 DEF Supplied
  <2>3. /\ AllOf(parts) \in Seq(ReadCall) /\ Introduced(S, AllOf(parts))
        /\ \A l : OnePart(parts, l) => OneLine(AllOf(parts), l)
    <3> HIDE <2>1
    <3> QED BY <1>6, <2>2, Spells
  <2> QED BY <2>1, <2>3
<1> QED BY <1>7, <1>8, <1>11, <1>12

(* The sub-span of a file, if it has one. *)
LEMMA JsonSpanReads ==
    ASSUME JsonTypeOK
    PROVE  /\ JsonSpanCalls \in Seq(ReadCall) /\ Introduced({"request"}, JsonSpanCalls) /\ NoLine(JsonSpanCalls)
           /\ Written("child") => "child" \in NamedIn(JsonSpanCalls)
<1>1. CASE ~Written("child")
  <2>1. JsonSpanCalls = <<>>
    BY <1>1 DEF JsonSpanCalls
  <2>2. <<>> \in Seq(ReadCall) /\ DOMAIN <<>> = {}
    BY EmptyDomain
  <2> QED BY <1>1, <2>1, <2>2 DEF Introduced, NoLine
<1>2. CASE Written("child")
  <2>0. "child" \in Spans
    BY DEF Spans
  <2>1. PICK a \in Seq(ReadCall) : a = <<[op |-> "span", span |-> "child", parent |-> "request"]>>
    BY Introductions
  <2>2. PICK b \in Seq(ReadCall) : b = JsonAttributeCalls("child")
    BY <1>2, <2>0, JsonAbout
  <2>3. PICK c \in Seq(ReadCall) : c = JsonDoneCalls("child")
    BY <1>2, <2>0, JsonAbout
  <2>4. /\ Introduced({"request"}, a) /\ "child" \in NamedIn(a) /\ NoLine(a)
        /\ Introduced({"child"}, b) /\ NoLine(b) /\ Introduced({"child"}, c) /\ NoLine(c)
    BY <1>2, <2>0, <2>1, <2>2, <2>3, Introductions, JsonAbout
  <2>5. JsonSpanCalls = a \o b \o c
    BY <1>2, <2>1, <2>2, <2>3 DEF JsonSpanCalls
  <2> HIDE <2>1, <2>2, <2>3
  <2>6. {"child"} \in SUBSET Spans /\ \A q : "child" \in NamedIn(q) => {"child"} \subseteq {"request"} \cup NamedIn(q)
    BY <2>0
  <2>7. /\ a \o b \in Seq(ReadCall) /\ Introduced({"request"}, a \o b) /\ NoLine(a \o b)
        /\ "child" \in NamedIn(a \o b)
    BY <2>4, <2>6, Continues
  <2>8. PICK d \in Seq(ReadCall) : d = a \o b
    BY <2>7
  <2>9. Introduced({"request"}, d) /\ NoLine(d) /\ "child" \in NamedIn(d) /\ JsonSpanCalls = d \o c
    BY <2>5, <2>7, <2>8
  <2> HIDE <2>8
  <2>10. /\ d \o c \in Seq(ReadCall) /\ Introduced({"request"}, d \o c) /\ NoLine(d \o c)
         /\ "child" \in NamedIn(d \o c)
    <3>1. Introduced({"child"}, c) /\ NoLine(c) /\ {"child"} \subseteq {"request"} \cup NamedIn(d)
      BY <2>4, <2>6, <2>9
    <3>2. Introduced({"request"}, d) /\ NoLine(d) /\ "child" \in NamedIn(d) /\ {"child"} \in SUBSET Spans
      BY <2>6, <2>9
    <3>3. /\ d \o c \in Seq(ReadCall) /\ Introduced({"request"}, d \o c)
          /\ NamedIn(d) \cup NamedIn(c) \subseteq NamedIn(d \o c) /\ NoLine(d \o c)
      BY <3>1, <3>2, Continues
    <3> QED BY <3>2, <3>3
  <2> QED BY <2>9, <2>10
<1> QED BY <1>1, <1>2

(* A file: the request, its sub-span, the lines. *)
LEMMA JsonReplays ==
    ASSUME base = "json", JsonTypeOK, Sent, Told
    PROVE  /\ JsonCalls \in Seq(ReadCall) /\ Introduced({}, JsonCalls)
           /\ \A l \in LinesDone : OneLine(JsonCalls, l)
<1>0. "request" \in Spans /\ {"request"} \in SUBSET Spans
  BY DEF Spans
<1>1. Written("request")
  <2>1. output \in Seq(JsonEntry) /\ output # <<>> /\ FirstIn(base, output[1], "request")
    BY DEF Told, JsonTypeOK
  <2>2. 1 \in DOMAIN output /\ output[1].type = "request"
    BY <2>1 DEF FirstIn
  <2> QED BY <2>2 DEF Written, RecordsOf
<1>2. PICK T \in SUBSET Spans : T = {s \in Spans : Written(s)}
  OBVIOUS
<1>3. PICK a \in Seq(ReadCall) : a = <<[op |-> "request"]>>
  BY Introductions
<1>4. PICK b \in Seq(ReadCall) : b = JsonAttributeCalls("request")
  BY <1>0, <1>1, JsonAbout
<1>5. PICK c \in Seq(ReadCall) : c = JsonSpanCalls
  BY JsonSpanReads
<1>6. PICK d \in Seq(ReadCall) : d = JsonLineCalls
  BY JsonLinesRead
<1>7. PICK e \in Seq(ReadCall) : e = JsonDoneCalls("request")
  BY <1>0, <1>1, JsonAbout
<1>8. /\ Introduced({}, a) /\ "request" \in NamedIn(a) /\ NoLine(a)
      /\ Introduced({"request"}, b) /\ NoLine(b) /\ Introduced({"request"}, e) /\ NoLine(e)
  BY <1>0, <1>1, <1>3, <1>4, <1>7, Introductions, JsonAbout
<1>9. Introduced({"request"}, c) /\ NoLine(c) /\ T \subseteq {"request"} \cup NamedIn(c)
  BY <1>2, <1>5, JsonSpanReads DEF Spans
<1>10. Introduced(T, d) /\ \A l \in LinesDone : OneLine(d, l)
  BY <1>2, <1>6, JsonLinesRead
<1>11. JsonCalls = a \o b \o c \o d \o e
  BY <1>1, <1>3, <1>4, <1>5, <1>6, <1>7 DEF JsonCalls
<1> HIDE <1>2, <1>3, <1>4, <1>5, <1>6, <1>7
<1>12. PICK f \in Seq(ReadCall) : f = a \o b
  BY Joined
<1>13. Introduced({}, f) /\ "request" \in NamedIn(f) /\ NoLine(f)
  BY <1>0, <1>8, <1>12, Continues
<1>14. PICK g \in Seq(ReadCall) : g = f \o c
  BY Joined
<1>15. Introduced({}, g) /\ NoLine(g) /\ "request" \in NamedIn(g) /\ T \subseteq {} \cup NamedIn(g)
  <2>1. {"request"} \subseteq {} \cup NamedIn(f)
    BY <1>13
  <2>2. /\ Introduced({}, f \o c) /\ NoLine(f \o c) /\ NamedIn(f) \cup NamedIn(c) \subseteq NamedIn(f \o c)
    <3> HIDE <1>12, <1>14
    <3> QED BY <1>0, <1>9, <1>13, <2>1, Continues
  <2> QED BY <1>9, <1>13, <1>14, <2>2
<1>16. PICK h \in Seq(ReadCall) : h = g \o d
  BY Joined
<1>17. Introduced({}, h) /\ "request" \in NamedIn(h) /\ \A l \in LinesDone : OneLine(h, l)
  <2>1. /\ Introduced({}, g \o d) /\ NamedIn(g) \subseteq NamedIn(g \o d)
        /\ \A l : OneLine(d, l) => OneLine(g \o d, l)
    <3> HIDE <1>12, <1>14, <1>16
    <3> QED BY <1>10, <1>15, Continues
  <2> QED BY <1>10, <1>15, <1>16, <2>1
<1>18. /\ h \o e \in Seq(ReadCall) /\ Introduced({}, h \o e)
       /\ \A l \in LinesDone : OneLine(h \o e, l)
  <2>1. {"request"} \subseteq {} \cup NamedIn(h)
    BY <1>17
  <2> HIDE <1>12, <1>14, <1>16
  <2> QED BY <1>0, <1>8, <1>17, <2>1, Continues
<1>19. JsonCalls = h \o e
  BY <1>11, <1>12, <1>14, <1>16
<1> QED BY <1>18, <1>19

(* What was written until any moment replays with every line that was handed
   over, once, and the lines of protobuf have their span. *)
THEOREM AlwaysReadable == Spec => []ReadableAnytime
<1>1. ASSUME StorageInv, Streaming
      PROVE  \E c \in Seq(ReadCall) : /\ Replayed = Recording(c) /\ Introduced({}, c)
                                      /\ \A l \in LinesDone : OneLine(c, l)
  <2>1. CASE base = "recorder"
    <3>1. Replayed = Recording(RecorderCalls)
      BY <2>1 DEF Replayed
    <3>2. RecorderTypeOK /\ Sent /\ Told
      BY <1>1, <2>1 DEF StorageInv, RecorderInv
    <3>3. /\ RecorderCalls \in Seq(ReadCall) /\ Introduced({}, RecorderCalls)
          /\ \A l \in LinesDone : OneLine(RecorderCalls, l)
      BY <2>1, <3>2, RecorderReplays
    <3> QED BY <3>1, <3>3
  <2>2. CASE base = "console"
    <3>1. Replayed = Recording(ConsoleReadCalls)
      BY <2>2 DEF Replayed
    <3>2. ConsoleTypeOK /\ Sent /\ Told
      BY <1>1, <2>2 DEF StorageInv, ConsoleInv
    <3>3. /\ ConsoleReadCalls \in Seq(ReadCall) /\ Introduced({}, ConsoleReadCalls)
          /\ \A l \in LinesDone : OneLine(ConsoleReadCalls, l)
      BY <2>2, <3>2, ConsoleReplays
    <3> QED BY <3>1, <3>3
  <2>3. CASE base = "json"
    <3>1. Replayed = Recording(JsonCalls)
      BY <2>3 DEF Replayed
    <3>2. spanStarts
      BY <1>1, <2>3 DEF Streaming
    <3>3. JsonTypeOK /\ Sent /\ Told
      BY <1>1, <2>3, <3>2 DEF StorageInv, JsonInv
    <3>4. /\ JsonCalls \in Seq(ReadCall) /\ Introduced({}, JsonCalls)
          /\ \A l \in LinesDone : OneLine(JsonCalls, l)
      BY <2>3, <3>3, JsonReplays
    <3> QED BY <3>1, <3>4
  <2> QED BY <1>1, <2>1, <2>2, <2>3 DEF Streaming
<1>2. ASSUME StorageInv, Streaming
      PROVE  /\ ~Replayed.error
             /\ \A l \in lines : Cardinality({i \in DOMAIN Replayed.lines : /\ Replayed.lines[i].time = l.time
                                                                            /\ Replayed.lines[i].span = l.span}) = 1
  <2>1. PICK c \in Seq(ReadCall) : /\ Replayed = Recording(c) /\ Introduced({}, c)
                                   /\ \A l \in LinesDone : OneLine(c, l)
    BY <1>1, <1>2
  <2>2. /\ ~Replayed.error
        /\ \A l : OneLine(c, l) => \E m \in DOMAIN Replayed.lines :
              \A k \in DOMAIN Replayed.lines : SameLine(Replayed.lines[k], l) <=> k = m
    BY <2>1, Reads
  <2>3. ASSUME NEW l \in lines
        PROVE  Cardinality({i \in DOMAIN Replayed.lines : /\ Replayed.lines[i].time = l.time
                                                          /\ Replayed.lines[i].span = l.span}) = 1
    <3>1. l \in LinesDone
      BY DEF LinesDone
    <3>2. PICK m \in DOMAIN Replayed.lines :
              \A k \in DOMAIN Replayed.lines : SameLine(Replayed.lines[k], l) <=> k = m
      BY <2>1, <2>2, <3>1
    <3>3. {i \in DOMAIN Replayed.lines : /\ Replayed.lines[i].time = l.time
                                         /\ Replayed.lines[i].span = l.span} = {m}
      BY <3>2 DEF SameLine
    <3> QED BY <3>3, FS_Singleton
  <2> QED BY <2>2, <2>3
<1>3. ASSUME StorageInv, Orphaned PROVE raced
  <2> SUFFICES ASSUME ~raced PROVE FALSE
    OBVIOUS
  <2>0. PICK i \in DOMAIN output : \E l \in ToSet(output[i].lines) :
            base = "pb" /\ l.span = "child" /\ output[i].children = <<>> /\ SeenBefore(i, "child") = {}
    BY <1>3 DEF Orphaned
  <2>1. PICK l \in ToSet(output[i].lines) :
            base = "pb" /\ l.span = "child" /\ output[i].children = <<>> /\ SeenBefore(i, "child") = {}
    BY <2>0
  <2>2. PICK k \in DOMAIN output[i].lines : output[i].lines[k].span = "child"
    BY <2>1 DEF ToSet
  <2>3. PICK j \in 1..i : output[j].children # <<>>
    BY <1>3, <2>1, <2>2 DEF StorageInv, PbInv, NoOrphans, PbInOrder
  <2>4. output \in Seq(PbChunk)
    BY <1>3, <2>1 DEF StorageInv, PbInv, PbTypeOK
  <2>5. i \in Nat /\ j \in 1..i - 1 /\ output[j] \in PbChunk
    BY <2>1, <2>3, <2>4
  <2>6. output[j].children \in Seq(Endeds)
    BY <2>5 DEF PbChunk
  <2>7. output[j].children[1] \in ToSet(output[j].children)
    BY <2>3, <2>6 DEF ToSet
  <2>8. output[j].children[1].ver \in SeenBefore(i, "child")
    BY <2>5, <2>7 DEF SeenBefore
  <2> QED BY <2>1, <2>8
<1>4. StorageInv => ReadableAnytime
  BY <1>2, <1>3 DEF ReadableAnytime
<1> QED BY StorageInvariant, <1>4, PTL
=============================================================================
