--------------------------- MODULE RequestCounter ---------------------------
(***************************************************************************)
(* xoputil/counter.go: the numbers of traces and of requests are handed    *)
(* out lazily and without a common lock.  Whoever stores the entry of a    *)
(* new trace in the map holds the entry's mutex until the number is set;   *)
(* whoever finds an entry without a number waits for that mutex.           *)
(*                                                                         *)
(* The code does the same twice, for the trace and for the request in the  *)
(* trace: level says which of the two a goroutine is doing.  An action is  *)
(* one access to a shared variable.                                        *)
(***************************************************************************)
EXTENDS Integers

CONSTANTS Procs, Traces, Spans, NoSpan, All, Nobody

ASSUME RequestCounterAssumption == NoSpan \notin Spans /\ All \notin Traces /\ Nobody \notin Procs

VARIABLES
    at,      \* where each goroutine is in GetNumber
    level,   \* 1: numbering the trace, 2: numbering the request
    call,    \* the trace and the span that GetNumber was called with
    fetched, \* what atomic.AddInt32 returned
    isNew,   \* this call stored the request (the local variable loaded is false)
    answer,  \* what the last call returned, no numbers while there is none
    stored,  \* keys of traceMap and of the requestMaps
    lock,    \* holder of the mutex of each entry
    number,  \* traceNum and requestNum
    count,   \* traceCount, and requestCount of each trace
    told     \* history: requests that were reported as new

N == INSTANCE Numbering WITH
       busy     <- {p \in Procs : at[p] # "idle"},
       assigned <- [k \in Traces \X (Spans \cup {NoSpan}) |->
                      IF lock[k] \in Procs /\ at[lock[k]] = "set"
                      THEN fetched[lock[k]] ELSE number[k]]

local  == <<at, level, call, fetched, isNew, answer>>
shared == <<stored, lock, number, count>>
vars   == <<local, shared, told>>

Places == {"idle", "load", "store", "count", "set", "unlock", "check", "wait", "return"}
Owns   == {"count", "set", "unlock"}

Key(p)     == <<call[p].trace, IF level[p] = 1 THEN NoSpan ELSE call[p].span>>
Go(p, pl)  == at' = [at EXCEPT ![p] = pl]

Init ==
    /\ at = [p \in Procs |-> "idle"] /\ level = [p \in Procs |-> 1]
    /\ \E c \in N!Calls : call = [p \in Procs |-> c]
    /\ fetched = [p \in Procs |-> 0] /\ isNew = [p \in Procs |-> FALSE]
    /\ answer = [p \in Procs |-> N!NoAnswer]
    /\ stored = {} /\ lock = [k \in N!Keys |-> Nobody]
    /\ number = [k \in N!Keys |-> 0] /\ count = [c \in N!Counters |-> 0]
    /\ told = {}

GetNumber(p, c) ==
    /\ at[p] = "idle"
    /\ Go(p, "load")
    /\ call' = [call EXCEPT ![p] = c]
    /\ answer' = [answer EXCEPT ![p] = N!NoAnswer]
    /\ UNCHANGED <<level, fetched, isNew, shared, told>>

Load(p) ==
    /\ at[p] = "load"
    /\ Go(p, IF Key(p) \in stored THEN "check" ELSE "store")
    /\ UNCHANGED <<level, call, fetched, isNew, answer, shared, told>>

(* Faults: the new entry is stored unlocked; the entry replaces another. *)
StoreUnlocked(p) ==
    /\ at[p] = "store"
    /\ stored' = stored \cup {Key(p)}
    /\ Go(p, IF Key(p) \in stored THEN "check" ELSE "count")
    /\ isNew' = [isNew EXCEPT ![p] = level[p] = 2 /\ Key(p) \notin stored]
    /\ UNCHANGED <<level, call, fetched, answer, lock, number, count, told>>
StoreOver(p) ==
    /\ at[p] = "store"
    /\ stored' = stored \cup {Key(p)}
    /\ lock' = [lock EXCEPT ![Key(p)] = p]
    /\ Go(p, "count")
    /\ isNew' = [isNew EXCEPT ![p] = level[p] = 2]
    /\ UNCHANGED <<level, call, fetched, answer, number, count, told>>

(* The new entry is locked before LoadOrStore offers it to the others. *)
Store(p) ==
    /\ at[p] = "store"
    /\ IF Key(p) \in stored
       THEN Go(p, "check") /\ UNCHANGED <<isNew, stored, lock>>
       ELSE /\ stored' = stored \cup {Key(p)}
            /\ lock' = [lock EXCEPT ![Key(p)] = p]
            /\ Go(p, "count")
            /\ isNew' = [isNew EXCEPT ![p] = level[p] = 2]
    /\ UNCHANGED <<level, call, fetched, answer, number, count, told>>

(* Fault: the number is computed from the counter, which stays as it is. *)
CountUnchanged(p) ==
    /\ at[p] = "count"
    /\ fetched' = [fetched EXCEPT ![p] = count[N!CounterOf(Key(p))] + 1]
    /\ Go(p, "set")
    /\ UNCHANGED <<level, call, isNew, answer, shared, told>>

Count(p) ==
    /\ at[p] = "count"
    /\ LET c == N!CounterOf(Key(p)) IN
         /\ count' = [count EXCEPT ![c] = @ + 1]
         /\ fetched' = [fetched EXCEPT ![p] = count[c] + 1]
    /\ Go(p, "set")
    /\ UNCHANGED <<level, call, isNew, answer, stored, lock, number, told>>

Set(p) ==
    /\ at[p] = "set"
    /\ number' = [number EXCEPT ![Key(p)] = fetched[p]]
    /\ fetched' = [fetched EXCEPT ![p] = 0]
    /\ Go(p, "unlock")
    /\ UNCHANGED <<level, call, isNew, answer, stored, lock, count, told>>

(* Fault: the mutex of the entry stays locked. *)
UnlockForgotten(p) ==
    /\ at[p] = "unlock"
    /\ Go(p, "check")
    /\ UNCHANGED <<level, call, fetched, isNew, answer, shared, told>>

Unlock(p) ==
    /\ at[p] = "unlock"
    /\ lock' = [lock EXCEPT ![Key(p)] = Nobody]
    /\ Go(p, "check")
    /\ UNCHANGED <<level, call, fetched, isNew, answer, stored, number, count, told>>

(* On to the request, or to the result. *)
Advance(p) ==
    /\ Go(p, IF level[p] = 1 THEN "load" ELSE "return")
    /\ level' = [level EXCEPT ![p] = 2]

Check(p) ==
    /\ at[p] = "check"
    /\ IF number[Key(p)] = 0 THEN Go(p, "wait") /\ UNCHANGED level ELSE Advance(p)
    /\ UNCHANGED <<call, fetched, isNew, answer, shared, told>>

(* Lock() and Unlock() with nothing in between. *)
Wait(p) ==
    /\ at[p] = "wait" /\ lock[Key(p)] = Nobody
    /\ Advance(p)
    /\ UNCHANGED <<call, fetched, isNew, answer, shared, told>>

(* The two numbers are loaded again; once set they never change. *)
Return(p) ==
    /\ at[p] = "return"
    /\ answer' = [answer EXCEPT ![p] =
                    [trace |-> number[N!TraceKey(call[p].trace)],
                     request |-> number[Key(p)], isNew |-> isNew[p]]]
    /\ told' = IF isNew[p] THEN told \cup {Key(p)} ELSE told
    /\ isNew' = [isNew EXCEPT ![p] = FALSE]
    /\ level' = [level EXCEPT ![p] = 1]
    /\ Go(p, "idle")
    /\ UNCHANGED <<call, fetched, shared>>

Step(p) ==
    \/ Load(p) \/ Store(p) \/ Count(p) \/ Set(p) \/ Unlock(p)
    \/ Check(p) \/ Wait(p) \/ Return(p)

Next == \E p \in Procs : Step(p) \/ \E c \in N!Calls : GetNumber(p, c)

Spec     == Init /\ [][Next]_vars
(* Goroutines are scheduled, and a sync.Mutex that is freed again and again *)
(* does not starve a waiter.                                               *)
FairSpec == Spec /\ \A p \in Procs : SF_vars(Step(p))

-----------------------------------------------------------------------------
(* Type correctness of the maps, the mutexes, the counters and the calls. *)
TypeOK ==
    /\ at \in [Procs -> Places] /\ level \in [Procs -> {1, 2}]
    /\ call \in [Procs -> N!Calls] /\ fetched \in [Procs -> Nat]
    /\ isNew \in [Procs -> BOOLEAN] /\ answer \in [Procs -> N!Answers]
    /\ stored \subseteq N!Keys /\ lock \in [N!Keys -> Procs \cup {Nobody}]
    /\ number \in [N!Keys -> Nat] /\ count \in [N!Counters -> Nat]
    /\ told \subseteq N!Keys

(* The mutex of an entry is held exactly by the goroutine that stored it   *)
(* and has not set its number: "unlocked only if !loaded" (counter.go:39). *)
Ownership ==
    /\ \A p \in Procs : at[p] \in Owns => lock[Key(p)] = p
    /\ \A k \in N!Keys : lock[k] \in Procs => at[lock[k]] \in Owns /\ Key(lock[k]) = k

(* An entry without a number is locked until it has one. *)
Settled ==
    /\ \A k \in N!Keys :
         /\ number[k] # 0 => k \in stored
         /\ lock[k] # Nobody => k \in stored
         /\ k \in stored /\ lock[k] = Nobody => number[k] # 0
         /\ lock[k] \in Procs => (number[k] # 0 <=> at[lock[k]] = "unlock")
    /\ \A p \in Procs : at[p] = "set" => fetched[p] # 0

(* No goroutine gets past an entry whose number it would read as 0, "a     *)
(* reader of this value could get zero" (counter.go:42).                   *)
Past ==
    \A p \in Procs :
        /\ at[p] # "idle" /\ level[p] = 2 => number[N!TraceKey(call[p].trace)] # 0
        /\ at[p] = "return" => level[p] = 2 /\ number[Key(p)] # 0
        /\ at[p] \in {"check", "wait"} => Key(p) \in stored
        /\ at[p] = "idle" => level[p] = 1

(* Only the goroutine that stored a request is going to report it as new. *)
Newness ==
    /\ told \subseteq stored
    /\ \A p \in Procs : isNew[p] =>
         /\ at[p] \in Owns \cup {"check", "wait", "return"} /\ level[p] = 2
         /\ Key(p) \in stored \ told
         /\ \A q \in Procs : isNew[q] /\ Key(q) = Key(p) => q = p

CounterInv == TypeOK /\ Ownership /\ Settled /\ Past /\ Newness

(* Every caller is answered with a trace number and a request number as    *)
(* Numbering has it: numbers are given out once, never change, and one     *)
(* caller at most hears that a request is new.                             *)
Numbered == N!Spec

(* Different traces get different numbers, and so do the requests of a     *)
(* trace: no two entries of a counter ever share a number.                 *)
Distinct ==
    \A j, k \in N!Keys :
        N!CounterOf(j) = N!CounterOf(k) /\ number[j] = number[k] /\ number[j] # 0 => j = k

(* Every call of GetNumber returns. *)
CallsReturn == \A p \in Procs : at[p] # "idle" ~> at[p] = "idle"
=============================================================================
