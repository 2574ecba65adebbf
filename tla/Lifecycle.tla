----------------------------- MODULE Lifecycle -----------------------------
(***************************************************************************)
(* The life of the loggers of one request: logger.go.  A request owns a    *)
(* tree of spans; every span knows the dependents that are still active,   *)
(* Done() cascades down that tree, activity climbs up it, and a flush      *)
(* timer, Flush() and Done() race to hand the buffered data to the base    *)
(* logger.                                                                 *)
(*                                                                         *)
(* Every goroutine has a stack of calls in progress.  A call is a task     *)
(* [op, lg, flag]; one step of a goroutine runs the task on top of its     *)
(* stack up to and including one access to shared memory (an atomic        *)
(* operation, a critical section, a timer operation, a call of the base    *)
(* logger) and replaces it by the tasks that the call still has to do.     *)
(* What the user may ask for is given by the constants, so that one module *)
(* serves well behaved programs and careless ones.                         *)
(***************************************************************************)
EXTENDS Integers, Sequences, FiniteSets

CONSTANTS
    Users,        \* goroutines of the program that log
    Flushers,     \* goroutines for timer callbacks and asynchronous flushes
    MaxLoggers,   \* bound: loggers made besides the request's own
    MaxOps,       \* bound: calls the user goroutines make in all
    UserOps,      \* which calls the program makes
    AfterDoneOps, \* which of them it also makes on loggers that are finished
    Joined,       \* Done() waits for the other goroutines using the subtree
    Buffered,     \* some base logger is buffered, so the timer is started
    MaxExpiries,  \* bound: times FlushDelay passes while the program runs
    SyncFlush     \* settings.synchronousFlushWhenDone

AllUserOps == {"fork", "detach", "sub", "info", "error", "boring", "done", "flush"}

ASSUME LifecycleAssumption ==
    /\ MaxLoggers \in Nat /\ MaxOps \in Nat /\ MaxExpiries \in Nat
    /\ Users \cap Flushers = {}
    /\ UserOps \subseteq AllUserOps
    /\ AfterDoneOps \subseteq UserOps
    /\ Joined \in BOOLEAN /\ Buffered \in BOOLEAN /\ SyncFlush \in BOOLEAN

Request == 0
Loggers == 0 .. MaxLoggers
Procs   == Users \cup Flushers

(* A span is named by the logger that created it: Sub().Logger() makes a   *)
(* logger without a span of its own.                                       *)
Info == [parent : Loggers, span : Loggers, detached : BOOLEAN,
         nonSpan : BOOLEAN, cover : SUBSET Loggers]

Ops == {"newChildLog", "return", "Error", "notBoring", "Boring", "Msg", "hasActivity",
        "addMyselfAsDependent", "restartTimer", "Reset", "wasDone",
        "done", "doneCount", "baseDone", "dependents", "retire",
        "Flush", "recursiveDone", "FlushLock", "Stop", "FlushActive",
        "baseFlush", "FlushUnlock"}

Task == [op : Ops, lg : Loggers, flag : BOOLEAN]

Alarms == {"used again", "done twice", "sub-logger done"}

VARIABLES
    stack,          \* Procs -> Seq(Task): the calls in progress, innermost first
    spawned,        \* goroutines started for a flush that have not run yet
    made,           \* LogCount: loggers made besides the request's own
    info,           \* the immutable fields of each logger
    knownActive,    \* spans whose knownActive is 1
    doneCount,      \* span.doneCount, saturating at 2
    dependents,     \* span.activeDependents
    notBoring,      \* spans whose boring count is positive
    activeDetached, \* shared.ActiveDetached
    waiting,        \* shared.WaitingForDetached
    flushActive,    \* shared.FlushActive
    armed,          \* shared.FlushTimer is running
    flushLock,      \* shared.FlushLock is held
    dirty,          \* base: spans with data that no base Flush() has taken
    held,           \* base: spans with lines of the program among that data
    undated,        \* base: spans with lines later than their last base Done()
    final,          \* base: spans whose base Done() was called with final
    ops,            \* history: calls the user goroutines have made
    live,           \* history: loggers returned to the user
    asked,          \* history: spans on which the user called Done()
    alarms,         \* history: complaints that the loggers logged
    expiries        \* history: times the timer expired

control  == <<stack, spawned>>
tree     == <<made, info>>
spans    == <<knownActive, doneCount, dependents, notBoring>>
shared   == <<activeDetached, waiting, flushActive, armed, flushLock>>
base     == <<dirty, held, undated, final>>
history  == <<ops, live, asked, alarms, expiries>>
vars     == <<control, tree, spans, shared, base, history>>

-----------------------------------------------------------------------------
SpanOf(l)   == info[l].span
Parent(l)   == info[l].parent
Detached(l) == info[SpanOf(l)].detached

(* The maps activeDependents and ActiveDetached are keyed by logNumber,    *)
(* which belongs to the span: a logger replaces, and removes, any other    *)
(* logger of its span.                                                     *)
Without(S, l) == {d \in S : SpanOf(d) # SpanOf(l)}
With(S, l)    == Without(S, l) \cup {l}

(* The orders in which a Go map of dependents can be walked. *)
Orders(S) == {o \in [1 .. Cardinality(S) -> S] :
                 \A i, j \in 1 .. Cardinality(S) : i # j => o[i] # o[j]}

T(op, l, flag)     == [op |-> op, lg |-> l, flag |-> flag]
Each(op, order, flag) == [i \in DOMAIN order |-> T(op, order[i], flag)]
When(cond, tasks)  == IF cond THEN tasks ELSE <<>>

Top(p)             == Head(stack[p])
Runs(p, op)        == stack[p] # <<>> /\ Top(p).op = op
Continue(p, tasks) == stack' = [stack EXCEPT ![p] = tasks \o Tail(@)]

Idle(p)   == stack[p] = <<>>
Quiescent == spawned = 0 /\ \A p \in Procs : Idle(p)

(* A logger is finished when Done() was called on it or on an ancestor up  *)
(* to the top-level logger (request or detached) it belongs to.            *)
Finished(l) == info[l].cover \cap asked # {}

Born(l, p, s, det, non, cov) ==
    [info EXCEPT ![l] = [parent |-> p, span |-> s, detached |-> det,
                         nonSpan |-> non, cover |-> cov]]

Init ==
    /\ stack = [p \in Procs |-> <<>>]
    /\ spawned = 0
    /\ made = 0
    /\ info = [l \in Loggers |-> [parent |-> Request, span |-> l, detached |-> FALSE,
                                  nonSpan |-> FALSE, cover |-> {Request}]]
    /\ knownActive = {Request}
    /\ doneCount = [l \in Loggers |-> 0]
    /\ dependents = [l \in Loggers |-> {}]
    /\ notBoring = {}
    /\ activeDetached = {}
    /\ waiting = FALSE
    /\ flushActive = Buffered
    /\ armed = Buffered
    /\ flushLock = FALSE
    /\ dirty = {Request} /\ held = {} /\ undated = {} /\ final = {}
    /\ ops = 0 /\ live = {Request} /\ asked = {} /\ alarms = {} /\ expiries = 0

-----------------------------------------------------------------------------
(* Calls of the program.  A goroutine without a call in progress makes one *)
(* on a logger it may use.                                                 *)
Call(p, op, l, tasks) ==
    /\ op \in UserOps /\ ops < MaxOps
    /\ l \in live /\ (Finished(l) => op \in AfterDoneOps)
    /\ Idle(p)
    /\ ops' = ops + 1
    /\ stack' = [stack EXCEPT ![p] = tasks]

(* Fault: LogCount is incremented once for the number and once for the span. *)
ForkCountsTwice(p, l, detach) ==
    /\ made < MaxLoggers
    /\ LET n == made + 1 IN
         /\ Call(p, IF detach THEN "detach" ELSE "fork", l,
                 <<T("newChildLog", n, FALSE), T("return", n, FALSE)>>)
         /\ made' = n + 1
         /\ info' = Born(n, l, n, detach, FALSE,
                         IF detach THEN {n} ELSE info[l].cover \cup {n})
         /\ knownActive' = knownActive \cup {n}
         /\ dirty' = dirty \cup {n}
    /\ UNCHANGED <<spawned, doneCount, dependents, notBoring, shared, held, undated, final,
                   live, asked, alarms, expiries>>

(* Sub().Fork(), Sub().Step(): LogCount++ and the base span, up to the     *)
(* registration of the new logger.                                         *)
Fork(p, l, detach) ==
    /\ made < MaxLoggers
    /\ LET n == made + 1 IN
         /\ Call(p, IF detach THEN "detach" ELSE "fork", l,
                 <<T("newChildLog", n, FALSE), T("return", n, FALSE)>>)
         /\ made' = n
         /\ info' = Born(n, l, n, detach, FALSE,
                         IF detach THEN {n} ELSE info[l].cover \cup {n})
         /\ knownActive' = knownActive \cup {n}
         /\ dirty' = dirty \cup {n}
    /\ UNCHANGED <<spawned, doneCount, dependents, notBoring, shared, held, undated, final,
                   live, asked, alarms, expiries>>

(* Sub().Logger(): a logger that shares the span of l. *)
SubLogger(p, l) ==
    /\ made < MaxLoggers
    /\ LET n == made + 1 IN
         /\ Call(p, "sub", l, <<T("hasActivity", n, FALSE), T("return", n, FALSE)>>)
         /\ made' = n
         /\ info' = Born(n, Parent(l), SpanOf(l), FALSE, TRUE, info[l].cover)
    /\ UNCHANGED <<spawned, spans, shared, base, live, asked, alarms, expiries>>

Log(p, l) ==
    /\ \/ Call(p, "info", l, <<T("Msg", l, TRUE)>>)
       \/ Call(p, "error", l, <<T("Error", l, TRUE)>>)
       \/ Call(p, "boring", l, <<T("Boring", l, FALSE)>>)
    /\ UNCHANGED <<spawned, tree, spans, shared, base, live, asked, alarms, expiries>>

(* Nobody else is inside a call on a logger that Done() on l finishes; the *)
(* calls that make a logger are calls on its parent.                       *)
Alone(p, l) ==
    \A q \in Users \ {p} : \A i \in DOMAIN stack[q] :
        LET m == stack[q][i].lg IN
          /\ SpanOf(l) \notin info[m].cover
          /\ stack[q][i].op = "return" => SpanOf(l) \notin info[Parent(m)].cover

Done(p, l) ==
    /\ Joined => Alone(p, l)
    /\ IF info[l].nonSpan
       THEN /\ Call(p, "done", l, <<T("Error", l, FALSE)>>)
            /\ alarms' = alarms \cup {"sub-logger done"}
            /\ UNCHANGED asked
       ELSE /\ Call(p, "done", l, <<T("done", l, TRUE)>>)
            /\ asked' = asked \cup {SpanOf(l)}
            /\ UNCHANGED alarms
    /\ UNCHANGED <<spawned, tree, spans, shared, base, live, expiries>>

UserFlush(p, l) ==
    /\ Call(p, "flush", l, <<T("Flush", Request, FALSE)>>)
    /\ UNCHANGED <<spawned, tree, spans, shared, base, live, asked, alarms, expiries>>

-----------------------------------------------------------------------------
(* Fault: detached loggers register as dependents. *)
RegisterDetachedToo(l) ==
    /\ dependents' = [dependents EXCEPT ![SpanOf(Parent(l))] = With(@, l)]
    /\ UNCHANGED activeDetached

(* newChildLog registers the new span and ignores what that reports. *)
Register(l) ==
    IF Detached(l)
    THEN activeDetached' = With(activeDetached, l) /\ UNCHANGED dependents
    ELSE /\ dependents' = [dependents EXCEPT ![SpanOf(Parent(l))] = With(@, l)]
         /\ UNCHANGED activeDetached

(* Fault: the new logger is not registered. *)
NewChildLogUnregistered(p) ==
    /\ Runs(p, "newChildLog")
    /\ Continue(p, <<>>)
    /\ UNCHANGED <<spawned, tree, spans, shared, base, history>>

NewChildLog(p) ==
    /\ Runs(p, "newChildLog")
    /\ Register(Top(p).lg)
    /\ Continue(p, <<>>)
    /\ UNCHANGED <<spawned, tree, knownActive, doneCount, notBoring, waiting, flushActive,
                   armed, flushLock, base, history>>

Return(p) ==
    /\ Runs(p, "return")
    /\ live' = live \cup {Top(p).lg}
    /\ Continue(p, <<>>)
    /\ UNCHANGED <<spawned, tree, spans, shared, base, ops, asked, alarms, expiries>>

(* Error() marks the span as not boring, the first time also the request   *)
(* and with hasActivity, and starts a line.                                *)
Error(p) ==
    /\ Runs(p, "Error")
    /\ LET l == Top(p).lg IN
         /\ notBoring' = notBoring \cup {SpanOf(l)}
         /\ Continue(p, When(SpanOf(l) \notin notBoring, <<T("notBoring", l, FALSE),
                                                           T("hasActivity", l, TRUE)>>)
                        \o <<T("Msg", l, Top(p).flag)>>)
    /\ UNCHANGED <<spawned, tree, knownActive, doneCount, dependents, shared, base, history>>

NotBoring(p) ==
    /\ Runs(p, "notBoring")
    /\ notBoring' = notBoring \cup {Request}
    /\ Continue(p, <<>>)
    /\ UNCHANGED <<spawned, tree, knownActive, doneCount, dependents, shared, base, history>>

(* Boring() is activity without a line (module Boring has what it tells    *)
(* the base).                                                              *)
Boring(p) ==
    /\ Runs(p, "Boring")
    /\ Continue(p, When(Request \notin notBoring, <<T("hasActivity", Top(p).lg, TRUE)>>))
    /\ UNCHANGED <<spawned, tree, spans, shared, base, history>>

(* The base logger gets the line before the loggers learn of the activity; *)
(* flag: a line of the program, not a complaint of the logger.             *)
Msg(p) ==
    /\ Runs(p, "Msg")
    /\ LET l == Top(p).lg IN
         /\ dirty' = dirty \cup {SpanOf(l)}
         /\ undated' = undated \cup {SpanOf(l)}
         /\ held' = IF Top(p).flag THEN held \cup {SpanOf(l)} ELSE held
         /\ Continue(p, <<T("hasActivity", l, TRUE)>>)
    /\ UNCHANGED <<spawned, tree, spans, shared, final, history>>

(* flag: startFlusher *)
HasActivity(p) ==
    /\ Runs(p, "hasActivity")
    /\ LET l == Top(p).lg IN
         /\ knownActive' = knownActive \cup {SpanOf(l)}
         /\ Continue(p, When(SpanOf(l) \notin knownActive,
                             When(l # Request, <<T("addMyselfAsDependent", l, TRUE)>>)
                             \o When(Top(p).flag, <<T("restartTimer", l, FALSE),
                                                    T("wasDone", l, FALSE),
                                                    T("done", l, FALSE)>>)))
    /\ UNCHANGED <<spawned, tree, doneCount, dependents, notBoring, shared, base, history>>

(* The first active dependent makes its parent active too. *)
AddMyselfAsDependent(p) ==
    /\ Runs(p, "addMyselfAsDependent")
    /\ LET l == Top(p).lg IN
         /\ Register(l)
         /\ Continue(p, When(~Detached(l) /\ dependents'[SpanOf(Parent(l))] = {l},
                             <<T("hasActivity", Parent(l), FALSE)>>))
    /\ UNCHANGED <<spawned, tree, knownActive, doneCount, notBoring, waiting, flushActive,
                   armed, flushLock, base, history>>

RestartTimer(p) ==
    /\ Runs(p, "restartTimer")
    /\ flushActive' = TRUE
    /\ Continue(p, When(~flushActive, <<T("Reset", Top(p).lg, FALSE)>>))
    /\ UNCHANGED <<spawned, tree, spans, activeDetached, waiting, armed, flushLock, base,
                   history>>

Reset(p) ==
    /\ Runs(p, "Reset")
    /\ armed' = TRUE
    /\ Continue(p, <<>>)
    /\ UNCHANGED <<spawned, tree, spans, activeDetached, waiting, flushActive, flushLock,
                   base, history>>

WasDone(p) ==
    /\ Runs(p, "wasDone")
    /\ LET l == Top(p).lg
           again == doneCount[SpanOf(l)] # 0 IN
         /\ alarms' = IF again THEN alarms \cup {"used again"} ELSE alarms
         /\ Continue(p, When(again, <<T("Error", l, FALSE)>>))
    /\ UNCHANGED <<spawned, tree, spans, shared, base, ops, live, asked, expiries>>

-----------------------------------------------------------------------------
(* Faults: Done() leaves knownActive set; the base is not told of Done(). *)
DoneStartKeepsActive(p) ==
    /\ Runs(p, "done")
    /\ Continue(p, <<T("doneCount", Top(p).lg, Top(p).flag)>>)
    /\ UNCHANGED <<spawned, tree, spans, shared, base, history>>

DoneCountWithoutBase(p) ==
    /\ Runs(p, "doneCount")
    /\ LET l == Top(p).lg IN
         /\ doneCount' = [doneCount EXCEPT ![SpanOf(l)] = IF @ = 0 THEN 1 ELSE 2]
         /\ Continue(p, <<T("dependents", l, TRUE), T("retire", l, FALSE)>>)
    /\ UNCHANGED <<spawned, tree, knownActive, dependents, notBoring, shared, base, history>>

(* done(explicit): recursiveDone(true), in three accesses, then the        *)
(* complaint about a second Done(), then the end of done().                *)
DoneStart(p) ==
    /\ Runs(p, "done")
    /\ LET l == Top(p).lg IN
         /\ knownActive' = knownActive \ {SpanOf(l)}
         /\ Continue(p, <<T("doneCount", l, Top(p).flag)>>)
    /\ UNCHANGED <<spawned, tree, doneCount, dependents, notBoring, shared, base, history>>

DoneCount(p) ==
    /\ Runs(p, "doneCount")
    /\ LET l == Top(p).lg
           twice == doneCount[SpanOf(l)] # 0 /\ Top(p).flag IN
         /\ doneCount' = [doneCount EXCEPT ![SpanOf(l)] = IF @ = 0 THEN 1 ELSE 2]
         /\ alarms' = IF twice THEN alarms \cup {"done twice"} ELSE alarms
         /\ Continue(p, <<T("baseDone", l, TRUE), T("dependents", l, TRUE)>>
                        \o When(twice, <<T("Error", l, FALSE)>>)
                        \o <<T("retire", l, FALSE)>>)
    /\ UNCHANGED <<spawned, tree, knownActive, dependents, notBoring, shared, base, ops,
                   live, asked, expiries>>

(* flag: final *)
BaseDone(p) ==
    /\ Runs(p, "baseDone")
    /\ LET s == SpanOf(Top(p).lg) IN
         /\ dirty' = dirty \cup {s}
         /\ undated' = undated \ {s}
         /\ final' = IF Top(p).flag THEN final \cup {s} ELSE final
    /\ Continue(p, <<>>)
    /\ UNCHANGED <<spawned, tree, spans, shared, held, history>>

(* The dependents of the span, copied under dependentLock; flag: explicit. *)
Dependents(p) ==
    /\ Runs(p, "dependents")
    /\ \E order \in Orders(dependents[SpanOf(Top(p).lg)]) :
         Continue(p, Each("done", order, Top(p).flag))
    /\ UNCHANGED <<spawned, tree, spans, shared, base, history>>

(* request.flush() *)
FlushTasks == When(SyncFlush, <<T("Flush", Request, FALSE)>>)
Spawn      == IF SyncFlush THEN spawned ELSE spawned + 1

(* Faults: a waiting request is not woken, or woken again and again; the   *)
(* request does not wait for detached loggers, or forgets that it waits;   *)
(* a finished dependent stays listed.                                      *)
RetireDetachedStaysWaiting(p, l) ==
    LET left == Without(activeDetached, l)
        wake == waiting /\ left = {} /\ dependents[Request] = {} IN
      /\ activeDetached' = left
      /\ spawned' = IF wake THEN Spawn ELSE spawned
      /\ Continue(p, When(wake, FlushTasks))
      /\ UNCHANGED <<dependents, waiting>>
RetireRequestForgets(p) ==
    LET ready == dependents[Request] = {} /\ activeDetached = {} IN
      /\ spawned' = IF ready THEN Spawn ELSE spawned
      /\ Continue(p, When(ready, FlushTasks))
      /\ UNCHANGED <<dependents, activeDetached, waiting>>
RetireDependentStaysListed(p, l) ==
    /\ Continue(p, <<>>)
    /\ UNCHANGED <<spawned, dependents, activeDetached, waiting>>

RetireDetached(p, l) ==
    LET left == Without(activeDetached, l)
        wake == waiting /\ left = {} /\ dependents[Request] = {} IN
      /\ activeDetached' = left
      /\ waiting' = (waiting /\ ~wake)
      /\ spawned' = IF wake THEN Spawn ELSE spawned
      /\ Continue(p, When(wake, FlushTasks))
      /\ UNCHANGED dependents

RetireRequest(p) ==
    LET idle  == dependents[Request] = {}
        ready == idle /\ activeDetached = {} IN
      /\ waiting' = (waiting \/ (idle /\ ~ready))
      /\ spawned' = IF ready THEN Spawn ELSE spawned
      /\ Continue(p, When(ready, FlushTasks))
      /\ UNCHANGED <<dependents, activeDetached>>

RetireDependent(p, l) ==
    /\ dependents' = [dependents EXCEPT ![SpanOf(Parent(l))] = Without(@, l)]
    /\ Continue(p, <<>>)
    /\ UNCHANGED <<spawned, activeDetached, waiting>>

Retire(p) ==
    /\ Runs(p, "retire")
    /\ LET l == Top(p).lg IN
         \/ Detached(l) /\ RetireDetached(p, l)
         \/ l = Request /\ RetireRequest(p)
         \/ l # Request /\ ~Detached(l) /\ RetireDependent(p, l)
    /\ UNCHANGED <<tree, knownActive, doneCount, notBoring, flushActive, armed, flushLock,
                   base, history>>

-----------------------------------------------------------------------------
(* Flush(): detachedDone copies ActiveDetached ... *)
Flush(p) ==
    /\ Runs(p, "Flush")
    /\ \E order \in Orders(activeDetached) :
         Continue(p, Each("recursiveDone", order, FALSE)
                     \o <<T("recursiveDone", Request, FALSE), T("FlushLock", Request, FALSE)>>)
    /\ UNCHANGED <<spawned, tree, spans, shared, base, history>>

(* ... and recursiveDone(false) tells the base of every active span. *)
RecursiveDone(p) ==
    /\ Runs(p, "recursiveDone")
    /\ LET l == Top(p).lg IN
         /\ knownActive' = knownActive \ {SpanOf(l)}
         /\ Continue(p, When(SpanOf(l) \in knownActive, <<T("baseDone", l, FALSE)>>)
                        \o <<T("dependents", l, FALSE)>>)
    /\ UNCHANGED <<spawned, tree, doneCount, dependents, notBoring, shared, base, history>>

(* Faults: FlushLock is not taken, or not released; FlushActive stays 1. *)
FlushLockIgnored(p) ==
    /\ Runs(p, "FlushLock")
    /\ flushLock' = TRUE
    /\ Continue(p, <<T("Stop", Request, FALSE)>>)
    /\ UNCHANGED <<spawned, tree, spans, activeDetached, waiting, flushActive, armed, base,
                   history>>
FlushUnlockForgotten(p) ==
    /\ Runs(p, "FlushUnlock")
    /\ Continue(p, <<>>)
    /\ UNCHANGED <<spawned, tree, spans, shared, base, history>>
FlushInactiveForgotten(p) ==
    /\ Runs(p, "FlushActive")
    /\ Continue(p, <<T("baseFlush", Request, FALSE)>>)
    /\ UNCHANGED <<spawned, tree, spans, shared, base, history>>

FlushLock(p) ==
    /\ Runs(p, "FlushLock")
    /\ ~flushLock
    /\ flushLock' = TRUE
    /\ Continue(p, <<T("Stop", Request, FALSE)>>)
    /\ UNCHANGED <<spawned, tree, spans, activeDetached, waiting, flushActive, armed, base,
                   history>>

Stop(p) ==
    /\ Runs(p, "Stop")
    /\ armed' = FALSE
    /\ Continue(p, <<T("FlushActive", Request, FALSE)>>)
    /\ UNCHANGED <<spawned, tree, spans, activeDetached, waiting, flushActive, flushLock,
                   base, history>>

FlushInactive(p) ==
    /\ Runs(p, "FlushActive")
    /\ flushActive' = FALSE
    /\ Continue(p, <<T("baseFlush", Request, FALSE)>>)
    /\ UNCHANGED <<spawned, tree, spans, activeDetached, waiting, armed, flushLock, base,
                   history>>

(* The base requests flush and wg.Wait() returns. *)
BaseFlush(p) ==
    /\ Runs(p, "baseFlush")
    /\ dirty' = {} /\ held' = {}
    /\ Continue(p, <<T("FlushUnlock", Request, FALSE)>>)
    /\ UNCHANGED <<spawned, tree, spans, shared, undated, final, history>>

FlushUnlock(p) ==
    /\ Runs(p, "FlushUnlock")
    /\ flushLock' = FALSE
    /\ Continue(p, <<>>)
    /\ UNCHANGED <<spawned, tree, spans, activeDetached, waiting, flushActive, armed, base,
                   history>>

(* The timer expires: the runtime starts a goroutine for timerFlush. *)
Expire ==
    /\ armed /\ expiries < MaxExpiries
    /\ expiries' = expiries + 1
    /\ armed' = FALSE
    /\ spawned' = spawned + 1
    /\ UNCHANGED <<stack, tree, spans, activeDetached, waiting, flushActive, flushLock, base,
                   ops, live, asked, alarms>>

(* A goroutine started for timerFlush or an asynchronous flush begins. *)
Begin(w) ==
    /\ spawned > 0 /\ Idle(w)
    /\ spawned' = spawned - 1
    /\ stack' = [stack EXCEPT ![w] = <<T("Flush", Request, FALSE)>>]
    /\ UNCHANGED <<tree, spans, shared, base, history>>

-----------------------------------------------------------------------------
User(p) == \E l \in Loggers :
    \/ Fork(p, l, FALSE) \/ Fork(p, l, TRUE) \/ SubLogger(p, l)
    \/ Log(p, l) \/ Done(p, l) \/ UserFlush(p, l)

Step(p) ==
    \/ NewChildLog(p) \/ Return(p) \/ Error(p) \/ NotBoring(p) \/ Boring(p) \/ Msg(p) \/ HasActivity(p)
    \/ AddMyselfAsDependent(p) \/ RestartTimer(p) \/ Reset(p) \/ WasDone(p)
    \/ DoneStart(p) \/ DoneCount(p) \/ BaseDone(p) \/ Dependents(p) \/ Retire(p)
    \/ Flush(p) \/ RecursiveDone(p) \/ FlushLock(p) \/ Stop(p) \/ FlushInactive(p)
    \/ BaseFlush(p) \/ FlushUnlock(p)

Next ==
    \/ \E p \in Users : User(p)
    \/ \E p \in Procs : Step(p)
    \/ Expire
    \/ \E w \in Flushers : Begin(w)

Spec == Init /\ [][Next]_vars

(* The scheduler runs every goroutine that can run, timers expire, and     *)
(* sync.Mutex does not starve a waiter.                                    *)
Fairness ==
    /\ \A p \in Procs : SF_vars(Step(p))
    /\ WF_vars(Expire)
    /\ \A w \in Flushers : SF_vars(Begin(w))

FairSpec == Spec /\ Fairness

-----------------------------------------------------------------------------
(* Type correctness of the state of logger.go and of the call stacks. *)
TypeOK ==
    /\ stack \in [Procs -> Seq(Task)] /\ spawned \in Nat
    /\ made \in 0 .. MaxLoggers /\ info \in [Loggers -> Info]
    /\ knownActive \subseteq Loggers /\ doneCount \in [Loggers -> 0 .. 2]
    /\ dependents \in [Loggers -> SUBSET Loggers] /\ notBoring \subseteq Loggers
    /\ activeDetached \subseteq Loggers
    /\ waiting \in BOOLEAN /\ flushActive \in BOOLEAN
    /\ armed \in BOOLEAN /\ flushLock \in BOOLEAN
    /\ dirty \subseteq Loggers /\ held \subseteq Loggers /\ undated \subseteq Loggers /\ final \subseteq Loggers
    /\ ops \in Nat /\ live \subseteq Loggers /\ asked \subseteq Loggers
    /\ alarms \subseteq Alarms /\ expiries \in Nat

Has(p, some) == \E i \in DOMAIN stack[p] : stack[p][i].op \in some

(* "Flush calls are single-threaded" (xopbase/base.go:91): whoever stops   *)
(* the timer, clears FlushActive or flushes the base holds FlushLock, and  *)
(* only one goroutine does.                                                *)
LockedOps == {"Stop", "FlushActive", "baseFlush", "FlushUnlock"}
FlushExclusive ==
    /\ \A p, q \in Procs : Has(p, LockedOps) /\ Has(q, LockedOps) => p = q
    /\ (\E p \in Procs : Has(p, LockedOps)) => flushLock

(* FlushActive == 1 promises that the timer is running (logger.go:56), and *)
(* a goroutine that reads 1 relies on it: when the timer is in fact        *)
(* stopped, a Reset or a whole flush is still to come in some goroutine.   *)
FlushComing == {"Reset", "Flush", "FlushLock", "Stop", "FlushActive"}
TimerFlagBacked ==
    flushActive /\ ~armed => spawned > 0 \/ \E p \in Procs : Has(p, FlushComing)

(* When all the logs of a request are done the flush is automatic          *)
(* (logger.go:303): with every logger Done() and nothing running, no       *)
(* data is left in the base logger unless the timer will flush it.         *)
AllDone     == \A l \in live : Finished(l)
DoneFlushes == Quiescent /\ AllDone => dirty = {} \/ (armed /\ MaxExpiries > 0)

(* Done() on a logger marks all its non-detached sub-spans (logger.go:290):*)
(* once the calls have returned, no finished span is without a doneCount.  *)
DoneCascades == Quiescent => \A l \in live : Finished(l) => doneCount[SpanOf(l)] # 0

(* The base is told that a span is final only on account of a Done() that  *)
(* the program called on it or on an ancestor (xopbase/base.go:186).       *)
FinalOnlyAfterDone == \A s \in final : Finished(s)

(* A program that never touches a finished logger is never told that it did. *)
NoFalseAlarm == alarms \subseteq {"sub-logger done"}

(* Case (3) of xopbase/base.go:175: what a flush delivered had Done()      *)
(* called on its span after the last line, so that it carries an end time. *)
DeliveredHasEnd == Quiescent => undated \subseteq dirty

(* NOTES.md:19: a span is known to be active exactly when its parent (or,  *)
(* detached, the request) lists it, or a cascade would miss it.            *)
Listed(l) ==
    \E d \in IF Detached(l) THEN activeDetached ELSE dependents[SpanOf(Parent(l))] :
        SpanOf(d) = l
KnownIsListed ==
    Quiescent => \A l \in live \ {Request} :
        ~info[l].nonSpan => (l \in knownActive <=> Listed(l))

(* A request parked in WaitingForDetached has a detached logger whose      *)
(* Done() will wake it up.                                                 *)
WaitingHasWaker == waiting => activeDetached # {}

(* Every call returns: no recursion without end and nobody waits forever. *)
CallsReturn == \A p \in Procs : ~Idle(p) ~> Idle(p)

(* A call nests at most once per level of the tree and per complaint. *)
DepthBound == 8 * (MaxLoggers + 2)
CallsNestBoundedly == \A p \in Procs : Len(stack[p]) <= DepthBound

(* However the timer races them, the lines that a well behaved program     *)
(* wrote reach the base's output once everything is Done().                *)
DoneReachesBase == AllDone ~> (held = {} \/ ~AllDone)
=============================================================================
