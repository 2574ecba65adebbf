-------------------------- MODULE LifecycleProofs ---------------------------
(***************************************************************************)
(* Proofs about Lifecycle, for any numbers of goroutines, loggers and      *)
(* calls. For careful and careless programs alike: the state is well       *)
(* typed, base flushes exclude each other, and the flag FlushActive never  *)
(* promises a flush that is not coming. For careful programs: Done()       *)
(* reaches all and only the spans that it is to reach, and the last one    *)
(* flushes.                                                                *)
(***************************************************************************)
EXTENDS Lifecycle, SequenceTheorems, FiniteSetTheorems, TLAPS

Stacks == [Procs -> Seq(Task)]

-----------------------------------------------------------------------------
(* Tasks and sequences of tasks. *)

(* A task built from an operation, a logger and a flag is a Task. *)
LEMMA TaskTyped ==
  ASSUME NEW op \in Ops, NEW l \in Loggers, NEW f \in BOOLEAN
  PROVE  T(op, l, f) \in Task
  BY DEF T, Task

(* Short sequences of tasks, and conditional ones. *)
LEMMA SeqTyped ==
  /\ <<>> \in Seq(Task)
  /\ \A a \in Task : <<a>> \in Seq(Task)
  /\ \A a, b \in Task : <<a, b>> \in Seq(Task)
  /\ \A a, b, c \in Task : <<a, b, c>> \in Seq(Task)
  /\ \A s, t \in Seq(Task) : s \o t \in Seq(Task)
  /\ \A c : \A s \in Seq(Task) : When(c, s) \in Seq(Task)
  <1>1. \A s, t \in Seq(Task) : s \o t \in Seq(Task)
    BY ConcatProperties
  <1>2. \A c : \A s \in Seq(Task) : When(c, s) \in Seq(Task)
    BY EmptySeq DEF When
  <1>3. \A a, b, c \in Task : <<a, b, c>> \in Seq(Task)
    OBVIOUS
  <1> QED
    BY <1>1, <1>2, <1>3

(* Loggers is a finite set, so that a set of dependents can be walked. *)
LEMMA OrdersTyped ==
  ASSUME NEW S \in SUBSET Loggers, NEW order \in Orders(S), NEW op \in Ops,
         NEW f \in BOOLEAN
  PROVE  Each(op, order, f) \in Seq(Task)
  <1>1. IsFiniteSet(Loggers)
    BY FS_Interval, LifecycleAssumption DEF Loggers, LifecycleAssumption
  <1>2. Cardinality(S) \in Nat
    BY <1>1, FS_Subset, FS_CardinalityType
  <1>3. order \in [1 .. Cardinality(S) -> Loggers]
    BY DEF Orders
  <1>4. \A i \in 1 .. Cardinality(S) : T(op, order[i], f) \in Task
    BY <1>3, TaskTyped
  <1>5. Each(op, order, f) \in [1 .. Cardinality(S) -> Task]
    BY <1>3, <1>4 DEF Each
  <1> QED
    BY <1>2, <1>5

(* Continuing a call changes the stack of that goroutine only. *)
LEMMA ContinueStack ==
  ASSUME stack \in Stacks, NEW p \in Procs, stack[p] # <<>>,
         NEW new \in Seq(Task), Continue(p, new)
  PROVE  /\ stack' \in Stacks
         /\ stack'[p] = new \o Tail(stack[p])
         /\ \A q \in Procs \ {p} : stack'[q] = stack[q]
  <1>1. Tail(stack[p]) \in Seq(Task)
    BY HeadTailProperties DEF Stacks
  <1>2. new \o Tail(stack[p]) \in Seq(Task)
    BY <1>1, ConcatProperties
  <1>3. stack' = [stack EXCEPT ![p] = new \o Tail(stack[p])]
    BY DEF Continue, Stacks
  <1> QED
    BY <1>2, <1>3 DEF Stacks

(* The task on top of a stack is a Task. *)
LEMMA TopTyped ==
  ASSUME stack \in Stacks, NEW p \in Procs, stack[p] # <<>>
  PROVE  Top(p) \in Task /\ Top(p).lg \in Loggers /\ Top(p).flag \in BOOLEAN
  <1>1. Head(stack[p]) \in Task
    BY HeadTailProperties DEF Stacks
  <1> QED
    BY <1>1 DEF Top, Task

-----------------------------------------------------------------------------
(* A new request is well typed. *)
LEMMA TypeInit == Init => TypeOK
  <1> SUFFICES ASSUME Init PROVE TypeOK
    OBVIOUS
  <1>1. stack \in [Procs -> Seq(Task)]
    BY EmptySeq DEF Init
  <1>2. Request \in Loggers
    BY LifecycleAssumption DEF LifecycleAssumption, Request, Loggers
  <1>3. info \in [Loggers -> Info]
    BY <1>2 DEF Init, Info
  <1>4. made \in 0 .. MaxLoggers
    BY LifecycleAssumption DEF LifecycleAssumption, Init
  <1>5. /\ waiting \in BOOLEAN /\ flushActive \in BOOLEAN
        /\ armed \in BOOLEAN /\ flushLock \in BOOLEAN
    BY LifecycleAssumption, Zenon DEF LifecycleAssumption, Init
  <1> QED
    BY <1>1, <1>2, <1>3, <1>4, <1>5 DEF Init, TypeOK

(* A call of the program puts a well typed stack on an idle goroutine. *)
LEMMA CallTyped ==
  ASSUME TypeOK, NEW p \in Users, NEW op, NEW l, NEW tasks \in Seq(Task),
         Call(p, op, l, tasks)
  PROVE  /\ stack' \in [Procs -> Seq(Task)] /\ ops' \in Nat
         /\ l \in Loggers /\ stack[p] = <<>>
         /\ stack' = [stack EXCEPT ![p] = tasks]
  BY DEF Call, TypeOK, Procs, Idle

(* Every call of the program, of any logger at any time, keeps the types. *)
LEMMA TypeUser ==
  ASSUME TypeOK, NEW p \in Users, User(p)
  PROVE  TypeOK'
  <1> USE DEF vars, control, tree, spans, shared, base, history
  <1>0. PICK l \in Loggers :
          \/ Fork(p, l, FALSE) \/ Fork(p, l, TRUE) \/ SubLogger(p, l)
          \/ Log(p, l) \/ Done(p, l) \/ UserFlush(p, l)
    BY DEF User
  <1>i. \A m \in Loggers : /\ info[m].parent \in Loggers /\ info[m].span \in Loggers
                            /\ info[m].cover \in SUBSET Loggers
    BY DEF TypeOK, Info
  <1>r. Request \in Loggers
    BY LifecycleAssumption DEF LifecycleAssumption, Request, Loggers
  <1>1. ASSUME NEW d \in BOOLEAN, Fork(p, l, d) PROVE TypeOK'
    <2>1. made + 1 \in Loggers /\ made + 1 \in 0 .. MaxLoggers
      BY <1>1, LifecycleAssumption DEF LifecycleAssumption, Fork, TypeOK, Loggers
    <2>2. <<T("newChildLog", made + 1, FALSE), T("return", made + 1, FALSE)>> \in Seq(Task)
      BY <2>1, TaskTyped, SeqTyped DEF Ops
    <2>3. stack' \in [Procs -> Seq(Task)] /\ ops' \in Nat
      BY <1>1, <2>2, CallTyped DEF Fork
    <2>4. info' \in [Loggers -> Info]
      BY <1>1, <1>i, <2>1 DEF Fork, Born, TypeOK, Info
    <2> QED
      BY <1>1, <2>1, <2>3, <2>4 DEF Fork, TypeOK
  <1>2. CASE SubLogger(p, l)
    <2>1. made + 1 \in Loggers /\ made + 1 \in 0 .. MaxLoggers
      BY <1>2, LifecycleAssumption DEF LifecycleAssumption, SubLogger, TypeOK, Loggers
    <2>2. <<T("hasActivity", made + 1, FALSE), T("return", made + 1, FALSE)>> \in Seq(Task)
      BY <2>1, TaskTyped, SeqTyped DEF Ops
    <2>3. stack' \in [Procs -> Seq(Task)] /\ ops' \in Nat
      BY <1>2, <2>2, CallTyped DEF SubLogger
    <2>4. info' \in [Loggers -> Info]
      BY <1>2, <1>i, <2>1 DEF SubLogger, Born, TypeOK, Info, Parent, SpanOf
    <2> QED
      BY <1>2, <2>1, <2>3, <2>4 DEF SubLogger, TypeOK
  <1>3. CASE Log(p, l)
    <2>1. /\ <<T("Msg", l, TRUE)>> \in Seq(Task) /\ <<T("Error", l, TRUE)>> \in Seq(Task)
          /\ <<T("Boring", l, FALSE)>> \in Seq(Task)
      BY TaskTyped, SeqTyped DEF Ops
    <2>2. stack' \in [Procs -> Seq(Task)] /\ ops' \in Nat
      BY <1>3, <2>1, CallTyped DEF Log
    <2> QED
      BY <1>3, <2>2 DEF Log, TypeOK
  <1>4. CASE Done(p, l)
    <2>1. <<T("Error", l, FALSE)>> \in Seq(Task) /\ <<T("done", l, TRUE)>> \in Seq(Task)
      BY TaskTyped, SeqTyped DEF Ops
    <2>2. stack' \in [Procs -> Seq(Task)] /\ ops' \in Nat
      BY <1>4, <2>1, CallTyped DEF Done
    <2>3. alarms' \subseteq Alarms /\ asked' \subseteq Loggers
      <3>1. /\ alarms' = alarms \cup {"sub-logger done"} \/ alarms' = alarms
            /\ asked' = asked \/ asked' = asked \cup {SpanOf(l)}
        BY <1>4, Zenon DEF Done
      <3> QED
        BY <3>1, <1>i DEF TypeOK, Alarms, SpanOf
    <2>4. UNCHANGED <<spawned, tree, spans, shared, base, live, expiries>>
      BY <1>4 DEF Done
    <2> QED
      BY <2>2, <2>3, <2>4 DEF TypeOK
  <1>5. CASE UserFlush(p, l)
    <2>1. <<T("Flush", Request, FALSE)>> \in Seq(Task)
      BY <1>r, TaskTyped, SeqTyped DEF Ops
    <2>2. stack' \in [Procs -> Seq(Task)] /\ ops' \in Nat
      BY <1>5, <2>1, CallTyped DEF UserFlush
    <2> QED
      BY <1>5, <2>2 DEF UserFlush, TypeOK
  <1> QED
    BY <1>0, <1>1, <1>2, <1>3, <1>4, <1>5

(* A step of a goroutine keeps the stacks typed if its new tasks are. *)
LEMMA StepStack ==
  ASSUME TypeOK, NEW p \in Procs, NEW op, Runs(p, op), NEW new \in Seq(Task),
         Continue(p, new)
  PROVE  stack' \in [Procs -> Seq(Task)]
  BY ContinueStack DEF TypeOK, Stacks, Runs

(* Every step inside the loggers keeps the types. *)
LEMMA TypeStep ==
  ASSUME TypeOK, NEW p \in Procs, Step(p)
  PROVE  TypeOK'
  <1> USE DEF vars, control, tree, spans, shared, base, history
  <1> DEFINE l == Top(p).lg
             f == Top(p).flag
  <1>r. Request \in Loggers
    BY LifecycleAssumption DEF LifecycleAssumption, Request, Loggers
  <1>s. stack[p] # <<>> => Top(p) \in Task /\ l \in Loggers /\ f \in BOOLEAN
    BY TopTyped DEF TypeOK, Stacks
  <1>i. \A m \in Loggers : SpanOf(m) \in Loggers /\ Parent(m) \in Loggers
    BY DEF TypeOK, Info, SpanOf, Parent
  <1>g. \A m \in Loggers : Register(m) =>
          /\ dependents' \in [Loggers -> SUBSET Loggers]
          /\ activeDetached' \subseteq Loggers
    <2> SUFFICES ASSUME NEW m \in Loggers, Register(m)
                 PROVE  /\ dependents' \in [Loggers -> SUBSET Loggers]
                        /\ activeDetached' \subseteq Loggers
      OBVIOUS
    <2>1. SpanOf(Parent(m)) \in Loggers
      BY <1>i
    <2> QED
      BY <2>1 DEF Register, With, Without, TypeOK
  <1>1. CASE NewChildLog(p)
    <2>1. <<>> \in Seq(Task)
      BY <1>1, <1>r, <1>s, <1>i, TaskTyped, SeqTyped, Zenon DEF NewChildLog, Runs, Ops
    <2>2. stack' \in [Procs -> Seq(Task)]
      BY <1>1, <2>1, StepStack, Zenon DEF NewChildLog
    <2> QED
      BY <1>1, <2>2, <1>s, <1>g DEF NewChildLog, Runs, TypeOK
  <1>2. CASE Return(p)
    <2>1. <<>> \in Seq(Task)
      BY <1>2, <1>r, <1>s, <1>i, TaskTyped, SeqTyped, Zenon DEF Return, Runs, Ops
    <2>2. stack' \in [Procs -> Seq(Task)]
      BY <1>2, <2>1, StepStack, Zenon DEF Return
    <2> QED
      BY <1>2, <2>2, <1>s DEF Return, Runs, TypeOK
  <1>3. CASE Error(p)
    <2>1. When(SpanOf(l) \notin notBoring, <<T("notBoring", l, FALSE), T("hasActivity", l, TRUE)>>)
          \o <<T("Msg", l, f)>> \in Seq(Task)
      BY <1>3, <1>r, <1>s, <1>i, TaskTyped, SeqTyped, Zenon DEF Error, Runs, Ops
    <2>2. stack' \in [Procs -> Seq(Task)]
      BY <1>3, <2>1, StepStack, Zenon DEF Error
    <2> QED
      BY <1>3, <2>2, <1>s, <1>i DEF Error, Runs, TypeOK
  <1>4. CASE Msg(p)
    <2>1. <<T("hasActivity", l, TRUE)>> \in Seq(Task)
      BY <1>4, <1>r, <1>s, <1>i, TaskTyped, SeqTyped, Zenon DEF Msg, Runs, Ops
    <2>2. stack' \in [Procs -> Seq(Task)]
      BY <1>4, <2>1, StepStack, Zenon DEF Msg
    <2> QED
      BY <1>4, <2>2, <1>s, <1>i DEF Msg, Runs, TypeOK
  <1>5. CASE HasActivity(p)
    <2>1. When(SpanOf(l) \notin knownActive,
               When(l # Request, <<T("addMyselfAsDependent", l, TRUE)>>)
               \o When(f, <<T("restartTimer", l, FALSE), T("wasDone", l, FALSE),
                            T("done", l, FALSE)>>)) \in Seq(Task)
      BY <1>5, <1>r, <1>s, <1>i, TaskTyped, SeqTyped, Zenon DEF HasActivity, Runs, Ops
    <2>2. stack' \in [Procs -> Seq(Task)]
      BY <1>5, <2>1, StepStack, Zenon DEF HasActivity
    <2> QED
      BY <1>5, <2>2, <1>s, <1>i DEF HasActivity, Runs, TypeOK
  <1>6. CASE AddMyselfAsDependent(p)
    <2>1. When(~Detached(l) /\ dependents'[SpanOf(Parent(l))] = {l},
               <<T("hasActivity", Parent(l), FALSE)>>) \in Seq(Task)
      BY <1>6, <1>r, <1>s, <1>i, TaskTyped, SeqTyped, Zenon DEF AddMyselfAsDependent, Runs, Ops
    <2>2. stack' \in [Procs -> Seq(Task)]
      BY <1>6, <2>1, StepStack, Zenon DEF AddMyselfAsDependent
    <2> QED
      BY <1>6, <2>2, <1>s, <1>i, <1>g DEF AddMyselfAsDependent, Runs, TypeOK
  <1>7. CASE RestartTimer(p)
    <2>1. When(~flushActive, <<T("Reset", l, FALSE)>>) \in Seq(Task)
      BY <1>7, <1>r, <1>s, <1>i, TaskTyped, SeqTyped, Zenon DEF RestartTimer, Runs, Ops
    <2>2. stack' \in [Procs -> Seq(Task)]
      BY <1>7, <2>1, StepStack, Zenon DEF RestartTimer
    <2> QED
      BY <1>7, <2>2, <1>s DEF RestartTimer, Runs, TypeOK
  <1>8. CASE Reset(p)
    <2>1. <<>> \in Seq(Task)
      BY <1>8, <1>r, <1>s, <1>i, TaskTyped, SeqTyped, Zenon DEF Reset, Runs, Ops
    <2>2. stack' \in [Procs -> Seq(Task)]
      BY <1>8, <2>1, StepStack, Zenon DEF Reset
    <2> QED
      BY <1>8, <2>2, <1>s DEF Reset, Runs, TypeOK
  <1>9. CASE WasDone(p)
    <2>1. When(doneCount[SpanOf(l)] # 0, <<T("Error", l, FALSE)>>) \in Seq(Task)
      BY <1>9, <1>r, <1>s, <1>i, TaskTyped, SeqTyped, Zenon DEF WasDone, Runs, Ops
    <2>2. stack' \in [Procs -> Seq(Task)]
      BY <1>9, <2>1, StepStack, Zenon DEF WasDone
    <2>3. alarms' \subseteq Alarms
      BY <1>9 DEF WasDone, TypeOK, Alarms
    <2> QED
      BY <1>9, <2>2, <1>s, <2>3 DEF WasDone, Runs, TypeOK
  <1>10. CASE DoneStart(p)
    <2>1. <<T("doneCount", l, f)>> \in Seq(Task)
      BY <1>10, <1>r, <1>s, <1>i, TaskTyped, SeqTyped, Zenon DEF DoneStart, Runs, Ops
    <2>2. stack' \in [Procs -> Seq(Task)]
      BY <1>10, <2>1, StepStack, Zenon DEF DoneStart
    <2> QED
      BY <1>10, <2>2, <1>s DEF DoneStart, Runs, TypeOK
  <1>11. CASE DoneCount(p)
    <2>1. <<T("baseDone", l, TRUE), T("dependents", l, TRUE)>>
          \o When(doneCount[SpanOf(l)] # 0 /\ f, <<T("Error", l, FALSE)>>)
          \o <<T("retire", l, FALSE)>> \in Seq(Task)
      BY <1>11, <1>r, <1>s, <1>i, TaskTyped, SeqTyped, Zenon DEF DoneCount, Runs, Ops
    <2>2. stack' \in [Procs -> Seq(Task)]
      BY <1>11, <2>1, StepStack, Zenon DEF DoneCount
    <2>3. alarms' \subseteq Alarms
      BY <1>11 DEF DoneCount, TypeOK, Alarms
    <2>4. doneCount' \in [Loggers -> 0 .. 2]
      <3> DEFINE new == IF doneCount[SpanOf(l)] = 0 THEN 1 ELSE 2
      <3>1. doneCount' = [doneCount EXCEPT ![SpanOf(l)] = new]
        BY <1>11, Zenon DEF DoneCount
      <3>2. doneCount \in [Loggers -> 0 .. 2]
        BY DEF TypeOK
      <3>3. new \in 0 .. 2
        OBVIOUS
      <3> HIDE DEF new
      <3> QED
        BY <3>1, <3>2, <3>3
    <2>5. UNCHANGED <<spawned, tree, knownActive, dependents, notBoring, shared, base, ops,
                      live, asked, expiries>>
      BY <1>11, Zenon DEF DoneCount
    <2> QED
      BY <2>2, <2>3, <2>4, <2>5 DEF TypeOK
  <1>12. CASE BaseDone(p)
    <2>1. <<>> \in Seq(Task)
      BY <1>12, <1>r, <1>s, <1>i, TaskTyped, SeqTyped, Zenon DEF BaseDone, Runs, Ops
    <2>2. stack' \in [Procs -> Seq(Task)]
      BY <1>12, <2>1, StepStack, Zenon DEF BaseDone
    <2> QED
      BY <1>12, <2>2, <1>s, <1>i DEF BaseDone, Runs, TypeOK
  <1>13. CASE FlushLock(p)
    <2>1. <<T("Stop", Request, FALSE)>> \in Seq(Task)
      BY <1>13, <1>r, <1>s, <1>i, TaskTyped, SeqTyped, Zenon DEF FlushLock, Runs, Ops
    <2>2. stack' \in [Procs -> Seq(Task)]
      BY <1>13, <2>1, StepStack, Zenon DEF FlushLock
    <2> QED
      BY <1>13, <2>2, <1>s DEF FlushLock, Runs, TypeOK
  <1>14. CASE Stop(p)
    <2>1. <<T("FlushActive", Request, FALSE)>> \in Seq(Task)
      BY <1>14, <1>r, <1>s, <1>i, TaskTyped, SeqTyped, Zenon DEF Stop, Runs, Ops
    <2>2. stack' \in [Procs -> Seq(Task)]
      BY <1>14, <2>1, StepStack, Zenon DEF Stop
    <2> QED
      BY <1>14, <2>2, <1>s DEF Stop, Runs, TypeOK
  <1>15. CASE FlushInactive(p)
    <2>1. <<T("baseFlush", Request, FALSE)>> \in Seq(Task)
      BY <1>15, <1>r, <1>s, <1>i, TaskTyped, SeqTyped, Zenon DEF FlushInactive, Runs, Ops
    <2>2. stack' \in [Procs -> Seq(Task)]
      BY <1>15, <2>1, StepStack, Zenon DEF FlushInactive
    <2> QED
      BY <1>15, <2>2, <1>s DEF FlushInactive, Runs, TypeOK
  <1>16. CASE BaseFlush(p)
    <2>1. <<T("FlushUnlock", Request, FALSE)>> \in Seq(Task)
      BY <1>16, <1>r, <1>s, <1>i, TaskTyped, SeqTyped, Zenon DEF BaseFlush, Runs, Ops
    <2>2. stack' \in [Procs -> Seq(Task)]
      BY <1>16, <2>1, StepStack, Zenon DEF BaseFlush
    <2> QED
      BY <1>16, <2>2, <1>s DEF BaseFlush, Runs, TypeOK
  <1>17. CASE FlushUnlock(p)
    <2>1. <<>> \in Seq(Task)
      BY <1>17, <1>r, <1>s, <1>i, TaskTyped, SeqTyped, Zenon DEF FlushUnlock, Runs, Ops
    <2>2. stack' \in [Procs -> Seq(Task)]
      BY <1>17, <2>1, StepStack, Zenon DEF FlushUnlock
    <2> QED
      BY <1>17, <2>2, <1>s DEF FlushUnlock, Runs, TypeOK
  <1>18. CASE RecursiveDone(p)
    <2>1. When(SpanOf(l) \in knownActive, <<T("baseDone", l, FALSE)>>)
          \o <<T("dependents", l, FALSE)>> \in Seq(Task)
      BY <1>18, <1>r, <1>s, <1>i, TaskTyped, SeqTyped, Zenon DEF RecursiveDone, Runs, Ops
    <2>2. stack' \in [Procs -> Seq(Task)]
      BY <1>18, <2>1, StepStack, Zenon DEF RecursiveDone
    <2> QED
      BY <1>18, <2>2, <1>s, <1>i DEF RecursiveDone, Runs, TypeOK
  <1>19. CASE Dependents(p)
    <2>1. PICK order \in Orders(dependents[SpanOf(l)]) : Continue(p, Each("done", order, f))
      BY <1>19 DEF Dependents
    <2>2. dependents[SpanOf(l)] \in SUBSET Loggers
      BY <1>19, <1>s, <1>i DEF Dependents, Runs, TypeOK
    <2>3. Each("done", order, f) \in Seq(Task)
      BY <1>19, <1>s, <2>2, OrdersTyped DEF Dependents, Runs, Ops
    <2>4. stack' \in [Procs -> Seq(Task)]
      BY <1>19, <2>1, <2>3, StepStack, Zenon DEF Dependents
    <2> QED
      BY <1>19, <2>4 DEF Dependents, TypeOK
  <1>20. CASE Flush(p)
    <2> DEFINE rest == <<T("recursiveDone", Request, FALSE), T("FlushLock", Request, FALSE)>>
    <2>1. PICK order \in Orders(activeDetached) :
            Continue(p, Each("recursiveDone", order, FALSE) \o rest)
      BY <1>20 DEF Flush
    <2>2. Each("recursiveDone", order, FALSE) \in Seq(Task)
      BY OrdersTyped DEF TypeOK, Ops
    <2>3. rest \in Seq(Task)
      BY <1>r, TaskTyped, SeqTyped DEF Ops
    <2>4. Each("recursiveDone", order, FALSE) \o rest \in Seq(Task)
      BY <2>2, <2>3, SeqTyped
    <2>5. stack' \in [Procs -> Seq(Task)]
      BY <1>20, <2>1, <2>4, StepStack, Zenon DEF Flush
    <2> QED
      BY <1>20, <2>5 DEF Flush, TypeOK
  <1>21. CASE Retire(p)
    <2>1. \A c : When(c, FlushTasks) \in Seq(Task)
      BY <1>r, TaskTyped, SeqTyped DEF FlushTasks, Ops
    <2>2. Spawn \in Nat
      BY DEF Spawn, TypeOK
    <2>3. \/ Detached(l) /\ RetireDetached(p, l)
          \/ l = Request /\ RetireRequest(p)
          \/ l # Request /\ ~Detached(l) /\ RetireDependent(p, l)
      BY <1>21 DEF Retire
    <2>4. /\ stack' \in [Procs -> Seq(Task)]
          /\ dependents' \in [Loggers -> SUBSET Loggers] /\ activeDetached' \subseteq Loggers
          /\ waiting' \in BOOLEAN /\ spawned' \in Nat
      <3>1. CASE RetireDetached(p, l)
        <4>1. stack' \in [Procs -> Seq(Task)]
          BY <1>21, <3>1, <2>1, StepStack, Zenon DEF Retire, RetireDetached
        <4>2. waiting' \in BOOLEAN
          BY <3>1, Zenon DEF RetireDetached
        <4> QED
          BY <3>1, <4>1, <4>2, <2>2 DEF RetireDetached, Without, TypeOK
      <3>2. CASE RetireRequest(p)
        <4>1. stack' \in [Procs -> Seq(Task)]
          BY <1>21, <3>2, <2>1, StepStack, Zenon DEF Retire, RetireRequest
        <4>2. waiting' \in BOOLEAN
          BY <3>2, Zenon DEF RetireRequest
        <4> QED
          BY <3>2, <4>1, <4>2, <2>2 DEF RetireRequest, TypeOK
      <3>3. CASE RetireDependent(p, l)
        <4>1. stack' \in [Procs -> Seq(Task)]
          BY <1>21, <3>3, SeqTyped, StepStack, Zenon DEF Retire, RetireDependent
        <4> QED
          BY <1>21, <3>3, <4>1, <1>s, <1>i DEF Retire, Runs, RetireDependent, Without, TypeOK
      <3> QED
        BY <2>3, <3>1, <3>2, <3>3
    <2> QED
      BY <1>21, <2>4 DEF Retire, TypeOK
  <1>22. CASE NotBoring(p)
    <2>1. <<>> \in Seq(Task)
      BY SeqTyped
    <2>2. stack' \in [Procs -> Seq(Task)]
      BY <1>22, <2>1, StepStack, Zenon DEF NotBoring
    <2> QED
      BY <1>22, <2>2, <1>r DEF NotBoring, TypeOK
  <1>23. CASE Boring(p)
    <2>1. When(Request \notin notBoring, <<T("hasActivity", l, TRUE)>>) \in Seq(Task)
      BY <1>23, <1>s, TaskTyped, SeqTyped, Zenon DEF Boring, Runs, Ops
    <2>2. stack' \in [Procs -> Seq(Task)]
      BY <1>23, <2>1, StepStack, Zenon DEF Boring
    <2> QED
      BY <1>23, <2>2 DEF Boring, TypeOK
  <1> QED
    BY <1>1, <1>2, <1>3, <1>4, <1>5, <1>6, <1>7, <1>8, <1>9, <1>10, <1>11, <1>12, <1>13,
       <1>14, <1>15, <1>16, <1>17, <1>18, <1>19, <1>20, <1>21, <1>22, <1>23, Zenon DEF Step

(* So does every step of the system. *)
LEMMA TypeNext == TypeOK /\ [Next]_vars => TypeOK'
  <1> SUFFICES ASSUME TypeOK, [Next]_vars PROVE TypeOK'
    OBVIOUS
  <1> USE DEF vars, control, tree, spans, shared, base, history
  <1>1. ASSUME NEW p \in Users, User(p) PROVE TypeOK'
    BY <1>1, TypeUser
  <1>2. ASSUME NEW p \in Procs, Step(p) PROVE TypeOK'
    BY <1>2, TypeStep
  <1>r. Request \in Loggers
    BY LifecycleAssumption DEF LifecycleAssumption, Request, Loggers
  <1>n. spawned \in Nat /\ expiries \in Nat
    BY DEF TypeOK
  <1>3. CASE Expire
    <2>1. spawned' \in Nat /\ expiries' \in Nat
      BY <1>3, <1>n DEF Expire
    <2>2. armed' = FALSE
      BY <1>3 DEF Expire
    <2> QED
      BY <1>3, <2>1, <2>2 DEF Expire, TypeOK
  <1>4. ASSUME NEW w \in Flushers, Begin(w) PROVE TypeOK'
    <2>1. <<T("Flush", Request, FALSE)>> \in Seq(Task)
      BY <1>r, TaskTyped, SeqTyped DEF Ops
    <2>2. spawned' \in Nat
      BY <1>4, <1>n DEF Begin
    <2>3. stack' \in [Procs -> Seq(Task)]
      BY <1>4, <2>1 DEF Begin, TypeOK
    <2> QED
      BY <1>4, <2>2, <2>3 DEF Begin, TypeOK
  <1>5. CASE UNCHANGED vars
    BY <1>5 DEF TypeOK
  <1> QED
    BY <1>1, <1>2, <1>3, <1>4, <1>5 DEF Next

(* The state of a request and the calls in progress keep their types,      *)
(* whatever the program and the timer do: in particular LogCount stays in  *)
(* bounds and no number of spawned flushes is lost below zero.             *)
THEOREM TypeCorrect == Spec => []TypeOK
  BY TypeInit, TypeNext, PTL DEF Spec


-----------------------------------------------------------------------------
(* Steps that neither begin nor go on with a base flush push quiet tasks.  *)
QuietTask == {t \in Task : t.op \notin LockedOps}

(* The task pushed for such an operation is quiet. *)
LEMMA QuietTyped ==
  ASSUME NEW op \in Ops \ LockedOps, NEW l \in Loggers, NEW f \in BOOLEAN
  PROVE  T(op, l, f) \in QuietTask
  BY TaskTyped DEF QuietTask, T

(* Short sequences of quiet tasks, and conditional ones. *)
LEMMA QuietSeq ==
  /\ <<>> \in Seq(QuietTask)
  /\ \A a \in QuietTask : <<a>> \in Seq(QuietTask)
  /\ \A a, b \in QuietTask : <<a, b>> \in Seq(QuietTask)
  /\ \A a, b, c \in QuietTask : <<a, b, c>> \in Seq(QuietTask)
  /\ \A s, t \in Seq(QuietTask) : s \o t \in Seq(QuietTask)
  /\ \A c : \A s \in Seq(QuietTask) : When(c, s) \in Seq(QuietTask)
  <1>1. \A s, t \in Seq(QuietTask) : s \o t \in Seq(QuietTask)
    BY ConcatProperties
  <1>2. \A c : \A s \in Seq(QuietTask) : When(c, s) \in Seq(QuietTask)
    BY EmptySeq DEF When
  <1>3. \A a, b, c \in QuietTask : <<a, b, c>> \in Seq(QuietTask)
    OBVIOUS
  <1> QED
    BY <1>1, <1>2, <1>3

(* So is a walk over a set of dependents. *)
LEMMA QuietOrders ==
  ASSUME NEW S \in SUBSET Loggers, NEW order \in Orders(S), NEW op \in Ops \ LockedOps,
         NEW f \in BOOLEAN
  PROVE  Each(op, order, f) \in Seq(QuietTask)
  <1>1. IsFiniteSet(Loggers)
    BY FS_Interval, LifecycleAssumption DEF Loggers, LifecycleAssumption
  <1>2. Cardinality(S) \in Nat
    BY <1>1, FS_Subset, FS_CardinalityType
  <1>3. order \in [1 .. Cardinality(S) -> Loggers]
    BY DEF Orders
  <1>4. \A i \in 1 .. Cardinality(S) : T(op, order[i], f) \in QuietTask
    BY <1>3, QuietTyped
  <1>5. Each(op, order, f) \in [1 .. Cardinality(S) -> QuietTask]
    BY <1>3, <1>4 DEF Each
  <1> QED
    BY <1>2, <1>5

Flushing(p) == FlushLock(p) \/ Stop(p) \/ FlushInactive(p) \/ BaseFlush(p) \/ FlushUnlock(p)

(* A step of a goroutine that is not in the critical section of Flush()    *)
(* leaves the lock alone, pushes quiet tasks only, loses no goroutine, and *)
(* unless it is one of three operations leaves the timer alone too.        *)
LEMMA QuietStep ==
  ASSUME TypeOK, NEW p \in Procs, Step(p), ~Flushing(p)
  PROVE  /\ stack[p] # <<>> /\ Top(p).op \notin LockedOps \cup {"FlushLock"}
         /\ \E new \in Seq(QuietTask) : Continue(p, new)
         /\ flushLock' = flushLock /\ spawned' >= spawned
         /\ Reset(p) \/ RestartTimer(p) \/ Flush(p)
            \/ (Top(p).op \notin FlushComing /\ UNCHANGED <<flushActive, armed>>)
  <1> DEFINE l == Top(p).lg
             f == Top(p).flag
             Goal == /\ stack[p] # <<>> /\ Top(p).op \notin LockedOps \cup {"FlushLock"}
                     /\ \E new \in Seq(QuietTask) : Continue(p, new)
                     /\ flushLock' = flushLock /\ spawned' >= spawned
                     /\ Reset(p) \/ RestartTimer(p) \/ Flush(p)
                        \/ (Top(p).op \notin FlushComing /\ UNCHANGED <<flushActive, armed>>)
             Rest(op) == /\ op \in Ops /\ op \notin LockedOps \cup {"FlushLock"} /\ Runs(p, op)
                         /\ flushLock' = flushLock /\ spawned' >= spawned
                         /\ Reset(p) \/ RestartTimer(p) \/ Flush(p)
                            \/ (op \notin FlushComing /\ UNCHANGED <<flushActive, armed>>)
  <1>r. Request \in Loggers
    BY LifecycleAssumption DEF LifecycleAssumption, Request, Loggers
  <1>s. stack[p] # <<>> => Top(p) \in Task /\ l \in Loggers /\ f \in BOOLEAN
    BY TopTyped DEF TypeOK, Stacks
  <1>i. \A m \in Loggers : SpanOf(m) \in Loggers /\ Parent(m) \in Loggers
    BY DEF TypeOK, Info, SpanOf, Parent
  <1>n. spawned \in Nat
    BY DEF TypeOK
  <1>q. \A op \in Ops \ LockedOps, m \in Loggers, b \in BOOLEAN : T(op, m, b) \in QuietTask
    BY QuietTyped
  <1>o. /\ {"newChildLog", "return", "Error", "notBoring", "Boring", "Msg", "hasActivity",
            "addMyselfAsDependent", "restartTimer", "Reset", "wasDone", "done", "doneCount",
            "baseDone", "dependents", "retire", "Flush", "recursiveDone", "FlushLock"}
           \subseteq Ops \ LockedOps
    BY DEF Ops, LockedOps
  <1>g. ASSUME NEW op, Rest(op), NEW new \in Seq(QuietTask), Continue(p, new) PROVE Goal
    BY <1>g DEF Runs
  <1>1. CASE NewChildLog(p)
    <2>1. Rest("newChildLog")
      BY <1>1, <1>n DEF NewChildLog, Ops, LockedOps, FlushComing, control, shared
    <2> QED
      BY <1>1, <2>1, <1>g, QuietSeq, Zenon DEF NewChildLog
  <1>2. CASE Return(p)
    <2>1. Rest("return")
      BY <1>2, <1>n DEF Return, Ops, LockedOps, FlushComing, shared
    <2> QED
      BY <1>2, <2>1, <1>g, QuietSeq, Zenon DEF Return
  <1>3. CASE Error(p)
    <2>1. Rest("Error")
      BY <1>3, <1>n DEF Error, Ops, LockedOps, FlushComing, shared
    <2>2. When(SpanOf(l) \notin notBoring, <<T("notBoring", l, FALSE), T("hasActivity", l, TRUE)>>)
          \o <<T("Msg", l, f)>> \in Seq(QuietTask)
      BY <1>3, <1>s, <1>o, <1>q, QuietSeq, Zenon DEF Error, Runs
    <2> QED
      BY <1>3, <2>1, <2>2, <1>g, Zenon DEF Error
  <1>4. CASE NotBoring(p)
    <2>1. Rest("notBoring")
      BY <1>4, <1>n DEF NotBoring, Ops, LockedOps, FlushComing, shared
    <2> QED
      BY <1>4, <2>1, <1>g, QuietSeq, Zenon DEF NotBoring
  <1>5. CASE Boring(p)
    <2>1. Rest("Boring")
      BY <1>5, <1>n DEF Boring, Ops, LockedOps, FlushComing, shared
    <2>2. When(Request \notin notBoring, <<T("hasActivity", l, TRUE)>>) \in Seq(QuietTask)
      BY <1>5, <1>s, <1>o, <1>q, QuietSeq, Zenon DEF Boring, Runs
    <2> QED
      BY <1>5, <2>1, <2>2, <1>g, Zenon DEF Boring
  <1>6. CASE Msg(p)
    <2>1. Rest("Msg")
      BY <1>6, <1>n DEF Msg, Ops, LockedOps, FlushComing, shared
    <2>2. <<T("hasActivity", l, TRUE)>> \in Seq(QuietTask)
      BY <1>6, <1>s, <1>o, <1>q, QuietSeq, Zenon DEF Msg, Runs
    <2> QED
      BY <1>6, <2>1, <2>2, <1>g, Zenon DEF Msg
  <1>7. CASE HasActivity(p)
    <2>1. Rest("hasActivity")
      BY <1>7, <1>n DEF HasActivity, Ops, LockedOps, FlushComing, shared
    <2>2. When(SpanOf(l) \notin knownActive,
               When(l # Request, <<T("addMyselfAsDependent", l, TRUE)>>)
               \o When(f, <<T("restartTimer", l, FALSE), T("wasDone", l, FALSE),
                            T("done", l, FALSE)>>)) \in Seq(QuietTask)
      BY <1>7, <1>s, <1>o, <1>q, QuietSeq, Zenon DEF HasActivity, Runs
    <2> QED
      BY <1>7, <2>1, <2>2, <1>g, Zenon DEF HasActivity
  <1>8. CASE AddMyselfAsDependent(p)
    <2>1. Rest("addMyselfAsDependent")
      BY <1>8, <1>n DEF AddMyselfAsDependent, Ops, LockedOps, FlushComing
    <2>2. When(~Detached(l) /\ dependents'[SpanOf(Parent(l))] = {l},
               <<T("hasActivity", Parent(l), FALSE)>>) \in Seq(QuietTask)
      BY <1>8, <1>s, <1>i, <1>o, <1>q, QuietSeq, Zenon DEF AddMyselfAsDependent, Runs
    <2> QED
      BY <1>8, <2>1, <2>2, <1>g, Zenon DEF AddMyselfAsDependent
  <1>9. CASE RestartTimer(p)
    <2>1. Rest("restartTimer")
      <3>1. Runs(p, "restartTimer") /\ UNCHANGED <<flushLock, spawned>>
        BY <1>9 DEF RestartTimer
      <3> QED
        BY <1>9, <1>n, <3>1 DEF Ops, LockedOps
    <2>2. When(~flushActive, <<T("Reset", l, FALSE)>>) \in Seq(QuietTask)
      BY <1>9, <1>s, <1>o, <1>q, QuietSeq, Zenon DEF RestartTimer, Runs
    <2> QED
      BY <1>9, <2>1, <2>2, <1>g, Zenon DEF RestartTimer
  <1>10. CASE Reset(p)
    <2>1. Rest("Reset")
      <3>1. Runs(p, "Reset") /\ UNCHANGED <<flushLock, spawned>>
        BY <1>10 DEF Reset
      <3> QED
        BY <1>10, <1>n, <3>1 DEF Ops, LockedOps
    <2> QED
      BY <1>10, <2>1, <1>g, QuietSeq, Zenon DEF Reset
  <1>11. CASE WasDone(p)
    <2>1. Rest("wasDone")
      <3>1. Runs(p, "wasDone") /\ UNCHANGED <<spawned, shared>>
        BY <1>11, Zenon DEF WasDone
      <3> QED
        BY <1>n, <3>1 DEF Ops, LockedOps, FlushComing, shared
    <2>2. When(doneCount[SpanOf(l)] # 0, <<T("Error", l, FALSE)>>) \in Seq(QuietTask)
      BY <1>11, <1>s, <1>o, <1>q, QuietSeq, Zenon DEF WasDone, Runs
    <2> QED
      BY <1>11, <2>1, <2>2, <1>g, Zenon DEF WasDone
  <1>12. CASE DoneStart(p)
    <2>1. Rest("done")
      BY <1>12, <1>n DEF DoneStart, Ops, LockedOps, FlushComing, shared
    <2>2. <<T("doneCount", l, f)>> \in Seq(QuietTask)
      BY <1>12, <1>s, <1>o, <1>q, QuietSeq, Zenon DEF DoneStart, Runs
    <2> QED
      BY <1>12, <2>1, <2>2, <1>g, Zenon DEF DoneStart
  <1>13. CASE DoneCount(p)
    <2>1. Rest("doneCount")
      <3>1. Runs(p, "doneCount") /\ UNCHANGED <<spawned, shared>>
        BY <1>13, Zenon DEF DoneCount
      <3> QED
        BY <1>n, <3>1 DEF Ops, LockedOps, FlushComing, shared
    <2>2. <<T("baseDone", l, TRUE), T("dependents", l, TRUE)>>
          \o When(doneCount[SpanOf(l)] # 0 /\ f, <<T("Error", l, FALSE)>>)
          \o <<T("retire", l, FALSE)>> \in Seq(QuietTask)
      BY <1>13, <1>s, <1>o, <1>q, QuietSeq, Zenon DEF DoneCount, Runs
    <2> QED
      BY <1>13, <2>1, <2>2, <1>g, Zenon DEF DoneCount
  <1>14. CASE BaseDone(p)
    <2>1. Rest("baseDone")
      BY <1>14, <1>n DEF BaseDone, Ops, LockedOps, FlushComing, shared
    <2> QED
      BY <1>14, <2>1, <1>g, QuietSeq, Zenon DEF BaseDone
  <1>15. CASE Dependents(p)
    <2>1. Rest("dependents")
      BY <1>15, <1>n DEF Dependents, Ops, LockedOps, FlushComing, shared
    <2>2. PICK order \in Orders(dependents[SpanOf(l)]) : Continue(p, Each("done", order, f))
      BY <1>15 DEF Dependents
    <2>3. dependents[SpanOf(l)] \in SUBSET Loggers
      BY <1>15, <1>s, <1>i DEF Dependents, Runs, TypeOK
    <2>4. Each("done", order, f) \in Seq(QuietTask)
      BY <1>15, <1>s, <1>o, <2>3, QuietOrders DEF Dependents, Runs
    <2> QED
      BY <2>1, <2>2, <2>4, <1>g, Zenon
  <1>16. CASE Retire(p)
    <2>1. \A c : When(c, FlushTasks) \in Seq(QuietTask)
      BY <1>r, <1>o, <1>q, QuietSeq, Zenon DEF FlushTasks
    <2>2. Spawn >= spawned
      BY <1>n DEF Spawn
    <2>3. Runs(p, "retire") /\ UNCHANGED <<flushLock, flushActive, armed>>
      BY <1>16 DEF Retire
    <2>4. \/ RetireDetached(p, l) \/ RetireRequest(p) \/ RetireDependent(p, l)
      BY <1>16 DEF Retire
    <2>5. spawned' >= spawned
      BY <2>2, <2>4, <1>n DEF RetireDetached, RetireRequest, RetireDependent
    <2>6. \E new \in Seq(QuietTask) : Continue(p, new)
      BY <2>1, <2>4, QuietSeq, Zenon DEF RetireDetached, RetireRequest, RetireDependent
    <2>7. Rest("retire")
      BY <2>3, <2>5 DEF Ops, LockedOps, FlushComing
    <2> QED
      BY <2>6, <2>7, <1>g, Zenon
  <1>17. CASE Flush(p)
    <2> DEFINE rest == <<T("recursiveDone", Request, FALSE), T("FlushLock", Request, FALSE)>>
    <2>1. Rest("Flush")
      <3>1. Runs(p, "Flush") /\ UNCHANGED <<flushLock, spawned>>
        BY <1>17 DEF Flush, shared
      <3> QED
        BY <1>17, <1>n, <3>1 DEF Ops, LockedOps
    <2>2. PICK order \in Orders(activeDetached) :
            Continue(p, Each("recursiveDone", order, FALSE) \o rest)
      BY <1>17 DEF Flush
    <2>3. Each("recursiveDone", order, FALSE) \in Seq(QuietTask)
      BY <1>o, QuietOrders DEF TypeOK
    <2>4. rest \in Seq(QuietTask)
      BY <1>r, <1>o, <1>q, QuietSeq, Zenon
    <2>5. Each("recursiveDone", order, FALSE) \o rest \in Seq(QuietTask)
      BY <2>3, <2>4, QuietSeq
    <2> QED
      BY <2>1, <2>2, <2>5, <1>g, Zenon
  <1>18. CASE RecursiveDone(p)
    <2>1. Rest("recursiveDone")
      BY <1>18, <1>n DEF RecursiveDone, Ops, LockedOps, FlushComing, shared
    <2>2. When(SpanOf(l) \in knownActive, <<T("baseDone", l, FALSE)>>)
          \o <<T("dependents", l, FALSE)>> \in Seq(QuietTask)
      BY <1>18, <1>s, <1>o, <1>q, QuietSeq, Zenon DEF RecursiveDone, Runs
    <2> QED
      BY <1>18, <2>1, <2>2, <1>g, Zenon DEF RecursiveDone
  <1> QED
    BY <1>1, <1>2, <1>3, <1>4, <1>5, <1>6, <1>7, <1>8, <1>9, <1>10, <1>11, <1>12, <1>13,
       <1>14, <1>15, <1>16, <1>17, <1>18, Zenon DEF Step, Flushing

-----------------------------------------------------------------------------
(* How the stacks change. *)

(* Below the new tasks the stack keeps what was under its top. *)
LEMMA StackAfter ==
  ASSUME stack \in Stacks, NEW p \in Procs, stack[p] # <<>>,
         NEW new \in Seq(Task), Continue(p, new)
  PROVE  /\ Len(stack'[p]) = Len(new) + Len(stack[p]) - 1
         /\ \A i \in 1 .. Len(new) : stack'[p][i] = new[i] /\ i \in DOMAIN stack'[p]
         /\ \A i \in 2 .. Len(stack[p]) : /\ stack'[p][Len(new) + i - 1] = stack[p][i]
                                          /\ Len(new) + i - 1 \in DOMAIN stack'[p]
         /\ \A i \in DOMAIN stack'[p] : \/ i \in DOMAIN new
                                        \/ i - Len(new) + 1 \in 2 .. Len(stack[p])
         /\ Top(p) = stack[p][1] /\ 1 \in DOMAIN stack[p]
  <1> DEFINE old == stack[p]
             rest == Tail(stack[p])
  <1>1. old \in Seq(Task) /\ old # <<>>
    BY DEF Stacks
  <1>2. /\ rest \in Seq(Task) /\ Len(rest) = Len(old) - 1
        /\ \A i \in 1 .. Len(rest) : rest[i] = old[i + 1]
        /\ Len(old) \in Nat \ {0} /\ DOMAIN old = 1 .. Len(old)
    BY <1>1
  <1>3. stack'[p] = new \o rest
    BY ContinueStack
  <1>4. /\ Len(new \o rest) = Len(new) + Len(rest)
        /\ Len(new) \in Nat /\ DOMAIN new = 1 .. Len(new)
        /\ DOMAIN (new \o rest) = 1 .. Len(new) + Len(rest)
        /\ \A i \in 1 .. Len(new) + Len(rest) :
             (new \o rest)[i] = IF i <= Len(new) THEN new[i] ELSE rest[i - Len(new)]
    BY <1>2
  <1>5. Top(p) = old[1]
    BY <1>1 DEF Top
  <1> HIDE DEF old, rest
  <1>6. \A i \in 2 .. Len(old) : stack'[p][Len(new) + i - 1] = old[i]
    <2> TAKE i \in 2 .. Len(old)
    <2>1. Len(new) + i - 1 \in 1 .. Len(new) + Len(rest) /\ ~(Len(new) + i - 1 <= Len(new))
      BY <1>2, <1>4
    <2>2. (Len(new) + i - 1) - Len(new) = i - 1 /\ i - 1 \in 1 .. Len(rest)
      BY <1>2, <1>4
    <2>3. stack'[p][Len(new) + i - 1] = rest[i - 1]
      BY <1>3, <1>4, <2>1, <2>2
    <2> QED
      BY <1>2, <2>2, <2>3
  <1>7. \A i \in DOMAIN stack'[p] : i \in DOMAIN new \/ i - Len(new) + 1 \in 2 .. Len(old)
    BY <1>2, <1>3, <1>4
  <1>8. \A i \in 1 .. Len(new) : stack'[p][i] = new[i] /\ i \in DOMAIN stack'[p]
    BY <1>2, <1>3, <1>4
  <1>9. \A i \in 2 .. Len(old) : Len(new) + i - 1 \in DOMAIN stack'[p]
    BY <1>2, <1>3, <1>4
  <1> QED
    BY <1>2, <1>3, <1>4, <1>5, <1>6, <1>7, <1>8, <1>9 DEF old

(* What is waiting on a stack is still there after a step whose own task   *)
(* is not among it, and what the step pushes is there.                     *)
LEMMA HasAfter ==
  ASSUME stack \in Stacks, NEW p \in Procs, stack[p] # <<>>,
         NEW new \in Seq(Task), Continue(p, new), NEW some
  PROVE  /\ \A q \in Procs : (q = p => Top(p).op \notin some) /\ Has(q, some) => Has(q, some)'
         /\ \A i \in 1 .. Len(new) : new[i].op \in some => Has(p, some)'
  <1>1. \A i \in 1 .. Len(new) : new[i].op \in some => Has(p, some)'
    BY StackAfter DEF Has
  <1>2. ASSUME NEW q \in Procs, q = p => Top(p).op \notin some, Has(q, some)
        PROVE  Has(q, some)'
    <2>1. CASE q # p
      <3>1. stack'[q] = stack[q]
        BY <2>1, ContinueStack
      <3> QED
        BY <1>2, <3>1 DEF Has
    <2>2. CASE q = p
      <3>1. PICK i \in DOMAIN stack[p] : stack[p][i].op \in some
        BY <1>2, <2>2 DEF Has
      <3>2. DOMAIN stack[p] = 1 .. Len(stack[p]) /\ Len(stack[p]) \in Nat
        BY DEF Stacks
      <3>3. i # 1
        BY <1>2, <2>2, <3>1, StackAfter
      <3>4. i \in 2 .. Len(stack[p])
        BY <3>2, <3>3
      <3>5. stack'[p][Len(new) + i - 1] = stack[p][i] /\ Len(new) + i - 1 \in DOMAIN stack'[p]
        BY <3>4, StackAfter
      <3> QED
        BY <2>2, <3>1, <3>5 DEF Has
    <2> QED
      BY <2>1, <2>2
  <1> QED
    BY <1>1, <1>2

-----------------------------------------------------------------------------
(* Base flushes are exclusive. *)

(* The critical section of Flush() calls nothing that comes back to the    *)
(* loggers, so that a goroutine in it has it on top of its stack.          *)
LockedOnTop == \A p \in Procs : \A i \in DOMAIN stack[p] :
                 stack[p][i].op \in LockedOps => i = 1
LockInv == TypeOK /\ LockedOnTop /\ FlushExclusive

(* Having something locked is having it on top. *)
LEMMA LockedTop ==
  ASSUME TypeOK, LockedOnTop, NEW p \in Procs
  PROVE  Has(p, LockedOps) <=> stack[p] # <<>> /\ Top(p).op \in LockedOps
  <1>1. stack[p] \in Seq(Task)
    BY DEF TypeOK
  <1>2. stack[p] # <<>> => Top(p) = stack[p][1] /\ 1 \in DOMAIN stack[p]
    BY <1>1 DEF Top
  <1>3. \A i \in DOMAIN stack[p] : stack[p] # <<>>
    BY <1>1
  <1> QED
    BY <1>2, <1>3 DEF LockedOnTop, Has

(* After a step, a goroutine is locked if the first task it pushed is.     *)
LEMMA LockedAfter ==
  ASSUME TypeOK, LockedOnTop, NEW p \in Procs, stack[p] # <<>>,
         NEW new \in Seq(Task), Continue(p, new),
         \A i \in 2 .. Len(new) : new[i].op \notin LockedOps
  PROVE  /\ LockedOnTop'
         /\ Has(p, LockedOps)' => Len(new) > 0 /\ new[1].op \in LockedOps
         /\ \A q \in Procs \ {p} : Has(q, LockedOps)' <=> Has(q, LockedOps)
  <1>t. stack \in Stacks
    BY DEF TypeOK, Stacks
  <1>1. \A q \in Procs \ {p} : stack'[q] = stack[q]
    BY <1>t, ContinueStack
  <1>2. ASSUME NEW i \in DOMAIN stack'[p], stack'[p][i].op \in LockedOps
        PROVE  i = 1 /\ Len(new) > 0 /\ new[1].op \in LockedOps
    <2>1. Len(new) \in Nat /\ DOMAIN new = 1 .. Len(new)
      OBVIOUS
    <2>2. Len(stack[p]) \in Nat /\ DOMAIN stack[p] = 1 .. Len(stack[p])
      BY <1>t DEF Stacks
    <2>3. i \in Int
      <3>1. stack'[p] \in Seq(Task)
        BY <1>t, ContinueStack DEF Stacks
      <3> QED
        BY <3>1
    <2>4. CASE i \in DOMAIN new
      <3>1. stack'[p][i] = new[i]
        BY <1>t, <2>1, <2>4, StackAfter
      <3>2. i \notin 2 .. Len(new)
        BY <1>2, <3>1
      <3> QED
        BY <1>2, <2>1, <2>4, <3>1, <3>2
    <2>5. CASE i - Len(new) + 1 \in 2 .. Len(stack[p])
      <3> DEFINE j == i - Len(new) + 1
      <3>1. stack'[p][Len(new) + j - 1] = stack[p][j]
        BY <1>t, <2>5, StackAfter
      <3>2. Len(new) + j - 1 = i
        BY <2>1, <2>3
      <3>3. j \in DOMAIN stack[p] /\ j # 1
        BY <2>2, <2>5
      <3> QED
        BY <1>2, <3>1, <3>2, <3>3 DEF LockedOnTop
    <2> QED
      BY <1>t, <2>4, <2>5, StackAfter
  <1>3. LockedOnTop'
    BY <1>1, <1>2 DEF LockedOnTop
  <1>4. \A q \in Procs \ {p} : Has(q, LockedOps)' <=> Has(q, LockedOps)
    BY <1>1 DEF Has
  <1> QED
    BY <1>2, <1>3, <1>4 DEF Has

(* The steps of Flush()'s critical section hand the lock from task to task. *)
LEMMA LockStep ==
  ASSUME LockInv, NEW p \in Procs, Step(p)
  PROVE  LockedOnTop' /\ FlushExclusive'
  <1> USE DEF LockInv
  <1>t. stack \in Stacks
    BY DEF TypeOK, Stacks
  <1>r. Request \in Loggers
    BY LifecycleAssumption DEF LifecycleAssumption, Request, Loggers
  <1>l. \A q \in Procs : Has(q, LockedOps) <=> stack[q] # <<>> /\ Top(q).op \in LockedOps
    BY LockedTop
  <1>1. CASE ~Flushing(p)
    <2>1. /\ stack[p] # <<>> /\ Top(p).op \notin LockedOps /\ flushLock' = flushLock
          /\ \E new \in Seq(QuietTask) : Continue(p, new)
      BY <1>1, QuietStep
    <2>2. PICK new \in Seq(QuietTask) : Continue(p, new)
      BY <2>1
    <2>3. /\ new \in Seq(Task)
          /\ \A i \in 1 .. Len(new) : new[i].op \notin LockedOps
      BY DEF QuietTask
    <2>4. LockedOnTop' /\ ~Has(p, LockedOps)'
          /\ \A q \in Procs \ {p} : Has(q, LockedOps)' <=> Has(q, LockedOps)
      <3>1. \A i \in 2 .. Len(new) : new[i].op \notin LockedOps
        BY <2>3
      <3>2. ~(Len(new) > 0 /\ new[1].op \in LockedOps)
        BY <2>3
      <3> QED
        BY <2>1, <2>2, <2>3, <3>1, <3>2, LockedAfter
    <2> QED
      BY <2>1, <2>4 DEF FlushExclusive
  <1>2. CASE FlushLock(p)
    <2> DEFINE new == <<T("Stop", Request, FALSE)>>
    <2>1. stack[p] # <<>> /\ ~flushLock /\ flushLock' = TRUE /\ Continue(p, new)
      BY <1>2 DEF FlushLock, Runs
    <2>2. new \in Seq(Task) /\ \A i \in 2 .. Len(new) : new[i].op \notin LockedOps
      <3>1. "Stop" \in Ops
        BY DEF Ops
      <3>2. T("Stop", Request, FALSE) \in Task
        BY <1>r, <3>1, TaskTyped, Zenon
      <3>3. new \in Seq(Task)
        BY <3>2, SeqTyped, Zenon
      <3>4. Len(new) = 1
        OBVIOUS
      <3>5. 2 .. Len(new) = {}
        BY <3>4
      <3> QED
        BY <3>3, <3>5, Zenon
    <2>3. LockedOnTop' /\ \A q \in Procs \ {p} : Has(q, LockedOps)' <=> Has(q, LockedOps)
      BY <2>1, <2>2, LockedAfter
    <2>4. \A q \in Procs : ~Has(q, LockedOps)
      BY <2>1 DEF FlushExclusive
    <2> QED
      BY <2>1, <2>3, <2>4 DEF FlushExclusive
  <1>3. CASE Stop(p) \/ FlushInactive(p) \/ BaseFlush(p)
    <2>1. PICK op \in {"FlushActive", "baseFlush", "FlushUnlock"} :
            Continue(p, <<T(op, Request, FALSE)>>)
      BY <1>3 DEF Stop, FlushInactive, BaseFlush
    <2> DEFINE new == <<T(op, Request, FALSE)>>
    <2>2. stack[p] # <<>> /\ Top(p).op \in LockedOps /\ flushLock' = flushLock
      BY <1>3 DEF Stop, FlushInactive, BaseFlush, Runs, LockedOps, shared
    <2>3. new \in Seq(Task) /\ \A i \in 2 .. Len(new) : new[i].op \notin LockedOps
      <3>1. op \in Ops
        BY DEF Ops
      <3>2. T(op, Request, FALSE) \in Task
        BY <1>r, <3>1, TaskTyped, Zenon
      <3>3. new \in Seq(Task)
        BY <3>2, SeqTyped, Zenon
      <3>4. Len(new) = 1
        OBVIOUS
      <3>5. 2 .. Len(new) = {}
        BY <3>4
      <3> QED
        BY <3>3, <3>5, Zenon
    <2>4. LockedOnTop' /\ \A q \in Procs \ {p} : Has(q, LockedOps)' <=> Has(q, LockedOps)
      BY <2>1, <2>2, <2>3, LockedAfter
    <2>5. Has(p, LockedOps)
      BY <1>l, <2>2
    <2> QED
      BY <2>2, <2>4, <2>5 DEF FlushExclusive
  <1>4. CASE FlushUnlock(p)
    <2>1. stack[p] # <<>> /\ Top(p).op \in LockedOps /\ Continue(p, <<>>)
      BY <1>4 DEF FlushUnlock, Runs, LockedOps
    <2> DEFINE none == <<>>
    <2>2. /\ none \in Seq(Task) /\ Len(none) = 0
          /\ \A i \in 2 .. Len(none) : none[i].op \notin LockedOps
      OBVIOUS
    <2> HIDE DEF none
    <2>3. LockedOnTop' /\ ~Has(p, LockedOps)'
          /\ \A q \in Procs \ {p} : Has(q, LockedOps)' <=> Has(q, LockedOps)
      <3>1. Continue(p, none)
        BY <2>1 DEF none
      <3>2. /\ LockedOnTop'
            /\ Has(p, LockedOps)' => Len(none) > 0
            /\ \A q \in Procs \ {p} : Has(q, LockedOps)' <=> Has(q, LockedOps)
        BY <2>1, <2>2, <3>1, LockedAfter, Zenon
      <3>3. ~(Len(none) > 0)
        BY <2>2
      <3> QED
        BY <3>2, <3>3, Zenon
    <2>4. \A q \in Procs \ {p} : ~Has(q, LockedOps)
      BY <1>l, <2>1 DEF FlushExclusive
    <2> QED
      BY <2>3, <2>4 DEF FlushExclusive
  <1> QED
    BY <1>1, <1>2, <1>3, <1>4 DEF Flushing

(* Calls of the program, and goroutines that begin, put tasks on an idle   *)
(* stack, none of which is in the critical section.                        *)
LEMMA FreshStack ==
  ASSUME TypeOK, NEW p \in Procs, stack[p] = <<>>, NEW new \in Seq(QuietTask),
         stack' = [stack EXCEPT ![p] = new], NEW some
  PROVE  /\ stack'[p] = new /\ ~Has(p, LockedOps)'
         /\ \A q \in Procs : Has(q, some) => Has(q, some)'
         /\ LockedOnTop => LockedOnTop'
         /\ \A q \in Procs : Has(q, LockedOps)' => Has(q, LockedOps)
  <1>1. stack'[p] = new /\ \A q \in Procs \ {p} : stack'[q] = stack[q]
    BY DEF TypeOK
  <1>2. \A i \in DOMAIN new : new[i].op \notin LockedOps
    BY DEF QuietTask
  <1>3. \A s : ~Has(p, s)
    BY DEF Has
  <1> QED
    BY <1>1, <1>2, <1>3 DEF Has, LockedOnTop

(* A call of the program pushes quiet tasks and leaves the timer, the lock *)
(* and the spawned goroutines alone.                                       *)
LEMMA QuietUser ==
  ASSUME TypeOK, NEW p \in Users, User(p)
  PROVE  /\ stack[p] = <<>>
         /\ \E new \in Seq(QuietTask) : stack' = [stack EXCEPT ![p] = new]
         /\ UNCHANGED <<flushLock, flushActive, armed, spawned>>
  <1>0. PICK l \in Loggers :
          \/ Fork(p, l, FALSE) \/ Fork(p, l, TRUE) \/ SubLogger(p, l)
          \/ Log(p, l) \/ Done(p, l) \/ UserFlush(p, l)
    BY DEF User
  <1>q. \A op \in Ops \ LockedOps, m \in Loggers, b \in BOOLEAN : T(op, m, b) \in QuietTask
    BY QuietTyped
  <1>o. {"newChildLog", "return", "Error", "Boring", "Msg", "hasActivity", "done", "Flush"}
           \subseteq Ops \ LockedOps
    BY DEF Ops, LockedOps
  <1>r. Request \in Loggers
    BY LifecycleAssumption DEF LifecycleAssumption, Request, Loggers
  <1>m. made < MaxLoggers => made + 1 \in Loggers
    BY LifecycleAssumption DEF LifecycleAssumption, TypeOK, Loggers
  <1>c. \A op, tasks : Call(p, op, l, tasks) => stack[p] = <<>> /\ stack' = [stack EXCEPT ![p] = tasks]
    BY DEF Call, Idle
  <1>1. ASSUME NEW d \in BOOLEAN, Fork(p, l, d)
        PROVE  /\ stack[p] = <<>>
               /\ \E new \in Seq(QuietTask) : stack' = [stack EXCEPT ![p] = new]
               /\ UNCHANGED <<shared, spawned>>
    <2>1. <<T("newChildLog", made + 1, FALSE), T("return", made + 1, FALSE)>> \in Seq(QuietTask)
      BY <1>1, <1>m, <1>o, <1>q, QuietSeq, Zenon DEF Fork
    <2> QED
      BY <1>1, <2>1, <1>c, Zenon DEF Fork
  <1>2. CASE SubLogger(p, l)
    <2>1. <<T("hasActivity", made + 1, FALSE), T("return", made + 1, FALSE)>> \in Seq(QuietTask)
      BY <1>2, <1>m, <1>o, <1>q, QuietSeq, Zenon DEF SubLogger
    <2> QED
      BY <1>2, <2>1, <1>c DEF SubLogger, shared
  <1>3. CASE Log(p, l)
    <2>1. /\ <<T("Msg", l, TRUE)>> \in Seq(QuietTask) /\ <<T("Error", l, TRUE)>> \in Seq(QuietTask)
          /\ <<T("Boring", l, FALSE)>> \in Seq(QuietTask)
      BY <1>o, <1>q, QuietSeq, Zenon
    <2> QED
      BY <1>3, <2>1, <1>c DEF Log, shared
  <1>4. CASE Done(p, l)
    <2>1. <<T("Error", l, FALSE)>> \in Seq(QuietTask) /\ <<T("done", l, TRUE)>> \in Seq(QuietTask)
      BY <1>o, <1>q, QuietSeq, Zenon
    <2> QED
      BY <1>4, <2>1, <1>c DEF Done, shared
  <1>5. CASE UserFlush(p, l)
    <2>1. <<T("Flush", Request, FALSE)>> \in Seq(QuietTask)
      BY <1>o, <1>q, <1>r, QuietSeq, Zenon
    <2> QED
      BY <1>5, <2>1, <1>c DEF UserFlush, shared
  <1> QED
    BY <1>0, <1>1, <1>2, <1>3, <1>4, <1>5 DEF shared

(* A goroutine that begins does so with a call of Flush(). *)
LEMMA QuietBegin ==
  ASSUME TypeOK, NEW w \in Flushers, Begin(w)
  PROVE  /\ w \in Procs /\ stack[w] = <<>>
         /\ <<T("Flush", Request, FALSE)>> \in Seq(QuietTask)
         /\ stack' = [stack EXCEPT ![w] = <<T("Flush", Request, FALSE)>>]
         /\ UNCHANGED <<flushLock, flushActive, armed>>
  <1>r. Request \in Loggers
    BY LifecycleAssumption DEF LifecycleAssumption, Request, Loggers
  <1>1. "Flush" \in Ops \ LockedOps
    BY DEF Ops, LockedOps
  <1>2. <<T("Flush", Request, FALSE)>> \in Seq(QuietTask)
    BY <1>r, <1>1, QuietTyped, QuietSeq, Zenon
  <1> QED
    BY <1>2 DEF Begin, Idle, Procs, shared

(* In a new request nothing is locked. *)
LEMMA LockInit == Init => LockInv
  BY TypeInit DEF Init, LockInv, LockedOnTop, FlushExclusive, Has

(* Every step of the system keeps the lock invariant. *)
LEMMA LockNext == LockInv /\ [Next]_vars => LockInv'
  <1> SUFFICES ASSUME LockInv, [Next]_vars PROVE LockInv'
    OBVIOUS
  <1>t. TypeOK /\ LockedOnTop /\ FlushExclusive /\ TypeOK'
    BY TypeNext DEF LockInv
  <1>1. ASSUME NEW p \in Users, User(p) PROVE LockedOnTop' /\ FlushExclusive'
    <2>1. p \in Procs /\ stack[p] = <<>> /\ flushLock' = flushLock
      BY <1>t, <1>1, QuietUser DEF Procs
    <2>2. PICK new \in Seq(QuietTask) : stack' = [stack EXCEPT ![p] = new]
      BY <1>t, <1>1, QuietUser
    <2>3. LockedOnTop' /\ \A q \in Procs : Has(q, LockedOps)' => Has(q, LockedOps)
      BY <1>t, <2>1, <2>2, FreshStack
    <2> QED
      BY <1>t, <2>1, <2>3 DEF FlushExclusive
  <1>2. ASSUME NEW p \in Procs, Step(p) PROVE LockedOnTop' /\ FlushExclusive'
    BY <1>2, LockStep
  <1>3. ASSUME Expire \/ UNCHANGED vars PROVE LockedOnTop' /\ FlushExclusive'
    <2>1. stack' = stack /\ flushLock' = flushLock
      BY <1>3 DEF Expire, vars, control, shared
    <2>2. \A q \in Procs : Has(q, LockedOps)' <=> Has(q, LockedOps)
      BY <2>1 DEF Has
    <2>3. LockedOnTop'
      BY <1>t, <2>1 DEF LockedOnTop
    <2> QED
      BY <1>t, <2>1, <2>2, <2>3, Zenon DEF FlushExclusive
  <1>4. ASSUME NEW w \in Flushers, Begin(w) PROVE LockedOnTop' /\ FlushExclusive'
    <2>1. LockedOnTop' /\ \A q \in Procs : Has(q, LockedOps)' => Has(q, LockedOps)
      BY <1>t, <1>4, QuietBegin, FreshStack
    <2> QED
      BY <1>t, <1>4, <2>1, QuietBegin DEF FlushExclusive
  <1> QED
    BY <1>t, <1>1, <1>2, <1>3, <1>4 DEF Next, LockInv

(* Flushes of the base loggers never overlap (xopbase/base.go:91), however *)
(* Flush(), Done() and the timer race: the part of Flush() that stops the  *)
(* timer, clears FlushActive and flushes is in one goroutine at a time.    *)
THEOREM FlushesExclude == Spec => []FlushExclusive
  <1>1. LockInv => FlushExclusive
    BY DEF LockInv
  <1> QED
    BY <1>1, LockInit, LockNext, PTL DEF Spec

-----------------------------------------------------------------------------
(* FlushActive is backed by the timer. *)

TimerInv == TypeOK /\ TimerFlagBacked

(* Whoever finds FlushActive set, or sets it, can count on the timer or on *)
(* a flush; a step that stops the timer is in a flush that is still going  *)
(* to clear FlushActive.                                                   *)
LEMMA TimerStep ==
  ASSUME TimerInv, NEW p \in Procs, Step(p)
  PROVE  TimerFlagBacked'
  <1>t. TypeOK /\ TimerFlagBacked /\ stack \in Stacks /\ spawned \in Nat
    BY DEF TimerInv, TypeOK, Stacks
  <1>r. Request \in Loggers
    BY LifecycleAssumption DEF LifecycleAssumption, Request, Loggers
  <1>s. \A op \in Ops, m \in Loggers, b \in BOOLEAN : <<T(op, m, b)>> \in Seq(Task)
    BY TaskTyped, SeqTyped, Zenon
  <1>k. ASSUME NEW new \in Seq(Task), Continue(p, new), stack[p] # <<>>,
               Top(p).op \notin FlushComing, UNCHANGED <<flushActive, armed>>,
               spawned' \in Nat, spawned' >= spawned
        PROVE  TimerFlagBacked'
    <2>1. \A q \in Procs : Has(q, FlushComing) => Has(q, FlushComing)'
      BY <1>t, <1>k, HasAfter
    <2>2. spawned > 0 => spawned' > 0
      BY <1>t, <1>k
    <2> QED
      BY <1>t, <1>k, <2>1, <2>2 DEF TimerFlagBacked
  <1>n. ASSUME NEW op \in FlushComing, NEW m \in Loggers, stack[p] # <<>>,
               Continue(p, <<T(op, m, FALSE)>>)
        PROVE  TimerFlagBacked'
    <2>1. op \in Ops
      BY DEF FlushComing, Ops
    <2>2. <<T(op, m, FALSE)>> \in Seq(Task)
      BY <1>s, <2>1
    <2> DEFINE new == <<T(op, m, FALSE)>>
    <2>3. 1 \in 1 .. Len(new) /\ new[1].op = op
      BY DEF T
    <2> HIDE DEF new
    <2>4. \A i \in 1 .. Len(new) : new[i].op \in FlushComing => Has(p, FlushComing)'
      <3>1. new \in Seq(Task) /\ Continue(p, new)
        BY <1>n, <2>2 DEF new
      <3> QED
        BY <1>t, <1>n, <3>1, HasAfter
    <2>5. Has(p, FlushComing)'
      BY <2>3, <2>4
    <2> QED
      BY <2>5, Zenon DEF TimerFlagBacked
  <1>1. CASE ~Flushing(p) /\ ~Reset(p) /\ ~RestartTimer(p) /\ ~Flush(p)
    <2>1. /\ stack[p] # <<>> /\ spawned' >= spawned /\ Top(p).op \notin FlushComing
          /\ UNCHANGED <<flushActive, armed>>
          /\ \E new \in Seq(QuietTask) : Continue(p, new)
      BY <1>1, <1>t, QuietStep
    <2>2. PICK new \in Seq(QuietTask) : Continue(p, new)
      BY <2>1
    <2>3. new \in Seq(Task)
      BY DEF QuietTask
    <2>4. spawned' \in Nat
      BY <1>t, TypeStep DEF TypeOK
    <2> QED
      BY <1>k, <2>1, <2>2, <2>3, <2>4
  <1>2. CASE Reset(p)
    <2>1. armed' = TRUE
      BY <1>2 DEF Reset
    <2> QED
      BY <2>1 DEF TimerFlagBacked
  <1>3. CASE RestartTimer(p)
    <2>1. stack[p] # <<>> /\ Top(p).op \notin FlushComing /\ Top(p).lg \in Loggers
      BY <1>3, <1>t, TopTyped DEF RestartTimer, Runs, FlushComing
    <2>2. CASE flushActive
      <3>1. Continue(p, <<>>) /\ UNCHANGED <<spawned, armed>> /\ flushActive' = TRUE
        BY <1>3, <2>2, Zenon DEF RestartTimer, When
      <3>2. flushActive' = flushActive
        BY <1>t, <2>2, <3>1 DEF TypeOK
      <3>3. spawned' \in Nat /\ spawned' >= spawned
        BY <1>t, <3>1
      <3>4. <<>> \in Seq(Task)
        BY SeqTyped
      <3> QED
        BY <1>k, <2>1, <3>1, <3>2, <3>3, <3>4, Zenon
    <2>3. CASE ~flushActive
      <3>1. Continue(p, <<T("Reset", Top(p).lg, FALSE)>>)
        BY <1>3, <2>3 DEF RestartTimer, When
      <3> QED
        BY <1>n, <2>1, <3>1 DEF FlushComing
    <2> QED
      BY <2>2, <2>3
  <1>4. CASE Flush(p)
    <2> DEFINE lock == T("FlushLock", Request, FALSE)
               rest == <<T("recursiveDone", Request, FALSE), lock>>
    <2>1. stack[p] # <<>>
      BY <1>4 DEF Flush, Runs
    <2>2. PICK order \in Orders(activeDetached) :
            Continue(p, Each("recursiveDone", order, FALSE) \o rest)
      BY <1>4 DEF Flush
    <2> DEFINE first == Each("recursiveDone", order, FALSE)
    <2>3. first \in Seq(Task)
      BY <1>t, OrdersTyped DEF TypeOK, Ops
    <2>4. rest \in Seq(Task) /\ Len(rest) = 2 /\ rest[2] = lock
      BY <1>r, TaskTyped, SeqTyped DEF Ops
    <2>5. lock.op \in FlushComing
      BY DEF T, FlushComing
    <2> HIDE DEF first, rest, lock
    <2> DEFINE new == first \o rest
               last == Len(first) + 2
    <2>6. new \in Seq(Task) /\ Len(new) = Len(first) + Len(rest) /\ Len(first) \in Nat
      <3>1. Len(first) \in Nat
        BY <2>3
      <3> QED
        BY <2>3, <2>4, <3>1, ConcatProperties, Zenon
    <2>7. last \in 1 .. Len(new)
      BY <2>4, <2>6
    <2>8. new[last] = lock
      <3>1. new[last] = rest[last - Len(first)]
        BY <2>3, <2>4, <2>6, ConcatProperties
      <3>2. last - Len(first) = 2
        BY <2>6
      <3> QED
        BY <2>4, <3>1, <3>2
    <2>9. Continue(p, new)
      BY <2>2 DEF first, rest
    <2> HIDE DEF new, last
    <2>10. \A i \in 1 .. Len(new) : new[i].op \in FlushComing => Has(p, FlushComing)'
      BY <1>t, <2>1, <2>6, <2>9, HasAfter
    <2>11. Has(p, FlushComing)'
      BY <2>5, <2>7, <2>8, <2>10
    <2> QED
      BY <2>11, Zenon DEF TimerFlagBacked
  <1>5. CASE FlushLock(p)
    BY <1>5, <1>r, <1>n DEF FlushLock, Runs, FlushComing
  <1>6. CASE Stop(p)
    BY <1>6, <1>r, <1>n DEF Stop, Runs, FlushComing
  <1>7. CASE FlushInactive(p)
    <2>1. flushActive' = FALSE
      BY <1>7 DEF FlushInactive
    <2> QED
      BY <2>1 DEF TimerFlagBacked
  <1>8. CASE BaseFlush(p)
    <2>1. /\ stack[p] # <<>> /\ Top(p).op \notin FlushComing
          /\ Continue(p, <<T("FlushUnlock", Request, FALSE)>>)
          /\ UNCHANGED <<spawned, flushActive, armed>>
      BY <1>8 DEF BaseFlush, Runs, FlushComing, shared
    <2>2. <<T("FlushUnlock", Request, FALSE)>> \in Seq(Task)
      BY <1>r, <1>s DEF Ops
    <2>3. spawned' \in Nat /\ spawned' >= spawned
      BY <1>t, <2>1
    <2> QED
      BY <1>k, <2>1, <2>2, <2>3, Zenon
  <1>9. CASE FlushUnlock(p)
    <2>1. /\ stack[p] # <<>> /\ Top(p).op \notin FlushComing
          /\ Continue(p, <<>>) /\ UNCHANGED <<spawned, flushActive, armed>>
      BY <1>9 DEF FlushUnlock, Runs, FlushComing
    <2>2. <<>> \in Seq(Task)
      BY SeqTyped
    <2>3. spawned' \in Nat /\ spawned' >= spawned
      BY <1>t, <2>1
    <2> QED
      BY <1>k, <2>1, <2>2, <2>3, Zenon
  <1> QED
    BY <1>1, <1>2, <1>3, <1>4, <1>5, <1>6, <1>7, <1>8, <1>9 DEF Flushing

(* In a new request FlushActive is set exactly when the timer runs. *)
LEMMA TimerInit == Init => TimerInv
  BY TypeInit DEF Init, TimerInv, TimerFlagBacked

(* Every step of the system keeps the timer invariant. *)
LEMMA TimerNext == TimerInv /\ [Next]_vars => TimerInv'
  <1> SUFFICES ASSUME TimerInv, [Next]_vars PROVE TimerInv'
    OBVIOUS
  <1>t. TypeOK /\ TimerFlagBacked /\ TypeOK' /\ spawned \in Nat
    BY TypeNext DEF TimerInv, TypeOK
  <1>1. ASSUME NEW p \in Users, User(p) PROVE TimerFlagBacked'
    <2>1. p \in Procs /\ stack[p] = <<>> /\ UNCHANGED <<flushActive, armed, spawned>>
      BY <1>t, <1>1, QuietUser DEF Procs
    <2>2. PICK new \in Seq(QuietTask) : stack' = [stack EXCEPT ![p] = new]
      BY <1>t, <1>1, QuietUser
    <2>3. \A q \in Procs : Has(q, FlushComing) => Has(q, FlushComing)'
      BY <1>t, <2>1, <2>2, FreshStack
    <2> QED
      BY <1>t, <2>1, <2>3 DEF TimerFlagBacked
  <1>2. ASSUME NEW p \in Procs, Step(p) PROVE TimerFlagBacked'
    BY <1>2, TimerStep
  <1>3. ASSUME Expire PROVE TimerFlagBacked'
    <2>1. spawned' > 0
      BY <1>t, <1>3 DEF Expire
    <2> QED
      BY <2>1, Zenon DEF TimerFlagBacked
  <1>4. ASSUME NEW w \in Flushers, Begin(w) PROVE TimerFlagBacked'
    <2>1. w \in Procs /\ stack'[w] = <<T("Flush", Request, FALSE)>>
      BY <1>t, <1>4, QuietBegin DEF TypeOK
    <2>2. Has(w, FlushComing)'
      BY <2>1 DEF Has, FlushComing, T
    <2> QED
      BY <2>1, <2>2 DEF TimerFlagBacked
  <1>5. ASSUME UNCHANGED vars PROVE TimerFlagBacked'
    <2>1. UNCHANGED <<stack, spawned, flushActive, armed>>
      BY <1>5 DEF vars, control, shared
    <2>2. \A q \in Procs : Has(q, FlushComing)' <=> Has(q, FlushComing)
      BY <2>1 DEF Has
    <2> QED
      BY <1>t, <2>1, <2>2, Zenon DEF TimerFlagBacked
  <1> QED
    BY <1>t, <1>1, <1>2, <1>3, <1>4, <1>5 DEF Next, TimerInv

(* A goroutine that reads FlushActive == 1 and therefore does not restart  *)
(* the timer can rely on it: the timer is running, or a flush has yet to   *)
(* take its FlushLock or clear the flag, or a Reset is about to be done.   *)
THEOREM TimerBacksFlag == Spec => []TimerFlagBacked
  <1>1. TimerInv => TimerFlagBacked
    BY DEF TimerInv
  <1> QED
    BY <1>1, TimerInit, TimerNext, PTL DEF Spec

-----------------------------------------------------------------------------
(***************************************************************************)
(* Careful programs: Done() on a logger waits for the calls on what it     *)
(* finishes, nothing is called on a logger that is finished, and no flush  *)
(* comes in between, by Flush() or by the timer. Done() then reaches all   *)
(* and only the spans that it is to reach, and the last one flushes.       *)
(***************************************************************************)

Careful ==
    /\ Joined
    /\ AfterDoneOps = {}
    /\ "flush" \notin UserOps
    /\ Buffered => MaxExpiries = 0

-----------------------------------------------------------------------------
(* The calls in progress, as sets of tasks. *)
Tasks(p) == {stack[p][i] : i \in DOMAIN stack[p]}
Below(p) == {stack[p][i] : i \in DOMAIN stack[p] \ {1}}
Work     == UNION {Tasks(p) : p \in Procs}
Rest(p)  == Below(p) \cup UNION {Tasks(q) : q \in Procs \ {p}}

Made      == 0 .. made
Cover(l)  == info[l].cover
IsSpan(l) == SpanOf(l) = l
Root(l)   == l = Request \/ info[l].detached
Counted(l) == doneCount[l] # 0

(* A span is listed by its parent, or, detached, by the request. *)
InList(l) == l \in IF info[l].detached THEN activeDetached ELSE dependents[SpanOf(Parent(l))]
Unlisted(l) == T("newChildLog", l, FALSE) \in Work

(* What is on a stack: a call on a logger that is not finished, a piece of *)
(* Done() on a span that is, or a piece of the last flush.                 *)
UseOps   == {"newChildLog", "return", "Error", "notBoring", "Boring", "Msg", "hasActivity"}
FirstOps == {"done", "doneCount"}
LaterOps == {"baseDone", "dependents", "retire"}
DoneOps  == FirstOps \cup LaterOps
LastOps  == {"Flush", "recursiveDone", "dependents", "FlushLock"} \cup LockedOps

IsUse(t) ==
    /\ t.op \in UseOps /\ t.lg \in Made
    /\ ~Finished(t.lg)
IsPiece(t) == t.op \in DoneOps /\ t.flag = (t.op # "retire")
IsDone(t) ==
    /\ IsPiece(t) /\ t.lg \in Made
    /\ IsSpan(t.lg) /\ Finished(t.lg)
    /\ Counted(t.lg) <=> t.op \in LaterOps
    /\ t.op # "done" => t.lg \notin knownActive
IsLast(t) == t.op \in LastOps /\ t.lg = Request /\ ~t.flag

(* A piece of Done() from which the dependents of its span are still to come. *)
Cascading(t) == IsPiece(t) /\ t.op \in {"done", "doneCount", "dependents"}

(* Everything is finished and counted, and only a flush is to come.        *)
Over == /\ \A l \in Made : IsSpan(l) => Counted(l)
        /\ \A t \in Work : IsLast(t)
FlushDue ==
    \/ dirty = {}
    \/ spawned > 0
    \/ \E t \in Work : t.op \in {"Flush", "FlushLock", "Stop", "FlushActive", "baseFlush"}

-----------------------------------------------------------------------------
(* The tree of spans, as Fork(), Step() and Logger() make it. *)
TreeInv == \A l \in Made :
    /\ SpanOf(l) \in Made /\ Parent(l) \in Made
    /\ SpanOf(SpanOf(l)) = SpanOf(l)
    /\ Parent(SpanOf(l)) = Parent(l)
    /\ Cover(SpanOf(l)) = Cover(l)
    /\ SpanOf(l) \in Cover(l)
    /\ info[l].nonSpan <=> ~IsSpan(l)
    /\ \A k \in Cover(l) : /\ k \in Made /\ IsSpan(k) /\ k <= SpanOf(l)
                           /\ Cover(k) \subseteq Cover(l)
    /\ IsSpan(l) /\ Root(l) => Cover(l) = {l}
    /\ IsSpan(l) /\ ~Root(l) => /\ Cover(l) = Cover(Parent(l)) \cup {l}
                                /\ SpanOf(Parent(l)) < l
    /\ \E r \in Cover(l) : Root(r)
    /\ \A s \in Cover(l) : s # SpanOf(l) =>
          \E k \in Cover(l) : ~Root(k) /\ SpanOf(Parent(k)) = s
RequestInv == SpanOf(Request) = Request /\ ~info[Request].detached

(* What is known of a span: what is not finished is active, and what is    *)
(* counted is finished and is active no more.                              *)
SpanInv ==
    /\ asked \subseteq {l \in Made : IsSpan(l)}
    /\ \A l \in Loggers : Counted(l) => l \in Made /\ IsSpan(l) /\ Finished(l) /\ l \notin knownActive
    /\ \A l \in Made : ~Finished(l) => SpanOf(l) \in knownActive
    /\ armed => MaxExpiries = 0

(* What the stacks hold. *)
TaskInv ==
    /\ \A t \in Work : IsUse(t) \/ IsDone(t) \/ IsLast(t)
    /\ \A w \in Flushers : \A t \in Tasks(w) : IsLast(t)
    /\ spawned > 0 \/ (\E t \in Work : IsLast(t)) => Over

(* A logger that is being made is on the one stack of the call that makes  *)
(* it, and what it was forked from is not finished and has been returned.  *)
MakeInv ==
    /\ \A l \in Made : l \in live \/ T("return", l, FALSE) \in Work
    /\ live \subseteq Made
    /\ \A l \in live : \A k \in Cover(l) : ~Unlisted(k)
    /\ \A p \in Procs : \A t \in Tasks(p) :
          /\ t.op \in {"newChildLog", "return"} => ~t.flag
          /\ t.op = "newChildLog" => /\ IsSpan(t.lg) /\ t.lg # Request /\ ~Counted(t.lg)
                                     /\ Parent(t.lg) \in live
                                     /\ T("return", t.lg, FALSE) \in Tasks(p)
          /\ t.op = "return" => /\ \A k \in Cover(t.lg) \ {t.lg} : ~Unlisted(k)
                                /\ IsSpan(t.lg) => ~Finished(Parent(t.lg))

(* Who lists whom: a span from its registration until it has retired, and  *)
(* then nothing of Done() is going on under it.                            *)
ListInv ==
    /\ \A l \in activeDetached : l \in Made /\ IsSpan(l) /\ info[l].detached
    /\ \A s \in Loggers : \A l \in dependents[s] :
          l \in Made /\ IsSpan(l) /\ ~Root(l) /\ SpanOf(Parent(l)) = s
    /\ \A l \in Made \ {Request} : IsSpan(l) =>
          /\ ~Counted(l) => InList(l) \/ Unlisted(l)
          /\ Counted(l) /\ InList(l) => T("retire", l, FALSE) \in Work
          /\ Counted(l) /\ ~InList(l) => \A t \in Work : IsPiece(t) => l \notin Cover(t.lg)

(* How the pieces of Done() lie on one stack (t above u) and on two: who   *)
(* is at work on a span is under nobody who is still to come to it.        *)
Nested(t, u) ==
    /\ u.op # "newChildLog"
    /\ IsPiece(t) /\ IsPiece(u) =>
          /\ t.lg \in Cover(u.lg) =>
                /\ t.lg = u.lg
                /\ <<t.op, u.op>> \in {<<"baseDone", "dependents">>, <<"baseDone", "retire">>,
                                       <<"dependents", "retire">>}
          /\ u.lg \in Cover(t.lg) /\ u.lg # t.lg => u.op = "retire"
Parted(t, u) ==
    /\ {t.op, u.op} \subseteq {"newChildLog", "return"} => t.lg # u.lg
    /\ IsPiece(t) /\ IsPiece(u) => t.lg \notin Cover(u.lg)
StackInv ==
    /\ \A p \in Procs : \A i, j \in DOMAIN stack[p] : i < j => Nested(stack[p][i], stack[p][j])
    /\ \A p, q \in Procs : p # q => \A t \in Tasks(p), u \in Tasks(q) : Parted(t, u)

(* Done() was called on k, or has been at work there: it is still to come  *)
(* to whatever is not counted under k.                                     *)
CascadeInv == \A l \in Made : IsSpan(l) /\ ~Counted(l) =>
    \A k \in Cover(l) : k \in asked \/ Counted(k) =>
        \E t \in Work : Cascading(t) /\ t.lg \in Cover(l) /\ k \in Cover(t.lg)

(* What becomes of the request: it waits for the detached loggers, has yet *)
(* to retire, or a flush has come or is coming.                            *)
RequestDoneInv ==
    /\ waiting => /\ Counted(Request) /\ dependents[Request] = {} /\ activeDetached # {}
                  /\ \A t \in Work : IsPiece(t) => Request \notin Cover(t.lg)
    /\ Counted(Request) => \/ waiting
                           \/ T("retire", Request, FALSE) \in Work
                           \/ Over /\ FlushDue

(* What the base has. *)
BaseInv ==
    /\ final \subseteq {l \in Made : Finished(l)}
    /\ undated \subseteq dirty
    /\ \A l \in undated : /\ l \in Made /\ IsSpan(l)
                          /\ Counted(l) => T("baseDone", l, TRUE) \in Work
    /\ NoFalseAlarm

CarefulInv ==
    /\ TypeOK /\ TreeInv /\ RequestInv /\ SpanInv /\ TaskInv /\ MakeInv /\ ListInv
    /\ StackInv /\ CascadeInv /\ RequestDoneInv /\ BaseInv

-----------------------------------------------------------------------------
(* How the calls in progress change. *)
Pieces(new) == {new[i] : i \in DOMAIN new}

(* A step replaces the task on top of a stack by others. *)
LEMMA StepWork ==
  ASSUME TypeOK, NEW p \in Procs, stack[p] # <<>>, NEW new \in Seq(Task), Continue(p, new)
  PROVE  /\ Top(p) \in Tasks(p) /\ Tasks(p) = {Top(p)} \cup Below(p)
         /\ Work = {Top(p)} \cup Rest(p)
         /\ Work' = Pieces(new) \cup Rest(p)
         /\ Tasks(p)' = Pieces(new) \cup Below(p)
         /\ \A q \in Procs \ {p} : Tasks(q)' = Tasks(q)
  <1>t. stack \in Stacks /\ stack[p] \in Seq(Task)
    BY DEF TypeOK, Stacks
  <1>1. Top(p) = stack[p][1] /\ 1 \in DOMAIN stack[p]
    BY <1>t, StackAfter
  <1>2. Tasks(p) = {Top(p)} \cup Below(p)
    BY <1>1 DEF Tasks, Below
  <1>3. \A q \in Procs \ {p} : Tasks(q)' = Tasks(q)
    BY <1>t, ContinueStack DEF Tasks
  <1>4. Tasks(p)' = Pieces(new) \cup Below(p)
    <2>d. /\ DOMAIN stack[p] = 1 .. Len(stack[p]) /\ Len(stack[p]) \in Nat
          /\ DOMAIN new = 1 .. Len(new) /\ Len(new) \in Nat
      BY <1>t
    <2>e. stack'[p] \in Seq(Task) /\ DOMAIN stack'[p] = 1 .. Len(stack'[p])
      BY <1>t, ContinueStack DEF Stacks
    <2>1. ASSUME NEW i \in DOMAIN stack'[p] PROVE stack'[p][i] \in Pieces(new) \cup Below(p)
      <3>1. CASE i \in DOMAIN new
        BY <1>t, <2>d, <3>1, StackAfter DEF Pieces
      <3>2. CASE i - Len(new) + 1 \in 2 .. Len(stack[p])
        <4> DEFINE j == i - Len(new) + 1
        <4>1. stack'[p][Len(new) + j - 1] = stack[p][j]
          BY <1>t, <3>2, StackAfter
        <4>2. Len(new) + j - 1 = i /\ j \in DOMAIN stack[p] \ {1}
          BY <2>d, <2>e, <3>2
        <4> QED
          BY <4>1, <4>2 DEF Below
      <3> QED
        BY <1>t, <3>1, <3>2, StackAfter
    <2>2. ASSUME NEW i \in DOMAIN new PROVE new[i] \in Tasks(p)'
      BY <1>t, <2>d, StackAfter DEF Tasks
    <2>3. ASSUME NEW i \in DOMAIN stack[p] \ {1} PROVE stack[p][i] \in Tasks(p)'
      <3>1. i \in 2 .. Len(stack[p])
        BY <2>d
      <3>2. stack'[p][Len(new) + i - 1] = stack[p][i] /\ Len(new) + i - 1 \in DOMAIN stack'[p]
        BY <1>t, <3>1, StackAfter
      <3> QED
        BY <3>2 DEF Tasks
    <2>4. Tasks(p)' \subseteq Pieces(new) \cup Below(p)
      BY <2>1 DEF Tasks
    <2>5. Pieces(new) \cup Below(p) \subseteq Tasks(p)'
      BY <2>2, <2>3 DEF Pieces, Below
    <2> QED
      BY <2>4, <2>5
  <1>5. Work = {Top(p)} \cup Rest(p)
    BY <1>2 DEF Work, Rest
  <1>6. Work' = Pieces(new) \cup Rest(p)
    BY <1>3, <1>4 DEF Work, Rest
  <1> QED
    BY <1>1, <1>2, <1>3, <1>4, <1>5, <1>6

(* A call puts tasks on an empty stack. *)
LEMMA CallWork ==
  ASSUME TypeOK, NEW p \in Procs, stack[p] = <<>>, NEW new \in Seq(Task),
         stack' = [stack EXCEPT ![p] = new]
  PROVE  /\ Tasks(p) = {} /\ Tasks(p)' = Pieces(new)
         /\ Work' = Work \cup Pieces(new)
         /\ \A q \in Procs \ {p} : Tasks(q)' = Tasks(q)
  <1>1. stack'[p] = new /\ \A q \in Procs \ {p} : stack'[q] = stack[q]
    BY DEF TypeOK
  <1>2. Tasks(p) = {}
    BY DEF Tasks
  <1>3. Tasks(p)' = Pieces(new)
    BY <1>1 DEF Tasks, Pieces
  <1>4. \A q \in Procs \ {p} : Tasks(q)' = Tasks(q)
    BY <1>1 DEF Tasks
  <1> QED
    BY <1>2, <1>3, <1>4 DEF Work

(* What has to be shown of the new tasks for the stacks to stay in order. *)
LEMMA StepStackInv ==
  ASSUME TypeOK, NEW p \in Procs, stack[p] # <<>>, NEW new \in Seq(Task), Continue(p, new),
         StackInv,
         \A t, u \in Rest(p) : (Nested(t, u) => Nested(t, u)') /\ (Parted(t, u) => Parted(t, u)'),
         \A i, j \in DOMAIN new : i < j => Nested(new[i], new[j])',
         \A t \in Pieces(new) : \A u \in Below(p) : Nested(t, u)',
         \A t \in Pieces(new) : \A q \in Procs \ {p} : \A u \in Tasks(q) : Parted(t, u)' /\ Parted(u, t)'
  PROVE  StackInv'
  <1>t. stack \in Stacks /\ stack[p] \in Seq(Task)
    BY DEF TypeOK, Stacks
  <1>d. /\ DOMAIN stack[p] = 1 .. Len(stack[p]) /\ Len(stack[p]) \in Nat
        /\ DOMAIN new = 1 .. Len(new) /\ Len(new) \in Nat
    BY <1>t
  <1>e. stack'[p] \in Seq(Task) /\ DOMAIN stack'[p] = 1 .. Len(stack'[p]) /\ Len(stack'[p]) \in Nat
    BY <1>t, ContinueStack DEF Stacks
  <1>1. ASSUME NEW i \in DOMAIN stack'[p], NEW j \in DOMAIN stack'[p], i < j
        PROVE  Nested(stack[p][i], stack[p][j])'
    <2>1. CASE i \in DOMAIN new /\ j \in DOMAIN new
      <3>1. stack'[p][i] = new[i] /\ stack'[p][j] = new[j]
        BY <1>t, <1>d, <2>1, StackAfter
      <3>2. Nested(new[i], new[j])'
        BY <1>1, <2>1
      <3> QED
        BY <3>1, <3>2
    <2>2. ASSUME NEW k \in DOMAIN stack'[p], k - Len(new) + 1 \in 2 .. Len(stack[p])
          PROVE  /\ stack'[p][k] = stack[p][k - Len(new) + 1]
                 /\ k - Len(new) + 1 \in DOMAIN stack[p]
                 /\ stack'[p][k] \in Below(p) /\ stack'[p][k] \in Rest(p)
      <3> DEFINE m == k - Len(new) + 1
      <3>1. stack'[p][Len(new) + m - 1] = stack[p][m]
        BY <1>t, <2>2, StackAfter
      <3>2. Len(new) + m - 1 = k /\ m \in DOMAIN stack[p] \ {1}
        BY <1>d, <1>e, <2>2
      <3> QED
        BY <3>1, <3>2 DEF Below, Rest
    <2>3. CASE i \in DOMAIN new /\ j - Len(new) + 1 \in 2 .. Len(stack[p])
      <3>1. stack'[p][i] = new[i] /\ new[i] \in Pieces(new)
        BY <1>t, <1>d, <2>3, StackAfter DEF Pieces
      <3> QED
        BY <2>2, <2>3, <3>1
    <2>4. CASE i - Len(new) + 1 \in 2 .. Len(stack[p]) /\ j - Len(new) + 1 \in 2 .. Len(stack[p])
      <3>1. i - Len(new) + 1 < j - Len(new) + 1
        BY <1>1, <1>d, <1>e
      <3>2. Nested(stack'[p][i], stack'[p][j])
        BY <2>2, <2>4, <3>1 DEF StackInv
      <3>3. stack'[p][i] \in Rest(p) /\ stack'[p][j] \in Rest(p)
        BY <2>2, <2>4
      <3> QED
        BY <3>2, <3>3
    <2>5. CASE i - Len(new) + 1 \in 2 .. Len(stack[p]) /\ j \in DOMAIN new
      BY <1>1, <1>d, <1>e, <2>5
    <2> QED
      BY <1>t, <2>1, <2>3, <2>4, <2>5, StackAfter
  <1>2. \A q \in Procs : \A i, j \in DOMAIN stack'[q] : i < j => Nested(stack[q][i], stack[q][j])'
    <2> TAKE q \in Procs
    <2>1. CASE q = p
      BY <1>1, <2>1
    <2>2. CASE q # p
      <3>1. stack'[q] = stack[q]
        BY <1>t, <2>2, ContinueStack
      <3>2. \A i \in DOMAIN stack[q] : stack[q][i] \in Rest(p)
        BY <2>2 DEF Rest, Tasks
      <3> QED
        BY <3>1, <3>2 DEF StackInv
    <2> QED
      BY <2>1, <2>2
  <1>3. \A q, r \in Procs : q # r => \A t \in Tasks(q)', u \in Tasks(r)' : Parted(t, u)'
    <2> SUFFICES ASSUME NEW q \in Procs, NEW r \in Procs, q # r, NEW t \in Tasks(q)', NEW u \in Tasks(r)'
                 PROVE  Parted(t, u)'
      OBVIOUS
    <2>1. /\ \A k \in Procs \ {p} : Tasks(k)' = Tasks(k) /\ Tasks(k) \subseteq Rest(p)
          /\ Tasks(p)' = Pieces(new) \cup Below(p) /\ Below(p) \subseteq Rest(p) /\ Below(p) \subseteq Tasks(p)
      BY StepWork DEF Rest
    <2>2. CASE q # p /\ r # p
      BY <2>1, <2>2 DEF StackInv
    <2>3. CASE q = p
      BY <2>1, <2>3 DEF StackInv
    <2>4. CASE r = p
      BY <2>1, <2>4 DEF StackInv
    <2> QED
      BY <2>2, <2>3, <2>4
  <1> QED
    BY <1>2, <1>3 DEF StackInv

(* The three kinds of tasks exclude each other. *)
LEMMA Kinds ==
  ASSUME NEW t
  PROVE  /\ IsUse(t) => ~IsDone(t) /\ ~IsLast(t) /\ ~IsPiece(t)
         /\ IsDone(t) => IsPiece(t)
         /\ IsPiece(t) => ~IsLast(t)
  BY DEF IsUse, IsDone, IsLast, IsPiece, UseOps, DoneOps, FirstOps, LaterOps, LastOps, LockedOps

(* While anything but a flush is going on, nothing of a flush is. *)
LEMMA NotOver ==
  ASSUME CarefulInv, NEW t \in Work, ~IsLast(t)
  PROVE  /\ ~Over /\ spawned = 0
         /\ \A u \in Work : ~IsLast(u)
         /\ \A w \in Flushers : Tasks(w) = {}
  <1>1. ~Over
    BY DEF Over
  <1>2. spawned = 0 /\ \A u \in Work : ~IsLast(u)
    BY <1>1 DEF CarefulInv, TaskInv, TypeOK
  <1>3. \A w \in Flushers : Tasks(w) \subseteq Work
    BY DEF Work, Procs
  <1> QED
    BY <1>1, <1>2, <1>3 DEF CarefulInv, TaskInv

(* What a step that makes no logger leaves of the tree. *)
LEMMA TreeFrame ==
  ASSUME UNCHANGED tree
  PROVE  /\ Made' = Made /\ info' = info
         /\ \A l : /\ SpanOf(l)' = SpanOf(l) /\ Parent(l)' = Parent(l) /\ Cover(l)' = Cover(l)
                   /\ IsSpan(l)' <=> IsSpan(l)
                   /\ Root(l)' <=> Root(l)
         /\ \A t, u : (Nested(t, u)' <=> Nested(t, u)) /\ (Parted(t, u)' <=> Parted(t, u))
         /\ TreeInv => TreeInv'
         /\ RequestInv => RequestInv'
  <1>1. made' = made /\ info' = info
    BY DEF tree
  <1>2. Made' = Made
    BY <1>1 DEF Made
  <1>3. \A l : /\ SpanOf(l)' = SpanOf(l) /\ Parent(l)' = Parent(l) /\ Cover(l)' = Cover(l)
               /\ IsSpan(l)' <=> IsSpan(l)
               /\ Root(l)' <=> Root(l)
    BY <1>1 DEF SpanOf, Parent, Cover, IsSpan, Root
  <1>4. \A t, u : (Nested(t, u)' <=> Nested(t, u)) /\ (Parted(t, u)' <=> Parted(t, u))
    BY <1>3 DEF Nested, Parted, IsPiece
  <1>5. TreeInv => TreeInv'
    BY <1>1 DEF TreeInv, Made, SpanOf, Parent, Cover, IsSpan, Root
  <1>6. RequestInv => RequestInv'
    BY <1>1 DEF RequestInv, SpanOf
  <1> QED
    BY <1>1, <1>2, <1>3, <1>4, <1>5, <1>6

(* Done() on a span finishes whatever is under it. *)
LEMMA FinishedDown ==
  ASSUME TypeOK, TreeInv, NEW l \in Made
  PROVE  /\ \A k \in Cover(l) : Finished(k) => Finished(l)
         /\ Finished(SpanOf(l)) <=> Finished(l)
         /\ l \in Loggers /\ SpanOf(l) \in Cover(l)
  <1>1. \A k : Finished(k) <=> Cover(k) \cap asked # {}
    BY DEF Finished, Cover
  <1>2. \A k \in Cover(l) : Cover(k) \subseteq Cover(l)
    BY DEF TreeInv
  <1>3. Cover(SpanOf(l)) = Cover(l) /\ SpanOf(l) \in Cover(l)
    BY DEF TreeInv
  <1>4. l \in Loggers
    BY LifecycleAssumption DEF LifecycleAssumption, TypeOK, Made, Loggers
  <1> QED
    BY <1>1, <1>2, <1>3, <1>4

(* A logger that is not finished is under nothing that is. *)
LEMMA NotFinished ==
  ASSUME CarefulInv, NEW l \in Made, ~Finished(l)
  PROVE  /\ \A k \in Cover(l) : ~Counted(k) /\ k \notin asked
         /\ ~Counted(SpanOf(l)) /\ ~Over
         /\ SpanOf(l) \in knownActive
  <1>t. TypeOK /\ TreeInv /\ SpanInv
    BY DEF CarefulInv
  <1>1. ASSUME NEW k \in Cover(l) PROVE ~Counted(k) /\ k \notin asked
    <2>1. k \in Made /\ k \in Loggers
      BY <1>t, FinishedDown DEF TreeInv
    <2>2. ~Counted(k)
      BY <1>t, <2>1, FinishedDown DEF SpanInv
    <2>3. k \notin asked
      BY DEF Finished, Cover
    <2> QED
      BY <2>2, <2>3
  <1>2. SpanOf(l) \in Cover(l) /\ SpanOf(l) \in Made /\ IsSpan(SpanOf(l))
    BY <1>t DEF TreeInv, IsSpan
  <1> QED
    BY <1>t, <1>1, <1>2 DEF SpanInv, Over

(* A step that neither makes nor returns a logger leaves those that are    *)
(* being made alone.                                                       *)
LEMMA MakeKeep ==
  ASSUME MakeInv, UNCHANGED <<tree, live>>,
         \A q \in Procs : \A t : t.op \in {"newChildLog", "return"} =>
            (t \in Tasks(q)' <=> t \in Tasks(q)),
         \A t \in Work : t.op = "newChildLog" => ~Counted(t.lg)',
         \A t \in Work : t.op = "return" => (Finished(Parent(t.lg))' => Finished(Parent(t.lg)))
  PROVE  MakeInv'
  <1>f. \A q \in Procs : \A t : t.op \in {"newChildLog", "return"} =>
            (t \in Tasks(q)' <=> t \in Tasks(q))
    OBVIOUS
  <1>w. \A t : t.op \in {"newChildLog", "return"} => (t \in Work' <=> t \in Work)
    BY <1>f DEF Work
  <1>u. \A l : Unlisted(l)' <=> Unlisted(l)
    BY <1>w DEF Unlisted, T
  <1>r. \A l : T("return", l, FALSE).op = "return"
    BY DEF T
  <1>v. \A l : T("return", l, FALSE) \in Work' <=> T("return", l, FALSE) \in Work
    <2> TAKE l
    <2> DEFINE t == T("return", l, FALSE)
    <2>1. t.op = "return"
      BY <1>r
    <2> HIDE DEF t
    <2>2. t \in Work' <=> t \in Work
      BY <1>w, <2>1
    <2> QED
      BY <2>2 DEF t
  <1>1. \A t \in Work : t.op = "return" => (Finished(Parent(t.lg))' => Finished(Parent(t.lg)))
    OBVIOUS
  <1>2. \A l \in Made' : l \in live' \/ T("return", l, FALSE) \in Work'
    <2>1. Made' = Made /\ live' = live
      BY TreeFrame
    <2> QED
      BY <1>v, <2>1 DEF MakeInv
  <1>3. live' \subseteq Made' /\ \A l \in live' : \A k \in Cover(l)' : ~Unlisted(k)'
    BY <1>u, TreeFrame DEF MakeInv
  <1>4. ASSUME NEW q \in Procs, NEW t \in Tasks(q)'
        PROVE  /\ t.op \in {"newChildLog", "return"} => ~t.flag
               /\ t.op = "newChildLog" => /\ IsSpan(t.lg)' /\ t.lg # Request /\ ~Counted(t.lg)'
                                          /\ Parent(t.lg)' \in live'
                                          /\ T("return", t.lg, FALSE) \in Tasks(q)'
               /\ t.op = "return" => /\ \A k \in Cover(t.lg)' \ {t.lg} : ~Unlisted(k)'
                                     /\ IsSpan(t.lg)' => ~Finished(Parent(t.lg))'
    <2>1. CASE t.op \in {"newChildLog", "return"}
      <3>1. t \in Tasks(q) /\ t \in Work
        BY <1>f, <2>1, <1>4 DEF Work
      <3> QED
        <4>1. /\ t.op \in {"newChildLog", "return"} => ~t.flag
              /\ t.op = "newChildLog" => /\ IsSpan(t.lg) /\ t.lg # Request
                                         /\ Parent(t.lg) \in live
                                         /\ T("return", t.lg, FALSE) \in Tasks(q)
              /\ t.op = "return" => /\ \A k \in Cover(t.lg) \ {t.lg} : ~Unlisted(k)
                                    /\ IsSpan(t.lg) => ~Finished(Parent(t.lg))
          BY <3>1 DEF MakeInv
        <4>2. /\ IsSpan(t.lg)' <=> IsSpan(t.lg)
              /\ Parent(t.lg)' = Parent(t.lg)
              /\ Cover(t.lg)' = Cover(t.lg)
              /\ live' = live
          BY TreeFrame
        <4>3. T("return", t.lg, FALSE) \in Tasks(q) => T("return", t.lg, FALSE) \in Tasks(q)'
          <5> DEFINE u == T("return", t.lg, FALSE)
          <5>1. u.op = "return"
            BY <1>r
          <5> HIDE DEF u
          <5>2. u \in Tasks(q) => u \in Tasks(q)'
            BY <1>f, <5>1
          <5> QED
            BY <5>2 DEF u
        <4> QED
          BY <1>u, <1>1, <3>1, <4>1, <4>2, <4>3
    <2> QED
      BY <2>1
  <1> QED
    BY <1>2, <1>3, <1>4 DEF MakeInv

(* A step of a call does as much. *)
LEMMA MakeFrame ==
  ASSUME TypeOK, MakeInv, NEW p \in Procs, stack[p] # <<>>, NEW new \in Seq(Task),
         Continue(p, new), UNCHANGED <<tree, live, asked>>,
         Top(p).op \notin {"newChildLog", "return"},
         \A t \in Pieces(new) : t.op \notin {"newChildLog", "return"},
         \A t \in Work : t.op = "newChildLog" => ~Counted(t.lg)'
  PROVE  MakeInv'
  <1>1. \A q \in Procs : \A t : t.op \in {"newChildLog", "return"} =>
            (t \in Tasks(q)' <=> t \in Tasks(q))
    BY StepWork
  <1>2. \A l : Finished(Parent(l))' <=> Finished(Parent(l))
    BY DEF Finished, Parent, tree
  <1> QED
    BY <1>1, <1>2, MakeKeep

(* A step that is not part of a flush, and does not end in one. *)
LEMMA TaskFrame ==
  ASSUME CarefulInv, NEW p \in Procs, stack[p] # <<>>, NEW new \in Seq(Task),
         Continue(p, new), ~IsLast(Top(p)), spawned' = spawned,
         \A t \in Rest(p) : (IsUse(t) => IsUse(t)') /\ (IsDone(t) => IsDone(t)'),
         \A t \in Pieces(new) : IsUse(t)' \/ IsDone(t)'
  PROVE  TaskInv'
  <1>t. TypeOK /\ TaskInv
    BY DEF CarefulInv
  <1>1. /\ Top(p) \in Work /\ Top(p) \in Tasks(p) /\ Rest(p) \subseteq Work
        /\ Work' = Pieces(new) \cup Rest(p)
        /\ \A q \in Procs \ {p} : Tasks(q)' = Tasks(q)
    BY <1>t, StepWork
  <1>2. spawned = 0 /\ (\A u \in Work : ~IsLast(u)) /\ \A w \in Flushers : Tasks(w) = {}
    BY <1>1, NotOver
  <1>3. \A t \in Work' : IsUse(t)' \/ IsDone(t)'
    BY <1>t, <1>1, <1>2 DEF TaskInv
  <1>4. \A t \in Work' : ~IsLast(t)'
    <2>1. \A t : /\ IsUse(t)' => ~IsLast(t)'
                 /\ IsDone(t)' => ~IsLast(t)'
      BY DEF IsUse, IsDone, IsLast, IsPiece, UseOps, DoneOps, FirstOps, LaterOps, LastOps, LockedOps
    <2> QED
      BY <1>3, <2>1
  <1>5. \A w \in Flushers : Tasks(w)' = {}
    BY <1>1, <1>2 DEF Procs
  <1>6. spawned' = 0
    BY <1>2
  <1>7. ~(spawned' > 0)
    BY <1>6
  <1>8. ~(\E t \in Work' : IsLast(t)')
    BY <1>4
  <1> QED
    BY <1>3, <1>5, <1>7, <1>8 DEF TaskInv

(* What a task is made of. *)
LEMMA TaskParts ==
  \A op, l, f : T(op, l, f).op = op /\ T(op, l, f).lg = l /\ T(op, l, f).flag = f
  BY DEF T

(* A task is its operation, its logger and its flag. *)
LEMMA TaskWhole == \A t \in Task : t = T(t.op, t.lg, t.flag)
  BY DEF T, Task

(* The tasks of short sequences. *)
LEMMA ShortPieces ==
  /\ Pieces(<<>>) = {}
  /\ \A a : Pieces(<<a>>) = {a}
  /\ \A a, b : Pieces(<<a, b>>) = {a, b}
  /\ \A a, b, c : Pieces(<<a, b, c>>) = {a, b, c}
  BY DEF Pieces

(* A sequence of one has one place. *)
LEMMA OneLong == \A a : DOMAIN <<a>> = {1}
  OBVIOUS

(* Short sequences of tasks one after the other. *)
LEMMA ShortConcat ==
  ASSUME NEW a \in Task, NEW b \in Task, NEW c \in Task
  PROVE  /\ <<>> \o <<c>> = <<c>>
         /\ <<a, b>> \o <<>> = <<a, b>>
         /\ <<a, b>> \o <<c>> = <<a, b, c>>
  <1> DEFINE s == <<a, b>> \o <<c>>
             t == <<a, b, c>>
  <1>1. <<a, b>> \in Seq(Task) /\ <<c>> \in Seq(Task) /\ t \in Seq(Task)
    BY SeqTyped
  <1>2. s \in Seq(Task) /\ Len(s) = 3 /\ s[1] = a /\ s[2] = b /\ s[3] = c
    BY <1>1, ConcatProperties
  <1>3. Len(t) = 3 /\ t[1] = a /\ t[2] = b /\ t[3] = c
    OBVIOUS
  <1>4. <<>> \o <<c>> = <<c>> /\ <<a, b>> \o <<>> = <<a, b>>
    BY <1>1, ConcatEmptySeq
  <1> HIDE DEF s, t
  <1>5. \A i \in 1 .. 3 : s[i] = t[i]
    BY <1>2, <1>3
  <1>6. s = t
    BY <1>1, <1>2, <1>3, <1>5, SeqEqual
  <1> QED
    BY <1>4, <1>6 DEF s, t

(* While nothing is finished, retired or counted, tasks stay what they are. *)
LEMMA SpanFrame ==
  ASSUME UNCHANGED <<tree, knownActive, doneCount, asked>>
  PROVE  /\ \A l : (Finished(l)' <=> Finished(l)) /\ (Counted(l)' <=> Counted(l))
         /\ \A t : /\ IsUse(t)' <=> IsUse(t)
                   /\ IsDone(t)' <=> IsDone(t)
         /\ SpanInv /\ (armed' => armed) => SpanInv'
  <1>1. \A l : (Finished(l)' <=> Finished(l)) /\ (Counted(l)' <=> Counted(l))
    BY DEF Finished, Counted, tree
  <1>2. \A t : IsUse(t)' <=> IsUse(t)
    BY <1>1, TreeFrame DEF IsUse
  <1>3. \A t : IsDone(t)' <=> IsDone(t)
    BY <1>1, TreeFrame DEF IsDone, IsPiece
  <1>4. ASSUME SpanInv, armed' => armed PROVE SpanInv'
    BY <1>1, <1>4, TreeFrame DEF SpanInv
  <1> QED
    BY <1>1, <1>2, <1>3, <1>4

(* Who is listed stays listed, and no new piece of Done() is under a span  *)
(* that none was under.                                                    *)
LEMMA ListFrame ==
  ASSUME ListInv, UNCHANGED <<tree, doneCount, dependents, activeDetached>>,
         \A t \in Work : t.op \in {"retire", "newChildLog"} => t \in Work',
         \A t \in Work' : IsPiece(t) => \A l \in Cover(t.lg) : Counted(l) =>
             \E u \in Work : IsPiece(u) /\ l \in Cover(u.lg)
  PROVE  ListInv'
  <1>c. \A l : Counted(l)' <=> Counted(l)
    BY DEF Counted
  <1>u. \A l : /\ Unlisted(l) => Unlisted(l)'
               /\ T("retire", l, FALSE) \in Work => T("retire", l, FALSE) \in Work'
    <2>1. ASSUME NEW t, t.op \in {"retire", "newChildLog"}, t \in Work
          PROVE  t \in Work'
      BY <2>1
    <2>2. \A l : T("newChildLog", l, FALSE).op = "newChildLog" /\ T("retire", l, FALSE).op = "retire"
      BY TaskParts
    <2>3. ASSUME NEW l, NEW t, t = T("newChildLog", l, FALSE) \/ t = T("retire", l, FALSE), t \in Work
          PROVE  t \in Work'
      BY <2>1, <2>2, <2>3
    <2> QED
      BY <2>3, Zenon DEF Unlisted
  <1>i. \A l : InList(l)' <=> InList(l)
    BY TreeFrame DEF InList, SpanOf, Parent
  <1>1. \A l \in activeDetached' : l \in Made' /\ IsSpan(l)' /\ info'[l].detached
    BY TreeFrame DEF ListInv
  <1>2. \A s \in Loggers : \A l \in dependents'[s] :
          l \in Made' /\ IsSpan(l)' /\ ~Root(l)' /\ SpanOf(Parent(l))' = s
    <2>1. \A l : SpanOf(Parent(l))' = SpanOf(Parent(l))
      BY DEF SpanOf, Parent, tree
    <2> QED
      BY <2>1, TreeFrame DEF ListInv
  <1>3. ASSUME NEW l \in Made' \ {Request}, IsSpan(l)'
        PROVE  /\ ~Counted(l)' => InList(l)' \/ Unlisted(l)'
               /\ Counted(l)' /\ InList(l)' => T("retire", l, FALSE) \in Work'
               /\ Counted(l)' /\ ~InList(l)' => \A t \in Work' : IsPiece(t)' => l \notin Cover(t.lg)'
    <2>1. l \in Made \ {Request} /\ IsSpan(l)
      BY <1>3, TreeFrame
    <2>2. ASSUME Counted(l)', ~InList(l)', NEW t \in Work', IsPiece(t)' PROVE l \notin Cover(t.lg)'
      <3>1. Counted(l) /\ ~InList(l) /\ IsPiece(t) /\ Cover(t.lg)' = Cover(t.lg)
        BY <1>c, <1>i, <2>2, TreeFrame DEF IsPiece
      <3>2. \A u \in Work : IsPiece(u) => l \notin Cover(u.lg)
        BY <2>1, <3>1 DEF ListInv
      <3> QED
        BY <3>1, <3>2
    <2> QED
      BY <1>c, <1>u, <1>i, <2>1, <2>2 DEF ListInv
  <1> QED
    BY <1>1, <1>2, <1>3 DEF ListInv

(* Done() goes on wherever it is at work. *)
LEMMA CascadeFrame ==
  ASSUME CascadeInv, UNCHANGED <<tree, doneCount, asked>>,
         \A t \in Work : Cascading(t) => \E u \in Work' : Cascading(u) /\ u.lg = t.lg
  PROVE  CascadeInv'
  <1>c. \A l : Counted(l)' <=> Counted(l)
    BY DEF Counted
  <1>p. \A t : Cascading(t)' <=> Cascading(t)
    BY DEF Cascading, IsPiece
  <1> SUFFICES ASSUME NEW l \in Made', IsSpan(l)', ~Counted(l)',
                      NEW k \in Cover(l)', k \in asked' \/ Counted(k)'
               PROVE  \E t \in Work' : Cascading(t)' /\ t.lg \in Cover(l)' /\ k \in Cover(t.lg)'
    BY DEF CascadeInv
  <1>1. PICK t \in Work : Cascading(t) /\ t.lg \in Cover(l) /\ k \in Cover(t.lg)
    BY <1>c, TreeFrame DEF CascadeInv
  <1>2. PICK u \in Work' : Cascading(u) /\ u.lg = t.lg
    BY <1>1
  <1>3. /\ u \in Work' /\ Cascading(u)'
        /\ u.lg \in Cover(l)' /\ k \in Cover(u.lg)'
    BY <1>1, <1>2, <1>p, TreeFrame
  <1> QED
    BY <1>3

(* Until all is over, the request waits, or has yet to retire. *)
LEMMA RequestFrame ==
  ASSUME RequestDoneInv, ~Over, UNCHANGED <<tree, waiting>>,
         Counted(Request)' <=> Counted(Request),
         waiting => dependents'[Request] = {} /\ activeDetached' # {},
         \A t \in Work : t.op = "retire" => t \in Work' \/ t.lg # Request,
         waiting => \A t \in Work' : IsPiece(t) => Request \notin Cover(t.lg)
  PROVE  RequestDoneInv'
  <1>1. T("retire", Request, FALSE) \in Work => T("retire", Request, FALSE) \in Work'
    <2> DEFINE t == T("retire", Request, FALSE)
    <2>1. t.op = "retire" /\ t.lg = Request
      BY DEF T
    <2> HIDE DEF t
    <2>2. t \in Work => t \in Work'
      BY <2>1
    <2> QED
      BY <2>2 DEF t
  <1>2. \A t : IsPiece(t)' <=> IsPiece(t)
    BY DEF IsPiece
  <1>3. waiting' => \A t \in Work' : IsPiece(t)' => Request \notin Cover(t.lg)'
    BY <1>2, TreeFrame
  <1>4. waiting' <=> waiting
    OBVIOUS
  <1>5. waiting' => /\ Counted(Request)' /\ dependents'[Request] = {} /\ activeDetached' # {}
    BY <1>4 DEF RequestDoneInv
  <1>6. Counted(Request)' => waiting' \/ T("retire", Request, FALSE) \in Work'
    <2>1. Counted(Request) => waiting \/ T("retire", Request, FALSE) \in Work
      BY DEF RequestDoneInv
    <2> QED
      BY <1>1, <1>4, <2>1, Zenon
  <1> QED
    BY <1>3, <1>5, <1>6 DEF RequestDoneInv, Request

(* The base hears of spans that are not finished, or is told of Done(). *)
LEMMA BaseKeep ==
  ASSUME BaseInv, UNCHANGED <<tree, doneCount, final>>, undated' \subseteq dirty',
         \A l : Finished(l) => Finished(l)', NoFalseAlarm',
         \A l \in undated' : \/ l \in undated
                             \/ l \in Made /\ IsSpan(l) /\ ~Counted(l),
         \A t \in Work : t.op = "baseDone" => t \in Work' \/ t.lg \notin undated'
  PROVE  BaseInv'
  <1>c. \A l : Counted(l)' <=> Counted(l)
    BY DEF Counted
  <1>1. final' \subseteq {l \in Made : Finished(l)}'
    <2>1. {l \in Made : Finished(l)} \subseteq {l \in Made : Finished(l)}'
      BY TreeFrame
    <2> QED
      BY <2>1 DEF BaseInv
  <1>2. ASSUME NEW l \in undated'
        PROVE  /\ l \in Made' /\ IsSpan(l)'
               /\ Counted(l)' => T("baseDone", l, TRUE) \in Work'
    <2>1. T("baseDone", l, TRUE) \in Work => T("baseDone", l, TRUE) \in Work'
      <3> DEFINE t == T("baseDone", l, TRUE)
      <3>1. t.op = "baseDone" /\ t.lg = l
        BY DEF T
      <3> HIDE DEF t
      <3>2. t \in Work => t \in Work'
        BY <1>2, <3>1
      <3> QED
        BY <3>2 DEF t
    <2> QED
      BY <1>c, <2>1, TreeFrame DEF BaseInv
  <1> QED
    BY <1>1, <1>2 DEF BaseInv

(* A step that leaves asked and the alarms alone does as much. *)
LEMMA BaseFrame ==
  ASSUME BaseInv, UNCHANGED <<tree, doneCount, asked, final, alarms>>, undated' \subseteq dirty',
         \A l \in undated' : \/ l \in undated
                             \/ l \in Made /\ IsSpan(l) /\ ~Counted(l),
         \A t \in Work : t.op = "baseDone" => t \in Work' \/ t.lg \notin undated'
  PROVE  BaseInv'
  <1>1. \A l : Finished(l) => Finished(l)'
    BY DEF Finished, tree
  <1>2. NoFalseAlarm'
    BY DEF BaseInv, NoFalseAlarm
  <1>3. UNCHANGED <<tree, doneCount, final>>
    OBVIOUS
  <1> QED
    BY <1>1, <1>2, <1>3, BaseKeep

(* The task on top of a stack, and who it is not. *)
LEMMA TopFacts ==
  ASSUME CarefulInv, NEW p \in Procs, stack[p] # <<>>
  PROVE  /\ Top(p) \in Tasks(p) /\ Top(p) \in Work /\ Top(p) \in Task
         /\ Below(p) \subseteq Rest(p) /\ Rest(p) \subseteq Work /\ Work = {Top(p)} \cup Rest(p)
         /\ \A u \in Below(p) : Nested(Top(p), u)
         /\ \A q \in Procs \ {p} : \A u \in Tasks(q) : /\ u \in Rest(p)
                                                       /\ Parted(Top(p), u) /\ Parted(u, Top(p))
         /\ \A u \in Rest(p) : u \in Below(p) \/ \E q \in Procs \ {p} : u \in Tasks(q)
  <1>t. TypeOK /\ StackInv /\ stack[p] \in Seq(Task) /\ stack \in Stacks
    BY DEF CarefulInv, TypeOK, Stacks
  <1>1. Top(p) = stack[p][1] /\ 1 \in DOMAIN stack[p] /\ DOMAIN stack[p] = 1 .. Len(stack[p])
    <2>1. Head(stack[p]) = stack[p][1] /\ Len(stack[p]) \in Nat /\ Len(stack[p]) # 0
      BY <1>t, HeadTailProperties, EmptySeq
    <2> QED
      BY <1>t, <2>1 DEF Top
  <1>2. Top(p) \in Tasks(p) /\ Top(p) \in Task
    BY <1>t, <1>1, TopTyped DEF Tasks
  <1>3. Below(p) \subseteq Rest(p) /\ Rest(p) \subseteq Work /\ Top(p) \in Work
    BY <1>2 DEF Rest, Work, Below, Tasks
  <1>4. ASSUME NEW u \in Below(p) PROVE Nested(Top(p), u)
    <2>1. PICK i \in DOMAIN stack[p] \ {1} : u = stack[p][i]
      BY DEF Below
    <2>2. 1 < i
      BY <1>t, <1>1
    <2> QED
      BY <1>t, <1>1, <2>1, <2>2 DEF StackInv
  <1>5. ASSUME NEW q \in Procs \ {p}, NEW u \in Tasks(q)
        PROVE  u \in Rest(p) /\ Parted(Top(p), u) /\ Parted(u, Top(p))
    BY <1>t, <1>2 DEF StackInv, Rest
  <1>6. \A u \in Rest(p) : u \in Below(p) \/ \E q \in Procs \ {p} : u \in Tasks(q)
    BY DEF Rest
  <1>7. Tasks(p) = {Top(p)} \cup Below(p)
    BY <1>1 DEF Tasks, Below
  <1>8. Work = {Top(p)} \cup Rest(p)
    BY <1>7 DEF Work, Rest
  <1> QED
    BY <1>2, <1>3, <1>4, <1>5, <1>6, <1>8

(* The steps of a call that uses a logger, short of those that make one:   *)
(* lines, and activity that everybody knows of.                            *)
LEMMA UseStep ==
  ASSUME CarefulInv, TypeOK', NEW p \in Procs, stack[p] # <<>>, NEW new \in Seq(Task),
         Continue(p, new), IsUse(Top(p)), Top(p).op \notin {"newChildLog", "return"},
         \A t \in Pieces(new) : /\ t.op \in UseOps \ {"newChildLog", "return"}
                                /\ t.lg = Top(p).lg,
         UNCHANGED <<spawned, tree, knownActive, doneCount, dependents, shared, final,
                     live, asked, alarms>>,
         undated' \subseteq undated \cup {SpanOf(Top(p).lg)}, undated' \subseteq dirty'
  PROVE  CarefulInv'
  <1> DEFINE top == Top(p)
  <1>t. /\ TypeOK /\ TreeInv /\ RequestInv /\ SpanInv /\ TaskInv /\ MakeInv /\ ListInv
        /\ StackInv /\ CascadeInv /\ RequestDoneInv /\ BaseInv
    BY DEF CarefulInv
  <1>w. Work = {top} \cup Rest(p) /\ Work' = Pieces(new) \cup Rest(p)
    BY <1>t, StepWork
  <1>k. ~IsPiece(top) /\ ~IsLast(top) /\ top \in Work
    BY <1>w, Kinds
  <1>o. ~Over
    BY <1>k, NotOver
  <1>n. /\ \A t \in Pieces(new) : IsUse(t) /\ ~IsPiece(t)
        /\ top.op \notin {"retire", "baseDone"}
    BY DEF IsUse, IsPiece, UseOps, DoneOps, FirstOps, LaterOps
  <1>u. UNCHANGED <<activeDetached, waiting, armed>> /\ UNCHANGED <<tree, live, asked>>
        /\ UNCHANGED <<tree, knownActive, doneCount, asked>>
    BY DEF shared
  <1>1. TreeInv' /\ RequestInv'
    BY <1>t, TreeFrame
  <1>2. SpanInv'
    BY <1>t, <1>u, SpanFrame
  <1>3. TaskInv'
    BY <1>k, <1>n, <1>u, SpanFrame, TaskFrame
  <1>4. MakeInv'
    <2>1. \A t \in Work : t.op = "newChildLog" => ~Counted(t.lg)
      BY <1>t DEF MakeInv, Work
    <2>2. \A t \in Work : t.op = "newChildLog" => ~Counted(t.lg)'
      BY <2>1, <1>u, SpanFrame
    <2> QED
      BY <1>t, <1>u, <2>2, MakeFrame
  <1>5. ListInv'
    BY <1>t, <1>n, <1>u, <1>w, ListFrame
  <1>6. StackInv'
    <2>1. \A t, u \in Rest(p) : (Nested(t, u) => Nested(t, u)') /\ (Parted(t, u) => Parted(t, u)')
      BY TreeFrame
    <2>2. \A i, j \in DOMAIN new : i < j => Nested(new[i], new[j])'
      <3>1. \A i \in DOMAIN new : new[i] \in Pieces(new)
        BY DEF Pieces
      <3>2. \A i, j \in DOMAIN new : Nested(new[i], new[j])
        BY <3>1, <1>n DEF Nested
      <3> QED
        BY <3>2, TreeFrame
    <2>3. \A t \in Pieces(new) : \A u \in Below(p) : Nested(t, u)'
      <3>1. \A t \in Pieces(new) : \A u \in Below(p) : Nested(t, u)
        BY <1>n, TopFacts DEF Nested
      <3> QED
        BY <3>1, TreeFrame
    <2>4. \A t \in Pieces(new) : \A q \in Procs \ {p} : \A u \in Tasks(q) : Parted(t, u)' /\ Parted(u, t)'
      <3>1. \A t \in Pieces(new) : \A u : Parted(t, u) /\ Parted(u, t)
        BY <1>n DEF Parted
      <3> QED
        BY <3>1, TreeFrame
    <2> QED
      BY <1>t, <2>1, <2>2, <2>3, <2>4, StepStackInv
  <1>7. CascadeInv'
    BY <1>t, <1>k, <1>u, <1>w, CascadeFrame DEF Cascading
  <1>8. RequestDoneInv'
    <2>1. Counted(Request)' <=> Counted(Request)
      BY SpanFrame
    <2>2. waiting => dependents'[Request] = {} /\ activeDetached' # {}
      BY <1>t, <1>u DEF RequestDoneInv
    <2>3. waiting => \A t \in Work' : IsPiece(t) => Request \notin Cover(t.lg)
      BY <1>t, <1>n, <1>w DEF RequestDoneInv
    <2>4. \A t \in Work : t.op = "retire" => t \in Work' \/ t.lg # Request
      BY <1>n, <1>w
    <2> QED
      BY <1>t, <1>o, <1>u, <2>1, <2>2, <2>3, <2>4, RequestFrame
  <1>9. BaseInv'
    <2>1. SpanOf(top.lg) \in Made /\ IsSpan(SpanOf(top.lg)) /\ ~Counted(SpanOf(top.lg))
      <3>1. top.lg \in Made /\ ~Finished(top.lg)
        BY DEF IsUse
      <3> QED
        BY <1>t, <3>1, NotFinished DEF TreeInv, IsSpan
    <2> QED
      BY <1>t, <1>n, <1>w, <2>1, BaseFrame
  <1> QED
    BY <1>1, <1>2, <1>3, <1>4, <1>5, <1>6, <1>7, <1>8, <1>9 DEF CarefulInv

(* Lines, Boring() and what they make of the activity of their spans: a    *)
(* span that is not finished is known to be active, so nothing is restarted*)
(* and nothing climbs up the tree.                                         *)
LEMMA CarefulUse ==
  ASSUME CarefulInv, TypeOK', NEW p \in Procs,
         Error(p) \/ NotBoring(p) \/ Boring(p) \/ Msg(p) \/ HasActivity(p)
  PROVE  CarefulInv'
  <1> DEFINE l == Top(p).lg
             f == Top(p).flag
  <1>t. TypeOK /\ TaskInv
    BY DEF CarefulInv
  <1>0. stack[p] # <<>>
    BY DEF Error, NotBoring, Boring, Msg, HasActivity, Runs
  <1>1. Top(p) \in Work /\ Top(p) \in Task /\ l \in Loggers /\ f \in BOOLEAN
    BY <1>0, TopFacts DEF Task
  <1>2. IsUse(Top(p)) /\ Top(p).op \notin {"newChildLog", "return"}
    <2>1. Top(p).op \in {"Error", "notBoring", "Boring", "Msg", "hasActivity"}
      BY DEF Error, NotBoring, Boring, Msg, HasActivity, Runs
    <2>2. ~IsDone(Top(p)) /\ ~IsLast(Top(p))
      BY <2>1 DEF IsDone, IsPiece, IsLast, DoneOps, FirstOps, LaterOps, LastOps, LockedOps
    <2> QED
      BY <1>t, <1>1, <2>1, <2>2 DEF TaskInv
  <1>3. l \in Made /\ ~Finished(l) /\ SpanOf(l) \in knownActive /\ SpanOf(l) \in Loggers
    <2>1. l \in Made /\ ~Finished(l)
      BY <1>2 DEF IsUse
    <2> QED
      BY <1>t, <2>1, NotFinished DEF TypeOK
  <1>4. \A op \in {"notBoring", "hasActivity", "Msg"}, b \in BOOLEAN :
          /\ T(op, l, b) \in Task /\ <<T(op, l, b)>> \in Seq(Task)
          /\ T(op, l, b).op \in UseOps \ {"newChildLog", "return"} /\ T(op, l, b).lg = l
    <2>1. \A op \in {"notBoring", "hasActivity", "Msg"}, b \in BOOLEAN :
            /\ T(op, l, b).op \in UseOps \ {"newChildLog", "return"} /\ T(op, l, b).lg = l
      BY DEF T, UseOps
    <2>2. {"notBoring", "hasActivity", "Msg"} \subseteq Ops
      BY DEF Ops
    <2> QED
      BY <1>1, <2>1, <2>2, TaskTyped, SeqTyped, Zenon
  <1>5. <<>> \in Seq(Task) /\ Pieces(<<>>) = {}
    BY SeqTyped, ShortPieces
  <1>b. undated \subseteq dirty
    BY DEF CarefulInv, BaseInv
  <1>6. CASE Error(p)
    <2> DEFINE a == T("notBoring", l, FALSE)
               b == T("hasActivity", l, TRUE)
               c == T("Msg", l, f)
    <2>1. PICK new \in {<<a, b, c>>, <<c>>} : Continue(p, new)
      <3>1. Continue(p, When(SpanOf(l) \notin notBoring, <<a, b>>) \o <<c>>)
        BY <1>6 DEF Error
      <3>2. <<a, b>> \o <<c>> = <<a, b, c>> /\ <<>> \o <<c>> = <<c>>
        <4>1. a \in Task /\ b \in Task /\ c \in Task
          BY <1>1, <1>4
        <4> HIDE DEF a, b, c
        <4> QED
          BY <4>1, ShortConcat
      <3> HIDE DEF a, b, c
      <3> QED
        BY <3>1, <3>2 DEF When
    <2>2. {a, b, c} \subseteq Task
      BY <1>1, <1>4
    <2>3. new \in Seq(Task) /\ Pieces(new) \subseteq {a, b, c}
      <3>1. <<a, b, c>> \in Seq(Task) /\ <<c>> \in Seq(Task)
        BY <2>2, SeqTyped
      <3> HIDE DEF a, b, c
      <3>2. Pieces(<<a, b, c>>) = {a, b, c} /\ Pieces(<<c>>) = {c}
        BY ShortPieces
      <3> QED
        BY <3>1, <3>2
    <2>4. \A t \in Pieces(new) : t.op \in UseOps \ {"newChildLog", "return"} /\ t.lg = l
      BY <1>1, <1>4, <2>3
    <2>5. UNCHANGED <<spawned, tree, knownActive, doneCount, dependents, shared, final,
                      live, asked, alarms, undated, dirty>>
      BY <1>6 DEF Error, base, history
    <2> HIDE DEF a, b, c
    <2> QED
      BY <1>0, <1>2, <1>b, <2>1, <2>3, <2>4, <2>5, UseStep
  <1>7. CASE NotBoring(p)
    <2>1. Continue(p, <<>>)
      BY <1>7 DEF NotBoring
    <2>2. UNCHANGED <<spawned, tree, knownActive, doneCount, dependents, shared, final,
                      live, asked, alarms, undated, dirty>>
      BY <1>7 DEF NotBoring, base, history
    <2> QED
      BY <1>0, <1>2, <1>5, <1>b, <2>1, <2>2, UseStep
  <1>8. CASE Boring(p)
    <2> DEFINE b == T("hasActivity", l, TRUE)
    <2>1. PICK new \in {<<b>>, <<>>} : Continue(p, new)
      BY <1>8 DEF Boring, When
    <2>2. new \in Seq(Task) /\ Pieces(new) \subseteq {b}
      BY <1>4, <1>5, ShortPieces
    <2>3. \A t \in Pieces(new) : t.op \in UseOps \ {"newChildLog", "return"} /\ t.lg = l
      BY <1>4, <2>2
    <2>4. UNCHANGED <<spawned, tree, knownActive, doneCount, dependents, shared, final,
                      live, asked, alarms, undated, dirty>>
      BY <1>8 DEF Boring, base, history, spans
    <2> HIDE DEF b
    <2> QED
      BY <1>0, <1>2, <1>b, <2>1, <2>2, <2>3, <2>4, UseStep
  <1>9. CASE Msg(p)
    <2> DEFINE new == <<T("hasActivity", l, TRUE)>>
    <2>1. Continue(p, new)
      BY <1>9 DEF Msg
    <2>2. new \in Seq(Task) /\ Pieces(new) = {T("hasActivity", l, TRUE)}
      BY <1>4, ShortPieces
    <2>3. \A t \in Pieces(new) : t.op \in UseOps \ {"newChildLog", "return"} /\ t.lg = l
      BY <1>4, <2>2
    <2>4. UNCHANGED <<spawned, tree, knownActive, doneCount, dependents, shared, final,
                      live, asked, alarms>>
      BY <1>9 DEF Msg, history, spans
    <2>5. undated' = undated \cup {SpanOf(l)} /\ dirty' = dirty \cup {SpanOf(l)}
      BY <1>9 DEF Msg
    <2> HIDE DEF new
    <2> QED
      BY <1>0, <1>2, <1>b, <2>1, <2>2, <2>3, <2>4, <2>5, UseStep
  <1>10. CASE HasActivity(p)
    <2>1. Continue(p, <<>>)
      BY <1>3, <1>10, Zenon DEF HasActivity, When
    <2>2. knownActive' = knownActive
      BY <1>3, <1>10 DEF HasActivity
    <2>3. UNCHANGED <<spawned, tree, doneCount, dependents, shared, final,
                      live, asked, alarms, undated, dirty>>
      BY <1>10 DEF HasActivity, base, history
    <2> QED
      BY <1>0, <1>2, <1>5, <1>b, <2>1, <2>2, <2>3, UseStep
  <1> QED
    BY <1>6, <1>7, <1>8, <1>9, <1>10

(* A logger is registered, or returned to the program, in a call on a      *)
(* logger that is not finished.                                            *)
LEMMA MakingFacts ==
  ASSUME CarefulInv, NEW p \in Procs, stack[p] # <<>>, Top(p).op \in {"newChildLog", "return"}
  PROVE  /\ IsUse(Top(p)) /\ ~Over
         /\ Top(p).lg \in Made /\ Top(p).lg \in Loggers /\ ~Finished(Top(p).lg)
         /\ ~Top(p).flag /\ Top(p) = T(Top(p).op, Top(p).lg, FALSE)
  <1>t. TypeOK /\ TreeInv /\ TaskInv /\ MakeInv
    BY DEF CarefulInv
  <1>1. Top(p) \in Work /\ Top(p) \in Tasks(p) /\ Top(p) \in Task
    BY TopFacts
  <1>2. ~IsDone(Top(p)) /\ ~IsLast(Top(p))
    BY DEF IsDone, IsPiece, IsLast, DoneOps, FirstOps, LaterOps, LastOps, LockedOps
  <1>3. IsUse(Top(p)) /\ ~Over
    BY <1>t, <1>1, <1>2, NotOver DEF TaskInv
  <1>4. Top(p).lg \in Made /\ ~Finished(Top(p).lg)
    BY <1>3 DEF IsUse
  <1>5. ~Top(p).flag
    BY <1>t, <1>1 DEF MakeInv
  <1>6. Top(p) = T(Top(p).op, Top(p).lg, FALSE)
    BY <1>1, <1>5 DEF Task, T
  <1> QED
    BY <1>t, <1>3, <1>4, <1>5, <1>6, FinishedDown

(* What such a step leaves alone. *)
LEMMA MakingStep ==
  ASSUME CarefulInv, TypeOK', NEW p \in Procs, stack[p] # <<>>, Continue(p, <<>>),
         Top(p).op \in {"newChildLog", "return"},
         UNCHANGED <<spawned, tree, knownActive, doneCount, waiting, armed, base, asked, alarms>>,
         waiting => dependents'[Request] = {} /\ activeDetached' # {}
  PROVE  /\ TreeInv' /\ RequestInv' /\ SpanInv' /\ TaskInv' /\ StackInv' /\ CascadeInv'
         /\ RequestDoneInv' /\ BaseInv'
         /\ Work' = Rest(p) /\ Work = {Top(p)} \cup Work' /\ Work' \subseteq Work
         /\ Tasks(p) = {Top(p)} \cup Tasks(p)' /\ Tasks(p)' = Below(p)
         /\ \A q \in Procs \ {p} : Tasks(q)' = Tasks(q)
  <1> DEFINE top == Top(p)
  <1>t. /\ TypeOK /\ TreeInv /\ RequestInv /\ SpanInv /\ TaskInv /\ StackInv /\ CascadeInv
        /\ RequestDoneInv /\ BaseInv
    BY DEF CarefulInv
  <1>e. <<>> \in Seq(Task) /\ Pieces(<<>>) = {} /\ DOMAIN <<>> = {}
    BY SeqTyped, ShortPieces
  <1>w. /\ Work = {top} \cup Rest(p) /\ Work' = Rest(p)
        /\ Tasks(p) = {top} \cup Below(p) /\ Tasks(p)' = Below(p)
        /\ \A q \in Procs \ {p} : Tasks(q)' = Tasks(q)
    BY <1>t, <1>e, StepWork
  <1>k. IsUse(top) /\ ~IsPiece(top) /\ ~IsLast(top) /\ ~Over
    BY MakingFacts, Kinds
  <1>u. /\ UNCHANGED <<tree, knownActive, doneCount, asked>>
        /\ UNCHANGED <<tree, doneCount, asked, final, alarms>>
        /\ undated' = undated /\ dirty' = dirty
    BY DEF base
  <1>1. TreeInv' /\ RequestInv'
    BY <1>t, TreeFrame
  <1>2. SpanInv'
    BY <1>t, <1>u, SpanFrame
  <1>3. TaskInv'
    BY <1>k, <1>e, <1>u, SpanFrame, TaskFrame
  <1>4. StackInv'
    <2>1. \A t, u \in Rest(p) : (Nested(t, u) => Nested(t, u)') /\ (Parted(t, u) => Parted(t, u)')
      BY TreeFrame
    <2>2. \A i, j \in DOMAIN <<>> : i < j => Nested(<<>>[i], <<>>[j])'
      BY <1>e
    <2>3. \A t \in Pieces(<<>>) : \A u \in Below(p) : Nested(t, u)'
      BY <1>e
    <2>4. \A t \in Pieces(<<>>) : \A q \in Procs \ {p} : \A u \in Tasks(q) : Parted(t, u)' /\ Parted(u, t)'
      BY <1>e
    <2> QED
      BY <1>t, <1>e, <2>1, <2>2, <2>3, <2>4, StepStackInv
  <1>5. CascadeInv'
    BY <1>t, <1>k, <1>u, <1>w, CascadeFrame DEF Cascading
  <1>6. RequestDoneInv'
    <2>1. Counted(Request)' <=> Counted(Request)
      BY SpanFrame
    <2>2. waiting => \A t \in Work' : IsPiece(t) => Request \notin Cover(t.lg)
      BY <1>t, <1>w DEF RequestDoneInv
    <2>3. \A t \in Work : t.op = "retire" => t \in Work' \/ t.lg # Request
      BY <1>w
    <2> QED
      BY <1>t, <1>k, <1>u, <2>1, <2>2, <2>3, RequestFrame
  <1>7. BaseInv'
    <2>1. undated' \subseteq dirty'
      BY <1>t, <1>u DEF BaseInv
    <2>2. \A t \in Work : t.op = "baseDone" => t \in Work' \/ t.lg \notin undated'
      BY <1>w
    <2> QED
      BY <1>t, <1>u, <2>1, <2>2, BaseFrame
  <1> QED
    BY <1>w, <1>1, <1>2, <1>3, <1>4, <1>5, <1>6, <1>7

(* A new span is listed by its parent, or, detached, by the request. *)
LEMMA RegisterList ==
  ASSUME TypeOK, TypeOK', TreeInv, RequestInv, ListInv, UNCHANGED tree,
         NEW n \in Made, n \in Loggers, IsSpan(n), Register(n)
  PROVE  /\ \A l : InList(l)' <=> InList(l) \/ l = n
         /\ activeDetached' = IF info[n].detached THEN activeDetached \cup {n} ELSE activeDetached
         /\ \A s \in Loggers : dependents'[s] =
              IF ~info[n].detached /\ s = SpanOf(Parent(n)) THEN dependents[s] \cup {n} ELSE dependents[s]
  <1> DEFINE s == SpanOf(Parent(n))
  <1>1. s \in Loggers /\ SpanOf(n) = n
    BY DEF TypeOK, Info, SpanOf, Parent, IsSpan
  <1>2. /\ \A l \in activeDetached : SpanOf(l) = l
        /\ \A l \in dependents[s] : SpanOf(l) = l
    BY <1>1 DEF ListInv, IsSpan
  <1>3. /\ With(activeDetached, n) = activeDetached \cup {n}
        /\ With(dependents[s], n) = dependents[s] \cup {n}
    BY <1>1, <1>2 DEF With, Without
  <1>4. Detached(n) <=> info[n].detached
    BY <1>1 DEF Detached
  <1>5. activeDetached' = IF info[n].detached THEN activeDetached \cup {n} ELSE activeDetached
    BY <1>3, <1>4 DEF Register
  <1>6. dependents' = IF info[n].detached THEN dependents
                      ELSE [dependents EXCEPT ![s] = dependents[s] \cup {n}]
    BY <1>3, <1>4 DEF Register
  <1>7. \A m \in Loggers : dependents'[m] =
          IF ~info[n].detached /\ m = s THEN dependents[m] \cup {n} ELSE dependents[m]
    BY <1>1, <1>6 DEF TypeOK
  <1>8. \A l : InList(l)' <=> l \in IF info[l].detached THEN activeDetached'
                                     ELSE dependents'[SpanOf(Parent(l))]
    BY DEF InList, tree, SpanOf, Parent
  <1>9. ASSUME NEW l PROVE InList(l)' <=> InList(l) \/ l = n
    <2>1. CASE info[l].detached
      BY <1>5, <1>6, <1>8, <2>1 DEF InList
    <2>2. CASE ~info[l].detached /\ SpanOf(Parent(l)) = s
      BY <1>1, <1>5, <1>7, <1>8, <2>2 DEF InList
    <2>3. CASE ~info[l].detached /\ SpanOf(Parent(l)) # s
      <3>1. dependents'[SpanOf(Parent(l))] = dependents[SpanOf(Parent(l))]
        BY <1>1, <1>6, <2>3 DEF TypeOK
      <3> QED
        BY <1>8, <2>3, <3>1 DEF InList
    <2> QED
      BY <2>1, <2>2, <2>3
  <1> QED
    BY <1>5, <1>7, <1>9

(* The registration of a new span. *)
LEMMA CarefulNewChildLog ==
  ASSUME CarefulInv, TypeOK', NEW p \in Procs, NewChildLog(p)
  PROVE  CarefulInv'
  <1> DEFINE n == Top(p).lg
  <1>t. TypeOK /\ TreeInv /\ RequestInv /\ SpanInv /\ MakeInv /\ ListInv /\ RequestDoneInv
    BY DEF CarefulInv
  <1>0. /\ stack[p] # <<>> /\ Top(p).op = "newChildLog" /\ Continue(p, <<>>) /\ Register(n)
        /\ UNCHANGED <<spawned, tree, knownActive, doneCount, waiting, armed, base, live, asked, alarms>>
    BY DEF NewChildLog, Runs, history
  <1>1. /\ ~Over /\ n \in Made /\ n \in Loggers /\ ~Finished(n)
        /\ Top(p) = T("newChildLog", n, FALSE)
    BY <1>0, MakingFacts
  <1>2. Top(p) \in Tasks(p) /\ Top(p) \in Work
    BY <1>0, TopFacts
  <1>3. IsSpan(n) /\ n # Request /\ ~Counted(n) /\ T("return", n, FALSE) \in Tasks(p)
    BY <1>t, <1>0, <1>2 DEF MakeInv
  <1>4. ~Finished(Parent(n))
    <2> DEFINE r == T("return", n, FALSE)
    <2>1. r.op = "return" /\ r.lg = n
      BY DEF T
    <2>2. r \in Tasks(p)
      BY <1>3
    <2> HIDE DEF r
    <2>3. IsSpan(r.lg) => ~Finished(Parent(r.lg))
      BY <1>t, <2>1, <2>2 DEF MakeInv
    <2> QED
      BY <1>3, <2>1, <2>3
  <1>5. /\ \A l : InList(l)' <=> InList(l) \/ l = n
        /\ activeDetached' = IF info[n].detached THEN activeDetached \cup {n} ELSE activeDetached
        /\ \A s \in Loggers : dependents'[s] =
              IF ~info[n].detached /\ s = SpanOf(Parent(n)) THEN dependents[s] \cup {n} ELSE dependents[s]
    BY <1>t, <1>0, <1>1, <1>3, RegisterList
  <1>6. waiting => dependents'[Request] = {} /\ activeDetached' # {}
    <2> SUFFICES ASSUME waiting PROVE dependents'[Request] = {} /\ activeDetached' # {}
      OBVIOUS
    <2>1. Counted(Request) /\ dependents[Request] = {} /\ activeDetached # {} /\ Request \in Loggers
      BY <1>t, LifecycleAssumption DEF RequestDoneInv, LifecycleAssumption, Request, Loggers
    <2>2. SpanOf(Parent(n)) # Request
      <3>1. Parent(n) \in Made
        BY <1>t, <1>1 DEF TreeInv
      <3>2. ~Counted(SpanOf(Parent(n)))
        BY <1>4, <3>1, NotFinished
      <3> QED
        BY <2>1, <3>2
    <2> QED
      BY <1>5, <2>1, <2>2
  <1>7. /\ TreeInv' /\ RequestInv' /\ SpanInv' /\ TaskInv' /\ StackInv' /\ CascadeInv'
        /\ RequestDoneInv' /\ BaseInv'
        /\ Work' = Rest(p) /\ Work = {Top(p)} \cup Work' /\ Work' \subseteq Work
        /\ Tasks(p) = {Top(p)} \cup Tasks(p)' /\ Tasks(p)' = Below(p)
        /\ \A q \in Procs \ {p} : Tasks(q)' = Tasks(q)
    BY <1>0, <1>6, MakingStep
  <1>c. \A l : (Finished(l)' <=> Finished(l)) /\ (Counted(l)' <=> Counted(l))
    BY <1>0, SpanFrame
  <1>w. /\ \A t : t # Top(p) => (t \in Work' <=> t \in Work)
        /\ \A q \in Procs : \A t : /\ t # Top(p) => (t \in Tasks(q)' <=> t \in Tasks(q))
                                   /\ t \in Tasks(q)' => t \in Tasks(q)
    BY <1>7
  <1>u. /\ \A l : Unlisted(l)' => Unlisted(l)
        /\ \A l : l # n /\ Unlisted(l) => Unlisted(l)'
        /\ \A l : T("retire", l, FALSE) \in Work => T("retire", l, FALSE) \in Work'
        /\ \A l : T("return", l, FALSE) \in Work => T("return", l, FALSE) \in Work'
        /\ \A l, q : q \in Procs /\ T("return", l, FALSE) \in Tasks(q) => T("return", l, FALSE) \in Tasks(q)'
    <2>1. \A l : /\ T("retire", l, FALSE) # Top(p)
                 /\ T("return", l, FALSE) # Top(p)
                 /\ l # n => T("newChildLog", l, FALSE) # Top(p)
      BY <1>1 DEF T
    <2>2. \A l : /\ T("retire", l, FALSE) \in Work' <=> T("retire", l, FALSE) \in Work
                 /\ T("return", l, FALSE) \in Work' <=> T("return", l, FALSE) \in Work
                 /\ l # n => (T("newChildLog", l, FALSE) \in Work' <=> T("newChildLog", l, FALSE) \in Work)
                 /\ T("newChildLog", l, FALSE) \in Work' => T("newChildLog", l, FALSE) \in Work
      BY <2>1, <1>w, <1>7
    <2>3. \A l, q : q \in Procs => (T("return", l, FALSE) \in Tasks(q) => T("return", l, FALSE) \in Tasks(q)')
      BY <2>1, <1>w
    <2> QED
      BY <2>2, <2>3 DEF Unlisted
  <1>8. MakeInv'
    <2>0. live' = live /\ Made' = Made
      BY <1>0, TreeFrame
    <2>1. \A l \in Made' : l \in live' \/ T("return", l, FALSE) \in Work'
      BY <1>t, <1>u, <2>0 DEF MakeInv
    <2>2. live' \subseteq Made' /\ \A l \in live' : \A k \in Cover(l)' : ~Unlisted(k)'
      BY <1>t, <1>0, <1>u, <2>0, TreeFrame DEF MakeInv
    <2>3. ASSUME NEW q \in Procs, NEW t \in Tasks(q)'
          PROVE  /\ t.op \in {"newChildLog", "return"} => ~t.flag
                 /\ t.op = "newChildLog" => /\ IsSpan(t.lg)' /\ t.lg # Request /\ ~Counted(t.lg)'
                                            /\ Parent(t.lg)' \in live'
                                            /\ T("return", t.lg, FALSE) \in Tasks(q)'
                 /\ t.op = "return" => /\ \A k \in Cover(t.lg)' \ {t.lg} : ~Unlisted(k)'
                                       /\ IsSpan(t.lg)' => ~Finished(Parent(t.lg))'
      <3>1. t \in Tasks(q)
        BY <1>w, <2>3
      <3>2. /\ t.op \in {"newChildLog", "return"} => ~t.flag
            /\ t.op = "newChildLog" => /\ IsSpan(t.lg) /\ t.lg # Request /\ ~Counted(t.lg)
                                       /\ Parent(t.lg) \in live
                                       /\ T("return", t.lg, FALSE) \in Tasks(q)
            /\ t.op = "return" => /\ \A k \in Cover(t.lg) \ {t.lg} : ~Unlisted(k)
                                  /\ IsSpan(t.lg) => ~Finished(Parent(t.lg))
        BY <1>t, <3>1 DEF MakeInv
      <3>3. /\ IsSpan(t.lg)' <=> IsSpan(t.lg)
            /\ Parent(t.lg)' = Parent(t.lg)
            /\ Cover(t.lg)' = Cover(t.lg)
        BY <1>0, TreeFrame
      <3>4. Finished(Parent(t.lg))' <=> Finished(Parent(t.lg))
        BY <1>0 DEF Finished, Parent, tree
      <3> QED
        BY <1>u, <1>c, <2>0, <3>2, <3>3, <3>4
    <2> QED
      BY <2>1, <2>2, <2>3 DEF MakeInv
  <1>9. ListInv'
    <2>0. ~info[n].detached => ~Root(n)
      BY <1>3 DEF Root
    <2>1. \A l \in activeDetached' : l \in Made' /\ IsSpan(l)' /\ info'[l].detached
      BY <1>t, <1>0, <1>1, <1>3, <1>5, TreeFrame DEF ListInv
    <2>2. \A s \in Loggers : \A l \in dependents'[s] :
            l \in Made' /\ IsSpan(l)' /\ ~Root(l)' /\ SpanOf(Parent(l))' = s
      <3>1. \A l : SpanOf(Parent(l))' = SpanOf(Parent(l))
        BY <1>0 DEF SpanOf, Parent, tree
      <3>2. \A s \in Loggers : \A l \in dependents'[s] :
              l \in Made /\ IsSpan(l) /\ ~Root(l) /\ SpanOf(Parent(l)) = s
        <4> SUFFICES ASSUME NEW s \in Loggers, NEW l \in dependents'[s]
                     PROVE  l \in Made /\ IsSpan(l) /\ ~Root(l) /\ SpanOf(Parent(l)) = s
          OBVIOUS
        <4>1. CASE l \in dependents[s]
          BY <1>t, <4>1 DEF ListInv
        <4>2. CASE l \notin dependents[s]
          <5>1. ~info[n].detached /\ s = SpanOf(Parent(n)) /\ l = n
            BY <1>5, <4>2
          <5> QED
            BY <1>1, <1>3, <2>0, <5>1
        <4> QED
          BY <4>1, <4>2
      <3> QED
        BY <1>0, <3>1, <3>2, TreeFrame
    <2>3. ASSUME NEW l \in Made' \ {Request}, IsSpan(l)'
          PROVE  /\ ~Counted(l)' => InList(l)' \/ Unlisted(l)'
                 /\ Counted(l)' /\ InList(l)' => T("retire", l, FALSE) \in Work'
                 /\ Counted(l)' /\ ~InList(l)' => \A t \in Work' : IsPiece(t)' => l \notin Cover(t.lg)'
      <3>1. l \in Made \ {Request} /\ IsSpan(l)
        BY <1>0, <2>3, TreeFrame
      <3>2. ~Counted(l)' => InList(l)' \/ Unlisted(l)'
        BY <1>t, <1>c, <1>u, <1>5, <3>1 DEF ListInv
      <3>3. Counted(l)' /\ InList(l)' => T("retire", l, FALSE) \in Work'
        BY <1>t, <1>c, <1>u, <1>3, <1>5, <3>1 DEF ListInv
      <3>4. ASSUME Counted(l)', ~InList(l)', NEW t \in Work', IsPiece(t)' PROVE l \notin Cover(t.lg)'
        <4>1. Counted(l) /\ ~InList(l) /\ IsPiece(t) /\ Cover(t.lg)' = Cover(t.lg) /\ t \in Work
          BY <1>0, <1>c, <1>5, <1>7, <3>4, TreeFrame DEF IsPiece
        <4> QED
          BY <1>t, <3>1, <4>1 DEF ListInv
      <3> QED
        BY <3>2, <3>3, <3>4
    <2> QED
      BY <2>1, <2>2, <2>3 DEF ListInv
  <1> QED
    BY <1>7, <1>8, <1>9 DEF CarefulInv

(* A new logger is returned to the program: by then its span is listed. *)
LEMMA CarefulReturn ==
  ASSUME CarefulInv, TypeOK', NEW p \in Procs, Return(p)
  PROVE  CarefulInv'
  <1> DEFINE n == Top(p).lg
  <1>t. TypeOK /\ TreeInv /\ RequestInv /\ SpanInv /\ MakeInv /\ ListInv /\ RequestDoneInv
    BY DEF CarefulInv
  <1>0. /\ stack[p] # <<>> /\ Top(p).op = "return" /\ Continue(p, <<>>)
        /\ live' = live \cup {n}
        /\ UNCHANGED <<spawned, tree, knownActive, doneCount, waiting, armed, base, asked, alarms>>
        /\ UNCHANGED <<dependents, activeDetached>>
    BY DEF Return, Runs, spans, shared
  <1>1. /\ n \in Made /\ n \in Loggers /\ Top(p) = T("return", n, FALSE)
    BY <1>0, MakingFacts
  <1>2. Top(p) \in Tasks(p) /\ Top(p) \in Work
    BY <1>0, TopFacts
  <1>3. \A k \in Cover(n) \ {n} : ~Unlisted(k)
    BY <1>t, <1>0, <1>2 DEF MakeInv
  <1>6. waiting => dependents'[Request] = {} /\ activeDetached' # {}
    BY <1>t, <1>0 DEF RequestDoneInv
  <1>7. /\ TreeInv' /\ RequestInv' /\ SpanInv' /\ TaskInv' /\ StackInv' /\ CascadeInv'
        /\ RequestDoneInv' /\ BaseInv'
        /\ Work' = Rest(p) /\ Work = {Top(p)} \cup Work' /\ Work' \subseteq Work
        /\ Tasks(p) = {Top(p)} \cup Tasks(p)' /\ Tasks(p)' = Below(p)
        /\ \A q \in Procs \ {p} : Tasks(q)' = Tasks(q)
    BY <1>0, <1>6, MakingStep
  <1>c. \A l : (Finished(l)' <=> Finished(l)) /\ (Counted(l)' <=> Counted(l))
    BY <1>0, SpanFrame
  <1>w. \A q \in Procs : \A t : t \in Tasks(q)' => t \in Tasks(q)
    BY <1>7
  <1>b. \A u \in Tasks(p)' : u.op # "newChildLog"
    BY <1>0, <1>7, TopFacts DEF Nested
  <1>d. \A q \in Procs \ {p} : \A u \in Tasks(q)' : u.op = "newChildLog" => u.lg # n
    BY <1>0, <1>7, TopFacts DEF Parted
  <1>u. /\ \A l : Unlisted(l)' => Unlisted(l)
        /\ \A l : l = n => ~Unlisted(l)'
        /\ \A l : l # n /\ T("return", l, FALSE) \in Work => T("return", l, FALSE) \in Work'
    <2>1. \A l : l # n => T("return", l, FALSE) # Top(p)
      BY <1>1 DEF T
    <2>2. \A l : l # n /\ T("return", l, FALSE) \in Work => T("return", l, FALSE) \in Work'
      BY <2>1, <1>7
    <2>3. \A l : T("newChildLog", l, FALSE) \in Work' => T("newChildLog", l, FALSE) \in Work
      BY <1>7
    <2>4. T("newChildLog", n, FALSE) \notin Work'
      <3> DEFINE t == T("newChildLog", n, FALSE)
      <3>1. t.op = "newChildLog" /\ t.lg = n
        BY DEF T
      <3> HIDE DEF t
      <3>2. t \notin Work'
        BY <3>1, <1>b, <1>d DEF Work
      <3> QED
        BY <3>2 DEF t
    <2> QED
      BY <2>2, <2>3, <2>4 DEF Unlisted
  <1>8. MakeInv'
    <2>0. Made' = Made
      BY <1>0, TreeFrame
    <2>1. \A l \in Made' : l \in live' \/ T("return", l, FALSE) \in Work'
      BY <1>t, <1>0, <1>u, <2>0 DEF MakeInv
    <2>2. live' \subseteq Made'
      BY <1>t, <1>0, <1>1, <2>0 DEF MakeInv
    <2>4. ASSUME NEW l \in live', NEW k \in Cover(l)' PROVE ~Unlisted(k)'
      <3>1. k \in Cover(l)
        BY <1>0, <2>4, TreeFrame
      <3>2. k # n => ~Unlisted(k)
        BY <1>t, <1>0, <1>3, <3>1 DEF MakeInv
      <3> QED
        BY <1>u, <3>2
    <2>3. ASSUME NEW q \in Procs, NEW t \in Tasks(q)'
          PROVE  /\ t.op \in {"newChildLog", "return"} => ~t.flag
                 /\ t.op = "newChildLog" => /\ IsSpan(t.lg)' /\ t.lg # Request /\ ~Counted(t.lg)'
                                            /\ Parent(t.lg)' \in live'
                                            /\ T("return", t.lg, FALSE) \in Tasks(q)'
                 /\ t.op = "return" => /\ \A k \in Cover(t.lg)' \ {t.lg} : ~Unlisted(k)'
                                       /\ IsSpan(t.lg)' => ~Finished(Parent(t.lg))'
      <3>1. t \in Tasks(q)
        BY <1>w, <2>3
      <3>2. /\ t.op \in {"newChildLog", "return"} => ~t.flag
            /\ t.op = "newChildLog" => /\ IsSpan(t.lg) /\ t.lg # Request /\ ~Counted(t.lg)
                                       /\ Parent(t.lg) \in live
                                       /\ T("return", t.lg, FALSE) \in Tasks(q)
            /\ t.op = "return" => /\ \A k \in Cover(t.lg) \ {t.lg} : ~Unlisted(k)
                                  /\ IsSpan(t.lg) => ~Finished(Parent(t.lg))
        BY <1>t, <3>1 DEF MakeInv
      <3>3. /\ IsSpan(t.lg)' <=> IsSpan(t.lg)
            /\ Parent(t.lg)' = Parent(t.lg)
            /\ Cover(t.lg)' = Cover(t.lg)
        BY <1>0, TreeFrame
      <3>4. Finished(Parent(t.lg))' <=> Finished(Parent(t.lg))
        BY <1>0 DEF Finished, Parent, tree
      <3>5. t.op = "newChildLog" => q # p /\ Tasks(q)' = Tasks(q)
        BY <1>b, <1>7, <2>3
      <3> QED
        BY <1>0, <1>u, <1>c, <3>2, <3>3, <3>4, <3>5
    <2> QED
      BY <2>1, <2>2, <2>3, <2>4 DEF MakeInv
  <1>9. ListInv'
    <2>1. \A t \in Work : t.op \in {"retire", "newChildLog"} => t \in Work'
      BY <1>0, <1>7
    <2>2. \A t \in Work' : IsPiece(t) => \A l \in Cover(t.lg) : Counted(l) =>
             \E u \in Work : IsPiece(u) /\ l \in Cover(u.lg)
      BY <1>7
    <2>3. UNCHANGED <<tree, doneCount, dependents, activeDetached>>
      BY <1>0
    <2> QED
      BY <1>t, <2>1, <2>2, <2>3, ListFrame
  <1> QED
    BY <1>7, <1>8, <1>9 DEF CarefulInv

-----------------------------------------------------------------------------
(* The pieces of Done(). *)
LEMMA PieceTasks ==
  /\ \A op \in DoneOps \ {"retire"} : \A l : IsPiece(T(op, l, TRUE))
  /\ \A l : IsPiece(T("retire", l, FALSE))
  <1>1. ASSUME NEW op \in DoneOps \ {"retire"}, NEW l PROVE IsPiece(T(op, l, TRUE))
    <2>1. T(op, l, TRUE).op = op /\ T(op, l, TRUE).flag = TRUE
      BY DEF T
    <2>2. (op # "retire") = TRUE
      OBVIOUS
    <2> QED
      BY <2>1, <2>2 DEF IsPiece
  <1>2. ASSUME NEW l PROVE IsPiece(T("retire", l, FALSE))
    <2>1. T("retire", l, FALSE).op = "retire" /\ T("retire", l, FALSE).flag = FALSE
      BY DEF T
    <2> QED
      BY <2>1 DEF IsPiece, DoneOps, LaterOps
  <1> QED
    BY <1>1, <1>2

(* A piece of Done() on top of a stack. *)
LEMMA DoneFacts ==
  ASSUME CarefulInv, NEW p \in Procs, stack[p] # <<>>, IsPiece(Top(p))
  PROVE  /\ IsDone(Top(p)) /\ ~IsLast(Top(p)) /\ ~Over
         /\ Top(p).lg \in Made /\ Top(p).lg \in Loggers /\ Finished(Top(p).lg)
         /\ SpanOf(Top(p).lg) = Top(p).lg /\ Top(p).lg \in Cover(Top(p).lg)
         /\ Counted(Top(p).lg) <=> Top(p).op \in LaterOps
         /\ \A u \in Rest(p) : IsPiece(u) /\ Top(p).lg \in Cover(u.lg) =>
               /\ u \in Below(p) /\ u.lg = Top(p).lg
               /\ <<Top(p).op, u.op>> \in {<<"baseDone", "dependents">>, <<"baseDone", "retire">>,
                                           <<"dependents", "retire">>}
         /\ ~Unlisted(Top(p).lg)
  <1>t. TypeOK /\ TreeInv /\ TaskInv
    BY DEF CarefulInv
  <1>1. Top(p) \in Work
    BY TopFacts
  <1>2. ~IsUse(Top(p)) /\ ~IsLast(Top(p))
    BY Kinds
  <1>3. IsDone(Top(p)) /\ ~Over
    BY <1>t, <1>1, <1>2, NotOver DEF TaskInv
  <1>4. Top(p).lg \in Made /\ Finished(Top(p).lg) /\ SpanOf(Top(p).lg) = Top(p).lg
    BY <1>3 DEF IsDone, IsSpan
  <1>5. Top(p).lg \in Loggers /\ Top(p).lg \in Cover(Top(p).lg)
    BY <1>t, <1>4, FinishedDown
  <1>6. ASSUME NEW u \in Rest(p), IsPiece(u), Top(p).lg \in Cover(u.lg)
        PROVE  /\ u \in Below(p) /\ u.lg = Top(p).lg
               /\ <<Top(p).op, u.op>> \in {<<"baseDone", "dependents">>, <<"baseDone", "retire">>,
                                           <<"dependents", "retire">>}
    <2>1. u \in Below(p)
      BY <1>6, TopFacts DEF Parted
    <2>2. Nested(Top(p), u)
      BY <2>1, TopFacts
    <2> QED
      BY <1>6, <2>1, <2>2 DEF Nested
  <1>7. ~Unlisted(Top(p).lg)
    <2> SUFFICES ASSUME T("newChildLog", Top(p).lg, FALSE) \in Work PROVE FALSE
      BY DEF Unlisted
    <2> DEFINE t == T("newChildLog", Top(p).lg, FALSE)
    <2>1. t.op = "newChildLog" /\ t.lg = Top(p).lg /\ t \in Work
      BY DEF T
    <2> HIDE DEF t
    <2>2. IsUse(t)
      BY <1>t, <2>1 DEF TaskInv, IsDone, IsPiece, IsLast, DoneOps, FirstOps, LaterOps, LastOps, LockedOps
    <2> QED
      BY <1>4, <2>1, <2>2 DEF IsUse
  <1>8. Counted(Top(p).lg) <=> Top(p).op \in LaterOps
    BY <1>3 DEF IsDone
  <1> QED
    BY <1>2, <1>3, <1>4, <1>5, <1>6, <1>7, <1>8

(* Done() goes on, on the same span, or is through with it. *)
LEMMA DoneStack ==
  ASSUME CarefulInv, NEW p \in Procs, stack[p] # <<>>, NEW new \in Seq(Task),
         Continue(p, new), UNCHANGED tree, IsPiece(Top(p)),
         \A t \in Pieces(new) : \/ IsPiece(t) /\ t.lg = Top(p).lg /\ Top(p).op \in FirstOps
                                \/ t.op = "Flush",
         \A i, j \in DOMAIN new : i < j => Nested(new[i], new[j])
  PROVE  StackInv'
  <1>t. TypeOK /\ StackInv
    BY DEF CarefulInv
  <1>f. \A t : t.op = "Flush" => ~IsPiece(t)
    BY DEF IsPiece, DoneOps, FirstOps, LaterOps
  <1>n. \A u \in Rest(p) : IsPiece(u) /\ Top(p).op \in FirstOps => Top(p).lg \notin Cover(u.lg)
    BY DoneFacts DEF FirstOps
  <1>1. \A t, u \in Rest(p) : (Nested(t, u) => Nested(t, u)') /\ (Parted(t, u) => Parted(t, u)')
    BY TreeFrame
  <1>2. \A i, j \in DOMAIN new : i < j => Nested(new[i], new[j])'
    BY TreeFrame
  <1>3. ASSUME NEW t \in Pieces(new), NEW u \in Below(p) PROVE Nested(t, u)'
    <2>1. Nested(Top(p), u) /\ u \in Rest(p)
      BY TopFacts
    <2>2. Nested(t, u)
      BY <1>f, <1>n, <2>1 DEF Nested
    <2> QED
      BY <2>2, TreeFrame
  <1>4. ASSUME NEW t \in Pieces(new), NEW q \in Procs \ {p}, NEW u \in Tasks(q)
        PROVE  Parted(t, u)' /\ Parted(u, t)'
    <2>1. Parted(Top(p), u) /\ Parted(u, Top(p))
      BY TopFacts
    <2>2. t.op \notin {"newChildLog", "return"}
      BY DEF IsPiece, DoneOps, FirstOps, LaterOps
    <2>3. Parted(t, u) /\ Parted(u, t)
      BY <1>f, <2>1, <2>2 DEF Parted
    <2> QED
      BY <2>3, TreeFrame
  <1> QED
    BY <1>t, <1>1, <1>2, <1>3, <1>4, StepStackInv

(* Done() starts on a span: the span is not known to be active any more. *)
LEMMA CarefulDoneStart ==
  ASSUME CarefulInv, TypeOK', NEW p \in Procs, DoneStart(p)
  PROVE  CarefulInv'
  <1>t. /\ TypeOK /\ TreeInv /\ RequestInv /\ SpanInv /\ TaskInv /\ MakeInv /\ ListInv
        /\ CascadeInv /\ RequestDoneInv /\ BaseInv
    BY DEF CarefulInv
  <1>0. stack[p] # <<>> /\ Top(p).op = "done"
    BY DEF DoneStart, Runs
  <1>1. Top(p) \in Work /\ Top(p) \in Task
    BY <1>0, TopFacts
  <1>p. IsPiece(Top(p)) /\ Top(p).flag
    BY <1>t, <1>0, <1>1 DEF TaskInv, IsUse, IsDone, IsLast, IsPiece, UseOps, LastOps, LockedOps
  <1>l. PICK l : l = Top(p).lg
    OBVIOUS
  <1>2. PICK new : new = <<T("doneCount", l, TRUE)>>
    OBVIOUS
  <1>3. /\ l \in Made /\ l \in Loggers /\ SpanOf(l) = l /\ Finished(l) /\ ~Counted(l) /\ ~Over
        /\ l \in Cover(l)
    BY <1>0, <1>p, <1>l, DoneFacts DEF LaterOps
  <1>4. /\ Continue(p, new) /\ knownActive' = knownActive \ {l}
        /\ UNCHANGED <<spawned, tree, doneCount, dependents, shared, base, live, asked, alarms>>
    <2>1. Top(p).flag = TRUE
      BY <1>1, <1>p DEF Task
    <2> QED
      BY <1>l, <1>2, <1>3, <2>1 DEF DoneStart, history
  <1>5. /\ new \in Seq(Task) /\ Pieces(new) = {T("doneCount", l, TRUE)}
    <2>1. T("doneCount", l, TRUE) \in Task
      BY <1>3, TaskTyped DEF Ops
    <2> QED
      BY <1>2, <2>1, SeqTyped, ShortPieces
  <1>6. \A t \in Pieces(new) : IsPiece(t) /\ t.lg = l /\ t.op = "doneCount"
    <2>1. IsPiece(T("doneCount", l, TRUE))
      BY PieceTasks DEF DoneOps, FirstOps
    <2>2. T("doneCount", l, TRUE).lg = l /\ T("doneCount", l, TRUE).op = "doneCount"
      BY DEF T
    <2> QED
      BY <1>5, <2>1, <2>2
  <1>w. Work = {Top(p)} \cup Rest(p) /\ Work' = Pieces(new) \cup Rest(p)
    BY <1>t, <1>0, <1>4, <1>5, StepWork
  <1>u. /\ UNCHANGED <<tree, live, asked>> /\ UNCHANGED <<tree, doneCount, dependents, activeDetached>>
        /\ UNCHANGED <<tree, doneCount, asked>> /\ UNCHANGED <<tree, doneCount, asked, final, alarms>>
        /\ UNCHANGED <<tree, waiting>> /\ armed' = armed /\ undated' = undated /\ dirty' = dirty
    BY <1>4 DEF shared, base
  <1>c. \A k : (Finished(k)' <=> Finished(k)) /\ (Counted(k)' <=> Counted(k))
    BY <1>u DEF Finished, Counted, tree
  <1>f. UNCHANGED tree
    BY <1>u
  <1>7. TreeInv' /\ RequestInv'
    BY <1>t, <1>f, TreeFrame
  <1>8. SpanInv'
    <2>1. \A k \in Made : ~Finished(k) => SpanOf(k) # l
      BY <1>t, <1>3, FinishedDown
    <2>2. asked' \subseteq {k \in Made : IsSpan(k)}'
      <3>1. {k \in Made : IsSpan(k)}' = {k \in Made : IsSpan(k)}
        BY <1>f, TreeFrame
      <3> QED
        BY <1>t, <1>u, <3>1 DEF SpanInv
    <2>3. \A k \in Loggers : Counted(k)' =>
            k \in Made' /\ IsSpan(k)' /\ Finished(k)' /\ k \notin knownActive'
      BY <1>t, <1>4, <1>c, <1>f, TreeFrame DEF SpanInv
    <2>4. \A k \in Made' : ~Finished(k)' => SpanOf(k)' \in knownActive'
      BY <1>t, <1>4, <1>c, <1>f, <2>1, TreeFrame DEF SpanInv
    <2> QED
      BY <1>t, <1>u, <2>2, <2>3, <2>4 DEF SpanInv
  <1>9. TaskInv'
    <2>1. \A t \in Rest(p) : (IsUse(t) => IsUse(t)') /\ (IsDone(t) => IsDone(t)')
      <3>1. \A t : IsUse(t) => IsUse(t)'
        BY <1>c, <1>f, TreeFrame DEF IsUse
      <3>2. \A t : IsDone(t) => IsDone(t)'
        BY <1>4, <1>c, <1>f, TreeFrame DEF IsDone, IsPiece
      <3> QED
        BY <3>1, <3>2
    <2>2. \A t \in Pieces(new) : IsUse(t)' \/ IsDone(t)'
      <3>1. l \in Made' /\ IsSpan(l)' /\ Finished(l)' /\ ~Counted(l)' /\ l \notin knownActive'
        BY <1>3, <1>4, <1>c, <1>f, TreeFrame DEF IsSpan
      <3>2. \A t \in Pieces(new) : IsPiece(t)'
        BY <1>6 DEF IsPiece
      <3> QED
        BY <1>6, <3>1, <3>2 DEF IsDone, LaterOps
    <2>3. ~IsLast(Top(p))
      BY <1>0, <1>p, DoneFacts
    <2> QED
      BY <1>0, <1>4, <1>5, <2>1, <2>2, <2>3, TaskFrame
  <1>10. MakeInv'
    <2>1. \A t \in Work : t.op = "newChildLog" => ~Counted(t.lg)
      BY <1>t DEF MakeInv, Work
    <2>2. \A t \in Work : t.op = "newChildLog" => ~Counted(t.lg)'
      BY <1>c, <2>1
    <2> QED
      BY <1>t, <1>0, <1>4, <1>5, <1>6, <1>u, <2>2, MakeFrame
  <1>11. ListInv'
    BY <1>t, <1>0, <1>1, <1>l, <1>p, <1>6, <1>u, <1>w, ListFrame
  <1>12. StackInv'
    <2>1. \A i, j \in DOMAIN new : i < j => Nested(new[i], new[j])
      BY <1>2
    <2> QED
      BY <1>0, <1>l, <1>p, <1>4, <1>5, <1>6, <1>f, <2>1, DoneStack DEF FirstOps
  <1>13. CascadeInv'
    <2>1. \A t \in Work : Cascading(t) => \E u \in Work' : Cascading(u) /\ u.lg = t.lg
      <3>1. \E u \in Work' : Cascading(u) /\ u.lg = l
        BY <1>5, <1>6, <1>w DEF Cascading
      <3> QED
        BY <1>l, <1>w, <3>1
    <2> QED
      BY <1>t, <1>u, <2>1, CascadeFrame
  <1>14. RequestDoneInv'
    <2>1. waiting => dependents'[Request] = {} /\ activeDetached' # {}
      BY <1>t, <1>u DEF RequestDoneInv
    <2>2. waiting => \A t \in Work' : IsPiece(t) => Request \notin Cover(t.lg)
      BY <1>t, <1>1, <1>l, <1>p, <1>6, <1>w DEF RequestDoneInv
    <2>3. \A t \in Work : t.op = "retire" => t \in Work' \/ t.lg # Request
      BY <1>0, <1>w
    <2> QED
      BY <1>t, <1>3, <1>c, <1>u, <2>1, <2>2, <2>3, RequestFrame
  <1>15. BaseInv'
    <2>1. undated' \subseteq dirty'
      BY <1>t, <1>u DEF BaseInv
    <2>2. \A t \in Work : t.op = "baseDone" => t \in Work' \/ t.lg \notin undated'
      BY <1>0, <1>w
    <2> QED
      BY <1>t, <1>u, <2>1, <2>2, BaseFrame
  <1> QED
    BY <1>7, <1>8, <1>9, <1>10, <1>11, <1>12, <1>13, <1>14, <1>15 DEF CarefulInv

(* Done() counts: from now on the base, the dependents and the parent of   *)
(* the span are still to be told.                                          *)
LEMMA CarefulDoneCount ==
  ASSUME CarefulInv, TypeOK', NEW p \in Procs, DoneCount(p)
  PROVE  CarefulInv'
  <1>t. /\ TypeOK /\ TreeInv /\ RequestInv /\ SpanInv /\ TaskInv /\ MakeInv /\ ListInv
        /\ CascadeInv /\ RequestDoneInv /\ BaseInv
    BY DEF CarefulInv
  <1>0. stack[p] # <<>> /\ Top(p).op = "doneCount"
    BY DEF DoneCount, Runs
  <1>1. Top(p) \in Work /\ Top(p) \in Task
    BY <1>0, TopFacts
  <1>p. IsPiece(Top(p))
    BY <1>t, <1>0, <1>1 DEF TaskInv, IsUse, IsDone, IsLast, UseOps, LastOps, LockedOps
  <1>l. PICK l : l = Top(p).lg
    OBVIOUS
  <1>3. /\ l \in Made /\ l \in Loggers /\ SpanOf(l) = l /\ Finished(l) /\ ~Counted(l) /\ ~Over
        /\ l \in Cover(l) /\ l \notin knownActive /\ ~Unlisted(l)
        /\ \A u \in Rest(p) : IsPiece(u) => l \notin Cover(u.lg)
    BY <1>0, <1>p, <1>l, DoneFacts DEF LaterOps, IsDone
  <1> DEFINE a == T("baseDone", l, TRUE)
             b == T("dependents", l, TRUE)
             c == T("retire", l, FALSE)
  <1>s. /\ a.op = "baseDone" /\ b.op = "dependents" /\ c.op = "retire"
        /\ a.lg = l /\ b.lg = l /\ c.lg = l
        /\ IsPiece(a) /\ IsPiece(b) /\ IsPiece(c)
        /\ a \in Task /\ b \in Task /\ c \in Task
    <2>1. /\ a.op = "baseDone" /\ b.op = "dependents" /\ c.op = "retire"
          /\ a.lg = l /\ b.lg = l /\ c.lg = l
      BY DEF T
    <2>2. IsPiece(a) /\ IsPiece(b) /\ IsPiece(c)
      BY PieceTasks DEF DoneOps, LaterOps
    <2>3. a \in Task /\ b \in Task /\ c \in Task
      BY <1>3, TaskTyped DEF Ops
    <2> QED
      BY <2>1, <2>2, <2>3
  <1>4. /\ Continue(p, <<a, b, c>>) /\ doneCount' = [doneCount EXCEPT ![l] = 1] /\ alarms' = alarms
        /\ UNCHANGED <<spawned, tree, knownActive, dependents, shared, base, live, asked>>
    <2>1. doneCount[l] = 0 /\ ~(doneCount[SpanOf(Top(p).lg)] # 0 /\ Top(p).flag)
      BY <1>l, <1>3 DEF Counted
    <2>2. /\ Continue(p, (<<a, b>> \o When(FALSE, <<T("Error", l, FALSE)>>)) \o <<c>>)
          /\ doneCount' = [doneCount EXCEPT ![l] = 1] /\ alarms' = alarms
          /\ UNCHANGED <<spawned, tree, knownActive, dependents, shared, base, live, asked>>
      <3>1. /\ Continue(p, (<<a, b>> \o When(FALSE, <<T("Error", l, FALSE)>>)) \o <<c>>)
            /\ alarms' = alarms
        BY <1>l, <2>1, Zenon DEF DoneCount
      <3>2. doneCount' = [doneCount EXCEPT ![l] = 1]
        BY <1>l, <1>3, <2>1 DEF DoneCount
      <3>3. UNCHANGED <<spawned, tree, knownActive, dependents, shared, base, live, asked>>
        BY DEF DoneCount
      <3> QED
        BY <3>1, <3>2, <3>3
    <2>3. (<<a, b>> \o When(FALSE, <<T("Error", l, FALSE)>>)) \o <<c>> = <<a, b, c>>
      <3>1. <<a, b>> \o <<>> = <<a, b>> /\ <<a, b>> \o <<c>> = <<a, b, c>>
        <4> HIDE DEF a, b, c
        <4> QED
          BY <1>s, ShortConcat
      <3>2. When(FALSE, <<T("Error", l, FALSE)>>) = <<>>
        BY DEF When
      <3> HIDE DEF a, b, c
      <3> QED
        BY <3>1, <3>2
    <2> QED
      BY <2>2, <2>3
  <1> HIDE DEF a, b, c
  <1>2. PICK new : new = <<a, b, c>>
    OBVIOUS
  <1>5. new \in Seq(Task) /\ Pieces(new) = {a, b, c} /\ Continue(p, new)
    BY <1>2, <1>4, <1>s, SeqTyped, ShortPieces
  <1>w. /\ Work = {Top(p)} \cup Rest(p) /\ Work' = Pieces(new) \cup Rest(p)
        /\ \A t \in Work : t # Top(p) => t \in Work'
    BY <1>t, <1>0, <1>5, StepWork
  <1>f. UNCHANGED tree
    BY <1>4
  <1>c. /\ \A k : Finished(k)' <=> Finished(k)
        /\ \A k \in Loggers : k # l => (Counted(k)' <=> Counted(k))
        /\ Counted(l)'
    BY <1>t, <1>3, <1>4 DEF Finished, Counted, tree, TypeOK
  <1>m. \A k \in Made : k \in Loggers
    BY <1>t, FinishedDown
  <1>7. TreeInv' /\ RequestInv'
    BY <1>t, <1>f, TreeFrame
  <1>8. SpanInv'
    <2>1. asked' \subseteq {k \in Made : IsSpan(k)}'
      <3>1. {k \in Made : IsSpan(k)}' = {k \in Made : IsSpan(k)}
        BY <1>f, TreeFrame
      <3> QED
        BY <1>t, <1>4, <3>1 DEF SpanInv
    <2>2. \A k \in Loggers : Counted(k)' =>
            k \in Made' /\ IsSpan(k)' /\ Finished(k)' /\ k \notin knownActive'
      BY <1>t, <1>3, <1>4, <1>c, <1>f, TreeFrame DEF SpanInv, IsSpan
    <2>3. \A k \in Made' : ~Finished(k)' => SpanOf(k)' \in knownActive'
      BY <1>t, <1>4, <1>c, <1>f, TreeFrame DEF SpanInv
    <2>4. armed' = armed
      BY <1>4 DEF shared
    <2> QED
      BY <1>t, <2>1, <2>2, <2>3, <2>4 DEF SpanInv
  <1>9. TaskInv'
    <2>1. \A t \in Rest(p) : IsUse(t) => IsUse(t)'
      BY <1>c, <1>f, TreeFrame DEF IsUse
    <2>2. ASSUME NEW t \in Rest(p), IsDone(t) PROVE IsDone(t)'
      <3>1. t.lg # l /\ t.lg \in Made /\ t.lg \in Loggers
        BY <1>3, <1>m, <2>2 DEF IsDone
      <3>2. Counted(t.lg)' <=> Counted(t.lg)
        BY <1>c, <3>1
      <3>3. knownActive' = knownActive
        BY <1>4
      <3> QED
        BY <1>c, <1>f, <2>2, <3>2, <3>3, TreeFrame DEF IsDone, IsPiece
    <2>3. \A t \in Pieces(new) : IsUse(t)' \/ IsDone(t)'
      <3>1. l \in Made' /\ IsSpan(l)' /\ Finished(l)' /\ Counted(l)' /\ l \notin knownActive'
        BY <1>3, <1>4, <1>c, <1>f, TreeFrame DEF IsSpan
      <3>2. \A t \in Pieces(new) : IsPiece(t)' /\ t.op \in LaterOps /\ t.lg = l
        BY <1>5, <1>s DEF IsPiece, LaterOps
      <3> QED
        BY <3>1, <3>2 DEF IsDone
    <2>4. ~IsLast(Top(p)) /\ spawned' = spawned
      BY <1>0, <1>p, <1>4, DoneFacts
    <2> QED
      BY <1>0, <1>5, <2>1, <2>2, <2>3, <2>4, TaskFrame
  <1>10. MakeInv'
    <2>1. ASSUME NEW t \in Work, t.op = "newChildLog" PROVE ~Counted(t.lg)'
      <3>1. ~Counted(t.lg)
        BY <1>t, <2>1 DEF MakeInv, Work
      <3>2. IsUse(t)
        BY <1>t, <2>1 DEF TaskInv, IsDone, IsPiece, IsLast, DoneOps, FirstOps, LaterOps, LastOps, LockedOps
      <3>3. t.lg # l /\ t.lg \in Loggers
        BY <1>3, <1>m, <3>2 DEF IsUse
      <3> QED
        BY <1>c, <3>1, <3>3
    <2>2. \A t \in Pieces(new) : t.op \notin {"newChildLog", "return"}
      BY <1>5, <1>s
    <2>3. UNCHANGED <<tree, live, asked>>
      BY <1>4
    <2> QED
      BY <1>t, <1>0, <1>5, <2>1, <2>2, <2>3, MakeFrame
  <1>11. ListInv'
    <2>1. \A k : InList(k)' <=> InList(k)
      BY <1>4, <1>f, TreeFrame DEF InList, SpanOf, Parent, shared
    <2>2. activeDetached' = activeDetached /\ dependents' = dependents
      BY <1>4 DEF shared
    <2>3. \A k \in activeDetached' : k \in Made' /\ IsSpan(k)' /\ info'[k].detached
      BY <1>t, <1>f, <2>2, TreeFrame DEF ListInv
    <2>4. \A s \in Loggers : \A k \in dependents'[s] :
            k \in Made' /\ IsSpan(k)' /\ ~Root(k)' /\ SpanOf(Parent(k))' = s
      <3>1. \A k : SpanOf(Parent(k))' = SpanOf(Parent(k))
        BY <1>f DEF SpanOf, Parent, tree
      <3> QED
        BY <1>t, <1>f, <2>2, <3>1, TreeFrame DEF ListInv
    <2>5. /\ \A k : T("newChildLog", k, FALSE) # Top(p) /\ T("retire", k, FALSE) # Top(p)
          /\ \A k : k = l => T("retire", k, FALSE) \in Work'
      <3>1. \A k : T("newChildLog", k, FALSE) # Top(p) /\ T("retire", k, FALSE) # Top(p)
        BY <1>0 DEF T
      <3>2. T("retire", l, FALSE) \in Work'
        BY <1>5, <1>w DEF c
      <3> QED
        BY <3>1, <3>2
    <2>6. ASSUME NEW k \in Made' \ {Request}, IsSpan(k)'
          PROVE  /\ ~Counted(k)' => InList(k)' \/ Unlisted(k)'
                 /\ Counted(k)' /\ InList(k)' => T("retire", k, FALSE) \in Work'
                 /\ Counted(k)' /\ ~InList(k)' => \A t \in Work' : IsPiece(t)' => k \notin Cover(t.lg)'
      <3>1. k \in Made \ {Request} /\ IsSpan(k) /\ k \in Loggers
        BY <1>f, <1>m, <2>6, TreeFrame
      <3>2. CASE k = l
        <4>1. InList(l)
          BY <1>t, <1>3, <3>1, <3>2 DEF ListInv
        <4> QED
          BY <1>c, <2>1, <2>5, <3>2, <4>1
      <3>3. CASE k # l
        <4>1. Counted(k)' <=> Counted(k)
          BY <1>c, <3>1, <3>3
        <4>2. Unlisted(k) => Unlisted(k)'
          BY <1>w, <2>5 DEF Unlisted
        <4>3. T("retire", k, FALSE) \in Work => T("retire", k, FALSE) \in Work'
          BY <1>w, <2>5
        <4>4. ASSUME Counted(k)', ~InList(k)', NEW t \in Work', IsPiece(t)' PROVE k \notin Cover(t.lg)'
          <5>1. Counted(k) /\ ~InList(k) /\ IsPiece(t) /\ Cover(t.lg)' = Cover(t.lg)
            BY <1>f, <2>1, <4>1, <4>4, TreeFrame DEF IsPiece
          <5>2. \A u \in Work : IsPiece(u) => k \notin Cover(u.lg)
            BY <1>t, <3>1, <5>1 DEF ListInv
          <5>3. k \notin Cover(l)
            BY <1>1, <1>p, <1>l, <5>2
          <5> QED
            BY <1>5, <1>s, <1>w, <5>1, <5>2, <5>3
        <4> QED
          BY <1>t, <2>1, <3>1, <4>1, <4>2, <4>3, <4>4 DEF ListInv
      <3> QED
        BY <3>2, <3>3
    <2> QED
      BY <2>3, <2>4, <2>6 DEF ListInv
  <1>12. StackInv'
    <2>1. \A i, j \in DOMAIN new : i < j => Nested(new[i], new[j])
      <3>1. DOMAIN new = 1 .. 3 /\ new[1] = a /\ new[2] = b /\ new[3] = c
        BY <1>2
      <3>2. Nested(a, b) /\ Nested(a, c) /\ Nested(b, c)
        BY <1>s DEF Nested
      <3>3. ASSUME NEW i \in 1 .. 3, NEW j \in 1 .. 3, i < j PROVE Nested(new[i], new[j])
        <4>1. (i = 1 /\ j = 2) \/ (i = 1 /\ j = 3) \/ (i = 2 /\ j = 3)
          BY <3>3
        <4> QED
          BY <3>1, <3>2, <4>1
      <3> QED
        BY <3>1, <3>3
    <2>2. \A t \in Pieces(new) : IsPiece(t) /\ t.lg = Top(p).lg /\ Top(p).op \in FirstOps
      BY <1>0, <1>l, <1>5, <1>s DEF FirstOps
    <2> QED
      BY <1>0, <1>p, <1>5, <1>f, <2>1, <2>2, DoneStack
  <1>13. CascadeInv'
    <2> SUFFICES ASSUME NEW d \in Made', IsSpan(d)', ~Counted(d)',
                        NEW k \in Cover(d)', k \in asked' \/ Counted(k)'
                 PROVE  \E t \in Work' : Cascading(t)' /\ t.lg \in Cover(d)' /\ k \in Cover(t.lg)'
      BY DEF CascadeInv
    <2>1. d \in Made /\ IsSpan(d) /\ d \in Loggers /\ d # l /\ ~Counted(d) /\ k \in Cover(d)
      BY <1>c, <1>f, <1>m, TreeFrame
    <2>2. k \in Made /\ k \in Loggers
      BY <1>t, <1>m, <2>1 DEF TreeInv
    <2>3. \A t : Cascading(t)' <=> Cascading(t)
      BY DEF Cascading, IsPiece
    <2>4. b \in Work' /\ Cascading(b)
      BY <1>5, <1>s, <1>w DEF Cascading
    <2>5. CASE k = l
      <3>1. b \in Work' /\ Cascading(b)' /\ b.lg \in Cover(d)' /\ k \in Cover(b.lg)'
        BY <1>3, <1>s, <1>f, <2>1, <2>3, <2>4, <2>5, TreeFrame
      <3> QED
        BY <3>1
    <2>6. CASE k # l
      <3>1. k \in asked \/ Counted(k)
        BY <1>c, <1>4, <2>2, <2>6
      <3>2. PICK t \in Work : Cascading(t) /\ t.lg \in Cover(d) /\ k \in Cover(t.lg)
        BY <1>t, <2>1, <3>1 DEF CascadeInv
      <3>3. PICK u \in Work' : Cascading(u) /\ u.lg = t.lg
        BY <1>l, <1>s, <1>w, <2>4, <3>2
      <3>4. u \in Work' /\ Cascading(u)' /\ u.lg \in Cover(d)' /\ k \in Cover(u.lg)'
        BY <1>f, <2>3, <3>2, <3>3, TreeFrame
      <3> QED
        BY <3>4
    <2> QED
      BY <2>5, <2>6
  <1>14. RequestDoneInv'
    <2>1. waiting' = waiting /\ activeDetached' = activeDetached /\ dependents' = dependents
      BY <1>4 DEF shared
    <2>r. Request \in Loggers
      BY LifecycleAssumption DEF LifecycleAssumption, Request, Loggers
    <2>2. waiting => l # Request
      BY <1>3 DEF RequestDoneInv, CarefulInv
    <2>3. \A t \in Work' : IsPiece(t)' <=> IsPiece(t)
      BY DEF IsPiece
    <2>4. waiting' => \A t \in Work' : IsPiece(t)' => Request \notin Cover(t.lg)'
      <3> SUFFICES ASSUME waiting, NEW t \in Work', IsPiece(t) PROVE Request \notin Cover(t.lg)
        BY <1>f, <2>1, <2>3, TreeFrame
      <3>1. \A u \in Work : IsPiece(u) => Request \notin Cover(u.lg)
        BY <1>t DEF RequestDoneInv
      <3>2. Request \notin Cover(l)
        BY <1>1, <1>p, <1>l, <3>1
      <3> QED
        BY <1>5, <1>s, <1>w, <3>1, <3>2
    <2>5. waiting' => Counted(Request)' /\ dependents'[Request] = {} /\ activeDetached' # {}
      BY <1>t, <1>c, <2>1, <2>2, <2>r DEF RequestDoneInv
    <2>6. Counted(Request)' => waiting' \/ T("retire", Request, FALSE) \in Work'
      <3>1. CASE Request = l
        BY <1>5, <1>w, <3>1 DEF c
      <3>2. CASE Request # l
        <4>1. Counted(Request)' <=> Counted(Request)
          BY <1>c, <2>r, <3>2
        <4>2. Counted(Request) => waiting \/ T("retire", Request, FALSE) \in Work
          BY <1>t, <1>3 DEF RequestDoneInv
        <4>3. T("retire", Request, FALSE) # Top(p)
          BY <1>0 DEF T
        <4>4. T("retire", Request, FALSE) \in Work => T("retire", Request, FALSE) \in Work'
          BY <1>w, <4>3
        <4>5. waiting => waiting'
          BY <2>1
        <4> QED
          BY <4>1, <4>2, <4>4, <4>5, Zenon
      <3> QED
        BY <3>1, <3>2
    <2> QED
      BY <2>4, <2>5, <2>6 DEF RequestDoneInv, Request
  <1>15. BaseInv'
    <2>1. undated' = undated /\ dirty' = dirty /\ final' = final /\ alarms' = alarms
      BY <1>4 DEF base
    <2>2. final' \subseteq {k \in Made : Finished(k)}'
      <3>1. {k \in Made : Finished(k)}' = {k \in Made : Finished(k)}
        BY <1>c, <1>f, TreeFrame
      <3> QED
        BY <1>t, <2>1, <3>1 DEF BaseInv
    <2>3. ASSUME NEW k \in undated'
          PROVE  k \in Made' /\ IsSpan(k)' /\ (Counted(k)' => T("baseDone", k, TRUE) \in Work')
      <3>1. k \in Made /\ IsSpan(k) /\ k \in Loggers /\ (Counted(k) => T("baseDone", k, TRUE) \in Work)
        BY <1>t, <1>m, <2>1 DEF BaseInv
      <3>2. CASE k = l
        BY <1>5, <1>w, <1>f, <3>1, <3>2, TreeFrame DEF a
      <3>3. CASE k # l
        <4>1. T("baseDone", k, TRUE) # Top(p)
          BY <1>0 DEF T
        <4>2. T("baseDone", k, TRUE) \in Work => T("baseDone", k, TRUE) \in Work'
          BY <1>w, <4>1
        <4> QED
          BY <1>c, <1>f, <3>1, <3>3, <4>2, TreeFrame
      <3> QED
        BY <3>2, <3>3
    <2> QED
      BY <1>t, <1>4, <2>1, <2>2, <2>3 DEF BaseInv, NoFalseAlarm
  <1> QED
    BY <1>7, <1>8, <1>9, <1>10, <1>11, <1>12, <1>13, <1>14, <1>15 DEF CarefulInv

(* What is left alone when a piece of Done() that is neither the first two *)
(* nor the last ends, or hands over to the dependents.                     *)
LEMMA DoneRest ==
  ASSUME CarefulInv, NEW p \in Procs, stack[p] # <<>>, NEW new \in Seq(Task),
         Continue(p, new), IsPiece(Top(p)),
         UNCHANGED <<spawned, tree, knownActive, doneCount, armed, live, asked>>,
         \A t \in Pieces(new) : IsPiece(t) /\ IsDone(t)
  PROVE  /\ TreeInv' /\ RequestInv' /\ SpanInv' /\ TaskInv' /\ MakeInv'
         /\ Work = {Top(p)} \cup Rest(p) /\ Work' = Pieces(new) \cup Rest(p)
         /\ ~Over
  <1>t. TypeOK /\ TreeInv /\ RequestInv /\ SpanInv /\ TaskInv /\ MakeInv
    BY DEF CarefulInv
  <1>w. Work = {Top(p)} \cup Rest(p) /\ Work' = Pieces(new) \cup Rest(p)
    BY <1>t, StepWork
  <1>k. ~IsLast(Top(p)) /\ ~Over
    BY DoneFacts
  <1>u. /\ UNCHANGED <<tree, knownActive, doneCount, asked>> /\ UNCHANGED <<tree, live, asked>>
        /\ armed' = armed
    OBVIOUS
  <1>1. TreeInv' /\ RequestInv'
    BY <1>t, TreeFrame
  <1>2. SpanInv'
    BY <1>t, <1>u, SpanFrame
  <1>3. TaskInv'
    BY <1>k, <1>u, SpanFrame, TaskFrame
  <1>4. MakeInv'
    <2>1. \A t \in Work : t.op = "newChildLog" => ~Counted(t.lg)
      BY <1>t DEF MakeInv, Work
    <2>2. \A t \in Work : t.op = "newChildLog" => ~Counted(t.lg)'
      BY <1>u, <2>1, SpanFrame
    <2>3. \A t : IsPiece(t) => t.op \notin {"newChildLog", "return"}
      BY DEF IsPiece, DoneOps, FirstOps, LaterOps
    <2> QED
      BY <1>t, <1>u, <2>2, <2>3, MakeFrame
  <1> QED
    BY <1>w, <1>k, <1>1, <1>2, <1>3, <1>4

(* The base is told that Done() was called on a span. *)
LEMMA CarefulBaseDone ==
  ASSUME CarefulInv, TypeOK', NEW p \in Procs, BaseDone(p), IsPiece(Top(p))
  PROVE  CarefulInv'
  <1>t. /\ TypeOK /\ TreeInv /\ RequestInv /\ SpanInv /\ TaskInv /\ MakeInv /\ ListInv
        /\ CascadeInv /\ RequestDoneInv /\ BaseInv
    BY DEF CarefulInv
  <1>0. stack[p] # <<>> /\ Top(p).op = "baseDone"
    BY DEF BaseDone, Runs
  <1>l. PICK l : l = Top(p).lg
    OBVIOUS
  <1>3. l \in Made /\ SpanOf(l) = l /\ Finished(l)
    BY <1>0, <1>l, DoneFacts
  <1>4. /\ Continue(p, <<>>)
        /\ dirty' = dirty \cup {l} /\ undated' = undated \ {l} /\ final' \subseteq final \cup {l}
        /\ UNCHANGED <<spawned, tree, spans, shared, held, history>>
    BY <1>l, <1>3 DEF BaseDone
  <1>e. <<>> \in Seq(Task) /\ Pieces(<<>>) = {} /\ DOMAIN <<>> = {}
    BY SeqTyped, ShortPieces
  <1>u. /\ UNCHANGED <<tree, doneCount, dependents, activeDetached>>
        /\ UNCHANGED <<tree, doneCount, asked>> /\ UNCHANGED <<tree, waiting>>
        /\ UNCHANGED <<spawned, tree, knownActive, doneCount, armed, live, asked>>
        /\ alarms' = alarms
    BY <1>4 DEF spans, shared, history
  <1>5. /\ TreeInv' /\ RequestInv' /\ SpanInv' /\ TaskInv' /\ MakeInv'
        /\ Work = {Top(p)} \cup Rest(p) /\ Work' = Pieces(<<>>) \cup Rest(p)
        /\ ~Over
    BY <1>0, <1>4, <1>e, <1>u, DoneRest
  <1>w. Work = {Top(p)} \cup Work' /\ Work' = Rest(p)
    BY <1>5, <1>e
  <1>6. ListInv'
    BY <1>t, <1>0, <1>u, <1>w, ListFrame
  <1>7. StackInv'
    BY <1>0, <1>4, <1>e, DoneStack
  <1>8. CascadeInv'
    BY <1>t, <1>0, <1>u, <1>w, CascadeFrame DEF Cascading
  <1>9. RequestDoneInv'
    <2>1. waiting => dependents'[Request] = {} /\ activeDetached' # {}
      BY <1>t, <1>u DEF RequestDoneInv
    <2>2. waiting => \A t \in Work' : IsPiece(t) => Request \notin Cover(t.lg)
      BY <1>t, <1>w DEF RequestDoneInv
    <2>3. \A t \in Work : t.op = "retire" => t \in Work' \/ t.lg # Request
      BY <1>0, <1>w
    <2>4. Counted(Request)' <=> Counted(Request)
      BY <1>u DEF Counted
    <2> QED
      BY <1>t, <1>5, <1>u, <2>1, <2>2, <2>3, <2>4, RequestFrame
  <1>10. BaseInv'
    <2>c. \A k : (Finished(k)' <=> Finished(k)) /\ (Counted(k)' <=> Counted(k))
      BY <1>u DEF Finished, Counted, tree
    <2>1. final' \subseteq {k \in Made : Finished(k)}'
      <3>1. {k \in Made : Finished(k)}' = {k \in Made : Finished(k)}
        BY <1>u, <2>c, TreeFrame
      <3> QED
        BY <1>t, <1>3, <1>4, <3>1 DEF BaseInv
    <2>2. undated' \subseteq dirty' /\ NoFalseAlarm'
      BY <1>t, <1>4, <1>u DEF BaseInv, NoFalseAlarm
    <2>3. ASSUME NEW k \in undated'
          PROVE  k \in Made' /\ IsSpan(k)' /\ (Counted(k)' => T("baseDone", k, TRUE) \in Work')
      <3>1. /\ k \in Made /\ IsSpan(k) /\ k # l
            /\ Counted(k) => T("baseDone", k, TRUE) \in Work
        BY <1>t, <1>4, <2>3 DEF BaseInv
      <3>2. T("baseDone", k, TRUE) # Top(p)
        BY <1>l, <3>1 DEF T
      <3>3. T("baseDone", k, TRUE) \in Work => T("baseDone", k, TRUE) \in Work'
        BY <1>w, <3>2
      <3> QED
        BY <1>u, <2>c, <3>1, <3>3, TreeFrame
    <2> QED
      BY <2>1, <2>2, <2>3 DEF BaseInv
  <1> QED
    BY <1>5, <1>6, <1>7, <1>8, <1>9, <1>10 DEF CarefulInv

(* A walk over a set of dependents meets each of them once. *)
LEMMA WalkAll ==
  ASSUME NEW S \in SUBSET Loggers, NEW order \in Orders(S), NEW op \in Ops, NEW f \in BOOLEAN,
         NEW new, new = Each(op, order, f)
  PROVE  /\ new \in Seq(Task)
         /\ Pieces(new) = {T(op, c, f) : c \in S}
         /\ \A i, j \in DOMAIN new : i # j => new[i].lg # new[j].lg
  <1>1. IsFiniteSet(S)
    <2>1. IsFiniteSet(Loggers)
      BY FS_Interval, LifecycleAssumption DEF Loggers, LifecycleAssumption
    <2> QED
      BY <2>1, FS_Subset
  <1> DEFINE n == Cardinality(S)
  <1>2. n \in Nat /\ IsFiniteSet(1 .. n) /\ Cardinality(1 .. n) = n
    <2>1. n \in Nat
      BY <1>1, FS_CardinalityType
    <2> QED
      BY <2>1, FS_Interval
  <1>3. order \in [1 .. n -> S] /\ \A i, j \in 1 .. n : i # j => order[i] # order[j]
    BY DEF Orders
  <1>4. order \in Injection(1 .. n, S)
    <2>1. DOMAIN order = 1 .. n
      BY <1>3
    <2>2. \A i, j \in DOMAIN order : order[i] = order[j] => i = j
      BY <1>3, <2>1
    <2> QED
      BY <1>3, <2>2 DEF Injection, IsInjective
  <1>5. order \in Surjection(1 .. n, S)
    BY <1>1, <1>2, <1>4, FS_Injection
  <1>6. \A c \in S : \E i \in 1 .. n : order[i] = c
    BY <1>5 DEF Surjection
  <1>7. new = [i \in 1 .. n |-> T(op, order[i], f)]
    BY <1>3 DEF Each
  <1>8. DOMAIN new = 1 .. n /\ \A i \in 1 .. n : new[i] = T(op, order[i], f)
    BY <1>7
  <1>9. Pieces(new) = {T(op, c, f) : c \in S}
    <2>1. \A i \in 1 .. n : order[i] \in S
      BY <1>3
    <2> HIDE DEF n
    <2> QED
      BY <1>6, <1>8, <2>1 DEF Pieces
  <1>10. \A i, j \in DOMAIN new : i # j => new[i].lg # new[j].lg
    BY <1>3, <1>8 DEF T
  <1>11. new \in Seq(Task)
    BY OrdersTyped
  <1> QED
    BY <1>9, <1>10, <1>11

(* The dependents of a span on which Done() is at work have not been told. *)
LEMMA ChildFacts ==
  ASSUME CarefulInv, NEW p \in Procs, stack[p] # <<>>, Top(p).op = "dependents", IsPiece(Top(p)),
         NEW c \in dependents[Top(p).lg]
  PROVE  /\ c \in Made /\ c \in Loggers /\ IsSpan(c) /\ SpanOf(c) = c /\ c # Request
         /\ Cover(c) = Cover(Top(p).lg) \cup {c} /\ c \notin Cover(Top(p).lg) /\ c # Top(p).lg
         /\ Finished(c) /\ ~Counted(c)
  <1>t. TypeOK /\ TreeInv /\ ListInv
    BY DEF CarefulInv
  <1>l. PICK l : l = Top(p).lg
    OBVIOUS
  <1>1. l \in Made /\ l \in Loggers /\ SpanOf(l) = l /\ Finished(l) /\ l \in Cover(l)
    BY <1>l, DoneFacts
  <1>2. c \in Made /\ IsSpan(c) /\ ~Root(c) /\ SpanOf(Parent(c)) = l
    BY <1>t, <1>l, <1>1 DEF ListInv
  <1>3. Cover(c) = Cover(l) \cup {c}
    BY <1>t, <1>2 DEF TreeInv
  <1>4. l < c /\ c \notin Cover(l) /\ c # l
    <2>1. l < c
      BY <1>t, <1>2 DEF TreeInv
    <2>2. \A k \in Cover(l) : k \in Made /\ k <= l
      BY <1>t, <1>1 DEF TreeInv
    <2>3. l \in Int /\ c \in Int
      BY <1>1, <1>2 DEF Made
    <2>4. c # l /\ ~(c <= l)
      BY <2>1, <2>3
    <2> QED
      BY <2>1, <2>2, <2>4
  <1>5. Finished(c) /\ c \in Loggers
    BY <1>t, <1>1, <1>2, <1>3, FinishedDown
  <1>6. c # Request /\ ~info[c].detached
    BY <1>2 DEF Root
  <1>7. ~Counted(c)
    <2> SUFFICES ASSUME Counted(c) PROVE FALSE
      OBVIOUS
    <2>1. InList(c)
      BY <1>l, <1>2, <1>6 DEF InList
    <2> DEFINE u == T("retire", c, FALSE)
    <2>2. u \in Work
      BY <1>t, <1>2, <1>6, <2>1 DEF ListInv
    <2>3. u.op = "retire" /\ u.lg = c /\ IsPiece(u)
      BY PieceTasks DEF T
    <2> HIDE DEF u
    <2>4. u \in Rest(p)
      BY <2>2, <2>3, TopFacts
    <2>5. l \in Cover(u.lg)
      BY <1>1, <1>3, <2>3
    <2>6. u.lg = l
      BY <1>l, <2>3, <2>4, <2>5, DoneFacts
    <2> QED
      BY <1>4, <2>3, <2>6
  <1> QED
    BY <1>l, <1>2, <1>3, <1>4, <1>5, <1>6, <1>7 DEF IsSpan

(* Done() cascades to the dependents of a span. *)
LEMMA CarefulDependents ==
  ASSUME CarefulInv, TypeOK', NEW p \in Procs, Dependents(p), IsPiece(Top(p))
  PROVE  CarefulInv'
  <1>t. /\ TypeOK /\ TreeInv /\ RequestInv /\ SpanInv /\ TaskInv /\ MakeInv /\ ListInv
        /\ StackInv /\ CascadeInv /\ RequestDoneInv /\ BaseInv
    BY DEF CarefulInv
  <1>0. stack[p] # <<>> /\ Top(p).op = "dependents" /\ Top(p) \in Task
    BY TopFacts DEF Dependents, Runs
  <1>l. PICK l : l = Top(p).lg
    OBVIOUS
  <1>d. PICK D : D = dependents[l]
    OBVIOUS
  <1>3. /\ l \in Made /\ l \in Loggers /\ SpanOf(l) = l /\ Finished(l) /\ Counted(l)
        /\ l \in Cover(l)
        /\ \A u \in Rest(p) : IsPiece(u) /\ l \in Cover(u.lg) =>
              u \in Below(p) /\ u.lg = l /\ u.op = "retire"
    BY <1>0, <1>l, DoneFacts DEF LaterOps
  <1>4. PICK order \in Orders(D) : Continue(p, Each("done", order, TRUE))
    <2>1. Top(p).flag = TRUE
      BY <1>0 DEF IsPiece, Task
    <2> QED
      BY <1>l, <1>d, <1>3, <2>1 DEF Dependents
  <1>5. PICK new : new = Each("done", order, TRUE)
    OBVIOUS
  <1>6. /\ new \in Seq(Task) /\ Continue(p, new)
        /\ Pieces(new) = {T("done", c, TRUE) : c \in D}
        /\ \A i, j \in DOMAIN new : i # j => new[i].lg # new[j].lg
    <2>1. D \in SUBSET Loggers /\ "done" \in Ops
      BY <1>t, <1>d, <1>3 DEF TypeOK, Ops
    <2>2. Continue(p, new)
      BY <1>4, <1>5, Zenon
    <2>3. \A n : n = Each("done", order, TRUE) =>
            /\ n \in Seq(Task)
            /\ Pieces(n) = {T("done", c, TRUE) : c \in D}
            /\ \A i, j \in DOMAIN n : i # j => n[i].lg # n[j].lg
      BY <2>1, WalkAll
    <2> QED
      BY <1>5, <2>2, <2>3, Zenon
  <1>7. \A c \in D : /\ c \in Made /\ c \in Loggers /\ IsSpan(c) /\ SpanOf(c) = c /\ c # Request
                     /\ Cover(c) = Cover(l) \cup {c} /\ c \notin Cover(l) /\ c # l
                     /\ Finished(c) /\ ~Counted(c)
    BY <1>0, <1>l, <1>d, ChildFacts
  <1>8. \A t \in Pieces(new) : IsPiece(t) /\ t.op = "done" /\ t.lg \in D /\ IsDone(t)
    <2>1. \A c : T("done", c, TRUE).op = "done" /\ T("done", c, TRUE).lg = c
      BY DEF T
    <2>2. \A c : IsPiece(T("done", c, TRUE))
      BY PieceTasks DEF DoneOps, FirstOps
    <2>3. ASSUME NEW t \in Pieces(new)
          PROVE  IsPiece(t) /\ t.op = "done" /\ t.lg \in D
      <3>1. PICK c \in D : t = T("done", c, TRUE)
        BY <1>6
      <3> QED
        BY <2>1, <2>2, <3>1
    <2> QED
      BY <1>7, <2>3 DEF IsDone, LaterOps
  <1>u. /\ UNCHANGED <<spawned, tree, knownActive, doneCount, armed, live, asked>>
        /\ UNCHANGED <<tree, doneCount, dependents, activeDetached>>
        /\ UNCHANGED <<tree, doneCount, asked>> /\ UNCHANGED <<tree, waiting>>
        /\ UNCHANGED <<tree, doneCount, asked, final, alarms>>
        /\ dirty' = dirty /\ undated' = undated
    BY DEF Dependents, spans, shared, base, history
  <1>f. UNCHANGED tree
    BY <1>u
  <1>c. \A k : Counted(k)' <=> Counted(k)
    BY <1>u DEF Counted
  <1>9. /\ TreeInv' /\ RequestInv' /\ SpanInv' /\ TaskInv' /\ MakeInv'
        /\ Work = {Top(p)} \cup Rest(p) /\ Work' = Pieces(new) \cup Rest(p)
        /\ ~Over
    BY <1>0, <1>6, <1>8, <1>u, DoneRest
  <1>10. ListInv'
    <2>1. \A t \in Work : t.op \in {"retire", "newChildLog"} => t \in Work'
      BY <1>0, <1>9
    <2>2. ASSUME NEW t \in Work', IsPiece(t), NEW k \in Cover(t.lg), Counted(k)
          PROVE  \E u \in Work : IsPiece(u) /\ k \in Cover(u.lg)
      <3>1. CASE t \in Rest(p)
        BY <1>9, <2>2, <3>1
      <3>2. CASE t \in Pieces(new)
        <4>1. k \in Cover(l)
          BY <1>7, <1>8, <2>2, <3>2
        <4> QED
          BY <1>l, <1>9, <4>1
      <3> QED
        BY <1>9, <2>2, <3>1, <3>2
    <2> QED
      BY <1>t, <1>u, <2>1, <2>2, ListFrame
  <1>11. StackInv'
    <2>1. \A t, u \in Rest(p) : (Nested(t, u) => Nested(t, u)') /\ (Parted(t, u) => Parted(t, u)')
      BY <1>f, TreeFrame
    <2>2. \A i, j \in DOMAIN new : i < j => Nested(new[i], new[j])'
      <3> SUFFICES ASSUME NEW i \in DOMAIN new, NEW j \in DOMAIN new, i < j
                   PROVE  Nested(new[i], new[j])
        BY <1>f, TreeFrame
      <3>1. new[i] \in Pieces(new) /\ new[j] \in Pieces(new)
        BY DEF Pieces
      <3>2. i # j
        BY <1>6
      <3>3. new[i].lg # new[j].lg
        BY <1>6, <3>2
      <3>4. new[i].lg \notin Cover(new[j].lg) /\ new[j].lg \notin Cover(new[i].lg)
        BY <1>7, <1>8, <3>1, <3>3
      <3>5. new[j].op # "newChildLog"
        BY <1>8, <3>1
      <3> QED
        BY <3>4, <3>5 DEF Nested
    <2>3. ASSUME NEW t \in Pieces(new), NEW u \in Below(p) PROVE Nested(t, u)'
      <3>1. Nested(Top(p), u) /\ u \in Rest(p)
        BY <1>0, TopFacts
      <3>2. u.op # "newChildLog"
        BY <3>1 DEF Nested
      <3>3. ASSUME IsPiece(u) PROVE t.lg \notin Cover(u.lg)
        <4> SUFFICES ASSUME t.lg \in Cover(u.lg) PROVE FALSE
          OBVIOUS
        <4>1. u \in Work
          BY <1>9, <3>1
        <4>2. u.lg \in Made
          BY <1>t, <4>1, <3>3, Kinds DEF TaskInv, IsDone
        <4>3. Cover(t.lg) \subseteq Cover(u.lg)
          BY <1>t, <4>2 DEF TreeInv
        <4>4. l \in Cover(u.lg)
          BY <1>3, <1>7, <1>8, <4>3
        <4>5. u.lg = l
          BY <1>3, <3>1, <3>3, <4>4
        <4> QED
          BY <1>7, <1>8, <4>5
      <3>4. ASSUME IsPiece(u), u.lg \in Cover(t.lg), u.lg # t.lg PROVE u.op = "retire"
        <4>1. u.lg \in Cover(l)
          BY <1>7, <1>8, <3>4
        <4>2. CASE u.lg = l
          BY <1>3, <3>1, <3>4, <4>2
        <4>3. CASE u.lg # l
          BY <1>l, <3>1, <3>4, <4>1, <4>3 DEF Nested
        <4> QED
          BY <4>2, <4>3
      <3>5. Nested(t, u)
        BY <3>2, <3>3, <3>4 DEF Nested
      <3> QED
        BY <1>f, <3>5, TreeFrame
    <2>4. ASSUME NEW t \in Pieces(new), NEW q \in Procs \ {p}, NEW u \in Tasks(q)
          PROVE  Parted(t, u)' /\ Parted(u, t)'
      <3>1. Parted(Top(p), u) /\ Parted(u, Top(p)) /\ u \in Rest(p)
        BY <1>0, TopFacts
      <3>2. t.op \notin {"newChildLog", "return"}
        BY <1>8
      <3>3. ASSUME IsPiece(u) PROVE l \notin Cover(u.lg) /\ u.lg \notin Cover(l)
        BY <1>l, <3>1, <3>3 DEF Parted
      <3>4. ASSUME IsPiece(u) PROVE t.lg \notin Cover(u.lg)
        <4>1. u \in Work
          BY <1>9, <3>1
        <4>2. u.lg \in Made
          BY <1>t, <4>1, <3>4, Kinds DEF TaskInv, IsDone
        <4>3. t.lg \in Cover(u.lg) => Cover(t.lg) \subseteq Cover(u.lg)
          BY <1>t, <4>2 DEF TreeInv
        <4> QED
          BY <1>3, <1>7, <1>8, <3>3, <3>4, <4>3
      <3>5. ASSUME IsPiece(u) PROVE u.lg \notin Cover(t.lg)
        <4>1. u.lg = t.lg => t.lg \in Cover(u.lg)
          BY <1>7, <1>8
        <4> QED
          BY <1>7, <1>8, <3>3, <3>4, <3>5, <4>1
      <3>6. Parted(t, u) /\ Parted(u, t)
        BY <3>2, <3>4, <3>5 DEF Parted
      <3> QED
        BY <1>f, <3>6, TreeFrame
    <2> QED
      BY <1>t, <1>0, <1>6, <2>1, <2>2, <2>3, <2>4, StepStackInv
  <1>12. CascadeInv'
    <2> SUFFICES ASSUME NEW d \in Made', IsSpan(d)', ~Counted(d)',
                        NEW k \in Cover(d)', k \in asked' \/ Counted(k)'
                 PROVE  \E t \in Work' : Cascading(t)' /\ t.lg \in Cover(d)' /\ k \in Cover(t.lg)'
      BY DEF CascadeInv
    <2>1. d \in Made /\ IsSpan(d) /\ ~Counted(d) /\ k \in Cover(d) /\ (k \in asked \/ Counted(k))
      BY <1>c, <1>f, <1>u, TreeFrame
    <2>2. \A t : Cascading(t)' <=> Cascading(t)
      BY DEF Cascading, IsPiece
    <2>p. ASSUME NEW u \in Work', Cascading(u), u.lg \in Cover(d), k \in Cover(u.lg)
          PROVE  \E t \in Work' : Cascading(t)' /\ t.lg \in Cover(d)' /\ k \in Cover(t.lg)'
      BY <1>f, <2>2, <2>p, TreeFrame
    <2>3. PICK t \in Work : Cascading(t) /\ t.lg \in Cover(d) /\ k \in Cover(t.lg)
      BY <1>t, <2>1 DEF CascadeInv
    <2>4. CASE t \in Rest(p)
      BY <1>9, <2>p, <2>3, <2>4
    <2>5. CASE t = Top(p)
      <3>1. l \in Cover(d) /\ k \in Cover(l) /\ l # SpanOf(d)
        BY <1>l, <1>3, <2>1, <2>3, <2>5 DEF IsSpan
      <3>2. PICK c \in Cover(d) : ~Root(c) /\ SpanOf(Parent(c)) = l
        BY <1>t, <2>1, <3>1 DEF TreeInv
      <3>3. /\ c \in Made /\ IsSpan(c) /\ c # Request /\ ~info[c].detached
            /\ Cover(c) = Cover(l) \cup {c} /\ Parent(c) \in Made
        <4>1. c \in Made /\ IsSpan(c) /\ Parent(c) \in Made
          BY <1>t, <2>1 DEF TreeInv
        <4> QED
          BY <1>t, <3>2, <4>1 DEF TreeInv, Root
      <3>4. CASE Counted(c)
        <4>1. PICK v \in Work : Cascading(v) /\ v.lg \in Cover(d) /\ c \in Cover(v.lg)
          BY <1>t, <2>1, <3>4 DEF CascadeInv
        <4>2. v.lg \in Made
          BY <1>t, <2>1, <4>1 DEF TreeInv
        <4>3. Cover(c) \subseteq Cover(v.lg)
          BY <1>t, <4>1, <4>2 DEF TreeInv
        <4>4. v # Top(p)
          <5>1. \A m \in Cover(l) : m \in Made /\ m <= l
            BY <1>t, <1>3 DEF TreeInv
          <5>2. l < c
            BY <1>t, <3>2, <3>3 DEF TreeInv
          <5>3. l \in Int /\ c \in Int
            BY <1>3, <3>3 DEF Made
          <5>4. ~(c <= l)
            BY <5>2, <5>3
          <5>5. c \notin Cover(l)
            BY <5>1, <5>4
          <5> QED
            BY <1>l, <4>1, <5>5
        <4>5. v \in Work' /\ k \in Cover(v.lg)
          BY <1>9, <3>1, <3>3, <4>1, <4>3, <4>4
        <4> QED
          BY <2>p, <4>1, <4>5
      <3>5. CASE ~Counted(c)
        <4>1. InList(c) \/ Unlisted(c)
          BY <1>t, <3>3, <3>5 DEF ListInv
        <4>2. ~Unlisted(c)
          <5> SUFFICES ASSUME T("newChildLog", c, FALSE) \in Work PROVE FALSE
            BY DEF Unlisted
          <5> DEFINE u == T("newChildLog", c, FALSE)
                     v == T("return", c, FALSE)
          <5>1. u.op = "newChildLog" /\ u.lg = c /\ v.op = "return" /\ v.lg = c
            BY DEF T
          <5>2. PICK q \in Procs : u \in Tasks(q)
            BY DEF Work
          <5>3. T("return", u.lg, FALSE) \in Tasks(q)
            BY <1>t, <5>1, <5>2 DEF MakeInv
          <5>4. v \in Tasks(q)
            BY <5>1, <5>3
          <5> HIDE DEF u, v
          <5>5. ~Finished(Parent(c))
            BY <1>t, <3>3, <5>1, <5>4 DEF MakeInv
          <5>6. Finished(SpanOf(Parent(c)))
            BY <1>3, <3>2
          <5> QED
            BY <1>t, <3>3, <5>5, <5>6, FinishedDown
        <4>3. c \in D
          BY <1>d, <3>2, <3>3, <4>1, <4>2 DEF InList
        <4> DEFINE v == T("done", c, TRUE)
        <4>4. v \in Pieces(new) /\ v.lg = c /\ v.op = "done"
          BY <1>6, <4>3 DEF T
        <4> HIDE DEF v
        <4>5. Cascading(v) /\ v \in Work' /\ v.lg \in Cover(d) /\ k \in Cover(v.lg)
          BY <1>8, <1>9, <3>1, <3>3, <4>4 DEF Cascading
        <4> QED
          BY <2>p, <4>5
      <3> QED
        BY <3>4, <3>5
    <2> QED
      BY <1>9, <2>4, <2>5
  <1>13. RequestDoneInv'
    <2>1. waiting => dependents'[Request] = {} /\ activeDetached' # {}
      BY <1>t, <1>u DEF RequestDoneInv
    <2>2. waiting => \A t \in Work' : IsPiece(t) => Request \notin Cover(t.lg)
      <3> SUFFICES ASSUME waiting, NEW t \in Work', IsPiece(t) PROVE Request \notin Cover(t.lg)
        OBVIOUS
      <3>1. \A u \in Work : IsPiece(u) => Request \notin Cover(u.lg)
        BY <1>t DEF RequestDoneInv
      <3>2. Request \notin Cover(l)
        BY <1>l, <1>9, <3>1
      <3> QED
        BY <1>7, <1>8, <1>9, <3>1, <3>2
    <2>3. \A t \in Work : t.op = "retire" => t \in Work' \/ t.lg # Request
      BY <1>0, <1>9
    <2> QED
      BY <1>t, <1>9, <1>c, <1>u, <2>1, <2>2, <2>3, RequestFrame
  <1>14. BaseInv'
    <2>1. undated' \subseteq dirty'
      BY <1>t, <1>u DEF BaseInv
    <2>2. \A t \in Work : t.op = "baseDone" => t \in Work' \/ t.lg \notin undated'
      BY <1>0, <1>9
    <2> QED
      BY <1>t, <1>u, <2>1, <2>2, BaseFrame
  <1> QED
    BY <1>9, <1>10, <1>11, <1>12, <1>13, <1>14 DEF CarefulInv

(* Done() leaves a span: its parent, or the request, lists it no more.     *)
LEMMA RetireFrame ==
  ASSUME CarefulInv, NEW p \in Procs, stack[p] # <<>>, Top(p).op = "retire", IsPiece(Top(p)),
         NEW new \in Seq(Task), Continue(p, new),
         new = <<>> \/ new = <<T("Flush", Request, FALSE)>>,
         UNCHANGED <<tree, knownActive, doneCount, armed, base, live, asked, alarms>>,
         \A k : InList(k)' => InList(k),
         \A k : InList(k) /\ k # Top(p).lg => InList(k)',
         \A k : k = Top(p).lg /\ k # Request => ~InList(k)',
         activeDetached' \subseteq activeDetached,
         \A s \in Loggers : dependents'[s] \subseteq dependents[s]
  PROVE  /\ TreeInv' /\ RequestInv' /\ SpanInv' /\ MakeInv' /\ ListInv' /\ StackInv'
         /\ CascadeInv' /\ BaseInv'
         /\ Work = {Top(p)} \cup Rest(p) /\ Work' = Pieces(new) \cup Rest(p)
         /\ ~Over
  <1>t. /\ TypeOK /\ TreeInv /\ RequestInv /\ SpanInv /\ TaskInv /\ MakeInv /\ ListInv
        /\ CascadeInv /\ RequestDoneInv /\ BaseInv
    BY DEF CarefulInv
  <1>l. PICK l : l = Top(p).lg
    OBVIOUS
  <1>3. /\ l \in Made /\ l \in Loggers /\ SpanOf(l) = l /\ Finished(l) /\ Counted(l) /\ ~Over
        /\ \A u \in Rest(p) : IsPiece(u) => l \notin Cover(u.lg)
    BY <1>l, DoneFacts DEF LaterOps
  <1>w. Work = {Top(p)} \cup Rest(p) /\ Work' = Pieces(new) \cup Rest(p)
    BY <1>t, StepWork
  <1>n. \A t \in Pieces(new) : t.op = "Flush"
    <2>1. Pieces(<<>>) = {} /\ Pieces(<<T("Flush", Request, FALSE)>>) = {T("Flush", Request, FALSE)}
      BY ShortPieces
    <2>2. T("Flush", Request, FALSE).op = "Flush"
      BY DEF T
    <2> QED
      BY <2>1, <2>2
  <1>g. \A t : t.op = "Flush" => ~IsPiece(t) /\ t.op \notin {"newChildLog", "return"}
    BY DEF IsPiece, DoneOps, FirstOps, LaterOps
  <1>s. \A t \in Work : t # Top(p) => t \in Work'
    BY <1>w
  <1>u. /\ UNCHANGED <<tree, doneCount, asked>> /\ UNCHANGED tree
        /\ UNCHANGED <<tree, live, asked>>
        /\ UNCHANGED <<tree, knownActive, doneCount, asked>>
        /\ UNCHANGED <<tree, doneCount, asked, final, alarms>>
        /\ dirty' = dirty /\ undated' = undated /\ armed' = armed
    BY DEF base
  <1>c. \A k : Counted(k)' <=> Counted(k)
    BY DEF Counted
  <1>1. TreeInv' /\ RequestInv'
    BY <1>t, TreeFrame
  <1>2. SpanInv'
    BY <1>t, <1>u, SpanFrame
  <1>4. MakeInv'
    <2>1. \A t \in Work : t.op = "newChildLog" => ~Counted(t.lg)
      BY <1>t DEF MakeInv, Work
    <2>2. \A t \in Work : t.op = "newChildLog" => ~Counted(t.lg)'
      BY <1>c, <2>1
    <2> QED
      BY <1>t, <1>u, <1>n, <2>2, MakeFrame
  <1>5. ListInv'
    <2>1. \A k \in activeDetached' : k \in Made' /\ IsSpan(k)' /\ info'[k].detached
      BY <1>t, <1>u, TreeFrame DEF ListInv
    <2>2. \A s \in Loggers : \A k \in dependents'[s] :
            k \in Made' /\ IsSpan(k)' /\ ~Root(k)' /\ SpanOf(Parent(k))' = s
      <3>1. \A k : SpanOf(Parent(k))' = SpanOf(Parent(k))
        BY DEF SpanOf, Parent, tree
      <3> QED
        BY <1>t, <1>u, <3>1, TreeFrame DEF ListInv
    <2>3. \A k : T("newChildLog", k, FALSE) # Top(p) /\ (k # l => T("retire", k, FALSE) # Top(p))
      BY <1>l DEF T
    <2>4. ASSUME NEW k \in Made' \ {Request}, IsSpan(k)'
          PROVE  /\ ~Counted(k)' => InList(k)' \/ Unlisted(k)'
                 /\ Counted(k)' /\ InList(k)' => T("retire", k, FALSE) \in Work'
                 /\ Counted(k)' /\ ~InList(k)' => \A t \in Work' : IsPiece(t)' => k \notin Cover(t.lg)'
      <3>1. k \in Made \ {Request} /\ IsSpan(k)
        BY <1>u, <2>4, TreeFrame
      <3>2. ASSUME ~Counted(k) PROVE InList(k)' \/ Unlisted(k)'
        <4>1. k # l /\ (InList(k) \/ Unlisted(k))
          BY <1>t, <1>3, <3>1, <3>2 DEF ListInv
        <4>2. Unlisted(k) => Unlisted(k)'
          BY <1>s, <2>3 DEF Unlisted
        <4> QED
          BY <1>l, <4>1, <4>2
      <3>3. ASSUME Counted(k), InList(k)' PROVE T("retire", k, FALSE) \in Work'
        <4>1. k # l
          BY <1>l, <3>1, <3>3
        <4>2. T("retire", k, FALSE) \in Work
          BY <1>t, <3>1, <3>3 DEF ListInv
        <4> QED
          BY <1>s, <2>3, <4>1, <4>2
      <3>4. ASSUME Counted(k), ~InList(k)', NEW t \in Work', IsPiece(t)' PROVE k \notin Cover(t.lg)'
        <4>1. IsPiece(t) /\ Cover(t.lg)' = Cover(t.lg)
          BY <1>u, <3>4, TreeFrame DEF IsPiece
        <4>2. t \in Rest(p) /\ t \in Work
          BY <1>g, <1>n, <1>w, <4>1
        <4>3. CASE k = l
          BY <1>3, <4>1, <4>2, <4>3
        <4>4. CASE k # l
          <5>1. ~InList(k)
            BY <1>l, <3>4, <4>4
          <5>2. \A u \in Work : IsPiece(u) => k \notin Cover(u.lg)
            BY <1>t, <3>1, <3>4, <5>1 DEF ListInv
          <5> QED
            BY <4>1, <4>2, <5>2
        <4> QED
          BY <4>3, <4>4
      <3> QED
        BY <1>c, <3>2, <3>3, <3>4
    <2> QED
      BY <2>1, <2>2, <2>4 DEF ListInv
  <1>6. StackInv'
    <2>1. \A a : DOMAIN <<a>> = 1 .. 1
      OBVIOUS
    <2>2. \A i, j \in DOMAIN new : ~(i < j)
      <3>1. CASE new = <<>>
        BY <3>1
      <3>2. CASE new = <<T("Flush", Request, FALSE)>>
        <4>1. DOMAIN new = 1 .. 1
          BY <2>1, <3>2
        <4> QED
          BY <4>1
      <3> QED
        BY <3>1, <3>2
    <2> QED
      BY <1>u, <1>n, <2>2, DoneStack
  <1>7. CascadeInv'
    <2>1. \A t \in Work : Cascading(t) => t \in Work'
      BY <1>s DEF Cascading
    <2> QED
      BY <1>t, <1>u, <2>1, CascadeFrame
  <1>8. BaseInv'
    <2>1. undated' \subseteq dirty'
      BY <1>t, <1>u DEF BaseInv
    <2>2. \A t \in Work : t.op = "baseDone" => t \in Work' \/ t.lg \notin undated'
      BY <1>s
    <2> QED
      BY <1>t, <1>u, <2>1, <2>2, BaseFrame
  <1> QED
    BY <1>w, <1>3, <1>1, <1>2, <1>4, <1>5, <1>6, <1>7, <1>8

(* A logger that is finished has been returned, and so has all it is under. *)
LEMMA FinishedReturned ==
  ASSUME CarefulInv, NEW l \in Made, Finished(l)
  PROVE  l \in live /\ \A k \in Cover(l) : ~Unlisted(k)
  <1>t. TypeOK /\ TaskInv /\ MakeInv
    BY DEF CarefulInv
  <1>1. T("return", l, FALSE) \notin Work
    <2> SUFFICES ASSUME T("return", l, FALSE) \in Work PROVE FALSE
      OBVIOUS
    <2> DEFINE t == T("return", l, FALSE)
    <2>1. t.op = "return" /\ t.lg = l /\ t \in Work
      BY DEF T
    <2> HIDE DEF t
    <2>2. IsUse(t)
      BY <1>t, <2>1 DEF TaskInv, IsDone, IsPiece, IsLast, DoneOps, FirstOps, LaterOps, LastOps, LockedOps
    <2> QED
      BY <2>1, <2>2 DEF IsUse
  <1>2. l \in live
    BY <1>t, <1>1 DEF MakeInv
  <1> QED
    BY <1>t, <1>2 DEF MakeInv

(* A logger on its way to registration has a parent that has been returned *)
(* and is not finished.                                                    *)
LEMMA UnlistedParent ==
  ASSUME CarefulInv, NEW r \in Made, Unlisted(r)
  PROVE  IsSpan(r) /\ Parent(r) \in Made /\ Parent(r) \in live /\ ~Finished(Parent(r))
  <1>t. TypeOK /\ TreeInv /\ MakeInv
    BY DEF CarefulInv
  <1> DEFINE u == T("newChildLog", r, FALSE)
             v == T("return", r, FALSE)
  <1>1. u.op = "newChildLog" /\ u.lg = r /\ v.op = "return" /\ v.lg = r
    BY DEF T
  <1>2. PICK q \in Procs : u \in Tasks(q)
    BY DEF Unlisted, Work
  <1>3. T("return", u.lg, FALSE) \in Tasks(q) /\ IsSpan(u.lg) /\ Parent(u.lg) \in live
    BY <1>t, <1>1, <1>2 DEF MakeInv
  <1>4. v \in Tasks(q) /\ IsSpan(r) /\ Parent(r) \in live
    BY <1>1, <1>3
  <1> HIDE DEF u, v
  <1>5. ~Finished(Parent(r))
    BY <1>t, <1>1, <1>4 DEF MakeInv
  <1>6. Parent(r) \in Made
    BY <1>t DEF TreeInv
  <1> QED
    BY <1>4, <1>5, <1>6

(* The last piece of Done() that is left of a request, once the request    *)
(* itself is through, has come when no other detached logger is listed:    *)
(* every span is counted and no call is in progress.                       *)
LEMMA AllOver ==
  ASSUME CarefulInv, NEW p \in Procs, stack[p] # <<>>, Top(p).op = "retire", IsPiece(Top(p)),
         Counted(Request), \A t \in Rest(p) : IsPiece(t) => Request \notin Cover(t.lg),
         activeDetached \subseteq {Top(p).lg}
  PROVE  Rest(p) = {} /\ \A s \in Made : IsSpan(s) => Counted(s)
  <1>t. /\ TypeOK /\ TreeInv /\ TaskInv /\ MakeInv /\ ListInv /\ CascadeInv
    BY DEF CarefulInv
  <1>l. PICK l : l = Top(p).lg
    OBVIOUS
  <1>3. /\ Counted(l)
        /\ \A u \in Rest(p) : IsPiece(u) => l \notin Cover(u.lg)
    BY <1>l, DoneFacts DEF LaterOps
  <1>w. Work = {Top(p)} \cup Rest(p) /\ Rest(p) \subseteq Work
    BY TopFacts
  <1>r. \A m \in Made : \E r \in Cover(m) : Root(r) /\ r \in Made /\ IsSpan(r)
    BY <1>t DEF TreeInv
  <1>d. ASSUME NEW r \in Made, Root(r), IsSpan(r), r # Request, r # l
        PROVE  /\ ~InList(r)
               /\ Counted(r) \/ Unlisted(r)
    <2>1. info[r].detached /\ r \notin activeDetached
      BY <1>l, <1>d DEF Root
    <2>2. ~InList(r)
      BY <2>1 DEF InList
    <2> QED
      BY <1>t, <1>d, <2>2 DEF ListInv
  <1>1. ASSUME NEW t \in Rest(p), IsPiece(t) PROVE FALSE
    <2>1. IsDone(t)
      BY <1>t, <1>1, <1>w, Kinds DEF TaskInv
    <2>2. t.lg \in Made /\ Finished(t.lg)
      BY <2>1 DEF IsDone
    <2>3. PICK r \in Cover(t.lg) : Root(r) /\ r \in Made /\ IsSpan(r)
      BY <1>r, <2>2
    <2>4. r # Request /\ r # l
      BY <1>1, <1>3
    <2>5. ~Unlisted(r)
      BY <2>2, FinishedReturned
    <2>6. Counted(r) /\ ~InList(r)
      BY <1>d, <2>3, <2>4, <2>5
    <2>7. \A u \in Work : IsPiece(u) => r \notin Cover(u.lg)
      BY <1>t, <2>3, <2>4, <2>6 DEF ListInv
    <2> QED
      BY <1>1, <1>w, <2>3, <2>7
  <1>2. ASSUME NEW s \in Made, IsSpan(s), ~Counted(s) PROVE FALSE
    <2>1. PICK r \in Cover(s) : Root(r) /\ r \in Made /\ IsSpan(r)
      BY <1>r
    <2>2. CASE Counted(r)
      <3>1. PICK t \in Work : Cascading(t)
        BY <1>t, <1>2, <2>1, <2>2 DEF CascadeInv
      <3>2. IsPiece(t) /\ t # Top(p)
        BY <3>1 DEF Cascading
      <3> QED
        BY <1>1, <1>w, <3>2
    <2>3. CASE ~Counted(r)
      <3>1. Unlisted(r)
        BY <1>3, <1>d, <2>1, <2>3
      <3>2. Parent(r) \in Made /\ Parent(r) \in live /\ ~Finished(Parent(r))
        BY <2>1, <3>1, UnlistedParent
      <3>3. PICK r2 \in Cover(Parent(r)) : Root(r2) /\ r2 \in Made /\ IsSpan(r2)
        BY <1>r, <3>2
      <3>4. ~Counted(r2)
        BY <3>2, <3>3, NotFinished
      <3>5. ~Unlisted(r2)
        BY <1>t, <3>2, <3>3 DEF MakeInv
      <3> QED
        BY <1>3, <1>d, <3>3, <3>4, <3>5
    <2> QED
      BY <2>2, <2>3
  <1>4. ASSUME NEW t \in Rest(p) PROVE FALSE
    <2>1. t \in Work /\ Top(p) \in Work /\ ~IsLast(Top(p))
      BY <1>w, DoneFacts
    <2>2. ~IsLast(t)
      BY <2>1, NotOver
    <2>3. IsUse(t)
      BY <1>t, <1>1, <2>1, <2>2, Kinds DEF TaskInv
    <2>4. t.lg \in Made /\ ~Finished(t.lg)
      BY <2>3 DEF IsUse
    <2>5. ~Counted(SpanOf(t.lg)) /\ SpanOf(t.lg) \in Made /\ IsSpan(SpanOf(t.lg))
      BY <1>t, <2>4, NotFinished DEF TreeInv, IsSpan
    <2> QED
      BY <1>2, <2>5
  <1> QED
    BY <1>2, <1>4

(* It flushes.                                                             *)
LEMMA OverStep ==
  ASSUME CarefulInv, NEW p \in Procs, stack[p] # <<>>, Top(p).op = "retire", IsPiece(Top(p)),
         Rest(p) = {}, \A s \in Made : IsSpan(s) => Counted(s),
         Continue(p, FlushTasks), spawned' = Spawn, UNCHANGED <<tree, doneCount>>, waiting' = FALSE
  PROVE  /\ TaskInv' /\ RequestDoneInv'
         /\ FlushTasks \in Seq(Task)
         /\ FlushTasks = <<>> \/ FlushTasks = <<T("Flush", Request, FALSE)>>
  <1>t. TypeOK /\ TaskInv
    BY DEF CarefulInv
  <1> DEFINE t == T("Flush", Request, FALSE)
  <1>1. t.op = "Flush" /\ t.lg = Request /\ t.flag = FALSE /\ t \in Task
    <2>1. Request \in Loggers
      BY LifecycleAssumption DEF LifecycleAssumption, Loggers, Request
    <2>2. t \in Task
      BY <2>1, TaskTyped DEF Ops
    <2> QED
      BY <2>2 DEF T
  <1>2. FlushTasks = <<>> \/ FlushTasks = <<t>>
    BY DEF FlushTasks, When
  <1>3. SyncFlush => FlushTasks = <<t>>
    BY DEF FlushTasks, When
  <1> HIDE DEF t
  <1>4. PICK new : new = FlushTasks
    OBVIOUS
  <1>5. new \in Seq(Task) /\ Pieces(new) \subseteq {t}
    <2>1. <<>> \in Seq(Task) /\ <<t>> \in Seq(Task)
      BY <1>1, SeqTyped
    <2>2. Pieces(<<>>) = {} /\ Pieces(<<t>>) = {t}
      BY ShortPieces
    <2> QED
      BY <1>2, <1>4, <2>1, <2>2
  <1>6. /\ Work' = Pieces(new) /\ Continue(p, new)
        /\ \A q \in Procs : Tasks(q)' \subseteq Work'
    <2>1. Continue(p, new)
      BY <1>4
    <2>2. Work' = Pieces(new) \cup Rest(p)
      BY <1>t, <1>5, <2>1, StepWork
    <2> QED
      BY <2>1, <2>2 DEF Work
  <1>7. IsLast(t) /\ IsLast(t)'
    BY <1>1 DEF IsLast, LastOps
  <1>8. \A u \in Work' : IsLast(u)'
    BY <1>5, <1>6, <1>7
  <1>9. Over'
    <2>1. \A s \in Made' : IsSpan(s)' => Counted(s)'
      BY TreeFrame DEF Counted
    <2> QED
      BY <1>8, <2>1 DEF Over
  <1>10. TaskInv'
    <2>1. \A w \in Flushers : \A u \in Tasks(w)' : IsLast(u)'
      BY <1>6, <1>8 DEF Procs
    <2> QED
      BY <1>8, <1>9, <2>1 DEF TaskInv
  <1>11. FlushDue'
    <2>1. CASE SyncFlush
      <3>1. t \in Work'
        BY <1>3, <1>4, <1>6, <2>1, ShortPieces
      <3> QED
        BY <1>1, <3>1 DEF FlushDue
    <2>2. CASE ~SyncFlush
      <3>1. spawned' > 0
        BY <1>t, <2>2 DEF Spawn, TypeOK
      <3> QED
        BY <3>1 DEF FlushDue
    <2> QED
      BY <2>1, <2>2
  <1>12. RequestDoneInv'
    BY <1>9, <1>11 DEF RequestDoneInv
  <1> QED
    BY <1>2, <1>4, <1>5, <1>10, <1>12 DEF t

(* To take a span off a list removes it and no other logger. *)
LEMMA WithoutSpan ==
  ASSUME NEW S, NEW l, IsSpan(l), \A k \in S : IsSpan(k)
  PROVE  Without(S, l) = S \ {l}
  BY DEF Without, IsSpan

(* Done() leaves a detached logger or the request, and this is not the end *)
(* of it all; or it leaves another span.                                   *)
LEMMA RetireOn ==
  ASSUME CarefulInv, NEW p \in Procs, stack[p] # <<>>, Top(p).op = "retire", IsPiece(Top(p)),
         Continue(p, <<>>),
         UNCHANGED <<spawned, tree, knownActive, doneCount, armed, base, live, asked, alarms>>,
         \A k : InList(k)' => InList(k),
         \A k : InList(k) /\ k # Top(p).lg => InList(k)',
         \A k : k = Top(p).lg /\ k # Request => ~InList(k)',
         activeDetached' \subseteq activeDetached,
         \A s \in Loggers : dependents'[s] \subseteq dependents[s],
         RequestDoneInv', TypeOK'
  PROVE  CarefulInv'
  <1>e. <<>> \in Seq(Task) /\ Pieces(<<>>) = {}
    BY SeqTyped, ShortPieces
  <1>u. UNCHANGED <<tree, knownActive, doneCount, base, live, asked, alarms>> /\ armed' = armed
    OBVIOUS
  <1>1. /\ TreeInv' /\ RequestInv' /\ SpanInv' /\ MakeInv' /\ ListInv' /\ StackInv'
        /\ CascadeInv' /\ BaseInv'
    BY <1>e, <1>u, RetireFrame
  <1>2. TaskInv'
    <2>1. \A t \in Rest(p) : (IsUse(t) => IsUse(t)') /\ (IsDone(t) => IsDone(t)')
      BY <1>u, SpanFrame
    <2>2. ~IsLast(Top(p)) /\ spawned' = spawned
      BY DoneFacts
    <2> QED
      BY <1>e, <2>1, <2>2, TaskFrame
  <1> QED
    BY <1>1, <1>2 DEF CarefulInv

(* Done() leaves a span; the last one of a request flushes. *)
LEMMA CarefulRetire ==
  ASSUME CarefulInv, TypeOK', NEW p \in Procs, Retire(p), IsPiece(Top(p))
  PROVE  CarefulInv'
  <1>t. /\ TypeOK /\ TreeInv /\ RequestInv /\ SpanInv /\ TaskInv /\ ListInv
        /\ CascadeInv /\ RequestDoneInv
    BY DEF CarefulInv
  <1>0. stack[p] # <<>> /\ Top(p).op = "retire"
    BY DEF Retire, Runs
  <1>l. PICK l : l = Top(p).lg
    OBVIOUS
  <1>3. /\ l \in Made /\ l \in Loggers /\ SpanOf(l) = l /\ IsSpan(l) /\ Counted(l) /\ ~Over /\ l \in Cover(l)
        /\ \A u \in Rest(p) : IsPiece(u) => l \notin Cover(u.lg)
    BY <1>0, <1>l, DoneFacts DEF LaterOps, IsSpan
  <1>4. UNCHANGED <<tree, knownActive, doneCount, armed, base, live, asked, alarms>>
    BY DEF Retire, history
  <1>c. Counted(Request)' <=> Counted(Request)
    BY <1>4 DEF Counted
  <1>s. Work = {Top(p)} \cup Rest(p) /\ Top(p) \in Work
    BY <1>0, TopFacts
  <1>o. /\ Continue(p, <<>>) => Work' = Rest(p)
        /\ \A t \in Work : t.op = "retire" /\ t.lg = Request /\ l # Request => t \in Rest(p)
    <2>1. <<>> \in Seq(Task) /\ Pieces(<<>>) = {}
      BY SeqTyped, ShortPieces
    <2>2. Continue(p, <<>>) => Work' = Rest(p)
      BY <1>t, <1>0, <2>1, StepWork
    <2>3. \A t \in Work : t = Top(p) \/ t \in Rest(p)
      BY <1>s
    <2> QED
      BY <1>l, <2>2, <2>3
  <1>w. waiting => \A t \in Rest(p) : IsPiece(t) => Request \notin Cover(t.lg)
    BY <1>t, <1>s DEF RequestDoneInv
  <1>i. \A k : InList(k)' <=> k \in IF info[k].detached THEN activeDetached' ELSE dependents'[SpanOf(Parent(k))]
    BY <1>4 DEF InList, SpanOf, Parent, tree
  <1>5. CASE Detached(l) /\ RetireDetached(p, l)
    <2>1. info[l].detached /\ l # Request
      BY <1>t, <1>3, <1>5 DEF Detached, RequestInv
    <2> DEFINE left == activeDetached \ {l}
               wake == waiting /\ left = {} /\ dependents[Request] = {}
    <2>2. Without(activeDetached, l) = left
      BY <1>t, <1>3, WithoutSpan DEF ListInv
    <2>3. /\ activeDetached' = left /\ dependents' = dependents
          /\ waiting' = (waiting /\ ~wake)
          /\ spawned' = IF wake THEN Spawn ELSE spawned
          /\ Continue(p, When(wake, FlushTasks))
      BY <1>5, <2>2 DEF RetireDetached
    <2>4. /\ \A k : InList(k)' => InList(k)
          /\ \A k : InList(k) /\ k # Top(p).lg => InList(k)'
          /\ \A k : k = Top(p).lg /\ k # Request => ~InList(k)'
          /\ activeDetached' \subseteq activeDetached
          /\ \A s \in Loggers : dependents'[s] \subseteq dependents[s]
      <3>1. activeDetached' = activeDetached \ {l} /\ dependents' = dependents
        BY <2>3
      <3> QED
        BY <1>i, <1>l, <2>1, <3>1 DEF InList
    <2>5. CASE wake
      <3>1. waiting /\ activeDetached \subseteq {l} /\ Counted(Request)
        BY <1>t, <2>5 DEF RequestDoneInv
      <3>2. Rest(p) = {} /\ \A s \in Made : IsSpan(s) => Counted(s)
        BY <1>0, <1>l, <1>w, <3>1, AllOver
      <3>3. Continue(p, FlushTasks) /\ spawned' = Spawn /\ waiting' = FALSE
        BY <2>3, <2>5 DEF When
      <3>4. /\ TaskInv' /\ RequestDoneInv' /\ FlushTasks \in Seq(Task)
            /\ FlushTasks = <<>> \/ FlushTasks = <<T("Flush", Request, FALSE)>>
        BY <1>0, <1>4, <3>2, <3>3, OverStep
      <3>5. /\ TreeInv' /\ RequestInv' /\ SpanInv' /\ MakeInv' /\ ListInv' /\ StackInv'
            /\ CascadeInv' /\ BaseInv'
        BY <1>0, <1>4, <2>4, <3>3, <3>4, RetireFrame
      <3> QED
        BY <3>4, <3>5 DEF CarefulInv
    <2>6. CASE ~wake
      <3>1. Continue(p, <<>>) /\ spawned' = spawned /\ waiting' = waiting
        <4>1. waiting' <=> waiting
          BY <2>3, <2>6, Zenon
        <4>2. waiting \in BOOLEAN /\ waiting' \in BOOLEAN
          BY <1>t DEF TypeOK
        <4>3. Continue(p, <<>>) /\ spawned' = spawned
          BY <2>3, <2>6 DEF When
        <4> QED
          BY <4>1, <4>2, <4>3
      <3>2. waiting => dependents'[Request] = {} /\ activeDetached' # {}
        <4>1. waiting => dependents[Request] = {}
          BY <1>t DEF RequestDoneInv
        <4>2. waiting => left # {}
          BY <2>6, <4>1, Zenon
        <4> QED
          BY <2>3, <4>1, <4>2
      <3>3. \A t \in Work : t.op = "retire" => t \in Work' \/ t.lg # Request
        BY <1>o, <2>1, <3>1
      <3>4. UNCHANGED <<tree, waiting>>
        BY <1>4, <3>1
      <3>5. RequestDoneInv'
        BY <1>t, <1>c, <1>o, <1>w, <1>3, <3>1, <3>2, <3>3, <3>4, RequestFrame
      <3> QED
        BY <1>0, <1>4, <2>4, <3>1, <3>5, RetireOn
    <2> QED
      BY <2>5, <2>6
  <1>6. CASE l = Request /\ RetireRequest(p)
    <2>1. /\ UNCHANGED <<dependents, activeDetached>> /\ ~waiting
      BY <1>t, <1>6, <1>l, <1>3, <1>s DEF RetireRequest, RequestDoneInv
    <2>2. dependents[Request] = {}
      <3> SUFFICES ASSUME NEW c \in dependents[Request] PROVE FALSE
        OBVIOUS
      <3>1. Request \in Loggers
        BY <1>3, <1>6
      <3>2. c \in Made /\ IsSpan(c) /\ ~Root(c) /\ SpanOf(Parent(c)) = Request
        BY <1>t, <3>1 DEF ListInv
      <3>3. Request \in Cover(c) /\ c # Request /\ InList(c)
        <4>1. Cover(c) = Cover(Parent(c)) \cup {c} /\ Parent(c) \in Made
          BY <1>t, <3>2 DEF TreeInv
        <4>2. SpanOf(Parent(c)) \in Cover(Parent(c))
          BY <1>t, <4>1 DEF TreeInv
        <4> QED
          BY <3>2, <4>1, <4>2 DEF Root, InList
      <3>4. CASE Counted(c)
        <4> DEFINE u == T("retire", c, FALSE)
        <4>1. u \in Work
          BY <1>t, <3>2, <3>3, <3>4 DEF ListInv
        <4>2. u.lg = c /\ IsPiece(u)
          BY PieceTasks DEF T
        <4> HIDE DEF u
        <4> QED
          BY <1>3, <1>6, <1>l, <1>s, <3>3, <4>1, <4>2
      <3>5. CASE ~Counted(c)
        <4>1. PICK t \in Work : Cascading(t) /\ Request \in Cover(t.lg)
          BY <1>t, <1>3, <1>6, <3>2, <3>3, <3>5 DEF CascadeInv
        <4>2. IsPiece(t) /\ t # Top(p)
          BY <1>0, <4>1 DEF Cascading
        <4> QED
          BY <1>3, <1>6, <1>s, <4>1, <4>2
      <3> QED
        BY <3>4, <3>5
    <2>4. /\ \A k : InList(k)' => InList(k)
          /\ \A k : InList(k) /\ k # Top(p).lg => InList(k)'
          /\ \A k : k = Top(p).lg /\ k # Request => ~InList(k)'
          /\ activeDetached' \subseteq activeDetached
          /\ \A s \in Loggers : dependents'[s] \subseteq dependents[s]
      BY <1>i, <1>l, <1>6, <2>1 DEF InList
    <2>5. CASE activeDetached = {}
      <3>1. Rest(p) = {} /\ \A s \in Made : IsSpan(s) => Counted(s)
        BY <1>0, <1>3, <1>6, <2>5, AllOver
      <3>2. Continue(p, FlushTasks) /\ spawned' = Spawn /\ waiting' = FALSE
        <4>1. waiting' = FALSE
          BY <1>t, <1>6, <2>1, <2>2, <2>5 DEF RetireRequest, TypeOK
        <4> QED
          BY <1>6, <2>2, <2>5, <4>1 DEF RetireRequest, When
      <3>4. /\ TaskInv' /\ RequestDoneInv' /\ FlushTasks \in Seq(Task)
            /\ FlushTasks = <<>> \/ FlushTasks = <<T("Flush", Request, FALSE)>>
        BY <1>0, <1>4, <3>1, <3>2, OverStep
      <3>5. /\ TreeInv' /\ RequestInv' /\ SpanInv' /\ MakeInv' /\ ListInv' /\ StackInv'
            /\ CascadeInv' /\ BaseInv'
        BY <1>0, <1>4, <2>4, <3>2, <3>4, RetireFrame
      <3> QED
        BY <3>4, <3>5 DEF CarefulInv
    <2>6. CASE activeDetached # {}
      <3>1. Continue(p, <<>>) /\ spawned' = spawned
        BY <1>6, <2>2, <2>6 DEF RetireRequest, When
      <3>2. dependents'[Request] = {} /\ activeDetached' # {} /\ Counted(Request)'
        BY <1>c, <1>3, <1>6, <2>1, <2>2, <2>6
      <3>3. waiting'
        BY <1>6, <2>2, <2>6 DEF RetireRequest
      <3>4. \A t \in Work' : IsPiece(t)' => Request \notin Cover(t.lg)'
        <4>1. \A t : (IsPiece(t)' <=> IsPiece(t)) /\ Cover(t.lg)' = Cover(t.lg)
          BY <1>4, TreeFrame DEF IsPiece
        <4> QED
          BY <1>3, <1>6, <1>o, <3>1, <4>1
      <3>5. RequestDoneInv'
        BY <3>2, <3>3, <3>4 DEF RequestDoneInv
      <3> QED
        BY <1>0, <1>4, <2>4, <3>1, <3>5, RetireOn
    <2> QED
      BY <2>5, <2>6
  <1>7. CASE l # Request /\ ~Detached(l) /\ RetireDependent(p, l)
    <2>1. ~info[l].detached /\ ~Root(l)
      BY <1>3, <1>7 DEF Detached, Root
    <2>2. SpanOf(Parent(l)) \in Loggers
      <3>1. Parent(l) \in Made /\ SpanOf(Parent(l)) \in Made
        BY <1>t, <1>3 DEF TreeInv
      <3> QED
        BY <1>t, <3>1, FinishedDown
    <2>3. Without(dependents[SpanOf(Parent(l))], l) = dependents[SpanOf(Parent(l))] \ {l}
      BY <1>t, <1>3, <2>2, WithoutSpan DEF ListInv
    <2>d. /\ dependents' = [dependents EXCEPT ![SpanOf(Parent(l))] = @ \ {l}]
          /\ Continue(p, <<>>) /\ UNCHANGED <<spawned, activeDetached, waiting>>
      BY <1>7, <2>3 DEF RetireDependent
    <2>f. /\ \A s \in Loggers : dependents'[s] = IF s = SpanOf(Parent(l)) THEN dependents[s] \ {l} ELSE dependents[s]
          /\ activeDetached' = activeDetached
      BY <1>t, <2>2, <2>d DEF TypeOK
    <2>m. \A k, s : k \in dependents[s] /\ s \in Loggers => k \in Made /\ SpanOf(Parent(k)) = s
      BY <1>t DEF ListInv
    <2>n. \A k : SpanOf(Parent(k)) \notin Loggers => dependents'[SpanOf(Parent(k))] = dependents[SpanOf(Parent(k))]
      BY <1>t, <2>2, <2>d DEF TypeOK
    <2>4. /\ \A k : InList(k)' => InList(k)
          /\ \A k : InList(k) /\ k # Top(p).lg => InList(k)'
          /\ \A k : k = Top(p).lg /\ k # Request => ~InList(k)'
          /\ activeDetached' \subseteq activeDetached
          /\ \A s \in Loggers : dependents'[s] \subseteq dependents[s]
      BY <1>i, <1>l, <2>1, <2>2, <2>f, <2>n DEF InList
    <2>5. waiting => dependents'[Request] = {} /\ activeDetached' # {}
      <3>1. Request \in Loggers
        BY LifecycleAssumption DEF LifecycleAssumption, Loggers, Request
      <3> QED
        BY <1>t, <2>f, <3>1 DEF RequestDoneInv
    <2>6. \A t \in Work : t.op = "retire" => t \in Work' \/ t.lg # Request
      BY <1>7, <1>o, <2>d
    <2>7. UNCHANGED <<tree, waiting>>
      BY <1>4, <2>d
    <2>8. RequestDoneInv'
      BY <1>t, <1>c, <1>o, <1>w, <1>3, <2>d, <2>5, <2>6, <2>7, RequestFrame
    <2> QED
      BY <1>0, <1>4, <2>4, <2>d, <2>8, RetireOn
  <1> QED
    BY <1>l, <1>5, <1>6, <1>7 DEF Retire

-----------------------------------------------------------------------------
(* When all is over no list has a span left, every span is finished, and   *)
(* the base knows of every end.                                            *)
LEMMA OverFacts ==
  ASSUME CarefulInv, Over
  PROVE  /\ activeDetached = {} /\ \A s \in Loggers : dependents[s] = {}
         /\ undated = {} /\ ~waiting /\ FlushDue
         /\ \A l \in Made : Finished(l) /\ SpanOf(l) \notin knownActive
         /\ Request \in Made /\ Request \in Loggers /\ SpanOf(Request) = Request
         /\ \A t \in Work : IsLast(t) /\ ~IsPiece(t) /\ ~IsUse(t)
         /\ \A l : ~Unlisted(l)
  <1>t. TypeOK /\ TreeInv /\ RequestInv /\ SpanInv /\ ListInv /\ RequestDoneInv /\ BaseInv
    BY DEF CarefulInv
  <1>1. \A t \in Work : IsLast(t) /\ ~IsPiece(t) /\ ~IsUse(t)
    BY Kinds DEF Over
  <1>2. \A l : T("retire", l, FALSE) \notin Work /\ T("baseDone", l, TRUE) \notin Work /\ ~Unlisted(l)
    <2>1. \A l : /\ T("retire", l, FALSE).op = "retire" /\ T("baseDone", l, TRUE).op = "baseDone"
                 /\ T("newChildLog", l, FALSE).op = "newChildLog"
      BY DEF T
    <2> QED
      BY <1>1, <2>1 DEF Unlisted, IsLast, LastOps, LockedOps
  <1>3. \A l \in Made : IsSpan(l) /\ InList(l) => l = Request
    BY <1>t, <1>2 DEF ListInv, Over
  <1>4. activeDetached = {}
    <2>1. \A l \in activeDetached : l \in Made /\ IsSpan(l) /\ InList(l) /\ l # Request
      BY <1>t DEF ListInv, InList, RequestInv
    <2> QED
      BY <1>3, <2>1
  <1>5. \A s \in Loggers : dependents[s] = {}
    <2>1. \A s \in Loggers : \A l \in dependents[s] : l \in Made /\ IsSpan(l) /\ InList(l) /\ l # Request
      BY <1>t DEF ListInv, InList, Root
    <2> QED
      BY <1>3, <2>1
  <1>6. undated = {}
    BY <1>t, <1>2 DEF BaseInv, Over
  <1>7. ~waiting
    BY <1>t, <1>4 DEF RequestDoneInv
  <1>8. Request \in Made /\ Request \in Loggers /\ SpanOf(Request) = Request
    BY <1>t, LifecycleAssumption DEF TypeOK, Made, LifecycleAssumption, Loggers, Request, RequestInv
  <1>9. FlushDue
    <2>1. Counted(Request)
      BY <1>8 DEF Over, IsSpan
    <2> QED
      BY <1>t, <1>2, <1>7, <2>1 DEF RequestDoneInv
  <1>10. ASSUME NEW l \in Made PROVE Finished(l) /\ SpanOf(l) \notin knownActive
    <2>1. SpanOf(l) \in Made /\ IsSpan(SpanOf(l)) /\ SpanOf(l) \in Loggers
      BY <1>t, FinishedDown DEF TreeInv, IsSpan
    <2>2. Counted(SpanOf(l))
      BY <2>1 DEF Over
    <2>3. Finished(SpanOf(l)) /\ SpanOf(l) \notin knownActive
      BY <1>t, <2>1, <2>2 DEF SpanInv
    <2> QED
      BY <1>t, <2>3, FinishedDown
  <1> QED
    BY <1>1, <1>2, <1>4, <1>5, <1>6, <1>7, <1>8, <1>9, <1>10

(* A step of the last flush. *)
LEMMA LastStep ==
  ASSUME CarefulInv, TypeOK', NEW p \in Procs, stack[p] # <<>>, NEW new \in Seq(Task),
         Continue(p, new), IsLast(Top(p)), \A t \in Pieces(new) : IsLast(t),
         UNCHANGED <<spawned, tree, doneCount, dependents, activeDetached, waiting,
                     undated, final, live, asked, alarms>>,
         knownActive' \subseteq knownActive, armed' => armed, dirty' \in {dirty, {}},
         FlushDue => FlushDue'
  PROVE  CarefulInv'
  <1>t. /\ TypeOK /\ TreeInv /\ RequestInv /\ SpanInv /\ TaskInv /\ MakeInv /\ ListInv
        /\ StackInv /\ CascadeInv /\ RequestDoneInv /\ BaseInv
    BY DEF CarefulInv
  <1>w. /\ Top(p) \in Work /\ Rest(p) \subseteq Work /\ Work' = Pieces(new) \cup Rest(p)
        /\ Tasks(p)' = Pieces(new) \cup Below(p) /\ Below(p) \subseteq Rest(p)
        /\ \A q \in Procs \ {p} : Tasks(q)' = Tasks(q) /\ Tasks(q) \subseteq Rest(p)
    <2>1. /\ Top(p) \in Work /\ Rest(p) \subseteq Work /\ Work' = Pieces(new) \cup Rest(p)
          /\ Tasks(p)' = Pieces(new) \cup Below(p)
          /\ \A q \in Procs \ {p} : Tasks(q)' = Tasks(q)
      BY <1>t, StepWork, TopFacts
    <2> QED
      BY <2>1 DEF Rest
  <1>o. Over
    BY <1>t, <1>w DEF TaskInv
  <1>f. /\ activeDetached = {} /\ \A s \in Loggers : dependents[s] = {}
        /\ undated = {} /\ ~waiting /\ FlushDue
        /\ \A l \in Made : Finished(l) /\ SpanOf(l) \notin knownActive
        /\ Request \in Made /\ Request \in Loggers
        /\ \A t \in Work : IsLast(t) /\ ~IsPiece(t) /\ ~IsUse(t)
    BY <1>o, OverFacts
  <1>l. /\ \A t \in Work' : IsLast(t) /\ ~IsPiece(t) /\ ~IsUse(t)
        /\ \A t : IsLast(t) => t.op \notin {"newChildLog", "return", "retire", "baseDone"}
        /\ \A t : (IsLast(t)' <=> IsLast(t)) /\ (IsPiece(t)' <=> IsPiece(t))
    <2>1. \A t \in Work' : IsLast(t)
      BY <1>f, <1>w
    <2> QED
      BY <2>1, Kinds DEF IsLast, IsPiece, LastOps, LockedOps
  <1>u. /\ UNCHANGED tree /\ UNCHANGED <<tree, live, asked>> /\ UNCHANGED <<tree, doneCount, asked>>
        /\ UNCHANGED <<tree, doneCount, dependents, activeDetached>>
        /\ UNCHANGED <<tree, doneCount, asked, final, alarms>>
        /\ waiting' = waiting /\ undated' = undated
    OBVIOUS
  <1>c. \A k : (Counted(k)' <=> Counted(k)) /\ (Finished(k)' <=> Finished(k))
    BY <1>u DEF Counted, Finished, tree
  <1>1. TreeInv' /\ RequestInv'
    BY <1>t, <1>u, TreeFrame
  <1>2. SpanInv'
    <2>1. asked' \subseteq {l \in Made : IsSpan(l)}'
      <3>1. {l \in Made : IsSpan(l)}' = {l \in Made : IsSpan(l)}
        BY <1>u, TreeFrame
      <3> QED
        BY <1>t, <3>1 DEF SpanInv
    <2>2. \A l \in Loggers : Counted(l)' =>
            l \in Made' /\ IsSpan(l)' /\ Finished(l)' /\ l \notin knownActive'
      BY <1>t, <1>c, <1>u, TreeFrame DEF SpanInv
    <2>3. \A l \in Made' : Finished(l)'
      BY <1>c, <1>f, <1>u, TreeFrame
    <2> QED
      BY <1>t, <2>1, <2>2, <2>3 DEF SpanInv
  <1>3. Over'
    <2>1. \A l \in Made' : IsSpan(l)' => Counted(l)'
      BY <1>o, <1>c, <1>u, TreeFrame DEF Over
    <2> QED
      BY <1>l, <2>1 DEF Over
  <1>4. TaskInv'
    <2>1. \A w \in Flushers : \A t \in Tasks(w)' : IsLast(t)'
      BY <1>l, <1>w DEF Procs
    <2> QED
      BY <1>l, <1>3, <2>1 DEF TaskInv
  <1>5. MakeInv'
    BY <1>t, <1>l, <1>f, <1>w, <1>u, MakeFrame
  <1>6. ListInv'
    BY <1>t, <1>l, <1>f, <1>u, ListFrame
  <1>7. StackInv'
    <2>1. \A t, u : IsLast(t) /\ IsLast(u) => Nested(t, u) /\ Parted(t, u)
      BY <1>l, Kinds DEF Nested, Parted
    <2>2. \A t, u : IsLast(t) /\ IsLast(u) => Nested(t, u)' /\ Parted(t, u)'
      BY <1>u, <2>1, TreeFrame
    <2>3. \A i \in DOMAIN new : IsLast(new[i])
      BY DEF Pieces
    <2>4. \A t \in Rest(p) : IsLast(t)
      BY <1>f, <1>w
    <2> QED
      BY <1>t, <1>w, <2>2, <2>3, <2>4, StepStackInv
  <1>8. CascadeInv'
    <2>1. \A t \in Work : ~Cascading(t)
      BY <1>f DEF Cascading
    <2> QED
      BY <1>t, <1>u, <2>1, CascadeFrame
  <1>9. RequestDoneInv'
    BY <1>f, <1>u, <1>3 DEF RequestDoneInv
  <1>10. BaseInv'
    <2>1. undated' = {}
      BY <1>f, <1>u
    <2> QED
      BY <1>t, <1>f, <1>l, <1>u, <2>1, BaseFrame
  <1> QED
    BY <1>1, <1>2, <1>4, <1>5, <1>6, <1>7, <1>8, <1>9, <1>10 DEF CarefulInv

(* A walk over nothing. *)
LEMMA WalkNone ==
  ASSUME NEW order \in Orders({}), NEW op \in Ops, NEW f \in BOOLEAN
  PROVE  Each(op, order, f) = <<>>
  <1>1. PICK n : n = Each(op, order, f)
    OBVIOUS
  <1>2. {} \in SUBSET Loggers
    OBVIOUS
  <1>3. n \in Seq(Task) /\ Pieces(n) = {T(op, c, f) : c \in {}}
    BY <1>1, <1>2, WalkAll
  <1>4. DOMAIN n = {}
    BY <1>3 DEF Pieces
  <1>5. Len(n) = 0
    BY <1>3, <1>4
  <1> QED
    BY <1>1, <1>3, <1>5, EmptySeq

(* A flush is still due when what is left of it has not been lost. *)
LEMMA DueStep ==
  ASSUME TypeOK, NEW p \in Procs, stack[p] # <<>>, NEW new \in Seq(Task), Continue(p, new),
         dirty' = dirty, spawned' = spawned,
         \/ Top(p).op \notin {"Flush", "FlushLock", "Stop", "FlushActive", "baseFlush"}
         \/ \E t \in Pieces(new) : t.op \in {"Flush", "FlushLock", "Stop", "FlushActive", "baseFlush"}
  PROVE  FlushDue => FlushDue'
  <1>1. Work = {Top(p)} \cup Rest(p) /\ Work' = Pieces(new) \cup Rest(p)
    BY StepWork
  <1> QED
    BY <1>1 DEF FlushDue

(* The tasks of the last flush. *)
LEMMA LastTask ==
  ASSUME CarefulInv, NEW p \in Procs, stack[p] # <<>>, IsLast(Top(p))
  PROVE  /\ Over /\ Top(p).lg = Request /\ ~Top(p).flag /\ Top(p) \in Task
         /\ \A op \in LastOps : IsLast(T(op, Request, FALSE)) /\ T(op, Request, FALSE) \in Task
         /\ \A op, l, f : T(op, l, f).op = op
  <1>1. Top(p) \in Work /\ Top(p) \in Task
    BY TopFacts
  <1>2. Over
    BY <1>1 DEF CarefulInv, TaskInv
  <1>3. Request \in Loggers
    BY LifecycleAssumption DEF LifecycleAssumption, Loggers, Request
  <1>4. \A op \in LastOps : T(op, Request, FALSE) \in Task
    BY <1>3, TaskTyped DEF LastOps, LockedOps, Ops
  <1>5. \A op, l, f : T(op, l, f).op = op
    BY DEF T
  <1>6. ASSUME NEW op \in LastOps PROVE IsLast(T(op, Request, FALSE))
    <2> DEFINE t == T(op, Request, FALSE)
    <2>1. t.op = op /\ t.lg = Request /\ t.flag = FALSE
      BY DEF T
    <2> HIDE DEF t
    <2>2. IsLast(t)
      BY <2>1 DEF IsLast
    <2> QED
      BY <2>2 DEF t
  <1> QED
    BY <1>1, <1>2, <1>4, <1>5, <1>6 DEF IsLast

(* The last flush finds no detached logger and no dependent. *)
LEMMA CarefulWalk ==
  ASSUME CarefulInv, TypeOK', NEW p \in Procs, IsLast(Top(p)), Flush(p) \/ RecursiveDone(p) \/ Dependents(p)
  PROVE  CarefulInv'
  <1>t. TypeOK
    BY DEF CarefulInv
  <1>0. stack[p] # <<>>
    BY DEF Flush, RecursiveDone, Dependents, Runs
  <1>1. /\ Over /\ Top(p).lg = Request /\ ~Top(p).flag /\ Top(p) \in Task
        /\ \A op \in LastOps : IsLast(T(op, Request, FALSE)) /\ T(op, Request, FALSE) \in Task
        /\ \A op, l, f : T(op, l, f).op = op
    BY <1>0, LastTask
  <1>2. /\ activeDetached = {} /\ dependents[Request] = {} /\ Request \notin knownActive
        /\ SpanOf(Request) = Request /\ Top(p).flag = FALSE
    BY <1>1, OverFacts DEF Task
  <1>3. ASSUME Flush(p) PROVE CarefulInv'
    <2> DEFINE a == T("recursiveDone", Request, FALSE)
               b == T("FlushLock", Request, FALSE)
    <2>1. PICK order \in Orders({}) : Continue(p, Each("recursiveDone", order, FALSE) \o <<a, b>>)
      BY <1>2, <1>3 DEF Flush
    <2>2. Each("recursiveDone", order, FALSE) = <<>>
      BY WalkNone DEF Ops
    <2>3. IsLast(a) /\ IsLast(b) /\ a \in Task /\ b \in Task /\ b.op = "FlushLock"
      BY <1>1 DEF LastOps
    <2> HIDE DEF a, b
    <2>4. <<a, b>> \in Seq(Task) /\ Pieces(<<a, b>>) = {a, b}
      BY <2>3, SeqTyped, ShortPieces
    <2>5. <<>> \o <<a, b>> = <<a, b>>
      BY <2>4
    <2>6. Continue(p, <<a, b>>)
      BY <2>1, <2>2, <2>5
    <2>7. /\ UNCHANGED <<spawned, tree, doneCount, dependents, activeDetached, waiting,
                         undated, final, live, asked, alarms>>
          /\ knownActive' = knownActive /\ armed' = armed /\ dirty' = dirty /\ spawned' = spawned
      BY <1>3 DEF Flush, spans, shared, base, history
    <2>8. FlushDue => FlushDue'
      BY <1>t, <1>0, <2>3, <2>4, <2>6, <2>7, DueStep
    <2> QED
      BY <1>0, <2>3, <2>4, <2>6, <2>7, <2>8, LastStep
  <1>4. ASSUME RecursiveDone(p) PROVE CarefulInv'
    <2> DEFINE a == T("dependents", Request, FALSE)
    <2>1. IsLast(a) /\ a \in Task
      BY <1>1 DEF LastOps
    <2>2. <<a>> \in Seq(Task) /\ Pieces(<<a>>) = {a}
      <3> HIDE DEF a
      <3> QED
        BY <2>1, SeqTyped, ShortPieces
    <2>3. Continue(p, When(FALSE, <<T("baseDone", Request, FALSE)>>) \o <<a>>) /\ Top(p).op = "recursiveDone"
      <3>1. (SpanOf(Request) \in knownActive) = FALSE
        BY <1>2
      <3>2. Continue(p, When(SpanOf(Request) \in knownActive, <<T("baseDone", Request, FALSE)>>) \o <<a>>)
        BY <1>1, <1>4, Zenon DEF RecursiveDone
      <3>3. Continue(p, When(FALSE, <<T("baseDone", Request, FALSE)>>) \o <<a>>)
        BY <3>1, <3>2
      <3> QED
        BY <1>4, <3>3 DEF RecursiveDone, Runs
    <2>4. When(FALSE, <<T("baseDone", Request, FALSE)>>) = <<>>
      BY DEF When
    <2> HIDE DEF a
    <2>5. <<>> \o <<a>> = <<a>>
      BY <2>2
    <2>6. Continue(p, <<a>>)
      BY <2>3, <2>4, <2>5
    <2>7. /\ UNCHANGED <<spawned, tree, doneCount, dependents, activeDetached, waiting,
                         undated, final, live, asked, alarms>>
          /\ knownActive' \subseteq knownActive /\ armed' = armed /\ dirty' = dirty /\ spawned' = spawned
      BY <1>4 DEF RecursiveDone, shared, base, history
    <2>8. FlushDue => FlushDue'
      BY <1>t, <1>0, <2>2, <2>3, <2>6, <2>7, DueStep
    <2> QED
      BY <1>0, <2>1, <2>2, <2>6, <2>7, <2>8, LastStep
  <1>5. ASSUME Dependents(p) PROVE CarefulInv'
    <2>1. PICK order \in Orders({}) : Continue(p, Each("done", order, FALSE))
      BY <1>1, <1>2, <1>5 DEF Dependents
    <2>2. Each("done", order, FALSE) = <<>>
      BY WalkNone DEF Ops
    <2>3. Continue(p, <<>>) /\ Top(p).op = "dependents"
      BY <1>5, <2>1, <2>2 DEF Dependents, Runs
    <2>4. <<>> \in Seq(Task) /\ Pieces(<<>>) = {}
      BY SeqTyped, ShortPieces
    <2>7. /\ UNCHANGED <<spawned, tree, doneCount, dependents, activeDetached, waiting,
                         undated, final, live, asked, alarms>>
          /\ knownActive' = knownActive /\ armed' = armed /\ dirty' = dirty /\ spawned' = spawned
      BY <1>5 DEF Dependents, spans, shared, base, history
    <2>8. FlushDue => FlushDue'
      BY <1>t, <1>0, <2>3, <2>4, <2>7, DueStep
    <2> QED
      BY <1>0, <2>3, <2>4, <2>7, <2>8, LastStep
  <1> QED
    BY <1>3, <1>4, <1>5

(* The last flush takes the lock, stops the timer, flushes and unlocks. *)
LEMMA CarefulFlush ==
  ASSUME CarefulInv, TypeOK', NEW p \in Procs, IsLast(Top(p)),
         FlushLock(p) \/ Stop(p) \/ FlushInactive(p) \/ BaseFlush(p) \/ FlushUnlock(p)
  PROVE  CarefulInv'
  <1>t. TypeOK
    BY DEF CarefulInv
  <1>0. stack[p] # <<>>
    BY DEF FlushLock, Stop, FlushInactive, BaseFlush, FlushUnlock, Runs
  <1>1. /\ \A op \in LastOps : IsLast(T(op, Request, FALSE)) /\ T(op, Request, FALSE) \in Task
        /\ \A op, l, f : T(op, l, f).op = op
    BY <1>0, LastTask
  <1>2. ASSUME NEW op \in LastOps
        PROVE  /\ <<T(op, Request, FALSE)>> \in Seq(Task)
               /\ Pieces(<<T(op, Request, FALSE)>>) = {T(op, Request, FALSE)}
               /\ \A t \in Pieces(<<T(op, Request, FALSE)>>) : IsLast(t) /\ t.op = op
    <2> DEFINE a == T(op, Request, FALSE)
    <2>1. IsLast(a) /\ a \in Task /\ a.op = op
      BY <1>1
    <2> HIDE DEF a
    <2>2. <<a>> \in Seq(Task) /\ Pieces(<<a>>) = {a}
      BY <2>1, SeqTyped, ShortPieces
    <2>3. \A t \in Pieces(<<a>>) : IsLast(t) /\ t.op = op
      BY <2>1, <2>2
    <2> QED
      BY <2>2, <2>3 DEF a
  <1>e. <<>> \in Seq(Task) /\ Pieces(<<>>) = {}
    BY SeqTyped, ShortPieces
  <1>3. ASSUME FlushLock(p) PROVE CarefulInv'
    <2>1. PICK new : new = <<T("Stop", Request, FALSE)>>
      OBVIOUS
    <2>2. /\ new \in Seq(Task) /\ Pieces(new) # {} /\ \A t \in Pieces(new) : IsLast(t) /\ t.op = "Stop"
      BY <1>2, <2>1 DEF LastOps, LockedOps
    <2>3. /\ Continue(p, new)
          /\ UNCHANGED <<spawned, tree, doneCount, dependents, activeDetached, waiting,
                         undated, final, live, asked, alarms>>
          /\ knownActive' = knownActive /\ armed' = armed /\ dirty' = dirty /\ spawned' = spawned
      BY <1>3, <2>1 DEF FlushLock, spans, base, history
    <2>4. FlushDue => FlushDue'
      BY <1>t, <1>0, <2>2, <2>3, DueStep
    <2> QED
      BY <1>0, <2>2, <2>3, <2>4, LastStep
  <1>4. ASSUME Stop(p) PROVE CarefulInv'
    <2>1. PICK new : new = <<T("FlushActive", Request, FALSE)>>
      OBVIOUS
    <2>2. /\ new \in Seq(Task) /\ Pieces(new) # {} /\ \A t \in Pieces(new) : IsLast(t) /\ t.op = "FlushActive"
      BY <1>2, <2>1 DEF LastOps, LockedOps
    <2>3. /\ Continue(p, new)
          /\ UNCHANGED <<spawned, tree, doneCount, dependents, activeDetached, waiting,
                         undated, final, live, asked, alarms>>
          /\ knownActive' = knownActive /\ ~armed' /\ dirty' = dirty /\ spawned' = spawned
      BY <1>4, <2>1 DEF Stop, spans, base, history
    <2>4. FlushDue => FlushDue'
      BY <1>t, <1>0, <2>2, <2>3, DueStep
    <2> QED
      BY <1>0, <2>2, <2>3, <2>4, LastStep
  <1>5. ASSUME FlushInactive(p) PROVE CarefulInv'
    <2>1. PICK new : new = <<T("baseFlush", Request, FALSE)>>
      OBVIOUS
    <2>2. /\ new \in Seq(Task) /\ Pieces(new) # {} /\ \A t \in Pieces(new) : IsLast(t) /\ t.op = "baseFlush"
      BY <1>2, <2>1 DEF LastOps, LockedOps
    <2>3. /\ Continue(p, new)
          /\ UNCHANGED <<spawned, tree, doneCount, dependents, activeDetached, waiting,
                         undated, final, live, asked, alarms>>
          /\ knownActive' = knownActive /\ armed' = armed /\ dirty' = dirty /\ spawned' = spawned
      BY <1>5, <2>1 DEF FlushInactive, spans, base, history
    <2>4. FlushDue => FlushDue'
      BY <1>t, <1>0, <2>2, <2>3, DueStep
    <2> QED
      BY <1>0, <2>2, <2>3, <2>4, LastStep
  <1>6. ASSUME BaseFlush(p) PROVE CarefulInv'
    <2>1. PICK new : new = <<T("FlushUnlock", Request, FALSE)>>
      OBVIOUS
    <2>2. /\ new \in Seq(Task) /\ \A t \in Pieces(new) : IsLast(t)
      BY <1>2, <2>1 DEF LastOps, LockedOps
    <2>3. /\ Continue(p, new)
          /\ UNCHANGED <<spawned, tree, doneCount, dependents, activeDetached, waiting,
                         undated, final, live, asked, alarms>>
          /\ knownActive' = knownActive /\ armed' = armed /\ dirty' = {}
      BY <1>6, <2>1 DEF BaseFlush, spans, shared, history
    <2>4. FlushDue'
      BY <2>3 DEF FlushDue
    <2> QED
      BY <1>0, <2>2, <2>3, <2>4, LastStep
  <1>7. ASSUME FlushUnlock(p) PROVE CarefulInv'
    <2>3. /\ Continue(p, <<>>) /\ Top(p).op = "FlushUnlock"
          /\ UNCHANGED <<spawned, tree, doneCount, dependents, activeDetached, waiting,
                         undated, final, live, asked, alarms>>
          /\ knownActive' = knownActive /\ armed' = armed /\ dirty' = dirty /\ spawned' = spawned
      BY <1>7 DEF FlushUnlock, Runs, spans, base, history
    <2>4. FlushDue => FlushDue'
      BY <1>t, <1>0, <1>e, <2>3, DueStep
    <2> QED
      BY <1>0, <1>e, <2>3, <2>4, LastStep
  <1> QED
    BY <1>3, <1>4, <1>5, <1>6, <1>7

-----------------------------------------------------------------------------
(* What has to be shown of a new call for the stacks to stay in order. *)
LEMMA CallStackInv ==
  ASSUME TypeOK, NEW p \in Procs, stack[p] = <<>>, NEW new \in Seq(Task),
         stack' = [stack EXCEPT ![p] = new], StackInv,
         \A t, u \in Work : (Nested(t, u) => Nested(t, u)') /\ (Parted(t, u) => Parted(t, u)'),
         \A i, j \in DOMAIN new : i < j => Nested(new[i], new[j])',
         \A t \in Pieces(new) : \A q \in Procs \ {p} : \A u \in Tasks(q) : Parted(t, u)' /\ Parted(u, t)'
  PROVE  StackInv'
  <1>1. stack'[p] = new /\ \A q \in Procs \ {p} : stack'[q] = stack[q]
    BY DEF TypeOK
  <1>2. /\ Tasks(p)' = Pieces(new) /\ \A q \in Procs \ {p} : Tasks(q)' = Tasks(q)
        /\ \A q \in Procs : Tasks(q) \subseteq Work
    BY CallWork DEF Work
  <1>3. \A q \in Procs : \A i, j \in DOMAIN stack'[q] : i < j => Nested(stack[q][i], stack[q][j])'
    <2> TAKE q \in Procs
    <2>1. CASE q = p
      <3>1. \A i, j \in DOMAIN new : i < j => Nested(stack[p][i], stack[p][j])'
        BY <1>1
      <3> QED
        BY <1>1, <2>1, <3>1
    <2>2. CASE q # p
      <3>1. stack'[q] = stack[q]
        BY <1>1, <2>2
      <3>2. \A i \in DOMAIN stack[q] : stack[q][i] \in Work
        BY <1>2 DEF Tasks
      <3> QED
        BY <3>1, <3>2 DEF StackInv
    <2> QED
      BY <2>1, <2>2
  <1>4. \A q, r \in Procs : q # r => \A t \in Tasks(q)', u \in Tasks(r)' : Parted(t, u)'
    <2> SUFFICES ASSUME NEW q \in Procs, NEW r \in Procs, q # r, NEW t \in Tasks(q)', NEW u \in Tasks(r)'
                 PROVE  Parted(t, u)'
      OBVIOUS
    <2>1. CASE q # p /\ r # p
      BY <1>2, <2>1 DEF StackInv
    <2>2. CASE q = p \/ r = p
      BY <1>2, <2>2
    <2> QED
      BY <2>1, <2>2
  <1> QED
    BY <1>3, <1>4 DEF StackInv

(* A careful program calls loggers that it has and that are not finished,  *)
(* before anything of the last flush.                                      *)
LEMMA CallFacts ==
  ASSUME CarefulInv, NEW p \in Users, NEW l \in live, ~Finished(l)
  PROVE  /\ p \in Procs /\ l \in Made /\ l \in Loggers /\ ~Over /\ spawned = 0
         /\ \A t \in Work : ~IsLast(t) /\ (IsUse(t) \/ IsDone(t)) /\ t.lg \in Made
         /\ \A w \in Flushers : Tasks(w) = {} /\ w # p
         /\ SpanOf(l) \in knownActive /\ ~Counted(SpanOf(l))
         /\ \A k \in Cover(l) : ~Counted(k) /\ k \notin asked /\ ~Unlisted(k) /\ k \in Made
  <1>t. TypeOK /\ TreeInv /\ TaskInv /\ MakeInv
    BY DEF CarefulInv
  <1>1. l \in Made
    BY <1>t DEF MakeInv
  <1>2. l \in Loggers
    BY <1>t, <1>1, FinishedDown
  <1>3. /\ ~Over /\ SpanOf(l) \in knownActive /\ ~Counted(SpanOf(l))
        /\ \A k \in Cover(l) : ~Counted(k) /\ k \notin asked
    BY <1>1, NotFinished
  <1>4. spawned = 0 /\ \A t \in Work : ~IsLast(t)
    BY <1>t, <1>3 DEF TaskInv, TypeOK
  <1>5. \A t \in Work : (IsUse(t) \/ IsDone(t)) /\ t.lg \in Made
    BY <1>t, <1>4 DEF TaskInv, IsUse, IsDone
  <1>6. \A w \in Flushers : Tasks(w) = {} /\ w # p
    <2>1. \A w \in Flushers : Tasks(w) \subseteq Work
      BY DEF Work, Procs
    <2> QED
      BY <1>t, <1>4, <2>1, LifecycleAssumption DEF TaskInv, LifecycleAssumption
  <1>7. \A k \in Cover(l) : ~Unlisted(k) /\ k \in Made
    BY <1>t, <1>1 DEF MakeInv, TreeInv
  <1> QED
    BY <1>1, <1>2, <1>3, <1>4, <1>5, <1>6, <1>7 DEF Procs

(* What is called is on a logger that the program has and that is not      *)
(* finished.                                                               *)
LEMMA CarefulCall ==
  ASSUME Careful, NEW p \in Users, NEW op, NEW l \in Loggers, NEW new, Call(p, op, l, new)
  PROVE  /\ l \in live /\ ~Finished(l) /\ stack[p] = <<>>
         /\ stack' = [stack EXCEPT ![p] = new] /\ op # "flush"
  BY DEF Careful, Call, Idle

(* A call that uses a logger: a line, Boring(), Done() on a sub-logger.    *)
LEMMA CallUse ==
  ASSUME CarefulInv, NEW p \in Users, stack[p] = <<>>, NEW l \in live, ~Finished(l),
         NEW t \in Task, t.op \in {"Msg", "Error", "Boring"}, t.lg = l,
         NEW new \in Seq(Task), Pieces(new) = {t}, DOMAIN new = {1}, stack' = [stack EXCEPT ![p] = new], TypeOK',
         UNCHANGED <<spawned, tree, spans, shared, base, live, asked>>,
         NoFalseAlarm'
  PROVE  CarefulInv'
  <1>t. /\ TypeOK /\ TreeInv /\ RequestInv /\ SpanInv /\ TaskInv /\ MakeInv /\ ListInv
        /\ StackInv /\ CascadeInv /\ RequestDoneInv /\ BaseInv
    BY DEF CarefulInv
  <1>1. /\ p \in Procs /\ l \in Made /\ ~Over /\ spawned = 0
        /\ \A u \in Work : ~IsLast(u) /\ (IsUse(u) \/ IsDone(u))
        /\ \A w \in Flushers : Tasks(w) = {} /\ w # p
    BY CallFacts
  <1>3. /\ Tasks(p) = {} /\ Tasks(p)' = {t} /\ Work' = Work \cup {t}
        /\ \A q \in Procs \ {p} : Tasks(q)' = Tasks(q)
    BY <1>t, <1>1, CallWork
  <1>4. IsUse(t) /\ ~IsPiece(t) /\ ~IsLast(t) /\ t.op \notin {"newChildLog", "return", "retire", "baseDone"}
    BY <1>1, Kinds DEF IsUse, UseOps
  <1>u. /\ UNCHANGED tree /\ UNCHANGED <<tree, live>> /\ UNCHANGED <<tree, doneCount, asked>>
        /\ UNCHANGED <<tree, knownActive, doneCount, asked>>
        /\ UNCHANGED <<tree, doneCount, dependents, activeDetached>>
        /\ UNCHANGED <<tree, doneCount, final>> /\ UNCHANGED <<tree, waiting>>
        /\ armed' = armed /\ dirty' = dirty /\ undated' = undated /\ spawned' = spawned
        /\ dependents' = dependents /\ activeDetached' = activeDetached
    BY DEF spans, shared, base
  <1>c. /\ \A k : (Finished(k)' <=> Finished(k)) /\ (Counted(k)' <=> Counted(k))
        /\ \A u : (IsUse(u)' <=> IsUse(u)) /\ (IsDone(u)' <=> IsDone(u))
    BY <1>u, SpanFrame
  <1>5. TreeInv' /\ RequestInv' /\ SpanInv'
    BY <1>t, <1>u, TreeFrame, SpanFrame
  <1>6. TaskInv'
    <2>1. \A u \in Work' : ~IsLast(u)' /\ (IsUse(u)' \/ IsDone(u)')
      <3>1. \A u : IsLast(u)' <=> IsLast(u)
        BY DEF IsLast
      <3> QED
        BY <1>1, <1>3, <1>4, <1>c, <3>1
    <2>2. \A w \in Flushers : Tasks(w)' = {}
      BY <1>1, <1>3 DEF Procs
    <2>3. spawned' = 0
      BY <1>1, <1>u
    <2>4. ~(spawned' > 0)
      BY <2>3
    <2> QED
      BY <2>1, <2>2, <2>4 DEF TaskInv
  <1>7. MakeInv'
    <2>1. \A q \in Procs : \A u : u.op \in {"newChildLog", "return"} => (u \in Tasks(q)' <=> u \in Tasks(q))
      BY <1>3, <1>4
    <2>2. \A u \in Work : u.op = "newChildLog" => ~Counted(u.lg)
      BY <1>t DEF MakeInv, Work
    <2>3. \A u \in Work : u.op = "newChildLog" => ~Counted(u.lg)'
      BY <1>c, <2>2
    <2>4. \A k : Finished(Parent(k))' <=> Finished(Parent(k))
      BY <1>u DEF Finished, Parent, tree
    <2> QED
      BY <1>t, <1>u, <2>1, <2>3, <2>4, MakeKeep
  <1>8. ListInv'
    BY <1>t, <1>u, <1>3, <1>4, ListFrame
  <1>9. StackInv'
    <2>2. \A q \in Procs \ {p} : \A u \in Tasks(q) : Parted(t, u) /\ Parted(u, t)
      BY <1>4 DEF Parted
    <2>3. \A q \in Procs \ {p} : \A u \in Tasks(q) : Parted(t, u)' /\ Parted(u, t)'
      BY <1>u, <2>2, TreeFrame
    <2>4. \A a, u \in Work : (Nested(a, u) => Nested(a, u)') /\ (Parted(a, u) => Parted(a, u)')
      BY <1>u, TreeFrame
    <2>5. \A i, j \in DOMAIN new : i < j => Nested(new[i], new[j])'
      OBVIOUS
    <2>6. \A a \in Pieces(new) : \A q \in Procs \ {p} : \A u \in Tasks(q) : Parted(a, u)' /\ Parted(u, a)'
      BY <2>3
    <2> QED
      BY <1>t, <1>1, <2>4, <2>5, <2>6, CallStackInv
  <1>10. CascadeInv'
    BY <1>t, <1>u, <1>3, CascadeFrame
  <1>11. RequestDoneInv'
    <2>1. waiting => dependents'[Request] = {} /\ activeDetached' # {}
      BY <1>t, <1>u DEF RequestDoneInv
    <2>2. waiting => \A u \in Work' : IsPiece(u) => Request \notin Cover(u.lg)
      BY <1>t, <1>3, <1>4 DEF RequestDoneInv
    <2> QED
      BY <1>t, <1>1, <1>c, <1>u, <1>3, <2>1, <2>2, RequestFrame
  <1>12. BaseInv'
    <2>1. undated' \subseteq dirty'
      BY <1>t, <1>u DEF BaseInv
    <2> QED
      BY <1>t, <1>u, <1>c, <1>3, <2>1, BaseKeep
  <1> QED
    BY <1>5, <1>6, <1>7, <1>8, <1>9, <1>10, <1>11, <1>12 DEF CarefulInv

(* Lines and Boring(). *)
LEMMA CarefulLog ==
  ASSUME Careful, CarefulInv, TypeOK', NEW p \in Users, NEW l \in Loggers, Log(p, l)
  PROVE  CarefulInv'
  <1>1. UNCHANGED <<spawned, tree, spans, shared, base, live, asked, alarms>>
    BY DEF Log
  <1>2. ASSUME NEW op, NEW t, Call(p, op, l, <<t>>), t \in Task, t.op \in {"Msg", "Error", "Boring"}, t.lg = l
        PROVE  CarefulInv'
    <2>1. l \in live /\ ~Finished(l) /\ stack[p] = <<>> /\ stack' = [stack EXCEPT ![p] = <<t>>]
      BY <1>2, CarefulCall
    <2>2. NoFalseAlarm'
      BY <1>1 DEF CarefulInv, BaseInv, NoFalseAlarm
    <2>3. PICK new : new = <<t>>
      OBVIOUS
    <2>4. stack' = [stack EXCEPT ![p] = new]
      BY <2>1, <2>3
    <2>5. new \in Seq(Task) /\ Pieces(new) = {t} /\ DOMAIN new = {1}
      BY <1>2, <2>3, SeqTyped, ShortPieces, OneLong
    <2> QED
      BY <1>1, <1>2, <2>1, <2>2, <2>4, <2>5, CallUse
  <1>3. ASSUME NEW op \in {"Msg", "Error", "Boring"}, NEW f \in BOOLEAN
        PROVE  T(op, l, f) \in Task /\ T(op, l, f).op = op /\ T(op, l, f).lg = l
    <2>1. T(op, l, f) \in Task
      BY TaskTyped DEF Ops
    <2> QED
      BY <2>1 DEF T
  <1>4. CASE Call(p, "info", l, <<T("Msg", l, TRUE)>>)
    BY <1>2, <1>3, <1>4
  <1>5. CASE Call(p, "error", l, <<T("Error", l, TRUE)>>)
    BY <1>2, <1>3, <1>5
  <1>6. CASE Call(p, "boring", l, <<T("Boring", l, FALSE)>>)
    BY <1>2, <1>3, <1>6
  <1> QED
    BY <1>4, <1>5, <1>6 DEF Log

(* Done() on a span: whatever is called on something under it has returned. *)
LEMMA CallDone ==
  ASSUME CarefulInv, NEW p \in Users, stack[p] = <<>>, NEW l \in live, ~Finished(l), IsSpan(l),
         Alone(p, l), NEW t \in Task, t.op = "done", t.lg = l, IsPiece(t),
         NEW new \in Seq(Task), Pieces(new) = {t}, DOMAIN new = {1},
         stack' = [stack EXCEPT ![p] = new], TypeOK',
         asked' = asked \cup {l}, UNCHANGED <<spawned, tree, spans, shared, base, live, alarms>>
  PROVE  CarefulInv'
  <1>t. /\ TypeOK /\ TreeInv /\ RequestInv /\ SpanInv /\ TaskInv /\ MakeInv /\ ListInv
        /\ StackInv /\ CascadeInv /\ RequestDoneInv /\ BaseInv
    BY DEF CarefulInv
  <1>1. /\ p \in Procs /\ l \in Made /\ l \in Loggers /\ ~Over /\ spawned = 0
        /\ \A u \in Work : ~IsLast(u) /\ (IsUse(u) \/ IsDone(u)) /\ u.lg \in Made
        /\ \A w \in Flushers : Tasks(w) = {} /\ w # p
        /\ \A k \in Cover(l) : ~Counted(k) /\ k \notin asked
        /\ ~Counted(l)
    BY CallFacts DEF IsSpan
  <1>s. SpanOf(l) = l /\ l \in Cover(l)
    BY <1>t, <1>1 DEF TreeInv, IsSpan
  <1>3. /\ Tasks(p) = {} /\ Tasks(p)' = {t} /\ Work' = Work \cup {t}
        /\ \A q \in Procs \ {p} : Tasks(q)' = Tasks(q)
    BY <1>t, <1>1, CallWork
  <1>u. /\ UNCHANGED tree /\ UNCHANGED <<tree, live>>
        /\ UNCHANGED <<tree, doneCount, dependents, activeDetached>>
        /\ UNCHANGED <<tree, doneCount, final>> /\ UNCHANGED <<tree, waiting>>
        /\ armed' = armed /\ dirty' = dirty /\ undated' = undated /\ spawned' = spawned
        /\ dependents' = dependents /\ activeDetached' = activeDetached
        /\ knownActive' = knownActive /\ doneCount' = doneCount /\ alarms' = alarms
    BY DEF spans, shared, base
  <1>c. /\ \A k : Counted(k)' <=> Counted(k)
        /\ \A k : Finished(k)' <=> Finished(k) \/ l \in Cover(k)
        /\ \A k : Finished(Parent(k))' <=> Finished(Parent(k)) \/ l \in Cover(Parent(k))
    <2>1. info' = info /\ asked' = asked \cup {l}
      BY <1>u, TreeFrame
    <2> QED
      BY <1>u, <2>1 DEF Finished, Counted, Cover, Parent
  <1>a. ASSUME NEW u \in Work
        PROVE  /\ l \notin Cover(u.lg)
               /\ u.op = "return" => l \notin Cover(Parent(u.lg))
    <2>1. PICK q \in Procs : u \in Tasks(q)
      BY DEF Work
    <2>2. q \in Users \ {p}
      BY <1>1, <1>3, <2>1 DEF Procs
    <2>3. PICK i \in DOMAIN stack[q] : u = stack[q][i]
      BY <2>1 DEF Tasks
    <2> QED
      BY <1>s, <2>2, <2>3 DEF Alone, Cover
  <1>p. \A u \in Work : IsPiece(u) => u.lg \notin Cover(l)
    <2> SUFFICES ASSUME NEW u \in Work, IsPiece(u), u.lg \in Cover(l) PROVE FALSE
      OBVIOUS
    <2>1. IsDone(u)
      BY <1>1, Kinds
    <2>2. Finished(u.lg)
      BY <2>1 DEF IsDone
    <2> QED
      BY <1>t, <1>1, <2>2, FinishedDown
  <1>5. TreeInv' /\ RequestInv'
    BY <1>t, <1>u, TreeFrame
  <1>6. SpanInv'
    <2>1. asked' \subseteq {k \in Made : IsSpan(k)}'
      <3>1. {k \in Made : IsSpan(k)}' = {k \in Made : IsSpan(k)}
        BY <1>u, TreeFrame
      <3> QED
        BY <1>t, <1>1, <3>1 DEF SpanInv
    <2>2. \A k \in Loggers : Counted(k)' => k \in Made' /\ IsSpan(k)' /\ Finished(k)' /\ k \notin knownActive'
      BY <1>t, <1>c, <1>u, TreeFrame DEF SpanInv
    <2>3. \A k \in Made' : ~Finished(k)' => SpanOf(k)' \in knownActive'
      BY <1>t, <1>c, <1>u, TreeFrame DEF SpanInv
    <2> QED
      BY <1>t, <1>u, <2>1, <2>2, <2>3 DEF SpanInv
  <1>7. TaskInv'
    <2>1. ASSUME NEW u \in Work PROVE IsUse(u)' \/ IsDone(u)'
      <3>1. IsUse(u) => IsUse(u)'
        BY <1>a, <1>c, <1>u, TreeFrame DEF IsUse
      <3>2. IsDone(u) => IsDone(u)'
        BY <1>c, <1>u, TreeFrame DEF IsDone, IsPiece
      <3> QED
        BY <1>1, <3>1, <3>2
    <2>2. IsDone(t)'
      <3>1. l \in Made' /\ IsSpan(l)' /\ Finished(l)' /\ ~Counted(l)'
        BY <1>1, <1>s, <1>c, <1>u, TreeFrame
      <3>2. IsPiece(t)'
        BY DEF IsPiece
      <3> QED
        BY <3>1, <3>2 DEF IsDone, LaterOps
    <2>3. \A u \in Work' : IsUse(u)' \/ IsDone(u)'
      BY <1>3, <2>1, <2>2
    <2>4. \A u \in Work' : ~IsLast(u)'
      <3>1. \A u \in Work' : ~IsLast(u)
        BY <1>1, <1>3, Kinds
      <3> QED
        BY <3>1 DEF IsLast
    <2>5. \A w \in Flushers : Tasks(w)' = {}
      BY <1>1, <1>3 DEF Procs
    <2>6. spawned' = 0
      BY <1>1, <1>u
    <2>7. ~(spawned' > 0)
      BY <2>6
    <2> QED
      BY <2>3, <2>4, <2>5, <2>7 DEF TaskInv
  <1>8. MakeInv'
    <2>1. \A q \in Procs : \A u : u.op \in {"newChildLog", "return"} => (u \in Tasks(q)' <=> u \in Tasks(q))
      BY <1>3
    <2>2. \A u \in Work : u.op = "newChildLog" => ~Counted(u.lg)
      BY <1>t DEF MakeInv, Work
    <2>3. \A u \in Work : u.op = "newChildLog" => ~Counted(u.lg)'
      BY <1>c, <2>2
    <2>4. \A u \in Work : u.op = "return" => (Finished(Parent(u.lg))' => Finished(Parent(u.lg)))
      BY <1>a, <1>c
    <2> QED
      BY <1>t, <1>u, <2>1, <2>3, <2>4, MakeKeep
  <1>9. ListInv'
    <2>1. \A u \in Work' : IsPiece(u) => \A k \in Cover(u.lg) : Counted(k) =>
             \E v \in Work : IsPiece(v) /\ k \in Cover(v.lg)
      BY <1>1, <1>3
    <2> QED
      BY <1>t, <1>u, <1>3, <2>1, ListFrame
  <1>10. StackInv'
    <2>1. \A q \in Procs \ {p} : \A u \in Tasks(q) : Parted(t, u) /\ Parted(u, t)
      <3>1. \A q \in Procs : \A u \in Tasks(q) : u \in Work
        BY DEF Work
      <3> QED
        BY <1>a, <1>p, <3>1 DEF Parted
    <2>2. \A q \in Procs \ {p} : \A u \in Tasks(q) : Parted(t, u)' /\ Parted(u, t)'
      BY <1>u, <2>1, TreeFrame
    <2>3. \A a \in Pieces(new) : \A q \in Procs \ {p} : \A u \in Tasks(q) : Parted(a, u)' /\ Parted(u, a)'
      BY <2>2
    <2>4. \A a, u \in Work : (Nested(a, u) => Nested(a, u)') /\ (Parted(a, u) => Parted(a, u)')
      BY <1>u, TreeFrame
    <2>5. \A i, j \in DOMAIN new : i < j => Nested(new[i], new[j])'
      OBVIOUS
    <2> QED
      BY <1>t, <1>1, <2>3, <2>4, <2>5, CallStackInv
  <1>11. CascadeInv'
    <2> SUFFICES ASSUME NEW d \in Made', IsSpan(d)', ~Counted(d)',
                        NEW k \in Cover(d)', k \in asked' \/ Counted(k)'
                 PROVE  \E u \in Work' : Cascading(u)' /\ u.lg \in Cover(d)' /\ k \in Cover(u.lg)'
      BY DEF CascadeInv
    <2>1. d \in Made /\ IsSpan(d) /\ ~Counted(d) /\ k \in Cover(d) /\ (k = l \/ k \in asked \/ Counted(k))
      BY <1>c, <1>u, TreeFrame
    <2>2. \A u : Cascading(u)' <=> Cascading(u)
      BY DEF Cascading, IsPiece
    <2>3. ASSUME NEW u \in Work', Cascading(u), u.lg \in Cover(d), k \in Cover(u.lg)
          PROVE  \E v \in Work' : Cascading(v)' /\ v.lg \in Cover(d)' /\ k \in Cover(v.lg)'
      BY <1>u, <2>2, <2>3, TreeFrame
    <2>4. CASE k = l
      <3>1. t \in Work' /\ Cascading(t)
        BY <1>3 DEF Cascading
      <3> QED
        BY <1>s, <2>1, <2>3, <2>4, <3>1
    <2>5. CASE k # l
      <3>1. PICK u \in Work : Cascading(u) /\ u.lg \in Cover(d) /\ k \in Cover(u.lg)
        BY <1>t, <2>1, <2>5 DEF CascadeInv
      <3> QED
        BY <1>3, <2>3, <3>1
    <2> QED
      BY <2>4, <2>5
  <1>12. RequestDoneInv'
    <2>1. waiting => dependents'[Request] = {} /\ activeDetached' # {}
      BY <1>t, <1>u DEF RequestDoneInv
    <2>2. waiting => \A u \in Work' : IsPiece(u) => Request \notin Cover(u.lg)
      BY <1>t, <1>1, <1>3 DEF RequestDoneInv
    <2> QED
      BY <1>t, <1>1, <1>c, <1>u, <1>3, <2>1, <2>2, RequestFrame
  <1>13. BaseInv'
    <2>1. undated' \subseteq dirty' /\ NoFalseAlarm'
      BY <1>t, <1>u DEF BaseInv, NoFalseAlarm
    <2> QED
      BY <1>t, <1>u, <1>c, <1>3, <2>1, BaseKeep
  <1> QED
    BY <1>5, <1>6, <1>7, <1>8, <1>9, <1>10, <1>11, <1>12, <1>13 DEF CarefulInv

(* Done(), on a span or, by mistake, on a sub-logger. *)
LEMMA CarefulDone ==
  ASSUME Careful, CarefulInv, TypeOK', NEW p \in Users, NEW l \in Loggers, Done(p, l)
  PROVE  CarefulInv'
  <1>1. UNCHANGED <<spawned, tree, spans, shared, base, live>> /\ Alone(p, l)
    BY DEF Done, Careful
  <1>2. ASSUME info[l].nonSpan PROVE CarefulInv'
    <2>1. PICK t : t = T("Error", l, FALSE)
      OBVIOUS
    <2>2. t \in Task /\ t.op = "Error" /\ t.lg = l
      <3>1. T("Error", l, FALSE) \in Task
        BY TaskTyped DEF Ops
      <3> QED
        BY <2>1, <3>1 DEF T
    <2>3. PICK new : new = <<t>>
      OBVIOUS
    <2>4. Call(p, "done", l, new) /\ asked' = asked
      BY <1>2, <2>1, <2>3 DEF Done
    <2>5. NoFalseAlarm'
      <3>1. alarms' = alarms \cup {"sub-logger done"}
        BY <1>2 DEF Done
      <3> QED
        BY <3>1 DEF CarefulInv, BaseInv, NoFalseAlarm
    <2>6. l \in live /\ ~Finished(l) /\ stack[p] = <<>> /\ stack' = [stack EXCEPT ![p] = new]
      BY <2>4, CarefulCall
    <2>7. new \in Seq(Task) /\ Pieces(new) = {t} /\ DOMAIN new = {1}
      BY <2>2, <2>3, SeqTyped, ShortPieces, OneLong
    <2> QED
      BY <1>1, <2>2, <2>4, <2>5, <2>6, <2>7, CallUse
  <1>3. ASSUME ~info[l].nonSpan PROVE CarefulInv'
    <2>1. PICK t : t = T("done", l, TRUE)
      OBVIOUS
    <2>2. t \in Task /\ t.op = "done" /\ t.lg = l /\ IsPiece(t)
      <3>1. T("done", l, TRUE) \in Task
        BY TaskTyped DEF Ops
      <3>2. IsPiece(T("done", l, TRUE))
        BY PieceTasks DEF DoneOps, FirstOps
      <3>3. T("done", l, TRUE).op = "done" /\ T("done", l, TRUE).lg = l
        BY DEF T
      <3> QED
        BY <2>1, <3>1, <3>2, <3>3
    <2>3. PICK new : new = <<t>>
      OBVIOUS
    <2>4. Call(p, "done", l, new) /\ asked' = asked \cup {SpanOf(l)} /\ alarms' = alarms
      BY <1>3, <2>1, <2>3 DEF Done
    <2>6. l \in live /\ ~Finished(l) /\ stack[p] = <<>> /\ stack' = [stack EXCEPT ![p] = new]
      BY <2>4, CarefulCall
    <2>7. new \in Seq(Task) /\ Pieces(new) = {t} /\ DOMAIN new = {1}
      BY <2>2, <2>3, SeqTyped, ShortPieces, OneLong
    <2>8. IsSpan(l) /\ SpanOf(l) = l
      <3>1. l \in Made
        BY <2>6, CallFacts
      <3> QED
        BY <1>3, <3>1 DEF CarefulInv, TreeInv, IsSpan
    <2>9. asked' = asked \cup {l} /\ UNCHANGED <<spawned, tree, spans, shared, base, live, alarms>>
      BY <1>1, <2>4, <2>8
    <2> QED
      BY <1>1, <2>2, <2>6, <2>7, <2>8, <2>9, CallDone
  <1> QED
    BY <1>2, <1>3

(* What stays of the loggers there were when n is made, with what r says.  *)
Grown(n, r) ==
    /\ Made' = Made \cup {n} /\ n \notin Made
    /\ \A k \in Made : /\ SpanOf(k)' = SpanOf(k) /\ Parent(k)' = Parent(k) /\ Cover(k)' = Cover(k)
                       /\ SpanOf(k) \in Made /\ Parent(k) \in Made
                       /\ SpanOf(SpanOf(k))' = SpanOf(SpanOf(k))
                       /\ SpanOf(Parent(k))' = SpanOf(Parent(k))
                       /\ (IsSpan(k)' <=> IsSpan(k)) /\ (Root(k)' <=> Root(k))
                       /\ (Finished(k)' <=> Finished(k))
                       /\ (Finished(Parent(k))' <=> Finished(Parent(k)))
                       /\ info'[k].detached = info[k].detached
                       /\ k <= made /\ k < n
    /\ SpanOf(n)' = r.span /\ Parent(n)' = r.parent /\ Cover(n)' = r.cover
    /\ (IsSpan(n)' <=> r.span = n) /\ (Root(n)' <=> r.detached)
    /\ (Finished(n)' <=> r.cover \cap asked # {})
    /\ n # Request /\ info'[n].detached = r.detached
    /\ \A k : Counted(k)' <=> Counted(k)

(* A new logger leaves those that there are as they are. *)
LEMMA GrowFrame ==
  ASSUME TypeOK, TreeInv, NEW n, n = made + 1, n \in Loggers, made' = n,
         NEW r \in Info, info' = [info EXCEPT ![n] = r], UNCHANGED <<doneCount, asked>>
  PROVE  Grown(n, r)
  <1>m. made \in Nat
    BY LifecycleAssumption DEF LifecycleAssumption, TypeOK
  <1>1. Made' = Made \cup {n} /\ n \notin Made /\ n # Request /\ \A k \in Made : k <= made /\ k < n
    <2>1. 0 .. (made + 1) = (0 .. made) \cup {made + 1} /\ made + 1 \notin 0 .. made /\ made + 1 # 0
      BY <1>m
    <2> QED
      BY <1>m, <2>1 DEF Made, Request
  <1>2. info'[n] = r /\ \A k \in Made : info'[k] = info[k]
    <2>1. info \in [Loggers -> Info]
      BY DEF TypeOK
    <2>2. \A k \in Made : k \in Loggers /\ k # n
      BY <1>1, FinishedDown
    <2> QED
      BY <2>1, <2>2
  <1>3. \A k \in Made : SpanOf(k) \in Made /\ Parent(k) \in Made
    BY DEF TreeInv
  <1>4. ASSUME NEW k \in Made
        PROVE  /\ SpanOf(k)' = SpanOf(k) /\ Parent(k)' = Parent(k) /\ Cover(k)' = Cover(k)
               /\ (IsSpan(k)' <=> IsSpan(k)) /\ (Root(k)' <=> Root(k))
               /\ (Finished(k)' <=> Finished(k))
               /\ info'[k].detached = info[k].detached
    <2>1. info'[k] = info[k] /\ asked' = asked
      BY <1>2
    <2> QED
      BY <2>1 DEF SpanOf, Parent, Cover, IsSpan, Root, Finished
  <1>5. ASSUME NEW k \in Made
        PROVE  /\ SpanOf(SpanOf(k))' = SpanOf(SpanOf(k)) /\ SpanOf(Parent(k))' = SpanOf(Parent(k))
               /\ (Finished(Parent(k))' <=> Finished(Parent(k)))
    <2>1. SpanOf(k)' = SpanOf(k) /\ Parent(k)' = Parent(k)
      BY <1>4
    <2>2. PICK s \in Made : s = SpanOf(k)
      BY <1>3
    <2>3. PICK m \in Made : m = Parent(k)
      BY <1>3
    <2>4. SpanOf(SpanOf(k))' = SpanOf(s)'
      BY <2>1, <2>2 DEF SpanOf
    <2>5. SpanOf(Parent(k))' = SpanOf(m)' /\ (Finished(Parent(k))' <=> Finished(m)')
      BY <2>1, <2>3 DEF SpanOf, Finished
    <2> QED
      BY <1>4, <2>2, <2>3, <2>4, <2>5
  <1>6. /\ SpanOf(n)' = r.span /\ Parent(n)' = r.parent /\ Cover(n)' = r.cover
        /\ (IsSpan(n)' <=> r.span = n) /\ (Root(n)' <=> r.detached)
        /\ (Finished(n)' <=> r.cover \cap asked # {})
        /\ info'[n].detached = r.detached
    BY <1>1, <1>2 DEF SpanOf, Parent, Cover, IsSpan, Root, Finished
  <1>7. \A k : Counted(k)' <=> Counted(k)
    BY DEF Counted
  <1> QED
    BY <1>1, <1>3, <1>4, <1>5, <1>6, <1>7 DEF Grown

(* What there is to show of a call that makes a logger. *)
Grows(p, l, n, r, a, b, new) ==
    /\ stack[p] = <<>> /\ l \in live /\ ~Finished(l) /\ n = made + 1 /\ n \in Loggers /\ made' = n
    /\ r \in Info /\ info' = [info EXCEPT ![n] = r]
    /\ a \in Task /\ b \in Task /\ b = T("return", n, FALSE) /\ a.lg = n /\ ~a.flag
    /\ a.op \in {"newChildLog", "hasActivity"} /\ a = T(a.op, n, FALSE)
    /\ new \in Seq(Task) /\ Pieces(new) = {a, b} /\ DOMAIN new = {1, 2} /\ new[1] = a /\ new[2] = b
    /\ stack' = [stack EXCEPT ![p] = new]
    /\ UNCHANGED <<spawned, doneCount, dependents, activeDetached, waiting, armed, undated, final,
                   live, asked, alarms>>
    /\ knownActive \subseteq knownActive' /\ knownActive' \subseteq knownActive \cup {n}
    /\ dirty \subseteq dirty'
    /\ r.cover \cap asked = {} /\ r.cover \ {n} \subseteq Cover(l) /\ r.span \in knownActive'
    /\ (r.span = n <=> a.op = "newChildLog") /\ (r.span = n => r.parent = l)

(* A call makes a logger: until it has been registered and returned, only  *)
(* this call knows of it.                                                  *)
LEMMA GrowStep ==
  ASSUME CarefulInv, TypeOK', TreeInv', NEW p \in Users, NEW l, NEW n, NEW r, NEW a, NEW b, NEW new,
         Grows(p, l, n, r, a, b, new)
  PROVE  CarefulInv'
  <1> USE DEF Grows
  <1>t. /\ TypeOK /\ TreeInv /\ RequestInv /\ SpanInv /\ TaskInv /\ MakeInv /\ ListInv
        /\ StackInv /\ CascadeInv /\ RequestDoneInv /\ BaseInv
    BY DEF CarefulInv
  <1>1. /\ p \in Procs /\ l \in Made /\ ~Over /\ spawned = 0
        /\ \A u \in Work : ~IsLast(u) /\ (IsUse(u) \/ IsDone(u)) /\ u.lg \in Made
        /\ \A w \in Flushers : Tasks(w) = {} /\ w # p
        /\ \A k \in Cover(l) : ~Counted(k) /\ ~Unlisted(k) /\ k \in Made
    BY CallFacts
  <1>2. /\ Made' = Made \cup {n} /\ n \notin Made
        /\ \A k \in Made : /\ SpanOf(k)' = SpanOf(k) /\ Parent(k)' = Parent(k) /\ Cover(k)' = Cover(k)
                           /\ SpanOf(k) \in Made /\ Parent(k) \in Made
                           /\ SpanOf(Parent(k))' = SpanOf(Parent(k))
                           /\ (IsSpan(k)' <=> IsSpan(k)) /\ (Root(k)' <=> Root(k))
                           /\ (Finished(k)' <=> Finished(k))
                           /\ (Finished(Parent(k))' <=> Finished(Parent(k)))
                           /\ info'[k].detached = info[k].detached
        /\ SpanOf(n)' = r.span /\ Parent(n)' = r.parent /\ Cover(n)' = r.cover
        /\ (IsSpan(n)' <=> r.span = n)
        /\ ~Finished(n)'
        /\ n # Request
        /\ \A k : Counted(k)' <=> Counted(k)
    <2>1. /\ n = made + 1 /\ n \in Loggers /\ made' = n /\ r \in Info /\ info' = [info EXCEPT ![n] = r]
          /\ UNCHANGED <<doneCount, asked>> /\ r.cover \cap asked = {}
      OBVIOUS
    <2>2. Grown(n, r)
      BY <1>t, <2>1, GrowFrame
    <2> QED
      BY <2>1, <2>2 DEF Grown
  <1>3. /\ Tasks(p) = {} /\ Tasks(p)' = {a, b} /\ Work' = Work \cup {a, b}
        /\ \A q \in Procs \ {p} : Tasks(q)' = Tasks(q)
        /\ \A q \in Procs : Tasks(q) \subseteq Work
    <2>1. stack[p] = <<>> /\ new \in Seq(Task) /\ Pieces(new) = {a, b} /\ stack' = [stack EXCEPT ![p] = new]
      OBVIOUS
    <2>2. /\ Tasks(p) = {} /\ Tasks(p)' = Pieces(new) /\ Work' = Work \cup Pieces(new)
          /\ \A q \in Procs \ {p} : Tasks(q)' = Tasks(q)
      BY <1>t, <1>1, <2>1, CallWork
    <2>3. \A q \in Procs : Tasks(q) \subseteq Work
      BY DEF Work
    <2> QED
      BY <2>1, <2>2, <2>3
  <1>4. b.op = "return" /\ b.lg = n /\ ~b.flag /\ b = T("return", n, FALSE)
    <2>1. b.op = "return" /\ b.lg = n /\ b.flag = FALSE
      BY DEF T
    <2> QED
      BY <2>1
  <1>5. ~IsPiece(a) /\ ~IsPiece(b) /\ ~IsLast(a) /\ ~IsLast(b)
    BY <1>4 DEF IsPiece, IsLast, DoneOps, FirstOps, LaterOps, LastOps, LockedOps
  <1>v. ~Counted(n)
    BY <1>t, <1>2 DEF SpanInv
  <1>w. /\ \A k \in Made : Unlisted(k)' <=> Unlisted(k)
        /\ \A k : T("retire", k, FALSE) \in Work => T("retire", k, FALSE) \in Work'
        /\ \A k : T("baseDone", k, TRUE) \in Work => T("baseDone", k, TRUE) \in Work'
        /\ \A k : T("return", k, FALSE) \in Work => T("return", k, FALSE) \in Work'
        /\ a.op = "newChildLog" => Unlisted(n)'
    <2>1. \A k \in Made : T("newChildLog", k, FALSE) # a /\ T("newChildLog", k, FALSE) # b
      <3> TAKE k \in Made
      <3> DEFINE x == T("newChildLog", k, FALSE)
      <3>1. x.lg = k
        BY DEF T
      <3> HIDE DEF x
      <3>2. k # n
        BY <1>2
      <3>3. x.lg # a.lg /\ x.lg # b.lg
        BY <1>4, <3>1, <3>2
      <3> QED
        BY <3>3 DEF x
    <2>2. a.op = "newChildLog" => T("newChildLog", n, FALSE) \in Work'
      <3>1. a = T(a.op, n, FALSE) /\ a \in Work'
        BY <1>3
      <3> QED
        BY <3>1, Zenon
    <2> QED
      BY <1>3, <2>1, <2>2 DEF Unlisted
  <1>6. RequestInv'
    <2>1. Request \in Made
      BY <1>t, LifecycleAssumption DEF TypeOK, Made, LifecycleAssumption, Request
    <2> QED
      BY <1>t, <1>2, <2>1 DEF RequestInv
  <1>7. SpanInv'
    <2>1. asked' \subseteq {k \in Made : IsSpan(k)}'
      <3>1. {k \in Made : IsSpan(k)} \subseteq {k \in Made : IsSpan(k)}'
        BY <1>2
      <3> QED
        BY <1>t, <3>1 DEF SpanInv
    <2>2. \A k \in Loggers : Counted(k)' => k \in Made' /\ IsSpan(k)' /\ Finished(k)' /\ k \notin knownActive'
      BY <1>t, <1>2 DEF SpanInv
    <2>3. \A k \in Made' : ~Finished(k)' => SpanOf(k)' \in knownActive'
      BY <1>t, <1>2 DEF SpanInv
    <2> QED
      BY <1>t, <2>1, <2>2, <2>3 DEF SpanInv
  <1>8. TaskInv'
    <2>1. ASSUME NEW u \in Work PROVE IsUse(u)' \/ IsDone(u)'
      <3>1. u.lg \in Made /\ u.lg # n
        BY <1>1, <1>2
      <3>2. IsUse(u) => IsUse(u)'
        BY <1>2, <3>1 DEF IsUse
      <3>3. IsDone(u) => IsDone(u)'
        BY <1>2, <3>1 DEF IsDone, IsPiece
      <3> QED
        BY <1>1, <3>2, <3>3
    <2>2. IsUse(a)' /\ IsUse(b)'
      BY <1>2, <1>4 DEF IsUse, UseOps
    <2>3. \A u \in Work' : IsUse(u)' \/ IsDone(u)'
      BY <1>3, <2>1, <2>2
    <2>4. \A u \in Work' : ~IsLast(u)'
      <3>1. \A u \in Work' : ~IsLast(u)
        BY <1>1, <1>3, <1>5
      <3> QED
        BY <3>1 DEF IsLast
    <2>5. \A w \in Flushers : Tasks(w)' = {}
      BY <1>1, <1>3 DEF Procs
    <2>6. spawned' = 0
      BY <1>1
    <2>7. ~(spawned' > 0)
      BY <2>6
    <2> QED
      BY <2>3, <2>4, <2>5, <2>7 DEF TaskInv
  <1>9. MakeInv'
    <2>1. \A k \in Made' : k \in live' \/ T("return", k, FALSE) \in Work'
      BY <1>t, <1>2, <1>3, <1>4, <1>w DEF MakeInv
    <2>2. live' \subseteq Made' /\ \A k \in live' : \A j \in Cover(k)' : ~Unlisted(j)'
      <3>1. \A k \in live : k \in Made /\ \A j \in Cover(k) : j \in Made /\ ~Unlisted(j)
        BY <1>t DEF MakeInv, TreeInv
      <3> QED
        BY <1>2, <1>w, <3>1
    <2>3. ASSUME NEW q \in Procs \ {p}, NEW u \in Tasks(q)'
          PROVE  /\ u.op \in {"newChildLog", "return"} => ~u.flag
                 /\ u.op = "newChildLog" => /\ IsSpan(u.lg)' /\ u.lg # Request /\ ~Counted(u.lg)'
                                            /\ Parent(u.lg)' \in live'
                                            /\ T("return", u.lg, FALSE) \in Tasks(q)'
                 /\ u.op = "return" => /\ \A k \in Cover(u.lg)' \ {u.lg} : ~Unlisted(k)'
                                       /\ IsSpan(u.lg)' => ~Finished(Parent(u.lg))'
      <3>1. u \in Tasks(q) /\ u \in Work /\ u.lg \in Made
        BY <1>1, <1>3
      <3>2. /\ u.op \in {"newChildLog", "return"} => ~u.flag
            /\ u.op = "newChildLog" => /\ IsSpan(u.lg) /\ u.lg # Request /\ ~Counted(u.lg)
                                       /\ Parent(u.lg) \in live
                                       /\ T("return", u.lg, FALSE) \in Tasks(q)
            /\ u.op = "return" => /\ \A k \in Cover(u.lg) \ {u.lg} : ~Unlisted(k)
                                  /\ IsSpan(u.lg) => ~Finished(Parent(u.lg))
        BY <1>t, <3>1 DEF MakeInv
      <3>3. \A k \in Cover(u.lg) : k \in Made
        BY <1>t, <3>1 DEF TreeInv
      <3>4. T("return", u.lg, FALSE) \in Tasks(q) => T("return", u.lg, FALSE) \in Tasks(q)'
        BY <1>3
      <3>5. \A k \in Cover(u.lg)' \ {u.lg} : k \in Cover(u.lg) \ {u.lg} /\ (Unlisted(k)' <=> Unlisted(k))
        BY <1>2, <1>w, <3>1, <3>3
      <3>6. /\ (IsSpan(u.lg)' <=> IsSpan(u.lg)) /\ Parent(u.lg)' = Parent(u.lg)
            /\ (Counted(u.lg)' <=> Counted(u.lg))
            /\ (Finished(Parent(u.lg))' <=> Finished(Parent(u.lg)))
        BY <1>2, <3>1
      <3>7. live \subseteq live'
        OBVIOUS
      <3>8. u.op = "newChildLog" => /\ IsSpan(u.lg)' /\ u.lg # Request /\ ~Counted(u.lg)'
                                    /\ Parent(u.lg)' \in live'
                                    /\ T("return", u.lg, FALSE) \in Tasks(q)'
        BY <3>2, <3>4, <3>6, <3>7
      <3>9. u.op = "return" => /\ \A k \in Cover(u.lg)' \ {u.lg} : ~Unlisted(k)'
                               /\ IsSpan(u.lg)' => ~Finished(Parent(u.lg))'
        BY <3>2, <3>5, <3>6
      <3> QED
        BY <3>2, <3>8, <3>9
    <2>4. a.op = "newChildLog" => /\ IsSpan(n)' /\ n # Request /\ ~Counted(n)'
                                  /\ Parent(n)' \in live' /\ T("return", n, FALSE) \in Tasks(p)'
      BY <1>2, <1>3, <1>v
    <2>5. /\ \A k \in Cover(n)' \ {n} : ~Unlisted(k)'
          /\ IsSpan(n)' => ~Finished(Parent(n))'
      <3>1. \A k \in r.cover \ {n} : ~Unlisted(k)'
        BY <1>1, <1>w
      <3>2. r.span = n => ~Finished(Parent(n))'
        <4>1. ~Finished(l)'
          BY <1>1, <1>2
        <4>2. r.span = n => Parent(n)' = l
          BY <1>2
        <4> QED
          BY <4>1, <4>2 DEF Finished
      <3> QED
        BY <1>2, <3>1, <3>2
    <2>6. ASSUME NEW u \in Tasks(p)'
          PROVE  /\ u.op \in {"newChildLog", "return"} => ~u.flag
                 /\ u.op = "newChildLog" => /\ IsSpan(u.lg)' /\ u.lg # Request /\ ~Counted(u.lg)'
                                            /\ Parent(u.lg)' \in live'
                                            /\ T("return", u.lg, FALSE) \in Tasks(p)'
                 /\ u.op = "return" => /\ \A k \in Cover(u.lg)' \ {u.lg} : ~Unlisted(k)'
                                       /\ IsSpan(u.lg)' => ~Finished(Parent(u.lg))'
      <3>1. u.lg = n /\ ~u.flag /\ (u.op = "newChildLog" => a.op = "newChildLog")
        BY <1>3, <1>4, <2>6
      <3> QED
        BY <2>4, <2>5, <3>1
    <2> QED
      BY <2>1, <2>2, <2>3, <2>6 DEF MakeInv
  <1>10. ListInv'
    <2>i. \A k \in Made : InList(k)' <=> InList(k)
      BY <1>2 DEF InList
    <2>1. \A k \in activeDetached' : k \in Made' /\ IsSpan(k)' /\ info'[k].detached
      BY <1>t, <1>2 DEF ListInv
    <2>2. \A s \in Loggers : \A k \in dependents'[s] :
            k \in Made' /\ IsSpan(k)' /\ ~Root(k)' /\ SpanOf(Parent(k))' = s
      BY <1>t, <1>2 DEF ListInv
    <2>3. ASSUME NEW k \in Made' \ {Request}, IsSpan(k)'
          PROVE  /\ ~Counted(k)' => InList(k)' \/ Unlisted(k)'
                 /\ Counted(k)' /\ InList(k)' => T("retire", k, FALSE) \in Work'
                 /\ Counted(k)' /\ ~InList(k)' => \A u \in Work' : IsPiece(u)' => k \notin Cover(u.lg)'
      <3>1. CASE k = n
        BY <1>2, <1>v, <1>w, <2>3, <3>1
      <3>2. CASE k \in Made
        <4>1. IsSpan(k) /\ k \in Made \ {Request}
          BY <1>2, <2>3, <3>2
        <4>2. ASSUME Counted(k)', ~InList(k)', NEW u \in Work', IsPiece(u)' PROVE k \notin Cover(u.lg)'
          <5>1. Counted(k) /\ ~InList(k) /\ IsPiece(u)
            BY <1>2, <2>i, <3>2, <4>2 DEF IsPiece
          <5>2. u \in Work /\ u.lg \in Made
            BY <1>1, <1>3, <1>5, <5>1
          <5>3. \A v \in Work : IsPiece(v) => k \notin Cover(v.lg)
            BY <1>t, <4>1, <5>1 DEF ListInv
          <5> QED
            BY <1>2, <5>1, <5>2, <5>3
        <4> QED
          BY <1>t, <1>2, <1>w, <2>i, <4>1, <4>2 DEF ListInv
      <3> QED
        BY <1>2, <3>1, <3>2
    <2> QED
      BY <2>1, <2>2, <2>3 DEF ListInv
  <1>11. StackInv'
    <2>1. ASSUME NEW t \in Work, NEW u \in Work
          PROVE  (Nested(t, u) => Nested(t, u)') /\ (Parted(t, u) => Parted(t, u)')
      <3>1. Cover(t.lg)' = Cover(t.lg) /\ Cover(u.lg)' = Cover(u.lg)
        BY <1>1, <1>2
      <3> QED
        BY <3>1 DEF Nested, Parted, IsPiece
    <2>2. \A i, j \in DOMAIN new : i < j => Nested(new[i], new[j])'
      <3>1. Nested(a, b)'
        BY <1>4, <1>5 DEF Nested, IsPiece
      <3>2. \A i, j \in {1, 2} : i < j => i = 1 /\ j = 2
        OBVIOUS
      <3> QED
        BY <3>1, <3>2
    <2>3. ASSUME NEW t \in Pieces(new), NEW q \in Procs \ {p}, NEW u \in Tasks(q)
          PROVE  Parted(t, u)' /\ Parted(u, t)'
      <3>1. u.lg # n /\ t.lg = n /\ ~IsPiece(t)
        <4>1. u \in Work
          BY <1>3
        <4>2. u.lg # n
          BY <1>1, <1>2, <4>1
        <4>3. t = a \/ t = b
          OBVIOUS
        <4> QED
          BY <1>4, <1>5, <4>2, <4>3
      <3> QED
        BY <3>1 DEF Parted, IsPiece
    <2> QED
      BY <1>t, <1>1, <2>1, <2>2, <2>3, CallStackInv
  <1>12. CascadeInv'
    <2> SUFFICES ASSUME NEW d \in Made', IsSpan(d)', ~Counted(d)',
                        NEW k \in Cover(d)', k \in asked' \/ Counted(k)'
                 PROVE  \E u \in Work' : Cascading(u)' /\ u.lg \in Cover(d)' /\ k \in Cover(u.lg)'
      BY DEF CascadeInv
    <2>1. d # n
      <3> SUFFICES ASSUME d = n PROVE FALSE
        OBVIOUS
      <3>1. k \in r.cover /\ k \notin asked
        BY <1>2
      <3>2. ~Counted(k)
        BY <1>1, <1>v, <3>1
      <3> QED
        BY <1>2, <3>1, <3>2
    <2>2. d \in Made /\ IsSpan(d) /\ ~Counted(d) /\ k \in Cover(d) /\ (k \in asked \/ Counted(k))
      BY <1>2, <2>1
    <2>3. PICK u \in Work : Cascading(u) /\ u.lg \in Cover(d) /\ k \in Cover(u.lg)
      BY <1>t, <2>2 DEF CascadeInv
    <2>4. u \in Work' /\ u.lg \in Cover(d)' /\ k \in Cover(u.lg)'
      BY <1>1, <1>2, <1>3, <2>2, <2>3
    <2>5. Cascading(u)'
      BY <2>3 DEF Cascading, IsPiece
    <2> QED
      BY <2>4, <2>5
  <1>13. RequestDoneInv'
    <2>1. Counted(Request) => waiting \/ T("retire", Request, FALSE) \in Work
      BY <1>t, <1>1 DEF RequestDoneInv
    <2>2. waiting' <=> waiting
      OBVIOUS
    <2>3. Counted(Request)' => waiting' \/ T("retire", Request, FALSE) \in Work'
      <3>1. Counted(Request)' <=> Counted(Request)
        BY <1>2
      <3>2. T("retire", Request, FALSE) \in Work => T("retire", Request, FALSE) \in Work'
        BY <1>w
      <3> QED
        BY <2>1, <2>2, <3>1, <3>2, Zenon
    <2>4. waiting' => \A u \in Work' : IsPiece(u)' => Request \notin Cover(u.lg)'
      <3>1. waiting => \A u \in Work : IsPiece(u) => Request \notin Cover(u.lg)
        BY <1>t DEF RequestDoneInv
      <3>2. \A u \in Work' : IsPiece(u)' => u \in Work /\ IsPiece(u) /\ Cover(u.lg)' = Cover(u.lg)
        <4>1. \A u : IsPiece(u)' <=> IsPiece(u)
          BY DEF IsPiece
        <4> QED
          BY <1>1, <1>2, <1>3, <1>5, <4>1
      <3> QED
        BY <2>2, <3>1, <3>2
    <2>5. waiting' => Counted(Request)' /\ dependents'[Request] = {} /\ activeDetached' # {}
      BY <1>t, <1>2, <2>2 DEF RequestDoneInv
    <2> QED
      BY <2>3, <2>4, <2>5 DEF RequestDoneInv
  <1>14. BaseInv'
    <2>1. final' \subseteq {k \in Made : Finished(k)}'
      <3>1. {k \in Made : Finished(k)} \subseteq {k \in Made : Finished(k)}'
        BY <1>2
      <3> QED
        BY <1>t, <3>1 DEF BaseInv
    <2>2. undated' \subseteq dirty' /\ NoFalseAlarm'
      BY <1>t DEF BaseInv, NoFalseAlarm
    <2>3. \A k \in undated' : /\ k \in Made' /\ IsSpan(k)'
                              /\ Counted(k)' => T("baseDone", k, TRUE) \in Work'
      BY <1>t, <1>2, <1>w DEF BaseInv
    <2> QED
      BY <2>1, <2>2, <2>3 DEF BaseInv
  <1> QED
    BY <1>6, <1>7, <1>8, <1>9, <1>10, <1>11, <1>12, <1>13, <1>14 DEF CarefulInv

(* The place of a logger in the tree. *)
TreeAt(l) ==
    /\ SpanOf(l) \in Made /\ Parent(l) \in Made
    /\ SpanOf(SpanOf(l)) = SpanOf(l)
    /\ Parent(SpanOf(l)) = Parent(l)
    /\ Cover(SpanOf(l)) = Cover(l)
    /\ SpanOf(l) \in Cover(l)
    /\ info[l].nonSpan <=> ~IsSpan(l)
    /\ \A k \in Cover(l) : /\ k \in Made /\ IsSpan(k) /\ k <= SpanOf(l)
                           /\ Cover(k) \subseteq Cover(l)
    /\ IsSpan(l) /\ Root(l) => Cover(l) = {l}
    /\ IsSpan(l) /\ ~Root(l) => /\ Cover(l) = Cover(Parent(l)) \cup {l}
                                /\ SpanOf(Parent(l)) < l
    /\ \E r \in Cover(l) : Root(r)
    /\ \A s \in Cover(l) : s # SpanOf(l) =>
          \E k \in Cover(l) : ~Root(k) /\ SpanOf(Parent(k)) = s

(* The tree is right where it was, and has to be looked at only where it   *)
(* grows.                                                                  *)
LEMMA GrowTree ==
  ASSUME TypeOK, TreeInv, NEW n, n = made + 1, n \in Loggers, made' = n,
         NEW r \in Info, info' = [info EXCEPT ![n] = r], UNCHANGED <<doneCount, asked>>,
         TreeAt(n)'
  PROVE  TreeInv'
  <1>1. /\ Made' = Made \cup {n} /\ n \notin Made
        /\ \A k \in Made : /\ SpanOf(k)' = SpanOf(k) /\ Parent(k)' = Parent(k) /\ Cover(k)' = Cover(k)
                           /\ SpanOf(k) \in Made /\ Parent(k) \in Made
                           /\ SpanOf(SpanOf(k))' = SpanOf(SpanOf(k))
                           /\ SpanOf(Parent(k))' = SpanOf(Parent(k))
                           /\ (IsSpan(k)' <=> IsSpan(k)) /\ (Root(k)' <=> Root(k))
    BY GrowFrame DEF Grown
  <1>2. ASSUME NEW l \in Made PROVE TreeAt(l)'
    <2>a. TreeAt(l)
      BY DEF TreeInv, TreeAt
    <2>1. PICK s \in Made : s = SpanOf(l)
      BY <1>1
    <2>2. PICK m \in Made : m = Parent(l)
      BY <1>1
    <2>3. SpanOf(l)' = s /\ Parent(l)' = m /\ Cover(l)' = Cover(l)
      BY <1>1, <2>1, <2>2
    <2>4. /\ Parent(SpanOf(l))' = Parent(s)' /\ Cover(SpanOf(l))' = Cover(s)'
          /\ Cover(Parent(l))' = Cover(m)' /\ SpanOf(Parent(l))' = SpanOf(m)'
      BY <2>3 DEF SpanOf, Parent, Cover
    <2>5. /\ SpanOf(SpanOf(l))' = SpanOf(l)' /\ Parent(SpanOf(l))' = Parent(l)'
          /\ Cover(SpanOf(l))' = Cover(l)' /\ Cover(Parent(l))' = Cover(Parent(l))
      BY <1>1, <2>1, <2>2, <2>3, <2>4, <2>a DEF TreeAt
    <2>6. info'[l].nonSpan <=> ~IsSpan(l)'
      <3>1. info'[l] = info[l]
        <4>1. l # n /\ l \in Loggers /\ info \in [Loggers -> Info]
          BY <1>1, FinishedDown DEF TypeOK
        <4> QED
          BY <4>1
      <3> QED
        BY <1>1, <3>1, <2>a DEF TreeAt
    <2>7. \A k \in Cover(l)' : /\ k \in Made' /\ IsSpan(k)' /\ k <= SpanOf(l)'
                               /\ Cover(k)' \subseteq Cover(l)'
      BY <1>1, <2>a DEF TreeAt
    <2>8. /\ IsSpan(l)' /\ Root(l)' => Cover(l)' = {l}
          /\ IsSpan(l)' /\ ~Root(l)' => /\ Cover(l)' = Cover(Parent(l))' \cup {l}
                                        /\ SpanOf(Parent(l))' < l
      BY <1>1, <2>5, <2>a DEF TreeAt
    <2>9. /\ \E k \in Cover(l)' : Root(k)'
          /\ \A i \in Cover(l)' : i # SpanOf(l)' =>
                \E k \in Cover(l)' : ~Root(k)' /\ SpanOf(Parent(k))' = i
      <3>1. \A k \in Cover(l) : (Root(k)' <=> Root(k)) /\ SpanOf(Parent(k))' = SpanOf(Parent(k))
        BY <1>1, <2>a DEF TreeAt
      <3> QED
        BY <1>1, <3>1, <2>a DEF TreeAt
    <2>10. SpanOf(l)' \in Made' /\ Parent(l)' \in Made' /\ SpanOf(l)' \in Cover(l)'
      BY <1>1, <2>a DEF TreeAt
    <2> QED
      BY <2>5, <2>6, <2>7, <2>8, <2>9, <2>10 DEF TreeAt
  <1>3. \A l \in Made' : TreeAt(l)'
    BY <1>1, <1>2
  <1> QED
    BY <1>3 DEF TreeInv, TreeAt

(* A new span hangs below the span of the logger that it was forked from,  *)
(* or is the top of a tree of its own.                                     *)
LEMMA ForkTree ==
  ASSUME TypeOK, TreeInv, NEW l \in Made, NEW n, n = made + 1, n \in Loggers, made' = n,
         NEW r \in Info, info' = [info EXCEPT ![n] = r], UNCHANGED <<doneCount, asked>>,
         r.parent = l, r.span = n, ~r.nonSpan,
         r.cover = IF r.detached THEN {n} ELSE Cover(l) \cup {n}
  PROVE  TreeInv'
  <1>1. /\ Made' = Made \cup {n} /\ n \notin Made
        /\ \A k \in Made : /\ SpanOf(k)' = SpanOf(k) /\ Parent(k)' = Parent(k) /\ Cover(k)' = Cover(k)
                           /\ SpanOf(k) \in Made /\ Parent(k) \in Made
                           /\ SpanOf(Parent(k))' = SpanOf(Parent(k))
                           /\ (IsSpan(k)' <=> IsSpan(k)) /\ (Root(k)' <=> Root(k))
                           /\ k <= made /\ k < n
        /\ SpanOf(n)' = n /\ Parent(n)' = l /\ Cover(n)' = r.cover
        /\ IsSpan(n)' /\ (Root(n)' <=> r.detached)
    BY GrowFrame DEF Grown
  <1>2. info'[n] = r
    BY DEF TypeOK
  <1>n. n \in Nat /\ made \in Nat
    BY LifecycleAssumption DEF LifecycleAssumption, TypeOK
  <1>3. /\ SpanOf(SpanOf(n))' = n /\ Parent(SpanOf(n))' = l /\ Cover(SpanOf(n))' = r.cover
        /\ SpanOf(Parent(n))' = SpanOf(l) /\ Cover(Parent(n))' = Cover(l)
    <2>1. /\ SpanOf(SpanOf(n))' = SpanOf(n)' /\ Parent(SpanOf(n))' = Parent(n)'
          /\ Cover(SpanOf(n))' = Cover(n)'
          /\ SpanOf(Parent(n))' = SpanOf(l)' /\ Cover(Parent(n))' = Cover(l)'
      BY <1>1 DEF SpanOf, Parent, Cover
    <2> QED
      BY <1>1, <2>1
  <1>c. /\ \A k \in Cover(l) : /\ k \in Made /\ IsSpan(k) /\ k <= SpanOf(l)
                               /\ Cover(k) \subseteq Cover(l)
        /\ \E k \in Cover(l) : Root(k)
        /\ \A s \in Cover(l) : s # SpanOf(l) =>
              \E k \in Cover(l) : ~Root(k) /\ SpanOf(Parent(k)) = s
        /\ SpanOf(l) < n
    BY <1>1 DEF TreeInv
  <1>4. \A k \in Cover(n)' : /\ k \in Made' /\ IsSpan(k)' /\ k <= SpanOf(n)'
                             /\ Cover(k)' \subseteq Cover(n)'
    <2> SUFFICES ASSUME NEW k \in r.cover
                 PROVE  k \in Made' /\ IsSpan(k)' /\ k <= n /\ Cover(k)' \subseteq r.cover
      BY <1>1
    <2>1. CASE k = n
      BY <1>1, <1>n, <2>1
    <2>2. CASE k # n
      <3>1. k \in Cover(l) /\ k \in Made /\ ~r.detached /\ Cover(l) \subseteq r.cover
        BY <1>c, <2>2
      <3>2. k < n /\ k \in Nat
        BY <1>1, <1>n, <3>1 DEF Made
      <3> QED
        BY <1>1, <1>c, <1>n, <3>1, <3>2
    <2> QED
      BY <2>1, <2>2
  <1>5. \E k \in Cover(n)' : Root(k)'
    <2>1. CASE r.detached
      BY <1>1, <2>1
    <2>2. CASE ~r.detached
      BY <1>1, <1>c, <2>2
    <2> QED
      BY <2>1, <2>2
  <1>6. ASSUME NEW s \in r.cover, s # n
        PROVE  \E k \in r.cover : ~Root(k)' /\ SpanOf(Parent(k))' = s
    <2>1. s \in Cover(l) /\ ~r.detached /\ r.cover = Cover(l) \cup {n}
      BY <1>6
    <2>2. CASE s = SpanOf(l)
      BY <1>1, <1>3, <2>1, <2>2
    <2>3. CASE s # SpanOf(l)
      <3>1. PICK k \in Cover(l) : ~Root(k) /\ SpanOf(Parent(k)) = s
        BY <1>c, <2>1, <2>3
      <3>2. k \in Made
        BY <1>c
      <3> QED
        BY <1>1, <2>1, <3>1, <3>2
    <2> QED
      BY <2>2, <2>3
  <1>7. TreeAt(n)'
    <2>1. /\ SpanOf(n)' \in Made' /\ Parent(n)' \in Made'
          /\ SpanOf(SpanOf(n))' = SpanOf(n)'
          /\ Parent(SpanOf(n))' = Parent(n)'
          /\ Cover(SpanOf(n))' = Cover(n)'
          /\ SpanOf(n)' \in Cover(n)'
          /\ info'[n].nonSpan <=> ~IsSpan(n)'
      BY <1>1, <1>2, <1>3
    <2>2. /\ IsSpan(n)' /\ Root(n)' => Cover(n)' = {n}
          /\ IsSpan(n)' /\ ~Root(n)' => /\ Cover(n)' = Cover(Parent(n))' \cup {n}
                                        /\ SpanOf(Parent(n))' < n
      BY <1>1, <1>3, <1>c
    <2>3. \A s \in Cover(n)' : s # SpanOf(n)' =>
             \E k \in Cover(n)' : ~Root(k)' /\ SpanOf(Parent(k))' = s
      BY <1>1, <1>6
    <2> QED
      BY <1>4, <1>5, <2>1, <2>2, <2>3 DEF TreeAt
  <1> QED
    BY <1>7, GrowTree

(* A sub-logger shares the place of the logger it was made from. *)
LEMMA SubTree ==
  ASSUME TypeOK, TreeInv, NEW l \in Made, NEW n, n = made + 1, n \in Loggers, made' = n,
         NEW r \in Info, info' = [info EXCEPT ![n] = r], UNCHANGED <<doneCount, asked>>,
         r.parent = Parent(l), r.span = SpanOf(l), r.nonSpan, r.cover = Cover(l)
  PROVE  TreeInv'
  <1>1. /\ Made' = Made \cup {n} /\ n \notin Made
        /\ \A k \in Made : /\ SpanOf(k)' = SpanOf(k) /\ Parent(k)' = Parent(k) /\ Cover(k)' = Cover(k)
                           /\ SpanOf(k) \in Made /\ Parent(k) \in Made
                           /\ SpanOf(Parent(k))' = SpanOf(Parent(k))
                           /\ (IsSpan(k)' <=> IsSpan(k)) /\ (Root(k)' <=> Root(k))
        /\ SpanOf(n)' = SpanOf(l) /\ Parent(n)' = Parent(l) /\ Cover(n)' = Cover(l)
        /\ (IsSpan(n)' <=> SpanOf(l) = n)
    <2>1. Grown(n, r)
      BY GrowFrame
    <2>2. r.span = SpanOf(l) /\ r.parent = Parent(l) /\ r.cover = Cover(l)
      OBVIOUS
    <2> QED
      BY <2>1, <2>2 DEF Grown
  <1>2. info'[n] = r
    BY DEF TypeOK
  <1>a. TreeAt(l)
    BY DEF TreeInv, TreeAt
  <1>s. PICK s \in Made : s = SpanOf(l)
    BY <1>1
  <1>3. /\ SpanOf(SpanOf(n))' = s /\ Parent(SpanOf(n))' = Parent(l) /\ Cover(SpanOf(n))' = Cover(l)
        /\ ~IsSpan(n)'
    <2>1. SpanOf(n)' = s
      BY <1>1, <1>s
    <2>2. /\ SpanOf(SpanOf(n))' = SpanOf(s)' /\ Parent(SpanOf(n))' = Parent(s)'
          /\ Cover(SpanOf(n))' = Cover(s)'
      BY <2>1 DEF SpanOf, Parent, Cover
    <2>3. s # n
      BY <1>1
    <2> QED
      BY <1>1, <1>s, <1>a, <2>2, <2>3 DEF TreeAt
  <1>4. \A k \in Cover(n)' : /\ k \in Made' /\ IsSpan(k)' /\ k <= SpanOf(n)'
                             /\ Cover(k)' \subseteq Cover(n)'
    BY <1>1, <1>a DEF TreeAt
  <1>5. /\ \E k \in Cover(n)' : Root(k)'
        /\ \A i \in Cover(n)' : i # SpanOf(n)' =>
              \E k \in Cover(n)' : ~Root(k)' /\ SpanOf(Parent(k))' = i
    <2>1. \A k \in Cover(l) : (Root(k)' <=> Root(k)) /\ SpanOf(Parent(k))' = SpanOf(Parent(k))
      BY <1>1, <1>a DEF TreeAt
    <2> QED
      BY <1>1, <2>1, <1>a DEF TreeAt
  <1>6. TreeAt(n)'
    <2>1. /\ SpanOf(n)' \in Made' /\ Parent(n)' \in Made'
          /\ SpanOf(SpanOf(n))' = SpanOf(n)'
          /\ Parent(SpanOf(n))' = Parent(n)'
          /\ Cover(SpanOf(n))' = Cover(n)'
          /\ SpanOf(n)' \in Cover(n)'
          /\ info'[n].nonSpan <=> ~IsSpan(n)'
      BY <1>1, <1>2, <1>3, <1>a, <1>s DEF TreeAt
    <2> QED
      BY <1>3, <1>4, <1>5, <2>1 DEF TreeAt
  <1> QED
    BY <1>6, GrowTree

(* A sequence of two has two places. *)
LEMMA TwoLong == \A a, b : DOMAIN <<a, b>> = {1, 2} /\ <<a, b>>[1] = a /\ <<a, b>>[2] = b
  OBVIOUS

(* Sub().Fork(), Sub().Step() and Sub().Detach() before the registration. *)
LEMMA CarefulFork ==
  ASSUME Careful, CarefulInv, TypeOK', NEW p \in Users, NEW l \in Loggers, NEW detach \in BOOLEAN,
         Fork(p, l, detach)
  PROVE  CarefulInv'
  <1>t. TypeOK /\ TreeInv
    BY DEF CarefulInv
  <1>1. PICK n : n = made + 1
    OBVIOUS
  <1>2. n \in Loggers
    BY <1>t, <1>1, LifecycleAssumption DEF Fork, TypeOK, LifecycleAssumption, Loggers
  <1>3. PICK a : a = T("newChildLog", n, FALSE)
    OBVIOUS
  <1>4. PICK b : b = T("return", n, FALSE)
    OBVIOUS
  <1>5. PICK new : new = <<a, b>>
    OBVIOUS
  <1>6. PICK r : r = [parent |-> l, span |-> n, detached |-> detach, nonSpan |-> FALSE,
                      cover |-> IF detach THEN {n} ELSE info[l].cover \cup {n}]
    OBVIOUS
  <1>7. /\ Call(p, IF detach THEN "detach" ELSE "fork", l, new)
        /\ made' = n /\ info' = [info EXCEPT ![n] = r]
        /\ knownActive' = knownActive \cup {n} /\ dirty' = dirty \cup {n}
    BY <1>1, <1>3, <1>4, <1>5, <1>6 DEF Fork, Born
  <1>8. UNCHANGED <<spawned, doneCount, dependents, activeDetached, waiting, armed, undated, final,
                    live, asked, alarms>>
    BY DEF Fork, shared
  <1>9. l \in live /\ ~Finished(l) /\ stack[p] = <<>> /\ stack' = [stack EXCEPT ![p] = new]
    BY <1>7, CarefulCall
  <1>10. l \in Made /\ \A k \in Cover(l) : k \in Made /\ k \notin asked
    BY <1>9, CallFacts
  <1>11. /\ r.parent = l /\ r.span = n /\ r.detached = detach /\ ~r.nonSpan
         /\ r.cover = IF r.detached THEN {n} ELSE Cover(l) \cup {n}
    BY <1>6 DEF Cover
  <1>12. r \in Info
    <2>1. info[l].cover \subseteq Loggers
      BY <1>t DEF TypeOK, Info
    <2> QED
      BY <1>2, <1>6, <2>1 DEF Info
  <1>13. n \notin asked
    <2>1. n \notin Made
      BY <1>1, <1>2, <1>7, <1>8, <1>12, <1>t, GrowFrame DEF Grown
    <2> QED
      BY <2>1 DEF CarefulInv, SpanInv
  <1>14. TreeInv'
    BY <1>t, <1>1, <1>2, <1>7, <1>8, <1>10, <1>11, <1>12, ForkTree
  <1>15. /\ a \in Task /\ b \in Task /\ a.op = "newChildLog" /\ a.lg = n /\ ~a.flag
         /\ new \in Seq(Task) /\ Pieces(new) = {a, b} /\ DOMAIN new = {1, 2}
         /\ new[1] = a /\ new[2] = b
    <2>1. a \in Task /\ b \in Task
      BY <1>2, <1>3, <1>4, TaskTyped DEF Ops
    <2>2. a.op = "newChildLog" /\ a.lg = n /\ a.flag = FALSE
      BY <1>3 DEF T
    <2>3. new \in Seq(Task) /\ Pieces(new) = {a, b}
      BY <1>5, <2>1, SeqTyped, ShortPieces
    <2>4. DOMAIN new = {1, 2} /\ new[1] = a /\ new[2] = b
      BY <1>5, TwoLong
    <2> QED
      BY <2>1, <2>2, <2>3, <2>4
  <1>16. /\ r.cover \cap asked = {} /\ r.cover \ {n} \subseteq Cover(l)
         /\ r.span \in knownActive' /\ (r.span = n => r.parent = l)
         /\ r.span = n <=> a.op = "newChildLog"
    BY <1>7, <1>10, <1>11, <1>13, <1>15
  <1>17. /\ knownActive \subseteq knownActive' /\ knownActive' \subseteq knownActive \cup {n}
         /\ dirty \subseteq dirty' /\ made' = n /\ info' = [info EXCEPT ![n] = r]
    BY <1>7
  <1>18. a = T(a.op, n, FALSE)
    BY <1>3, <1>15
  <1>19. a.op \in {"newChildLog", "hasActivity"}
    BY <1>15
  <1>20. stack' = [stack EXCEPT ![p] = new] /\ stack[p] = <<>> /\ l \in live /\ ~Finished(l)
    BY <1>9
  <1>21. /\ stack[p] = <<>> /\ l \in live /\ ~Finished(l) /\ n = made + 1 /\ n \in Loggers /\ made' = n
         /\ r \in Info /\ info' = [info EXCEPT ![n] = r]
         /\ a \in Task /\ b \in Task /\ b = T("return", n, FALSE) /\ a.lg = n /\ ~a.flag
         /\ a.op \in {"newChildLog", "hasActivity"} /\ a = T(a.op, n, FALSE)
         /\ new \in Seq(Task) /\ Pieces(new) = {a, b} /\ DOMAIN new = {1, 2} /\ new[1] = a /\ new[2] = b
         /\ stack' = [stack EXCEPT ![p] = new] /\ TreeInv'
    BY <1>1, <1>2, <1>4, <1>12, <1>14, <1>15, <1>17, <1>18, <1>19, <1>20
  <1>22. /\ knownActive \subseteq knownActive' /\ knownActive' \subseteq knownActive \cup {n}
         /\ dirty \subseteq dirty'
         /\ r.cover \cap asked = {} /\ r.cover \ {n} \subseteq Cover(l) /\ r.span \in knownActive'
         /\ (r.span = n <=> a.op = "newChildLog") /\ (r.span = n => r.parent = l)
    BY <1>16, <1>17
  <1> QED
    BY <1>8, <1>14, <1>21, <1>22, GrowStep DEF Grows

(* Sub().Logger(). *)
LEMMA CarefulSubLogger ==
  ASSUME Careful, CarefulInv, TypeOK', NEW p \in Users, NEW l \in Loggers, SubLogger(p, l)
  PROVE  CarefulInv'
  <1>t. TypeOK /\ TreeInv
    BY DEF CarefulInv
  <1>1. PICK n : n = made + 1
    OBVIOUS
  <1>2. n \in Loggers
    BY <1>t, <1>1, LifecycleAssumption DEF SubLogger, TypeOK, LifecycleAssumption, Loggers
  <1>3. PICK a : a = T("hasActivity", n, FALSE)
    OBVIOUS
  <1>4. PICK b : b = T("return", n, FALSE)
    OBVIOUS
  <1>5. PICK new : new = <<a, b>>
    OBVIOUS
  <1>6. PICK r : r = [parent |-> Parent(l), span |-> SpanOf(l), detached |-> FALSE, nonSpan |-> TRUE,
                      cover |-> info[l].cover]
    OBVIOUS
  <1>7. /\ Call(p, "sub", l, new)
        /\ made' = n /\ info' = [info EXCEPT ![n] = r]
    BY <1>1, <1>3, <1>4, <1>5, <1>6 DEF SubLogger, Born
  <1>8. /\ UNCHANGED <<spawned, doneCount, dependents, activeDetached, waiting, armed, undated, final,
                       live, asked, alarms>>
        /\ knownActive' = knownActive /\ dirty' = dirty
    BY DEF SubLogger, spans, shared, base
  <1>9. l \in live /\ ~Finished(l) /\ stack[p] = <<>> /\ stack' = [stack EXCEPT ![p] = new]
    BY <1>7, CarefulCall
  <1>10. l \in Made /\ SpanOf(l) \in knownActive /\ \A k \in Cover(l) : k \in Made /\ k \notin asked
    BY <1>9, CallFacts
  <1>11. r.parent = Parent(l) /\ r.span = SpanOf(l) /\ r.nonSpan /\ r.cover = Cover(l)
    BY <1>6 DEF Cover
  <1>12. r \in Info
    <2>1. info[l] \in Info
      BY <1>t DEF TypeOK
    <2>2. info[l].cover \subseteq Loggers /\ Parent(l) \in Loggers /\ SpanOf(l) \in Loggers
      BY <2>1 DEF Info, Parent, SpanOf
    <2> QED
      BY <1>6, <2>2 DEF Info
  <1>13. SpanOf(l) # n
    <2>1. SpanOf(l) \in Made
      BY <1>t, <1>10 DEF TreeInv
    <2>2. made \in Nat /\ n \notin Made
      BY <1>t, <1>1, LifecycleAssumption DEF LifecycleAssumption, TypeOK, Made
    <2> QED
      BY <2>1, <2>2
  <1>14. TreeInv'
    BY <1>t, <1>1, <1>2, <1>7, <1>8, <1>10, <1>11, <1>12, SubTree
  <1>15. /\ a \in Task /\ b \in Task /\ a.op = "hasActivity" /\ a.lg = n /\ ~a.flag
         /\ new \in Seq(Task) /\ Pieces(new) = {a, b} /\ DOMAIN new = {1, 2}
         /\ new[1] = a /\ new[2] = b
    <2>1. a \in Task /\ b \in Task
      BY <1>2, <1>3, <1>4, TaskTyped DEF Ops
    <2>2. a.op = "hasActivity" /\ a.lg = n /\ a.flag = FALSE
      BY <1>3 DEF T
    <2>3. new \in Seq(Task) /\ Pieces(new) = {a, b}
      BY <1>5, <2>1, SeqTyped, ShortPieces
    <2>4. DOMAIN new = {1, 2} /\ new[1] = a /\ new[2] = b
      BY <1>5, TwoLong
    <2> QED
      BY <2>1, <2>2, <2>3, <2>4
  <1>16. /\ r.cover \cap asked = {} /\ r.cover \ {n} \subseteq Cover(l)
         /\ r.span \in knownActive' /\ (r.span = n => r.parent = l)
         /\ r.span = n <=> a.op = "newChildLog"
    BY <1>8, <1>10, <1>11, <1>13, <1>15
  <1>17. /\ knownActive \subseteq knownActive' /\ knownActive' \subseteq knownActive \cup {n}
         /\ dirty \subseteq dirty' /\ a = T(a.op, n, FALSE)
    BY <1>3, <1>8, <1>15
  <1> QED
    BY <1>1, <1>2, <1>4, <1>7, <1>8, <1>9, <1>12, <1>14, <1>15, <1>16, <1>17, GrowStep DEF Grows

(* A goroutine begins the last flush, which is due. *)
LEMMA CarefulBegin ==
  ASSUME CarefulInv, TypeOK', NEW p \in Flushers, Begin(p)
  PROVE  CarefulInv'
  <1>t. /\ TypeOK /\ TreeInv /\ RequestInv /\ SpanInv /\ TaskInv /\ MakeInv /\ ListInv
        /\ StackInv /\ CascadeInv /\ RequestDoneInv /\ BaseInv
    BY DEF CarefulInv
  <1>0. p \in Procs /\ stack[p] = <<>> /\ spawned > 0
    BY DEF Begin, Idle, Procs
  <1>o. Over
    BY <1>t, <1>0 DEF TaskInv
  <1>f. /\ activeDetached = {} /\ \A s \in Loggers : dependents[s] = {}
        /\ undated = {} /\ ~waiting
        /\ \A l \in Made : Finished(l) /\ SpanOf(l) \notin knownActive
        /\ \A t \in Work : IsLast(t) /\ ~IsPiece(t) /\ ~IsUse(t)
        /\ Request \in Loggers
    BY <1>o, OverFacts
  <1>1. PICK t : t = T("Flush", Request, FALSE)
    OBVIOUS
  <1>2. t \in Task /\ t.op = "Flush" /\ t.lg = Request /\ ~t.flag
    <2>1. T("Flush", Request, FALSE) \in Task
      BY <1>f, TaskTyped DEF Ops
    <2>2. T("Flush", Request, FALSE).op = "Flush" /\ T("Flush", Request, FALSE).lg = Request
          /\ T("Flush", Request, FALSE).flag = FALSE
      BY DEF T
    <2> QED
      BY <1>1, <2>1, <2>2
  <1>3. PICK new : new = <<t>>
    OBVIOUS
  <1>4. /\ stack' = [stack EXCEPT ![p] = new]
        /\ UNCHANGED <<tree, spans, shared, base, history>>
    BY <1>1, <1>3 DEF Begin
  <1>5. new \in Seq(Task) /\ Pieces(new) = {t} /\ DOMAIN new = {1}
    BY <1>2, <1>3, SeqTyped, ShortPieces, OneLong
  <1>6. /\ Tasks(p) = {} /\ Tasks(p)' = {t} /\ Work' = Work \cup {t}
        /\ \A q \in Procs \ {p} : Tasks(q)' = Tasks(q)
        /\ \A q \in Procs : Tasks(q) \subseteq Work
    BY <1>t, <1>0, <1>4, <1>5, CallWork DEF Work
  <1>u. /\ UNCHANGED tree /\ UNCHANGED <<tree, live>> /\ UNCHANGED <<tree, doneCount, asked>>
        /\ UNCHANGED <<tree, knownActive, doneCount, asked>>
        /\ UNCHANGED <<tree, doneCount, dependents, activeDetached>>
        /\ UNCHANGED <<tree, doneCount, asked, final, alarms>>
        /\ armed' = armed /\ dirty' = dirty /\ undated' = undated /\ waiting' = waiting
    BY <1>4 DEF spans, shared, base, history
  <1>c. \A k : (Counted(k)' <=> Counted(k)) /\ (Finished(k)' <=> Finished(k))
    BY <1>u, SpanFrame
  <1>l. /\ IsLast(t) /\ ~IsPiece(t)
        /\ \A u : IsLast(u) => u.op \notin {"newChildLog", "return", "retire", "baseDone"}
        /\ \A u : IsLast(u)' <=> IsLast(u)
    BY <1>2, Kinds DEF IsLast, LastOps, LockedOps
  <1>7. TreeInv' /\ RequestInv' /\ SpanInv'
    BY <1>t, <1>u, TreeFrame, SpanFrame
  <1>8. Over'
    <2>1. \A k \in Made' : IsSpan(k)' => Counted(k)'
      BY <1>o, <1>c, <1>u, TreeFrame DEF Over
    <2> QED
      BY <1>f, <1>l, <1>6, <2>1 DEF Over
  <1>9. TaskInv'
    <2>1. \A u \in Work' : IsLast(u)'
      BY <1>f, <1>l, <1>6
    <2>2. \A w \in Flushers : \A u \in Tasks(w)' : IsLast(u)'
      <3>1. \A w \in Flushers : w \in Procs
        BY DEF Procs
      <3> QED
        BY <1>f, <1>l, <1>6, <3>1
    <2> QED
      BY <1>8, <2>1, <2>2 DEF TaskInv
  <1>10. MakeInv'
    <2>1. \A q \in Procs : \A u : u.op \in {"newChildLog", "return"} => (u \in Tasks(q)' <=> u \in Tasks(q))
      BY <1>2, <1>6
    <2>2. \A u \in Work : u.op = "newChildLog" => ~Counted(u.lg)'
      BY <1>f, <1>l
    <2>3. \A u \in Work : u.op = "return" => (Finished(Parent(u.lg))' => Finished(Parent(u.lg)))
      BY <1>f, <1>l
    <2> QED
      BY <1>t, <1>u, <2>1, <2>2, <2>3, MakeKeep
  <1>11. ListInv'
    BY <1>t, <1>u, <1>f, <1>l, <1>6, ListFrame
  <1>12. StackInv'
    <2>1. \A a, u : IsLast(a) /\ IsLast(u) => Nested(a, u) /\ Parted(a, u)
      BY <1>l, Kinds DEF Nested, Parted
    <2>2. \A a, u : IsLast(a) /\ IsLast(u) => Nested(a, u)' /\ Parted(a, u)'
      BY <1>u, <2>1, TreeFrame
    <2>3. \A i, j \in DOMAIN new : i < j => Nested(new[i], new[j])'
      BY <1>5
    <2>4. \A a \in Pieces(new) : \A q \in Procs \ {p} : \A u \in Tasks(q) : Parted(a, u)' /\ Parted(u, a)'
      BY <1>f, <1>l, <1>5, <1>6, <2>2
    <2> QED
      BY <1>t, <1>0, <1>4, <1>5, <1>f, <2>2, <2>3, <2>4, CallStackInv
  <1>13. CascadeInv'
    <2>1. \A u \in Work : ~Cascading(u)
      BY <1>f DEF Cascading
    <2> QED
      BY <1>t, <1>u, <2>1, CascadeFrame
  <1>14. RequestDoneInv'
    <2>1. FlushDue'
      BY <1>2, <1>6 DEF FlushDue
    <2> QED
      BY <1>f, <1>u, <1>8, <2>1 DEF RequestDoneInv
  <1>15. BaseInv'
    <2>1. undated' = {}
      BY <1>f, <1>u
    <2>2. \A u \in Work : u.op # "baseDone"
      BY <1>f, <1>l
    <2> QED
      BY <1>t, <1>u, <2>1, <2>2, BaseFrame
  <1> QED
    BY <1>7, <1>9, <1>10, <1>11, <1>12, <1>13, <1>14, <1>15 DEF CarefulInv

-----------------------------------------------------------------------------
(* Nothing is going on in the beginning. *)
LEMMA CarefulInit == Careful /\ Init => CarefulInv
  <1> SUFFICES ASSUME Careful, Init PROVE CarefulInv
    OBVIOUS
  <1>t. TypeOK
    BY TypeInit
  <1>1. Work = {} /\ \A p \in Procs : Tasks(p) = {} /\ stack[p] = <<>>
    BY DEF Init, Work, Tasks
  <1>2. /\ Made = {Request} /\ Request \in Loggers /\ live = {Request} /\ asked = {}
        /\ spawned = 0 /\ ~waiting /\ undated = {} /\ final = {} /\ alarms = {}
        /\ activeDetached = {} /\ \A l \in Loggers : dependents[l] = {} /\ ~Counted(l)
        /\ Request \in knownActive /\ armed = Buffered
    <2>1. made = 0 /\ 0 .. 0 = {0}
      BY DEF Init
    <2>2. Request \in Loggers
      BY LifecycleAssumption DEF LifecycleAssumption, Loggers, Request
    <2> QED
      BY <2>1, <2>2 DEF Init, Made, Counted, Request
  <1>3. /\ SpanOf(Request) = Request /\ Parent(Request) = Request /\ Cover(Request) = {Request}
        /\ ~info[Request].detached /\ ~info[Request].nonSpan
        /\ IsSpan(Request) /\ Root(Request) /\ ~Finished(Request)
    <2>1. info[Request] = [parent |-> Request, span |-> Request, detached |-> FALSE,
                           nonSpan |-> FALSE, cover |-> {Request}]
      BY <1>2 DEF Init
    <2> QED
      BY <1>2, <2>1 DEF SpanOf, Parent, Cover, IsSpan, Root, Finished
  <1>4. TreeInv /\ RequestInv
    <2>1. Request <= Request
      BY DEF Request
    <2> QED
      BY <1>2, <1>3, <2>1 DEF TreeInv, RequestInv
  <1>5. SpanInv
    BY <1>2, <1>3 DEF SpanInv, Careful
  <1>6. TaskInv
    <2>1. ~(spawned > 0)
      BY <1>2
    <2> QED
      BY <1>1, <2>1 DEF TaskInv, Procs
  <1>7. MakeInv
    BY <1>1, <1>2, <1>3 DEF MakeInv, Unlisted
  <1>8. ListInv
    BY <1>2 DEF ListInv
  <1>9. StackInv
    BY <1>1 DEF StackInv
  <1>10. CascadeInv
    BY <1>2, <1>3 DEF CascadeInv
  <1>11. RequestDoneInv /\ BaseInv
    BY <1>2 DEF RequestDoneInv, BaseInv, NoFalseAlarm
  <1> QED
    BY <1>t, <1>4, <1>5, <1>6, <1>7, <1>8, <1>9, <1>10, <1>11 DEF CarefulInv

(* What may be on top of a stack, and as a part of what. *)
LEMMA TopKinds ==
  ASSUME CarefulInv, NEW p \in Procs, stack[p] # <<>>
  PROVE  /\ Top(p).op \notin {"addMyselfAsDependent", "restartTimer", "Reset", "wasDone"}
         /\ Top(p).op \in {"done", "doneCount", "baseDone", "retire"} => IsPiece(Top(p))
         /\ Top(p).op = "dependents" => IsPiece(Top(p)) \/ IsLast(Top(p))
         /\ Top(p).op \in {"Flush", "recursiveDone", "FlushLock"} \cup LockedOps => IsLast(Top(p))
  <1>1. Top(p) \in Work
    BY TopFacts
  <1>2. IsUse(Top(p)) \/ IsDone(Top(p)) \/ IsLast(Top(p))
    BY <1>1 DEF CarefulInv, TaskInv
  <1> QED
    BY <1>2 DEF IsUse, IsDone, IsPiece, IsLast, UseOps, DoneOps, FirstOps, LaterOps, LastOps, LockedOps

(* A step of a call in progress. *)
LEMMA CarefulStep ==
  ASSUME CarefulInv, TypeOK', NEW p \in Procs, Step(p)
  PROVE  CarefulInv'
  <1>1. CASE Error(p) \/ NotBoring(p) \/ Boring(p) \/ Msg(p) \/ HasActivity(p)
    BY <1>1, CarefulUse
  <1>2. CASE NewChildLog(p) \/ Return(p) \/ DoneStart(p) \/ DoneCount(p)
    BY <1>2, CarefulNewChildLog, CarefulReturn, CarefulDoneStart, CarefulDoneCount
  <1>3. CASE AddMyselfAsDependent(p) \/ RestartTimer(p) \/ Reset(p) \/ WasDone(p)
    <2>1. stack[p] # <<>> /\ Top(p).op \in {"addMyselfAsDependent", "restartTimer", "Reset", "wasDone"}
      BY <1>3 DEF AddMyselfAsDependent, RestartTimer, Reset, WasDone, Runs
    <2> QED
      BY <2>1, TopKinds
  <1>4. CASE BaseDone(p) \/ Retire(p)
    <2>1. stack[p] # <<>> /\ Top(p).op \in {"baseDone", "retire"}
      BY <1>4 DEF BaseDone, Retire, Runs
    <2>2. IsPiece(Top(p))
      BY <2>1, TopKinds
    <2> QED
      BY <1>4, <2>2, CarefulBaseDone, CarefulRetire
  <1>5. CASE Dependents(p)
    <2>1. stack[p] # <<>> /\ Top(p).op = "dependents"
      BY <1>5 DEF Dependents, Runs
    <2>2. IsPiece(Top(p)) \/ IsLast(Top(p))
      BY <2>1, TopKinds
    <2> QED
      BY <1>5, <2>2, CarefulDependents, CarefulWalk
  <1>6. CASE Flush(p) \/ RecursiveDone(p)
    <2>1. stack[p] # <<>> /\ Top(p).op \in {"Flush", "recursiveDone"}
      BY <1>6 DEF Flush, RecursiveDone, Runs
    <2>2. IsLast(Top(p))
      BY <2>1, TopKinds
    <2> QED
      BY <1>6, <2>2, CarefulWalk
  <1>7. CASE FlushLock(p) \/ Stop(p) \/ FlushInactive(p) \/ BaseFlush(p) \/ FlushUnlock(p)
    <2>1. stack[p] # <<>> /\ Top(p).op \in {"FlushLock"} \cup LockedOps
      BY <1>7 DEF FlushLock, Stop, FlushInactive, BaseFlush, FlushUnlock, Runs, LockedOps
    <2>2. IsLast(Top(p))
      BY <2>1, TopKinds
    <2> QED
      BY <1>7, <2>2, CarefulFlush
  <1> QED
    BY <1>1, <1>2, <1>3, <1>4, <1>5, <1>6, <1>7, Zenon DEF Step

(* A call of the program. *)
LEMMA CarefulUser ==
  ASSUME Careful, CarefulInv, TypeOK', NEW p \in Users, User(p)
  PROVE  CarefulInv'
  <1>1. PICK l \in Loggers : \/ Fork(p, l, FALSE) \/ Fork(p, l, TRUE) \/ SubLogger(p, l)
                             \/ Log(p, l) \/ Done(p, l) \/ UserFlush(p, l)
    BY DEF User
  <1>2. ~UserFlush(p, l)
    <2> SUFFICES ASSUME UserFlush(p, l) PROVE FALSE
      OBVIOUS
    <2>1. PICK new : new = <<T("Flush", Request, FALSE)>>
      OBVIOUS
    <2>2. PICK op : op = "flush"
      OBVIOUS
    <2>3. Call(p, op, l, new)
      BY <2>1, <2>2 DEF UserFlush
    <2> QED
      BY <2>2, <2>3, CarefulCall
  <1>3. CASE Fork(p, l, FALSE) \/ Fork(p, l, TRUE)
    BY <1>3, CarefulFork
  <1> QED
    BY <1>1, <1>2, <1>3, CarefulSubLogger, CarefulLog, CarefulDone

(* A step of nobody. *)
LEMMA CarefulStutter ==
  ASSUME CarefulInv, UNCHANGED vars
  PROVE  CarefulInv'
  <1>t. /\ TypeOK /\ TreeInv /\ RequestInv /\ SpanInv /\ TaskInv /\ MakeInv /\ ListInv
        /\ StackInv /\ CascadeInv /\ RequestDoneInv /\ BaseInv
    BY DEF CarefulInv
  <1>u. UNCHANGED <<control, tree, spans, shared, base, history>>
    BY DEF vars
  <1>s. UNCHANGED <<stack, spawned, made, info, knownActive, doneCount, dependents, notBoring,
                    activeDetached, waiting, flushActive, armed, flushLock,
                    dirty, held, undated, final, ops, live, asked, alarms, expiries>>
    BY <1>u DEF control, tree, spans, shared, base, history
  <1>1. TypeOK'
    BY <1>t, <1>s DEF TypeOK
  <1>2. TreeInv' /\ RequestInv' /\ SpanInv'
    BY <1>t, <1>s, <1>u, TreeFrame, SpanFrame
  <1>w. Work' = Work /\ \A p \in Procs : Tasks(p)' = Tasks(p)
    BY <1>s DEF Work, Tasks
  <1>c. /\ UNCHANGED <<tree, knownActive, doneCount, asked>>
        /\ \A l : (Finished(l)' <=> Finished(l)) /\ (Counted(l)' <=> Counted(l))
        /\ \A t : (IsUse(t)' <=> IsUse(t)) /\ (IsDone(t)' <=> IsDone(t))
        /\ \A t : (IsLast(t)' <=> IsLast(t)) /\ (IsPiece(t)' <=> IsPiece(t))
    <2>1. UNCHANGED <<tree, knownActive, doneCount, asked>>
      BY <1>s, <1>u
    <2>2. \A t : (IsLast(t)' <=> IsLast(t)) /\ (IsPiece(t)' <=> IsPiece(t))
      BY DEF IsLast, IsPiece
    <2> QED
      BY <2>1, <2>2, SpanFrame
  <1>o. (Over' <=> Over) /\ (FlushDue' <=> FlushDue)
    <2>1. Over' <=> Over
      BY <1>w, <1>c, <1>u, TreeFrame DEF Over
    <2>2. FlushDue' <=> FlushDue
      BY <1>s, <1>w DEF FlushDue
    <2> QED
      BY <2>1, <2>2
  <1>3. TaskInv'
    <2>1. \A t \in Work' : IsUse(t)' \/ IsDone(t)' \/ IsLast(t)'
      BY <1>t, <1>w, <1>c DEF TaskInv
    <2>2. \A w \in Flushers : \A t \in Tasks(w)' : IsLast(t)'
      BY <1>t, <1>w, <1>c DEF TaskInv, Procs
    <2>3. (\E t \in Work' : IsLast(t)') => Over'
      BY <1>t, <1>w, <1>c, <1>o DEF TaskInv
    <2>4. spawned' > 0 => Over'
      BY <1>t, <1>s, <1>o DEF TaskInv
    <2> QED
      BY <2>1, <2>2, <2>3, <2>4, Zenon DEF TaskInv
  <1>4. MakeInv'
    <2>1. \A u \in Work : u.op = "newChildLog" => ~Counted(u.lg)
      BY <1>t DEF MakeInv, Work
    <2>2. \A u \in Work : u.op = "newChildLog" => ~Counted(u.lg)'
      BY <1>c, <2>1
    <2>3. \A k : Finished(Parent(k))' <=> Finished(Parent(k))
      BY <1>s DEF Finished, Parent
    <2>4. UNCHANGED <<tree, live>>
      BY <1>s, <1>u
    <2> QED
      BY <1>t, <1>w, <2>2, <2>3, <2>4, MakeKeep
  <1>5. ListInv'
    <2>1. UNCHANGED <<tree, doneCount, dependents, activeDetached>>
      BY <1>s, <1>u
    <2> QED
      BY <1>t, <1>w, <2>1, ListFrame
  <1>6. StackInv'
    <2>1. \A t, u : (Nested(t, u)' <=> Nested(t, u)) /\ (Parted(t, u)' <=> Parted(t, u))
      BY <1>u, TreeFrame
    <2>2. \A p, q \in Procs : p # q => \A t \in Tasks(p)', u \in Tasks(q)' : Parted(t, u)'
      BY <1>t, <1>w, <2>1 DEF StackInv
    <2>3. \A p \in Procs : \A i, j \in DOMAIN stack'[p] : i < j => Nested(stack[p][i], stack[p][j])'
      <3>1. ASSUME NEW p \in Procs, NEW i \in DOMAIN stack[p], NEW j \in DOMAIN stack[p], i < j
            PROVE  Nested(stack[p][i], stack[p][j])'
        <4>1. PICK t : t = stack[p][i]
          OBVIOUS
        <4>2. PICK u : u = stack[p][j]
          OBVIOUS
        <4>3. Nested(t, u)
          BY <1>t, <3>1, <4>1, <4>2 DEF StackInv
        <4>4. Nested(t, u)'
          BY <2>1, <4>3
        <4>5. t = stack'[p][i] /\ u = stack'[p][j]
          BY <1>s, <4>1, <4>2
        <4> QED
          BY <4>4, <4>5
      <3> QED
        BY <1>s, <3>1
    <2> QED
      BY <2>2, <2>3 DEF StackInv
  <1>7. CascadeInv'
    <2>1. UNCHANGED <<tree, doneCount, asked>>
      BY <1>s, <1>u
    <2> QED
      BY <1>t, <1>w, <2>1, CascadeFrame
  <1>8. RequestDoneInv'
    <2>1. waiting' => /\ Counted(Request)' /\ dependents'[Request] = {} /\ activeDetached' # {}
                      /\ \A t \in Work' : IsPiece(t)' => Request \notin Cover(t.lg)'
      BY <1>t, <1>s, <1>u, <1>w, <1>c, TreeFrame DEF RequestDoneInv
    <2>2. Counted(Request)' => \/ waiting'
                               \/ T("retire", Request, FALSE) \in Work'
                               \/ Over' /\ FlushDue'
      <3>1. Counted(Request)' <=> Counted(Request)
        BY <1>c
      <3>2. waiting' <=> waiting
        BY <1>s
      <3>3. T("retire", Request, FALSE) \in Work' <=> T("retire", Request, FALSE) \in Work
        BY <1>w
      <3>4. Counted(Request) => \/ waiting
                                \/ T("retire", Request, FALSE) \in Work
                                \/ Over /\ FlushDue
        BY <1>t DEF RequestDoneInv
      <3> QED
        BY <1>o, <3>1, <3>2, <3>3, <3>4, Zenon
    <2> QED
      BY <2>1, <2>2, Zenon DEF RequestDoneInv
  <1>9. BaseInv'
    <2>1. UNCHANGED <<tree, doneCount, asked, final, alarms>> /\ undated' = undated /\ dirty' = dirty
      BY <1>s, <1>u
    <2>2. undated' \subseteq dirty'
      BY <1>t, <2>1 DEF BaseInv
    <2> QED
      BY <1>t, <1>w, <2>1, <2>2, BaseFrame
  <1> QED
    BY <1>1, <1>2, <1>3, <1>4, <1>5, <1>6, <1>7, <1>8, <1>9 DEF CarefulInv

(* Every step of the system keeps the invariant: the timer, if there is    *)
(* one, does not expire.                                                   *)
LEMMA CarefulNext == Careful /\ CarefulInv /\ [Next]_vars => CarefulInv'
  <1> SUFFICES ASSUME Careful, CarefulInv, [Next]_vars PROVE CarefulInv'
    OBVIOUS
  <1>t. TypeOK /\ SpanInv /\ TypeOK'
    BY TypeNext DEF CarefulInv
  <1>1. ASSUME NEW p \in Users, User(p) PROVE CarefulInv'
    BY <1>t, <1>1, CarefulUser
  <1>2. ASSUME NEW p \in Procs, Step(p) PROVE CarefulInv'
    BY <1>t, <1>2, CarefulStep
  <1>3. ~Expire
    <2> SUFFICES ASSUME Expire PROVE FALSE
      OBVIOUS
    <2>1. armed /\ expiries < MaxExpiries
      BY DEF Expire
    <2>2. MaxExpiries = 0 /\ expiries \in Nat
      BY <1>t, <2>1 DEF SpanInv, TypeOK
    <2> QED
      BY <2>1, <2>2
  <1>4. ASSUME NEW w \in Flushers, Begin(w) PROVE CarefulInv'
    BY <1>t, <1>4, CarefulBegin
  <1>5. CASE UNCHANGED vars
    BY <1>5, CarefulStutter
  <1> QED
    BY <1>1, <1>2, <1>3, <1>4, <1>5 DEF Next

(* The invariant of careful programs. *)
LEMMA CarefulAlways == ASSUME Careful PROVE Spec => []CarefulInv
  <1>1. Init => CarefulInv
    BY CarefulInit
  <1>2. CarefulInv /\ [Next]_vars => CarefulInv'
    BY CarefulNext
  <1> QED
    BY <1>1, <1>2, PTL DEF Spec

-----------------------------------------------------------------------------
(* When every call has returned there is nothing to come, and every logger *)
(* that was made is known to the program.                                  *)
LEMMA QuiescentFacts ==
  ASSUME CarefulInv, Quiescent
  PROVE  /\ Work = {} /\ spawned = 0 /\ Made = live
         /\ \A l \in Made : Finished(l) => Counted(SpanOf(l))
         /\ \A l \in Made \ {Request} : IsSpan(l) =>
               /\ InList(l) <=> ~Counted(l)
               /\ InList(l) <=> l \in knownActive
  <1>t. TypeOK /\ TreeInv /\ SpanInv /\ MakeInv /\ ListInv /\ CascadeInv
    BY DEF CarefulInv
  <1>1. Work = {} /\ spawned = 0
    BY DEF Quiescent, Idle, Work, Tasks
  <1>2. Made = live
    BY <1>t, <1>1 DEF MakeInv
  <1>3. ASSUME NEW l \in Made, Finished(l) PROVE Counted(SpanOf(l))
    <2>1. PICK s \in Made : s = SpanOf(l) /\ IsSpan(s) /\ Finished(s)
      BY <1>t, <1>3, FinishedDown DEF TreeInv, IsSpan
    <2>2. PICK k \in Cover(s) : k \in asked
      BY <2>1 DEF Finished, Cover
    <2> QED
      BY <1>t, <1>1, <2>1, <2>2 DEF CascadeInv
  <1>4. ASSUME NEW l \in Made \ {Request}, IsSpan(l)
        PROVE  /\ InList(l) <=> ~Counted(l)
               /\ InList(l) <=> l \in knownActive
    <2>1. InList(l) <=> ~Counted(l)
      BY <1>t, <1>1, <1>4 DEF ListInv, Unlisted
    <2>2. l \in Loggers /\ SpanOf(l) = l
      BY <1>t, <1>4, FinishedDown DEF IsSpan
    <2>3. Counted(l) => l \notin knownActive
      BY <1>t, <2>2 DEF SpanInv
    <2>4. ~Counted(l) => l \in knownActive
      <3>1. ~Counted(l) => ~Finished(l)
        BY <1>3, <2>2
      <3> QED
        BY <1>t, <2>2, <3>1 DEF SpanInv
    <2> QED
      BY <2>1, <2>3, <2>4
  <1> QED
    BY <1>1, <1>2, <1>3, <1>4

(* Done() on a logger marks all its sub-spans that are not detached        *)
(* (recursiveDone, logger.go:290), whatever other goroutines do meanwhile  *)
(* in other parts of the tree: none is missed between the copy of the      *)
(* dependents and the calls on them.                                       *)
THEOREM DoneReachesAll == ASSUME Careful PROVE Spec => []DoneCascades
  <1>1. CarefulInv => DoneCascades
    <2> SUFFICES ASSUME CarefulInv, Quiescent, NEW l \in live, Finished(l)
                 PROVE  doneCount[SpanOf(l)] # 0
      BY DEF DoneCascades
    <2> QED
      BY QuiescentFacts DEF Counted
  <1> QED
    BY <1>1, CarefulAlways, PTL

(* When all the logs of a request are done the flush is automatic          *)
(* (logger.go:303): the last of the request and its detached loggers to be *)
(* done flushes, in whatever order and in how many goroutines they are.    *)
THEOREM LastDoneFlushes == ASSUME Careful PROVE Spec => []DoneFlushes
  <1>1. CarefulInv => DoneFlushes
    <2> SUFFICES ASSUME CarefulInv, Quiescent, AllDone PROVE dirty = {}
      BY DEF DoneFlushes
    <2>t. TypeOK /\ RequestInv /\ SpanInv /\ ListInv /\ RequestDoneInv
      BY DEF CarefulInv
    <2>1. /\ Work = {} /\ spawned = 0 /\ \A l \in Made : Finished(l) /\ Counted(SpanOf(l))
          /\ \A l \in Made \ {Request} : IsSpan(l) => (InList(l) <=> ~Counted(l))
      BY QuiescentFacts DEF AllDone
    <2>2. Counted(Request)
      <3>1. Request \in Made
        BY <2>t, LifecycleAssumption DEF TypeOK, Made, LifecycleAssumption, Request
      <3> QED
        BY <2>t, <2>1, <3>1 DEF RequestInv
    <2>3. ~waiting
      <3>1. \A l \in activeDetached : /\ l \in Made \ {Request} /\ IsSpan(l) /\ InList(l)
                                      /\ SpanOf(l) = l
        BY <2>t DEF ListInv, RequestInv, InList, IsSpan
      <3>2. activeDetached = {}
        BY <2>1, <3>1
      <3> QED
        BY <2>t, <3>2 DEF RequestDoneInv
    <2>4. FlushDue
      BY <2>t, <2>1, <2>2, <2>3 DEF RequestDoneInv
    <2>5. ~(spawned > 0)
      BY <2>1
    <2> QED
      BY <2>1, <2>4, <2>5, Zenon DEF FlushDue
  <1> QED
    BY <1>1, CarefulAlways, PTL

(* A request parked in WaitingForDetached (done, logger.go:313) always has *)
(* a detached logger left to wake it.                                      *)
THEOREM WaitingIsWoken == ASSUME Careful PROVE Spec => []WaitingHasWaker
  <1>1. CarefulInv => WaitingHasWaker
    BY DEF CarefulInv, RequestDoneInv, WaitingHasWaker
  <1> QED
    BY <1>1, CarefulAlways, PTL

(* The base is told that a span is final (xopbase/base.go:186) only on     *)
(* account of a Done() on it or on an ancestor.                            *)
THEOREM FinalIsAsked == ASSUME Careful PROVE Spec => []FinalOnlyAfterDone
  <1>1. CarefulInv => FinalOnlyAfterDone
    BY DEF CarefulInv, BaseInv, FinalOnlyAfterDone
  <1> QED
    BY <1>1, CarefulAlways, PTL

(* The loggers complain of a use after Done(), or of a second Done(), only *)
(* when there was one (hasActivity, recursiveDone).                        *)
THEOREM NoAlarmWithoutCause == ASSUME Careful PROVE Spec => []NoFalseAlarm
  <1>1. CarefulInv => NoFalseAlarm
    BY DEF CarefulInv, BaseInv
  <1> QED
    BY <1>1, CarefulAlways, PTL

(* What a flush delivered had Done() called on its span after its last     *)
(* line (case (3) of xopbase/base.go:175).                                 *)
THEOREM DeliveredIsDated == ASSUME Careful PROVE Spec => []DeliveredHasEnd
  <1>1. CarefulInv => DeliveredHasEnd
    BY DEF CarefulInv, BaseInv, DeliveredHasEnd
  <1> QED
    BY <1>1, CarefulAlways, PTL

(* A span is known to be active exactly when its parent, or the request,   *)
(* lists it (NOTES.md:19), so that a cascade finds it.                     *)
THEOREM ActiveIsListed == ASSUME Careful PROVE Spec => []KnownIsListed
  <1>1. CarefulInv => KnownIsListed
    <2> SUFFICES ASSUME CarefulInv, Quiescent, NEW l \in live \ {Request}, ~info[l].nonSpan
                 PROVE  l \in knownActive <=> Listed(l)
      BY DEF KnownIsListed
    <2>t. TypeOK /\ TreeInv /\ ListInv
      BY DEF CarefulInv
    <2>1. l \in Made /\ IsSpan(l) /\ (InList(l) <=> l \in knownActive)
      <3>1. l \in Made \ {Request}
        BY QuiescentFacts
      <3>2. IsSpan(l)
        BY <2>t, <3>1 DEF TreeInv
      <3> QED
        BY <3>1, <3>2, QuiescentFacts
    <2>2. SpanOf(Parent(l)) \in Loggers /\ SpanOf(l) = l
      <3>1. PICK m \in Made : m = Parent(l)
        BY <2>t, <2>1 DEF TreeInv
      <3>2. SpanOf(m) \in Made
        BY <2>t DEF TreeInv
      <3>3. SpanOf(m) \in Loggers
        BY <2>t, <3>2, FinishedDown
      <3> QED
        BY <2>1, <3>1, <3>3 DEF IsSpan
    <2>3. Listed(l) <=> InList(l)
      <3> DEFINE S == IF info[l].detached THEN activeDetached ELSE dependents[SpanOf(Parent(l))]
      <3>1. \A d \in S : SpanOf(d) = d
        BY <2>t, <2>2 DEF ListInv, IsSpan
      <3>2. Listed(l) <=> \E d \in S : SpanOf(d) = l
        BY <2>2 DEF Listed, Detached
      <3>3. InList(l) <=> l \in S
        BY DEF InList
      <3> HIDE DEF S
      <3> QED
        BY <2>2, <3>1, <3>2, <3>3
    <2> QED
      BY <2>1, <2>3
  <1> QED
    BY <1>1, CarefulAlways, PTL
=============================================================================
