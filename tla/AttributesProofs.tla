-------------------------- MODULE AttributesProofs --------------------------
(***************************************************************************)
(* Proofs about the attributes of a span in the base loggers, as           *)
(* Attributes composes them, for any goroutines, attributes, values and    *)
(* bounds: the mutex of a tracker does what it is for, concurrent          *)
(* MetadataX calls implement Metadata, each base logger that merges the    *)
(* values of an attribute implements Metadata, a reader of JSON or of the  *)
(* console finds every definition it needs, and what is read of the output *)
(* of each base logger gives the attributes that were set.                 *)
(***************************************************************************)
EXTENDS Attributes, TLAPS

Places   == {"idle"} \cup MetadataPlaces
SeenKeys == Values \cup {<<v[1]>> : v \in Values}
Tracker  == [attribute : BOOLEAN, values : Seq(Values), seen : SUBSET SeenKeys]

MetadataTypeOK ==
    /\ used \subseteq Keys /\ calls \in Nat
    /\ at \in [Procs -> Places]
    /\ DOMAIN call = Procs
    /\ \A p \in Procs : call[p] = IF at[p] = "idle" THEN <<>> ELSE <<Key(p), Value(p)>>
    /\ \A p \in Procs : at[p] # "idle" => call[p] # <<>> /\ Key(p) \in Keys /\ Value(p) \in Values
    /\ loaded \in [Procs -> BOOLEAN]
    /\ stored \subseteq Keys
    /\ mu \in [Keys -> Procs \cup {Nobody}]
    /\ tracker \in [Keys -> Tracker]

(* Whoever is inside a tracker holds its mutex, and the map has it. *)
MutexHeld == \A p \in Procs : Inside(p) => mu[Key(p)] = p /\ Key(p) \in stored

(* Who waits for a mutex found the tracker in the map. *)
WaitsForStored == \A p \in Procs : at[p] = "lock" => loaded[p] /\ Key(p) \in stored

(* p has stored the tracker of k, and is about to give it its first value. *)
Fills(p, k) == at[p] = "update" /\ ~loaded[p] /\ Key(p) = k

Filled(k) ==
    /\ tracker[k].attribute /\ tracker[k].values # <<>>
    /\ k \in Multiple /\ k \in Distinct =>
          tracker[k].seen = {SeenKey(KindOf[k], tracker[k].values[i]) : i \in DOMAIN tracker[k].values}

StoredFilled == \A k \in stored : Filled(k) \/ \E p \in Procs : Fills(p, k)
NewIsEmpty   == \A k \in Keys : k \notin stored \/ (\E p \in Procs : Fills(p, k)) => tracker[k] = NewTracker

MetadataInv ==
    MetadataTypeOK /\ MutexHeld /\ WaitsForStored /\ StoredFilled /\ NewIsEmpty

-----------------------------------------------------------------------------
(* What tells values apart is the value or its text. *)
LEMMA SeenKeyType ==
  ASSUME NEW k \in Keys, NEW v \in Values
  PROVE  SeenKey(KindOf[k], v) \in SeenKeys
  <1>1. KindOf[k] \in Kinds
    BY AttributeCallsAssumption DEF AttributeCallsAssumption
  <1> QED
    BY <1>1 DEF Kinds, SeenKey, SeenKeys, SeenAny, SeenBool, SeenEnum, SeenFloat64, SeenInt64,
                SeenLink, SeenString, SeenTime

(* An update of a tracker leaves it filled, if it was, or is the first. *)
LEMMA UpdatedFills ==
  ASSUME NEW k \in Keys, NEW v \in Values, NEW t \in Tracker, NEW first \in BOOLEAN,
         first => t = NewTracker,
         ~first => t.attribute /\ t.values # <<>>,
         ~first /\ k \in Multiple /\ k \in Distinct =>
            t.seen = {SeenKey(KindOf[k], t.values[i]) : i \in DOMAIN t.values}
  PROVE  LET u == Updated(t, first, k, v) IN
         /\ u \in Tracker /\ u.attribute /\ u.values # <<>>
         /\ k \in Multiple /\ k \in Distinct =>
               u.seen = {SeenKey(KindOf[k], u.values[i]) : i \in DOMAIN u.values}
  <1> DEFINE u == Updated(t, first, k, v)
             seen == SeenKey(KindOf[k], v)
  <1>1. seen \in SeenKeys
    BY SeenKeyType
  <1>2. t.values \in Seq(Values) /\ t.seen \in SUBSET SeenKeys /\ t.attribute \in BOOLEAN
    BY DEF Tracker
  <1>3. CASE k \in Multiple /\ k \in Distinct /\ ~first /\ seen \in t.seen
    <2>1. u = t
      BY <1>3 DEF Updated
    <2> QED
      BY <2>1, <1>3
  <1>4. CASE k \notin Multiple /\ k \in Locked /\ ~first
    <2>1. u = t
      BY <1>4 DEF Updated
    <2> QED
      BY <2>1, <1>4
  <1>5. CASE /\ ~(k \in Multiple /\ k \in Distinct /\ ~first /\ seen \in t.seen)
             /\ ~(k \notin Multiple /\ k \in Locked /\ ~first)
    <2>1. u = [attribute |-> TRUE,
               values |-> IF k \in Multiple /\ ~first THEN Append(t.values, v) ELSE <<v>>,
               seen   |-> IF k \in Multiple /\ k \in Distinct THEN t.seen \cup {seen} ELSE {}]
      BY <1>5 DEF Updated
    <2>2. u \in Tracker /\ u.attribute /\ u.values # <<>>
      BY <2>1, <1>1, <1>2 DEF Tracker
    <2>3. ASSUME k \in Multiple, k \in Distinct
          PROVE  u.seen = {SeenKey(KindOf[k], u.values[i]) : i \in DOMAIN u.values}
      <3>1. CASE first
        <4>1. u.values = <<v>> /\ u.seen = {seen}
          BY <2>1, <2>3, <3>1 DEF NewTracker
        <4>2. DOMAIN u.values = {1} /\ u.values[1] = v
          BY <4>1
        <4> HIDE DEF u
        <4> QED
          BY <4>1, <4>2
      <3>2. CASE ~first
        <4>1. u.values = Append(t.values, v) /\ u.seen = t.seen \cup {seen}
          BY <2>1, <2>3, <3>2
        <4>2. /\ DOMAIN u.values = DOMAIN t.values \cup {Len(t.values) + 1}
              /\ u.values[Len(t.values) + 1] = v
              /\ \A i \in DOMAIN t.values : u.values[i] = t.values[i]
          BY <4>1, <1>2
        <4>3. t.seen = {SeenKey(KindOf[k], t.values[i]) : i \in DOMAIN t.values}
          BY <2>3, <3>2
        <4> HIDE DEF u
        <4> QED
          BY <4>1, <4>2, <4>3
      <3> QED
        BY <3>1, <3>2
    <2> QED
      BY <2>2, <2>3
  <1> QED
    BY <1>3, <1>4, <1>5
-----------------------------------------------------------------------------
(* No attribute is known when the span begins. *)
LEMMA MetadataInitInv == CallsInit /\ MetadataInit => MetadataInv
  BY AttributeCallsAssumption
  DEF AttributeCallsAssumption, CallsInit, MetadataInit, MetadataInv, MetadataTypeOK, MutexHeld,
      WaitsForStored, StoredFilled, NewIsEmpty, Inside, Fills, Places, Tracker, NewTracker

(* MetadataX is called. *)
LEMMA EnterInv ==
  ASSUME MetadataInv, NEW p \in Procs, NEW kind, Enter(p, kind, "load"), UNCHANGED metadataVars
  PROVE  MetadataInv'
  <1> USE DEF MetadataInv, MetadataTypeOK, metadataVars
  <1>1. PICK k \in used, v \in Values : call' = [call EXCEPT ![p] = <<k, v>>]
    BY DEF Enter
  <1>2. /\ at[p] = "idle" /\ at' = [at EXCEPT ![p] = "load"] /\ calls' = calls + 1
        /\ UNCHANGED <<used, loaded, stored, mu, tracker>> /\ k \in Keys
    BY DEF Enter, Go
  <1>3. \A q \in Procs \ {p} : at'[q] = at[q] /\ call'[q] = call[q]
    BY <1>1, <1>2
  <1>4. at'[p] = "load" /\ call'[p] = <<k, v>>
    BY <1>1, <1>2
  <1>5. MetadataTypeOK'
    BY <1>1, <1>2, <1>3, <1>4 DEF Places, MetadataPlaces, Key, Value
  <1>6. MutexHeld' /\ WaitsForStored'
    BY <1>2, <1>3, <1>4 DEF MutexHeld, WaitsForStored, Inside, Key
  <1>7. \A q \in Procs, j \in Keys : Fills(q, j)' <=> Fills(q, j)
    BY <1>2, <1>3, <1>4 DEF Fills, Key
  <1>8. StoredFilled' /\ NewIsEmpty'
    BY <1>2, <1>7 DEF StoredFilled, NewIsEmpty, Filled
  <1> QED
    BY <1>5, <1>6, <1>8

(* The first look into the sync.Map, LoadOrStore() or Load(), keeps the
   invariant. *)
LEMMA LoadInv ==
  ASSUME MetadataInv, NEW p \in Procs, Load(p)
  PROVE  MetadataInv'
  <1> USE DEF MetadataInv, MetadataTypeOK
  <1>1. /\ at[p] = "load" /\ at' = [at EXCEPT ![p] = IF Key(p) \in stored THEN "lock" ELSE "store"]
        /\ loaded' = [loaded EXCEPT ![p] = Key(p) \in stored]
        /\ UNCHANGED <<used, call, calls, stored, mu, tracker>>
    BY DEF Load, Go
  <1>2. \A q \in Procs \ {p} : at'[q] = at[q] /\ loaded'[q] = loaded[q]
    BY <1>1
  <1>3. MetadataTypeOK'
    BY <1>1 DEF Places, MetadataPlaces, Key, Value
  <1>4. MutexHeld' /\ WaitsForStored'
    BY <1>1, <1>2 DEF MutexHeld, WaitsForStored, Inside, Key
  <1>5. \A q \in Procs, j \in Keys : Fills(q, j)' <=> Fills(q, j)
    BY <1>1, <1>2 DEF Fills, Key
  <1>6. StoredFilled' /\ NewIsEmpty'
    BY <1>1, <1>5 DEF StoredFilled, NewIsEmpty, Filled
  <1> QED
    BY <1>3, <1>4, <1>6

(* The winner of the race for a new key locked its tracker before: nobody  *)
(* can be inside, for whoever is inside has found the key in the map.      *)
LEMMA StoreInv ==
  ASSUME MetadataInv, NEW p \in Procs, Store(p)
  PROVE  MetadataInv'
  <1> USE DEF MetadataInv, MetadataTypeOK
  <1>1. /\ at[p] = "store" /\ loaded' = [loaded EXCEPT ![p] = Key(p) \in stored]
        /\ UNCHANGED <<used, call, calls, tracker>> /\ Key(p) \in Keys
    BY DEF Store
  <1>2. CASE Key(p) \in stored
    <2>1. at' = [at EXCEPT ![p] = "lock"] /\ UNCHANGED <<stored, mu>>
      BY <1>2 DEF Store, Go
    <2>2. \A q \in Procs \ {p} : at'[q] = at[q] /\ loaded'[q] = loaded[q]
      BY <1>1, <2>1
    <2>3. MetadataTypeOK'
      BY <1>1, <2>1 DEF Places, MetadataPlaces, Key, Value
    <2>4. MutexHeld' /\ WaitsForStored'
      BY <1>1, <1>2, <2>1, <2>2 DEF MutexHeld, WaitsForStored, Inside, Key
    <2>5. \A q \in Procs, j \in Keys : Fills(q, j)' <=> Fills(q, j)
      BY <1>1, <2>1, <2>2 DEF Fills, Key
    <2>6. StoredFilled' /\ NewIsEmpty'
      BY <1>1, <2>1, <2>5 DEF StoredFilled, NewIsEmpty, Filled
    <2> QED
      BY <2>3, <2>4, <2>6
  <1>3. CASE Key(p) \notin stored
    <2>1. /\ at' = [at EXCEPT ![p] = "update"] /\ stored' = stored \cup {Key(p)}
          /\ mu' = [mu EXCEPT ![Key(p)] = p]
      BY <1>3 DEF Store, Go
    <2>2. \A q \in Procs \ {p} : at'[q] = at[q] /\ loaded'[q] = loaded[q]
      BY <1>1, <2>1
    <2>3. MetadataTypeOK'
      BY <1>1, <2>1 DEF Places, MetadataPlaces, Key, Value
    <2>4. \A q \in Procs \ {p} : Inside(q) => Key(q) # Key(p)
      BY <1>3 DEF MutexHeld
    <2>5. MutexHeld' /\ WaitsForStored'
      BY <1>1, <1>3, <2>1, <2>2, <2>4 DEF MutexHeld, WaitsForStored, Inside, Key
    <2>6. \A q \in Procs \ {p}, j \in Keys : Fills(q, j)' <=> Fills(q, j)
      BY <1>1, <2>1, <2>2 DEF Fills, Key
    <2>7. \A j \in Keys : ~Fills(p, j) /\ (Fills(p, j)' <=> j = Key(p))
      BY <1>1, <1>3, <2>1 DEF Fills, Key
    <2>8. tracker[Key(p)] = NewTracker
      BY <1>1, <1>3 DEF NewIsEmpty
    <2>0. \A j \in Keys : Filled(j)' <=> Filled(j)
      BY <1>1 DEF Filled
    <2>9. StoredFilled'
      BY <1>1, <2>0, <2>1, <2>6, <2>7 DEF StoredFilled
    <2>10. NewIsEmpty'
      BY <1>1, <2>1, <2>6, <2>7, <2>8 DEF NewIsEmpty
    <2> QED
      BY <2>3, <2>5, <2>9, <2>10
  <1> QED
    BY <1>2, <1>3

(* Taking the mutex of a tracker keeps the invariant. *)
LEMMA LockInv ==
  ASSUME MetadataInv, NEW p \in Procs, Lock(p)
  PROVE  MetadataInv'
  <1> USE DEF MetadataInv, MetadataTypeOK
  <1>1. /\ at[p] = "lock" /\ mu[Key(p)] = Nobody /\ mu' = [mu EXCEPT ![Key(p)] = p]
        /\ at' = [at EXCEPT ![p] = "update"] /\ Key(p) \in Keys
        /\ UNCHANGED <<used, call, calls, loaded, stored, tracker>>
    BY DEF Lock, Go
  <1>2. \A q \in Procs \ {p} : at'[q] = at[q]
    BY <1>1
  <1>3. MetadataTypeOK'
    BY <1>1 DEF Places, MetadataPlaces, Key, Value
  <1>4. loaded[p] /\ Key(p) \in stored
    BY <1>1 DEF WaitsForStored
  <1>5. \A q \in Procs \ {p} : Inside(q) => Key(q) # Key(p)
    BY <1>1, NobodyAssumption DEF MutexHeld, NobodyAssumption
  <1>6. MutexHeld' /\ WaitsForStored'
    BY <1>1, <1>2, <1>4, <1>5 DEF MutexHeld, WaitsForStored, Inside, Key
  <1>7. \A q \in Procs, j \in Keys : Fills(q, j)' <=> Fills(q, j)
    BY <1>1, <1>2, <1>4 DEF Fills, Key
  <1>8. StoredFilled' /\ NewIsEmpty'
    BY <1>1, <1>7 DEF StoredFilled, NewIsEmpty, Filled
  <1> QED
    BY <1>3, <1>6, <1>8

(* At the update the tracker is new, if this is the first value, and       *)
(* filled otherwise: a first updater would hold the mutex as well.         *)
LEMMA AtUpdate ==
  ASSUME MetadataInv, NEW p \in Procs, at[p] = "update"
  PROVE  /\ Key(p) \in Keys /\ Value(p) \in Values /\ Key(p) \in stored /\ mu[Key(p)] = p
         /\ ~loaded[p] => tracker[Key(p)] = NewTracker
         /\ loaded[p] => Filled(Key(p))
         /\ \A q \in Procs \ {p} : Inside(q) => Key(q) # Key(p)
  <1> USE DEF MetadataInv, MetadataTypeOK
  <1>1. Key(p) \in Keys /\ Value(p) \in Values /\ mu[Key(p)] = p /\ Key(p) \in stored
    BY DEF MutexHeld, Inside
  <1>2. \A q \in Procs \ {p} : Inside(q) => Key(q) # Key(p)
    BY <1>1 DEF MutexHeld
  <1>3. ~loaded[p] => tracker[Key(p)] = NewTracker
    BY <1>1 DEF NewIsEmpty, Fills
  <1>4. ASSUME loaded[p] PROVE Filled(Key(p))
    <2>1. \A q \in Procs : ~Fills(q, Key(p))
      BY <1>2, <1>4 DEF Fills, Inside
    <2> QED
      BY <1>1, <2>1 DEF StoredFilled
  <1> QED
    BY <1>1, <1>2, <1>3, <1>4

(* Recording a value in a tracker keeps the invariant. *)
LEMMA UpdateInv ==
  ASSUME MetadataInv, NEW p \in Procs, Update(p)
  PROVE  MetadataInv'
  <1> USE DEF MetadataInv, MetadataTypeOK
  <1>0. at[p] = "update"
    BY DEF Update
  <1>1. PICK k \in Keys, v \in Values : k = Key(p) /\ v = Value(p)
    BY <1>0
  <1>2. PICK t \in Tracker, first \in BOOLEAN : t = tracker[k] /\ first = ~loaded[p]
    BY <1>1
  <1>3. /\ k \in stored /\ mu[k] = p
        /\ first => t = NewTracker
        /\ ~first => Filled(k)
        /\ \A q \in Procs \ {p} : Inside(q) => Key(q) # k
    BY <1>0, <1>1, <1>2, AtUpdate
  <1>4. PICK u : u = Updated(t, first, k, v)
    OBVIOUS
  <1>5. /\ tracker' = [tracker EXCEPT ![k] = u]
        /\ at' = [at EXCEPT ![p] = "unlock"]
        /\ UNCHANGED <<used, call, calls, loaded, stored, mu>>
    BY <1>1, <1>2, <1>4 DEF Update, Go
  <1>6. /\ ~first => t.attribute /\ t.values # <<>>
        /\ ~first /\ k \in Multiple /\ k \in Distinct =>
              t.seen = {SeenKey(KindOf[k], t.values[i]) : i \in DOMAIN t.values}
    BY <1>2, <1>3 DEF Filled
  <1>7. /\ u \in Tracker /\ u.attribute /\ u.values # <<>>
        /\ k \in Multiple /\ k \in Distinct =>
              u.seen = {SeenKey(KindOf[k], u.values[i]) : i \in DOMAIN u.values}
    BY <1>3, <1>4, <1>6, UpdatedFills
  <1>8. \A q \in Procs \ {p} : at'[q] = at[q]
    BY <1>5
  <1>9. MetadataTypeOK'
    BY <1>0, <1>5, <1>7 DEF Places, MetadataPlaces, Key, Value
  <1>10. MutexHeld' /\ WaitsForStored'
    BY <1>0, <1>1, <1>3, <1>5, <1>8 DEF MutexHeld, WaitsForStored, Inside, Key
  <1>11. \A q \in Procs \ {p}, j \in Keys : Fills(q, j)' <=> Fills(q, j)
    BY <1>5, <1>8 DEF Fills, Key
  <1>12. (\A q \in Procs : ~Fills(q, k)') /\ \A j \in Keys : ~Fills(p, j)'
    BY <1>3, <1>5, <1>11 DEF Fills, Inside, Key
  <1>13. tracker'[k] = u /\ \A j \in Keys \ {k} : tracker'[j] = tracker[j]
    BY <1>5
  <1>14. Filled(k)'
    BY <1>7, <1>13 DEF Filled
  <1>15. \A j \in Keys \ {k} : ~Fills(p, j) /\ (Filled(j)' <=> Filled(j))
    BY <1>1, <1>13 DEF Fills, Filled
  <1>16. StoredFilled'
    BY <1>5, <1>11, <1>14, <1>15 DEF StoredFilled
  <1>17. NewIsEmpty'
    BY <1>3, <1>5, <1>11, <1>12, <1>13, <1>15 DEF NewIsEmpty
  <1> QED
    BY <1>9, <1>10, <1>16, <1>17

(* Giving the mutex back keeps the invariant. *)
LEMMA UnlockInv ==
  ASSUME MetadataInv, NEW p \in Procs, Unlock(p)
  PROVE  MetadataInv'
  <1> USE DEF MetadataInv, MetadataTypeOK
  <1>1. /\ at[p] = "unlock" /\ mu' = [mu EXCEPT ![Key(p)] = Nobody]
        /\ at' = [at EXCEPT ![p] = "event"] /\ Key(p) \in Keys
        /\ UNCHANGED <<used, call, calls, loaded, stored, tracker>>
    BY DEF Unlock, Go
  <1>2. \A q \in Procs \ {p} : at'[q] = at[q]
    BY <1>1
  <1>3. MetadataTypeOK'
    BY <1>1 DEF Places, MetadataPlaces, Key, Value
  <1>4. \A q \in Procs \ {p} : Inside(q) => Key(q) # Key(p)
    BY <1>1 DEF MutexHeld, Inside
  <1>5. MutexHeld' /\ WaitsForStored'
    BY <1>1, <1>2, <1>4 DEF MutexHeld, WaitsForStored, Inside, Key
  <1>6. \A q \in Procs, j \in Keys : Fills(q, j)' <=> Fills(q, j)
    BY <1>1, <1>2 DEF Fills, Key
  <1>7. StoredFilled' /\ NewIsEmpty'
    BY <1>1, <1>6 DEF StoredFilled, NewIsEmpty, Filled
  <1> QED
    BY <1>3, <1>5, <1>7

(* The end of a MetadataX call keeps the invariant. *)
LEMMA MetadataSetInv ==
  ASSUME MetadataInv, NEW p \in Procs, MetadataSet(p)
  PROVE  MetadataInv'
  <1> USE DEF MetadataInv, MetadataTypeOK
  <1>1. /\ at[p] = "event" /\ at' = [at EXCEPT ![p] = "idle"] /\ call' = [call EXCEPT ![p] = <<>>]
        /\ UNCHANGED <<used, calls, loaded, stored, mu, tracker>>
    BY DEF MetadataSet, Leave, Go, metadataVars
  <1>2. \A q \in Procs \ {p} : at'[q] = at[q] /\ call'[q] = call[q]
    BY <1>1
  <1>3. MetadataTypeOK'
    BY <1>1, <1>2 DEF Places, MetadataPlaces, Key, Value
  <1>4. MutexHeld' /\ WaitsForStored'
    BY <1>1, <1>2 DEF MutexHeld, WaitsForStored, Inside, Key
  <1>5. \A q \in Procs, j \in Keys : Fills(q, j)' <=> Fills(q, j)
    BY <1>1, <1>2 DEF Fills, Key
  <1>6. StoredFilled' /\ NewIsEmpty'
    BY <1>1, <1>5 DEF StoredFilled, NewIsEmpty, Filled
  <1> QED
    BY <1>3, <1>4, <1>6
(* One step of one goroutine. *)
LEMMA MetadataStepInv ==
  ASSUME MetadataInv, NEW p \in Procs, MetadataStep(p)
  PROVE  MetadataInv'
  <1>1. CASE \/ MetadataAny(p) \/ MetadataBool(p) \/ MetadataEnum(p) \/ MetadataFloat64(p)
             \/ MetadataInt64(p) \/ MetadataLink(p) \/ MetadataString(p) \/ MetadataTime(p)
    BY <1>1, EnterInv DEF MetadataAny, MetadataBool, MetadataEnum, MetadataFloat64,
                          MetadataInt64, MetadataLink, MetadataString, MetadataTime
  <1>2. CASE Load(p) \/ Store(p) \/ Lock(p) \/ Update(p) \/ Unlock(p) \/ MetadataSet(p)
    BY <1>2, LoadInv, StoreInv, LockInv, UpdateInv, UnlockInv, MetadataSetInv
  <1> QED
    BY <1>1, <1>2 DEF MetadataStep

(* Concurrent MetadataX calls on a span: whoever works on a tracker holds
   its mutex, and a tracker that is in the map and is not being filled has
   its values. *)
THEOREM MetadataInvariant == MetadataSpec => []MetadataInv
  <1>1. CallsInit /\ MetadataInit => MetadataInv
    BY MetadataInitInv
  <1>2. MetadataInv /\ [\E p \in Procs : MetadataStep(p)]_vars => MetadataInv'
    <2> SUFFICES ASSUME MetadataInv, [\E p \in Procs : MetadataStep(p)]_vars PROVE MetadataInv'
      OBVIOUS
    <2>1. CASE \E p \in Procs : MetadataStep(p)
      BY <2>1, MetadataStepInv
    <2>2. CASE UNCHANGED vars
      BY <2>2 DEF vars, callVars, metadataVars, MetadataInv, MetadataTypeOK, MutexHeld, Inside,
                  WaitsForStored, StoredFilled, NewIsEmpty, Filled, Fills, Key, Value
    <2> QED
      BY <2>1, <2>2
  <1> QED
    BY <1>1, <1>2, PTL DEF MetadataSpec

(* Whoever is inside a tracker holds its mutex, and never meets a tracker  *)
(* that another goroutine has stored and not yet filled.                   *)
THEOREM MetadataGuarded == MetadataSpec => []TrackerGuarded
  <1>1. MetadataInv => TrackerGuarded
    <2> SUFFICES ASSUME MetadataInv, NEW p \in Procs, Inside(p)
                 PROVE  /\ mu[Key(p)] = p
                        /\ at[p] = "update" /\ loaded[p] =>
                              /\ tracker[Key(p)].attribute /\ tracker[Key(p)].values # <<>>
                              /\ Key(p) \in Multiple /\ Key(p) \in Distinct => tracker[Key(p)].seen # {}
      BY DEF TrackerGuarded
    <2>1. mu[Key(p)] = p
      BY DEF MetadataInv, MutexHeld
    <2>2. ASSUME at[p] = "update", loaded[p]
          PROVE  /\ tracker[Key(p)].attribute /\ tracker[Key(p)].values # <<>>
                 /\ Key(p) \in Multiple /\ Key(p) \in Distinct => tracker[Key(p)].seen # {}
      <3>1. Filled(Key(p)) /\ Key(p) \in Keys
        BY <2>2, AtUpdate
      <3>2. tracker[Key(p)].values \in Seq(Values)
        BY <3>1 DEF MetadataInv, MetadataTypeOK, Tracker
      <3>3. 1 \in DOMAIN tracker[Key(p)].values
        BY <3>1, <3>2 DEF Filled
      <3> QED
        BY <3>1, <3>3 DEF Filled
    <2> QED
      BY <2>1, <2>2
  <1> QED
    BY <1>1, MetadataInvariant, PTL

-----------------------------------------------------------------------------
(* The refinement: MetadataX begins, its update takes effect, its event    *)
(* ends it; the other steps are invisible.                                 *)
setting == [p \in Procs |-> IF at[p] \in MetadataPlaces THEN call[p] ELSE <<>>]
taken   == {p \in Procs : at[p] \in {"unlock", "event"}}
kept    == [k \in Keys |-> tracker[k].values]

(* Calling MetadataX is the beginning of a call of Metadata. *)
LEMMA EnterBegins ==
  ASSUME MetadataInv, NEW p \in Procs, NEW kind, Enter(p, kind, "load"), UNCHANGED metadataVars
  PROVE  Recorded!Next
  <1> USE DEF MetadataInv, MetadataTypeOK, metadataVars
  <1>1. PICK k \in used, v \in Values : call' = [call EXCEPT ![p] = <<k, v>>]
    BY DEF Enter
  <1>2. k \in Keys /\ at[p] = "idle" /\ at' = [at EXCEPT ![p] = "load"] /\ tracker' = tracker
    BY DEF Enter, Go
  <1>3. setting[p] = <<>> /\ setting' = [setting EXCEPT ![p] = <<k, v>>]
    BY <1>1, <1>2 DEF setting, MetadataPlaces
  <1>4. taken' = taken /\ kept' = kept
    BY <1>2 DEF taken, kept
  <1>5. Recorded!Begin(p, k, v)
    BY <1>3, <1>4 DEF Recorded!Begin, setting, taken, kept
  <1> QED
    BY <1>2, <1>5 DEF Recorded!Next

(* Between its beginning and its end a call does nothing that Metadata
   sees. *)
LEMMA InvisibleSteps ==
  ASSUME MetadataInv, NEW p \in Procs, Load(p) \/ Store(p) \/ Lock(p) \/ Unlock(p)
  PROVE  UNCHANGED Recorded!vars
  <1> USE DEF MetadataInv, MetadataTypeOK
  <1>1. call' = call /\ tracker' = tracker
    BY DEF Load, Store, Lock, Unlock
  <1>2. setting' = setting /\ taken' = taken
    BY <1>1 DEF setting, taken, MetadataPlaces, Load, Store, Lock, Unlock, Go
  <1>3. kept' = kept
    BY <1>1 DEF kept
  <1> QED
    BY <1>2, <1>3 DEF Recorded!vars, setting, taken, kept

(* Appending to what was kept, or to nothing, is the same to Metadata.     *)
LEMMA UpdateTakes ==
  ASSUME MetadataInv, NEW p \in Procs, Update(p)
  PROVE  Recorded!Next
  <1> USE DEF MetadataInv, MetadataTypeOK
  <1>0. at[p] = "update"
    BY DEF Update
  <1>1. PICK k \in Keys, v \in Values : k = Key(p) /\ v = Value(p) /\ call[p] = <<k, v>>
    BY <1>0
  <1>2. PICK t \in Tracker, first \in BOOLEAN : t = tracker[k] /\ first = ~loaded[p]
    BY <1>1
  <1>3. (first => t = NewTracker) /\ (~first => Filled(k))
    BY <1>0, <1>1, <1>2, AtUpdate
  <1>4. /\ tracker' = [tracker EXCEPT ![k] = Updated(t, first, k, v)]
        /\ at' = [at EXCEPT ![p] = "unlock"] /\ call' = call
    BY <1>1, <1>2 DEF Update, Go
  <1>5. t.values \in Seq(Values)
    BY DEF Tracker
  <1> DEFINE Id == [j \in Keys |-> [x \in Values |-> SeenKey(KindOf[j], x)]]
  <1>6. \A w \in Values : Id[k][w] = SeenKey(KindOf[k], w)
    OBVIOUS
  <1> HIDE DEF Id
  <1>7. (\E i \in DOMAIN t.values : Id[k][t.values[i]] = Id[k][v])
        <=> SeenKey(KindOf[k], v) \in {SeenKey(KindOf[k], t.values[i]) : i \in DOMAIN t.values}
    <2>1. \A i \in DOMAIN t.values : t.values[i] \in Values
      BY <1>5
    <2> QED
      BY <1>6, <2>1
  <1>8. Updated(t, first, k, v).values = Recorded!With(t.values, k, v)
    <2>1. CASE first
      <3>1. t.values = <<>> /\ DOMAIN t.values = {}
        BY <1>3, <2>1 DEF NewTracker
      <3>2. Updated(t, first, k, v).values = <<v>>
        BY <2>1 DEF Updated
      <3>3. Recorded!With(t.values, k, v) = <<v>>
        BY <3>1 DEF Recorded!With
      <3> QED
        BY <3>2, <3>3
    <2>2. CASE ~first
      <3>1. t.values # <<>>
        BY <1>2, <1>3, <2>2 DEF Filled
      <3>2. CASE k \in Multiple /\ k \in Distinct
        <4>1. t.seen = {SeenKey(KindOf[k], t.values[i]) : i \in DOMAIN t.values}
          BY <1>2, <1>3, <2>2, <3>2 DEF Filled
        <4>2. Updated(t, first, k, v).values =
                IF SeenKey(KindOf[k], v) \in t.seen THEN t.values ELSE Append(t.values, v)
          BY <2>2, <3>2 DEF Updated
        <4>3. Recorded!With(t.values, k, v) =
                IF SeenKey(KindOf[k], v) \in t.seen THEN t.values ELSE Append(t.values, v)
          BY <1>7, <3>2, <4>1 DEF Recorded!With, Id
        <4> QED
          BY <4>2, <4>3
      <3>3. CASE ~(k \in Multiple /\ k \in Distinct)
        BY <2>2, <3>1, <3>3 DEF Updated, Recorded!With
      <3> QED
        BY <3>2, <3>3
    <2> QED
      BY <2>1, <2>2
  <1>9. kept' = [kept EXCEPT ![k] = Recorded!With(@, k, v)]
    <2>1. \A j \in Keys : kept'[j] = IF j = k THEN Recorded!With(t.values, k, v) ELSE kept[j]
      BY <1>4, <1>8 DEF kept
    <2>2. kept[k] = t.values
      BY <1>2 DEF kept
    <2> QED
      BY <2>1, <2>2 DEF kept
  <1>10. setting' = setting /\ setting[p] = <<k, v>>
    BY <1>0, <1>1, <1>4 DEF setting, MetadataPlaces
  <1>11. taken' = taken \cup {p} /\ p \notin taken
    BY <1>0, <1>4 DEF taken
  <1>12. setting[p] # <<>> /\ setting[p][1] = k /\ setting[p][2] = v
    BY <1>10
  <1>13. kept' = [kept EXCEPT ![setting[p][1]] = Recorded!With(@, setting[p][1], setting[p][2])]
    BY <1>9, <1>12
  <1>14. Recorded!Take(p)
    BY <1>10, <1>11, <1>12, <1>13 DEF Recorded!Take, setting, taken, kept
  <1> QED
    BY <1>14 DEF Recorded!Next

(* The end of a MetadataX call is a step of Metadata. *)
LEMMA EventEnds ==
  ASSUME MetadataInv, NEW p \in Procs, MetadataSet(p)
  PROVE  Recorded!Next
  <1> USE DEF MetadataInv, MetadataTypeOK
  <1>1. /\ at[p] = "event" /\ at' = [at EXCEPT ![p] = "idle"] /\ call' = [call EXCEPT ![p] = <<>>]
        /\ tracker' = tracker
    BY DEF MetadataSet, Leave, Go, metadataVars
  <1>2. p \in taken /\ taken' = taken \ {p} /\ kept' = kept
    BY <1>1 DEF taken, kept
  <1>3. setting' = [setting EXCEPT ![p] = <<>>]
    BY <1>1 DEF setting, MetadataPlaces
  <1>4. Recorded!End(p)
    BY <1>2, <1>3 DEF Recorded!End, setting, taken, kept
  <1> QED
    BY <1>4 DEF Recorded!Next

(* One step of one goroutine, as Metadata sees it. *)
LEMMA MetadataStepMaps ==
  ASSUME MetadataInv, NEW p \in Procs, MetadataStep(p)
  PROVE  Recorded!Next \/ UNCHANGED Recorded!vars
  <1>1. CASE \/ MetadataAny(p) \/ MetadataBool(p) \/ MetadataEnum(p) \/ MetadataFloat64(p)
             \/ MetadataInt64(p) \/ MetadataLink(p) \/ MetadataString(p) \/ MetadataTime(p)
    BY <1>1, EnterBegins DEF MetadataAny, MetadataBool, MetadataEnum, MetadataFloat64,
                             MetadataInt64, MetadataLink, MetadataString, MetadataTime
  <1>2. CASE Load(p) \/ Store(p) \/ Lock(p) \/ Unlock(p)
    BY <1>2, InvisibleSteps
  <1>3. CASE Update(p)
    BY <1>3, UpdateTakes
  <1>4. CASE MetadataSet(p)
    BY <1>4, EventEnds
  <1> QED
    BY <1>1, <1>2, <1>3, <1>4 DEF MetadataStep

(* The beginning is one of Metadata. *)
LEMMA MetadataInitMaps == CallsInit /\ MetadataInit => Recorded!Init
  BY DEF CallsInit, MetadataInit, Recorded!Init, NewTracker, MetadataPlaces

(* The metadata of a span implements Metadata. *)
THEOREM MetadataImplements == MetadataSpec => RecorderKeeps
  <1>1. CallsInit /\ MetadataInit => Recorded!Init
    BY MetadataInitMaps
  <1>2. MetadataInv /\ [\E p \in Procs : MetadataStep(p)]_vars => [Recorded!Next]_Recorded!vars
    <2> SUFFICES ASSUME MetadataInv, [\E p \in Procs : MetadataStep(p)]_vars
                 PROVE  Recorded!Next \/ UNCHANGED Recorded!vars
      OBVIOUS
    <2>1. CASE \E p \in Procs : MetadataStep(p)
      BY <2>1, MetadataStepMaps
    <2>2. CASE UNCHANGED vars
      BY <2>2 DEF vars, callVars, metadataVars, Recorded!vars
    <2> QED
      BY <2>1, <2>2
  <1> QED
    BY <1>1, <1>2, MetadataInvariant, PTL DEF MetadataSpec, RecorderKeeps, Recorded!Spec

-----------------------------------------------------------------------------
(***************************************************************************)
(* The four base loggers, as Attributes composes them.                     *)
(***************************************************************************)

(* What a builder holds are encodings: the value, or its text only. *)
Coded   == Values \cup {<<v[1]>> : v \in Values}
Builder == [values : Seq(Coded), distinct : SUBSET Coded]
Entry   == [def : Keys] \cup [record : [Keys -> Seq(Coded)], told : [Keys -> Seq(Values)]]

(* The calls in progress in a base logger with these steps. *)
CallsOK(places) ==
    /\ used \subseteq Keys
    /\ at \in [Procs -> {"idle"} \cup places]
    /\ DOMAIN call = Procs
    /\ \A p \in Procs : at[p] # "idle" => Key(p) \in Keys /\ Value(p) \in Values
    /\ given \in [Keys -> Seq(Values)]

(* The distinct map of a builder has what the builder holds. *)
DistinctOK(b, k) ==
    k \in Multiple /\ k \in Distinct => b.distinct = {b.values[i] : i \in DOMAIN b.values}

(* Facts of the entries of an output. *)
LEMMA EntryFacts ==
  ASSUME NEW e \in Entry
  PROVE  /\ IsRecord(e) => /\ DOMAIN e = {"record", "told"}
                           /\ e.record \in [Keys -> Seq(Coded)] /\ ~("def" \in DOMAIN e)
         /\ ~IsRecord(e) => /\ DOMAIN e = {"def"} /\ e.def \in Keys /\ e = [def |-> e.def]
  BY DEF Entry, IsRecord

(* A write to the output adds one entry at its end. *)
LEMMA OutputGrows ==
  ASSUME output \in Seq(Entry), NEW e \in Entry, Write(e)
  PROVE  /\ output' \in Seq(Entry)
         /\ DOMAIN output' = DOMAIN output \cup {Len(output) + 1}
         /\ Len(output) + 1 \notin DOMAIN output
         /\ output'[Len(output) + 1] = e
         /\ \A i \in DOMAIN output : output'[i] = output[i] /\ i < Len(output) + 1 /\ i \in Nat
  BY DEF Write

(* A call that begins touches its own goroutine only. *)
LEMMA CallEntered ==
  ASSUME NEW places, CallsOK(places), NEW p \in Procs, NEW kind, NEW pl \in places, Enter(p, kind, pl),
         "idle" \notin places
  PROVE  /\ CallsOK(places)' /\ at[p] = "idle" /\ at' = [at EXCEPT ![p] = pl]
         /\ \A q \in Procs \ {p} : at'[q] = at[q] /\ Key(q)' = Key(q) /\ Value(q)' = Value(q)
         /\ Key(p)' \in Keys /\ Value(p)' \in Values /\ output' = output
  <1>1. PICK k \in used, v \in Values : call' = [call EXCEPT ![p] = <<k, v>>]
    BY DEF Enter
  <1>2. at[p] = "idle" /\ at' = [at EXCEPT ![p] = pl] /\ UNCHANGED <<used, given, output>>
    BY DEF Enter, Go
  <1>3. call'[p] = <<k, v>> /\ \A q \in Procs \ {p} : call'[q] = call[q]
    BY <1>1 DEF CallsOK
  <1>4. Key(p)' = k /\ Value(p)' = v /\ k \in Keys
    BY <1>3 DEF Key, Value, CallsOK
  <1>5. \A q \in Procs \ {p} : at'[q] = at[q] /\ Key(q)' = Key(q) /\ Value(q)' = Value(q)
    BY <1>2, <1>3 DEF Key, Value, CallsOK
  <1>6. at' \in [Procs -> {"idle"} \cup places] /\ DOMAIN call' = Procs /\ used' \subseteq Keys
        /\ given' \in [Keys -> Seq(Values)]
    BY <1>1, <1>2 DEF CallsOK
  <1>7. \A q \in Procs : at'[q] # "idle" => Key(q)' \in Keys /\ Value(q)' \in Values
    BY <1>4, <1>5 DEF CallsOK
  <1>8. CallsOK(places)'
    BY <1>6, <1>7 DEF CallsOK
  <1> QED
    BY <1>2, <1>4, <1>5, <1>8

(* The encoding of a value. *)
LEMMA EncodingIsCoded ==
  ASSUME NEW kind, NEW v \in Values
  PROVE  JsonEncoded(kind, v) \in Coded /\ ConsoleEncoded(kind, v) \in Coded
  BY DEF JsonEncoded, ConsoleEncoded, Coded

-----------------------------------------------------------------------------
(* JSON. *)

(* The definition of k has been written, or is about to be. *)
Announced(k) == k \in JsonDefinitions(output) \/ \E p \in Procs : at[p] = "write" /\ Key(p) = k

JsonTypeOK ==
    /\ CallsOK(JsonPlaces)
    /\ defined \subseteq Keys
    /\ builder \in [Keys -> Builder]
    /\ output \in Seq(Entry)

JsonInv ==
    /\ JsonTypeOK
    /\ \A k \in Keys : DistinctOK(builder[k], k)
    /\ \A p \in Procs : at[p] = "encode" => Announced(Key(p))
    /\ \A k \in defined : Announced(k)
    /\ \A k \in Keys : builder[k].values # <<>> => Announced(k)
    /\ \A i \in DOMAIN output : IsRecord(output[i]) =>
          \A k \in Keys : output[i].record[k] # <<>> => Announced(k)

(* The JSON base logger begins with no builder and no definition. *)
LEMMA JsonInvInit == CallsInit /\ JsonInit => JsonInv
  BY AttributeCallsAssumption
  DEF AttributeCallsAssumption, CallsInit, JsonInit, JsonInv, JsonTypeOK, CallsOK, Builder, DistinctOK

(* Idle is no place inside a call. *)
LEMMA JsonPlacesFact == "idle" \notin JsonPlaces
  BY DEF JsonPlaces

(* MetadataX of the span is called. *)
LEMMA JsonEnterInv ==
  ASSUME JsonInv, NEW p \in Procs, JsonMetadata(p)
  PROVE  JsonInv'
  <1>1. PICK kind \in Kinds : Enter(p, kind, "define")
    BY DEF JsonMetadata
  <1>2. CallsOK(JsonPlaces) /\ "define" \in JsonPlaces
    BY DEF JsonInv, JsonTypeOK, JsonPlaces
  <1>3. /\ CallsOK(JsonPlaces)' /\ at[p] = "idle" /\ at'[p] = "define"
        /\ \A q \in Procs \ {p} : at'[q] = at[q] /\ Key(q)' = Key(q)
        /\ output' = output
    BY <1>1, <1>2, CallEntered, JsonPlacesFact DEF CallsOK
  <1>4. UNCHANGED <<option, defined, builder>>
    BY DEF JsonMetadata, jsonVars
  <1>5. \A k : Announced(k) => Announced(k)'
    BY <1>3 DEF Announced
  <1>6. \A q \in Procs : at'[q] = "encode" => q # p
    BY <1>3
  <1> QED
    BY <1>3, <1>4, <1>5, <1>6 DEF JsonInv, JsonTypeOK

(* Whoever stores the key first is to write the definition. *)
LEMMA JsonDefineInv ==
  ASSUME JsonInv, NEW p \in Procs, JsonDefine(p)
  PROVE  JsonInv'
  <1>t. CallsOK(JsonPlaces)
    BY DEF JsonInv, JsonTypeOK
  <1>1. /\ at[p] = "define" /\ at' \in [Procs -> {"write", "encode"} \cup {"idle"} \cup JsonPlaces]
        /\ at'[p] = (IF option = "Always" \/ Key(p) \notin defined THEN "write" ELSE "encode")
        /\ \A q \in Procs \ {p} : at'[q] = at[q]
        /\ defined' = IF option = "Always" THEN defined ELSE defined \cup {Key(p)}
        /\ UNCHANGED <<used, call, given, output, builder>>
    BY <1>t DEF JsonDefine, Go, CallsOK, jsonVars
  <1>2. \A q : Key(q)' = Key(q) /\ Value(q)' = Value(q)
    BY <1>1 DEF Key, Value
  <1>3. CallsOK(JsonPlaces)'
    BY <1>t, <1>1, <1>2 DEF CallsOK, JsonPlaces
  <1>4. \A k : Announced(k) => Announced(k)'
    BY <1>1, <1>2 DEF Announced
  <1>5. Announced(Key(p))'
    BY <1>1, <1>2, <1>4 DEF Announced, JsonInv
  <1>6. Key(p) \in Keys
    BY <1>t, <1>1 DEF CallsOK
  <1> QED
    BY <1>1, <1>2, <1>3, <1>4, <1>5, <1>6 DEF JsonInv, JsonTypeOK

(* The definition comes into the output. *)
LEMMA JsonWriteInv ==
  ASSUME JsonInv, NEW p \in Procs, JsonWriteDefinition(p)
  PROVE  JsonInv'
  <1>t. CallsOK(JsonPlaces) /\ output \in Seq(Entry)
    BY DEF JsonInv, JsonTypeOK
  <1>1. /\ at[p] = "write" /\ at' = [at EXCEPT ![p] = "encode"]
        /\ UNCHANGED <<used, call, given, defined, builder>>
    BY DEF JsonWriteDefinition, Go, jsonVars
  <1>2. \A q \in Procs \ {p} : at'[q] = at[q]
    BY <1>1, <1>t DEF CallsOK
  <1>3. \A q : Key(q)' = Key(q) /\ Value(q)' = Value(q)
    BY <1>1 DEF Key, Value
  <1>4. at'[p] = "encode" /\ CallsOK(JsonPlaces)'
    BY <1>t, <1>1, <1>3 DEF CallsOK, JsonPlaces
  <1>5. PICK e : e = [def |-> Key(p)]
    OBVIOUS
  <1>6. e \in Entry /\ ~IsRecord(e) /\ "def" \in DOMAIN e /\ e.def = Key(p) /\ Key(p) \in Keys
    BY <1>t, <1>1, <1>5 DEF Entry, IsRecord, CallsOK
  <1>7. /\ output' \in Seq(Entry) /\ DOMAIN output' = DOMAIN output \cup {Len(output) + 1}
        /\ output'[Len(output) + 1] = e
        /\ \A i \in DOMAIN output : output'[i] = output[i]
    BY <1>t, <1>5, <1>6, OutputGrows DEF JsonWriteDefinition
  <1>8. JsonDefinitions(output') = JsonDefinitions(output) \cup {Key(p)}
    BY <1>6, <1>7 DEF JsonDefinitions
  <1>9. \A k : Announced(k) => Announced(k)'
    BY <1>2, <1>3, <1>8 DEF Announced
  <1>10. Announced(Key(p))'
    BY <1>3, <1>8 DEF Announced
  <1> QED
    BY <1>1, <1>2, <1>3, <1>4, <1>6, <1>7, <1>9, <1>10 DEF JsonInv, JsonTypeOK

(* What the builder keeps of a value more is what Metadata keeps: two      *)
(* values are distinct when their encodings are.                           *)
LEMMA JsonKept ==
  ASSUME NEW k \in Keys, NEW e \in Coded, NEW b \in Builder, DistinctOK(b, k),
         NEW new, new = IF k \in Multiple THEN JsonMulti(b, k, e) ELSE JsonSingle(b, k, e)
  PROVE  /\ new \in Builder /\ DistinctOK(new, k)
         /\ new.values # b.values => new.values # <<>>
         /\ new.values = JsonBuilt!With(b.values, k, e)
  <1>1. b.values \in Seq(Coded) /\ b.distinct \in SUBSET Coded
    BY DEF Builder
  <1>2. \A i \in DOMAIN b.values : b.values[i] \in Coded
    BY <1>1
  <1>3. k \in Multiple /\ k \in Distinct =>
           ((\E i \in DOMAIN b.values : b.values[i] = e) <=> e \in b.distinct)
    BY DEF DistinctOK
  <1> DEFINE Id == [j \in Keys |-> [x \in Values \cup {<<v[1]>> : v \in Values} |-> x]]
  <1>4. \A x \in Coded : Id[k][x] = x
    BY DEF Coded
  <1> HIDE DEF Id
  <1>5. (\E i \in DOMAIN b.values : Id[k][b.values[i]] = Id[k][e]) <=> \E i \in DOMAIN b.values : b.values[i] = e
    BY <1>2, <1>4
  <1>6. PICK s : s = Append(b.values, e)
    OBVIOUS
  <1>7. /\ s \in Seq(Coded) /\ s # <<>> /\ DOMAIN s = DOMAIN b.values \cup {Len(b.values) + 1}
        /\ s[Len(b.values) + 1] = e /\ \A i \in DOMAIN b.values : s[i] = b.values[i]
    BY <1>1, <1>6
  <1>8. <<e>> \in Seq(Coded) /\ <<e>> # <<>>
    OBVIOUS
  <1>9. CASE k \in Multiple /\ k \notin Distinct
    <2>1. new = [b EXCEPT !.values = s]
      BY <1>6, <1>9 DEF JsonMulti
    <2>2. JsonBuilt!With(b.values, k, e) = s
      BY <1>6, <1>9 DEF JsonBuilt!With
    <2> QED
      BY <1>1, <1>7, <1>9, <2>1, <2>2 DEF Builder, DistinctOK
  <1>10. CASE k \in Multiple /\ k \in Distinct /\ e \in b.distinct
    <2>1. new = b
      BY <1>10 DEF JsonMulti
    <2>2. JsonBuilt!With(b.values, k, e) = b.values
      BY <1>3, <1>5, <1>10 DEF JsonBuilt!With, Id
    <2> QED
      BY <2>1, <2>2
  <1>11. CASE k \in Multiple /\ k \in Distinct /\ e \notin b.distinct
    <2>1. new = [values |-> s, distinct |-> b.distinct \cup {e}]
      BY <1>6, <1>11 DEF JsonMulti
    <2>2. JsonBuilt!With(b.values, k, e) = s
      BY <1>3, <1>5, <1>6, <1>11 DEF JsonBuilt!With, Id
    <2>3. b.distinct \cup {e} = {s[i] : i \in DOMAIN s}
      BY <1>7, <1>11 DEF DistinctOK
    <2> QED
      BY <1>1, <1>7, <2>1, <2>2, <2>3 DEF Builder, DistinctOK
  <1>12. CASE k \notin Multiple
    <2>1. new = IF k \in Locked /\ b.values # <<>> THEN b ELSE [b EXCEPT !.values = <<e>>]
      BY <1>12 DEF JsonSingle
    <2>2. JsonBuilt!With(b.values, k, e) = IF k \in Locked /\ b.values # <<>> THEN b.values ELSE <<e>>
      BY <1>12 DEF JsonBuilt!With
    <2>3. CASE k \in Locked /\ b.values # <<>>
      BY <1>12, <2>1, <2>2, <2>3
    <2>4. CASE ~(k \in Locked /\ b.values # <<>>)
      <3>1. new = [b EXCEPT !.values = <<e>>]
        BY <2>1, <2>4
      <3>2. new \in Builder /\ new.values = <<e>>
        BY <1>1, <1>8, <3>1 DEF Builder
      <3> QED
        BY <1>8, <1>12, <2>2, <2>4, <3>2 DEF DistinctOK
    <2> QED
      BY <2>3, <2>4
  <1> QED
    BY <1>9, <1>10, <1>11, <1>12

(* A value is encoded into the builder. *)
LEMMA JsonSetFacts ==
  ASSUME JsonInv, NEW p \in Procs, NEW kind, JsonSet(p, kind)
  PROVE  \E k \in Keys, e \in Coded, new \in Builder :
            /\ k = Key(p) /\ e = JsonEncoded(KindOf[k], Value(p))
            /\ at[p] = "encode" /\ at' = [at EXCEPT ![p] = "return"]
            /\ builder' = [builder EXCEPT ![k] = new]
            /\ DistinctOK(new, k)
            /\ new.values # builder[k].values => new.values # <<>>
            /\ new.values = JsonBuilt!With(builder[k].values, k, e)
            /\ given' \in [Keys -> Seq(Values)]
            /\ UNCHANGED <<used, call, output, defined>>
  <1>1. /\ CallsOK(JsonPlaces) /\ builder \in [Keys -> Builder]
        /\ \A k \in Keys : DistinctOK(builder[k], k)
    BY DEF JsonInv, JsonTypeOK
  <1>2. at[p] = "encode" /\ KindOf[Key(p)] = kind
    BY DEF JsonSet
  <1>3. PICK k \in Keys, v \in Values : k = Key(p) /\ v = Value(p)
    BY <1>1, <1>2 DEF CallsOK
  <1>4. PICK e \in Coded : e = JsonEncoded(kind, v)
    BY EncodingIsCoded
  <1>5. PICK b \in Builder : b = builder[k] /\ DistinctOK(b, k)
    BY <1>1
  <1>6. PICK new : new = IF k \in Multiple THEN JsonMulti(b, k, e) ELSE JsonSingle(b, k, e)
    OBVIOUS
  <1>7. /\ new \in Builder /\ DistinctOK(new, k)
        /\ new.values # b.values => new.values # <<>>
        /\ new.values = JsonBuilt!With(b.values, k, e)
    BY <1>5, <1>6, JsonKept
  <1>8. builder' = [builder EXCEPT ![k] = new]
    BY <1>2, <1>3, <1>4, <1>5, <1>6 DEF JsonSet
  <1>9. given' = [given EXCEPT ![k] = Append(given[k], v)]
    BY <1>3 DEF JsonSet, TakeEffect
  <1>10. given' \in [Keys -> Seq(Values)]
    BY <1>1, <1>9 DEF CallsOK
  <1>11. at' = [at EXCEPT ![p] = "return"] /\ UNCHANGED <<used, call, output, defined>>
    BY DEF JsonSet, Go
  <1> QED
    BY <1>2, <1>3, <1>4, <1>5, <1>7, <1>8, <1>10, <1>11

(* Giving a value to the builder of the attribute keeps the invariant. *)
LEMMA JsonSetInv ==
  ASSUME JsonInv, NEW p \in Procs, NEW kind, JsonSet(p, kind)
  PROVE  JsonInv'
  <1>t. CallsOK(JsonPlaces) /\ builder \in [Keys -> Builder]
    BY DEF JsonInv, JsonTypeOK
  <1>1. PICK k \in Keys, new \in Builder :
            /\ k = Key(p)
            /\ at[p] = "encode" /\ at' = [at EXCEPT ![p] = "return"]
            /\ builder' = [builder EXCEPT ![k] = new]
            /\ DistinctOK(new, k)
            /\ given' \in [Keys -> Seq(Values)]
            /\ UNCHANGED <<used, call, output, defined>>
    BY JsonSetFacts
  <1>2. \A q : Key(q)' = Key(q) /\ Value(q)' = Value(q)
    BY <1>1 DEF Key, Value
  <1>3. at'[p] = "return" /\ \A q \in Procs \ {p} : at'[q] = at[q]
    BY <1>1, <1>t DEF CallsOK
  <1>4. CallsOK(JsonPlaces)'
    BY <1>t, <1>1, <1>2 DEF CallsOK, JsonPlaces
  <1>5. \A j : Announced(j) => Announced(j)'
    BY <1>1, <1>2, <1>3 DEF Announced
  <1>6. Announced(k)
    BY <1>1 DEF JsonInv
  <1>7. builder' \in [Keys -> Builder] /\ builder'[k] = new /\ \A j \in Keys \ {k} : builder'[j] = builder[j]
    BY <1>t, <1>1
  <1>8. \A j \in Keys : DistinctOK(builder'[j], j) /\ (builder'[j].values # <<>> => Announced(j))
    BY <1>1, <1>6, <1>7 DEF JsonInv
  <1> QED
    BY <1>1, <1>2, <1>3, <1>4, <1>5, <1>7, <1>8 DEF JsonInv, JsonTypeOK

(* MetadataX returns. *)
LEMMA JsonReturnInv ==
  ASSUME JsonInv, NEW p \in Procs, JsonReturn(p)
  PROVE  JsonInv'
  <1>t. CallsOK(JsonPlaces)
    BY DEF JsonInv, JsonTypeOK
  <1>1. /\ at[p] = "return" /\ at' = [at EXCEPT ![p] = "idle"] /\ call' = [call EXCEPT ![p] = <<>>]
        /\ UNCHANGED <<used, given, output, defined, builder>>
    BY DEF JsonReturn, Leave, Go, jsonVars
  <1>2. at'[p] = "idle" /\ \A q \in Procs \ {p} : at'[q] = at[q] /\ call'[q] = call[q]
    BY <1>t, <1>1 DEF CallsOK
  <1>3. \A q \in Procs \ {p} : Key(q)' = Key(q) /\ Value(q)' = Value(q)
    BY <1>2 DEF Key, Value
  <1>4. CallsOK(JsonPlaces)'
    BY <1>t, <1>1, <1>2, <1>3 DEF CallsOK
  <1>5. \A k : Announced(k) => Announced(k)'
    BY <1>1, <1>2, <1>3 DEF Announced
  <1> QED
    BY <1>1, <1>2, <1>3, <1>4, <1>5 DEF JsonInv, JsonTypeOK

(* A record has what the builder has. *)
LEMMA JsonAppendInv ==
  ASSUME JsonInv, JsonAppend
  PROVE  JsonInv'
  <1>t. CallsOK(JsonPlaces) /\ output \in Seq(Entry) /\ builder \in [Keys -> Builder]
    BY DEF JsonInv, JsonTypeOK
  <1>1. UNCHANGED <<used, at, call, given, defined, builder>>
    BY DEF JsonAppend, jsonVars
  <1>2. PICK e : e = [record |-> [k \in Keys |-> builder[k].values], told |-> given]
    OBVIOUS
  <1>3. /\ e \in Entry /\ IsRecord(e) /\ DOMAIN e = {"record", "told"}
        /\ \A k \in Keys : e.record[k] = builder[k].values
    BY <1>t, <1>2 DEF Entry, IsRecord, CallsOK, Builder
  <1>4. /\ output' \in Seq(Entry) /\ DOMAIN output' = DOMAIN output \cup {Len(output) + 1}
        /\ output'[Len(output) + 1] = e
        /\ \A i \in DOMAIN output : output'[i] = output[i]
    BY <1>t, <1>2, <1>3, OutputGrows DEF JsonAppend
  <1>5. JsonDefinitions(output') = JsonDefinitions(output)
    BY <1>3, <1>4 DEF JsonDefinitions
  <1>6. \A q : Key(q)' = Key(q) /\ Value(q)' = Value(q)
    BY <1>1 DEF Key, Value
  <1>7. \A k : Announced(k) => Announced(k)'
    BY <1>1, <1>5, <1>6 DEF Announced
  <1>8. CallsOK(JsonPlaces)'
    BY <1>t, <1>1, <1>6 DEF CallsOK
  <1> QED
    BY <1>1, <1>3, <1>4, <1>6, <1>7, <1>8 DEF JsonInv, JsonTypeOK

(* Every step of the JSON base logger keeps the invariant. *)
LEMMA JsonInvStep == JsonInv /\ JsonStep => JsonInv'
  BY JsonEnterInv, JsonDefineInv, JsonWriteInv, JsonSetInv, JsonReturnInv, JsonAppendInv
  DEF JsonStep, JsonSetAny, JsonSetBool, JsonSetEnum, JsonSetFloat64, JsonSetInt64, JsonSetLink,
      JsonSetString, JsonSetTime

-----------------------------------------------------------------------------
(* The console. *)

Announces(k) == \E i \in DOMAIN output : output[i] = [def |-> k]

ConsolePlaces == {"print", "printed"}

ConsoleTypeOK ==
    /\ CallsOK(ConsolePlaces)
    /\ lines \in [Keys -> Builder]
    /\ output \in Seq(Entry)

ConsoleInv ==
    /\ ConsoleTypeOK
    /\ \A k \in Keys : DistinctOK(lines[k], k)
    /\ \A k \in Keys : lines[k].values # <<>> => Announces(k)
    /\ ConsoleReplayable

(* The console base logger begins with no builder and no definition. *)
LEMMA ConsoleInvInit == CallsInit /\ ConsoleInit => ConsoleInv
  BY AttributeCallsAssumption
  DEF AttributeCallsAssumption, CallsInit, ConsoleInit, ConsoleInv, ConsoleTypeOK, CallsOK, Builder,
      DistinctOK, ConsoleReplayable

(* Idle is no place inside a call. *)
LEMMA ConsolePlacesFact == "idle" \notin ConsolePlaces
  BY DEF ConsolePlaces

(* The invariant speaks of what is kept and written only. *)
LEMMA ConsoleCallsInv ==
  ASSUME ConsoleInv, CallsOK(ConsolePlaces)', UNCHANGED <<lines, output>>
  PROVE  ConsoleInv'
  BY DEF ConsoleInv, ConsoleTypeOK, Announces, ConsoleReplayable

(* The call of a MetadataX method keeps the invariant. *)
LEMMA ConsoleEnterInv ==
  ASSUME ConsoleInv, NEW p \in Procs, ConsoleMetadata(p)
  PROVE  ConsoleInv'
  <1>1. PICK kind \in Kinds : Enter(p, kind, "print")
    BY DEF ConsoleMetadata
  <1>2. CallsOK(ConsolePlaces) /\ "print" \in ConsolePlaces
    BY DEF ConsoleInv, ConsoleTypeOK, ConsolePlaces
  <1>3. CallsOK(ConsolePlaces)' /\ output' = output
    BY <1>1, <1>2, CallEntered, ConsolePlacesFact
  <1> QED
    BY <1>3, ConsoleCallsInv DEF ConsoleMetadata

(* The return of a MetadataX method keeps the invariant. *)
LEMMA ConsoleReturnInv ==
  ASSUME ConsoleInv, NEW p \in Procs, ConsoleReturn(p)
  PROVE  ConsoleInv'
  <1>t. CallsOK(ConsolePlaces)
    BY DEF ConsoleInv, ConsoleTypeOK
  <1>1. /\ at' = [at EXCEPT ![p] = "idle"] /\ call' = [call EXCEPT ![p] = <<>>]
        /\ UNCHANGED <<used, given, output, lines>>
    BY DEF ConsoleReturn, Leave, Go
  <1>2. at'[p] = "idle" /\ \A q \in Procs \ {p} : at'[q] = at[q] /\ call'[q] = call[q]
    BY <1>t, <1>1 DEF CallsOK
  <1>3. \A q \in Procs \ {p} : Key(q)' = Key(q) /\ Value(q)' = Value(q)
    BY <1>2 DEF Key, Value
  <1>4. CallsOK(ConsolePlaces)'
    BY <1>t, <1>1, <1>2, <1>3 DEF CallsOK
  <1> QED
    BY <1>1, <1>4, ConsoleCallsInv

(* The console keeps of a value more what Metadata keeps. *)
LEMMA ConsoleKept ==
  ASSUME NEW k \in Keys, NEW e \in Coded, NEW b \in Builder, DistinctOK(b, k),
         NEW new, new = IF k \in Multiple THEN ConsoleMulti(b, k, e) ELSE ConsoleSingle(b, k, e)
  PROVE  /\ new \in Builder /\ DistinctOK(new, k)
         /\ new.values = ConsoleBuilt!With(b.values, k, e)
  <1>1. b.values \in Seq(Coded) /\ b.distinct \in SUBSET Coded
    BY DEF Builder
  <1>2. \A i \in DOMAIN b.values : b.values[i] \in Coded
    BY <1>1
  <1>3. k \in Multiple /\ k \in Distinct =>
           ((\E i \in DOMAIN b.values : b.values[i] = e) <=> e \in b.distinct)
    BY DEF DistinctOK
  <1> DEFINE Id == [j \in Keys |-> [x \in Values \cup {<<v[1]>> : v \in Values} |-> x]]
  <1>4. \A x \in Coded : Id[k][x] = x
    BY DEF Coded
  <1> HIDE DEF Id
  <1>5. (\E i \in DOMAIN b.values : Id[k][b.values[i]] = Id[k][e]) <=> \E i \in DOMAIN b.values : b.values[i] = e
    BY <1>2, <1>4
  <1>6. PICK s : s = Append(b.values, e)
    OBVIOUS
  <1>7. /\ s \in Seq(Coded) /\ DOMAIN s = DOMAIN b.values \cup {Len(b.values) + 1}
        /\ s[Len(b.values) + 1] = e /\ \A i \in DOMAIN b.values : s[i] = b.values[i]
    BY <1>1, <1>6
  <1>8. <<e>> \in Seq(Coded)
    OBVIOUS
  <1>9. CASE k \in Multiple /\ k \in Distinct /\ e \in b.distinct
    <2>1. new = b
      BY <1>9 DEF ConsoleMulti
    <2>2. ConsoleBuilt!With(b.values, k, e) = b.values
      BY <1>3, <1>5, <1>9 DEF ConsoleBuilt!With, Id
    <2> QED
      BY <2>1, <2>2
  <1>10. CASE k \in Multiple /\ ~(k \in Distinct /\ e \in b.distinct)
    <2>1. new = [values |-> s, distinct |-> IF k \in Distinct THEN b.distinct \cup {e} ELSE {}]
      BY <1>6, <1>10 DEF ConsoleMulti
    <2>2. ConsoleBuilt!With(b.values, k, e) = s
      BY <1>3, <1>5, <1>6, <1>10 DEF ConsoleBuilt!With, Id
    <2>3. k \in Distinct => b.distinct \cup {e} = {s[i] : i \in DOMAIN s}
      BY <1>7, <1>10 DEF DistinctOK
    <2> QED
      BY <1>1, <1>7, <2>1, <2>2, <2>3 DEF Builder, DistinctOK
  <1>11. CASE k \notin Multiple /\ k \in Locked /\ b.values # <<>>
    <2>1. new = b
      BY <1>11 DEF ConsoleSingle
    <2>2. ConsoleBuilt!With(b.values, k, e) = b.values
      BY <1>11 DEF ConsoleBuilt!With
    <2> QED
      BY <2>1, <2>2
  <1>12. CASE k \notin Multiple /\ ~(k \in Locked /\ b.values # <<>>)
    <2>1. new = [b EXCEPT !.values = <<e>>]
      BY <1>12 DEF ConsoleSingle
    <2>2. ConsoleBuilt!With(b.values, k, e) = <<e>>
      BY <1>12 DEF ConsoleBuilt!With
    <2>3. new \in Builder /\ new.values = <<e>>
      BY <1>1, <1>8, <2>1 DEF Builder
    <2> QED
      BY <1>12, <2>2, <2>3 DEF DistinctOK
  <1> QED
    BY <1>9, <1>10, <1>11, <1>12

(* What giving a value to the builder of a console span changes. *)
LEMMA ConsoleSetFacts ==
  ASSUME ConsoleInv, NEW p \in Procs, NEW kind, ConsoleSet(p, kind)
  PROVE  \E k \in Keys, e \in Coded, new \in Builder :
            /\ k = Key(p) /\ e = ConsoleEncoded(KindOf[k], Value(p))
            /\ at[p] = "print" /\ at' = [at EXCEPT ![p] = "printed"]
            /\ lines' = [lines EXCEPT ![k] = new]
            /\ DistinctOK(new, k)
            /\ new.values = ConsoleBuilt!With(lines[k].values, k, e)
            /\ given' \in [Keys -> Seq(Values)]
            /\ DefineKey(k)
            /\ UNCHANGED <<used, call>>
  <1>1. /\ CallsOK(ConsolePlaces) /\ lines \in [Keys -> Builder]
        /\ \A k \in Keys : DistinctOK(lines[k], k)
    BY DEF ConsoleInv, ConsoleTypeOK
  <1>2. at[p] = "print" /\ KindOf[Key(p)] = kind
    BY DEF ConsoleSet
  <1>3. PICK k \in Keys, v \in Values : k = Key(p) /\ v = Value(p)
    BY <1>1, <1>2 DEF CallsOK
  <1>4. PICK e \in Coded : e = ConsoleEncoded(kind, v)
    BY EncodingIsCoded
  <1>5. PICK b \in Builder : b = lines[k] /\ DistinctOK(b, k)
    BY <1>1
  <1>6. PICK new : new = IF k \in Multiple THEN ConsoleMulti(b, k, e) ELSE ConsoleSingle(b, k, e)
    OBVIOUS
  <1>7. /\ new \in Builder /\ DistinctOK(new, k)
        /\ new.values = ConsoleBuilt!With(b.values, k, e)
    BY <1>5, <1>6, ConsoleKept
  <1>8. lines' = [lines EXCEPT ![k] = new] /\ DefineKey(k)
    BY <1>2, <1>3, <1>4, <1>5, <1>6 DEF ConsoleSet
  <1>9. given' = [given EXCEPT ![k] = Append(given[k], v)]
    BY <1>3 DEF ConsoleSet, TakeEffect
  <1>10. given' \in [Keys -> Seq(Values)]
    BY <1>1, <1>9 DEF CallsOK
  <1>11. at' = [at EXCEPT ![p] = "printed"] /\ UNCHANGED <<used, call>>
    BY DEF ConsoleSet, Go
  <1> QED
    BY <1>2, <1>3, <1>4, <1>5, <1>7, <1>8, <1>10, <1>11

(* The first value of a key comes with the definition of the key. *)
LEMMA ConsoleSetInv ==
  ASSUME ConsoleInv, NEW p \in Procs, NEW kind, ConsoleSet(p, kind)
  PROVE  ConsoleInv'
  <1>t. CallsOK(ConsolePlaces) /\ lines \in [Keys -> Builder] /\ output \in Seq(Entry)
    BY DEF ConsoleInv, ConsoleTypeOK
  <1>1. PICK k \in Keys, new \in Builder :
            /\ at' = [at EXCEPT ![p] = "printed"] /\ at[p] = "print"
            /\ lines' = [lines EXCEPT ![k] = new]
            /\ DistinctOK(new, k)
            /\ given' \in [Keys -> Seq(Values)]
            /\ DefineKey(k)
            /\ UNCHANGED <<used, call>>
    BY ConsoleSetFacts
  <1>2. \A q : Key(q)' = Key(q) /\ Value(q)' = Value(q)
    BY <1>1 DEF Key, Value
  <1>3. CallsOK(ConsolePlaces)'
    BY <1>t, <1>1, <1>2 DEF CallsOK, ConsolePlaces
  <1>4. PICK e : e = [def |-> k]
    OBVIOUS
  <1>5. e \in Entry /\ ~IsRecord(e)
    BY <1>4 DEF Entry, IsRecord
  <1>6. /\ output' \in Seq(Entry) /\ DOMAIN output \subseteq DOMAIN output'
        /\ \A i \in DOMAIN output : output'[i] = output[i]
        /\ \A i \in DOMAIN output' \ DOMAIN output : ~IsRecord(output'[i])
        /\ (\E i \in DOMAIN output' : output'[i] = e) \/ Announces(k)
    <2>1. CASE lines[k].values = <<>>
      <3>1. Write(e)
        BY <1>1, <1>4, <2>1 DEF DefineKey
      <3> QED
        BY <1>t, <1>5, <3>1, OutputGrows
    <2>2. CASE lines[k].values # <<>>
      <3>1. output' = output
        BY <1>1, <2>2 DEF DefineKey
      <3> QED
        BY <1>t, <2>2, <3>1 DEF ConsoleInv
    <2> QED
      BY <2>1, <2>2
  <1>7. (\A j : Announces(j) => Announces(j)') /\ Announces(k)'
    BY <1>4, <1>6 DEF Announces
  <1>8. lines' \in [Keys -> Builder] /\ lines'[k] = new /\ \A j \in Keys \ {k} : lines'[j] = lines[j]
    BY <1>t, <1>1
  <1>9. \A j \in Keys : DistinctOK(lines'[j], j) /\ (lines'[j].values # <<>> => Announces(j)')
    BY <1>1, <1>7, <1>8 DEF ConsoleInv
  <1>10. ConsoleReplayable'
    <2> SUFFICES ASSUME NEW i \in DOMAIN output', IsRecord(output'[i]), NEW j \in Keys,
                        output'[i].record[j] # <<>>
                 PROVE  \E h \in 1 .. i - 1 : output'[h] = [def |-> j]
      BY DEF ConsoleReplayable, IsRecord
    <2>1. i \in DOMAIN output /\ output'[i] = output[i]
      BY <1>6
    <2>2. PICK h \in 1 .. i - 1 : output[h] = [def |-> j]
      BY <2>1 DEF ConsoleInv, ConsoleReplayable, IsRecord
    <2>3. h \in DOMAIN output
      BY <1>t, <2>1
    <2> QED
      BY <1>6, <2>2, <2>3
  <1> QED
    BY <1>3, <1>6, <1>8, <1>9, <1>10 DEF ConsoleInv, ConsoleTypeOK

(* What a record has was defined before. *)
LEMMA ConsoleAppendInv ==
  ASSUME ConsoleInv, ConsoleAppend
  PROVE  ConsoleInv'
  <1>t. CallsOK(ConsolePlaces) /\ output \in Seq(Entry) /\ lines \in [Keys -> Builder]
    BY DEF ConsoleInv, ConsoleTypeOK
  <1>1. UNCHANGED <<used, at, call, given, lines>>
    BY DEF ConsoleAppend
  <1>2. PICK e : e = [record |-> [k \in Keys |-> lines[k].values], told |-> given]
    OBVIOUS
  <1>3. e \in Entry /\ \A k \in Keys : e.record[k] = lines[k].values
    BY <1>t, <1>2 DEF Entry, CallsOK, Builder
  <1>4. PICK n : n = Len(output) + 1
    OBVIOUS
  <1>5. /\ output' \in Seq(Entry) /\ DOMAIN output' = DOMAIN output \cup {n} /\ n \in Nat
        /\ output'[n] = e
        /\ \A i \in DOMAIN output : output'[i] = output[i] /\ i \in 1 .. n - 1
    <2>1. Write(e)
      BY <1>2 DEF ConsoleAppend
    <2>2. Len(output) \in Nat /\ DOMAIN output = 1 .. Len(output)
      BY <1>t
    <2>3. n \in Nat /\ \A i \in DOMAIN output : i \in 1 .. n - 1
      BY <1>4, <2>2
    <2>4. /\ output' \in Seq(Entry) /\ DOMAIN output' = DOMAIN output \cup {Len(output) + 1}
          /\ output'[Len(output) + 1] = e
          /\ \A i \in DOMAIN output : output'[i] = output[i]
      BY <1>t, <1>3, <2>1, OutputGrows
    <2> QED
      BY <1>4, <2>3, <2>4
  <1>6. \A k : Announces(k) => Announces(k)'
    BY <1>5 DEF Announces
  <1>7. ConsoleReplayable'
    <2> SUFFICES ASSUME NEW i \in DOMAIN output', IsRecord(output'[i]), NEW j \in Keys,
                        output'[i].record[j] # <<>>
                 PROVE  \E h \in 1 .. i - 1 : output'[h] = [def |-> j]
      BY DEF ConsoleReplayable, IsRecord
    <2>1. CASE i \in DOMAIN output
      <3>1. PICK h \in 1 .. i - 1 : output[h] = [def |-> j]
        BY <1>5, <2>1 DEF ConsoleInv, ConsoleReplayable, IsRecord
      <3>2. h \in DOMAIN output
        BY <1>t, <2>1
      <3> QED
        BY <1>5, <3>1, <3>2
    <2>2. CASE i = n
      <3>1. lines[j].values # <<>>
        BY <1>3, <1>5, <2>2
      <3>2. PICK h \in DOMAIN output : output[h] = [def |-> j]
        BY <3>1 DEF ConsoleInv, Announces
      <3> QED
        BY <1>5, <2>2, <3>2
    <2> QED
      BY <1>5, <2>1, <2>2
  <1>8. \A q : Key(q)' = Key(q) /\ Value(q)' = Value(q)
    BY <1>1 DEF Key, Value
  <1>9. CallsOK(ConsolePlaces)'
    BY <1>t, <1>1, <1>8 DEF CallsOK
  <1> QED
    BY <1>1, <1>5, <1>6, <1>7, <1>9 DEF ConsoleInv, ConsoleTypeOK

(* Every step of the console base logger keeps the invariant. *)
LEMMA ConsoleInvStep == ConsoleInv /\ ConsoleStep => ConsoleInv'
  BY ConsoleEnterInv, ConsoleReturnInv, ConsoleSetInv, ConsoleAppendInv
  DEF ConsoleStep, ConsoleSetAny, ConsoleSetBool, ConsoleSetEnum, ConsoleSetFloat64, ConsoleSetInt64,
      ConsoleSetLink, ConsoleSetString, ConsoleSetTime

-----------------------------------------------------------------------------
(* The base loggers together: each behaviour is about one of them. *)
PbPlaces == {"append", "appended"}

AttributesInv ==
    /\ base \in {"recorder", "json", "console", "pb"}
    /\ base = "recorder" => MetadataInv
    /\ base = "json" => JsonInv
    /\ base = "console" => ConsoleInv
    /\ base = "pb" => at \in [Procs -> {"idle"} \cup PbPlaces]

(* The composition begins in a state of the invariant. *)
LEMMA AttributesInit == Init => AttributesInv
  BY BasesAssumption, MetadataInitInv, JsonInvInit, ConsoleInvInit
  DEF BasesAssumption, Init, AttributesInv, CallsInit

(* The protobuf base logger has goroutines at its own places only. *)
LEMMA PbStepInv ==
  ASSUME at \in [Procs -> {"idle"} \cup PbPlaces], PbStep
  PROVE  at' \in [Procs -> {"idle"} \cup PbPlaces]
  BY DEF PbPlaces, PbStep, PbMetadata, PbReturn, PbSetAny, PbSetBool, PbSetEnum, PbSetFloat64,
         PbSetInt64, PbSetLink, PbSetString, PbSetTime, PbSet, PbCopy, Enter, Leave, Go

(* Every step of the composition keeps the invariant. *)
LEMMA AttributesNext == AttributesInv /\ Next => AttributesInv'
  <1> SUFFICES ASSUME AttributesInv, Next PROVE AttributesInv'
    OBVIOUS
  <1>1. CASE base = "recorder" /\ base' = base /\ \E p \in Procs : MetadataStep(p)
    BY <1>1, MetadataStepInv DEF AttributesInv
  <1>2. CASE base = "json" /\ base' = base /\ JsonStep
    BY <1>2, JsonInvStep DEF AttributesInv
  <1>3. CASE base = "console" /\ base' = base /\ ConsoleStep
    BY <1>3, ConsoleInvStep DEF AttributesInv
  <1>4. CASE base = "pb" /\ base' = base /\ PbStep
    BY <1>4, PbStepInv DEF AttributesInv
  <1> QED
    BY <1>1, <1>2, <1>3, <1>4 DEF Next

(* So does a step of nothing. *)
LEMMA AttributesStutter == AttributesInv /\ UNCHANGED attributeVars => AttributesInv'
  <1> SUFFICES ASSUME AttributesInv, UNCHANGED attributeVars PROVE AttributesInv'
    OBVIOUS
  <1>1. UNCHANGED <<base, callVars, metadataVars, jsonVars, lines>>
    BY DEF attributeVars
  <1>2. MetadataInv => MetadataInv'
    BY <1>1 DEF callVars, metadataVars, MetadataInv, MetadataTypeOK, MutexHeld, Inside,
                WaitsForStored, StoredFilled, NewIsEmpty, Filled, Fills, Key, Value
  <1>3. UNCHANGED <<used, at, call, given, output, defined, builder, lines, base>>
    BY <1>1 DEF callVars, jsonVars
  <1>4. \A places : CallsOK(places) => CallsOK(places)'
    BY <1>3 DEF CallsOK, Key, Value
  <1>5. JsonInv => JsonInv'
    BY <1>3, <1>4 DEF JsonInv, JsonTypeOK, Announced, Key
  <1>6. ConsoleInv => ConsoleInv'
    BY <1>3, <1>4, ConsoleCallsInv DEF ConsoleInv, ConsoleTypeOK
  <1> QED
    BY <1>2, <1>3, <1>5, <1>6 DEF AttributesInv

(* What each base logger's proof relies on, together. *)
THEOREM AttributesInvariant == Spec => []AttributesInv
  <1>1. AttributesInv /\ [Next]_attributeVars => AttributesInv'
    BY AttributesNext, AttributesStutter
  <1> QED
    BY <1>1, AttributesInit, PTL DEF Spec

(* A base logger that is not there has nobody in its steps. *)
Apart ==
    \A p \in Procs :
        /\ base # "recorder" => at[p] \notin MetadataPlaces
        /\ base # "json" => at[p] \notin JsonPlaces
        /\ base # "console" => at[p] \notin ConsolePlaces

(* A goroutine is inside the base logger that the run is about, and in no
   other. *)
LEMMA Elsewhere == AttributesInv => Apart
  <1> SUFFICES ASSUME AttributesInv PROVE Apart
    OBVIOUS
  <1> USE DEF Apart
  <1>1. CASE base = "recorder"
    BY <1>1 DEF AttributesInv, MetadataInv, MetadataTypeOK, Places, MetadataPlaces, JsonPlaces,
                ConsolePlaces
  <1>2. CASE base = "json"
    BY <1>2 DEF AttributesInv, JsonInv, JsonTypeOK, CallsOK, MetadataPlaces, JsonPlaces, ConsolePlaces
  <1>3. CASE base = "console"
    BY <1>3 DEF AttributesInv, ConsoleInv, ConsoleTypeOK, CallsOK, MetadataPlaces, JsonPlaces,
                ConsolePlaces
  <1>4. CASE base = "pb"
    BY <1>4 DEF AttributesInv, PbPlaces, MetadataPlaces, JsonPlaces, ConsolePlaces
  <1> QED
    BY <1>1, <1>2, <1>3, <1>4 DEF AttributesInv

-----------------------------------------------------------------------------
(* In JSON no entry of the output uses an attribute without a definition,  *)
(* once nothing is being written; in the console the definition comes      *)
(* before.                                                                 *)
LEMMA InvReplayable == AttributesInv => Replayable
  <1> SUFFICES ASSUME AttributesInv PROVE Replayable
    OBVIOUS
  <1>1. ASSUME base = "json", \A p \in Procs : at[p] = "idle"
        PROVE  JsonReplayable
    BY <1>1 DEF AttributesInv, JsonInv, JsonReplayable, Announced, IsRecord
  <1>2. ASSUME base = "console" PROVE ConsoleReplayable
    BY <1>2 DEF AttributesInv, ConsoleInv
  <1> QED
    BY <1>1, <1>2 DEF Replayable

(* DefineAttribute of the JSON request, and defineKey of the console's     *)
(* builder, run before the value is kept: a reader finds the definition of *)
(* every attribute of every record.                                        *)
THEOREM DefinitionsAreFound == Spec => []Replayable
  BY AttributesInvariant, InvReplayable, PTL

-----------------------------------------------------------------------------
(* The recorder implements Metadata when it is the base logger, and the    *)
(* steps of the others leave its trackers alone.                           *)
LEMMA RecorderStays ==
  ASSUME Apart, Apart', base # "recorder", base' = base, UNCHANGED metadataVars
  PROVE  UNCHANGED Recorded!vars
  <1>1. \A p \in Procs : at[p] \notin MetadataPlaces /\ at'[p] \notin MetadataPlaces
    BY DEF Apart
  <1>2. setting' = setting
    BY <1>1 DEF setting
  <1>3. taken' = taken
    BY <1>1 DEF taken, MetadataPlaces
  <1>4. kept' = kept
    BY DEF kept, metadataVars
  <1> QED
    BY <1>2, <1>3, <1>4 DEF Recorded!vars, setting, taken, kept

(* The trackers of xopbaseutil hold what Metadata keeps, under MetadataX   *)
(* of the recorder, in the composition of the base loggers as well.        *)
THEOREM RecorderImplements == Spec => RecorderKeeps
  <1>1. Init => Recorded!Init
    BY MetadataInitMaps DEF Init
  <1>2. AttributesInv /\ Apart /\ Apart' /\ [Next]_attributeVars => [Recorded!Next]_Recorded!vars
    <2> SUFFICES ASSUME AttributesInv, Apart, Apart', [Next]_attributeVars
                 PROVE  Recorded!Next \/ UNCHANGED Recorded!vars
      OBVIOUS
    <2>1. CASE base = "recorder" /\ \E p \in Procs : MetadataStep(p)
      BY <2>1, MetadataStepMaps DEF AttributesInv
    <2>2. CASE base # "recorder" /\ base' = base /\ UNCHANGED metadataVars
      BY <2>2, RecorderStays
    <2>3. CASE UNCHANGED attributeVars
      BY <2>3 DEF attributeVars, callVars, metadataVars, Recorded!vars
    <2> QED
      BY <2>1, <2>2, <2>3 DEF Next
  <1>3. AttributesInv => Apart
    BY Elsewhere
  <1> QED
    BY <1>1, <1>2, <1>3, AttributesInvariant, PTL DEF Spec, RecorderKeeps, Recorded!Spec

-----------------------------------------------------------------------------
(* JSON: a call begins in MetadataX, takes effect when the builder encodes *)
(* it, and ends when MetadataX returns.                                    *)
jsonSetting ==
    [p \in Procs |-> IF at[p] \in JsonPlaces
                     THEN <<Key(p), JsonEncoded(KindOf[Key(p)], Value(p))>> ELSE <<>>]
jsonTaken == {p \in Procs : at[p] = "return"}
jsonKept  == [k \in Keys |-> builder[k].values]

(* A call of the JSON base logger begins one of Metadata. *)
LEMMA JsonBegins ==
  ASSUME JsonInv, NEW p \in Procs, JsonMetadata(p)
  PROVE  JsonBuilt!Next
  <1>t. CallsOK(JsonPlaces) /\ "define" \in JsonPlaces
    BY DEF JsonInv, JsonTypeOK, JsonPlaces
  <1>1. PICK kind \in Kinds : Enter(p, kind, "define")
    BY DEF JsonMetadata
  <1>2. /\ at[p] = "idle" /\ at' = [at EXCEPT ![p] = "define"]
        /\ \A q \in Procs \ {p} : at'[q] = at[q] /\ Key(q)' = Key(q) /\ Value(q)' = Value(q)
        /\ Key(p)' \in Keys /\ Value(p)' \in Values
    BY <1>t, <1>1, CallEntered, JsonPlacesFact
  <1>3. PICK k \in Keys, v \in Values : k = Key(p)' /\ v = Value(p)'
    BY <1>2
  <1>4. PICK e \in Coded : e = JsonEncoded(KindOf[k], v)
    BY EncodingIsCoded
  <1>5. at'[p] = "define" /\ at'[p] \in JsonPlaces /\ at[p] \notin JsonPlaces
    BY <1>t, <1>2 DEF CallsOK, JsonPlaces
  <1>6. jsonSetting[p] = <<>>
    BY <1>5 DEF jsonSetting
  <1>7. \A q \in Procs : jsonSetting'[q] = IF q = p THEN <<k, e>> ELSE jsonSetting[q]
    BY <1>2, <1>3, <1>4, <1>5 DEF jsonSetting
  <1>8. jsonSetting' = [jsonSetting EXCEPT ![p] = <<k, e>>]
    BY <1>7 DEF jsonSetting
  <1>9. jsonTaken' = jsonTaken /\ jsonKept' = jsonKept
    BY <1>2, <1>5 DEF jsonTaken, jsonKept, JsonMetadata, jsonVars
  <1>10. JsonBuilt!Begin(p, k, e)
    BY <1>6, <1>8, <1>9 DEF JsonBuilt!Begin, jsonSetting, jsonTaken, jsonKept
  <1> QED
    BY <1>10 DEF JsonBuilt!Next, Coded

(* Writing the definition of an attribute is nothing that Metadata sees. *)
LEMMA JsonDefines ==
  ASSUME JsonInv, NEW p \in Procs, JsonDefine(p) \/ JsonWriteDefinition(p)
  PROVE  UNCHANGED JsonBuilt!vars
  <1>t. CallsOK(JsonPlaces)
    BY DEF JsonInv, JsonTypeOK
  <1>1. /\ at[p] \in {"define", "write"} /\ at'[p] \in {"write", "encode"}
        /\ \A q \in Procs \ {p} : at'[q] = at[q]
        /\ call' = call /\ builder' = builder
    BY <1>t DEF JsonDefine, JsonWriteDefinition, jsonVars, Go, CallsOK
  <1>2. \A q : Key(q)' = Key(q) /\ Value(q)' = Value(q)
    BY <1>1 DEF Key, Value
  <1>3. jsonSetting' = jsonSetting
    BY <1>1, <1>2 DEF jsonSetting, JsonPlaces
  <1>4. jsonTaken' = jsonTaken /\ jsonKept' = jsonKept
    BY <1>1 DEF jsonTaken, jsonKept
  <1> QED
    BY <1>3, <1>4 DEF JsonBuilt!vars, jsonSetting, jsonTaken, jsonKept

(* Giving the value to the builder is the step at which Metadata records
   it. *)
LEMMA JsonTakes ==
  ASSUME JsonInv, NEW p \in Procs, NEW kind, JsonSet(p, kind)
  PROVE  JsonBuilt!Next
  <1>t. CallsOK(JsonPlaces) /\ builder \in [Keys -> Builder]
    BY DEF JsonInv, JsonTypeOK
  <1>1. PICK k \in Keys, e \in Coded, new \in Builder :
            /\ k = Key(p) /\ e = JsonEncoded(KindOf[k], Value(p))
            /\ at[p] = "encode" /\ at' = [at EXCEPT ![p] = "return"]
            /\ builder' = [builder EXCEPT ![k] = new]
            /\ new.values = JsonBuilt!With(builder[k].values, k, e)
            /\ call' = call
    BY JsonSetFacts
  <1>2. \A q : Key(q)' = Key(q) /\ Value(q)' = Value(q)
    BY <1>1 DEF Key, Value
  <1>3. at'[p] = "return" /\ \A q \in Procs \ {p} : at'[q] = at[q]
    BY <1>t, <1>1 DEF CallsOK
  <1>4. jsonSetting[p] = <<k, e>> /\ jsonSetting' = jsonSetting
    BY <1>1, <1>2, <1>3 DEF jsonSetting, JsonPlaces
  <1>5. p \notin jsonTaken /\ jsonTaken' = jsonTaken \cup {p}
    BY <1>1, <1>3 DEF jsonTaken
  <1>6. builder'[k] = new /\ \A j \in Keys \ {k} : builder'[j] = builder[j]
    BY <1>t, <1>1
  <1>7. \A j \in Keys :
            jsonKept'[j] = IF j = k THEN JsonBuilt!With(jsonKept[k], k, e) ELSE jsonKept[j]
    BY <1>1, <1>6 DEF jsonKept
  <1>8. jsonKept' = [jsonKept EXCEPT ![k] = JsonBuilt!With(@, k, e)]
    BY <1>7 DEF jsonKept
  <1>9. jsonSetting[p] # <<>> /\ jsonSetting[p][1] = k /\ jsonSetting[p][2] = e
    BY <1>4
  <1>10. jsonKept' = [jsonKept EXCEPT ![jsonSetting[p][1]] =
                         JsonBuilt!With(@, jsonSetting[p][1], jsonSetting[p][2])]
    BY <1>8, <1>9
  <1>11. JsonBuilt!Take(p)
    BY <1>4, <1>5, <1>9, <1>10 DEF JsonBuilt!Take, jsonSetting, jsonTaken, jsonKept
  <1> QED
    BY <1>11 DEF JsonBuilt!Next

(* The return is the end of the call of Metadata. *)
LEMMA JsonEnds ==
  ASSUME JsonInv, NEW p \in Procs, JsonReturn(p)
  PROVE  JsonBuilt!Next
  <1>t. CallsOK(JsonPlaces)
    BY DEF JsonInv, JsonTypeOK
  <1>1. /\ at[p] = "return" /\ at'[p] = "idle" /\ builder' = builder
        /\ \A q \in Procs \ {p} : at'[q] = at[q] /\ call'[q] = call[q]
    BY <1>t DEF JsonReturn, Leave, Go, CallsOK, jsonVars
  <1>2. \A q \in Procs \ {p} : Key(q)' = Key(q) /\ Value(q)' = Value(q)
    BY <1>1 DEF Key, Value
  <1>3. p \in jsonTaken /\ jsonTaken' = jsonTaken \ {p} /\ jsonKept' = jsonKept
    BY <1>1 DEF jsonTaken, jsonKept
  <1>4. \A q \in Procs : jsonSetting'[q] = IF q = p THEN <<>> ELSE jsonSetting[q]
    BY <1>1, <1>2 DEF jsonSetting, JsonPlaces
  <1>5. jsonSetting' = [jsonSetting EXCEPT ![p] = <<>>]
    BY <1>4 DEF jsonSetting
  <1>6. JsonBuilt!End(p)
    BY <1>3, <1>5 DEF JsonBuilt!End, jsonSetting, jsonTaken, jsonKept
  <1> QED
    BY <1>6 DEF JsonBuilt!Next

(* Metadata sees calls and builders only. *)
LEMMA JsonSameView ==
  ASSUME UNCHANGED <<at, call, builder>>
  PROVE  UNCHANGED JsonBuilt!vars
  BY DEF JsonBuilt!vars, Key, Value

(* One step of the program with JSON, as Metadata sees it. *)
LEMMA JsonStepMaps ==
  ASSUME JsonInv, JsonStep
  PROVE  JsonBuilt!Next \/ UNCHANGED JsonBuilt!vars
  <1>1. CASE JsonAppend
    BY <1>1, JsonSameView DEF JsonAppend, jsonVars
  <1>2. CASE \E p \in Procs : JsonMetadata(p)
    BY <1>2, JsonBegins
  <1>3. CASE \E p \in Procs : JsonDefine(p) \/ JsonWriteDefinition(p)
    BY <1>3, JsonDefines
  <1>4. CASE \E p \in Procs : JsonReturn(p)
    BY <1>4, JsonEnds
  <1>5. CASE \E p \in Procs, kind \in Kinds : JsonSet(p, kind)
    BY <1>5, JsonTakes
  <1> QED
    BY <1>1, <1>2, <1>3, <1>4, <1>5
    DEF JsonStep, JsonSetAny, JsonSetBool, JsonSetEnum, JsonSetFloat64, JsonSetInt64, JsonSetLink,
        JsonSetString, JsonSetTime, Kinds

(* The other base loggers do nothing that the Metadata of JSON sees. *)
LEMMA JsonStays ==
  ASSUME Apart, Apart', base # "json", base' = base, UNCHANGED jsonVars
  PROVE  UNCHANGED JsonBuilt!vars
  <1>1. \A p \in Procs : at[p] \notin JsonPlaces /\ at'[p] \notin JsonPlaces
    BY DEF Apart
  <1>2. jsonSetting' = jsonSetting
    BY <1>1 DEF jsonSetting
  <1>3. jsonTaken' = jsonTaken
    BY <1>1 DEF jsonTaken, JsonPlaces
  <1>4. jsonKept' = jsonKept
    BY DEF jsonKept, jsonVars
  <1> QED
    BY <1>2, <1>3, <1>4 DEF JsonBuilt!vars, jsonSetting, jsonTaken, jsonKept

(* The beginning is one of Metadata. *)
LEMMA JsonInitMaps == CallsInit /\ JsonInit => JsonBuilt!Init
  BY DEF CallsInit, JsonInit, JsonBuilt!Init, JsonPlaces

(* AttributeBuilder of xopjsonutil, with the definitions written around    *)
(* it, implements Metadata.                                                *)
THEOREM JsonImplements == Spec => JsonKeeps
  <1>1. Init => JsonBuilt!Init
    BY JsonInitMaps DEF Init
  <1>2. AttributesInv /\ Apart /\ Apart' /\ [Next]_attributeVars => [JsonBuilt!Next]_JsonBuilt!vars
    <2> SUFFICES ASSUME AttributesInv, Apart, Apart', [Next]_attributeVars
                 PROVE  JsonBuilt!Next \/ UNCHANGED JsonBuilt!vars
      OBVIOUS
    <2>1. CASE base = "json" /\ JsonStep
      BY <2>1, JsonStepMaps DEF AttributesInv
    <2>2. CASE base # "json" /\ base' = base /\ UNCHANGED jsonVars
      BY <2>2, JsonStays
    <2>3. CASE UNCHANGED attributeVars
      BY <2>3, JsonSameView DEF attributeVars, callVars, jsonVars
    <2> QED
      BY <2>1, <2>2, <2>3 DEF Next
  <1>3. AttributesInv => Apart
    BY Elsewhere
  <1> QED
    BY <1>1, <1>2, <1>3, AttributesInvariant, PTL DEF Spec, JsonKeeps, JsonBuilt!Spec

-----------------------------------------------------------------------------
(* The console: a call takes effect when the builder prints it. *)
consoleSetting ==
    [p \in Procs |-> IF at[p] \in {"print", "printed"}
                     THEN <<Key(p), ConsoleEncoded(KindOf[Key(p)], Value(p))>> ELSE <<>>]
consoleTaken == {p \in Procs : at[p] = "printed"}
consoleKept  == [k \in Keys |-> lines[k].values]

(* A call of the console base logger begins one of Metadata. *)
LEMMA ConsoleBegins ==
  ASSUME ConsoleInv, NEW p \in Procs, ConsoleMetadata(p)
  PROVE  ConsoleBuilt!Next
  <1>t. CallsOK(ConsolePlaces) /\ "print" \in ConsolePlaces
    BY DEF ConsoleInv, ConsoleTypeOK, ConsolePlaces
  <1>1. PICK kind \in Kinds : Enter(p, kind, "print")
    BY DEF ConsoleMetadata
  <1>2. /\ at[p] = "idle" /\ at' = [at EXCEPT ![p] = "print"]
        /\ \A q \in Procs \ {p} : at'[q] = at[q] /\ Key(q)' = Key(q) /\ Value(q)' = Value(q)
        /\ Key(p)' \in Keys /\ Value(p)' \in Values
    BY <1>t, <1>1, CallEntered, ConsolePlacesFact
  <1>3. PICK k \in Keys, v \in Values : k = Key(p)' /\ v = Value(p)'
    BY <1>2
  <1>4. PICK e \in Coded : e = ConsoleEncoded(KindOf[k], v)
    BY EncodingIsCoded
  <1>5. at'[p] = "print"
    BY <1>t, <1>2 DEF CallsOK
  <1>6. consoleSetting[p] = <<>>
    BY <1>2 DEF consoleSetting
  <1>7. \A q \in Procs : consoleSetting'[q] = IF q = p THEN <<k, e>> ELSE consoleSetting[q]
    BY <1>2, <1>3, <1>4, <1>5 DEF consoleSetting
  <1>8. consoleSetting' = [consoleSetting EXCEPT ![p] = <<k, e>>]
    BY <1>7 DEF consoleSetting
  <1>9. consoleTaken' = consoleTaken /\ consoleKept' = consoleKept
    BY <1>2, <1>5 DEF consoleTaken, consoleKept, ConsoleMetadata
  <1>10. ConsoleBuilt!Begin(p, k, e)
    BY <1>6, <1>8, <1>9 DEF ConsoleBuilt!Begin, consoleSetting, consoleTaken, consoleKept
  <1> QED
    BY <1>10 DEF ConsoleBuilt!Next, Coded

(* Giving the value to the builder is the step at which Metadata records
   it. *)
LEMMA ConsoleTakes ==
  ASSUME ConsoleInv, NEW p \in Procs, NEW kind, ConsoleSet(p, kind)
  PROVE  ConsoleBuilt!Next
  <1>t. CallsOK(ConsolePlaces) /\ lines \in [Keys -> Builder]
    BY DEF ConsoleInv, ConsoleTypeOK
  <1>1. PICK k \in Keys, e \in Coded, new \in Builder :
            /\ k = Key(p) /\ e = ConsoleEncoded(KindOf[k], Value(p))
            /\ at[p] = "print" /\ at' = [at EXCEPT ![p] = "printed"]
            /\ lines' = [lines EXCEPT ![k] = new]
            /\ new.values = ConsoleBuilt!With(lines[k].values, k, e)
            /\ call' = call
    BY ConsoleSetFacts
  <1>2. \A q : Key(q)' = Key(q) /\ Value(q)' = Value(q)
    BY <1>1 DEF Key, Value
  <1>3. at'[p] = "printed" /\ \A q \in Procs \ {p} : at'[q] = at[q]
    BY <1>t, <1>1 DEF CallsOK
  <1>4. consoleSetting[p] = <<k, e>> /\ consoleSetting' = consoleSetting
    BY <1>1, <1>2, <1>3 DEF consoleSetting
  <1>5. p \notin consoleTaken /\ consoleTaken' = consoleTaken \cup {p}
    BY <1>1, <1>3 DEF consoleTaken
  <1>6. lines'[k] = new /\ \A j \in Keys \ {k} : lines'[j] = lines[j]
    BY <1>t, <1>1
  <1>7. \A j \in Keys :
            consoleKept'[j] = IF j = k THEN ConsoleBuilt!With(consoleKept[k], k, e) ELSE consoleKept[j]
    BY <1>1, <1>6 DEF consoleKept
  <1>8. consoleKept' = [consoleKept EXCEPT ![k] = ConsoleBuilt!With(@, k, e)]
    BY <1>7 DEF consoleKept
  <1>9. consoleSetting[p] # <<>> /\ consoleSetting[p][1] = k /\ consoleSetting[p][2] = e
    BY <1>4
  <1>10. consoleKept' = [consoleKept EXCEPT ![consoleSetting[p][1]] =
                            ConsoleBuilt!With(@, consoleSetting[p][1], consoleSetting[p][2])]
    BY <1>8, <1>9
  <1>11. ConsoleBuilt!Take(p)
    BY <1>4, <1>5, <1>9, <1>10 DEF ConsoleBuilt!Take, consoleSetting, consoleTaken, consoleKept
  <1> QED
    BY <1>11 DEF ConsoleBuilt!Next

(* The return is the end of the call of Metadata. *)
LEMMA ConsoleEnds ==
  ASSUME ConsoleInv, NEW p \in Procs, ConsoleReturn(p)
  PROVE  ConsoleBuilt!Next
  <1>t. CallsOK(ConsolePlaces)
    BY DEF ConsoleInv, ConsoleTypeOK
  <1>1. /\ at[p] = "printed" /\ at'[p] = "idle" /\ lines' = lines
        /\ \A q \in Procs \ {p} : at'[q] = at[q] /\ call'[q] = call[q]
    BY <1>t DEF ConsoleReturn, Leave, Go, CallsOK
  <1>2. \A q \in Procs \ {p} : Key(q)' = Key(q) /\ Value(q)' = Value(q)
    BY <1>1 DEF Key, Value
  <1>3. p \in consoleTaken /\ consoleTaken' = consoleTaken \ {p} /\ consoleKept' = consoleKept
    BY <1>1 DEF consoleTaken, consoleKept
  <1>4. \A q \in Procs : consoleSetting'[q] = IF q = p THEN <<>> ELSE consoleSetting[q]
    BY <1>1, <1>2 DEF consoleSetting
  <1>5. consoleSetting' = [consoleSetting EXCEPT ![p] = <<>>]
    BY <1>4 DEF consoleSetting
  <1>6. ConsoleBuilt!End(p)
    BY <1>3, <1>5 DEF ConsoleBuilt!End, consoleSetting, consoleTaken, consoleKept
  <1> QED
    BY <1>6 DEF ConsoleBuilt!Next

(* Metadata sees calls and builders only. *)
LEMMA ConsoleSameView ==
  ASSUME UNCHANGED <<at, call, lines>>
  PROVE  UNCHANGED ConsoleBuilt!vars
  BY DEF ConsoleBuilt!vars, Key, Value

(* One step of the program with the console, as Metadata sees it. *)
LEMMA ConsoleStepMaps ==
  ASSUME ConsoleInv, ConsoleStep
  PROVE  ConsoleBuilt!Next \/ UNCHANGED ConsoleBuilt!vars
  <1>1. CASE ConsoleAppend
    BY <1>1, ConsoleSameView DEF ConsoleAppend
  <1>2. CASE \E p \in Procs : ConsoleMetadata(p)
    BY <1>2, ConsoleBegins
  <1>3. CASE \E p \in Procs : ConsoleReturn(p)
    BY <1>3, ConsoleEnds
  <1>4. CASE \E p \in Procs, kind \in Kinds : ConsoleSet(p, kind)
    BY <1>4, ConsoleTakes
  <1> QED
    BY <1>1, <1>2, <1>3, <1>4
    DEF ConsoleStep, ConsoleSetAny, ConsoleSetBool, ConsoleSetEnum, ConsoleSetFloat64,
        ConsoleSetInt64, ConsoleSetLink, ConsoleSetString, ConsoleSetTime, Kinds

(* The other base loggers do nothing that the Metadata of the console sees. *)
LEMMA ConsoleStays ==
  ASSUME Apart, Apart', base # "console", base' = base, UNCHANGED lines
  PROVE  UNCHANGED ConsoleBuilt!vars
  <1>1. \A p \in Procs : at[p] \notin ConsolePlaces /\ at'[p] \notin ConsolePlaces
    BY DEF Apart
  <1>2. consoleSetting' = consoleSetting
    BY <1>1 DEF consoleSetting, ConsolePlaces
  <1>3. consoleTaken' = consoleTaken
    BY <1>1 DEF consoleTaken, ConsolePlaces
  <1>4. consoleKept' = consoleKept
    BY DEF consoleKept
  <1> QED
    BY <1>2, <1>3, <1>4 DEF ConsoleBuilt!vars, consoleSetting, consoleTaken, consoleKept

(* The beginning is one of Metadata. *)
LEMMA ConsoleInitMaps == CallsInit /\ ConsoleInit => ConsoleBuilt!Init
  BY DEF CallsInit, ConsoleInit, ConsoleBuilt!Init

(* The console's AttributeBuilder, which appends a value before it knows   *)
(* whether it has it already, implements Metadata.                         *)
THEOREM ConsoleImplements == Spec => ConsoleKeeps
  <1>1. Init => ConsoleBuilt!Init
    BY ConsoleInitMaps DEF Init
  <1>2. AttributesInv /\ Apart /\ Apart' /\ [Next]_attributeVars =>
            [ConsoleBuilt!Next]_ConsoleBuilt!vars
    <2> SUFFICES ASSUME AttributesInv, Apart, Apart', [Next]_attributeVars
                 PROVE  ConsoleBuilt!Next \/ UNCHANGED ConsoleBuilt!vars
      OBVIOUS
    <2>1. CASE base = "console" /\ ConsoleStep
      BY <2>1, ConsoleStepMaps DEF AttributesInv
    <2>2. CASE base # "console" /\ base' = base /\ UNCHANGED lines
      BY <2>2, ConsoleStays
    <2>3. CASE UNCHANGED attributeVars
      BY <2>3, ConsoleSameView DEF attributeVars, callVars
    <2> QED
      BY <2>1, <2>2, <2>3 DEF Next
  <1>3. AttributesInv => Apart
    BY Elsewhere
  <1> QED
    BY <1>1, <1>2, <1>3, AttributesInvariant, PTL DEF Spec, ConsoleKeeps, ConsoleBuilt!Spec

-----------------------------------------------------------------------------
(* The folds of a reader. *)
RecordsFold == INSTANCE FoldProofs WITH Step <- AndRecord
EventsFold  == INSTANCE FoldProofs WITH Step <- EventCall
IntoFold    == INSTANCE FoldProofs WITH Step <- Again
ConsoleFold == INSTANCE FoldProofs WITH Step <- ThenConsole
PbCallsFold == INSTANCE FoldProofs WITH Step <- PbCall
PbFold      == INSTANCE FoldProofs WITH Step <- ThenPb

TextsOf(s) == {s[i][1] : i \in DOMAIN s}

(* What a call with value v makes of the values s of attribute k. *)
LEMMA CalledAgain ==
  ASSUME NEW k \in Keys, NEW s \in Seq(Values), NEW v \in Values
  PROVE  LET u == Again(s, <<k, v>>) IN
         /\ u \in Seq(Values)
         /\ k \in Multiple /\ k \notin Distinct => u = Append(s, v)
         /\ k \in Multiple /\ k \in Distinct => TextsOf(u) = TextsOf(s) \cup {v[1]}
         /\ k \notin Multiple => u = IF k \in Locked /\ s # <<>> THEN s ELSE <<v>>
  <1>1. PICK Id : Id = [j \in Keys |-> [x \in Values |-> SeenKey(KindOf[j], x)]]
    OBVIOUS
  <1>2. \A x \in Values : Id[k][x] = SeenKey(KindOf[k], x)
    BY <1>1
  <1>3. Again(s, <<k, v>>) =
            IF k \in Multiple
            THEN IF k \in Distinct /\ \E i \in DOMAIN s : Id[k][s[i]] = Id[k][v]
                 THEN s ELSE Append(s, v)
            ELSE IF k \in Locked /\ s # <<>> THEN s ELSE <<v>>
    BY <1>1 DEF Again, Recorded!With
  <1>4. ASSUME NEW x \in Values, SeenKey(KindOf[k], x) = SeenKey(KindOf[k], v)
        PROVE  x[1] = v[1]
    <2>1. KindOf[k] \in Kinds
      BY AttributeCallsAssumption DEF AttributeCallsAssumption
    <2> QED
      BY <1>4, <2>1 DEF Kinds, SeenKey, SeenAny, SeenBool, SeenEnum, SeenFloat64, SeenInt64,
                        SeenLink, SeenString, SeenTime
  <1>5. ASSUME NEW i \in DOMAIN s, Id[k][s[i]] = Id[k][v] PROVE s[i][1] = v[1]
    <2>1. s[i] \in Values
      OBVIOUS
    <2> QED
      BY <1>2, <1>4, <1>5, <2>1
  <1>6. PICK more \in Seq(Values) : more = Append(s, v)
    <2>1. Append(s, v) \in Seq(Values)
      OBVIOUS
    <2> QED
      BY <2>1
  <1>7. TextsOf(more) = TextsOf(s) \cup {v[1]}
    <2>1. /\ DOMAIN more = DOMAIN s \cup {Len(s) + 1} /\ more[Len(s) + 1] = v
          /\ \A i \in DOMAIN s : more[i] = s[i]
      BY <1>6
    <2> QED
      BY <2>1 DEF TextsOf
  <1>8. <<v>> \in Seq(Values)
    OBVIOUS
  <1>9. CASE k \in Multiple /\ k \in Distinct /\ \E i \in DOMAIN s : Id[k][s[i]] = Id[k][v]
    <2>1. Again(s, <<k, v>>) = s
      BY <1>3, <1>9
    <2>2. v[1] \in TextsOf(s)
      BY <1>5, <1>9 DEF TextsOf
    <2> QED
      BY <1>9, <2>1, <2>2
  <1>10. CASE k \in Multiple /\ ~(k \in Distinct /\ \E i \in DOMAIN s : Id[k][s[i]] = Id[k][v])
    <2>1. Again(s, <<k, v>>) = more
      BY <1>3, <1>6, <1>10
    <2> QED
      BY <1>6, <1>7, <1>10, <2>1
  <1>11. CASE k \notin Multiple
    BY <1>3, <1>8, <1>11
  <1> QED
    BY <1>9, <1>10, <1>11

(* Replayed into a recorder, the calls with values s of attribute k give all
   of them, their texts, the first or the last, as the attribute was made. *)
LEMMA IntoGives ==
  ASSUME NEW k \in Keys, NEW s \in Seq(Values)
  PROVE  LET u == Into(k, s) IN
         /\ u \in Seq(Values)
         /\ k \in Multiple /\ k \notin Distinct => u = s
         /\ k \in Multiple /\ k \in Distinct => TextsOf(u) = TextsOf(s)
         /\ k \notin Multiple /\ s = <<>> => u = <<>>
         /\ k \notin Multiple /\ s # <<>> => u = <<IF k \in Locked THEN s[1] ELSE s[Len(s)]>>
  <1>1. PICK n \in Nat : n = Len(s)
    <2>1. Len(s) \in Nat
      OBVIOUS
    <2> QED
      BY <2>1
  <1>2. PICK c : c = [i \in DOMAIN s |-> <<k, s[i]>>]
    OBVIOUS
  <1>3. c \in Seq(Keys \X Values) /\ Len(c) = n /\ \A i \in 1..n : c[i] = <<k, s[i]>> /\ s[i] \in Values
    <2>1. DOMAIN s = 1..n /\ \A i \in 1..n : s[i] \in Values
      BY <1>1
    <2>2. c = [i \in 1..n |-> <<k, s[i]>>]
      BY <1>2, <2>1
    <2>3. \A i \in 1..n : c[i] \in Keys \X Values /\ c[i] = <<k, s[i]>>
      BY <2>1, <2>2
    <2> QED
      BY <2>1, <2>2, <2>3
  <1>4. PICK run : /\ run[0] = <<>>
                   /\ \A j \in 1..Len(c) : run[j] = Again(run[j - 1], c[j])
                   /\ run[Len(c)] = IntoFold!FoldLeft(Again, <<>>, c)
    <2>1. PICK e : e = <<>>
      OBVIOUS
    <2>2. \E run : /\ run[0] = e
                   /\ \A j \in 1..Len(c) : run[j] = Again(run[j - 1], c[j])
                   /\ run[Len(c)] = IntoFold!FoldLeft(Again, e, c)
      BY <1>3, IntoFold!FoldRuns
    <2> QED
      BY <2>1, <2>2
  <1>5. IntoFold!FoldLeft(Again, <<>>, c) = Into(k, s)
    <2>1. IntoFold!FoldLeft(Again, <<>>, c) = FoldLeft(Again, <<>>, c)
      BY Zenon DEF FoldLeft, IntoFold!FoldLeft, MapThenFoldSet, IntoFold!MapThenFoldSet, Max, IntoFold!Max
    <2>2. FoldLeft(Again, <<>>, c) = Into(k, s)
      BY <1>2, Zenon DEF Into
    <2> QED
      BY <2>1, <2>2
  <1> DEFINE Gives(j) ==
                 /\ run[j] \in Seq(Values)
                 /\ k \in Multiple /\ k \notin Distinct =>
                       Len(run[j]) = j /\ \A i \in 1..j : run[j][i] = s[i]
                 /\ k \in Multiple /\ k \in Distinct => TextsOf(run[j]) = {s[i][1] : i \in 1..j}
                 /\ k \notin Multiple /\ j = 0 => run[j] = <<>>
                 /\ k \notin Multiple /\ j # 0 =>
                       run[j] = <<IF k \in Locked THEN s[1] ELSE s[j]>>
             T == {j \in Nat : j <= n => Gives(j)}
  <1>6. 0 \in T
    <2>1. run[0] = <<>> /\ <<>> \in Seq(Values) /\ Len(<<>>) = 0 /\ 1..0 = {} /\ DOMAIN <<>> = {}
      BY <1>4
    <2>2. TextsOf(<<>>) = {}
      BY <2>1 DEF TextsOf
    <2> QED
      BY <2>1, <2>2
  <1>7. ASSUME NEW j \in Nat, j \in T PROVE j + 1 \in T
    <2> SUFFICES ASSUME j + 1 <= n PROVE Gives(j + 1)
      OBVIOUS
    <2>1. j + 1 \in 1..n /\ j + 1 \in 1..Len(c) /\ (j + 1) - 1 = j /\ j <= n
      BY <1>3
    <2>2. Gives(j) /\ run[j + 1] = Again(run[j], <<k, s[j + 1]>>) /\ s[j + 1] \in Values
      BY <1>3, <1>4, <1>7, <2>1
    <2>3. PICK r \in Seq(Values), v \in Values : r = run[j] /\ v = s[j + 1]
      BY <2>2
    <2>4. PICK u : u = Again(r, <<k, v>>)
      OBVIOUS
    <2>5. /\ u \in Seq(Values)
          /\ k \in Multiple /\ k \notin Distinct => u = Append(r, v)
          /\ k \in Multiple /\ k \in Distinct => TextsOf(u) = TextsOf(r) \cup {v[1]}
          /\ k \notin Multiple => u = IF k \in Locked /\ r # <<>> THEN r ELSE <<v>>
      BY <2>4, CalledAgain
    <2>6. run[j + 1] = u
      BY <2>2, <2>3, <2>4
    <2>7. 1..(j + 1) = 1..j \cup {j + 1}
      BY <1>7
    <2>8. ASSUME k \in Multiple, k \notin Distinct
          PROVE  Len(u) = j + 1 /\ \A i \in 1..(j + 1) : u[i] = s[i]
      <3>1. Len(r) = j /\ \A i \in 1..j : r[i] = s[i]
        BY <2>2, <2>3, <2>8
      <3>2. u = Append(r, v) /\ v = s[j + 1]
        BY <2>3, <2>5, <2>8
      <3> QED
        BY <2>7, <3>1, <3>2
    <2>9. ASSUME k \in Multiple, k \in Distinct
          PROVE  TextsOf(u) = {s[i][1] : i \in 1..(j + 1)}
      <3>1. TextsOf(r) = {s[i][1] : i \in 1..j} /\ TextsOf(u) = TextsOf(r) \cup {v[1]} /\ v = s[j + 1]
        BY <2>2, <2>3, <2>5, <2>9
      <3> QED
        BY <2>7, <3>1
    <2>10. ASSUME k \notin Multiple
           PROVE  u = <<IF k \in Locked THEN s[1] ELSE s[j + 1]>>
      <3>1. u = IF k \in Locked /\ r # <<>> THEN r ELSE <<v>>
        BY <2>5, <2>10
      <3>2. CASE j = 0
        <4>1. r = <<>> /\ v = s[1]
          BY <2>2, <2>3, <2>10, <3>2
        <4> QED
          BY <3>1, <3>2, <4>1
      <3>3. CASE j # 0
        <4>1. r = <<IF k \in Locked THEN s[1] ELSE s[j]>> /\ v = s[j + 1]
          BY <2>2, <2>3, <2>10, <3>3
        <4>2. r # <<>>
          BY <4>1
        <4> QED
          BY <3>1, <4>1, <4>2
      <3> QED
        BY <3>2, <3>3
    <2>11. j + 1 # 0
      OBVIOUS
    <2> QED
      BY <2>5, <2>6, <2>8, <2>9, <2>10, <2>11
  <1>8. n \in T
    <2> HIDE DEF T
    <2> QED
      BY <1>6, <1>7, IntoFold!SetInduction
  <1>9. Gives(n)
    BY <1>8
  <1>10. run[n] = Into(k, s)
    BY <1>3, <1>4, <1>5
  <1>11. PICK u \in Seq(Values) : u = Into(k, s)
    BY <1>9, <1>10
  <1>12. /\ k \in Multiple /\ k \notin Distinct => Len(u) = n /\ \A i \in 1..n : u[i] = s[i]
         /\ k \in Multiple /\ k \in Distinct => TextsOf(u) = {s[i][1] : i \in 1..n}
         /\ k \notin Multiple /\ n = 0 => u = <<>>
         /\ k \notin Multiple /\ n # 0 => u = <<IF k \in Locked THEN s[1] ELSE s[n]>>
    BY <1>9, <1>10, <1>11
  <1>13. DOMAIN s = 1..n /\ (s = <<>> <=> n = 0)
    BY <1>1
  <1>14. k \in Multiple /\ k \notin Distinct => u = s
    BY <1>1, <1>12, <1>13
  <1>15. k \in Multiple /\ k \in Distinct => TextsOf(u) = TextsOf(s)
    BY <1>12, <1>13 DEF TextsOf
  <1> QED
    BY <1>1, <1>11, <1>12, <1>13, <1>14, <1>15

-----------------------------------------------------------------------------
(* Two sequences of calls for attribute k, of which a reader that looks at
   the texts only cannot tell what they leave. *)
Alike(k, s, t) ==
    /\ s = <<>> <=> t = <<>>
    /\ k \in Multiple /\ k \notin Distinct => Texts(s) = Texts(t)
    /\ k \in Multiple /\ k \in Distinct => TextsOf(s) = TextsOf(t)
    /\ k \notin Multiple /\ k \in Locked /\ t # <<>> => s[1][1] = t[1][1]
    /\ k \notin Multiple /\ k \notin Locked /\ t # <<>> => s[Len(s)][1] = t[Len(t)][1]

(* They leave the same attribute. *)
LEMMA AlikeAgrees ==
  ASSUME NEW k \in Keys, NEW s \in Seq(Values), NEW t \in Seq(Values), Alike(k, s, t)
  PROVE  TextsEqual(k, Into(k, s), Into(k, t))
  <1>1. PICK u : u = Into(k, s)
    OBVIOUS
  <1>2. PICK w : w = Into(k, t)
    OBVIOUS
  <1>3. /\ k \in Multiple /\ k \notin Distinct => u = s
        /\ k \in Multiple /\ k \in Distinct => TextsOf(u) = TextsOf(s)
        /\ k \notin Multiple /\ s = <<>> => u = <<>>
        /\ k \notin Multiple /\ s # <<>> => u = <<IF k \in Locked THEN s[1] ELSE s[Len(s)]>>
    BY <1>1, IntoGives
  <1>4. /\ k \in Multiple /\ k \notin Distinct => w = t
        /\ k \in Multiple /\ k \in Distinct => TextsOf(w) = TextsOf(t)
        /\ k \notin Multiple /\ t = <<>> => w = <<>>
        /\ k \notin Multiple /\ t # <<>> => w = <<IF k \in Locked THEN t[1] ELSE t[Len(t)]>>
    BY <1>2, IntoGives
  <1>5. CASE k \in Multiple /\ k \in Distinct
    <2>1. TextsOf(u) = TextsOf(w)
      BY <1>3, <1>4, <1>5 DEF Alike
    <2> QED
      BY <1>1, <1>2, <1>5, <2>1 DEF TextsEqual, TextsOf
  <1>6. CASE k \in Multiple /\ k \notin Distinct
    <2>1. Texts(u) = Texts(w)
      BY <1>3, <1>4, <1>6 DEF Alike
    <2> QED
      BY <1>1, <1>2, <1>6, <2>1 DEF TextsEqual
  <1>7. CASE k \notin Multiple
    <2>1. CASE t = <<>>
      <3>1. u = w
        BY <1>3, <1>4, <1>7, <2>1 DEF Alike
      <3> QED
        BY <1>1, <1>2, <1>7, <3>1 DEF TextsEqual
    <2>2. CASE t # <<>>
      <3>1. PICK x : x = IF k \in Locked THEN s[1] ELSE s[Len(s)]
        OBVIOUS
      <3>2. PICK y : y = IF k \in Locked THEN t[1] ELSE t[Len(t)]
        OBVIOUS
      <3>3. u = <<x>> /\ w = <<y>> /\ x[1] = y[1]
        BY <1>3, <1>4, <1>7, <2>2, <3>1, <3>2 DEF Alike
      <3>4. DOMAIN u = {1} /\ DOMAIN w = {1} /\ u[1] = x /\ w[1] = y
        BY <3>3
      <3>5. Texts(u) = Texts(w)
        BY <3>3, <3>4 DEF Texts
      <3> QED
        BY <1>1, <1>2, <1>7, <3>5 DEF TextsEqual
    <2> QED
      BY <2>1, <2>2
  <1> QED
    BY <1>5, <1>6, <1>7

(* The encodings of the values of attribute k. *)
CodedOf(k) == IF KindOf[k] \in {"Any", "Enum"} THEN Values ELSE {<<v[1]>> : v \in Values}

(* Every base logger encodes and decodes so that the text stays. *)
LEMMA TextsStay ==
  ASSUME NEW k \in Keys
  PROVE  /\ \A v \in Values : /\ JsonEncoded(KindOf[k], v) \in CodedOf(k)
                              /\ JsonEncoded(KindOf[k], v)[1] = v[1]
                              /\ ConsoleEncoded(KindOf[k], v) \in CodedOf(k)
                              /\ ConsoleEncoded(KindOf[k], v)[1] = v[1]
                              /\ PbEncoded(KindOf[k], v) \in CodedOf(k)
                              /\ PbEncoded(KindOf[k], v)[1] = v[1]
         /\ \A e \in CodedOf(k) : /\ JsonDecoded(KindOf[k], e) \in Values
                                  /\ JsonDecoded(KindOf[k], e)[1] = e[1]
                                  /\ ConsoleDecoded(KindOf[k], e) \in Values
                                  /\ ConsoleDecoded(KindOf[k], e)[1] = e[1]
                                  /\ PbDecoded(KindOf[k], e) \in Values
                                  /\ PbDecoded(KindOf[k], e)[1] = e[1]
  <1>1. CASE KindOf[k] \in {"Any", "Enum"}
    BY <1>1 DEF CodedOf, JsonEncoded, ConsoleEncoded, PbEncoded, JsonDecoded, ConsoleDecoded,
                PbDecoded, JsonDecodedAny, JsonDecodedEnum, ConsoleDecodedAny, ConsoleDecodedEnum,
                PbDecodedAny, PbDecodedEnum
  <1>2. CASE KindOf[k] \notin {"Any", "Enum"}
    <2>1. ASSUME NEW e \in CodedOf(k)
          PROVE  <<e[1], 0>> \in Values /\ <<e[1], 0>>[1] = e[1]
      <3>1. PICK v \in Values : e = <<v[1]>>
        BY <1>2 DEF CodedOf
      <3>2. e[1] = v[1]
        BY <3>1
      <3> QED
        BY <3>2, ValuesAssumption DEF ValuesAssumption
    <2>2. \A v \in Values : <<v[1]>> \in CodedOf(k) /\ <<v[1]>>[1] = v[1]
      BY <1>2 DEF CodedOf
    <2> QED
      BY <1>2, <2>1, <2>2 DEF JsonEncoded, ConsoleEncoded, PbEncoded, JsonDecoded, ConsoleDecoded,
                PbDecoded, JsonDecodedText, ConsoleDecodedText, PbDecodedText
  <1> QED
    BY <1>1, <1>2

(* Alike are also sequences whose texts are the same. *)
LEMMA SameTexts ==
  ASSUME NEW X, NEW Y, NEW s \in Seq(X), NEW t \in Seq(Y), Texts(s) = Texts(t)
  PROVE  /\ Len(s) = Len(t) /\ DOMAIN s = DOMAIN t /\ TextsOf(s) = TextsOf(t)
         /\ \A i \in DOMAIN s : s[i][1] = t[i][1]
  <1>1. DOMAIN s = 1..Len(s) /\ DOMAIN t = 1..Len(t) /\ Len(s) \in Nat /\ Len(t) \in Nat
    OBVIOUS
  <1>2. DOMAIN s = DOMAIN t
    <2>1. DOMAIN Texts(s) = DOMAIN s /\ DOMAIN Texts(t) = DOMAIN t
      BY DEF Texts
    <2> QED
      BY <2>1
  <1>3. ASSUME NEW i \in DOMAIN s PROVE s[i][1] = t[i][1]
    <2>1. Texts(s)[i] = s[i][1] /\ Texts(t)[i] = t[i][1]
      BY <1>2 DEF Texts
    <2> QED
      BY <2>1
  <1>4. TextsOf(s) = TextsOf(t)
    BY <1>2, <1>3 DEF TextsOf
  <1>5. Len(s) = Len(t)
    <2>1. PICK n \in Nat, m \in Nat : n = Len(s) /\ m = Len(t)
      BY <1>1
    <2>2. \A j \in Nat : j \in 1..n <=> j \in 1..m
      BY <1>1, <1>2, <2>1
    <2>3. (n \in 1..n \/ n = 0) /\ (m \in 1..m \/ m = 0)
      OBVIOUS
    <2>4. n <= m /\ m <= n
      BY <2>2, <2>3
    <2> QED
      BY <2>1, <2>4
  <1> QED
    BY <1>2, <1>3, <1>4, <1>5

-----------------------------------------------------------------------------
(* Sequences with the same texts leave the same attribute. *)
LEMMA SameAlike ==
  ASSUME NEW k \in Keys, NEW X, NEW Y, NEW s \in Seq(X), NEW t \in Seq(Y), Texts(s) = Texts(t)
  PROVE  Alike(k, s, t)
  <1>1. /\ Len(s) = Len(t) /\ DOMAIN s = DOMAIN t /\ TextsOf(s) = TextsOf(t)
        /\ \A i \in DOMAIN s : s[i][1] = t[i][1]
    BY SameTexts
  <1>2. s = <<>> <=> t = <<>>
    BY <1>1
  <1>3. t # <<>> => 1 \in DOMAIN s /\ Len(s) \in DOMAIN s
    BY <1>1, <1>2
  <1> QED
    BY <1>1, <1>2, <1>3 DEF Alike

(* One element more at the end of a sequence. *)
LEMMA Appends ==
  ASSUME NEW X, NEW s \in Seq(X), NEW x \in X
  PROVE  LET u == Append(s, x) IN
         /\ u \in Seq(X) /\ u # <<>> /\ Len(u) = Len(s) + 1 /\ u[Len(u)] = x
         /\ DOMAIN u = DOMAIN s \cup {Len(s) + 1} /\ u[Len(s) + 1] = x
         /\ \A i \in DOMAIN s : u[i] = s[i]
         /\ u[1] = IF s = <<>> THEN x ELSE s[1]
         /\ TextsOf(u) = TextsOf(s) \cup {x[1]}
  <1>1. Append(s, x) \in Seq(X)
    OBVIOUS
  <1>2. PICK u \in Seq(X) : u = Append(s, x)
    BY <1>1
  <1>3. /\ u # <<>> /\ Len(u) = Len(s) + 1 /\ u[Len(u)] = x
        /\ DOMAIN u = DOMAIN s \cup {Len(s) + 1} /\ u[Len(s) + 1] = x
        /\ \A i \in DOMAIN s : u[i] = s[i]
    BY <1>2
  <1>4. u[1] = IF s = <<>> THEN x ELSE s[1]
    BY <1>2
  <1>5. TextsOf(u) = TextsOf(s) \cup {x[1]}
    BY <1>3 DEF TextsOf
  <1> QED
    BY <1>2, <1>3, <1>4, <1>5

(* The same text at the end of sequences with the same texts. *)
LEMMA SameAppended ==
  ASSUME NEW X, NEW Y, NEW s \in Seq(X), NEW t \in Seq(Y), Texts(s) = Texts(t),
         NEW x \in X, NEW y \in Y, x[1] = y[1]
  PROVE  Texts(Append(s, x)) = Texts(Append(t, y))
  <1>1. /\ Len(s) = Len(t) /\ DOMAIN s = DOMAIN t
        /\ \A i \in DOMAIN s : s[i][1] = t[i][1]
    BY SameTexts
  <1>2. PICK u : u = Append(s, x)
    OBVIOUS
  <1>3. PICK w : w = Append(t, y)
    OBVIOUS
  <1>4. /\ DOMAIN u = DOMAIN s \cup {Len(s) + 1} /\ u[Len(s) + 1] = x
        /\ \A i \in DOMAIN s : u[i] = s[i]
    BY <1>2, Appends
  <1>5. /\ DOMAIN w = DOMAIN t \cup {Len(t) + 1} /\ w[Len(t) + 1] = y
        /\ \A i \in DOMAIN t : w[i] = t[i]
    BY <1>3, Appends
  <1>6. DOMAIN u = DOMAIN w /\ \A i \in DOMAIN u : u[i][1] = w[i][1]
    BY <1>1, <1>4, <1>5
  <1>7. Texts(u) = Texts(w)
    BY <1>6 DEF Texts
  <1> QED
    BY <1>2, <1>3, <1>7

(* What AttributeBuilder keeps of its values b, if it is called with what
   is encoded as e. *)
Merged(b, k, e) ==
    IF k \in Multiple
    THEN IF k \in Distinct /\ \E i \in DOMAIN b : b[i] = e THEN b ELSE Append(b, e)
    ELSE IF k \in Locked /\ b # <<>> THEN b ELSE <<e>>

(* That is Metadata's With, for encodings. *)
LEMMA WithIsMerged ==
  ASSUME NEW k \in Keys, NEW b \in Seq(Coded), NEW e \in Coded
  PROVE  JsonBuilt!With(b, k, e) = Merged(b, k, e) /\ ConsoleBuilt!With(b, k, e) = Merged(b, k, e)
  <1> DEFINE Id == [j \in Keys |-> [x \in Values \cup {<<v[1]>> : v \in Values} |-> x]]
  <1>1. \A x \in Coded : Id[k][x] = x
    BY DEF Coded
  <1>2. \A i \in DOMAIN b : b[i] \in Coded
    OBVIOUS
  <1> HIDE DEF Id
  <1>3. (\E i \in DOMAIN b : Id[k][b[i]] = Id[k][e]) <=> \E i \in DOMAIN b : b[i] = e
    BY <1>1, <1>2
  <1>4. PICK s : s = Append(b, e)
    OBVIOUS
  <1> QED
    BY <1>3, <1>4, Zenon DEF Merged, JsonBuilt!With, ConsoleBuilt!With, Id

(* What a reader has called for k so far is no more than the base logger
   still holds. *)
Behind(k, r, b) ==
    /\ r # <<>> => b # <<>>
    /\ k \in Multiple /\ k \in Distinct => TextsOf(r) \subseteq TextsOf(b)
    /\ k \notin Multiple /\ k \in Locked /\ r # <<>> => r[1][1] = b[1][1]

(* Of a reader that has called nothing that is so. *)
LEMMA NothingBehind ==
  ASSUME NEW k, NEW b
  PROVE  Behind(k, <<>>, b)
  <1>1. TextsOf(<<>>) = {}
    BY DEF TextsOf
  <1> QED
    BY <1>1 DEF Behind

(* A value more, in the builder and among those that took effect. *)
LEMMA MergedKeeps ==
  ASSUME NEW k \in Keys, NEW b \in Seq(CodedOf(k)), NEW t \in Seq(Values), Alike(k, b, t),
         NEW v \in Values, NEW e \in CodedOf(k), e[1] = v[1],
         NEW new, new = Merged(b, k, e)
  PROVE  /\ new \in Seq(CodedOf(k)) /\ Alike(k, new, Append(t, v))
         /\ \A r : Behind(k, r, b) => Behind(k, r, new)
  <1>1. PICK u \in Seq(CodedOf(k)) : u = Append(b, e)
    BY Appends
  <1>2. /\ u # <<>> /\ u[Len(u)] = e /\ u[1] = IF b = <<>> THEN e ELSE b[1]
        /\ TextsOf(u) = TextsOf(b) \cup {e[1]}
    BY <1>1, Appends
  <1>3. PICK w \in Seq(Values) : w = Append(t, v)
    BY Appends
  <1>4. /\ w # <<>> /\ w[Len(w)] = v /\ w[1] = IF t = <<>> THEN v ELSE t[1]
        /\ TextsOf(w) = TextsOf(t) \cup {v[1]}
    BY <1>3, Appends
  <1>5. CASE k \in Multiple /\ k \notin Distinct
    <2>1. new = u
      BY <1>1, <1>5 DEF Merged
    <2>2. Texts(u) = Texts(w)
      BY <1>1, <1>3, <1>5, SameAppended DEF Alike
    <2> QED
      BY <1>2, <1>3, <1>4, <1>5, <2>1, <2>2 DEF Alike, Behind
  <1>6. CASE k \in Multiple /\ k \in Distinct /\ \E i \in DOMAIN b : b[i] = e
    <2>1. new = b
      BY <1>6 DEF Merged
    <2>2. e[1] \in TextsOf(b) /\ b # <<>>
      BY <1>6 DEF TextsOf
    <2>3. TextsOf(b) = TextsOf(w)
      BY <1>4, <1>6, <2>2 DEF Alike
    <2> QED
      BY <1>3, <1>4, <1>6, <2>1, <2>2, <2>3 DEF Alike
  <1>7. CASE k \in Multiple /\ k \in Distinct /\ ~\E i \in DOMAIN b : b[i] = e
    <2>1. new = u
      BY <1>1, <1>7 DEF Merged
    <2>2. TextsOf(u) = TextsOf(w)
      BY <1>2, <1>4, <1>7 DEF Alike
    <2> QED
      BY <1>2, <1>3, <1>4, <1>7, <2>1, <2>2 DEF Alike, Behind
  <1>8. CASE k \notin Multiple /\ k \in Locked /\ b # <<>>
    <2>1. new = b
      BY <1>8 DEF Merged
    <2>2. t # <<>> /\ b[1][1] = w[1][1]
      BY <1>4, <1>8 DEF Alike
    <2> QED
      BY <1>3, <1>4, <1>8, <2>1, <2>2 DEF Alike
  <1>9. CASE k \notin Multiple /\ ~(k \in Locked /\ b # <<>>)
    <2>1. new = <<e>>
      BY <1>9 DEF Merged
    <2>2. new \in Seq(CodedOf(k)) /\ new # <<>> /\ Len(new) = 1 /\ new[1] = e
      BY <2>1
    <2>3. k \in Locked => w[1] = v
      BY <1>4, <1>9 DEF Alike
    <2>4. Alike(k, new, w)
      BY <1>4, <1>9, <2>2, <2>3 DEF Alike
    <2>5. \A r : Behind(k, r, b) => Behind(k, r, new)
      BY <1>9, <2>2 DEF Behind
    <2> QED
      BY <1>3, <2>2, <2>4, <2>5
  <1> QED
    BY <1>5, <1>6, <1>7, <1>8, <1>9

(* One sequence after another. *)
LEMMA Joins ==
  ASSUME NEW X, NEW r \in Seq(X), NEW m \in Seq(X)
  PROVE  LET c == r \o m IN
         /\ c \in Seq(X)
         /\ c = <<>> <=> r = <<>> /\ m = <<>>
         /\ r = <<>> => c = m
         /\ r # <<>> => c[1] = r[1]
         /\ m # <<>> => c[Len(c)] = m[Len(m)]
         /\ TextsOf(c) = TextsOf(r) \cup TextsOf(m)
  <1>1. r \o m \in Seq(X)
    OBVIOUS
  <1>2. PICK c \in Seq(X) : c = r \o m
    BY <1>1
  <1>3. PICK p \in Nat, q \in Nat : p = Len(r) /\ q = Len(m)
    <2>1. Len(r) \in Nat /\ Len(m) \in Nat
      OBVIOUS
    <2> QED
      BY <2>1
  <1>4. /\ Len(c) = p + q /\ DOMAIN c = 1..(p + q) /\ DOMAIN r = 1..p /\ DOMAIN m = 1..q
        /\ \A i \in 1..(p + q) : c[i] = IF i <= p THEN r[i] ELSE m[i - p]
    BY <1>2, <1>3
  <1>5. (r = <<>> <=> p = 0) /\ (m = <<>> <=> q = 0) /\ (c = <<>> <=> p + q = 0)
    BY <1>3, <1>4
  <1>6. r = <<>> => c = m
    BY <1>2
  <1>7. r # <<>> => c[1] = r[1]
    BY <1>4, <1>5
  <1>8. m # <<>> => c[Len(c)] = m[Len(m)]
    <2> SUFFICES ASSUME q # 0 PROVE c[p + q] = m[q]
      BY <1>3, <1>4, <1>5
    <2>1. p + q \in 1..(p + q) /\ ~(p + q <= p) /\ (p + q) - p = q
      OBVIOUS
    <2> QED
      BY <1>4, <2>1
  <1>9. TextsOf(c) = TextsOf(r) \cup TextsOf(m)
    <2>1. ASSUME NEW i \in DOMAIN c PROVE c[i][1] \in TextsOf(r) \cup TextsOf(m)
      <3>1. i \in 1..p \/ (i - p \in 1..q /\ ~(i <= p))
        BY <1>4
      <3> QED
        BY <1>4, <3>1 DEF TextsOf
    <2>2. ASSUME NEW i \in DOMAIN r PROVE r[i][1] \in TextsOf(c)
      <3>1. i \in DOMAIN c /\ c[i] = r[i]
        BY <1>4
      <3> QED
        BY <3>1 DEF TextsOf
    <2>3. ASSUME NEW i \in DOMAIN m PROVE m[i][1] \in TextsOf(c)
      <3>1. i + p \in DOMAIN c /\ c[i + p] = m[i]
        BY <1>4
      <3> QED
        BY <3>1 DEF TextsOf
    <2> QED
      BY <2>1, <2>2, <2>3 DEF TextsOf
  <1> QED
    BY <1>2, <1>3, <1>4, <1>5, <1>6, <1>7, <1>8, <1>9

(* The reader goes through one record more, of what the base logger holds. *)
LEMMA ReadsOn ==
  ASSUME NEW k \in Keys, NEW r \in Seq(Values), NEW m \in Seq(Values), NEW X, NEW b \in Seq(X),
         NEW t \in Seq(Values), Behind(k, r, b), Alike(k, b, t), Texts(m) = Texts(b)
  PROVE  /\ r \o m \in Seq(Values) /\ Behind(k, r \o m, b)
         /\ ~(k \in Multiple /\ k \notin Distinct /\ r # <<>>) => Alike(k, r \o m, t)
  <1>1. PICK c : c = r \o m
    OBVIOUS
  <1>2. /\ c \in Seq(Values)
        /\ c = <<>> <=> r = <<>> /\ m = <<>>
        /\ r = <<>> => c = m
        /\ r # <<>> => c[1] = r[1]
        /\ m # <<>> => c[Len(c)] = m[Len(m)]
        /\ TextsOf(c) = TextsOf(r) \cup TextsOf(m)
    BY <1>1, Joins
  <1>3. /\ Len(m) = Len(b) /\ DOMAIN m = DOMAIN b /\ TextsOf(m) = TextsOf(b)
        /\ \A i \in DOMAIN m : m[i][1] = b[i][1]
    BY SameTexts
  <1>4. (m = <<>> <=> b = <<>>) /\ (m # <<>> => 1 \in DOMAIN m /\ Len(m) \in DOMAIN m)
    BY <1>3
  <1>5. m # <<>> => m[1][1] = b[1][1] /\ m[Len(m)][1] = b[Len(b)][1]
    BY <1>3, <1>4
  <1>6. Behind(k, c, b)
    BY <1>2, <1>3, <1>4, <1>5 DEF Behind
  <1>7. ASSUME ~(k \in Multiple /\ k \notin Distinct /\ r # <<>>) PROVE Alike(k, c, t)
    <2>1. c = <<>> <=> t = <<>>
      BY <1>2, <1>4 DEF Behind, Alike
    <2>2. k \in Multiple /\ k \notin Distinct => Texts(c) = Texts(t)
      BY <1>2, <1>7 DEF Alike
    <2>3. k \in Multiple /\ k \in Distinct => TextsOf(c) = TextsOf(t)
      BY <1>2, <1>3 DEF Alike, Behind
    <2>4. k \notin Multiple /\ k \in Locked /\ t # <<>> => c[1][1] = t[1][1]
      BY <1>2, <1>4, <1>5 DEF Alike, Behind
    <2>5. k \notin Multiple /\ k \notin Locked /\ t # <<>> => c[Len(c)][1] = t[Len(t)][1]
      BY <1>2, <1>4, <1>5 DEF Alike, Behind
    <2> QED
      BY <2>1, <2>2, <2>3, <2>4, <2>5 DEF Alike
  <1> QED
    BY <1>1, <1>2, <1>6, <1>7

-----------------------------------------------------------------------------
(* A write to the output is a record more, or none. *)
LEMMA RecordsGrow ==
  ASSUME NEW X, output \in Seq(X), NEW e \in X, Write(e)
  PROVE  Records' = IF IsRecord(e) THEN Append(Records, e) ELSE Records
  <1>1. \A s : RecordsFold!FoldLeft(AndRecord, <<>>, s) = FoldLeft(AndRecord, <<>>, s)
    BY Zenon DEF FoldLeft, RecordsFold!FoldLeft, MapThenFoldSet, RecordsFold!MapThenFoldSet, Max, RecordsFold!Max
  <1>2. \A w : RecordsFold!FoldLeft(AndRecord, w, Append(output, e))
                   = AndRecord(RecordsFold!FoldLeft(AndRecord, w, output), e)
    BY RecordsFold!FoldGrows
  <1>3. Records' = FoldLeft(AndRecord, <<>>, Append(output, e))
    BY Zenon DEF Records, Write
  <1>4. Records' = AndRecord(Records, e)
    BY <1>1, <1>2, <1>3, Zenon DEF Records
  <1> QED
    BY <1>4, Zenon DEF AndRecord

(* There is no record in the beginning. *)
LEMMA NoRecords == output = <<>> => Records = <<>>
  <1>1. RecordsFold!FoldLeft(AndRecord, <<>>, <<>>) = FoldLeft(AndRecord, <<>>, <<>>)
    BY Zenon DEF FoldLeft, RecordsFold!FoldLeft, MapThenFoldSet, RecordsFold!MapThenFoldSet, Max, RecordsFold!Max
  <1>2. \A w : RecordsFold!FoldLeft(AndRecord, w, <<>>) = w
    BY RecordsFold!FoldEmpty
  <1> QED
    BY <1>1, <1>2, Zenon DEF Records

(* A MetadataSet event is a call more for who replays the events. *)
LEMMA EventsGrow ==
  ASSUME NEW X, output \in Seq(X), NEW e \in X, Write(e)
  PROVE  Events' = EventCall(Events, e)
  <1>1. \A s : EventsFold!FoldLeft(EventCall, NoCalls, s) = FoldLeft(EventCall, NoCalls, s)
    BY Zenon DEF FoldLeft, EventsFold!FoldLeft, MapThenFoldSet, EventsFold!MapThenFoldSet, Max, EventsFold!Max
  <1>2. \A w : EventsFold!FoldLeft(EventCall, w, Append(output, e))
                   = EventCall(EventsFold!FoldLeft(EventCall, w, output), e)
    BY EventsFold!FoldGrows
  <1>3. Events' = FoldLeft(EventCall, NoCalls, Append(output, e))
    BY Zenon DEF Events, Write
  <1> QED
    BY <1>1, <1>2, <1>3, Zenon DEF Events

(* There is none in the beginning. *)
LEMMA NoEvents == output = <<>> => Events = NoCalls
  <1>1. EventsFold!FoldLeft(EventCall, NoCalls, <<>>) = FoldLeft(EventCall, NoCalls, <<>>)
    BY Zenon DEF FoldLeft, EventsFold!FoldLeft, MapThenFoldSet, EventsFold!MapThenFoldSet, Max, EventsFold!Max
  <1>2. \A w : EventsFold!FoldLeft(EventCall, w, <<>>) = w
    BY EventsFold!FoldEmpty
  <1> QED
    BY <1>1, <1>2, Zenon DEF Events

(* p is to note the event of a call that has taken effect. *)
Notes(p) == at[p] \in {"unlock", "event"}

(* The events are of calls that took effect, and what took effect is an
   event or is to be noted. *)
EventsTold ==
    /\ given \in [Keys -> Seq(Values)]
    /\ output \in Seq([set : Keys, value : Values])
    /\ Events \in [Keys -> Seq(Values)]
    /\ \A k \in Keys : TextsOf(Events[k]) \subseteq TextsOf(given[k])
    /\ \A p \in Procs : Notes(p) => Value(p)[1] \in TextsOf(given[Key(p)])
    /\ \A k \in Keys : \A x \in TextsOf(given[k]) :
          \/ x \in TextsOf(Events[k])
          \/ \E p \in Procs : Notes(p) /\ Key(p) = k /\ Value(p)[1] = x

(* Nothing has been said of a new span. *)
LEMMA EventsToldInit == CallsInit => EventsTold
  <1> SUFFICES ASSUME CallsInit PROVE EventsTold
    OBVIOUS
  <1>1. Events = NoCalls
    BY NoEvents DEF CallsInit
  <1>2. TextsOf(<<>>) = {} /\ <<>> \in Seq(Values)
    BY DEF TextsOf
  <1>3. \A k \in Keys : Events[k] = <<>> /\ given[k] = <<>>
    BY <1>1 DEF NoCalls, CallsInit
  <1>4. Events \in [Keys -> Seq(Values)] /\ given \in [Keys -> Seq(Values)]
    BY <1>1, <1>2 DEF NoCalls, CallsInit
  <1>5. output \in Seq([set : Keys, value : Values])
    BY DEF CallsInit
  <1>6. \A p \in Procs : ~Notes(p)
    BY DEF CallsInit, Notes
  <1> QED
    BY <1>2, <1>3, <1>4, <1>5, <1>6 DEF EventsTold

(* Steps that note nothing and give nothing to a tracker. *)
LEMMA EventsToldStays ==
  ASSUME EventsTold, UNCHANGED <<given, output>>,
         \A p \in Procs : Notes(p)' <=> Notes(p),
         \A p \in Procs : Notes(p) => Key(p)' = Key(p) /\ Value(p)' = Value(p)
  PROVE  EventsTold'
  <1>1. Events' = Events
    BY DEF Events
  <1>2. /\ given' \in [Keys -> Seq(Values)] /\ Events' \in [Keys -> Seq(Values)]
        /\ output' \in Seq([set : Keys, value : Values])
    BY <1>1 DEF EventsTold
  <1>3. \A k \in Keys : TextsOf(Events'[k]) \subseteq TextsOf(given'[k])
    BY <1>1 DEF EventsTold
  <1>4. \A p \in Procs : Notes(p)' => Value(p)'[1] \in TextsOf(given'[Key(p)'])
    BY DEF EventsTold
  <1>5. \A k \in Keys : \A x \in TextsOf(given'[k]) :
            \/ x \in TextsOf(Events'[k])
            \/ \E p \in Procs : Notes(p)' /\ Key(p)' = k /\ Value(p)'[1] = x
    <2> SUFFICES ASSUME NEW k \in Keys, NEW x \in TextsOf(given'[k])
                 PROVE  \/ x \in TextsOf(Events'[k])
                        \/ \E p \in Procs : Notes(p)' /\ Key(p)' = k /\ Value(p)'[1] = x
      OBVIOUS
    <2>1. x \in TextsOf(given[k])
      OBVIOUS
    <2>2. \/ x \in TextsOf(Events[k])
          \/ \E p \in Procs : Notes(p) /\ Key(p) = k /\ Value(p)[1] = x
      BY <2>1 DEF EventsTold
    <2>3. CASE \E p \in Procs : Notes(p) /\ Key(p) = k /\ Value(p)[1] = x
      <3>1. PICK p \in Procs : Notes(p) /\ Key(p) = k /\ Value(p)[1] = x
        BY <2>3
      <3>2. Notes(p)' /\ Key(p)' = Key(p) /\ Value(p)' = Value(p)
        BY <3>1
      <3>3. Key(p)' = k /\ Value(p)'[1] = x
        BY <3>1, <3>2
      <3> QED BY <3>2, <3>3
    <2> QED BY <1>1, <2>2, <2>3
  <1> QED
    BY <1>2, <1>3, <1>4, <1>5 DEF EventsTold

(* An update of a tracker gives the value, and there is an event to note. *)
LEMMA EventsToldUpdate ==
  ASSUME MetadataInv, EventsTold, NEW p \in Procs, Update(p)
  PROVE  EventsTold'
  <1>1. PICK k \in Keys, v \in Values : k = Key(p) /\ v = Value(p)
    BY AtUpdate DEF Update
  <1>2. /\ at[p] = "update" /\ at \in [Procs -> Places] /\ at' = [at EXCEPT ![p] = "unlock"]
        /\ UNCHANGED <<call, output>>
    BY DEF Update, Go, MetadataInv, MetadataTypeOK
  <1>3. given \in [Keys -> Seq(Values)] /\ given' = [given EXCEPT ![k] = Append(given[k], v)]
    BY <1>1 DEF Update, TakeEffect, EventsTold
  <1>4. PICK t \in Seq(Values), u \in Seq(Values) : t = given[k] /\ u = Append(t, v)
    BY <1>3, Appends
  <1>5. TextsOf(u) = TextsOf(t) \cup {v[1]}
    BY <1>4, Appends
  <1>6. given' \in [Keys -> Seq(Values)] /\ given'[k] = u /\ \A j \in Keys \ {k} : given'[j] = given[j]
    BY <1>3, <1>4
  <1>7. Events' = Events
    BY <1>2 DEF Events
  <1>8. \A q : Key(q)' = Key(q) /\ Value(q)' = Value(q)
    BY <1>2 DEF Key, Value
  <1>9. Notes(p)' /\ \A q \in Procs \ {p} : Notes(q)' <=> Notes(q)
    BY <1>2 DEF Notes
  <1>10. ~Notes(p)
    BY <1>2 DEF Notes
  <1>11. \A j \in Keys : TextsOf(given[j]) \subseteq TextsOf(given'[j])
    BY <1>4, <1>5, <1>6
  <1>12. \A j \in Keys : TextsOf(Events'[j]) \subseteq TextsOf(given'[j])
    BY <1>7, <1>11 DEF EventsTold
  <1>13. \A q \in Procs : Key(q) \in Keys \/ ~Notes(q)
    BY DEF Notes, MetadataInv, MetadataTypeOK
  <1>14. \A q \in Procs : Notes(q)' => Value(q)'[1] \in TextsOf(given'[Key(q)'])
    BY <1>1, <1>4, <1>5, <1>6, <1>8, <1>9, <1>11, <1>13 DEF EventsTold
  <1>15. ASSUME NEW j \in Keys, NEW x \in TextsOf(given'[j])
         PROVE  \/ x \in TextsOf(Events'[j])
                \/ \E q \in Procs : Notes(q)' /\ Key(q)' = j /\ Value(q)'[1] = x
    <2>1. CASE x \in TextsOf(given[j])
      BY <1>7, <1>8, <1>9, <2>1 DEF EventsTold
    <2>2. CASE x \notin TextsOf(given[j])
      <3>1. j = k /\ x = v[1]
        BY <1>4, <1>5, <1>6, <1>15, <2>2
      <3> QED
        BY <1>1, <1>8, <1>9, <3>1
    <2> QED
      BY <2>1, <2>2
  <1> QED
    BY <1>2, <1>6, <1>7, <1>12, <1>14, <1>15 DEF EventsTold

(* The event is noted: it replaces the goroutine that was to note it. *)
LEMMA EventsToldSet ==
  ASSUME MetadataInv, EventsTold, NEW p \in Procs, MetadataSet(p)
  PROVE  EventsTold'
  <1>1. at[p] = "event" /\ at \in [Procs -> Places] /\ DOMAIN call = Procs
    BY DEF MetadataSet, MetadataInv, MetadataTypeOK
  <1>2. PICK k \in Keys, v \in Values : k = Key(p) /\ v = Value(p)
    BY <1>1 DEF MetadataInv, MetadataTypeOK
  <1>3. PICK e \in [set : Keys, value : Values] : e = [set |-> k, value |-> v] /\ e.set = k /\ e.value = v
    <2>1. [set |-> k, value |-> v] \in [set : Keys, value : Values]
      OBVIOUS
    <2> QED
      BY <2>1
  <1>4. Write(e) /\ UNCHANGED given
    BY <1>2, <1>3 DEF MetadataSet
  <1>5. at' = [at EXCEPT ![p] = "idle"] /\ call' = [call EXCEPT ![p] = <<>>]
    BY DEF MetadataSet, Leave, Go
  <1>6. \A q \in Procs \ {p} : at'[q] = at[q] /\ Key(q)' = Key(q) /\ Value(q)' = Value(q)
    BY <1>1, <1>5 DEF Key, Value
  <1>7. at'[p] = "idle"
    BY <1>1, <1>5
  <1>8. Notes(p) /\ ~Notes(p)' /\ \A q \in Procs \ {p} : Notes(q)' <=> Notes(q)
    BY <1>1, <1>6, <1>7 DEF Notes
  <1>9. output' \in Seq([set : Keys, value : Values])
    BY <1>4, Appends DEF EventsTold, Write
  <1>10. Events' = EventCall(Events, e)
    BY <1>4, EventsGrow DEF EventsTold
  <1>11. PICK t \in Seq(Values), u \in Seq(Values) : t = Events[k] /\ u = Append(t, v)
    BY Appends DEF EventsTold
  <1>12. TextsOf(u) = TextsOf(t) \cup {v[1]}
    BY <1>11, Appends
  <1>13. Events' = [Events EXCEPT ![k] = u]
    BY <1>3, <1>10, <1>11 DEF EventCall
  <1>14. Events' \in [Keys -> Seq(Values)] /\ Events'[k] = u /\ \A j \in Keys \ {k} : Events'[j] = Events[j]
    BY <1>11, <1>13 DEF EventsTold
  <1>15. v[1] \in TextsOf(given[k])
    BY <1>2, <1>8 DEF EventsTold
  <1>16. \A j \in Keys : TextsOf(Events'[j]) \subseteq TextsOf(given'[j])
    BY <1>4, <1>11, <1>12, <1>14, <1>15 DEF EventsTold
  <1>17. \A q \in Procs : Notes(q)' => Value(q)'[1] \in TextsOf(given'[Key(q)'])
    BY <1>4, <1>6, <1>8 DEF EventsTold
  <1>18. ASSUME NEW j \in Keys, NEW x \in TextsOf(given'[j])
         PROVE  \/ x \in TextsOf(Events'[j])
                \/ \E q \in Procs : Notes(q)' /\ Key(q)' = j /\ Value(q)'[1] = x
    <2>1. \A i \in Keys : TextsOf(Events[i]) \subseteq TextsOf(Events'[i])
      BY <1>11, <1>12, <1>14
    <2>2. x \in TextsOf(given[j])
      BY <1>4, <1>18
    <2>3. CASE x \in TextsOf(Events[j])
      BY <2>1, <2>3
    <2>4. CASE \E q \in Procs \ {p} : Notes(q) /\ Key(q) = j /\ Value(q)[1] = x
      BY <1>6, <1>8, <2>4
    <2>5. CASE Key(p) = j /\ Value(p)[1] = x
      BY <1>2, <1>12, <1>14, <2>5
    <2> QED
      BY <2>2, <2>3, <2>4, <2>5 DEF EventsTold
  <1> QED
    BY <1>4, <1>9, <1>14, <1>16, <1>17, <1>18 DEF EventsTold

(* One step of a goroutine in the recorder. *)
LEMMA EventsToldStep ==
  ASSUME MetadataInv, EventsTold, NEW p \in Procs, MetadataStep(p)
  PROVE  EventsTold'
  <1>t. at \in [Procs -> Places] /\ DOMAIN call = Procs
    BY DEF MetadataInv, MetadataTypeOK
  <1>1. ASSUME NEW kind, Enter(p, kind, "load") PROVE EventsTold'
    <2>1. at[p] = "idle" /\ at' = [at EXCEPT ![p] = "load"] /\ UNCHANGED <<given, output>>
      BY <1>1 DEF Enter, Go
    <2>2. PICK c : call' = [call EXCEPT ![p] = c]
      BY <1>1 DEF Enter
    <2>3. at'[p] = "load" /\ \A q \in Procs \ {p} : at'[q] = at[q] /\ call'[q] = call[q]
      BY <1>t, <2>1, <2>2
    <2>4. ~Notes(p) /\ ~Notes(p)' /\ \A q \in Procs \ {p} : Notes(q)' <=> Notes(q)
      BY <2>1, <2>3 DEF Notes
    <2>5. \A q \in Procs \ {p} : Key(q)' = Key(q) /\ Value(q)' = Value(q)
      BY <2>3 DEF Key, Value
    <2>6. /\ \A q \in Procs : Notes(q)' <=> Notes(q)
          /\ \A q \in Procs : Notes(q) => Key(q)' = Key(q) /\ Value(q)' = Value(q)
      BY <2>4, <2>5
    <2> QED
      BY <2>1, <2>6, EventsToldStays
  <1>2. ASSUME NEW from \in Places, NEW to \in Places, at[p] = from, at' = [at EXCEPT ![p] = to],
               from \in {"unlock", "event"} <=> to \in {"unlock", "event"},
               UNCHANGED <<call, given, output>>
        PROVE  EventsTold'
    <2>1. \A q : Key(q)' = Key(q) /\ Value(q)' = Value(q)
      BY <1>2 DEF Key, Value
    <2>2. at'[p] = to /\ \A q \in Procs \ {p} : at'[q] = at[q]
      BY <1>t, <1>2
    <2>3. \A q \in Procs : Notes(q)' <=> Notes(q)
      BY <1>2, <2>2 DEF Notes
    <2> QED
      BY <1>2, <2>1, <2>3, EventsToldStays
  <1>3. CASE \/ MetadataAny(p) \/ MetadataBool(p) \/ MetadataEnum(p) \/ MetadataFloat64(p)
             \/ MetadataInt64(p) \/ MetadataLink(p) \/ MetadataString(p) \/ MetadataTime(p)
    BY <1>1, <1>3 DEF MetadataAny, MetadataBool, MetadataEnum, MetadataFloat64,
                      MetadataInt64, MetadataLink, MetadataString, MetadataTime
  <1>4. CASE Load(p)
    <2>1. PICK to \in {"lock", "store"} : at' = [at EXCEPT ![p] = to]
      BY <1>4 DEF Load, Go
    <2> QED
      BY <1>2, <1>4, <2>1 DEF Load, Places, MetadataPlaces
  <1>5. CASE Store(p)
    <2>1. PICK to \in {"lock", "update"} : at' = [at EXCEPT ![p] = to]
      BY <1>5 DEF Store, Go
    <2> QED
      BY <1>2, <1>5, <2>1 DEF Store, Places, MetadataPlaces
  <1>6. CASE Lock(p)
    BY <1>2, <1>6 DEF Lock, Go, Places, MetadataPlaces
  <1>7. CASE Unlock(p)
    BY <1>2, <1>7 DEF Unlock, Go, Places, MetadataPlaces
  <1>8. CASE Update(p) \/ MetadataSet(p)
    BY <1>8, EventsToldUpdate, EventsToldSet
  <1> QED
    BY <1>3, <1>4, <1>5, <1>6, <1>7, <1>8 DEF MetadataStep

(* When nobody is between, the events are what took effect. *)
LEMMA EventsToldComplete ==
  ASSUME MetadataInv, EventsTold, base = "recorder"
  PROVE  EventsComplete
  <1> SUFFICES ASSUME \A p \in Procs : at[p] = "idle", NEW k \in used
               PROVE  LET again == Into(k, Events[k]) IN
                      /\ {again[i][1] : i \in DOMAIN again} \subseteq {given[k][i][1] : i \in DOMAIN given[k]}
                      /\ k \in Multiple =>
                            {again[i][1] : i \in DOMAIN again} = {given[k][i][1] : i \in DOMAIN given[k]}
    BY DEF EventsComplete
  <1>1. k \in Keys
    BY DEF MetadataInv, MetadataTypeOK
  <1>2. \A p \in Procs : ~Notes(p)
    BY DEF Notes
  <1>3. PICK s \in Seq(Values), t \in Seq(Values) : s = Events[k] /\ t = given[k]
    BY <1>1 DEF EventsTold
  <1>4. TextsOf(s) = TextsOf(t)
    BY <1>1, <1>2, <1>3 DEF EventsTold
  <1>5. PICK u : u = Into(k, s)
    OBVIOUS
  <1>6. /\ k \in Multiple /\ k \notin Distinct => u = s
        /\ k \in Multiple /\ k \in Distinct => TextsOf(u) = TextsOf(s)
        /\ k \notin Multiple /\ s = <<>> => u = <<>>
        /\ k \notin Multiple /\ s # <<>> => u = <<IF k \in Locked THEN s[1] ELSE s[Len(s)]>>
    BY <1>1, <1>5, IntoGives
  <1>7. k \in Multiple => TextsOf(u) = TextsOf(t)
    BY <1>4, <1>6
  <1>8. k \notin Multiple => TextsOf(u) \subseteq TextsOf(s)
    <2>1. ASSUME s = <<>>, k \notin Multiple PROVE TextsOf(u) = {}
      <3>1. u = <<>>
        BY <1>6, <2>1
      <3> QED
        BY <3>1 DEF TextsOf
    <2>2. ASSUME s # <<>>, k \notin Multiple PROVE TextsOf(u) \subseteq TextsOf(s)
      <3>1. PICK j : j = IF k \in Locked THEN 1 ELSE Len(s)
        OBVIOUS
      <3>2. j \in DOMAIN s
        BY <2>2, <3>1
      <3>3. u = <<s[j]>>
        BY <1>6, <2>2, <3>1
      <3>4. DOMAIN u = {1} /\ u[1] = s[j]
        BY <3>3
      <3> QED
        BY <3>2, <3>4 DEF TextsOf
    <2> QED
      BY <2>1, <2>2
  <1>9. TextsOf(u) \subseteq TextsOf(t)
    BY <1>4, <1>7, <1>8
  <1>10. /\ TextsOf(Into(k, Events[k])) \subseteq TextsOf(given[k])
         /\ k \in Multiple => TextsOf(Into(k, Events[k])) = TextsOf(given[k])
    BY <1>3, <1>5, <1>7, <1>9
  <1> QED
    BY <1>10, Zenon DEF TextsOf

-----------------------------------------------------------------------------
(* The encodings of an attribute are among the encodings. *)
LEMMA CodedOfCoded ==
  ASSUME NEW k \in Keys, NEW s \in Seq(CodedOf(k))
  PROVE  s \in Seq(Coded) /\ CodedOf(k) \subseteq Coded
  <1>1. CodedOf(k) \subseteq Coded
    BY DEF CodedOf, Coded
  <1> QED
    BY <1>1

(* Nothing is like nothing. *)
LEMMA NothingAlike ==
  ASSUME NEW k
  PROVE  Alike(k, <<>>, <<>>)
  BY DEF Alike

(* What the builder holds of an attribute leaves what took effect; so did
   what the last record has. *)
JsonTold ==
    /\ \A k \in Keys : /\ builder[k].values \in Seq(CodedOf(k))
                       /\ Alike(k, builder[k].values, given[k])
    /\ Records \in Seq(Entry)
    /\ Records # <<>> =>
          LET r == Records[Len(Records)] IN
          \A k \in Keys : /\ r.record[k] \in Seq(CodedOf(k)) /\ r.told[k] \in Seq(Values)
                          /\ Alike(k, r.record[k], r.told[k])

(* It is so when the span begins. *)
LEMMA JsonToldInit == CallsInit /\ JsonInit => JsonTold
  <1> SUFFICES ASSUME CallsInit, JsonInit PROVE JsonTold
    OBVIOUS
  <1>1. Records = <<>>
    BY NoRecords DEF CallsInit
  <1>2. \A k \in Keys : builder[k].values = <<>> /\ given[k] = <<>>
    BY DEF CallsInit, JsonInit
  <1>3. \A k \in Keys : builder[k].values \in Seq(CodedOf(k)) /\ Alike(k, builder[k].values, given[k])
    <2> TAKE k \in Keys
    <2>1. Alike(k, <<>>, <<>>) /\ <<>> \in Seq(CodedOf(k))
      BY NothingAlike
    <2> QED
      BY <1>2, <2>1
  <1>4. <<>> \in Seq(Entry)
    OBVIOUS
  <1> QED
    BY <1>1, <1>3, <1>4 DEF JsonTold

(* A value is encoded into the builder. *)
LEMMA JsonToldSet ==
  ASSUME JsonInv, JsonTold, NEW p \in Procs, NEW kind, JsonSet(p, kind)
  PROVE  JsonTold'
  <1>t. /\ CallsOK(JsonPlaces) /\ builder \in [Keys -> Builder]
    BY DEF JsonInv, JsonTypeOK
  <1>1. PICK k \in Keys, e \in Coded, new \in Builder :
            /\ k = Key(p) /\ e = JsonEncoded(KindOf[k], Value(p))
            /\ at[p] = "encode"
            /\ builder' = [builder EXCEPT ![k] = new]
            /\ new.values = JsonBuilt!With(builder[k].values, k, e)
            /\ output' = output
    BY JsonSetFacts
  <1>2. PICK v \in Values : v = Value(p)
    BY <1>t, <1>1 DEF CallsOK
  <1>3. given' = [given EXCEPT ![k] = Append(given[k], v)]
    BY <1>1, <1>2 DEF JsonSet, TakeEffect
  <1>4. PICK b \in Seq(CodedOf(k)), t \in Seq(Values) :
            b = builder[k].values /\ t = given[k] /\ Alike(k, b, t)
    BY <1>t DEF JsonTold, CallsOK
  <1>5. e \in CodedOf(k) /\ e[1] = v[1]
    BY <1>1, <1>2, TextsStay
  <1>6. PICK more : more = new.values
    OBVIOUS
  <1>7. more = Merged(b, k, e)
    <2>1. b \in Seq(Coded)
      BY CodedOfCoded
    <2> QED
      BY <1>1, <1>4, <1>6, <2>1, WithIsMerged
  <1>8. more \in Seq(CodedOf(k)) /\ Alike(k, more, Append(t, v))
    BY <1>4, <1>5, <1>7, MergedKeeps
  <1>9. /\ builder'[k].values = more /\ given'[k] = Append(t, v)
        /\ \A j \in Keys \ {k} : builder'[j] = builder[j] /\ given'[j] = given[j]
    BY <1>t, <1>1, <1>3, <1>4, <1>6 DEF CallsOK
  <1>10. \A j \in Keys : builder'[j].values \in Seq(CodedOf(j)) /\ Alike(j, builder'[j].values, given'[j])
    BY <1>8, <1>9 DEF JsonTold
  <1>11. Records' = Records
    BY <1>1 DEF Records
  <1> QED
    BY <1>10, <1>11 DEF JsonTold

(* A record has what the builder has. *)
LEMMA JsonToldAppend ==
  ASSUME JsonInv, JsonTold, JsonAppend
  PROVE  JsonTold'
  <1>t. CallsOK(JsonPlaces) /\ output \in Seq(Entry) /\ builder \in [Keys -> Builder]
    BY DEF JsonInv, JsonTypeOK
  <1>1. UNCHANGED <<builder, given>>
    BY DEF JsonAppend, jsonVars
  <1>2. PICK e : e = [record |-> [k \in Keys |-> builder[k].values], told |-> given]
    OBVIOUS
  <1>3. /\ e \in Entry /\ IsRecord(e) /\ e.told = given
        /\ \A k \in Keys : e.record[k] = builder[k].values
    BY <1>t, <1>2 DEF Entry, IsRecord, CallsOK, Builder
  <1>4. Records' = Append(Records, e)
    BY <1>t, <1>2, <1>3, RecordsGrow DEF JsonAppend
  <1>5. Records' \in Seq(Entry) /\ Records'[Len(Records')] = e
    BY <1>3, <1>4, Appends DEF JsonTold
  <1>6. \A k \in Keys : /\ e.record[k] \in Seq(CodedOf(k)) /\ e.told[k] \in Seq(Values)
                        /\ Alike(k, e.record[k], e.told[k])
    BY <1>t, <1>3 DEF JsonTold, CallsOK
  <1> QED
    BY <1>1, <1>5, <1>6 DEF JsonTold

(* One step of the JSON base logger. *)
LEMMA JsonToldStep ==
  ASSUME JsonInv, JsonTold, JsonStep
  PROVE  JsonTold'
  <1>1. ASSUME UNCHANGED <<builder, given>>, Records' = Records PROVE JsonTold'
    BY <1>1 DEF JsonTold
  <1>2. CASE \E p \in Procs : JsonMetadata(p) \/ JsonDefine(p) \/ JsonReturn(p)
    <2>1. UNCHANGED <<builder, given, output>>
      BY <1>2 DEF JsonMetadata, JsonDefine, JsonReturn, Enter, jsonVars
    <2>2. Records' = Records
      BY <2>1 DEF Records
    <2> QED
      BY <1>1, <2>1, <2>2
  <1>3. CASE \E p \in Procs : JsonWriteDefinition(p)
    <2>1. PICK p \in Procs : JsonWriteDefinition(p)
      BY <1>3
    <2>2. at[p] = "write" /\ UNCHANGED <<builder, given>> /\ Write([def |-> Key(p)])
      BY <2>1 DEF JsonWriteDefinition, jsonVars
    <2>3. PICK e : e = [def |-> Key(p)]
      OBVIOUS
    <2>4. Key(p) \in Keys /\ output \in Seq(Entry)
      BY <2>2 DEF JsonInv, JsonTypeOK, CallsOK
    <2>5. e \in Entry /\ ~IsRecord(e)
      BY <2>3, <2>4 DEF Entry, IsRecord
    <2>6. Records' = Records
      BY <2>2, <2>3, <2>4, <2>5, RecordsGrow
    <2> QED
      BY <1>1, <2>2, <2>6
  <1>4. CASE \E p \in Procs, kind \in Kinds : JsonSet(p, kind)
    BY <1>4, JsonToldSet
  <1>5. CASE JsonAppend
    BY <1>5, JsonToldAppend
  <1> QED
    BY <1>2, <1>3, <1>4, <1>5
    DEF JsonStep, JsonSetAny, JsonSetBool, JsonSetEnum, JsonSetFloat64, JsonSetInt64, JsonSetLink,
        JsonSetString, JsonSetTime, Kinds

(* What ReplayFromStrings reads leaves what the last record was told. *)
LEMMA JsonToldAgrees ==
  ASSUME JsonInv, JsonTold, base = "json"
  PROVE  ReplayAgrees
  <1> SUFFICES ASSUME Records # <<>>, NEW k \in used
               PROVE  TextsEqual(k, Into(k, Read(k)), Into(k, Records[Len(Records)].told[k]))
    BY DEF ReplayAgrees
  <1>1. k \in Keys
    BY DEF JsonInv, JsonTypeOK, CallsOK
  <1>2. PICK b \in Seq(CodedOf(k)), t \in Seq(Values) :
            /\ b = Records[Len(Records)].record[k] /\ t = Records[Len(Records)].told[k]
            /\ Alike(k, b, t)
    BY <1>1 DEF JsonTold
  <1>3. PICK s : s = [i \in DOMAIN b |-> JsonDecoded(KindOf[k], b[i])]
    OBVIOUS
  <1>4. Read(k) = s
    BY <1>2, <1>3 DEF Read, JsonReplay
  <1>5. DOMAIN b = 1..Len(b) /\ Len(b) \in Nat /\ \A i \in DOMAIN b : b[i] \in CodedOf(k)
    OBVIOUS
  <1>6. s \in Seq(Values) /\ Len(s) = Len(b) /\ DOMAIN s = DOMAIN b /\ \A i \in DOMAIN b : s[i][1] = b[i][1]
    <2>1. \A i \in DOMAIN b : s[i] \in Values /\ s[i][1] = b[i][1]
      BY <1>1, <1>3, <1>5, TextsStay
    <2>2. s = [i \in 1..Len(b) |-> s[i]]
      BY <1>3, <1>5
    <2> QED
      BY <1>5, <2>1, <2>2
  <1>7. Texts(s) = Texts(b)
    BY <1>6 DEF Texts
  <1>8. Alike(k, s, t)
    <2>1. PICK r \in Seq(Values) : r = <<>>
      <3>1. <<>> \in Seq(Values)
        OBVIOUS
      <3> QED
        BY <3>1
    <2>2. Behind(k, r, b)
      BY <2>1, NothingBehind
    <2>3. Alike(k, r \o s, t) \/ (k \in Multiple /\ k \notin Distinct /\ r # <<>>)
      BY <1>1, <1>2, <1>6, <1>7, <2>2, ReadsOn
    <2>4. r \o s = s
      BY <1>6, <2>1
    <2> QED
      BY <2>1, <2>3, <2>4
  <1> QED
    BY <1>1, <1>2, <1>4, <1>6, <1>8, AlikeAgrees

-----------------------------------------------------------------------------
(* What a reader of the records of the span has called, when the base logger
   holds this: nothing that is not so any more, and, but for attributes that
   a second record repeats, what leaves what the last record was told. *)
ReadSoFar(made, records, held) ==
    /\ made \in [Keys -> Seq(Values)]
    /\ \A k \in Keys : Behind(k, made[k], held[k])
    /\ records = <<>> => made = NoCalls
    /\ records # <<>> =>
          \A k \in Keys :
              /\ records[Len(records)].told[k] \in Seq(Values)
              /\ \/ Len(records) > 1 /\ k \in Multiple /\ k \notin Distinct
                 \/ Alike(k, made[k], records[Len(records)].told[k])

(* It reads one record more. *)
LEMMA ReadsRecord ==
  ASSUME NEW X, NEW records \in Seq(X), NEW r \in X, NEW made, NEW held,
         ReadSoFar(made, records, held),
         NEW more \in [Keys -> Seq(Values)], r.told \in [Keys -> Seq(Values)],
         NEW Y, held \in [Keys -> Seq(Y)],
         \A k \in Keys : Texts(more[k]) = Texts(held[k]) /\ Alike(k, held[k], r.told[k])
  PROVE  ReadSoFar([k \in Keys |-> made[k] \o more[k]], Append(records, r), held)
  <1>1. PICK now : now = [k \in Keys |-> made[k] \o more[k]]
    OBVIOUS
  <1>2. PICK all : all = Append(records, r)
    OBVIOUS
  <1>3. all # <<>> /\ Len(all) = Len(records) + 1 /\ all[Len(all)] = r /\ Len(records) \in Nat
    BY <1>2, Appends
  <1>4. ASSUME NEW k \in Keys
        PROVE  /\ now[k] \in Seq(Values) /\ Behind(k, now[k], held[k])
               /\ ~(k \in Multiple /\ k \notin Distinct /\ made[k] # <<>>) => Alike(k, now[k], r.told[k])
    <2>1. made[k] \in Seq(Values) /\ Behind(k, made[k], held[k])
      BY DEF ReadSoFar
    <2>2. PICK a \in Seq(Values), m \in Seq(Values), b \in Seq(Y), t \in Seq(Values) :
              a = made[k] /\ m = more[k] /\ b = held[k] /\ t = r.told[k]
      BY <2>1
    <2>3. Behind(k, a, b) /\ Alike(k, b, t) /\ Texts(m) = Texts(b)
      BY <2>1, <2>2
    <2>4. /\ a \o m \in Seq(Values) /\ Behind(k, a \o m, b)
          /\ ~(k \in Multiple /\ k \notin Distinct /\ a # <<>>) => Alike(k, a \o m, t)
      BY <2>3, ReadsOn
    <2>5. now[k] = a \o m
      BY <1>1, <2>2
    <2> QED
      BY <2>2, <2>4, <2>5
  <1>5. now \in [Keys -> Seq(Values)]
    BY <1>1, <1>4
  <1>6. ASSUME NEW k \in Keys, made[k] # <<>> PROVE Len(all) > 1
    <2>1. records # <<>>
      BY <1>6 DEF ReadSoFar, NoCalls
    <2>2. Len(records) # 0
      BY <2>1
    <2> QED
      BY <1>3, <2>2
  <1>7. \A k \in Keys : (Len(all) > 1 /\ k \in Multiple /\ k \notin Distinct) \/ Alike(k, now[k], r.told[k])
    BY <1>4, <1>6
  <1>8. ReadSoFar(now, all, held)
    BY <1>3, <1>4, <1>5, <1>7 DEF ReadSoFar
  <1> QED
    BY <1>1, <1>2, <1>8

(* What it has called then agrees. *)
LEMMA ReadSoFarAgrees ==
  ASSUME NEW made, NEW held, ReadSoFar(made, Records, held),
         base \in {"console", "pb"}, \A k \in used : k \in Keys /\ Read(k) = made[k]
  PROVE  ReplayAgrees
  <1> SUFFICES ASSUME Records # <<>>, NEW k \in used, ~Repeated(k)
               PROVE  TextsEqual(k, Into(k, Read(k)), Into(k, Records[Len(Records)].told[k]))
    BY DEF ReplayAgrees
  <1>1. PICK s \in Seq(Values), t \in Seq(Values) :
            s = made[k] /\ t = Records[Len(Records)].told[k]
    BY DEF ReadSoFar
  <1>2. k \in Keys /\ Read(k) = s
    BY <1>1
  <1>3. Alike(k, s, t)
    BY <1>1, <1>2 DEF ReadSoFar, Repeated
  <1>4. TextsEqual(k, Into(k, s), Into(k, t))
    BY <1>2, <1>3, AlikeAgrees
  <1> QED
    BY <1>1, <1>2, <1>4

-----------------------------------------------------------------------------
(* The console. *)

(* One record more of the console is read. *)
LEMMA ConsoleReadsOn ==
  ASSUME NEW X, NEW records \in Seq(X), NEW r \in X, Records = records, Records' = Append(records, r)
  PROVE  ConsoleReplay' = ThenConsole(ConsoleReplay, r)
  <1>1. \A s : ConsoleFold!FoldLeft(ThenConsole, NoCalls, s) = FoldLeft(ThenConsole, NoCalls, s)
    BY Zenon DEF FoldLeft, ConsoleFold!FoldLeft, MapThenFoldSet, ConsoleFold!MapThenFoldSet, Max, ConsoleFold!Max
  <1>2. \A w : ConsoleFold!FoldLeft(ThenConsole, w, Append(records, r))
                   = ThenConsole(ConsoleFold!FoldLeft(ThenConsole, w, records), r)
    BY ConsoleFold!FoldGrows
  <1>3. ConsoleReplay = FoldLeft(ThenConsole, NoCalls, records)
    BY Zenon DEF ConsoleReplay
  <1>4. ConsoleReplay' = FoldLeft(ThenConsole, NoCalls, Append(records, r))
    BY Zenon DEF ConsoleReplay
  <1> QED
    BY <1>1, <1>2, <1>3, <1>4, Zenon

(* Nothing is read of no record. *)
LEMMA ConsoleReadsNothing == Records = <<>> => ConsoleReplay = NoCalls
  <1>1. ConsoleFold!FoldLeft(ThenConsole, NoCalls, <<>>) = FoldLeft(ThenConsole, NoCalls, <<>>)
    BY Zenon DEF FoldLeft, ConsoleFold!FoldLeft, MapThenFoldSet, ConsoleFold!MapThenFoldSet, Max, ConsoleFold!Max
  <1>2. \A w : ConsoleFold!FoldLeft(ThenConsole, w, <<>>) = w
    BY ConsoleFold!FoldEmpty
  <1> QED
    BY <1>1, <1>2, Zenon DEF ConsoleReplay

consoleHeld == [k \in Keys |-> lines[k].values]

(* What the console's builder holds of an attribute leaves what took effect;
   what is read of the records, what the last of them was told. *)
ConsoleTold ==
    /\ \A k \in Keys : /\ lines[k].values \in Seq(CodedOf(k))
                       /\ Alike(k, lines[k].values, given[k])
    /\ Records \in Seq(Entry)
    /\ ReadSoFar(ConsoleReplay, Records, consoleHeld)

(* It is so when the span begins. *)
LEMMA ConsoleToldInit == CallsInit /\ ConsoleInit => ConsoleTold
  <1> SUFFICES ASSUME CallsInit, ConsoleInit PROVE ConsoleTold
    OBVIOUS
  <1>1. Records = <<>> /\ ConsoleReplay = NoCalls
    BY NoRecords, ConsoleReadsNothing DEF CallsInit
  <1>2. \A k \in Keys : lines[k].values = <<>> /\ given[k] = <<>>
    BY DEF CallsInit, ConsoleInit
  <1>3. \A k \in Keys : lines[k].values \in Seq(CodedOf(k)) /\ Alike(k, lines[k].values, given[k])
    <2> TAKE k \in Keys
    <2>1. Alike(k, <<>>, <<>>) /\ <<>> \in Seq(CodedOf(k))
      BY NothingAlike
    <2> QED
      BY <1>2, <2>1
  <1>4. <<>> \in Seq(Entry) /\ <<>> \in Seq(Values)
    OBVIOUS
  <1>5. \A k, b : Behind(k, <<>>, b)
    BY NothingBehind
  <1>6. ReadSoFar(NoCalls, <<>>, consoleHeld)
    BY <1>4, <1>5 DEF ReadSoFar, NoCalls
  <1> QED
    BY <1>1, <1>3, <1>4, <1>6 DEF ConsoleTold

(* A value is printed into the builder, after its definition. *)
LEMMA ConsoleToldSet ==
  ASSUME ConsoleInv, ConsoleTold, NEW p \in Procs, NEW kind, ConsoleSet(p, kind)
  PROVE  ConsoleTold'
  <1>t. CallsOK(ConsolePlaces) /\ lines \in [Keys -> Builder] /\ output \in Seq(Entry)
    BY DEF ConsoleInv, ConsoleTypeOK
  <1>1. PICK k \in Keys, e \in Coded, new \in Builder :
            /\ k = Key(p) /\ e = ConsoleEncoded(KindOf[k], Value(p))
            /\ at[p] = "print"
            /\ lines' = [lines EXCEPT ![k] = new]
            /\ new.values = ConsoleBuilt!With(lines[k].values, k, e)
            /\ DefineKey(k)
    BY ConsoleSetFacts
  <1>2. PICK v \in Values : v = Value(p)
    BY <1>t, <1>1 DEF CallsOK
  <1>3. given' = [given EXCEPT ![k] = Append(given[k], v)]
    BY <1>1, <1>2 DEF ConsoleSet, TakeEffect
  <1>4. PICK b \in Seq(CodedOf(k)), t \in Seq(Values) :
            b = lines[k].values /\ t = given[k] /\ Alike(k, b, t)
    BY <1>t DEF ConsoleTold, CallsOK
  <1>5. e \in CodedOf(k) /\ e[1] = v[1]
    BY <1>1, <1>2, TextsStay
  <1>6. PICK more : more = new.values
    OBVIOUS
  <1>7. more = Merged(b, k, e)
    <2>1. b \in Seq(Coded)
      BY CodedOfCoded
    <2> QED
      BY <1>1, <1>4, <1>6, <2>1, WithIsMerged
  <1>8. /\ more \in Seq(CodedOf(k)) /\ Alike(k, more, Append(t, v))
        /\ \A r : Behind(k, r, b) => Behind(k, r, more)
    BY <1>4, <1>5, <1>7, MergedKeeps
  <1>9. /\ lines'[k].values = more /\ given'[k] = Append(t, v)
        /\ \A j \in Keys \ {k} : lines'[j] = lines[j] /\ given'[j] = given[j]
    BY <1>t, <1>1, <1>3, <1>4, <1>6 DEF CallsOK
  <1>10. \A j \in Keys : lines'[j].values \in Seq(CodedOf(j)) /\ Alike(j, lines'[j].values, given'[j])
    BY <1>8, <1>9 DEF ConsoleTold
  <1>11. PICK d : d = [def |-> k]
    OBVIOUS
  <1>12. d \in Entry /\ ~IsRecord(d)
    BY <1>11 DEF Entry, IsRecord
  <1>13. Records' = Records
    <2>1. CASE output' = output
      BY <2>1 DEF Records
    <2>2. CASE Write(d)
      BY <1>t, <1>12, <2>2, RecordsGrow
    <2> QED
      BY <1>1, <1>11, <2>1, <2>2 DEF DefineKey
  <1>14. ConsoleReplay' = ConsoleReplay
    BY <1>13 DEF ConsoleReplay
  <1>15. \A j \in Keys : Behind(j, ConsoleReplay[j], consoleHeld[j]) => Behind(j, ConsoleReplay[j], consoleHeld'[j])
    BY <1>4, <1>8, <1>9 DEF consoleHeld
  <1>16. ReadSoFar(ConsoleReplay, Records, consoleHeld')
    BY <1>15 DEF ConsoleTold, ReadSoFar
  <1> QED
    BY <1>10, <1>13, <1>14, <1>16 DEF ConsoleTold

(* A record is printed. *)
LEMMA ConsoleToldAppend ==
  ASSUME ConsoleInv, ConsoleTold, ConsoleAppend
  PROVE  ConsoleTold'
  <1>t. CallsOK(ConsolePlaces) /\ output \in Seq(Entry) /\ lines \in [Keys -> Builder]
    BY DEF ConsoleInv, ConsoleTypeOK
  <1>1. UNCHANGED <<lines, given>>
    BY DEF ConsoleAppend
  <1>2. PICK e : e = [record |-> [k \in Keys |-> lines[k].values], told |-> given]
    OBVIOUS
  <1>3. /\ e \in Entry /\ IsRecord(e) /\ e.told = given
        /\ \A k \in Keys : e.record[k] = lines[k].values
    BY <1>t, <1>2 DEF Entry, IsRecord, CallsOK, Builder
  <1>4. Records' = Append(Records, e)
    BY <1>t, <1>2, <1>3, RecordsGrow DEF ConsoleAppend
  <1>5. Records \in Seq(Entry) /\ Records' \in Seq(Entry)
    BY <1>3, <1>4, Appends DEF ConsoleTold
  <1>6. ConsoleReplay' = ThenConsole(ConsoleReplay, e)
    <2>1. PICK records \in Seq(Entry) : records = Records
      BY <1>5
    <2> QED
      BY <1>3, <1>4, <2>1, ConsoleReadsOn
  <1>7. PICK more : more = [k \in Keys |-> ConsoleCalls(e.record, k)]
    OBVIOUS
  <1>8. ConsoleReplay' = [k \in Keys |-> ConsoleReplay[k] \o more[k]]
    BY <1>6, <1>7 DEF ThenConsole
  <1>9. consoleHeld \in [Keys -> Seq(Coded)]
    BY <1>t DEF consoleHeld, Builder
  <1>10. ASSUME NEW k \in Keys
         PROVE  /\ more[k] \in Seq(Values) /\ Texts(more[k]) = Texts(consoleHeld[k])
                /\ Alike(k, consoleHeld[k], e.told[k])
    <2>0. consoleHeld[k] = lines[k].values /\ e.record[k] = lines[k].values
      BY <1>3 DEF consoleHeld
    <2>1. PICK b \in Seq(CodedOf(k)) : b = consoleHeld[k] /\ Alike(k, b, given[k]) /\ b = e.record[k]
      BY <2>0 DEF ConsoleTold
    <2>2. PICK s : s = [i \in DOMAIN b |-> ConsoleDecoded(KindOf[k], b[i])]
      OBVIOUS
    <2>3. more[k] = s
      BY <1>7, <2>1, <2>2 DEF ConsoleCalls
    <2>4. DOMAIN b = 1..Len(b) /\ Len(b) \in Nat /\ \A i \in DOMAIN b : b[i] \in CodedOf(k)
      OBVIOUS
    <2>5. \A i \in DOMAIN b : s[i] \in Values /\ s[i][1] = b[i][1]
      BY <2>2, <2>4, TextsStay
    <2>6. s = [i \in 1..Len(b) |-> s[i]] /\ DOMAIN s = DOMAIN b
      BY <2>2, <2>4
    <2>7. s \in Seq(Values)
      BY <2>4, <2>5, <2>6
    <2>8. Texts(s) = Texts(b)
      BY <2>5, <2>6 DEF Texts
    <2> QED
      BY <1>3, <2>1, <2>3, <2>7, <2>8
  <1>11. more \in [Keys -> Seq(Values)] /\ e.told \in [Keys -> Seq(Values)]
    BY <1>t, <1>3, <1>7, <1>10 DEF CallsOK
  <1>12. ReadSoFar(ConsoleReplay, Records, consoleHeld)
    BY DEF ConsoleTold
  <1>13. PICK made \in [Keys -> Seq(Values)], records \in Seq(Entry), held \in [Keys -> Seq(Coded)] :
             made = ConsoleReplay /\ records = Records /\ held = consoleHeld
    BY <1>5, <1>9, <1>12 DEF ReadSoFar
  <1>14. ReadSoFar([k \in Keys |-> made[k] \o more[k]], Append(records, e), held)
    BY <1>3, <1>10, <1>11, <1>12, <1>13, ReadsRecord
  <1>15. ReadSoFar(ConsoleReplay', Records', consoleHeld)
    BY <1>4, <1>8, <1>13, <1>14
  <1>16. consoleHeld' = consoleHeld
    BY <1>1 DEF consoleHeld
  <1> QED
    BY <1>1, <1>5, <1>15, <1>16 DEF ConsoleTold

(* One step of the console base logger. *)
LEMMA ConsoleToldStep ==
  ASSUME ConsoleInv, ConsoleTold, ConsoleStep
  PROVE  ConsoleTold'
  <1>1. CASE \E p \in Procs : ConsoleMetadata(p) \/ ConsoleReturn(p)
    <2>1. UNCHANGED <<lines, given, output>>
      BY <1>1 DEF ConsoleMetadata, ConsoleReturn, Enter
    <2>2. Records' = Records /\ consoleHeld' = consoleHeld
      BY <2>1 DEF Records, consoleHeld
    <2>3. ConsoleReplay' = ConsoleReplay
      BY <2>2 DEF ConsoleReplay
    <2> QED
      BY <2>1, <2>2, <2>3 DEF ConsoleTold
  <1>2. CASE \E p \in Procs, kind \in Kinds : ConsoleSet(p, kind)
    BY <1>2, ConsoleToldSet
  <1>3. CASE ConsoleAppend
    BY <1>3, ConsoleToldAppend
  <1> QED
    BY <1>1, <1>2, <1>3
    DEF ConsoleStep, ConsoleSetAny, ConsoleSetBool, ConsoleSetEnum, ConsoleSetFloat64,
        ConsoleSetInt64, ConsoleSetLink, ConsoleSetString, ConsoleSetTime, Kinds

(* What the console's replay reads leaves what the last record was told. *)
LEMMA ConsoleToldAgrees ==
  ASSUME ConsoleInv, ConsoleTold, base = "console"
  PROVE  ReplayAgrees
  <1>1. \A k \in used : k \in Keys /\ Read(k) = ConsoleReplay[k]
    BY DEF ConsoleInv, ConsoleTypeOK, CallsOK, Read
  <1>2. ReadSoFar(ConsoleReplay, Records, consoleHeld)
    BY DEF ConsoleTold
  <1> QED
    BY <1>1, <1>2, ReadSoFarAgrees

-----------------------------------------------------------------------------
(* Protobuf. *)
Attribute == [key : Keys, values : Seq(Coded)]
Chunk     == [record : Seq(Attribute), told : [Keys -> Seq(Values)]]

(* One record more of protobuf is read. *)
LEMMA PbReadsOn ==
  ASSUME NEW X, NEW records \in Seq(X), NEW r \in X, Records = records, Records' = Append(records, r)
  PROVE  PbReplay' = ThenPb(PbReplay, r)
  <1>1. \A s : PbFold!FoldLeft(ThenPb, NoCalls, s) = FoldLeft(ThenPb, NoCalls, s)
    BY Zenon DEF FoldLeft, PbFold!FoldLeft, MapThenFoldSet, PbFold!MapThenFoldSet, Max, PbFold!Max
  <1>2. \A w : PbFold!FoldLeft(ThenPb, w, Append(records, r))
                   = ThenPb(PbFold!FoldLeft(ThenPb, w, records), r)
    BY PbFold!FoldGrows
  <1>3. PbReplay = FoldLeft(ThenPb, NoCalls, records)
    BY Zenon DEF PbReplay
  <1>4. PbReplay' = FoldLeft(ThenPb, NoCalls, Append(records, r))
    BY Zenon DEF PbReplay
  <1> QED
    BY <1>1, <1>2, <1>3, <1>4, Zenon

(* Nothing is read of no record. *)
LEMMA PbReadsNothing == Records = <<>> => PbReplay = NoCalls
  <1>1. PbFold!FoldLeft(ThenPb, NoCalls, <<>>) = FoldLeft(ThenPb, NoCalls, <<>>)
    BY Zenon DEF FoldLeft, PbFold!FoldLeft, MapThenFoldSet, PbFold!MapThenFoldSet, Max, PbFold!Max
  <1>2. \A w : PbFold!FoldLeft(ThenPb, w, <<>>) = w
    BY PbFold!FoldEmpty
  <1> QED
    BY <1>1, <1>2, Zenon DEF PbReplay

(* An attribute more in a record is a call more. *)
LEMMA PbCallsGrow ==
  ASSUME NEW s \in Seq(Attribute), NEW a \in Attribute
  PROVE  PbCalls(Append(s, a)) = PbCall(PbCalls(s), a)
  <1>1. \A x : PbCallsFold!FoldLeft(PbCall, NoCalls, x) = FoldLeft(PbCall, NoCalls, x)
    BY Zenon DEF FoldLeft, PbCallsFold!FoldLeft, MapThenFoldSet, PbCallsFold!MapThenFoldSet, Max, PbCallsFold!Max
  <1>2. \A w : PbCallsFold!FoldLeft(PbCall, w, Append(s, a))
                   = PbCall(PbCallsFold!FoldLeft(PbCall, w, s), a)
    BY PbCallsFold!FoldGrows
  <1> QED
    BY <1>1, <1>2, Zenon DEF PbCalls

(* A record without attributes makes no call. *)
LEMMA PbCallsNothing == PbCalls(<<>>) = NoCalls
  <1>1. PbCallsFold!FoldLeft(PbCall, NoCalls, <<>>) = FoldLeft(PbCall, NoCalls, <<>>)
    BY Zenon DEF FoldLeft, PbCallsFold!FoldLeft, MapThenFoldSet, PbCallsFold!MapThenFoldSet, Max, PbCallsFold!Max
  <1>2. \A w : PbCallsFold!FoldLeft(PbCall, w, <<>>) = w
    BY PbCallsFold!FoldEmpty
  <1> QED
    BY <1>1, <1>2, Zenon DEF PbCalls

(* The list of attributes has the texts of every call, in their order. *)
PbTold ==
    /\ CallsOK(PbPlaces)
    /\ protoSpan \in Seq(Attribute) /\ output \in Seq(Chunk) /\ Records \in Seq(Chunk)
    /\ PbCalls(protoSpan) \in [Keys -> Seq(Values)]
    /\ \A k \in Keys : Texts(PbCalls(protoSpan)[k]) = Texts(given[k])
    /\ ReadSoFar(PbReplay, Records, PbCalls(protoSpan))

(* It is so when the span begins. *)
LEMMA PbToldInit == CallsInit /\ PbInit => PbTold
  <1> SUFFICES ASSUME CallsInit, PbInit PROVE PbTold
    OBVIOUS
  <1>1. Records = <<>> /\ PbReplay = NoCalls /\ PbCalls(protoSpan) = NoCalls
    BY NoRecords, PbReadsNothing, PbCallsNothing DEF CallsInit, PbInit
  <1>2. given = NoCalls
    BY DEF CallsInit, NoCalls
  <1>3. CallsOK(PbPlaces)
    BY AttributeCallsAssumption DEF AttributeCallsAssumption, CallsInit, CallsOK
  <1>4. <<>> \in Seq(Values) /\ <<>> \in Seq(Chunk) /\ <<>> \in Seq(Attribute)
    OBVIOUS
  <1>5. NoCalls \in [Keys -> Seq(Values)] /\ \A k \in Keys : NoCalls[k] = <<>>
    BY <1>4 DEF NoCalls
  <1>6. \A k, b : Behind(k, <<>>, b)
    BY NothingBehind
  <1>7. ReadSoFar(NoCalls, <<>>, NoCalls)
    BY <1>5, <1>6 DEF ReadSoFar
  <1> QED
    BY <1>1, <1>2, <1>3, <1>4, <1>5, <1>7 DEF PbTold, CallsInit, PbInit

(* A value becomes an attribute of the list. *)
LEMMA PbToldSet ==
  ASSUME PbTold, NEW p \in Procs, NEW kind, PbSet(p, kind)
  PROVE  PbTold'
  <1>t. /\ CallsOK(PbPlaces) /\ protoSpan \in Seq(Attribute)
        /\ PbCalls(protoSpan) \in [Keys -> Seq(Values)]
        /\ ReadSoFar(PbReplay, Records, PbCalls(protoSpan))
    BY DEF PbTold
  <1>1. /\ at[p] = "append" /\ KindOf[Key(p)] = kind /\ at' = [at EXCEPT ![p] = "appended"]
        /\ UNCHANGED <<used, call, output>>
    BY DEF PbSet, Go
  <1>2. PICK k \in Keys, v \in Values : k = Key(p) /\ v = Value(p)
    BY <1>t, <1>1 DEF CallsOK
  <1>3. given' = [given EXCEPT ![k] = Append(given[k], v)]
    BY <1>2 DEF PbSet, TakeEffect
  <1>4. PICK e \in CodedOf(k) : e = PbEncoded(KindOf[k], v) /\ e[1] = v[1]
    BY TextsStay
  <1>5. PICK d \in Values : d = PbDecoded(KindOf[k], e) /\ d[1] = v[1]
    <2>1. PbDecoded(KindOf[k], e) \in Values /\ PbDecoded(KindOf[k], e)[1] = e[1]
      BY TextsStay
    <2> QED
      BY <1>4, <2>1
  <1>6. PICK a : a = [key |-> k, values |-> <<e>>]
    OBVIOUS
  <1>7. a \in Attribute /\ a.key = k /\ a.values[1] = e
    <2>1. e \in Coded
      BY DEF CodedOf, Coded
    <2>2. <<e>> \in Seq(Coded) /\ <<e>>[1] = e
      BY <2>1
    <2> QED
      BY <1>6, <2>2 DEF Attribute
  <1>8. protoSpan' = Append(protoSpan, a)
    BY <1>1, <1>2, <1>4, <1>6 DEF PbSet
  <1>9. protoSpan' \in Seq(Attribute)
    BY <1>t, <1>7, <1>8, Appends
  <1>10. PICK calls0 \in [Keys -> Seq(Values)] : calls0 = PbCalls(protoSpan)
    BY <1>t
  <1>11. PICK calls1 : calls1 = PbCalls(protoSpan)'
    OBVIOUS
  <1>12. calls1 = PbCall(calls0, a)
    <2>1. PbCalls(Append(protoSpan, a)) = PbCall(PbCalls(protoSpan), a)
      BY <1>t, <1>7, PbCallsGrow
    <2> QED
      BY <1>8, <1>10, <1>11, <2>1
  <1>13. PICK s \in Seq(Values), t \in Seq(Values) : s = calls0[k] /\ t = given[k] /\ Texts(s) = Texts(t)
    BY <1>t, <1>10 DEF PbTold, CallsOK
  <1>14. PICK u \in Seq(Values) : u = Append(s, d)
    BY Appends
  <1>15. calls1 = [calls0 EXCEPT ![k] = u]
    BY <1>5, <1>7, <1>12, <1>13, <1>14 DEF PbCall
  <1>16. calls1 \in [Keys -> Seq(Values)] /\ calls1[k] = u /\ \A j \in Keys \ {k} : calls1[j] = calls0[j]
    BY <1>15
  <1>17. PICK w \in Seq(Values) : w = Append(t, v)
    BY Appends
  <1>18. given' \in [Keys -> Seq(Values)] /\ given'[k] = w /\ \A j \in Keys \ {k} : given'[j] = given[j]
    BY <1>t, <1>3, <1>13, <1>17 DEF CallsOK
  <1>19. Texts(u) = Texts(w)
    BY <1>5, <1>13, <1>14, <1>17, SameAppended
  <1>20. \A j \in Keys : Texts(calls1[j]) = Texts(given'[j])
    BY <1>10, <1>16, <1>18, <1>19 DEF PbTold
  <1>21. \A j \in Keys : \A r : Behind(j, r, calls0[j]) => Behind(j, r, calls1[j])
    <2>1. u # <<>> /\ TextsOf(u) = TextsOf(s) \cup {d[1]} /\ u[1] = IF s = <<>> THEN d ELSE s[1]
      BY <1>14, Appends
    <2>2. \A r : Behind(k, r, s) => Behind(k, r, u)
      BY <2>1 DEF Behind
    <2> QED
      BY <1>13, <1>16, <2>2
  <1>22. Records' = Records
    BY <1>1 DEF Records
  <1>23. PbReplay' = PbReplay
    BY <1>22 DEF PbReplay
  <1>24. ReadSoFar(PbReplay, Records, calls1)
    BY <1>t, <1>10, <1>21 DEF ReadSoFar
  <1>25. \A q : Key(q)' = Key(q) /\ Value(q)' = Value(q)
    BY <1>1 DEF Key, Value
  <1>26. CallsOK(PbPlaces)'
    BY <1>t, <1>1, <1>18, <1>25 DEF CallsOK, PbPlaces
  <1> QED
    BY <1>1, <1>9, <1>11, <1>16, <1>20, <1>22, <1>23, <1>24, <1>26 DEF PbTold

(* A flush copies the list. *)
LEMMA PbToldCopy ==
  ASSUME PbTold, PbCopy
  PROVE  PbTold'
  <1>t. /\ CallsOK(PbPlaces) /\ protoSpan \in Seq(Attribute) /\ output \in Seq(Chunk) /\ Records \in Seq(Chunk)
        /\ PbCalls(protoSpan) \in [Keys -> Seq(Values)] /\ given \in [Keys -> Seq(Values)]
        /\ ReadSoFar(PbReplay, Records, PbCalls(protoSpan))
    BY DEF PbTold, CallsOK
  <1>1. UNCHANGED <<used, at, call, given, protoSpan>>
    BY DEF PbCopy
  <1>2. PICK e : e = [record |-> protoSpan, told |-> given]
    OBVIOUS
  <1>3. e \in Chunk /\ IsRecord(e) /\ e.told = given /\ e.record = protoSpan /\ Write(e)
    BY <1>t, <1>2 DEF Chunk, IsRecord, PbCopy
  <1>4. output' \in Seq(Chunk)
    BY <1>t, <1>3, Appends DEF Write
  <1>5. Records' = Append(Records, e)
    BY <1>t, <1>3, RecordsGrow
  <1>6. Records' \in Seq(Chunk)
    BY <1>t, <1>3, <1>5, Appends
  <1>7. PICK made \in [Keys -> Seq(Values)], records \in Seq(Chunk), held \in [Keys -> Seq(Values)] :
            made = PbReplay /\ records = Records /\ held = PbCalls(protoSpan)
    BY <1>t DEF ReadSoFar
  <1>8. PbReplay' = ThenPb(PbReplay, e)
    BY <1>3, <1>5, <1>7, PbReadsOn
  <1>9. PbReplay' = [k \in Keys |-> made[k] \o held[k]]
    BY <1>3, <1>7, <1>8 DEF ThenPb
  <1>10. ASSUME NEW k \in Keys
         PROVE  Texts(held[k]) = Texts(held[k]) /\ Alike(k, held[k], e.told[k])
    <2>1. Texts(held[k]) = Texts(given[k])
      BY <1>7 DEF PbTold
    <2>2. held[k] \in Seq(Values) /\ given[k] \in Seq(Values)
      BY <1>t
    <2> QED
      BY <1>3, <2>1, <2>2, SameAlike
  <1>11. ReadSoFar(made, records, held) /\ e.told \in [Keys -> Seq(Values)]
    BY <1>t, <1>3, <1>7
  <1>12. ReadSoFar([k \in Keys |-> made[k] \o held[k]], Append(records, e), held)
    BY <1>3, <1>10, <1>11, ReadsRecord
  <1>13. ReadSoFar(PbReplay', Records', PbCalls(protoSpan))
    BY <1>5, <1>7, <1>9, <1>12
  <1>14. PbCalls(protoSpan)' = PbCalls(protoSpan)
    BY <1>1
  <1>15. \A q : Key(q)' = Key(q) /\ Value(q)' = Value(q)
    BY <1>1 DEF Key, Value
  <1>16. CallsOK(PbPlaces)'
    BY <1>t, <1>1, <1>15 DEF CallsOK
  <1>17. \A k \in Keys : Texts(PbCalls(protoSpan)[k]) = Texts(given'[k])
    BY <1>1 DEF PbTold
  <1> QED
    BY <1>t, <1>1, <1>4, <1>6, <1>13, <1>14, <1>16, <1>17 DEF PbTold

-----------------------------------------------------------------------------
(* Idle is no place inside a call. *)
LEMMA PbPlacesFact == "idle" \notin PbPlaces /\ "append" \in PbPlaces
  BY DEF PbPlaces

(* A step that leaves the list, the output and what took effect alone. *)
LEMMA PbToldStays ==
  ASSUME PbTold, CallsOK(PbPlaces)', UNCHANGED <<protoSpan, output, given>>
  PROVE  PbTold'
  <1>1. Records' = Records
    BY DEF Records
  <1>2. PbReplay' = PbReplay
    BY <1>1 DEF PbReplay
  <1>3. PbCalls(protoSpan)' = PbCalls(protoSpan)
    OBVIOUS
  <1> QED
    BY <1>1, <1>2, <1>3 DEF PbTold

(* The call of a MetadataX method. *)
LEMMA PbToldEnter ==
  ASSUME PbTold, NEW p \in Procs, PbMetadata(p)
  PROVE  PbTold'
  <1>1. PICK kind \in Kinds : Enter(p, kind, "append")
    BY DEF PbMetadata
  <1>2. CallsOK(PbPlaces)
    BY DEF PbTold
  <1>3. CallsOK(PbPlaces)' /\ output' = output
    BY <1>1, <1>2, CallEntered, PbPlacesFact
  <1>4. UNCHANGED <<protoSpan, given>>
    BY <1>1 DEF PbMetadata, Enter
  <1> QED
    BY <1>3, <1>4, PbToldStays

(* The return of a MetadataX method. *)
LEMMA PbToldReturn ==
  ASSUME PbTold, NEW p \in Procs, PbReturn(p)
  PROVE  PbTold'
  <1>t. CallsOK(PbPlaces)
    BY DEF PbTold
  <1>1. /\ at' = [at EXCEPT ![p] = "idle"] /\ call' = [call EXCEPT ![p] = <<>>]
        /\ UNCHANGED <<used, given, output, protoSpan>>
    BY DEF PbReturn, Leave, Go
  <1>2. at'[p] = "idle" /\ \A q \in Procs \ {p} : at'[q] = at[q] /\ call'[q] = call[q]
    BY <1>t, <1>1 DEF CallsOK
  <1>3. \A q \in Procs \ {p} : Key(q)' = Key(q) /\ Value(q)' = Value(q)
    BY <1>2 DEF Key, Value
  <1>4. CallsOK(PbPlaces)'
    BY <1>t, <1>1, <1>2, <1>3 DEF CallsOK
  <1> QED
    BY <1>1, <1>4, PbToldStays

(* One step of the protobuf base logger. *)
LEMMA PbToldStep ==
  ASSUME PbTold, PbStep
  PROVE  PbTold'
  <1>1. CASE \E p \in Procs : PbMetadata(p) \/ PbReturn(p)
    BY <1>1, PbToldEnter, PbToldReturn
  <1>2. CASE \E p \in Procs, kind \in Kinds : PbSet(p, kind)
    BY <1>2, PbToldSet
  <1>3. CASE PbCopy
    BY <1>3, PbToldCopy
  <1> QED
    BY <1>1, <1>2, <1>3
    DEF PbStep, PbSetAny, PbSetBool, PbSetEnum, PbSetFloat64, PbSetInt64, PbSetLink, PbSetString,
        PbSetTime, Kinds

(* What protobuf's replay reads leaves what the last copy was told. *)
LEMMA PbToldAgrees ==
  ASSUME PbTold, base = "pb"
  PROVE  ReplayAgrees
  <1>1. \A k \in used : k \in Keys /\ Read(k) = PbReplay[k]
    BY DEF PbTold, CallsOK, Read
  <1>2. ReadSoFar(PbReplay, Records, PbCalls(protoSpan))
    BY DEF PbTold
  <1>3. PICK held : held = PbCalls(protoSpan)
    OBVIOUS
  <1> QED
    BY <1>1, <1>2, <1>3, ReadSoFarAgrees

-----------------------------------------------------------------------------
(* The base loggers together. *)
ToldInv ==
    /\ AttributesInv
    /\ base = "recorder" => EventsTold
    /\ base = "json" => JsonTold
    /\ base = "console" => ConsoleTold
    /\ base = "pb" => PbTold

(* It holds when the span begins. *)
LEMMA ToldInit == Init => ToldInv
  <1> SUFFICES ASSUME Init PROVE ToldInv
    OBVIOUS
  <1>1. CallsInit /\ MetadataInit /\ ConsoleInit /\ PbInit /\ JsonInit
    BY DEF Init
  <1>2. EventsTold /\ JsonTold /\ ConsoleTold /\ PbTold
    BY <1>1, EventsToldInit, JsonToldInit, ConsoleToldInit, PbToldInit
  <1> QED
    BY <1>2, AttributesInit DEF ToldInv

(* Every step of the composition keeps it. *)
LEMMA ToldNext == ToldInv /\ Next => ToldInv'
  <1> SUFFICES ASSUME ToldInv, Next PROVE ToldInv'
    OBVIOUS
  <1>1. AttributesInv /\ AttributesInv'
    BY AttributesNext DEF ToldInv
  <1>2. CASE base = "recorder" /\ base' = base /\ \E p \in Procs : MetadataStep(p)
    <2>1. MetadataInv /\ EventsTold
      BY <1>1, <1>2 DEF ToldInv, AttributesInv
    <2>2. EventsTold'
      BY <1>2, <2>1, EventsToldStep
    <2> QED
      BY <1>1, <1>2, <2>2 DEF ToldInv
  <1>3. CASE base = "json" /\ base' = base /\ JsonStep
    <2>1. JsonInv /\ JsonTold
      BY <1>1, <1>3 DEF ToldInv, AttributesInv
    <2>2. JsonTold'
      BY <1>3, <2>1, JsonToldStep
    <2> QED
      BY <1>1, <1>3, <2>2 DEF ToldInv
  <1>4. CASE base = "console" /\ base' = base /\ ConsoleStep
    <2>1. ConsoleInv /\ ConsoleTold
      BY <1>1, <1>4 DEF ToldInv, AttributesInv
    <2>2. ConsoleTold'
      BY <1>4, <2>1, ConsoleToldStep
    <2> QED
      BY <1>1, <1>4, <2>2 DEF ToldInv
  <1>5. CASE base = "pb" /\ base' = base /\ PbStep
    <2>1. PbTold
      BY <1>5 DEF ToldInv
    <2>2. PbTold'
      BY <1>5, <2>1, PbToldStep
    <2> QED
      BY <1>1, <1>5, <2>2 DEF ToldInv
  <1> QED
    BY <1>2, <1>3, <1>4, <1>5 DEF Next

(* So does a step of nothing. *)
LEMMA ToldStutter == ToldInv /\ UNCHANGED attributeVars => ToldInv'
  <1> SUFFICES ASSUME ToldInv, UNCHANGED attributeVars PROVE ToldInv'
    OBVIOUS
  <1>1. /\ UNCHANGED <<used, at, call, given, output, base, builder, lines, protoSpan>>
        /\ AttributesInv /\ AttributesInv'
    BY AttributesStutter DEF ToldInv, attributeVars, callVars, jsonVars
  <1>2. \A q : Key(q)' = Key(q) /\ Value(q)' = Value(q)
    BY <1>1 DEF Key, Value
  <1>3. EventsTold => EventsTold'
    <2>1. \A q \in Procs : Notes(q)' <=> Notes(q)
      BY <1>1 DEF Notes
    <2> QED
      BY <1>1, <1>2, <2>1, EventsToldStays
  <1>4. Records' = Records
    BY <1>1 DEF Records
  <1>5. JsonTold => JsonTold'
    BY <1>1, <1>4 DEF JsonTold
  <1>6. ConsoleTold => ConsoleTold'
    <2>1. ConsoleReplay' = ConsoleReplay
      BY <1>4 DEF ConsoleReplay
    <2>2. consoleHeld' = consoleHeld
      BY <1>1 DEF consoleHeld
    <2> QED
      BY <1>1, <1>4, <2>1, <2>2 DEF ConsoleTold
  <1>7. PbTold => PbTold'
    <2>1. CallsOK(PbPlaces) => CallsOK(PbPlaces)'
      BY <1>1, <1>2 DEF CallsOK
    <2>2. PbTold => CallsOK(PbPlaces)
      BY DEF PbTold
    <2> QED
      BY <1>1, <2>1, <2>2, PbToldStays
  <1> QED
    BY <1>1, <1>3, <1>5, <1>6, <1>7 DEF ToldInv

(* What every base logger keeps and has written, while attributes are set. *)
THEOREM ToldInvariant == Spec => []ToldInv
  <1>1. ToldInv /\ [Next]_attributeVars => ToldInv'
    BY ToldNext, ToldStutter
  <1> QED
    BY <1>1, ToldInit, PTL DEF Spec

(* Once no MetadataX call is in progress, the events of the recorder name  *)
(* nothing that was not set, and all values of an attribute that is        *)
(* multiple: the recorder's replay, which goes by the events, loses none.  *)
THEOREM EventsAreComplete == Spec => []EventsComplete
  <1>1. ToldInv => EventsComplete
    <2>1. ASSUME base = "recorder", ToldInv PROVE EventsComplete
      BY <2>1, EventsToldComplete DEF ToldInv, AttributesInv
    <2>2. ASSUME base # "recorder" PROVE EventsComplete
      BY <2>2 DEF EventsComplete
    <2> QED
      BY <2>1, <2>2
  <1> QED
    BY <1>1, ToldInvariant, PTL

(* Replayed into a recorder, each record of JSON, of the console and of    *)
(* protobuf gives the attributes that a recorder in their place would have *)
(* had: the same texts, in the order in which the calls took effect.       *)
THEOREM ReplaysAgree == Spec => []ReplayAgrees
  <1>1. ToldInv => ReplayAgrees
    <2> SUFFICES ASSUME ToldInv PROVE ReplayAgrees
      OBVIOUS
    <2>1. CASE base = "recorder"
      BY <2>1 DEF ReplayAgrees
    <2>2. CASE base = "json"
      BY <2>2, JsonToldAgrees DEF ToldInv, AttributesInv
    <2>3. CASE base = "console"
      BY <2>3, ConsoleToldAgrees DEF ToldInv, AttributesInv
    <2>4. CASE base = "pb"
      BY <2>4, PbToldAgrees DEF ToldInv
    <2> QED
      BY <2>1, <2>2, <2>3, <2>4 DEF ToldInv, AttributesInv
  <1> QED
    BY <1>1, ToldInvariant, PTL
=============================================================================
