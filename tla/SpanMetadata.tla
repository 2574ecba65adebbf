---------------------------- MODULE SpanMetadata ----------------------------
(***************************************************************************)
(* xopbase/xopbaseutil/metadata.go: the attributes of a span in a map of   *)
(* trackers, each with a mutex, and xoprecorder, which notes an event      *)
(* after each call.  Whoever stores the tracker of a new key has locked it *)
(* before, so that nobody sees a tracker without its first value; who      *)
(* finds a tracker waits for its mutex.                                    *)
(*                                                                         *)
(* The eight MetadataX functions are the same code for eight types; they   *)
(* differ in what makes two values distinct.  An action is one access to   *)
(* the map, to a tracker or to the events of the recorder.                 *)
(***************************************************************************)
EXTENDS AttributeCalls

CONSTANT Nobody
ASSUME NobodyAssumption == Nobody \notin Procs

VARIABLES
    loaded,   \* the local variable, per goroutine
    stored,   \* the keys in the sync.Map
    mu,       \* who holds MetadataTracker.Mu
    tracker   \* Attribute, Value and Seen of each tracker

metadataVars == <<loaded, stored, mu, tracker>>
vars         == <<callVars, metadataVars>>

MetadataPlaces == {"load", "store", "lock", "update", "unlock", "event"}

-----------------------------------------------------------------------------
(* The key of the Seen map. *)
SeenAny(v)     == <<v[1]>>  \* the encoded model
SeenBool(v)    == v
SeenEnum(v)    == <<v[1]>>  \* its name
SeenFloat64(v) == v
SeenInt64(v)   == v
SeenLink(v)    == v
SeenString(v)  == v
SeenTime(v)    == v

SeenKey(kind, v) ==
    CASE kind = "Any"  -> SeenAny(v)  [] kind = "Bool"    -> SeenBool(v)
      [] kind = "Enum" -> SeenEnum(v) [] kind = "Float64" -> SeenFloat64(v)
      [] kind = "Link" -> SeenLink(v) [] kind = "Int64"   -> SeenInt64(v)
      [] kind = "Time" -> SeenTime(v) [] kind = "String"  -> SeenString(v)

NewTracker == [attribute |-> FALSE, values |-> <<>>, seen |-> {}]

MetadataInit ==
    /\ loaded = [p \in Procs |-> FALSE]
    /\ stored = {} /\ mu = [k \in Keys |-> Nobody]
    /\ tracker = [k \in Keys |-> NewTracker]

-----------------------------------------------------------------------------
Load(p) ==
    /\ at[p] = "load"
    /\ Go(p, IF Key(p) \in stored THEN "lock" ELSE "store")
    /\ loaded' = [loaded EXCEPT ![p] = Key(p) \in stored]
    /\ UNCHANGED <<used, call, given, calls, output, stored, mu, tracker>>

(* Fault: the new tracker is offered to the others before it is locked. *)
StoreUnlocked(p) ==
    /\ at[p] = "store"
    /\ Go(p, IF Key(p) \in stored THEN "lock" ELSE "update")
    /\ loaded' = [loaded EXCEPT ![p] = Key(p) \in stored]
    /\ stored' = stored \cup {Key(p)}
    /\ UNCHANGED <<used, call, given, calls, output, mu, tracker>>

(* LoadOrStore of a new tracker that is locked already; the loser of a race *)
(* drops its own tracker and waits for the winner's.                        *)
Store(p) ==
    /\ at[p] = "store"
    /\ loaded' = [loaded EXCEPT ![p] = Key(p) \in stored]
    /\ IF Key(p) \in stored
       THEN Go(p, "lock") /\ UNCHANGED <<stored, mu>>
       ELSE /\ Go(p, "update")
            /\ stored' = stored \cup {Key(p)}
            /\ mu' = [mu EXCEPT ![Key(p)] = p]
    /\ UNCHANGED <<used, call, given, calls, output, tracker>>

Lock(p) ==
    /\ at[p] = "lock" /\ mu[Key(p)] = Nobody
    /\ mu' = [mu EXCEPT ![Key(p)] = p]
    /\ Go(p, "update")
    /\ UNCHANGED <<used, call, given, calls, output, loaded, stored, tracker>>

Updated(t, first, k, v) ==
    LET seen == SeenKey(KindOf[k], v) IN
    CASE k \in Multiple /\ k \in Distinct /\ ~first /\ seen \in t.seen -> t
      [] k \notin Multiple /\ k \in Locked /\ ~first -> t
      [] OTHER -> [attribute |-> TRUE,
                   values |-> IF k \in Multiple /\ ~first THEN Append(t.values, v) ELSE <<v>>,
                   seen   |-> IF k \in Multiple /\ k \in Distinct THEN t.seen \cup {seen} ELSE {}]

(* Under the mutex; the deferred Unlock is a step of its own. *)
Update(p) ==
    /\ at[p] = "update"
    /\ tracker' = [tracker EXCEPT ![Key(p)] = Updated(@, ~loaded[p], Key(p), Value(p))]
    /\ TakeEffect(p)
    /\ Go(p, "unlock")
    /\ UNCHANGED <<used, call, calls, output, loaded, stored, mu>>

Unlock(p) ==
    /\ at[p] = "unlock"
    /\ mu' = [mu EXCEPT ![Key(p)] = Nobody]
    /\ Go(p, "event")
    /\ UNCHANGED <<used, call, given, calls, output, loaded, stored, tracker>>

(* Fault: only a new attribute is an event. *)
MetadataSetFirst(p) ==
    /\ at[p] = "event"
    /\ IF loaded[p] THEN UNCHANGED output ELSE Write([set |-> Key(p), value |-> Value(p)])
    /\ Leave(p)
    /\ UNCHANGED <<used, given, calls, metadataVars>>

(* xoprecorder: the MetadataSet event, under the lock of the recorder. *)
MetadataSet(p) ==
    /\ at[p] = "event"
    /\ Write([set |-> Key(p), value |-> Value(p)])
    /\ Leave(p)
    /\ UNCHANGED <<used, given, calls, metadataVars>>

MetadataAny(p)     == Enter(p, "Any", "load") /\ UNCHANGED metadataVars
MetadataBool(p)    == Enter(p, "Bool", "load") /\ UNCHANGED metadataVars
MetadataEnum(p)    == Enter(p, "Enum", "load") /\ UNCHANGED metadataVars
MetadataFloat64(p) == Enter(p, "Float64", "load") /\ UNCHANGED metadataVars
MetadataInt64(p)   == Enter(p, "Int64", "load") /\ UNCHANGED metadataVars
MetadataLink(p)    == Enter(p, "Link", "load") /\ UNCHANGED metadataVars
MetadataString(p)  == Enter(p, "String", "load") /\ UNCHANGED metadataVars
MetadataTime(p)    == Enter(p, "Time", "load") /\ UNCHANGED metadataVars

MetadataStep(p) ==
    \/ MetadataAny(p) \/ MetadataBool(p) \/ MetadataEnum(p) \/ MetadataFloat64(p)
    \/ MetadataInt64(p) \/ MetadataLink(p) \/ MetadataString(p) \/ MetadataTime(p)
    \/ Load(p) \/ Store(p) \/ Lock(p) \/ Update(p) \/ Unlock(p) \/ MetadataSet(p)

MetadataSpec ==
    CallsInit /\ MetadataInit /\ [][\E p \in Procs : MetadataStep(p)]_vars

-----------------------------------------------------------------------------
Recorded == INSTANCE Metadata WITH
    Identity <- [k \in Keys |-> [v \in Values |-> SeenKey(KindOf[k], v)]],
    kept     <- [k \in Keys |-> tracker[k].values],
    setting  <- [p \in Procs |-> IF at[p] \in MetadataPlaces THEN call[p] ELSE <<>>],
    taken    <- {p \in Procs : at[p] \in {"unlock", "event"}}

(* However their steps interleave, concurrent MetadataX calls act on the   *)
(* attributes one after the other, each at one moment between its          *)
(* beginning and its end: the metadata of a span implements Metadata.      *)
RecorderKeeps == Recorded!Spec

(* The mutex of a tracker is held by exactly who is between taking and     *)
(* releasing it, and nobody else gets to a tracker that has no value yet:  *)
(* its Attribute would be a nil pointer, and its Seen fail the assertion   *)
(* to a map.                                                               *)
Inside(p) == at[p] \in {"update", "unlock"}
TrackerGuarded ==
    \A p \in Procs : Inside(p) =>
        /\ mu[Key(p)] = p
        /\ at[p] = "update" /\ loaded[p] =>
              /\ tracker[Key(p)].attribute /\ tracker[Key(p)].values # <<>>
              /\ Key(p) \in Multiple /\ Key(p) \in Distinct => tracker[Key(p)].seen # {}
=============================================================================
