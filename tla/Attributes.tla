----------------------------- MODULE Attributes -----------------------------
(***************************************************************************)
(* The attributes of a span in the base loggers that keep them, each alone *)
(* with the program: the recorder, JSON, the console and protobuf.  All of *)
(* them are to keep what Metadata says, and what each of them writes is to *)
(* give the same attributes when it is replayed into a recorder.           *)
(***************************************************************************)
EXTENDS SpanMetadata, JsonAttributes, ConsoleAttributes, PbAttributes

CONSTANT Bases \* the base loggers to look at
ASSUME BasesAssumption == Bases \subseteq {"recorder", "json", "console", "pb"}

(* A value with the text of another and nothing else is a value. *)
ASSUME ValuesAssumption == \A v \in Values : <<v[1], 0>> \in Values

VARIABLE base \* which base logger this behaviour is about

attributeVars ==
    <<base, callVars, metadataVars, jsonVars, lines, protoSpan>>

Init ==
    /\ base \in Bases
    /\ CallsInit /\ MetadataInit /\ ConsoleInit /\ PbInit
    /\ JsonInit /\ (base # "json" => option = "Once")

Next ==
    \/ /\ base = "recorder" /\ \E p \in Procs : MetadataStep(p)
       /\ UNCHANGED <<base, jsonVars, lines, protoSpan>>
    \/ /\ base = "json" /\ JsonStep
       /\ UNCHANGED <<base, metadataVars, lines, protoSpan>>
    \/ /\ base = "console" /\ ConsoleStep
       /\ UNCHANGED <<base, metadataVars, jsonVars, protoSpan>>
    \/ /\ base = "pb" /\ PbStep
       /\ UNCHANGED <<base, metadataVars, jsonVars, lines>>

Spec == Init /\ [][Next]_attributeVars

-----------------------------------------------------------------------------
(* Replay into a recorder: a call there for every call that the reader makes. *)
Again(values, c) == Recorded!With(values, c[1], c[2])
Into(k, values)  == FoldLeft(Again, <<>>, [i \in DOMAIN values |-> <<k, values[i]>>])

Texts(values)    == [i \in DOMAIN values |-> values[i][1]]
TextsEqual(k, s, t) ==
    IF k \in Multiple /\ k \in Distinct
    THEN {s[i][1] : i \in DOMAIN s} = {t[i][1] : i \in DOMAIN t}
    ELSE Texts(s) = Texts(t)

EventCall(made, e) == [made EXCEPT ![e.set] = Append(@, e.value)]
Events             == FoldLeft(EventCall, NoCalls, output)

(* The calls made by reading the output, which ends in a record, again. *)
Read(k) ==
    CASE base = "json"    -> JsonReplay(k)
      [] base = "console" -> ConsoleReplay[k]
      [] base = "pb"      -> PbReplay[k]

(* Reading several records of a span repeats the values of an attribute    *)
(* that is multiple and not distinct, except in JSON.                      *)
Repeated(k) ==
    base \in {"console", "pb"} /\ Len(Records) > 1 /\ k \in Multiple /\ k \notin Distinct

(* Replayed into a recorder, the output of the other base loggers gives    *)
(* the attributes that a recorder in their place would have: the same      *)
(* texts, in the order in which the calls took effect.                     *)
ReplayAgrees ==
    base # "recorder" /\ Records # <<>> =>
        \A k \in used :
            Repeated(k) \/ TextsEqual(k, Into(k, Read(k)), Into(k, Records[Len(Records)].told[k]))

(* The recorder notes the event of a call after the call: of two that race *)
(* the replay may keep the other one.  It invents and loses nothing.       *)
EventsComplete ==
    base = "recorder" /\ (\A p \in Procs : at[p] = "idle") =>
        \A k \in used :
            LET again == Into(k, Events[k]) IN
            /\ {again[i][1] : i \in DOMAIN again} \subseteq {given[k][i][1] : i \in DOMAIN given[k]}
            /\ k \in Multiple =>
                  {again[i][1] : i \in DOMAIN again} = {given[k][i][1] : i \in DOMAIN given[k]}

(* A reader finds the definition of every attribute: JSON's anywhere in    *)
(* the file, once nothing is being written; the console's, which is read   *)
(* as it comes, before the first record that uses it.                      *)
Replayable ==
    /\ base = "json" /\ (\A p \in Procs : at[p] = "idle") => JsonReplayable
    /\ base = "console" => ConsoleReplayable
=============================================================================
