---------------------------- MODULE PbAttributes ----------------------------
(***************************************************************************)
(* xoppb: the attributes of a span, as protobuf messages under the mutex   *)
(* of the span.  attributeMap is read and never written, so that no call   *)
(* finds the attribute of an earlier one: each makes a SpanAttribute with  *)
(* one value.  A flush copies the list, all of it, into the chunk it       *)
(* writes.                                                                 *)
(***************************************************************************)
EXTENDS AttributeCalls

VARIABLE protoSpan \* the Attributes: key and values of each

PbInit == protoSpan = <<>>

-----------------------------------------------------------------------------
(* setValue: a model keeps its type, an enum its number, a time only its   *)
(* UnixNano.                                                               *)
PbEncoded(kind, v) == IF kind \in {"Any", "Enum"} THEN v ELSE <<v[1]>>

(* Fault: a value that the span has already is taken for known. *)
PbSetOnce(p, kind) ==
    /\ at[p] = "append" /\ KindOf[Key(p)] = kind
    /\ protoSpan' = IF \E i \in DOMAIN protoSpan : protoSpan[i].key = Key(p)
                    THEN protoSpan
                    ELSE Append(protoSpan, [key |-> Key(p), values |-> <<PbEncoded(kind, Value(p))>>])
    /\ TakeEffect(p)
    /\ Go(p, "appended")
    /\ UNCHANGED <<used, call, calls, output>>

PbSet(p, kind) ==
    /\ at[p] = "append" /\ KindOf[Key(p)] = kind
    /\ protoSpan' = Append(protoSpan, [key |-> Key(p), values |-> <<PbEncoded(kind, Value(p))>>])
    /\ TakeEffect(p)
    /\ Go(p, "appended")
    /\ UNCHANGED <<used, call, calls, output>>

PbSetAny(p)     == PbSet(p, "Any")
PbSetBool(p)    == PbSet(p, "Bool")
PbSetEnum(p)    == PbSet(p, "Enum")
PbSetFloat64(p) == PbSet(p, "Float64")
PbSetInt64(p)   == PbSet(p, "Int64")
PbSetLink(p)    == PbSet(p, "Link")
PbSetString(p)  == PbSet(p, "String")
PbSetTime(p)    == PbSet(p, "Time")

PbReturn(p) ==
    /\ at[p] = "appended" /\ Leave(p)
    /\ UNCHANGED <<used, given, calls, output, protoSpan>>

PbMetadata(p) ==
    /\ \E kind \in Kinds : Enter(p, kind, "append")
    /\ UNCHANGED protoSpan

(* getProto copies the list of attributes. *)
PbCopy ==
    /\ Len(output) < MaxReports
    /\ Write([record |-> protoSpan, told |-> given])
    /\ UNCHANGED <<used, at, call, given, calls, protoSpan>>

PbStep ==
    \/ \E p \in Procs :
          \/ PbMetadata(p) \/ PbReturn(p)
          \/ PbSetAny(p) \/ PbSetBool(p) \/ PbSetEnum(p) \/ PbSetFloat64(p)
          \/ PbSetInt64(p) \/ PbSetLink(p) \/ PbSetString(p) \/ PbSetTime(p)
    \/ PbCopy

-----------------------------------------------------------------------------
(* replayAttribute, for each attribute of the span in a chunk. *)
PbDecodedAny(e)  == e
PbDecodedEnum(e) == e
PbDecodedText(e) == <<e[1], 0>>
PbDecoded(kind, e) ==
    CASE kind = "Any"  -> PbDecodedAny(e)
      [] kind = "Enum" -> PbDecodedEnum(e)
      [] OTHER         -> PbDecodedText(e)

PbCall(made, a) ==
    [made EXCEPT ![a.key] = Append(@, PbDecoded(KindOf[a.key], a.values[1]))]
PbCalls(record) == FoldLeft(PbCall, NoCalls, record)

ThenPb(made, r) == LET more == PbCalls(r.record) IN [k \in Keys |-> made[k] \o more[k]]
PbReplay        == FoldLeft(ThenPb, NoCalls, Records)

-----------------------------------------------------------------------------
(* A locked attribute will "only keep the first value" (xopat/attributes.go:93). *)
LockedKeepsFirst ==
    \A k \in Keys : k \in Locked /\ k \notin Multiple =>
        Len(SelectSeq(protoSpan, LAMBDA a : a.key = k)) <= 1
=============================================================================
