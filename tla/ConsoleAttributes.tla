------------------------- MODULE ConsoleAttributes -------------------------
(***************************************************************************)
(* xopconsole/attributes.go: the attributes of a span, encoded as they     *)
(* come, under the lock of the span's builder.  The first value of a key   *)
(* writes the definition of the key while the lock is held.  Replay reads  *)
(* the output line by line: a record of the span sets all the attributes   *)
(* it carries, again for every record.                                     *)
(***************************************************************************)
EXTENDS AttributeCalls

VARIABLE lines \* singleMap and multiMap: [values, distinct] per key

ConsoleInit == lines = [k \in Keys |-> [values |-> <<>>, distinct |-> {}]]

-----------------------------------------------------------------------------
(* builder.go: a model is written (size)bytes encoding/type, an enum       *)
(* number/name; what else is written as its text only.                     *)
ConsoleEncoded(kind, v) == IF kind \in {"Any", "Enum"} THEN v ELSE <<v[1]>>

(* Fault: distinct is not asked for. *)
ConsoleMultiRepeats(s, k, e) == [s EXCEPT !.values = Append(@, e)]

(* The value is appended, and taken off again if its bytes are known. *)
ConsoleMulti(s, k, e) ==
    IF k \in Distinct /\ e \in s.distinct THEN s
    ELSE [values   |-> Append(s.values, e),
          distinct |-> IF k \in Distinct THEN s.distinct \cup {e} ELSE {}]

ConsoleSingle(s, k, e) ==
    IF s.values # <<>> /\ k \in Locked THEN s ELSE [s EXCEPT !.values = <<e>>]

(* Fault: the first record of a key is not preceded by its definition. *)
DefineKeyForgotten(k) == UNCHANGED output

(* defineKey, for a key that the span did not have. *)
DefineKey(k) == IF lines[k].values = <<>> THEN Write([def |-> k]) ELSE UNCHANGED output

ConsoleSet(p, kind) ==
    /\ at[p] = "print" /\ KindOf[Key(p)] = kind
    /\ LET k == Key(p)
           e == ConsoleEncoded(kind, Value(p))
       IN /\ DefineKey(k)
          /\ lines' = [lines EXCEPT ![k] =
                 IF k \in Multiple THEN ConsoleMulti(@, k, e) ELSE ConsoleSingle(@, k, e)]
    /\ TakeEffect(p)
    /\ Go(p, "printed")
    /\ UNCHANGED <<used, call, calls>>

ConsoleSetAny(p)     == ConsoleSet(p, "Any")
ConsoleSetBool(p)    == ConsoleSet(p, "Bool")
ConsoleSetEnum(p)    == ConsoleSet(p, "Enum")
ConsoleSetFloat64(p) == ConsoleSet(p, "Float64")
ConsoleSetInt64(p)   == ConsoleSet(p, "Int64")
ConsoleSetLink(p)    == ConsoleSet(p, "Link")
ConsoleSetString(p)  == ConsoleSet(p, "String")
ConsoleSetTime(p)    == ConsoleSet(p, "Time")

ConsoleReturn(p) ==
    /\ at[p] = "printed" /\ Leave(p)
    /\ UNCHANGED <<used, given, calls, output, lines>>

ConsoleMetadata(p) ==
    /\ \E kind \in Kinds : Enter(p, kind, "print")
    /\ UNCHANGED lines

(* Append(b, FALSE, ...): every attribute, changed or not. *)
ConsoleAppend ==
    /\ Len(Records) < MaxReports
    /\ Write([record |-> [k \in Keys |-> lines[k].values], told |-> given])
    /\ UNCHANGED <<used, at, call, given, calls, lines>>

ConsoleStep ==
    \/ \E p \in Procs :
          \/ ConsoleMetadata(p) \/ ConsoleReturn(p)
          \/ ConsoleSetAny(p) \/ ConsoleSetBool(p) \/ ConsoleSetEnum(p)
          \/ ConsoleSetFloat64(p) \/ ConsoleSetInt64(p) \/ ConsoleSetLink(p)
          \/ ConsoleSetString(p) \/ ConsoleSetTime(p)
    \/ ConsoleAppend

-----------------------------------------------------------------------------
ConsoleBuilt == INSTANCE Metadata WITH
    Values   <- Values \cup {<<v[1]>> : v \in Values},
    Identity <- [k \in Keys |-> [e \in Values \cup {<<v[1]>> : v \in Values} |-> e]],
    kept     <- [k \in Keys |-> lines[k].values],
    setting  <- [p \in Procs |->
                    IF at[p] \in {"print", "printed"}
                    THEN <<Key(p), ConsoleEncoded(KindOf[Key(p)], Value(p))>> ELSE <<>>],
    taken    <- {p \in Procs : at[p] = "printed"}

(* The same of the console's AttributeBuilder. *)
ConsoleKeeps == ConsoleBuilt!Spec

-----------------------------------------------------------------------------
(* oneMetadataValue. *)
ConsoleDecodedAny(e)  == e
ConsoleDecodedEnum(e) == e
ConsoleDecodedText(e) == <<e[1], 0>>
ConsoleDecoded(kind, e) ==
    CASE kind = "Any"  -> ConsoleDecodedAny(e)
      [] kind = "Enum" -> ConsoleDecodedEnum(e)
      [] OTHER         -> ConsoleDecodedText(e)

(* collectMetadata, record by record: a key needs an earlier definition. *)
ConsoleReplayable ==
    \A i \in DOMAIN output : "record" \in DOMAIN output[i] =>
        \A k \in Keys : output[i].record[k] # <<>> =>
            \E j \in 1 .. i - 1 : output[j] = [def |-> k]

ConsoleCalls(record, k) ==
    [i \in DOMAIN record[k] |-> ConsoleDecoded(KindOf[k], record[k][i])]

ThenConsole(made, r) == [k \in Keys |-> made[k] \o ConsoleCalls(r.record, k)]
ConsoleReplay        == FoldLeft(ThenConsole, NoCalls, Records)
=============================================================================
