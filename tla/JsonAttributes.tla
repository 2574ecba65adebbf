--------------------------- MODULE JsonAttributes ---------------------------
(***************************************************************************)
(* xopjson: the attributes of a span.  MetadataX of the span writes the    *)
(* definition of the attribute, depending on AttributeOption, and then     *)
(* encodes the value into an AttributeBuilder (xopjsonutil), under the     *)
(* lock of the builder.  A record of the span carries what the builder     *)
(* holds; ReplayFromStrings decodes the definitions of the whole file      *)
(* before the last record of the span.                                     *)
(***************************************************************************)
EXTENDS AttributeCalls

VARIABLES
    option,  \* AttributeOption
    defined, \* attributesDefined, the keys of a sync.Map
    builder  \* singleMap and multiMap: the encoded values and the Distinct map

jsonVars == <<option, defined, builder>>

JsonPlaces == {"define", "write", "encode", "return"}

(* For one request AttributesDefinedEachRequest takes the steps of Once. *)
AttributeOptions == {"Always", "Once"}

JsonInit ==
    /\ option \in AttributeOptions
    /\ defined = {}
    /\ builder = [k \in Keys |-> [values |-> <<>>, distinct |-> {}]]

-----------------------------------------------------------------------------
(* The encodings of builder.go: a model with its type, an enum with its    *)
(* number; a time, and everything else, only as its text.                  *)
JsonEncoded(kind, v) == IF kind \in {"Any", "Enum"} THEN v ELSE <<v[1]>>

JsonMulti(b, k, e) ==
    IF k \notin Distinct THEN [b EXCEPT !.values = Append(@, e)]
    ELSE IF e \in b.distinct THEN b
    ELSE [values |-> Append(b.values, e), distinct |-> b.distinct \cup {e}]

(* Fault: a later value of a locked attribute replaces the first one. *)
JsonSingleUnlocked(b, k, e) == [b EXCEPT !.values = <<e>>]

JsonSingle(b, k, e) == IF k \in Locked /\ b.values # <<>> THEN b ELSE [b EXCEPT !.values = <<e>>]

(* DefineAttribute is called always, or by whoever stores the key first. *)
JsonDefine(p) ==
    /\ at[p] = "define"
    /\ Go(p, IF option = "Always" \/ Key(p) \notin defined THEN "write" ELSE "encode")
    /\ defined' = IF option = "Always" THEN defined ELSE defined \cup {Key(p)}
    /\ UNCHANGED <<used, call, given, calls, output, option, builder>>

JsonWriteDefinition(p) ==
    /\ at[p] = "write"
    /\ Write([def |-> Key(p)])
    /\ Go(p, "encode")
    /\ UNCHANGED <<used, call, given, calls, jsonVars>>

(* AttributeBuilder.MetadataX: all of it with the builder locked. *)
JsonSet(p, kind) ==
    /\ at[p] = "encode" /\ KindOf[Key(p)] = kind
    /\ LET k == Key(p)
           e == JsonEncoded(kind, Value(p))
       IN builder' = [builder EXCEPT ![k] =
              IF k \in Multiple THEN JsonMulti(@, k, e) ELSE JsonSingle(@, k, e)]
    /\ TakeEffect(p)
    /\ Go(p, "return")
    /\ UNCHANGED <<used, call, calls, output, option, defined>>

JsonSetAny(p)     == JsonSet(p, "Any")
JsonSetBool(p)    == JsonSet(p, "Bool")
JsonSetEnum(p)    == JsonSet(p, "Enum")
JsonSetFloat64(p) == JsonSet(p, "Float64")
JsonSetInt64(p)   == JsonSet(p, "Int64")
JsonSetLink(p)    == JsonSet(p, "Link")
JsonSetString(p)  == JsonSet(p, "String")
JsonSetTime(p)    == JsonSet(p, "Time")

JsonReturn(p) ==
    /\ at[p] = "return" /\ Leave(p)
    /\ UNCHANGED <<used, given, calls, output, jsonVars>>

JsonMetadata(p) ==
    /\ \E kind \in Kinds : Enter(p, kind, "define")
    /\ UNCHANGED jsonVars

(* A record of the span: all attributes of the builder, spanChangesOnly    *)
(* being off.  "told" is history: what had taken effect.                   *)
JsonAppend ==
    /\ Len(Records) < MaxReports
    /\ Write([record |-> [k \in Keys |-> builder[k].values], told |-> given])
    /\ UNCHANGED <<used, at, call, given, calls, jsonVars>>

JsonStep ==
    \/ \E p \in Procs :
          \/ JsonMetadata(p) \/ JsonDefine(p) \/ JsonWriteDefinition(p) \/ JsonReturn(p)
          \/ JsonSetAny(p) \/ JsonSetBool(p) \/ JsonSetEnum(p) \/ JsonSetFloat64(p)
          \/ JsonSetInt64(p) \/ JsonSetLink(p) \/ JsonSetString(p) \/ JsonSetTime(p)
    \/ JsonAppend

-----------------------------------------------------------------------------
JsonBuilt == INSTANCE Metadata WITH
    Values   <- Values \cup {<<v[1]>> : v \in Values},
    Identity <- [k \in Keys |-> [e \in Values \cup {<<v[1]>> : v \in Values} |-> e]],
    kept     <- [k \in Keys |-> builder[k].values],
    setting  <- [p \in Procs |->
                    IF at[p] \in JsonPlaces
                    THEN <<Key(p), JsonEncoded(KindOf[Key(p)], Value(p))>> ELSE <<>>],
    taken    <- {p \in Procs : at[p] = "return"}

(* What AttributeBuilder holds is what Metadata keeps, two values being    *)
(* distinct when their encodings are.                                      *)
JsonKeeps == JsonBuilt!Spec

-----------------------------------------------------------------------------
(* ReplayFromStrings: the definitions of the whole file, then the last     *)
(* record of the span, whichever that is; a key without a definition is an *)
(* error.                                                                  *)
JsonDefinitions(out) == {out[i].def : i \in {j \in DOMAIN out : "def" \in DOMAIN out[j]}}

JsonDecodedAny(e)  == e
JsonDecodedEnum(e) == e
JsonDecodedText(e) == <<e[1], 0>>
JsonDecoded(kind, e) ==
    CASE kind = "Any"  -> JsonDecodedAny(e)
      [] kind = "Enum" -> JsonDecodedEnum(e)
      [] OTHER         -> JsonDecodedText(e)

JsonReplayable ==
    \A i \in DOMAIN output : "record" \in DOMAIN output[i] =>
        \A k \in Keys : output[i].record[k] # <<>> => k \in JsonDefinitions(output)

(* The calls that the replay makes for key k. *)
JsonReplay(k) ==
    LET kept == Records[Len(Records)].record[k] IN
    [i \in DOMAIN kept |-> JsonDecoded(KindOf[k], kept[i])]

-----------------------------------------------------------------------------
(* "Attributes on spans and requests are defined before first use"         *)
(* (xopjson/doc.go:76).                                                    *)
DefinedBeforeUse ==
    \A i \in DOMAIN output : "record" \in DOMAIN output[i] =>
        \A k \in Keys : output[i].record[k] # <<>> => k \in JsonDefinitions(SubSeq(output, 1, i))
=============================================================================
