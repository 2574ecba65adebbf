--------------------------- MODULE AttributeCalls ---------------------------
(***************************************************************************)
(* The program's side of the attributes of one span: goroutines that call  *)
(* span.String(), span.Enum(), ... (span.go), which become MetadataX calls *)
(* of the span's base logger.  xopbase allows the calls to be concurrent.  *)
(* The modules of the base loggers extend this one; each takes a call      *)
(* through steps of its own, and writes to an output of its own format.    *)
(***************************************************************************)
EXTENDS Integers, Sequences, SequencesExt

CONSTANTS
    Procs, Keys,
    Values,                     \* pairs: how a value prints, and what else it has
    Multiple, Distinct, Locked, \* the attributes that were made so (xopat.Make)
    KindOf,                     \* Keys -> Kinds, the Go type of the attribute
    Programs,                   \* sets of keys, one of which a program uses
    MaxCalls, MaxReports        \* bounds: calls, and records of the span

(* What else a value has besides its text: the type of a model, the number *)
(* of an enum, the location and the monotonic reading of a time.           *)
Kinds == {"Any", "Bool", "Enum", "Float64", "Int64", "Link", "String", "Time"}

ASSUME AttributeCallsAssumption ==
    /\ KindOf \in [Keys -> Kinds]
    /\ Programs \subseteq SUBSET Keys
    /\ MaxCalls \in Nat /\ MaxReports \in Nat

VARIABLES
    used,   \* the keys of this program
    at,     \* where each goroutine is in MetadataX
    call,   \* the key and the value it was called with, <<>> between calls
    given,  \* per key, the values in the order in which they took effect
    calls,  \* history, for the bound
    output  \* what the base logger has written

callVars == <<used, at, call, given, calls, output>>

Key(p)    == call[p][1]
Value(p)  == call[p][2]
Go(p, pl) == at' = [at EXCEPT ![p] = pl]

CallsInit ==
    /\ used \in Programs
    /\ at = [p \in Procs |-> "idle"] /\ call = [p \in Procs |-> <<>>]
    /\ given = [k \in Keys |-> <<>>]
    /\ calls = 0 /\ output = <<>>

(* MetadataX(k, v) is entered; pl is the first step in the base logger. *)
Enter(p, kind, pl) ==
    /\ at[p] = "idle" /\ calls < MaxCalls
    /\ \E k \in used, v \in Values :
          /\ KindOf[k] = kind
          /\ call' = [call EXCEPT ![p] = <<k, v>>]
    /\ Go(p, pl)
    /\ calls' = calls + 1
    /\ UNCHANGED <<used, given, output>>

(* The moment at which a call takes effect. *)
TakeEffect(p) == given' = [given EXCEPT ![Key(p)] = Append(@, Value(p))]

Leave(p) ==
    /\ call' = [call EXCEPT ![p] = <<>>]
    /\ Go(p, "idle")

Write(entry) == output' = Append(output, entry)

(* The records of the span in the output. *)
IsRecord(e)           == "record" \in DOMAIN e
AndRecord(records, e) == IF IsRecord(e) THEN Append(records, e) ELSE records
Records               == FoldLeft(AndRecord, <<>>, output)

(* What a reader of the output calls for each key. *)
NoCalls == [k \in Keys |-> <<>>]
=============================================================================
