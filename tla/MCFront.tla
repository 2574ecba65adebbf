------------------------------ MODULE MCFront -------------------------------
(* Front for TLC: the scenarios. *)
EXTENDS Front

With(b)     == [op |-> "base", arg |-> b]
Without(b)  == [op |-> "without", arg |-> b]
Reactive(f) == [op |-> "reactive", arg |-> f]
Replaced(f) == [op |-> "replaced", arg |-> f]
Plain == <<>>
Given == -9   \* the first identifier that comes from outside

MCCallbacks ==
    [quiet |-> <<>>,
     once  |-> <<Replaced(Nil)>>,
     turn  |-> <<Replaced("quiet")>>,
     grow  |-> <<Reactive("quiet")>>,
     tee   |-> <<With("B")>>,
     name  |-> <<[op |-> "span", arg |-> Given]>>]

SeqsUpTo(S, n) == UNION {[1..k -> S] : k \in 0..n}
Each(S, F(_)) == {[i \in DOMAIN s |-> F(s[i])] : s \in S}

Open  == [min |-> 1, redact |-> "none"]
Strict == [min |-> 2, redact |-> "stars"]

Scenario ==
    [ops |-> {}, limit |-> 0, sequential |-> TRUE, forks |-> 0, settings |-> Open,
     seeds |-> {Plain}, mods |-> {Plain}, headers |-> {}, others |-> {Open}, levels |-> {}]

(* Seeds that sprout, are copied, and sprout again, with any three callbacks. *)
Reacting ==
    [Scenario EXCEPT
        !.ops = {"request", "copy", "subseed", "fork"}, !.limit = 4,
        !.seeds = Each(SeqsUpTo({"quiet", "once", "turn", "grow", "name"}, 3), Reactive)]

(* Bases that are added and removed, for requests and for spans. *)
Equipping ==
    [Scenario EXCEPT
        !.ops = {"request", "copy", "subseed", "fork"}, !.limit = 4,
        !.seeds = Each(SeqsUpTo({"A", "B"}, 2), With) \cup {<<With("A"), Reactive("tee")>>},
        !.mods = {Plain, <<With("B")>>, <<Without("A")>>, <<Without("B")>>,
                  <<With("C"), Without("A")>>}]

(* Two goroutines fork spans of one request and add bases. *)
Forking ==
    [Scenario EXCEPT
        !.ops = {"request", "fork", "step"}, !.limit = 4, !.sequential = FALSE,
        !.seeds = {<<With("A")>>},
        !.mods = {Plain, <<With("B")>>, <<Without("A"), With("B"), With("C")>>}]

(* Many forks: the codes get another letter. *)
Counting ==
    [Scenario EXCEPT
        !.ops = {"request", "fork", "step"}, !.limit = 6, !.forks = 24]

(* Identifiers given by the program, or by headers. *)
Naming ==
    [Scenario EXCEPT
        !.ops = {"request", "copy", "subseed", "fork"}, !.limit = 4,
        !.seeds = {<<m>> : m \in {[op |-> "span", arg |-> Given],
                                  [op |-> "trace", arg |-> [trace |-> Given, span |-> Given + 1]]}},
        !.mods = {Plain, <<[op |-> "span", arg |-> Given + 2]>>}]

Absent == [is |-> "none"]
Bad    == [is |-> "malformed"]
Ids == [is : {"ids"}, trace : {Zero, Given}, span : {Zero, Given + 1}, parent : {Zero, Given + 2}]
One == [is |-> "ids", trace |-> Given + 5, span |-> Given + 6, parent |-> Zero]
MCHeaders ==
    [b3 : {Bad, [is |-> "sampled"]} \cup Ids, traceparent : {Absent, One}, xb3 : {Absent}]
    \cup [b3 : {Absent}, traceparent : {Bad} \cup Ids, xb3 : {Absent, One}]
    \cup [b3 : {Absent}, traceparent : {Absent}, xb3 : {Absent} \cup Ids]
Serving ==
    [Scenario EXCEPT
        !.ops = {"http", "fork"}, !.limit = 2,
        !.seeds = {Plain, <<[op |-> "trace", arg |-> [trace |-> Given + 3, span |-> Given + 4]]>>,
                   <<Reactive("quiet")>>},
        !.headers = MCHeaders]

(* Two goroutines log on the loggers of two spans. *)
Logging ==
    [Scenario EXCEPT
        !.ops = {"request", "fork", "sublogger", "line"}, !.limit = 5, !.sequential = FALSE,
        !.seeds = {<<With("A")>>}, !.others = {Strict}, !.levels = {1, 2}]

Finishing == [Scenario EXCEPT !.ops = {"end"}, !.limit = 4, !.sequential = FALSE]

MCPrograms ==
    [reacting |-> Reacting, equipping |-> Equipping, forking |-> Forking, counting |-> Counting,
     naming |-> Naming, serving |-> Serving, logging |-> Logging, finishing |-> Finishing]
MCRedacting == [logging |-> Logging]
MCSymmetry == Permutations(Goroutines)
=============================================================================
