---------------------------- MODULE MCAttributes ----------------------------
(* Model checking of Attributes: every type, every shape of those whose     *)
(* values are told apart by more than their text, and a program that uses   *)
(* one attribute.                                                           *)
EXTENDS Attributes, TLC

MCKeys == {<<"Any", "distinct">>, <<"Any", "multiple">>, <<"Enum", "distinct">>,
           <<"Enum", "locked">>, <<"Time", "distinct">>, <<"Time", "single">>,
           <<"Bool", "locked">>, <<"Float64", "single">>, <<"Int64", "multiple">>,
           <<"Link", "distinct">>, <<"String", "multiple">>}

MCKindOf   == [k \in MCKeys |-> k[1]]
MCMultiple == {k \in MCKeys : k[2] \in {"multiple", "distinct"}}
MCDistinct == {k \in MCKeys : k[2] = "distinct"}
MCLocked   == {k \in MCKeys : k[2] = "locked"}
MCPrograms == {{k} : k \in MCKeys}

(* Two that print alike, and another one. *)
MCValues == {<<"a", 0>>, <<"a", 1>>, <<"b", 0>>}

Symmetry == Permutations(Procs)
=============================================================================
