----------------------------- MODULE MCStorage -----------------------------
(* Storage for TLC. *)
EXTENDS Storage, TLC

MCShapes == {<<"msg", FALSE>>, <<"msg", TRUE>>, <<"template", TRUE>>, <<"model", TRUE>>, <<"link", TRUE>>}
MCPlain  == {<<"msg", FALSE>>}
MCTime    == [s \in MCShapes |-> IF s[2] THEN 3 ELSE 4]
MCShort   == [s \in MCPlain |-> 4]
MCSymmetry == Permutations(Users)
=============================================================================
