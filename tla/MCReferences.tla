---------------------------- MODULE MCReferences ----------------------------
EXTENDS References, TLC

CONSTANTS d, e, one, two, D, X, Y, N1, N2, N3, q1, q2

(* A folder with two files, and a place for another.                       *)
SomePaths == {<<d>>, <<e>>, <<d, one>>, <<d, two>>, <<e, one>>, <<e, two>>}
SomeStart == [p \in SomePaths |->
  CASE p = <<d>> -> D [] p = <<d, one>> -> X [] p = <<d, two>> -> Y [] OTHER -> Gone]

(* Two new names for one playlist; a name it has already is no rename.      *)
SomeUpdates == {[to |-> N2, set |-> Same, append |-> {<<e, one>>}],
                [to |-> N3, set |-> {<<d, one>>}, append |-> {}]}
SomeMoves == {<<<<d>>, <<e>>>>, <<<<e, one>>, <<d, one>>>>}
SomeDeletes == {{<<d>>}, {<<d, one>>, <<d, two>>}}

MCSymmetry == Permutations({q1, q2})
=============================================================================
