------------------------------ MODULE MCJsHeap ------------------------------
(* JsHeap for TLC: three objects, two variables of each kind. *)
EXTENDS JsHeap

MCLiterals == {Num(NaN), Str(<<1>>), Fn(1)}
MCSymmetry == Permutations(Vars) \cup Permutations(Owns)
MCStringKeys == {<<1>>}
=============================================================================
