-------------------------- MODULE MCWorkSelection --------------------------
(* A small instance of WorkSelection for TLC: two workers, each with an     *)
(* actor of its own and all items in scope.                                 *)
EXTENDS WorkSelection

CONSTANTS a1, a2, w1, w2

Owner == [w \in Workers |-> IF w = w1 THEN a1 ELSE a2]
ScopeOf == [w \in Workers |-> Items]
=============================================================================
