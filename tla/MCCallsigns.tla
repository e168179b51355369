---------------------------- MODULE MCCallsigns ----------------------------
(* A small instance of Callsigns for TLC: two spellings of one callsign,   *)
(* and a name that is none.                                                *)
EXTENDS Callsigns

MCCollisionKey == [n \in {"Red Fox", "red-fox", "?"} |-> IF n = "?" THEN None ELSE "redfox"]
=============================================================================
