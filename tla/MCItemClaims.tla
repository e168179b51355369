---------------------------- MODULE MCItemClaims ----------------------------
(* A small instance of ItemClaims for TLC. *)
EXTENDS ItemClaims
=============================================================================
