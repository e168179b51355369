-------------------------- MODULE MCOAuthClients --------------------------
(* A small instance of OAuthClients, and of RefreshFamilies in it, for TLC. *)
EXTENDS OAuthClients
=============================================================================
