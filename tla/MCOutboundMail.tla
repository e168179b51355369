--------------------------- MODULE MCOutboundMail ---------------------------
(* A small instance of OutboundMail for TLC. *)
EXTENDS OutboundMail
=============================================================================
