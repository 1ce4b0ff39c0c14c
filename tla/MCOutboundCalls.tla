--------------------------- MODULE MCOutboundCalls ---------------------------
(* Instances of OutboundCalls for TLC.                                     *)
EXTENDS OutboundCalls
=============================================================================
