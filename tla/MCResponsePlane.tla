--------------------------- MODULE MCResponsePlane ---------------------------
(* The instance of ResponsePlane for TLC. *)
EXTENDS ResponsePlane

CONSTANTS message_trace, audit_export, other
=============================================================================
