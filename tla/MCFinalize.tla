----------------------------- MODULE MCFinalize -----------------------------
(* The instance of Finalize for TLC: two tenants, exchangeable, and none. *)
EXTENDS Finalize, TLC

CONSTANTS contoso, fabrikam, nobody

Exchangeable == Permutations({contoso, fabrikam})
=============================================================================
