--------------------------- MODULE MCGraphRequest ---------------------------
(***************************************************************************)
(* The instance of GraphRequest for TLC: the three throttle policies of    *)
(* THROTTLE_POLICIES as they are.                                          *)
(***************************************************************************)
EXTENDS GraphRequest

CONSTANTS users, alerts, exchange

Fast      == [rate |-> 3, server |-> 2, stop |-> 0]
Safe      == [rate |-> 4, server |-> 3, stop |-> 2]
UltraSafe == [rate |-> 5, server |-> 4, stop |-> 1]

ThrottlePolicies == {Fast, Safe, UltraSafe}
=============================================================================
