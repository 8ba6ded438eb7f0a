------------------------------ MODULE MCLiveRun ------------------------------
(***************************************************************************)
(* Instances of LiveRun for TLC.  The names are those of the REGISTRY that *)
(* the rules of run_live tell apart: security reads events in a window,    *)
(* licensing does not, exchange_policy and dns_posture are not fatal.      *)
(***************************************************************************)
EXTENDS LiveRun

CONSTANTS security, licensing, exchange, dns, day
=============================================================================
