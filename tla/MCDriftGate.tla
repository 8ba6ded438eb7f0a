---------------------------- MODULE MCDriftGate ----------------------------
(***************************************************************************)
(* The instance of DriftGate for TLC: one finding, of a rule of any kind   *)
(* that reads its own collector and a second one that need not apply.      *)
(***************************************************************************)
EXTENDS DriftGate

CONSTANTS stale, devices, licences

OwnOf      == [f \in {stale} |-> devices]
ReadsOf    == [f \in {stale} |-> {devices, licences}]
TolerantOf == [f \in {stale} |-> {licences}]
OutcomesOf ==
    [c \in {devices, licences} |->
        IF c = devices THEN {"complete", "gap", "not_run"} ELSE {"complete", "gap", "not_applicable"}]
=============================================================================
