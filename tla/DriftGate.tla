------------------------------ MODULE DriftGate ------------------------------
(***************************************************************************)
(* The verdicts of gate.py over the finished runs of one tenant, as days   *)
(* pass: gate_findings on a run, gate_drift on a run and a later one, with *)
(* the waivers of waivers.py, reassessment_gap of compare.py and           *)
(* rule_parameter_gap of rule_parameters.py.                               *)
(*                                                                         *)
(* Between two runs the tenant changes in any way: a weakness appears,     *)
(* goes, grows, or moves past or within the window of its rule; collectors *)
(* complete or not, inputs of a rule are read or not, the operator gives   *)
(* other windows and other waivers.  A gate reads the date when it is run, *)
(* which may be long after the runs.                                       *)
(*                                                                         *)
(* The contract, the hash manifest and the tenant guard, which every gate  *)
(* checks first, are in Finalize; here every run has passed them.          *)
(***************************************************************************)
EXTENDS Naturals, Sequences

CONSTANTS
    Findings,       \* findings, each of a rule of its own
    Collectors,
    Own,            \* Own[f]: the collector that a finding names
    Reads,          \* Reads[f]: the collectors its rule reads
    Tolerant,       \* Tolerant[f]: those of them that may be not applicable
    Outcomes,       \* Outcomes[c]: how a collector may end
    Windows,        \* values of a rule parameter, a larger one sees less
    MaxDay,         \* bound on the days
    MaxRuns         \* bound on the runs

\* collector_coverage: a collector that was not run has no row.
Coverages == {"complete", "gap", "not_applicable", "not_run"}

ASSUME DriftGateConstantsOk ==
    /\ Own \in [Findings -> Collectors]
    /\ Reads \in [Findings -> SUBSET Collectors]
    /\ Tolerant \in [Findings -> SUBSET Collectors]
    /\ Outcomes \in [Collectors -> SUBSET Coverages]
    /\ Windows \subseteq Nat \ {0}
    /\ MaxDay \in Nat /\ MaxRuns \in Nat

VARIABLES
    kind,           \* kind[f]: how the rule of a finding is judged
    day,
    runs            \* the finished runs, in order

vars == <<kind, day, runs>>

-----------------------------------------------------------------------------
\* An input check; judged on inputs alone; a window; a list of exempt accounts.
Kinds == {"plain", "checked", "inputs", "window", "list"}

Never == MaxDay + 1         \* a waiver without a date
Days  == 0..MaxDay
Unrecorded == 0            \* a manifest from before parameters were recorded

NoRow == [present |-> FALSE, severity |-> "low", status |-> "open", waived |-> FALSE, expires |-> Never]

Rows ==
    [present : BOOLEAN, severity : {"low", "high"}, status : {"open", "accepted", "closed"},
     waived : BOOLEAN, expires : Days \cup {Never}]

(* depth is what the tenant really had: the largest parameter that still   *)
(* sees it, 0 for nothing.                                                 *)
Runs ==
    [depth    : [Findings -> {0} \cup Windows],
     used     : Windows,
     recorded : Windows \cup {Unrecorded},
     inputs   : BOOLEAN,
     coverage : [Collectors -> Coverages],
     rows     : [Findings -> Rows]]

Init ==
    /\ kind \in [Findings -> Kinds]
    /\ day = 0
    /\ runs = <<>>

-----------------------------------------------------------------------------
(* A run.                                                                  *)

Complete(run)      == {c \in Collectors : run.coverage[c] = "complete"}
NotApplicable(run) == {c \in Collectors : run.coverage[c] = "not_applicable"}

\* unmet_rule_collectors.
Unmet(f, run) ==
    IF kind[f] = "inputs" THEN {}
    ELSE Reads[f] \ (Complete(run) \cup (Tolerant[f] \cap NotApplicable(run)))

(* A waiver file: the date of the waiver that names the finding and of the *)
(* one that names its rule, if there is one.                               *)
Dates == {{}} \cup {{d} : d \in Days \cup {Never}}
Files == [finding : Dates, rule : Dates]

Standing(dates) == {d \in dates : d >= day}

\* _best_waiver: the date of one that names the finding before one that names the rule.
Best(file) == IF Standing(file.finding) # {} THEN Standing(file.finding) ELSE Standing(file.rule)

Row(severity, status, waived, d) ==
    [present |-> TRUE, severity |-> severity, status |-> status, waived |-> waived, expires |-> d]

\* Mutant: the waiver is not attached to the finding.
Apply_NotAttached(severity, best) ==
    IF best = {} THEN {Row(severity, "open", FALSE, Never)}
    ELSE {Row(severity, "accepted", FALSE, d) : d \in best}

\* apply_waivers.
Apply(severity, best) ==
    IF best = {} THEN {Row(severity, "open", FALSE, Never)}
    ELSE {Row(severity, "accepted", TRUE, d) : d \in best}

InputsMatter(f)  == kind[f] \in {"checked", "inputs"}
WindowMatters(f) == kind[f] \in {"window", "list"}

\* _rule_evaluation: the rule was judged, so that no finding means there is none.
Judged(f, run) == Unmet(f, run) = {} /\ (InputsMatter(f) => run.inputs)

Visible(f, run, window) == run.depth[f] > 0 /\ (WindowMatters(f) => run.depth[f] >= window)

\* The rows a run may have for a finding: of incomplete evidence, any that are true.
RowsOf(f, run, best) ==
    IF ~Visible(f, run, run.used) THEN {NoRow}
    ELSE Apply("low", best) \cup Apply("high", best) \cup (IF Judged(f, run) THEN {} ELSE {NoRow})

\* What no rule here reads has one value.
Canonical(run) ==
    /\ (\A f \in Findings : ~InputsMatter(f)) => run.inputs
    /\ (\A f \in Findings : ~WindowMatters(f)) =>
         run.recorded # Unrecorded /\ \A f \in Findings, w \in Windows : w <= run.used /\ run.depth[f] \in {0, run.used}

\* What a run may find, before its findings are written.
BareRuns ==
    {run \in [depth    : [Findings -> {0} \cup Windows],
              used     : Windows,
              recorded : Windows \cup {Unrecorded},
              inputs   : BOOLEAN,
              coverage : [Collectors -> Coverages],
              rows     : {[f \in Findings |-> NoRow]}] :
        /\ run.recorded \in {run.used, Unrecorded}
        /\ \A c \in Collectors : run.coverage[c] \in Outcomes[c]
        /\ Canonical(run)}

\* A run of today: any evidence, parameters and waivers.
NewRun ==
    /\ Len(runs) < MaxRuns
    /\ \E run \in BareRuns, best \in {Best(file) : file \in Files} :
         \E rows \in [Findings -> UNION {RowsOf(f, run, best) : f \in Findings}] :
            /\ \A f \in Findings : rows[f] \in RowsOf(f, run, best)
            /\ runs' = Append(runs, [run EXCEPT !.rows = rows])
    /\ UNCHANGED <<kind, day>>

\* One run is rewritten with its hashes: a finding is closed by hand.
CloseByHand ==
    /\ \A i \in DOMAIN runs, f \in Findings : runs[i].rows[f].status # "closed"
    /\ \E i \in DOMAIN runs, f \in Findings :
         /\ runs[i].rows[f].present
         /\ runs' = [runs EXCEPT ![i].rows[f].status = "closed"]
    /\ UNCHANGED <<kind, day>>

NextDay ==
    /\ day < MaxDay
    /\ day' = day + 1
    /\ UNCHANGED <<kind, runs>>

Next == NewRun \/ CloseByHand \/ NextDay

Spec == Init /\ [][Next]_vars

-----------------------------------------------------------------------------
(* What a status counts for, today.                                        *)

Claims(row) == row.present /\ row.status # "open"

\* Mutant: the days are compared the other way round.
HasExpired_Swapped(row) == row.waived /\ day < row.expires

\* has_expired_waiver.
HasExpired(row) == row.waived /\ row.expires < day

ExpiredClaim(row) == Claims(row) /\ HasExpired(row)

\* _status_class: a status stands on a waiver that has not expired.
StatusClass(row) == IF Claims(row) /\ row.waived /\ ~HasExpired(row) THEN row.status ELSE "open"

AtThreshold(row) == row.present /\ row.severity = "high"

\* _require_coverage.
Covered(run, partial) ==
    /\ Complete(run) # {}
    /\ partial \/ \A c \in Collectors : run.coverage[c] # "gap"

\* gate_findings.
Triggered(run) == {f \in Findings : AtThreshold(run.rows[f]) /\ StatusClass(run.rows[f]) = "open"}

Gate(run, partial) ==
    IF ~Covered(run, partial) THEN "blocked" ELSE IF Triggered(run) = {} THEN "pass" ELSE "fail"

-----------------------------------------------------------------------------
(* A baseline and a later run.                                             *)

\* Mutant: a parameter nobody recorded is taken for a strict one.
SameOrStricter_Unrecorded(f, base, run) ==
    /\ kind[f] = "window" => run.recorded <= base.recorded
    /\ kind[f] = "list" => run.recorded = base.recorded

\* rule_parameter_gap.
SameOrStricter(f, base, run) ==
    /\ WindowMatters(f) => Unrecorded \notin {base.recorded, run.recorded}
    /\ kind[f] = "window" => run.recorded <= base.recorded
    /\ kind[f] = "list" => run.recorded = base.recorded

\* reassessment_gap: none.
Reassessed(f, base, run) ==
    /\ run.coverage[Own[f]] # "not_run"
    /\ run.coverage[Own[f]] = "complete" \/ kind[f] = "inputs"
    /\ Unmet(f, run) = {}
    /\ InputsMatter(f) => run.inputs
    /\ SameOrStricter(f, base, run)

Resolved(base, run) ==
    {f \in Findings : base.rows[f].present /\ ~run.rows[f].present /\ Reassessed(f, base, run)}

\* The rows a later run fails for: new, reactivated, and accepted or closed on an expired waiver.
NewOpen(base, run) ==
    {f \in Triggered(run) : ~base.rows[f].present /\ ~ExpiredClaim(run.rows[f])}

Reactivated(base, run) ==
    {f \in Findings :
        /\ base.rows[f].present /\ AtThreshold(run.rows[f])
        /\ StatusClass(base.rows[f]) = "accepted" /\ StatusClass(run.rows[f]) # "accepted"
        /\ ~ExpiredClaim(run.rows[f])}

\* Mutant: only an accepted status lapses.
Stale_AcceptedOnly(run) ==
    {f \in Findings : AtThreshold(run.rows[f]) /\ ExpiredClaim(run.rows[f]) /\ run.rows[f].status = "accepted"}

Stale(run) == {f \in Findings : AtThreshold(run.rows[f]) /\ ExpiredClaim(run.rows[f])}

Drift(base, run, partial) ==
    IF ~Covered(run, partial) \/ (~partial /\ ~(Complete(base) \subseteq Complete(run))) THEN "blocked"
    ELSE IF NewOpen(base, run) \cup Reactivated(base, run) \cup Stale(run) = {} THEN "pass" ELSE "fail"

-----------------------------------------------------------------------------
(* Type invariant; no row is accepted without the waiver that accepted it. *)
TypeOK ==
    /\ kind \in [Findings -> Kinds]
    /\ day \in Days
    /\ \A i \in DOMAIN runs : runs[i] \in Runs
    /\ \A i \in DOMAIN runs, f \in Findings : runs[i].rows[f].status = "accepted" => runs[i].rows[f].waived
    /\ Len(runs) <= MaxRuns

(* A finding is resolved only when the tenant no longer has it, by the      *)
(* parameter that the baseline judged it with.                              *)
ResolvedIsFixed ==
    \A i, j \in DOMAIN runs :
        i < j => \A f \in Resolved(runs[i], runs[j]) : ~Visible(f, runs[j], runs[i].used)

(* A run that drifted from one the gate passes today passes it too, but for *)
(* a finding that grew past the threshold and one that was closed by hand   *)
(* and is open again.  And drift fails no run that the gate passes, but for *)
(* a finding that the baseline accepted and the run has closed.             *)
DriftSuffices ==
    \A i, j \in DOMAIN runs, partial \in BOOLEAN :
        i < j =>
            /\ Gate(runs[i], partial) = "pass" /\ Drift(runs[i], runs[j], partial) = "pass" =>
                 \A f \in Triggered(runs[j]) :
                    \/ runs[i].rows[f].present /\ ~AtThreshold(runs[i].rows[f])
                    \/ StatusClass(runs[i].rows[f]) = "closed"
            /\ Gate(runs[j], partial) = "pass" /\ Drift(runs[i], runs[j], partial) = "fail" =>
                 \E f \in Findings : /\ StatusClass(runs[i].rows[f]) = "accepted"
                                     /\ StatusClass(runs[j].rows[f]) = "closed"

(* A gate that fails a run does not pass it for the days that went by, and  *)
(* one that passes it does so until a waiver of the run has had its last    *)
(* day.                                                                     *)
GateNeverHeals ==
    [][\A i \in DOMAIN runs, partial \in BOOLEAN :
         runs' = runs =>
            /\ Gate(runs[i], partial) = "fail" => Gate(runs[i], partial)' = "fail"
            /\ Gate(runs[i], partial) = "pass" /\ Gate(runs[i], partial)' # "pass" =>
                 \E f \in Findings : runs[i].rows[f].waived /\ runs[i].rows[f].expires = day]_vars

(* Disagreement.  A finding that was accepted, at or above the threshold,   *)
(* and is there in a later run, fails the drift gate once the waiver of the *)
(* baseline has expired and none stands in the later run.                   *)
LapsedIsReported ==
    \A i, j \in DOMAIN runs : \A f \in Triggered(runs[j]) :
        (i < j /\ AtThreshold(runs[i].rows[f]) /\ runs[i].rows[f].status = "accepted" /\ HasExpired(runs[i].rows[f]))
        => Drift(runs[i], runs[j], TRUE) # "pass"
=============================================================================
