--------------------------- MODULE DriftGateProofs ---------------------------
(***************************************************************************)
(* What the verdicts of the gate over two runs mean, for any findings,     *)
(* collectors, windows, waivers and number of days and runs.               *)
(***************************************************************************)
EXTENDS DriftGate, TLAPS

-----------------------------------------------------------------------------
(* The inductive invariant: a run is of its type, and a finding is missing *)
(* only where the tenant shows none or the rule was not judged.            *)

Missing(f, run) == ~run.rows[f].present => ~(Visible(f, run, run.used) /\ Judged(f, run))

RunsHold ==
    \A i \in DOMAIN runs :
        /\ runs[i].recorded \in {runs[i].used, Unrecorded}
        /\ \A f \in Findings : Missing(f, runs[i])

IInv == TypeOK /\ runs \in Seq(Runs) /\ RunsHold

-----------------------------------------------------------------------------
\* The dates of a waiver are days.
LEMMA DatesAreDays ==
    ASSUME NEW file \in Files
    PROVE  Best(file) \subseteq Days \cup {Never}
BY DEF Files, Dates, Best, Standing

\* A row that is there is open, or accepted with its waiver.
LEMMA AppliedRows ==
    ASSUME NEW best \in SUBSET (Days \cup {Never}), NEW severity \in {"low", "high"},
           NEW row \in Apply(severity, best)
    PROVE  row \in Rows /\ row.present /\ (row.status = "accepted" => row.waived) /\ row.status # "closed"
<1>1. Never \in Days \cup {Never}
  OBVIOUS
<1>2. CASE best = {}
  <2>1. row = Row(severity, "open", FALSE, Never)
    BY <1>2 DEF Apply
  <2> QED BY <1>1, <2>1 DEF Row, Rows
<1>3. CASE best # {}
  <2>1. PICK d \in best : row = Row(severity, "accepted", TRUE, d)
    BY <1>3 DEF Apply
  <2> QED BY <2>1 DEF Row, Rows
<1> QED BY <1>2, <1>3

LEMMA RowsOfRun ==
    ASSUME NEW best \in SUBSET (Days \cup {Never}), NEW f, NEW run, NEW row \in RowsOf(f, run, best)
    PROVE  /\ row \in Rows /\ (row.status = "accepted" => row.waived)
           /\ ~row.present => ~(Visible(f, run, run.used) /\ Judged(f, run))
<1>1. NoRow \in Rows /\ NoRow.status = "open" /\ ~NoRow.present
  BY DEF NoRow, Rows
<1>2. CASE row \in Apply("low", best) \cup Apply("high", best)
  BY <1>2, AppliedRows
<1>3. CASE row \notin Apply("low", best) \cup Apply("high", best)
  <2>1. row = NoRow /\ ~(Visible(f, run, run.used) /\ Judged(f, run))
    BY <1>3 DEF RowsOf
  <2> QED BY <1>1, <2>1
<1> QED BY <1>2, <1>3

\* A run that is there is judged as it was, and so is a finding it has not.
LEMMA MissingStays ==
    ASSUME kind' = kind, NEW f \in Findings, NEW i, NEW j, runs'[i] = runs[j], Missing(f, runs[j])
    PROVE  Missing(f, runs[i])'
<1>1. Complete(runs[i])' = Complete(runs[j]) /\ NotApplicable(runs[i])' = NotApplicable(runs[j])
  BY DEF Complete, NotApplicable
<1>2. Unmet(f, runs[i])' = Unmet(f, runs[j])
  BY <1>1 DEF Unmet
<1>3. Judged(f, runs[i])' <=> Judged(f, runs[j])
  BY <1>2 DEF Judged, InputsMatter
<1>4. Visible(f, runs[i], runs[i].used)' <=> Visible(f, runs[j], runs[j].used)
  BY DEF Visible, WindowMatters
<1> QED BY <1>3, <1>4 DEF Missing

\* One run more: its rows are those its evidence allows.
LEMMA NewRunHolds ==
    ASSUME IInv, NewRun
    PROVE  IInv'
<1>1. PICK bare \in BareRuns, best \in {Best(file) : file \in Files} :
        \E rows \in [Findings -> UNION {RowsOf(f, bare, best) : f \in Findings}] :
           /\ \A f \in Findings : rows[f] \in RowsOf(f, bare, best)
           /\ runs' = Append(runs, [bare EXCEPT !.rows = rows])
  BY DEF NewRun
<1>2. PICK rows \in [Findings -> UNION {RowsOf(f, bare, best) : f \in Findings}] :
        /\ \A f \in Findings : rows[f] \in RowsOf(f, bare, best)
        /\ runs' = Append(runs, [bare EXCEPT !.rows = rows])
  BY <1>1
<1> DEFINE run == [bare EXCEPT !.rows = rows]
<1>3. best \in SUBSET (Days \cup {Never})
  BY DatesAreDays
<1>4. \A f \in Findings :
        /\ rows[f] \in Rows /\ (rows[f].status = "accepted" => rows[f].waived)
        /\ ~rows[f].present => ~(Visible(f, bare, bare.used) /\ Judged(f, bare))
  BY <1>2, <1>3, RowsOfRun
<1>5. /\ bare \in [depth : [Findings -> {0} \cup Windows], used : Windows,
                   recorded : Windows \cup {Unrecorded}, inputs : BOOLEAN,
                   coverage : [Collectors -> Coverages], rows : {[f \in Findings |-> NoRow]}]
      /\ bare.recorded \in {bare.used, Unrecorded}
  BY DEF BareRuns
<1>6. /\ run.depth = bare.depth /\ run.used = bare.used /\ run.recorded = bare.recorded
      /\ run.inputs = bare.inputs /\ run.coverage = bare.coverage /\ run.rows = rows
  BY <1>5
<1>7. run \in Runs
  <2>1. rows \in [Findings -> Rows]
    BY <1>2, <1>4
  <2> QED BY <1>5, <2>1 DEF Runs
<1>8. runs' = Append(runs, run) /\ UNCHANGED <<kind, day>> /\ Len(runs) < MaxRuns
  BY <1>2 DEF NewRun
<1> HIDE DEF run
<1>9. /\ runs' \in Seq(Runs) /\ Len(runs') = Len(runs) + 1 /\ DOMAIN runs' = 1..(Len(runs) + 1)
      /\ DOMAIN runs = 1..Len(runs) /\ Len(runs) \in Nat
      /\ \A i \in DOMAIN runs' : runs'[i] = IF i \in DOMAIN runs THEN runs[i] ELSE run
  BY <1>7, <1>8 DEF IInv
<1>10. TypeOK'
  <2>1. \A i \in DOMAIN runs' :
          /\ runs'[i] \in Runs
          /\ \A f \in Findings : runs'[i].rows[f].status = "accepted" => runs'[i].rows[f].waived
    BY <1>4, <1>6, <1>7, <1>9 DEF IInv, TypeOK
  <2>2. Len(runs') <= MaxRuns
    BY <1>8, <1>9, DriftGateConstantsOk
  <2> QED BY <1>8, <2>1, <2>2 DEF IInv, TypeOK
<1>11. RunsHold'
  <2>1. ASSUME NEW i \in DOMAIN runs'
        PROVE  /\ runs'[i].recorded \in {runs'[i].used, Unrecorded}
               /\ \A f \in Findings : Missing(f, runs[i])'
    <3>1. CASE i \in DOMAIN runs
      <4>1. runs'[i] = runs[i]
        BY <1>9, <3>1
      <4> QED BY <1>8, <3>1, <4>1, MissingStays DEF IInv, RunsHold
    <3>2. CASE i \notin DOMAIN runs
      <4>1. runs'[i] = run
        BY <1>9, <3>2
      <4>2. ASSUME NEW f \in Findings PROVE Missing(f, runs[i])'
        <5>1. Complete(runs[i])' = Complete(bare) /\ NotApplicable(runs[i])' = NotApplicable(bare)
          BY <1>6, <4>1 DEF Complete, NotApplicable
        <5>2. Unmet(f, runs[i])' = Unmet(f, bare)
          BY <1>8, <5>1 DEF Unmet
        <5>3. Judged(f, runs[i])' <=> Judged(f, bare)
          BY <1>6, <1>8, <4>1, <5>2 DEF Judged, InputsMatter
        <5>4. Visible(f, runs[i], runs[i].used)' <=> Visible(f, bare, bare.used)
          BY <1>6, <1>8, <4>1 DEF Visible, WindowMatters
        <5> QED BY <1>4, <1>6, <4>1, <5>3, <5>4 DEF Missing
      <4> QED BY <1>5, <1>6, <4>1, <4>2
    <3> QED BY <3>1, <3>2
  <2> QED BY <2>1 DEF RunsHold
<1> QED BY <1>9, <1>10, <1>11 DEF IInv

\* A status is edited; what was found stays found.
LEMMA CloseByHandHolds ==
    ASSUME IInv, CloseByHand
    PROVE  IInv'
<1>1. PICK i \in DOMAIN runs, f \in Findings : runs' = [runs EXCEPT ![i].rows[f].status = "closed"]
  BY DEF CloseByHand
<1>2. UNCHANGED <<kind, day>>
  BY DEF CloseByHand
<1>3. /\ DOMAIN runs' = DOMAIN runs /\ runs' \in Seq(Runs) /\ Len(runs') = Len(runs)
      /\ \A j \in DOMAIN runs : j # i => runs'[j] = runs[j]
  <2>1. runs[i] \in Runs /\ runs \in Seq(Runs)
    BY DEF IInv, TypeOK
  <2>2. [runs[i] EXCEPT !.rows[f].status = "closed"] \in Runs
    <3>1. runs[i].rows \in [Findings -> Rows] /\ runs[i].rows[f] \in Rows
      BY <2>1 DEF Runs
    <3>2. [runs[i].rows[f] EXCEPT !.status = "closed"] \in Rows
      BY <3>1 DEF Rows
    <3>3. [runs[i].rows EXCEPT ![f] = [runs[i].rows[f] EXCEPT !.status = "closed"]] \in [Findings -> Rows]
      BY <3>1, <3>2
    <3>4. [runs[i] EXCEPT !.rows[f].status = "closed"]
            = [runs[i] EXCEPT !.rows = [runs[i].rows EXCEPT ![f] = [runs[i].rows[f] EXCEPT !.status = "closed"]]]
      OBVIOUS
    <3> QED BY <2>1, <3>3, <3>4 DEF Runs
  <2>3. runs' = [runs EXCEPT ![i] = [runs[i] EXCEPT !.rows[f].status = "closed"]]
    BY <1>1
  <2> QED BY <2>1, <2>2, <2>3
<1>4. runs'[i] = [runs[i] EXCEPT !.rows[f].status = "closed"]
  BY <1>1, <1>3 DEF IInv
<1>5. runs[i] \in Runs
  BY DEF IInv, TypeOK
<1>6. /\ runs'[i].depth = runs[i].depth /\ runs'[i].used = runs[i].used
      /\ runs'[i].recorded = runs[i].recorded /\ runs'[i].inputs = runs[i].inputs
      /\ runs'[i].coverage = runs[i].coverage
      /\ \A g \in Findings : /\ runs'[i].rows[g].present = runs[i].rows[g].present
                             /\ runs'[i].rows[g].waived = runs[i].rows[g].waived
                             /\ runs'[i].rows[g].status \in {runs[i].rows[g].status, "closed"}
  BY <1>4, <1>5 DEF Runs, Rows
<1>7. TypeOK'
  <2>1. \A j \in DOMAIN runs' : runs'[j] \in Runs
    BY <1>3
  <2>2. \A j \in DOMAIN runs', g \in Findings :
           runs'[j].rows[g].status = "accepted" => runs'[j].rows[g].waived
    BY <1>3, <1>6 DEF IInv, TypeOK
  <2> QED BY <1>2, <1>3, <2>1, <2>2 DEF IInv, TypeOK
<1>8. RunsHold'
  <2>1. ASSUME NEW j \in DOMAIN runs', NEW g \in Findings PROVE Missing(g, runs[j])'
    <3>1. CASE j # i
      BY <1>2, <1>3, <2>1, <3>1, MissingStays DEF IInv, RunsHold
    <3>2. CASE j = i
      <4>1. Complete(runs[j])' = Complete(runs[j]) /\ NotApplicable(runs[j])' = NotApplicable(runs[j])
        BY <1>6, <3>2 DEF Complete, NotApplicable
      <4>2. Unmet(g, runs[j])' = Unmet(g, runs[j])
        BY <1>2, <4>1 DEF Unmet
      <4>3. Judged(g, runs[j])' <=> Judged(g, runs[j])
        BY <1>2, <1>6, <3>2, <4>2 DEF Judged, InputsMatter
      <4>4. Visible(g, runs[j], runs[j].used)' <=> Visible(g, runs[j], runs[j].used)
        BY <1>2, <1>6, <3>2 DEF Visible, WindowMatters
      <4> QED BY <1>3, <1>6, <3>2, <4>3, <4>4 DEF IInv, RunsHold, Missing
    <3> QED BY <3>1, <3>2
  <2>2. \A j \in DOMAIN runs' : runs'[j].recorded \in {runs'[j].used, Unrecorded}
    BY <1>3, <1>6 DEF IInv, RunsHold
  <2> QED BY <2>1, <2>2 DEF RunsHold
<1> QED BY <1>3, <1>7, <1>8 DEF IInv

LEMMA InvariantInductive == Spec => []IInv
<1>1. Init => IInv
  BY DriftGateConstantsOk DEF Init, IInv, TypeOK, RunsHold, Days
<1>2. IInv /\ [Next]_vars => IInv'
  <2> SUFFICES ASSUME IInv, [Next]_vars PROVE IInv'
    OBVIOUS
  <2>1. CASE UNCHANGED <<kind, runs>> /\ day' \in Days
    <3>1. TypeOK' /\ runs' \in Seq(Runs)
      BY <2>1 DEF IInv, TypeOK
    <3>2. ASSUME NEW i \in DOMAIN runs', NEW f \in Findings PROVE Missing(f, runs[i])'
      BY <2>1, MissingStays DEF IInv, RunsHold
    <3>3. \A i \in DOMAIN runs' : runs'[i].recorded \in {runs'[i].used, Unrecorded}
      BY <2>1 DEF IInv, RunsHold
    <3> QED BY <3>1, <3>2, <3>3 DEF IInv, RunsHold
  <2>2. CASE NextDay
    BY <2>1, <2>2, DriftGateConstantsOk DEF NextDay, IInv, TypeOK, Days
  <2>3. CASE UNCHANGED vars
    BY <2>1, <2>3 DEF vars, IInv, TypeOK
  <2> QED BY <2>2, <2>3, NewRunHolds, CloseByHandHolds DEF Next
<1> QED BY <1>1, <1>2, PTL DEF Spec

-----------------------------------------------------------------------------
(* Runs are of their type, and nothing is accepted without the waiver that  *)
(* accepted it (apply_waivers).                                             *)
THEOREM TypeCorrect == Spec => []TypeOK
<1>1. IInv => TypeOK
  BY DEF IInv
<1> QED BY <1>1, InvariantInductive, PTL

(* A finding that is reported as resolved is one that the tenant no longer  *)
(* has, under the parameter of the baseline (reassessment_gap,              *)
(* rule_parameter_gap).                                                     *)
THEOREM ResolvedIsReal == Spec => []ResolvedIsFixed
<1>1. IInv => ResolvedIsFixed
  <2> SUFFICES ASSUME IInv, NEW i \in DOMAIN runs, NEW j \in DOMAIN runs,
                      NEW f \in Resolved(runs[i], runs[j]), Visible(f, runs[j], runs[i].used)
               PROVE  FALSE
    BY DEF ResolvedIsFixed
  <2>1. f \in Findings /\ ~runs[j].rows[f].present /\ Reassessed(f, runs[i], runs[j])
    BY DEF Resolved
  <2>2. Judged(f, runs[j])
    BY <2>1 DEF Reassessed, Judged
  <2>3. ~Visible(f, runs[j], runs[j].used)
    BY <2>1, <2>2 DEF IInv, RunsHold, Missing
  <2>4. /\ runs[i].used \in Nat /\ runs[j].used \in Nat /\ runs[j].depth[f] \in Nat
        /\ runs[i].recorded \in {runs[i].used, Unrecorded} /\ runs[j].recorded \in {runs[j].used, Unrecorded}
    <3>1. runs[i] \in Runs /\ runs[j] \in Runs /\ f \in Findings
      BY <2>1 DEF IInv, TypeOK
    <3>2. runs[i].used \in Windows /\ runs[j].used \in Windows /\ runs[j].depth[f] \in {0} \cup Windows
      BY <3>1 DEF Runs
    <3>3. Windows \subseteq Nat
      BY DriftGateConstantsOk
    <3>4. \A w \in {0} \cup Windows : w \in Nat
      BY <3>3
    <3>5. /\ runs[i].recorded \in {runs[i].used, Unrecorded}
          /\ runs[j].recorded \in {runs[j].used, Unrecorded}
      BY DEF IInv, RunsHold
    <3> QED BY <3>2, <3>4, <3>5
  <2>5. WindowMatters(f) => runs[j].used <= runs[i].used
    BY <2>1, <2>4 DEF Reassessed, SameOrStricter, WindowMatters
  <2> QED BY <2>3, <2>4, <2>5 DEF Visible
<1> QED BY <1>1, InvariantInductive, PTL

(* What drift and the gate on the baseline leave out is a finding that grew *)
(* and one that was closed by hand, and nothing else; what drift asks       *)
(* beyond the gate on the run is that no accepted finding is closed         *)
(* (gate_drift).                                                            *)
THEOREM DriftIsEnough == Spec => []DriftSuffices
<1>1. ASSUME IInv, NEW i \in DOMAIN runs, NEW j \in DOMAIN runs, NEW partial \in BOOLEAN,
             Gate(runs[i], partial) = "pass", Drift(runs[i], runs[j], partial) = "pass",
             NEW f \in Triggered(runs[j])
      PROVE  \/ runs[i].rows[f].present /\ ~AtThreshold(runs[i].rows[f])
             \/ StatusClass(runs[i].rows[f]) = "closed"
  <2>1. f \in Findings /\ AtThreshold(runs[j].rows[f]) /\ StatusClass(runs[j].rows[f]) = "open"
    BY <1>1 DEF Triggered
  <2>2. Triggered(runs[i]) = {}
    BY <1>1 DEF Gate
  <2>3. /\ NewOpen(runs[i], runs[j]) = {} /\ Reactivated(runs[i], runs[j]) = {}
        /\ Stale(runs[j]) = {}
    BY <1>1 DEF Drift
  <2>4. ~ExpiredClaim(runs[j].rows[f])
    BY <2>1, <2>3 DEF Stale
  <2>5. runs[i].rows[f].present
    BY <1>1, <2>3, <2>4 DEF NewOpen
  <2>6. StatusClass(runs[i].rows[f]) # "accepted"
    BY <2>1, <2>3, <2>4, <2>5 DEF Reactivated
  <2>7. AtThreshold(runs[i].rows[f]) => StatusClass(runs[i].rows[f]) # "open"
    BY <2>1, <2>2 DEF Triggered
  <2>8. runs[i].rows[f].status \in {"open", "accepted", "closed"}
    BY <1>1, <2>1 DEF IInv, TypeOK, Runs, Rows
  <2> QED BY <2>5, <2>6, <2>7, <2>8 DEF StatusClass
<1>2. ASSUME IInv, NEW i \in DOMAIN runs, NEW j \in DOMAIN runs, NEW partial \in BOOLEAN,
             Gate(runs[j], partial) = "pass", Drift(runs[i], runs[j], partial) = "fail"
      PROVE  \E f \in Findings : /\ StatusClass(runs[i].rows[f]) = "accepted"
                                 /\ StatusClass(runs[j].rows[f]) = "closed"
  <2>1. Triggered(runs[j]) = {}
    BY <1>2 DEF Gate
  <2>2. NewOpen(runs[i], runs[j]) = {}
    BY <2>1 DEF NewOpen
  <2>3. Stale(runs[j]) = {}
    BY <2>1 DEF Stale, Triggered, StatusClass, ExpiredClaim
  <2>4. PICK f \in Findings : /\ AtThreshold(runs[j].rows[f])
                              /\ StatusClass(runs[i].rows[f]) = "accepted"
                              /\ StatusClass(runs[j].rows[f]) # "accepted"
    BY <1>2, <2>2, <2>3 DEF Drift, Reactivated
  <2>5. StatusClass(runs[j].rows[f]) # "open"
    BY <2>1, <2>4 DEF Triggered
  <2>6. runs[j].rows[f].status \in {"open", "accepted", "closed"}
    BY <1>2 DEF IInv, TypeOK, Runs, Rows
  <2> QED BY <2>4, <2>5, <2>6 DEF StatusClass
<1>3. IInv => DriftSuffices
  BY <1>1, <1>2 DEF DriftSuffices
<1> QED BY <1>3, InvariantInductive, PTL

(* Time alone does not turn a verdict from fail to pass, and from pass only *)
(* the day after the last of a waiver (has_expired_waiver, gate_findings).  *)
THEOREM TimeDoesNotHeal == Spec => GateNeverHeals
<1>1. ASSUME IInv, [Next]_vars, NEW i \in DOMAIN runs, NEW partial \in BOOLEAN, runs' = runs
      PROVE  /\ day \in Nat /\ day' \in {day, day + 1}
             /\ Covered(runs[i], partial)' <=> Covered(runs[i], partial)
             /\ \A f \in Findings : /\ runs[i].rows[f].expires \in Nat
                                    /\ runs[i].rows[f].status \in {"open", "accepted", "closed"}
  <2>1. day \in Nat /\ day' \in {day, day + 1}
    BY <1>1, DriftGateConstantsOk DEF Next, NewRun, CloseByHand, NextDay, vars, IInv, TypeOK, Days
  <2>2. Covered(runs[i], partial)' <=> Covered(runs[i], partial)
    BY <1>1 DEF Covered, Complete
  <2> QED BY <1>1, <2>1, <2>2, DriftGateConstantsOk DEF IInv, TypeOK, Runs, Rows, Days, Never
<1>2. ASSUME IInv, [Next]_vars, NEW i \in DOMAIN runs, NEW partial \in BOOLEAN,
             Gate(runs[i], partial) = "fail", runs' = runs
      PROVE  Gate(runs[i], partial)' = "fail"
  <2>1. Covered(runs[i], partial) /\ Triggered(runs[i]) # {}
    BY <1>2 DEF Gate
  <2>2. PICK f \in Findings : AtThreshold(runs[i].rows[f]) /\ StatusClass(runs[i].rows[f]) = "open"
    BY <2>1 DEF Triggered
  <2>3. HasExpired(runs[i].rows[f]) => HasExpired(runs[i].rows[f])'
    BY <1>1, <1>2 DEF HasExpired
  <2>4. StatusClass(runs[i].rows[f])' = "open"
    BY <1>1, <1>2, <2>2, <2>3 DEF StatusClass, Claims
  <2>5. f \in Triggered(runs[i])'
    BY <1>2, <2>2, <2>4 DEF Triggered, AtThreshold
  <2> QED BY <1>1, <1>2, <2>1, <2>5 DEF Gate
<1>3. ASSUME IInv, [Next]_vars, NEW i \in DOMAIN runs, NEW partial \in BOOLEAN,
             Gate(runs[i], partial) = "pass", Gate(runs[i], partial)' # "pass", runs' = runs
      PROVE  \E f \in Findings : runs[i].rows[f].waived /\ runs[i].rows[f].expires = day
  <2>1. Triggered(runs[i]) = {} /\ Triggered(runs[i])' # {}
    BY <1>1, <1>3 DEF Gate
  <2>2. PICK f \in Findings : AtThreshold(runs[i].rows[f])' /\ StatusClass(runs[i].rows[f])' = "open"
    BY <2>1 DEF Triggered
  <2>3. AtThreshold(runs[i].rows[f]) /\ StatusClass(runs[i].rows[f]) # "open"
    BY <1>3, <2>1, <2>2 DEF Triggered, AtThreshold
  <2>4. Claims(runs[i].rows[f]) /\ runs[i].rows[f].waived /\ ~HasExpired(runs[i].rows[f])
    BY <2>3 DEF StatusClass
  <2>5. HasExpired(runs[i].rows[f])'
    <3>1. runs'[i].rows[f].status # "open" /\ Claims(runs[i].rows[f])' /\ runs'[i].rows[f].waived
      BY <1>3, <2>4 DEF Claims
    <3> QED BY <2>2, <3>1 DEF StatusClass
  <2> QED BY <1>1, <1>3, <2>4, <2>5 DEF HasExpired
<1>4. IInv /\ [Next]_vars =>
        [\A i \in DOMAIN runs, partial \in BOOLEAN :
            runs' = runs =>
               /\ Gate(runs[i], partial) = "fail" => Gate(runs[i], partial)' = "fail"
               /\ Gate(runs[i], partial) = "pass" /\ Gate(runs[i], partial)' # "pass" =>
                    \E f \in Findings : runs[i].rows[f].waived /\ runs[i].rows[f].expires = day]_vars
  BY <1>2, <1>3
<1> QED BY <1>4, InvariantInductive, PTL DEF Spec, GateNeverHeals
=============================================================================
