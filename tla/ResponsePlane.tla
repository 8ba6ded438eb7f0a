---------------------------- MODULE ResponsePlane ----------------------------
(***************************************************************************)
(* run_response of response.py: the one plane that may change a tenant.    *)
(*                                                                         *)
(* A response plans the commands of an action, or, if every guard holds    *)
(* and --execute is given, runs them in turn until one is accepted.  It    *)
(* writes a run folder as it goes.  The folder's name comes from the       *)
(* tenant and --run-name, so a later response may reuse the folder of an   *)
(* earlier one, which may have been stopped anywhere.  The gate reads the  *)
(* folder afterwards.                                                      *)
(*                                                                         *)
(* Files that no later step reads (diagnostics, capability matrix,         *)
(* readiness, ai_safe summary, auth context) are left out.                 *)
(***************************************************************************)
EXTENDS Naturals, FiniteSets

CONSTANTS
    Actions,        \* RESPONSE_ACTIONS
    Trace,          \* message_trace, the action that cannot write
    Unknown,        \* a name that is no action
    Checks,         \* guards that look at one option each: intent, profile, lab, ...
    Variants,       \* the number of commands of an action
    MaxResponses    \* bound on the responses of one folder

ASSUME ResponseConstantsOk ==
    /\ Trace \in Actions /\ Unknown \notin Actions
    /\ IsFiniteSet(Checks)
    /\ Variants \in Nat \ {0}
    /\ MaxResponses \in Nat

VARIABLES
    (* The folder; "of" is the response that wrote a file, 0 for none. *)
    desc,       \* normalized/response.json: [of, kind]
    index,      \* rows of index/coverage.jsonl
    raw,        \* raw/response/<action>/: the response behind plan and attempt files
    blockers,   \* blockers/blockers.json: of
    findings,   \* findings/findings.json: [of, ids]
    ledger,     \* normalized/coverage_ledger.json: [of, status]
    report,     \* reports/report-pack.json: [of, ids]
    manifest,   \* run-manifest.json, and validation.json: [of, status, count, valid]
    sealed,     \* bundle-hashes.json is of the folder as it is
    (* The response in progress. *)
    pc, n, req, blocks, k, outcome,
    count,      \* findings_count of the writer's manifest
    (* History. *)
    ran,        \* commands that were started: <<response, rank>>
    accepted,   \* those that were accepted
    cut         \* those whose response was stopped before it came to their row

folder  == <<desc, index, raw, blockers, findings, ledger, report, manifest>>
plan    == <<n, req>>
history == <<ran, accepted, cut>>
vars    == <<folder, sealed, pc, plan, blocks, k, outcome, count, history>>

-----------------------------------------------------------------------------
(* adapter: ready, absent (its tool is missing), unknown (there is none);   *)
(* override: a command of the operator's, refused without its allow flag;   *)
(* write: --allow-write.                                                    *)
Requests ==
    [action : Actions \cup {Unknown}, execute : BOOLEAN, override : {"none", "refused", "allowed"},
     adapter : {"ready", "absent", "unknown"}, write : BOOLEAN, complete : BOOLEAN,
     refused : SUBSET Checks]

NoRequest ==
    [action |-> Unknown, execute |-> FALSE, override |-> "none",
     adapter |-> "unknown", write |-> FALSE, complete |-> FALSE, refused |-> Checks]

If(condition, blocker) == IF condition THEN {blocker} ELSE {}

\* Mutant: a command the operator wrote is not looked at.
WriteGuard_NotForOverride(r) ==
    If(r.action \in Actions \ {Trace} /\ r.adapter # "unknown" /\ ~r.write
           /\ r.override = "none",
       "write_guard")

\* An action that may write needs --allow-write; the guard stands after the adapter's.
WriteGuard(r) ==
    If(r.action \in Actions \ {Trace} /\ r.adapter # "unknown" /\ ~r.write, "write_guard")

Blocks(r) ==
    r.refused
        \cup If(r.action = Unknown, "unknown_action")
        \cup If(r.override = "refused", "command_override")
        \cup If(r.action # Unknown /\ r.adapter # "ready", "toolchain")
        \cup WriteGuard(r)
        \cup If(r.action # Unknown /\ ~r.complete, "missing_argument")

Classes ==
    Checks \cup {"unknown_action", "command_override", "toolchain", "write_guard",
                 "missing_argument", "command_error"}

\* The commands of a request: an override replaces all of them.
Commands == IF req.override # "none" THEN 1 ELSE Variants

\* A finding's id names the action and the blocker.
Ids == {<<req.action, b>> : b \in blocks}

Ranks  == 1..Variants
Slots  == 0..Variants         \* 0 is the plan's
NoFindings == [of |-> 0, ids |-> {}]

Init ==
    /\ desc = [of |-> 0, kind |-> "absent"]
    /\ index = {}
    /\ raw = [s \in Actions \X Slots |-> 0]
    /\ blockers = 0
    /\ findings = NoFindings
    /\ ledger = [of |-> 0, status |-> "absent"]
    /\ report = NoFindings
    /\ manifest = [of |-> 0, status |-> "absent", count |-> 0, valid |-> FALSE]
    /\ sealed = FALSE
    /\ pc = "idle" /\ n = 0
    /\ req = NoRequest
    /\ blocks = {} /\ k = 1 /\ outcome = "none" /\ count = 0
    /\ ran = {} /\ accepted = {} /\ cut = {}

\* The process is gone, and its locals with it.
Over ==
    /\ pc' = "idle" /\ req' = NoRequest
    /\ blocks' = {} /\ k' = 1 /\ outcome' = "none" /\ count' = 0

\* A write of an artifact: the hash manifest no longer holds.
Write(next) == sealed' = FALSE /\ pc' = next

-----------------------------------------------------------------------------
(* AuditWriter takes over the manifest of the folder, then the guards look  *)
(* at the request.                                                          *)
Begin(r) ==
    /\ pc = "idle" /\ n < MaxResponses
    /\ n' = n + 1 /\ req' = r
    /\ blocks' = Blocks(r)
    /\ k' = 1 /\ outcome' = "none"
    /\ count' = manifest.count
    /\ pc' = IF Blocks(r) # {} THEN "block" ELSE IF r.execute THEN "try" ELSE "plan"
    /\ UNCHANGED <<folder, sealed, history>>

\* The dry run: a row for every command.
Plan ==
    /\ pc = "plan"
    /\ index' = index \cup {<<n, i, "skipped">> : i \in 1..Commands}
    /\ outcome' = "skipped"
    /\ Write("keep")
    /\ UNCHANGED <<desc, raw, blockers, findings, ledger, report, manifest, plan, blocks, k, count,
                   history>>

\* adapter.run: an error is reported by the answer, whatever the command did.
Try ==
    /\ pc = "try"
    /\ ran' = ran \cup {<<n, k>>}
    /\ \E o \in {"ok", "failed"} :
         /\ outcome' = o
         /\ accepted' = IF o = "ok" THEN accepted \cup {<<n, k>>} ELSE accepted
    /\ pc' = "row"
    /\ UNCHANGED <<folder, sealed, plan, blocks, k, count, cut>>

\* Mutant: only accepted commands get a row.
RecordRow_Accepted ==
    /\ pc = "row"
    /\ index' = IF outcome = "ok" THEN index \cup {<<n, k, outcome>>} ELSE index
    /\ Write("keep")
    /\ UNCHANGED <<desc, raw, blockers, findings, ledger, report, manifest, plan, blocks, k, outcome,
                   count, history>>

RecordRow ==
    /\ pc = "row"
    /\ index' = index \cup {<<n, k, outcome>>}
    /\ Write("keep")
    /\ UNCHANGED <<desc, raw, blockers, findings, ledger, report, manifest, plan, blocks, k, outcome,
                   count, history>>

\* Mutant: the loop goes on after a command that was accepted.
Tried_All == k = Commands

\* Mutant: the loop ends one command late.
Tried_Late == outcome # "failed" \/ k > Commands

\* The loop over the commands ends.
Tried == outcome # "failed" \/ k = Commands

\* The raw file of the attempt, or of the plan; then the next command, or the end of the loop.
Keep ==
    /\ pc = "keep"
    /\ raw' = [raw EXCEPT ![<<req.action, IF outcome = "skipped" THEN 0 ELSE k>>] = n]
    /\ IF outcome # "skipped" /\ ~Tried
       THEN k' = k + 1 /\ Write("try") /\ UNCHANGED blocks
       ELSE /\ blocks' = blocks \cup If(outcome = "failed", "command_error")
            /\ Write(IF outcome = "failed" THEN "block" ELSE "describe")
            /\ UNCHANGED k
    /\ UNCHANGED <<desc, index, blockers, findings, ledger, report, manifest, plan, outcome, count,
                   history>>

\* Mutant: a response.json that is there is kept.
Describe_IfAbsent ==
    /\ pc = "describe"
    /\ desc' = IF desc.of = 0
               THEN [of |-> n, kind |-> IF outcome = "ok" THEN "ran" ELSE "planned"]
               ELSE desc
    /\ Write("ledger")
    /\ UNCHANGED <<index, raw, blockers, findings, ledger, report, manifest, plan, blocks, k, outcome,
                   count, history>>

\* response.json of a plan, or of the command that was accepted.
Describe ==
    /\ pc = "describe"
    /\ desc' = [of |-> n, kind |-> IF outcome = "ok" THEN "ran" ELSE "planned"]
    /\ Write("ledger")
    /\ UNCHANGED <<index, raw, blockers, findings, ledger, report, manifest, plan, blocks, k, outcome,
                   count, history>>

WriteBlockers ==
    /\ pc = "block"
    /\ blockers' = n
    /\ Write("findings")
    /\ UNCHANGED <<desc, index, raw, findings, ledger, report, manifest, plan, blocks, k, outcome,
                   count, history>>

WriteFindings ==
    /\ pc = "findings"
    /\ findings' = [of |-> n, ids |-> Ids]
    /\ count' = Cardinality(blocks)
    /\ Write("ledger")
    /\ UNCHANGED <<desc, index, raw, blockers, ledger, report, manifest, plan, blocks, k, outcome,
                   history>>

\* The one row of the ledger: blocked_permission, complete_exact_scope or not_applicable.
WriteLedger ==
    /\ pc = "ledger"
    /\ ledger' = [of |-> n, status |-> IF blocks # {} THEN "blocked"
                                       ELSE IF req.execute THEN "complete" ELSE "planned"]
    /\ Write("default")
    /\ UNCHANGED <<desc, index, raw, blockers, findings, report, manifest, plan, blocks, k, outcome,
                   count, history>>

\* A response.json is written here only where there is none yet: for a blocked response.
DescribeBlocked ==
    /\ pc = "default"
    /\ desc' = IF desc.of = 0 THEN [of |-> n, kind |-> "blocked"] ELSE desc
    /\ Write("report")
    /\ UNCHANGED <<index, raw, blockers, findings, ledger, report, manifest, plan, blocks, k, outcome,
                   count, history>>

WriteReport ==
    /\ pc = "report"
    /\ report' = [of |-> n, ids |-> Ids]
    /\ Write("manifest")
    /\ UNCHANGED <<desc, index, raw, blockers, findings, ledger, manifest, plan, blocks, k, outcome,
                   count, history>>

\* A response without findings leaves the count it took over.  The contract looks at the content
\* of every file: here it comes out either way.
WriteManifest ==
    /\ pc = "manifest"
    /\ \E v \in BOOLEAN :
         manifest' = [of |-> n, status |-> IF blocks = {} THEN "ok" ELSE "partial",
                      count |-> count, valid |-> v]
    /\ Write("hashes")
    /\ UNCHANGED <<desc, index, raw, blockers, findings, ledger, report, plan, blocks, k, outcome,
                   count, history>>

WriteHashes ==
    /\ pc = "hashes"
    /\ sealed' = TRUE /\ Over
    /\ UNCHANGED <<folder, n, history>>

\* A kill, an interrupt or an exception, anywhere.
Stop ==
    /\ pc # "idle" /\ Over
    /\ cut' = IF pc = "row" THEN cut \cup {<<n, k>>} ELSE cut
    /\ UNCHANGED <<folder, sealed, n, ran, accepted>>

Next ==
    \/ \E r \in Requests : Begin(r)
    \/ Plan \/ Try \/ RecordRow \/ Keep \/ Describe
    \/ WriteBlockers \/ WriteFindings \/ WriteLedger \/ DescribeBlocked
    \/ WriteReport \/ WriteManifest \/ WriteHashes
    \/ Stop

Spec == Init /\ [][Next]_vars

-----------------------------------------------------------------------------
(* What the gate reads of a folder.                                        *)

\* Mutant: the findings file is compared with the manifest's count only.
FindingsAgree_CountOnly == manifest.count = Cardinality(findings.ids)

\* _verify_findings.
FindingsAgree ==
    IF findings.of = 0
    THEN report.ids = {} /\ manifest.count = 0
    ELSE manifest.count = Cardinality(findings.ids) /\ findings.ids = report.ids

\* _assess_coverage and _require_coverage, without --allow-partial: a collector, which is the
\* response, completed, and the run is ok.
Covered == ledger.status = "complete" /\ manifest.status = "ok"

\* _verified_run: the contract, the hashes, the findings and the coverage.
GateAccepts == manifest.of > 0 /\ manifest.valid /\ sealed /\ FindingsAgree /\ Covered

-----------------------------------------------------------------------------
(* Type invariant. *)
TypeOK ==
    /\ desc \in [of : 0..n, kind : {"absent", "planned", "ran", "blocked"}]
    /\ index \subseteq (1..n) \X Ranks \X {"skipped", "ok", "failed"}
    /\ raw \in [Actions \X Slots -> 0..n]
    /\ blockers \in 0..n
    /\ {findings, report} \subseteq [of : 0..n, ids : SUBSET ((Actions \cup {Unknown}) \X Classes)]
    /\ ledger \in [of : 0..n, status : {"absent", "blocked", "complete", "planned"}]
    /\ manifest \in [of : 0..n, status : {"absent", "ok", "partial"}, count : Nat, valid : BOOLEAN]
    /\ sealed \in BOOLEAN
    /\ pc \in {"idle", "plan", "try", "row", "keep", "describe", "block", "findings", "ledger",
               "default", "report", "manifest", "hashes"}
    /\ n \in 0..MaxResponses
    /\ req \in Requests
    /\ blocks \subseteq Classes
    /\ k \in Ranks
    /\ outcome \in {"none", "skipped", "ok", "failed"}
    /\ count \in Nat
    /\ accepted \subseteq ran /\ cut \subseteq ran /\ ran \subseteq (1..n) \X Ranks

(* No command of an action that may write is run without --execute,         *)
(* --allow-write, every check and a usable adapter, in whichever order the  *)
(* guards are looked at.                                                    *)
OnlyGuarded ==
    pc # "idle" /\ <<n, k>> \in ran =>
        /\ req.execute /\ req.adapter = "ready" /\ req.complete /\ req.refused = {}
        /\ req.action \in Actions
        /\ req.action = Trace \/ req.write
        /\ req.override # "refused"

(* Whatever stops a response, at most one of its commands is accepted, and  *)
(* none is tried after it.                                                  *)
AcceptedOnce ==
    \A a \in accepted : \A x \in ran : x[1] = a[1] => x[2] <= a[2]

(* Every command that was started, accepted or not, leaves its row in the   *)
(* index for good, over stops and over later responses of the folder: none  *)
(* lacks it but the one whose row is next, and one a stop kept from it.     *)
RowsOutliveStops ==
    \A x \in ran \ cut :
        \/ \E o \in {"ok", "failed"} : <<x[1], x[2], o>> \in index
        \/ pc = "row" /\ x = <<n, k>>

(* A sealed response that is ok is the one response.json describes, although *)
(* the folder is reused.                                                    *)
OkIsDescribed ==
    sealed /\ manifest.status = "ok" => desc.of = manifest.of /\ desc.kind # "blocked"

(* The gate accepts a sealed folder of a valid contract exactly when the    *)
(* response that sealed it had a command accepted, and no response of the   *)
(* folder ever wrote findings: a plan, a response that was blocked or       *)
(* failed, and every response after one of those in the same folder, are    *)
(* turned down.  And the files of what it accepts are of one response.      *)
GateReadsOne ==
    sealed /\ manifest.of > 0 =>
        /\ GateAccepts <=> /\ manifest.valid
                           /\ findings.of = 0
                           /\ \E a \in accepted : a[1] = manifest.of
        /\ GateAccepts => /\ {report.of, ledger.of} = {manifest.of}
                          /\ desc = [of |-> manifest.of, kind |-> "ran"]
=============================================================================
