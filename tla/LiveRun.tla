------------------------------- MODULE LiveRun -------------------------------
(***************************************************************************)
(* A live audit run of azure_tenant_audit: run_live (cli.py), the          *)
(* CollectorRunner it drives and the AuditWriter that owns the run folder. *)
(*                                                                         *)
(* A run folder outlives the process.  A session (one run_live call) reads *)
(* each selected collector and writes, one file at a time, its coverage    *)
(* rows, its raw payload and its checkpoint; at the end it publishes       *)
(* coverage.json, summary.json and run-manifest.json.  A session may stop  *)
(* anywhere (a kill, Ctrl-C, a refused token); a later session resumes the *)
(* folder with --resume-from, carries finished collectors forward and      *)
(* reads the others again.  Every write below is one os.replace or one     *)
(* append, so a stop falls between two of them.                            *)
(***************************************************************************)
EXTENDS Naturals, FiniteSets

CONSTANTS
    Collectors,     \* the REGISTRY: every collector name
    NonFatal,       \* NON_FATAL_COLLECTORS: their gaps do not fail the process
    Windowed,       \* collectors with time_windowed = True
    Exchange,       \* exchange_policy, read before Dns when both are selected
    Dns,            \* dns_posture
    Windows,        \* the (since, until) pairs a session may be given
    NoWindow,       \* a session with neither --since nor --until
    Unrecorded,     \* a checkpoint with no since/until keys
    NoCollector,    \* no collector is being read
    MaxSessions     \* bound on the sessions of one run folder

ASSUME ConstantsOk ==
    /\ NonFatal \subseteq Collectors
    /\ Windowed \subseteq Collectors
    /\ NoWindow \in Windows
    /\ Unrecorded \notin Windows
    /\ NoCollector \notin Collectors
    /\ MaxSessions \in Nat

ASSUME RegistryOk == IsFiniteSet(Collectors)      \* REGISTRY is a dict in the source

VARIABLES
    (* The run folder. *)
    ckpt,       \* checkpoints/checkpoint-state.json: [collector -> [status, win]]
    raw,        \* raw/<collector>.json: [collector -> [read, win]]
    chunks,     \* chunks/<collector>/: the window its files were last read over
    index,      \* index/coverage.jsonl: newest status per collector and row key
    covFile,    \* coverage.json, a set of rows
    sumFile,    \* the collector rows of summary.json
    blockers,   \* the collectors named in blockers/blockers.json
    report,     \* the evidence the normalized sections and findings stand on
    manifest,   \* run-manifest.json: [overall, win, sel]
    (* The session. *)
    pc, win, selected, carried, known, todo, toSkip, cur, out,
    cov,        \* AuditWriter.coverage (run_live's coverage_rows equal it at the end)
    sum,        \* AuditWriter.summary["collectors"]
    results,    \* result_rows, as the status recorded for each collector
    flagged,    \* collectors of the normalization diagnostics
    exit,       \* exit code of the last session that ended by itself
    sessions,   \* sessions started
    (* History. *)
    torn        \* collectors whose read was cut off and not completed since

disk    == <<ckpt, raw, chunks, index, covFile, sumFile, blockers, report, manifest>>
plan    == <<win, selected, carried, known>>
loop    == <<todo, toSkip, cur, out>>
notes   == <<cov, sum, results, flagged>>
vars    == <<disk, pc, plan, loop, notes, exit, sessions, torn>>

-----------------------------------------------------------------------------
Statuses == {"none", "ok", "partial", "failed", "blocked"}
Outcomes == {"ok", "partial", "crash"}
Keys     == {"read", "gap"}       \* "gap": a row only an incomplete read writes
CovRow   == Collectors \X Keys \X {"ok", "failed"}
SumRow   == Collectors \X (Statuses \ {"none"})
Evidence == [read : {"none", "whole", "cut"}, win : Windows]
Shown    == [read : {"none", "whole", "cut"}, wins : SUBSET (Windows \cup {Unrecorded})]
Mark     == [status : Statuses, win : Windows \cup {Unrecorded}]

NoEvidence == [read |-> "none", win |-> NoWindow]
NotShown   == [read |-> "none", wins |-> {}]
NoMark     == [status |-> "none", win |-> Unrecorded]

\* Mutant: a crash is recorded under its own name.
StatusOf_Unmapped(o) == o

\* The status a collector's outcome is recorded with.
StatusOf(o) == IF o = "crash" THEN "failed" ELSE o

\* The coverage rows of one read.  A strict list that fails adds a derived row of its
\* own, and a crashed optional collector writes one row named "collector"; a required
\* collector that crashes writes none.
RowsOf(c, o) ==
    CASE o = "ok"      -> {<<c, "read", "ok">>}
      [] o = "partial" -> {<<c, "read", "failed">>, <<c, "gap", "failed">>}
      [] o = "crash"   -> IF c \in NonFatal THEN {<<c, "gap", "failed">>} ELSE {}

\* A collector that reads no events has the same evidence under every window.
ReadOver(c) == IF c \in Windowed THEN win ELSE NoWindow

EvidenceOf(c, o) == [read |-> IF o = "ok" THEN "whole" ELSE "cut", win |-> ReadOver(c)]

\* Mutants: the recorded window is not compared; a window-less checkpoint is always taken.
WindowChanged_NotCompared(mark, w) == mark.win = Unrecorded /\ w # NoWindow
WindowChanged_LegacyTaken(mark, w) == mark.win \notin {Unrecorded, w}

\* _window_changed
WindowChanged(mark, w) ==
    IF mark.win = Unrecorded THEN w # NoWindow ELSE mark.win # w

\* Mutant: the window is asked of every collector, not only of those that read events.
Carries_AllWindowed(c, w) ==
    ~WindowChanged(ckpt[c], w) /\ ckpt[c].status = "ok" /\ raw[c].read # "none"

\* _resume_carried_collectors: only "ok" with its raw payload on disk is carried.
Carries(c, w) ==
    /\ ~(c \in Windowed /\ WindowChanged(ckpt[c], w))
    /\ ckpt[c].status = "ok"
    /\ raw[c].read # "none"

\* _seed_existing_run_artifacts: the newest observation of each key; the index is read
\* after coverage.json.
IndexRows  == {r \in CovRow : index[r[1]][r[2]] = r[3]}
SeededRows == IndexRows \cup {r \in covFile : index[r[1]][r[2]] = "none"}

RowsFor(rows, c)     == {r \in rows : r[1] = c}
RowsWithout(rows, c) == {r \in rows : r[1] # c}

-----------------------------------------------------------------------------
Init ==
    /\ ckpt = [c \in Collectors |-> NoMark]
    /\ raw = [c \in Collectors |-> NoEvidence]
    /\ chunks = [c \in Collectors |-> Unrecorded]
    /\ index = [c \in Collectors |-> [k \in Keys |-> "none"]]
    /\ covFile = {} /\ sumFile = {} /\ blockers = {}
    /\ report = [c \in Collectors |-> NotShown]
    /\ manifest = [overall |-> "none", win |-> NoWindow, sel |-> {}]
    /\ pc = "idle"
    /\ win = NoWindow /\ selected = {} /\ carried = {} /\ known = {}
    /\ todo = {} /\ toSkip = {} /\ cur = NoCollector /\ out = "ok"
    /\ cov = {} /\ sum = {} /\ flagged = {}
    /\ results = [c \in Collectors |-> "none"]
    /\ exit = 0 /\ sessions = 0 /\ torn = {}

\* run_live up to the preflight: seed the writer from the folder, decide what is carried
\* and add it to the operator's selection.
Start(sel, w) ==
    /\ pc \in {"idle", "done"} /\ sessions < MaxSessions
    /\ sessions' = sessions + 1
    /\ win' = w
    /\ carried' = {c \in Collectors : Carries(c, w)}
    /\ selected' = sel \cup carried'
    /\ known' = {c \in Collectors : ckpt[c].status # "none"}
    /\ cov' = SeededRows
    /\ sum' = sumFile
    /\ results' = [c \in Collectors |-> "none"]
    /\ flagged' = {}
    /\ pc' = "preflight"
    /\ UNCHANGED <<disk, loop, exit, torn>>

\* run_preflight_probe: collectors that are carried or deferred to collection always run;
\* any other may be known blocked.  Without --probe-first nothing is blocked.  When no
\* collector is left the run is aborted: it publishes a partial bundle and nothing else.
Preflight(blocked) ==
    /\ pc = "preflight"
    /\ blocked \subseteq selected \ (carried \cup NonFatal)
    /\ selected' = selected \ blocked
    /\ todo' = selected'
    /\ \/ selected' = {} /\ toSkip' = {} /\ pc' = "coverageFile"     \* run.aborted
       \/ selected' # {} /\ toSkip' = blocked /\ pc' = "collect"
    /\ UNCHANGED <<disk, win, carried, known, cur, out, notes, exit, sessions, torn>>

\* The checkpoint row of a collector the preflight skipped; it records no window.
SkipBlocked(c) ==
    /\ pc = "collect" /\ c \in toSkip
    /\ toSkip' = toSkip \ {c}
    /\ results' = [results EXCEPT ![c] = "blocked"]
    /\ ckpt' = [ckpt EXCEPT ![c] = [status |-> "blocked", win |-> Unrecorded]]
    /\ UNCHANGED <<raw, chunks, index, covFile, sumFile, blockers, report, manifest,
                   pc, plan, todo, cur, out, cov, sum, flagged, exit, sessions, torn>>

\* collector_execution_order: DNS comes after Exchange when both are left to read.
Turn(c) == /\ pc = "collect" /\ toSkip = {} /\ cur = NoCollector
           /\ c \in todo
           /\ c = Dns => Exchange \notin todo

CarryForward(c) ==
    /\ Turn(c) /\ c \in carried
    /\ todo' = todo \ {c}
    /\ results' = [results EXCEPT ![c] = "ok"]
    /\ UNCHANGED <<disk, pc, plan, toSkip, cur, out, cov, sum, flagged, exit, sessions, torn>>

\* A checkpointed collector that is read again first drops its earlier rows.
BeginRead(c) ==
    /\ Turn(c) /\ c \notin carried
    /\ todo' = todo \ {c}
    /\ cur' = c
    /\ sum' = IF c \in known THEN RowsWithout(sum, c) ELSE sum
    /\ cov' = IF c \in known THEN RowsWithout(cov, c) ELSE cov
    /\ pc' = "read"
    /\ UNCHANGED <<disk, plan, toSkip, out, results, flagged, exit, sessions, torn>>

\* A page of events goes to the chunk files while the list is being read; the files of an
\* earlier read have the same names.
WriteChunk ==
    /\ pc = "read" /\ cur \in Windowed
    /\ chunks' = [chunks EXCEPT ![cur] = win]
    /\ UNCHANGED <<ckpt, raw, index, covFile, sumFile, blockers, report, manifest,
                   pc, plan, loop, notes, exit, sessions, torn>>

\* The collector returns (its chunk files are complete) or raises.
FinishRead(o) ==
    /\ pc = "read"
    /\ out' = o
    /\ o # "crash" /\ cur \in Windowed => chunks[cur] = win
    /\ pc' = IF o = "crash" /\ cur \notin NonFatal THEN "mark" ELSE "index"
    /\ UNCHANGED <<disk, plan, todo, toSkip, cur, notes, exit, sessions, torn>>

\* write_index_records: append to index/coverage.jsonl and to the rows in memory.
WriteIndex ==
    /\ pc = "index"
    /\ cov' = cov \cup RowsOf(cur, out)
    /\ index' = [index EXCEPT ![cur] =
                   [k \in Keys |-> IF \E s \in {"ok", "failed"} : <<cur, k, s>> \in RowsOf(cur, out)
                                     THEN CHOOSE s \in {"ok", "failed"} : <<cur, k, s>> \in RowsOf(cur, out)
                                     ELSE @[k]]]
    /\ pc' = "raw"
    /\ UNCHANGED <<ckpt, raw, chunks, covFile, sumFile, blockers, report, manifest,
                   plan, loop, sum, results, flagged, exit, sessions, torn>>

WriteRaw ==
    /\ pc = "raw"
    /\ raw' = [raw EXCEPT ![cur] = EvidenceOf(cur, out)]
    /\ pc' = "mark"
    /\ UNCHANGED <<ckpt, chunks, index, covFile, sumFile, blockers, report, manifest,
                   plan, loop, notes, exit, sessions, torn>>

\* The runner's own checkpoint carries the status and no window.
WriteMark ==
    /\ pc = "mark"
    /\ ckpt' = [ckpt EXCEPT ![cur] = [status |-> StatusOf(out), win |-> Unrecorded]]
    /\ pc' = "stamp"
    /\ UNCHANGED <<raw, chunks, index, covFile, sumFile, blockers, report, manifest,
                   plan, loop, notes, exit, sessions, torn>>

\* run_live writes the checkpoint again, now with the session's window, and records the
\* result.
StampWindow ==
    /\ pc = "stamp"
    /\ ckpt' = [ckpt EXCEPT ![cur] = [status |-> StatusOf(out), win |-> win]]
    /\ results' = [results EXCEPT ![cur] = StatusOf(out)]
    /\ torn' = torn \ {cur}
    /\ cur' = NoCollector
    /\ pc' = "collect"
    /\ UNCHANGED <<raw, chunks, index, covFile, sumFile, blockers, report, manifest,
                   plan, todo, toSkip, out, cov, sum, flagged, exit, sessions>>

-----------------------------------------------------------------------------
(* The end of a session. *)

\* The payload that is normalized: a required collector that crashed left none, whatever
\* an earlier session wrote to raw/.
Payload(c) ==
    IF results[c] \in {"none", "blocked"} \/ (results[c] = "failed" /\ c \notin NonFatal)
    THEN NoEvidence ELSE raw[c]

\* The payload names its chunk files, which are read again when it is normalized.
ShownOf(c) ==
    IF Payload(c).read = "none" THEN NotShown
    ELSE [read |-> Payload(c).read,
          wins |-> {Payload(c).win} \cup (IF c \in Windowed THEN {chunks[c]} ELSE {})]

\* Chunk files of another read are noticed only when their row counts differ.
Mixed(c) == Cardinality(ShownOf(c).wins) > 1

\* Mutant: collectors outside the session are forgotten.
ResumedIncomplete_Forgotten == {}

ResumedIncomplete == known \ (selected \cup carried)
Gaps == {c \in Collectors : results[c] \in {"partial", "failed", "blocked"}}
            \cup ResumedIncomplete \cup flagged

\* Mutant: only a failed read of this session fails the process.
ExitCode_FailuresOnly ==
    IF {c \in Collectors : results[c] \in {"partial", "failed"}} \ NonFatal # {} THEN 1 ELSE 0

Overall  == IF selected = {} \/ Gaps # {} THEN "partial" ELSE "ok"
ExitCode == IF selected = {} \/ Gaps \ NonFatal # {} THEN 1 ELSE 0

\* Mutant: blockers are taken from the coverage rows alone.
Diagnosed_FromRows == {c \in Collectors : \E r \in RowsFor(cov, c) : r[3] # "ok"}

\* build_diagnostics: a gap with coverage rows is reported row by row, so one whose rows
\* are all ok is not reported.
Diagnosed == {c \in Collectors :
                /\ results[c] \in {"partial", "failed", "blocked"}
                /\ RowsFor(cov, c) # {} => \E r \in RowsFor(cov, c) : r[3] # "ok"}

\* Mutant: a carried collector is never added.
NewSummaryRows_NotCarried ==
    {<<c, results[c]>> : c \in {d \in Collectors : results[d] # "none" /\ d \notin carried}}

\* The rows this session adds to the summary: a carried collector's only when the summary
\* has none of it.
NewSummaryRows ==
    {<<c, results[c]>> : c \in {d \in Collectors : /\ results[d] # "none"
                                                   /\ d \in carried => RowsFor(sum, d) = {}}}

CloseLoop ==
    /\ pc = "collect" /\ todo = {} /\ toSkip = {} /\ cur = NoCollector
    /\ sum' = sum \cup NewSummaryRows
    /\ flagged' \in SUBSET {c \in Collectors : Mixed(c)}
    /\ pc' = "blockers"
    /\ UNCHANGED <<disk, plan, loop, cov, results, exit, sessions, torn>>

\* diagnostics.json and blockers.json are replaced, or removed when nothing is left.
WriteBlockers ==
    /\ pc = "blockers"
    /\ blockers' = Diagnosed \cup flagged
    /\ pc' = "report"
    /\ UNCHANGED <<ckpt, raw, chunks, index, covFile, sumFile, report, manifest,
                   plan, loop, notes, exit, sessions, torn>>

\* Normalized sections and findings; sections this run does not produce are pruned.
WriteReport ==
    /\ pc = "report"
    /\ report' = [c \in Collectors |-> ShownOf(c)]
    /\ pc' = "coverageFile"
    /\ UNCHANGED <<ckpt, raw, chunks, index, covFile, sumFile, blockers, manifest,
                   plan, loop, notes, exit, sessions, torn>>

\* write_bundle, one file after the other; coverage.json only when there are rows.
WriteCoverageFile ==
    /\ pc = "coverageFile"
    /\ covFile' = IF cov = {} THEN covFile ELSE cov
    /\ pc' = "summaryFile"
    /\ UNCHANGED <<ckpt, raw, chunks, index, sumFile, blockers, report, manifest,
                   plan, loop, notes, exit, sessions, torn>>

WriteSummaryFile ==
    /\ pc = "summaryFile"
    /\ sumFile' = sum
    /\ pc' = "manifestFile"
    /\ UNCHANGED <<ckpt, raw, chunks, index, covFile, blockers, report, manifest,
                   plan, loop, notes, exit, sessions, torn>>

\* A process that ends takes its memory with it.
Forget ==
    /\ win' = NoWindow /\ selected' = {} /\ carried' = {} /\ known' = {}
    /\ todo' = {} /\ toSkip' = {} /\ cur' = NoCollector /\ out' = "ok"
    /\ cov' = {} /\ sum' = {} /\ flagged' = {}
    /\ results' = [c \in Collectors |-> "none"]

WriteManifest ==
    /\ pc = "manifestFile"
    /\ manifest' = [overall |-> Overall, win |-> win, sel |-> selected]
    /\ exit' = ExitCode
    /\ pc' = "done"
    /\ Forget
    /\ UNCHANGED <<ckpt, raw, chunks, index, covFile, sumFile, blockers, report, sessions, torn>>

\* A kill, an interrupt, or an early return of run_live, anywhere in a session.
Stop ==
    /\ pc \notin {"idle", "done"}
    /\ pc' = "idle"
    /\ torn' = torn \cup ({cur} \ {NoCollector})
    /\ Forget
    /\ UNCHANGED <<disk, exit, sessions>>

\* Between sessions a raw payload may be deleted.
LoseRaw(c) ==
    /\ pc \in {"idle", "done"}
    /\ raw[c] # NoEvidence
    /\ raw' = [raw EXCEPT ![c] = NoEvidence]
    /\ UNCHANGED <<ckpt, chunks, index, covFile, sumFile, blockers, report, manifest,
                   pc, plan, loop, notes, exit, sessions, torn>>

SessionStep ==
    \/ \E blocked \in SUBSET Collectors : Preflight(blocked)
    \/ \E c \in Collectors : SkipBlocked(c) \/ CarryForward(c) \/ BeginRead(c)
    \/ WriteChunk
    \/ \E o \in Outcomes : FinishRead(o)
    \/ WriteIndex \/ WriteRaw \/ WriteMark \/ StampWindow
    \/ CloseLoop \/ WriteBlockers \/ WriteReport
    \/ WriteCoverageFile \/ WriteSummaryFile \/ WriteManifest

Next ==
    \/ \E sel \in SUBSET Collectors \ {{}}, w \in Windows : Start(sel, w)
    \/ SessionStep
    \/ Stop
    \/ \E c \in Collectors : LoseRaw(c)

Spec == Init /\ [][Next]_vars

-----------------------------------------------------------------------------
PCs == {"idle", "preflight", "collect", "read", "index", "raw", "mark", "stamp", "blockers",
        "report", "coverageFile", "summaryFile", "manifestFile", "done"}

\* Every variable holds a value of its kind, and a collector is being read exactly while
\* the runner is between its start and its stamped checkpoint.
TypeOK ==
    /\ ckpt \in [Collectors -> Mark]
    /\ raw \in [Collectors -> Evidence]
    /\ chunks \in [Collectors -> Windows \cup {Unrecorded}]
    /\ index \in [Collectors -> [Keys -> {"none", "ok", "failed"}]]
    /\ covFile \subseteq CovRow /\ cov \subseteq CovRow
    /\ sumFile \subseteq SumRow /\ sum \subseteq SumRow
    /\ blockers \subseteq Collectors /\ flagged \subseteq Collectors
    /\ report \in [Collectors -> Shown]
    /\ manifest \in [overall : {"none", "ok", "partial"}, win : Windows, sel : SUBSET Collectors]
    /\ pc \in PCs
    /\ win \in Windows
    /\ selected \subseteq Collectors /\ carried \subseteq Collectors
    /\ known \subseteq Collectors /\ todo \subseteq Collectors /\ toSkip \subseteq Collectors
    /\ cur \in Collectors \cup {NoCollector} /\ out \in Outcomes
    /\ cur = NoCollector <=> pc \notin {"read", "index", "raw", "mark", "stamp"}
    /\ results \in [Collectors -> Statuses]
    /\ exit \in {0, 1} /\ sessions \in 0..MaxSessions
    /\ torn \subseteq Collectors

\* The last session ran to its end, so the bundle on disk is its bundle.
Published == pc = "done"

\* A collector with work left: its read was cut off and not completed since, or its
\* checkpoint is not one that a session over w would carry.
Outstanding(c, w) == c \in torn \/ (ckpt[c].status # "none" /\ ~Carries(c, w))

\* A bundle whose headline is "ok" leaves no checkpointed collector unfinished, whatever
\* this session selected, and one whose headline is "partial" names a real gap: a collector
\* has work left, or the run was aborted (run_live, overall_status and resumed_incomplete).
HeadlineHonest ==
    Published =>
        /\ manifest.overall = "ok" => \A c \in Collectors : ckpt[c].status \in {"none", "ok"}
        /\ manifest.overall = "partial" /\ manifest.sel # {} =>
              \E c \in Collectors : Outstanding(c, manifest.win)

\* A session exits 0 only when every required collector ever checkpointed is finished,
\* and fails only for a required one that has work left: optional gaps neither fail a run
\* nor hide one that does (run_live, required_gaps).
ExitHonest ==
    Published =>
        /\ exit = 0 => \A c \in Collectors \ NonFatal : ckpt[c].status \in {"none", "ok"}
        /\ exit = 1 /\ manifest.sel # {} =>
              \E c \in Collectors \ NonFatal : Outstanding(c, manifest.win)

\* Under an "ok" headline every selected collector's evidence is whole and, for one that
\* reads events, was read over the window the manifest records - unless its read was once
\* cut off and has not been completed since (_resume_carried_collectors).
EvidenceHonest ==
    Published /\ manifest.overall = "ok" =>
        \A c \in manifest.sel \ torn :
            /\ report[c].read = "whole"
            /\ c \in Windowed => report[c].wins = {manifest.win}

\* A published bundle has a summary row for every collector it claims to hold, also for
\* one carried from a session that was interrupted before it wrote summary.json; and an
\* unfinished one has a row that says how it ended, whatever rows of earlier reads stay.
SelectedSummarised ==
    Published => \A c \in manifest.sel :
        /\ RowsFor(sumFile, c) # {}
        /\ ckpt[c].status # "ok" => <<c, ckpt[c].status>> \in sumFile

\* Blockers follow the run: a collector left partial has one, and a collector that
\* finished has none left from an earlier session (write_blockers, clear_result_file).
BlockersCurrent ==
    Published => \A c \in manifest.sel :
        /\ ckpt[c].status = "partial" => c \in blockers
        /\ ckpt[c].status = "ok" /\ c \notin torn => c \notin blockers

\* A finished collector that reads no events is finished for good: no later session reads
\* it again, re-probes it or touches its payload while the payload is there.
FinishedStays ==
    [][\A c \in Collectors \ Windowed :
          ckpt[c].status = "ok" /\ raw[c].read # "none" /\ cur # c
             => /\ cur' # c
                /\ ckpt'[c].status = "ok"
                /\ raw'[c] \in {raw[c], NoEvidence}]_vars

\* The folder keeps the promise of RunPromise: what the checkpoints record, and a headline
\* that stands over it.
Promise == INSTANCE RunPromise WITH
    held <- [c \in Collectors |->
                [state |-> IF ckpt[c].status = "none" THEN "unread"
                           ELSE IF ckpt[c].status = "ok" THEN "finished" ELSE "unfinished",
                 over |-> IF ckpt[c].status = "ok" THEN ckpt[c].win ELSE Unrecorded]],
    headline <- [overall |-> manifest.overall, win |-> manifest.win]

\* Every step of a session, in any order of stops and resumes, is a step RunPromise
\* allows: the detailed run implements it.
ImplementsPromise == Promise!Spec

-----------------------------------------------------------------------------
(* What the documentation says of a resumed run, taken literally. *)

\* A resume "never reads an incomplete one as complete" (output-contract.md).
CompleteMeansWhole ==
    Published /\ manifest.overall = "ok" =>
        \A c \in manifest.sel : report[c].read = "whole"
=============================================================================
