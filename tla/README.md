# Auditex in TLA+

A verification development of Auditex, a read-only audit toolkit for Microsoft
365 and Google Workspace tenants. It models the parts of the code whose
correctness depends on what happens over several steps, processes or runs, checks
them with TLC on small instances, and proves the central properties for every
value of the parameters with TLAPS. Paths below are relative to the repository;
`azure_tenant_audit` and `auditex` are the packages under `src/`.

## 1. The system

An audit is one process that reads a tenant and writes a *run folder*. The
folder is the only state that outlives the process: checkpoints, raw payloads,
chunk files, an append-only coverage index, and the bundle (`coverage.json`,
`summary.json`, `run-manifest.json`, findings, reports, an SQLite index and a
hash manifest). Everything else reads finished run folders.

| Part | State it keeps | Operations | Hard behaviour |
|---|---|---|---|
| Live run (`cli.py`, `collector_runner.py`, `output.py`, `run.py`, `diagnostics.py`) | the run folder; a session's selection, carried collectors, coverage and summary rows | start or resume a session, preflight, carry, skip, read, checkpoint, publish | a stop between any two writes, then a resume with another selection or window |
| List reading (`collectors/base.py`, `graph.py`, `perf_runtime.py`) | rows and chunk files of one paged list | read a page, keep, cut, withhold | a failure, a refused link, a loop or a limit on any page |
| Graph transport (`graph.py`) | token, permission failures per family, pacing | send, retry, redirect, stop | retries of two kinds with one counter, state kept between requests |
| Collectors and adapters (`collectors/`, `adapters/`) | none, but the Teams reader has a worker thread | read endpoints or commands | a late answer of the worker thread |
| Finalization (`finalize.py`, `bundle_integrity.py`, `evidence_db.py`) | the finished bundle and its hashes | write, index, hash, verify, finalize again | a stop between the manifest and the hashes |
| Guarded files (`guarded_io.py`, `private_io.py`) | pinned descriptors, bound private inputs | admit, read twice, replace | a file replaced between two passes |
| Response plane (`response.py`) | a run folder of its own, reused by name | plan, execute with fallbacks | artifacts of an earlier response |
| Auth contexts (`auditex/auth_runtime.py`) | token files and one JSON store | import, list, resolve | two commands at once |
| Gate and waivers (`auditex/gate.py`, `waivers.py`) | none; verdicts over runs | gate, drift | acceptance that lapses between runs |
| Notifications (`auditex/notify.py`) | tickets in Jira and GitHub | search, create | search and create are two calls |
| Google Workspace (`auditex/google_workspace`) | a run folder | preflight, collect, publish | cut lists |
| Rules, reports, explorer, explainer, redaction, imports, model tools | none | pure functions of a bundle | - |

The parts meet in the run folder and in a few calls: `run_live` drives
`CollectorRunner`, which calls a collector, which reads lists through
`GraphClient`; all of them write through `AuditWriter`, which writes through the
guarded files. `finalize_bundle_contract` runs last. `PROJECT.json` lists every
part with its files and status, and, under `hazards`, each place where the code
is exposed to something that a unit test would hardly reach.

What makes each part correct:

* **Live run.** A headline or an exit code that says complete is never said over
  a gap, whichever sessions led to it; finished work is not lost or read again;
  every selected collector is accounted for; blockers are those of the run as it
  is now.
* **List reading.** A read that is not marked as cut holds the whole remote
  list; a withheld section leaves no rows; every list ends, loops included.
* **Graph transport.** Retries are bounded, a stopped family is not called.
* **Finalization.** A bundle verifies exactly when it is the one finalized; a
  recorded tenant conflict is never lost.
* **Response plane.** Nothing is executed unless every guard holds, what was
  executed stays on record, and the gate takes only a response that ran for one.
* **Notifications.** No ticket is made beside one that the tracker shows, and
  what a notification reports is a ticket of that tenant and path.
* **Gate.** A finding is resolved only when it is gone; a pair of runs that
  passes hides nothing the gate would fail; days alone heal nothing.

## 2. Modules

| Module | Models | Theorems | TLC |
|---|---|---|---|
| `LiveRun` | `run_live` over one run folder | `LiveRunProofs` | `MCLiveRun` |
| `RunPromise` | abstract: what a run folder promises its operator | | |
| `ListRead` | one paged list, the read a collector is made of | `ListReadProofs` | `MCListRead` |
| `GraphRequest` | one `GraphClient` over its calls | `GraphRequestProofs` | `MCGraphRequest` |
| `ResponsePlane` | `run_response` over a folder it reuses | `ResponsePlaneProofs` | `MCResponsePlane` |
| `Finalize` | `finalize_bundle_contract` and the readers of its result | `FinalizeProofs` | `MCFinalize` |
| `BundlePromise` | abstract: what a folder promises whoever gates it | | |
| `DriftGate` | the verdicts of the gate over runs, as days pass | `DriftGateProofs` | `MCDriftGate` |
| `Notify` | the tickets of runs in Jira and GitHub | `NotifyProofs` | `MCNotify` |

They meet where the code does: `ListRead` is the inside of a `FinishRead` of
`LiveRun`, `GraphRequest` that of a `Serve` or `RequestFails` of `ListRead`, and
`Finalize` that of the last steps of a session, whose evidence it takes in any
version. `DriftGate` takes runs that the checks in `Finalize` let through.

### LiveRun and the code

| LiveRun | Code |
|---|---|
| `ckpt` | `checkpoints/checkpoint-state.json`: status and window per collector |
| `raw`, `chunks` | `raw/<collector>.json`; the files in `chunks/<collector>/`, as the window they were last read over |
| `index`, `covFile`, `cov` | `index/coverage.jsonl`; `coverage.json`; `AuditWriter.coverage` |
| `sumFile`, `sum` | the collector rows of `summary.json`; `AuditWriter.summary` |
| `blockers`, `report`, `manifest` | `blockers/blockers.json`; the evidence behind the normalized sections and findings; `run-manifest.json` |
| `win`, `selected`, `carried`, `known` | `--since`/`--until`, the selection, `_resume_carried_collectors`, the checkpointed collectors |
| `todo`, `toSkip`, `cur`, `out` | the collector loop |
| `results`, `flagged` | `result_rows`; the collectors of the normalization diagnostics |
| `torn` | history: collectors whose read was cut off and not completed since |

`Start` seeds the writer from the folder and decides what is carried.
`Preflight` and `SkipBlocked` are the preflight and the checkpoint rows of what
it blocked. `CarryForward`, or `BeginRead`, `WriteChunk`, `FinishRead`,
`WriteIndex`, `WriteRaw`, `WriteMark` and `StampWindow`, are one turn of the
loop, split at every write that reaches the disk, because a stop may fall
between any two. `CloseLoop` to `WriteManifest` are the end of the session.
`Stop` is a kill, an interrupt or an early return; `LoseRaw` is a payload
deleted between sessions.

A collector's answer is one of three outcomes: whole, partial, or an exception.
Rows keep their collector, a key (`read`, or `gap` for a row only an incomplete
read writes) and whether they are ok. Payloads keep whether they are whole and
the window they were read over.

### ListRead and the code

One behaviour is one turn of the loop of `run_graph_endpoints`: one section of a
collector, from its first request to its coverage row.

| ListRead | Code |
|---|---|
| `ask` | the endpoint spec and the options: the branch taken (`mode`), `--top`, `sample_limit`, `max_rows`, `max_empty_pages`, `max_pages`, `sampling()` |
| `link`, `visited` | `page_url` and `visited` of `iter_pages` |
| `page` | the payload of the last answer: rows, how many of them are no objects (`strays`), form of `value`, next link |
| `got`, `empties`, `cut`, `reason` | rows kept, `empty_pages`, `collection_truncated`, `truncation_reason` |
| `class` | `error_class` of the exception that left the page loop |
| `files`, `listed` | chunk files on disk; `chunk_files` of the accumulator |
| `row` | the coverage row |
| `served` | history: rows the service sent, as `RowCount` counts them |

`Serve` is an answered request; the service chooses the page when it is asked.
`RequestFails` is one that fails for good (the retries are inside it), `Refuse`
a next link outside Graph, `StopLoop` a repeated link or a spent page budget.
`KeepBounded` is the body of `_bounded_pages` (with a chunk file in `chunks`
mode, without one in `bounded` mode), `KeepItems` of `iter_items` with its probe row,
`KeepStrict` of `_validated_collection`, `KeepSingle` a read that is not paged,
`Reject` their malformed answers. `TearChunk` is a chunk file that fails while it
is written, `Discard` and `DiscardFails` the removal of a withheld section's
chunks, `Close` the coverage row. `RowCount` is what a page counts for: the
bounded branches drop what is no object before they look at any limit, so such a
row is no row of the list to them; the other branches take every row.

In `LiveRun` a whole section, and a collector of them, is one `FinishRead` with
an outcome. `ListRead` says what the outcomes stand for: a section is whole when
its row is `Clean`, and partial when the row is a gap or failed.

### GraphRequest and the code

| GraphRequest | Code |
|---|---|
| `policy` | `THROTTLE_POLICIES`: retries of a rate limit, of a server error, refusals before a stop |
| `token`, `claims`, `resources` | `_token`, `_token_claims`, `_resource_tokens` |
| `failures` | `_permission_failures` by endpoint family |
| `attempt`, `hops`, `answer` | the locals of `_request` and `_follow_redirects` |
| `wire`, `refusals` | history: requests of the call, refusals in a row |

`Call` is a read asked of the client, `EnsureToken` its token, `CheckStop` the
permission stop at the head of every attempt. `Send` and `Hop` put a request on
the wire and take any answer; `KeepRedirect` and `RefuseRedirect` are the
redirects that are not followed. `Judge` notes a refusal or clears it, and sends
again or ends. `ReadClaims` and `AppTokenFor` fill the other caches of the client.

### ResponsePlane and the code

| ResponsePlane | Code |
|---|---|
| `req` | the options of the command line, by what the guards tell apart |
| `blocks` | `blockers` of `run_response` |
| `k`, `outcome` | the variant at hand and the status of its answer |
| `index`, `raw`, `desc` | `index/coverage.jsonl`, `raw/response/`, `normalized/response.json` |
| `blockers`, `findings`, `report`, `count` | the files of the same name and `findings_count` of the writer |
| `ledger` | `normalized/coverage_ledger.json`, the one row the gate takes for coverage |
| `manifest` | `run-manifest.json`, with the verdict of the contract as one Boolean |
| `sealed` | `bundle-hashes.json` is of the folder as it is |
| `ran`, `accepted`, `cut` | history: commands started, accepted, and stopped before their row |

`Begin` takes over the manifest that is there and evaluates the guards. `Plan`
is the dry run; `Try`, `RecordRow` and `Keep` one turn of the loop over variants;
`Describe` to `WriteHashes` the files of the end, in their order; `Stop` falls
between any two. Every file keeps the response that wrote it, so a property can
say which of them belong together. `GateAccepts` is `_verified_run` and
`_require_coverage`: the contract, the hashes, the findings (`FindingsAgree`) and
the coverage (`Covered`). What the contract says of the content of the files is
either verdict, chosen when the manifest is written.

### Finalize and the code

| Finalize | Code |
|---|---|
| `evidence` | raw and normalized files: a version, the tenants seen in them, the content checks of the contract as one Boolean |
| `report`, `summary`, `manifest`, `index`, `context`, `validation`, `hashes` | the files of the bundle, with the version and the tenant identity each was written from |
| `extra` | files nobody finalized: an SQLite sidecar, a stray file, a link |
| `mem`, `pass` | the writer's manifest; first, second or unfinalized `write_bundle` |
| `named`, `owner` | history: tenants a manifest was verified for; the tenant of accepted bundles |

`Open`, which writes the inherited manifest out again (`run_live` does so for
the inputs of the operator), to `WriteReportPack` are the session up to its findings,
`ResolveIdentity` to `Seal` `finalize_bundle_contract` write by write, with the
index emptied (`StartIndex`) and copied (`FinishIndex`) in place. `Abort` is the
bundle of a run whose preflight leaves nothing to do. `Identity` is
`resolve_tenant_identity` with the comparison to the manifest that was there.
`Integrity` is `verify_bundle_hashes`, `Valid` the contract. `GateAccepts` is
these two of the checks of the gate: a folder that says it is older than hashes
passes the second with a warning, and the findings and the coverage, looked at
afterwards, may still turn a folder down (`ResponsePlane` has them).
`BundlePromise` is refined through `Accepted`, what the gate makes of the folder.

### DriftGate and the code

`runs` are the finished runs of a tenant and `day` the date a gate reads. Of a
run the model keeps what the tenant really had (`depth`, the largest rule
parameter that still sees it), the parameter used and the one recorded, whether
the rule's inputs were read, the coverage of each collector, and the row of each
finding with the waiver it was accepted on. `NewRun` is a run of today,
`CloseByHand` a status written by an operator, `NextDay` a day. The gates are
operators: `Gate` is `gate_findings`; `Drift` is `gate_drift` with `Resolved`,
`NewOpen`, `Reactivated` and `Stale`; `Reassessed` and `SameOrStricter` are
`reassessment_gap` and `rule_parameter_gap`; `Best` and `Apply` are the waivers.

### Notify and the code

Every sender is one `auditex notify`: `Prepare` up to the search, `SearchFails`,
`SearchMisses` and `SearchHits` the search, `Comment` and `Post` the second call,
`Timeout` the end of waiting. The trackers answer on their own: `Accept` makes a
ticket, `Drop` refuses or loses a call, `List` lets the search show a ticket.
`posts` are calls on their way, so a call can arrive after its sender gave up,
and a ticket can be made by a call that is answered with an error. A job is a run
of a tenant, with its path as the operator wrote it. `Fingerprint` is
`_run_fingerprint`, of the tenant and of the path as written and so not of the
run; `Mark` is what of it a ticket carries.

## 3. Runs

| Run | Asks |
|---|---|
| `live_window` | Is evidence under an ok headline whole and of the window the manifest names? One collector of events, four sessions, two windows. |
| `live_pair` | Do headline, exit code, summary and blockers agree with the checkpoints, in both directions, does finished work stay, and does the run implement `RunPromise`? A required collector of events and an optional plain one, two sessions. |
| `list_honest` | Is what the coverage row says of a list true of the rows kept, and does every read end? Every mode, limit, ceiling and budget, with failures, loops, foreign links and malformed answers on any page. |
| `graph_calls` | Are the requests of a call and the refusals of a family bounded, is a stop earned, does every call end? The three policies of the code, two families, three calls. |
| `response_folder` | Is only what is guarded run, once, and on record, and does the gate accept a response that ran and nothing else? Every request, two variants, two responses over one folder, stops anywhere. |
| `finalize_folder` | Is a folder that verifies one coherent bundle, of the tenant it always was, and does the gate keep `BundlePromise`? Three sessions, two tenants, stops between any two files, lost hashes, planted files. |
| `drift_pair` | Are a resolved finding fixed and a passed pair of runs a passed run, is a run that passes failed by drift only for a named reason, and does a verdict outlive the days? One finding of any kind of rule, two runs, two days. |
| `notify_trackers` | Is no ticket made beside a visible one of its run, and is every report as true as a fingerprint can make it? Three processes, two tenants, one with a long name, two runs each, two spellings of the folder. |
| `resume_reads_incomplete_as_complete`, `list_cut_in_silence`, `lapse_unreported`, `runs_share_fingerprint` | Is what a document or a comment says true of the code? It is not: see below. |

Bounds. `MaxSessions` counts sessions of one folder. Two are enough for every
hazard that an earlier session causes a later one; `live_window` takes four,
because a torn read under another window needs one session to finish a
collector, one to tear it, one to read it again and one to publish. Two
collectors are enough for the selection hazards: one in the session and one
outside it. Two windows are enough to be the same or another. Deadlock is not
checked: after the last session the model stops.

`list_honest` has three URLs, pages of zero to two rows, and limits, ceilings and
budgets of one to three. A limit then falls before, on and after the end of a
page and of the list, a page can be empty twice in a row, a link can go back to
either of the earlier pages, and `StrictMaxPages` of two is passed by the third
page. Every property speaks of one section, so no more pages or rows give a new
case: the proofs hold for any number. A closed read has no next step, so deadlock
is not checked.

Fairness. For `ListRead`, `FairSpec` is weak fairness of `Next`: `run_graph_endpoints` is
sequential and each request ends with an answer or at its timeout. Nothing is
assumed of the answers. `ReadEnds` holds over a finite set of URLs: a service
that invents a new link for every page without end is stopped only by
`max_pages` and `max_empty_pages`, where they are set.

`graph_calls` keeps the policies of `THROTTLE_POLICIES` and `_MAX_REDIRECTS`
as they are; three calls are enough for a family to be refused up to its stop,
be answered and be asked once more. `WF_vars(Step)` is justified because
`_request` is sequential, every request has a timeout and every wait a length;
nothing is assumed of new calls or of the answers.

`response_folder` has two responses because what a response finds in the folder
is what an earlier one left, and two variants because the loop distinguishes the
last from the others; one check stands for the guards that look at one option
each. `finalize_folder` has three sessions: one to name a tenant, one to meet
another, one that must not forget it. Two tenants are exchangeable, no property
or action names one, so symmetry is sound; the same holds of the senders, the
runs and the spellings of `notify_trackers`. At most one planted file is there at
a time. `drift_pair` has two runs because the drift gate reads two, two days
because a waiver either stands or has expired, and windows 1 and 2 because one is
stricter than the other. Three senders are enough for one to find what a second
made while a third is on its way; two runs and two spellings for one run written
in two ways and two runs written in one. None of these, nor the runs of
`LiveRun`, has fairness: their properties are about what may never happen. All of
them stop when their bounded supply of calls, sessions, responses or runs is used
up, so deadlock is not checked.

Each property has a mutant in `PROJECT.json`: a version of one definition with a
plausible mistake, kept beside the original, under which TLC reports the
property violated.

### Disagreements found

Four runs check what a comment or the documentation says, taken literally, and
TLC refutes it by a behaviour of the code. Each is a finding in `PROJECT.json`
with the lines on both sides.

* `CompleteMeansWhole`: a re-read replaces the raw payload while the earlier
  `ok` checkpoint stands, so a stop leaves a complete collector with part of its
  evidence.
* `NeverSilent`: rows cut by `max_rows` below the row limit, on the page that
  fills the limit, leave an ok row that is no gap.
* `LapsedIsReported`: a baseline whose waiver has expired counts as open, so a
  finding that it accepted and that the later run has open passes as persisting.
* `RunsAreApart`: two runs of one tenant whose paths are written the same way
  have one fingerprint, so the second is reported as deduplicated or commented on
  and has no ticket.

Others were met while modelling and follow from the models, without a run:

* a stop between the two checkpoint writes of a collector leaves `ok` without a
  window, which a session without a window carries (`cli.py:448`, `cli.py:833`);
* a dropped coverage row comes back from the append-only index (`cli.py:806`);
* a stale summary row stays next to a finished collector;
* a collector that the preflight blocks, and whose coverage rows are all ok ones of
  an earlier session, raises no blocker, against the comment that it does
  (`diagnostics.py:45`, `diagnostics.py:87`);
* the gap of a session that was killed before its summary is in no row
  (`collector_runner.py:209`);
* a page that ends on the probe row is followed by a request for the next page,
  and if that fails the read fails (`graph.py:748`);
* a run notified from a folder spelled another way, or of a tenant whose long
  name cuts the title of the GitHub issue, gets a second ticket
  (`notify.py:439`).

`EvidenceHonest` is what does hold of the evidence: the first two of LiveRun are
excluded by `torn`, and by nothing else. `CleanIsWhole` is what does hold of
`NeverSilent`: everywhere but where `max_rows` is below the row limit; and, the
other way, a list that was read to its last row has an ok row without a mark.
`DriftSuffices` and `GateNeverHeals` are what holds of the gate over time, and
`NoneBeside` names the two cases of a second ticket. `ToldIsThere` says what is
true of a report in spite of `RunsAreApart`: the ticket is of that tracker, that
tenant and that path.

Most of the invariants say both directions of what they relate, so that neither a
missing nor a spurious verdict satisfies them: `HeadlineHonest` and `ExitHonest`
that `partial` and 1 are for a collector with work left (`Outstanding`),
`GateReadsOne` exactly which response folders the gate accepts, `VerifiedIsCoherent`
which folders the contract and the hashes let through,
`StopIsEarned` that between calls the client's count is what really happened,
`ToldIsThere` that no ticket is made in silence, and `DriftSuffices` for which
reasons drift fails a run that the gate passes.

## 4. Proofs

Every safety property of a passing run is a theorem of its specification, for
every value of the constants. None of the invariants is inductive as stated, so
each proof module defines the strengthening `IInv`, one named part per fact, each
part with its lemma (`...Next`, one step per action that can disturb it), and
derives its theorems from `Spec => []IInv`.

The assumptions are the `ASSUME`s of the modules, which TLC evaluates on every
run: bounds are numbers, sentinels are not values of what they stand beside, the
registry of collectors and the set of URLs are finite. `RegistryOk` of `LiveRun`
(the registry is finite) is used by the theorem on progress and not by the
invariants.

### LiveRunProofs

`TypeCorrect`, `HeadlineIsHonest`, `ExitIsHonest`, `EvidenceIsHonest`,
`SummaryIsComplete`, `BlockersAreCurrent`, the action property `FinishedIsFinal`
and the refinement `PromiseIsImplemented` (`Spec => Promise!Spec`, step by step).

The headline is written from what the session remembers (`results`, `carried`,
`known`), so the proof has to know that memory agrees with the disk. The plan
holds what the checkpoints said at the start (`PlanHolds`); while a collector is
read the rows and payload written so far are those of its outcome (`ReadHolds`);
a result is the status of its checkpoint (`ResultsHold`); an incomplete
checkpoint is known, read in this session, or skipped by it (`GapsKnown`);
the other way, a known checkpoint that is neither selected nor carried, and a
collector flagged by the normalization, have work left (`GapsReal`); an ok checkpoint that was never
torn stands on a whole payload of its window (`MarksTruthful`); a finished
collector is not being read (`FinishedRests`); the published files keep what they
were written from (`PublishHolds`); and a partial read keeps a failed row in
memory until the blockers are taken from the rows, while the evidence of a
finished collector is of one window and cannot be flagged (`BlockersHold`).

### ListReadProofs

`ListTypeCorrect`, `CleanReadIsWhole`, `WithheldLeavesNothing`, `LimitsAreKept`
and `SamplesAreFull`.

A coverage row is computed at the end from counters, so the strengthening relates
the counters to the pages during the read: while pages are read nothing has
failed or been cut and every bound has room left (`ReadHolds`); the rows kept are
those served but for the page at hand, within the bounds and the probe row
(`RowsHold`, `TakenHolds`); the accumulator lists the chunk files of what will be
withheld (`ChunksHold`); a failed read stopped before a page it has not kept
(`FailedHolds`); a read that ended by itself knows whether rows or pages are
missing (`EndHolds`); and the row is the one of that end (`RowHolds`).

### GraphRequestProofs

`TypeCorrect`, `CallsAreBounded`, `StopsAreEarned`, `RefusalsAreBounded`, and `StopIsFinal`: no step asks a stopped family again or
changes its count.

The invariant counts the requests of the attempts that are over and of the one in
progress (`Spent`), a product of attempts and hops; relates the client's failures
to the refusals that really happened, but for the answer at hand
(`FailuresMatch`); and says that a family being asked is not stopped
(`AskedIsOpen`), from which the bound on refusals follows.

### ResponsePlaneProofs

`TypeCorrect`, `CommandsAreGuarded`, `OneIsAccepted`, `RowsArePermanent`,
`DescriptionsAreFresh` and `GateSeesOneResponse`.

A response that tries commands has no blocker (`PassedHolds`, `RanHolds`); the
variants behind the one at hand have their rows and were not accepted
(`TriedHolds`); after the loop a response without blockers that executes is one
that had a command accepted (`EndHolds`); blockers have their findings before
the report is written (`BlockedHolds`); the files that are written are this
response's, and a findings file is never empty (`WrittenHolds`); the count that
the writer carries from one response to the next is of the findings file that is
there (`CountHolds`); a sealed folder is as its last response left it
(`SealedHolds`). These give `GateReadsOne`. A folder whose findings are of another
response than its manifest has a report without findings, which the gate does not
accept beside a findings file; one whose findings are of its own response is
partial; and without findings the ledger says complete exactly where a command was
accepted. `RowsOutliveStops` is inductive beside `PassedHolds` as it stands: the
one command without a row is the one at hand, or one that `cut` has.

### FinalizeProofs

`TypeCorrect`, `VerifiedIsOne`, `TenantIsKept`, `LossIsSeen`, `ConflictIsKept` and
`PromiseIsImplemented`.

The invariant says where each pass can be (`PassHolds`) and that each file follows
the ones it is written from, in the first pass (`WrittenHolds`) and in the second
(`SecondHolds`), so that what is sealed is coherent (`SealedHolds`). The contract
is judged between the two passes and has to hold of what the second one writes:
`ContractHolds` says that in the second pass the verdict is `valid` exactly when
the evidence and the writer's identity fulfil it (`Fulfilled`). The writer's identity is the folder's or follows
from it (`MemHolds`), and an identity that follows another keeps its conflicts and
its tenant; a named tenant is the manifest's, or the manifest has a conflict
(`NamedHolds`); the owner was named and owns every set of files that the gate
would accept (`OwnerHolds`), from which the refinement of `BundlePromise` follows.
The gate accepts a folder older than hashes too, but no session leaves one with a
contract it could accept (`NamedHolds`, `AcceptedIsVerified`).

### DriftGateProofs and NotifyProofs

`DriftGateProofs` proves `TypeCorrect`, `ResolvedIsReal`, `DriftIsEnough` and
`TimeDoesNotHeal`. The invariant says that a finding is missing from a run only
where the tenant shows none by the parameter used, or the rule was not judged
(`RunsHold`), and that an accepted row has its waiver (in `TypeOK`).

`NotifyProofs` proves `TypeCorrect`, `TicketsAreApart` and `ReportsAreTrue`. The
invariant follows a process: who creates a ticket was shown none that matches
(`CreatorsMissed`), what a search found is a ticket that matches (`FoundMatches`),
an answered call made its ticket (`SentIsMade`), and who has a ticket or a call on
its way is waiting or has said so (`CallsAreTold`). Two tickets that match are of one
tenant and were written the same way (`MatchIsWrittenSame`), which is all that a
fingerprint tells, and all that `ToldIsThere` promises.

### Progress

`ReadEnds` and `CallEnds` are liveness properties under weak fairness, which the
prover cannot reach, and TLC checks them. What makes them true are facts of states
and steps, and these are proved for every instance.

* A measure falls. `SessionDraws`: each step of a session lowers a natural number
  that is at most eleven for each collector of the registry, and seven.
  `ReadDraws`: each step of a list read lowers four for each URL not asked for
  yet, one for each chunk file, and the steps of its end, so a loop of links is no
  exception (`ProgressHolds` joins the invariant: the chunk files are finitely
  many). `ResponseDraws`: the same of a response, three for each command left.
  `CallDraws`: each step of a call ends it, goes on to one of the attempts that
  the policy allows, or lowers the steps left of this one.
* Nothing waits. `ReadNeverStuck`: in every state of a read before it is closed one
  of its steps has its guard true, which needs that a finite set of chunk numbers
  has a least one. The guards are written out in `StepOpen`, because the prover does not
  expand `ENABLED`; that they are the guards of the actions is seen by comparing,
  and by TLC's check of the liveness properties.

### The scope of the findings

A finding refutes a documented rule; these theorems say how far the rule does hold.

* `CompleteUnlessTorn`: `CompleteMeansWhole` holds of every behaviour in which no
  stop falls inside a read, over any sessions, windows and lost payloads.
* `NeverSilentUnderCeilings`: `NeverSilent` holds wherever no ask has a row limit
  above its `max_rows`.
* `OneTicketInOrder`: "must not create a second Jira issue" (`notify.py`) holds of
  a run written the same way, of notifications that come one after the other and
  whose searches show every ticket, whichever calls time out, arrive late or are
  lost.

### What is only model-checked

`ReadEnds` and `CallEnds`, because liveness under fairness and
`ENABLED` are outside the prover's reach; the theorems above are the safety half of
them. Induction over data is out of reach too: the library states it with an
operator parameter. Nothing here rests on it. The models count and take sets where
the code folds over lists; the products and cardinalities that appear are moved one
step at a time, and the least chunk number comes from the well-founded order of
strict subsets.

## 5. Not modelled

* In `LiveRun`: a session without `--resume-from` over an existing folder; the
  diagnostics of a refused token, which only add files; logs. `write_bundle` is
  called more than once at the end of a session; the model writes its three
  files once, in its order, and every prefix of that order is a state. The order
  of collectors is any order in which DNS follows Exchange, which includes the
  code's. No Microsoft 365 collector returns `skipped`, so that branch of the
  carry rule has no action.
* In `ListRead`: next links that are neither strings nor null; `chunk_reader`
  sections; test clients without `iter_pages`; how `$top` and the page size are
  put into the query; a stop inside the read (`LiveRun` has it). Rows that are no
  objects are counted (`strays`), what becomes of one that is kept is not followed.
* In `GraphRequest`: `get_batch`, which matches the answers of a batch to its
  requests; pacing and backoff, which only pass time; the headers of a hop (the
  token goes to Graph hosts only, by one guard on the host of the hop alone);
  `iter_pages`, which is in `ListRead`.
* In `ResponsePlane`: the matrix, readiness and summary files, which nobody reads
  back; what the contract looks at in the content of each file; the gate's
  `--allow-partial`; the values inside commands; the adapters' processes.
* In `Finalize`: bundles from before hash manifests existed, Google's platform
  identity, domains, the ledgers that are written once before the manifest, logs,
  and the content checks of the contract, which are one Boolean. Of the gate it has
  the contract and the hashes; its findings and coverage checks are in
  `ResponsePlane`, and `DriftGate` takes runs that passed them all.
* In `DriftGate`: the tenant guard and pinned digests, `compare` and `diffing`,
  which only report, gaps of single sections, and rules limited by a licence.
  `google_reassessment_gap` is folded into the inputs of a rule (a Google finding
  whose section was cut counts as one whose inputs were not read); rules over a
  window of events are no kind of rule here, so of the windows only a rule's
  parameter of days is followed; a finding without `rule_id` (`compare.py:452`),
  which is judged by its collector alone, has no row.
* In `Notify`: webhooks and SMTP, one call each with nothing kept; the text of
  the payload and its redaction.
* The Teams reader's token thread only fills a cell that its caller reads after a
  deadline; the store of auth contexts is read, changed and written back by each
  command without a lock, and the last writer wins. Neither needs a model to see.
* The guarded files protect against another writer of the file system; the
  models take one write to be one step.
* The attack graph is a bounded path search over large graphs: a pure algorithm
  whose difficulty is its cost.
* Rules, reports, the explorer, the explainer, redaction and imports are
  functions of data with no steps; their size is in wording and tables, and they
  are most of the repository's lines.
* I/O itself (SQLite, HTTP, DNS, PowerShell) is a nondeterministic outcome.

## 6. Plan

Done: `LiveRun` with `RunPromise`, `ListRead`, `GraphRequest`, `ResponsePlane`,
`Finalize` with `BundlePromise`, `DriftGate` and `Notify`. Left, the most
important first:

1. `ListRead` over `GraphRequest` as one composition, and `ListRead` as the
   refinement of the outcomes `LiveRun` takes from a collector.
2. `OperatorInputs` and `GuardedWrite`, with a second writer.
