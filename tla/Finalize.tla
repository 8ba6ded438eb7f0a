------------------------------ MODULE Finalize ------------------------------
(***************************************************************************)
(* finalize_bundle_contract of finalize.py and what reads its result.      *)
(*                                                                         *)
(* A session changes the evidence of a run folder and writes the bundle    *)
(* over it: the report, the summary and the manifest, twice; the SQLite    *)
(* index, twice; the AI context, the contract validation, and last the     *)
(* hash manifest.  It may be stopped between any two files and within the  *)
(* index, which is written in place; a later session starts from whatever  *)
(* is there.  Between sessions files are lost or put into the folder.      *)
(*                                                                         *)
(* The gate then says whether the folder can be read as a run.  The        *)
(* ledgers that are written once before the manifest (data handling,       *)
(* readiness, audit plan, API inventory) and append-only logs, which are   *)
(* not hashed, are left out.                                               *)
(***************************************************************************)
EXTENDS Naturals, FiniteSets

CONSTANTS
    Tenants,
    None,           \* no tenant, and no bundle
    Soundness,      \* outcomes of the contract checks on evidence: TRUE, FALSE
    MaxSessions     \* bound on the sessions of a folder

ASSUME FinalizeConstantsOk ==
    /\ None \notin Tenants
    /\ None \notin [ver : Nat, tenant : Tenants \cup {None}]
    /\ Soundness \subseteq BOOLEAN
    /\ MaxSessions \in Nat

VARIABLES
    (* The folder.  ver is the evidence a file was written from, 0 for none. *)
    evidence,   \* raw and normalized: [ver, seen, sound], seen the tenants observed in them
    report,     \* report-pack.json: [ver, ident, cited]
    summary,    \* summary.json: [ver, ident]
    manifest,   \* run-manifest.json: [ver, ident, contract, lists]
    index,      \* evidence.sqlite: [state, ver, ident, contract]
    context,    \* ai_context.json: [ver, ident]
    validation, \* validation.json: absent, valid or invalid
    hashes,     \* bundle-hashes.json: NoHashes, or the files it lists
    extra,      \* files nobody finalized: sidecar, stray, link
    (* The session. *)
    pc, pass, sessions, requested,
    mem,        \* the writer's manifest: [ident, contract, lists]
    (* History. *)
    named,      \* tenants a manifest was verified for
    owner       \* the tenant of the bundles that were accepted

bundle  == <<report, summary, manifest, index, context, validation>>
history == <<named, owner>>
vars    == <<evidence, bundle, hashes, extra, pc, pass, sessions, requested, mem, history>>

-----------------------------------------------------------------------------
If(condition, x) == IF condition THEN {x} ELSE {}

Codes == {"observed_disagree", "requested_mismatch", "existing_mismatch", "existing_missing"}

Identities ==
    [status : {"none", "unknown", "verified", "conflict"}, tenant : Tenants \cup {None},
     requested : Tenants \cup {None}, seen : SUBSET Tenants,
     conflicts : SUBSET (Codes \X (Tenants \cup {None}))]

NoIdentity ==
    [status |-> "none", tenant |-> None, requested |-> None, seen |-> {}, conflicts |-> {}]

NoDoc      == [ver |-> 0, ident |-> NoIdentity]
NoReport   == [ver |-> 0, ident |-> NoIdentity, cited |-> FALSE]
NoManifest == [ver |-> 0, ident |-> NoIdentity, contract |-> "none", lists |-> FALSE]
NoIndex    == [state |-> "absent", ver |-> 0, ident |-> NoIdentity, contract |-> "none"]
NoMem      == [ident |-> NoIdentity, contract |-> "none", lists |-> FALSE]
NoHashes   == [files |-> {}, listed |-> {}]

\* What the hash manifest covers.
Files == <<evidence, report, summary, manifest, index, context, validation>>

Init ==
    /\ evidence = [ver |-> 0, seen |-> {}, sound |-> TRUE]
    /\ report = NoReport /\ summary = NoDoc /\ context = NoDoc
    /\ manifest = NoManifest /\ index = NoIndex
    /\ validation = "absent"
    /\ hashes = NoHashes
    /\ extra = {}
    /\ pc = "idle" /\ pass = 0 /\ sessions = 0
    /\ requested = None
    /\ mem = NoMem
    /\ named = {} /\ owner = None

-----------------------------------------------------------------------------
(* Which tenant the evidence is of.                                        *)

\* resolve_tenant_identity: the observations among themselves and with the request.
Observed(seen, r) ==
    If(Cardinality(seen) > 1, <<"observed_disagree", None>>)
        \cup If(r # None /\ seen \notin {{}, {r}}, <<"requested_mismatch", r>>)

\* Mutant: the manifest that was there is not compared.
Against_NotCompared(previous, seen) ==
    IF previous.status = "conflict" THEN previous.conflicts ELSE {}

\* Mutant: conflicts of the manifest that was there are dropped.
Against_Forgotten(previous, seen) ==
    If(previous.tenant # None /\ seen \notin {{}, {previous.tenant}},
       <<"existing_mismatch", previous.tenant>>)
        \cup If(previous.status = "verified" /\ seen = {}, <<"existing_missing", previous.tenant>>)

\* finalize_bundle_contract: the observations with the manifest that was there.
Against(previous, seen) ==
    If(previous.tenant # None /\ seen \notin {{}, {previous.tenant}},
       <<"existing_mismatch", previous.tenant>>)
        \cup If(previous.status = "verified" /\ seen = {}, <<"existing_missing", previous.tenant>>)
        \cup (IF previous.status = "conflict" THEN previous.conflicts ELSE {})

Identity(previous, seen, r) ==
    LET conflicts == Observed(seen, r) \cup Against(previous, seen)
        one       == conflicts = {} /\ Cardinality(seen) = 1
    IN [status    |-> IF conflicts # {} THEN "conflict" ELSE IF one THEN "verified" ELSE "unknown",
        tenant    |-> IF one THEN CHOOSE t \in seen : TRUE ELSE None,
        requested |-> r,
        seen      |-> seen,
        conflicts |-> conflicts]

-----------------------------------------------------------------------------
(* What reads a folder.                                                    *)

\* Mutant: the hashes of listed files are not recomputed.
Integrity_Listed ==
    IF hashes = NoHashes
    THEN IF manifest.lists THEN "invalid" ELSE IF "link" \in extra THEN "mismatch" ELSE "absent"
    ELSE IF extra # hashes.listed THEN "mismatch" ELSE "verified"

\* verify_bundle_hashes.
Integrity ==
    IF hashes = NoHashes
    THEN IF manifest.lists THEN "invalid" ELSE IF "link" \in extra THEN "mismatch" ELSE "absent"
    ELSE IF hashes.files # {Files} \/ extra # hashes.listed THEN "mismatch" ELSE "verified"

\* reconcile_tenant_identity over the five surfaces that name a tenant.
IdentityHolds(ident) ==
    /\ {report.ident, summary.ident, manifest.ident, index.ident} = {ident}
    /\ ident.status \in {"verified", "unknown"}
    /\ ident.seen = evidence.seen
    /\ Observed(evidence.seen, ident.requested) = {}

\* build_validation_report.
Valid ==
    /\ 0 \notin {report.ver, summary.ver, manifest.ver, context.ver}
    /\ index.state = "whole"
    /\ evidence.sound
    /\ IdentityHolds(context.ident)

\* _verify_contract and _verify_integrity, which only warns of a folder older than hashes.  The
\* gate's checks of findings and of coverage come after them and turn more folders down.
GateAccepts ==
    /\ manifest.contract = "valid" /\ validation = "valid"
    /\ Valid
    /\ Integrity \in {"verified", "absent"}

Accepted == IF GateAccepts THEN [ver |-> manifest.ver, tenant |-> manifest.ident.tenant] ELSE None

-----------------------------------------------------------------------------
\* The process is gone, and its locals with it.
Over == pc' = "idle" /\ pass' = 0 /\ requested' = None /\ mem' = NoMem

\* Mutant: the writer starts a manifest of its own.
Inherited_Fresh == NoMem

\* AuditWriter starts from the manifest of the folder.
Inherited == [ident |-> manifest.ident, contract |-> manifest.contract, lists |-> manifest.lists]

\* run_live writes the manifest it inherits, with its operator inputs, before it collects.
Open(r) ==
    /\ pc = "idle" /\ sessions < MaxSessions
    /\ sessions' = sessions + 1
    /\ requested' = r
    /\ mem' = Inherited
    /\ manifest' = [manifest EXCEPT !.ver = 0]
    /\ pc' = "collect"
    /\ UNCHANGED <<evidence, report, summary, index, context, validation, hashes, extra, pass, history>>

\* The collectors: some evidence is read, or all of it carried.
Collect ==
    /\ pc = "collect"
    /\ \/ \E seen \in SUBSET Tenants, sound \in Soundness :
            evidence' = [ver |-> sessions, seen |-> seen, sound |-> sound]
       \/ evidence.ver > 0 /\ UNCHANGED evidence
    /\ pc' = "pack"
    /\ UNCHANGED <<bundle, hashes, extra, pass, sessions, requested, mem, history>>

\* A preflight that leaves nothing to run: the bundle is written once and not finalized.
Abort ==
    /\ pc = "collect"
    /\ pc' = "report" /\ pass' = 0
    /\ UNCHANGED <<evidence, bundle, hashes, extra, sessions, requested, mem, history>>

\* write_provider_bundle: the report of the findings.
WriteReportPack ==
    /\ pc = "pack"
    /\ report' = [NoReport EXCEPT !.ver = evidence.ver]
    /\ pc' = "identity"
    /\ UNCHANGED <<evidence, summary, manifest, index, context, validation, hashes, extra, pass,
                   sessions, requested, mem, history>>

\* The hash manifest is listed before there is one.
ResolveIdentity ==
    /\ pc = "identity"
    /\ mem' = [mem EXCEPT !.ident = Identity(manifest.ident, evidence.seen, requested),
                          !.lists = TRUE]
    /\ pass' = 1 /\ pc' = "report"
    /\ UNCHANGED <<evidence, bundle, hashes, extra, sessions, requested, history>>

\* Mutant: the index of the first pass is kept.
AfterCite_NoRebuild == "seal"

\* The index holds the manifest, which has changed since it was built.
AfterCite == "index"

(* write_bundle: report, summary, manifest.  A bundle that is not finalized *)
(* is of no evidence.                                                       *)
Ver == IF pass = 0 THEN 0 ELSE evidence.ver

BundleReport ==
    /\ pc = "report"
    /\ report' = IF report = NoReport THEN report ELSE [report EXCEPT !.ident = mem.ident]
    /\ pc' = "summary"
    /\ UNCHANGED <<evidence, summary, manifest, index, context, validation, hashes, extra, pass,
                   sessions, requested, mem, history>>

BundleSummary ==
    /\ pc = "summary"
    /\ summary' = [ver |-> Ver, ident |-> mem.ident]
    /\ pc' = "manifest"
    /\ UNCHANGED <<evidence, report, manifest, index, context, validation, hashes, extra, pass,
                   sessions, requested, mem, history>>

BundleManifest ==
    /\ pc = "manifest"
    /\ manifest' = [ver |-> Ver, ident |-> mem.ident, contract |-> mem.contract, lists |-> mem.lists]
    /\ named' = named \cup If(mem.ident.status = "verified", mem.ident.tenant)
    /\ IF pass = 0
       THEN Over
       ELSE pc' = (IF pass = 1 THEN "index" ELSE "cite") /\ UNCHANGED <<pass, requested, mem>>
    /\ UNCHANGED <<evidence, report, summary, index, context, validation, hashes, extra, sessions,
                   owner>>

\* The audit plan and the citations are put into the report after the final manifest.
Cite ==
    /\ pc = "cite"
    /\ report' = [report EXCEPT !.cited = TRUE]
    /\ pc' = AfterCite
    /\ UNCHANGED <<evidence, summary, manifest, index, context, validation, hashes, extra, pass,
                   sessions, requested, mem, history>>

\* The index is built aside; its sidecars are removed and the file is emptied, then copied.
StartIndex ==
    /\ pc = "index"
    /\ index' = [NoIndex EXCEPT !.state = "torn"]
    /\ extra' = extra \ {"sidecar"}
    /\ pc' = "copy"
    /\ UNCHANGED <<evidence, report, summary, manifest, context, validation, hashes, pass, sessions,
                   requested, mem, history>>

FinishIndex ==
    /\ pc = "copy"
    /\ index' = [state |-> "whole", ver |-> evidence.ver, ident |-> manifest.ident,
                 contract |-> manifest.contract]
    /\ pc' = IF pass = 1 THEN "context" ELSE "seal"
    /\ UNCHANGED <<evidence, report, summary, manifest, context, validation, hashes, extra, pass,
                   sessions, requested, mem, history>>

WriteContext ==
    /\ pc = "context"
    /\ context' = [ver |-> evidence.ver, ident |-> mem.ident]
    /\ pc' = "validate"
    /\ UNCHANGED <<evidence, report, summary, manifest, index, validation, hashes, extra, pass,
                   sessions, requested, mem, history>>

\* The validation, and with its result the bundle again.
Validate ==
    /\ pc = "validate"
    /\ validation' = IF Valid THEN "valid" ELSE "invalid"
    /\ mem' = [mem EXCEPT !.contract = validation']
    /\ pass' = 2 /\ pc' = "report"
    /\ UNCHANGED <<evidence, report, summary, manifest, index, context, hashes, extra, sessions,
                   requested, history>>

\* Mutant: links are listed like files.
Listed_Links == extra

Listed == extra \ {"link"}

\* Every regular file is hashed, whoever put it there; a link is not.
Seal ==
    /\ pc = "seal"
    /\ hashes' = [files |-> {Files}, listed |-> Listed]
    /\ Over
    /\ UNCHANGED <<evidence, bundle, extra, sessions, named>>
    /\ owner' = IF GateAccepts' /\ manifest.ident.tenant # None THEN manifest.ident.tenant ELSE owner

\* A kill, an interrupt or an exception between two files, or within the index.
Stop ==
    /\ pc # "idle" /\ Over
    /\ UNCHANGED <<evidence, bundle, hashes, extra, sessions, history>>

-----------------------------------------------------------------------------
(* Between sessions.                                                       *)

LoseHashes ==
    /\ pc = "idle" /\ hashes # NoHashes
    /\ hashes' = NoHashes
    /\ UNCHANGED <<evidence, bundle, extra, pc, pass, sessions, requested, mem, history>>

\* A file at a path consumers read, a SQLite sidecar, a symbolic link; one of them at most.
Plant(x) ==
    /\ pc = "idle" /\ extra = {} /\ sessions > 0
    /\ extra' = {x}
    /\ UNCHANGED <<evidence, bundle, hashes, pc, pass, sessions, requested, mem, history>>

Next ==
    \/ \E r \in Tenants \cup {None} : Open(r)
    \/ Collect \/ Abort \/ WriteReportPack \/ ResolveIdentity
    \/ BundleReport \/ BundleSummary \/ BundleManifest
    \/ Cite \/ StartIndex \/ FinishIndex \/ WriteContext \/ Validate \/ Seal
    \/ Stop
    \/ LoseHashes
    \/ \E x \in {"sidecar", "stray", "link"} : Plant(x)

Spec == Init /\ [][Next]_vars

-----------------------------------------------------------------------------
Versions == 0..MaxSessions

(* Type invariant. *)
TypeOK ==
    /\ evidence \in [ver : Versions, seen : SUBSET Tenants, sound : BOOLEAN]
    /\ report \in [ver : Versions, ident : Identities, cited : BOOLEAN]
    /\ {summary, context} \subseteq [ver : Versions, ident : Identities]
    /\ manifest \in [ver : Versions, ident : Identities, contract : {"none", "valid", "invalid"},
                     lists : BOOLEAN]
    /\ index \in [state : {"absent", "torn", "whole"}, ver : Versions, ident : Identities,
                  contract : {"none", "valid", "invalid"}]
    /\ validation \in {"absent", "valid", "invalid"}
    /\ hashes.listed \subseteq {"sidecar", "stray"}
    /\ extra \subseteq {"sidecar", "stray", "link"}
    /\ pc \in {"idle", "collect", "pack", "identity", "report", "summary", "manifest", "cite",
               "index", "copy", "context", "validate", "seal"}
    /\ pass \in 0..2 /\ sessions \in Versions
    /\ requested \in Tenants \cup {None}
    /\ mem \in [ident : Identities, contract : {"none", "valid", "invalid"}, lists : BOOLEAN]
    /\ named \subseteq Tenants /\ owner \in Tenants \cup {None}

(* A folder whose hashes hold is one finalized bundle, however many         *)
(* sessions were stopped on the way: every file is of the evidence that is  *)
(* there and names one tenant alike, the index has the final manifest, and  *)
(* no sidecar of an earlier index stands beside it.  The contract that was  *)
(* validated between the two passes is still the one these files fulfil:    *)
(* the gate, which looks again, accepts what the manifest calls valid and   *)
(* nothing else.                                                            *)
VerifiedIsCoherent ==
    Integrity = "verified" =>
        /\ {report.ver, summary.ver, manifest.ver, index.ver, context.ver} = {evidence.ver}
        /\ {report.ident, summary.ident, index.ident, context.ident} = {manifest.ident}
        /\ index.state = "whole" /\ index.contract = manifest.contract
        /\ validation = manifest.contract
        /\ report.cited
        /\ "sidecar" \notin extra
        /\ manifest.contract = "valid" <=> Valid
        /\ manifest.contract = "valid" => GateAccepts

(* A folder is never verified for a tenant and, by any sequence of later    *)
(* sessions, for another one.                                               *)
NeverReassigned == Cardinality(named) <= 1

(* A conflict that a manifest records is in every later manifest.           *)
ConflictStays ==
    [][manifest.ident.status = "conflict" =>
         /\ manifest'.ident.status = "conflict"
         /\ manifest.ident.conflicts \subseteq manifest'.ident.conflicts]_vars

(* A bundle that lost its hash manifest is not taken for one from before    *)
(* there were any, whatever was written over it since.                      *)
LostIsNotOld == Integrity = "absent" => manifest.contract = "none" /\ named = {}

\* What the gate accepts of a folder keeps BundlePromise.
Promise == INSTANCE BundlePromise WITH accepted <- Accepted

ImplementsPromise == Promise!Spec
=============================================================================
