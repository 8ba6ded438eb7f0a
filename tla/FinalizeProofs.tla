--------------------------- MODULE FinalizeProofs ---------------------------
(***************************************************************************)
(* What a run folder is to its readers, for any tenants and any number of  *)
(* sessions, each stopped anywhere: one coherent bundle where its hashes   *)
(* hold, of one tenant, and a folder that keeps BundlePromise.             *)
(***************************************************************************)
EXTENDS Finalize, FiniteSetTheorems, TLAPS

-----------------------------------------------------------------------------
(* The inductive invariant, one part per fact. *)

First  == pass = 1
Second == pass = 2

\* Where each pass of finalize_bundle_contract can be.
PassHolds ==
    /\ pass = 0 => pc \in {"idle", "collect", "pack", "identity", "report", "summary", "manifest"}
    /\ First  => pc \in {"report", "summary", "manifest", "index", "copy", "context", "validate"}
    /\ Second => pc \in {"report", "summary", "manifest", "cite", "index", "copy", "seal"}
    /\ sessions = 0 => pc = "idle"

\* What a session has written is of its evidence and of the identity it resolved.
WrittenHolds ==
    /\ pc \in {"pack", "identity"} \/ First \/ Second => evidence.ver > 0
    /\ pc = "identity" \/ First \/ Second => report.ver = evidence.ver
    /\ (First /\ pc # "report") \/ Second => report.ident = mem.ident
    /\ (First /\ pc \notin {"report", "summary"}) \/ Second =>
         summary = [ver |-> evidence.ver, ident |-> mem.ident]
    /\ (First /\ pc \notin {"report", "summary", "manifest"}) \/ Second =>
         manifest.ver = evidence.ver /\ manifest.ident = mem.ident
    /\ (First /\ pc = "validate") \/ Second => context = [ver |-> evidence.ver, ident |-> mem.ident]

\* The second pass ends with the contract in the manifest, the citations and the index.
SecondHolds ==
    /\ Second => validation = mem.contract
    /\ Second /\ pc \notin {"report", "summary", "manifest"} => manifest.contract = mem.contract
    /\ Second /\ pc \in {"index", "copy", "seal"} => report.cited
    /\ Second /\ pc \in {"copy", "seal"} => "sidecar" \notin extra
    /\ pc = "seal" => index = [state |-> "whole", ver |-> evidence.ver, ident |-> manifest.ident,
                               contract |-> manifest.contract]

\* What the contract asks of the evidence and of the writer's identity, wherever they are written.
Fulfilled ==
    /\ evidence.sound
    /\ mem.ident.status \in {"verified", "unknown"}
    /\ mem.ident.seen = evidence.seen
    /\ Observed(evidence.seen, mem.ident.requested) = {}

\* The index is there when the first pass validates, and what it found stays true in the second.
ContractHolds ==
    /\ First /\ pc \in {"context", "validate"} => index.state = "whole" /\ index.ident = manifest.ident
    /\ Second => (mem.contract = "valid" <=> Fulfilled)

\* The files of F satisfy the contract (Valid says it of the folder).
ValidFiles(F) ==
    /\ 0 \notin {F[2].ver, F[3].ver, F[4].ver, F[6].ver}
    /\ F[5].state = "whole"
    /\ F[1].sound
    /\ {F[2].ident, F[3].ident, F[4].ident, F[5].ident} = {F[6].ident}
    /\ F[6].ident.status \in {"verified", "unknown"}
    /\ F[6].ident.seen = F[1].seen
    /\ Observed(F[1].seen, F[6].ident.requested) = {}

\* The files of F are one bundle, and its contract is the one they fulfil.
Coherent(F) ==
    /\ {F[2].ver, F[3].ver, F[4].ver, F[5].ver, F[6].ver} = {F[1].ver}
    /\ {F[2].ident, F[3].ident, F[5].ident, F[6].ident} = {F[4].ident}
    /\ F[5].state = "whole" /\ F[5].contract = F[4].contract
    /\ F[7] = F[4].contract
    /\ F[2].cited
    /\ F[4].contract = "valid" <=> ValidFiles(F)

\* What was sealed was coherent, and no sidecar was listed.
SealedHolds ==
    /\ \A F \in hashes.files : Coherent(F)
    /\ hashes.listed \cap {"sidecar", "link"} = {}

\* An identity is verified, in conflict, or neither.
WellFormed(i) ==
    /\ i.status = "conflict" <=> i.conflicts # {}
    /\ i.status = "verified" <=> i.tenant # None

\* An identity keeps the conflicts of an earlier one, and its tenant or a conflict.
Keeps(previous, next) ==
    /\ previous.status = "conflict" =>
         next.status = "conflict" /\ previous.conflicts \subseteq next.conflicts
    /\ previous.status = "verified" =>
         \/ next.status = "conflict"
         \/ next.status = "verified" /\ next.tenant = previous.tenant

\* Until the manifest is written, the writer has that of the folder, or what follows from it.
MemHolds ==
    /\ WellFormed(mem.ident)
    /\ pass = 0 /\ pc # "idle" =>
         mem.ident = manifest.ident /\ mem.contract = manifest.contract /\ mem.lists = manifest.lists
    /\ First \/ Second => mem.lists
    /\ First /\ pc \in {"report", "summary", "manifest"} =>
         mem.ident = Identity(manifest.ident, evidence.seen, requested)

\* A tenant that was named is the manifest's, or the manifest has a conflict.
NamedHolds ==
    /\ WellFormed(manifest.ident)
    /\ manifest.ident.status # "conflict" => named = If(manifest.ident.status = "verified", manifest.ident.tenant)
    /\ \A s, t \in named : s = t
    /\ ~manifest.lists => manifest.contract = "none" /\ named = {}

Acceptable(F) == F[4].contract = "valid" /\ F[7] = "valid" /\ ValidFiles(F)

\* The owner of a folder is its named tenant, and that of an acceptable bundle once it was sealed.
OwnerHolds ==
    /\ owner \in named \cup {None}
    /\ "link" \notin extra =>
         \A F \in hashes.files :
            Acceptable(F) /\ F[4].ident.tenant # None => owner = F[4].ident.tenant

IInv ==
    /\ TypeOK /\ PassHolds /\ WrittenHolds /\ SecondHolds /\ ContractHolds /\ SealedHolds
    /\ MemHolds /\ NamedHolds /\ OwnerHolds

-----------------------------------------------------------------------------
LEMMA NothingOfType == NoIdentity \in Identities /\ WellFormed(NoIdentity)
BY DEF NoIdentity, Identities, WellFormed

\* The identity that follows from an earlier one keeps its conflicts, and its tenant or a conflict.
LEMMA IdentityFollows ==
    ASSUME NEW previous \in Identities, WellFormed(previous),
           NEW seen \in SUBSET Tenants, NEW r \in Tenants \cup {None},
           NEW next, next = Identity(previous, seen, r)
    PROVE  /\ next \in Identities /\ WellFormed(next)
           /\ Keeps(previous, next)
<1> DEFINE conflicts == Observed(seen, r) \cup Against(previous, seen)
           one == conflicts = {} /\ Cardinality(seen) = 1
<1>1. conflicts \subseteq Codes \X (Tenants \cup {None})
  BY DEF Observed, Against, If, Codes, Identities
<1>2. one => (CHOOSE t \in seen : TRUE) \in seen
  BY FS_EmptySet
<1>3. /\ next.status = IF conflicts # {} THEN "conflict" ELSE IF one THEN "verified" ELSE "unknown"
      /\ next.tenant = IF one THEN CHOOSE t \in seen : TRUE ELSE None
      /\ next.conflicts = conflicts
  BY DEF Identity
<1>4. next.tenant \in Tenants \cup {None} /\ (next.tenant # None <=> one)
  BY <1>2, <1>3, FinalizeConstantsOk
<1>5. next = [status |-> next.status, tenant |-> next.tenant, requested |-> r, seen |-> seen,
              conflicts |-> conflicts]
  BY <1>3 DEF Identity
<1>6. next \in Identities
  <2> HIDE DEF conflicts, one
  <2>1. next.status \in {"none", "unknown", "verified", "conflict"}
    BY <1>3
  <2> QED BY <1>1, <1>4, <1>5, <2>1 DEF Identities
<1>7. WellFormed(next)
  <2> HIDE DEF conflicts
  <2> QED BY <1>3, <1>4 DEF WellFormed
<1>8. ASSUME previous.status = "conflict"
      PROVE  next.status = "conflict" /\ previous.conflicts \subseteq next.conflicts
  <2>1. previous.conflicts \subseteq conflicts /\ previous.conflicts # {}
    BY <1>8 DEF Against, WellFormed
  <2> QED BY <1>3, <2>1
<1>9. ASSUME previous.status = "verified", next.status # "conflict"
      PROVE  next.status = "verified" /\ next.tenant = previous.tenant
  <2>1. conflicts = {} /\ previous.tenant # None
    BY <1>3, <1>9 DEF WellFormed
  <2>2. seen # {}
    BY <1>9, <2>1 DEF Against, If
  <2>3. seen = {previous.tenant}
    BY <2>1, <2>2 DEF Against, If
  <2>4. Cardinality(seen) = 1 /\ (CHOOSE t \in seen : TRUE) = previous.tenant
    BY <2>3, FS_Singleton
  <2> QED BY <1>3, <2>1, <2>4
<1> QED BY <1>6, <1>7, <1>8, <1>9 DEF Keeps

-----------------------------------------------------------------------------
LEMMA TypeInit == Init => TypeOK
<1> SUFFICES ASSUME Init PROVE TypeOK
  OBVIOUS
<1>1. 0 \in Versions
  BY FinalizeConstantsOk DEF Versions
<1> QED BY <1>1, NothingOfType DEF Init, TypeOK, NoReport, NoDoc, NoManifest, NoIndex, NoMem, NoHashes

\* Every write is of the writer's identity and of a version of the evidence.
LEMMA TypeNext == TypeOK /\ MemHolds /\ NamedHolds /\ [Next]_vars => TypeOK'
<1> SUFFICES ASSUME TypeOK, MemHolds, NamedHolds, [Next]_vars PROVE TypeOK'
  OBVIOUS
<1> USE DEF bundle, history, Over, TypeOK
<1>0. Ver \in Versions /\ sessions \in Nat /\ MaxSessions \in Nat /\ 0 \in Versions
  BY FinalizeConstantsOk DEF Ver, Versions
<1>1. ASSUME NEW r \in Tenants \cup {None}, Open(r) PROVE TypeOK'
  <2>1. sessions' \in Versions
    BY <1>0, <1>1 DEF Open, Versions
  <2>2. mem' \in [ident : Identities, contract : {"none", "valid", "invalid"}, lists : BOOLEAN]
    BY <1>1 DEF Open, Inherited
  <2>3. manifest' \in [ver : Versions, ident : Identities, contract : {"none", "valid", "invalid"},
                       lists : BOOLEAN]
    BY <1>0, <1>1 DEF Open
  <2> QED BY <1>1, <2>1, <2>2, <2>3 DEF Open
<1>2. CASE Collect
  <2>1. evidence' \in [ver : Versions, seen : SUBSET Tenants, sound : BOOLEAN]
    BY <1>0, <1>2, FinalizeConstantsOk DEF Collect
  <2> QED BY <1>2, <2>1 DEF Collect
<1>3. CASE Abort
  BY <1>0, <1>3 DEF Abort
<1>4. CASE WriteReportPack
  <2>1. report' \in [ver : Versions, ident : Identities, cited : BOOLEAN]
    BY <1>4, NothingOfType DEF WriteReportPack, NoReport
  <2> QED BY <1>4, <2>1 DEF WriteReportPack
<1>5. CASE ResolveIdentity
  <2>1. Identity(manifest.ident, evidence.seen, requested) \in Identities
    BY IdentityFollows DEF NamedHolds
  <2>2. mem' \in [ident : Identities, contract : {"none", "valid", "invalid"}, lists : BOOLEAN]
    BY <1>5, <2>1 DEF ResolveIdentity
  <2> QED BY <1>5, <2>2 DEF ResolveIdentity
<1>6. CASE BundleReport
  BY <1>0, <1>6 DEF BundleReport
<1>7. CASE BundleSummary
  BY <1>0, <1>7 DEF BundleSummary
<1>8. CASE BundleManifest
  <2>1. manifest' \in [ver : Versions, ident : Identities, contract : {"none", "valid", "invalid"},
                        lists : BOOLEAN]
    BY <1>0, <1>8 DEF BundleManifest
  <2>2. named' \subseteq Tenants
    <3>1. mem.ident.status = "verified" => mem.ident.tenant # None
      BY DEF MemHolds, WellFormed
    <3>2. mem.ident.tenant \in Tenants \cup {None}
      BY DEF Identities
    <3>3. named' = named \cup If(mem.ident.status = "verified", mem.ident.tenant)
      BY <1>8 DEF BundleManifest
    <3> QED BY <3>1, <3>2, <3>3 DEF If
  <2>3. mem' \in [ident : Identities, contract : {"none", "valid", "invalid"}, lists : BOOLEAN]
    <3>1. mem' = mem \/ mem' = NoMem
      BY <1>8 DEF BundleManifest
    <3>2. NoMem \in [ident : Identities, contract : {"none", "valid", "invalid"}, lists : BOOLEAN]
      BY NothingOfType DEF NoMem
    <3> QED BY <3>1, <3>2
  <2> QED BY <1>0, <1>8, <2>1, <2>2, <2>3 DEF BundleManifest
<1>9. CASE Cite
  <2>1. report' \in [ver : Versions, ident : Identities, cited : BOOLEAN]
    BY <1>9 DEF Cite
  <2>2. pc' = "index"
    BY <1>9 DEF Cite, AfterCite
  <2> QED BY <1>9, <2>1, <2>2 DEF Cite
<1>10. CASE StartIndex
  <2>1. index' \in [state : {"absent", "torn", "whole"}, ver : Versions, ident : Identities,
                     contract : {"none", "valid", "invalid"}]
    BY <1>0, <1>10, NothingOfType DEF StartIndex, NoIndex
  <2> QED BY <1>10, <2>1 DEF StartIndex
<1>11. CASE FinishIndex
  BY <1>0, <1>11 DEF FinishIndex
<1>12. CASE WriteContext
  BY <1>0, <1>12 DEF WriteContext
<1>13. CASE Validate
  BY <1>0, <1>13 DEF Validate
<1>14. CASE Seal
  <2>1. mem' \in [ident : Identities, contract : {"none", "valid", "invalid"}, lists : BOOLEAN]
    BY <1>14, NothingOfType DEF Seal, NoMem
  <2>2. hashes'.listed \subseteq {"sidecar", "stray"}
    BY <1>14 DEF Seal, Listed
  <2>3. owner' \in Tenants \cup {None}
    <3>1. manifest.ident.tenant \in Tenants \cup {None}
      BY DEF Identities
    <3> QED BY <1>14, <3>1 DEF Seal
  <2> QED BY <1>14, <2>1, <2>2, <2>3 DEF Seal
<1>15. CASE Stop
  BY <1>0, <1>15, NothingOfType DEF Stop, NoMem
<1>16. CASE LoseHashes
  BY <1>16 DEF LoseHashes, NoHashes
<1>17. ASSUME NEW x \in {"sidecar", "stray", "link"}, Plant(x) PROVE TypeOK'
  BY <1>0, <1>17 DEF Plant
<1>18. CASE UNCHANGED vars
  BY <1>0, <1>18 DEF vars
<1> QED BY <1>1, <1>2, <1>3, <1>4, <1>5, <1>6, <1>7, <1>8, <1>9, <1>10, <1>11, <1>12, <1>13, <1>14, <1>15, <1>16, <1>17, <1>18 DEF Next

\* finalize_bundle_contract goes twice through the bundle, in one order.
LEMMA PassNext == TypeOK /\ PassHolds /\ [Next]_vars => PassHolds'
<1> SUFFICES ASSUME TypeOK, PassHolds, [Next]_vars PROVE PassHolds'
  OBVIOUS
<1> USE DEF bundle, history, Over, PassHolds, First, Second
<1>0. sessions \in Nat
  BY FinalizeConstantsOk DEF TypeOK, Versions
<1>1. ASSUME NEW r \in Tenants \cup {None}, Open(r) PROVE PassHolds'
  BY <1>0, <1>1 DEF Open
<1>2. CASE Collect
  BY <1>0, <1>2 DEF Collect
<1>3. CASE Abort
  BY <1>0, <1>3 DEF Abort
<1>4. CASE WriteReportPack
  BY <1>0, <1>4 DEF WriteReportPack
<1>5. CASE ResolveIdentity
  BY <1>0, <1>5 DEF ResolveIdentity
<1>6. CASE BundleReport
  BY <1>0, <1>6 DEF BundleReport
<1>7. CASE BundleSummary
  BY <1>0, <1>7 DEF BundleSummary
<1>8. CASE BundleManifest
  BY <1>0, <1>8 DEF BundleManifest
<1>9. CASE Cite
  BY <1>0, <1>9 DEF Cite, AfterCite
<1>10. CASE StartIndex
  BY <1>0, <1>10 DEF StartIndex
<1>11. CASE FinishIndex
  BY <1>0, <1>11 DEF FinishIndex
<1>12. CASE WriteContext
  BY <1>0, <1>12 DEF WriteContext
<1>13. CASE Validate
  BY <1>0, <1>13 DEF Validate
<1>14. CASE Seal
  BY <1>0, <1>14 DEF Seal
<1>15. CASE Stop
  BY <1>0, <1>15 DEF Stop
<1>16. CASE LoseHashes
  BY <1>0, <1>16 DEF LoseHashes
<1>17. ASSUME NEW x \in {"sidecar", "stray", "link"}, Plant(x) PROVE PassHolds'
  BY <1>0, <1>17 DEF Plant
<1>18. CASE UNCHANGED vars
  BY <1>0, <1>18 DEF vars
<1> QED BY <1>1, <1>2, <1>3, <1>4, <1>5, <1>6, <1>7, <1>8, <1>9, <1>10, <1>11, <1>12, <1>13, <1>14, <1>15, <1>16, <1>17, <1>18 DEF Next

\* Each file follows the ones it is written from.
LEMMA WrittenNext == TypeOK /\ PassHolds /\ WrittenHolds /\ [Next]_vars => WrittenHolds'
<1> SUFFICES ASSUME TypeOK, PassHolds, WrittenHolds, [Next]_vars PROVE WrittenHolds'
  OBVIOUS
<1> USE DEF bundle, history, Over, WrittenHolds, First, Second
<1>0. sessions \in Nat /\ evidence.ver \in Nat
  BY FinalizeConstantsOk DEF TypeOK, Versions
<1>1. ASSUME NEW r \in Tenants \cup {None}, Open(r) PROVE WrittenHolds'
  BY <1>0, <1>1 DEF Open, PassHolds
<1>2. CASE Collect
  BY <1>0, <1>2 DEF Collect, PassHolds
<1>3. CASE Abort
  BY <1>0, <1>3 DEF Abort, PassHolds
<1>4. CASE WriteReportPack
  BY <1>0, <1>4 DEF WriteReportPack, PassHolds, NoReport
<1>5. CASE ResolveIdentity
  BY <1>0, <1>5 DEF ResolveIdentity, PassHolds
<1>6. CASE BundleReport
  BY <1>0, <1>6 DEF BundleReport, PassHolds, NoReport, TypeOK
<1>7. CASE BundleSummary
  BY <1>0, <1>7 DEF BundleSummary, PassHolds, Ver
<1>8. CASE BundleManifest
  BY <1>0, <1>8 DEF BundleManifest, PassHolds, Ver
<1>9. CASE Cite
  BY <1>0, <1>9 DEF Cite, AfterCite
<1>10. CASE StartIndex
  BY <1>0, <1>10 DEF StartIndex
<1>11. CASE FinishIndex
  BY <1>0, <1>11 DEF FinishIndex, PassHolds
<1>12. CASE WriteContext
  BY <1>0, <1>12 DEF WriteContext, PassHolds
<1>13. CASE Validate
  <2>1. mem'.ident = mem.ident /\ pass = 1 /\ pass' = 2 /\ pc = "validate"
    BY <1>13 DEF Validate, TypeOK, PassHolds
  <2> QED BY <1>13, <2>1 DEF Validate
<1>14. CASE Seal
  BY <1>0, <1>14 DEF Seal
<1>15. CASE Stop
  BY <1>0, <1>15 DEF Stop
<1>16. CASE LoseHashes
  BY <1>0, <1>16 DEF LoseHashes
<1>17. ASSUME NEW x \in {"sidecar", "stray", "link"}, Plant(x) PROVE WrittenHolds'
  BY <1>0, <1>17 DEF Plant
<1>18. CASE UNCHANGED vars
  BY <1>0, <1>18 DEF vars
<1> QED BY <1>1, <1>2, <1>3, <1>4, <1>5, <1>6, <1>7, <1>8, <1>9, <1>10, <1>11, <1>12, <1>13, <1>14, <1>15, <1>16, <1>17, <1>18 DEF Next

\* What the second pass writes is there when the folder is sealed.
LEMMA SecondNext == TypeOK /\ PassHolds /\ SecondHolds /\ [Next]_vars => SecondHolds'
<1> SUFFICES ASSUME TypeOK, PassHolds, SecondHolds, [Next]_vars PROVE SecondHolds'
  OBVIOUS
<1> USE DEF bundle, history, Over, SecondHolds, First, Second
<1>0. pc \in {"idle", "collect", "pack", "identity"} => ~Second
  BY DEF PassHolds, First, Second
<1>1. ASSUME NEW r \in Tenants \cup {None}, Open(r) PROVE SecondHolds'
  BY <1>0, <1>1 DEF Open
<1>2. CASE Collect
  BY <1>0, <1>2 DEF Collect
<1>3. CASE Abort
  BY <1>0, <1>3 DEF Abort
<1>4. CASE WriteReportPack
  BY <1>0, <1>4 DEF WriteReportPack
<1>5. CASE ResolveIdentity
  BY <1>0, <1>5 DEF ResolveIdentity
<1>6. CASE BundleReport
  BY <1>0, <1>6 DEF BundleReport
<1>7. CASE BundleSummary
  BY <1>0, <1>7 DEF BundleSummary
<1>8. CASE BundleManifest
  BY <1>0, <1>8 DEF BundleManifest
<1>9. CASE Cite
  BY <1>0, <1>9 DEF Cite, AfterCite
<1>10. CASE StartIndex
  BY <1>0, <1>10 DEF StartIndex
<1>11. CASE FinishIndex
  BY <1>0, <1>11 DEF FinishIndex, PassHolds
<1>12. CASE WriteContext
  BY <1>0, <1>12 DEF WriteContext, PassHolds
<1>13. CASE Validate
  BY <1>0, <1>13 DEF Validate
<1>14. CASE Seal
  BY <1>0, <1>14 DEF Seal
<1>15. CASE Stop
  BY <1>0, <1>15 DEF Stop
<1>16. CASE LoseHashes
  BY <1>0, <1>16 DEF LoseHashes
<1>17. ASSUME NEW x \in {"sidecar", "stray", "link"}, Plant(x) PROVE SecondHolds'
  BY <1>0, <1>17 DEF Plant
<1>18. CASE UNCHANGED vars
  BY <1>0, <1>18 DEF vars
<1> QED BY <1>1, <1>2, <1>3, <1>4, <1>5, <1>6, <1>7, <1>8, <1>9, <1>10, <1>11, <1>12, <1>13, <1>14, <1>15, <1>16, <1>17, <1>18 DEF Next

\* The result of the validation is of the evidence and of the identity that the second pass writes.
LEMMA ContractNext == TypeOK /\ PassHolds /\ WrittenHolds /\ ContractHolds /\ [Next]_vars => ContractHolds'
<1> SUFFICES ASSUME TypeOK, PassHolds, WrittenHolds, ContractHolds, [Next]_vars PROVE ContractHolds'
  OBVIOUS
<1> USE DEF bundle, history, Over, ContractHolds, First, Second
<1>0. /\ pc \in {"idle", "collect", "pack", "identity"} => ~Second
      /\ UNCHANGED <<evidence, mem>> => Fulfilled' = Fulfilled
  BY DEF PassHolds, First, Second, Fulfilled
<1>1. ASSUME NEW r \in Tenants \cup {None}, Open(r) PROVE ContractHolds'
  BY <1>0, <1>1 DEF Open
<1>2. CASE Collect
  BY <1>0, <1>2 DEF Collect
<1>3. CASE Abort
  BY <1>0, <1>3 DEF Abort
<1>4. CASE WriteReportPack
  BY <1>0, <1>4 DEF WriteReportPack
<1>5. CASE ResolveIdentity
  BY <1>0, <1>5 DEF ResolveIdentity
<1>6. CASE BundleReport
  BY <1>0, <1>6 DEF BundleReport
<1>7. CASE BundleSummary
  BY <1>0, <1>7 DEF BundleSummary
<1>8. CASE BundleManifest
  BY <1>0, <1>8 DEF BundleManifest
<1>9. CASE Cite
  BY <1>0, <1>9 DEF Cite, AfterCite
<1>10. CASE StartIndex
  BY <1>0, <1>10 DEF StartIndex
<1>11. CASE FinishIndex
  BY <1>0, <1>11 DEF FinishIndex
<1>12. CASE WriteContext
  BY <1>0, <1>12 DEF WriteContext
<1>13. CASE Validate
  <2>1. First
    BY <1>13 DEF Validate, PassHolds, TypeOK
  <2>2. /\ evidence.ver > 0 /\ report.ver = evidence.ver /\ report.ident = mem.ident
        /\ summary = [ver |-> evidence.ver, ident |-> mem.ident] /\ context = summary
        /\ manifest.ver = evidence.ver /\ manifest.ident = mem.ident
        /\ index.state = "whole" /\ index.ident = mem.ident
    BY <1>13, <2>1 DEF Validate, WrittenHolds
  <2>3. evidence.ver # 0
    BY <2>2 DEF TypeOK, Versions
  <2>4. Valid <=> Fulfilled
    BY <2>2, <2>3 DEF Valid, IdentityHolds, Fulfilled
  <2>5. /\ mem'.contract = (IF Valid THEN "valid" ELSE "invalid")
        /\ mem'.ident = mem.ident /\ evidence' = evidence /\ pass' = 2
    BY <1>13 DEF Validate, TypeOK
  <2>6. Fulfilled' <=> Fulfilled
    BY <2>5 DEF Fulfilled
  <2> QED BY <2>4, <2>5, <2>6
<1>14. CASE Seal
  BY <1>0, <1>14 DEF Seal
<1>15. CASE Stop
  BY <1>0, <1>15 DEF Stop
<1>16. CASE LoseHashes
  BY <1>0, <1>16 DEF LoseHashes
<1>17. ASSUME NEW x \in {"sidecar", "stray", "link"}, Plant(x) PROVE ContractHolds'
  BY <1>0, <1>17 DEF Plant
<1>18. CASE UNCHANGED vars
  BY <1>0, <1>18 DEF vars
<1> QED BY <1>1, <1>2, <1>3, <1>4, <1>5, <1>6, <1>7, <1>8, <1>9, <1>10, <1>11, <1>12, <1>13, <1>14, <1>15, <1>16, <1>17, <1>18 DEF Next

\* A folder is sealed when it is coherent.
LEMMA SealedNext ==
    TypeOK /\ PassHolds /\ WrittenHolds /\ SecondHolds /\ ContractHolds /\ SealedHolds /\ [Next]_vars
        => SealedHolds'
<1> SUFFICES ASSUME TypeOK, PassHolds, WrittenHolds, SecondHolds, ContractHolds, SealedHolds, [Next]_vars
             PROVE  SealedHolds'
  OBVIOUS
<1> USE DEF bundle, history, Over, SealedHolds
<1>1. ASSUME NEW r \in Tenants \cup {None}, Open(r) PROVE SealedHolds'
  BY <1>1 DEF Open
<1>2. CASE Collect
  BY <1>2 DEF Collect
<1>3. CASE Abort
  BY <1>3 DEF Abort
<1>4. CASE WriteReportPack
  BY <1>4 DEF WriteReportPack
<1>5. CASE ResolveIdentity
  BY <1>5 DEF ResolveIdentity
<1>6. CASE BundleReport
  BY <1>6 DEF BundleReport
<1>7. CASE BundleSummary
  BY <1>7 DEF BundleSummary
<1>8. CASE BundleManifest
  BY <1>8 DEF BundleManifest
<1>9. CASE Cite
  BY <1>9 DEF Cite
<1>10. CASE StartIndex
  BY <1>10 DEF StartIndex
<1>11. CASE FinishIndex
  BY <1>11 DEF FinishIndex
<1>12. CASE WriteContext
  BY <1>12 DEF WriteContext
<1>13. CASE Validate
  BY <1>13 DEF Validate
<1>14. CASE Seal
  <2>0. Second /\ pc = "seal"
    BY <1>14 DEF Seal, PassHolds, TypeOK, First, Second
  <2>1. Coherent(Files)
    <3>1. /\ report.ver = evidence.ver /\ report.ident = mem.ident /\ report.cited
          /\ summary = [ver |-> evidence.ver, ident |-> mem.ident] /\ context = summary
          /\ manifest.ver = evidence.ver /\ manifest.ident = mem.ident
          /\ validation = manifest.contract
      BY <2>0 DEF WrittenHolds, SecondHolds
    <3>2. index = [state |-> "whole", ver |-> evidence.ver, ident |-> manifest.ident,
                   contract |-> manifest.contract]
      BY <2>0 DEF SecondHolds
    <3>3. evidence.ver # 0 /\ (manifest.contract = "valid" <=> Fulfilled)
      BY <2>0 DEF WrittenHolds, SecondHolds, ContractHolds, TypeOK, Versions
    <3>4. manifest.contract = "valid" <=> ValidFiles(Files)
      BY <3>1, <3>2, <3>3 DEF ValidFiles, Fulfilled, Files
    <3> QED BY <3>1, <3>2, <3>4 DEF Coherent, Files
  <2>2. hashes'.listed \cap {"sidecar", "link"} = {}
    BY <1>14, <2>0 DEF Seal, SecondHolds, Listed
  <2> QED BY <1>14, <2>1, <2>2 DEF Seal
<1>15. CASE Stop
  BY <1>15 DEF Stop
<1>16. CASE LoseHashes
  BY <1>16 DEF LoseHashes, NoHashes
<1>17. ASSUME NEW x \in {"sidecar", "stray", "link"}, Plant(x) PROVE SealedHolds'
  BY <1>17 DEF Plant
<1>18. CASE UNCHANGED vars
  BY <1>18 DEF vars
<1> QED BY <1>1, <1>2, <1>3, <1>4, <1>5, <1>6, <1>7, <1>8, <1>9, <1>10, <1>11, <1>12, <1>13, <1>14, <1>15, <1>16, <1>17, <1>18 DEF Next

\* The writer's identity is that of the folder, or follows from it.
LEMMA MemNext == TypeOK /\ PassHolds /\ WrittenHolds /\ MemHolds /\ NamedHolds /\ [Next]_vars => MemHolds'
<1> SUFFICES ASSUME TypeOK, PassHolds, WrittenHolds, MemHolds, NamedHolds, [Next]_vars PROVE MemHolds'
  OBVIOUS
<1> USE DEF bundle, history, Over, MemHolds, First, Second
<1>0. pc \in {"idle", "collect", "pack", "identity"} => pass = 0
  BY DEF PassHolds, TypeOK, First, Second
<1>1. ASSUME NEW r \in Tenants \cup {None}, Open(r) PROVE MemHolds'
  BY <1>0, <1>1 DEF Open, Inherited, NamedHolds
<1>2. CASE Collect
  BY <1>0, <1>2 DEF Collect
<1>3. CASE Abort
  BY <1>0, <1>3 DEF Abort
<1>4. CASE WriteReportPack
  BY <1>0, <1>4 DEF WriteReportPack
<1>5. CASE ResolveIdentity
  <2>1. WellFormed(Identity(manifest.ident, evidence.seen, requested))
    BY IdentityFollows DEF NamedHolds, TypeOK
  <2>2. Identity(manifest.ident, evidence.seen, requested)' = Identity(manifest.ident, evidence.seen, requested)
    BY <1>5 DEF ResolveIdentity
  <2>3. mem'.ident = Identity(manifest.ident, evidence.seen, requested) /\ mem'.lists /\ pass' = 1
    BY <1>5 DEF ResolveIdentity, TypeOK
  <2> QED BY <1>5, <2>1, <2>2, <2>3 DEF ResolveIdentity
<1>6. CASE BundleReport
  BY <1>0, <1>6 DEF BundleReport
<1>7. CASE BundleSummary
  BY <1>0, <1>7 DEF BundleSummary
<1>8. CASE BundleManifest
  BY <1>0, <1>8, NothingOfType DEF BundleManifest, NoMem
<1>9. CASE Cite
  BY <1>0, <1>9 DEF Cite, AfterCite
<1>10. CASE StartIndex
  BY <1>0, <1>10 DEF StartIndex
<1>11. CASE FinishIndex
  BY <1>0, <1>11 DEF FinishIndex
<1>12. CASE WriteContext
  BY <1>0, <1>12 DEF WriteContext
<1>13. CASE Validate
  <2>1. mem'.ident = mem.ident /\ mem'.lists = mem.lists /\ pass = 1 /\ pass' = 2
    BY <1>13 DEF Validate, TypeOK, PassHolds
  <2> QED BY <2>1
<1>14. CASE Seal
  BY <1>14, NothingOfType DEF Seal, NoMem
<1>15. CASE Stop
  BY <1>15, NothingOfType DEF Stop, NoMem
<1>16. CASE LoseHashes
  BY <1>0, <1>16 DEF LoseHashes
<1>17. ASSUME NEW x \in {"sidecar", "stray", "link"}, Plant(x) PROVE MemHolds'
  BY <1>0, <1>17 DEF Plant
<1>18. CASE UNCHANGED vars
  BY <1>0, <1>18 DEF vars
<1> QED BY <1>1, <1>2, <1>3, <1>4, <1>5, <1>6, <1>7, <1>8, <1>9, <1>10, <1>11, <1>12, <1>13, <1>14, <1>15, <1>16, <1>17, <1>18 DEF Next

\* What is written over a manifest keeps its conflicts, and its tenant or a conflict.
LEMMA ManifestFollows ==
    ASSUME TypeOK, PassHolds, WrittenHolds, MemHolds, NamedHolds, pc = "manifest"
    PROVE  Keeps(manifest.ident, mem.ident)
<1>1. CASE pass = 1
  <2>1. mem.ident = Identity(manifest.ident, evidence.seen, requested)
    BY <1>1 DEF MemHolds, First
  <2>2. /\ manifest.ident \in Identities /\ WellFormed(manifest.ident)
        /\ evidence.seen \in SUBSET Tenants /\ requested \in Tenants \cup {None}
    BY DEF TypeOK, NamedHolds
  <2>3. Keeps(manifest.ident, Identity(manifest.ident, evidence.seen, requested))
    BY <2>2, IdentityFollows
  <2> QED BY <2>1, <2>3
<1>2. CASE pass # 1
  <2>1. mem.ident = manifest.ident
    BY <1>2 DEF TypeOK, WrittenHolds, MemHolds, First, Second
  <2> QED BY <2>1 DEF Keeps, NamedHolds, WellFormed
<1> QED BY <1>1, <1>2

\* A tenant is named when its manifest is written, and never beside another one.
LEMMA NamedNext == TypeOK /\ PassHolds /\ WrittenHolds /\ MemHolds /\ NamedHolds /\ [Next]_vars => NamedHolds'
<1> SUFFICES ASSUME TypeOK, PassHolds, WrittenHolds, MemHolds, NamedHolds, [Next]_vars PROVE NamedHolds'
  OBVIOUS
<1> USE DEF bundle, history, Over, NamedHolds
<1>1. ASSUME NEW r \in Tenants \cup {None}, Open(r) PROVE NamedHolds'
  BY <1>1 DEF Open
<1>2. CASE Collect
  BY <1>2 DEF Collect
<1>3. CASE Abort
  BY <1>3 DEF Abort
<1>4. CASE WriteReportPack
  BY <1>4 DEF WriteReportPack
<1>5. CASE ResolveIdentity
  BY <1>5 DEF ResolveIdentity
<1>6. CASE BundleReport
  BY <1>6 DEF BundleReport
<1>7. CASE BundleSummary
  BY <1>7 DEF BundleSummary
<1>8. CASE BundleManifest
  <2>1. /\ manifest'.ident = mem.ident /\ manifest'.contract = mem.contract /\ manifest'.lists = mem.lists
        /\ named' = named \cup If(mem.ident.status = "verified", mem.ident.tenant)
        /\ pc = "manifest"
    BY <1>8 DEF BundleManifest
  <2>2. WellFormed(mem.ident)
    BY DEF MemHolds
  <2>3. ASSUME mem.ident.status # "conflict"
        PROVE  named' = If(mem.ident.status = "verified", mem.ident.tenant)
    <3>1. manifest.ident.status # "conflict"
      BY <2>1, <2>3, ManifestFollows DEF Keeps
    <3>2. named = If(manifest.ident.status = "verified", manifest.ident.tenant)
      BY <3>1
    <3>3. named = {} \/ (mem.ident.status = "verified" /\ named = {mem.ident.tenant})
      BY <2>1, <2>3, <3>2, ManifestFollows DEF If, Keeps
    <3> QED BY <2>1, <3>3 DEF If
  <2>4. \A s, t \in named' : s = t
    <3>1. CASE mem.ident.status = "conflict"
      BY <2>1, <3>1 DEF If
    <3>2. CASE mem.ident.status # "conflict"
      BY <2>3, <3>2 DEF If
    <3> QED BY <3>1, <3>2
  <2>5. ASSUME ~mem.lists PROVE mem.contract = "none" /\ named' = {}
    <3>1. pass = 0
      BY <2>5 DEF MemHolds, TypeOK, First, Second
    <3>2. mem.ident = manifest.ident /\ mem.contract = manifest.contract /\ ~manifest.lists
      BY <2>1, <2>5, <3>1 DEF MemHolds
    <3>3. named = {} /\ manifest.contract = "none"
      BY <3>2
    <3>4. manifest.ident.status # "verified"
      BY <3>3 DEF If
    <3> QED BY <2>1, <3>2, <3>3, <3>4 DEF If
  <2> QED BY <2>1, <2>2, <2>3, <2>4, <2>5
<1>9. CASE Cite
  BY <1>9 DEF Cite
<1>10. CASE StartIndex
  BY <1>10 DEF StartIndex
<1>11. CASE FinishIndex
  BY <1>11 DEF FinishIndex
<1>12. CASE WriteContext
  BY <1>12 DEF WriteContext
<1>13. CASE Validate
  BY <1>13 DEF Validate
<1>14. CASE Seal
  BY <1>14 DEF Seal
<1>15. CASE Stop
  BY <1>15 DEF Stop
<1>16. CASE LoseHashes
  BY <1>16 DEF LoseHashes
<1>17. ASSUME NEW x \in {"sidecar", "stray", "link"}, Plant(x) PROVE NamedHolds'
  BY <1>17 DEF Plant
<1>18. CASE UNCHANGED vars
  BY <1>18 DEF vars
<1> QED BY <1>1, <1>2, <1>3, <1>4, <1>5, <1>6, <1>7, <1>8, <1>9, <1>10, <1>11, <1>12, <1>13, <1>14, <1>15, <1>16, <1>17, <1>18 DEF Next

\* The contract says the same of the files as they are.
LEMMA ValidIsOfFiles ==
    /\ Valid <=> ValidFiles(Files)
    /\ Acceptable(Files) <=> manifest.contract = "valid" /\ validation = "valid" /\ Valid
BY DEF Valid, ValidFiles, Acceptable, Files, IdentityHolds

\* What is sealed is accepted by its files alone, if no link is there.
LEMMA SealedIsAccepted ==
    ASSUME Seal
    PROVE  /\ hashes'.files = {Files} /\ Files' = Files
           /\ "link" \notin extra /\ Acceptable(Files) => GateAccepts'
           /\ GateAccepts' => Acceptable(Files)
<1>1. /\ hashes' = [files |-> {Files}, listed |-> Listed] /\ Files' = Files
      /\ extra' = extra /\ manifest' = manifest /\ validation' = validation
  BY DEF Seal, bundle, Files
<1>2. hashes' # NoHashes /\ hashes'.files = {Files'}
  BY <1>1 DEF NoHashes
<1>3. Integrity' = "verified" <=> extra = Listed
  BY <1>1, <1>2 DEF Integrity
<1>4. Valid' <=> Valid
  BY <1>1 DEF Valid, IdentityHolds, Files
<1>5. "link" \notin extra => extra = Listed
  BY DEF Listed
<1> QED BY <1>1, <1>3, <1>4, <1>5, ValidIsOfFiles DEF GateAccepts

\* The owner is named before its bundle is sealed.
LEMMA OwnerNext == TypeOK /\ PassHolds /\ WrittenHolds /\ MemHolds /\ NamedHolds /\ OwnerHolds /\ [Next]_vars => OwnerHolds'
<1> SUFFICES ASSUME TypeOK, PassHolds, WrittenHolds, MemHolds, NamedHolds, OwnerHolds, [Next]_vars PROVE OwnerHolds'
  OBVIOUS
<1> USE DEF bundle, history, Over, OwnerHolds
<1>1. ASSUME NEW r \in Tenants \cup {None}, Open(r) PROVE OwnerHolds'
  BY <1>1 DEF Open
<1>2. CASE Collect
  BY <1>2 DEF Collect
<1>3. CASE Abort
  BY <1>3 DEF Abort
<1>4. CASE WriteReportPack
  BY <1>4 DEF WriteReportPack
<1>5. CASE ResolveIdentity
  BY <1>5 DEF ResolveIdentity
<1>6. CASE BundleReport
  BY <1>6 DEF BundleReport
<1>7. CASE BundleSummary
  BY <1>7 DEF BundleSummary
<1>8. CASE BundleManifest
  BY <1>8 DEF BundleManifest
<1>9. CASE Cite
  BY <1>9 DEF Cite
<1>10. CASE StartIndex
  BY <1>10 DEF StartIndex
<1>11. CASE FinishIndex
  BY <1>11 DEF FinishIndex
<1>12. CASE WriteContext
  BY <1>12 DEF WriteContext
<1>13. CASE Validate
  BY <1>13 DEF Validate
<1>14. CASE Seal
  <2>1. manifest.ident.tenant # None => manifest.ident.tenant \in named
    <3>1. manifest.ident.tenant # None => manifest.ident.status = "verified"
      BY DEF NamedHolds, WellFormed
    <3> QED BY <3>1 DEF NamedHolds, If
  <2>2. owner' = IF GateAccepts' /\ manifest.ident.tenant # None THEN manifest.ident.tenant ELSE owner
    BY <1>14 DEF Seal
  <2>3. named' = named /\ extra' = extra /\ Files[4] = manifest
    BY <1>14 DEF Seal, Files
  <2>4. owner' \in named' \cup {None}
    BY <2>1, <2>2, <2>3
  <2>5. ASSUME "link" \notin extra, Acceptable(Files), manifest.ident.tenant # None
        PROVE  owner' = manifest.ident.tenant
    BY <1>14, <2>2, <2>5, SealedIsAccepted
  <2> QED BY <1>14, <2>3, <2>4, <2>5, SealedIsAccepted
<1>15. CASE Stop
  BY <1>15 DEF Stop
<1>16. CASE LoseHashes
  BY <1>16 DEF LoseHashes, NoHashes
<1>17. ASSUME NEW x \in {"sidecar", "stray", "link"}, Plant(x) PROVE OwnerHolds'
  BY <1>17 DEF Plant
<1>18. CASE UNCHANGED vars
  BY <1>18 DEF vars
<1> QED BY <1>1, <1>2, <1>3, <1>4, <1>5, <1>6, <1>7, <1>8, <1>9, <1>10, <1>11, <1>12, <1>13, <1>14, <1>15, <1>16, <1>17, <1>18 DEF Next

LEMMA InvariantInductive == Spec => []IInv
<1>1. Init => IInv
  <2> SUFFICES ASSUME Init PROVE IInv
    OBVIOUS
  <2>1. PassHolds /\ WrittenHolds /\ SecondHolds /\ ContractHolds
    BY DEF Init, PassHolds, WrittenHolds, SecondHolds, ContractHolds, First, Second
  <2>2. hashes.files = {} /\ hashes.listed = {} /\ SealedHolds
    BY DEF Init, NoHashes, SealedHolds
  <2>3. MemHolds
    BY NothingOfType DEF Init, MemHolds, NoMem, First, Second
  <2>4. NamedHolds
    BY NothingOfType DEF Init, NamedHolds, NoManifest, NoIdentity, If
  <2>5. OwnerHolds
    BY <2>2 DEF Init, OwnerHolds
  <2> QED BY TypeInit, <2>1, <2>2, <2>3, <2>4, <2>5 DEF IInv
<1>2. IInv /\ [Next]_vars => IInv'
  BY TypeNext, PassNext, WrittenNext, SecondNext, ContractNext, SealedNext, MemNext, NamedNext, OwnerNext DEF IInv
<1> QED BY <1>1, <1>2, PTL DEF Spec

-----------------------------------------------------------------------------
\* finalize_bundle_contract: every file of a folder has the type its readers take it for.
THEOREM TypeCorrect == Spec => []TypeOK
<1>1. IInv => TypeOK
  BY DEF IInv
<1> QED BY <1>1, InvariantInductive, PTL

\* verify_bundle_hashes: a folder whose hashes hold is one bundle, whoever was stopped before,
\* and the gate accepts it exactly when its manifest says that the contract was fulfilled.
THEOREM VerifiedIsOne == Spec => []VerifiedIsCoherent
<1>1. IInv => VerifiedIsCoherent
  <2> SUFFICES ASSUME IInv, Integrity = "verified" PROVE VerifiedIsCoherent
    BY DEF VerifiedIsCoherent
  <2>1. hashes.files = {Files} /\ extra = hashes.listed
    BY DEF Integrity
  <2>2. Coherent(Files) /\ "sidecar" \notin extra
    BY <2>1 DEF IInv, SealedHolds
  <2>3. manifest.contract = "valid" <=> Valid
    BY <2>2, ValidIsOfFiles DEF Coherent, Files
  <2>4. validation = manifest.contract
    BY <2>2 DEF Coherent, Files
  <2>5. manifest.contract = "valid" => GateAccepts
    BY <2>3, <2>4 DEF GateAccepts
  <2> QED BY <2>2, <2>3, <2>5 DEF VerifiedIsCoherent, Coherent, Files
<1> QED BY <1>1, InvariantInductive, PTL

\* resolve_tenant_identity over the manifest that was there: no second tenant is ever verified.
THEOREM TenantIsKept == Spec => []NeverReassigned
<1>1. IInv => NeverReassigned
  <2> SUFFICES ASSUME IInv PROVE Cardinality(named) <= 1
    BY DEF NeverReassigned
  <2>1. CASE named = {}
    BY <2>1, FS_EmptySet
  <2>2. CASE named # {}
    <3>1. PICK t \in named : TRUE
      BY <2>2
    <3>2. named = {t}
      BY <3>1 DEF IInv, NamedHolds
    <3> QED BY <3>2, FS_Singleton
  <2> QED BY <2>1, <2>2
<1> QED BY <1>1, InvariantInductive, PTL

\* verify_bundle_hashes: a finalized folder without its hash manifest is refused.
THEOREM LossIsSeen == Spec => []LostIsNotOld
<1>1. IInv => LostIsNotOld
  <2> SUFFICES ASSUME IInv, Integrity = "absent" PROVE LostIsNotOld
    BY DEF LostIsNotOld
  <2>1. ~manifest.lists
    BY DEF Integrity, IInv, TypeOK
  <2> QED BY <2>1 DEF IInv, NamedHolds, LostIsNotOld
<1> QED BY <1>1, InvariantInductive, PTL

\* Only write_bundle writes another identity into the manifest.
LEMMA OthersKeepIdentity ==
    ASSUME TypeOK, [Next]_vars
    PROVE  BundleManifest \/ manifest'.ident = manifest.ident
<1>1. ASSUME NEW r \in Tenants \cup {None}, Open(r) PROVE manifest'.ident = manifest.ident
  BY <1>1 DEF Open, TypeOK
<1> QED BY <1>1 DEF Next, vars, bundle, Collect, Abort, WriteReportPack, ResolveIdentity, BundleReport,
       BundleSummary, Cite, StartIndex, FinishIndex, WriteContext, Validate, Seal, Stop, LoseHashes, Plant

\* finalize_bundle_contract: a recorded conflict is carried into every later manifest.
THEOREM ConflictIsKept == Spec => ConflictStays
<1>1. IInv /\ [Next]_vars =>
        (manifest.ident.status = "conflict" =>
           /\ manifest'.ident.status = "conflict"
           /\ manifest.ident.conflicts \subseteq manifest'.ident.conflicts)
  <2> SUFFICES ASSUME IInv, [Next]_vars, manifest.ident.status = "conflict"
               PROVE  /\ manifest'.ident.status = "conflict"
                      /\ manifest.ident.conflicts \subseteq manifest'.ident.conflicts
    OBVIOUS
  <2>1. CASE BundleManifest
    <3>1. pc = "manifest" /\ manifest'.ident = mem.ident
      BY <2>1 DEF BundleManifest
    <3> QED BY <3>1, ManifestFollows DEF IInv, Keeps
  <2> QED BY <2>1, OthersKeepIdentity DEF IInv
<1> QED BY <1>1, InvariantInductive, PTL DEF Spec, ConflictStays

-----------------------------------------------------------------------------
(* A folder keeps BundlePromise.                                           *)

\* A folder older than hashes has no valid contract, so none is accepted.
LEMMA AcceptedIsVerified ==
    ASSUME IInv, GateAccepts
    PROVE  Integrity = "verified" /\ hashes.files = {Files} /\ extra = hashes.listed
<1>1. ASSUME Integrity = "absent" PROVE FALSE
  <2>1. ~manifest.lists
    BY <1>1 DEF Integrity, IInv, TypeOK
  <2> QED BY <2>1 DEF IInv, NamedHolds, GateAccepts
<1>2. Integrity = "verified"
  BY <1>1 DEF GateAccepts
<1> QED BY <1>2 DEF Integrity

\* What the gate accepts was sealed, and its tenant owns the folder.
LEMMA AcceptedIsOwned ==
    ASSUME IInv, GateAccepts
    PROVE  /\ Accepted \in [ver : Versions, tenant : Tenants \cup {None}] /\ Accepted # None
           /\ Accepted = [ver |-> manifest.ver, tenant |-> manifest.ident.tenant]
           /\ hashes.files = {Files}
           /\ manifest.ident.tenant # None => owner = manifest.ident.tenant
<1>1. manifest.ver \in Versions /\ manifest.ident.tenant \in Tenants \cup {None}
  BY DEF IInv, TypeOK, Identities
<1>2. Accepted = [ver |-> manifest.ver, tenant |-> manifest.ident.tenant]
  BY DEF Accepted
<1>3. Accepted \in [ver : Versions, tenant : Tenants \cup {None}] /\ Versions \subseteq Nat
  BY <1>1, <1>2, FinalizeConstantsOk DEF Versions
<1>4. Accepted # None
  BY <1>3, FinalizeConstantsOk
<1>5. hashes.files = {Files} /\ extra = hashes.listed
  BY AcceptedIsVerified
<1>6. "link" \notin extra
  BY <1>5 DEF IInv, SealedHolds
<1>7. Acceptable(Files) /\ Files[4] = manifest
  BY ValidIsOfFiles DEF GateAccepts, Files
<1> QED BY <1>2, <1>3, <1>4, <1>5, <1>6, <1>7 DEF IInv, OwnerHolds

\* So it does in the next state.
LEMMA AcceptedIsOwnedNext ==
    (IInv /\ GateAccepts =>
        /\ hashes.files = {Files}
        /\ manifest.ident.tenant # None => owner = manifest.ident.tenant)'
<1>1. IInv /\ GateAccepts =>
        /\ hashes.files = {Files}
        /\ manifest.ident.tenant # None => owner = manifest.ident.tenant
  BY AcceptedIsOwned
<1> QED BY <1>1, PTL

\* The owner is the tenant of the manifest, unless that has a conflict.
LEMMA OwnerIsNamed ==
    ASSUME IInv, manifest.ident.tenant # None
    PROVE  owner \in {None, manifest.ident.tenant}
<1>1. manifest.ident.status = "verified"
  BY DEF IInv, NamedHolds, WellFormed
<1>2. named = {manifest.ident.tenant}
  BY <1>1 DEF IInv, NamedHolds, If
<1> QED BY <1>2 DEF IInv, OwnerHolds

\* The owner changes when a bundle is sealed and accepted, and at no other time.
LEMMA OwnerChanges ==
    [Next]_vars => \/ owner' = owner
                   \/ /\ Seal /\ GateAccepts' /\ manifest.ident.tenant # None
                      /\ owner' = manifest.ident.tenant /\ manifest' = manifest
BY DEF Next, vars, bundle, history, Open, Collect, Abort, WriteReportPack, ResolveIdentity, BundleReport,
       BundleSummary, BundleManifest, Cite, StartIndex, FinishIndex, WriteContext, Validate, Seal, Stop,
       LoseHashes, Plant, Over

\* Hashes that are still there are those of the same files.
LEMMA HashesChange == [Next]_vars => Seal \/ hashes' = hashes \/ hashes' = NoHashes
BY DEF Next, vars, Open, Collect, Abort, WriteReportPack, ResolveIdentity, BundleReport,
       BundleSummary, BundleManifest, Cite, StartIndex, FinishIndex, WriteContext, Validate, Seal, Stop,
       LoseHashes, Plant

LEMMA StepIsPromised ==
    ASSUME IInv, IInv', [Next]_vars
    PROVE  [Promise!Next]_<<Accepted, owner>>
<1>1. CASE ~GateAccepts'
  <2>1. Accepted' = None /\ owner' = owner
    BY <1>1, OwnerChanges DEF Accepted
  <2> QED BY <2>1 DEF Promise!Next, Promise!Refuse
<1>2. CASE GateAccepts' /\ ~GateAccepts
  <2> DEFINE b == [ver |-> manifest'.ver, tenant |-> manifest'.ident.tenant]
  <2>1. Accepted = None /\ Accepted' = b
    BY <1>2 DEF Accepted
  <2>2. b \in Promise!Bundles
    <3>1. manifest'.ver \in Versions /\ manifest'.ident.tenant \in Tenants \cup {None}
      BY DEF IInv, TypeOK, Identities, Versions
    <3> QED BY <3>1 DEF Promise!Bundles
  <2>3. b.tenant # None => owner' = b.tenant
    BY <1>2, AcceptedIsOwnedNext
  <2>4. b.tenant = None => owner' = owner
    BY OwnerChanges
  <2>5. b.tenant # None => owner \in {None, b.tenant}
    <3>1. CASE owner' = owner
      BY <2>3, <3>1
    <3>2. CASE owner' # owner
      BY <3>2, OwnerChanges, OwnerIsNamed
    <3> QED BY <3>1, <3>2
  <2>6. Promise!Accept(b)
    BY <2>1, <2>3, <2>4, <2>5 DEF Promise!Accept
  <2> QED BY <2>2, <2>6 DEF Promise!Next
<1>3. CASE GateAccepts' /\ GateAccepts
  <2>1. hashes.files = {Files} /\ hashes'.files = {Files'}
    BY <1>3, AcceptedIsOwned, AcceptedIsOwnedNext
  <2>2. manifest' = manifest
    <3>1. CASE Seal
      BY <3>1 DEF Seal, bundle
    <3>2. CASE hashes' = hashes
      <4>1. Files' = Files
        BY <2>1, <3>2
      <4> QED BY <4>1 DEF Files
    <3>3. hashes' # NoHashes
      BY <2>1 DEF NoHashes
    <3> QED BY <3>1, <3>2, <3>3, HashesChange
  <2>3. Accepted' = Accepted
    BY <1>3, <2>2 DEF Accepted
  <2>4. owner' = owner
    BY <1>3, AcceptedIsOwned, OwnerChanges
  <2> QED BY <2>3, <2>4
<1> QED BY <1>1, <1>2, <1>3

\* ImplementsPromise: what the gate accepts of a folder, over any sessions, stops and losses,
\* is what BundlePromise allows.
THEOREM PromiseIsImplemented == Spec => ImplementsPromise
<1>1. Init => Promise!Init
  <2> SUFFICES ASSUME Init PROVE Promise!Init
    OBVIOUS
  <2>1. ~GateAccepts
    BY DEF Init, NoManifest, GateAccepts
  <2> QED BY <2>1 DEF Init, Promise!Init, Accepted
<1> QED BY <1>1, StepIsPromised, InvariantInductive, PTL DEF Spec, ImplementsPromise, Promise!Spec
=============================================================================
