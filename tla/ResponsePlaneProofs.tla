------------------------ MODULE ResponsePlaneProofs ------------------------
(***************************************************************************)
(* What a response may run and what its folder says of it, for any         *)
(* actions, guards and commands, and any number of responses over one      *)
(* folder, stopped anywhere.                                               *)
(***************************************************************************)
EXTENDS ResponsePlane, FiniteSetTheorems, FunctionTheorems, TLAPS

-----------------------------------------------------------------------------
(* The inductive invariant, one part per fact. *)

Running == pc \in {"plan", "try", "row", "keep"}

\* A response that passed the guards has none against it, until a command failed.
PassedHolds ==
    /\ pc \in {"plan", "try", "row", "keep"} => Blocks(req) = {} /\ blocks = {}
    /\ pc \in {"try", "row"} \/ (pc = "keep" /\ outcome # "skipped") => req.execute
    /\ pc = "plan" \/ (pc = "keep" /\ outcome = "skipped") => ~req.execute
    /\ Running => k <= Commands
    /\ pc = "keep" => outcome \in {"skipped", "ok", "failed"}
    /\ pc = "row" => outcome \in {"ok", "failed"}

\* What was run was run by a response that had begun and passed its guards, before its manifest.
RanHolds ==
    /\ pc # "idle" => n \in 1..MaxResponses
    /\ \A x \in ran : x[1] \in 1..n
    /\ pc # "idle" /\ (\E x \in ran : x[1] = n) => Blocks(req) = {} /\ req.execute
    /\ pc = "row" => <<n, k>> \in ran
    /\ pc \notin {"idle", "hashes"} => manifest.of < n

\* While commands are tried none of them was accepted but the last, and those before it have rows.
TriedHolds ==
    /\ pc = "try" => \A x \in ran : x[1] = n => x[2] < k
    /\ pc \in {"row", "keep"} => \A x \in ran : x[1] = n => x[2] <= k
    /\ pc = "try" \/ (pc \in {"row", "keep"} /\ outcome = "failed") => \A a \in accepted : a[1] # n
    /\ pc \in {"row", "keep"} => \A a \in accepted : a[1] = n => a[2] = k
    /\ pc \in {"row", "keep"} /\ outcome = "ok" => <<n, k>> \in accepted
    /\ pc \in {"try", "row", "keep"} =>
         \A x \in ran : x[1] = n /\ (pc = "row" => x[2] # k) =>
            \E o \in {"ok", "failed"} : <<x[1], x[2], o>> \in index
    /\ pc = "keep" /\ outcome = "skipped" => \A x \in ran : x[1] # n
    /\ pc = "plan" => \A x \in ran : x[1] # n

\* The loop behind it, a response was accepted once or not at all, and its blockers say which.
EndHolds ==
    pc \in {"describe", "block", "findings", "ledger", "default", "report", "manifest", "hashes"} =>
        /\ (\E a \in accepted : a[1] = n) <=> outcome = "ok"
        /\ outcome = "ok" => blocks = {}
        /\ blocks = {} => (req.execute <=> outcome = "ok")

\* Blockers have their findings before the report is written.
BlockedHolds ==
    /\ pc \in {"block", "findings"} => blocks # {}
    /\ pc = "describe" => blocks = {}
    /\ pc \in {"ledger", "default", "report", "manifest", "hashes"} /\ blocks # {} =>
         findings = [of |-> n, ids |-> Ids]

\* The files that a response has written are its own.
WrittenHolds ==
    /\ pc \in {"manifest", "hashes"} => report = [of |-> n, ids |-> Ids]
    /\ pc = "hashes" => manifest.of = n /\ manifest.status = (IF blocks = {} THEN "ok" ELSE "partial")
    /\ pc \in {"ledger", "default", "report", "manifest", "hashes"} /\ blocks = {} =>
         desc = [of |-> n, kind |-> IF outcome = "ok" THEN "ran" ELSE "planned"]
    /\ pc \in {"default", "report", "manifest", "hashes"} =>
         ledger.of = n /\ (ledger.status = "complete" <=> outcome = "ok")
    /\ findings.of = 0 <=> findings.ids = {}

\* A count is of the findings that are there, and only a response with blockers writes them.
CountHolds ==
    /\ findings.of = 0 => manifest.count = 0 /\ count = 0
    /\ pc # "idle" /\ findings.of = n => blocks # {}
    /\ pc \in {"ledger", "default", "report", "manifest", "hashes"} /\ blocks # {} => count = Cardinality(Ids)
    /\ pc = "hashes" => manifest.count = count

\* A sealed folder is as its last response left it.
SealedHolds ==
    sealed =>
        /\ report.of = manifest.of
        /\ manifest.status = "partial" <=> report.ids # {}
        /\ report.ids # {} => /\ findings = report
                              /\ manifest.count = Cardinality(report.ids)
        /\ manifest.of > 0 /\ findings.of = manifest.of => report.ids # {}
        /\ manifest.status = "ok" => desc.of = manifest.of /\ desc.kind # "blocked"
        /\ manifest.of > 0 =>
             /\ ledger.of = manifest.of
             /\ (\E a \in accepted : a[1] = manifest.of) <=> ledger.status = "complete"
             /\ ledger.status = "complete" => manifest.status = "ok" /\ desc.kind = "ran"

IInv ==
    /\ TypeOK /\ PassedHolds /\ RanHolds /\ TriedHolds /\ EndHolds /\ BlockedHolds /\ WrittenHolds
    /\ CountHolds /\ SealedHolds /\ AcceptedOnce /\ RowsOutliveStops

-----------------------------------------------------------------------------
LEMMA ClassesFinite == ASSUME NEW S \in SUBSET Classes PROVE IsFiniteSet(S) /\ Cardinality(S) \in Nat
<1> DEFINE A == Checks \cup {"unknown_action"}
           B == A \cup {"command_override"}
           C == B \cup {"toolchain"}
           D == C \cup {"write_guard"}
           E == D \cup {"missing_argument"}
           F == E \cup {"command_error"}
<1>1. IsFiniteSet(A)
  BY ResponseConstantsOk, FS_AddElement
<1>2. IsFiniteSet(B)
  <2> HIDE DEF A
  <2> QED BY <1>1, FS_AddElement
<1>3. IsFiniteSet(C)
  <2> HIDE DEF B
  <2> QED BY <1>2, FS_AddElement
<1>4. IsFiniteSet(D)
  <2> HIDE DEF C
  <2> QED BY <1>3, FS_AddElement
<1>5. IsFiniteSet(E)
  <2> HIDE DEF D
  <2> QED BY <1>4, FS_AddElement
<1>6. IsFiniteSet(F)
  <2> HIDE DEF E
  <2> QED BY <1>5, FS_AddElement
<1>7. S \subseteq F
  BY DEF Classes
<1> HIDE DEF F
<1> QED BY <1>6, <1>7, FS_Subset, FS_CardinalityType

\* The guards name classes, and none of them when nothing is against the request.
LEMMA BlocksAreClasses ==
    ASSUME NEW r \in Requests
    PROVE  /\ Blocks(r) \subseteq Classes
           /\ Blocks(r) = {} => /\ r.adapter = "ready" /\ r.complete /\ r.refused = {}
                                /\ r.action \in Actions /\ r.override # "refused"
                                /\ r.action = Trace \/ r.write
BY DEF Blocks, If, WriteGuard, Classes, Requests

LEMMA RequestsOfType == NoRequest \in Requests
BY DEF NoRequest, Requests

\* An override has one command, and no more.
LEMMA CommandsOfType == Commands \in Ranks /\ 1 \in Ranks /\ Ranks \subseteq Nat
BY ResponseConstantsOk DEF Commands, Ranks

LEMMA TypeInit == Init => TypeOK
<1> SUFFICES ASSUME Init PROVE TypeOK
  OBVIOUS
<1>1. req \in Requests /\ k \in Ranks
  BY RequestsOfType, CommandsOfType DEF Init
<1>2. raw \in [Actions \X Slots -> 0..n]
  BY DEF Init
<1>3. n = 0 /\ n \in 0..MaxResponses
  BY ResponseConstantsOk DEF Init
<1>4. findings \in [of : 0..n, ids : SUBSET ((Actions \cup {Unknown}) \X Classes)]
      /\ report = findings
  BY <1>3 DEF Init, NoFindings
<1>5. desc \in [of : 0..n, kind : {"absent", "planned", "ran", "blocked"}]
      /\ manifest \in [of : 0..n, status : {"absent", "ok", "partial"}, count : Nat, valid : BOOLEAN]
      /\ ledger \in [of : 0..n, status : {"absent", "blocked", "complete", "planned"}]
  BY <1>3 DEF Init
<1>6. index = {} /\ ran = {} /\ accepted = {} /\ cut = {} /\ blocks = {}
  BY DEF Init
<1>7. blockers \in 0..n /\ count \in Nat
  BY <1>3 DEF Init
<1>8. sealed = FALSE /\ pc = "idle" /\ outcome = "none"
  BY DEF Init
<1> QED BY <1>1, <1>2, <1>3, <1>4, <1>5, <1>6, <1>7, <1>8 DEF TypeOK

LEMMA IdsOfType ==
    ASSUME TypeOK
    PROVE  Ids \subseteq (Actions \cup {Unknown}) \X Classes /\ (Ids = {} <=> blocks = {})
<1>1. req.action \in Actions \cup {Unknown}
  BY DEF TypeOK, Requests
<1>2. blocks \subseteq Classes
  BY DEF TypeOK
<1>3. \A b \in blocks : <<req.action, b>> \in Ids
  BY DEF Ids
<1>4. \A x \in Ids : \E b \in blocks : x = <<req.action, b>>
  BY DEF Ids
<1> HIDE DEF Ids
<1>5. Ids \subseteq (Actions \cup {Unknown}) \X Classes
  BY <1>1, <1>2, <1>4
<1> QED BY <1>3, <1>4, <1>5

\* There is one finding for each blocker.
LEMMA IdsCount ==
    ASSUME TypeOK
    PROVE  Cardinality(Ids) = Cardinality(blocks)
<1> DEFINE f == [b \in blocks |-> <<req.action, b>>]
<1>1. IsFiniteSet(blocks)
  BY ClassesFinite DEF TypeOK
<1>2. f \in Bijection(blocks, Ids)
  <2>1. f \in [blocks -> Ids]
    BY DEF Ids
  <2>2. \A x \in Ids : \E b \in blocks : f[b] = x
    BY DEF Ids
  <2>3. \A a, b \in blocks : f[a] = f[b] => a = b
    OBVIOUS
  <2> QED BY <2>1, <2>2, <2>3, Fun_IsBij
<1> QED BY <1>1, <1>2, FS_Bijection DEF ExistsBijection

LEMMA TypeOver ==
    ASSUME TypeOK, Over, UNCHANGED <<folder, n, ran, accepted>>, sealed' \in BOOLEAN,
           cut' \subseteq ran
    PROVE  TypeOK'
BY RequestsOfType, CommandsOfType DEF TypeOK, Over, folder

LEMMA TypeNext == TypeOK /\ PassedHolds /\ RanHolds /\ [Next]_vars => TypeOK'
<1> SUFFICES ASSUME TypeOK, PassedHolds, RanHolds, [Next]_vars PROVE TypeOK'
  OBVIOUS
<1> USE DEF folder, plan, history, Write
<1>0. n \in Nat /\ MaxResponses \in Nat /\ (pc # "idle" => n \in 1..n)
  BY ResponseConstantsOk DEF TypeOK, RanHolds
<1>1. ASSUME NEW r \in Requests, Begin(r) PROVE TypeOK'
  <2>1. n' = n + 1 /\ n' \in 0..MaxResponses /\ 1..n \subseteq 1..n' /\ 0..n \subseteq 0..n'
    BY <1>0, <1>1 DEF Begin, TypeOK
  <2>2. blocks' \subseteq Classes /\ k' \in Ranks
    BY <1>1, BlocksAreClasses, CommandsOfType DEF Begin
  <2>3. /\ raw' \in [Actions \X Slots -> 0..n']
        /\ desc' \in [of : 0..n', kind : {"absent", "planned", "ran", "blocked"}]
        /\ manifest' \in [of : 0..n', status : {"absent", "ok", "partial"}, count : Nat, valid : BOOLEAN]
        /\ ledger' \in [of : 0..n', status : {"absent", "blocked", "complete", "planned"}]
        /\ findings' \in [of : 0..n', ids : SUBSET ((Actions \cup {Unknown}) \X Classes)]
        /\ report' \in [of : 0..n', ids : SUBSET ((Actions \cup {Unknown}) \X Classes)]
    BY <1>1, <2>1 DEF Begin, TypeOK
  <2>4. index' \subseteq (1..n') \X Ranks \X {"skipped", "ok", "failed"}
    BY <1>1, <2>1 DEF Begin, TypeOK
  <2>5. ran' \subseteq (1..n') \X Ranks /\ accepted' \subseteq ran' /\ cut' \subseteq ran'
    BY <1>1, <2>1 DEF Begin, TypeOK
  <2>6. pc' \in {"block", "try", "plan"} /\ outcome' = "none" /\ count' = manifest.count
        /\ blockers' = blockers /\ sealed' = sealed /\ req' \in Requests
    BY <1>1 DEF Begin
  <2>7. count' \in Nat /\ blockers' \in 0..n' /\ sealed' \in BOOLEAN
    BY <2>6, <2>1 DEF TypeOK
  <2> QED BY <2>1, <2>2, <2>3, <2>4, <2>5, <2>6, <2>7 DEF TypeOK
<1>2. CASE Plan
  <2>1. {<<n, i, "skipped">> : i \in 1..Commands} \subseteq (1..n) \X Ranks \X {"skipped", "ok", "failed"}
    BY <1>0, <1>2, CommandsOfType, ResponseConstantsOk DEF Plan, Ranks, Commands
  <2> QED BY <1>2, <2>1 DEF Plan, TypeOK
<1>3. CASE Try
  <2>1. <<n, k>> \in (1..n) \X Ranks
    BY <1>0, <1>3 DEF Try, TypeOK
  <2> QED BY <1>3, <2>1 DEF Try, TypeOK
<1>4. CASE RecordRow
  <2>1. <<n, k, outcome>> \in (1..n) \X Ranks \X {"skipped", "ok", "failed"}
    BY <1>0, <1>4 DEF RecordRow, TypeOK, PassedHolds
  <2> QED BY <1>4, <2>1 DEF RecordRow, TypeOK
<1>5. CASE Keep
  <2>1. n \in 0..n /\ raw' \in [Actions \X Slots -> 0..n]
    <3>1. n \in 0..n
      BY <1>0, <1>5 DEF Keep
    <3>2. raw \in [Actions \X Slots -> 0..n]
      BY DEF TypeOK
    <3>3. PICK s : raw' = [raw EXCEPT ![s] = n]
      BY <1>5 DEF Keep
    <3> QED BY <3>1, <3>2, <3>3
  <2>2. k' \in Ranks
    <3>1. k \in Nat /\ k <= Commands /\ 1 <= k /\ k \in Ranks
      BY <1>5 DEF Keep, PassedHolds, Running, TypeOK, Ranks
    <3>2. Commands \in Nat /\ Commands <= Variants
      BY CommandsOfType, ResponseConstantsOk DEF Commands, Ranks
    <3> QED BY <1>5, <3>1, <3>2, ResponseConstantsOk DEF Keep, Tried, Ranks
  <2>3. blocks' \subseteq Classes
    BY <1>5 DEF Keep, TypeOK, If, Classes
  <2>4. pc' \in {"try", "block", "describe"}
    BY <1>5 DEF Keep
  <2> QED BY <1>5, <2>1, <2>2, <2>3, <2>4 DEF Keep, TypeOK
<1>6. CASE Describe
  <2>1. desc' \in [of : 0..n, kind : {"absent", "planned", "ran", "blocked"}]
    BY <1>0, <1>6 DEF Describe
  <2> QED BY <1>6, <2>1 DEF Describe, TypeOK
<1>7. CASE WriteBlockers
  <2>1. blockers' \in 0..n
    BY <1>0, <1>7 DEF WriteBlockers
  <2> QED BY <1>7, <2>1 DEF WriteBlockers, TypeOK
<1>8. CASE WriteFindings
  <2>1. Cardinality(blocks) \in Nat
    BY ClassesFinite DEF TypeOK
  <2>2. findings' \in [of : 0..n, ids : SUBSET ((Actions \cup {Unknown}) \X Classes)]
    BY <1>0, <1>8, IdsOfType DEF WriteFindings
  <2> QED BY <1>8, <2>1, <2>2 DEF WriteFindings, TypeOK
<1>9. CASE DescribeBlocked
  <2>1. desc' \in [of : 0..n, kind : {"absent", "planned", "ran", "blocked"}]
    BY <1>0, <1>9 DEF DescribeBlocked, TypeOK
  <2> QED BY <1>9, <2>1 DEF DescribeBlocked, TypeOK
<1>10. CASE WriteReport
  <2>1. report' \in [of : 0..n, ids : SUBSET ((Actions \cup {Unknown}) \X Classes)]
    BY <1>0, <1>10, IdsOfType DEF WriteReport
  <2> QED BY <1>10, <2>1 DEF WriteReport, TypeOK
<1>11. CASE WriteManifest
  <2>1. manifest' \in [of : 0..n, status : {"absent", "ok", "partial"}, count : Nat, valid : BOOLEAN]
    BY <1>0, <1>11 DEF WriteManifest, TypeOK
  <2> QED BY <1>11, <2>1 DEF WriteManifest, TypeOK
<1>12. CASE WriteHashes
  BY <1>12, TypeOver DEF WriteHashes, TypeOK
<1>13. CASE Stop
  <2>1. cut' \subseteq ran
    BY <1>13 DEF Stop, TypeOK, RanHolds
  <2> QED BY <1>13, <2>1, TypeOver DEF Stop, TypeOK
<1>15. CASE WriteLedger
  <2>1. ledger' \in [of : 0..n, status : {"absent", "blocked", "complete", "planned"}]
    BY <1>0, <1>15 DEF WriteLedger
  <2> QED BY <1>15, <2>1 DEF WriteLedger, TypeOK
<1>14. CASE UNCHANGED vars
  BY <1>14 DEF vars, TypeOK
<1> QED BY <1>1, <1>2, <1>3, <1>4, <1>5, <1>6, <1>7, <1>8, <1>9, <1>10, <1>11, <1>12, <1>13, <1>14, <1>15 DEF Next

\* The guards are looked at once; only a failed command adds a blocker afterwards.
LEMMA PassedNext == TypeOK /\ PassedHolds /\ [Next]_vars => PassedHolds'
<1> SUFFICES ASSUME TypeOK, PassedHolds, [Next]_vars PROVE PassedHolds'
  OBVIOUS
<1> USE DEF folder, plan, history, Write, Over, PassedHolds, Running
<1>0. n \in Nat /\ MaxResponses \in Nat /\ k \in Nat /\ ran \subseteq Nat \X Nat
  BY ResponseConstantsOk DEF TypeOK, Ranks
<1>c. req' = req => Commands' = Commands /\ Blocks(req)' = Blocks(req)
  BY DEF Commands
<1>1. ASSUME NEW r \in Requests, Begin(r) PROVE PassedHolds'
  <2>1. 1 <= Commands'
    BY CommandsOfType, ResponseConstantsOk DEF Commands
  <2> QED BY <1>0, <1>1, <2>1 DEF Begin
<1>2. CASE Plan
  BY <1>0, <1>c, <1>2 DEF Plan
<1>3. CASE Try
  BY <1>0, <1>c, <1>3 DEF Try
<1>4. CASE RecordRow
  BY <1>0, <1>c, <1>4 DEF RecordRow
<1>5. CASE Keep
  <2>1. Commands' = Commands /\ Commands \in Nat /\ Blocks(req)' = Blocks(req)
    BY <1>5, CommandsOfType DEF Keep, Commands
  <2>2. CASE outcome # "skipped" /\ ~Tried
    BY <1>0, <1>5, <2>1, <2>2 DEF Keep, Tried
  <2>3. CASE ~(outcome # "skipped" /\ ~Tried)
    BY <1>5, <2>3 DEF Keep
  <2> QED BY <2>2, <2>3
<1>6. CASE Describe
  BY <1>0, <1>c, <1>6 DEF Describe
<1>7. CASE WriteBlockers
  BY <1>0, <1>c, <1>7 DEF WriteBlockers
<1>8. CASE WriteFindings
  BY <1>0, <1>c, <1>8 DEF WriteFindings
<1>9. CASE DescribeBlocked
  BY <1>0, <1>c, <1>9 DEF DescribeBlocked
<1>10. CASE WriteReport
  BY <1>0, <1>c, <1>10 DEF WriteReport
<1>11. CASE WriteManifest
  BY <1>0, <1>c, <1>11 DEF WriteManifest
<1>12. CASE WriteHashes
  BY <1>0, <1>c, <1>12 DEF WriteHashes
<1>13. CASE Stop
  BY <1>0, <1>c, <1>13 DEF Stop
<1>15. CASE WriteLedger
  BY <1>0, <1>c, <1>15 DEF WriteLedger
<1>14. CASE UNCHANGED vars
  BY <1>0, <1>c, <1>14 DEF vars
<1> QED BY <1>1, <1>2, <1>3, <1>4, <1>5, <1>6, <1>7, <1>8, <1>9, <1>10, <1>11, <1>12, <1>13, <1>14, <1>15 DEF Next

\* A command is run by the response in progress, which has passed its guards.
LEMMA RanNext == TypeOK /\ PassedHolds /\ RanHolds /\ [Next]_vars => RanHolds'
<1> SUFFICES ASSUME TypeOK, PassedHolds, RanHolds, [Next]_vars PROVE RanHolds'
  OBVIOUS
<1> USE DEF folder, plan, history, Write, Over, RanHolds
<1>0. n \in Nat /\ MaxResponses \in Nat /\ k \in Nat /\ ran \subseteq Nat \X Nat
  BY ResponseConstantsOk DEF TypeOK, Ranks
<1>1. ASSUME NEW r \in Requests, Begin(r) PROVE RanHolds'
  <2>1. manifest.of \in Nat /\ manifest.of < n + 1
    BY <1>0 DEF TypeOK
  <2> QED BY <1>0, <1>1, <2>1, BlocksAreClasses DEF Begin
<1>2. CASE Plan
  BY <1>0, <1>2 DEF Plan
<1>3. CASE Try
  BY <1>0, <1>3 DEF Try, PassedHolds
<1>4. CASE RecordRow
  BY <1>0, <1>4 DEF RecordRow
<1>5. CASE Keep
  BY <1>0, <1>5 DEF Keep
<1>6. CASE Describe
  BY <1>0, <1>6 DEF Describe
<1>7. CASE WriteBlockers
  BY <1>0, <1>7 DEF WriteBlockers
<1>8. CASE WriteFindings
  BY <1>0, <1>8 DEF WriteFindings
<1>9. CASE DescribeBlocked
  BY <1>0, <1>9 DEF DescribeBlocked
<1>10. CASE WriteReport
  BY <1>0, <1>10 DEF WriteReport
<1>11. CASE WriteManifest
  BY <1>0, <1>11 DEF WriteManifest
<1>12. CASE WriteHashes
  BY <1>0, <1>12 DEF WriteHashes
<1>13. CASE Stop
  BY <1>0, <1>13 DEF Stop
<1>15. CASE WriteLedger
  BY <1>0, <1>15 DEF WriteLedger
<1>14. CASE UNCHANGED vars
  BY <1>0, <1>14 DEF vars
<1> QED BY <1>1, <1>2, <1>3, <1>4, <1>5, <1>6, <1>7, <1>8, <1>9, <1>10, <1>11, <1>12, <1>13, <1>14, <1>15 DEF Next

\* The commands of a response are tried in turn, and no further than the first that is accepted.
LEMMA TriedNext == TypeOK /\ PassedHolds /\ RanHolds /\ TriedHolds /\ [Next]_vars => TriedHolds'
<1> SUFFICES ASSUME TypeOK, PassedHolds, RanHolds, TriedHolds, [Next]_vars PROVE TriedHolds'
  OBVIOUS
<1> USE DEF folder, plan, history, Write, Over, TriedHolds
<1>0. n \in Nat /\ MaxResponses \in Nat /\ k \in Nat /\ ran \subseteq Nat \X Nat
  BY ResponseConstantsOk DEF TypeOK, Ranks
<1>a. accepted \subseteq ran
  BY DEF TypeOK
<1>1. ASSUME NEW r \in Requests, Begin(r) PROVE TriedHolds'
  <2>1. \A x \in ran : x[1] # n'
    BY <1>0, <1>1 DEF Begin, RanHolds
  <2> QED BY <1>0, <1>1, <1>a, <2>1 DEF Begin
<1>2. CASE Plan
  BY <1>0, <1>a, <1>2 DEF Plan
<1>3. CASE Try
  BY <1>0, <1>a, <1>3 DEF Try
<1>4. CASE RecordRow
  BY <1>0, <1>a, <1>4 DEF RecordRow, PassedHolds
<1>5. CASE Keep
  <2>1. CASE outcome # "skipped" /\ ~Tried
    BY <1>0, <1>a, <1>5, <2>1 DEF Keep, Tried
  <2>2. CASE ~(outcome # "skipped" /\ ~Tried)
    BY <1>5, <2>2 DEF Keep
  <2> QED BY <2>1, <2>2
<1>6. CASE Describe
  BY <1>0, <1>a, <1>6 DEF Describe
<1>7. CASE WriteBlockers
  BY <1>0, <1>a, <1>7 DEF WriteBlockers
<1>8. CASE WriteFindings
  BY <1>0, <1>a, <1>8 DEF WriteFindings
<1>9. CASE DescribeBlocked
  BY <1>0, <1>a, <1>9 DEF DescribeBlocked
<1>10. CASE WriteReport
  BY <1>0, <1>a, <1>10 DEF WriteReport
<1>11. CASE WriteManifest
  BY <1>0, <1>a, <1>11 DEF WriteManifest
<1>12. CASE WriteHashes
  BY <1>0, <1>a, <1>12 DEF WriteHashes
<1>13. CASE Stop
  BY <1>0, <1>a, <1>13 DEF Stop
<1>15. CASE WriteLedger
  BY <1>0, <1>a, <1>15 DEF WriteLedger
<1>14. CASE UNCHANGED vars
  BY <1>0, <1>a, <1>14 DEF vars
<1> QED BY <1>1, <1>2, <1>3, <1>4, <1>5, <1>6, <1>7, <1>8, <1>9, <1>10, <1>11, <1>12, <1>13, <1>14, <1>15 DEF Next

\* An accepted command is the last of its response.
LEMMA OnceNext == TypeOK /\ TriedHolds /\ RanHolds /\ AcceptedOnce /\ [Next]_vars => AcceptedOnce'
<1> SUFFICES ASSUME TypeOK, TriedHolds, RanHolds, AcceptedOnce, [Next]_vars PROVE AcceptedOnce'
  OBVIOUS
<1> USE DEF folder, plan, history, Write, Over, AcceptedOnce
<1>0. n \in Nat /\ MaxResponses \in Nat /\ k \in Nat /\ ran \subseteq Nat \X Nat
  BY ResponseConstantsOk DEF TypeOK, Ranks
<1>1. ASSUME NEW r \in Requests, Begin(r) PROVE AcceptedOnce'
  BY <1>0, <1>1, BlocksAreClasses DEF Begin
<1>2. CASE Plan
  BY <1>0, <1>2 DEF Plan
<1>3. CASE Try
  <2>1. \A x \in ran : x[1] = n => x[2] < k
    BY <1>3 DEF Try, TriedHolds
  <2>2. \A a \in accepted : a[1] # n
    BY <1>3 DEF Try, TriedHolds
  <2> QED BY <1>0, <1>3, <2>1, <2>2 DEF Try
<1>4. CASE RecordRow
  BY <1>0, <1>4 DEF RecordRow
<1>5. CASE Keep
  BY <1>0, <1>5 DEF Keep
<1>6. CASE Describe
  BY <1>0, <1>6 DEF Describe
<1>7. CASE WriteBlockers
  BY <1>0, <1>7 DEF WriteBlockers
<1>8. CASE WriteFindings
  BY <1>0, <1>8 DEF WriteFindings
<1>9. CASE DescribeBlocked
  BY <1>0, <1>9 DEF DescribeBlocked
<1>10. CASE WriteReport
  BY <1>0, <1>10 DEF WriteReport
<1>11. CASE WriteManifest
  BY <1>0, <1>11 DEF WriteManifest
<1>12. CASE WriteHashes
  BY <1>0, <1>12 DEF WriteHashes
<1>13. CASE Stop
  BY <1>0, <1>13 DEF Stop
<1>15. CASE WriteLedger
  BY <1>0, <1>15 DEF WriteLedger
<1>14. CASE UNCHANGED vars
  BY <1>0, <1>14 DEF vars
<1> QED BY <1>1, <1>2, <1>3, <1>4, <1>5, <1>6, <1>7, <1>8, <1>9, <1>10, <1>11, <1>12, <1>13, <1>14, <1>15 DEF Next

\* A command is followed by another of its response only when it has its row.
LEMMA RowsNext == TypeOK /\ PassedHolds /\ RowsOutliveStops /\ [Next]_vars => RowsOutliveStops'
<1> SUFFICES ASSUME TypeOK, PassedHolds, RowsOutliveStops, [Next]_vars PROVE RowsOutliveStops'
  OBVIOUS
<1> USE DEF folder, plan, history, Write, Over, RowsOutliveStops
<1>0. n \in Nat /\ MaxResponses \in Nat /\ k \in Nat /\ ran \subseteq Nat \X Nat
  BY ResponseConstantsOk DEF TypeOK, Ranks
<1>1. ASSUME NEW r \in Requests, Begin(r) PROVE RowsOutliveStops'
  BY <1>0, <1>1, BlocksAreClasses DEF Begin
<1>2. CASE Plan
  BY <1>0, <1>2 DEF Plan
<1>3. CASE Try
  BY <1>3 DEF Try
<1>4. CASE RecordRow
  <2>1. outcome \in {"ok", "failed"} /\ <<n, k, outcome>> \in index'
    BY <1>4 DEF RecordRow, PassedHolds
  <2>2. \E o \in {"ok", "failed"} : <<n, k, o>> \in index'
    BY <2>1
  <2>3. index \subseteq index' /\ ran' = ran /\ cut' = cut
    BY <1>4 DEF RecordRow
  <2> SUFFICES ASSUME NEW x \in ran \ cut
               PROVE  \E o \in {"ok", "failed"} : <<x[1], x[2], o>> \in index'
    BY <2>3
  <2>4. CASE x = <<n, k>>
    <3>1. x[1] = n /\ x[2] = k
      BY <2>4
    <3> QED BY <2>2, <3>1
  <2>5. CASE x # <<n, k>>
    BY <2>3, <2>5
  <2> QED BY <2>4, <2>5
<1>5. CASE Keep
  BY <1>0, <1>5 DEF Keep
<1>6. CASE Describe
  BY <1>0, <1>6 DEF Describe
<1>7. CASE WriteBlockers
  BY <1>0, <1>7 DEF WriteBlockers
<1>8. CASE WriteFindings
  BY <1>0, <1>8 DEF WriteFindings
<1>9. CASE DescribeBlocked
  BY <1>0, <1>9 DEF DescribeBlocked
<1>10. CASE WriteReport
  BY <1>0, <1>10 DEF WriteReport
<1>11. CASE WriteManifest
  BY <1>0, <1>11 DEF WriteManifest
<1>12. CASE WriteHashes
  BY <1>0, <1>12 DEF WriteHashes
<1>13. CASE Stop
  BY <1>0, <1>13 DEF Stop
<1>15. CASE WriteLedger
  BY <1>0, <1>15 DEF WriteLedger
<1>14. CASE UNCHANGED vars
  BY <1>0, <1>14 DEF vars
<1> QED BY <1>1, <1>2, <1>3, <1>4, <1>5, <1>6, <1>7, <1>8, <1>9, <1>10, <1>11, <1>12, <1>13, <1>14, <1>15 DEF Next

\* How the loop ended is what the rest of the response writes down.
LEMMA EndNext == TypeOK /\ PassedHolds /\ RanHolds /\ TriedHolds /\ EndHolds /\ [Next]_vars => EndHolds'
<1> SUFFICES ASSUME TypeOK, PassedHolds, RanHolds, TriedHolds, EndHolds, [Next]_vars PROVE EndHolds'
  OBVIOUS
<1> USE DEF folder, plan, history, Write, Over, EndHolds
<1>0. n \in Nat /\ MaxResponses \in Nat /\ k \in Nat /\ ran \subseteq Nat \X Nat
  BY ResponseConstantsOk DEF TypeOK, Ranks
<1>a. accepted \subseteq ran
  BY DEF TypeOK
<1>1. ASSUME NEW r \in Requests, Begin(r) PROVE EndHolds'
  <2>1. \A x \in ran : x[1] # n'
    BY <1>0, <1>1 DEF Begin, RanHolds
  <2> QED BY <1>1, <1>a, <2>1 DEF Begin
<1>2. CASE Plan
  BY <1>2 DEF Plan
<1>3. CASE Try
  BY <1>3 DEF Try
<1>4. CASE RecordRow
  BY <1>4 DEF RecordRow
<1>5. CASE Keep
  <2>1. CASE outcome # "skipped" /\ ~Tried
    BY <1>5, <2>1 DEF Keep
  <2>2. CASE outcome = "skipped"
    BY <1>5, <1>a, <2>2 DEF Keep, PassedHolds, TriedHolds, If
  <2>3. CASE outcome = "failed" /\ Tried
    BY <1>5, <2>3 DEF Keep, PassedHolds, TriedHolds, If
  <2>4. CASE outcome = "ok"
    <3>1. <<n, k>> \in accepted /\ <<n, k>>[1] = n
      BY <1>5, <2>4 DEF Keep, TriedHolds
    <3>2. \E a \in accepted : a[1] = n
      BY <3>1
    <3> QED BY <1>5, <2>4, <3>2 DEF Keep, PassedHolds, Tried, If
  <2> QED BY <1>5, <2>1, <2>2, <2>3, <2>4 DEF Keep, PassedHolds
<1>6. CASE Describe
  BY <1>6 DEF Describe
<1>7. CASE WriteBlockers
  BY <1>7 DEF WriteBlockers
<1>8. CASE WriteFindings
  BY <1>8 DEF WriteFindings
<1>9. CASE DescribeBlocked
  BY <1>9 DEF DescribeBlocked
<1>10. CASE WriteReport
  BY <1>10 DEF WriteReport
<1>11. CASE WriteManifest
  BY <1>11 DEF WriteManifest
<1>12. CASE WriteHashes
  BY <1>12 DEF WriteHashes
<1>13. CASE Stop
  BY <1>13 DEF Stop
<1>15. CASE WriteLedger
  BY <1>15 DEF WriteLedger
<1>14. CASE UNCHANGED vars
  BY <1>14 DEF vars
<1> QED BY <1>1, <1>2, <1>3, <1>4, <1>5, <1>6, <1>7, <1>8, <1>9, <1>10, <1>11, <1>12, <1>13, <1>14, <1>15 DEF Next

\* A response with blockers writes its findings before its report.
LEMMA BlockedNext == TypeOK /\ PassedHolds /\ BlockedHolds /\ [Next]_vars => BlockedHolds'
<1> SUFFICES ASSUME TypeOK, PassedHolds, BlockedHolds, [Next]_vars PROVE BlockedHolds'
  OBVIOUS
<1> USE DEF folder, plan, history, Write, Over, BlockedHolds
<1>0. n \in Nat /\ MaxResponses \in Nat /\ k \in Nat /\ ran \subseteq Nat \X Nat
  BY ResponseConstantsOk DEF TypeOK, Ranks
<1>b. UNCHANGED <<req, blocks>> => Ids' = Ids
  BY DEF Ids
<1>1. ASSUME NEW r \in Requests, Begin(r) PROVE BlockedHolds'
  BY <1>0, <1>b, <1>1, BlocksAreClasses DEF Begin
<1>2. CASE Plan
  BY <1>0, <1>b, <1>2 DEF Plan
<1>3. CASE Try
  BY <1>0, <1>b, <1>3 DEF Try
<1>4. CASE RecordRow
  BY <1>0, <1>b, <1>4 DEF RecordRow
<1>5. CASE Keep
  <2>1. CASE outcome # "skipped" /\ ~Tried
    BY <1>5, <2>1 DEF Keep
  <2>2. CASE ~(outcome # "skipped" /\ ~Tried)
    BY <1>5, <2>2 DEF Keep, PassedHolds, If
  <2> QED BY <2>1, <2>2
<1>6. CASE Describe
  BY <1>0, <1>b, <1>6 DEF Describe
<1>7. CASE WriteBlockers
  BY <1>0, <1>b, <1>7 DEF WriteBlockers
<1>8. CASE WriteFindings
  BY <1>0, <1>b, <1>8 DEF WriteFindings
<1>9. CASE DescribeBlocked
  BY <1>0, <1>b, <1>9 DEF DescribeBlocked
<1>10. CASE WriteReport
  BY <1>0, <1>b, <1>10 DEF WriteReport
<1>11. CASE WriteManifest
  BY <1>0, <1>b, <1>11 DEF WriteManifest
<1>12. CASE WriteHashes
  BY <1>0, <1>b, <1>12 DEF WriteHashes
<1>13. CASE Stop
  BY <1>0, <1>b, <1>13 DEF Stop
<1>15. CASE WriteLedger
  BY <1>0, <1>b, <1>15 DEF WriteLedger
<1>14. CASE UNCHANGED vars
  BY <1>0, <1>b, <1>14 DEF vars
<1> QED BY <1>1, <1>2, <1>3, <1>4, <1>5, <1>6, <1>7, <1>8, <1>9, <1>10, <1>11, <1>12, <1>13, <1>14, <1>15 DEF Next

\* A response writes its description, its report and its manifest in this order.
LEMMA WrittenNext == TypeOK /\ RanHolds /\ EndHolds /\ BlockedHolds /\ WrittenHolds /\ [Next]_vars => WrittenHolds'
<1> SUFFICES ASSUME TypeOK, RanHolds, EndHolds, BlockedHolds, WrittenHolds, [Next]_vars PROVE WrittenHolds'
  OBVIOUS
<1> USE DEF folder, plan, history, Write, Over, WrittenHolds
<1>0. n \in Nat /\ MaxResponses \in Nat /\ k \in Nat /\ ran \subseteq Nat \X Nat
  BY ResponseConstantsOk DEF TypeOK, Ranks
<1>b. UNCHANGED <<req, blocks>> => Ids' = Ids
  BY DEF Ids
<1>1. ASSUME NEW r \in Requests, Begin(r) PROVE WrittenHolds'
  BY <1>0, <1>b, <1>1, BlocksAreClasses DEF Begin
<1>2. CASE Plan
  BY <1>0, <1>b, <1>2 DEF Plan
<1>3. CASE Try
  BY <1>0, <1>b, <1>3 DEF Try
<1>4. CASE RecordRow
  BY <1>0, <1>b, <1>4 DEF RecordRow
<1>5. CASE Keep
  BY <1>0, <1>b, <1>5 DEF Keep
<1>6. CASE Describe
  BY <1>0, <1>b, <1>6 DEF Describe, BlockedHolds
<1>7. CASE WriteBlockers
  BY <1>0, <1>b, <1>7 DEF WriteBlockers
<1>8. CASE WriteFindings
  <2>1. n # 0 /\ Ids # {} /\ blocks # {}
    BY <1>8, IdsOfType DEF WriteFindings, RanHolds, BlockedHolds
  <2> QED BY <1>b, <1>8, <2>1 DEF WriteFindings
<1>9. CASE DescribeBlocked
  <2>1. n # 0 /\ (blocks = {} => desc.of = n)
    BY <1>9 DEF DescribeBlocked, RanHolds
  <2> QED BY <1>b, <1>9, <2>1 DEF DescribeBlocked
<1>10. CASE WriteReport
  BY <1>0, <1>b, <1>10 DEF WriteReport
<1>11. CASE WriteManifest
  BY <1>0, <1>b, <1>11 DEF WriteManifest, TypeOK
<1>12. CASE WriteHashes
  BY <1>0, <1>b, <1>12 DEF WriteHashes
<1>13. CASE Stop
  BY <1>0, <1>b, <1>13 DEF Stop
<1>15. CASE WriteLedger
  BY <1>0, <1>b, <1>15 DEF WriteLedger, EndHolds
<1>14. CASE UNCHANGED vars
  BY <1>0, <1>b, <1>14 DEF vars
<1> QED BY <1>1, <1>2, <1>3, <1>4, <1>5, <1>6, <1>7, <1>8, <1>9, <1>10, <1>11, <1>12, <1>13, <1>14, <1>15 DEF Next

\* The manifest counts the findings of the response that writes it, or those it took over.
LEMMA CountNext == TypeOK /\ RanHolds /\ BlockedHolds /\ CountHolds /\ [Next]_vars => CountHolds'
<1> SUFFICES ASSUME TypeOK, RanHolds, BlockedHolds, CountHolds, [Next]_vars PROVE CountHolds'
  OBVIOUS
<1> USE DEF folder, plan, history, Write, Over, CountHolds
<1>0. n \in Nat /\ MaxResponses \in Nat /\ k \in Nat /\ ran \subseteq Nat \X Nat
  BY ResponseConstantsOk DEF TypeOK, Ranks
<1>b. UNCHANGED <<req, blocks>> => Ids' = Ids
  BY DEF Ids
<1>1. ASSUME NEW r \in Requests, Begin(r) PROVE CountHolds'
  BY <1>0, <1>1 DEF Begin, TypeOK
<1>2. CASE Plan
  BY <1>0, <1>b, <1>2 DEF Plan
<1>3. CASE Try
  BY <1>0, <1>b, <1>3 DEF Try
<1>4. CASE RecordRow
  BY <1>0, <1>b, <1>4 DEF RecordRow
<1>5. CASE Keep
  BY <1>0, <1>5 DEF Keep
<1>6. CASE Describe
  BY <1>0, <1>b, <1>6 DEF Describe, BlockedHolds
<1>7. CASE WriteBlockers
  BY <1>0, <1>b, <1>7 DEF WriteBlockers
<1>8. CASE WriteFindings
  BY <1>0, <1>b, <1>8, IdsCount DEF WriteFindings, RanHolds, BlockedHolds
<1>9. CASE DescribeBlocked
  BY <1>0, <1>b, <1>9 DEF DescribeBlocked
<1>10. CASE WriteReport
  BY <1>0, <1>b, <1>10 DEF WriteReport
<1>11. CASE WriteManifest
  BY <1>0, <1>b, <1>11 DEF WriteManifest
<1>12. CASE WriteHashes
  BY <1>0, <1>12 DEF WriteHashes
<1>13. CASE Stop
  BY <1>0, <1>b, <1>13 DEF Stop
<1>15. CASE WriteLedger
  BY <1>0, <1>b, <1>15 DEF WriteLedger
<1>14. CASE UNCHANGED vars
  BY <1>0, <1>b, <1>14 DEF vars
<1> QED BY <1>1, <1>2, <1>3, <1>4, <1>5, <1>6, <1>7, <1>8, <1>9, <1>10, <1>11, <1>12, <1>13, <1>14, <1>15 DEF Next

\* The hash manifest seals what the last response has written, and the next write breaks it.
LEMMA SealedNext == TypeOK /\ RanHolds /\ EndHolds /\ BlockedHolds /\ WrittenHolds /\ CountHolds /\ SealedHolds /\ [Next]_vars => SealedHolds'
<1> SUFFICES ASSUME TypeOK, RanHolds, EndHolds, BlockedHolds, WrittenHolds, CountHolds, SealedHolds, [Next]_vars PROVE SealedHolds'
  OBVIOUS
<1> USE DEF folder, plan, history, Write, Over, SealedHolds
<1>0. n \in Nat /\ MaxResponses \in Nat /\ k \in Nat /\ ran \subseteq Nat \X Nat
  BY ResponseConstantsOk DEF TypeOK, Ranks
<1>1. ASSUME NEW r \in Requests, Begin(r) PROVE SealedHolds'
  BY <1>0, <1>1, BlocksAreClasses DEF Begin
<1>2. CASE Plan
  BY <1>0, <1>2 DEF Plan
<1>3. CASE Try
  <2>1. manifest.of < n /\ manifest.of # n
    BY <1>0, <1>3 DEF Try, RanHolds, TypeOK
  <2>2. (\E a \in accepted' : a[1] = manifest.of) <=> \E a \in accepted : a[1] = manifest.of
    BY <1>3, <2>1 DEF Try
  <2> QED BY <1>3, <2>2 DEF Try
<1>4. CASE RecordRow
  BY <1>0, <1>4 DEF RecordRow
<1>5. CASE Keep
  BY <1>0, <1>5 DEF Keep
<1>6. CASE Describe
  BY <1>0, <1>6 DEF Describe
<1>7. CASE WriteBlockers
  BY <1>0, <1>7 DEF WriteBlockers
<1>8. CASE WriteFindings
  BY <1>0, <1>8 DEF WriteFindings
<1>9. CASE DescribeBlocked
  BY <1>0, <1>9 DEF DescribeBlocked
<1>10. CASE WriteReport
  BY <1>0, <1>10 DEF WriteReport
<1>11. CASE WriteManifest
  BY <1>0, <1>11 DEF WriteManifest
<1>12. CASE WriteHashes
  <2>1. /\ report = [of |-> n, ids |-> Ids] /\ manifest.of = n /\ manifest.count = count
        /\ manifest.status = (IF blocks = {} THEN "ok" ELSE "partial")
        /\ blocks # {} => findings = report /\ count = Cardinality(Ids)
        /\ Ids = {} <=> blocks = {}
        /\ n > 0 /\ findings.of = n => blocks # {}
    BY <1>12, IdsOfType DEF WriteHashes, WrittenHolds, BlockedHolds, CountHolds
  <2>2. /\ blocks = {} => desc = [of |-> n, kind |-> IF outcome = "ok" THEN "ran" ELSE "planned"]
        /\ ledger.of = n /\ (ledger.status = "complete" <=> outcome = "ok")
    BY <1>12 DEF WriteHashes, WrittenHolds
  <2>3. /\ (\E a \in accepted : a[1] = n) <=> outcome = "ok"
        /\ outcome = "ok" => blocks = {}
    BY <1>12 DEF WriteHashes, EndHolds
  <2>4. UNCHANGED <<folder, accepted>>
    BY <1>12 DEF WriteHashes
  <2> QED BY <2>1, <2>2, <2>3, <2>4
<1>13. CASE Stop
  BY <1>0, <1>13 DEF Stop
<1>15. CASE WriteLedger
  BY <1>0, <1>15 DEF WriteLedger
<1>14. CASE UNCHANGED vars
  BY <1>0, <1>14 DEF vars
<1> QED BY <1>1, <1>2, <1>3, <1>4, <1>5, <1>6, <1>7, <1>8, <1>9, <1>10, <1>11, <1>12, <1>13, <1>14, <1>15 DEF Next

LEMMA PartsInit == Init => IInv
<1> SUFFICES ASSUME Init PROVE IInv
  OBVIOUS
<1>1. PassedHolds /\ RanHolds /\ TriedHolds /\ EndHolds
  BY DEF Init, PassedHolds, Running, RanHolds, TriedHolds, EndHolds
<1>2. BlockedHolds /\ WrittenHolds /\ CountHolds /\ SealedHolds
  BY DEF Init, NoFindings, BlockedHolds, WrittenHolds, CountHolds, SealedHolds
<1>3. AcceptedOnce /\ RowsOutliveStops
  BY DEF Init, AcceptedOnce, RowsOutliveStops
<1> QED BY TypeInit, <1>1, <1>2, <1>3 DEF IInv

LEMMA PartsNext == IInv /\ [Next]_vars => IInv'
BY TypeNext, PassedNext, RanNext, TriedNext, EndNext, OnceNext, RowsNext, BlockedNext, WrittenNext,
   CountNext, SealedNext DEF IInv

LEMMA Parts == Spec => []IInv
BY PartsInit, PartsNext, PTL DEF Spec

-----------------------------------------------------------------------------
\* A response over one folder is well-formed, however often it is stopped and repeated.
THEOREM TypeCorrect == Spec => []TypeOK
<1>1. IInv => TypeOK
  BY DEF IInv
<1> QED BY <1>1, Parts, PTL

\* run_response runs no command of a request that a guard refuses.
THEOREM CommandsAreGuarded == Spec => []OnlyGuarded
<1>1. IInv => OnlyGuarded
  <2> SUFFICES ASSUME IInv, pc # "idle", <<n, k>> \in ran PROVE OnlyGuarded
    BY DEF OnlyGuarded
  <2>1. req \in Requests
    BY DEF IInv, TypeOK
  <2>2. \E x \in ran : x[1] = n
    BY <<n, k>>[1] = n
  <2>3. Blocks(req) = {} /\ req.execute
    BY <2>2 DEF IInv, RanHolds
  <2> QED BY <2>1, <2>3, BlocksAreClasses DEF OnlyGuarded
<1> QED BY <1>1, Parts, PTL

\* The loop over the variants of an action ends with the first that is accepted.
THEOREM OneIsAccepted == Spec => []AcceptedOnce
<1>1. IInv => AcceptedOnce
  BY DEF IInv
<1> QED BY <1>1, Parts, PTL

\* index/coverage.jsonl names every command of every response of the folder, the accepted one
\* too, but for a command whose response was stopped before the row was written.
THEOREM RowsArePermanent == Spec => []RowsOutliveStops
<1>1. IInv => RowsOutliveStops
  BY DEF IInv
<1> QED BY <1>1, Parts, PTL

\* An ok run folder holds the description of the response that sealed it.
THEOREM DescriptionsAreFresh == Spec => []OkIsDescribed
<1>1. IInv => OkIsDescribed
  BY DEF IInv, SealedHolds, OkIsDescribed
<1> QED BY <1>1, Parts, PTL

\* _verified_run accepts a sealed response folder of a valid contract exactly when its response
\* had a command accepted and no response ever wrote findings there; and then the description,
\* the ledger, the report and the manifest are of that response.
THEOREM GateSeesOneResponse == Spec => []GateReadsOne
<1>1. IInv => GateReadsOne
  <2> SUFFICES ASSUME IInv, sealed, manifest.of > 0 PROVE GateReadsOne
    BY DEF GateReadsOne
  <2> DEFINE Ran == \E a \in accepted : a[1] = manifest.of
  <2>1. /\ report.of = manifest.of /\ ledger.of = manifest.of
        /\ manifest.status = "partial" <=> report.ids # {}
        /\ report.ids # {} => findings = report
        /\ manifest.status = "ok" => desc.of = manifest.of
        /\ Ran <=> ledger.status = "complete"
        /\ ledger.status = "complete" => manifest.status = "ok" /\ desc.kind = "ran"
    BY DEF IInv, SealedHolds
  <2>2. findings.of = 0 <=> findings.ids = {}
    BY DEF IInv, WrittenHolds
  <2>3. findings.of = 0 => manifest.count = 0
    BY DEF IInv, CountHolds
  <2>4. Covered => report.ids = {} /\ desc = [of |-> manifest.of, kind |-> "ran"]
    BY <2>1 DEF Covered, IInv, TypeOK
  <2>5. Covered <=> Ran
    BY <2>1 DEF Covered
  <2>6. Covered /\ FindingsAgree => findings.of = 0
    BY <2>2, <2>4 DEF FindingsAgree
  <2>7. Covered /\ findings.of = 0 => FindingsAgree
    BY <2>3, <2>4 DEF FindingsAgree
  <2>8. GateAccepts <=> manifest.valid /\ findings.of = 0 /\ Ran
    BY <2>5, <2>6, <2>7 DEF GateAccepts
  <2>9. GateAccepts => /\ {report.of, ledger.of} = {manifest.of}
                       /\ desc = [of |-> manifest.of, kind |-> "ran"]
    BY <2>1, <2>4 DEF GateAccepts
  <2> QED BY <2>8, <2>9 DEF GateReadsOne
<1> QED BY <1>1, Parts, PTL

-----------------------------------------------------------------------------
(* A response ends: every step but the beginning of another leaves fewer.   *)

StepsLeft ==
    CASE pc = "idle"     -> 0
      [] pc = "hashes"   -> 1
      [] pc = "manifest" -> 2
      [] pc = "report"   -> 3
      [] pc = "default"  -> 4
      [] pc = "ledger"   -> 5
      [] pc \in {"findings", "describe"} -> 6
      [] pc = "block"    -> 7
      [] pc = "keep"     -> 8
      [] pc = "row"      -> 9
      [] pc = "try"      -> 10
      [] pc = "plan"     -> 11

\* Three steps for each command behind the one at hand, and those of the end.
Rank == StepsLeft + (IF Running THEN 3 * (Commands - k) ELSE 0)

LEMMA RankOfType ==
    ASSUME IInv
    PROVE  /\ Rank \in Nat /\ StepsLeft \in Nat /\ Commands \in Nat /\ k \in Nat
           /\ Running => k <= Commands
<1>1. StepsLeft \in Nat
  BY DEF IInv, TypeOK, StepsLeft
<1>2. Commands \in Nat /\ k \in Nat
  BY CommandsOfType DEF IInv, TypeOK
<1>3. Running => k <= Commands
  BY DEF IInv, PassedHolds
<1>4. Running => Commands - k \in Nat
  BY <1>2, <1>3
<1> QED BY <1>1, <1>2, <1>3, <1>4 DEF Rank

LEMMA RankFalls ==
    ASSUME IInv, Next, \A r \in Requests : ~Begin(r)
    PROVE  Rank' < Rank
<1>1. Commands \in Nat /\ k \in Nat /\ Rank \in Nat /\ (Running => k <= Commands)
  BY RankOfType
<1> DEFINE Room == 3 * (Commands - k)
<1>0. Running => Room \in Nat
  BY <1>1
<1> HIDE DEF Room
<1>2. CASE Plan \/ Try \/ RecordRow
  <2>1. k' = k /\ Commands' = Commands /\ Running /\ Running'
    BY <1>2 DEF Plan, Try, RecordRow, Write, plan, Commands, Running
  <2>2. StepsLeft \in {9, 10, 11} /\ StepsLeft' \in {8, 9} /\ StepsLeft' < StepsLeft
    BY <1>2 DEF Plan, Try, RecordRow, Write, StepsLeft
  <2>3. Rank = StepsLeft + Room /\ Rank' = StepsLeft' + Room
    BY <2>1 DEF Rank, Room
  <2> QED BY <1>0, <2>1, <2>2, <2>3
<1>3. CASE Keep
  <2>1. Commands' = Commands /\ Running /\ StepsLeft = 8
    BY <1>3 DEF Keep, plan, Commands, Running, StepsLeft
  <2>2. CASE outcome # "skipped" /\ ~Tried
    <3>1. k' = k + 1 /\ Running' /\ StepsLeft' = 10
      BY <1>3, <2>2 DEF Keep, Write, Running, StepsLeft
    <3>2. Rank = 8 + 3 * (Commands - k) /\ Rank' = 10 + 3 * (Commands - (k + 1))
      BY <2>1, <3>1 DEF Rank
    <3> QED BY <1>1, <3>2
  <2>3. CASE ~(outcome # "skipped" /\ ~Tried)
    <3>1. ~Running' /\ StepsLeft' \in {6, 7}
      BY <1>3, <2>3 DEF Keep, Write, Running, StepsLeft
    <3>2. Rank = 8 + Room
      BY <2>1 DEF Rank, Room
    <3>3. Rank' = StepsLeft' + 0
      BY <3>1 DEF Rank
    <3> QED BY <1>0, <2>1, <3>1, <3>2, <3>3
  <2> QED BY <2>2, <2>3
<1>4. CASE \/ Describe \/ WriteBlockers \/ WriteFindings \/ WriteLedger \/ DescribeBlocked
           \/ WriteReport \/ WriteManifest
  <2>1. ~Running /\ ~Running'
    BY <1>4 DEF Describe, WriteBlockers, WriteFindings, WriteLedger, DescribeBlocked,
                WriteReport, WriteManifest, Write, Running
  <2>2. StepsLeft \in 2..7 /\ StepsLeft' = StepsLeft - 1
    BY <1>4 DEF Describe, WriteBlockers, WriteFindings, WriteLedger, DescribeBlocked,
                WriteReport, WriteManifest, Write, StepsLeft
  <2> QED BY <2>1, <2>2 DEF Rank
<1>5. CASE WriteHashes \/ Stop
  <2>1. pc' = "idle" /\ pc # "idle"
    BY <1>5 DEF WriteHashes, Stop, Over
  <2>2. Rank' = 0
    BY <2>1 DEF Rank, StepsLeft, Running
  <2>3. StepsLeft \in Nat \ {0}
    BY <2>1 DEF IInv, TypeOK, StepsLeft
  <2>4. Rank > 0
    BY <1>1, <2>3 DEF Rank
  <2> QED BY <2>2, <2>4
<1> QED BY <1>2, <1>3, <1>4, <1>5 DEF Next

\* No answer of a tool keeps a response going: each step of one, from its plan or its first
\* command to its hash manifest, leaves it fewer (the loop over variants of run_response).
THEOREM ResponseDraws ==
    Spec => [](Rank \in Nat) /\ [][(\E r \in Requests : Begin(r)) \/ Rank' < Rank]_vars
<1>1. IInv => Rank \in Nat
  BY RankOfType
<1>2. IInv /\ [Next]_vars => [(\E r \in Requests : Begin(r)) \/ Rank' < Rank]_vars
  BY RankFalls
<1> QED BY <1>1, <1>2, Parts, PTL DEF Spec
=============================================================================
