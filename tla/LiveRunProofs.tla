--------------------------- MODULE LiveRunProofs ---------------------------
(***************************************************************************)
(* What holds of a run folder for every set of collectors, every set of    *)
(* windows and any number of sessions.                                     *)
(***************************************************************************)
EXTENDS LiveRun, FiniteSetTheorems, TLAPS

-----------------------------------------------------------------------------
(* The operators the steps are built from return values of their kind. *)

\* The rows of a read are coverage rows of its collector.
LEMMA RowsOfType ==
    ASSUME NEW c \in Collectors, NEW o \in Outcomes
    PROVE  RowsOf(c, o) \subseteq CovRow
BY DEF RowsOf, CovRow, Keys, Outcomes

\* Evidence is recorded under a window a session may have.
LEMMA EvidenceOfType ==
    ASSUME NEW c \in Collectors, NEW o \in Outcomes, win \in Windows
    PROVE  EvidenceOf(c, o) \in Evidence
BY ConstantsOk DEF EvidenceOf, Evidence, ReadOver

\* A recorded outcome is a status other than "none" (CollectorRunner.run).
LEMMA StatusOfType ==
    ASSUME NEW o \in Outcomes
    PROVE  StatusOf(o) \in {"ok", "partial", "failed"}
BY DEF StatusOf, Outcomes

\* What is shown of a collector comes from its payload and its chunk files.
LEMMA ShownOfType ==
    ASSUME TypeOK, NEW c \in Collectors
    PROVE  ShownOf(c) \in Shown
<1>1. Payload(c) \in Evidence
  BY ConstantsOk DEF Payload, NoEvidence, Evidence, TypeOK
<1>2. NotShown \in Shown
  BY DEF NotShown, Shown
<1>3. CASE Payload(c).read = "none"
  BY <1>2, <1>3 DEF ShownOf
<1>4. CASE Payload(c).read # "none"
  <2>1. {Payload(c).win} \cup (IF c \in Windowed THEN {chunks[c]} ELSE {})
           \in SUBSET (Windows \cup {Unrecorded})
    BY <1>1 DEF Evidence, TypeOK
  <2>2. Payload(c).read \in {"none", "whole", "cut"}
    BY <1>1 DEF Evidence
  <2> QED BY <1>4, <2>1, <2>2 DEF ShownOf, Shown
<1> QED BY <1>3, <1>4

-----------------------------------------------------------------------------
\* A step of a session keeps every variable to its kind.
LEMMA SessionStepType ==
    ASSUME TypeOK, SessionStep
    PROVE  TypeOK'
<1> USE ConstantsOk DEF PCs
<1>1. ASSUME NEW blocked \in SUBSET Collectors, Preflight(blocked) PROVE TypeOK'
  BY <1>1 DEF TypeOK, Preflight, disk, notes
<1>2. ASSUME NEW c \in Collectors, SkipBlocked(c) PROVE TypeOK'
  BY <1>2 DEF TypeOK, SkipBlocked, plan, Mark, Statuses
<1>3. ASSUME NEW c \in Collectors, CarryForward(c) PROVE TypeOK'
  BY <1>3 DEF TypeOK, CarryForward, Turn, disk, plan, Statuses
<1>4. ASSUME NEW c \in Collectors, BeginRead(c) PROVE TypeOK'
  BY <1>4 DEF TypeOK, BeginRead, Turn, RowsWithout, disk, plan
<1>5. CASE WriteChunk
  BY <1>5 DEF TypeOK, WriteChunk, plan, loop, notes
<1>6. ASSUME NEW o \in Outcomes, FinishRead(o) PROVE TypeOK'
  BY <1>6 DEF TypeOK, FinishRead, disk, plan, notes
<1>7. CASE WriteIndex
  <2>1. cur \in Collectors /\ out \in Outcomes
    BY <1>7 DEF TypeOK, WriteIndex
  <2>2. RowsOf(cur, out) \subseteq CovRow
    BY <2>1, RowsOfType
  <2>3. index' \in [Collectors -> [Keys -> {"none", "ok", "failed"}]]
    <3>1. index \in [Collectors -> [Keys -> {"none", "ok", "failed"}]]
      BY DEF TypeOK
    <3> DEFINE stat(k) == CHOOSE s \in {"ok", "failed"} : <<cur, k, s>> \in RowsOf(cur, out)
               row == [k \in Keys |-> IF \E s \in {"ok", "failed"} : <<cur, k, s>> \in RowsOf(cur, out)
                                        THEN stat(k) ELSE index[cur][k]]
    <3>2. ASSUME NEW k \in Keys, \E s \in {"ok", "failed"} : <<cur, k, s>> \in RowsOf(cur, out)
          PROVE  stat(k) \in {"ok", "failed"}
      BY <3>2
    <3>3. \A k \in Keys : index[cur][k] \in {"none", "ok", "failed"}
      BY <2>1, <3>1
    <3>4. row \in [Keys -> {"none", "ok", "failed"}]
      <4> HIDE DEF stat
      <4> QED BY <3>2, <3>3
    <3>5. index' = [index EXCEPT ![cur] = row]
      BY <1>7 DEF WriteIndex
    <3> QED BY <2>1, <3>1, <3>4, <3>5
  <2> QED BY <1>7, <2>2, <2>3 DEF TypeOK, WriteIndex, plan, loop
<1>8. CASE WriteRaw
  <2>1. EvidenceOf(cur, out) \in Evidence
    BY <1>8, EvidenceOfType DEF TypeOK, WriteRaw
  <2> QED BY <1>8, <2>1 DEF TypeOK, WriteRaw, plan, loop, notes
<1>9. CASE WriteMark
  <2>1. [status |-> StatusOf(out), win |-> Unrecorded] \in Mark
    BY StatusOfType DEF TypeOK, Mark, Statuses
  <2> QED BY <1>9, <2>1 DEF TypeOK, WriteMark, plan, loop, notes
<1>10. CASE StampWindow
  <2>1. StatusOf(out) \in Statuses /\ [status |-> StatusOf(out), win |-> win] \in Mark
    BY StatusOfType DEF TypeOK, Mark, Statuses
  <2> QED BY <1>10, <2>1 DEF TypeOK, StampWindow, plan
<1>11. CASE CloseLoop
  <2>1. NewSummaryRows \subseteq SumRow
    BY DEF TypeOK, NewSummaryRows, SumRow
  <2> QED BY <1>11, <2>1 DEF TypeOK, CloseLoop, disk, plan, loop
<1>12. CASE WriteBlockers
  BY <1>12 DEF TypeOK, WriteBlockers, Diagnosed, plan, loop, notes
<1>13. CASE WriteReport
  <2>1. report' \in [Collectors -> Shown]
    <3>1. report' = [c \in Collectors |-> ShownOf(c)]
      BY <1>13 DEF WriteReport
    <3>2. \A c \in Collectors : ShownOf(c) \in Shown
      BY ShownOfType
    <3> QED BY <3>1, <3>2
  <2> QED BY <1>13, <2>1 DEF TypeOK, WriteReport, plan, loop, notes
<1>14. CASE WriteCoverageFile
  BY <1>14 DEF TypeOK, WriteCoverageFile, plan, loop, notes
<1>15. CASE WriteSummaryFile
  BY <1>15 DEF TypeOK, WriteSummaryFile, plan, loop, notes
<1>16. CASE WriteManifest
  <2>1. Overall \in {"ok", "partial"} /\ ExitCode \in {0, 1}
    BY DEF Overall, ExitCode
  <2> QED BY <1>16, <2>1 DEF TypeOK, WriteManifest, Forget, Outcomes, Statuses
<1> QED
  BY <1>1, <1>2, <1>3, <1>4, <1>5, <1>6, <1>7, <1>8, <1>9, <1>10, <1>11, <1>12, <1>13,
     <1>14, <1>15, <1>16 DEF SessionStep

\* The empty folder is well typed.
LEMMA TypeInit == Init => TypeOK
  BY ConstantsOk DEF Init, TypeOK, NoMark, Mark, NoEvidence, Evidence, Statuses, NotShown,
     Shown, Outcomes, PCs, Keys

\* So is every folder a step leaves behind.
LEMMA TypeStep ==
    ASSUME TypeOK, [Next]_vars
    PROVE  TypeOK'
<1>1. ASSUME NEW sel \in SUBSET Collectors \ {{}}, NEW w \in Windows, Start(sel, w)
      PROVE  TypeOK'
  <2>1. SeededRows \subseteq CovRow
    BY DEF SeededRows, IndexRows, TypeOK
  <2> QED BY <1>1, <2>1, ConstantsOk DEF TypeOK, Start, disk, loop, PCs, Statuses
<1>2. CASE SessionStep
  BY <1>2, SessionStepType
<1>3. CASE Stop
  BY <1>3, ConstantsOk DEF TypeOK, Stop, Forget, disk, PCs, Outcomes, Statuses
<1>4. ASSUME NEW c \in Collectors, LoseRaw(c) PROVE TypeOK'
  BY <1>4, ConstantsOk DEF TypeOK, LoseRaw, NoEvidence, Evidence, plan, loop, notes
<1>5. CASE UNCHANGED vars
  BY <1>5 DEF TypeOK, vars, disk, plan, loop, notes
<1> QED BY <1>1, <1>2, <1>3, <1>4, <1>5 DEF Next

\* TypeOK: every variable of the run folder and of the session holds a value of its kind,
\* and a collector is being read exactly while the runner is between its start and its
\* stamped checkpoint.
THEOREM TypeCorrect == Spec => []TypeOK
<1> QED BY TypeInit, TypeStep, PTL DEF Spec

-----------------------------------------------------------------------------
(* The inductive invariant.                                                *)

InSession  == pc \notin {"idle", "done"}
InLoop     == pc \in {"collect", "read", "index", "raw", "mark", "stamp"}
Publishing == pc \in {"blockers", "report", "coverageFile", "summaryFile", "manifestFile"}

\* What the session decided at its start still holds: a carried collector is finished over
\* this window, and nothing that would be read or skipped is carried.
PlanHolds ==
    /\ ~InSession => todo = {} /\ toSkip = {}
    /\ InSession =>
        /\ carried \subseteq selected
        /\ \A c \in carried : Carries(c, win)
        /\ todo \subseteq selected
        /\ toSkip \cap selected = {}
        /\ toSkip # {} => pc = "collect" /\ cur = NoCollector
        /\ cur \notin todo \cup carried
        /\ pc = "preflight" =>
              /\ carried = {c \in Collectors : Carries(c, win)}
              /\ known = {c \in Collectors : ckpt[c].status # "none"}
              /\ todo = {} /\ toSkip = {}
              /\ results = [c \in Collectors |-> "none"]
        /\ Publishing => todo = {} /\ toSkip = {}

\* What a collector being read has left on disk so far.
ReadHolds ==
    /\ pc \in {"index", "raw", "mark", "stamp"} /\ out # "crash" /\ cur \in Windowed =>
          chunks[cur] = win
    /\ pc \in {"mark", "stamp"} /\ out # "crash" => raw[cur] = EvidenceOf(cur, out)
    /\ pc = "stamp" => ckpt[cur].status = StatusOf(out)

\* The results of the session agree with the checkpoints.
ResultsHold ==
    InSession =>
        /\ \A c \in Collectors : results[c] # "none" =>
              c \notin todo \cup toSkip \cup {cur} /\ ckpt[c].status = results[c]
        /\ \A c \in Collectors : results[c] = "ok" => Carries(c, win)
        /\ pc # "preflight" =>
              \A c \in selected : c \in todo \/ c = cur \/ results[c] # "none"

\* A checkpoint that does not let the collector stand under this session's headline.
Doubtful(c) ==
    /\ ckpt[c].status # "none"
    /\ ~(ckpt[c].status = "ok" /\ (c \in Windowed => ~WindowChanged(ckpt[c], win)))

\* No gap is lost: whatever is unfinished on disk is still to be read, is being read, was
\* recorded as a gap by this session or is known to lie outside it.
GapsKnown ==
    InLoop \/ Publishing =>
        \A c \in Collectors : Doubtful(c) =>
            c \in todo \/ c = cur \/ c \in ResumedIncomplete
            \/ results[c] \in {"partial", "failed", "blocked"}

\* An "ok" checkpoint with its payload is true of the files beside it, unless the collector
\* is being read or its read was cut off.
MarksTruthful ==
    \A c \in Collectors \ torn :
        c # cur /\ ckpt[c].status = "ok" /\ raw[c].read # "none" =>
            /\ raw[c].read = "whole"
            /\ c \in Windowed => raw[c].win = ckpt[c].win /\ chunks[c] = ckpt[c].win

\* Finished collectors that read no events are not waiting for another read.
FinishedRests ==
    InLoop => \A c \in Collectors \ Windowed :
        Carries(c, win) /\ cur # c => c \in carried \/ c \notin todo \cup toSkip

\* What is published is what the session holds.
PublishHolds ==
    /\ Publishing /\ selected # {} =>
          \A c \in selected :
              /\ RowsFor(sum, c) # {}
              /\ results[c] # "ok" => <<c, results[c]>> \in sum
    /\ pc \in {"coverageFile", "summaryFile", "manifestFile"} /\ selected # {} =>
          report = [c \in Collectors |-> ShownOf(c)]
    /\ pc = "manifestFile" => sumFile = sum
    /\ pc = "done" => HeadlineHonest /\ ExitHonest /\ EvidenceHonest /\ SelectedSummarised

\* A partial read leaves a failed row in memory until the blockers are taken from the rows,
\* and nothing this session finished is flagged.
BlockersHold ==
    /\ pc \in {"raw", "mark", "stamp"} /\ out = "partial" => <<cur, "read", "failed">> \in cov
    /\ InSession =>
          \A c \in Collectors : results[c] = "partial" => <<c, "read", "failed">> \in cov
    /\ Publishing => \A c \in selected \ torn : results[c] = "ok" => c \notin flagged
    /\ pc \in {"report", "coverageFile", "summaryFile", "manifestFile"} =>
          \A c \in selected :
              /\ results[c] = "partial" => c \in blockers
              /\ results[c] = "ok" /\ c \notin torn => c \notin blockers
    /\ pc = "done" => BlockersCurrent

\* What a session takes for a gap has work left: a collector outside it does not carry, and
\* one it flagged was cut off or does not carry either.
GapsReal ==
    /\ InSession =>
          /\ cur \in selected \cup {NoCollector}
          /\ \A c \in known \ (selected \cup carried) :
                ckpt[c].status # "none" /\ ~Carries(c, win)
    /\ flagged # {} => Publishing
    /\ \A c \in flagged : Outstanding(c, win)

IInv == /\ TypeOK /\ PlanHolds /\ ReadHolds /\ ResultsHold /\ GapsKnown
        /\ MarksTruthful /\ FinishedRests /\ PublishHolds /\ BlockersHold
        /\ GapsReal

-----------------------------------------------------------------------------
(* Each part of it is kept by every step.                                  *)

\* The plan of a session stays in force until the session ends.
LEMMA PlanHoldsStep ==
    ASSUME IInv, [Next]_vars
    PROVE  PlanHolds'
<1> USE DEF IInv, PlanHolds, InSession, Publishing, Carries, WindowChanged
<1>1. ASSUME NEW sel \in SUBSET Collectors \ {{}}, NEW w \in Windows, Start(sel, w)
      PROVE  PlanHolds'
  BY <1>1, ConstantsOk DEF TypeOK, Start, disk, plan, loop, notes
<1>2. ASSUME NEW blocked \in SUBSET Collectors, Preflight(blocked)
      PROVE  PlanHolds'
  BY <1>2, ConstantsOk DEF TypeOK, Preflight, disk, plan, loop, notes
<1>3. ASSUME NEW c \in Collectors, SkipBlocked(c)
      PROVE  PlanHolds'
  BY <1>3 DEF SkipBlocked, disk, plan, loop, notes
<1>4. ASSUME NEW c \in Collectors, CarryForward(c)
      PROVE  PlanHolds'
  BY <1>4 DEF CarryForward, Turn, disk, plan, loop, notes
<1>5. ASSUME NEW c \in Collectors, BeginRead(c)
      PROVE  PlanHolds'
  BY <1>5 DEF BeginRead, Turn, disk, plan, loop, notes
<1>6. CASE WriteChunk
  BY <1>6 DEF WriteChunk, disk, plan, loop, notes
<1>7. ASSUME NEW o \in Outcomes, FinishRead(o)
      PROVE  PlanHolds'
  BY <1>7 DEF FinishRead, disk, plan, loop, notes
<1>8. CASE WriteIndex
  BY <1>8 DEF WriteIndex, disk, plan, loop, notes
<1>9. CASE WriteRaw
  BY <1>9 DEF WriteRaw, disk, plan, loop, notes
<1>10. CASE WriteMark
  BY <1>10 DEF WriteMark, disk, plan, loop, notes
<1>11. CASE StampWindow
  BY <1>11, ConstantsOk DEF TypeOK, StampWindow, disk, plan, loop, notes
<1>12. CASE CloseLoop
  BY <1>12 DEF CloseLoop, disk, plan, loop, notes
<1>13. CASE WriteBlockers
  BY <1>13 DEF WriteBlockers, disk, plan, loop, notes
<1>14. CASE WriteReport
  BY <1>14 DEF WriteReport, WindowChanged, disk, plan, loop, notes
<1>15. CASE WriteCoverageFile
  BY <1>15 DEF WriteCoverageFile, disk, plan, loop, notes
<1>16. CASE WriteSummaryFile
  BY <1>16 DEF WriteSummaryFile, disk, plan, loop, notes
<1>17. CASE WriteManifest
  BY <1>17 DEF WriteManifest, Forget, disk, plan, loop, notes
<1>18. CASE Stop
  BY <1>18 DEF Stop, Forget, disk, plan, loop, notes
<1>19. ASSUME NEW c \in Collectors, LoseRaw(c)
      PROVE  PlanHolds'
  BY <1>19 DEF LoseRaw, disk, plan, loop, notes
<1>20. CASE UNCHANGED vars
  BY <1>20 DEF vars, disk, plan, loop, notes
<1> QED
  BY <1>1, <1>2, <1>3, <1>4, <1>5, <1>6, <1>7, <1>8, <1>9, <1>10, <1>11, <1>12,
     <1>13, <1>14, <1>15, <1>16, <1>17, <1>18, <1>19, <1>20 DEF Next, SessionStep

\* What a read has written stays until its checkpoint is stamped.
LEMMA ReadHoldsStep ==
    ASSUME IInv, [Next]_vars
    PROVE  ReadHolds'
<1> USE DEF IInv, ReadHolds, EvidenceOf, ReadOver
<1>1. ASSUME NEW sel \in SUBSET Collectors \ {{}}, NEW w \in Windows, Start(sel, w)
      PROVE  ReadHolds'
  BY <1>1 DEF Start, disk, plan, loop, notes
<1>2. ASSUME NEW blocked \in SUBSET Collectors, Preflight(blocked)
      PROVE  ReadHolds'
  BY <1>2 DEF Preflight, disk, plan, loop, notes
<1>3. ASSUME NEW c \in Collectors, SkipBlocked(c)
      PROVE  ReadHolds'
  BY <1>3 DEF SkipBlocked, disk, plan, loop, notes
<1>4. ASSUME NEW c \in Collectors, CarryForward(c)
      PROVE  ReadHolds'
  BY <1>4 DEF CarryForward, Turn, disk, plan, loop, notes
<1>5. ASSUME NEW c \in Collectors, BeginRead(c)
      PROVE  ReadHolds'
  BY <1>5 DEF BeginRead, Turn, disk, plan, loop, notes
<1>6. CASE WriteChunk
  BY <1>6 DEF WriteChunk, disk, plan, loop, notes
<1>7. ASSUME NEW o \in Outcomes, FinishRead(o)
      PROVE  ReadHolds'
  BY <1>7 DEF FinishRead, disk, plan, loop, notes
<1>8. CASE WriteIndex
  BY <1>8 DEF WriteIndex, disk, plan, loop, notes
<1>9. CASE WriteRaw
  BY <1>9, ConstantsOk DEF TypeOK, WriteRaw, disk, plan, loop, notes
<1>10. CASE WriteMark
  BY <1>10, ConstantsOk DEF TypeOK, WriteMark, disk, plan, loop, notes
<1>11. CASE StampWindow
  BY <1>11 DEF StampWindow, disk, plan, loop, notes
<1>12. CASE CloseLoop
  BY <1>12 DEF CloseLoop, disk, plan, loop, notes
<1>13. CASE WriteBlockers
  BY <1>13 DEF WriteBlockers, disk, plan, loop, notes
<1>14. CASE WriteReport
  BY <1>14 DEF WriteReport, disk, plan, loop, notes
<1>15. CASE WriteCoverageFile
  BY <1>15 DEF WriteCoverageFile, disk, plan, loop, notes
<1>16. CASE WriteSummaryFile
  BY <1>16 DEF WriteSummaryFile, disk, plan, loop, notes
<1>17. CASE WriteManifest
  BY <1>17 DEF WriteManifest, Forget, disk, plan, loop, notes
<1>18. CASE Stop
  BY <1>18 DEF Stop, Forget, disk, plan, loop, notes
<1>19. ASSUME NEW c \in Collectors, LoseRaw(c)
      PROVE  ReadHolds'
  BY <1>19 DEF LoseRaw, disk, plan, loop, notes
<1>20. CASE UNCHANGED vars
  BY <1>20 DEF vars, disk, plan, loop, notes
<1> QED
  BY <1>1, <1>2, <1>3, <1>4, <1>5, <1>6, <1>7, <1>8, <1>9, <1>10, <1>11, <1>12,
     <1>13, <1>14, <1>15, <1>16, <1>17, <1>18, <1>19, <1>20 DEF Next, SessionStep

\* A result is recorded together with its checkpoint.
LEMMA ResultsHoldStep ==
    ASSUME IInv, [Next]_vars
    PROVE  ResultsHold'
<1> USE DEF IInv, ResultsHold, InSession, Carries
<1>1. ASSUME NEW sel \in SUBSET Collectors \ {{}}, NEW w \in Windows, Start(sel, w)
      PROVE  ResultsHold'
  BY <1>1 DEF Start, disk, plan, loop, notes
<1>2. ASSUME NEW blocked \in SUBSET Collectors, Preflight(blocked)
      PROVE  ResultsHold'
  BY <1>2 DEF PlanHolds, ReadHolds, Preflight, disk, plan, loop, notes
<1>3. ASSUME NEW c \in Collectors, SkipBlocked(c)
      PROVE  ResultsHold'
  BY <1>3, ConstantsOk DEF PlanHolds, ReadHolds, TypeOK, SkipBlocked, disk, plan, loop, notes
<1>4. ASSUME NEW c \in Collectors, CarryForward(c)
      PROVE  ResultsHold'
  BY <1>4, ConstantsOk DEF PlanHolds, ReadHolds, TypeOK, CarryForward, Turn, disk, plan, loop, notes
<1>5. ASSUME NEW c \in Collectors, BeginRead(c)
      PROVE  ResultsHold'
  BY <1>5, ConstantsOk DEF PlanHolds, ReadHolds, TypeOK, BeginRead, Turn, disk, plan, loop, notes
<1>6. CASE WriteChunk
  BY <1>6 DEF WriteChunk, disk, plan, loop, notes
<1>7. ASSUME NEW o \in Outcomes, FinishRead(o)
      PROVE  ResultsHold'
  BY <1>7 DEF FinishRead, disk, plan, loop, notes
<1>8. CASE WriteIndex
  BY <1>8 DEF WriteIndex, disk, plan, loop, notes
<1>9. CASE WriteRaw
  BY <1>9 DEF WriteRaw, disk, plan, loop, notes
<1>10. CASE WriteMark
  BY <1>10 DEF WriteMark, disk, plan, loop, notes
<1>11. CASE StampWindow
  <2> USE ConstantsOk DEF PlanHolds, ReadHolds, TypeOK
  <2>1. PICK c \in Collectors : c = cur
    BY <1>11 DEF StampWindow
  <2>2. out \in Outcomes /\ win \in Windows /\ StatusOf(out) \in {"ok", "partial", "failed"}
    BY StatusOfType
  <2>3. ckpt'[c] = [status |-> StatusOf(out), win |-> win] /\ results'[c] = StatusOf(out)
    BY <1>11, <2>1 DEF StampWindow
  <2>4. UNCHANGED <<raw, win, selected, todo, toSkip>> /\ pc = "stamp" /\ pc' = "collect" /\ cur' = NoCollector
    BY <1>11 DEF StampWindow, plan
  <2>5. \A d \in Collectors \ {c} : ckpt'[d] = ckpt[d] /\ results'[d] = results[d]
    BY <1>11, <2>1 DEF StampWindow
  <2>6. StatusOf(out) = "ok" => Carries(c, win)'
    <3> SUFFICES ASSUME StatusOf(out) = "ok" PROVE Carries(c, win)'
      OBVIOUS
    <3>1. out # "crash"
      BY DEF StatusOf
    <3>2. raw[c].read # "none"
      BY <2>1, <2>4, <3>1 DEF EvidenceOf
    <3> QED BY <2>2, <2>3, <2>4, <3>2 DEF WindowChanged
  <2>7. \A d \in Collectors : results'[d] = "ok" => Carries(d, win)'
    <3> SUFFICES ASSUME NEW d \in Collectors, results'[d] = "ok" PROVE Carries(d, win)'
      OBVIOUS
    <3>1. CASE d = c
      BY <2>3, <2>6, <3>1
    <3>2. CASE d # c
      <4>1. Carries(d, win)
        BY <2>4, <2>5, <3>2
      <4> QED BY <2>4, <2>5, <3>2, <4>1 DEF WindowChanged
    <3> QED BY <3>1, <3>2
  <2>8. \A d \in Collectors : results'[d] # "none" =>
           d \notin todo' \cup toSkip' \cup {cur'} /\ ckpt'[d].status = results'[d]
    BY <2>1, <2>3, <2>4, <2>5
  <2>9. \A d \in selected' : d \in todo' \/ d = cur' \/ results'[d] # "none"
    BY <2>1, <2>2, <2>3, <2>4, <2>5
  <2> QED BY <2>4, <2>7, <2>8, <2>9
<1>12. CASE CloseLoop
  BY <1>12 DEF CloseLoop, disk, plan, loop, notes
<1>13. CASE WriteBlockers
  BY <1>13 DEF WriteBlockers, disk, plan, loop, notes
<1>14. CASE WriteReport
  BY <1>14 DEF WriteReport, disk, plan, loop, notes
<1>15. CASE WriteCoverageFile
  BY <1>15 DEF WriteCoverageFile, disk, plan, loop, notes
<1>16. CASE WriteSummaryFile
  BY <1>16 DEF WriteSummaryFile, disk, plan, loop, notes
<1>17. CASE WriteManifest
  BY <1>17 DEF WriteManifest, Forget, disk, plan, loop, notes
<1>18. CASE Stop
  BY <1>18 DEF Stop, Forget, disk, plan, loop, notes
<1>19. ASSUME NEW c \in Collectors, LoseRaw(c)
      PROVE  ResultsHold'
  BY <1>19 DEF LoseRaw, disk, plan, loop, notes
<1>20. CASE UNCHANGED vars
  BY <1>20 DEF vars, disk, plan, loop, notes
<1> QED
  BY <1>1, <1>2, <1>3, <1>4, <1>5, <1>6, <1>7, <1>8, <1>9, <1>10, <1>11, <1>12,
     <1>13, <1>14, <1>15, <1>16, <1>17, <1>18, <1>19, <1>20 DEF Next, SessionStep

\* No step loses a gap.
LEMMA GapsKnownStep ==
    ASSUME IInv, [Next]_vars
    PROVE  GapsKnown'
<1> USE DEF IInv, GapsKnown, InLoop, Publishing, InSession, Doubtful, ResumedIncomplete
<1>1. ASSUME NEW sel \in SUBSET Collectors \ {{}}, NEW w \in Windows, Start(sel, w)
      PROVE  GapsKnown'
  BY <1>1 DEF Start, disk, plan, loop, notes
<1>2. ASSUME NEW blocked \in SUBSET Collectors, Preflight(blocked)
      PROVE  GapsKnown'
  BY <1>2 DEF PlanHolds, Preflight, disk, plan, loop, notes
<1>3. ASSUME NEW c \in Collectors, SkipBlocked(c)
      PROVE  GapsKnown'
  BY <1>3, ConstantsOk DEF PlanHolds, TypeOK, SkipBlocked, disk, plan, loop, notes
<1>4. ASSUME NEW c \in Collectors, CarryForward(c)
      PROVE  GapsKnown'
  BY <1>4 DEF PlanHolds, CarryForward, Turn, Carries, disk, plan, loop, notes
<1>5. ASSUME NEW c \in Collectors, BeginRead(c)
      PROVE  GapsKnown'
  BY <1>5, ConstantsOk DEF PlanHolds, TypeOK, BeginRead, Turn, disk, plan, loop, notes
<1>6. CASE WriteChunk
  BY <1>6 DEF WriteChunk, disk, plan, loop, notes
<1>7. ASSUME NEW o \in Outcomes, FinishRead(o)
      PROVE  GapsKnown'
  BY <1>7 DEF FinishRead, disk, plan, loop, notes
<1>8. CASE WriteIndex
  BY <1>8 DEF WriteIndex, disk, plan, loop, notes
<1>9. CASE WriteRaw
  BY <1>9 DEF WriteRaw, disk, plan, loop, notes
<1>10. CASE WriteMark
  BY <1>10 DEF WriteMark, disk, plan, loop, notes
<1>11. CASE StampWindow
  <2> USE ConstantsOk DEF PlanHolds, TypeOK
  <2>1. PICK c \in Collectors : c = cur
    BY <1>11 DEF StampWindow
  <2>2. out \in Outcomes /\ win \in Windows /\ StatusOf(out) \in {"ok", "partial", "failed"}
    BY StatusOfType
  <2>3. ckpt'[c] = [status |-> StatusOf(out), win |-> win] /\ results'[c] = StatusOf(out)
    BY <1>11, <2>1 DEF StampWindow
  <2>4. Doubtful(c)' => results'[c] \in {"partial", "failed", "blocked"}
    BY <1>11, <2>2, <2>3 DEF StampWindow, plan, WindowChanged
  <2>5. ASSUME NEW d \in Collectors, d # c, Doubtful(d)'
        PROVE  d \in todo \/ d \in ResumedIncomplete \/ results'[d] \in {"partial", "failed", "blocked"}
    <3>1. ckpt'[d] = ckpt[d] /\ results'[d] = results[d]
      BY <1>11, <2>1, <2>5 DEF StampWindow
    <3>2. Doubtful(d)
      BY <1>11, <2>5, <3>1 DEF StampWindow, plan, WindowChanged
    <3> QED BY <1>11, <2>1, <2>5, <3>1, <3>2 DEF StampWindow
  <2> QED BY <1>11, <2>4, <2>5 DEF StampWindow, plan
<1>12. CASE CloseLoop
  BY <1>12 DEF CloseLoop, disk, plan, loop, notes
<1>13. CASE WriteBlockers
  BY <1>13 DEF WriteBlockers, disk, plan, loop, notes
<1>14. CASE WriteReport
  BY <1>14 DEF WriteReport, disk, plan, loop, notes
<1>15. CASE WriteCoverageFile
  BY <1>15 DEF WriteCoverageFile, disk, plan, loop, notes
<1>16. CASE WriteSummaryFile
  BY <1>16 DEF WriteSummaryFile, disk, plan, loop, notes
<1>17. CASE WriteManifest
  BY <1>17 DEF WriteManifest, Forget, disk, plan, loop, notes
<1>18. CASE Stop
  BY <1>18 DEF Stop, Forget, disk, plan, loop, notes
<1>19. ASSUME NEW c \in Collectors, LoseRaw(c)
      PROVE  GapsKnown'
  BY <1>19 DEF LoseRaw, disk, plan, loop, notes
<1>20. CASE UNCHANGED vars
  BY <1>20 DEF vars, disk, plan, loop, notes
<1> QED
  BY <1>1, <1>2, <1>3, <1>4, <1>5, <1>6, <1>7, <1>8, <1>9, <1>10, <1>11, <1>12,
     <1>13, <1>14, <1>15, <1>16, <1>17, <1>18, <1>19, <1>20 DEF Next, SessionStep

\* A checkpoint is stamped only over the files it speaks of.
LEMMA MarksTruthfulStep ==
    ASSUME IInv, [Next]_vars
    PROVE  MarksTruthful'
<1> USE DEF IInv, MarksTruthful
<1>1. ASSUME NEW sel \in SUBSET Collectors \ {{}}, NEW w \in Windows, Start(sel, w)
      PROVE  MarksTruthful'
  BY <1>1 DEF Start, disk, plan, loop, notes
<1>2. ASSUME NEW blocked \in SUBSET Collectors, Preflight(blocked)
      PROVE  MarksTruthful'
  BY <1>2 DEF Preflight, disk, plan, loop, notes
<1>3. ASSUME NEW c \in Collectors, SkipBlocked(c)
      PROVE  MarksTruthful'
  BY <1>3 DEF SkipBlocked, disk, plan, loop, notes
<1>4. ASSUME NEW c \in Collectors, CarryForward(c)
      PROVE  MarksTruthful'
  BY <1>4 DEF CarryForward, Turn, disk, plan, loop, notes
<1>5. ASSUME NEW c \in Collectors, BeginRead(c)
      PROVE  MarksTruthful'
  BY <1>5, ConstantsOk DEF PlanHolds, ReadHolds, InSession, TypeOK, BeginRead, Turn, disk, plan, loop, notes
<1>6. CASE WriteChunk
  BY <1>6 DEF WriteChunk, disk, plan, loop, notes
<1>7. ASSUME NEW o \in Outcomes, FinishRead(o)
      PROVE  MarksTruthful'
  BY <1>7 DEF FinishRead, disk, plan, loop, notes
<1>8. CASE WriteIndex
  BY <1>8 DEF WriteIndex, disk, plan, loop, notes
<1>9. CASE WriteRaw
  BY <1>9 DEF WriteRaw, disk, plan, loop, notes
<1>10. CASE WriteMark
  BY <1>10 DEF WriteMark, disk, plan, loop, notes
<1>11. CASE StampWindow
  <2> USE ConstantsOk DEF PlanHolds, ReadHolds, InSession, TypeOK
  <2>1. cur \in Collectors /\ out \in Outcomes /\ win \in Windows
    BY <1>11 DEF StampWindow
  <2>2. ckpt'[cur] = [status |-> StatusOf(out), win |-> win]
    BY <1>11, <2>1 DEF StampWindow
  <2>3. ASSUME StatusOf(out) = "ok"
        PROVE  /\ raw[cur].read = "whole"
               /\ cur \in Windowed => raw[cur].win = win /\ chunks[cur] = win
    <3>1. out = "ok"
      BY <2>1, <2>3 DEF StatusOf, Outcomes
    <3> QED BY <1>11, <3>1 DEF StampWindow, EvidenceOf, ReadOver
  <2>4. \A d \in Collectors \ {cur} : ckpt'[d] = ckpt[d]
    BY <1>11, <2>1 DEF StampWindow
  <2> QED BY <1>11, <2>1, <2>2, <2>3, <2>4 DEF StampWindow
<1>12. CASE CloseLoop
  BY <1>12 DEF CloseLoop, disk, plan, loop, notes
<1>13. CASE WriteBlockers
  BY <1>13 DEF WriteBlockers, disk, plan, loop, notes
<1>14. CASE WriteReport
  BY <1>14 DEF WriteReport, disk, plan, loop, notes
<1>15. CASE WriteCoverageFile
  BY <1>15 DEF WriteCoverageFile, disk, plan, loop, notes
<1>16. CASE WriteSummaryFile
  BY <1>16 DEF WriteSummaryFile, disk, plan, loop, notes
<1>17. CASE WriteManifest
  BY <1>17, ConstantsOk DEF PlanHolds, ReadHolds, InSession, TypeOK, WriteManifest, Forget, disk, plan, loop, notes
<1>18. CASE Stop
  BY <1>18 DEF Stop, Forget, disk, plan, loop, notes
<1>19. ASSUME NEW c \in Collectors, LoseRaw(c)
      PROVE  MarksTruthful'
  BY <1>19 DEF LoseRaw, NoEvidence, disk, plan, loop, notes
<1>20. CASE UNCHANGED vars
  BY <1>20 DEF vars, disk, plan, loop, notes
<1> QED
  BY <1>1, <1>2, <1>3, <1>4, <1>5, <1>6, <1>7, <1>8, <1>9, <1>10, <1>11, <1>12,
     <1>13, <1>14, <1>15, <1>16, <1>17, <1>18, <1>19, <1>20 DEF Next, SessionStep

\* No step asks for a finished collector again.
LEMMA FinishedRestsStep ==
    ASSUME IInv, [Next]_vars
    PROVE  FinishedRests'
<1> USE DEF IInv, FinishedRests, InLoop, Carries
<1>1. ASSUME NEW sel \in SUBSET Collectors \ {{}}, NEW w \in Windows, Start(sel, w)
      PROVE  FinishedRests'
  BY <1>1 DEF Start, disk, plan, loop, notes
<1>2. ASSUME NEW blocked \in SUBSET Collectors, Preflight(blocked)
      PROVE  FinishedRests'
  BY <1>2 DEF InSession, PlanHolds, Preflight, disk, plan, loop, notes
<1>3. ASSUME NEW c \in Collectors, SkipBlocked(c)
      PROVE  FinishedRests'
  BY <1>3 DEF SkipBlocked, disk, plan, loop, notes
<1>4. ASSUME NEW c \in Collectors, CarryForward(c)
      PROVE  FinishedRests'
  BY <1>4 DEF CarryForward, Turn, disk, plan, loop, notes
<1>5. ASSUME NEW c \in Collectors, BeginRead(c)
      PROVE  FinishedRests'
  BY <1>5 DEF InSession, PlanHolds, BeginRead, Turn, disk, plan, loop, notes
<1>6. CASE WriteChunk
  BY <1>6 DEF WriteChunk, disk, plan, loop, notes
<1>7. ASSUME NEW o \in Outcomes, FinishRead(o)
      PROVE  FinishedRests'
  BY <1>7 DEF FinishRead, disk, plan, loop, notes
<1>8. CASE WriteIndex
  BY <1>8 DEF WriteIndex, disk, plan, loop, notes
<1>9. CASE WriteRaw
  BY <1>9 DEF WriteRaw, disk, plan, loop, notes
<1>10. CASE WriteMark
  BY <1>10 DEF WriteMark, disk, plan, loop, notes
<1>11. CASE StampWindow
  BY <1>11 DEF InSession, PlanHolds, StampWindow, disk, plan, loop, notes
<1>12. CASE CloseLoop
  BY <1>12 DEF CloseLoop, disk, plan, loop, notes
<1>13. CASE WriteBlockers
  BY <1>13 DEF WriteBlockers, disk, plan, loop, notes
<1>14. CASE WriteReport
  BY <1>14 DEF WriteReport, disk, plan, loop, notes
<1>15. CASE WriteCoverageFile
  BY <1>15 DEF WriteCoverageFile, disk, plan, loop, notes
<1>16. CASE WriteSummaryFile
  BY <1>16 DEF WriteSummaryFile, disk, plan, loop, notes
<1>17. CASE WriteManifest
  BY <1>17 DEF WriteManifest, Forget, disk, plan, loop, notes
<1>18. CASE Stop
  BY <1>18 DEF Stop, Forget, disk, plan, loop, notes
<1>19. ASSUME NEW c \in Collectors, LoseRaw(c)
      PROVE  FinishedRests'
  BY <1>19 DEF LoseRaw, disk, plan, loop, notes
<1>20. CASE UNCHANGED vars
  BY <1>20 DEF vars, disk, plan, loop, notes
<1> QED
  BY <1>1, <1>2, <1>3, <1>4, <1>5, <1>6, <1>7, <1>8, <1>9, <1>10, <1>11, <1>12,
     <1>13, <1>14, <1>15, <1>16, <1>17, <1>18, <1>19, <1>20 DEF Next, SessionStep

\* The evidence of a finished collector is of one window.
LEMMA FinishedIsOneWindow ==
    ASSUME IInv, NEW c \in Collectors \ torn, c # cur, Carries(c, win)
    PROVE  ~Mixed(c)
<1> USE ConstantsOk DEF IInv, TypeOK
<1>1. CASE Payload(c).read = "none"
  <2>1. ShownOf(c).wins = {}
    BY <1>1 DEF ShownOf, NotShown
  <2> QED BY <2>1, FS_EmptySet DEF Mixed
<1>2. CASE Payload(c).read # "none"
  <2>1. Payload(c) = raw[c] /\ raw[c].win \in Windows
    BY <1>2 DEF Payload, NoEvidence, Evidence
  <2>2. c \in Windowed => chunks[c] = raw[c].win
    BY DEF MarksTruthful, Carries
  <2>3. ShownOf(c).wins = {raw[c].win}
    BY <1>2, <2>1, <2>2 DEF ShownOf
  <2>4. Cardinality(ShownOf(c).wins) = 1
    BY <2>1, <2>3, FS_Singleton
  <2> QED BY <2>4 DEF Mixed
<1> QED BY <1>1, <1>2

\* What the headline counts as a gap has work left.
LEMMA GapIsOutstanding ==
    ASSUME IInv, Publishing, NEW c \in Gaps
    PROVE  c \in Collectors /\ Outstanding(c, win)
<1> USE DEF IInv, TypeOK, Publishing, InSession
<1>1. CASE c \in Collectors /\ results[c] \in {"partial", "failed", "blocked"}
  <2>1. ckpt[c].status = results[c]
    BY <1>1 DEF ResultsHold
  <2> QED BY <1>1, <2>1 DEF Outstanding, Carries
<1>2. CASE c \in ResumedIncomplete
  BY <1>2 DEF ResumedIncomplete, GapsReal, Outstanding
<1>3. CASE c \in flagged
  BY <1>3 DEF GapsReal
<1> QED BY <1>1, <1>2, <1>3 DEF Gaps

\* Publishing writes what the session holds.
LEMMA PublishHoldsStep ==
    ASSUME IInv, [Next]_vars
    PROVE  PublishHolds'
<1> USE DEF IInv, PublishHolds, Publishing
<1>1. ASSUME NEW sel \in SUBSET Collectors \ {{}}, NEW w \in Windows, Start(sel, w)
      PROVE  PublishHolds'
  BY <1>1 DEF Start, disk, plan, loop, notes
<1>2. ASSUME NEW blocked \in SUBSET Collectors, Preflight(blocked)
      PROVE  PublishHolds'
  BY <1>2 DEF Preflight, disk, plan, loop, notes
<1>3. ASSUME NEW c \in Collectors, SkipBlocked(c)
      PROVE  PublishHolds'
  BY <1>3 DEF SkipBlocked, disk, plan, loop, notes
<1>4. ASSUME NEW c \in Collectors, CarryForward(c)
      PROVE  PublishHolds'
  BY <1>4 DEF CarryForward, Turn, disk, plan, loop, notes
<1>5. ASSUME NEW c \in Collectors, BeginRead(c)
      PROVE  PublishHolds'
  BY <1>5 DEF BeginRead, Turn, disk, plan, loop, notes
<1>6. CASE WriteChunk
  BY <1>6 DEF WriteChunk, disk, plan, loop, notes
<1>7. ASSUME NEW o \in Outcomes, FinishRead(o)
      PROVE  PublishHolds'
  BY <1>7 DEF FinishRead, disk, plan, loop, notes
<1>8. CASE WriteIndex
  BY <1>8 DEF WriteIndex, disk, plan, loop, notes
<1>9. CASE WriteRaw
  BY <1>9 DEF WriteRaw, disk, plan, loop, notes
<1>10. CASE WriteMark
  BY <1>10 DEF WriteMark, disk, plan, loop, notes
<1>11. CASE StampWindow
  BY <1>11 DEF StampWindow, disk, plan, loop, notes
<1>12. CASE CloseLoop
  <2> USE ConstantsOk DEF InSession, PlanHolds, TypeOK
  <2>1. ASSUME NEW c \in selected PROVE RowsFor(sum, c)' # {}
    <3>1. c \in Collectors /\ c \notin todo /\ c # cur
      BY <1>12, <2>1 DEF CloseLoop
    <3>2. results[c] # "none"
      BY <1>12, <2>1, <3>1 DEF CloseLoop, ResultsHold, InSession
    <3>3. CASE c \in carried /\ RowsFor(sum, c) # {}
      BY <1>12, <3>3 DEF CloseLoop, RowsFor
    <3>4. CASE ~(c \in carried /\ RowsFor(sum, c) # {})
      <4>1. <<c, results[c]>> \in NewSummaryRows
        BY <3>1, <3>2, <3>4 DEF NewSummaryRows
      <4> QED BY <1>12, <4>1 DEF CloseLoop, RowsFor
    <3> QED BY <3>3, <3>4
  <2>2. ASSUME NEW c \in selected, results[c] # "ok" PROVE <<c, results[c]>> \in sum'
    <3>1. c \in Collectors /\ c \notin todo /\ c # cur
      BY <1>12, <2>2 DEF CloseLoop
    <3>2. results[c] # "none" /\ ckpt[c].status = results[c]
      BY <1>12, <2>2, <3>1 DEF CloseLoop, ResultsHold, InSession
    <3>3. c \notin carried
      BY <1>12, <2>2, <3>2 DEF CloseLoop, Carries
    <3>4. <<c, results[c]>> \in NewSummaryRows
      BY <3>1, <3>2, <3>3 DEF NewSummaryRows
    <3> QED BY <1>12, <3>4 DEF CloseLoop
  <2> QED BY <1>12, <2>1, <2>2 DEF CloseLoop, plan
<1>13. CASE WriteBlockers
  BY <1>13 DEF WriteBlockers, disk, plan, loop, notes
<1>14. CASE WriteReport
  BY <1>14 DEF WriteReport, ShownOf, Payload, disk, plan, loop, notes
<1>15. CASE WriteCoverageFile
  BY <1>15 DEF WriteCoverageFile, ShownOf, Payload, disk, plan, loop, notes
<1>16. CASE WriteSummaryFile
  BY <1>16 DEF WriteSummaryFile, ShownOf, Payload, disk, plan, loop, notes
<1>17. CASE WriteManifest
  <2> USE ConstantsOk DEF InSession, PlanHolds, TypeOK
  <2>1. todo = {} /\ cur \notin Collectors /\ sumFile = sum
    BY <1>17 DEF WriteManifest
  <2>2. HeadlineHonest'
    <3>1. ASSUME Gaps = {} PROVE \A c \in Collectors : ckpt[c].status \in {"none", "ok"}
      BY <1>17, <2>1, <3>1 DEF WriteManifest, Gaps, GapsKnown, Doubtful
    <3>2. ASSUME selected # {}, Overall = "partial" PROVE \E c \in Collectors : Outstanding(c, win)
      BY <1>17, <3>2, GapIsOutstanding DEF WriteManifest, Overall
    <3>3. manifest' = [overall |-> Overall, win |-> win, sel |-> selected] /\ UNCHANGED <<ckpt, raw, torn>>
      BY <1>17 DEF WriteManifest
    <3> QED BY <3>1, <3>2, <3>3 DEF HeadlineHonest, Overall, Outstanding, Carries, WindowChanged
  <2>3. ExitHonest'
    <3>1. ASSUME Gaps \ NonFatal = {}
          PROVE  \A c \in Collectors \ NonFatal : ckpt[c].status \in {"none", "ok"}
      BY <1>17, <2>1, <3>1 DEF WriteManifest, Gaps, GapsKnown, Doubtful
    <3>2. ASSUME selected # {}, ExitCode = 1
          PROVE  \E c \in Collectors \ NonFatal : Outstanding(c, win)
      BY <1>17, <3>2, GapIsOutstanding DEF WriteManifest, ExitCode
    <3>3. manifest'.win = win /\ manifest'.sel = selected /\ exit' = ExitCode /\ UNCHANGED <<ckpt, raw, torn>>
      BY <1>17 DEF WriteManifest
    <3> QED BY <3>1, <3>2, <3>3 DEF ExitHonest, ExitCode, Outstanding, Carries, WindowChanged
  <2>4. EvidenceHonest'
    <3> SUFFICES ASSUME selected # {}, Gaps = {}, NEW c \in selected \ torn
                 PROVE  report[c].read = "whole" /\ (c \in Windowed => report[c].wins = {win})
      BY <1>17 DEF WriteManifest, EvidenceHonest, Published, Overall
    <3>1. c \in Collectors /\ c # cur /\ results[c] = "ok"
      <4>1. results[c] # "none" /\ c \in Collectors
        BY <1>17, <2>1 DEF WriteManifest, ResultsHold
      <4> QED BY <2>1, <4>1 DEF Gaps, Statuses
    <3>2. Carries(c, win)
      BY <1>17, <3>1 DEF WriteManifest, ResultsHold
    <3>3. raw[c].read = "whole" /\ (c \in Windowed => raw[c].win = win /\ chunks[c] = win)
      <4>1. raw[c].read = "whole" /\ (c \in Windowed => raw[c].win = ckpt[c].win /\ chunks[c] = ckpt[c].win)
        BY <3>1, <3>2 DEF MarksTruthful, Carries
      <4>2. raw[c].win \in Windows
        BY <3>1 DEF Evidence
      <4>3. c \in Windowed => ckpt[c].win = win
        BY <3>2, <4>1, <4>2 DEF Carries, WindowChanged
      <4> QED BY <4>1, <4>3
    <3>4. report[c] = ShownOf(c) /\ Payload(c) = raw[c]
      BY <1>17, <3>1 DEF WriteManifest, Payload
    <3> QED BY <3>3, <3>4 DEF ShownOf
  <2>5. SelectedSummarised'
    <3>1. ASSUME NEW c \in selected
          PROVE  /\ RowsFor(sumFile, c) # {}
                 /\ ckpt[c].status # "ok" => <<c, ckpt[c].status>> \in sumFile
      <4>1. ckpt[c].status = results[c]
        BY <1>17, <2>1, <3>1 DEF WriteManifest, ResultsHold
      <4> QED BY <1>17, <2>1, <3>1, <4>1 DEF WriteManifest
    <3>2. manifest'.sel = selected /\ UNCHANGED <<ckpt, sumFile>>
      BY <1>17 DEF WriteManifest
    <3> QED BY <3>1, <3>2 DEF SelectedSummarised, RowsFor
  <2> QED BY <1>17, <2>2, <2>3, <2>4, <2>5 DEF WriteManifest
<1>18. CASE Stop
  BY <1>18 DEF Stop, Forget, disk, plan, loop, notes
<1>19. ASSUME NEW c \in Collectors, LoseRaw(c)
      PROVE  PublishHolds'
  <2>1. \A d \in Collectors : Outstanding(d, manifest.win) => Outstanding(d, manifest.win)'
    BY <1>19 DEF LoseRaw, TypeOK, NoEvidence, Outstanding, Carries, WindowChanged
  <2> QED BY <1>19, <2>1 DEF LoseRaw, Published, HeadlineHonest, ExitHonest, EvidenceHonest,
         SelectedSummarised, disk, plan, loop, notes
<1>20. CASE UNCHANGED vars
  BY <1>20 DEF vars, ShownOf, Payload, Published, HeadlineHonest, ExitHonest, EvidenceHonest, SelectedSummarised,
     Outstanding, Carries, WindowChanged, RowsFor, disk, plan, loop, notes
<1> QED
  BY <1>1, <1>2, <1>3, <1>4, <1>5, <1>6, <1>7, <1>8, <1>9, <1>10, <1>11, <1>12,
     <1>13, <1>14, <1>15, <1>16, <1>17, <1>18, <1>19, <1>20 DEF Next, SessionStep

\* The rows in memory name every partial read when the blockers are taken from them.
LEMMA BlockersHoldStep ==
    ASSUME IInv, [Next]_vars
    PROVE  BlockersHold'
<1> USE DEF IInv, BlockersHold, InSession, Publishing
<1>1. ASSUME NEW sel \in SUBSET Collectors \ {{}}, NEW w \in Windows, Start(sel, w)
      PROVE  BlockersHold'
  BY <1>1 DEF Start, disk, plan, loop, notes
<1>2. ASSUME NEW blocked \in SUBSET Collectors, Preflight(blocked)
      PROVE  BlockersHold'
  BY <1>2 DEF Preflight, disk, plan, loop, notes
<1>3. ASSUME NEW c \in Collectors, SkipBlocked(c)
      PROVE  BlockersHold'
  BY <1>3 DEF TypeOK, SkipBlocked, disk, plan, loop, notes
<1>4. ASSUME NEW c \in Collectors, CarryForward(c)
      PROVE  BlockersHold'
  BY <1>4 DEF TypeOK, CarryForward, Turn, disk, plan, loop, notes
<1>5. ASSUME NEW c \in Collectors, BeginRead(c)
      PROVE  BlockersHold'
  <2>1. c \in todo /\ results[c] = "none"
    BY <1>5 DEF BeginRead, Turn, TypeOK, ResultsHold
  <2>2. ASSUME NEW d \in Collectors, results[d] = "partial"
        PROVE  <<d, "read", "failed">> \in cov'
    <3>1. <<d, "read", "failed">> \in cov /\ d # c
      BY <1>5, <2>1, <2>2 DEF BeginRead, Turn
    <3> QED BY <1>5, <3>1 DEF BeginRead, RowsWithout
  <2> QED BY <1>5, <2>2 DEF BeginRead
<1>6. CASE WriteChunk
  BY <1>6 DEF WriteChunk, disk, plan, loop, notes
<1>7. ASSUME NEW o \in Outcomes, FinishRead(o)
      PROVE  BlockersHold'
  BY <1>7 DEF FinishRead, disk, plan, loop, notes
<1>8. CASE WriteIndex
  <2>1. out = "partial" => <<cur, "read", "failed">> \in RowsOf(cur, out)
    BY DEF RowsOf
  <2> QED BY <1>8, <2>1 DEF WriteIndex, plan, loop, notes
<1>9. CASE WriteRaw
  BY <1>9 DEF WriteRaw, disk, plan, loop, notes
<1>10. CASE WriteMark
  BY <1>10 DEF WriteMark, disk, plan, loop, notes
<1>11. CASE StampWindow
  <2>1. StatusOf(out) = "partial" => out = "partial"
    BY DEF StatusOf
  <2>2. \A d \in Collectors : results'[d] = IF d = cur THEN StatusOf(out) ELSE results[d]
    BY <1>11 DEF StampWindow, TypeOK
  <2> QED BY <1>11, <2>1, <2>2 DEF StampWindow, plan
<1>12. CASE CloseLoop
  <2>1. ASSUME NEW c \in selected \ torn, results[c] = "ok" PROVE c \notin flagged'
    <3>1. c \in Collectors /\ c # cur /\ Carries(c, win)
      BY <1>12, <2>1, ConstantsOk DEF CloseLoop, TypeOK, ResultsHold
    <3>2. ~Mixed(c)
      BY <2>1, <3>1, FinishedIsOneWindow
    <3> QED BY <1>12, <3>2 DEF CloseLoop
  <2> QED BY <1>12, <2>1 DEF CloseLoop, disk, plan, loop
<1>13. CASE WriteBlockers
  <2>1. ASSUME NEW c \in selected, results[c] = "partial" PROVE c \in Diagnosed
    <3>1. c \in Collectors /\ <<c, "read", "failed">> \in RowsFor(cov, c)
      BY <1>13, <2>1 DEF WriteBlockers, TypeOK, RowsFor
    <3> QED BY <2>1, <3>1 DEF Diagnosed
  <2>2. ASSUME NEW c \in selected \ torn, results[c] = "ok" PROVE c \notin Diagnosed \cup flagged
    BY <1>13, <2>2 DEF WriteBlockers, Diagnosed
  <2> QED BY <1>13, <2>1, <2>2 DEF WriteBlockers, plan, loop, notes
<1>14. CASE WriteReport
  BY <1>14 DEF WriteReport, disk, plan, loop, notes
<1>15. CASE WriteCoverageFile
  BY <1>15 DEF WriteCoverageFile, disk, plan, loop, notes
<1>16. CASE WriteSummaryFile
  BY <1>16 DEF WriteSummaryFile, disk, plan, loop, notes
<1>17. CASE WriteManifest
  <2>1. \A c \in selected : ckpt[c].status = results[c]
    BY <1>17, ConstantsOk DEF WriteManifest, TypeOK, PlanHolds, ResultsHold
  <2>2. manifest'.sel = selected /\ UNCHANGED <<ckpt, blockers, torn>>
    BY <1>17 DEF WriteManifest
  <2>3. \A c \in selected :
           /\ results[c] = "partial" => c \in blockers
           /\ results[c] = "ok" /\ c \notin torn => c \notin blockers
    BY <1>17 DEF WriteManifest
  <2>4. BlockersCurrent'
    BY <2>1, <2>2, <2>3 DEF BlockersCurrent
  <2> QED BY <1>17, <2>4 DEF WriteManifest
<1>18. CASE Stop
  BY <1>18 DEF Stop, Forget
<1>19. ASSUME NEW c \in Collectors, LoseRaw(c)
      PROVE  BlockersHold'
  BY <1>19 DEF LoseRaw, BlockersCurrent, Published, plan, loop, notes
<1>20. CASE UNCHANGED vars
  BY <1>20 DEF vars, BlockersCurrent, Published, disk, plan, loop, notes
<1> QED
  BY <1>1, <1>2, <1>3, <1>4, <1>5, <1>6, <1>7, <1>8, <1>9, <1>10, <1>11, <1>12,
     <1>13, <1>14, <1>15, <1>16, <1>17, <1>18, <1>19, <1>20 DEF Next, SessionStep

\* What a session decides about the collectors outside it stays true of their files.
LEMMA GapsRealStep ==
    ASSUME IInv, [Next]_vars
    PROVE  GapsReal'
<1> USE DEF IInv, GapsReal, InSession, Publishing, Outstanding, Carries, WindowChanged
<1>1. ASSUME NEW sel \in SUBSET Collectors \ {{}}, NEW w \in Windows, Start(sel, w)
      PROVE  GapsReal'
  BY <1>1 DEF TypeOK, Start, disk, plan, loop, notes
<1>2. ASSUME NEW blocked \in SUBSET Collectors, Preflight(blocked)
      PROVE  GapsReal'
  <2>1. UNCHANGED <<ckpt, raw, win, carried, known, cur, flagged, torn>>
    BY <1>2 DEF Preflight, disk, notes
  <2>2. flagged = {} /\ cur = NoCollector /\ pc' \in {"coverageFile", "collect"}
    BY <1>2 DEF TypeOK, Preflight
  <2>3. /\ carried = {c \in Collectors : Carries(c, win)}
        /\ known = {c \in Collectors : ckpt[c].status # "none"}
    BY <1>2 DEF PlanHolds, Preflight
  <2>4. \A c \in Collectors : Carries(c, win)' <=> Carries(c, win)
    BY <2>1
  <2>5. ASSUME NEW c \in known' \ (selected' \cup carried')
        PROVE  ckpt'[c].status # "none" /\ ~Carries(c, win)'
    <3> HIDE DEF Carries
    <3> QED BY <2>1, <2>3, <2>4
  <2> HIDE DEF Carries, Outstanding
  <2> QED BY <2>1, <2>2, <2>5
<1>3. ASSUME NEW c \in Collectors, SkipBlocked(c)
      PROVE  GapsReal'
  BY <1>3 DEF TypeOK, SkipBlocked, disk, plan, loop, notes
<1>4. ASSUME NEW c \in Collectors, CarryForward(c)
      PROVE  GapsReal'
  BY <1>4 DEF CarryForward, Turn, disk, plan, loop, notes
<1>5. ASSUME NEW c \in Collectors, BeginRead(c)
      PROVE  GapsReal'
  BY <1>5 DEF PlanHolds, BeginRead, Turn, disk, plan, loop, notes
<1>6. CASE WriteChunk
  BY <1>6 DEF WriteChunk, disk, plan, loop, notes
<1>7. ASSUME NEW o \in Outcomes, FinishRead(o)
      PROVE  GapsReal'
  BY <1>7 DEF FinishRead, disk, plan, loop, notes
<1>8. CASE WriteIndex
  BY <1>8 DEF WriteIndex, disk, plan, loop, notes
<1>9. CASE WriteRaw
  BY <1>9 DEF TypeOK, WriteRaw, disk, plan, loop, notes
<1>10. CASE WriteMark
  BY <1>10 DEF TypeOK, WriteMark, disk, plan, loop, notes
<1>11. CASE StampWindow
  BY <1>11 DEF TypeOK, StampWindow, disk, plan, loop, notes
<1>12. CASE CloseLoop
  <2>1. ASSUME NEW c \in flagged' PROVE Outstanding(c, win)
    <3>1. c \in Collectors /\ Mixed(c) /\ c # cur
      BY <1>12, <2>1, ConstantsOk DEF CloseLoop
    <3>2. results[c] # "none"
      <4> SUFFICES ASSUME results[c] = "none" PROVE ~Mixed(c)
        BY <3>1
      <4>1. ShownOf(c).wins = {}
        BY DEF ShownOf, Payload, NoEvidence, NotShown
      <4> QED BY <4>1, FS_EmptySet DEF Mixed
    <3>3. ckpt[c].status # "none"
      BY <1>12, <3>1, <3>2 DEF CloseLoop, ResultsHold
    <3>4. c \in torn \/ ~Carries(c, win)
      BY <3>1, FinishedIsOneWindow
    <3> QED BY <3>3, <3>4
  <2> QED BY <1>12, <2>1 DEF CloseLoop, disk, plan, loop
<1>13. CASE WriteBlockers
  BY <1>13 DEF WriteBlockers, disk, plan, loop, notes
<1>14. CASE WriteReport
  BY <1>14 DEF WriteReport, disk, plan, loop, notes
<1>15. CASE WriteCoverageFile
  BY <1>15 DEF WriteCoverageFile, disk, plan, loop, notes
<1>16. CASE WriteSummaryFile
  BY <1>16 DEF WriteSummaryFile, disk, plan, loop, notes
<1>17. CASE WriteManifest
  BY <1>17 DEF WriteManifest, Forget
<1>18. CASE Stop
  BY <1>18 DEF Stop, Forget
<1>19. ASSUME NEW c \in Collectors, LoseRaw(c)
      PROVE  GapsReal'
  BY <1>19 DEF LoseRaw, plan, loop, notes
<1>20. CASE UNCHANGED vars
  BY <1>20 DEF vars, disk, plan, loop, notes
<1> QED
  BY <1>1, <1>2, <1>3, <1>4, <1>5, <1>6, <1>7, <1>8, <1>9, <1>10, <1>11, <1>12,
     <1>13, <1>14, <1>15, <1>16, <1>17, <1>18, <1>19, <1>20 DEF Next, SessionStep

\* The invariant holds initially and is kept by every step.
LEMMA InvariantInductive == Spec => []IInv
<1>1. Init => IInv
  BY ConstantsOk, TypeInit DEF Init, IInv, PlanHolds, ReadHolds, ResultsHold, GapsKnown, MarksTruthful,
     FinishedRests, PublishHolds, BlockersHold, GapsReal, InSession, InLoop, Publishing, NoMark
<1>2. IInv /\ [Next]_vars => IInv'
  BY TypeStep, PlanHoldsStep, ReadHoldsStep, ResultsHoldStep, GapsKnownStep, MarksTruthfulStep,
     FinishedRestsStep, PublishHoldsStep, BlockersHoldStep, GapsRealStep DEF IInv
<1> QED BY <1>1, <1>2, PTL DEF Spec

\* HeadlineHonest: a bundle whose headline is "ok" leaves no checkpointed collector
\* unfinished, and one whose headline is "partial" has a collector with work left, whatever
\* the sessions selected and wherever they stopped (run_live).
THEOREM HeadlineIsHonest == Spec => []HeadlineHonest
<1>1. IInv => HeadlineHonest
  BY DEF IInv, PublishHolds, HeadlineHonest, Published
<1> QED BY <1>1, InvariantInductive, PTL

\* ExitHonest: exit code 0 leaves no required collector unfinished, and exit code 1 is for a
\* required collector that has work left (run_live, required_gaps).
THEOREM ExitIsHonest == Spec => []ExitHonest
<1>1. IInv => ExitHonest
  BY DEF IInv, PublishHolds, ExitHonest, Published
<1> QED BY <1>1, InvariantInductive, PTL

\* EvidenceHonest: under an "ok" headline every selected collector's evidence is whole and of
\* the window the manifest records, unless its read was cut off and never completed
\* (_resume_carried_collectors).
THEOREM EvidenceIsHonest == Spec => []EvidenceHonest
<1>1. IInv => EvidenceHonest
  BY DEF IInv, PublishHolds, EvidenceHonest, Published
<1> QED BY <1>1, InvariantInductive, PTL

\* SelectedSummarised: a published bundle has a summary row for every collector it claims to
\* hold, and for an unfinished one the row of its last end (run_live, carried_row).
THEOREM SummaryIsComplete == Spec => []SelectedSummarised
<1>1. IInv => SelectedSummarised
  BY DEF IInv, PublishHolds, SelectedSummarised, Published
<1> QED BY <1>1, InvariantInductive, PTL

\* BlockersCurrent: in a published bundle every partial collector it claims has a blocker and
\* no finished one has, unless its read was cut off (write_blockers, build_diagnostics).
THEOREM BlockersAreCurrent == Spec => []BlockersCurrent
<1>1. IInv => BlockersCurrent
  BY DEF IInv, BlockersHold, BlockersCurrent, Published
<1> QED BY <1>1, InvariantInductive, PTL

\* FinishedStays: a finished collector that reads no events is never read again or touched
\* while its payload is there (_resume_carried_collectors).
THEOREM FinishedIsFinal == Spec => FinishedStays
<1> DEFINE Kept == \A c \in Collectors \ Windowed :
                      ckpt[c].status = "ok" /\ raw[c].read # "none" /\ cur # c
                         => /\ cur' # c
                            /\ ckpt'[c].status = "ok"
                            /\ raw'[c] \in {raw[c], NoEvidence}
<1>1. IInv /\ [Next]_vars => Kept \/ UNCHANGED vars
  <2> SUFFICES ASSUME IInv, Next,
                      NEW c \in Collectors \ Windowed,
                      ckpt[c].status = "ok", raw[c].read # "none", cur # c
               PROVE  cur' # c /\ ckpt'[c].status = "ok" /\ raw'[c] \in {raw[c], NoEvidence}
    OBVIOUS
  <2> USE ConstantsOk DEF IInv, TypeOK
  <2>1. Carries(c, win)
    BY DEF Carries
  <2>2. InLoop => (c \in carried \/ c \notin todo \cup toSkip)
    BY <2>1 DEF FinishedRests
  <2>3. ASSUME NEW sel \in SUBSET Collectors \ {{}}, NEW w \in Windows, Start(sel, w)
        PROVE  UNCHANGED <<ckpt, raw, cur>>
    BY <2>3 DEF Start, disk, loop
  <2>4. ASSUME NEW b \in SUBSET Collectors, Preflight(b) PROVE UNCHANGED <<ckpt, raw, cur>>
    BY <2>4 DEF Preflight, disk
  <2>5. ASSUME NEW d \in Collectors, SkipBlocked(d)
        PROVE  UNCHANGED <<raw, cur>> /\ ckpt'[c] = ckpt[c]
    BY <2>2, <2>5 DEF SkipBlocked, PlanHolds, InSession, InLoop
  <2>6. ASSUME NEW d \in Collectors, CarryForward(d) PROVE UNCHANGED <<ckpt, raw, cur>>
    BY <2>6 DEF CarryForward, disk
  <2>7. ASSUME NEW d \in Collectors, BeginRead(d)
        PROVE  UNCHANGED <<ckpt, raw>> /\ cur' # c
    BY <2>2, <2>7 DEF BeginRead, Turn, disk, InLoop
  <2>8. CASE WriteChunk \/ WriteIndex \/ (\E o \in Outcomes : FinishRead(o))
    BY <2>8 DEF WriteChunk, WriteIndex, FinishRead, disk, loop
  <2>9. CASE WriteRaw
    BY <2>9 DEF WriteRaw, loop
  <2>10. CASE WriteMark
    BY <2>10 DEF WriteMark, loop
  <2>11. CASE StampWindow
    BY <2>11 DEF StampWindow
  <2>12. CASE \/ CloseLoop \/ WriteBlockers \/ WriteReport
              \/ WriteCoverageFile \/ WriteSummaryFile
    BY <2>12 DEF CloseLoop, WriteBlockers, WriteReport, WriteCoverageFile, WriteSummaryFile, disk, loop
  <2>13. CASE WriteManifest \/ Stop
    BY <2>13 DEF WriteManifest, Stop, Forget, disk
  <2>14. ASSUME NEW d \in Collectors, LoseRaw(d)
         PROVE  UNCHANGED <<ckpt, cur>> /\ raw'[c] \in {raw[c], NoEvidence}
    BY <2>14 DEF LoseRaw, loop
  <2> QED
    BY <2>3, <2>4, <2>5, <2>6, <2>7, <2>8, <2>9, <2>10, <2>11, <2>12, <2>13, <2>14
       DEF Next, SessionStep
<1>2. IInv /\ [Next]_vars => [Kept]_vars
  BY <1>1
<1> QED BY <1>2, InvariantInductive, PTL DEF Spec, FinishedStays

-----------------------------------------------------------------------------
(* The run folder implements RunPromise.                                   *)

HeldOf(c) == [state |-> IF ckpt[c].status = "none" THEN "unread"
                        ELSE IF ckpt[c].status = "ok" THEN "finished" ELSE "unfinished",
              over |-> IF ckpt[c].status = "ok" THEN ckpt[c].win ELSE Unrecorded]

Held     == [c \in Collectors |-> HeldOf(c)]
Headline == [overall |-> manifest.overall, win |-> manifest.win]

\* A checkpoint written for one collector is a Record of it.
LEMMA MarkIsRecord ==
    ASSUME NEW c \in Collectors, NEW mark \in Mark, mark.status # "none",
           ckpt \in [Collectors -> Mark],
           ckpt' = [ckpt EXCEPT ![c] = mark], UNCHANGED manifest
    PROVE  Promise!Record(c)
<1> DEFINE h == [state |-> IF mark.status = "ok" THEN "finished" ELSE "unfinished",
                 over |-> IF mark.status = "ok" THEN mark.win ELSE Unrecorded]
<1>1. HeldOf(c)' = h
  BY DEF HeldOf, Mark
<1>2. \A d \in Collectors \ {c} : HeldOf(d)' = HeldOf(d)
  BY DEF HeldOf
<1>3. Held' = [Held EXCEPT ![c] = h]
  <2> HIDE DEF h
  <2> QED BY <1>1, <1>2 DEF Held
<1>4. h \in {Promise!Unfinished} \cup {Promise!Finished(w) : w \in Windows \cup {Unrecorded}}
  BY DEF Promise!Unfinished, Promise!Finished, Mark
<1> QED BY <1>3, <1>4 DEF Promise!Record, Held, HeldOf, Headline

\* The manifest written at the end of a session is a Publish.
LEMMA ManifestIsPublish ==
    ASSUME IInv, WriteManifest
    PROVE  Promise!Publish(Headline')
<1> USE ConstantsOk DEF IInv, TypeOK
<1>1. Overall \in {"ok", "partial"} /\ win \in Windows
  BY DEF Overall
<1>2. Headline' = [overall |-> Overall, win |-> win] /\ UNCHANGED ckpt
  BY DEF WriteManifest, Headline
<1>3. Headline' \in Promise!Verdicts /\ Headline'.overall # "none"
  BY <1>1, <1>2 DEF Promise!Verdicts
<1>4. ASSUME Overall = "ok", NEW c \in Collectors PROVE Promise!Stands(c, win)
  <2>1. ~Doubtful(c)
    <3>1. todo = {} /\ cur = NoCollector
      BY DEF WriteManifest, PlanHolds, Publishing, InSession
    <3> QED BY <1>4, <3>1 DEF Overall, Gaps, WriteManifest, GapsKnown, Publishing
  <2>2. CASE ckpt[c].status = "none"
    BY <2>2 DEF Promise!Stands
  <2>3. CASE ckpt[c].status # "none"
    <3>1. ckpt[c].status = "ok" /\ (c \in Windowed => ~WindowChanged(ckpt[c], win))
      BY <2>1, <2>3 DEF Doubtful
    <3> QED BY <3>1 DEF Promise!Stands, WindowChanged
  <2> QED BY <2>2, <2>3
<1> QED BY <1>2, <1>3, <1>4 DEF Promise!Publish, Headline, Held, HeldOf

\* Every step of a session is a step of RunPromise or leaves what it promises alone.
LEMMA StepIsPromised ==
    ASSUME IInv, [Next]_vars
    PROVE  [Promise!Next]_<<Held, Headline>>
<1> USE DEF IInv, TypeOK
<1>1. ASSUME UNCHANGED <<ckpt, manifest>> PROVE UNCHANGED <<Held, Headline>>
  BY <1>1 DEF Held, HeldOf, Headline
<1>2. ASSUME NEW c \in Collectors, SkipBlocked(c) PROVE Promise!Record(c)
  <2>1. [status |-> "blocked", win |-> Unrecorded] \in Mark
    BY DEF Mark, Statuses
  <2>2. ckpt' = [ckpt EXCEPT ![c] = [status |-> "blocked", win |-> Unrecorded]] /\ UNCHANGED manifest
    BY <1>2 DEF SkipBlocked
  <2> QED BY <2>1, <2>2, MarkIsRecord
<1>3. CASE WriteMark
  <2>1. StatusOf(out) \in {"ok", "partial", "failed"}
    BY StatusOfType
  <2>2. PICK c \in Collectors : c = cur
    BY <1>3 DEF WriteMark
  <2>3. PICK mark \in Mark : mark = [status |-> StatusOf(out), win |-> Unrecorded]
    BY <2>1 DEF Mark, Statuses
  <2>4. mark.status # "none" /\ ckpt' = [ckpt EXCEPT ![c] = mark] /\ UNCHANGED manifest
    BY <1>3, <2>1, <2>2, <2>3 DEF WriteMark
  <2>5. Promise!Record(c)
    BY <2>4, MarkIsRecord
  <2> QED BY <2>5 DEF Promise!Next
<1>4. CASE StampWindow
  <2>1. StatusOf(out) \in {"ok", "partial", "failed"}
    BY StatusOfType
  <2>2. PICK c \in Collectors : c = cur
    BY <1>4 DEF StampWindow
  <2>3. PICK mark \in Mark : mark = [status |-> StatusOf(out), win |-> win]
    BY <2>1 DEF Mark, Statuses
  <2>4. mark.status # "none" /\ ckpt' = [ckpt EXCEPT ![c] = mark] /\ UNCHANGED manifest
    BY <1>4, <2>1, <2>2, <2>3 DEF StampWindow
  <2>5. Promise!Record(c)
    BY <2>4, MarkIsRecord
  <2> QED BY <2>5 DEF Promise!Next
<1>5. CASE WriteManifest
  <2>1. Promise!Publish(Headline') /\ Headline' \in Promise!Verdicts
    BY <1>5, ManifestIsPublish DEF Promise!Publish
  <2> QED BY <2>1 DEF Promise!Next
<1>6. ASSUME NEW sel \in SUBSET Collectors \ {{}}, NEW w \in Windows, Start(sel, w)
      PROVE  UNCHANGED <<ckpt, manifest>>
  BY <1>6 DEF Start, disk
<1>7. ASSUME NEW c \in Collectors, CarryForward(c) \/ BeginRead(c) \/ LoseRaw(c)
      PROVE  UNCHANGED <<ckpt, manifest>>
  BY <1>7 DEF CarryForward, BeginRead, LoseRaw, disk
<1>8. CASE \/ \E b \in SUBSET Collectors : Preflight(b)
           \/ WriteChunk \/ (\E o \in Outcomes : FinishRead(o)) \/ WriteIndex \/ WriteRaw
           \/ CloseLoop \/ WriteBlockers \/ WriteReport \/ WriteCoverageFile \/ WriteSummaryFile
           \/ Stop \/ UNCHANGED vars
  <2>1. UNCHANGED <<ckpt, manifest>>
    BY <1>8 DEF Preflight, WriteChunk, FinishRead, WriteIndex, WriteRaw, CloseLoop, WriteBlockers,
       WriteReport, WriteCoverageFile, WriteSummaryFile, Stop, vars, disk
  <2> QED BY <1>1, <2>1
<1>9. ASSUME NEW c \in Collectors, Promise!Record(c) PROVE Promise!Next
  BY <1>9 DEF Promise!Next
<1> QED
  BY <1>1, <1>2, <1>3, <1>4, <1>5, <1>6, <1>7, <1>8, <1>9 DEF Next, SessionStep

\* ImplementsPromise: every step of a session, in any order of stops and resumes, is a step
\* RunPromise allows (run_live, AuditWriter.write_checkpoint, write_bundle).
THEOREM PromiseIsImplemented == Spec => ImplementsPromise
<1>1. Init => Promise!Init
  BY DEF Init, Promise!Init, Promise!Unread, NoMark
<1> QED
  BY <1>1, StepIsPromised, InvariantInductive, PTL
     DEF Spec, ImplementsPromise, Promise!Spec, Held, HeldOf, Headline

-----------------------------------------------------------------------------
(* Progress: a session can take finitely many steps, in whatever order it   *)
(* takes them.                                                              *)

\* The steps left of a session but for the collectors still to be read or skipped.
StepsLeft ==
    CASE pc = "read"  -> IF chunks[cur] = win THEN 11 ELSE 12
      [] pc = "index" -> 10 [] pc = "raw" -> 9 [] pc = "mark" -> 8 [] pc = "stamp" -> 7
      [] pc = "collect" -> 6 [] pc = "blockers" -> 5 [] pc = "report" -> 4
      [] pc = "coverageFile" -> 3 [] pc = "summaryFile" -> 2 [] pc = "manifestFile" -> 1
      [] OTHER -> 0

\* The steps a session can still take, at most.
Rank ==
    IF pc = "preflight" THEN 11 * Cardinality(Collectors) + 7
    ELSE 10 * Cardinality(todo) + Cardinality(toSkip) + StepsLeft

\* Sets of collectors are finite and no larger than the registry.
LEMMA CollectorsCounted ==
    ASSUME NEW S \in SUBSET Collectors
    PROVE  /\ IsFiniteSet(S) /\ Cardinality(S) \in Nat
           /\ Cardinality(Collectors) \in Nat /\ Cardinality(S) <= Cardinality(Collectors)
BY RegistryOk, FS_Subset, FS_CardinalityType

\* A collector that is taken from a set leaves one fewer.
LEMMA OneFewer ==
    ASSUME NEW S \in SUBSET Collectors, NEW c \in S
    PROVE  Cardinality(S \ {c}) = Cardinality(S) - 1
BY CollectorsCounted, FS_RemoveElement

\* What is left is a number of steps.
LEMMA RankOfType ==
    ASSUME TypeOK
    PROVE  Rank \in Nat
<1>1. StepsLeft \in 0..12
  BY DEF StepsLeft
<1>2. Cardinality(todo) \in Nat /\ Cardinality(toSkip) \in Nat /\ Cardinality(Collectors) \in Nat
  BY CollectorsCounted DEF TypeOK
<1> QED BY <1>1, <1>2 DEF Rank

\* Every step of a session leaves fewer steps, or repeats a chunk that is on disk.
LEMMA RankFalls ==
    ASSUME IInv, SessionStep, vars' # vars
    PROVE  Rank' < Rank
<1> USE DEF IInv
<1>1. TypeOK /\ TypeOK'
  BY SessionStepType
<1> DEFINE N == Cardinality(Collectors)
           T == Cardinality(todo)
           TN == Cardinality(todo')
           K == Cardinality(toSkip)
           KN == Cardinality(toSkip')
<1>2. /\ N \in Nat /\ T \in Nat /\ TN \in Nat /\ K \in Nat /\ KN \in Nat
      /\ TN <= N /\ KN <= N
  <2>1. {todo, todo', toSkip, toSkip'} \subseteq SUBSET Collectors
    BY <1>1 DEF TypeOK
  <2> QED BY <2>1, CollectorsCounted
<1>3. pc # "preflight" => Rank = 10 * T + K + StepsLeft
  BY DEF Rank
<1>4. pc' # "preflight" => Rank' = 10 * TN + KN + StepsLeft'
  BY DEF Rank
<1>5. ASSUME NEW blocked \in SUBSET Collectors, Preflight(blocked) PROVE Rank' < Rank
  <2>1. Rank = 11 * N + 7
    BY <1>5 DEF Preflight, Rank
  <2>2. StepsLeft' \in {3, 6} /\ pc' # "preflight"
    BY <1>5 DEF Preflight, StepsLeft
  <2> QED BY <1>2, <1>4, <2>1, <2>2
<1>6. ASSUME NEW c \in Collectors, SkipBlocked(c) PROVE Rank' < Rank
  <2>1. TN = T /\ KN = K - 1
    BY <1>1, <1>6, OneFewer DEF SkipBlocked, TypeOK
  <2>2. StepsLeft = 6 /\ StepsLeft' = 6 /\ pc # "preflight" /\ pc' # "preflight"
    BY <1>6 DEF SkipBlocked, StepsLeft
  <2> QED BY <1>2, <1>3, <1>4, <2>1, <2>2
<1>7. ASSUME NEW c \in Collectors, CarryForward(c) PROVE Rank' < Rank
  <2>1. TN = T - 1 /\ KN = K
    BY <1>1, <1>7, OneFewer DEF CarryForward, Turn, TypeOK
  <2>2. StepsLeft = 6 /\ StepsLeft' = 6 /\ pc # "preflight" /\ pc' # "preflight"
    BY <1>7 DEF CarryForward, Turn, StepsLeft
  <2> QED BY <1>2, <1>3, <1>4, <2>1, <2>2
<1>8. ASSUME NEW c \in Collectors, BeginRead(c) PROVE Rank' < Rank
  <2>1. TN = T - 1 /\ KN = K
    BY <1>1, <1>8, OneFewer DEF BeginRead, Turn, TypeOK
  <2>2. StepsLeft = 6 /\ StepsLeft' \in {11, 12} /\ pc # "preflight" /\ pc' # "preflight"
    BY <1>8 DEF BeginRead, Turn, StepsLeft
  <2> QED BY <1>2, <1>3, <1>4, <2>1, <2>2
<1>9. CASE WriteChunk
  <2>1. chunks[cur] # win
    <3> SUFFICES ASSUME chunks[cur] = win PROVE FALSE
      OBVIOUS
    <3>1. chunks' = chunks
      BY <1>1, <1>9 DEF WriteChunk, TypeOK
    <3> QED BY <1>9, <3>1 DEF WriteChunk, vars, disk
  <2>2. chunks'[cur'] = win' /\ pc = "read" /\ pc' = "read" /\ TN = T /\ KN = K
    BY <1>1, <1>9, ConstantsOk DEF WriteChunk, TypeOK, plan, loop
  <2>3. StepsLeft = 12 /\ StepsLeft' = 11
    BY <2>1, <2>2 DEF StepsLeft
  <2> QED BY <1>2, <1>3, <1>4, <2>2, <2>3
<1>10. ASSUME NEW o \in Outcomes, FinishRead(o) PROVE Rank' < Rank
  <2>1. TN = T /\ KN = K
    BY <1>10 DEF FinishRead
  <2>2. StepsLeft \in {11, 12} /\ StepsLeft' \in {8, 10} /\ pc # "preflight" /\ pc' # "preflight"
    BY <1>10 DEF FinishRead, StepsLeft
  <2> QED BY <1>2, <1>3, <1>4, <2>1, <2>2
<1>11. CASE WriteIndex \/ WriteRaw \/ WriteMark \/ StampWindow
  <2>1. TN = T /\ KN = K
    BY <1>11 DEF WriteIndex, WriteRaw, WriteMark, StampWindow, loop
  <2>2. StepsLeft \in 7..10 /\ StepsLeft' = StepsLeft - 1 /\ pc # "preflight" /\ pc' # "preflight"
    BY <1>11 DEF WriteIndex, WriteRaw, WriteMark, StampWindow, StepsLeft
  <2> QED BY <1>2, <1>3, <1>4, <2>1, <2>2
<1>12. CASE CloseLoop \/ WriteBlockers \/ WriteReport \/ WriteCoverageFile \/ WriteSummaryFile
  <2>1. TN = T /\ KN = K
    BY <1>12 DEF CloseLoop, WriteBlockers, WriteReport, WriteCoverageFile, WriteSummaryFile, loop
  <2>2. StepsLeft \in 2..6 /\ StepsLeft' = StepsLeft - 1 /\ pc # "preflight" /\ pc' # "preflight"
    BY <1>12 DEF CloseLoop, WriteBlockers, WriteReport, WriteCoverageFile, WriteSummaryFile, StepsLeft
  <2> QED BY <1>2, <1>3, <1>4, <2>1, <2>2
<1>13. CASE WriteManifest
  <2>1. TN = T /\ KN = K
    BY <1>13 DEF WriteManifest, Forget, PlanHolds, Publishing, InSession
  <2>2. StepsLeft = 1 /\ StepsLeft' = 0 /\ pc # "preflight" /\ pc' # "preflight"
    BY <1>13 DEF WriteManifest, StepsLeft
  <2> QED BY <1>2, <1>3, <1>4, <2>1, <2>2
<1> QED
  BY <1>5, <1>6, <1>7, <1>8, <1>9, <1>10, <1>11, <1>12, <1>13 DEF SessionStep

\* Every step a session takes by itself leaves it fewer steps to take: at most eleven for
\* each collector of the registry, and those of its preflight and its end (run_live).
THEOREM SessionDraws == Spec => [](Rank \in Nat) /\ [][SessionStep => Rank' < Rank]_vars
<1>1. IInv => Rank \in Nat
  BY RankOfType DEF IInv
<1>2. IInv /\ [Next]_vars => [SessionStep => Rank' < Rank]_vars
  BY RankFalls
<1> QED BY <1>1, <1>2, InvariantInductive, PTL DEF Spec

-----------------------------------------------------------------------------
(* The scope of the finding on CompleteMeansWhole. *)

\* A resumed run reads an incomplete collector as complete only after a session was stopped
\* in the middle of a read: where every stop falls between two reads, or before the first or
\* after the last, the documented rule holds as it stands, for any number of sessions,
\* windows and lost payloads (output-contract.md, _resume_carried_collectors).
THEOREM CompleteUnlessTorn ==
    Spec /\ [][Stop => cur = NoCollector]_vars => []CompleteMeansWhole
<1>1. Init => torn = {}
  BY DEF Init
<1>2. TypeOK /\ torn = {} /\ [Next]_vars /\ [Stop => cur = NoCollector]_vars => (torn = {})'
  <2> SUFFICES ASSUME torn = {}, Next, Stop => cur = NoCollector PROVE torn' = {}
    BY DEF vars
  <2>1. CASE Stop
    BY <2>1 DEF Stop
  <2>2. CASE ~Stop
    BY <2>2 DEF Next, SessionStep, Start, Preflight, SkipBlocked, CarryForward, BeginRead, WriteChunk,
       FinishRead, WriteIndex, WriteRaw, WriteMark, StampWindow, CloseLoop, WriteBlockers,
       WriteReport, WriteCoverageFile, WriteSummaryFile, WriteManifest, LoseRaw
  <2> QED BY <2>1, <2>2
<1>3. EvidenceHonest /\ torn = {} => CompleteMeansWhole
  BY DEF EvidenceHonest, CompleteMeansWhole
<1> QED BY <1>1, <1>2, <1>3, TypeCorrect, EvidenceIsHonest, PTL DEF Spec
=============================================================================
