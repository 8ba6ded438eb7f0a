------------------------- MODULE GraphRequestProofs -------------------------
(***************************************************************************)
(* The bounds on what a client sends, for any number of calls, endpoint    *)
(* families, retries and redirects.                                        *)
(***************************************************************************)
EXTENDS GraphRequest, TLAPS

-----------------------------------------------------------------------------
(* The inductive invariant, one part per fact. *)

\* The counters of the policy are numbers.
LEMMA PolicyOfType ==
    ASSUME TypeOK
    PROVE  /\ policy.rate \in Nat /\ policy.server \in Nat /\ policy.stop \in Nat
           /\ Most(policy) \in Nat
           /\ Most(policy) >= policy.rate /\ Most(policy) >= policy.server
<1>1. policy \in [rate : Nat, server : Nat, stop : Nat]
  BY ConstantsOk DEF TypeOK
<1> QED BY <1>1 DEF Most

\* A family that is being asked is not stopped: CheckStop looked.
AskedIsOpen == pc \in {"send", "hop", "judge"} => ~Stopped(family)

\* What the client remembers of a family is what happened to it, but for the answer at hand.
FailuresMatch ==
    \A f \in Families :
        refusals[f] = IF pc = "judge" /\ f = family THEN Noted(f) ELSE failures[f]

\* Only a redirect is followed.
HopsFollow == pc = "hop" => answer.class = "redirect"

\* Without a stop nothing is counted, with one no more than the stop.
FailuresBounded ==
    \A f \in Families : IF policy.stop > 0 THEN failures[f] <= policy.stop ELSE failures[f] = 0

\* The requests of the attempts that are over, and of the one in progress.
Spent ==
    CASE pc \in {"idle", "token"} -> wire = 0 /\ attempt = 0
      [] pc = "check" -> attempt <= Most(policy) /\ wire <= attempt * (MaxRedirects + 1)
      [] pc = "send"  -> /\ attempt \in 1..(Most(policy) + 1)
                         /\ wire <= (attempt - 1) * (MaxRedirects + 1)
      [] pc \in {"hop", "judge"} -> /\ attempt \in 1..(Most(policy) + 1)
                                    /\ wire <= (attempt - 1) * (MaxRedirects + 1) + hops + 1

IInv ==
    TypeOK /\ AskedIsOpen /\ HopsFollow /\ FailuresMatch /\ FailuresBounded /\ Spent

-----------------------------------------------------------------------------
LEMMA TypeInit == Init => TypeOK
<1> SUFFICES ASSUME Init PROVE TypeOK
  OBVIOUS
<1>1. (CHOOSE f \in Families : TRUE) \in Families
  BY ConstantsOk
<1>2. /\ policy \in Policies /\ token \in BOOLEAN /\ claims = "unread" /\ pc = "idle"
      /\ verb \in Verbs /\ family \in Families
  BY <1>1 DEF Init, Verbs
<1>3. /\ attempt \in Nat /\ hops \in 0..MaxRedirects /\ calls \in 0..MaxCalls /\ wire \in Nat
  BY ConstantsOk DEF Init
<1>4. /\ resources \in [Scopes -> {"unasked", "empty", "token"}]
      /\ failures \in [Families -> Nat] /\ refusals \in [Families -> Nat]
      /\ answer = NoAnswer
  BY DEF Init
<1> QED BY <1>2, <1>3, <1>4 DEF TypeOK

\* One request and its answer, by the class of the answer.
LEMMA TypeTransmit ==
    ASSUME TypeOK, NEW h \in 0..MaxRedirects, Transmit(h)
    PROVE  TypeOK'
<1>1. WireLimit \in Nat /\ wire \in Nat
  BY PolicyOfType, ConstantsOk DEF WireLimit, TypeOK
<1>2. CASE End /\ UNCHANGED refusals
  BY <1>2, ConstantsOk DEF TypeOK, Transmit, End, client, request, NoAnswer, Plain
<1>3. CASE \E a \in Answers :
             /\ answer' = a
             /\ pc' = IF a.class = "redirect" THEN "hop" ELSE "judge"
             /\ refusals' = IF policy.stop = 0 \/ a.class \notin {"ok", "refused"}
                            THEN refusals
                            ELSE [refusals EXCEPT ![family] = IF a.class = "refused" THEN @ + 1 ELSE 0]
             /\ hops' = h
             /\ wire' = IF wire > WireLimit THEN wire ELSE wire + 1
             /\ UNCHANGED attempt
  <2>1. PICK a \in Answers :
             /\ answer' = a
             /\ pc' = IF a.class = "redirect" THEN "hop" ELSE "judge"
             /\ refusals' = IF policy.stop = 0 \/ a.class \notin {"ok", "refused"}
                            THEN refusals
                            ELSE [refusals EXCEPT ![family] = IF a.class = "refused" THEN @ + 1 ELSE 0]
             /\ hops' = h
             /\ wire' = IF wire > WireLimit THEN wire ELSE wire + 1
             /\ UNCHANGED attempt
    BY <1>3
  <2>2. refusals' \in [Families -> Nat]
    BY <2>1 DEF TypeOK
  <2>3. answer' \in Answers /\ pc' \in {"hop", "judge"} /\ hops' \in 0..MaxRedirects
    BY <2>1
  <2>4. wire' \in Nat
    BY <2>1, <1>1
  <2> QED BY <2>1, <2>2, <2>3, <2>4 DEF TypeOK, Transmit, client, request
<1> QED BY <1>2, <1>3 DEF Transmit

LEMMA TypeNext == TypeOK /\ [Next]_vars => TypeOK'
<1> SUFFICES ASSUME TypeOK, [Next]_vars PROVE TypeOK'
  OBVIOUS
<1>1. ASSUME NEW v \in Verbs, NEW f \in Families, Call(v, f) PROVE TypeOK'
  BY <1>1, ConstantsOk DEF TypeOK, Call, client
<1>2. CASE EnsureToken
  <2>1. CASE token' = TRUE /\ pc' = "check" /\ UNCHANGED <<attempt, hops, answer, wire>>
    BY <1>2, <2>1 DEF TypeOK, EnsureToken, request
  <2>2. CASE UNCHANGED token /\ End
    BY <1>2, <2>2, ConstantsOk DEF TypeOK, EnsureToken, End, request
  <2> QED BY <1>2, <2>1, <2>2 DEF EnsureToken
<1>3. CASE CheckStop
  BY <1>3, ConstantsOk DEF TypeOK, CheckStop, End, client, request, NoAnswer, Plain
<1>4. CASE Send
  BY <1>4, TypeTransmit, ConstantsOk DEF Send, Hosts
<1>5. CASE KeepRedirect
  BY <1>5 DEF TypeOK, KeepRedirect, client, request
<1>6. CASE RefuseRedirect
  BY <1>6, ConstantsOk DEF TypeOK, RefuseRedirect, End, client, request, NoAnswer, Plain
<1>7. CASE Hop
  <2>1. answer.location \in Hosts /\ hops + 1 \in 0..MaxRedirects
    BY <1>7, ConstantsOk DEF Hop, MayHop, TypeOK
  <2> QED BY <1>7, <2>1, TypeTransmit DEF Hop
<1>8. CASE Judge
  <2>1. failures[family] \in Nat
    BY DEF TypeOK
  <2>2. Noted(family) \in Nat
    BY <2>1 DEF Noted
  <2>3. failures' \in [Families -> Nat]
    BY <1>8, <2>2 DEF Judge, TypeOK
  <2> QED BY <1>8, <2>3, ConstantsOk DEF TypeOK, Judge, End, client, request, NoAnswer, Plain
<1>9. CASE ReadClaims
  BY <1>9 DEF TypeOK, ReadClaims, request
<1>10. ASSUME NEW s \in Scopes, AppTokenFor(s) PROVE TypeOK'
  BY <1>10 DEF TypeOK, AppTokenFor, request
<1>11. CASE UNCHANGED vars
  BY <1>11 DEF TypeOK, vars, client, request
<1> QED
  BY <1>1, <1>2, <1>3, <1>4, <1>5, <1>6, <1>7, <1>8, <1>9, <1>10, <1>11 DEF Next, Step

(* The state of a client is of its type (GraphClient, _request).           *)
THEOREM TypeCorrect == Spec => []TypeOK
BY TypeInit, TypeNext, PTL DEF Spec

-----------------------------------------------------------------------------
(* The steps of the other invariants. *)

\* What one request does to the history, whatever its answer.
LEMMA TransmitEffect ==
    ASSUME TypeOK, NEW h \in 0..MaxRedirects, Transmit(h)
    PROVE  \/ End /\ UNCHANGED refusals
           \/ /\ answer' \in Answers
              /\ pc' = IF answer'.class = "redirect" THEN "hop" ELSE "judge"
              /\ \A f \in Families \ {family} : refusals'[f] = refusals[f]
              /\ refusals'[family] =
                    IF policy.stop = 0 \/ answer'.class \notin {"ok", "refused"} THEN refusals[family]
                    ELSE IF answer'.class = "refused" THEN refusals[family] + 1 ELSE 0
              /\ hops' = h /\ wire' <= wire + 1 /\ attempt' = attempt
<1>1. wire \in Nat /\ family \in Families /\ refusals \in [Families -> Nat]
  BY DEF TypeOK
<1>2. ASSUME NEW a \in Answers,
             answer' = a,
             pc' = (IF a.class = "redirect" THEN "hop" ELSE "judge"),
             refusals' = (IF policy.stop = 0 \/ a.class \notin {"ok", "refused"}
                          THEN refusals
                          ELSE [refusals EXCEPT ![family] = IF a.class = "refused" THEN @ + 1 ELSE 0]),
             hops' = h,
             wire' = (IF wire > WireLimit THEN wire ELSE wire + 1),
             UNCHANGED attempt
      PROVE  /\ answer' \in Answers
             /\ pc' = IF answer'.class = "redirect" THEN "hop" ELSE "judge"
             /\ \A f \in Families \ {family} : refusals'[f] = refusals[f]
             /\ refusals'[family] =
                   IF policy.stop = 0 \/ answer'.class \notin {"ok", "refused"} THEN refusals[family]
                   ELSE IF answer'.class = "refused" THEN refusals[family] + 1 ELSE 0
             /\ hops' = h /\ wire' <= wire + 1 /\ attempt' = attempt
  <2>1. wire' <= wire + 1
    BY <1>1, <1>2
  <2>2. CASE policy.stop = 0 \/ a.class \notin {"ok", "refused"}
    BY <1>2, <2>1, <2>2
  <2>3. CASE ~(policy.stop = 0 \/ a.class \notin {"ok", "refused"})
    BY <1>1, <1>2, <2>1, <2>3
  <2> QED BY <2>2, <2>3
<1> QED BY <1>2 DEF Transmit

\* A family is asked only after the stop was looked up, and nothing counts on the way.
LEMMA AskedIsOpenNext == TypeOK /\ AskedIsOpen /\ [Next]_vars => AskedIsOpen'
<1> SUFFICES ASSUME TypeOK, AskedIsOpen, [Next]_vars PROVE AskedIsOpen'
  OBVIOUS
<1>1. CASE CheckStop
  BY <1>1 DEF CheckStop, AskedIsOpen, Stopped, End, client, request
<1>2. CASE Send \/ Hop \/ KeepRedirect \/ RefuseRedirect
  BY <1>2 DEF Send, Hop, KeepRedirect, RefuseRedirect, Transmit, AskedIsOpen, Stopped, End, client, request
<1>3. CASE Judge
  BY <1>3 DEF Judge, AskedIsOpen, End
<1>4. CASE EnsureToken
  BY <1>4 DEF EnsureToken, AskedIsOpen, End
<1>5. CASE ReadClaims \/ (\E s \in Scopes : AppTokenFor(s)) \/ (\E v \in Verbs, f \in Families : Call(v, f))
  BY <1>5 DEF ReadClaims, AppTokenFor, Call, AskedIsOpen
<1>6. CASE UNCHANGED vars
  BY <1>6 DEF vars, client, request, AskedIsOpen, Stopped
<1> QED BY <1>1, <1>2, <1>3, <1>4, <1>5, <1>6 DEF Next, Step

\* What is followed is the answer at hand.
LEMMA HopsFollowNext == HopsFollow /\ [Next]_vars => HopsFollow'
BY DEF Next, Step, Call, EnsureToken, CheckStop, Send, KeepRedirect, RefuseRedirect, Hop, Judge,
       ReadClaims, AppTokenFor, Transmit, End, vars, HopsFollow

\* An answer of the family in question is noted once, by Judge, as it was counted when it came.
LEMMA FailuresMatchNext ==
    TypeOK /\ HopsFollow /\ FailuresMatch /\ FailuresBounded /\ [Next]_vars => FailuresMatch'
<1> SUFFICES ASSUME TypeOK, HopsFollow, FailuresMatch, FailuresBounded, [Next]_vars PROVE FailuresMatch'
  OBVIOUS
<1>1. family \in Families /\ policy.stop \in Nat
  BY PolicyOfType DEF TypeOK
<1>2. ASSUME NEW h \in 0..MaxRedirects, Transmit(h), pc # "judge"
      PROVE  FailuresMatch'
  <2>1. UNCHANGED <<policy, failures, family>>
    BY <1>2 DEF Transmit, client, request
  <2>2. \A f \in Families : refusals[f] = failures[f] /\ failures[f] \in Nat
    BY <1>2 DEF FailuresMatch, TypeOK
  <2>3. CASE End /\ UNCHANGED refusals
    BY <2>1, <2>2, <2>3 DEF End, FailuresMatch
  <2>4. CASE ~(End /\ UNCHANGED refusals)
    <3>1. /\ answer' \in Answers
          /\ pc' = IF answer'.class = "redirect" THEN "hop" ELSE "judge"
          /\ \A f \in Families \ {family} : refusals'[f] = refusals[f]
          /\ refusals'[family] =
                IF policy.stop = 0 \/ answer'.class \notin {"ok", "refused"} THEN refusals[family]
                ELSE IF answer'.class = "refused" THEN refusals[family] + 1 ELSE 0
      BY <1>2, <2>4, TransmitEffect
    <3>2. policy.stop = 0 => failures[family] = 0
      BY <1>1 DEF FailuresBounded
    <3> QED BY <1>1, <2>1, <2>2, <3>1, <3>2 DEF FailuresMatch, Noted
  <2> QED BY <2>3, <2>4
<1>3. CASE Send
  BY <1>2, <1>3, ConstantsOk DEF Send, Hosts
<1>4. CASE Hop
  <2>1. answer.location \in Hosts /\ hops + 1 \in 0..MaxRedirects
    BY <1>4, ConstantsOk DEF Hop, MayHop, TypeOK
  <2> QED BY <1>2, <1>4, <2>1 DEF Hop
<1>5. CASE KeepRedirect
  BY <1>1, <1>5 DEF KeepRedirect, FailuresMatch, HopsFollow, Noted, TypeOK, request, client
<1>6. CASE RefuseRedirect
  BY <1>6 DEF RefuseRedirect, FailuresMatch, End, request, client
<1>7. CASE Judge
  <2>1. /\ refusals' = refusals /\ pc' # "judge" /\ family' = family
        /\ failures' = [failures EXCEPT ![family] = Noted(family)]
    BY <1>7 DEF Judge, End, request
  <2>2. refusals[family] = Noted(family)
    BY <1>1, <1>7 DEF Judge, FailuresMatch
  <2> QED BY <1>1, <1>7, <2>1, <2>2 DEF FailuresMatch, TypeOK, Judge
<1>8. CASE EnsureToken \/ CheckStop
  BY <1>8 DEF EnsureToken, CheckStop, FailuresMatch, End, client, request
<1>9. CASE ReadClaims \/ (\E s \in Scopes : AppTokenFor(s)) \/ (\E v \in Verbs, f \in Families : Call(v, f))
  BY <1>9 DEF ReadClaims, AppTokenFor, Call, FailuresMatch, client, request
<1>10. CASE UNCHANGED vars
  BY <1>10 DEF vars, client, request, FailuresMatch, Noted
<1> QED BY <1>3, <1>4, <1>5, <1>6, <1>7, <1>8, <1>9, <1>10 DEF Next, Step

\* Only Judge counts, and only for a family that was open.
LEMMA FailuresBoundedNext ==
    TypeOK /\ AskedIsOpen /\ FailuresBounded /\ [Next]_vars => FailuresBounded'
<1> SUFFICES ASSUME TypeOK, AskedIsOpen, FailuresBounded, [Next]_vars PROVE FailuresBounded'
  OBVIOUS
<1>1. policy' = policy
  BY DEF Next, Step, Call, EnsureToken, CheckStop, Send, KeepRedirect, RefuseRedirect, Hop, Judge,
         ReadClaims, AppTokenFor, Transmit, client, vars
<1>2. policy.stop \in Nat /\ family \in Families /\ failures \in [Families -> Nat]
  BY PolicyOfType DEF TypeOK
<1>3. CASE Judge
  <2>1. ~Stopped(family) /\ failures' = [failures EXCEPT ![family] = Noted(family)]
    BY <1>3 DEF Judge, AskedIsOpen
  <2>2. IF policy.stop > 0 THEN Noted(family) <= policy.stop ELSE Noted(family) = 0
    BY <1>2, <2>1 DEF Noted, Stopped, FailuresBounded
  <2> QED BY <1>1, <1>2, <2>1, <2>2 DEF FailuresBounded
<1>4. CASE ~Judge
  <2>1. failures' = failures
    BY <1>4 DEF Next, Step, Call, EnsureToken, CheckStop, Send, KeepRedirect, RefuseRedirect, Hop,
                ReadClaims, AppTokenFor, Transmit, vars
  <2> QED BY <1>1, <2>1 DEF FailuresBounded
<1> QED BY <1>3, <1>4

\* A request more in the attempt, and room for it.
LEMMA SpentTransmit ==
    ASSUME TypeOK, NEW h \in 0..MaxRedirects, Transmit(h),
           attempt \in 1..(Most(policy) + 1), wire <= (attempt - 1) * (MaxRedirects + 1) + h
    PROVE  Spent'
<1>1. CASE End /\ UNCHANGED refusals
  BY <1>1 DEF End, Spent
<1>2. CASE ~(End /\ UNCHANGED refusals)
  <2>1. /\ pc' \in {"hop", "judge"} /\ hops' = h /\ wire' <= wire + 1 /\ attempt' = attempt
    BY <1>2, TransmitEffect
  <2>2. policy' = policy
    BY DEF Transmit, client
  <2>3. wire \in Nat /\ wire' \in Nat
    BY TypeTransmit DEF TypeOK
  <2>4. (attempt - 1) * (MaxRedirects + 1) \in Nat
    BY ConstantsOk, PolicyOfType
  <2> DEFINE Before == (attempt - 1) * (MaxRedirects + 1)
  <2>5. wire' <= Before + h + 1
    <3> HIDE DEF Before
    <3> QED BY <2>1, <2>3, <2>4 DEF Before
  <2>6. Most(policy)' = Most(policy)
    BY <2>2 DEF Most
  <2> QED BY <2>1, <2>2, <2>5, <2>6 DEF Spent
<1> QED BY <1>1, <1>2

\* A retry follows an attempt that kept within its redirects, and only below the larger budget.
LEMMA SpentNext == TypeOK /\ Spent /\ [Next]_vars => Spent'
<1> SUFFICES ASSUME TypeOK, Spent, [Next]_vars PROVE Spent'
  OBVIOUS
<1>1. /\ Most(policy) \in Nat /\ Most(policy) >= policy.rate /\ Most(policy) >= policy.server
      /\ policy.rate \in Nat /\ policy.server \in Nat
      /\ attempt \in Nat /\ hops \in 0..MaxRedirects /\ wire \in Nat /\ MaxRedirects \in Nat
  BY PolicyOfType, ConstantsOk DEF TypeOK
<1>2. ASSUME NEW v \in Verbs, NEW f \in Families, Call(v, f) PROVE Spent'
  BY <1>2 DEF Call, Spent, client
<1>3. CASE EnsureToken
  <2>1. wire = 0 /\ attempt = 0 /\ policy' = policy
    BY <1>3 DEF EnsureToken, Spent
  <2>2. CASE pc' = "check" /\ UNCHANGED <<attempt, hops, answer, wire>>
    <3>1. attempt' = 0 /\ wire' = 0 /\ 0 * (MaxRedirects + 1) = 0
      BY <1>1, <2>1, <2>2
    <3> QED BY <1>1, <2>1, <2>2, <3>1 DEF Spent, Most
  <2>3. CASE End
    BY <2>3 DEF Spent, End
  <2> QED BY <1>3, <2>2, <2>3 DEF EnsureToken
<1>4. CASE CheckStop
  <2>1. attempt <= Most(policy) /\ wire <= attempt * (MaxRedirects + 1) /\ policy' = policy
    BY <1>4 DEF CheckStop, Spent, client
  <2>2. CASE End
    BY <2>2 DEF Spent, End
  <2>3. CASE pc' = "send" /\ attempt' = attempt + 1 /\ wire' = wire
    <3>1. attempt' \in 1..(Most(policy) + 1) /\ attempt' - 1 = attempt
      BY <1>1, <2>1, <2>3
    <3>2. wire' <= (attempt' - 1) * (MaxRedirects + 1)
      BY <2>1, <2>3, <3>1
    <3> QED BY <2>1, <2>3, <3>1, <3>2 DEF Spent, Most
  <2> QED BY <1>4, <2>2, <2>3 DEF CheckStop
<1>5. CASE Send
  <2>1. attempt \in 1..(Most(policy) + 1) /\ wire <= (attempt - 1) * (MaxRedirects + 1)
    BY <1>5 DEF Send, Spent
  <2>2. (attempt - 1) * (MaxRedirects + 1) \in Nat
    BY <1>1, <2>1
  <2> QED BY <1>1, <1>5, <2>1, <2>2, SpentTransmit DEF Send, Hosts
<1>6. CASE Hop
  <2>1. /\ attempt \in 1..(Most(policy) + 1)
        /\ wire <= (attempt - 1) * (MaxRedirects + 1) + hops + 1
        /\ answer.location \in Hosts /\ hops + 1 \in 0..MaxRedirects
    BY <1>1, <1>6 DEF Hop, MayHop, Spent
  <2>2. wire <= (attempt - 1) * (MaxRedirects + 1) + (hops + 1)
    BY <1>1, <2>1
  <2> QED BY <1>6, <2>1, <2>2, SpentTransmit DEF Hop
<1>7. CASE KeepRedirect
  BY <1>7 DEF KeepRedirect, Spent, client, Most
<1>8. CASE RefuseRedirect
  BY <1>8 DEF RefuseRedirect, Spent, End
<1>9. CASE Judge /\ Again
  <2>1. /\ attempt \in 1..(Most(policy) + 1) /\ attempt <= Most(policy)
        /\ wire <= (attempt - 1) * (MaxRedirects + 1) + hops + 1
    BY <1>1, <1>9 DEF Judge, Spent, Again
  <2>2. (attempt - 1) * (MaxRedirects + 1) + (MaxRedirects + 1) = attempt * (MaxRedirects + 1)
    BY <1>1, <2>1
  <2>3. wire <= attempt * (MaxRedirects + 1)
    <3> DEFINE Before == (attempt - 1) * (MaxRedirects + 1)
    <3>1. Before \in Nat
      BY <1>1, <2>1
    <3>2. Before + (MaxRedirects + 1) = attempt * (MaxRedirects + 1) /\ wire <= Before + hops + 1
      BY <2>1, <2>2
    <3> HIDE DEF Before
    <3> DEFINE After == attempt * (MaxRedirects + 1)
    <3>3. Before + (MaxRedirects + 1) = After /\ wire <= Before + hops + 1
      BY <3>2
    <3> HIDE DEF After
    <3>4. wire <= After
      BY <1>1, <3>1, <3>3
    <3> QED BY <3>4 DEF After
  <2> QED BY <1>9, <2>1, <2>3 DEF Judge, Spent, client, Most
<1>10. CASE Judge /\ ~Again
  BY <1>10 DEF Judge, Spent, End
<1>11. CASE ReadClaims \/ (\E s \in Scopes : AppTokenFor(s))
  BY <1>11 DEF ReadClaims, AppTokenFor, Spent, Most
<1>12. CASE UNCHANGED vars
  BY <1>12 DEF vars, client, request, Spent, Most
<1> QED
  BY <1>2, <1>3, <1>4, <1>5, <1>6, <1>7, <1>8, <1>9, <1>10, <1>11, <1>12 DEF Next, Step

-----------------------------------------------------------------------------
LEMMA InvariantInductive == Spec => []IInv
<1>1. Init => IInv
  <2> SUFFICES ASSUME Init PROVE IInv
    OBVIOUS
  <2>1. TypeOK
    BY TypeInit
  <2>2. FailuresBounded
    <3>1. policy.stop \in Nat
      BY <2>1, PolicyOfType
    <3>2. \A f \in Families : failures[f] = 0
      BY DEF Init
    <3>3. ASSUME NEW f \in Families
          PROVE  IF policy.stop > 0 THEN failures[f] <= policy.stop ELSE failures[f] = 0
      <4>1. failures[f] = 0
        BY <3>2
      <4> QED BY <3>1, <4>1
    <3> QED BY <3>3 DEF FailuresBounded
  <2> QED
    BY <2>1, <2>2 DEF Init, IInv, AskedIsOpen, HopsFollow, FailuresMatch, Spent
<1>2. IInv /\ [Next]_vars => IInv'
  BY TypeNext, AskedIsOpenNext, HopsFollowNext, FailuresMatchNext, FailuresBoundedNext, SpentNext
  DEF IInv
<1> QED BY <1>1, <1>2, PTL DEF Spec

(* A stop is earned by refusals in a row, whatever was asked of the other   *)
(* families in between, and between calls nothing is remembered that did    *)
(* not happen or forgotten that did (_request, _permission_failures).       *)
THEOREM StopsAreEarned == Spec => []StopIsEarned
<1>1. IInv => StopIsEarned
  <2> SUFFICES ASSUME IInv PROVE StopIsEarned
    OBVIOUS
  <2>1. ASSUME NEW f \in Families, Stopped(f) PROVE refusals[f] >= policy.stop
    <3>1. ~(pc = "judge" /\ f = family)
      BY <2>1 DEF IInv, AskedIsOpen
    <3>2. refusals[f] = failures[f]
      BY <3>1 DEF IInv, FailuresMatch
    <3> QED BY <2>1, <3>2 DEF Stopped
  <2>2. pc = "idle" => \A f \in Families : failures[f] = refusals[f]
    BY DEF IInv, FailuresMatch
  <2> QED BY <2>1, <2>2 DEF StopIsEarned
<1> QED BY <1>1, InvariantInductive, PTL

\* No step of the client counts for a stopped family or sends to it.
StopHolds ==
    \A f \in Families :
        Stopped(f) => /\ failures'[f] = failures[f] /\ refusals'[f] = refusals[f]
                      /\ ~(pc' = "send" /\ family' = f)

LEMMA StopHoldsNext == IInv /\ Next => StopHolds
<1> SUFFICES ASSUME IInv, Next, NEW f \in Families, Stopped(f)
             PROVE  /\ failures'[f] = failures[f] /\ refusals'[f] = refusals[f]
                    /\ ~(pc' = "send" /\ family' = f)
  BY DEF StopHolds
<1>1. TypeOK /\ family \in Families /\ failures \in [Families -> Nat] /\ refusals \in [Families -> Nat]
  BY DEF IInv, TypeOK
<1>2. pc \in {"send", "hop", "judge"} => f # family
  BY DEF IInv, AskedIsOpen
<1>3. ASSUME NEW h \in 0..MaxRedirects, Transmit(h), f # family
      PROVE  failures'[f] = failures[f] /\ refusals'[f] = refusals[f] /\ pc' # "send"
  <2>1. failures' = failures
    BY <1>3 DEF Transmit
  <2>2. CASE End /\ UNCHANGED refusals
    BY <2>1, <2>2 DEF End
  <2>3. CASE ~(End /\ UNCHANGED refusals)
    BY <1>1, <1>3, <2>1, <2>3, TransmitEffect
  <2> QED BY <2>2, <2>3
<1>4. CASE Send
  BY <1>2, <1>3, <1>4, ConstantsOk DEF Send, Hosts
<1>5. CASE Hop
  <2>1. answer.location \in Hosts /\ hops + 1 \in 0..MaxRedirects
    BY <1>1, <1>5, ConstantsOk DEF Hop, MayHop, TypeOK
  <2> QED BY <1>2, <1>3, <1>5, <2>1 DEF Hop
<1>6. CASE CheckStop
  BY <1>6 DEF CheckStop, End, request
<1>7. CASE KeepRedirect
  BY <1>1, <1>2, <1>7 DEF KeepRedirect
<1>8. CASE RefuseRedirect
  BY <1>8 DEF RefuseRedirect, End
<1>9. CASE Judge
  BY <1>1, <1>2, <1>9 DEF Judge, End
<1>10. CASE EnsureToken
  BY <1>10 DEF EnsureToken, End
<1>11. CASE ReadClaims \/ (\E s \in Scopes : AppTokenFor(s)) \/ (\E v \in Verbs, g \in Families : Call(v, g))
  BY <1>2, <1>11 DEF ReadClaims, AppTokenFor, Call, request
<1> QED BY <1>4, <1>5, <1>6, <1>7, <1>8, <1>9, <1>10, <1>11 DEF Next, Step

(* A stop is final: a family that was stopped is not asked again by this    *)
(* client, whatever it is called with, and what was counted stays (_request *)
(* looks the stop up before every attempt, retries too).                    *)
THEOREM StopIsFinal == Spec => [][StopHolds]_vars
BY InvariantInductive, StopHoldsNext, PTL DEF Spec

(* The number of refused requests in a row is bounded for each family, for  *)
(* any number of calls.                                                     *)
THEOREM RefusalsAreBounded == Spec => []RefusalsBounded
<1>1. IInv => RefusalsBounded
  <2> SUFFICES ASSUME IInv, policy.stop > 0, NEW f \in Families PROVE refusals[f] <= policy.stop
    BY DEF RefusalsBounded
  <2>1. policy.stop \in Nat /\ failures[f] \in Nat /\ failures[f] <= policy.stop
    BY PolicyOfType DEF IInv, FailuresBounded, TypeOK
  <2>2. CASE pc = "judge" /\ f = family
    BY <2>1, <2>2 DEF IInv, AskedIsOpen, Stopped, FailuresMatch, Noted
  <2>3. CASE ~(pc = "judge" /\ f = family)
    BY <2>1, <2>3 DEF IInv, FailuresMatch
  <2> QED BY <2>2, <2>3
<1> QED BY <1>1, InvariantInductive, PTL

(* One call costs no more requests than the larger retry budget allows,     *)
(* each attempt with its redirects, in any order of answers (_request).     *)
THEOREM CallsAreBounded == Spec => []WireBounded
<1>1. IInv => WireBounded
  <2> SUFFICES ASSUME IInv PROVE wire <= (Most(policy) + 1) * (MaxRedirects + 1)
    BY DEF WireBounded, WireLimit
  <2> DEFINE R == MaxRedirects + 1
             M == Most(policy)
  <2>1. /\ M \in Nat /\ R \in Nat /\ R > 0 /\ attempt \in Nat /\ hops \in Nat /\ hops < R /\ wire \in Nat
    BY PolicyOfType, ConstantsOk DEF IInv, TypeOK
  <2>2. \/ wire = 0
        \/ attempt <= M + 1 /\ wire <= attempt * R
    <3>1. CASE pc \in {"idle", "token"}
      BY <3>1 DEF IInv, Spent
    <3>2. CASE pc = "check"
      BY <2>1, <3>2 DEF IInv, Spent
    <3>3. CASE pc \in {"send", "hop", "judge"}
      <4>1. attempt \in 1..(M + 1) /\ wire <= (attempt - 1) * R + R
        <5>1. attempt \in 1..(M + 1) /\ (wire <= (attempt - 1) * R \/ wire <= (attempt - 1) * R + hops + 1)
          BY <3>3 DEF IInv, Spent
        <5>2. (attempt - 1) * R \in Nat
          BY <2>1, <5>1
        <5> DEFINE Before == (attempt - 1) * R
        <5> HIDE DEF Before, R, M
        <5>3. Before \in Nat /\ (wire <= Before \/ wire <= Before + hops + 1)
          BY <5>1, <5>2 DEF Before
        <5>4. wire <= Before + R
          BY <2>1, <5>3
        <5> QED BY <5>1, <5>4 DEF Before
      <4>2. (attempt - 1) * R + R = attempt * R
        BY <2>1
      <4> QED BY <2>1, <4>1, <4>2
    <3> QED BY <3>1, <3>2, <3>3 DEF IInv, TypeOK
  <2>3. attempt <= M + 1 => attempt * R <= (M + 1) * R
    <3> HIDE DEF R, M
    <3> QED BY <2>1
  <2>4. (M + 1) * R \in Nat /\ attempt * R \in Nat
    <3> HIDE DEF R, M
    <3> QED BY <2>1
  <2>5. wire <= (M + 1) * R
    <3> DEFINE A == attempt * R
               B == (M + 1) * R
    <3>1. A \in Nat /\ B \in Nat /\ (wire = 0 \/ (attempt <= M + 1 /\ wire <= A)) /\ (attempt <= M + 1 => A <= B)
      BY <2>2, <2>3, <2>4
    <3> HIDE DEF A, B, M
    <3>2. wire <= B
      BY <2>1, <3>1
    <3> QED BY <3>2 DEF B, M
  <2> QED BY <2>5
<1> QED BY <1>1, InvariantInductive, PTL

-----------------------------------------------------------------------------
(* Progress.  Under weak fairness of Step a call ends because it can be     *)
(* sent again only so often and because each attempt is a bounded number of *)
(* steps: both are proved here.                                             *)

\* The steps left of the attempt at hand: the request, its redirects, the answer.
StepsLeft ==
    CASE pc = "idle"  -> 0
      [] pc = "check" -> 1
      [] pc \in {"token", "judge"} -> 2
      [] pc = "hop"   -> MaxRedirects + 3 - hops
      [] pc = "send"  -> MaxRedirects + 4

\* A call that goes on is in one of the attempts its policy allows, with steps left in it.
AttemptBounded ==
    pc # "idle" => /\ attempt <= Most(policy) + 1
                   /\ StepsLeft \in 1..(MaxRedirects + 4)

LEMMA AttemptIsBounded == IInv => AttemptBounded
<1> SUFFICES ASSUME IInv, pc # "idle"
             PROVE  attempt <= Most(policy) + 1 /\ StepsLeft \in 1..(MaxRedirects + 4)
  BY DEF AttemptBounded
<1>1. Most(policy) \in Nat /\ MaxRedirects \in Nat /\ attempt \in Nat /\ hops \in 0..MaxRedirects
  BY PolicyOfType, ConstantsOk DEF IInv, TypeOK
<1>2. attempt <= Most(policy) + 1
  <2>1. CASE pc = "token"
    BY <1>1, <2>1 DEF IInv, Spent
  <2>2. CASE pc = "check"
    BY <1>1, <2>2 DEF IInv, Spent
  <2>3. CASE pc \in {"send", "hop", "judge"}
    <3>1. attempt \in 1..(Most(policy) + 1)
      BY <2>3 DEF IInv, Spent
    <3> QED BY <1>1, <3>1
  <2> QED BY <2>1, <2>2, <2>3 DEF IInv, TypeOK
<1>3. StepsLeft \in 1..(MaxRedirects + 4)
  BY <1>1 DEF StepsLeft, IInv, TypeOK
<1> QED BY <1>2, <1>3

\* A step of a call ends it, begins its next attempt, or leaves fewer steps of this one.
CallAdvances ==
    \/ pc' = "idle"
    \/ pc' = "send" /\ attempt' = attempt + 1
    \/ attempt' = attempt /\ StepsLeft' < StepsLeft

LEMMA StepAdvances == IInv /\ Step => CallAdvances
<1> SUFFICES ASSUME IInv, Step, pc' # "idle" PROVE CallAdvances
  BY DEF CallAdvances
<1>1. /\ MaxRedirects \in Nat /\ hops \in 0..MaxRedirects
  BY ConstantsOk DEF IInv, TypeOK
<1>2. ASSUME NEW h \in 0..MaxRedirects, Transmit(h)
      PROVE  attempt' = attempt /\ StepsLeft' \in 2..(MaxRedirects + 3 - h)
  <2>1. pc' \in {"hop", "judge"} /\ hops' = h /\ attempt' = attempt
    BY <1>2, TransmitEffect DEF IInv, End
  <2>2. StepsLeft' = 2 \/ StepsLeft' = MaxRedirects + 3 - h
    BY <2>1 DEF StepsLeft
  <2> QED BY <1>1, <2>1, <2>2
<1>3. CASE Send
  <2>1. attempt' = attempt /\ StepsLeft' \in 2..(MaxRedirects + 3 - 0)
    BY <1>1, <1>2, <1>3 DEF Send, Hosts
  <2>2. StepsLeft = MaxRedirects + 4
    BY <1>3 DEF Send, StepsLeft
  <2> QED BY <1>1, <2>1, <2>2 DEF CallAdvances
<1>4. CASE Hop
  <2>1. answer.location \in Hosts /\ hops + 1 \in 0..MaxRedirects
    BY <1>1, <1>4 DEF Hop, MayHop
  <2>2. attempt' = attempt /\ StepsLeft' \in 2..(MaxRedirects + 3 - (hops + 1))
    BY <1>2, <1>4, <2>1 DEF Hop
  <2>3. StepsLeft = MaxRedirects + 3 - hops
    BY <1>4 DEF Hop, StepsLeft
  <2> QED BY <1>1, <2>2, <2>3 DEF CallAdvances
<1>5. CASE EnsureToken \/ Judge
  <2>1. pc' = "check" /\ attempt' = attempt /\ pc \in {"token", "judge"}
    BY <1>5 DEF EnsureToken, Judge, End
  <2> QED BY <2>1 DEF CallAdvances, StepsLeft
<1>6. CASE CheckStop
  BY <1>6 DEF CheckStop, End, CallAdvances
<1>7. CASE KeepRedirect
  <2>1. pc = "hop" /\ pc' = "judge" /\ attempt' = attempt
    BY <1>7 DEF KeepRedirect
  <2>2. StepsLeft = MaxRedirects + 3 - hops /\ StepsLeft' = 2
    BY <2>1 DEF StepsLeft
  <2> QED BY <1>1, <2>1, <2>2 DEF CallAdvances
<1>8. CASE RefuseRedirect
  BY <1>8 DEF RefuseRedirect, End
<1> QED BY <1>3, <1>4, <1>5, <1>6, <1>7, <1>8 DEF Step

(* Every step of a call ends it, begins one of the attempts its policy      *)
(* allows, or uses up one of the steps of this attempt: no order of rate    *)
(* limits, server errors and redirects keeps a call going (_request,        *)
(* _follow_redirects).                                                      *)
THEOREM CallDraws == Spec => []AttemptBounded /\ [][Step => CallAdvances]_vars
<1>1. IInv /\ [Next]_vars => [Step => CallAdvances]_vars
  BY StepAdvances
<1> QED BY <1>1, AttemptIsBounded, InvariantInductive, PTL DEF Spec
=============================================================================
