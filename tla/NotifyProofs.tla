---------------------------- MODULE NotifyProofs ----------------------------
(***************************************************************************)
(* Which tickets may stand beside each other, and what a notification may  *)
(* report, for any number of processes, runs and spellings.                *)
(***************************************************************************)
EXTENDS Notify, TLAPS

-----------------------------------------------------------------------------
(* The inductive invariant, one part per fact. *)

\* The search of p would show q.
Matches(q, p) == job[q].sink = job[p].sink /\ Mark(job[q]) = Fingerprint(job[p])

\* Nothing was shown to a process that has not searched.
UnsearchedSawNone == \A p \in Senders : pc[p] \in {"start", "search"} => view[p] = {}

\* A create call was made by a process that waits for it or is gone.
PostsAreMade == \A p \in posts \cup tickets : pc[p] \in {"wait", "over"}

\* Who creates a ticket was shown none that matches.
CreatorsMissed ==
    \A p \in Senders :
        pc[p] \in {"create", "wait"} \/ p \in posts \cup tickets =>
            \A q \in view[p] : ~Matches(q, p)

\* What a search found is a ticket that matches.
FoundMatches ==
    \A p \in Senders :
        pc[p] = "comment" \/ result[p] \in {"deduped", "commented"} =>
            found[p] \in tickets /\ Matches(found[p], p)

\* A call that was answered has made its ticket.
SentIsMade == \A p \in Senders : result[p] = "sent" => p \in tickets

\* A call is made once; one that is under way has failed its process, if that is over.
CallsAreTold ==
    /\ posts \cap tickets = {}
    /\ \A p \in posts : pc[p] = "over" => result[p] = "raised"
    /\ \A p \in tickets : pc[p] = "over" => result[p] \in {"sent", "failed", "raised"}

\* No result before the end.
ResultIsLast == \A p \in Senders : pc[p] # "over" => result[p] = "none"

IInv ==
    /\ TypeOK
    /\ UnsearchedSawNone /\ PostsAreMade /\ CreatorsMissed
    /\ FoundMatches /\ SentIsMade /\ CallsAreTold /\ ResultIsLast

-----------------------------------------------------------------------------
\* The status a process ends with, and the place it is at, concern it alone.
LEMMA OthersStay ==
    ASSUME TypeOK, NEW p \in Senders, NEW q \in Senders, p # q,
           Send(p) \/ Accept(p) \/ Drop(p) \/ List(p)
    PROVE  pc'[q] = pc[q] /\ result'[q] = result[q] /\ found'[q] = found[q] /\ view'[q] = view[q]
BY DEF TypeOK, Send, Prepare, SearchFails, SearchMisses, SearchHits, Comment, Post, Timeout, Accept,
       Drop, List, End, Goto

\* What was asked never changes.
LEMMA JobsStay == [Next]_vars => job' = job
BY DEF Next, Send, Prepare, SearchFails, SearchMisses, SearchHits, Comment, Post, Timeout, Accept,
       Drop, List, vars

LEMMA TypeInit == Init => TypeOK
BY DEF Init, TypeOK

LEMMA TypeNext == TypeOK /\ [Next]_vars => TypeOK'
<1> SUFFICES ASSUME TypeOK, [Next]_vars PROVE TypeOK'
  OBVIOUS
<1> USE DEF TypeOK, Goto, End, trackers
<1>1. ASSUME NEW p \in Senders, Prepare(p) \/ SearchFails(p) \/ Comment(p) \/ Post(p) \/ Timeout(p)
      PROVE  TypeOK'
  BY <1>1 DEF Prepare, SearchFails, Comment, Post, Timeout
<1>2. ASSUME NEW p \in Senders, SearchMisses(p) PROVE TypeOK'
  BY <1>2 DEF SearchMisses
<1>3. ASSUME NEW p \in Senders, SearchHits(p) PROVE TypeOK'
  BY <1>3 DEF SearchHits, Hits
<1>4. ASSUME NEW p \in Senders, Accept(p) \/ Drop(p) \/ List(p) PROVE TypeOK'
  BY <1>4 DEF Accept, Drop, List
<1>5. CASE UNCHANGED vars
  BY <1>5 DEF vars
<1> QED BY <1>1, <1>2, <1>3, <1>4, <1>5 DEF Next, Send

(* The processes and the trackers are of their types (send_notification).  *)
THEOREM TypeCorrect == Spec => []TypeOK
BY TypeInit, TypeNext, PTL DEF Spec

-----------------------------------------------------------------------------
LEMMA SearchesNext ==
    TypeOK /\ UnsearchedSawNone /\ PostsAreMade /\ ResultIsLast /\ [Next]_vars
    => UnsearchedSawNone' /\ PostsAreMade' /\ ResultIsLast'
<1> SUFFICES ASSUME TypeOK, UnsearchedSawNone, PostsAreMade, ResultIsLast, [Next]_vars
             PROVE  UnsearchedSawNone' /\ PostsAreMade' /\ ResultIsLast'
  OBVIOUS
<1> USE DEF TypeOK, UnsearchedSawNone, PostsAreMade, ResultIsLast, Goto, End, trackers
<1>1. ASSUME NEW p \in Senders, Prepare(p) \/ SearchFails(p) \/ Comment(p)
      PROVE  UnsearchedSawNone' /\ PostsAreMade' /\ ResultIsLast'
  BY <1>1 DEF Prepare, SearchFails, Comment
<1>2. ASSUME NEW p \in Senders, SearchMisses(p) \/ SearchHits(p)
      PROVE  UnsearchedSawNone' /\ PostsAreMade' /\ ResultIsLast'
  BY <1>2 DEF SearchMisses, SearchHits
<1>3. ASSUME NEW p \in Senders, Post(p) \/ Timeout(p)
      PROVE  UnsearchedSawNone' /\ PostsAreMade' /\ ResultIsLast'
  BY <1>3 DEF Post, Timeout
<1>4. ASSUME NEW p \in Senders, Accept(p) \/ Drop(p) \/ List(p)
      PROVE  UnsearchedSawNone' /\ PostsAreMade' /\ ResultIsLast'
  BY <1>4 DEF Accept, Drop, List
<1>5. CASE UNCHANGED vars
  BY <1>5 DEF vars
<1> QED BY <1>1, <1>2, <1>3, <1>4, <1>5 DEF Next, Send

\* A process is shown no match and creates, or is shown one and does not.
LEMMA CreatorsNext ==
    TypeOK /\ UnsearchedSawNone /\ PostsAreMade /\ CreatorsMissed /\ [Next]_vars => CreatorsMissed'
<1> SUFFICES ASSUME TypeOK, UnsearchedSawNone, PostsAreMade, CreatorsMissed, [Next]_vars,
                    NEW q \in Senders,
                    pc'[q] \in {"create", "wait"} \/ q \in posts' \cup tickets',
                    NEW t \in view'[q]
             PROVE  ~Matches(t, q)'
  BY DEF CreatorsMissed
<1>1. job' = job
  BY JobsStay
<1>2. ASSUME view'[q] = view[q], pc[q] \in {"create", "wait"} \/ q \in posts \cup tickets
      PROVE  ~Matches(t, q)'
  BY <1>1, <1>2 DEF CreatorsMissed, Matches
<1>3. ASSUME NEW p \in Senders, Prepare(p) \/ Comment(p) \/ Post(p) \/ Timeout(p)
      PROVE  ~Matches(t, q)'
  BY <1>2, <1>3 DEF Prepare, Comment, Post, Timeout, Goto, End, TypeOK, trackers
<1>4. ASSUME NEW p \in Senders, SearchFails(p) PROVE ~Matches(t, q)'
  BY <1>2, <1>4 DEF SearchFails, Goto, TypeOK, trackers, UnsearchedSawNone
<1>5. ASSUME NEW p \in Senders, SearchMisses(p) PROVE ~Matches(t, q)'
  <2>1. CASE p = q
    <3>1. t \in indexed /\ t \notin Hits(q)
      BY <1>5, <2>1 DEF SearchMisses, TypeOK
    <3> QED BY <1>1, <3>1 DEF Hits, Matches
  <2>2. CASE p # q
    BY <1>2, <1>5, <2>2 DEF SearchMisses, Goto, TypeOK, trackers
  <2> QED BY <2>1, <2>2
<1>6. ASSUME NEW p \in Senders, SearchHits(p) PROVE ~Matches(t, q)'
  BY <1>2, <1>6 DEF SearchHits, Goto, End, TypeOK, trackers, PostsAreMade
<1>7. ASSUME NEW p \in Senders, Accept(p) \/ Drop(p) \/ List(p) PROVE ~Matches(t, q)'
  BY <1>2, <1>7 DEF Accept, Drop, List, Goto, End, TypeOK
<1>8. CASE UNCHANGED vars
  BY <1>2, <1>8 DEF vars
<1> QED BY <1>3, <1>4, <1>5, <1>6, <1>7, <1>8 DEF Next, Send

\* Tickets stay, and a search returns those that are there.
LEMMA FoundNext ==
    TypeOK /\ FoundMatches /\ SentIsMade /\ ResultIsLast /\ [Next]_vars => FoundMatches' /\ SentIsMade'
<1> SUFFICES ASSUME TypeOK, FoundMatches, SentIsMade, ResultIsLast, [Next]_vars
             PROVE  FoundMatches' /\ SentIsMade'
  OBVIOUS
<1>1. job' = job
  BY JobsStay
<1>2. \A q, p \in Senders : Matches(q, p)' <=> Matches(q, p)
  BY <1>1 DEF Matches
<1>3. ASSUME NEW p \in Senders, Prepare(p) \/ SearchFails(p) \/ SearchMisses(p) \/ Post(p) \/ Timeout(p)
      PROVE  FoundMatches' /\ SentIsMade'
  BY <1>2, <1>3 DEF Prepare, SearchFails, SearchMisses, Post, Timeout, Goto, End, TypeOK, trackers,
                    FoundMatches, SentIsMade, ResultIsLast
<1>4. ASSUME NEW p \in Senders, SearchHits(p) PROVE FoundMatches' /\ SentIsMade'
  <2>1. PICK t \in Hits(p) : found' = [found EXCEPT ![p] = t]
    BY <1>4 DEF SearchHits
  <2>2. t \in tickets /\ t \in Senders /\ Matches(t, p)
    BY <2>1 DEF Hits, Matches, TypeOK
  <2> QED BY <1>2, <1>4, <2>1, <2>2 DEF SearchHits, Goto, End, TypeOK, trackers, FoundMatches,
                                        SentIsMade, ResultIsLast
<1>5. ASSUME NEW p \in Senders, Comment(p) PROVE FoundMatches' /\ SentIsMade'
  BY <1>2, <1>5 DEF Comment, Goto, End, TypeOK, trackers, FoundMatches, SentIsMade, ResultIsLast
<1>6. ASSUME NEW p \in Senders, Accept(p) \/ Drop(p) \/ List(p) PROVE FoundMatches' /\ SentIsMade'
  BY <1>2, <1>6 DEF Accept, Drop, List, Goto, End, TypeOK, FoundMatches, SentIsMade, ResultIsLast
<1>7. CASE UNCHANGED vars
  BY <1>2, <1>7 DEF vars, TypeOK, FoundMatches, SentIsMade
<1> QED BY <1>3, <1>4, <1>5, <1>6, <1>7 DEF Next, Send

\* A ticket is made by a call that is answered to its process, or that had failed it.
LEMMA CallsNext == TypeOK /\ PostsAreMade /\ CallsAreTold /\ [Next]_vars => CallsAreTold'
<1> SUFFICES ASSUME TypeOK, PostsAreMade, CallsAreTold, [Next]_vars PROVE CallsAreTold'
  OBVIOUS
<1> USE DEF TypeOK, PostsAreMade, CallsAreTold, Goto, End, trackers
<1>1. ASSUME NEW p \in Senders, Prepare(p) \/ SearchFails(p) \/ SearchMisses(p) \/ SearchHits(p) \/ Comment(p)
      PROVE  CallsAreTold'
  <2>1. pc[p] \in {"start", "search", "comment"} /\ UNCHANGED trackers
    BY <1>1 DEF Prepare, SearchFails, SearchMisses, SearchHits, Comment
  <2>2. p \notin posts \cup tickets
    BY <2>1
  <2>3. \A q \in posts \cup tickets : pc'[q] = pc[q] /\ result'[q] = result[q]
    BY <1>1, <2>2, OthersStay DEF Send
  <2> QED BY <2>1, <2>3
<1>2. ASSUME NEW p \in Senders, Post(p) PROVE CallsAreTold'
  BY <1>2 DEF Post
<1>3. ASSUME NEW p \in Senders, Timeout(p) PROVE CallsAreTold'
  BY <1>3 DEF Timeout
<1>4. ASSUME NEW p \in Senders, Accept(p) PROVE CallsAreTold'
  BY <1>4 DEF Accept
<1>5. ASSUME NEW p \in Senders, Drop(p) \/ List(p) PROVE CallsAreTold'
  BY <1>5 DEF Drop, List
<1>6. CASE UNCHANGED vars
  BY <1>6 DEF vars
<1> QED BY <1>1, <1>2, <1>3, <1>4, <1>5, <1>6 DEF Next, Send

LEMMA InvariantInductive == Spec => []IInv
<1>1. Init => IInv
  BY TypeInit DEF Init, IInv, UnsearchedSawNone, PostsAreMade, CreatorsMissed, FoundMatches,
                  SentIsMade, CallsAreTold, ResultIsLast
<1>2. IInv /\ [Next]_vars => IInv'
  BY TypeNext, SearchesNext, CreatorsNext, FoundNext, CallsNext DEF IInv
<1> QED BY <1>1, <1>2, PTL DEF Spec

-----------------------------------------------------------------------------
\* A ticket that matches is one of the same tenant, for a path written the same way.
LEMMA MatchIsWrittenSame ==
    ASSUME TypeOK, NEW p \in Senders, NEW q \in Senders, Matches(q, p)
    PROVE  /\ job[q].sink = job[p].sink
           /\ job[q].tenant = job[p].tenant /\ job[q].written = job[p].written
<1>1. Mark(job[q]) = <<job[p].tenant, job[p].written>>
  BY DEF Matches, Fingerprint
<1>2. Mark(job[q]) = <<job[q].tenant, job[q].written>>
  BY <1>1 DEF Mark, Fingerprint
<1> QED BY <1>1, <1>2 DEF Matches

(* No ticket is made beside one of the same run that the search could show, *)
(* but for another spelling or a fingerprint that was cut off (_send_jira,  *)
(* _send_github).                                                           *)
THEOREM TicketsAreApart == Spec => []NoneBeside
<1>1. IInv => NoneBeside
  <2> SUFFICES ASSUME IInv, NEW p \in tickets, NEW q \in view[p], SameBundle(p, q),
                      job[p].written = job[q].written,
                      ~(job[p].sink = "github" /\ job[p].tenant \in LongNamed)
               PROVE  FALSE
    BY DEF NoneBeside
  <2>1. ~Matches(q, p)
    BY DEF IInv, CreatorsMissed, TypeOK
  <2>2. Mark(job[q]) = Fingerprint(job[p])
    BY DEF Mark, Fingerprint, SameBundle
  <2> QED BY <2>1, <2>2 DEF Matches, SameBundle
<1> QED BY <1>1, InvariantInductive, PTL

(* What is reported as sent has made its ticket; what is reported as found  *)
(* or commented on is a ticket of that tracker and tenant, for a path that  *)
(* was written the same way, though it may be of another run; and whoever   *)
(* made a ticket reports it, fails or waits (_send_jira, _send_github).     *)
THEOREM ReportsAreTrue == Spec => []ToldIsThere
<1>1. IInv => ToldIsThere
  <2> SUFFICES ASSUME IInv, NEW p \in Senders
               PROVE  /\ result[p] = "sent" => p \in tickets
                      /\ result[p] \in {"deduped", "commented"} =>
                            \E q \in tickets : /\ job[q].sink = job[p].sink
                                               /\ job[q].tenant = job[p].tenant
                                               /\ job[q].written = job[p].written
                      /\ p \in tickets => result[p] \in {"sent", "failed", "raised"} \/ pc[p] = "wait"
    BY DEF ToldIsThere
  <2>1. result[p] = "sent" => p \in tickets
    BY DEF IInv, SentIsMade
  <2>2. ASSUME result[p] \in {"deduped", "commented"}
        PROVE  \E q \in tickets : /\ job[q].sink = job[p].sink
                                  /\ job[q].tenant = job[p].tenant /\ job[q].written = job[p].written
    <3>1. found[p] \in tickets /\ found[p] \in Senders /\ Matches(found[p], p)
      BY <2>2 DEF IInv, FoundMatches, TypeOK
    <3> QED BY <3>1, MatchIsWrittenSame DEF IInv
  <2>3. p \in tickets => result[p] \in {"sent", "failed", "raised"} \/ pc[p] = "wait"
    BY DEF IInv, PostsAreMade, CallsAreTold
  <2> QED BY <2>1, <2>2, <2>3
<1> QED BY <1>1, InvariantInductive, PTL

-----------------------------------------------------------------------------
(* When the documented sentence holds as it stands. *)

\* Processes that will create a ticket, or may have.
Coming  == {p \in Senders : pc[p] = "create"} \cup posts
Creators == Coming \cup tickets

\* Who goes on to create had an answer to its search, which showed every ticket there is,
\* while no other call was on its way.
Orderly ==
    \A p \in Senders :
        pc[p] = "search" /\ pc'[p] = "create" =>
            Coming = {} /\ indexed = tickets /\ view'[p] = indexed

\* The same notification, with a fingerprint that the tracker keeps whole.
Again(p, q) ==
    /\ job[p].sink = job[q].sink /\ Fingerprint(job[p]) = Fingerprint(job[q])
    /\ ~(job[p].sink = "github" /\ job[p].tenant \in LongNamed)

\* No run has two creators.
OneCreator == \A p, q \in Creators : Again(p, q) => p = q

\* Only a process that leaves its search becomes a creator.
LEMMA CreatorsGrow ==
    ASSUME TypeOK, Next, NEW p \in Senders, p \in Creators', p \notin Creators
    PROVE  pc[p] = "search" /\ pc'[p] = "create"
<1> USE DEF TypeOK, Creators, Coming, Goto, End, trackers
<1>1. ASSUME NEW s \in Senders, Prepare(s) \/ SearchFails(s) \/ SearchMisses(s) \/ SearchHits(s) \/ Comment(s)
      PROVE  pc[p] = "search" /\ pc'[p] = "create"
  <2>1. pc'[p] = "create" /\ pc[p] # "create"
    BY <1>1 DEF Prepare, SearchFails, SearchMisses, SearchHits, Comment
  <2>2. s = p
    BY <1>1, <2>1, OthersStay DEF Send
  <2> QED BY <1>1, <2>1, <2>2 DEF Prepare, SearchFails, SearchMisses, SearchHits, Comment
<1>2. ASSUME NEW s \in Senders, Post(s) \/ Timeout(s) PROVE FALSE
  BY <1>2 DEF Post, Timeout
<1>3. ASSUME NEW s \in Senders, Accept(s) \/ Drop(s) \/ List(s) PROVE FALSE
  BY <1>3 DEF Accept, Drop, List
<1> QED BY <1>1, <1>2, <1>3 DEF Next, Send

LEMMA OneCreatorNext ==
    TypeOK /\ UnsearchedSawNone /\ OneCreator /\ [Next]_vars /\ [Orderly]_vars => OneCreator'
<1> SUFFICES ASSUME TypeOK, UnsearchedSawNone, OneCreator, [Next]_vars, [Orderly]_vars,
                    NEW p \in Creators', NEW q \in Creators', Again(p, q)'
             PROVE  p = q
  BY DEF OneCreator
<1>1. job' = job /\ Again(p, q) /\ Again(q, p)
  BY JobsStay DEF Again, Fingerprint
<1>2. p \in Senders /\ q \in Senders
  BY TypeNext DEF TypeOK, Creators, Coming
<1>3. CASE UNCHANGED vars
  <2>1. Creators' = Creators
    BY <1>3 DEF vars, Creators, Coming
  <2> QED BY <1>1, <2>1 DEF OneCreator
<1>4. ASSUME Next, Orderly,
             NEW x \in Senders, NEW y \in Senders, Again(x, y), x \in Creators', x \notin Creators,
             y \in Creators' PROVE x = y
  <2>1. pc[x] = "search" /\ pc'[x] = "create"
    BY <1>4, CreatorsGrow
  <2>2. Coming = {} /\ indexed = tickets /\ view'[x] = indexed
    BY <1>4, <2>1 DEF Orderly
  <2>3. \A t \in indexed : ~Again(x, t)
    <3>1. PICK s \in Senders : Send(s) \/ Accept(s) \/ Drop(s) \/ List(s)
      BY <1>4 DEF Next
    <3>2. s = x
      BY <2>1, <3>1, OthersStay
    <3>3. SearchFails(x) \/ SearchMisses(x)
      BY <2>1, <3>1, <3>2 DEF Send, Prepare, SearchHits, Comment, Post, Timeout, Accept, Drop, List,
                              Goto, End, TypeOK
    <3>4. CASE SearchFails(x)
      <4>1. view[x] = {}
        BY <2>1 DEF UnsearchedSawNone
      <4> QED BY <2>2, <3>4, <4>1 DEF SearchFails
    <3>5. CASE SearchMisses(x)
      BY <3>5 DEF SearchMisses, Hits, Again, Mark, Fingerprint
    <3> QED BY <3>3, <3>4, <3>5
  <2>4. CASE y \in Creators
    BY <1>4, <2>2, <2>3, <2>4 DEF Creators
  <2>5. CASE y \notin Creators
    <3>1. pc[y] = "search" /\ pc'[y] = "create"
      BY <1>4, <2>5, CreatorsGrow
    <3>2. PICK s \in Senders : Send(s) \/ Accept(s) \/ Drop(s) \/ List(s)
      BY <1>4 DEF Next
    <3> QED BY <2>1, <3>1, <3>2, OthersStay
  <2> QED BY <2>4, <2>5
<1>5. CASE Next /\ Orderly /\ p \notin Creators
  BY <1>1, <1>2, <1>4, <1>5
<1>6. CASE Next /\ Orderly /\ q \notin Creators
  BY <1>1, <1>2, <1>4, <1>6
<1>7. CASE p \in Creators /\ q \in Creators
  BY <1>1, <1>7 DEF OneCreator
<1> QED BY <1>3, <1>5, <1>6, <1>7

(* "re-running notify against the same bundle must not create a second Jira *)
(* issue" (_send_jira) is true of notifications that come one after the     *)
(* other and whose searches answer with every ticket: then a run that is    *)
(* written the same way gets one ticket in a tracker, whichever calls time  *)
(* out, arrive late or are lost.  (That ticket is all that another run gets *)
(* whose path reads the same.)                                              *)
THEOREM OneTicketInOrder ==
    Spec /\ [][Orderly]_vars => [](\A p, q \in tickets : Again(p, q) => p = q)
<1>1. Init => OneCreator
  BY DEF Init, OneCreator, Creators, Coming
<1>2. IInv /\ OneCreator /\ [Next]_vars /\ [Orderly]_vars => OneCreator'
  BY OneCreatorNext DEF IInv
<1>3. OneCreator => \A p, q \in tickets : Again(p, q) => p = q
  BY DEF OneCreator, Creators
<1> QED BY <1>1, <1>2, <1>3, InvariantInductive, PTL DEF Spec
=============================================================================
