------------------------------- MODULE Notify -------------------------------
(***************************************************************************)
(* The tickets a bundle gets in Jira and GitHub (auditex/notify.py).  Each *)
(* `auditex notify` is a process of its own.  It looks for a ticket with   *)
(* the fingerprint of the run and creates one when it sees none; the two   *)
(* are separate calls, the tracker lists a new ticket some time after it   *)
(* has it, and a call that timed out may still arrive.  The fingerprint is *)
(* of the tenant's name and of the path as the operator wrote it, which    *)
(* from another directory, or after the folder was replaced, is the path   *)
(* of another run.                                                         *)
(***************************************************************************)
CONSTANTS
    Senders,        \* the processes, each of one notification
    Tenants,
    Runs,           \* the runs of a tenant
    Spellings,      \* the ways an operator writes the path of a run folder
    LongNamed,      \* tenants whose name fills the title of a GitHub issue
    None

ASSUME NotifyAssumption ==
    /\ LongNamed \subseteq Tenants
    /\ None \notin Senders

VARIABLES
    pc,         \* where each process is
    job,        \* what it was asked: [sink, tenant, run, written, dry]
    found,      \* the ticket its search returned, or None
    result,     \* its "status", or "raised"
    posts,      \* processes whose create call is on its way to the tracker
    tickets,    \* tickets in the trackers, by the process that created them
    indexed,    \* tickets that a search can show
    view        \* history: the tickets a search could show when it answered

vars == <<pc, job, found, result, posts, tickets, indexed, view>>
trackers == <<posts, tickets, indexed>>

Sinks == {"jira", "github"}
Jobs == [sink : Sinks, tenant : Tenants, run : Runs, written : Spellings, dry : BOOLEAN]

Init ==
    /\ pc = [p \in Senders |-> "start"]
    /\ job \in [Senders -> Jobs]
    /\ found = [p \in Senders |-> None]
    /\ result = [p \in Senders |-> "none"]
    /\ posts = {} /\ tickets = {} /\ indexed = {}
    /\ view = [p \in Senders |-> {}]

\* Mutant: one fingerprint for all runs of a tenant.
Fingerprint_TenantOnly(j) == <<j.tenant>>

\* _run_fingerprint: the tenant, and the path as it was written; not the run.
Fingerprint(j) == <<j.tenant, j.written>>

\* What a ticket carries: Jira a label, GitHub the end of a title that is cut to 250 characters.
Mark(j) == IF j.sink = "github" /\ j.tenant \in LongNamed THEN <<"cut">> ELSE Fingerprint(j)

Goto(p, l) == pc' = [pc EXCEPT ![p] = l]
End(p, r) == Goto(p, "over") /\ result' = [result EXCEPT ![p] = r]

-----------------------------------------------------------------------------
\* The bundle changed while it was read; a dry run; no credentials; or a notification to send.
Prepare(p) ==
    /\ pc[p] = "start"
    /\ \/ End(p, "raised")
       \/ job[p].dry /\ End(p, "planned")
       \/ ~job[p].dry /\ End(p, "blocked")
       \/ ~job[p].dry /\ Goto(p, "search") /\ UNCHANGED result
    /\ UNCHANGED <<job, found, trackers, view>>

Hits(p) == {t \in indexed : job[t].sink = job[p].sink /\ Mark(job[t]) = Fingerprint(job[p])}

\* No answer, an error, or an answer that cannot be read: the ticket is created.
SearchFails(p) ==
    /\ pc[p] = "search"
    /\ Goto(p, "create")
    /\ UNCHANGED <<job, found, result, trackers, view>>

SearchMisses(p) ==
    /\ pc[p] = "search" /\ Hits(p) = {}
    /\ view' = [view EXCEPT ![p] = indexed]
    /\ Goto(p, "create")
    /\ UNCHANGED <<job, found, result, trackers>>

SearchHits(p) ==
    /\ pc[p] = "search"
    /\ view' = [view EXCEPT ![p] = indexed]
    /\ \E t \in Hits(p) : found' = [found EXCEPT ![p] = t]
    /\ IF job[p].sink = "jira"
       THEN End(p, "deduped")
       ELSE Goto(p, "comment") /\ UNCHANGED result
    /\ UNCHANGED <<job, trackers>>

\* Mutant: a comment that failed is followed by a new issue.
Comment_ElseCreate(p) ==
    /\ pc[p] = "comment"
    /\ \/ End(p, "commented")
       \/ Goto(p, "create") /\ UNCHANGED result
    /\ UNCHANGED <<job, found, trackers, view>>

\* GitHub: the issue that was found gets a comment, or the process fails.
Comment(p) ==
    /\ pc[p] = "comment"
    /\ \E r \in {"commented", "failed", "raised"} : End(p, r)
    /\ UNCHANGED <<job, found, trackers, view>>

Post(p) ==
    /\ pc[p] = "create"
    /\ posts' = posts \cup {p}
    /\ Goto(p, "wait")
    /\ UNCHANGED <<job, found, result, tickets, indexed, view>>

\* requests.post raises, and so does the process; the call may be answered all the same.
Timeout(p) ==
    /\ pc[p] = "wait" /\ End(p, "raised")
    /\ UNCHANGED <<job, found, trackers, view>>

-----------------------------------------------------------------------------
(* The trackers.                                                           *)

\* A ticket is made; the answer, an error of the server's too, reaches the process if it still waits.
Accept(p) ==
    /\ p \in posts
    /\ posts' = posts \ {p} /\ tickets' = tickets \cup {p}
    /\ \/ pc[p] = "wait" /\ \E r \in {"sent", "failed"} : End(p, r)
       \/ UNCHANGED <<pc, result>>
    /\ UNCHANGED <<job, found, indexed, view>>

\* A call is refused, or lost.
Drop(p) ==
    /\ p \in posts
    /\ posts' = posts \ {p}
    /\ \/ pc[p] = "wait" /\ End(p, "failed")
       \/ UNCHANGED <<pc, result>>
    /\ UNCHANGED <<job, found, tickets, indexed, view>>

List(t) ==
    /\ t \in tickets \ indexed
    /\ indexed' = indexed \cup {t}
    /\ UNCHANGED <<pc, job, found, result, posts, tickets, view>>

Send(p) ==
    Prepare(p) \/ SearchFails(p) \/ SearchMisses(p) \/ SearchHits(p) \/ Comment(p) \/ Post(p) \/ Timeout(p)

Next == \E p \in Senders : Send(p) \/ Accept(p) \/ Drop(p) \/ List(p)

Spec == Init /\ [][Next]_vars

-----------------------------------------------------------------------------
(* Type invariant. *)
TypeOK ==
    /\ pc \in [Senders -> {"start", "search", "comment", "create", "wait", "over"}]
    /\ job \in [Senders -> Jobs]
    /\ found \in [Senders -> Senders \cup {None}]
    /\ result \in [Senders -> {"none", "raised", "planned", "blocked", "deduped", "commented",
                               "failed", "sent"}]
    /\ posts \subseteq Senders /\ tickets \subseteq Senders /\ indexed \subseteq tickets
    /\ view \in [Senders -> SUBSET Senders]

SameBundle(p, q) == job[p].sink = job[q].sink /\ job[p].tenant = job[q].tenant /\ job[p].run = job[q].run

(* "re-running notify against the same bundle must not create a second Jira *)
(* issue" (_send_jira), and what holds of it in either tracker: no ticket   *)
(* is made beside one of the same run that the search could show, but where *)
(* the operator wrote the folder in another way, or a long tenant name cut  *)
(* the fingerprint off the title of a GitHub issue.                         *)
NoneBeside ==
    \A p \in tickets : \A q \in view[p] :
        SameBundle(p, q) =>
            \/ job[p].written # job[q].written
            \/ job[p].sink = "github" /\ job[p].tenant \in LongNamed

(* A process that reports a ticket tells as much of the truth as a          *)
(* fingerprint can: what it sent is there, and what it found or commented   *)
(* on is a ticket in that tracker, of that tenant, for a run whose path was *)
(* written the same way, whichever processes ran beside it and whichever    *)
(* calls were late.  And no ticket is made in silence: who created one      *)
(* reports it as sent, fails loudly, or still waits for the answer.         *)
ToldIsThere ==
    \A p \in Senders :
        /\ result[p] = "sent" => p \in tickets
        /\ result[p] \in {"deduped", "commented"} =>
              \E q \in tickets : /\ job[q].sink = job[p].sink /\ job[q].tenant = job[p].tenant
                                 /\ job[q].written = job[p].written
        /\ p \in tickets => result[p] \in {"sent", "failed", "raised"} \/ pc[p] = "wait"

(* "two runs of one tenant never share a fingerprint" (_run_fingerprint): a *)
(* run that is reported as found or commented on has a ticket of its own.   *)
(* The code does not keep this; the run that checks it shows how.           *)
RunsAreApart ==
    \A p \in Senders :
        result[p] \in {"deduped", "commented"} => \E q \in tickets : SameBundle(p, q)
=============================================================================
