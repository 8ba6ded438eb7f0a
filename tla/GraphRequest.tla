---------------------------- MODULE GraphRequest ----------------------------
(***************************************************************************)
(* GraphClient of graph.py: one client over the calls of a whole run.      *)
(*                                                                         *)
(* _request sends a call until it has an answer to return: a rate limit    *)
(* and a server error are sent again, with one attempt counter for both; a *)
(* redirect is followed by hand; and every refusal (403) of an endpoint    *)
(* family is remembered by the client, which stops calling a family that   *)
(* was refused too often.                                                  *)
(*                                                                         *)
(* Pacing and backoff only pass time and are left out, and so are the      *)
(* headers of a request: a hop to a download host goes without the token.  *)
(***************************************************************************)
EXTENDS Naturals

CONSTANTS
    Families,       \* the endpoint families calls are made to
    Scopes,         \* other resources a token is asked for
    Policies,       \* the throttle policies: [rate, server, stop]
    MaxRedirects,   \* _MAX_REDIRECTS
    MaxCalls        \* bound on the calls of one client

ASSUME ConstantsOk ==
    /\ Families # {}
    /\ Policies \subseteq [rate : Nat, server : Nat, stop : Nat]
    /\ MaxRedirects \in Nat
    /\ MaxCalls \in Nat

VARIABLES
    (* The client. *)
    policy,     \* the throttle policy of --throttle-mode
    token,      \* _token is set
    claims,     \* _token_claims: None, {} or the claims
    resources,  \* _resource_tokens
    failures,   \* _permission_failures, 0 where a family has no entry
    (* The call in progress: where it is, what it asks, and the last answer. *)
    pc, verb, family, attempt, hops, answer,
    calls,      \* calls made
    (* History. *)
    wire,       \* requests the call in progress sent
    refusals    \* refusals of each family since it last answered

client  == <<policy, token, claims, resources>>
request == <<verb, family, calls>>
vars    == <<client, failures, pc, request, attempt, hops, answer, wire, refusals>>

-----------------------------------------------------------------------------
Hosts     == {"graph", "download"}
Locations == Hosts \cup {"elsewhere", "absent"}
Verbs     == {"GET", "POST", "PATCH"}

Redirect(l) == [class |-> "redirect", location |-> l]
Plain(c)    == [class |-> c, location |-> "absent"]
NoAnswer    == Plain("none")

(* refused is 403, denied any other 4xx but 429, limited 429, broken 5xx. *)
Answers ==
    {Plain(c) : c \in {"ok", "refused", "denied", "limited", "broken"}}
        \cup {Redirect(l) : l \in Locations}

Init ==
    /\ policy \in Policies
    /\ token = FALSE
    /\ claims = "unread"
    /\ resources = [s \in Scopes |-> "unasked"]
    /\ failures = [f \in Families |-> 0]
    /\ pc = "idle"
    /\ verb = "GET" /\ family = CHOOSE f \in Families : TRUE
    /\ attempt = 0 /\ hops = 0 /\ answer = NoAnswer
    /\ calls = 0
    /\ wire = 0
    /\ refusals = [f \in Families |-> 0]

(* The call ends, with its answer or with an error: its locals are gone. *)
End ==
    /\ pc' = "idle"
    /\ attempt' = 0 /\ hops' = 0 /\ answer' = NoAnswer /\ wire' = 0

-----------------------------------------------------------------------------
(* A call that is not a read is refused before a token is asked for.  POST  *)
(* is a $batch of reads, PATCH any other method or body.                    *)
Call(v, f) ==
    /\ pc = "idle" /\ calls < MaxCalls
    /\ calls' = calls + 1
    /\ IF v = "PATCH"
       THEN UNCHANGED <<pc, verb, family>>
       ELSE pc' = "token" /\ verb' = v /\ family' = f
    /\ UNCHANGED <<client, failures, attempt, hops, answer, wire, refusals>>

(* ensure_token: the token is kept for the life of the client. *)
EnsureToken ==
    /\ pc = "token"
    /\ \/ token' = TRUE /\ pc' = "check" /\ UNCHANGED <<attempt, hops, answer, wire>>
       \/ ~token /\ UNCHANGED token /\ End
    /\ UNCHANGED <<policy, claims, resources, failures, request, refusals>>

\* Mutant: one refusal more is allowed.
Stopped_OneMore(f) == policy.stop > 0 /\ failures[f] > policy.stop

\* The permission stop of a family.
Stopped(f) == policy.stop > 0 /\ failures[f] >= policy.stop

\* Mutant: a call of a stopped family waits for the stop to be lifted.
CheckStop_Waits ==
    /\ pc = "check" /\ ~Stopped(family)
    /\ pc' = "send" /\ attempt' = attempt + 1
    /\ UNCHANGED <<client, failures, request, hops, answer, wire, refusals>>

CheckStop ==
    /\ pc = "check"
    /\ IF Stopped(family)
       THEN End
       ELSE pc' = "send" /\ attempt' = attempt + 1 /\ UNCHANGED <<hops, answer, wire>>
    /\ UNCHANGED <<client, failures, request, refusals>>

Most(p) == IF p.rate > p.server THEN p.rate ELSE p.server

\* The requests one call may cost: history counts one beyond it and no further.
WireLimit == (Most(policy) + 1) * (MaxRedirects + 1)

(* The h-th request of a call: the transport fails, or the service answers. *)
Transmit(h) ==
    /\ \/ End /\ UNCHANGED refusals
       \/ \E a \in Answers :
            /\ answer' = a
            /\ pc' = IF a.class = "redirect" THEN "hop" ELSE "judge"
            /\ refusals' = IF policy.stop = 0 \/ a.class \notin {"ok", "refused"}
                           THEN refusals
                           ELSE [refusals EXCEPT ![family] = IF a.class = "refused" THEN @ + 1 ELSE 0]
            /\ hops' = h
            /\ wire' = IF wire > WireLimit THEN wire ELSE wire + 1
            /\ UNCHANGED attempt
    /\ UNCHANGED <<client, failures, request>>

Send ==
    /\ pc = "send"
    /\ Transmit(0)

-----------------------------------------------------------------------------
(* _follow_redirects, one hop.                                             *)

Unfollowed == answer.location = "absent" \/ verb # "GET"

\* Mutant: hops are not counted.
MayHop_Uncounted == answer.location \in Hosts

MayHop == hops < MaxRedirects /\ answer.location \in Hosts

(* A redirect that is not followed is the answer of the call. *)
KeepRedirect ==
    /\ pc = "hop" /\ Unfollowed
    /\ pc' = "judge"
    /\ refusals' = [refusals EXCEPT ![family] = 0]
    /\ UNCHANGED <<client, failures, request, attempt, hops, answer, wire>>

RefuseRedirect ==
    /\ pc = "hop" /\ ~Unfollowed /\ ~MayHop
    /\ End
    /\ UNCHANGED <<client, failures, request, refusals>>

Hop ==
    /\ pc = "hop" /\ ~Unfollowed /\ MayHop
    /\ Transmit(hops + 1)

-----------------------------------------------------------------------------
\* Mutant: an answer that is no refusal leaves the failures of its family.
Noted_Kept(f) == IF answer.class = "refused" /\ policy.stop > 0 THEN failures[f] + 1 ELSE failures[f]

\* What the client remembers of a family after an answer, wherever it came from.
Noted(f) ==
    CASE answer.class = "refused" /\ policy.stop > 0 -> failures[f] + 1
      [] answer.class \in {"ok", "redirect"}         -> 0
      [] OTHER                                       -> failures[f]

\* Mutant: a rate limit is waited out however often it comes.
Again_EveryLimit ==
    \/ answer.class = "limited"
    \/ answer.class = "broken" /\ attempt <= policy.server

\* One counter for the two kinds of retry.
Again ==
    \/ answer.class = "limited" /\ attempt <= policy.rate
    \/ answer.class = "broken"  /\ attempt <= policy.server

Judge ==
    /\ pc = "judge"
    /\ failures' = [failures EXCEPT ![family] = Noted(family)]
    /\ IF Again
       THEN pc' = "check" /\ UNCHANGED <<attempt, hops, answer, wire>>
       ELSE End
    /\ UNCHANGED <<client, request, refusals>>

-----------------------------------------------------------------------------
(* token_claims: what was read first is kept, an empty reading too. *)
ReadClaims ==
    /\ pc = "idle" /\ claims = "unread"
    /\ \/ token' = TRUE /\ claims' \in {"known", "empty"}
       \/ ~token /\ claims' = "empty" /\ UNCHANGED token
    /\ UNCHANGED <<policy, resources, failures, pc, request, attempt, hops, answer, wire, refusals>>

(* app_token_for: a request that fails is made again the next time, an      *)
(* answer without a token is kept.                                          *)
AppTokenFor(s) ==
    /\ pc = "idle" /\ resources[s] = "unasked"
    /\ resources' \in {[resources EXCEPT ![s] = r] : r \in {"token", "empty"}}
    /\ UNCHANGED <<policy, token, claims, failures, pc, request, attempt, hops, answer, wire,
                   refusals>>


Step == EnsureToken \/ CheckStop \/ Send \/ KeepRedirect \/ RefuseRedirect \/ Hop \/ Judge

Next ==
    \/ \E v \in Verbs, f \in Families : Call(v, f)
    \/ Step
    \/ ReadClaims
    \/ \E s \in Scopes : AppTokenFor(s)

(* A call runs by itself: every request has a timeout and every wait ends. *)
Spec == Init /\ [][Next]_vars /\ WF_vars(Step)

-----------------------------------------------------------------------------
(* Type invariant. *)
TypeOK ==
    /\ policy \in Policies
    /\ token \in BOOLEAN
    /\ claims \in {"unread", "empty", "known"}
    /\ resources \in [Scopes -> {"unasked", "empty", "token"}]
    /\ failures \in [Families -> Nat]
    /\ pc \in {"idle", "token", "check", "send", "hop", "judge"}
    /\ verb \in Verbs /\ family \in Families
    /\ attempt \in Nat /\ hops \in 0..MaxRedirects
    /\ answer \in Answers \cup {NoAnswer}
    /\ calls \in 0..MaxCalls
    /\ wire \in Nat
    /\ refusals \in [Families -> Nat]

(* However rate limits, server errors and redirects alternate, a call puts  *)
(* a bounded number of requests on the wire: one attempt more than the      *)
(* larger retry budget, each with its redirects.                            *)
WireBounded == wire <= WireLimit

(* A family is stopped only by refusals that nothing answered in between:   *)
(* no stop outlives an answer of the family.  Between calls what the client *)
(* remembers of a family is exactly what happened to it since, whatever     *)
(* retries, redirects and failures of the transport the calls went through. *)
StopIsEarned ==
    /\ \A f \in Families : Stopped(f) => refusals[f] >= policy.stop
    /\ pc = "idle" /\ policy.stop > 0 => \A f \in Families : failures[f] = refusals[f]

(* What a refusal costs is bounded: the client puts no more than the        *)
(* allowed number of refused requests in a row to a family.                 *)
RefusalsBounded == policy.stop > 0 => \A f \in Families : refusals[f] <= policy.stop

(* Every call ends: with an answer, or with the error that stopped it.      *)
CallEnds == pc # "idle" ~> pc = "idle"
=============================================================================
