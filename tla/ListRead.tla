------------------------------ MODULE ListRead ------------------------------
(***************************************************************************)
(* One list read by a Graph collector: one turn of the loop of             *)
(* run_graph_endpoints (collectors/base.py), over GraphClient.iter_pages   *)
(* and iter_items (graph.py), with the chunk files of AuditWriter          *)
(* (output.py).                                                            *)
(*                                                                         *)
(* The service decides every page when it is asked for it: how many rows   *)
(* it has, whether it is well formed, and which link follows.  The read    *)
(* may fail, be refused or loop on any page, and may be cut by a limit.    *)
(* It ends in a coverage row, which says how many rows the section holds   *)
(* and whether they are the whole list.                                    *)
(*                                                                         *)
(* Rows are numbered as the service sends them, so the rows a read has     *)
(* are told by a count.  A page of a list keeps its row count, how many of *)
(* the rows are no objects, its form and its link.                         *)
(***************************************************************************)
EXTENDS Naturals, FiniteSets

CONSTANTS
    Urls,           \* request URLs on Microsoft Graph
    First,          \* the first of them
    Foreign,        \* a link to any other host
    End,            \* no link, or a null one
    Blank,          \* a link that is an empty string: falsy, but not null
    None,           \* Python's None
    PageRows,       \* the row counts a page may have
    Asks,           \* the specs and options a list is read with
    StrictMaxPages  \* STRICT_MAX_PAGES

Links == Urls \cup {Foreign, End, Blank}
Modes == {"chunks", "bounded", "items", "strict", "single", "object"}
Bounds == (Nat \ {0}) \cup {None}

(* error_class, with every class of a failed request as one, and the two    *)
(* reasons for which a read stops by itself.                                *)
Errors  == {"next_link_refused", "incomplete_evidence", "request_failed", "client_error"}
Reasons == {"operator_limit", "pagination_not_followed"}

(* What a read is asked for.  mode is the branch run_graph_endpoints takes: *)
(*   chunks   a paged list streamed to chunk files,                         *)
(*   bounded  a paged list kept in memory, with max_rows,                   *)
(*   items    a paged list kept in memory through iter_items,               *)
(*   strict   validate_collection,                                          *)
(*   single   page = False,       object   page = False, validate_object.   *)
AskType == [mode     : Modes,
            operator : Bounds,      \* the --top limit
            sample   : Bounds,      \* sample_limit
            maxRows  : Bounds,      \* max_rows
            maxEmpty : Bounds,      \* max_empty_pages
            maxPages : Bounds,      \* GraphClient.max_pages
            probing  : BOOLEAN]     \* sampling(): a preflight or a probe

(* max_rows is read by the two bounded branches only, and always in memory; *)
(* the chunked branch has no backstop for empty pages without it.           *)
Askable(a) ==
    /\ a.mode = "bounded" => a.maxRows # None
    /\ a.mode \notin {"chunks", "bounded"} => a.maxRows = None
    /\ a.maxRows = None => a.maxEmpty = None

ASSUME ListConstantsOk ==
    /\ First \in Urls
    /\ IsFiniteSet(Urls)
    /\ {Foreign, End, Blank} \cap Urls = {}
    /\ Foreign \notin {End, Blank}
    /\ None \notin Nat \cup Errors \cup Reasons
    /\ PageRows \subseteq Nat
    /\ Asks \subseteq AskType
    /\ \A a \in Asks : Askable(a)
    /\ StrictMaxPages \in Nat

VARIABLES
    pc,         \* request, keep, discard, close, closed or raised
    ask,        \* the read
    link,       \* what follows the pages kept so far
    visited,    \* iter_pages: the URLs requested
    page,       \* the page last served
    served,     \* rows of the pages served, as RowCount counts them
    got,        \* rows taken from them
    empties,    \* consecutive empty pages
    cut,        \* collection_truncated, as a bounded or unpaged read sets it
    reason,     \* truncation_reason, likewise
    class,      \* error_class of the exception, None without one
    files,      \* the page numbers with a chunk file on disk
    listed,     \* the page numbers the accumulator has a chunk file for
    row         \* the coverage row, None until the read is closed

vars == <<pc, ask, link, visited, page, served, got, empties, cut, reason,
          class, files, listed, row>>

(* A page without a value key, or with one that is not a list, has no rows; *)
(* strays are rows that are no objects.                                     *)
PageOk(p) == /\ p.form # "list" => p.rows = 0
             /\ p.strays <= p.rows

Pages == {p \in [form : {"list", "absent", "invalid"}, rows : PageRows,
                 strays : PageRows \cup {0}, next : Links] : PageOk(p)}

NoPage == [form |-> "absent", rows |-> 0, strays |-> 0, next |-> End]

Least(a, b) == IF a <= b THEN a ELSE b

Paged  == ask.mode \notin {"single", "object"}
Strict == ask.mode = "strict"

(* The rows a page counts for: _bounded_pages drops what is no object before *)
(* it looks at any limit, the other branches take every row.                 *)
RowCount(p) == IF ask.mode \in {"chunks", "bounded"} THEN p.rows - p.strays ELSE p.rows
Rows        == RowCount(page)

(* Falsy links end a list. *)
HasNext(p) == p.next \notin {End, Blank}

(* A sample_limit no larger than the operator's limit takes its place. *)
IsSample == ask.sample # None /\ (ask.operator = None \/ ask.sample <= ask.operator)
Limit    == IF IsSample THEN ask.sample ELSE ask.operator

Init ==
    /\ ask \in Asks
    /\ pc = "request"
    /\ link = First
    /\ visited = {}
    /\ page = NoPage
    /\ served = 0
    /\ got = 0
    /\ empties = 0
    /\ cut = FALSE
    /\ reason = None
    /\ class = None
    /\ files = {}
    /\ listed = {}
    /\ row = None

-----------------------------------------------------------------------------
(* Mutant: only strict reads are withheld. *)
WithheldAs_StrictOnly(c) == Strict

(* An exception leaves the page loop.  A strict read and a read that       *)
(* stopped as incomplete are withheld, with the chunk files they stored.   *)
WithheldAs(c) == Strict \/ c = "incomplete_evidence"

Fails(c) ==
    /\ class' = c
    /\ pc' = IF WithheldAs(c) /\ listed # {} THEN "discard" ELSE "close"

(* Mutant: repeated links are not remembered. *)
Exhausts_BudgetOnly == ask.maxPages # None /\ Cardinality(visited) >= ask.maxPages

(* A URL asked for before, or a page beyond the client's max_pages. *)
Exhausts == link \in visited \/ (ask.maxPages # None /\ Cardinality(visited) >= ask.maxPages)

(* The next link does not lead to Microsoft Graph. *)
Refuse ==
    /\ pc = "request"
    /\ link = Foreign
    /\ Fails("next_link_refused")
    /\ UNCHANGED <<ask, link, visited, page, served, got, empties, cut, reason, files, listed, row>>

StopLoop ==
    /\ pc = "request"
    /\ Paged
    /\ link \in Urls
    /\ Exhausts
    /\ Fails("incomplete_evidence")
    /\ UNCHANGED <<ask, link, visited, page, served, got, empties, cut, reason, files, listed, row>>

MayRequest == pc = "request" /\ link \in Urls /\ (Paged => ~Exhausts)

(* A request that fails for good: no answer, a refused permission, a       *)
(* status of 400 or more after the retries.                                *)
RequestFails ==
    /\ MayRequest
    /\ visited' = visited \cup {link}
    /\ Fails("request_failed")
    /\ UNCHANGED <<ask, link, page, served, got, empties, cut, reason, files, listed, row>>

Serve ==
    /\ MayRequest
    /\ \E p \in Pages :
          /\ page' = p
          /\ served' = served + RowCount(p)
    /\ visited' = visited \cup {link}
    /\ pc' = "keep"
    /\ UNCHANGED <<ask, link, got, empties, cut, reason, class, files, listed, row>>

-----------------------------------------------------------------------------
(* Malformed pages.  _validated_collection withholds any page that is not   *)
(* a list of objects with a link or none, and the page after StrictMaxPages; *)
(* validate_object withholds an answer without the object.  The other paged *)
(* reads raise on a value that is no list, and take an absent one as empty. *)
Invalid ==
    \/ /\ Strict
       /\ \/ page.form # "list" \/ page.strays > 0
          \/ page.next = Blank \/ Cardinality(visited) > StrictMaxPages
    \/ ask.mode \notin {"strict", "single"} /\ page.form = "invalid"

InvalidClass == IF Strict \/ ask.mode = "object" THEN "incomplete_evidence" ELSE "client_error"

Reject ==
    /\ pc = "keep"
    /\ Invalid
    /\ Fails(InvalidClass)
    /\ UNCHANGED <<ask, link, visited, page, served, got, empties, cut, reason, files, listed, row>>

(* The page is kept; the loop ends here, or asks for the next page. *)
Goes(stop) ==
    /\ link' = page.next
    /\ pc' = IF stop \/ ~HasNext(page) THEN "close" ELSE "request"

-----------------------------------------------------------------------------
(* _bounded_pages.  PageWindow has Limit - got rows left.  Taken is what    *)
(* the window lets through, Selected what max_rows leaves of it.            *)
Taken    == IF Limit = None THEN Rows ELSE Least(Rows, Limit - got)
Selected == IF ask.maxRows = None THEN Taken ELSE Least(Taken, ask.maxRows - got)
Empties  == IF Rows = 0 THEN empties + 1 ELSE 0

WindowExhausted == Limit # None /\ got + Taken = Limit
CeilingHit      == ask.maxRows # None /\ (Selected < Taken \/ got + Selected >= ask.maxRows)
TooManyEmpty    == ask.maxEmpty # None /\ Empties >= ask.maxEmpty /\ HasNext(page)

(* Mutant: a page that fills the limit ends the list, link or not. *)
CutHere_LinkIgnored ==
    \/ WindowExhausted /\ Taken < Rows
    \/ ~WindowExhausted /\ CeilingHit /\ (Selected < Taken \/ HasNext(page))
    \/ ~WindowExhausted /\ ~CeilingHit /\ TooManyEmpty

CutHere ==
    \/ WindowExhausted /\ (Taken < Rows \/ HasNext(page))
    \/ ~WindowExhausted /\ CeilingHit /\ (Selected < Taken \/ HasNext(page))
    \/ ~WindowExhausted /\ ~CeilingHit /\ TooManyEmpty

ReasonHere == IF WindowExhausted THEN "operator_limit" ELSE "pagination_not_followed"

PageNumber == Cardinality(visited)

KeepBounded ==
    /\ pc = "keep"
    /\ ask.mode \in {"chunks", "bounded"}
    /\ ~Invalid
    /\ got' = got + Selected
    /\ empties' = Empties
    /\ cut' = CutHere
    /\ reason' = IF CutHere THEN ReasonHere ELSE None
    /\ Goes(WindowExhausted \/ CeilingHit \/ TooManyEmpty)
    /\ IF ask.mode = "chunks" /\ Selected > 0
       THEN files' = files \cup {PageNumber} /\ listed' = listed \cup {PageNumber}
       ELSE UNCHANGED <<files, listed>>
    /\ UNCHANGED <<ask, visited, page, served, class, row>>

(* Mutant: the page is listed before its file is written. *)
TearChunk_ListedFirst ==
    /\ pc = "keep"
    /\ ask.mode = "chunks"
    /\ ~Invalid
    /\ Selected > 0
    /\ listed' = listed \cup {PageNumber}
    /\ Fails("client_error")
    /\ UNCHANGED <<ask, link, visited, page, served, got, empties, cut, reason, files, row>>

(* write_chunk_records fails half-way: the file is there, but not in the    *)
(* accumulator.                                                             *)
TearChunk ==
    /\ pc = "keep"
    /\ ask.mode = "chunks"
    /\ ~Invalid
    /\ Selected > 0
    /\ files' = files \cup {PageNumber}
    /\ Fails("client_error")
    /\ UNCHANGED <<ask, link, visited, page, served, got, empties, cut, reason, listed, row>>

(* iter_items with a probe: it yields Limit + 1 rows, and returns when the  *)
(* page has one more.                                                       *)
Probed == IF Limit = None THEN Rows ELSE Least(Rows, Limit + 1 - got)

KeepItems ==
    /\ pc = "keep"
    /\ ask.mode = "items"
    /\ ~Invalid
    /\ got' = got + Probed
    /\ Goes(Probed < Rows)
    /\ UNCHANGED <<ask, visited, page, served, empties, cut, reason, class, files, listed, row>>

KeepStrict ==
    /\ pc = "keep"
    /\ Strict
    /\ ~Invalid
    /\ got' = got + Rows
    /\ Goes(FALSE)
    /\ UNCHANGED <<ask, visited, page, served, empties, cut, reason, class, files, listed, row>>

(* A read that is not paged takes one answer as it is.  If it is a list     *)
(* with a link, the rows after it are not read.                             *)
KeepSingle ==
    /\ pc = "keep"
    /\ ~Paged
    /\ ~Invalid
    /\ got' = got + Rows
    /\ cut' = (ask.mode = "single" /\ page.form = "list" /\ HasNext(page))
    /\ reason' = IF cut' THEN "pagination_not_followed" ELSE None
    /\ Goes(TRUE)
    /\ UNCHANGED <<ask, visited, page, served, empties, class, files, listed, row>>

-----------------------------------------------------------------------------
(* discard_chunk_records removes the stored chunks one by one. *)
Discard ==
    /\ pc = "discard"
    /\ \E n \in listed :
          /\ \A m \in listed : n <= m
          /\ files' = files \ {n}
          /\ listed' = listed \ {n}
    /\ pc' = IF listed' = {} THEN "close" ELSE "discard"
    /\ UNCHANGED <<ask, link, visited, page, served, got, empties, cut, reason, class, row>>

(* A chunk cannot be removed: the exception leaves run_graph_endpoints, and *)
(* CollectorRunner records the collector as crashed.                        *)
DiscardFails ==
    /\ pc = "discard"
    /\ pc' = "raised"
    /\ UNCHANGED <<ask, link, visited, page, served, got, empties, cut, reason, class, files, listed, row>>

Failed   == class # None
Withheld == Failed /\ WithheldAs(class)

(* Mutant: the probe row is counted. *)
ItemCount_ProbeKept ==
    IF Withheld \/ ask.mode = "object" THEN 0
    ELSE IF ask.mode \in {"bounded", "strict"} /\ Limit # None THEN Least(got, Limit)
    ELSE got

ItemCount ==
    IF Withheld \/ ask.mode = "object" THEN 0
    ELSE IF ask.mode \in {"items", "bounded", "strict"} /\ Limit # None THEN Least(got, Limit)
    ELSE got

(* collection_truncated, and the truncation_reason of a read it is true of. *)
Truncated ==
    \/ Failed /\ Paged /\ ItemCount > 0
    \/ ~Failed /\ ask.mode \in {"items", "strict"} /\ Limit # None /\ got > Limit
    \/ ~Failed /\ ask.mode \notin {"items", "strict"} /\ cut

TruncationReason ==
    IF class = "next_link_refused" THEN class
    ELSE IF Failed THEN "pagination_failed"
    ELSE IF ask.mode \in {"items", "strict"} THEN "operator_limit"
    ELSE reason

(* Mutant: any cut of a sampled read is one of the sample. *)
BoundedSample_AnyReason == Paged /\ Truncated /\ (IsSample \/ ask.probing)

(* A cut at a bound the collector chose is not a gap. *)
BoundedSample ==
    Paged /\ Truncated /\ TruncationReason = "operator_limit" /\ (IsSample \/ ask.probing)

IsGap == Truncated /\ ~BoundedSample

Status ==
    IF IsGap /\ TruncationReason \in Reasons THEN "partial"
    ELSE IF Failed THEN "failed" ELSE "ok"

CoverageRow ==
    [status  |-> Status,
     class   |-> class,
     count   |-> ItemCount,
     gap     |-> IsGap,
     bounded |-> BoundedSample,
     second  |-> Strict /\ Failed]    \* the derived incomplete_evidence row

Close ==
    /\ pc = "close"
    /\ row' = CoverageRow
    /\ pc' = "closed"
    /\ UNCHANGED <<ask, link, visited, page, served, got, empties, cut, reason, class, files, listed>>

Next ==
    \/ Refuse \/ StopLoop \/ RequestFails \/ Serve
    \/ Reject \/ KeepBounded \/ TearChunk \/ KeepItems \/ KeepStrict \/ KeepSingle
    \/ Discard \/ DiscardFails \/ Close

Spec == Init /\ [][Next]_vars

(* Every request ends, with an answer or at its timeout, and the loop is    *)
(* sequential code.                                                         *)
FairSpec == Spec /\ WF_vars(Next)
-----------------------------------------------------------------------------
RowType == [status : {"ok", "partial", "failed"}, class : Errors \cup {None}, count : Nat,
            gap : BOOLEAN, bounded : BOOLEAN, second : BOOLEAN]

Closed == pc = "closed"

(* The variables hold what the code's variables hold: counts, page numbers  *)
(* of run_graph_endpoints, and a coverage row exactly when it is written.   *)
TypeOK ==
    /\ pc \in {"request", "keep", "discard", "close", "closed", "raised"}
    /\ ask \in Asks
    /\ link \in Links
    /\ visited \in SUBSET Urls
    /\ page \in Pages \cup {NoPage}
    /\ served \in Nat /\ got \in Nat /\ empties \in Nat
    /\ cut \in BOOLEAN
    /\ reason \in Reasons \cup {None}
    /\ class \in Errors \cup {None}
    /\ listed \subseteq files /\ files \subseteq Nat
    /\ IF Closed THEN row \in RowType ELSE row = None

(* The section has every row of the pages served, and no page is missing.   *)
(* In a bounded read that is every object: a row that is none is malformed, *)
(* and is dropped with no mark.                                             *)
Whole == row.count = served /\ link \in {End, Blank}

(* The read is one of a list: an unpaged answer may be a single object. *)
Lists == Paged \/ (ask.mode = "single" /\ page.form = "list")

(* The ceiling of the spec stands below the row limit in force.             *)
CeilingBelowLimit == ask.maxRows # None /\ Limit # None /\ ask.maxRows < Limit

(* A row that says nothing against its list stands on the whole list.       *)
Clean == row.status = "ok" /\ ~row.gap /\ ~row.bounded

(* run_graph_endpoints, docs/reference/output-contract.md:1026: a list that *)
(* stops before its last row is a gap, never a silent pass.                 *)
NeverSilent == Closed /\ Lists /\ Clean => Whole

(* What the code does of NeverSilent: a row that is ok, and neither a gap   *)
(* nor a bounded sample, has every row of every page, the last page         *)
(* included, whatever limits, failures, empty pages and links came, unless  *)
(* max_rows is smaller than the row limit.  And nothing is said against a   *)
(* list that was read to its last row (record_truncation; a rule that reads *)
(* the list is not judged, so a false mark loses a verdict).                *)
CleanIsWhole ==
    Closed /\ Lists =>
        /\ Clean /\ ~CeilingBelowLimit => Whole
        /\ Whole => Clean

(* A withheld section (a strict read that failed, a loop, a page budget)    *)
(* keeps no row, in memory or in a chunk file, and shows as incomplete      *)
(* evidence: in its row or in the second one (the except branch of          *)
(* run_graph_endpoints with discard_chunk_records).                         *)
WithheldIsGone ==
    Closed /\ ((Strict /\ row.class # None) \/ row.class = "incomplete_evidence") =>
        /\ row.status = "failed" /\ row.count = 0 /\ ~row.gap
        /\ files = {}
        /\ row.second \/ row.class = "incomplete_evidence"

(* A sample that is accepted as complete enough was read without an error   *)
(* and up to its bound: every bounded sample has exactly Limit rows, so a   *)
(* failed or refused page, or the safety ceiling, never passes for one.     *)
SampleIsFull ==
    Closed /\ row.bounded /\ ~CeilingBelowLimit =>
        row.status = "ok" /\ row.class = None /\ row.count = Limit

(* No section has more rows than the limit in force or the ceiling allow,   *)
(* also when the read failed after the probe row was read.                  *)
LimitsKept ==
    Closed /\ Paged =>
        /\ Limit # None => row.count <= Limit
        /\ ask.maxRows # None => row.count <= ask.maxRows

(* Every list read ends, with its coverage row or with the exception of a   *)
(* failed discard, also over links that loop and pages that stay empty      *)
(* (iter_pages, _bounded_pages).                                            *)
ReadEnds == <>(pc \in {"closed", "raised"})
=============================================================================
