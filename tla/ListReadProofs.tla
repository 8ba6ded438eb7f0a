--------------------------- MODULE ListReadProofs ---------------------------
(***************************************************************************)
(* What a coverage row says of its list is true for lists of any length,   *)
(* any limits and any number of pages.                                     *)
(***************************************************************************)
EXTENDS ListRead, FiniteSetTheorems, WellFoundedInduction, TLAPS

Bounded == ask.mode \in {"chunks", "bounded"}
Items   == ask.mode = "items"

-----------------------------------------------------------------------------
(* The bounds in force are positive numbers, or absent. *)

\* A limit is the operator's or the sample's, both of them bounds.
LEMMA BoundsOfAsk ==
    ASSUME TypeOK
    PROVE  /\ ask \in AskType /\ Askable(ask)
           /\ Limit \in Bounds /\ ask.maxRows \in Bounds
           /\ ask.maxEmpty \in Bounds
<1>1. ask \in AskType /\ Askable(ask)
  BY ListConstantsOk DEF TypeOK
<1>2. ask.operator \in Bounds /\ ask.sample \in Bounds
  BY <1>1 DEF AskType
<1>3. Limit \in Bounds
  BY <1>2 DEF Limit
<1> QED BY <1>1, <1>3 DEF AskType

\* Pages are counted (enumerate in _bounded_pages).
LEMMA PageNumbers ==
    ASSUME TypeOK
    PROVE  PageNumber \in Nat
<1>1. IsFiniteSet(visited)
  BY ListConstantsOk, FS_Subset DEF TypeOK
<1> QED BY <1>1, FS_CardinalityType DEF PageNumber

\* The rows of a page that count are a number (_bounded_pages, page_values).
LEMMA RowCountIsNat ==
    ASSUME NEW p \in Pages
    PROVE  RowCount(p) \in Nat
<1>1. p.rows \in PageRows /\ p.strays \in PageRows \cup {0} /\ p.strays <= p.rows
  BY DEF Pages, PageOk
<1>2. PageRows \subseteq Nat /\ PageRows \cup {0} \subseteq Nat
  <2>1. PageRows \subseteq Nat
    BY ListConstantsOk
  <2> QED BY <2>1
<1>3. p.rows \in Nat
  BY <1>1, <1>2
<1>4. p.strays \in Nat
  BY <1>1, <1>2
<1>5. p.rows - p.strays \in Nat
  BY <1>1, <1>3, <1>4
<1> QED BY <1>3, <1>5 DEF RowCount

\* A page has a number of rows and a link.
LEMMA PageOfType ==
    ASSUME TypeOK
    PROVE  Rows \in Nat /\ page.next \in Links /\ page.form \in {"list", "absent", "invalid"}
<1>1. page \in Pages \cup {NoPage}
  BY DEF TypeOK
<1>2. CASE page \in Pages
  BY <1>2, RowCountIsNat DEF Pages, Rows
<1>3. CASE page = NoPage
  BY <1>3 DEF NoPage, Links, Rows, RowCount
<1> QED BY <1>1, <1>2, <1>3

-----------------------------------------------------------------------------
(* The inductive invariant, one part per fact. *)

\* While pages are read nothing has failed or been cut, every stored chunk
\* is listed, and rows are left under every bound.
ReadHolds ==
    pc \in {"request", "keep"} =>
        /\ class = None /\ ~cut /\ files = listed
        /\ link \in Urls \cup {Foreign}
        /\ ~Paged => got = 0
        /\ Bounded /\ Limit # None => got < Limit
        /\ Bounded /\ ask.maxRows # None => got < ask.maxRows

\* The rows taken are those served, but for the page being kept.
RowsHold ==
    /\ pc = "request" => served = got
    /\ pc = "keep" => served = got + Rows /\ link \in Urls /\ page \in Pages
    /\ got <= served

\* No mode takes more rows than its bounds, the probe row included.
TakenHolds ==
    /\ Items /\ Limit # None => got <= Limit + 1
    /\ Bounded /\ Limit # None => got <= Limit
    /\ Bounded /\ ask.maxRows # None => got <= ask.maxRows

\* Only the chunked branch stores chunks, and what an exception withholds
\* is removed before the row is written.
ChunksHold ==
    /\ listed \subseteq files
    /\ files # {} => ask.mode = "chunks"
    /\ Withheld => files = listed
    /\ Withheld /\ pc \in {"close", "closed"} => listed = {}
    /\ pc \in {"discard", "raised"} => Withheld

\* A read that failed stopped before a page it has not kept.
FailedHolds == class # None => link \in Urls \cup {Foreign}

\* A read that ended by itself knows whether rows or pages are missing.
Ended == link \in {End, Blank}

BoundedEnd ==
    /\ cut => (got < served \/ ~Ended) /\ reason \in Reasons
    /\ cut /\ reason = "operator_limit" => Limit # None
    /\ cut /\ reason = "operator_limit" /\ ~CeilingBelowLimit => got = Limit
    /\ ~cut /\ ~CeilingBelowLimit => got = served /\ Ended

UnpagedEnd ==
    /\ got = served
    /\ cut => ask.mode = "single" /\ reason = "pagination_not_followed" /\ ~Ended
    /\ ask.mode = "single" /\ page.form = "list" /\ ~cut => Ended

EndHolds ==
    pc \in {"close", "closed"} /\ class = None =>
        /\ Bounded => BoundedEnd
        /\ Items /\ (Limit = None \/ got <= Limit) => got = served /\ Ended
        /\ Strict => got = served /\ Ended
        /\ ~Paged => UnpagedEnd

\* The row is the one the read ended with.
RowHolds == Closed => row = CoverageRow

IInv == /\ TypeOK /\ ReadHolds /\ RowsHold /\ TakenHolds
        /\ ChunksHold /\ FailedHolds /\ EndHolds /\ RowHolds
-----------------------------------------------------------------------------
(* What a step adds to the rows taken. *)

\* PageWindow.take and the ceiling leave a number of rows of the page, and
\* together with those taken before, no more than either allows.
LEMMA SelectedInBounds ==
    ASSUME TypeOK, ReadHolds, pc = "keep", Bounded
    PROVE  /\ Taken \in Nat /\ Selected \in Nat
           /\ Selected <= Taken /\ Taken <= Rows
           /\ Limit # None => got + Taken <= Limit
           /\ ask.maxRows # None => got + Selected <= ask.maxRows
           /\ ask.maxRows = None => Selected = Taken
<1>1. Rows \in Nat /\ got \in Nat
  BY PageOfType DEF TypeOK
<1>2. /\ Limit # None => Limit \in Nat /\ got < Limit
      /\ ask.maxRows # None => ask.maxRows \in Nat /\ got < ask.maxRows
  BY BoundsOfAsk DEF Bounds, ReadHolds
<1>3. /\ Taken \in Nat /\ Taken <= Rows
      /\ Limit # None => got + Taken <= Limit
  BY <1>1, <1>2 DEF Taken, Least
<1> QED BY <1>1, <1>2, <1>3 DEF Selected, Least

\* iter_items yields at most one row more than the limit.
LEMMA ProbedInBounds ==
    ASSUME TypeOK, TakenHolds, pc = "keep", Items
    PROVE  /\ Probed \in Nat /\ Probed <= Rows
           /\ Limit # None => Limit \in Nat /\ got + Probed <= Limit + 1
           /\ Limit = None => Probed = Rows
           /\ Limit # None /\ Probed < Rows => got + Probed = Limit + 1
<1>1. Rows \in Nat /\ got \in Nat
  BY PageOfType DEF TypeOK
<1>2. Limit # None => Limit \in Nat /\ got <= Limit + 1
  BY BoundsOfAsk DEF Bounds, TakenHolds
<1> QED BY <1>1, <1>2 DEF Probed, Least

-----------------------------------------------------------------------------
\* The row has a status, a class, a count and three flags.
LEMMA RowOfType ==
    ASSUME TypeOK
    PROVE  CoverageRow \in RowType
<1>1. ItemCount \in Nat
  <2>1. Limit = None \/ Limit \in Nat
    BY BoundsOfAsk DEF Bounds
  <2>2. got \in Nat
    BY DEF TypeOK
  <2> QED BY <2>1, <2>2 DEF ItemCount, Least
<1>2. Truncated \in BOOLEAN
  BY DEF Truncated, TypeOK, Failed, Paged
<1>3. BoundedSample \in BOOLEAN /\ IsGap \in BOOLEAN
  BY <1>2 DEF BoundedSample, IsGap
<1>4. Status \in {"ok", "partial", "failed"}
  BY DEF Status
<1> QED BY <1>1, <1>3, <1>4 DEF CoverageRow, RowType, TypeOK, Strict, Failed

\* Type correctness is kept by every step.
LEMMA TypeStep ==
    ASSUME TypeOK, ReadHolds, TakenHolds, Next
    PROVE  TypeOK'
<1> USE ListConstantsOk
<1>1. CASE Refuse
  BY <1>1 DEF Refuse, Fails, TypeOK, Closed, Errors
<1>2. CASE StopLoop
  BY <1>2 DEF StopLoop, Fails, TypeOK, Closed, Errors
<1>3. CASE RequestFails
  BY <1>3 DEF RequestFails, MayRequest, Fails, TypeOK, Closed, Errors
<1>4. CASE Serve
  <2>1. PICK p \in Pages : page' = p /\ served' = served + RowCount(p)
    BY <1>4 DEF Serve
  <2>2. RowCount(p) \in Nat
    BY RowCountIsNat
  <2> QED BY <1>4, <2>1, <2>2 DEF Serve, MayRequest, TypeOK, Closed
<1>5. CASE Reject
  BY <1>5 DEF Reject, Fails, InvalidClass, TypeOK, Closed, Errors
<1>6. CASE KeepBounded
  <2>1. Rows \in Nat /\ page.next \in Links /\ PageNumber \in Nat
    BY PageOfType, PageNumbers
  <2>2. got' \in Nat
    <3>1. pc = "keep" /\ Bounded
      BY <1>6 DEF KeepBounded, Bounded
    <3> QED BY <1>6, <3>1, SelectedInBounds DEF KeepBounded, TypeOK
  <2>3. empties' \in Nat
    BY <1>6 DEF KeepBounded, Empties, TypeOK
  <2>4. cut' \in BOOLEAN /\ reason' \in Reasons \cup {None}
    BY <1>6 DEF KeepBounded, CutHere, ReasonHere, Reasons
  <2>5. listed' \subseteq files' /\ files' \subseteq Nat
    BY <1>6, <2>1 DEF KeepBounded, TypeOK
  <2>6. link' \in Links /\ pc' \in {"close", "request"}
    BY <1>6, <2>1 DEF KeepBounded, Goes
  <2> QED BY <1>6, <2>2, <2>3, <2>4, <2>5, <2>6 DEF KeepBounded, TypeOK, Closed
<1>7. CASE TearChunk
  BY <1>7, PageNumbers DEF TearChunk, Fails, TypeOK, Closed, Errors
<1>8. CASE KeepItems
  <2>1. got' \in Nat /\ link' \in Links
    BY <1>8, ProbedInBounds, PageOfType DEF KeepItems, Goes, TypeOK, Items
  <2> QED BY <1>8, <2>1 DEF KeepItems, Goes, TypeOK, Closed
<1>9. CASE KeepStrict
  <2>1. got' \in Nat /\ link' \in Links
    BY <1>9, PageOfType DEF KeepStrict, Goes, TypeOK
  <2> QED BY <1>9, <2>1 DEF KeepStrict, Goes, TypeOK, Closed
<1>10. CASE KeepSingle
  <2>1. got' \in Nat /\ link' \in Links
    BY <1>10, PageOfType DEF KeepSingle, Goes, TypeOK
  <2>2. cut' \in BOOLEAN /\ reason' \in Reasons \cup {None}
    BY <1>10 DEF KeepSingle, Reasons
  <2> QED BY <1>10, <2>1, <2>2 DEF KeepSingle, Goes, TypeOK, Closed
<1>11. CASE Discard
  BY <1>11 DEF Discard, TypeOK, Closed
<1>12. CASE DiscardFails
  BY <1>12 DEF DiscardFails, TypeOK, Closed
<1>13. CASE Close
  BY <1>13, RowOfType DEF Close, TypeOK, Closed
<1> QED BY <1>1, <1>2, <1>3, <1>4, <1>5, <1>6, <1>7, <1>8, <1>9, <1>10, <1>11, <1>12, <1>13
     DEF Next
-----------------------------------------------------------------------------
(* The steps that leave the page loop by an exception. *)

StepFails == Refuse \/ StopLoop \/ RequestFails \/ Reject \/ TearChunk

\* An exception is raised while pages are read, keeps what was taken, and
\* leaves the link of the page that is not kept.
LEMMA FailedStep ==
    ASSUME TypeOK, ReadHolds, RowsHold, StepFails
    PROVE  /\ class' \in Errors /\ class' # None
           /\ pc \in {"request", "keep"} /\ pc' \in {"discard", "close"}
           /\ pc' = "discard" <=> WithheldAs(class') /\ listed # {}
           /\ link' \in Urls \cup {Foreign}
           /\ UNCHANGED <<ask, link, page, served, got, cut, reason, listed, row>>
<1> USE ListConstantsOk DEF Fails, Errors
<1>1. CASE Refuse
  BY <1>1 DEF Refuse
<1>2. CASE StopLoop
  BY <1>2 DEF StopLoop
<1>3. CASE RequestFails
  BY <1>3 DEF RequestFails, MayRequest
<1>4. CASE Reject
  BY <1>4 DEF Reject, InvalidClass, RowsHold
<1>5. CASE TearChunk
  BY <1>5 DEF TearChunk, RowsHold
<1> QED BY <1>1, <1>2, <1>3, <1>4, <1>5 DEF StepFails

\* Which step it is decides what part of the invariant it disturbs.
LEMMA StepKinds ==
    ASSUME Next
    PROVE  StepFails \/ Serve \/ KeepBounded \/ KeepItems \/ KeepStrict \/ KeepSingle
           \/ Discard \/ DiscardFails \/ Close
BY DEF Next, StepFails

-----------------------------------------------------------------------------
\* ReadHolds is kept: a page that leaves no rows under a bound ends the loop.
LEMMA ReadStep ==
    ASSUME TypeOK, ReadHolds, RowsHold, Next
    PROVE  ReadHolds'
<1> USE DEF ReadHolds, Paged, Bounded
<1>1. CASE StepFails
  BY <1>1, FailedStep
<1>2. CASE Serve
  BY <1>2 DEF Serve, MayRequest, Limit, IsSample
<1>3. CASE KeepBounded
  <2>1. pc = "keep" /\ Bounded /\ pc' \in {"request", "close"} /\ got' = got + Selected
    BY <1>3 DEF KeepBounded, Goes
  <2>2. pc' = "request" =>
           /\ ~WindowExhausted /\ ~CeilingHit /\ ~TooManyEmpty /\ HasNext(page)
           /\ ~cut'
    BY <1>3 DEF KeepBounded, Goes, CutHere
  <2>3. pc' = "request" => link' \in Urls \cup {Foreign}
    BY <1>3, <2>2, PageOfType DEF KeepBounded, Goes, HasNext, Links
  <2>4. files' = listed' /\ class' = None
    BY <1>3 DEF KeepBounded
  <2>5. pc' = "request" => /\ Limit # None => got + Selected < Limit
                           /\ ask.maxRows # None => got + Selected < ask.maxRows
    <3>1. got \in Nat /\ (Limit # None => Limit \in Nat) /\ (ask.maxRows # None => ask.maxRows \in Nat)
      BY BoundsOfAsk DEF TypeOK, Bounds
    <3> QED BY <2>1, <2>2, <3>1, SelectedInBounds DEF WindowExhausted, CeilingHit
  <2>6. UNCHANGED ask
    BY <1>3 DEF KeepBounded
  <2>7. Limit' = Limit
    BY <2>6 DEF Limit, IsSample
  <2> QED BY <2>1, <2>2, <2>3, <2>4, <2>5, <2>6, <2>7
<1>4. CASE KeepItems
  BY <1>4, PageOfType DEF KeepItems, Goes, HasNext, Links
<1>5. CASE KeepStrict
  BY <1>5, PageOfType DEF KeepStrict, Strict, Goes, HasNext, Links
<1>6. CASE KeepSingle
  BY <1>6 DEF KeepSingle, Goes
<1>7. CASE Discard
  BY <1>7 DEF Discard
<1>8. CASE DiscardFails
  BY <1>8 DEF DiscardFails
<1>9. CASE Close
  BY <1>9 DEF Close
<1> QED BY StepKinds, <1>1, <1>2, <1>3, <1>4, <1>5, <1>6, <1>7, <1>8, <1>9

\* RowsHold is kept: a loop that goes on has kept the whole page.
LEMMA RowsStep ==
    ASSUME TypeOK, ReadHolds, RowsHold, TakenHolds, Next
    PROVE  RowsHold'
<1> USE DEF RowsHold
<1>1. CASE StepFails
  BY <1>1, FailedStep
<1>2. CASE Serve
  <2>1. PICK p \in Pages : page' = p /\ served' = served + RowCount(p)
    BY <1>2 DEF Serve
  <2>2. RowCount(p) \in Nat /\ Rows' = RowCount(p)
    BY <1>2, <2>1, RowCountIsNat DEF Serve, Rows, RowCount
  <2> QED BY <1>2, <2>1, <2>2 DEF Serve, MayRequest, TypeOK
<1>3. CASE KeepBounded
  <2>1. pc = "keep" /\ Bounded /\ got' = got + Selected /\ served' = served
        /\ pc' \in {"request", "close"}
    BY <1>3 DEF KeepBounded, Goes, Bounded
  <2>2. pc' = "request" => ~WindowExhausted /\ ~CeilingHit
    BY <1>3 DEF KeepBounded, Goes
  <2>3. Rows \in Nat /\ got \in Nat /\ Selected \in Nat /\ Taken \in Nat
        /\ Selected <= Taken /\ Taken <= Rows
        /\ (ask.maxRows = None => Selected = Taken)
    BY <2>1, SelectedInBounds, PageOfType DEF TypeOK
  <2>4. ~WindowExhausted => Taken = Rows
    <3>1. (Limit # None => Limit \in Nat /\ got < Limit)
      BY <2>1, BoundsOfAsk DEF ReadHolds, Bounds
    <3> QED BY <2>3, <3>1 DEF WindowExhausted, Taken, Least
  <2>5. ~CeilingHit => Selected = Taken
    BY <2>3 DEF CeilingHit
  <2> QED BY <2>1, <2>2, <2>3, <2>4, <2>5
<1>4. CASE KeepItems
  <2>1. pc = "keep" /\ Items /\ got' = got + Probed /\ served' = served
        /\ pc' \in {"request", "close"}
        /\ (pc' = "request" => ~(Probed < Rows))
    BY <1>4 DEF KeepItems, Goes, Items
  <2> QED BY <2>1, ProbedInBounds, PageOfType DEF TypeOK
<1>5. CASE KeepStrict
  BY <1>5, PageOfType DEF KeepStrict, Goes, TypeOK
<1>6. CASE KeepSingle
  BY <1>6, PageOfType DEF KeepSingle, Goes, TypeOK
<1>7. CASE Discard
  BY <1>7 DEF Discard
<1>8. CASE DiscardFails
  BY <1>8 DEF DiscardFails
<1>9. CASE Close
  BY <1>9 DEF Close
<1> QED BY StepKinds, <1>1, <1>2, <1>3, <1>4, <1>5, <1>6, <1>7, <1>8, <1>9

\* TakenHolds is kept.
LEMMA TakenStep ==
    ASSUME TypeOK, ReadHolds, RowsHold, TakenHolds, Next
    PROVE  TakenHolds'
<1> USE DEF TakenHolds
<1>a. (Items <=> Items') /\ (Bounded <=> Bounded') /\ Limit' = Limit /\ ask' = ask
  <2>1. ask' = ask
    BY DEF Next, Refuse, StopLoop, RequestFails, Serve, Reject, KeepBounded, TearChunk,
           KeepItems, KeepStrict, KeepSingle, Discard, DiscardFails, Close
  <2> QED BY <2>1 DEF Items, Bounded, Limit, IsSample
<1>1. CASE KeepBounded
  <2>1. pc = "keep" /\ Bounded /\ ~Items /\ got' = got + Selected
    BY <1>1 DEF KeepBounded, Bounded, Items
  <2>2. (Limit # None => Limit \in Nat) /\ got \in Nat
    BY BoundsOfAsk DEF Bounds, TypeOK
  <2> QED BY <1>a, <2>1, <2>2, SelectedInBounds
<1>2. CASE KeepItems
  <2>1. pc = "keep" /\ Items /\ ~Bounded /\ got' = got + Probed
    BY <1>2 DEF KeepItems, Bounded, Items
  <2> QED BY <1>a, <2>1, ProbedInBounds
<1>3. CASE KeepStrict \/ KeepSingle
  BY <1>a, <1>3 DEF KeepStrict, KeepSingle, Strict, Paged, Items, Bounded
<1>4. CASE ~(KeepBounded \/ KeepItems \/ KeepStrict \/ KeepSingle)
  <2>1. got' = got
    BY <1>4 DEF Next, Refuse, StopLoop, RequestFails, Serve, Reject, TearChunk, Discard,
                DiscardFails, Close
  <2> QED BY <1>a, <2>1
<1> QED BY <1>1, <1>2, <1>3, <1>4

\* No step changes what the read was asked for.
LEMMA AskFixed ==
    ASSUME Next
    PROVE  /\ ask' = ask
           /\ Limit' = Limit /\ IsSample' = IsSample
           /\ (CeilingBelowLimit' <=> CeilingBelowLimit)
           /\ (Paged' <=> Paged) /\ (Strict' <=> Strict)
           /\ (Items' <=> Items) /\ (Bounded' <=> Bounded)
<1>1. ask' = ask
  BY DEF Next, Refuse, StopLoop, RequestFails, Serve, Reject, KeepBounded, TearChunk,
         KeepItems, KeepStrict, KeepSingle, Discard, DiscardFails, Close
<1> QED BY <1>1 DEF Limit, IsSample, CeilingBelowLimit, Paged, Strict, Items, Bounded

\* ChunksHold is kept: what is discarded is what was stored.
LEMMA ChunksStep ==
    ASSUME TypeOK, ReadHolds, RowsHold, ChunksHold, Next
    PROVE  ChunksHold'
<1> USE DEF ChunksHold, Withheld, Failed, WithheldAs
<1>a. ask' = ask /\ (Strict' <=> Strict)
  BY AskFixed
<1>b. Strict => files = {}
  BY DEF Strict
<1>1. CASE StepFails
  <2>1. CASE TearChunk
    <3>1. class' = "client_error" /\ ~Strict /\ ask.mode = "chunks"
          /\ files' = files \cup {PageNumber} /\ listed' = listed /\ pc' = "close"
      BY <2>1 DEF TearChunk, Fails, Strict
    <3> QED BY <1>a, <3>1
  <2>2. CASE ~TearChunk
    <3>1. files' = files
      BY <1>1, <2>2 DEF StepFails, Refuse, StopLoop, RequestFails, Reject
    <3>2. files = listed /\ class = None
      BY <1>1, FailedStep DEF ReadHolds
    <3> QED BY <1>1, <1>a, <3>1, <3>2, FailedStep
  <2> QED BY <2>1, <2>2
<1>2. CASE Serve
  BY <1>2, <1>a DEF Serve, MayRequest, ReadHolds
<1>3. CASE KeepBounded
  BY <1>3, <1>a DEF KeepBounded, Goes, ReadHolds
<1>4. CASE KeepItems
  BY <1>4, <1>a DEF KeepItems, Goes, ReadHolds
<1>5. CASE KeepStrict
  BY <1>5, <1>a DEF KeepStrict, Goes, ReadHolds
<1>6. CASE KeepSingle
  BY <1>6, <1>a DEF KeepSingle, Goes, ReadHolds
<1>7. CASE Discard
  <2>1. Withheld /\ files = listed
    BY <1>7 DEF Discard
  <2>2. files' = listed' /\ (files' # {} => files # {}) /\ UNCHANGED <<ask, class>>
        /\ pc' \in {"close", "discard"} /\ (pc' = "close" => listed' = {})
    BY <1>7, <2>1 DEF Discard
  <2> QED BY <2>1, <2>2, <1>a
<1>8. CASE DiscardFails
  BY <1>8, <1>a DEF DiscardFails
<1>9. CASE Close
  BY <1>9, <1>a DEF Close
<1> QED BY StepKinds, <1>1, <1>2, <1>3, <1>4, <1>5, <1>6, <1>7, <1>8, <1>9

\* FailedHolds is kept: no step after an exception moves the link.
LEMMA FailedLinkStep ==
    ASSUME TypeOK, ReadHolds, RowsHold, ChunksHold, FailedHolds, Next
    PROVE  FailedHolds'
<1> USE DEF FailedHolds
<1>1. CASE StepFails
  BY <1>1, FailedStep
<1>2. CASE Serve \/ KeepBounded \/ KeepItems \/ KeepStrict \/ KeepSingle
  <2>1. class' = class /\ pc \in {"request", "keep"}
    BY <1>2 DEF Serve, MayRequest, KeepBounded, KeepItems, KeepStrict, KeepSingle
  <2> QED BY <2>1 DEF ReadHolds
<1>3. CASE Discard \/ DiscardFails \/ Close
  BY <1>3 DEF Discard, DiscardFails, Close
<1> QED BY StepKinds, <1>1, <1>2, <1>3

\* A bounded read that ends by itself knows what it left out.
LEMMA BoundedEndStep ==
    ASSUME TypeOK, ReadHolds, RowsHold, KeepBounded, pc' = "close"
    PROVE  BoundedEnd'
<1>1. pc = "keep" /\ Bounded /\ got' = got + Selected /\ served' = served /\ ask' = ask
      /\ link' = page.next /\ served = got + Rows /\ page \in Pages
  BY DEF KeepBounded, Goes, Bounded, RowsHold
<1>2. Limit' = Limit /\ (CeilingBelowLimit' <=> CeilingBelowLimit)
  BY <1>1 DEF Limit, IsSample, CeilingBelowLimit
<1>3. cut' = CutHere /\ reason' = IF CutHere THEN ReasonHere ELSE None
  BY DEF KeepBounded
<1>4. Ended' <=> ~HasNext(page)
  BY <1>1 DEF Ended, HasNext
<1>5. /\ Rows \in Nat /\ got \in Nat /\ Selected \in Nat /\ Taken \in Nat
      /\ Selected <= Taken /\ Taken <= Rows
      /\ ask.maxRows = None => Selected = Taken
      /\ Limit # None => Limit \in Nat /\ got < Limit
      /\ ask.maxRows # None => ask.maxRows \in Nat /\ got < ask.maxRows
  BY <1>1, SelectedInBounds, PageOfType, BoundsOfAsk DEF TypeOK, Bounds, ReadHolds
<1>6. ~WindowExhausted => Taken = Rows
  BY <1>5 DEF WindowExhausted, Taken, Least
<1>7. WindowExhausted /\ ~CeilingBelowLimit => Selected = Taken
  BY <1>5 DEF WindowExhausted, CeilingBelowLimit, Selected, Least
<1>8. cut' => (got' < served' \/ ~Ended') /\ reason' \in Reasons
  <2>1. CutHere => Selected < Rows \/ HasNext(page)
    BY <1>5 DEF CutHere, TooManyEmpty
  <2>2. ReasonHere \in Reasons
    BY DEF ReasonHere, Reasons
  <2> QED BY <1>1, <1>3, <1>4, <1>5, <2>1, <2>2
<1>9. cut' /\ reason' = "operator_limit" => WindowExhausted
  BY <1>3 DEF ReasonHere
<1>10. ~CutHere /\ ~CeilingBelowLimit => Selected = Rows /\ ~HasNext(page)
  <2>1. CASE WindowExhausted
    BY <2>1, <1>5, <1>7 DEF CutHere
  <2>2. CASE ~WindowExhausted /\ CeilingHit
    BY <2>2, <1>5, <1>6 DEF CutHere
  <2>3. CASE ~WindowExhausted /\ ~CeilingHit
    <3>1. ~CutHere => ~HasNext(page)
      BY <2>3 DEF CutHere, KeepBounded, Goes
    <3>2. Selected = Taken
      BY <2>3, <1>5 DEF CeilingHit
    <3> QED BY <3>1, <3>2, <2>3, <1>6
  <2> QED BY <2>1, <2>2, <2>3
<1>11. WindowExhausted => Limit # None /\ got + Taken = Limit
  BY DEF WindowExhausted
<1>12. cut' /\ reason' = "operator_limit" /\ ~CeilingBelowLimit => got' = Limit
  BY <1>1, <1>7, <1>9, <1>11
<1>13. ~cut' /\ ~CeilingBelowLimit => got' = served' /\ Ended'
  BY <1>1, <1>3, <1>4, <1>10
<1> QED BY <1>2, <1>8, <1>9, <1>11, <1>12, <1>13 DEF BoundedEnd

\* EndHolds is kept.
LEMMA EndStep ==
    ASSUME TypeOK, ReadHolds, RowsHold, TakenHolds, ChunksHold, EndHolds, Next
    PROVE  EndHolds'
<1>a. ask' = ask /\ Limit' = Limit /\ (CeilingBelowLimit' <=> CeilingBelowLimit)
      /\ (Paged' <=> Paged) /\ (Strict' <=> Strict) /\ (Items' <=> Items) /\ (Bounded' <=> Bounded)
  BY AskFixed
<1>1. CASE StepFails
  BY <1>1, FailedStep DEF EndHolds
<1>2. CASE Serve
  BY <1>2 DEF Serve, EndHolds
<1>3. CASE KeepBounded
  <2>1. Bounded' /\ ~Items' /\ ~Strict' /\ Paged' /\ pc' # "closed"
    BY <1>3 DEF KeepBounded, Bounded, Items, Strict, Paged, Goes
  <2> QED BY <1>3, <2>1, BoundedEndStep DEF EndHolds
<1>4. CASE KeepItems
  <2>1. Items' /\ ~Bounded' /\ ~Strict' /\ Paged'
    BY <1>4 DEF KeepItems, Bounded, Items, Strict, Paged
  <2>2. /\ pc = "keep" /\ Items /\ got' = got + Probed /\ served' = served
        /\ link' = page.next /\ served = got + Rows
        /\ pc' = "close" => Probed < Rows \/ ~HasNext(page)
        /\ pc' # "closed"
    BY <1>4 DEF KeepItems, Goes, Items, RowsHold
  <2>3. pc' = "close" /\ (Limit = None \/ got' <= Limit) => Probed = Rows /\ ~HasNext(page)
    BY <2>2, ProbedInBounds, PageOfType DEF TypeOK
  <2>4. pc' = "close" /\ (Limit = None \/ got' <= Limit) => got' = served' /\ Ended'
    BY <2>2, <2>3 DEF Ended, HasNext
  <2> QED BY <1>a, <2>1, <2>2, <2>4 DEF EndHolds
<1>5. CASE KeepStrict
  <2>1. Strict' /\ ~Bounded' /\ ~Items' /\ Paged'
    BY <1>5 DEF KeepStrict, Bounded, Items, Strict, Paged
  <2>2. pc' # "closed" /\ (pc' = "close" => got' = served' /\ Ended')
    BY <1>5 DEF KeepStrict, Goes, RowsHold, Ended, HasNext
  <2> QED BY <2>1, <2>2 DEF EndHolds
<1>6. CASE KeepSingle
  <2>1. ~Paged' /\ ~Bounded' /\ ~Items' /\ ~Strict'
    BY <1>6 DEF KeepSingle, Bounded, Items, Strict, Paged
  <2>2. UnpagedEnd'
    BY <1>6 DEF KeepSingle, Goes, RowsHold, UnpagedEnd, Ended, HasNext
  <2> QED BY <2>1, <2>2 DEF EndHolds
<1>7. CASE Discard \/ DiscardFails
  <2>1. pc = "discard" /\ class' = class
    BY <1>7 DEF Discard, DiscardFails
  <2>2. class # None
    BY <2>1 DEF ChunksHold, Withheld, Failed
  <2> QED BY <2>1, <2>2 DEF EndHolds
<1>8. CASE Close
  BY <1>8, <1>a DEF Close, EndHolds, BoundedEnd, UnpagedEnd, Ended
<1> QED BY StepKinds, <1>1, <1>2, <1>3, <1>4, <1>5, <1>6, <1>7, <1>8

\* RowHolds is kept: nothing changes after the row is written.
LEMMA RowStep ==
    ASSUME RowHolds, Next
    PROVE  RowHolds'
<1>1. CASE Close
  <2>1. row' = CoverageRow /\ UNCHANGED <<ask, got, cut, reason, class>>
    BY <1>1 DEF Close
  <2> QED BY <2>1 DEF RowHolds, CoverageRow, Status, IsGap, BoundedSample, Truncated,
            TruncationReason, ItemCount, Withheld, WithheldAs, Failed, Strict, Paged, Limit, IsSample
<1>2. CASE ~Close
  <2>1. pc' # "closed"
    BY <1>2 DEF Next, Refuse, StopLoop, RequestFails, Serve, Reject, KeepBounded, TearChunk,
         KeepItems, KeepStrict, KeepSingle, Discard, DiscardFails, Fails, Goes
  <2> QED BY <2>1 DEF RowHolds, Closed
<1> QED BY <1>1, <1>2
-----------------------------------------------------------------------------
(* The invariant holds of every read. *)

LEMMA InvariantInit ==
    ASSUME Init
    PROVE  IInv
<1> USE ListConstantsOk
<1>1. TypeOK
  BY DEF Init, TypeOK, Links, Closed
<1>2. ReadHolds
  <2>1. Limit \in Bounds /\ ask.maxRows \in Bounds
    BY <1>1, BoundsOfAsk
  <2> QED BY <2>1 DEF Init, ReadHolds, Bounds
<1>3. TakenHolds
  <2>1. Limit \in Bounds /\ ask.maxRows \in Bounds
    BY <1>1, BoundsOfAsk
  <2> QED BY <2>1 DEF Init, TakenHolds, Bounds
<1>4. RowsHold /\ ChunksHold /\ FailedHolds /\ EndHolds /\ RowHolds
  BY DEF Init, RowsHold, ChunksHold, FailedHolds, EndHolds, RowHolds, Closed, Withheld, Failed
<1> QED BY <1>1, <1>2, <1>3, <1>4 DEF IInv

LEMMA InvariantInductive ==
    ASSUME IInv, [Next]_vars
    PROVE  IInv'
<1>1. CASE Next
  BY <1>1, TypeStep, ReadStep, RowsStep, TakenStep, ChunksStep, FailedLinkStep, EndStep, RowStep
     DEF IInv
<1>2. CASE UNCHANGED vars
  <2>1. TypeOK'
    BY <1>2 DEF vars, IInv, TypeOK, Closed
  <2>2. ReadHolds' /\ RowsHold' /\ TakenHolds'
    BY <1>2 DEF vars, IInv, ReadHolds, RowsHold, TakenHolds, Paged, Bounded, Items, Limit, IsSample, Rows, RowCount
  <2>3. ChunksHold' /\ FailedHolds'
    BY <1>2 DEF vars, IInv, ChunksHold, FailedHolds, Withheld, Failed, WithheldAs, Strict
  <2>4. EndHolds'
    BY <1>2 DEF vars, IInv, EndHolds, BoundedEnd, UnpagedEnd, Ended, CeilingBelowLimit,
                Paged, Strict, Bounded, Items, Limit, IsSample
  <2>5. RowHolds'
    BY <1>2 DEF vars, IInv, RowHolds, CoverageRow, Closed, Status, IsGap, BoundedSample, Truncated,
                TruncationReason, ItemCount, Withheld, WithheldAs, Failed, Strict, Paged, Limit, IsSample
  <2> QED BY <2>1, <2>2, <2>3, <2>4, <2>5 DEF IInv
<1> QED BY <1>1, <1>2

LEMMA InvariantHolds == Spec => []IInv
BY InvariantInit, InvariantInductive, PTL DEF Spec

-----------------------------------------------------------------------------
(* What the row says, from what the read knows at its end. *)

\* The values a closed row is made of.
LEMMA ClosedRow ==
    ASSUME IInv, Closed
    PROVE  /\ row.status = Status /\ row.class = class /\ row.count = ItemCount
           /\ row.gap = IsGap /\ row.bounded = BoundedSample
           /\ row.second = (Strict /\ Failed)
BY DEF IInv, RowHolds, CoverageRow

\* A read is of one of the modes.
LEMMA ModeOfRead ==
    ASSUME TypeOK
    PROVE  ask.mode \in Modes
BY BoundsOfAsk DEF AskType

\* Every variable of a list read keeps its type: the counts stay natural
\* numbers and every listed chunk file exists (run_graph_endpoints).
THEOREM ListTypeCorrect == Spec => []TypeOK
BY InvariantHolds, PTL DEF IInv

\* A mark is only put on a list with rows or pages left.
LEMMA MarkIsOfCut ==
    ASSUME IInv, Closed, row.gap \/ row.bounded
    PROVE  ~Whole
<1> USE DEF IInv
<1>1. Truncated
  BY ClosedRow DEF IsGap, BoundedSample
<1>2. got \in Nat /\ served \in Nat /\ got <= served /\ (Limit # None => Limit \in Nat)
  BY BoundsOfAsk DEF TypeOK, Bounds, RowsHold
<1>3. row.count \in Nat /\ row.count <= got
  BY <1>2, ClosedRow DEF ItemCount, Least
<1>4. CASE Failed
  <2>1. link \in Urls \cup {Foreign}
    BY <1>4 DEF FailedHolds, Failed
  <2> QED BY <2>1, ListConstantsOk DEF Whole
<1>5. CASE ~Failed /\ ask.mode \in {"items", "strict"}
  <2>1. Limit # None /\ got > Limit
    BY <1>1, <1>5 DEF Truncated
  <2>2. row.count = Limit
    BY <1>2, <1>5, <2>1, ClosedRow DEF ItemCount, Withheld, Least
  <2> QED BY <1>2, <2>1, <2>2 DEF Whole
<1>6. CASE ~Failed /\ ask.mode \notin {"items", "strict"}
  <2>1. cut /\ class = None /\ pc = "closed"
    BY <1>1, <1>6 DEF Truncated, Failed, Closed
  <2>2. CASE Bounded
    BY <1>2, <1>3, <2>1, <2>2 DEF EndHolds, BoundedEnd, Ended, Whole
  <2>3. CASE ~Paged
    BY <2>1, <2>3 DEF EndHolds, UnpagedEnd, Ended, Whole
  <2> QED BY <1>6, <2>2, <2>3, ModeOfRead DEF Modes, Bounded, Paged
<1> QED BY <1>4, <1>5, <1>6

\* A row that is ok, no gap and no bounded sample has the whole list, and the
\* whole list leaves no other row, for lists of any length and any limits
\* (run_graph_endpoints).
THEOREM CleanReadIsWhole == Spec => []CleanIsWhole
<1>1. ASSUME IInv, Closed, Lists, Clean, ~CeilingBelowLimit PROVE Whole
  <2> USE <1>1 DEF IInv
  <2>1. ~Failed /\ ~Truncated
    BY ClosedRow DEF Clean, Status, IsGap
  <2>2. pc = "closed" /\ class = None
    BY <2>1 DEF Failed, Closed
  <2>3. got = served /\ Ended
    <3>1. CASE Bounded
      <4>1. ~cut
        BY <2>1, <3>1 DEF Truncated, Bounded
      <4> QED BY <2>2, <3>1, <4>1 DEF EndHolds, BoundedEnd
    <3>2. CASE Items \/ Strict
      <4>1. Limit = None \/ got <= Limit
        <5>1. ~(Limit # None /\ got > Limit)
          BY <2>1, <3>2 DEF Truncated, Items, Strict
        <5>2. got \in Nat /\ (Limit # None => Limit \in Nat)
          BY BoundsOfAsk DEF TypeOK, Bounds
        <5> QED BY <5>1, <5>2
      <4> QED BY <2>2, <3>2, <4>1 DEF EndHolds
    <3>3. CASE ~Paged
      <4>1. ~cut /\ ask.mode = "single" /\ page.form = "list"
        BY <2>1, <3>3 DEF Truncated, Lists, Paged
      <4> QED BY <2>2, <3>3, <4>1 DEF EndHolds, UnpagedEnd
    <3> QED BY <3>1, <3>2, <3>3, ModeOfRead DEF Modes, Bounded, Items, Strict, Paged
  <2>4. row.count = got
    <3>1. ask.mode # "object" /\ ~Withheld
      BY <2>1 DEF Lists, Paged, Withheld
    <3>2. got \in Nat /\ (Limit # None => Limit \in Nat)
      BY BoundsOfAsk DEF TypeOK, Bounds
    <3>3. ask.mode \in {"items", "bounded", "strict"} /\ Limit # None => got <= Limit
      <4>1. CASE ask.mode = "bounded"
        BY <4>1 DEF TakenHolds, Bounded
      <4>2. CASE ask.mode \in {"items", "strict"}
        BY <4>2, <2>1, <3>2 DEF Truncated
      <4> QED BY <4>1, <4>2
    <3> QED BY <3>1, <3>2, <3>3, ClosedRow DEF ItemCount, Least
  <2> QED BY <2>3, <2>4 DEF Whole, Ended
<1>2. ASSUME IInv, Closed, Whole PROVE Clean
  <2> USE <1>2 DEF IInv
  <2>1. ~Failed
    BY ListConstantsOk DEF Whole, FailedHolds, Failed
  <2>2. ~row.gap /\ ~row.bounded
    BY <1>2, MarkIsOfCut
  <2>3. row.status = "ok"
    BY <2>1, <2>2, ClosedRow DEF Status
  <2> QED BY <2>2, <2>3 DEF Clean
<1>3. IInv => CleanIsWhole
  BY <1>1, <1>2 DEF CleanIsWhole
<1> QED BY <1>3, InvariantHolds, PTL

\* A section that is withheld leaves no row and no chunk file
\* (run_graph_endpoints, discard_chunk_records).
THEOREM WithheldLeavesNothing == Spec => []WithheldIsGone
<1>1. ASSUME IInv PROVE WithheldIsGone
  <2> SUFFICES ASSUME Closed, (Strict /\ row.class # None) \/ row.class = "incomplete_evidence"
               PROVE  /\ row.status = "failed" /\ row.count = 0 /\ ~row.gap
                      /\ files = {}
                      /\ row.second \/ row.class = "incomplete_evidence"
    BY DEF WithheldIsGone
  <2> USE <1>1 DEF IInv
  <2>1. Failed /\ Withheld
    BY ListConstantsOk, ClosedRow DEF Failed, Withheld, WithheldAs, Errors
  <2>2. ItemCount = 0
    BY <2>1 DEF ItemCount
  <2>3. ~Truncated /\ ~IsGap
    BY <2>1, <2>2 DEF Truncated, IsGap
  <2>4. files = {}
    BY <2>1 DEF ChunksHold, Closed
  <2> QED BY <2>1, <2>2, <2>3, <2>4, ClosedRow DEF Status
<1> QED BY <1>1, InvariantHolds, PTL

\* No section holds more rows than its limit or its ceiling (PageWindow,
\* _bounded_pages, limit_rows).
THEOREM LimitsAreKept == Spec => []LimitsKept
<1>1. ASSUME IInv PROVE LimitsKept
  <2> SUFFICES ASSUME Closed, Paged
               PROVE  /\ Limit # None => row.count <= Limit
                      /\ ask.maxRows # None => row.count <= ask.maxRows
    BY DEF LimitsKept
  <2> USE <1>1 DEF IInv
  <2>1. /\ got \in Nat
        /\ Limit # None => Limit \in Nat
        /\ ask.maxRows # None => ask.maxRows \in Nat
        /\ Askable(ask)
    BY BoundsOfAsk DEF TypeOK, Bounds
  <2>2. ask.maxRows # None => Bounded
    BY <2>1 DEF Askable, Bounded
  <2>3. row.count = 0 \/ row.count = got \/ (Limit # None /\ row.count = Least(got, Limit))
    BY ClosedRow DEF ItemCount
  <2>4. Limit # None => row.count <= Limit
    <3>1. ASSUME Limit # None, ask.mode = "chunks" PROVE row.count <= Limit
      <4>1. got <= Limit
        BY <3>1 DEF TakenHolds, Bounded
      <4> QED BY <2>1, <3>1, <4>1, ClosedRow DEF ItemCount
    <3>2. ASSUME Limit # None, ask.mode \in {"items", "bounded", "strict"} PROVE row.count <= Limit
      <4>1. row.count = 0 \/ row.count = Least(got, Limit)
        BY <3>2, ClosedRow DEF ItemCount
      <4> QED BY <2>1, <3>2, <4>1 DEF Least
    <3> QED BY <3>1, <3>2, ModeOfRead DEF Modes, Paged
  <2>5. row.count <= got
    BY <2>1, <2>3 DEF Least
  <2>6. ask.maxRows # None => row.count <= ask.maxRows
    <3>1. row.count \in Nat
      BY <2>1, <2>3 DEF Least
    <3>2. ask.maxRows # None => got <= ask.maxRows
      BY <2>2 DEF TakenHolds
    <3> QED BY <2>1, <2>5, <3>1, <3>2
  <2> QED BY <2>4, <2>6
<1> QED BY <1>1, InvariantHolds, PTL

\* What passes for a sample was read to its bound without an error
\* (bounded_sample).
THEOREM SamplesAreFull == Spec => []SampleIsFull
<1>1. ASSUME IInv PROVE SampleIsFull
  <2> SUFFICES ASSUME Closed, row.bounded, ~CeilingBelowLimit
               PROVE  row.status = "ok" /\ row.class = None /\ row.count = Limit
    BY DEF SampleIsFull
  <2> USE <1>1 DEF IInv
  <2>1. BoundedSample /\ Paged /\ Truncated /\ TruncationReason = "operator_limit"
    BY ClosedRow DEF BoundedSample
  <2>2. ~Failed /\ ~Withheld
    BY <2>1 DEF TruncationReason, Withheld
  <2>3. row.status = "ok" /\ row.class = None
    BY <2>1, <2>2, ClosedRow DEF Status, IsGap, Failed
  <2>4. got \in Nat /\ (Limit # None => Limit \in Nat)
    BY BoundsOfAsk DEF TypeOK, Bounds
  <2>5. CASE ask.mode \in {"items", "strict"}
    <3>1. Limit # None /\ got > Limit
      BY <2>1, <2>2, <2>5 DEF Truncated
    <3> QED BY <2>2, <2>3, <2>4, <2>5, <3>1, ClosedRow DEF ItemCount, Least
  <2>6. CASE ask.mode \in {"chunks", "bounded"}
    <3>1. cut /\ reason = "operator_limit" /\ class = None /\ pc = "closed" /\ Bounded
      BY <2>1, <2>2, <2>6 DEF Truncated, TruncationReason, Failed, Closed, Bounded
    <3>2. Limit # None /\ got = Limit
      BY <3>1 DEF EndHolds, BoundedEnd
    <3> QED BY <2>2, <2>3, <2>4, <2>6, <3>2, ClosedRow DEF ItemCount, Least
  <2> QED BY <2>1, <2>5, <2>6, ModeOfRead DEF Modes, Paged
<1> QED BY <1>1, InvariantHolds, PTL

-----------------------------------------------------------------------------
(* Progress.  Under weak fairness of Next a read ends because every step    *)
(* brings it closer to its end and because no step waits for another: both  *)
(* are facts of states and steps, and proved here.                          *)

\* The steps left but for those of the pages: a page kept may store a chunk file.
StepsLeft ==
    CASE pc = "keep" -> 5 [] pc = "request" -> 3 [] pc = "discard" -> 2 [] pc = "close" -> 1
      [] pc \in {"closed", "raised"} -> 0

\* The steps a read can still take, at most: every page costs a URL not asked for yet.
Rank == 4 * Cardinality(Urls \ visited) + Cardinality(listed) + StepsLeft

\* The chunk files are finitely many, an unpaged read asks once, and an exception that
\* withholds nothing does not discard.
ProgressHolds ==
    /\ IsFiniteSet(listed)
    /\ ~Paged /\ pc = "request" => visited = {}
    /\ pc = "discard" => listed # {}

\* A set of page numbers that is not empty has a least one.
LEMMA LeastNumber ==
    ASSUME NEW S \in SUBSET Nat, S # {}
    PROVE  \E n \in S : \A m \in S : n <= m
<1> DEFINE UpTo == {0..n : n \in S}
<1>1. UpTo \subseteq FiniteSubsetsOf(Nat) /\ UpTo # {}
  <2>1. \A n \in S : 0..n \in SUBSET Nat /\ IsFiniteSet(0..n)
    BY FS_Interval
  <2> QED BY <2>1 DEF FiniteSubsetsOf
<1>2. PICK x \in UpTo : \A y \in UpTo : <<y, x>> \notin StrictSubsetOrdering(Nat)
  <2> HIDE DEF UpTo
  <2> QED BY <1>1, FS_StrictSubsetOrderingWellFounded, WFMin
<1>3. PICK n \in S : x = 0..n
  OBVIOUS
<1>4. ASSUME NEW m \in S, m < n PROVE FALSE
  <2>1. 0..m \in UpTo /\ 0..m \in SUBSET Nat /\ 0..n \in SUBSET Nat
    OBVIOUS
  <2>2. 0..m \subseteq 0..n /\ n \in 0..n /\ n \notin 0..m
    BY <1>4
  <2>3. <<0..m, x>> \in StrictSubsetOrdering(Nat)
    BY <1>3, <2>1, <2>2 DEF StrictSubsetOrdering
  <2> QED BY <1>2, <2>1, <2>3
<1> QED BY <1>4

\* ProgressHolds is kept: only an exception discards, and only what is listed.
LEMMA ProgressStep ==
    ASSUME TypeOK, ReadHolds, RowsHold, ProgressHolds, Next
    PROVE  ProgressHolds'
<1>1. Paged' <=> Paged
  BY AskFixed
<1>2. CASE StepFails
  <2>1. /\ listed' = listed /\ pc' \in {"discard", "close"}
        /\ pc' = "discard" => listed # {}
    BY <1>2, FailedStep
  <2> QED BY <2>1 DEF ProgressHolds
<1>3. CASE Serve
  BY <1>3 DEF Serve, ProgressHolds
<1>4. CASE KeepBounded
  <2>1. IsFiniteSet(listed')
    BY <1>4, FS_AddElement DEF KeepBounded, ProgressHolds
  <2>2. Paged /\ pc' \in {"close", "request"}
    BY <1>4 DEF KeepBounded, Goes, Paged
  <2> QED BY <1>1, <2>1, <2>2 DEF ProgressHolds
<1>5. CASE KeepItems \/ KeepStrict
  BY <1>1, <1>5 DEF KeepItems, KeepStrict, Goes, Paged, Strict, ProgressHolds
<1>6. CASE KeepSingle
  BY <1>6 DEF KeepSingle, Goes, ProgressHolds
<1>7. CASE Discard
  <2>1. IsFiniteSet(listed')
    BY <1>7, FS_RemoveElement DEF Discard, ProgressHolds
  <2> QED BY <1>7, <2>1 DEF Discard, ProgressHolds
<1>8. CASE DiscardFails \/ Close
  BY <1>8 DEF DiscardFails, Close, ProgressHolds
<1> QED BY StepKinds, <1>2, <1>3, <1>4, <1>5, <1>6, <1>7, <1>8

LEMMA ProgressInvariant == Spec => [](IInv /\ ProgressHolds)
<1>1. Init => IInv /\ ProgressHolds
  BY InvariantInit, FS_EmptySet DEF Init, ProgressHolds
<1>2. IInv /\ ProgressHolds /\ [Next]_vars => (IInv /\ ProgressHolds)'
  <2> SUFFICES ASSUME IInv, ProgressHolds, [Next]_vars PROVE (IInv /\ ProgressHolds)'
    OBVIOUS
  <2>1. CASE Next
    BY <2>1, InvariantInductive, ProgressStep DEF IInv
  <2>2. CASE UNCHANGED vars
    BY <2>2, InvariantInductive DEF vars, ProgressHolds, Paged
  <2> QED BY <2>1, <2>2
<1> QED BY <1>1, <1>2, PTL DEF Spec

\* What is left is a number of steps.
LEMMA RankOfType ==
    ASSUME TypeOK, ProgressHolds
    PROVE  Rank \in Nat
<1>1. Cardinality(Urls \ visited) \in Nat /\ Cardinality(listed) \in Nat
  BY ListConstantsOk, FS_Difference, FS_CardinalityType DEF ProgressHolds
<1>2. StepsLeft \in Nat
  BY DEF StepsLeft, TypeOK
<1> QED BY <1>1, <1>2 DEF Rank

\* A page is asked for under a URL that was not asked for before.
LEMMA PageCostsUrl ==
    ASSUME TypeOK, ProgressHolds, MayRequest
    PROVE  Cardinality(Urls \ (visited \cup {link})) = Cardinality(Urls \ visited) - 1
<1>1. link \in Urls /\ link \notin visited
  BY DEF MayRequest, Exhausts, ProgressHolds
<1>2. Urls \ (visited \cup {link}) = (Urls \ visited) \ {link} /\ link \in Urls \ visited
  BY <1>1
<1>3. IsFiniteSet(Urls \ visited)
  BY ListConstantsOk, FS_Difference
<1> QED BY <1>2, <1>3, FS_RemoveElement

\* Every step of a read leaves fewer steps.
LEMMA RankFalls ==
    ASSUME IInv, ProgressHolds, Next
    PROVE  Rank' < Rank
<1> USE DEF IInv
<1>1. ProgressHolds' /\ TypeOK'
  BY ProgressStep, InvariantInductive
<1> DEFINE U  == Cardinality(Urls \ visited)
           UN == Cardinality(Urls \ visited')
           L  == Cardinality(listed)
           LN == Cardinality(listed')
<1>2. U \in Nat /\ UN \in Nat /\ L \in Nat /\ LN \in Nat
  BY <1>1, ListConstantsOk, FS_Difference, FS_CardinalityType DEF ProgressHolds
<1>3. Rank = 4 * U + L + StepsLeft /\ Rank' = 4 * UN + LN + StepsLeft'
  BY DEF Rank
<1>4. CASE RequestFails \/ Serve
  <2>1. UN = U - 1 /\ LN = L
    <3>1. MayRequest /\ visited' = visited \cup {link} /\ listed' = listed
      BY <1>4 DEF RequestFails, Serve
    <3> QED BY <3>1, PageCostsUrl
  <2>2. StepsLeft = 3 /\ StepsLeft' \in {1, 2, 5}
    BY <1>4 DEF RequestFails, Serve, MayRequest, Fails, StepsLeft
  <2> QED BY <1>2, <1>3, <2>1, <2>2
<1>5. CASE Refuse \/ StopLoop \/ Reject \/ TearChunk
  <2>1. UN = U /\ LN = L
    BY <1>5 DEF Refuse, StopLoop, Reject, TearChunk
  <2>2. StepsLeft \in {3, 5} /\ StepsLeft' \in {1, 2}
    BY <1>5 DEF Refuse, StopLoop, Reject, TearChunk, Fails, StepsLeft
  <2> QED BY <1>2, <1>3, <2>1, <2>2
<1>6. CASE KeepBounded
  <2>1. UN = U /\ LN <= L + 1
    <3>1. visited' = visited /\ (listed' = listed \/ listed' = listed \cup {PageNumber})
      BY <1>6 DEF KeepBounded
    <3>2. IsFiniteSet(listed)
      BY DEF ProgressHolds
    <3>3. Cardinality(listed \cup {PageNumber}) \in {L, L + 1}
      BY <3>2, FS_AddElement
    <3> QED BY <1>2, <3>1, <3>3
  <2>2. StepsLeft = 5 /\ StepsLeft' \in {1, 3}
    BY <1>6 DEF KeepBounded, Goes, StepsLeft
  <2> QED BY <1>2, <1>3, <2>1, <2>2
<1>7. CASE KeepItems \/ KeepStrict \/ KeepSingle
  <2>1. UN = U /\ LN = L
    BY <1>7 DEF KeepItems, KeepStrict, KeepSingle
  <2>2. StepsLeft = 5 /\ StepsLeft' \in {1, 3}
    BY <1>7 DEF KeepItems, KeepStrict, KeepSingle, Goes, StepsLeft
  <2> QED BY <1>2, <1>3, <2>1, <2>2
<1>8. CASE Discard
  <2>1. UN = U /\ LN = L - 1
    <3>1. visited' = visited /\ \E n \in listed : listed' = listed \ {n}
      BY <1>8 DEF Discard
    <3> QED BY <3>1, FS_RemoveElement DEF ProgressHolds
  <2>2. StepsLeft = 2 /\ StepsLeft' \in {1, 2}
    BY <1>8 DEF Discard, StepsLeft
  <2> QED BY <1>2, <1>3, <2>1, <2>2
<1>9. CASE DiscardFails \/ Close
  <2>1. UN = U /\ LN = L
    BY <1>9 DEF DiscardFails, Close
  <2>2. StepsLeft \in {1, 2} /\ StepsLeft' = 0
    BY <1>9 DEF DiscardFails, Close, StepsLeft
  <2> QED BY <1>2, <1>3, <2>1, <2>2
<1> QED BY StepKinds, <1>4, <1>5, <1>6, <1>7, <1>8, <1>9 DEF StepFails

\* Every step of a list read leaves it fewer steps to take, whatever pages, links and
\* failures come: at most four for each URL of the service, one for each chunk file and
\* those of its end (iter_pages, _bounded_pages, discard_chunk_records).
THEOREM ReadDraws == Spec => [](Rank \in Nat) /\ [][Rank' < Rank]_vars
<1>1. IInv /\ ProgressHolds => Rank \in Nat
  BY RankOfType DEF IInv
<1>2. IInv /\ ProgressHolds /\ [Next]_vars => [Rank' < Rank]_vars
  BY RankFalls
<1> QED BY <1>1, <1>2, ProgressInvariant, PTL DEF Spec

\* A step is open to every read that has not ended: the link of a page that goes on is
\* one to ask for or to refuse, every page is of some branch, and there is always a
\* first chunk to discard (the guards of Next, in the order of its disjuncts).
StepOpen ==
    \/ pc = "request" /\ (link = Foreign \/ (Paged /\ link \in Urls /\ Exhausts) \/ MayRequest)
    \/ pc = "keep" /\ (Invalid \/ Bounded \/ Items \/ Strict \/ ~Paged)
    \/ pc = "discard" /\ \E n \in listed : \A m \in listed : n <= m
    \/ pc = "close"

\* No list read is ever stuck before its end (run_graph_endpoints).
THEOREM ReadNeverStuck == Spec => [](pc \in {"closed", "raised"} \/ StepOpen)
<1>1. IInv /\ ProgressHolds => pc \in {"closed", "raised"} \/ StepOpen
  <2> SUFFICES ASSUME IInv, ProgressHolds, pc \notin {"closed", "raised"} PROVE StepOpen
    OBVIOUS
  <2> USE DEF IInv
  <2>1. CASE pc = "request"
    <3>1. link \in Urls \cup {Foreign}
      BY <2>1 DEF ReadHolds
    <3> QED BY <2>1, <3>1 DEF StepOpen, MayRequest
  <2>2. CASE pc = "keep"
    BY <2>2, ModeOfRead DEF StepOpen, Modes, Bounded, Items, Strict, Paged
  <2>3. CASE pc = "discard"
    <3>1. listed \in SUBSET Nat /\ listed # {}
      BY <2>3 DEF TypeOK, ProgressHolds
    <3> QED BY <2>3, <3>1, LeastNumber DEF StepOpen
  <2>4. CASE pc = "close"
    BY <2>4 DEF StepOpen
  <2> QED BY <2>1, <2>2, <2>3, <2>4 DEF TypeOK
<1> QED BY <1>1, ProgressInvariant, PTL
-----------------------------------------------------------------------------
(* The scope of the finding on NeverSilent. *)

\* No read has a row limit above the ceiling of its spec (with --top above 250,000 the
\* users list of identity.py has).
CeilingsAboveLimits ==
    \A a \in Asks :
        LET limit == IF a.sample # None /\ (a.operator = None \/ a.sample <= a.operator)
                     THEN a.sample ELSE a.operator
        IN  a.maxRows = None \/ limit = None \/ limit <= a.maxRows

\* A list is cut in silence only by a ceiling that is lower than the row limit: where no
\* spec is read so, the documented rule holds of every read as it stands
\* (docs/reference/output-contract.md:1026).
THEOREM NeverSilentUnderCeilings == CeilingsAboveLimits /\ Spec => []NeverSilent
<1> SUFFICES ASSUME CeilingsAboveLimits PROVE Spec => []NeverSilent
  OBVIOUS
<1>1. IInv /\ CleanIsWhole => NeverSilent
  <2> SUFFICES ASSUME IInv, CleanIsWhole PROVE NeverSilent
    OBVIOUS
  <2>1. ask \in Asks /\ ask.maxRows \in Bounds /\ Limit \in Bounds
    BY BoundsOfAsk DEF IInv, TypeOK
  <2>2. ask.maxRows = None \/ Limit = None \/ Limit <= ask.maxRows
    BY <2>1 DEF CeilingsAboveLimits, Limit, IsSample
  <2>3. ~CeilingBelowLimit
    BY <2>1, <2>2 DEF CeilingBelowLimit, Bounds
  <2> QED BY <2>3 DEF CleanIsWhole, NeverSilent
<1> QED BY <1>1, InvariantHolds, CleanReadIsWhole, PTL
=============================================================================
