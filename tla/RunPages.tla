------------------------------- MODULE RunPages -------------------------------
(***************************************************************************)
(* Cursor pagination of evaluation runs and cases (repositories/base.py)   *)
(* while the programs that write them go on.  A client reads page after    *)
(* page of one listing; nothing but the cursor it sends back ties a page   *)
(* to the one before.  A page is one find, taken as one step.              *)
(*                                                                         *)
(* Runs are inserted with or without a start time, may get one later, and  *)
(* may come to match the filters of the listing or cease to (a verdict     *)
(* changes): that is done by other programs, which this API only reads.    *)
(***************************************************************************)
EXTENDS Naturals, FiniteSets, Sequences

CONSTANTS
    RunIds,             \* _ids, in the order of ObjectIds
    Times,              \* start times
    Limit               \* rows of a page

NoTime == 0             \* no started_at: below every date in MongoDB's order

ASSUME ConstantsAssumption ==
    /\ IsFiniteSet(RunIds) /\ RunIds \subseteq Nat
    /\ Times \subseteq Nat \ {NoTime}
    /\ Limit \in Nat \ {0}

VARIABLES
    runs,               \* the documents
    kind,               \* of listing: all runs, those of a window, or cases
    status,
    cursor,             \* what the last answer said to go on from: at most one row
    pages,              \* the pages the client has got, in order
    stable              \* ids that were listed from the beginning and did not change

vars == <<runs, kind, status, cursor, pages, stable>>

-----------------------------------------------------------------------------
Run == [id : RunIds, at : Times \cup {NoTime}, listed : BOOLEAN]
Kinds == {"runs", "window", "cases"}

IdsOf(S) == {r.id : r \in S}
ShownRuns == UNION {pages[n] : n \in 1..Len(pages)}
Shown == IdsOf(ShownRuns)

Init ==
    /\ runs = {} /\ kind = "runs" /\ status = "idle"
    /\ cursor = {} /\ pages = <<>> /\ stable = {}

Listing == <<kind, status, cursor, pages>>

InsertRun(r) ==
    /\ r.id \notin IdsOf(runs)
    /\ runs' = runs \cup {r}
    /\ UNCHANGED <<Listing, stable>>

Rewrite(r, s) ==
    /\ runs' = (runs \ {r}) \cup {s}
    /\ stable' = stable \ {r.id}
    /\ UNCHANGED Listing

(* A queued run starts; its date may put it into a window or not. *)
StartRun(r, t) ==
    /\ r.at = NoTime
    /\ \E b \in BOOLEAN : Rewrite(r, [r EXCEPT !.at = t, !.listed = b])

RelabelRun(r) == Rewrite(r, [r EXCEPT !.listed = ~@])

-----------------------------------------------------------------------------
(* Cases are listed by _id, runs by started_at and _id, newest first. *)
Older(r, c) ==
    \/ kind # "cases" /\ r.at < c.at
    \/ (kind = "cases" \/ r.at = c.at) /\ r.id < c.id

(* A bound on started_at, and so $lt, matches no run without a start time. *)
Wanted(r) ==
    /\ r.listed
    /\ kind = "window" \/ (kind = "runs" /\ cursor # {}) => r.at # NoTime

OlderOrAlike(r, c) == \* mutant: the row the cursor names is read again
    \/ kind # "cases" /\ r.at < c.at
    \/ (kind = "cases" \/ r.at = c.at) /\ r.id <= c.id

OlderByTime(r, c) == \* mutant: ties are not broken by _id
    IF kind = "cases" THEN r.id < c.id ELSE r.at < c.at

After(r, c) == Older(r, c)

Matching == {r \in runs : Wanted(r) /\ \A c \in cursor : After(r, c)}

MoreThanFetched == \* mutant: the extra row is taken for one of the page
    Cardinality(Matching) > Limit + 1

\* limit + 1 rows are fetched: the extra one only tells that there are more.
Page == {r \in Matching : Cardinality({q \in Matching : Older(r, q)}) < Limit}
HasMore == Cardinality(Matching) > Limit

IsFirst(r) == \* mutant: the cursor is made of the first row of the page
    \A q \in Page \ {r} : Older(q, r)

IsLast(r) == \A q \in Page \ {r} : Older(r, q)

EncodeAnything(r) == TRUE \* mutant: a missing start time goes into the cursor

(* Without a start time there is nothing to make a cursor of. *)
Encodable(r) == kind = "cases" \/ r.at # NoTime

BeginListing(k) ==
    /\ status # "open"
    /\ status' = "open" /\ kind' = k
    /\ cursor' = {} /\ pages' = <<>>
    /\ stable' = IdsOf({r \in runs : r.listed})
    /\ UNCHANGED runs

ReadPage ==
    /\ status = "open" /\ HasMore
    /\ \E r \in Page :
          /\ IsLast(r) /\ Encodable(r)
          /\ cursor' = {r}
    /\ pages' = Append(pages, Page)
    /\ UNCHANGED <<runs, kind, status, stable>>

ReadLastPage ==
    /\ status = "open" /\ ~HasMore
    /\ pages' = Append(pages, Page)
    /\ status' = "done"
    /\ UNCHANGED <<runs, kind, cursor, stable>>

(* encode_cursor raises: the page is lost, the client gets a 500. *)
FailToEncode ==
    /\ status = "open" /\ HasMore
    /\ \E r \in Page : IsLast(r) /\ ~Encodable(r)
    /\ status' = "failed"
    /\ UNCHANGED <<runs, kind, cursor, pages, stable>>

Write ==
    \/ \E r \in Run : InsertRun(r)
    \/ \E r \in runs, t \in Times : StartRun(r, t)
    \/ \E r \in runs : RelabelRun(r)

Read ==
    \/ \E k \in Kinds : BeginListing(k)
    \/ ReadPage \/ ReadLastPage \/ FailToEncode

Next == Write \/ Read

Spec == Init /\ [][Next]_vars

-----------------------------------------------------------------------------
(* Properties *)

(* Every variable keeps the shape the collection and the routes give it. *)
TypeOK ==
    /\ runs \subseteq Run
    /\ \A r, q \in runs : r.id = q.id => r = q
    /\ kind \in Kinds
    /\ status \in {"idle", "open", "done", "failed"}
    /\ cursor \subseteq Run /\ \A r, q \in cursor : r = q
    /\ kind # "cases" => \A c \in cursor : c.at \in Times
    /\ pages \in Seq(SUBSET Run)
    /\ stable \subseteq IdsOf(runs)

(* No run is on two pages of a listing, even if it starts, changes its       *)
(* verdict or is joined by others between the two.                           *)
ShownOnce ==
    \A m, n \in 1..Len(pages) : m < n => IdsOf(pages[m]) \cap IdsOf(pages[n]) = {}

(* Whatever is inserted while a client reads, its pages put together are in  *)
(* the order of the listing, newest first.                                   *)
NewestFirst ==
    \A m, n \in 1..Len(pages) : m < n =>
        \A q \in pages[m], r \in pages[n] : Older(r, q)

(* A listing that has come to its end has shown every run that was there     *)
(* unchanged from its beginning, but for those without a start time: a       *)
(* window has none of them, a listing of runs none beyond its first page.    *)
EveryRunShown ==
    status = "done" =>
        \A r \in runs : r.id \in stable \ Shown =>
            /\ r.at = NoTime
            /\ kind = "window" \/ (kind = "runs" /\ Len(pages) > 1)

Owed == {r.id : r \in {q \in runs : q.id \in stable /\ Encodable(q)}}

\* What a client sees is the abstract listing.
L == INSTANCE Listing WITH
       Ids <- RunIds, given <- Shown, owed <- Owed \ Shown

KeepsItsPromise == L!Spec

(* A page of runs is answered, whether or not all of them have started.  *)
(* Violated: the start time of the last row of a page may be missing.    *)
ListingsAnswer == status # "failed"
=============================================================================
