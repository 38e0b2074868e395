---------------------------- MODULE RunPagesProofs ----------------------------
(***************************************************************************)
(* Theorems about RunPages, for any runs, start times and page size.       *)
(*                                                                         *)
(* All that ties a page to those before it is the cursor: ReadInv says that *)
(* the cursor stands at the end of what was shown (Positioned), that what  *)
(* was shown still sorts where it did (Kept), and that of the runs the     *)
(* listing owes, all up to the cursor were shown (Covered).                *)
(***************************************************************************)
EXTENDS RunPages, FiniteSetTheorems, TLAPS

\* While a client reads on, the cursor is the last row it was shown.
Positioned ==
  status = "open" =>
    /\ cursor = {} <=> Len(pages) = 0
    /\ \A c \in cursor, n \in 1..Len(pages) : \A q \in pages[n] :
         q = c \/ Older(c, q)

\* A row that was shown is still there, with the same place in the order.
Kept ==
  status = "open" =>
    \A n \in 1..Len(pages) : \A q \in pages[n] :
      /\ Encodable(q)
      /\ \E r \in runs : r.id = q.id /\ (kind = "cases" \/ r.at = q.at)

\* What does not change since the beginning is listed.
StableListed == \A r \in runs : r.id \in stable => r.listed

\* No run that is owed is left behind the cursor.
Covered ==
  status = "open" =>
    \A c \in cursor, r \in runs :
      r.id \in stable /\ Encodable(r) /\ ~Older(r, c) => r.id \in Shown

ReadInv ==
  /\ TypeOK /\ IsFiniteSet(runs)
  /\ Positioned /\ Kept /\ StableListed /\ Covered
  /\ ShownOnce /\ NewestFirst /\ EveryRunShown

-----------------------------------------------------------------------------
(* The order of a listing and its pages *)

\* Ids and times are numbers, a missing time included.
LEMMA RowNumbers ==
  ASSUME NEW r \in Run
  PROVE  r.id \in Nat /\ r.at \in Nat
<1>1. RunIds \subseteq Nat /\ Times \cup {NoTime} \subseteq Nat
  BY ConstantsAssumption DEF ConstantsAssumption, NoTime
<1>2. r.id \in RunIds /\ r.at \in Times \cup {NoTime}
  BY DEF Run
<1>3. QED BY <1>1, <1>2

\* Rows are ordered strictly, and any two of different ids are.
LEMMA OlderIsStrict ==
  ASSUME NEW a \in Run, NEW b \in Run, NEW c \in Run
  PROVE  /\ ~Older(a, a)
         /\ Older(a, b) /\ Older(b, c) => Older(a, c)
         /\ a.id # b.id => Older(a, b) \/ Older(b, a)
         /\ Older(a, b) => ~Older(b, a)
<1>1. /\ a.id \in Nat /\ a.at \in Nat /\ b.id \in Nat /\ b.at \in Nat
      /\ c.id \in Nat /\ c.at \in Nat
  BY RowNumbers
<1>2. QED BY <1>1 DEF Older

\* A page takes every row that precedes one of its own.
LEMMA PageIsUpper ==
  ASSUME ReadInv, NEW r \in Page, NEW q \in Matching, Older(r, q)
  PROVE  q \in Page
<1> DEFINE Above(x) == {y \in Matching : Older(x, y)}
<1>1. Matching \subseteq runs /\ Matching \subseteq Run /\ r \in Matching
  BY DEF Matching, Page, ReadInv, TypeOK
<1>2. IsFiniteSet(Above(r)) /\ IsFiniteSet(Above(q))
  BY <1>1, FS_Subset DEF ReadInv
<1>3. Above(q) \in SUBSET Above(r)
  BY <1>1, OlderIsStrict
<1>4. Cardinality(Above(q)) <= Cardinality(Above(r))
  BY <1>2, <1>3, FS_Subset
<1>5. Cardinality(Above(q)) \in Nat /\ Cardinality(Above(r)) \in Nat
  BY <1>2, FS_CardinalityType
<1>6. Cardinality(Above(r)) < Limit
  BY DEF Page
<1>7. Cardinality(Above(q)) < Limit
  BY <1>4, <1>5, <1>6, ConstantsAssumption DEF ConstantsAssumption
<1>8. QED BY <1>7 DEF Page

\* The last page takes every row that is left.
LEMMA LastPageIsAll ==
  ASSUME ReadInv, ~HasMore
  PROVE  Page = Matching
<1>1. Matching \subseteq runs /\ Matching \subseteq Run
  BY DEF Matching, ReadInv, TypeOK
<1>2. IsFiniteSet(Matching)
  BY <1>1, FS_Subset DEF ReadInv
<1>3. Cardinality(Matching) \in Nat /\ Cardinality(Matching) <= Limit
  BY <1>2, FS_CardinalityType, ConstantsAssumption DEF HasMore, ConstantsAssumption
<1>4. ASSUME NEW r \in Matching PROVE r \in Page
  <2> DEFINE Above == {y \in Matching : Older(r, y)}
  <2>1. Above \in SUBSET (Matching \ {r})
    BY <1>1, OlderIsStrict
  <2>2. IsFiniteSet(Matching \ {r}) /\ Cardinality(Matching \ {r}) = Cardinality(Matching) - 1
    BY <1>2, FS_RemoveElement
  <2>3. Cardinality(Above) <= Cardinality(Matching \ {r}) /\ IsFiniteSet(Above)
    BY <2>1, <2>2, FS_Subset
  <2>4. Cardinality(Above) \in Nat
    BY <2>3, FS_CardinalityType
  <2>5. Cardinality(Above) < Limit
    BY <1>3, <2>2, <2>3, <2>4, ConstantsAssumption DEF ConstantsAssumption
  <2>6. QED BY <2>5 DEF Page
<1>5. QED BY <1>4 DEF Page

\* What was shown, element by element.
LEMMA ShownIs ==
  ASSUME NEW x
  PROVE  x \in Shown <=> \E n \in 1..Len(pages) : \E q \in pages[n] : q.id = x
  BY DEF Shown, ShownRuns, IdsOf

\* The same of the next state.
LEMMA ShownIsNext ==
  ASSUME NEW x
  PROVE  x \in Shown' <=> \E n \in 1..Len(pages') : \E q \in pages'[n] : q.id = x
  BY DEF Shown, ShownRuns, IdsOf

\* A page is added behind the others.
LEMMA PagesGrow ==
  ASSUME TypeOK, pages' = Append(pages, Page)
  PROVE  /\ Len(pages') = Len(pages) + 1 /\ Len(pages) \in Nat
         /\ \A n \in 1..Len(pages) : pages'[n] = pages[n]
         /\ pages'[Len(pages) + 1] = Page
  BY DEF TypeOK

\* A row of the next page comes after everything that was shown, and is new.
LEMMA PageIsNew ==
  ASSUME ReadInv, status = "open", NEW r \in Page,
         NEW n \in 1..Len(pages), NEW q \in pages[n]
  PROVE  Older(r, q) /\ r.id # q.id
<1>1. r \in runs /\ r \in Run /\ \A c \in cursor : Older(r, c)
  BY DEF Page, Matching, After, ReadInv, TypeOK
<1>2. q \in Run
  BY DEF ReadInv, TypeOK
<1>3. PICK c \in cursor : c \in Run /\ (q = c \/ Older(c, q))
  <2>1. Len(pages) # 0
    OBVIOUS
  <2>2. PICK c \in cursor : TRUE
    BY <2>1 DEF ReadInv, Positioned
  <2>3. QED BY <2>2 DEF ReadInv, Positioned, TypeOK
<1>4. Older(r, q)
  BY <1>1, <1>2, <1>3, OlderIsStrict
<1>5. ASSUME r.id = q.id PROVE FALSE
  <2>1. PICK s \in runs : s.id = q.id /\ (kind = "cases" \/ s.at = q.at)
    BY DEF ReadInv, Kept
  <2>2. s = r
    BY <1>1, <1>5, <2>1 DEF ReadInv, TypeOK
  <2>3. ~Older(r, q)
    BY <1>1, <1>2, <1>5, <2>1, <2>2, RowNumbers DEF Older
  <2>4. QED BY <1>4, <2>3
<1>6. QED BY <1>4, <1>5

\* A run that is owed and not shown yet is among those that match.
LEMMA OwedMatches ==
  ASSUME ReadInv, status = "open", NEW r \in runs, r.id \in stable, r.id \notin Shown,
         Encodable(r)
  PROVE  r \in Matching
<1>1. \A c \in cursor : Older(r, c)
  BY DEF ReadInv, Covered
<1>2. Wanted(r)
  BY DEF ReadInv, StableListed, Wanted, Encodable, TypeOK, Kinds
<1>3. QED BY <1>1, <1>2 DEF Matching, After

-----------------------------------------------------------------------------
(* Writers *)

\* What a writer does to a run it does not insert: id and start time stay.
LEMMA RewriteIs ==
  ASSUME TypeOK, NEW r \in runs,
         (\E t \in Times : StartRun(r, t)) \/ RelabelRun(r)
  PROVE  \E s \in Run : /\ s.id = r.id /\ (r.at = NoTime \/ s.at = r.at)
                        /\ Rewrite(r, s)
<1>1. r \in Run
  BY DEF TypeOK
<1>2. CASE \E t \in Times : StartRun(r, t)
  <2>1. PICK t \in Times, b \in BOOLEAN :
          r.at = NoTime /\ Rewrite(r, [r EXCEPT !.at = t, !.listed = b])
    BY <1>2 DEF StartRun
  <2> DEFINE s == [[r EXCEPT !.at = t] EXCEPT !.listed = b]
  <2>2. s \in Run /\ s.id = r.id
    BY <1>1 DEF Run
  <2>3. Rewrite(r, s)
    BY <2>1
  <2>4. QED BY <2>1, <2>2, <2>3
<1>3. CASE RelabelRun(r)
  <2> DEFINE s == [r EXCEPT !.listed = ~@]
  <2>1. s \in Run /\ s.id = r.id /\ s.at = r.at
    BY <1>1 DEF Run
  <2>2. Rewrite(r, s)
    BY <1>3 DEF RelabelRun
  <2>3. QED BY <2>1, <2>2
<1>4. QED BY <1>2, <1>3

\* What was shown stays in order when the reader does nothing.
LEMMA ReadKeeps ==
  ASSUME ReadInv, UNCHANGED <<kind, status, cursor, pages>>
  PROVE  Positioned' /\ ShownOnce' /\ NewestFirst'
<1>1. Positioned'
  BY DEF ReadInv, Positioned, Older
<1>2. ShownOnce'
  BY DEF ReadInv, ShownOnce
<1>3. NewestFirst'
  BY DEF ReadInv, NewestFirst, Older
<1>4. QED BY <1>1, <1>2, <1>3

\* A new run is in nobody's way.
LEMMA InsertKeeps ==
  ASSUME ReadInv, NEW r \in Run, InsertRun(r)
  PROVE  ReadInv'
<1>1. /\ r.id \notin IdsOf(runs) /\ runs' = runs \cup {r}
      /\ UNCHANGED <<kind, status, cursor, pages, stable>>
  BY DEF InsertRun, Listing
<1>2. \A q \in runs : q.id # r.id
  BY <1>1 DEF IdsOf
<1>3. r.id \notin stable
  BY <1>1 DEF ReadInv, TypeOK
<1>4. TypeOK'
  BY <1>1, <1>2 DEF ReadInv, TypeOK, IdsOf
<1>5. IsFiniteSet(runs')
  BY <1>1, FS_AddElement DEF ReadInv
<1>6. Positioned' /\ ShownOnce' /\ NewestFirst'
  BY <1>1, ReadKeeps
<1>7. Kept'
  BY <1>1 DEF ReadInv, Kept, Encodable
<1>8. StableListed'
  BY <1>1, <1>3 DEF ReadInv, StableListed
<1>9. Shown' = Shown
  BY <1>1 DEF Shown, ShownRuns, IdsOf
<1>10. Covered'
  BY <1>1, <1>3, <1>9 DEF ReadInv, Covered, Encodable, Older
<1>11. EveryRunShown'
  BY <1>1, <1>3, <1>9 DEF ReadInv, EveryRunShown
<1>12. QED
  BY <1>4, <1>5, <1>6, <1>7, <1>8, <1>10, <1>11 DEF ReadInv

\* A run that changes leaves the stable ones and keeps its place, if it had one.
LEMMA RewriteKeeps ==
  ASSUME ReadInv, NEW r \in runs, NEW s \in Run, s.id = r.id,
         r.at = NoTime \/ s.at = r.at, Rewrite(r, s)
  PROVE  ReadInv'
<1>1. /\ runs' = (runs \ {r}) \cup {s} /\ stable' = stable \ {r.id}
      /\ UNCHANGED <<kind, status, cursor, pages>>
  BY DEF Rewrite, Listing
<1>2. \A q \in runs' : q.id \in stable' => q \in runs
  BY <1>1
<1>3. \A q \in runs : q.id = r.id => q = r
  BY DEF ReadInv, TypeOK
<1>4. TypeOK'
  <2>1. runs' \subseteq Run /\ \A p, q \in runs' : p.id = q.id => p = q
    BY <1>1, <1>3 DEF ReadInv, TypeOK
  <2>2. stable' \subseteq IdsOf(runs')
    BY <1>1, <1>3 DEF ReadInv, TypeOK, IdsOf
  <2>3. QED BY <1>1, <2>1, <2>2 DEF ReadInv, TypeOK
<1>5. IsFiniteSet(runs')
  BY <1>1, FS_RemoveElement, FS_AddElement DEF ReadInv
<1>6. Positioned' /\ ShownOnce' /\ NewestFirst'
  BY <1>1, ReadKeeps
<1>7. Kept'
  <2> SUFFICES ASSUME status = "open", NEW n \in 1..Len(pages), NEW q \in pages[n]
               PROVE  /\ Encodable(q)
                      /\ \E p \in runs' : p.id = q.id /\ (kind = "cases" \/ p.at = q.at)
    BY <1>1 DEF Kept, Encodable
  <2>1. Encodable(q)
    BY DEF ReadInv, Kept
  <2>2. PICK p \in runs : p.id = q.id /\ (kind = "cases" \/ p.at = q.at)
    BY DEF ReadInv, Kept
  <2>3. CASE p = r
    BY <1>1, <2>1, <2>2, <2>3 DEF Encodable
  <2>4. CASE p # r
    BY <1>1, <2>1, <2>2, <2>4
  <2>5. QED BY <2>3, <2>4
<1>8. StableListed'
  BY <1>1, <1>2 DEF ReadInv, StableListed
<1>9. Shown' = Shown
  BY <1>1 DEF Shown, ShownRuns, IdsOf
<1>10. Covered'
  BY <1>1, <1>2, <1>9 DEF ReadInv, Covered, Encodable, Older
<1>11. EveryRunShown'
  BY <1>1, <1>2, <1>9 DEF ReadInv, EveryRunShown
<1>12. QED
  BY <1>4, <1>5, <1>6, <1>7, <1>8, <1>10, <1>11 DEF ReadInv

-----------------------------------------------------------------------------
(* The reader *)

\* A new listing has shown nothing yet.
LEMMA BeginKeeps ==
  ASSUME ReadInv, NEW k \in Kinds, BeginListing(k)
  PROVE  ReadInv'
<1>1. /\ status' = "open" /\ kind' = k /\ cursor' = {} /\ pages' = <<>> /\ runs' = runs
      /\ stable' = IdsOf({r \in runs : r.listed})
  BY DEF BeginListing
<1>2. TypeOK'
  BY <1>1 DEF ReadInv, TypeOK, IdsOf
<1>3. Len(pages') = 0
  BY <1>1
<1>4. Positioned' /\ Kept' /\ ShownOnce' /\ NewestFirst' /\ Covered' /\ EveryRunShown'
  BY <1>1, <1>3 DEF Positioned, Kept, ShownOnce, NewestFirst, Covered, EveryRunShown
<1>5. StableListed'
  <2> SUFFICES ASSUME NEW r \in runs, r.id \in IdsOf({q \in runs : q.listed}) PROVE r.listed
    BY <1>1 DEF StableListed
  <2>1. PICK q \in runs : q.listed /\ q.id = r.id
    BY DEF IdsOf
  <2>2. QED BY <2>1 DEF ReadInv, TypeOK
<1>6. QED
  BY <1>1, <1>2, <1>4, <1>5 DEF ReadInv

\* Adding a page keeps what the pages have in common.
LEMMA PageKeepsOrder ==
  ASSUME ReadInv, status = "open", pages' = Append(pages, Page), UNCHANGED kind
  PROVE  /\ pages' \in Seq(SUBSET Run) /\ ShownOnce' /\ NewestFirst'
         /\ \A x : x \in Shown' <=> x \in Shown \cup IdsOf(Page)
<1>1. /\ Len(pages') = Len(pages) + 1 /\ Len(pages) \in Nat
      /\ \A n \in 1..Len(pages) : pages'[n] = pages[n]
      /\ pages'[Len(pages) + 1] = Page
  BY PagesGrow DEF ReadInv
<1>2. pages' \in Seq(SUBSET Run)
  BY DEF ReadInv, TypeOK, Page, Matching
<1>3. ShownOnce'
  <2> SUFFICES ASSUME NEW m \in 1..Len(pages'), NEW n \in 1..Len(pages'), m < n
               PROVE  IdsOf(pages'[m]) \cap IdsOf(pages'[n]) = {}
    BY DEF ShownOnce, IdsOf
  <2>1. CASE n \in 1..Len(pages)
    <3>1. m \in 1..Len(pages) /\ pages'[m] = pages[m] /\ pages'[n] = pages[n]
      BY <1>1, <2>1
    <3>2. IdsOf(pages[m]) \cap IdsOf(pages[n]) = {}
      BY <2>1, <3>1 DEF ReadInv, ShownOnce
    <3>3. QED BY <3>1, <3>2
  <2>2. CASE n = Len(pages) + 1
    <3>1. m \in 1..Len(pages) /\ pages'[m] = pages[m] /\ pages'[n] = Page
      BY <1>1, <2>2
    <3>2. \A q \in pages[m], r \in Page : r.id # q.id
      BY <3>1, PageIsNew
    <3>3. QED BY <3>1, <3>2 DEF IdsOf
  <2>3. QED BY <1>1, <2>1, <2>2
<1>4. NewestFirst'
  <2> SUFFICES ASSUME NEW m \in 1..Len(pages'), NEW n \in 1..Len(pages'), m < n,
                      NEW q \in pages'[m], NEW r \in pages'[n]
               PROVE  Older(r, q)
    BY DEF NewestFirst, Older
  <2>1. CASE n \in 1..Len(pages)
    BY <1>1, <2>1 DEF ReadInv, NewestFirst
  <2>2. CASE n = Len(pages) + 1
    <3>1. m \in 1..Len(pages) /\ pages'[m] = pages[m] /\ pages'[n] = Page
      BY <1>1, <2>2
    <3>2. QED BY <3>1, PageIsNew
  <2>3. QED BY <1>1, <2>1, <2>2
<1>5. ASSUME NEW x PROVE x \in Shown' <=> x \in Shown \cup IdsOf(Page)
  <2>1. x \in IdsOf(Page) <=> \E q \in Page : q.id = x
    BY DEF IdsOf
  <2>2. QED BY <1>1, <2>1, ShownIs, ShownIsNext
<1>6. QED BY <1>2, <1>3, <1>4, <1>5

\* The cursor goes to the last row of a page.
LEMMA ReadPageKeeps ==
  ASSUME ReadInv, ReadPage
  PROVE  ReadInv'
<1>1. /\ status = "open" /\ status' = "open" /\ pages' = Append(pages, Page)
      /\ UNCHANGED <<runs, kind, stable>>
  BY DEF ReadPage
<1>2. PICK r \in Page : IsLast(r) /\ Encodable(r) /\ cursor' = {r}
  BY DEF ReadPage
<1>3. /\ Page \subseteq Matching /\ Matching \subseteq runs /\ Matching \subseteq Run
      /\ runs \subseteq Run /\ \A p, q \in runs : p.id = q.id => p = q
  BY DEF Page, Matching, ReadInv, TypeOK
<1>4. /\ pages' \in Seq(SUBSET Run) /\ ShownOnce' /\ NewestFirst'
      /\ \A x : x \in Shown' <=> x \in Shown \cup IdsOf(Page)
  BY <1>1, PageKeepsOrder
<1>5. TypeOK'
  <2>1. kind # "cases" => r.at \in Times
    BY <1>2, <1>3 DEF Encodable, Run
  <2>2. QED BY <1>1, <1>2, <1>3, <1>4, <2>1 DEF ReadInv, TypeOK
<1>6. /\ Len(pages') = Len(pages) + 1 /\ Len(pages) \in Nat
      /\ \A n \in 1..Len(pages) : pages'[n] = pages[n]
      /\ pages'[Len(pages) + 1] = Page
  BY <1>1, PagesGrow DEF ReadInv
<1>7. Positioned'
  <2> SUFFICES ASSUME NEW n \in 1..Len(pages'), NEW q \in pages'[n]
               PROVE  q = r \/ Older(r, q)
    BY <1>1, <1>2, <1>6 DEF Positioned, Older
  <2>1. CASE n \in 1..Len(pages)
    BY <1>1, <1>2, <1>6, <2>1, PageIsNew
  <2>2. CASE n = Len(pages) + 1
    BY <1>2, <1>6, <2>2 DEF IsLast
  <2>3. QED BY <1>6, <2>1, <2>2
<1>8. Kept'
  <2> SUFFICES ASSUME NEW n \in 1..Len(pages'), NEW q \in pages'[n]
               PROVE  /\ Encodable(q)
                      /\ \E p \in runs : p.id = q.id /\ (kind = "cases" \/ p.at = q.at)
    BY <1>1 DEF Kept, Encodable
  <2>1. CASE n \in 1..Len(pages)
    BY <1>1, <1>6, <2>1 DEF ReadInv, Kept
  <2>2. CASE n = Len(pages) + 1
    <3>1. q \in Page /\ q \in runs /\ q \in Run
      BY <1>3, <1>6, <2>2
    <3>2. Encodable(q)
      <4>1. q = r \/ Older(r, q)
        BY <1>2, <3>1 DEF IsLast
      <4>2. /\ r.at \in Nat /\ q.at \in Nat
        BY <1>3, <3>1, RowNumbers
      <4>3. QED BY <1>2, <4>1, <4>2 DEF Encodable, Older, NoTime
    <3>3. QED BY <3>1, <3>2
  <2>3. QED BY <1>6, <2>1, <2>2
<1>9. StableListed'
  BY <1>1 DEF ReadInv, StableListed
<1>10. Covered'
  <2> SUFFICES ASSUME NEW q \in runs, q.id \in stable, Encodable(q), ~Older(q, r),
                      q.id \notin Shown
               PROVE  q.id \in IdsOf(Page)
    BY <1>1, <1>2, <1>4 DEF Covered, Encodable, Older
  <2>1. q \in Matching
    BY <1>1, OwedMatches
  <2>2. q = r \/ Older(r, q)
    BY <1>2, <1>3, <2>1, OlderIsStrict
  <2>3. q \in Page
    BY <1>2, <2>1, <2>2, PageIsUpper
  <2>4. QED BY <2>3 DEF IdsOf
<1>11. EveryRunShown'
  BY <1>1 DEF EveryRunShown
<1>12. QED
  BY <1>1, <1>4, <1>5, <1>7, <1>8, <1>9, <1>10, <1>11 DEF ReadInv

\* What the last page leaves out has no start time, and why.
LEMMA ReadLastKeeps ==
  ASSUME ReadInv, ReadLastPage
  PROVE  ReadInv'
<1>1. /\ status = "open" /\ status' = "done" /\ ~HasMore /\ pages' = Append(pages, Page)
      /\ UNCHANGED <<runs, kind, cursor, stable>>
  BY DEF ReadLastPage
<1>2. /\ pages' \in Seq(SUBSET Run) /\ ShownOnce' /\ NewestFirst'
      /\ \A x : x \in Shown' <=> x \in Shown \cup IdsOf(Page)
  BY <1>1, PageKeepsOrder
<1>3. TypeOK'
  BY <1>1, <1>2 DEF ReadInv, TypeOK
<1>4. Positioned' /\ Kept' /\ Covered'
  BY <1>1 DEF Positioned, Kept, Covered
<1>5. StableListed'
  BY <1>1 DEF ReadInv, StableListed
<1>6. EveryRunShown'
  <2> SUFFICES ASSUME NEW r \in runs, r.id \in stable, r.id \notin Shown, r.id \notin IdsOf(Page)
               PROVE  /\ r.at = NoTime
                      /\ kind = "window" \/ (kind = "runs" /\ Len(pages') > 1)
    BY <1>1, <1>2 DEF EveryRunShown
  <2>1. r \notin Matching
    BY <1>1, LastPageIsAll DEF IdsOf
  <2>2. ~Encodable(r)
    BY <1>1, <2>1, OwedMatches
  <2>3. r.listed /\ kind \in Kinds
    BY DEF ReadInv, StableListed, TypeOK
  <2>4. CASE kind = "window"
    BY <2>2, <2>4 DEF Encodable
  <2>5. CASE kind = "runs"
    <3>1. cursor # {}
      BY <2>1, <2>3, <2>5 DEF Matching, Wanted
    <3>2. Len(pages) # 0
      BY <1>1, <3>1 DEF ReadInv, Positioned
    <3>3. Len(pages') = Len(pages) + 1 /\ Len(pages) \in Nat
      BY <1>1, PagesGrow DEF ReadInv
    <3>4. QED BY <2>2, <2>5, <3>2, <3>3 DEF Encodable
  <2>6. QED BY <2>2, <2>3, <2>4, <2>5 DEF Encodable, Kinds
<1>7. QED
  BY <1>1, <1>2, <1>3, <1>4, <1>5, <1>6 DEF ReadInv

\* A page that is lost changes nothing the client has.
LEMMA FailKeeps ==
  ASSUME ReadInv, FailToEncode
  PROVE  ReadInv'
<1>1. status' = "failed" /\ UNCHANGED <<runs, kind, cursor, pages, stable>>
  BY DEF FailToEncode
<1>2. TypeOK' /\ StableListed' /\ IsFiniteSet(runs')
  BY <1>1 DEF ReadInv, TypeOK, StableListed
<1>3. ShownOnce' /\ NewestFirst'
  BY <1>1 DEF ReadInv, ShownOnce, NewestFirst, Older
<1>4. Positioned' /\ Kept' /\ Covered' /\ EveryRunShown'
  BY <1>1 DEF Positioned, Kept, Covered, EveryRunShown
<1>5. QED BY <1>2, <1>3, <1>4 DEF ReadInv

\* ReadInv holds at the beginning.
LEMMA ReadInit == Init => ReadInv
<1> SUFFICES ASSUME Init PROVE ReadInv
  OBVIOUS
<1>1. TypeOK
  BY DEF Init, TypeOK, Kinds, IdsOf
<1>2. IsFiniteSet(runs)
  BY FS_EmptySet DEF Init
<1>3. QED
  BY <1>1, <1>2 DEF Init, ReadInv, Positioned, Kept, StableListed, Covered, ShownOnce,
                    NewestFirst, EveryRunShown

\* Every step keeps ReadInv.
LEMMA ReadStep == ReadInv /\ [Next]_vars => ReadInv'
<1> SUFFICES ASSUME ReadInv, [Next]_vars PROVE ReadInv'
  OBVIOUS
<1>1. CASE UNCHANGED vars
  <2>1. UNCHANGED <<runs, kind, status, cursor, pages, stable>>
    BY <1>1 DEF vars
  <2>2. TypeOK' /\ IsFiniteSet(runs') /\ StableListed'
    BY <2>1 DEF ReadInv, TypeOK, StableListed
  <2>3. Positioned' /\ ShownOnce' /\ NewestFirst'
    BY <2>1, ReadKeeps
  <2>4. Shown' = Shown
    BY <2>1 DEF Shown, ShownRuns, IdsOf
  <2>5. Kept' /\ Covered' /\ EveryRunShown'
    BY <2>1, <2>4 DEF ReadInv, Kept, Covered, EveryRunShown, Encodable, Older
  <2>6. QED BY <2>2, <2>3, <2>5 DEF ReadInv
<1>2. ASSUME NEW r \in Run, InsertRun(r) PROVE ReadInv'
  BY <1>2, InsertKeeps
<1>3. ASSUME NEW r \in runs, (\E t \in Times : StartRun(r, t)) \/ RelabelRun(r)
      PROVE  ReadInv'
  <2>1. PICK s \in Run : /\ s.id = r.id /\ (r.at = NoTime \/ s.at = r.at)
                         /\ Rewrite(r, s)
    BY <1>3, RewriteIs DEF ReadInv
  <2>2. QED BY <2>1, RewriteKeeps
<1>4. ASSUME NEW k \in Kinds, BeginListing(k) PROVE ReadInv'
  BY <1>4, BeginKeeps
<1>5. QED
  BY <1>1, <1>2, <1>3, <1>4, ReadPageKeeps, ReadLastKeeps, FailKeeps DEF Next, Write, Read

-----------------------------------------------------------------------------
(* Refinement *)

\* Rows that are shown are no longer owed.
LEMMA GivingIsAllowed ==
  ASSUME ReadInv, status = "open", pages' = Append(pages, Page),
         UNCHANGED <<runs, kind, stable>>
  PROVE  L!Give(IdsOf(Page))
<1>1. \A x : x \in Shown' <=> x \in Shown \cup IdsOf(Page)
  BY PageKeepsOrder
<1>2. Shown' = Shown \cup IdsOf(Page)
  BY <1>1
<1>3. IdsOf(Page) \cap Shown = {}
  <2>1. \A n \in 1..Len(pages) : \A q \in pages[n], r \in Page : r.id # q.id
    BY PageIsNew
  <2>2. QED BY <2>1, ShownIs DEF IdsOf
<1>4. Owed' = Owed
  BY DEF Owed, Encodable
<1>5. QED BY <1>2, <1>3, <1>4 DEF L!Give

\* Every step of a listing is a step of the abstract one or changes nothing there.
LEMMA StepMaps == ReadInv /\ [Next]_vars => [L!Next]_(L!vars)
<1> SUFFICES ASSUME ReadInv, [Next]_vars PROVE [L!Next]_(L!vars)
  OBVIOUS
<1>1. CASE UNCHANGED vars
  BY <1>1 DEF vars, L!vars, Shown, ShownRuns, IdsOf, Owed, Encodable
<1>2. ASSUME NEW r \in Run, InsertRun(r) PROVE UNCHANGED L!vars
  <2>1. /\ r.id \notin IdsOf(runs) /\ runs' = runs \cup {r}
        /\ UNCHANGED <<kind, status, cursor, pages, stable>>
    BY <1>2 DEF InsertRun, Listing
  <2>2. r.id \notin stable
    BY <2>1 DEF ReadInv, TypeOK
  <2>3. Shown' = Shown
    BY <2>1 DEF Shown, ShownRuns, IdsOf
  <2>4. Owed' = Owed
    BY <2>1, <2>2 DEF Owed, Encodable
  <2>5. QED BY <2>1, <2>3, <2>4 DEF L!vars
<1>3. ASSUME NEW r \in runs, (\E t \in Times : StartRun(r, t)) \/ RelabelRun(r)
      PROVE  L!Next
  <2>1. PICK s \in Run : /\ s.id = r.id /\ (r.at = NoTime \/ s.at = r.at)
                         /\ Rewrite(r, s)
    BY <1>3, RewriteIs DEF ReadInv
  <2>2. /\ runs' = (runs \ {r}) \cup {s} /\ stable' = stable \ {r.id}
        /\ UNCHANGED <<kind, status, cursor, pages>>
    BY <2>1 DEF Rewrite, Listing
  <2>3. \A q \in runs : q.id = r.id => q = r
    BY DEF ReadInv, TypeOK
  <2>4. Shown' = Shown
    BY <2>2 DEF Shown, ShownRuns, IdsOf
  <2>5. Owed' = Owed \ {r.id}
    BY <2>1, <2>2, <2>3 DEF Owed, Encodable
  <2>6. L!Release({r.id})
    BY <2>2, <2>4, <2>5 DEF L!Release
  <2>7. {r.id} \in SUBSET RunIds
    BY DEF ReadInv, TypeOK, Run
  <2>8. QED BY <2>6, <2>7 DEF L!Next
<1>4. ASSUME NEW k \in Kinds, BeginListing(k) PROVE L!Next
  <2>1. /\ status # "open" /\ status' = "open" /\ pages' = <<>> /\ runs' = runs
    BY <1>4 DEF BeginListing
  <2>2. Shown' = {}
    BY <2>1 DEF Shown, ShownRuns, IdsOf
  <2>3. Owed' \in SUBSET RunIds
    BY <2>1 DEF Owed, ReadInv, TypeOK, Run
  <2>4. L!Begin(Owed')
    BY <2>1, <2>2 DEF L!Begin
  <2>5. QED BY <2>3, <2>4 DEF L!Next
<1>5. IdsOf(Page) \in SUBSET RunIds
  BY DEF IdsOf, Page, Matching, ReadInv, TypeOK, Run
<1>6. ASSUME ReadPage PROVE L!Next
  <2>1. /\ status = "open" /\ status' = status /\ pages' = Append(pages, Page)
        /\ UNCHANGED <<runs, kind, stable>>
    BY <1>6 DEF ReadPage
  <2>2. L!Give(IdsOf(Page))
    BY <2>1, GivingIsAllowed
  <2>3. IdsOf(Page) # {}
    BY <1>6 DEF ReadPage, IdsOf
  <2>4. L!Continue(IdsOf(Page))
    BY <2>1, <2>2, <2>3 DEF L!Continue
  <2>5. QED BY <1>5, <2>4 DEF L!Next
<1>7. ASSUME ReadLastPage PROVE L!Next
  <2>1. /\ status = "open" /\ status' = "done" /\ ~HasMore /\ pages' = Append(pages, Page)
        /\ UNCHANGED <<runs, kind, stable>>
    BY <1>7 DEF ReadLastPage
  <2>2. L!Give(IdsOf(Page))
    BY <2>1, GivingIsAllowed
  <2>3. Owed \ Shown \subseteq IdsOf(Page)
    <3>1. ASSUME NEW q \in runs, q.id \in stable, Encodable(q), q.id \notin Shown
          PROVE  q.id \in IdsOf(Page)
      BY <2>1, <3>1, OwedMatches, LastPageIsAll DEF IdsOf
    <3>2. QED BY <3>1 DEF Owed
  <2>4. L!End(IdsOf(Page))
    BY <2>1, <2>2, <2>3 DEF L!End
  <2>5. QED BY <1>5, <2>4 DEF L!Next
<1>8. ASSUME FailToEncode PROVE L!Next
  <2>1. /\ status = "open" /\ status' = "failed"
        /\ UNCHANGED <<runs, kind, cursor, pages, stable>>
    BY <1>8 DEF FailToEncode
  <2>2. Shown' = Shown /\ Owed' = Owed
    BY <2>1 DEF Shown, ShownRuns, IdsOf, Owed, Encodable
  <2>3. L!Fail
    BY <2>1, <2>2 DEF L!Fail
  <2>4. QED BY <2>3 DEF L!Next
<1>9. QED
  BY <1>1, <1>2, <1>3, <1>4, <1>6, <1>7, <1>8 DEF Next, Write, Read

-----------------------------------------------------------------------------
(* Theorems *)

\* ReadInv holds in every reachable state.
LEMMA ReadAlways == Spec => []ReadInv
  BY ReadInit, ReadStep, PTL DEF Spec

(* A page holds runs and a cursor is the place of one, whatever becomes of    *)
(* the run it was made from (repositories/base.py).                          *)
THEOREM PagesAreTyped == Spec => []TypeOK
<1>1. ReadInv => TypeOK
  BY DEF ReadInv
<1>2. QED BY <1>1, ReadAlways, PTL

(* No run is on two pages of a listing, whatever is inserted or changes     *)
(* between two pages.                                                       *)
THEOREM NothingIsShownTwice == Spec => []ShownOnce
<1>1. ReadInv => ShownOnce
  BY DEF ReadInv
<1>2. QED BY <1>1, ReadAlways, PTL

(* The pages of a listing put together are in its order. *)
THEOREM PagesAreInOrder == Spec => []NewestFirst
<1>1. ReadInv => NewestFirst
  BY DEF ReadInv
<1>2. QED BY <1>1, ReadAlways, PTL

(* A listing that ends has shown every run that stayed unchanged, except *)
(* those without a start time beyond its first page or outside a window. *)
THEOREM ListingsAreComplete == Spec => []EveryRunShown
<1>1. ReadInv => EveryRunShown
  BY DEF ReadInv
<1>2. QED BY <1>1, ReadAlways, PTL

(* Cursor pagination implements the abstract listing: each row once, none of *)
(* those it owes left out.                                                   *)
THEOREM PagesImplementListing == Spec => KeepsItsPromise
<1>1. Init => L!Init
  <2> SUFFICES ASSUME Init PROVE L!Init
    OBVIOUS
  <2>1. Shown = {}
    BY DEF Init, Shown, ShownRuns, IdsOf
  <2>2. Owed = {}
    BY DEF Init, Owed
  <2>3. QED BY <2>1, <2>2 DEF Init, L!Init
<1>2. QED BY <1>1, StepMaps, ReadAlways, PTL DEF Spec, KeepsItsPromise, L!Spec
=============================================================================
