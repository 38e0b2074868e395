----------------------------- MODULE ReportsProofs -----------------------------
(***************************************************************************)
(* Theorems about Reports, for any runs and records, any size of a chunk   *)
(* and of a buffer, and any limits.                                        *)
(*                                                                         *)
(* ReportInv ties what a request has read to what it still has to read:    *)
(* nothing is read before the runs are (Fresh), and until it is refused,   *)
(* the records read are those that were due, none of them of a run whose   *)
(* turn is yet to come, and no more than the limit (Whole).                *)
(*                                                                         *)
(* AsAsked ties what has been read to what was asked for: a history holds  *)
(* runs of its scope; a comparison, the versions it chose (Chosen) and one *)
(* run of each (LookedUp), the newest there are while nothing is written,  *)
(* and no older than the runs that were there from the start (Weighed).    *)
(*                                                                         *)
(* What Insights makes of a report's runs and records is proved of any     *)
(* view of them; of the runs' rates it is only assumed that they are       *)
(* integers.                                                               *)
(***************************************************************************)
EXTENDS Reports, FiniteSetTheorems, WellFoundedInduction, TLAPS

Fresh == phase \in {"start", "candidate", "baseline"} => left = {} /\ got = {} /\ due = {}

Whole ==
  phase # "refused" =>
    /\ got = due
    /\ \A c \in got : c[1] \notin left
    /\ req.kind = "insights" => Cardinality(got) <= CaseLimit

ReportInv == scenario \in Scenarios /\ TypeOK /\ Fresh /\ Whole

-----------------------------------------------------------------------------
(* Runs and their records *)

\* The runs of a scenario are numbered from 1, and so are the records of each.
LEMMA Numbered ==
  ASSUME scenario \in Scenarios
  PROVE  /\ Len(docs) \in Nat /\ All = 1..Len(docs) /\ scenario.old \in 0..Len(docs)
         /\ \A i \in All : Len(docs[i].cases) \in Nat /\ DOMAIN docs[i].cases = 1..Len(docs[i].cases)
         /\ req.kind \in Kinds
  BY ScenariosAssumption DEF docs, All, req

\* There are finitely many records.
LEMMA RecordsFinite ==
  ASSUME scenario \in Scenarios
  PROVE  IsFiniteSet(CasesIn(All))
<1> DEFINE sets == {CasesOf(i) : i \in All}
<1> DEFINE f    == [i \in All |-> CasesOf(i)]
<1>1. IsFiniteSet(All)
  BY Numbered, FS_Interval
<1>2. f \in Surjection(All, sets)
  BY DEF Surjection
<1>3. IsFiniteSet(sets)
  <2> HIDE DEF f, sets
  <2> QED BY <1>1, <1>2, FS_Surjection
<1>4. \A T \in sets : IsFiniteSet(T)
  <2>1. SUFFICES ASSUME NEW i \in All PROVE IsFiniteSet(CasesOf(i))
    OBVIOUS
  <2>2. DOMAIN docs[i].cases = 1..Len(docs[i].cases) /\ Len(docs[i].cases) \in Int
    BY Numbered
  <2>3. IsFiniteSet(DOMAIN docs[i].cases)
    <3>1. IsFiniteSet(1..Len(docs[i].cases))
      BY <2>2, FS_Interval
    <3>2. QED BY <2>2, <3>1
  <2>4. QED BY <2>3, FS_Singleton, FS_Product DEF CasesOf
<1>5. IsFiniteSet(UNION sets)
  <2> HIDE DEF sets
  <2> QED BY <1>3, <1>4, FS_UNION
<1>6. QED BY <1>5 DEF CasesIn

\* Records belong to their runs.
LEMMA RecordsOfRuns ==
  ASSUME NEW S, NEW T, S \subseteq T
  PROVE  /\ CasesIn(S) \subseteq CasesIn(T)
         /\ \A c \in CasesIn(T) : c[1] \in T /\ c \in CasesOf(c[1])
         /\ \A c \in CasesIn(T) : c[1] \in S => c \in CasesIn(S)
  BY DEF CasesIn, CasesOf

\* What was read, and what is due, is finite.
LEMMA ReadFinite ==
  ASSUME ReportInv
  PROVE  IsFiniteSet(got) /\ IsFiniteSet(due) /\ IsFiniteSet(cases)
<1>1. CasesIn(found) \subseteq CasesIn(All)
  BY RecordsOfRuns DEF ReportInv, TypeOK
<1>2. got \in SUBSET CasesIn(All) /\ due \in SUBSET CasesIn(All) /\ cases \in SUBSET CasesIn(All)
  BY <1>1 DEF ReportInv, TypeOK
<1>3. QED BY <1>2, RecordsFinite, FS_Subset DEF ReportInv

\* Insights selects among the runs it is given.
LEMMA SelectsAmong ==
  ASSUME NEW S
  PROVE  InsightsRuns(S) \subseteq S
  BY DEF InsightsRuns, I!Select

\* A comparison finds runs that are stored.
LEMMA ComparesStored ==
  ASSUME NEW v
  PROVE  C!LatestRunForVersion(docs, runs, req, v) \subseteq runs
  BY DEF C!LatestRunForVersion, C!LatestRunsByVersion, C!Candidates

-----------------------------------------------------------------------------
(* Each step keeps the invariant *)

\* ReportInv holds before the first request,
LEMMA InitInv == Init => ReportInv
<1> SUFFICES ASSUME Init PROVE ReportInv
  OBVIOUS
<1>1. 1..scenario.old \subseteq All
  BY Numbered DEF Init
<1>2. CasesIn(1..scenario.old) \subseteq CasesIn(All) /\ CasesIn({}) = {}
  BY <1>1, RecordsOfRuns DEF CasesIn
<1>3. Cardinality({}) = 0
  BY FS_EmptySet
<1>4. QED
  BY <1>1, <1>2, <1>3, BoundsAssumption DEF Init, ReportInv, TypeOK, Fresh, Whole

\* The script leaves the request alone, and writes runs and records of the scenario.
LEMMA ScriptInv ==
  ASSUME ReportInv, Script
  PROVE  ReportInv'
<1>1. UNCHANGED <<scenario, phase, found, left, got, due>>
  BY DEF Script, request
<1>2. /\ runs' \subseteq All /\ cases' \subseteq CasesIn(All)
      /\ job' \in {"none", "seed", "cleanup"} /\ quiet' \in BOOLEAN
  <2>1. Batch \subseteq All /\ CasesIn(Batch) \subseteq CasesIn(All)
    BY RecordsOfRuns DEF Batch
  <2>2. CASE StartSeed
    BY <2>2 DEF StartSeed, ReportInv, TypeOK
  <2>3. CASE Insert
    BY <2>1, <2>3 DEF Insert, InsertableRuns, InsertableCases, Written, ReportInv, TypeOK
  <2>4. CASE StartCleanup
    BY <2>4 DEF StartCleanup, ReportInv, TypeOK
  <2>5. CASE Delete
    BY <2>5 DEF Delete, Written, ReportInv, TypeOK
  <2>6. CASE EndJob
    BY <2>6 DEF EndJob, ReportInv, TypeOK
  <2>7. QED BY <2>2, <2>3, <2>4, <2>5, <2>6 DEF Script
<1>3. /\ docs' = docs /\ req' = req /\ All' = All
      /\ CasesIn(All)' = CasesIn(All) /\ CasesIn(found)' = CasesIn(found)
  BY <1>1 DEF docs, req, All, CasesIn, CasesOf
<1>4. QED BY <1>1, <1>2, <1>3 DEF ReportInv, TypeOK, Fresh, Whole

\* Reading the runs starts from nothing read.
LEMMA ReadRunsInv ==
  ASSUME ReportInv, UNCHANGED <<scenario, runs, cases, job, quiet>>,
         ReadHistoryRuns \/ ReadInsightsRuns
  PROVE  ReportInv'
<1>1. left' \subseteq found' /\ found' \subseteq runs
  <2>1. CASE ReadHistoryRuns
    BY <2>1 DEF ReadHistoryRuns
  <2>2. CASE ReadInsightsRuns
    BY <2>2, SelectsAmong DEF ReadInsightsRuns
  <2>3. QED BY <2>1, <2>2
<1>2. /\ got = {} /\ due = {} /\ got' = {} /\ due' = {}
      /\ phase' \in {"answered", "refused", "cases"}
  BY DEF ReadHistoryRuns, ReadInsightsRuns, ReportInv, Fresh
<1>3. Cardinality({}) = 0 /\ 0 <= CaseLimit
  BY FS_EmptySet, BoundsAssumption
<1>4. /\ docs' = docs /\ req' = req /\ All' = All
      /\ CasesIn(All)' = CasesIn(All)
  BY DEF docs, req, All, CasesIn, CasesOf
<1>5. QED BY <1>1, <1>2, <1>3, <1>4 DEF ReportInv, TypeOK, Fresh, Whole

\* So does choosing what to compare.
LEMMA ChooseInv ==
  ASSUME ReportInv, UNCHANGED <<scenario, runs, cases, job, quiet>>,
         ReadVersions \/ ReadCandidate \/ ReadBaseline
  PROVE  ReportInv'
<1>1. left' \subseteq found' /\ found' \subseteq All
  <2>1. CASE ReadVersions
    BY <2>1 DEF ReadVersions, ReportInv, TypeOK
  <2>2. CASE ReadCandidate
    BY <2>2, ComparesStored DEF ReadCandidate, ReportInv, TypeOK, Fresh
  <2>3. CASE ReadBaseline
    BY <2>3, ComparesStored DEF ReadBaseline, ReportInv, TypeOK
  <2>4. QED BY <2>1, <2>2, <2>3
<1>2. /\ left = {} /\ got = {} /\ due = {} /\ got' = {} /\ due' = {}
      /\ phase' \in {"candidate", "baseline", "refused", "cases"}
      /\ phase' \in {"candidate", "baseline"} => left' = {}
  BY DEF ReadVersions, ReadCandidate, ReadBaseline, ReportInv, Fresh
<1>3. Cardinality({}) = 0 /\ 0 <= CaseLimit
  BY FS_EmptySet, BoundsAssumption
<1>4. /\ docs' = docs /\ req' = req /\ All' = All
      /\ CasesIn(All)' = CasesIn(All)
  BY DEF docs, req, All, CasesIn, CasesOf
<1>5. QED BY <1>1, <1>2, <1>3, <1>4 DEF ReportInv, TypeOK, Fresh, Whole

\* One record more than the limit is asked for in all, so whatever a chunk
\* leaves out carries what was read over the limit.
LEMMA ReadCasesInv ==
  ASSUME ReportInv, UNCHANGED <<scenario, runs, cases, job, quiet>>, ReadCases
  PROVE  ReportInv'
<1> DEFINE matched == {c \in cases : c[1] \in Chunk}
<1>1. PICK b \in Batches(matched) : got' = got \cup b
  BY DEF ReadCases
<1>2. /\ phase = "cases" /\ left' = left \ Chunk /\ due' = due \cup matched /\ found' = found
      /\ phase' = IF req.kind = "insights" /\ Cardinality(got') > CaseLimit THEN "refused"
                  ELSE IF left' = {} THEN "answered" ELSE "cases"
  BY DEF ReadCases
<1>3. b \subseteq matched /\ Chunk \subseteq left
  BY DEF Batches, Chunk
<1>4. matched \subseteq CasesIn(found)
  <2>1. Chunk \subseteq found /\ found \subseteq All /\ cases \subseteq CasesIn(All)
    BY <1>3 DEF ReportInv, TypeOK
  <2>2. QED BY <2>1, RecordsOfRuns
<1>5. /\ docs' = docs /\ req' = req /\ All' = All
      /\ CasesIn(All)' = CasesIn(All) /\ CasesIn(found)' = CasesIn(found)
  BY <1>2 DEF docs, req, All, CasesIn, CasesOf
<1>6. scenario' \in Scenarios /\ TypeOK' /\ Fresh'
  BY <1>1, <1>2, <1>3, <1>4, <1>5 DEF ReportInv, TypeOK, Fresh
<1>7. got = due /\ \A c \in got : c[1] \notin left
  BY <1>2 DEF ReportInv, Whole
<1>8. \A c \in got' : c[1] \notin left'
  BY <1>1, <1>2, <1>3, <1>7
<1>9. ASSUME phase' # "refused" PROVE b = matched
  <2>1. SUFFICES ASSUME b # matched PROVE FALSE
    OBVIOUS
  <2>2. req.kind = "insights" /\ Cardinality(b) = Remaining(got)
    BY <2>1 DEF Batches
  <2>3. IsFiniteSet(got) /\ IsFiniteSet(b)
    BY <1>3, ReadFinite, FS_Subset
  <2>4. got \cap b = {}
    BY <1>3, <1>7
  <2>5. Cardinality(got') = Cardinality(got) + Cardinality(b) - Cardinality(got \cap b)
    BY <1>1, <2>3, FS_Union
  <2>6. Cardinality(got \cap b) = 0 /\ Cardinality(got) \in Nat /\ CaseLimit \in Nat
    BY <2>3, <2>4, FS_EmptySet, FS_CardinalityType, BoundsAssumption
  <2>7. Cardinality(got') = CaseLimit + 1
    BY <2>2, <2>5, <2>6 DEF Remaining
  <2>8. QED BY <1>2, <1>9, <2>2, <2>6, <2>7
<1>10. Whole'
  <2>1. ASSUME phase' # "refused", req.kind = "insights" PROVE Cardinality(got') <= CaseLimit
    <3>1. IsFiniteSet(got) /\ IsFiniteSet(b)
      BY <1>3, ReadFinite, FS_Subset
    <3>2. Cardinality(got') \in Nat /\ CaseLimit \in Nat
      BY <1>1, <3>1, FS_Union, FS_CardinalityType, BoundsAssumption
    <3>3. QED BY <1>2, <2>1, <3>2
  <2>2. QED BY <1>1, <1>2, <1>5, <1>7, <1>8, <1>9, <2>1 DEF Whole
<1>11. QED BY <1>6, <1>10 DEF ReportInv

\* is kept by every step,
LEMMA NextInv == ReportInv /\ [Next]_vars => ReportInv'
<1> SUFFICES ASSUME ReportInv, [Next]_vars PROVE ReportInv'
  OBVIOUS
<1>1. CASE Script
  BY <1>1, ScriptInv
<1>2. CASE Request
  BY <1>2, ReadRunsInv, ChooseInv, ReadCasesInv DEF Request
<1>3. CASE UNCHANGED vars
  BY <1>3 DEF vars, ReportInv, TypeOK, Fresh, Whole, docs, req, All, CasesIn, CasesOf
<1>4. QED BY <1>1, <1>2, <1>3 DEF Next

\* and so is always so: the invariant every theorem below rests on.
THEOREM ReportInvariant == Spec => []ReportInv
BY InitInv, NextInv, PTL DEF Spec

-----------------------------------------------------------------------------
(* What reports promise *)

\* Reports.TypeOK.
THEOREM TypeCorrect == Spec => []TypeOK
<1>1. ReportInv => TypeOK
  BY DEF ReportInv
<1>2. QED BY <1>1, ReportInvariant, PTL

\* Reports.WholeOrRefused: no report rests on part of the records of a chunk,
\* whatever the limits.
THEOREM AnswersAreWhole == Spec => []WholeOrRefused
<1>1. ReportInv => WholeOrRefused
  BY DEF ReportInv, Whole, WholeOrRefused
<1>2. QED BY <1>1, ReportInvariant, PTL

\* The places of a sequence of n are n.
LEMMA UpTo ==
  ASSUME NEW n \in Nat
  PROVE  IsFiniteSet(1..n) /\ Cardinality(1..n) = n
<1>1. /\ IsFiniteSet(1..n)
      /\ Cardinality(1..n) = IF 1 > n THEN 0 ELSE n - 1 + 1
  BY FS_Interval
<1>2. (IF 1 > n THEN 0 ELSE n - 1 + 1) = n
  OBVIOUS
<1>3. QED BY <1>1, <1>2

\* The records of a run that passes for complete, if its summary counts those
\* there are, are all of them.
LEMMA CompleteRun ==
  ASSUME ReportInv, NEW i \in found, Run(i).complete, Honest(docs[i])
  PROVE  {c[2] : c \in {d \in got : d[1] = i}} = DOMAIN docs[i].cases
<1> DEFINE ks == {c[2] : c \in {d \in got : d[1] = i}}
<1>1. i \in All
  BY DEF ReportInv, TypeOK
<1>2. ks \subseteq DOMAIN docs[i].cases
  <2>1. \A c \in got : c \in CasesOf(c[1])
    BY RecordsOfRuns DEF ReportInv, TypeOK
  <2>2. QED BY <2>1 DEF CasesOf
<1>3. Cardinality(ks) = Len(docs[i].cases)
  <2>1. Run(i).complete = H!CasesComplete(docs[i], ks)
    BY DEF Run, H!Prepared
  <2>2. docs[i].total = H!Cardinality(ks)
    BY <2>1 DEF H!CasesComplete
  <2>3. H!Cardinality(ks) = Cardinality(ks)
    BY DEF H!Cardinality, Cardinality
  <2>4. QED BY <2>2, <2>3 DEF Honest
<1>4. /\ Len(docs[i].cases) \in Nat /\ DOMAIN docs[i].cases = 1..Len(docs[i].cases)
  BY <1>1, Numbered DEF ReportInv
<1>5. IsFiniteSet(1..Len(docs[i].cases)) /\ Cardinality(1..Len(docs[i].cases)) = Len(docs[i].cases)
  <2> HIDE DEF ks
  <2> QED BY <1>4, UpTo
<1>6. QED
  <2> HIDE DEF ks
  <2>1. ks \in SUBSET (1..Len(docs[i].cases))
    BY <1>2, <1>4
  <2>2. Cardinality(ks) = Cardinality(1..Len(docs[i].cases)) => ks = 1..Len(docs[i].cases)
    BY <2>1, <1>5, FS_Subset
  <2>3. ks = DOMAIN docs[i].cases
    BY <1>3, <1>4, <1>5, <2>2
  <2> QED BY <2>3 DEF ks

\* Reports.CompleteMeansRecorded.
THEOREM CompleteRunsAreRecorded == Spec => []CompleteMeansRecorded
<1>1. ASSUME ReportInv PROVE CompleteMeansRecorded
  <2>1. SUFFICES ASSUME NEW i \in found, Run(i).complete, Honest(docs[i]), NEW c \in CasesOf(i)
                 PROVE  c \in got
    BY DEF CompleteMeansRecorded
  <2>2. c[1] = i /\ c[2] \in DOMAIN docs[i].cases /\ c = <<i, c[2]>>
    BY DEF CasesOf
  <2>3. PICK d \in got : d[1] = i /\ d[2] = c[2]
    BY <2>1, <2>2, <1>1, CompleteRun
  <2>4. d \in CasesOf(i)
    BY <2>3, <1>1, RecordsOfRuns DEF ReportInv, TypeOK
  <2>5. QED BY <2>2, <2>3, <2>4 DEF CasesOf
<1>2. QED BY <1>1, ReportInvariant, PTL

-----------------------------------------------------------------------------
(* The ends of a set of numbers *)

\* A set of natural numbers has a least.
LEMMA HasLeast ==
  ASSUME NEW S \in SUBSET Nat, S # {}
  PROVE  \E x \in S : \A y \in S : x <= y
<1> DEFINE R == OpToRel(<, Nat)
<1>1. IsWellFoundedOn(R, Nat)
  BY NatLessThanWellFounded
<1>2. PICK x \in S : \A y \in S : ~ (<<y, x>> \in R)
  <2> HIDE DEF R
  <2> QED BY <1>1, WFMin
<1>3. \A y \in S : ~ (y < x)
  BY <1>2 DEF OpToRel
<1>4. QED BY <1>3

\* A set within 1..n has a greatest.
LEMMA HasGreatest ==
  ASSUME NEW n \in Nat, NEW S \in SUBSET (1..n), S # {}
  PROVE  \E x \in S : \A y \in S : x >= y
<1> DEFINE T == {n - y : y \in S}
<1>1. T \in SUBSET Nat /\ T # {}
  <2>1. \A y \in S : n - y \in Nat
    OBVIOUS
  <2>2. PICK y \in S : TRUE
    OBVIOUS
  <2>3. n - y \in T
    OBVIOUS
  <2>4. QED BY <2>1, <2>3
<1>2. PICK t \in T : \A u \in T : t <= u
  BY <1>1, HasLeast
<1>3. PICK x \in S : t = n - x
  BY <1>2
<1>4. \A y \in S : n - x <= n - y
  BY <1>2, <1>3
<1>5. \A y \in S : x >= y
  BY <1>4
<1>6. QED BY <1>5

-----------------------------------------------------------------------------
(* What a comparison has chosen *)

LatestOf(v) == C!LatestRunForVersion(docs, runs, req, v)

\* The runs that were there from the start, and those that may ever be.
OldRuns == C!Candidates(docs, 1..scenario.old, req)
AnyRuns == C!Candidates(docs, All, req)

\* The versions are those asked for, or each that of a run no earlier than any
\* that was there from the start and could have been taken for it.
Weighed ==
  /\ IF req.candidate # None THEN versions[1] = req.candidate
     ELSE \A i \in OldRuns : \E k \in AnyRuns : C!Version(docs[k]) = versions[1] /\ i <= k
  /\ IF req.baseline # None THEN versions[2] = req.baseline
     ELSE \A i \in OldRuns : C!Version(docs[i]) # versions[1] =>
             \E k \in AnyRuns : C!Version(docs[k]) = versions[2] /\ i <= k

\* The versions a comparison is about, while it reads on; those of the runs
\* that are there now, if nothing was written since they were chosen.
Chosen ==
  /\ \E c, b : versions = <<c, b>> /\ b # None /\ b # c
  /\ quiet => /\ C!LatestRunsByVersion(docs, runs, req) # {}
              /\ versions = <<C!CandidateVersion(docs, runs, req),
                              C!BaselineVersion(docs, runs, req)>>
  /\ Weighed

\* S is the run that was looked up for version v, if there was one.
LookedUp(S, v) ==
  /\ S \subseteq All
  /\ \A i, j \in S : i = j
  /\ \A i \in S : C!Version(docs[i]) = v /\ v # None
  /\ quiet => S = LatestOf(v)
  /\ \A i \in OldRuns, j \in S : C!Version(docs[i]) = v => i <= j

\* A history holds runs of its scope; a comparison, the runs of its versions.
AsAsked ==
  /\ 1..scenario.old \subseteq runs
  /\ req.kind = "history" => \A i \in found : H!InScope(docs[i], req)
  /\ phase \in {"candidate", "baseline"} => req.kind = "comparison"
  /\ req.kind = "comparison" =>
        /\ phase \in {"candidate", "baseline", "cases", "answered"} => Chosen
        /\ phase = "baseline" => LookedUp(found, versions[1])
        /\ phase \in {"cases", "answered"} =>
              \E c, b \in All : /\ found = {c, b}
                                /\ LookedUp({c}, versions[1]) /\ LookedUp({b}, versions[2])

\* The latest run of a version is one run.
LEMMA LatestIsOne ==
  ASSUME ReportInv, NEW v
  PROVE  /\ LatestOf(v) \subseteq All
         /\ \A i, j \in LatestOf(v) : i = j
         /\ \A i \in LatestOf(v) : C!Version(docs[i]) = v /\ v # None
<1>1. LatestOf(v) \subseteq runs /\ runs \subseteq All /\ All \subseteq Int
  BY Numbered, ComparesStored DEF ReportInv, TypeOK, LatestOf
<1>2. \A i \in LatestOf(v) :
         /\ i \in C!LatestRunsByVersion(docs, runs, req)
         /\ C!Version(docs[i]) = v /\ v # None
  BY DEF LatestOf, C!LatestRunForVersion
<1>3. \A i, j \in LatestOf(v) : i <= j /\ j <= i
  BY <1>2 DEF C!LatestRunsByVersion
<1>4. ASSUME NEW i \in LatestOf(v), NEW j \in LatestOf(v) PROVE i = j
  <2>1. i \in Int /\ j \in Int
    BY <1>1
  <2>2. QED BY <1>3, <2>1
<1>5. QED BY <1>1, <1>2, <1>4

\* Every candidate has a latest run of its version, which is no earlier.
LEMMA LatestOfItsVersion ==
  ASSUME ReportInv, NEW i \in C!Candidates(docs, runs, req)
  PROVE  \E l \in C!LatestRunsByVersion(docs, runs, req) :
            C!Version(docs[l]) = C!Version(docs[i]) /\ i <= l
<1> DEFINE S == {j \in C!Candidates(docs, runs, req) : C!Version(docs[j]) = C!Version(docs[i])}
<1>1. S \in SUBSET (1..Len(docs)) /\ Len(docs) \in Nat /\ i \in S
  BY Numbered DEF C!Candidates, ReportInv, TypeOK
<1>2. PICK l \in S : \A j \in S : l >= j
  <2> HIDE DEF S
  <2> QED BY <1>1, HasGreatest
<1>3. \A j \in S : j \in Int
  <2> HIDE DEF S
  <2> QED BY <1>1
<1>4. \A j \in S : j <= l
  <2> HIDE DEF S
  <2> QED BY <1>2, <1>3
<1>5. l \in C!LatestRunsByVersion(docs, runs, req)
  BY <1>2, <1>4 DEF C!LatestRunsByVersion
<1>6. QED BY <1>1, <1>4, <1>5

\* The latest version of some runs is that of the last of them.
LEMMA LatestVersionIsLast ==
  ASSUME ReportInv, NEW S \in SUBSET All, S # {}
  PROVE  \E m \in S : C!LatestVersion(docs, S) = C!Version(docs[m]) /\ \A j \in S : j <= m
<1>1. S \in SUBSET (1..Len(docs)) /\ Len(docs) \in Nat
  BY Numbered DEF ReportInv
<1>2. \E x \in S : \A y \in S : x >= y
  BY <1>1, HasGreatest
<1>3. C!LatestVersion(docs, S) = C!Version(docs[CHOOSE x \in S : \A y \in S : x >= y])
  BY DEF C!LatestVersion, C!Max
<1>4. \A x, y \in S : x >= y => y <= x
  BY <1>1
<1>5. QED BY <1>2, <1>3, <1>4

\* The run looked up for the latest version of some runs, one of each version,
\* is the last of them.
LEMMA LastIsLookedUp ==
  ASSUME ReportInv, NEW S \in SUBSET C!LatestRunsByVersion(docs, runs, req), S # {},
         NEW c, LatestOf(C!LatestVersion(docs, S)) = {c}
  PROVE  \A j \in S : j <= c
<1> DEFINE L == C!LatestRunsByVersion(docs, runs, req)
<1>1. L \in SUBSET All /\ All \in SUBSET Int /\ S \in SUBSET All
  BY Numbered DEF C!LatestRunsByVersion, C!Candidates, ReportInv, TypeOK
<1>2. PICK m \in S : C!LatestVersion(docs, S) = C!Version(docs[m]) /\ \A j \in S : j <= m
  BY <1>1, LatestVersionIsLast
<1>3. c \in L /\ C!Version(docs[c]) = C!Version(docs[m]) /\ m \in L
  BY <1>2 DEF LatestOf, C!LatestRunForVersion
<1>4. m <= c
  BY <1>3 DEF C!LatestRunsByVersion
<1>5. SUFFICES ASSUME NEW j \in S PROVE j <= c
  OBVIOUS
<1>6. j \in Int /\ m \in Int /\ c \in Int /\ j <= m
  <2> HIDE DEF L
  <2> QED BY <1>1, <1>2, <1>3
<1>7. QED BY <1>4, <1>6

\* A run with a version is no later than the run found for that version.
LEMMA NoneLater ==
  ASSUME ReportInv, NEW i \in C!Candidates(docs, runs, req), NEW v, NEW c,
         LatestOf(v) = {c}, C!Version(docs[i]) = v
  PROVE  i <= c
<1>1. c \in LatestOf(v)
  OBVIOUS
<1>2. c \in C!LatestRunsByVersion(docs, runs, req) /\ C!Version(docs[c]) = v
  BY <1>1 DEF LatestOf, C!LatestRunForVersion
<1>3. QED BY <1>2 DEF C!LatestRunsByVersion

\* The run looked up for a version is no older than those that were there from
\* the start.
LEMMA OldIsNotLater ==
  ASSUME ReportInv, 1..scenario.old \subseteq runs, NEW v,
         NEW i \in OldRuns, NEW j \in LatestOf(v), C!Version(docs[i]) = v
  PROVE  i <= j
<1>1. i \in C!Candidates(docs, runs, req)
  BY DEF OldRuns, C!Candidates
<1>2. LatestOf(v) = {j}
  BY LatestIsOne
<1>3. QED BY <1>1, <1>2, NoneLater

\* A version that is chosen as the latest of some of them, one run of each, is
\* that of a run no earlier than any run of those versions.
LEMMA LatestIsWeighed ==
  ASSUME ReportInv, NEW S \in SUBSET C!LatestRunsByVersion(docs, runs, req),
         NEW i \in C!Candidates(docs, runs, req),
         \A l \in C!LatestRunsByVersion(docs, runs, req) :
            C!Version(docs[l]) = C!Version(docs[i]) => l \in S
  PROVE  \E k \in AnyRuns : C!Version(docs[k]) = C!LatestVersion(docs, S) /\ i <= k
<1>1. PICK l \in C!LatestRunsByVersion(docs, runs, req) :
          C!Version(docs[l]) = C!Version(docs[i]) /\ i <= l
  BY LatestOfItsVersion
<1>2. l \in S
  BY <1>1
<1>3. /\ C!LatestRunsByVersion(docs, runs, req) \subseteq C!Candidates(docs, runs, req)
      /\ C!Candidates(docs, runs, req) \subseteq runs /\ runs \subseteq All /\ All \subseteq Int
      /\ C!Candidates(docs, runs, req) \subseteq AnyRuns
  BY Numbered DEF C!LatestRunsByVersion, C!Candidates, AnyRuns, ReportInv, TypeOK
<1>4. PICK m \in S : C!LatestVersion(docs, S) = C!Version(docs[m]) /\ \A j \in S : j <= m
  BY <1>2, <1>3, LatestVersionIsLast
<1>5. m \in AnyRuns /\ l <= m /\ i \in Int /\ l \in Int /\ m \in Int
  BY <1>2, <1>3, <1>4
<1>6. QED BY <1>1, <1>4, <1>5

\* Versions chosen by the runs that are there weigh those that always were.
LEMMA VersionsAreWeighed ==
  ASSUME ReportInv, 1..scenario.old \subseteq runs,
         versions' = <<C!CandidateVersion(docs, runs, req), C!BaselineVersion(docs, runs, req)>>,
         scenario' = scenario
  PROVE  Weighed'
<1> DEFINE v == C!CandidateVersion(docs, runs, req)
           w == C!BaselineVersion(docs, runs, req)
           L == C!LatestRunsByVersion(docs, runs, req)
<1>1. docs' = docs /\ req' = req /\ All' = All /\ OldRuns' = OldRuns /\ AnyRuns' = AnyRuns
  BY DEF docs, req, All, OldRuns, AnyRuns
<1>2. OldRuns \subseteq C!Candidates(docs, runs, req)
  BY DEF OldRuns, C!Candidates
<1>3. versions'[1] = v /\ versions'[2] = w
  OBVIOUS
<1>4. /\ req.candidate # None => v = req.candidate
      /\ req.baseline # None => w = req.baseline
  BY DEF C!CandidateVersion, C!BaselineVersion
<1>5. ASSUME req.candidate = None, NEW i \in OldRuns
      PROVE  \E k \in AnyRuns : C!Version(docs[k]) = v /\ i <= k
  <2>1. v = C!LatestVersion(docs, L)
    BY <1>5 DEF C!CandidateVersion
  <2>2. \E k \in AnyRuns : C!Version(docs[k]) = C!LatestVersion(docs, L) /\ i <= k
    BY <1>2, <1>5, LatestIsWeighed
  <2>3. QED BY <2>1, <2>2
<1>6. ASSUME req.baseline = None, NEW i \in OldRuns, C!Version(docs[i]) # v
      PROVE  \E k \in AnyRuns : C!Version(docs[k]) = w /\ i <= k
  <2> DEFINE S == {l \in L : C!Version(docs[l]) # v}
  <2>1. w = C!LatestVersion(docs, S)
    BY <1>6 DEF C!BaselineVersion
  <2>2. \E k \in AnyRuns : C!Version(docs[k]) = C!LatestVersion(docs, S) /\ i <= k
    <3>1. S \in SUBSET L /\ \A l \in L : C!Version(docs[l]) = C!Version(docs[i]) => l \in S
      BY <1>6
    <3>2. i \in C!Candidates(docs, runs, req)
      BY <1>2, <1>6
    <3> HIDE DEF S
    <3>3. QED BY <3>1, <3>2, LatestIsWeighed
  <2>3. QED BY <2>1, <2>2
<1>7. QED
  <2> HIDE DEF v, w
  <2> QED BY <1>1, <1>3, <1>4, <1>5, <1>6 DEF Weighed

\* While nothing is written the runs stay.
LEMMA QuietStays ==
  ASSUME ReportInv, Script
  PROVE  /\ UNCHANGED <<scenario, phase, versions, found>>
         /\ quiet' /\ phase # "start" => quiet /\ runs' = runs
         /\ 1..scenario.old \subseteq runs => 1..scenario.old \subseteq runs'
<1>1. scenario' = scenario /\ phase' = phase /\ versions' = versions /\ found' = found
  BY DEF Script, request
<1>2. CASE StartSeed \/ StartCleanup \/ EndJob
  BY <1>1, <1>2 DEF StartSeed, StartCleanup, EndJob
<1>3. CASE Insert \/ Delete
  <2>1. quiet' = (quiet /\ phase = "start")
    BY <1>3 DEF Insert, Delete, Written
  <2>2. \A i \in 1..scenario.old : i \notin Batch
    <3>1. scenario.old \in Int
      BY Numbered DEF ReportInv
    <3>2. QED BY <3>1 DEF Batch
  <2>3. 1..scenario.old \subseteq runs => 1..scenario.old \subseteq runs'
    BY <1>3, <2>2 DEF Insert, Delete
  <2>4. QED BY <1>1, <2>1, <2>3
<1>4. QED BY <1>2, <1>3 DEF Script

\* Reports.Script keeps to what was asked.
LEMMA AskedScript ==
  ASSUME ReportInv, AsAsked, Script
  PROVE  AsAsked'
<1>1. /\ scenario' = scenario /\ phase' = phase /\ versions' = versions /\ found' = found
      /\ quiet' /\ phase # "start" => quiet /\ runs' = runs
      /\ 1..scenario.old \subseteq runs'
  BY QuietStays DEF AsAsked
<1>2. docs' = docs /\ req' = req /\ All' = All /\ OldRuns' = OldRuns /\ (Weighed => Weighed')
  BY <1>1 DEF docs, req, All, OldRuns, AnyRuns, Weighed
<1>3. ASSUME phase # "start", Chosen PROVE Chosen'
  BY <1>1, <1>2, <1>3 DEF Chosen
<1>4. ASSUME phase # "start", NEW S, NEW v, LookedUp(S, v) PROVE LookedUp(S, v)'
  BY <1>1, <1>2, <1>4 DEF LookedUp, LatestOf
<1>5. phase = "baseline" /\ LookedUp(found, versions[1]) => LookedUp(found, versions[1])'
  BY <1>1, <1>2 DEF LookedUp, LatestOf
<1>6. \A c, b \in All : found = {c, b} /\ LookedUp({c}, versions[1]) /\ LookedUp({b}, versions[2]) /\ phase # "start"
         => LookedUp({c}, versions[1])' /\ LookedUp({b}, versions[2])'
  BY <1>1, <1>2 DEF LookedUp, LatestOf
<1>7. QED BY <1>1, <1>2, <1>3, <1>5, <1>6 DEF AsAsked

\* Reports.Request does.
LEMMA AskedRequest ==
  ASSUME ReportInv, AsAsked, Request
  PROVE  AsAsked'
<1>0. /\ scenario' = scenario /\ runs' = runs /\ quiet' = quiet
      /\ docs' = docs /\ req' = req /\ All' = All /\ OldRuns' = OldRuns
      /\ 1..scenario.old \subseteq runs
      /\ versions' = versions /\ Weighed => Weighed'
  BY DEF Request, docs, req, All, AsAsked, OldRuns, AnyRuns, Weighed
<1>1. CASE ReadHistoryRuns
  BY <1>0, <1>1 DEF ReadHistoryRuns, AsAsked
<1>2. CASE ReadInsightsRuns
  BY <1>0, <1>2 DEF ReadInsightsRuns, AsAsked
<1>3. CASE ReadCases
  <2>1. /\ phase = "cases" /\ phase' \in {"refused", "answered", "cases"}
        /\ versions' = versions /\ found' = found
    BY <1>3 DEF ReadCases
  <2>2. Chosen => Chosen'
    BY <1>0, <2>1 DEF Chosen
  <2>3. \A c, b \in All : LookedUp({c}, versions[1]) /\ LookedUp({b}, versions[2])
         => LookedUp({c}, versions[1])' /\ LookedUp({b}, versions[2])'
    BY <1>0, <2>1 DEF LookedUp, LatestOf
  <2>4. QED BY <1>0, <2>1, <2>2, <2>3 DEF AsAsked
<1>4. CASE ReadVersions
  <2>1. /\ req.kind = "comparison" /\ phase' \in {"refused", "candidate"}
        /\ versions' = <<C!CandidateVersion(docs, runs, req), C!BaselineVersion(docs, runs, req)>>
        /\ phase' = "candidate" =>
              /\ C!LatestRunsByVersion(docs, runs, req) # {}
              /\ C!BaselineVersion(docs, runs, req) \notin {None, C!CandidateVersion(docs, runs, req)}
    BY <1>4 DEF ReadVersions
  <2>2. phase' = "candidate" => Chosen'
    BY <1>0, <2>1, VersionsAreWeighed DEF Chosen
  <2>3. QED BY <1>0, <2>1, <2>2 DEF AsAsked
<1>5. CASE ReadCandidate
  <2>1. /\ phase = "candidate" /\ phase' = "baseline" /\ versions' = versions
        /\ found' = LatestOf(versions[1])
    BY <1>5 DEF ReadCandidate, LatestOf
  <2>2. Chosen => Chosen'
    BY <1>0, <2>1 DEF Chosen
  <2>3. LookedUp(found, versions[1])'
    BY <1>0, <2>1, LatestIsOne, OldIsNotLater DEF LookedUp, LatestOf
  <2>4. QED BY <1>0, <2>1, <2>2, <2>3 DEF AsAsked
<1>6. CASE ReadBaseline
  <2> DEFINE run == LatestOf(versions[2])
  <2>1. /\ phase = "baseline" /\ phase' \in {"refused", "cases"} /\ versions' = versions
        /\ found' = found \cup run
        /\ phase' = "cases" => found # {} /\ run # {}
    BY <1>6 DEF ReadBaseline, LatestOf
  <2>2. Chosen => Chosen'
    BY <1>0, <2>1 DEF Chosen
  <2>4. LookedUp(found, versions[1]) /\ req.kind = "comparison"
    BY <2>1 DEF AsAsked
  <2>5. ASSUME phase' = "cases"
        PROVE  \E c, b \in All : /\ found' = {c, b}
                                 /\ LookedUp({c}, versions[1])' /\ LookedUp({b}, versions[2])'
    <3>1. PICK c \in found : TRUE
      BY <2>1, <2>5
    <3>2. PICK b \in run : TRUE
      BY <2>1, <2>5
    <3>3. found = {c} /\ c \in All
      BY <2>4 DEF LookedUp
    <3>4. run = {b} /\ b \in All
      <4>1. run \subseteq All /\ \A i, j \in run : i = j
        BY LatestIsOne
      <4>2. QED BY <3>2, <4>1
    <3>5. LookedUp({c}, versions[1])'
      BY <1>0, <2>1, <2>4, <3>3 DEF LookedUp, LatestOf
    <3>6. LookedUp({b}, versions[2])'
      BY <1>0, <2>1, <3>4, LatestIsOne, OldIsNotLater DEF LookedUp, LatestOf
    <3>7. QED BY <2>1, <3>3, <3>4, <3>5, <3>6
  <2>6. QED BY <1>0, <2>1, <2>2, <2>4, <2>5 DEF AsAsked
<1>7. QED BY <1>1, <1>2, <1>3, <1>4, <1>5, <1>6 DEF Request

\* AsAsked is always so.
LEMMA AskedAlways == Spec => []AsAsked
<1>1. Init => AsAsked
  BY DEF Init, AsAsked
<1>2. ReportInv /\ AsAsked /\ [Next]_vars => AsAsked'
  <2> SUFFICES ASSUME ReportInv, AsAsked, [Next]_vars PROVE AsAsked'
    OBVIOUS
  <2>1. CASE UNCHANGED vars
    BY <2>1 DEF vars, AsAsked, Chosen, LookedUp, LatestOf, Weighed, OldRuns, AnyRuns, docs, req, All
  <2>2. QED BY <2>1, AskedScript, AskedRequest DEF Next
<1>3. QED BY <1>1, <1>2, ReportInvariant, PTL DEF Spec

\* A run was there from the start or is one of the batch,
LEMMA AnyOrBatch ==
  ASSUME ReportInv, NEW k \in AnyRuns
  PROVE  k \in OldRuns \/ k \in C!Candidates(docs, Batch, req)
<1>1. k \in All /\ All = 1..Len(docs) /\ scenario.old \in Int /\ Len(docs) \in Int
  BY Numbered DEF AnyRuns, C!Candidates, ReportInv
<1>2. k \in 1..scenario.old \/ k \in Batch
  BY <1>1 DEF Batch
<1>3. QED BY <1>2 DEF AnyRuns, OldRuns, C!Candidates

\* and so is one that is stored.
LEMMA StoredOrBatch ==
  ASSUME ReportInv, NEW i \in C!Candidates(docs, runs, req), i \notin Batch
  PROVE  i \in OldRuns
<1>1. i \in AnyRuns /\ i \notin C!Candidates(docs, Batch, req)
  BY DEF AnyRuns, C!Candidates, ReportInv, TypeOK
<1>2. QED BY <1>1, AnyOrBatch

\* The runs that were there from the start are numbered, like all.
LEMMA OldAreNumbered ==
  ASSUME ReportInv
  PROVE  OldRuns \subseteq Int /\ All \subseteq Int
BY Numbered DEF OldRuns, C!Candidates, ReportInv

\* Both runs of a metric have scores for it.
LEMMA ScoredIsCounted ==
  ASSUME ReportInv, NEW i, NEW m \in DOMAIN C!MetricScores(docs, got, i)
  PROVE  C!MetricScores(docs, got, i)[m].count \in Nat \ {0}
<1> DEFINE T(k) == {c \in got : c[1] = i /\ k \in DOMAIN docs[c[1]].cases[c[2]].scores}
<1> DEFINE metrics == UNION {DOMAIN docs[c[1]].cases[c[2]].scores : c \in {d \in got : d[1] = i}}
<1> DEFINE sum(k) == C!SumFunction([c \in T(k) |-> docs[c[1]].cases[c[2]].scores[k]])
<1> DEFINE S == T(m)
<1>1. C!MetricScores(docs, got, i)[m].count = Cardinality(S)
  <2>1. C!MetricScores(docs, got, i) =
            [k \in metrics |-> [sum |-> sum(k), count |-> C!Cardinality(T(k))]]
    BY DEF C!MetricScores
  <2>2. C!Cardinality(S) = Cardinality(S)
    BY DEF C!Cardinality, Cardinality
  <2>3. m \in metrics
    BY <2>1
  <2>4. QED
    <3> HIDE DEF T, metrics, sum
    <3> QED BY <2>1, <2>2, <2>3
<1>2. S # {}
  <2>1. m \in UNION {DOMAIN docs[c[1]].cases[c[2]].scores : c \in {d \in got : d[1] = i}}
    BY DEF C!MetricScores
  <2>2. QED BY <2>1
<1>3. IsFiniteSet(S) /\ Cardinality(S) \in Nat
  <2>1. S \in SUBSET got
    OBVIOUS
  <2>2. QED
    <3> HIDE DEF S
    <3> QED BY <2>1, ReadFinite, FS_Subset, FS_CardinalityType
<1>4. Cardinality(S) # 0
  <2> HIDE DEF S
  <2> QED BY <1>2, <1>3, FS_EmptySet
<1>5. QED BY <1>1, <1>3, <1>4

\* Reports.ComparisonIsLatest: the runs compared, read one after another, are the
\* newest there are (services/unit_comparison.py) but for what was written while
\* the report was read; and what is divided by is never 0.
THEOREM ComparedRunsAreLatest == Spec => []ComparisonIsLatest
<1>1. ASSUME ReportInv, AsAsked PROVE ComparisonIsLatest
  <2> SUFFICES ASSUME Told("comparison") PROVE ComparisonIsLatest
    BY DEF ComparisonIsLatest
  <2>1. phase = "answered" /\ req.kind = "comparison"
    BY DEF Told
  <2>2. PICK v, w : versions = <<v, w>> /\ w # None /\ w # v
    BY <1>1, <2>1 DEF AsAsked, Chosen
  <2>3. quiet => /\ C!LatestRunsByVersion(docs, runs, req) # {}
                 /\ v = C!CandidateVersion(docs, runs, req)
                 /\ w = C!BaselineVersion(docs, runs, req)
    BY <1>1, <2>1, <2>2 DEF AsAsked, Chosen
  <2>4. PICK c \in All, b \in All :
            found = {c, b} /\ LookedUp({c}, versions[1]) /\ LookedUp({b}, versions[2])
    BY <1>1, <2>1 DEF AsAsked
  <2>5. /\ C!Version(docs[c]) = v /\ v # None /\ C!Version(docs[b]) = w
        /\ quiet => LatestOf(v) = {c} /\ LatestOf(w) = {b}
    BY <2>2, <2>4 DEF LookedUp
  <2>6. ASSUME quiet, NEW i \in C!Candidates(docs, runs, req),
               req.candidate = None \/ C!Version(docs[i]) = v
        PROVE  i <= c
    <3>1. CASE req.candidate = None
      <4> DEFINE L == C!LatestRunsByVersion(docs, runs, req)
      <4>1. v = C!LatestVersion(docs, L) /\ L # {}
        BY <2>3, <2>6, <3>1 DEF C!CandidateVersion
      <4>2. \A j \in L : j <= c
        BY <1>1, <2>5, <2>6, <4>1, LastIsLookedUp
      <4>3. PICK l \in L : i <= l
        BY <1>1, <2>6, LatestOfItsVersion
      <4>4. l <= c /\ i \in Int /\ l \in Int /\ c \in Int
        BY <1>1, <4>2, Numbered DEF C!LatestRunsByVersion, C!Candidates, ReportInv, TypeOK
      <4>5. QED BY <4>3, <4>4
    <3>2. CASE C!Version(docs[i]) = v
      BY <1>1, <2>5, <2>6, <3>2, NoneLater
    <3>3. QED BY <2>6, <3>1, <3>2
  <2>7. ASSUME quiet, NEW i \in C!Candidates(docs, runs, req),
               (req.baseline = None /\ C!Version(docs[i]) # v) \/ C!Version(docs[i]) = w
        PROVE  i <= b
    <3>1. CASE req.baseline = None /\ C!Version(docs[i]) # v
      <4> DEFINE L == {l \in C!LatestRunsByVersion(docs, runs, req) : C!Version(docs[l]) # v}
      <4>1. C!Version(docs[i]) # v
        BY <3>1
      <4>2. PICK l \in L : i <= l
        <5>1. PICK l \in C!LatestRunsByVersion(docs, runs, req) :
                  C!Version(docs[l]) = C!Version(docs[i]) /\ i <= l
          BY <1>1, <2>7, LatestOfItsVersion
        <5>2. QED BY <4>1, <5>1
      <4>3. w = C!LatestVersion(docs, L)
        BY <2>3, <2>7, <3>1 DEF C!BaselineVersion
      <4>4. \A j \in L : j <= b
        <5>1. L \in SUBSET C!LatestRunsByVersion(docs, runs, req) /\ L # {}
          BY <4>2
        <5> HIDE DEF L
        <5> QED BY <1>1, <2>5, <2>7, <4>3, <5>1, LastIsLookedUp
      <4>5. l <= b /\ i \in Int /\ l \in Int /\ b \in Int
        BY <1>1, <4>4, Numbered DEF C!LatestRunsByVersion, C!Candidates, ReportInv, TypeOK
      <4>6. QED BY <4>2, <4>5
    <3>2. CASE C!Version(docs[i]) = w
      BY <1>1, <2>5, <2>7, <3>2, NoneLater
    <3>3. QED BY <2>7, <3>1, <3>2
  <2>8. ASSUME ~quiet, NEW i \in C!Candidates(docs, runs, req),
                req.candidate = None \/ C!Version(docs[i]) = v
         PROVE  i <= c \/ PassedOver(i, v)
    <3>1. SUFFICES ASSUME i \notin Batch, ~PassedOver(i, v) PROVE i <= c
      BY <2>8 DEF PassedOver
    <3>2. i \in OldRuns
      BY <1>1, <2>8, <3>1, StoredOrBatch
    <3>3. CASE C!Version(docs[i]) = v
      BY <2>4, <2>2, <3>2, <3>3 DEF LookedUp
    <3>4. CASE C!Version(docs[i]) # v
      <4>1. PICK k \in AnyRuns : C!Version(docs[k]) = v /\ i <= k
        BY <1>1, <2>1, <2>2, <2>8, <3>2, <3>4 DEF AsAsked, Chosen, Weighed
      <4>2. k \in OldRuns
        BY <1>1, <2>8, <3>1, <3>4, <4>1, AnyOrBatch DEF PassedOver
      <4>3. k <= c
        BY <2>4, <2>2, <4>1, <4>2 DEF LookedUp
      <4>4. i \in Int /\ k \in Int /\ c \in Int
        BY <1>1, <3>2, <4>2, OldAreNumbered
      <4>5. QED BY <4>1, <4>3, <4>4
    <3>5. QED BY <3>3, <3>4
  <2>9. ASSUME ~quiet, NEW i \in C!Candidates(docs, runs, req),
                (req.baseline = None /\ C!Version(docs[i]) # v) \/ C!Version(docs[i]) = w
         PROVE  i <= b \/ PassedOver(i, w)
    <3>1. SUFFICES ASSUME i \notin Batch, ~PassedOver(i, w) PROVE i <= b
      BY <2>9 DEF PassedOver
    <3>2. i \in OldRuns
      BY <1>1, <2>9, <3>1, StoredOrBatch
    <3>3. CASE C!Version(docs[i]) = w
      BY <2>4, <2>2, <3>2, <3>3 DEF LookedUp
    <3>4. CASE C!Version(docs[i]) # w
      <4>1. PICK k \in AnyRuns : C!Version(docs[k]) = w /\ i <= k
        BY <1>1, <2>1, <2>2, <2>9, <3>2, <3>4 DEF AsAsked, Chosen, Weighed
      <4>2. k \in OldRuns
        BY <1>1, <2>9, <3>1, <3>4, <4>1, AnyOrBatch DEF PassedOver
      <4>3. k <= b
        BY <2>4, <2>2, <4>1, <4>2 DEF LookedUp
      <4>4. i \in Int /\ k \in Int /\ b \in Int
        BY <1>1, <3>2, <4>2, OldAreNumbered
      <4>5. QED BY <4>1, <4>3, <4>4
    <3>5. QED BY <3>3, <3>4
  <2>10. ASSUME NEW m \in DOMAIN C!MetricScores(docs, got, c) \cap DOMAIN C!MetricScores(docs, got, b)
        PROVE  C!MetricDelta(docs, got, b, c, m).under # 0
    <3>1. /\ C!MetricScores(docs, got, c)[m].count \in Nat \ {0}
          /\ C!MetricScores(docs, got, b)[m].count \in Nat \ {0}
      BY <1>1, ScoredIsCounted
    <3>2. C!MetricDelta(docs, got, b, c, m).under =
              C!MetricScores(docs, got, b)[m].count * C!MetricScores(docs, got, c)[m].count
      BY DEF C!MetricDelta
    <3>3. \A x, y \in Nat \ {0} : x * y # 0
      OBVIOUS
    <3>4. QED BY <3>1, <3>2, <3>3
  <2>11. c \in found /\ b \in found
    BY <2>4
  <2>12. QED BY <2>2, <2>4, <2>5, <2>6, <2>7, <2>10, <2>11, <2>8, <2>9 DEF ComparisonIsLatest
<1>2. QED BY <1>1, ReportInvariant, AskedAlways, PTL

-----------------------------------------------------------------------------
(* What a view of Insights is made of *)

\* A finite set of integers has a least: the one that fewest are less than.
LEMMA FiniteHasLeast ==
  ASSUME NEW S, IsFiniteSet(S), S \subseteq Int, S # {}
  PROVE  \E x \in S : \A y \in S : x <= y
<1> DEFINE below(x) == {y \in S : y < x}
<1> DEFINE counts == {Cardinality(below(x)) : x \in S}
<1>1. \A x \in S : below(x) \subseteq S /\ IsFiniteSet(below(x)) /\ Cardinality(below(x)) \in Nat
  <2> SUFFICES ASSUME NEW x \in S
               PROVE  below(x) \subseteq S /\ IsFiniteSet(below(x)) /\ Cardinality(below(x)) \in Nat
    OBVIOUS
  <2>1. below(x) \in SUBSET S
    OBVIOUS
  <2> HIDE DEF below
  <2>2. QED BY <2>1, FS_Subset, FS_CardinalityType
<1>2. PICK n \in counts : \A m \in counts : n <= m
  <2>1. counts \in SUBSET Nat /\ counts # {}
    BY <1>1
  <2> HIDE DEF counts
  <2>2. QED BY <2>1, HasLeast
<1>3. PICK x \in S : n = Cardinality(below(x))
  <2> HIDE DEF below
  <2>1. QED BY <1>2
<1>4. SUFFICES ASSUME NEW y \in S, ~(x <= y) PROVE FALSE
  OBVIOUS
<1>5. y \in Int /\ x \in Int /\ y < x
  BY <1>4
<1>6. below(y) \in SUBSET below(x) /\ y \in below(x) /\ y \notin below(y)
  <2> HIDE DEF counts
  <2>1. \A z \in S : z \in Int
    OBVIOUS
  <2>2. \A z \in S : z < y => z < x
    BY <1>5, <2>1
  <2>3. ~ (y < y)
    BY <1>5
  <2>4. QED BY <1>5, <2>2, <2>3
<1>7. Cardinality(below(x)) <= Cardinality(below(y))
  BY <1>2, <1>3
<1>8. below(x) = below(y)
  <2> HIDE DEF below
  <2>1. /\ Cardinality(below(y)) <= Cardinality(below(x))
        /\ Cardinality(below(y)) = Cardinality(below(x)) => below(x) = below(y)
    BY <1>1, <1>6, FS_Subset
  <2>2. Cardinality(below(x)) \in Nat /\ Cardinality(below(y)) \in Nat
    BY <1>1
  <2>3. QED BY <1>7, <2>1, <2>2
<1>9. QED BY <1>6, <1>8

\* What is computed from finitely many is finitely many.
LEMMA ImageFinite ==
  ASSUME NEW f, IsFiniteSet(DOMAIN f)
  PROVE  IsFiniteSet({f[x] : x \in DOMAIN f})
<1> DEFINE T == {f[x] : x \in DOMAIN f}
<1>1. [x \in DOMAIN f |-> f[x]] \in Surjection(DOMAIN f, T)
  BY DEF Surjection
<1> HIDE DEF T
<1>2. IsFiniteSet(T)
  BY <1>1, FS_Surjection
<1>3. QED BY <1>2 DEF T

\* A view is of some of the runs and of all that was read; those runs may be of
\* one context, or of one skill.
View(v) ==
  /\ v.docs = docs /\ v.read = got
  /\ v.runs \subseteq All
OneContext(v) == \A i, j \in v.runs : I!Context(docs[i]) = I!Context(docs[j])
OneSkill(v)   == \A i, j \in v.runs : docs[i].skill = docs[j].skill

\* The landscape is one, and the matrix, of the runs of one skill in it.
LEMMA ViewsAre ==
  ASSUME ReportInv
  PROVE  /\ View(Landscape) /\ View(Matrix) /\ OneSkill(Matrix)
         /\ Matrix.runs \subseteq Landscape.runs
<1> DEFINE s == I!Select(docs, found, req)
<1>1. s.runs \subseteq found
  BY DEF I!Select
<1>2. /\ Landscape.docs = docs /\ Landscape.runs = s.runs /\ Landscape.read = got
      /\ Matrix.docs = docs /\ Matrix.runs = InsightsRuns(found) /\ Matrix.read = got
  <2> HIDE DEF s
  <2>1. Selection = s
    BY DEF Selection, s
  <2>2. QED BY <2>1 DEF Landscape, Matrix
<1>3. InsightsRuns(found) = {i \in s.runs : docs[i].skill = s.scope}
  BY DEF InsightsRuns
<1> HIDE DEF s
<1>4. found \subseteq All
  BY DEF ReportInv, TypeOK
<1>5. QED BY <1>1, <1>2, <1>3, <1>4 DEF View, OneSkill

\* There are finitely many runs in a view, and their rates are numbers.
LEMMA ViewFacts ==
  ASSUME ReportInv, NEW v, View(v)
  PROVE  /\ IsFiniteSet(v.runs) /\ v.runs \subseteq Int
         /\ \A i \in v.runs : docs[i].rate \in Int
         /\ \A S \in SUBSET v.runs : S # {} => I!Max(S) \in S /\ \A j \in S : j <= I!Max(S)
<1>1. Len(docs) \in Nat /\ All = 1..Len(docs)
  BY Numbered DEF ReportInv
<1>2. v.runs \in SUBSET (1..Len(docs))
  BY <1>1 DEF View
<1>3. IsFiniteSet(1..Len(docs))
  BY <1>1, FS_Interval
<1>4. IsFiniteSet(v.runs) /\ v.runs \subseteq Int
  BY <1>2, <1>3, <1>1, FS_Subset
<1>5. \A i \in v.runs : docs[i].rate \in Int
  BY ScenariosAssumption DEF ReportInv, View, docs, All
<1>6. ASSUME NEW S \in SUBSET v.runs, S # {}
      PROVE  I!Max(S) \in S /\ \A j \in S : j <= I!Max(S)
  <2>1. S \in SUBSET (1..Len(docs))
    BY <1>2
  <2>2. \E x \in S : \A y \in S : x >= y
    BY <1>1, <1>6, <2>1, HasGreatest
  <2>3. I!Max(S) \in S /\ \A j \in S : I!Max(S) >= j
    BY <2>2 DEF I!Max
  <2>4. \A x, y \in S : x >= y => y <= x
    BY <1>4
  <2>5. QED BY <2>3, <2>4
<1>7. QED BY <1>4, <1>5, <1>6

\* The runs of a view whose contexts are one.
LEMMA ContextsAreOne ==
  ASSUME ReportInv, NEW v, View(v), Cardinality({I!Context(docs[i]) : i \in v.runs}) = 1
  PROVE  OneContext(v)
<1> DEFINE f == [i \in v.runs |-> I!Context(docs[i])]
<1> DEFINE T == {I!Context(docs[i]) : i \in v.runs}
<1>1. T = {f[i] : i \in DOMAIN f} /\ DOMAIN f = v.runs
  OBVIOUS
<1>2. IsFiniteSet(T)
  <2> HIDE DEF f, T
  <2> QED BY <1>1, ViewFacts, ImageFinite
<1>3. Cardinality(T) = 1
  OBVIOUS
<1>4. PICK x : T = {x}
  <2> HIDE DEF T
  <2> QED BY <1>2, <1>3, FS_Singleton
<1>5. \A i \in v.runs : I!Context(docs[i]) = x
  BY <1>4
<1>6. QED BY <1>5 DEF OneContext

-----------------------------------------------------------------------------
(* Within one context *)

\* A cell is some runs of the view, and it has one if it is one of its cells.
LEMMA CellsAre ==
  ASSUME ReportInv, NEW v, View(v)
  PROVE  /\ \A s, b : I!Cell(v, s, b) \in SUBSET v.runs
         /\ \A c \in I!Cells(v) : I!Cell(v, c[1], c[2]) # {}
  BY DEF I!Cell, I!Cells

\* A branch is held against the latest run of the baseline.
LEMMA OneReference ==
  ASSUME ReportInv, NEW v, View(v), OneContext(v), NEW c
  PROVE  I!ReferenceRun(v, c) = I!Max(I!Cell(v, c[1], v.baseline))
<1> DEFINE base == I!Cell(v, c[1], v.baseline)
<1> DEFINE at == I!Context(v.docs[I!Max(I!Cell(v, c[1], c[2]))])
<1> DEFINE same == {j \in base : I!Context(v.docs[j]) = at}
<1>1. \A i, j \in base : I!Context(v.docs[i]) = I!Context(v.docs[j])
  <2>1. base \in SUBSET v.runs
    BY CellsAre
  <2> HIDE DEF base
  <2>2. QED BY <2>1 DEF OneContext, View
<1>2. same = {} \/ same = base
  <2> HIDE DEF base, at
  <2> QED BY <1>1
<1>3. I!ReferenceRun(v, c) = IF same # {} THEN I!Max(same) ELSE I!Max(base)
  BY DEF I!ReferenceRun
<1>4. QED
  <2> HIDE DEF base, same
  <2> QED BY <1>2, <1>3 DEF base

\* The cell of a scope that fell furthest.
WorstOf(v, s) ==
  LET regressed == {d \in I!OfScope(v, s) : I!Regressed(v, d)} IN
  CHOOSE d \in regressed : \A e \in regressed : I!Delta(v, d) <= I!Delta(v, e)

\* A regression card is of a scope that regressed, and tells of that cell.
LEMMA RegressionCardsAre ==
  ASSUME NEW v, NEW card \in I!RegressionCards(v)
  PROVE  /\ card.kind = "branch-regression"
         /\ \E c \in I!Cells(v) :
               /\ I!Regressed(v, c)
               /\ card.rate = I!LatestRate(v, WorstOf(v, c[1]))
               /\ card.baselineRate = I!LatestRate(v, <<c[1], v.baseline>>)
<1> DEFINE regressed(s) == {d \in I!OfScope(v, s) : I!Regressed(v, d)}
<1> DEFINE of(c) ==
      [kind |-> "branch-regression",
       severity |-> IF I!Cardinality(regressed(c[1])) > 1 THEN "critical" ELSE "warning",
       scope |-> c[1], branch |-> WorstOf(v, c[1])[2], rate |-> I!LatestRate(v, WorstOf(v, c[1])),
       baselineRate |-> I!LatestRate(v, <<c[1], v.baseline>>)]
<1>1. I!RegressionCards(v) = {of(c) : c \in {d \in I!Cells(v) : I!Regressed(v, d) /\ ~I!Systemic(v, d[1])}}
  BY DEF I!RegressionCards, WorstOf
<1>2. \A c : /\ of(c).kind = "branch-regression"
             /\ of(c).rate = I!LatestRate(v, WorstOf(v, c[1]))
             /\ of(c).baselineRate = I!LatestRate(v, <<c[1], v.baseline>>)
  <2> HIDE DEF regressed
  <2> QED OBVIOUS
<1>3. QED
  <2> HIDE DEF of
  <2> QED BY <1>1, <1>2

\* The branch a regression card names is below the rate it names.
LEMMA RegressionsAreBelow ==
  ASSUME ReportInv, NEW v, View(v), OneContext(v), NEW card \in I!RegressionCards(v)
  PROVE  card.rate < card.baselineRate
<1>1. PICK c \in I!Cells(v) :
          /\ I!Regressed(v, c)
          /\ card.rate = I!LatestRate(v, WorstOf(v, c[1]))
          /\ card.baselineRate = I!LatestRate(v, <<c[1], v.baseline>>)
  BY RegressionCardsAre
<1> DEFINE R == {d \in I!OfScope(v, c[1]) : I!Regressed(v, d)}
<1> DEFINE f == [d \in R |-> I!Delta(v, d)]
<1> DEFINE deltas == {f[d] : d \in DOMAIN f}
<1>2. c \in R /\ R \subseteq I!Cells(v)
  BY <1>1 DEF I!OfScope
<1>3. \A d \in R : /\ d[1] = c[1] /\ I!Delta(v, d) <= -5
                   /\ I!Cell(v, d[1], v.baseline) # {}
  BY DEF I!OfScope, I!Regressed, I!Compared, I!REGRESSION_POINTS
<1>4. \A d \in R : /\ I!LatestRate(v, d) \in Int
                   /\ I!LatestRate(v, <<c[1], v.baseline>>) \in Int
                   /\ I!Delta(v, d) = I!LatestRate(v, d) - I!LatestRate(v, <<c[1], v.baseline>>)
  <2> SUFFICES ASSUME NEW d \in R
               PROVE  /\ I!LatestRate(v, d) \in Int
                      /\ I!LatestRate(v, <<c[1], v.baseline>>) \in Int
                      /\ I!Delta(v, d) = I!LatestRate(v, d) - I!LatestRate(v, <<c[1], v.baseline>>)
    OBVIOUS
  <2>1. /\ I!Cell(v, d[1], d[2]) \in SUBSET v.runs /\ I!Cell(v, d[1], d[2]) # {}
        /\ I!Cell(v, c[1], v.baseline) \in SUBSET v.runs /\ I!Cell(v, c[1], v.baseline) # {}
    <3> HIDE DEF R
    <3> QED BY <1>2, <1>3, CellsAre
  <2>2. /\ I!Max(I!Cell(v, d[1], d[2])) \in v.runs
        /\ I!Max(I!Cell(v, c[1], v.baseline)) \in v.runs
    BY <2>1, ViewFacts
  <2>3. /\ docs[I!Max(I!Cell(v, d[1], d[2]))].rate \in Int
        /\ docs[I!Max(I!Cell(v, c[1], v.baseline))].rate \in Int
    BY <2>2, ViewFacts
  <2>4. /\ I!LatestRate(v, d) = docs[I!Max(I!Cell(v, d[1], d[2]))].rate
        /\ I!LatestRate(v, <<c[1], v.baseline>>) = docs[I!Max(I!Cell(v, c[1], v.baseline))].rate
    BY DEF I!LatestRate, View
  <2>5. d[1] = c[1]
    BY <1>3
  <2>6. I!Delta(v, d) = I!LatestRate(v, d) - docs[I!Max(I!Cell(v, c[1], v.baseline))].rate
    BY <2>5, OneReference DEF I!Delta, View
  <2>7. QED BY <2>3, <2>4, <2>6
<1>5. \E d \in R : \A e \in R : I!Delta(v, d) <= I!Delta(v, e)
  <2>1. IsFiniteSet(R)
    <3> DEFINE g == [i \in v.runs |-> <<v.docs[i].skill, I!Branch(v.docs[i])>>]
    <3>1. I!Cells(v) = {g[i] : i \in DOMAIN g} /\ DOMAIN g = v.runs
      BY DEF I!Cells
    <3>2. IsFiniteSet(I!Cells(v))
      <4> HIDE DEF g
      <4> QED BY <3>1, ViewFacts, ImageFinite
    <3>3. QED
      <4> HIDE DEF R
      <4> QED BY <1>2, <3>2, FS_Subset
  <2>2. IsFiniteSet(deltas)
    <3>1. DOMAIN f = R
      OBVIOUS
    <3> HIDE DEF f, R
    <3>2. QED BY <2>1, <3>1, ImageFinite
  <2>3. \A d \in R : I!Delta(v, d) \in Int
    <3> HIDE DEF R
    <3> QED BY <1>4
  <2>4. deltas = {I!Delta(v, d) : d \in R}
    <3> HIDE DEF R
    <3> QED OBVIOUS
  <2>5. deltas \subseteq Int /\ deltas # {}
    <3> HIDE DEF R, deltas
    <3> QED BY <1>2, <2>3, <2>4
  <2>6. PICK m \in deltas : \A y \in deltas : m <= y
    <3> HIDE DEF deltas
    <3> QED BY <2>2, <2>5, FiniteHasLeast
  <2>7. QED
    <3> HIDE DEF R, deltas
    <3> QED BY <2>4, <2>6
<1>6. WorstOf(v, c[1]) \in R
  <2>1. WorstOf(v, c[1]) = CHOOSE d \in R : \A e \in R : I!Delta(v, d) <= I!Delta(v, e)
    BY DEF WorstOf
  <2> HIDE DEF R
  <2>2. QED BY <1>5, <2>1
<1>7. QED
  <2> HIDE DEF R
  <2> QED BY <1>1, <1>3, <1>4, <1>6

\* No environment-gap card is made of rates: a cell has one in one context.
LEMMA NoGapOfRates ==
  ASSUME ReportInv, NEW v, View(v), OneContext(v)
  PROVE  I!GapCards(v) = {}
<1>1. ASSUME NEW c \in I!Cells(v) PROVE ~ (I!Spread(v, c) >= 10)
  <2> DEFINE cell == I!Cell(v, c[1], c[2])
  <2> DEFINE same(i) == {j \in cell : I!Context(v.docs[j]) = I!Context(v.docs[i])}
  <2> DEFINE r == v.docs[I!Max(cell)].rate
  <2>1. cell \in SUBSET v.runs /\ cell # {}
    BY <1>1, CellsAre
  <2>2. \A i \in cell : same(i) = cell
    <3> HIDE DEF cell
    <3> QED BY <2>1 DEF OneContext, View
  <2>3. I!ContextRates(v, c) = {v.docs[I!Max(same(i))].rate : i \in cell}
    BY DEF I!ContextRates
  <2>4. I!ContextRates(v, c) = {r}
    <3> HIDE DEF cell, same
    <3> QED BY <2>1, <2>2, <2>3
  <2>5. r \in Int
    <3> HIDE DEF cell
    <3>1. I!Max(cell) \in v.runs
      BY <2>1, ViewFacts
    <3>2. QED BY <3>1, ViewFacts DEF View
  <2>6. I!Max({r}) = r /\ I!Min({r}) = r
    <3> HIDE DEF r
    <3> QED BY <2>5 DEF I!Max, I!Min
  <2>7. I!Spread(v, c) = r - r
    <3> HIDE DEF r
    <3> QED BY <2>4, <2>6 DEF I!Spread
  <2> HIDE DEF r
  <2>8. QED BY <2>5, <2>7
<1>2. \A s : {c \in I!OfScope(v, s) : I!Spread(v, c) >= I!ENVIRONMENT_GAP_POINTS} = {}
  BY <1>1 DEF I!OfScope, I!ENVIRONMENT_GAP_POINTS
<1>3. QED BY <1>2 DEF I!GapCards

\* Nor is one made of tests: none fails in one context and passes in another.
LEMMA NoSplitOfTests ==
  ASSUME ReportInv, NEW v, View(v), OneContext(v), NEW t
  PROVE  I!EnvironmentSplit(v, t) = None
<1>1. ASSUME NEW b PROVE ~ I!SplitOn(v, t, b).holds
  <2> DEFINE obs        == I!Observations(v, t, b)
             In(x)      == {o \in obs : I!ContextOf(v, o) = x}
             contexts   == {I!ContextOf(v, o) : o \in obs}
             fails      == {x \in contexts : \A o \in In(x) : I!Fails(v, o)}
             passes     == {x \in contexts : \A o \in In(x) : I!OutcomeOf(v, o) = "pass"}
  <2>1. I!SplitOn(v, t, b).holds => fails # {} /\ passes # {}
    BY DEF I!SplitOn
  <2>2. \A o, p \in obs : I!ContextOf(v, o) = I!ContextOf(v, p)
    BY DEF I!Observations, I!Seen, I!ContextOf, OneContext, View
  <2>3. ASSUME NEW x \in fails, NEW y \in passes PROVE FALSE
    <3>1. PICK o \in obs : x = I!ContextOf(v, o)
      OBVIOUS
    <3>2. PICK p \in obs : y = I!ContextOf(v, p)
      OBVIOUS
    <3>3. x = y
      <4> HIDE DEF obs
      <4> QED BY <2>2, <3>1, <3>2
    <3>4. I!Fails(v, o) /\ I!OutcomeOf(v, o) = "pass"
      BY <3>1, <3>3
    <3>5. QED BY <3>4 DEF I!Fails, I!Failing
  <2>4. QED
    <3> HIDE DEF fails, passes
    <3> QED BY <2>1, <2>3
<1>2. {b \in I!BranchesOf(v, t) : I!SplitOn(v, t, b).holds} = {}
  BY <1>1
<1>3. QED BY <1>2 DEF I!EnvironmentSplit

\* So no card tells environments apart.
LEMMA NoGapCard ==
  ASSUME ReportInv, NEW w, View(w), OneContext(w), NEW v, View(v), OneContext(v),
         NEW card \in I!LandscapeCards(w) \cup I!TestCards(v)
  PROVE  card.kind # "environment-gap"
<1>1. ASSUME card \in I!LandscapeCards(w) PROVE card.kind # "environment-gap"
  <2>1. card \in I!SystemicCards(w) \cup I!RegressionCards(w) \cup I!BranchCards(w) \cup I!DriftCards(w)
    BY <1>1, NoGapOfRates DEF I!LandscapeCards
  <2>2. CASE card \in I!SystemicCards(w)
    BY <2>2 DEF I!SystemicCards
  <2>3. CASE card \in I!RegressionCards(w)
    BY <2>3, RegressionCardsAre
  <2>4. CASE card \in I!BranchCards(w)
    <3> DEFINE others    == {c[2] : c \in I!Cells(w)} \ {w.baseline}
               Worse(b)  == {c \in I!OfBranch(w, b) : I!Regressed(w, c)}
               Better(b) == {c \in I!OfBranch(w, b) : I!Improved(w, c)}
               worse(b)  == [kind |-> "branch-regression", severity |-> "critical",
                             branch |-> b, scopes |-> Worse(b)]
               better(b) == [kind |-> "branch-fix", severity |-> "good",
                             branch |-> b, scopes |-> Better(b)]
    <3>1. I!BranchCards(w) =
              {worse(b) : b \in {c \in others : I!Cardinality(Worse(c)) >= 2}}
                  \cup {better(b) : b \in {c \in others : Better(c) # {}}}
      BY DEF I!BranchCards
    <3>2. \A b : worse(b).kind = "branch-regression" /\ better(b).kind = "branch-fix"
      <4> HIDE DEF Worse, Better
      <4> QED OBVIOUS
    <3>3. QED
      <4> HIDE DEF others, Worse, Better, worse, better
      <4> QED BY <2>4, <3>1, <3>2
  <2>5. CASE card \in I!DriftCards(w)
    BY <2>5 DEF I!DriftCards
  <2>6. QED BY <2>1, <2>2, <2>3, <2>4, <2>5
<1>2. ASSUME card \in I!TestCards(v) PROVE card.kind # "environment-gap"
  <2>1. {u \in I!Tests(v) : I!EnvironmentSplit(v, u) # None} = {}
    BY NoSplitOfTests
  <2>2. QED BY <1>2, <2>1 DEF I!TestCards, I!BreakCards
<1>3. QED BY <1>1, <1>2

-----------------------------------------------------------------------------
(* How a test did *)

\* What a state of a test says of its last results.
LEMMA StatesAre ==
  ASSUME NEW v, NEW t, NEW b
  PROVE  /\ I!State(v, t, b) \in {"regression", "fixed"} =>
                v.baseline # b /\ I!Observations(v, t, v.baseline) # {}
         /\ I!State(v, t, b) = "regression" => I!FailsLast(v, t, b) /\ ~I!ReferenceFails(v, t, b)
         /\ I!State(v, t, b) = "fixed" => ~I!FailsLast(v, t, b) /\ I!ReferenceFails(v, t, b)
         /\ /\ v.baseline # b /\ I!Observations(v, t, v.baseline) # {}
            /\ I!FailsLast(v, t, b) /\ ~I!ReferenceFails(v, t, b)
            => \/ I!State(v, t, b) \in {"regression", "flaky"}
               \/ I!Flaky(v, t, v.baseline)
<1>1. I!FailsLast(v, t, b) \in BOOLEAN
  BY DEF I!FailsLast, I!Fails, I!Failing
<1>2. I!ReferenceFails(v, t, b) \in BOOLEAN
  BY DEF I!ReferenceFails, I!Fails, I!Failing
<1>3. PICK x \in BOOLEAN : x = I!FailsLast(v, t, b)
  BY <1>1
<1>4. PICK y \in BOOLEAN : y = I!ReferenceFails(v, t, b)
  BY <1>2
<1>5. I!State(v, t, b) =
        IF I!Flaky(v, t, b) THEN "flaky"
        ELSE IF (v.baseline # b /\ I!Observations(v, t, v.baseline) # {})
                  /\ ~I!Flaky(v, t, v.baseline) /\ x # y
             THEN IF x THEN "regression" ELSE "fixed"
        ELSE IF x THEN "fail" ELSE "pass"
  BY <1>3, <1>4 DEF I!State
<1>6. QED BY <1>3, <1>4, <1>5

\* In one context a branch is held against the last result on the baseline.
LEMMA ReferenceIsLast ==
  ASSUME ReportInv, NEW v, View(v), OneContext(v), NEW t, NEW b
  PROVE  I!ReferenceFails(v, t, b) = I!FailsLast(v, t, v.baseline)
<1> DEFINE base == I!Observations(v, t, v.baseline)
<1> DEFINE at == I!ContextOf(v, I!Final(I!Observations(v, t, b)))
<1> DEFINE same == {o \in base : I!ContextOf(v, o) = at}
<1>1. \A o, p \in base : I!ContextOf(v, o) = I!ContextOf(v, p)
  BY DEF I!Observations, I!Seen, I!ContextOf, OneContext, View
<1>2. same = {} \/ same = base
  <2> HIDE DEF base, at
  <2> QED BY <1>1
<1>3. I!ReferenceFails(v, t, b) = I!Fails(v, I!Final(IF same # {} THEN same ELSE base))
  BY DEF I!ReferenceFails
<1>4. (IF same # {} THEN same ELSE base) = base
  <2> HIDE DEF same, base
  <2> QED BY <1>2
<1>5. I!FailsLast(v, t, v.baseline) = I!Fails(v, I!Final(base))
  BY DEF I!FailsLast
<1>6. QED
  <2> HIDE DEF same, base
  <2> QED BY <1>3, <1>4, <1>5

\* The branches a test ran on: named, and finitely many.
LEMMA BranchesAre ==
  ASSUME ReportInv, NEW v, View(v), NEW t
  PROVE  /\ IsFiniteSet(I!FailingBranches(v, t))
         /\ \A b : I!Observations(v, t, b) # {} => b \in I!BranchesOf(v, t)
         /\ \A b \in I!Branches(v) : b # None
<1>1. I!FailingBranches(v, t) \in SUBSET I!Branches(v)
  BY DEF I!FailingBranches, I!BranchesOf
<1>2. IsFiniteSet(I!Branches(v))
  <2> DEFINE g == [i \in v.runs |-> I!Branch(v.docs[i])]
  <2>1. I!Branches(v) = {g[i] : i \in DOMAIN g} /\ DOMAIN g = v.runs
    BY DEF I!Branches
  <2>2. QED
    <3> HIDE DEF g
    <3> QED BY <2>1, ViewFacts, ImageFinite
<1>3. \A b : I!Observations(v, t, b) # {} => b \in I!BranchesOf(v, t)
  BY DEF I!Observations, I!Seen, I!BranchesOf, I!Branches
<1>4. \A b \in I!Branches(v) : b # None
  BY NoneAssumption DEF I!Branches, I!Branch
<1>5. QED BY <1>1, <1>2, <1>3, <1>4, FS_Subset

\* In one context no test is broken by a branch and a bottleneck of all.
LEMMA BrokenIsNoBottleneck ==
  ASSUME ReportInv, NEW v, View(v), OneContext(v), NEW b, NEW t \in I!BrokenOn(v, b)
  PROVE  ~I!Bottleneck(v, t)
<1>1. I!State(v, t, b) = "regression"
  BY DEF I!BrokenOn
<1>2. I!Observations(v, t, v.baseline) # {} /\ ~I!ReferenceFails(v, t, b)
  BY <1>1, StatesAre
<1>3. v.baseline \in I!BranchesOf(v, t)
  BY <1>2, BranchesAre
<1>4. ~I!FailsLast(v, t, v.baseline)
  BY <1>2, ReferenceIsLast
<1>5. ~I!FailsOnBaseline(v, t)
  BY <1>4 DEF I!FailsOnBaseline, I!FailingBranches
<1>6. QED BY <1>3, <1>5 DEF I!Bottleneck

\* And what a branch fixes fails on the baseline.
LEMMA FixedFailsOnBaseline ==
  ASSUME ReportInv, NEW v, View(v), OneContext(v), NEW b, NEW t \in I!FixedOn(v, b)
  PROVE  I!FailsOnBaseline(v, t)
<1>1. I!State(v, t, b) = "fixed"
  BY DEF I!FixedOn
<1>2. I!Observations(v, t, v.baseline) # {} /\ I!ReferenceFails(v, t, b)
  BY <1>1, StatesAre
<1>3. v.baseline \in I!BranchesOf(v, t)
  BY <1>2, BranchesAre
<1>4. I!FailsLast(v, t, v.baseline)
  BY <1>2, ReferenceIsLast
<1>5. QED BY <1>3, <1>4 DEF I!FailsOnBaseline, I!FailingBranches

\* A break card is of a branch that broke tests, some of them on it only.
LEMMA BreakCardsAre ==
  ASSUME NEW v, NEW card \in I!BreakCards(v)
  PROVE  \E b \in I!Branches(v) :
            /\ card.broken = I!BrokenOn(v, b)
            /\ card.onlyHere = {t \in I!BrokenOn(v, b) : I!BranchSpecific(v, t) = b}
<1> DEFINE of(b) == [kind     |-> "branch-regression",
                     severity |-> IF I!Cardinality(I!BrokenOn(v, b)) > 1 THEN "critical" ELSE "warning",
                     branch   |-> b,
                     broken   |-> I!BrokenOn(v, b),
                     onlyHere |-> {t \in I!BrokenOn(v, b) : I!BranchSpecific(v, t) = b}]
<1>1. I!BreakCards(v) = {of(b) : b \in {c \in I!Branches(v) \ {v.baseline} : I!BrokenOn(v, c) # {}}}
  BY DEF I!BreakCards
<1>2. \A b : /\ of(b).broken = I!BrokenOn(v, b)
             /\ of(b).onlyHere = {t \in I!BrokenOn(v, b) : I!BranchSpecific(v, t) = b}
  OBVIOUS
<1>3. QED
  <2> HIDE DEF of
  <2> QED BY <1>1, <1>2

\* A test that only one branch breaks does not fail on the baseline.
LEMMA OnlyThere ==
  ASSUME ReportInv, NEW v, View(v), NEW b \in I!Branches(v),
         NEW t \in I!BrokenOn(v, b), I!BranchSpecific(v, t) = b
  PROVE  ~I!FailsOnBaseline(v, t)
<1> DEFINE failing == I!FailingBranches(v, t)
<1>1. I!State(v, t, b) = "regression" /\ I!Observations(v, t, b) # {}
  BY DEF I!BrokenOn, I!TestsOn
<1>2. v.baseline # b /\ I!FailsLast(v, t, b)
  BY <1>1, StatesAre
<1>3. b \in failing
  BY <1>1, <1>2, BranchesAre DEF I!FailingBranches
<1>4. Cardinality(failing) = 1
  <2>1. b # None
    BY BranchesAre
  <2>2. I!Cardinality(failing) = Cardinality(failing)
    BY DEF I!Cardinality, Cardinality
  <2>3. I!Cardinality(failing) = 1
    <3> HIDE DEF failing
    <3>1. I!BranchSpecific(v, t) =
            IF I!Cardinality(I!InState(v, t, "regression")) = 1 /\ I!Cardinality(failing) = 1
            THEN CHOOSE c \in I!InState(v, t, "regression") : TRUE ELSE None
      BY DEF I!BranchSpecific, failing
    <3>2. QED BY <2>1, <3>1
  <2>4. QED BY <2>2, <2>3
<1>5. PICK x : failing = {x}
  <2>1. IsFiniteSet(failing)
    BY BranchesAre
  <2>2. QED
    <3> HIDE DEF failing
    <3> QED BY <1>4, <2>1, FS_Singleton
<1>6. QED BY <1>2, <1>3, <1>5 DEF I!FailsOnBaseline

-----------------------------------------------------------------------------
(* A cell that regressed shows in the matrix *)

\* As many values as there are elements, if no two have the same.
LEMMA ImageCount ==
  ASSUME NEW f, NEW S, IsFiniteSet(S), \A x, y \in S : f[x] = f[y] => x = y
  PROVE  IsFiniteSet({f[x] : x \in S}) /\ Cardinality({f[x] : x \in S}) = Cardinality(S)
<1> DEFINE T == {f[x] : x \in S}
<1> DEFINE g == [x \in S |-> f[x]]
<1>1. g \in [S -> T] /\ \A y \in T : \E x \in S : g[x] = y
  OBVIOUS
<1>2. \A x, y \in S : g[x] = g[y] => x = y
  OBVIOUS
<1>3. g \in Surjection(S, T) /\ g \in Injection(S, T)
  <2> HIDE DEF T, g
  <2>1. DOMAIN g = S
    BY <1>1
  <2>2. QED BY <1>1, <1>2, <2>1 DEF Surjection, Injection, IsInjective
<1>4. IsFiniteSet(T) /\ Cardinality(T) = Cardinality(S)
  <2> HIDE DEF T, g
  <2> QED BY <1>3, FS_Surjection
<1>5. QED BY <1>4

\* Of two rates of one number of tests, the lower is that of fewer passes.
LEMMA LowerIsFewer ==
  ASSUME NEW ra \in Int, NEW rb \in Int, NEW n \in Nat \ {0}, NEW pa \in Nat, NEW pb \in Nat,
         ra * n = 100 * pa, rb * n = 100 * pb, ra < rb
  PROVE  pa < pb
<1>1. ra * n < rb * n
  OBVIOUS
<1>2. 100 * pa < 100 * pb
  BY <1>1
<1>3. QED BY <1>2

\* Records A and B of the same tests f, each once; those of A that passed make
\* up the lower rate.
RateFell(f, A, PA, ra, B, PB, rb) ==
  /\ IsFiniteSet(A) /\ IsFiniteSet(B) /\ A # {}
  /\ PA \in SUBSET A /\ PB \in SUBSET B
  /\ \A x, y \in A : f[x] = f[y] => x = y
  /\ \A x, y \in B : f[x] = f[y] => x = y
  /\ {f[x] : x \in A} = {f[x] : x \in B}
  /\ ra \in Int /\ rb \in Int /\ ra < rb
  /\ ra * Cardinality(A) = 100 * Cardinality(PA)
  /\ rb * Cardinality(B) = 100 * Cardinality(PB)

\* Then a test did not pass in A and passed in B.
LEMMA LowerRateHasATest ==
  ASSUME NEW f, NEW A, NEW PA, NEW ra, NEW B, NEW PB, NEW rb, RateFell(f, A, PA, ra, B, PB, rb)
  PROVE  \E x \in A, y \in B : f[x] = f[y] /\ x \notin PA /\ y \in PB
<1> USE DEF RateFell
<1> DEFINE T(S) == {f[x] : x \in S}
<1>1. /\ IsFiniteSet(PA) /\ IsFiniteSet(PB)
      /\ Cardinality(PA) \in Nat /\ Cardinality(PB) \in Nat /\ Cardinality(A) \in Nat
  BY FS_Subset, FS_CardinalityType
<1>2. Cardinality(A) = Cardinality(B) /\ Cardinality(A) # 0
  <2>1. Cardinality(T(A)) = Cardinality(A)
    <3>1. IsFiniteSet(A) /\ \A x, y \in A : f[x] = f[y] => x = y
      OBVIOUS
    <3>2. QED BY ONLY <3>1, ImageCount
  <2>2. Cardinality(T(B)) = Cardinality(B)
    <3>1. IsFiniteSet(B) /\ \A x, y \in B : f[x] = f[y] => x = y
      OBVIOUS
    <3>2. QED BY ONLY <3>1, ImageCount
  <2>3. T(A) = T(B)
    OBVIOUS
  <2>4. Cardinality(A) # 0
    BY FS_EmptySet
  <2>5. QED
    <3> HIDE DEF T
    <3> QED BY <2>1, <2>2, <2>3, <2>4
<1>3. Cardinality(PA) < Cardinality(PB)
  <2>1. PICK n \in Nat \ {0} : n = Cardinality(A) /\ n = Cardinality(B)
    BY <1>1, <1>2
  <2>2. ra * n = 100 * Cardinality(PA) /\ rb * n = 100 * Cardinality(PB)
    BY <2>1
  <2>3. QED BY <1>1, <2>2, LowerIsFewer
<1>4. /\ IsFiniteSet(T(PA)) /\ Cardinality(T(PA)) = Cardinality(PA)
      /\ IsFiniteSet(T(PB)) /\ Cardinality(T(PB)) = Cardinality(PB)
  <2>1. /\ \A x, y \in PA : f[x] = f[y] => x = y
        /\ \A x, y \in PB : f[x] = f[y] => x = y
    OBVIOUS
  <2>2. IsFiniteSet(T(PA)) /\ Cardinality(T(PA)) = Cardinality(PA)
    BY <1>1, <2>1, ImageCount
  <2>3. IsFiniteSet(T(PB)) /\ Cardinality(T(PB)) = Cardinality(PB)
    BY <1>1, <2>1, ImageCount
  <2>4. QED BY <2>2, <2>3
<1>5. PICK t \in T(PB) : t \notin T(PA)
  <2> HIDE DEF T
  <2>1. T(PB) \subseteq T(PA) => Cardinality(T(PB)) <= Cardinality(T(PA))
    BY <1>4, FS_Subset
  <2>2. ~ (Cardinality(T(PB)) <= Cardinality(T(PA)))
    BY <1>1, <1>3, <1>4
  <2>3. QED BY <2>1, <2>2
<1>6. PICK y \in PB : t = f[y]
  OBVIOUS
<1>7. PICK x \in A : t = f[x]
  <2>1. T(B) = T(A) /\ t \in T(B)
    BY <1>6
  <2>2. t \in T(A)
    <3> HIDE DEF T
    <3> QED BY <2>1
  <2>3. QED BY ONLY <2>2
<1>8. x \notin PA
  BY <1>5, <1>7
<1>9. QED BY <1>6, <1>7, <1>8

\* The only record of the latest run among some records is the last of them.
LEMMA LastRecord ==
  ASSUME ReportInv, NEW S \in SUBSET got, NEW o \in S,
         \A p \in S : p[1] <= o[1] /\ (p[1] = o[1] => p = o)
  PROVE  I!Final(S) = o
<1>1. \A p \in S : p[1] \in Int
  BY RecordsOfRuns, Numbered DEF ReportInv, TypeOK
<1>2. \A p \in S : p = o \/ I!Precedes(p, o)
  BY <1>1 DEF I!Precedes
<1>3. ASSUME NEW q \in S, \A p \in S : p = q \/ I!Precedes(p, q) PROVE q = o
  <2>1. SUFFICES ASSUME q # o PROVE FALSE
    OBVIOUS
  <2>2. I!Precedes(o, q)
    BY <1>3, <2>1
  <2>3. q[1] <= o[1] /\ q[1] # o[1] /\ q[1] \in Int /\ o[1] \in Int
    BY <1>1, <2>1
  <2>4. QED BY <2>2, <2>3 DEF I!Precedes
<1>4. QED BY <1>2, <1>3 DEF I!Final

\* A run has as many records as its document lists.
LEMMA CasesCount ==
  ASSUME ReportInv, NEW i \in All
  PROVE  IsFiniteSet(CasesOf(i)) /\ Cardinality(CasesOf(i)) = Len(docs[i].cases)
<1> DEFINE D == 1..Len(docs[i].cases)
<1> DEFINE f == [k \in D |-> <<i, k>>]
<1>1. CasesOf(i) = {f[k] : k \in D}
  <2>1. CasesOf(i) = {i} \X D
    BY Numbered DEF ReportInv, CasesOf
  <2>2. \A k \in D : f[k] = <<i, k>>
    OBVIOUS
  <2>3. QED
    <3> HIDE DEF D, f
    <3> QED BY <2>1, <2>2
<1>2. IsFiniteSet(D) /\ Cardinality(D) = Len(docs[i].cases)
  <2>1. Len(docs[i].cases) \in Nat
    BY Numbered DEF ReportInv
  <2>2. QED BY <2>1, UpTo
<1>3. \A x, y \in D : f[x] = f[y] => x = y
  <2> SUFFICES ASSUME NEW x \in D, NEW y \in D, f[x] = f[y] PROVE x = y
    OBVIOUS
  <2>1. f[x] = <<i, x>> /\ f[y] = <<i, y>>
    OBVIOUS
  <2>2. <<i, x>> = <<i, y>>
    BY <2>1, Zenon
  <2> HIDE DEF f, D
  <2>3. QED BY <2>2
<1>4. QED
  <2> HIDE DEF D, f
  <2>1. IsFiniteSet({f[x] : x \in D}) /\ Cardinality({f[x] : x \in D}) = Cardinality(D)
    BY ONLY <1>2, <1>3, ImageCount
  <2>2. QED BY <1>1, <1>2, <2>1

\* A test of a plain run is seen once in it.
LEMMA SeenOnce ==
  ASSUME ReportInv, NEW v, View(v), NEW i \in v.runs, Plain(v, i), NEW o \in CasesOf(i)
  PROVE  /\ o \in I!Observations(v, I!TestOf(v, o), I!Branch(docs[i])) /\ o[1] = i
         /\ I!ContextOf(v, o) = I!Context(docs[i])
         /\ \A b : \A p \in I!Observations(v, I!TestOf(v, o), b) :
               /\ p \in got /\ p[1] \in v.runs /\ I!Branch(docs[p[1]]) = b
               /\ p[1] = i => p = o
<1>1. o[1] = i
  BY DEF CasesOf
<1>2. o \in got
  BY DEF Plain
<1>3. /\ o \in I!Observations(v, I!TestOf(v, o), I!Branch(docs[i]))
      /\ I!ContextOf(v, o) = I!Context(docs[i])
  BY <1>1, <1>2 DEF I!Observations, I!Seen, I!ContextOf, View
<1>4. ASSUME NEW b, NEW p \in I!Observations(v, I!TestOf(v, o), b)
      PROVE  /\ p \in got /\ p[1] \in v.runs /\ I!Branch(docs[p[1]]) = b
             /\ p[1] = i => p = o
  <2>1. p \in got /\ p[1] \in v.runs /\ I!Branch(docs[p[1]]) = b /\ I!TestOf(v, p) = I!TestOf(v, o)
    BY <1>4 DEF I!Observations, I!Seen, View
  <2>2. p \in CasesOf(p[1])
    BY <2>1, RecordsOfRuns DEF ReportInv, TypeOK
  <2>3. ASSUME p[1] = i PROVE p = o
    BY <2>1, <2>2, <2>3 DEF Plain
  <2>4. QED BY <2>1, <2>3
<1>5. QED BY <1>1, <1>3, <1>4

\* The latest run of a cell in which a rate fell has a test that failed there,
\* and had passed in the run it is held against.
LEMMA RegressionShows ==
  ASSUME ReportInv, NEW v, View(v), OneSkill(v), NEW c \in I!Cells(v),
         NEW i, i = I!Max(I!Cell(v, c[1], c[2])), NEW j, j = I!ReferenceRun(v, c),
         I!Regressed(v, c), Plain(v, i), Plain(v, j),
         {I!TestOf(v, o) : o \in CasesOf(i)} = {I!TestOf(v, o) : o \in CasesOf(j)},
         I!Context(docs[i]) = I!Context(docs[j])
  PROVE  \E t \in {I!TestOf(v, o) : o \in CasesOf(i)} :
            \/ I!State(v, t, c[2]) \in {"regression", "flaky"}
            \/ I!Flaky(v, t, v.baseline)
<1> DEFINE cell == I!Cell(v, c[1], c[2])
           base == I!Cell(v, c[1], v.baseline)
           same == {k \in base : I!Context(docs[k]) = I!Context(docs[i])}
<1>1. \A k \in v.runs : \A b : I!Branch(docs[k]) = b => k \in I!Cell(v, c[1], b)
  BY DEF I!Cells, I!Cell, OneSkill, View
<1>2. c[2] # v.baseline /\ base # {} /\ I!Delta(v, c) <= -5
  BY DEF I!Regressed, I!Compared, I!REGRESSION_POINTS
<1>3. cell \in SUBSET v.runs /\ cell # {} /\ base \in SUBSET v.runs
  BY CellsAre
<1>4. i \in cell /\ \A k \in cell : k <= i
  <2> HIDE DEF cell
  <2> QED BY <1>3, ViewFacts DEF cell
<1>5. j = IF same # {} THEN I!Max(same) ELSE I!Max(base)
  BY DEF I!ReferenceRun, View
<1>6. j \in base
  <2> HIDE DEF base
  <2>1. same \in SUBSET v.runs /\ same \subseteq base
    BY <1>3
  <2> HIDE DEF same
  <2>2. QED BY <1>2, <1>3, <1>5, <2>1, ViewFacts
<1>7. j \in same /\ \A k \in same : k <= j
  <2>1. j \in same
    <3> HIDE DEF base
    <3> QED BY <1>6
  <2>2. same \in SUBSET v.runs
    <3> HIDE DEF base
    <3> QED BY <1>3
  <2>3. QED
    <3> HIDE DEF same, base
    <3> QED BY <1>5, <2>1, <2>2, ViewFacts
<1>8. i \in v.runs /\ j \in v.runs /\ I!Branch(docs[i]) = c[2] /\ I!Branch(docs[j]) = v.baseline
  <2>1. I!Branch(docs[i]) = c[2]
    BY <1>4 DEF I!Cell, View
  <2>2. I!Branch(docs[j]) = v.baseline
    BY <1>6 DEF I!Cell, View
  <2>3. QED
    <3> HIDE DEF cell, base
    <3> QED BY <1>3, <1>4, <1>6, <2>1, <2>2
<1>9. PICK o \in CasesOf(i), p \in CasesOf(j) :
          /\ I!TestOf(v, o) = I!TestOf(v, p)
          /\ I!OutcomeOf(v, o) # "pass" /\ I!OutcomeOf(v, p) = "pass"
  <2> DEFINE A == CasesOf(i)
             B == CasesOf(j)
             PA == {x \in A : I!OutcomeOf(v, x) = "pass"}
             PB == {x \in B : I!OutcomeOf(v, x) = "pass"}
             f  == [x \in A \cup B |-> I!TestOf(v, x)]
  <2>1. /\ IsFiniteSet(A) /\ Cardinality(A) = Len(docs[i].cases)
        /\ IsFiniteSet(B) /\ Cardinality(B) = Len(docs[j].cases)
    BY <1>8, CasesCount DEF View
  <2>2. /\ A # {} /\ docs[i].rate * Cardinality(A) = 100 * Cardinality(PA)
        /\ docs[j].rate * Cardinality(B) = 100 * Cardinality(PB)
    BY <2>1 DEF Plain
  <2>3. /\ \A x, y \in A : f[x] = f[y] => x = y
        /\ \A x, y \in B : f[x] = f[y] => x = y
    BY DEF Plain
  <2>4. {f[x] : x \in A} = {f[x] : x \in B}
    <3>1. \A x \in A \cup B : f[x] = I!TestOf(v, x)
      OBVIOUS
    <3>2. {f[x] : x \in A} = {I!TestOf(v, x) : x \in A} /\ {f[x] : x \in B} = {I!TestOf(v, x) : x \in B}
      <4> HIDE DEF f, A, B
      <4> QED BY <3>1
    <3>3. {I!TestOf(v, x) : x \in A} = {I!TestOf(v, x) : x \in B}
      OBVIOUS
    <3>4. QED BY ONLY <3>2, <3>3
  <2>5. docs[i].rate \in Int /\ docs[j].rate \in Int /\ docs[i].rate < docs[j].rate
    <3>1. docs[i].rate \in Int /\ docs[j].rate \in Int
      BY <1>8, ViewFacts
    <3>2. I!Delta(v, c) = docs[i].rate - docs[j].rate
      BY DEF I!Delta, I!LatestRate, View
    <3>3. QED BY <1>2, <3>1, <3>2
  <2>6. PA \in SUBSET A /\ PB \in SUBSET B
    OBVIOUS
  <2>7. \E x \in A, y \in B : f[x] = f[y] /\ x \notin PA /\ y \in PB
    <3> HIDE DEF f, A, B, PA, PB
    <3>1. RateFell(f, A, PA, docs[i].rate, B, PB, docs[j].rate)
      BY <2>1, <2>2, <2>3, <2>4, <2>5, <2>6 DEF RateFell
    <3>2. QED BY <3>1, LowerRateHasATest
  <2>8. PICK x \in A, y \in B : f[x] = f[y] /\ x \notin PA /\ y \in PB
    BY <2>7
  <2>9. f[x] = I!TestOf(v, x) /\ f[y] = I!TestOf(v, y)
    OBVIOUS
  <2>10. QED
    <3> HIDE DEF f
    <3> QED BY <2>8, <2>9
<1> DEFINE t == I!TestOf(v, o)
<1> DEFINE on == I!Observations(v, t, c[2])
<1> DEFINE held == {q \in I!Observations(v, t, v.baseline) : I!ContextOf(v, q) = I!Context(docs[i])}
<1>10. /\ o \in on /\ o[1] = i /\ I!ContextOf(v, o) = I!Context(docs[i])
       /\ \A q \in on : /\ q \in got /\ q[1] \in v.runs /\ I!Branch(docs[q[1]]) = c[2]
                        /\ q[1] = i => q = o
  BY <1>8, SeenOnce
<1>11. /\ p \in held /\ p[1] = j
       /\ \A q \in held : /\ q \in got /\ q[1] \in v.runs /\ I!Branch(docs[q[1]]) = v.baseline
                          /\ q[1] = j => q = p
  <2>1. /\ p \in I!Observations(v, t, v.baseline) /\ p[1] = j
        /\ I!ContextOf(v, p) = I!Context(docs[j])
        /\ \A q \in I!Observations(v, t, v.baseline) :
               /\ q \in got /\ q[1] \in v.runs /\ I!Branch(docs[q[1]]) = v.baseline
               /\ q[1] = j => q = p
    BY <1>8, <1>9, SeenOnce
  <2> HIDE DEF t
  <2>2. QED BY <2>1
<1>12. I!Final(on) = o
  <2>1. \A q \in on : q[1] <= o[1] /\ (q[1] = o[1] => q = o)
    <3> HIDE DEF on, cell
    <3> QED BY <1>1, <1>4, <1>10 DEF cell
  <2>2. on \in SUBSET got
    <3> HIDE DEF on
    <3> QED BY <1>10
  <2>3. QED
    <3> HIDE DEF on
    <3> QED BY <1>10, <2>1, <2>2, LastRecord
<1>13. I!Final(held) = p
  <2>1. \A q \in held : q[1] \in same
    <3>1. \A q \in held : I!Context(docs[q[1]]) = I!Context(docs[i])
      BY DEF I!ContextOf, View
    <3>2. \A q \in held : q[1] \in base
      <4> HIDE DEF held
      <4> QED BY <1>1, <1>11
    <3>3. QED
      <4> HIDE DEF held, base
      <4> QED BY <3>1, <3>2
  <2>2. \A q \in held : q[1] <= p[1] /\ (q[1] = p[1] => q = p)
    <3> HIDE DEF held, same
    <3> QED BY <1>7, <1>11, <2>1
  <2>3. held \in SUBSET got
    <3> HIDE DEF held
    <3> QED BY <1>11
  <2>4. QED
    <3> HIDE DEF held
    <3> QED BY <1>11, <2>2, <2>3, LastRecord
<1>14. I!FailsLast(v, t, c[2])
  <2>1. I!OutcomeOf(v, o) \in {"pass", "fail"}
    BY DEF Plain
  <2>2. I!Fails(v, o)
    BY <1>9, <2>1 DEF I!Fails, I!Failing
  <2>3. QED BY <1>12, <2>2 DEF I!FailsLast
<1>15. ~I!ReferenceFails(v, t, c[2]) /\ I!Observations(v, t, v.baseline) # {}
  <2>1. I!ContextOf(v, I!Final(on)) = I!Context(docs[i])
    <3> HIDE DEF on
    <3> QED BY <1>10, <1>12
  <2>2. held = {q \in I!Observations(v, t, v.baseline) : I!ContextOf(v, q) = I!ContextOf(v, I!Final(on))}
    <3> HIDE DEF on, t
    <3> QED BY <2>1
  <2>3. held # {} /\ I!Observations(v, t, v.baseline) # {}
    BY <1>11
  <2>4. I!ReferenceFails(v, t, c[2]) = I!Fails(v, I!Final(held))
    <3> DEFINE with(S) == I!Fails(v, I!Final(IF S # {} THEN S ELSE I!Observations(v, t, v.baseline)))
    <3>1. I!ReferenceFails(v, t, c[2]) =
              with({q \in I!Observations(v, t, v.baseline) : I!ContextOf(v, q) = I!ContextOf(v, I!Final(on))})
      BY DEF I!ReferenceFails
    <3>2. with(held) = I!Fails(v, I!Final(held))
      <4> HIDE DEF held, t
      <4> QED BY <2>3
    <3>3. QED
      <4> HIDE DEF with, held, on, t
      <4> QED BY <2>2, <3>1, <3>2
  <2>5. ~I!Fails(v, p)
    BY <1>9 DEF I!Fails, I!Failing
  <2>6. QED
    <3> HIDE DEF held, t
    <3> QED BY <1>13, <2>3, <2>4, <2>5
<1>16. QED
  <2>1. t \in {I!TestOf(v, q) : q \in CasesOf(i)}
    OBVIOUS
  <2> HIDE DEF t
  <2>2. QED BY <1>2, <1>14, <1>15, <2>1, StatesAre

\* Reports.CardsAgree: the cards of services/evaluation_insights.py, each made
\* by a pass of its own over the runs or the records, agree with each other and
\* with the results of the tests.
THEOREM CardsDoAgree == Spec => []CardsAgree
<1>1. ASSUME ReportInv PROVE CardsAgree
  <2> SUFFICES ASSUME NEW w \in {Landscape}, NEW v \in {Matrix}
      PROVE  /\ Cardinality({I!Context(docs[i]) : i \in w.runs}) = 1 =>
                /\ \A card \in I!RegressionCards(w) : card.rate < card.baselineRate
                /\ \A card \in I!BreakCards(v) : \A t \in card.broken : ~I!Bottleneck(v, t)
                /\ \A b \in I!Branches(v) : \A t \in I!FixedOn(v, b) : I!FailsOnBaseline(v, t)
                /\ \A card \in I!LandscapeCards(w) \cup I!TestCards(v) : card.kind # "environment-gap"
             /\ \A card \in I!BreakCards(v) : \A t \in card.onlyHere : ~I!FailsOnBaseline(v, t)
             /\ \A c \in I!Cells(v) :
                 \A i \in {Max(I!Cell(v, c[1], c[2]))}, j \in {I!ReferenceRun(v, c)} :
                 /\ I!Regressed(v, c)
                 /\ Plain(v, i) /\ Plain(v, j)
                 /\ {I!TestOf(v, o) : o \in CasesOf(i)} = {I!TestOf(v, o) : o \in CasesOf(j)}
                 /\ I!Context(docs[i]) = I!Context(docs[j])
                 => \E t \in {I!TestOf(v, o) : o \in CasesOf(i)} :
                     \/ I!State(v, t, c[2]) \in {"regression", "flaky"}
                     \/ I!Flaky(v, t, v.baseline)
    BY DEF CardsAgree
  <2>1. View(w) /\ View(v) /\ OneSkill(v) /\ v.runs \subseteq w.runs
    BY <1>1, ViewsAre
  <2>2. ASSUME Cardinality({I!Context(docs[i]) : i \in w.runs}) = 1
        PROVE  /\ \A card \in I!RegressionCards(w) : card.rate < card.baselineRate
               /\ \A card \in I!BreakCards(v) : \A t \in card.broken : ~I!Bottleneck(v, t)
               /\ \A b \in I!Branches(v) : \A t \in I!FixedOn(v, b) : I!FailsOnBaseline(v, t)
               /\ \A card \in I!LandscapeCards(w) \cup I!TestCards(v) : card.kind # "environment-gap"
    <3>1. OneContext(w)
      BY <1>1, <2>1, <2>2, ContextsAreOne
    <3>2. OneContext(v)
      BY <2>1, <3>1 DEF OneContext
    <3>3. \A card \in I!RegressionCards(w) : card.rate < card.baselineRate
      BY <1>1, <2>1, <3>1, RegressionsAreBelow
    <3>4. \A card \in I!BreakCards(v) : \A t \in card.broken : ~I!Bottleneck(v, t)
      BY <1>1, <2>1, <3>2, BreakCardsAre, BrokenIsNoBottleneck
    <3>5. \A b \in I!Branches(v) : \A t \in I!FixedOn(v, b) : I!FailsOnBaseline(v, t)
      BY <1>1, <2>1, <3>2, FixedFailsOnBaseline
    <3>6. \A card \in I!LandscapeCards(w) \cup I!TestCards(v) : card.kind # "environment-gap"
      BY <1>1, <2>1, <3>1, <3>2, NoGapCard
    <3>7. QED BY <3>3, <3>4, <3>5, <3>6
  <2>3. \A card \in I!BreakCards(v) : \A t \in card.onlyHere : ~I!FailsOnBaseline(v, t)
    <3> SUFFICES ASSUME NEW card \in I!BreakCards(v), NEW t \in card.onlyHere
                 PROVE  ~I!FailsOnBaseline(v, t)
      OBVIOUS
    <3>1. PICK b \in I!Branches(v) :
              card.onlyHere = {u \in I!BrokenOn(v, b) : I!BranchSpecific(v, u) = b}
      BY BreakCardsAre
    <3>2. t \in I!BrokenOn(v, b) /\ I!BranchSpecific(v, t) = b
      BY <3>1
    <3>3. QED BY <1>1, <2>1, <3>2, OnlyThere
  <2>4. ASSUME NEW c \in I!Cells(v),
               NEW i \in {Max(I!Cell(v, c[1], c[2]))}, NEW j \in {I!ReferenceRun(v, c)},
               I!Regressed(v, c), Plain(v, i), Plain(v, j),
               {I!TestOf(v, o) : o \in CasesOf(i)} = {I!TestOf(v, o) : o \in CasesOf(j)},
               I!Context(docs[i]) = I!Context(docs[j])
        PROVE  \E t \in {I!TestOf(v, o) : o \in CasesOf(i)} :
                   \/ I!State(v, t, c[2]) \in {"regression", "flaky"}
                   \/ I!Flaky(v, t, v.baseline)
    <3>1. i = I!Max(I!Cell(v, c[1], c[2])) /\ j = I!ReferenceRun(v, c)
      BY DEF Max, I!Max
    <3>2. QED BY <1>1, <2>1, <2>4, <3>1, RegressionShows
  <2>5. QED BY <2>2, <2>3, <2>4
<1>2. QED BY <1>1, ReportInvariant, PTL
==============================================================================
