-------------------------------- MODULE Reports --------------------------------
(***************************************************************************)
(* A report is put together from several reads of two collections, while   *)
(* scripts/dummy_unit_data.py (in the place of whatever records and        *)
(* removes evaluations) writes to both.  No read is in a transaction: the  *)
(* runs are read first, their cases in later calls, a chunk of runs at a   *)
(* time, and a comparison picks its versions, its two runs and their cases *)
(* one after another.  What is made of the reads is in UnitHistory,        *)
(* Insights and UnitComparison.                                            *)
(*                                                                         *)
(* scenario.docs are the documents of all runs the scenario is about, in   *)
(* the order of started_at and _id, each with its case records; those up   *)
(* to scenario.old are stored from the start, the others are the batch     *)
(* that the script may seed and clean up.                                  *)
(***************************************************************************)
EXTENDS Integers, Sequences, FiniteSets, FiniteSetsExt

CONSTANTS
    Scenarios,          \* [docs, old, request]
    BufferRuns,         \* runs the script inserts at a time (100 in the code)
    ChunkSize,          \* runs whose cases are read at a time (500)
    RunLimit,           \* runs Insights will analyse (10 000)
    CaseLimit,          \* case records Insights will analyse (100 000)
    None, Unknown

Kinds == {"history", "insights", "comparison"}

ASSUME ScenariosAssumption ==
    \A s \in Scenarios :
        /\ s.request.kind \in Kinds
        /\ Len(s.docs) \in Nat /\ DOMAIN s.docs = 1..Len(s.docs)
        /\ s.old \in 0..Len(s.docs)
        /\ \A i \in DOMAIN s.docs : LET c == s.docs[i].cases IN
                Len(c) \in Nat /\ DOMAIN c = 1..Len(c)
        /\ \A i \in DOMAIN s.docs : s.docs[i].rate \in Int
ASSUME BoundsAssumption ==
    /\ BufferRuns \in Nat \ {0} /\ ChunkSize \in Nat \ {0}
    /\ RunLimit \in Nat /\ CaseLimit \in Nat

VARIABLES
    scenario,
    runs,               \* places of the run documents that are stored
    cases,              \* case records that are stored, as <<place, record>>
    job,                \* what the script is doing
    phase,              \* of the request
    versions,           \* candidate and baseline, once a comparison has chosen
    found,              \* the runs it has read
    left,               \* those of them whose cases it still has to read
    got,                \* the case records it has read
    due,                \* those that were stored when it read them
    quiet               \* nothing has been written since its first read

vars == <<scenario, runs, cases, job, phase, versions, found, left, got, due, quiet>>
request == <<phase, versions, found, left, got, due>>

H == INSTANCE UnitHistory
I == INSTANCE Insights
C == INSTANCE UnitComparison

ASSUME NoneAssumption == None # I!UNRECORDED_BRANCH

docs == scenario.docs
req  == scenario.request
All  == DOMAIN docs
CasesOf(i) == {i} \X DOMAIN docs[i].cases
CasesIn(S) == UNION {CasesOf(i) : i \in S}
Batch      == {i \in All : i > scenario.old}

-----------------------------------------------------------------------------
(* The script.  It inserts the cases of a buffer, one document after       *)
(* another, then its runs; cleaning up, it deletes cases first.  It may    *)
(* die at any point and be started again.                                  *)

Buffer(i) == {j \in Batch : (j - scenario.old - 1) \div BufferRuns = (i - scenario.old - 1) \div BufferRuns}

Seedable == Batch # {} /\ runs \cap Batch = {} /\ cases \cap CasesIn(Batch) = {}

\* Documents are inserted in order, buffer by buffer.
InsertableRuns ==
    {i \in Batch \ runs : CasesIn(Buffer(i)) \subseteq cases /\ \A j \in Batch : j < i => j \in runs}

InsertableCases ==
    {c \in CasesIn(Batch) \ cases :
        /\ \A j \in Batch \ Buffer(c[1]) : j < c[1] => j \in runs
        /\ \A d \in CasesIn(Batch) : I!Precedes(d, c) => d \in cases}

Written == quiet' = (quiet /\ phase = "start")

StartSeed ==
    /\ job = "none" /\ Seedable
    /\ job' = "seed"
    /\ UNCHANGED <<runs, cases, quiet>>

Insert ==
    /\ job = "seed"
    /\ \/ /\ \E c \in InsertableCases : cases' = cases \cup {c}
          /\ UNCHANGED runs
       \/ /\ \E i \in InsertableRuns : runs' = runs \cup {i}
          /\ UNCHANGED cases
    /\ Written
    /\ UNCHANGED job

StartCleanup ==
    /\ job = "none" /\ Batch # {}
    /\ job' = "cleanup"
    /\ UNCHANGED <<runs, cases, quiet>>

Delete ==
    /\ job = "cleanup"
    /\ \/ /\ \E c \in cases \cap CasesIn(Batch) : cases' = cases \ {c}
          /\ UNCHANGED runs
       \/ /\ cases \cap CasesIn(Batch) = {}
          /\ \E i \in runs \cap Batch : runs' = runs \ {i}
          /\ UNCHANGED cases
    /\ Written
    /\ UNCHANGED job

\* The script is through with its job, or dies.
EndJob ==
    /\ job # "none"
    /\ job' = "none"
    /\ UNCHANGED <<runs, cases, quiet>>

Script ==
    /\ StartSeed \/ Insert \/ StartCleanup \/ Delete \/ EndJob
    /\ UNCHANGED <<scenario, request>>

-----------------------------------------------------------------------------
(* The request, one action for each read. *)

\* Mutant: runs outside the window are analysed too.
RunsOfAnyTime(S) ==
    LET s == I!Select(docs, All, req) IN {i \in s.runs : docs[i].skill = s.scope}

InsightsRuns(S) ==
    LET s == I!Select(docs, S, req) IN {i \in s.runs : docs[i].skill = s.scope}

ReadHistoryRuns ==
    /\ phase = "start" /\ req.kind = "history"
    /\ found' = {i \in runs : H!InScope(docs[i], req)}
    /\ left' = found'
    /\ phase' = IF left' = {} THEN "answered" ELSE "cases"
    /\ UNCHANGED <<versions, got, due>>

\* load_runs and select_runs.  More runs than the limit are refused.
ReadInsightsRuns ==
    /\ phase = "start" /\ req.kind = "insights"
    /\ found' = {i \in runs : docs[i].eval_type = req.eval_type /\ H!InWindow(docs[i], req)}
    /\ left' = InsightsRuns(found')
    /\ phase' = IF Cardinality(found') > RunLimit THEN "refused"
                ELSE IF left' = {} THEN "answered" ELSE "cases"
    /\ UNCHANGED <<versions, got, due>>

\* The versions are chosen by the runs that are there now, and those runs
\* looked up later, one after the other.
ReadVersions ==
    /\ phase = "start" /\ req.kind = "comparison"
    /\ LET c == C!CandidateVersion(docs, runs, req)
           b == C!BaselineVersion(docs, runs, req) IN
       /\ versions' = <<c, b>>
       /\ phase' = IF \/ C!LatestRunsByVersion(docs, runs, req) = {}
                      \/ b \in {None, c}
                   THEN "refused" ELSE "candidate"
    /\ UNCHANGED <<found, left, got, due>>

ReadCandidate ==
    /\ phase = "candidate"
    /\ found' = C!LatestRunForVersion(docs, runs, req, versions[1])
    /\ phase' = "baseline"
    /\ UNCHANGED <<versions, left, got, due>>

ReadBaseline ==
    /\ phase = "baseline"
    /\ LET run == C!LatestRunForVersion(docs, runs, req, versions[2]) IN
       /\ found' = found \cup run
       /\ left' = found'
       /\ phase' = IF {} \in {found, run} THEN "refused" ELSE "cases"
    /\ UNCHANGED <<versions, got, due>>

\* A comparison reads the cases of its two runs at once.
Chunk ==
    {i \in left : req.kind = "comparison" \/ Cardinality({j \in left : j <= i}) <= ChunkSize}

\* Mutant: the allowance without the one record too many.
RemainingExactly(read) == CaseLimit - Cardinality(read)

\* The allowance for the next chunk; MongoDB takes 0 for no limit.
Remaining(read) == CaseLimit + 1 - Cardinality(read)

Batches(matched) ==
    IF req.kind # "insights" \/ Remaining(got) = 0 \/ Cardinality(matched) <= Remaining(got)
    THEN {matched}
    ELSE {b \in SUBSET matched : Cardinality(b) = Remaining(got)}

ReadCases ==
    /\ phase = "cases"
    /\ left' = left \ Chunk
    /\ LET matched == {c \in cases : c[1] \in Chunk} IN
       /\ due' = due \cup matched
       /\ \E b \in Batches(matched) : got' = got \cup b
    /\ phase' = IF req.kind = "insights" /\ Cardinality(got') > CaseLimit THEN "refused"
                ELSE IF left' = {} THEN "answered" ELSE "cases"
    /\ UNCHANGED <<versions, found>>

Request ==
    /\ \/ ReadHistoryRuns \/ ReadInsightsRuns \/ ReadCases
       \/ ReadVersions \/ ReadCandidate \/ ReadBaseline
    /\ UNCHANGED <<scenario, runs, cases, job, quiet>>

-----------------------------------------------------------------------------
Init ==
    /\ scenario \in Scenarios
    /\ runs = 1..scenario.old
    /\ cases = CasesIn(1..scenario.old)
    /\ job = "none"
    /\ phase = "start" /\ versions = <<>>
    /\ found = {} /\ left = {} /\ got = {} /\ due = {}
    /\ quiet = TRUE

\* A scenario ends with its report.
Next == phase \notin {"answered", "refused"} /\ (Script \/ Request)

Spec == Init /\ [][Next]_vars
-----------------------------------------------------------------------------
(* Properties. *)

\* What a request has read is what was stored, within what it asked for.
TypeOK ==
    /\ runs \subseteq All /\ cases \subseteq CasesIn(All)
    /\ job \in {"none", "seed", "cleanup"}
    /\ phase \in {"start", "candidate", "baseline", "cases", "answered", "refused"}
    /\ found \subseteq All /\ left \subseteq found
    /\ got \subseteq due /\ due \subseteq CasesIn(found)
    /\ quiet \in BOOLEAN

Told(kind) == phase = "answered" /\ req.kind = kind

\* "no partial analytics are returned" (docs/EVALUATION_INSIGHTS.md): however
\* the limit on case records is spread over the chunks, a report that is
\* returned rests on every record that was there when its chunk was read.
WholeOrRefused == phase = "answered" => got = due

\* The History report of the runs and cases that were read, or would be.
Run(i)    == H!Prepared(docs[i], {c[2] : c \in {d \in got : d[1] = i}}, req)
InOrder(S) == [k \in 1..Cardinality(S) |-> CHOOSE i \in S : Cardinality({j \in S : j < i}) = k - 1]
History   == [p \in 1..Cardinality(found) |-> Run(InOrder(found)[p])]
ToldHistories == IF Told("history") THEN {History} ELSE {}

\* A summary that counts the records there are.
Honest(d) == d.total = Len(d.cases)

\* Missing case records are no evidence: though the runs and their cases are
\* read apart, and the script writes in between, a run with an honest summary
\* passes for complete only if each of its records was read.
CompleteMeansRecorded ==
    Told("history") => \A i \in found : Run(i).complete /\ Honest(docs[i]) => CasesOf(i) \subseteq got

\* What is written beside a run depends on the runs before it only: once those
\* up to it are recorded in full, later runs change none of it, the "frozen"
\* reference of a branch among it.
SettledHistoryStays ==
    \A h \in ToldHistories :
    \A places \in {InOrder({i \in All : H!InScope(docs[i], req)})} :
    \A full \in {[p \in DOMAIN places |->
                      H!Prepared(docs[places[p]], DOMAIN docs[places[p]].cases, req)]} :
    \A p \in DOMAIN h :
        /\ p \in DOMAIN full
        /\ \A q \in 1..p : /\ InOrder(found)[q] = places[q]
                           /\ h[q].complete /\ Honest(h[q].run)
        => H!Annotations(h, p) = H!Annotations(full, p)

\* Four passes annotate the runs, each with its own idea of the run before.
\* They agree: the run a delta is taken against is a verified reference and the
\* step before on the branch in the line of progress; one that only the
\* settings set apart is an observed reference; no run is a reference of both
\* kinds; no verified reference is later than the step before; a change of context is never the same step as a
\* delta; and a measured run is said to have nothing before it only if
\* no measured run of a branch in its context is.
AnnotationsAgree ==
    \A h \in ToldHistories : \A p \in DOMAIN h : \A a \in {H!Annotations(h, p)} :
        /\ a.transition = "comparable" =>
                a.before \in a.references /\ a.progression.same = a.before
        /\ a.transition = "settings_changed" => \E r \in a.observed : r.run = a.before
        /\ \A r \in a.observed : r.run \notin a.references
        /\ \A r \in a.references : r <= a.progression.execution
        /\ a.context # 0 => a.context > a.before
        /\ h[p].measured /\ h[p].branch # None =>
                (a.alone <=> ~\E q \in 1..p - 1 : /\ h[q].measured /\ h[q].branch # None
                                                  /\ h[q].context = h[p].context)

\* The same message is made for every run.
AloneMeansFirst ==
    \A h \in ToldHistories : \A p \in DOMAIN h : H!Annotations(h, p).alone =>
        ~\E q \in 1..p - 1 : h[q].measured /\ h[q].context = h[p].context

\* What is counted in one place is what is listed in another: an operational
\* run has an issue to show, and no rate of one is compared; no cohort is
\* counted under two sets of versions; what the latest run of a branch leaves
\* out, as a gap, shows as not run; and a latest run of inconsistent results
\* shares its commit with another run.
GroupsAgree(h, cohort) ==
    \A signals \in {H!Signals(h, cohort)} :
    /\ signals.operational = {issue[1] : issue \in H!ExecutionIssues(h)}
    /\ \A p \in signals.operational : ~h[p].measured
    /\ \A g, k \in H!SettingsGroups(h) : g = k \/ g.cohorts \cap k.cohorts = {}
    /\ \A key \in signals.gaps : \A p \in H!WiderRuns(h, key) :
            \A n \in H!Cases(h[p]) \ H!Cases(h[H!Latest(H!OnBranchKey(h, key))]) :
                H!LatestState(h, key, n) \in {"not_run", "blocked"}
    /\ \A key \in H!BranchKeys(h) : H!InconsistentLatest(h, key, cohort) =>
            \E commit \in H!Commits(h, key) :
                /\ H!Latest(H!OnBranchKey(h, key)) \in commit.runs
                /\ Cardinality(commit.runs) > 1

\* Signals rest on the counts beside them: a cohort is described by its first
\* run and that holds for all; a case that is inconsistent has failed and
\* passed in the cell of its branch; the latest state of a cell is among its
\* counts; a branch improves or declines only if the same tests passed more or
\* less often under another commit, and a branch of comparable steps has no
\* change of settings.
EvidenceAddsUp ==
    \A h \in ToldHistories : \A shown \in {H!DefaultCohort(h)} :
        /\ GroupsAgree(h, shown)
        /\ \A key \in H!Cohorts(h) : \A p \in H!Cohort(h, key) :
                h[p].configured = H!ConfigurationComplete(h, key)
        /\ \A g \in H!InconsistentGroups(h, shown) : \A n \in g.cases : \A p \in g.runs :
                /\ H!CellCount(h, shown, h[p].branch_key, n, "failed") > 0
                /\ H!CellCount(h, shown, h[p].branch_key, n, "passed") > 0
                /\ h[p].branch_key \in H!CaseRow(h, shown, n).affected
        /\ \A key \in H!BranchKeys(h) :
            LET Measured == {p \in H!OnBranchKey(h, key) : h[p].measured}
                Passed(p) == {n \in H!Cases(h[p]) : h[p].verdicts[n] = "passed"} IN
            \A l \in {H!Latest(H!OnBranchKey(h, key))}, f \in {H!Earliest(Measured)},
               direction \in {H!Direction(h, key)} :
            /\ l \in H!Matching(h, shown) => \A n \in H!Cases(h[l]) :
                    LET state == H!LatestState(h, key, n) IN
                    state # "blocked" => H!CellCount(h, shown, key, n, state) > 0
            /\ direction \in {"improved", "declined"} =>
                    /\ h[l].measured /\ H!Cases(h[f]) = H!Cases(h[l])
                    /\ h[f].sha # h[l].sha
                    /\ IF direction = "improved" THEN Cardinality(Passed(l)) > Cardinality(Passed(f))
                       ELSE Cardinality(Passed(l)) < Cardinality(Passed(f))
            /\ (\A p \in H!OnBranchKey(h, key) : H!Transition(h, p) \in {"first", "comparable"})
                    => direction # "context_changed"

\* The analysis of the runs that were selected, and of those of one scope.
Selection == I!Select(docs, found, req)
Landscape == [docs |-> docs, runs |-> Selection.runs, read |-> got, baseline |-> Selection.baseline]
Matrix    == [Landscape EXCEPT !.runs = InsightsRuns(found)]

\* Runs whose every record was read, once, and as passed or failed.
Plain(v, i) ==
    /\ CasesOf(i) \subseteq got /\ CasesOf(i) # {}
    /\ \A c, d \in CasesOf(i) : /\ I!OutcomeOf(v, c) \in {"pass", "fail"}
                                /\ I!TestOf(v, c) = I!TestOf(v, d) => c = d
    /\ docs[i].rate * Len(docs[i].cases) =
            100 * Cardinality({c \in CasesOf(i) : I!OutcomeOf(v, c) = "pass"})

\* The cards agree with each other and with the tests: within one context the
\* branch a regression card names is below the baseline rate it names; a test
\* only one branch breaks does not fail on the baseline; within one context no
\* test is broken by a branch and a bottleneck of all, what a branch fixes fails
\* on the baseline, and no card tells environments apart; and a cell that
\* regressed shows in the matrix, as a test that is broken there or flaky.
CardsAgree ==
    Told("insights") => \A w \in {Landscape}, v \in {Matrix} :
        LET TestsOf(i) == {I!TestOf(v, c) : c \in CasesOf(i)} IN
        /\ Cardinality({I!Context(docs[i]) : i \in w.runs}) = 1 =>
            /\ \A card \in I!RegressionCards(w) : card.rate < card.baselineRate
            /\ \A card \in I!BreakCards(v) : \A t \in card.broken : ~I!Bottleneck(v, t)
            /\ \A b \in I!Branches(v) : \A t \in I!FixedOn(v, b) : I!FailsOnBaseline(v, t)
            /\ \A card \in I!LandscapeCards(w) \cup I!TestCards(v) : card.kind # "environment-gap"
        /\ \A card \in I!BreakCards(v) : \A t \in card.onlyHere : ~I!FailsOnBaseline(v, t)
        /\ \A c \in I!Cells(v) :
            \A i \in {Max(I!Cell(v, c[1], c[2]))}, j \in {I!ReferenceRun(v, c)} :
            /\ I!Regressed(v, c)
            /\ Plain(v, i) /\ Plain(v, j) /\ TestsOf(i) = TestsOf(j)
            /\ I!Context(docs[i]) = I!Context(docs[j])
            => \E t \in TestsOf(i) :
                \/ I!State(v, t, c[2]) \in {"regression", "flaky"}
                \/ I!Flaky(v, t, v.baseline)

\* A comparison has passed a run over for one of version v: while the report
\* was read the run came, or a run of that version came or went.
PassedOver(i, v) ==
    /\ ~quiet
    /\ \/ i \in Batch
       \/ /\ C!Version(docs[i]) # v
          /\ \E k \in C!Candidates(docs, Batch, req) : C!Version(docs[k]) = v

\* A comparison is of one run of each version it names, two versions, and of the
\* newest runs there are: the newest of all and the newest of another version,
\* where the request does not say which.  Its versions are chosen before its
\* runs are looked up; what is written in between can bring in a newer run that
\* it does not see, or leave it with a version whose newest run is gone, but it
\* never passes over a run that was there all along for an older one of the same
\* version, or of a version that nothing was written of.
ComparisonIsLatest ==
    Told("comparison") =>
        \E c, b \in found :
            /\ found = {c, b}
            /\ <<C!Version(docs[c]), C!Version(docs[b])>> = versions /\ versions[1] # versions[2]
            /\ \A i \in C!Candidates(docs, runs, req) :
                /\ req.candidate = None \/ C!Version(docs[i]) = versions[1]
                        => i <= c \/ PassedOver(i, versions[1])
                /\ \/ req.baseline = None /\ C!Version(docs[i]) # versions[1]
                   \/ C!Version(docs[i]) = versions[2]
                        => i <= b \/ PassedOver(i, versions[2])
            /\ \A m \in DOMAIN C!MetricScores(docs, got, c) \cap DOMAIN C!MetricScores(docs, got, b) :
                C!MetricDelta(docs, got, b, c, m).under # 0
=============================================================================
