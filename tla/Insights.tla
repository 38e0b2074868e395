------------------------------- MODULE Insights -------------------------------
(***************************************************************************)
(* The analysis behind the Insights view (services/evaluation_insights.py):*)
(* which runs are selected, how branches compare with a baseline, how the  *)
(* tests of one skill did on each branch, and the cards that say so.       *)
(* Pure operators; Reports.tla says when what is read.                     *)
(*                                                                         *)
(* A view v is [docs, runs, read, baseline]: the run documents in the      *)
(* order of started_at and _id, the places of those that take part, the    *)
(* case records read as pairs <<place, record>>, and the baseline branch.  *)
(***************************************************************************)
EXTENDS Integers, Sequences, FiniteSets, FiniteSetsExt, Functions

CONSTANT None           \* what is not recorded

REGRESSION_POINTS      == 5
ENVIRONMENT_GAP_POINTS == 10
UNRECORDED_BRANCH      == "(no branch recorded)"
Conventional           == <<"main", "master", "develop", "dev">>

-----------------------------------------------------------------------------
(* Runs and their selection. *)

Branch(d)  == IF d.branch = None THEN UNRECORDED_BRANCH ELSE d.branch
Context(d) == IF d.eval_type = "e2e" THEN <<d.stage>> ELSE <<d.stage, d.target>>

\* xpassed counts as passed; blocked, pending and unheard of as errors.
Outcome(verdict) ==
    IF verdict \in {"passed", "xpassed"} THEN "pass"
    ELSE IF verdict = "failed" THEN "fail"
    ELSE IF verdict = "skipped" THEN "skip" ELSE "error"

Failing(outcome) == outcome \in {"fail", "error"}

RunVerdict(d) == IF d.status \in {"blocked", "error"} THEN "blocked" ELSE d.verdict

\* A conventional name, else the branch with most runs, else none recorded.
PickBaseline(docs, runs) ==
    LET names    == {Branch(docs[i]) : i \in runs}
        places   == {k \in 1..Len(Conventional) : Conventional[k] \in names}
        Count(b) == Cardinality({i \in runs : Branch(docs[i]) = b})
        named    == names \ {UNRECORDED_BRANCH}
    IN  IF places # {} THEN Conventional[Min(places)]
        ELSE IF named # {} THEN CHOOSE b \in named : \A c \in named : Count(b) >= Count(c)
        ELSE IF names # {} THEN UNRECORDED_BRANCH ELSE None

\* select_runs: each filter falls back when nothing in the window matches it.
Select(docs, loaded, query) ==
    LET unit     == query.eval_type = "unit"
        Of(field, S) == {docs[i][field] : i \in S}
        typed    == {i \in loaded : /\ docs[i].status \in {"completed", "blocked", "error"}
                                    /\ docs[i].total > 0}
        inRepo   == {i \in typed : query.repository \in {"all", docs[i].repository}}
        focus    == {i \in inRepo : docs[i].skill = query.scope}
        category == IF ~unit THEN "all"
                    ELSE IF query.category \in Of("category", inRepo) \cup {"all"} THEN query.category
                    ELSE IF focus # {} THEN docs[Min(focus)].category
                    ELSE IF inRepo # {} THEN CHOOSE c \in Of("category", inRepo) : TRUE
                    ELSE "all"
        inCategory == {i \in inRepo : category \in {"all", docs[i].category}}
        Narrow(S)  == IF query.scope \in Of("skill", inCategory)
                      THEN {i \in S : docs[i].skill = query.scope} ELSE S
        stages     == Of("stage", IF unit THEN Narrow(inCategory) ELSE inCategory)
        AtStage(s) == {i \in inCategory : docs[i].stage = s}
        busiest    == CHOOSE s \in Of("stage", inCategory) : \A t \in Of("stage", inCategory) :
                          Cardinality(AtStage(s)) >= Cardinality(AtStage(t))
        stage    == IF query.stage \in stages \cup (IF unit THEN {"all"} ELSE {}) THEN query.stage
                    ELSE IF ~unit /\ inCategory # {} THEN busiest ELSE "all"
        inStage  == {i \in inCategory : stage \in {"all", docs[i].stage}}
        targets  == IF unit THEN Of("target", Narrow(inStage)) ELSE {}
        target   == IF query.target \in targets THEN query.target ELSE "all"
        runs     == {i \in inStage : target \in {"all", docs[i].target}}
    IN [runs     |-> runs,
        baseline |-> IF \E i \in runs : Branch(docs[i]) = query.baseline THEN query.baseline
                     ELSE PickBaseline(docs, runs),
        scope    |-> IF \E i \in runs : docs[i].skill = query.scope THEN query.scope ELSE None]

-----------------------------------------------------------------------------
(* build_landscape: skills against branches, by the recorded pass rates. *)

Cell(v, s, b) == {i \in v.runs : v.docs[i].skill = s /\ Branch(v.docs[i]) = b}
Cells(v)      == {<<v.docs[i].skill, Branch(v.docs[i])>> : i \in v.runs}
LatestRate(v, c) == v.docs[Max(Cell(v, c[1], c[2]))].rate

\* Mutant: the oldest run of the baseline.
OldestRun(v, c) == Min(Cell(v, c[1], v.baseline))

\* What the latest run of a cell is held against: the latest run of the
\* baseline in the same context, else the latest one in any.
ReferenceRun(v, c) ==
    LET base == Cell(v, c[1], v.baseline)
        same == {j \in base : Context(v.docs[j]) = Context(v.docs[Max(Cell(v, c[1], c[2]))])}
    IN  IF same # {} THEN Max(same) ELSE Max(base)

Compared(v, c)  == c[2] # v.baseline /\ Cell(v, c[1], v.baseline) # {}
Delta(v, c)     == LatestRate(v, c) - v.docs[ReferenceRun(v, c)].rate
Regressed(v, c) == Compared(v, c) /\ Delta(v, c) <= -REGRESSION_POINTS
Improved(v, c)  == Compared(v, c) /\ Delta(v, c) >= REGRESSION_POINTS

OfScope(v, s)  == {c \in Cells(v) : c[1] = s}
OfBranch(v, b) == {c \in Cells(v) : c[2] = b}

Systemic(v, s) ==
    /\ Cardinality(OfScope(v, s)) >= 2
    /\ \A c \in OfScope(v, s) : RunVerdict(v.docs[Max(Cell(v, c[1], c[2]))]) # "passed"

\* The cards of the landscape, before the first few of each kind are shown.
SystemicCards(v) ==
    {[kind |-> "systemic", severity |-> "critical", scope |-> s] :
        s \in {t \in {c[1] : c \in Cells(v)} : Systemic(v, t)}}

RegressionCards(v) ==
    {LET regressed == {d \in OfScope(v, c[1]) : Regressed(v, d)}
         worst     == CHOOSE d \in regressed : \A e \in regressed : Delta(v, d) <= Delta(v, e)
     IN [kind         |-> "branch-regression",
         severity     |-> IF Cardinality(regressed) > 1 THEN "critical" ELSE "warning",
         scope        |-> c[1],
         branch       |-> worst[2],
         rate         |-> LatestRate(v, worst),
         baselineRate |-> LatestRate(v, <<c[1], v.baseline>>)] :
        c \in {d \in Cells(v) : Regressed(v, d) /\ ~Systemic(v, d[1])}}

BranchCards(v) ==
    LET others    == {c[2] : c \in Cells(v)} \ {v.baseline}
        Worse(b)  == {c \in OfBranch(v, b) : Regressed(v, c)}
        Better(b) == {c \in OfBranch(v, b) : Improved(v, c)}
    IN  {[kind |-> "branch-regression", severity |-> "critical", branch |-> b, scopes |-> Worse(b)] :
            b \in {c \in others : Cardinality(Worse(c)) >= 2}}
        \cup {[kind |-> "branch-fix", severity |-> "good", branch |-> b, scopes |-> Better(b)] :
            b \in {c \in others : Better(c) # {}}}

DriftCards(v) ==
    LET Drop(c) == v.docs[Min(Cell(v, c[1], c[2]))].rate - LatestRate(v, c) IN
    {[kind |-> "baseline-drift", severity |-> "warning", scope |-> c[1], drop |-> Drop(c)] :
        c \in {d \in OfBranch(v, v.baseline) : /\ Cardinality(Cell(v, d[1], d[2])) >= 3
                                               /\ Drop(d) >= REGRESSION_POINTS * 2}}

\* The gap between the contexts of a cell, by the latest run in each; a gap on
\* the baseline is shown before a wider one elsewhere.
ContextRates(v, c) ==
    LET cell == Cell(v, c[1], c[2]) IN
    {LET same == {j \in cell : Context(v.docs[j]) = Context(v.docs[i])} IN v.docs[Max(same)].rate :
        i \in cell}

Spread(v, c) == Max(ContextRates(v, c)) - Min(ContextRates(v, c))

GapCards(v) ==
    LET Gaps(s) == {c \in OfScope(v, s) : Spread(v, c) >= ENVIRONMENT_GAP_POINTS}
        Shown(s) == CHOOSE c \in Gaps(s) : \A d \in Gaps(s) :
                        \/ c[2] = v.baseline
                        \/ d[2] # v.baseline /\ Spread(v, c) >= Spread(v, d)
    IN  {[kind     |-> "environment-gap",
          severity |-> IF Spread(v, Shown(s)) >= 25 THEN "critical" ELSE "warning",
          scope    |-> s,
          branch   |-> Shown(s)[2]] : s \in {c[1] : c \in {d \in Cells(v) : Gaps(d[1]) # {}}}}

LandscapeCards(v) ==
    SystemicCards(v) \cup RegressionCards(v) \cup BranchCards(v) \cup DriftCards(v) \cup GapCards(v)

-----------------------------------------------------------------------------
(* build_test_matrix: tests against branches, by the case records read.    *)
(* The runs of the view are those of the active scope here.                *)

TestOf(v, o)     == v.docs[o[1]].cases[o[2]].name
OutcomeOf(v, o)  == Outcome(v.docs[o[1]].cases[o[2]].verdict)
Fails(v, o)      == Failing(OutcomeOf(v, o))
ContextOf(v, o)  == Context(v.docs[o[1]])
Precedes(o, p)   == o[1] < p[1] \/ (o[1] = p[1] /\ o[2] < p[2])
Final(S)         == CHOOSE o \in S : \A p \in S : p = o \/ Precedes(p, o)

Seen(v)          == {o \in v.read : o[1] \in v.runs}
Tests(v)         == {TestOf(v, o) : o \in Seen(v)}
Branches(v)      == {Branch(v.docs[i]) : i \in v.runs}
Observations(v, t, b) == {o \in Seen(v) : TestOf(v, o) = t /\ Branch(v.docs[o[1]]) = b}
BranchesOf(v, t) == {b \in Branches(v) : Observations(v, t, b) # {}}
TestsOn(v, b)    == {t \in Tests(v) : Observations(v, t, b) # {}}

FailsLast(v, t, b) == Fails(v, Final(Observations(v, t, b)))

\* count_flips: changes between failing and not, each within one context.
Flips(v, t, b) ==
    LET obs == Observations(v, t, b)
        Prior(o) == {p \in obs : Precedes(p, o) /\ ContextOf(v, p) = ContextOf(v, o)}
    IN  Cardinality({o \in obs : Prior(o) # {} /\ Fails(v, Final(Prior(o))) # Fails(v, o)})

Flaky(v, t, b) == Flips(v, t, b) >= 2

\* The last result on the baseline in the context of the last one on b.
ReferenceFails(v, t, b) ==
    LET base == Observations(v, t, v.baseline)
        same == {o \in base : ContextOf(v, o) = ContextOf(v, Final(Observations(v, t, b)))}
    IN  Fails(v, Final(IF same # {} THEN same ELSE base))

State(v, t, b) ==
    LET fail    == FailsLast(v, t, b)
        against == v.baseline # b /\ Observations(v, t, v.baseline) # {}
    IN  IF Flaky(v, t, b) THEN "flaky"
        ELSE IF against /\ ~Flaky(v, t, v.baseline) /\ fail # ReferenceFails(v, t, b)
             THEN IF fail THEN "regression" ELSE "fixed"
        ELSE IF fail THEN "fail" ELSE "pass"

InState(v, t, state) == {b \in BranchesOf(v, t) : State(v, t, b) = state}

\* environment_split: a branch on which a test always fails in some contexts
\* and always passes in others.
SplitOn(v, t, b) ==
    LET obs        == Observations(v, t, b)
        In(x)      == {o \in obs : ContextOf(v, o) = x}
        contexts   == {ContextOf(v, o) : o \in obs}
        fails      == {x \in contexts : \A o \in In(x) : Fails(v, o)}
        passes     == {x \in contexts : \A o \in In(x) : OutcomeOf(v, o) = "pass"}
    IN [branch |-> b, failing |-> fails, passing |-> passes,
        holds  |-> /\ fails # {} /\ passes # {}
                   /\ Cardinality({o \in obs : ContextOf(v, o) \in fails}) >= 2]

\* One split is shown: of the baseline, else of the branch with most results.
EnvironmentSplit(v, t) ==
    LET split == {b \in BranchesOf(v, t) : SplitOn(v, t, b).holds}
        Weight(b) == Cardinality(Observations(v, t, b))
    IN  IF split = {} THEN None
        ELSE IF v.baseline \in split THEN SplitOn(v, t, v.baseline)
        ELSE SplitOn(v, t, CHOOSE b \in split : \A c \in split : Weight(b) >= Weight(c))

FailingBranches(v, t) == {b \in BranchesOf(v, t) : FailsLast(v, t, b)}
FailsOnBaseline(v, t) == v.baseline \in FailingBranches(v, t)
FailureCount(v, t)    == Cardinality({o \in Seen(v) : TestOf(v, o) = t /\ Fails(v, o)})

Bottleneck(v, t) ==
    LET n == Cardinality(BranchesOf(v, t))
        f == Cardinality(FailingBranches(v, t))
    IN  /\ EnvironmentSplit(v, t) = None
        /\ n >= 2 /\ f >= 2 /\ 2 * f >= n
        /\ v.baseline \in BranchesOf(v, t) => FailsOnBaseline(v, t)

BranchSpecific(v, t) ==
    LET regressed == InState(v, t, "regression") IN
    IF Cardinality(regressed) = 1 /\ Cardinality(FailingBranches(v, t)) = 1
    THEN CHOOSE b \in regressed : TRUE ELSE None

-----------------------------------------------------------------------------
(* test_insights: the cards of the matrix. *)

BrokenOn(v, b) == {t \in TestsOn(v, b) : State(v, t, b) = "regression"}
FixedOn(v, b)  == {t \in TestsOn(v, b) : State(v, t, b) = "fixed"}

BreakCards(v) ==
    {[kind     |-> "branch-regression",
      severity |-> IF Cardinality(BrokenOn(v, b)) > 1 THEN "critical" ELSE "warning",
      branch   |-> b,
      broken   |-> BrokenOn(v, b),
      onlyHere |-> {t \in BrokenOn(v, b) : BranchSpecific(v, t) = b}] :
        b \in {c \in Branches(v) \ {v.baseline} : BrokenOn(v, c) # {}}}

\* The fewest tests that make up three fifths of five or more failures, when
\* they are a quarter of the tests or a single one.
Concentration(v) ==
    LET count == [t \in Tests(v) |-> FailureCount(v, t)]
        total == SumFunction(count)
        Covers(T) == SumFunctionOnSet(count, T) * 10 >= total * 6
        few   == {T \in SUBSET Tests(v) : /\ T # {} /\ Covers(T)
                                          /\ \/ Cardinality(T) = 1
                                             \/ Cardinality(T) <= Cardinality(Tests(v)) \div 4}
    IN  IF total < 5 \/ few = {} THEN {}
        ELSE CHOOSE T \in few : \A U \in few : Cardinality(T) <= Cardinality(U)

ThinBranches(v) ==
    LET Run(b) == Cardinality(TestsOn(v, b)) IN
    {b \in Branches(v) : \E c \in Branches(v) : 0 < Run(b) /\ Run(b) * 10 < Run(c) * 6}

TestCards(v) ==
    {[kind |-> "bottleneck", test |-> t] : t \in {u \in Tests(v) : Bottleneck(v, u)}}
        \cup BreakCards(v)
        \cup {[kind |-> "branch-fix", branch |-> b, fixed |-> FixedOn(v, b)] :
                 b \in {c \in Branches(v) \ {v.baseline} : FixedOn(v, c) # {}}}
        \cup {[kind |-> "flaky", test |-> t] : t \in {u \in Tests(v) : InState(v, u, "flaky") # {}}}
        \cup {[kind |-> "concentration", test |-> t] : t \in Concentration(v)}
        \cup {[kind |-> "environment-gap", test |-> t, split |-> EnvironmentSplit(v, t)] :
                 t \in {u \in Tests(v) : EnvironmentSplit(v, u) # None}}
        \cup {[kind |-> "coverage", branch |-> b] : b \in ThinBranches(v)}
=============================================================================
