------------------------------ MODULE UnitHistory ------------------------------
(***************************************************************************)
(* What the History page is told (services/unit_history.py), computed from *)
(* the runs a request has read and the case records it has read for them.  *)
(* Pure operators; Reports.tla says when what is read.                     *)
(*                                                                         *)
(* A prepared run stands for a HistoryRun together with its _Run, and hs   *)
(* is a sequence of them in the order of started_at and _id; a run is      *)
(* named by its place in hs, 0 stands for no run.  Texts, fingerprints and *)
(* labels are the values they are made of.                                 *)
(***************************************************************************)
EXTENDS Integers, Sequences, FiniteSets, FiniteSetsExt

CONSTANTS
    None,               \* what is not recorded
    Unknown             \* the stage, environment or version recorded as unknown

Latest(S)   == IF S = {} THEN 0 ELSE Max(S)
Earliest(S) == IF S = {} THEN 0 ELSE Min(S)

-----------------------------------------------------------------------------
(* What is asked for: history_run_query and history_window. *)

InWindow(doc, scope) == scope.started_from <= doc.at /\ doc.at < scope.started_before

\* A scope names exact values, None among them, never "all" for want of one.
InScope(doc, scope) ==
    /\ doc.eval_type = "unit"
    /\ doc.skill = scope.skill
    /\ doc.repository = scope.repository
    /\ scope.all_stages \/ doc.stage = scope.stage
    /\ \/ scope.all_targets
       \/ doc.target = scope.target /\ doc.environment = scope.environment
    /\ InWindow(doc, scope)

-----------------------------------------------------------------------------
(* One run: _prepare_runs. *)

VerdictOrder == <<"failed", "blocked", "xpassed", "pending", "skipped", "passed">>

\* The spellings of one verdict (pass, passed, ...) are one value already,
\* but for error, which is a way to be blocked.
CaseVerdict(verdicts) ==
    LET normalized == {IF v = "error" THEN "blocked" ELSE v : v \in verdicts}
        places     == {k \in 1..Len(VerdictOrder) : VerdictOrder[k] \in normalized}
    IN  IF places = {} THEN "pending" ELSE VerdictOrder[Earliest(places)]

Operational == {"error", "blocked"}

ConfigComplete(config) ==
    /\ config.bsa_version \notin {None, Unknown}
    /\ config.mode # None
    /\ config.metrics # {}

ScopeComplete(scope) ==
    /\ None \notin {scope.repository, scope.target}
    /\ Unknown \notin {scope.stage, scope.environment}

SplitContext(scope) == scope.all_stages \/ scope.all_targets

ContextKnown(context) ==
    /\ Unknown \notin {context.stage, context.environment}
    /\ context.target # None

\* Whether the summary makes sense; one without counts has total 0.
Counted(doc) == doc.passed <= doc.total

\* Mutant: any number of records will do.
CasesPresent(doc, ks) ==
    doc.status = "completed" /\ Counted(doc) /\ ks # {} /\ \A k \in ks : doc.cases[k].name # None

\* A run is complete when the case records read for it are as many as its
\* summary says and none of them is without a name.
CasesComplete(doc, ks) ==
    /\ doc.status = "completed"
    /\ Counted(doc) /\ doc.total > 0
    /\ Cardinality(ks) = doc.total
    /\ \A k \in ks : doc.cases[k].name # None

\* The run of document doc for which the case records ks were read.
Prepared(doc, ks, scope) ==
    LET OfCase(n) == {doc.cases[k] : k \in {l \in ks : doc.cases[l].name = n}}
        names     == {doc.cases[k].name : k \in ks} \ {None}
        context   == [stage |-> doc.stage, target |-> doc.target, environment |-> doc.environment]
        complete  == CasesComplete(doc, ks)
        verdicts  == [n \in names |-> CaseVerdict({c.verdict : c \in OfCase(n)})]
        tests     == [n \in names |-> {c.definition : c \in OfCase(n)}]
    IN [run        |-> doc,
        branch     |-> doc.branch,
        branch_key |-> IF SplitContext(scope) THEN <<doc.branch, context>> ELSE <<doc.branch>>,
        sha        |-> doc.sha,
        context    |-> context,
        config     |-> doc.config,
        configured |-> /\ ConfigComplete(doc.config)
                       /\ ScopeComplete(scope)
                       /\ SplitContext(scope) => ContextKnown(context),
        rate       |-> IF Counted(doc) /\ doc.total > 0 THEN (doc.passed * 100) \div doc.total
                       ELSE None,
        verdicts   |-> verdicts,
        tests      |-> tests,
        complete   |-> complete,
        cohort     |-> IF complete THEN <<context, doc.config, {tests[n] : n \in names}>> ELSE None,
        measured   |-> /\ complete
                       /\ doc.verdict \notin Operational
                       /\ Cardinality(names) = doc.total
                       /\ \A n \in names : verdicts[n] \in {"passed", "failed"}
                       /\ doc.passed = Cardinality({n \in names : verdicts[n] = "passed"})]

Cases(h) == DOMAIN h.verdicts

-----------------------------------------------------------------------------
(* Between two runs. *)

RateDelta(hs, i, j) ==
    IF None \in {hs[i].rate, hs[j].rate} THEN None ELSE hs[i].rate - hs[j].rate

\* Mutant: the runs are taken from the latest to the first.
OtherOnBranch(hs, i) == Latest({j \in DOMAIN hs \ {i} : hs[j].branch_key = hs[i].branch_key})

\* _annotate_trend_transitions: the run before on the same branch, and how
\* the two compare.
Before(hs, i) == Latest({j \in 1..i - 1 : hs[j].branch_key = hs[i].branch_key})

Transition(hs, i) ==
    LET run == hs[i]  j == Before(hs, i) IN
    IF j = 0 THEN "first"
    ELSE IF run.branch = None \/ ~run.measured \/ ~hs[j].measured THEN "incomplete"
    ELSE IF run.cohort # hs[j].cohort \/ run.tests # hs[j].tests THEN "settings_changed"
    ELSE IF run.configured /\ hs[j].configured THEN "comparable" ELSE "incomplete"

TrendDelta(hs, i) ==
    IF Transition(hs, i) = "comparable" THEN RateDelta(hs, i, Before(hs, i)) ELSE None

\* The run before on the branch in another stage, target or environment.
ContextBefore(hs, i) ==
    LET j == Latest({k \in 1..i - 1 : hs[i].branch # None /\ hs[k].branch = hs[i].branch})
    IN  IF j # 0 /\ hs[i].measured /\ hs[j].measured /\ hs[i].context # hs[j].context THEN j ELSE 0

\* _annotate_branch_references: the latest earlier run of each branch with the
\* same context, configuration and tests.
Referable(h) == h.configured /\ h.measured /\ h.branch # None
Signature(h) == <<h.context, h.config, h.tests>>

References(hs, i) ==
    LET alike == {j \in 1..i - 1 : Referable(hs[j]) /\ Signature(hs[j]) = Signature(hs[i])} IN
    IF Referable(hs[i])
    THEN {Latest({k \in alike : hs[k].branch = hs[j].branch}) : j \in alike}
    ELSE {}

\* Mutant: the third pass comes before the second, which has left nothing yet.
NothingYet(hs, i) == {}

\* What the third pass finds beside a run: the second has been over all of them.
Verified(hs, i) == References(hs, i)

\* _annotate_observed_references: the latest measured run of each branch in the
\* same context, but for the verified ones, with what speaks against comparing
\* with it.
Essentials == {"bsa_version", "mode", "metrics"}
Missing(config, field) ==
    IF field = "metrics" THEN config.metrics = {} ELSE config[field] = None
Recorded(config, field) ==
    ~Missing(config, field) /\ (field # "metrics" => config[field] # Unknown)

Blockers(h) ==
    {f \in Essentials : ~Recorded(h.config, f)}
        \cup {f \in {"stage", "environment", "target"} : h.context[f] \in {None, Unknown}}
        \cup (IF h.measured THEN {} ELSE {"cases"})
        \cup (IF h.branch = None THEN {"branch"} ELSE {})

ObservedWarnings(h, b) ==
    Blockers(h)
        \cup {f \in DOMAIN b.config : f \in Essentials /\ ~Recorded(b.config, f)}
        \cup {f \in DOMAIN b.config : b.config[f] # h.config[f]}
        \cup (IF b.tests # h.tests THEN {"tests"} ELSE {})
        \cup (IF h.configured /\ b.configured THEN {} ELSE {"configuration"})

Observed(hs, i) ==
    LET seen == {j \in 1..i - 1 : /\ hs[j].measured /\ hs[j].branch # None
                                  /\ hs[j].context = hs[i].context}
        last == {Latest({k \in seen : hs[k].branch = hs[j].branch}) : j \in seen}
    IN  IF hs[i].measured /\ hs[i].branch # None
        THEN {[run |-> j, warnings |-> ObservedWarnings(hs[i], hs[j])] : j \in last \ Verified(hs, i)}
        ELSE {}

\* _annotate_progression: measured runs with the same context and versions.
Settings(h) == <<h.config.bsa_version, h.config.skill_version, h.config.agent_name>>

ProgressionWarnings(h, b) ==
    {f \in Essentials : Missing(h.config, f) \/ Missing(b.config, f)}
        \cup {f \in DOMAIN h.config : h.config[f] # b.config[f]}
        \cup (IF h.tests # b.tests THEN {"tests"} ELSE {})

Progression(hs, i) ==
    LET InLine(j)  == /\ hs[j].measured
                      /\ hs[j].context = hs[i].context
                      /\ Settings(hs[j]) = Settings(hs[i])
        OnBranch(j) == IF hs[i].branch = None THEN j = i ELSE hs[j].branch = hs[i].branch
        Ahead(k)   == Latest({j \in 1..k - 1 : InLine(j)})
        start      == Earliest({j \in 1..i : InLine(j) /\ OnBranch(j)})
        anchor     == Ahead(start)
    IN [execution |-> Ahead(i),
        same      |-> Latest({j \in 1..i - 1 : InLine(j) /\ OnBranch(j)}),
        \* Frozen at the first run of the branch.
        other     |-> IF anchor # 0 /\ None \notin {hs[i].branch, hs[anchor].branch} THEN anchor ELSE 0,
        start     |-> start]

\* All that is written beside a run.
Annotations(hs, i) ==
    [before      |-> Before(hs, i),
     transition  |-> Transition(hs, i),
     delta       |-> TrendDelta(hs, i),
     context     |-> ContextBefore(hs, i),
     references  |-> References(hs, i),
     observed    |-> Observed(hs, i),
     blockers    |-> Blockers(hs[i]),
     alone       |-> hs[i].branch # None /\ Verified(hs, i) = {} /\ Observed(hs, i) = {},
     progression |-> IF hs[i].measured THEN Progression(hs, i) ELSE None]

-----------------------------------------------------------------------------
(* Groups of runs. *)

Complete(hs) == {i \in DOMAIN hs : hs[i].complete}

\* _cohorts: the complete runs with the same context, settings and thresholds.
Cohorts(hs)  == {hs[i].cohort : i \in Complete(hs)}
Cohort(hs, key) == {i \in Complete(hs) : hs[i].cohort = key}

ConfigurationComplete(hs, key) == hs[Earliest(Cohort(hs, key))].configured

\* The cohort shown unless the client asks for another: the largest, then the
\* one with most cases, then the latest (then the least fingerprint).
DefaultCohort(hs) ==
    LET Size(key)    == Cardinality(Cohort(hs, key))
        Width(key)   == Cardinality(Cases(hs[Earliest(Cohort(hs, key))]))
        Precedes(k, l) == \/ Size(k) > Size(l)
                          \/ Size(k) = Size(l) /\ Width(k) > Width(l)
                          \/ /\ Size(k) = Size(l) /\ Width(k) = Width(l)
                             /\ Latest(Cohort(hs, k)) >= Latest(Cohort(hs, l))
    IN  IF Cohorts(hs) = {} THEN None
        ELSE CHOOSE k \in Cohorts(hs) : \A l \in Cohorts(hs) : Precedes(k, l)

Matching(hs, key) == IF key = None THEN {} ELSE Cohort(hs, key)

\* _inconsistent_groups: runs of one commit with the same tests, and the cases
\* that passed in one and failed in another.
InconsistentGroups(hs, key) ==
    LET eligible == {i \in Matching(hs, key) : /\ None \notin {hs[i].sha, hs[i].branch}
                                               /\ hs[i].configured}
        Group(i) == {j \in eligible : /\ hs[j].branch_key = hs[i].branch_key
                                      /\ hs[j].sha = hs[i].sha
                                      /\ hs[j].tests = hs[i].tests}
        Split(g) == {n \in Cases(hs[Earliest(g)]) :
                        {"passed", "failed"} \subseteq {hs[j].verdicts[n] : j \in g}}
    IN  {g \in {[runs |-> Group(i), cases |-> Split(Group(i))] : i \in eligible} : g.cases # {}}

\* _settings_groups: the runs of one set of versions, whatever else differs.
SettingsGroups(hs) ==
    {LET g == {j \in DOMAIN hs : Settings(hs[j]) = Settings(hs[i])} IN
     [runs |-> g, cohorts |-> {hs[j].cohort : j \in g \cap Complete(hs)}] : i \in DOMAIN hs}

OnBranchKey(hs, key) == {i \in DOMAIN hs : hs[i].branch_key = key}
BranchKeys(hs) == {hs[i].branch_key : i \in DOMAIN hs}

\* _commits: the runs of one commit, and a run without one by itself; the least
\* and the greatest of their measured rates are shown.
Commits(hs, key) ==
    LET group    == OnBranchKey(hs, key)
        Commit(i) == IF hs[i].sha = None THEN {i} ELSE {j \in group : hs[j].sha = hs[i].sha}
        Rates(c) == {hs[j].rate : j \in {k \in c : hs[k].measured}}
    IN  {[runs |-> c, rates |-> Rates(c)] : c \in {Commit(i) : i \in group}}

\* _branches: what happened to a branch from its first measured run to its last.
Direction(hs, key) ==
    LET measured == {i \in OnBranchKey(hs, key) : hs[i].measured}
        f == Earliest(measured)
        l == Latest(measured)
        change == hs[l].rate - hs[f].rate
        alike  == hs[f].cohort = hs[l].cohort /\ hs[f].tests = hs[l].tests
        comparable == /\ hs[f].configured /\ hs[l].configured
                      /\ None \notin {hs[f].sha, hs[l].sha, hs[l].branch}
                      /\ hs[f].sha # hs[l].sha
                      /\ l = Latest(OnBranchKey(hs, key))
    IN  IF f = l THEN "insufficient"
        ELSE IF ~alike THEN "context_changed"
        ELSE IF ~comparable THEN "insufficient"
        ELSE IF change > 0 THEN "improved" ELSE IF change < 0 THEN "declined" ELSE "unchanged"

\* The case sets that the latest run of a branch leaves part of out.
WiderRuns(hs, key) ==
    LET l == Latest(OnBranchKey(hs, key)) IN
    {i \in OnBranchKey(hs, key) \ {l} :
        /\ hs[i].measured /\ hs[l].complete
        /\ Cases(hs[l]) \subseteq Cases(hs[i]) /\ Cases(hs[l]) # Cases(hs[i])
        /\ \A n \in Cases(hs[l]) : hs[i].tests[n] = hs[l].tests[n]}

InconsistentLatest(hs, key, cohort) ==
    \E g \in InconsistentGroups(hs, cohort) : \E i \in g.runs :
        /\ hs[i].branch_key = key
        /\ hs[i].sha = hs[Latest(OnBranchKey(hs, key))].sha

\* _cases: one case on one branch, counted over the cohort.
Executions(hs, cohort, key, n) ==
    {i \in Matching(hs, cohort) \cap OnBranchKey(hs, key) : n \in Cases(hs[i])}

CellCount(hs, cohort, key, n, verdict) ==
    Cardinality({i \in Executions(hs, cohort, key, n) : hs[i].verdicts[n] = verdict})

\* Mutant: the first run of the branch instead of the last.
FirstState(hs, key, n) ==
    LET h == hs[Earliest(OnBranchKey(hs, key))] IN
    IF {h.run.status, h.run.verdict} \cap Operational # {} THEN "blocked"
    ELSE IF ~h.complete THEN "unavailable"
    ELSE IF n \in Cases(h) THEN h.verdicts[n] ELSE "not_run"

LatestState(hs, key, n) ==
    LET h == hs[Latest(OnBranchKey(hs, key))] IN
    IF {h.run.status, h.run.verdict} \cap Operational # {} THEN "blocked"
    ELSE IF ~h.complete THEN "unavailable"
    ELSE IF n \in Cases(h) THEN h.verdicts[n] ELSE "not_run"

CaseRow(hs, cohort, n) ==
    LET failed == {i \in Matching(hs, cohort) : n \in Cases(hs[i]) /\ hs[i].verdicts[n] = "failed"} IN
    [executions   |-> {i \in Matching(hs, cohort) : n \in Cases(hs[i])},
     failed       |-> failed,
     affected     |-> {hs[i].branch_key : i \in failed},
     first_failed |-> Earliest(failed),
     last_failed  |-> Latest(failed),
     inconsistent |-> {<<hs[i].branch_key, hs[i].sha>> :
                         i \in UNION {g.runs : g \in {d \in InconsistentGroups(hs, cohort) : n \in d.cases}}}]

\* _execution_issues: the blocked cases of each run, or the run itself.
BlockedCases(h) == {n \in Cases(h) : h.verdicts[n] = "blocked"}

ExecutionIssues(hs) ==
    UNION {IF BlockedCases(hs[i]) # {} THEN {<<i, n>> : n \in BlockedCases(hs[i])}
           ELSE IF {hs[i].run.status, hs[i].run.verdict} \cap Operational # {} THEN {<<i, None>>}
           ELSE {} : i \in DOMAIN hs}

\* HistorySignals, made in build_history_insights.
Signals(hs, cohort) ==
    [excluded    |-> Complete(hs) \ Matching(hs, cohort),
     incomplete  |-> {i \in DOMAIN hs : hs[i].run.status = "completed" /\ ~hs[i].complete},
     operational |-> {i \in DOMAIN hs : \/ {hs[i].run.status, hs[i].run.verdict} \cap Operational # {}
                                        \/ BlockedCases(hs[i]) # {}},
     gaps        |-> {key \in BranchKeys(hs) : WiderRuns(hs, key) # {}},
     cases       |-> UNION {g.cases : g \in InconsistentGroups(hs, cohort)}]
=============================================================================
