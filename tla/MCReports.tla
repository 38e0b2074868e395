------------------------------- MODULE MCReports -------------------------------
(* Scenarios for Reports: histories of a skill, views of its tests, and       *)
(* comparisons of its versions, settled or with a batch still being written.  *)
EXTENDS Reports

Case(name, verdict) ==
    [name |-> name, verdict |-> verdict, definition |-> {"tone"},
     scores |-> [tone |-> IF verdict = "passed" THEN 5 ELSE 2]]

\* A run of two tests at the desk of one team, as the others vary it.
Config == [bsa_version |-> "1.19", skill_version |-> "v1", agent_name |-> "agent",
           mode |-> "all", metrics |-> {"tone"}, rest |-> "layer"]

Good  == <<Case("t1", "passed"), Case("t2", "passed")>>
Bad   == <<Case("t1", "failed"), Case("t2", "passed")>>
Worse == <<Case("t1", "failed"), Case("t2", "failed")>>
Short == <<Case("t1", "passed")>>

\* The document of a run with the records cs and a summary of them.
Doc(branch, sha, cs) ==
    LET passed == Cardinality({k \in DOMAIN cs : cs[k].verdict = "passed"}) IN
    [eval_type |-> "unit", skill |-> "skill", repository |-> "repo", category |-> "cat",
     stage |-> "dev", target |-> "target", environment |-> "env",
     branch |-> branch, sha |-> sha, config |-> Config,
     status |-> "completed", verdict |-> IF passed = Len(cs) THEN "passed" ELSE "failed",
     total |-> Len(cs), passed |-> passed, rate |-> (100 * passed) \div Len(cs), cases |-> cs, at |-> 0]

\* Runs at the times 1, 2, ...; the last of them the batch.
Timed(ds) == [k \in DOMAIN ds |-> [ds[k] EXCEPT !.at = k]]
Scenario(ds, batch, asked) ==
    [docs |-> Timed(ds), old |-> Len(ds) - batch, request |-> asked]

-----------------------------------------------------------------------------
HistoryOf(all, before) ==
    [kind |-> "history", skill |-> "skill", repository |-> "repo", stage |-> "dev",
     target |-> "target", environment |-> "env", all_stages |-> all, all_targets |-> FALSE,
     started_from |-> 1, started_before |-> before]

Simple == {Doc(b, s, cs) : b \in {"main", "fix"}, s \in {"c1", "c2"}, cs \in {Good, Bad}}
Base   == Doc("main", "c2", Bad)
Other  == [Config EXCEPT !.rest = "other layer"]

Odd ==
    {[Base EXCEPT !.branch = None],
     [Base EXCEPT !.sha = None],
     [Base EXCEPT !.config = Other],
     [Base EXCEPT !.config.skill_version = "v2"],
     [Base EXCEPT !.config.mode = None],
     [Base EXCEPT !.stage = "staging"],
     [Base EXCEPT !.stage = "staging", !.branch = "fix"],
     [Base EXCEPT !.status = "error", !.verdict = "error"],
     [Base EXCEPT !.total = 1],
     Doc("main", "c2", Short),
     Doc("main", "c2", <<Case("t1", "passed"), Case("t3", "passed")>>),
     Doc("main", "c2", <<Case("t1", "error"), Case("t2", "passed")>>),
     Doc("main", "c2", <<Case("t1", "passed"), Case("t1", "failed")>>)}

Few == {Doc(b, "c1", cs) : b \in {"main", "fix"}, cs \in {Good, Bad}}
Any == Simple \cup Odd
Mix == Few \cup {[Base EXCEPT !.config = Other], [Base EXCEPT !.stage = "staging"]}

Histories ==
    {Scenario(ds, 0, HistoryOf(TRUE, 9)) : ds \in (Mix \X Any \X Simple) \cup (Simple \X Odd \X Odd)}
        \cup {Scenario(ds, 0, HistoryOf(FALSE, b)) : ds \in Any \X Any, b \in {2, 9}}
        \cup {Scenario(ds, 0, HistoryOf(TRUE, 9)) : ds \in Few \X Mix \X Mix \X Few}
        \cup {Scenario(ds, 2, HistoryOf(TRUE, 9)) :
                 ds \in [1..3 -> {Doc("main", "c1", Good), Doc("fix", "c2", Bad)}]}

-----------------------------------------------------------------------------
InsightsOf(stage) ==
    [kind |-> "insights", eval_type |-> "unit", repository |-> "all", category |-> "all",
     stage |-> stage, scope |-> "skill", target |-> "all", baseline |-> None,
     started_from |-> 1, started_before |-> 9]

Tried(branches, stages, outcomes) ==
    {[Doc(b, "c1", cs) EXCEPT !.stage = s] : b \in branches, s \in stages, cs \in outcomes}

Once(v) == <<Case("t1", v)>>

Views ==
    {Scenario(ds, 0, InsightsOf("all")) :
        ds \in Tried({"main"}, {"dev", "staging"}, {Good, Bad})
              \X Tried({"main", "fix", "try"}, {"dev", "staging"}, {Good, Worse})
              \X Tried({"main", "fix"}, {"dev"}, {Good, Worse, Short})}
        \cup {Scenario(ds, 0, InsightsOf("dev")) :
                 ds \in [1..4 -> Tried({"main", "fix"}, {"dev"}, {Once("passed"), Once("failed")})]}
        \cup {Scenario(ds, 1, InsightsOf("all")) :
                 ds \in [1..4 -> {Doc("main", "c1", Good), Doc("fix", "c1", Bad)}]}
        \cup {Scenario([k \in 1..5 |-> Doc("main", "c1", Short)], 1, InsightsOf("all"))}
        \cup {Scenario([k \in 1..3 |-> [ds[k] EXCEPT !.eval_type = "e2e"]], 0,
                       [InsightsOf(None) EXCEPT !.eval_type = "e2e"]) :
                 ds \in [1..3 -> Tried({"main", "fix"}, {"dev", "staging"}, {Good, Bad})]}

-----------------------------------------------------------------------------
ComparisonOf(candidate, baseline) ==
    [kind |-> "comparison", skill |-> "skill", environment |-> None, stage |-> "dev",
     target |-> None, candidate |-> candidate, baseline |-> baseline]

Versioned == {[Doc("main", "c1", Good) EXCEPT !.config.skill_version = v] : v \in {"v1", "v2", "v3"}}
                 \cup {[Base EXCEPT !.status = "error"]}

Comparisons ==
    {Scenario(ds, batch, ComparisonOf(c, b)) :
        ds \in [1..3 -> Versioned], batch \in 1..2, c \in {None, "v1"}, b \in {None, "v2"}}
        \cup {Scenario(<<[Base EXCEPT !.config.skill_version = "v2"], Base>>, 2, ComparisonOf(None, None))}

MCScenarios == Histories \cup Views \cup Comparisons
MCShort     == {Scenario(ds, 0, HistoryOf(FALSE, 9)) : ds \in Any \X Any}
=============================================================================
