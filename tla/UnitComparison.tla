---------------------------- MODULE UnitComparison ----------------------------
(***************************************************************************)
(* Which two runs of a skill are compared (services/unit_comparison.py and *)
(* the queries of repositories/unit.py it makes) and what is said of them. *)
(* Pure operators over docs, a sequence of run documents in the order of   *)
(* started_at and _id, and stored, the places of those that are there.     *)
(***************************************************************************)
EXTENDS Integers, FiniteSets, FiniteSetsExt, Functions

CONSTANT None           \* a filter or a version that was not given

Version(d) == d.config.skill_version

\* The completed runs a request q asks about.
Candidates(docs, stored, q) ==
    {i \in stored : /\ docs[i].eval_type = "unit"
                    /\ docs[i].skill = q.skill
                    /\ docs[i].status = "completed"
                    /\ q.environment \in {None, docs[i].environment}
                    /\ q.stage \in {None, docs[i].stage}
                    /\ q.target \in {None, docs[i].target}}

\* Mutant: the oldest run of each version.
OldestRunsByVersion(docs, stored, q) ==
    LET runs == Candidates(docs, stored, q) IN
    {i \in runs : \A j \in runs : Version(docs[j]) = Version(docs[i]) => j >= i}

\* latest_runs_by_version: one run for each version, the latest.
LatestRunsByVersion(docs, stored, q) ==
    LET runs == Candidates(docs, stored, q) IN
    {i \in runs : \A j \in runs : Version(docs[j]) = Version(docs[i]) => j <= i}

\* latest_run_for_version, as a set of at most one run.  A run without a
\* version is listed above as version "None", and is not found by that name.
LatestRunForVersion(docs, stored, q, version) ==
    {i \in LatestRunsByVersion(docs, stored, q) : Version(docs[i]) = version /\ version # None}

\* What is compared unless the request says otherwise: the latest version,
\* with the latest one beside it.  None when there is none.
LatestVersion(docs, runs) == IF runs = {} THEN None ELSE Version(docs[Max(runs)])

CandidateVersion(docs, stored, q) ==
    IF q.candidate # None THEN q.candidate
    ELSE LatestVersion(docs, LatestRunsByVersion(docs, stored, q))

BaselineVersion(docs, stored, q) ==
    LET others == {i \in LatestRunsByVersion(docs, stored, q) :
                      Version(docs[i]) # CandidateVersion(docs, stored, q)}
    IN  IF q.baseline # None THEN q.baseline ELSE LatestVersion(docs, others)

\* _metric_means: of the cases of a run, as the sum and the number of scores.
MetricScores(docs, read, i) ==
    LET Scored(m) == {c \in read : c[1] = i /\ m \in DOMAIN docs[i].cases[c[2]].scores}
        metrics   == UNION {DOMAIN docs[c[1]].cases[c[2]].scores : c \in {d \in read : d[1] = i}}
    IN  [m \in metrics |->
            [sum   |-> SumFunction([c \in Scored(m) |-> docs[c[1]].cases[c[2]].scores[m]]),
             count |-> Cardinality(Scored(m))]]

\* A difference of two means, as a fraction, only where both runs have the metric.
MetricDelta(docs, read, baseline, candidate, m) ==
    LET b == MetricScores(docs, read, baseline)
        c == MetricScores(docs, read, candidate)
    IN  IF m \in DOMAIN b \cap DOMAIN c
        THEN [over  |-> c[m].sum * b[m].count - b[m].sum * c[m].count,
              under |-> b[m].count * c[m].count]
        ELSE None
=============================================================================
