-------------------------- MODULE SuggestionsProofs --------------------------
(***************************************************************************)
(* Theorems about Suggestions, for any number of suggestions, voters,      *)
(* moderators and workers and any bounds.                                  *)
(*                                                                         *)
(* The history of a status is a chain because the update filters on the    *)
(* status that was read; what has to be known of a change in flight is     *)
(* that it goes somewhere (Purposeful).  The counter is compared with the  *)
(* votes by counting workers: Drift is what one side is ahead of the       *)
(* other, and DriftStep says, once for all actions, when it moves.         *)
(***************************************************************************)
EXTENDS Suggestions, FiniteSetTheorems, TLAPS

\* A change in flight asks for another status than the one it has read.
Purposeful ==
  \A w \in Workers : work[w].step = "change" => work[w].seen # work[w].to

HistoryInv == TypeOK /\ Purposeful /\ HistoryIsChain

-----------------------------------------------------------------------------
(* Types *)

\* What the steps need to know of a job, by its step.
LEMMA JobTypes ==
  ASSUME TypeOK, NEW w \in Workers
  PROVE  /\ work[w] = NoJob \/ work[w] \in VoteJob \/ work[w] \in ChangeJob
         /\ work[w].step \in {"vote", "count", "unvote", "discount"} => work[w] \in VoteJob
         /\ work[w].step = "change" => work[w] \in ChangeJob
  BY DEF TypeOK, Job, NoJob, VoteJob, ChangeJob

\* A request goes on to the next call of a vote.
LEMMA ContinueType ==
  ASSUME work \in [Workers -> Job], NEW w \in Workers, work[w] \in VoteJob,
         NEW step \in {"vote", "count", "unvote", "discount"}, Continue(w, step)
  PROVE  work' \in [Workers -> Job]
<1>1. [work[w] EXCEPT !.step = step] \in VoteJob
  BY DEF VoteJob
<1>2. [work[w] EXCEPT !.step = step] \in Job
  BY <1>1 DEF Job
<1>3. QED BY <1>2 DEF Continue

\* Counters stay natural numbers.
LEMMA CounterType ==
  ASSUME NEW S, NEW f \in [S -> Nat], NEW x \in S
  PROVE  /\ [f EXCEPT ![x] = @ + 1] \in [S -> Nat]
         /\ [f EXCEPT ![x] = IF @ > 0 THEN @ - 1 ELSE @] \in [S -> Nat]
  OBVIOUS

\* A worker that is done is idle.
LEMMA FinishType ==
  ASSUME work \in [Workers -> Job], NEW w \in Workers, Finish(w)
  PROVE  work' \in [Workers -> Job]
<1>1. NoJob \in Job
  BY DEF Job
<1>2. QED BY <1>1 DEF Finish

\* Every step keeps the types.
LEMMA TypeStep == TypeOK /\ [Next]_vars => TypeOK'
<1> SUFFICES ASSUME TypeOK, [Next]_vars PROVE TypeOK'
  OBVIOUS
<1> USE ConstantsAssumption
<1>0. CASE UNCHANGED vars
  BY <1>0 DEF TypeOK, vars
<1>1. ASSUME NEW s \in SuggestionIds, Create(s) PROVE TypeOK'
  BY <1>1 DEF TypeOK, Create
<1>2. ASSUME NEW w \in Workers, NEW u \in Voters, NEW s \in suggestions,
             NEW step \in {"vote", "unvote"}, BeginVote(w, u, s, step)
      PROVE  TypeOK'
  <2>1. [step |-> step, id |-> s, user |-> u] \in VoteJob
    BY DEF TypeOK, VoteJob
  <2>2. QED BY <1>2, <2>1 DEF TypeOK, BeginVote, Start, Job
<1>3. ASSUME NEW w \in Workers, NEW u \in Moderators, NEW s \in suggestions,
             NEW to \in Statuses, BeginChange(w, u, s, to)
      PROVE  TypeOK'
  <2>1. [step |-> "change", id |-> s, user |-> u, seen |-> status[s], to |-> to] \in ChangeJob
    BY DEF TypeOK, ChangeJob
  <2>2. QED BY <1>3, <2>1 DEF TypeOK, BeginChange, Start, Job
<1>4. ASSUME NEW w \in Workers, InsertVote(w) PROVE TypeOK'
  <2>1. work[w] \in VoteJob
    BY <1>4, JobTypes DEF InsertVote
  <2>2. Ballot(work[w]) \in SuggestionIds \X Voters
    BY <2>1 DEF Ballot, VoteJob
  <2>3. work' \in [Workers -> Job]
    BY <1>4, <2>1, ContinueType, FinishType DEF TypeOK, InsertVote
  <2>4. QED BY <1>4, <2>2, <2>3 DEF TypeOK, InsertVote
<1>5. ASSUME NEW w \in Workers, CountVote(w) PROVE TypeOK'
  <2>1. work' \in [Workers -> Job]
    BY <1>5, FinishType DEF TypeOK, CountVote
  <2>2. work[w].id \in SuggestionIds
    BY <1>5, JobTypes DEF CountVote, VoteJob
  <2>3. vote_count' \in [SuggestionIds -> Nat]
    BY <1>5, <2>2, CounterType DEF TypeOK, CountVote
  <2>4. QED BY <1>5, <2>1, <2>3 DEF TypeOK, CountVote
<1>6. ASSUME NEW w \in Workers, DeleteVote(w) PROVE TypeOK'
  <2>1. work[w] \in VoteJob
    BY <1>6, JobTypes DEF DeleteVote
  <2>2. work' \in [Workers -> Job]
    BY <1>6, <2>1, ContinueType, FinishType DEF TypeOK, DeleteVote
  <2>3. QED BY <1>6, <2>2 DEF TypeOK, DeleteVote
<1>7. ASSUME NEW w \in Workers, DiscountVote(w) PROVE TypeOK'
  <2>1. work' \in [Workers -> Job]
    BY <1>7, FinishType DEF TypeOK, DiscountVote
  <2>2. work[w].id \in SuggestionIds
    BY <1>7, JobTypes DEF DiscountVote, VoteJob
  <2>3. vote_count' \in [SuggestionIds -> Nat]
    BY <1>7, <2>2, CounterType DEF TypeOK, DiscountVote
  <2>4. QED BY <1>7, <2>1, <2>3 DEF TypeOK, DiscountVote
<1>8. ASSUME NEW w \in Workers, ChangeStatus(w) PROVE TypeOK'
  <2>1. work[w] \in ChangeJob
    BY <1>8, JobTypes DEF ChangeStatus
  <2>2. /\ work[w].id \in SuggestionIds /\ work[w].to \in Statuses
        /\ [from |-> work[w].seen, to |-> work[w].to, by |-> work[w].user] \in Change
    BY <2>1 DEF ChangeJob, Change
  <2>3. Append(status_history[work[w].id],
               [from |-> work[w].seen, to |-> work[w].to, by |-> work[w].user]) \in Seq(Change)
    BY <2>2 DEF TypeOK
  <2>4. work' \in [Workers -> Job]
    BY <1>8, FinishType DEF TypeOK, ChangeStatus
  <2>5. status' \in [SuggestionIds -> Statuses]
    BY <1>8, <2>2 DEF TypeOK, ChangeStatus, WriteStatus
  <2>6. status_history' \in [SuggestionIds -> Seq(Change)]
    BY <1>8, <2>2, <2>3 DEF TypeOK, ChangeStatus, WriteStatus
  <2>7. QED BY <1>8, <2>4, <2>5, <2>6 DEF TypeOK, ChangeStatus
<1>9. ASSUME NEW w \in Workers, RefuseChange(w) PROVE TypeOK'
  BY <1>9, FinishType DEF TypeOK, RefuseChange
<1>10. ASSUME NEW w \in Workers, Crash(w) PROVE TypeOK'
  BY <1>10, FinishType DEF TypeOK, Crash
<1>11. QED
  BY <1>0, <1>1, <1>2, <1>3, <1>4, <1>5, <1>6, <1>7, <1>8, <1>9, <1>10
     DEF Next, Begin, Serve
-----------------------------------------------------------------------------
(* The status and its history *)

\* No step disturbs the history or gives a change in flight no purpose.
LEMMA HistoryStep == HistoryInv /\ [Next]_vars => (Purposeful /\ HistoryIsChain)'
<1> SUFFICES ASSUME HistoryInv, [Next]_vars PROVE (Purposeful /\ HistoryIsChain)'
  OBVIOUS
<1>1. TypeOK /\ Purposeful /\ HistoryIsChain /\ TypeOK'
  BY TypeStep DEF HistoryInv
<1>2. ASSUME UNCHANGED <<status, status_history>> PROVE HistoryIsChain'
  BY <1>1, <1>2 DEF HistoryIsChain
<1>3. ASSUME NEW w \in Workers, Finish(w) PROVE Purposeful'
  <2>1. NoJob.step # "change"
    BY DEF NoJob
  <2>2. QED BY <1>1, <1>3, <2>1 DEF Purposeful, TypeOK, Finish
<1>4. ASSUME NEW w \in Workers, NEW step \in {"count", "discount"}, Continue(w, step),
             work[w] \in VoteJob
      PROVE  Purposeful'
  <2>1. [work[w] EXCEPT !.step = step].step # "change"
    BY <1>4 DEF VoteJob
  <2>2. QED BY <1>1, <1>4, <2>1 DEF Purposeful, TypeOK, Continue
<1>5. CASE UNCHANGED vars
  <2>1. Purposeful'
    BY <1>1, <1>5 DEF Purposeful, vars
  <2>2. QED BY <1>2, <1>5, <2>1 DEF vars
<1>6. ASSUME NEW s \in SuggestionIds, Create(s) PROVE (Purposeful /\ HistoryIsChain)'
  <2>1. Purposeful'
    BY <1>1, <1>6 DEF Purposeful, Create
  <2>2. QED BY <1>2, <1>6, <2>1 DEF Create
<1>7. ASSUME NEW w \in Workers, NEW u \in Voters, NEW s \in suggestions,
             NEW step \in {"vote", "unvote"}, BeginVote(w, u, s, step)
      PROVE  (Purposeful /\ HistoryIsChain)'
  <2>1. Purposeful'
    BY <1>1, <1>7 DEF Purposeful, TypeOK, BeginVote, Start
  <2>2. QED BY <1>2, <1>7, <2>1 DEF BeginVote
<1>8. ASSUME NEW w \in Workers, NEW u \in Moderators, NEW s \in suggestions,
             NEW to \in Statuses, BeginChange(w, u, s, to)
      PROVE  (Purposeful /\ HistoryIsChain)'
  <2>1. Purposeful'
    BY <1>1, <1>8 DEF Purposeful, TypeOK, BeginChange, Start
  <2>2. QED BY <1>2, <1>8, <2>1 DEF BeginChange
<1>9. ASSUME NEW w \in Workers, InsertVote(w) \/ DeleteVote(w)
      PROVE  (Purposeful /\ HistoryIsChain)'
  <2>1. work[w] \in VoteJob
    BY <1>1, <1>9, JobTypes DEF InsertVote, DeleteVote
  <2>2. Finish(w) \/ Continue(w, "count") \/ Continue(w, "discount")
    BY <1>9 DEF InsertVote, DeleteVote
  <2>3. UNCHANGED <<status, status_history>>
    BY <1>9 DEF InsertVote, DeleteVote
  <2>4. QED BY <1>2, <1>3, <1>4, <2>1, <2>2, <2>3
<1>10. ASSUME NEW w \in Workers,
              CountVote(w) \/ DiscountVote(w) \/ RefuseChange(w) \/ Crash(w)
       PROVE  (Purposeful /\ HistoryIsChain)'
  <2>1. Finish(w) /\ UNCHANGED <<status, status_history>>
    BY <1>10 DEF CountVote, DiscountVote, RefuseChange, Crash
  <2>2. QED BY <1>2, <1>3, <2>1
<1>11. ASSUME NEW w \in Workers, ChangeStatus(w) PROVE (Purposeful /\ HistoryIsChain)'
  <2> DEFINE job == work[w]
             h == status_history[job.id]
             change == [from |-> job.seen, to |-> job.to, by |-> job.user]
  <2>1. job \in ChangeJob /\ job.seen # job.to
    BY <1>1, <1>11, JobTypes DEF ChangeStatus, Purposeful
  <2>2. /\ job.id \in SuggestionIds /\ status[job.id] = job.seen
        /\ status' = [status EXCEPT ![job.id] = job.to]
        /\ status_history' = [status_history EXCEPT ![job.id] = Append(h, change)]
    BY <1>11, <2>1 DEF ChangeStatus, SameStatus, WriteStatus, ChangeJob
  <2>3. h \in Seq(Change) /\ change \in Change
    BY <1>1, <2>1, <2>2 DEF TypeOK, ChangeJob, Change
  <2>4. change.from = job.seen /\ change.to = job.to
    OBVIOUS
  <2>5. /\ \A i \in DOMAIN h : /\ h[i].from # h[i].to
                               /\ h[i].from = IF i = 1 THEN "open" ELSE h[i - 1].to
        /\ job.seen = IF h = <<>> THEN "open" ELSE h[Len(h)].to
    BY <1>1, <2>2 DEF HistoryIsChain
  <2> HIDE DEF h, change, job
  <2>6. ASSUME NEW s \in SuggestionIds, s # job.id
        PROVE  status'[s] = status[s] /\ status_history'[s] = status_history[s]
    BY <1>1, <2>2, <2>6 DEF TypeOK
  <2>7. status'[job.id] = job.to /\ status_history'[job.id] = Append(h, change)
    BY <1>1, <2>2 DEF TypeOK
  <2> DEFINE g == Append(h, change)
  <2>8. ASSUME NEW i \in DOMAIN g
        PROVE  g[i].from # g[i].to /\ g[i].from = IF i = 1 THEN "open" ELSE g[i - 1].to
    <3>1. CASE i = Len(h) + 1
      <4>1. g[i] = change /\ (h # <<>> => g[i - 1] = h[Len(h)])
        BY <2>3, <3>1
      <4>2. h = <<>> <=> i = 1
        BY <2>3, <3>1
      <4>3. QED BY <2>1, <2>4, <2>5, <4>1, <4>2
    <3>2. CASE i # Len(h) + 1
      <4>1. i \in DOMAIN h /\ g[i] = h[i] /\ (i # 1 => g[i - 1] = h[i - 1])
        BY <2>3, <2>8, <3>2
      <4>2. QED BY <2>5, <4>1
    <3>3. QED BY <3>1, <3>2
  <2>9. g # <<>> /\ g[Len(g)] = change
    BY <2>3
  <2> HIDE DEF g
  <2>10. HistoryIsChain'
    <3> SUFFICES ASSUME NEW s \in SuggestionIds
                 PROVE  LET k == status_history'[s] IN
                        /\ \A i \in DOMAIN k :
                              /\ k[i].from # k[i].to
                              /\ k[i].from = IF i = 1 THEN "open" ELSE k[i - 1].to
                        /\ status'[s] = IF k = <<>> THEN "open" ELSE k[Len(k)].to
      BY DEF HistoryIsChain
    <3>1. CASE s = job.id
      BY <2>4, <2>7, <2>8, <2>9, <3>1 DEF g
    <3>2. CASE s # job.id
      BY <1>1, <2>6, <3>2 DEF HistoryIsChain
    <3>3. QED BY <3>1, <3>2
  <2>11. QED BY <1>3, <1>11, <2>10 DEF ChangeStatus
<1>12. QED
  BY <1>5, <1>6, <1>7, <1>8, <1>9, <1>10, <1>11 DEF Next, Begin, Serve

(***************************************************************************)
(* Whichever moderators race, status_history leads from "open" to the      *)
(* status shown, one real change after another (update_status of           *)
(* src/repositories/suggestions.py).                                       *)
(***************************************************************************)
THEOREM HistoriesAreChains == Spec => [](TypeOK /\ HistoryIsChain)
<1>1. Init => HistoryInv
  <2> SUFFICES ASSUME Init PROVE HistoryInv
    OBVIOUS
  <2>1. TypeOK
    BY ConstantsAssumption DEF Init, TypeOK, Job
  <2>2. Purposeful
    BY DEF Init, Purposeful, NoJob
  <2>3. HistoryIsChain
    BY DEF Init, HistoryIsChain
  <2>4. QED BY <2>1, <2>2, <2>3 DEF HistoryInv
<1>2. HistoryInv /\ [Next]_vars => HistoryInv'
  BY TypeStep, HistoryStep DEF HistoryInv
<1>3. HistoryInv => TypeOK /\ HistoryIsChain
  BY DEF HistoryInv
<1>4. QED BY <1>1, <1>2, <1>3, PTL DEF Spec

(* Votes, counters and status histories keep their shape; above all, no       *)
(* withdrawal ever takes vote_count below zero (repositories/suggestions.py). *)
THEOREM SuggestionsAreTyped == Spec => []TypeOK
  BY HistoriesAreChains, PTL

-----------------------------------------------------------------------------
(* The counter and the votes *)

\* The sets compared are finite.
LEMMA Counts ==
  ASSUME TypeOK, NEW s \in SuggestionIds
  PROVE  /\ IsFiniteSet(VotesFor(s)) /\ Cardinality(VotesFor(s)) \in Nat
         /\ \A step : /\ IsFiniteSet(InFlight(s, step))
                      /\ Cardinality(InFlight(s, step)) \in Nat
<1>1. IsFiniteSet({s} \X Voters)
  BY ConstantsAssumption, FS_Singleton, FS_Product DEF ConstantsAssumption
<1>2. VotesFor(s) \subseteq {s} \X Voters
  BY DEF TypeOK, VotesFor
<1>3. \A step : InFlight(s, step) \subseteq Workers
  BY DEF InFlight
<1>4. IsFiniteSet(VotesFor(s)) /\ \A step : IsFiniteSet(InFlight(s, step))
  BY <1>1, <1>2, <1>3, ConstantsAssumption, FS_Subset DEF ConstantsAssumption
<1>5. QED BY <1>4, FS_CardinalityType

\* A worker that is neither before nor after a count or discount changes no balance.
LEMMA Neutral ==
  ASSUME TypeOK, NEW w \in Workers, NEW j, work' = [work EXCEPT ![w] = j],
         work[w].step \notin {"count", "discount"}, j.step \notin {"count", "discount"},
         NEW s
  PROVE  /\ InFlight(s, "count")' = InFlight(s, "count")
         /\ InFlight(s, "discount")' = InFlight(s, "discount")
<1>1. work \in [Workers -> Job]
  BY DEF TypeOK
<1>2. w \notin InFlight(s, "count") /\ w \notin InFlight(s, "discount")
  BY DEF InFlight
<1>3. QED BY <1>1, <1>2 DEF InFlight

\* How far the counter, with what is being counted, is above the votes, with
\* those being discounted.
Drift(s) ==
  vote_count[s] + Cardinality(InFlight(s, "count"))
      - Cardinality(VotesFor(s)) - Cardinality(InFlight(s, "discount"))

\* It only moves when a request dies, and when a discount meets a counter at zero.
DriftMoves(s) ==
  \/ Drift(s)' = Drift(s) /\ crashes' = crashes
  \/ Drift(s)' \in {Drift(s) - 1, Drift(s), Drift(s) + 1} /\ crashes' = crashes + 1
  \/ /\ Drift(s)' = Drift(s) + 1 /\ crashes' = crashes
     /\ vote_count[s] = 0 /\ InFlight(s, "discount") # {}

\* A step that touches none of what is counted moves nothing.
LEMMA DriftKept ==
  ASSUME NEW s, UNCHANGED <<vote_count, votes, crashes>>,
         InFlight(s, "count")' = InFlight(s, "count"),
         InFlight(s, "discount")' = InFlight(s, "discount")
  PROVE  DriftMoves(s)
  BY DEF DriftMoves, Drift, VotesFor

\* Every action moves one unit between the counter and what it is compared with.
LEMMA DriftStep ==
  ASSUME TypeOK, [Next]_vars, NEW s \in SuggestionIds
  PROVE  DriftMoves(s)
<1> DEFINE C == InFlight(s, "count")
           D == InFlight(s, "discount")
           V == VotesFor(s)
<1>1. TypeOK'
  BY TypeStep
<1>2. /\ IsFiniteSet(C) /\ IsFiniteSet(D) /\ IsFiniteSet(V)
      /\ Cardinality(C) \in Nat /\ Cardinality(D) \in Nat /\ Cardinality(V) \in Nat
      /\ work \in [Workers -> Job] /\ vote_count \in [SuggestionIds -> Nat]
      /\ vote_count[s] \in Nat /\ crashes \in Nat
  BY Counts DEF TypeOK
<1>3. Drift(s) = vote_count[s] + Cardinality(C) - Cardinality(V) - Cardinality(D)
  BY DEF Drift
<1>4. NoJob.step \notin {"count", "discount"}
  BY DEF NoJob
<1>5. CASE UNCHANGED vars
  BY <1>5, DriftKept DEF vars, InFlight
<1>6. ASSUME NEW n \in SuggestionIds, Create(n) PROVE DriftMoves(s)
  BY <1>6, DriftKept DEF Create, InFlight
<1>7. ASSUME NEW w \in Workers, NEW u \in Voters, NEW n \in suggestions,
             NEW step \in {"vote", "unvote"}, BeginVote(w, u, n, step)
      PROVE  DriftMoves(s)
  BY <1>4, <1>7, Neutral, DriftKept DEF BeginVote, Start
<1>8. ASSUME NEW w \in Workers, NEW u \in Moderators, NEW n \in suggestions,
             NEW to \in Statuses, BeginChange(w, u, n, to)
      PROVE  DriftMoves(s)
  BY <1>4, <1>8, Neutral, DriftKept DEF BeginChange, Start
<1>9. ASSUME NEW w \in Workers, ChangeStatus(w) \/ RefuseChange(w) PROVE DriftMoves(s)
  BY <1>4, <1>9, Neutral, DriftKept DEF ChangeStatus, RefuseChange, Finish
<1>10. ASSUME NEW w \in Workers, InsertVote(w) PROVE DriftMoves(s)
  <2> DEFINE job == work[w]
             j == [job EXCEPT !.step = "count"]
  <2>1. job \in VoteJob /\ job.step = "vote"
    BY <1>10, JobTypes DEF InsertVote
  <2>2. CASE Ballot(job) \in votes
    BY <1>4, <1>10, <2>1, <2>2, Neutral, DriftKept DEF InsertVote, Finish
  <2>3. CASE Ballot(job) \notin votes
    <3>1. /\ votes' = votes \cup {Ballot(job)} /\ UNCHANGED <<vote_count, crashes>>
          /\ work' = [work EXCEPT ![w] = j]
      BY <1>10, <2>3 DEF InsertVote, Continue
    <3>2. j.step = "count" /\ j.id = job.id /\ Ballot(job)[1] = job.id
      BY <2>1 DEF VoteJob, Ballot
    <3>3. w \notin C /\ w \notin D /\ Ballot(job) \notin V
      BY <2>1, <2>3 DEF InFlight, VotesFor
    <3>4. D' = D
      BY <1>2, <3>1, <3>2, <3>3 DEF InFlight
    <3>5. CASE s = job.id
      <4>1. C' = C \cup {w}
        BY <1>2, <3>1, <3>2, <3>5 DEF InFlight
      <4>2. V' = V \cup {Ballot(job)}
        BY <3>1, <3>2, <3>5 DEF VotesFor
      <4>3. /\ Cardinality(C') = Cardinality(C) + 1
            /\ Cardinality(V') = Cardinality(V) + 1
        BY <1>2, <3>3, <4>1, <4>2, FS_AddElement
      <4>4. QED BY <1>2, <1>3, <3>1, <3>4, <4>3 DEF Drift, DriftMoves
    <3>6. CASE s # job.id
      <4>1. C' = C
        BY <1>2, <3>1, <3>2, <3>3, <3>6 DEF InFlight
      <4>2. V' = V
        BY <3>1, <3>2, <3>6 DEF VotesFor
      <4>3. QED BY <1>3, <3>1, <3>4, <4>1, <4>2 DEF Drift, DriftMoves
    <3>7. QED BY <3>5, <3>6
  <2>4. QED BY <2>2, <2>3
<1>11. ASSUME NEW w \in Workers, CountVote(w) PROVE DriftMoves(s)
  <2>1. /\ work' = [work EXCEPT ![w] = NoJob] /\ UNCHANGED <<votes, crashes>>
        /\ work[w].step = "count"
        /\ vote_count' = [vote_count EXCEPT ![work[w].id] = @ + 1]
    BY <1>11 DEF CountVote, Finish
  <2>2. C' = C \ {w} /\ D' = D \ {w}
    BY <1>2, <1>4, <2>1 DEF InFlight
  <2>3. w \notin D /\ (w \in C <=> s = work[w].id)
    BY <2>1 DEF InFlight
  <2>4. V' = V /\ D' = D
    BY <2>1, <2>2, <2>3 DEF VotesFor
  <2>5. CASE s = work[w].id
    <3>1. Cardinality(C') = Cardinality(C) - 1
      BY <1>2, <2>2, <2>3, <2>5, FS_RemoveElement
    <3>2. vote_count'[s] = vote_count[s] + 1
      BY <1>2, <2>1, <2>5
    <3>3. QED BY <1>2, <1>3, <2>1, <2>4, <3>1, <3>2 DEF Drift, DriftMoves
  <2>6. CASE s # work[w].id
    <3>1. C' = C /\ vote_count'[s] = vote_count[s]
      BY <1>2, <2>1, <2>2, <2>3, <2>6
    <3>2. QED BY <1>3, <2>1, <2>4, <3>1 DEF Drift, DriftMoves
  <2>7. QED BY <2>5, <2>6
<1>12. ASSUME NEW w \in Workers, DeleteVote(w) PROVE DriftMoves(s)
  <2> DEFINE job == work[w]
             j == [job EXCEPT !.step = "discount"]
  <2>1. job \in VoteJob /\ job.step = "unvote"
    BY <1>12, JobTypes DEF DeleteVote
  <2>2. CASE Ballot(job) \notin votes
    BY <1>4, <1>12, <2>1, <2>2, Neutral, DriftKept DEF DeleteVote, Finish
  <2>3. CASE Ballot(job) \in votes
    <3>1. /\ votes' = votes \ {Ballot(job)} /\ UNCHANGED <<vote_count, crashes>>
          /\ work' = [work EXCEPT ![w] = j]
      BY <1>12, <2>3 DEF DeleteVote, Continue
    <3>2. j.step = "discount" /\ j.id = job.id /\ Ballot(job)[1] = job.id
      BY <2>1 DEF VoteJob, Ballot
    <3>3. w \notin C /\ w \notin D
      BY <2>1 DEF InFlight
    <3>4. C' = C
      BY <1>2, <3>1, <3>2, <3>3 DEF InFlight
    <3>5. CASE s = job.id
      <4>1. D' = D \cup {w}
        BY <1>2, <3>1, <3>2, <3>5 DEF InFlight
      <4>2. V' = V \ {Ballot(job)} /\ Ballot(job) \in V
        BY <2>3, <3>1, <3>2, <3>5 DEF VotesFor
      <4>3. Cardinality(D') = Cardinality(D) + 1
        BY <1>2, <3>3, <4>1, FS_AddElement
      <4>4. Cardinality(V \ {Ballot(job)}) = Cardinality(V) - 1
        BY <1>2, <4>2, FS_RemoveElement
      <4>5. Cardinality(V') = Cardinality(V) - 1
        BY <4>2, <4>4
      <4>6. QED BY <1>2, <1>3, <3>1, <3>4, <4>3, <4>5 DEF Drift, DriftMoves
    <3>6. CASE s # job.id
      <4>1. D' = D
        BY <1>2, <3>1, <3>2, <3>3, <3>6 DEF InFlight
      <4>2. V' = V
        BY <3>1, <3>2, <3>6 DEF VotesFor
      <4>3. QED BY <1>3, <3>1, <3>4, <4>1, <4>2 DEF Drift, DriftMoves
    <3>7. QED BY <3>5, <3>6
  <2>4. QED BY <2>2, <2>3
<1>13. ASSUME NEW w \in Workers, DiscountVote(w) PROVE DriftMoves(s)
  <2>1. /\ work' = [work EXCEPT ![w] = NoJob] /\ UNCHANGED <<votes, crashes>>
        /\ work[w].step = "discount"
        /\ vote_count' = [vote_count EXCEPT ![work[w].id] = IF @ > 0 THEN @ - 1 ELSE @]
    BY <1>13 DEF DiscountVote, Finish
  <2>2. C' = C \ {w} /\ D' = D \ {w}
    BY <1>2, <1>4, <2>1 DEF InFlight
  <2>3. w \notin C /\ (w \in D <=> s = work[w].id)
    BY <2>1 DEF InFlight
  <2>4. V' = V /\ C' = C
    BY <2>1, <2>2, <2>3 DEF VotesFor
  <2>5. CASE s = work[w].id
    <3>1. Cardinality(D') = Cardinality(D) - 1
      BY <1>2, <2>2, <2>3, <2>5, FS_RemoveElement
    <3>2. /\ vote_count[s] > 0 => vote_count'[s] = vote_count[s] - 1
          /\ ~(vote_count[s] > 0) => vote_count'[s] = 0 /\ vote_count[s] = 0
      BY <1>2, <2>1, <2>5
    <3>4. D # {}
      BY <2>3, <2>5
    <3>3. QED BY <1>2, <1>3, <2>1, <2>4, <3>1, <3>2, <3>4 DEF Drift, DriftMoves
  <2>6. CASE s # work[w].id
    <3>1. D' = D /\ vote_count'[s] = vote_count[s]
      BY <1>2, <2>1, <2>2, <2>3, <2>6
    <3>2. QED BY <1>3, <2>1, <2>4, <3>1 DEF Drift, DriftMoves
  <2>7. QED BY <2>5, <2>6
<1>14. ASSUME NEW w \in Workers, Crash(w) PROVE DriftMoves(s)
  <2>1. /\ work' = [work EXCEPT ![w] = NoJob] /\ UNCHANGED <<votes, vote_count>>
        /\ crashes' = crashes + 1
    BY <1>14 DEF Crash, Finish
  <2>2. C' = C \ {w} /\ D' = D \ {w}
    BY <1>2, <1>4, <2>1 DEF InFlight
  <2>3. V' = V
    BY <2>1 DEF VotesFor
  <2>4. /\ Cardinality(C') \in {Cardinality(C), Cardinality(C) - 1}
        /\ Cardinality(D') \in {Cardinality(D), Cardinality(D) - 1}
    BY <1>2, <2>2, FS_RemoveElement
  <2>5. QED BY <1>2, <1>3, <2>1, <2>3, <2>4 DEF Drift, DriftMoves
<1>15. QED
  BY <1>5, <1>6, <1>7, <1>8, <1>9, <1>10, <1>11, <1>12, <1>13, <1>14
     DEF Next, Begin, Serve

\* What is compared are numbers.
LEMMA DriftIsInt ==
  ASSUME TypeOK, NEW s \in SuggestionIds
  PROVE  /\ vote_count[s] \in Nat /\ crashes \in Nat
         /\ Cardinality(VotesFor(s)) \in Nat
         /\ \A step : Cardinality(InFlight(s, step)) \in Nat
         /\ Drift(s) \in Int
<1>1. vote_count[s] \in Nat /\ crashes \in Nat
  BY DEF TypeOK
<1>2. QED BY <1>1, Counts DEF Drift

\* At the beginning nothing is off.
LEMMA InitDrift ==
  ASSUME Init, NEW s \in SuggestionIds
  PROVE  Drift(s) = 0 /\ crashes = 0
<1>1. VotesFor(s) = {} /\ InFlight(s, "count") = {} /\ InFlight(s, "discount") = {}
  BY DEF Init, VotesFor, InFlight, NoJob
<1>2. vote_count[s] = 0 /\ crashes = 0
  BY DEF Init
<1>3. QED BY <1>1, <1>2, FS_EmptySet DEF Drift

(***************************************************************************)
(* However votes and withdrawals interleave, vote_count never falls short  *)
(* of the votes but by adjustments in flight or lost to a crash (add_vote, *)
(* remove_vote of src/repositories/suggestions.py).                        *)
(***************************************************************************)
THEOREM CountersNeverFallShort == Spec => []NeverUndercounted
<1> DEFINE Inv == TypeOK /\ \A s \in SuggestionIds : Drift(s) + crashes >= 0
<1>1. Init => Inv
  <2> SUFFICES ASSUME Init PROVE Inv
    OBVIOUS
  <2>1. TypeOK
    BY ConstantsAssumption DEF Init, TypeOK, Job
  <2>2. QED BY <2>1, InitDrift
<1>2. Inv /\ [Next]_vars => Inv'
  <2> SUFFICES ASSUME Inv, [Next]_vars PROVE Inv'
    OBVIOUS
  <2>1. TypeOK'
    BY TypeStep
  <2>2. ASSUME NEW s \in SuggestionIds PROVE (Drift(s) + crashes >= 0)'
    <3>1. /\ DriftMoves(s) /\ Drift(s) + crashes >= 0
          /\ crashes \in Nat /\ Drift(s) \in Int
      BY DriftStep, DriftIsInt
    <3>2. QED BY <3>1 DEF DriftMoves
  <2>3. QED BY <2>1, <2>2
<1>3. Inv => NeverUndercounted
  <2> SUFFICES ASSUME Inv, NEW s \in SuggestionIds
               PROVE  vote_count[s] + Cardinality(InFlight(s, "count")) + crashes
                        >= Cardinality(VotesFor(s)) + Cardinality(InFlight(s, "discount"))
    BY DEF NeverUndercounted
  <2>1. QED BY DriftIsInt DEF Drift
<1>4. QED BY <1>1, <1>2, <1>3, PTL DEF Spec

-----------------------------------------------------------------------------
(***************************************************************************)
(* The one overlap that makes the counter drift.  CountIsVotes fails when  *)
(* a vote is withdrawn before it is counted: its discount may then meet a  *)
(* counter at zero and be lost.  Every other interleaving leaves the       *)
(* counter exact, with any number of voters and requests.                  *)
(***************************************************************************)

\* No vote that is being counted is about to be withdrawn.
VotesApart ==
  \A v, w \in Workers :
      work[v].step = "count" /\ work[w].step = "unvote" => Ballot(work[v]) # Ballot(work[w])

Counting == {w \in Workers : work[w].step = "count"}

\* Each worker that counts, counts a vote of its own that is stored.
CountsOwnVotes ==
  /\ \A w \in Counting : Ballot(work[w]) \in votes
  /\ \A v, w \in Counting : Ballot(work[v]) = Ballot(work[w]) => v = w

\* Nothing else comes to count: only an insert that stored its vote.
LEMMA CountingStep ==
  ASSUME TypeOK, VotesApart, CountsOwnVotes, [Next]_vars
  PROVE  CountsOwnVotes'
<1>1. work \in [Workers -> Job] /\ NoJob.step = "idle"
  BY DEF TypeOK, NoJob
<1>2. ASSUME NEW w \in Workers, NEW j, work' = [work EXCEPT ![w] = j], j.step # "count",
             votes \subseteq votes'
      PROVE  CountsOwnVotes'
  <2>1. Counting' \subseteq Counting /\ \A v \in Counting' : work'[v] = work[v]
    BY <1>1, <1>2 DEF Counting
  <2>2. QED BY <1>2, <2>1 DEF CountsOwnVotes, Ballot
<1>3. CASE UNCHANGED vars
  BY <1>3 DEF vars, CountsOwnVotes, Counting, Ballot
<1>4. ASSUME NEW n \in SuggestionIds, Create(n) PROVE CountsOwnVotes'
  BY <1>4 DEF Create, CountsOwnVotes, Counting, Ballot
<1>5. ASSUME NEW w \in Workers, NEW u \in Voters, NEW n \in suggestions,
             NEW step \in {"vote", "unvote"}, BeginVote(w, u, n, step)
      PROVE  CountsOwnVotes'
  <2> DEFINE j == [step |-> step, id |-> n, user |-> u]
  <2>1. work' = [work EXCEPT ![w] = j] /\ votes' = votes
    BY <1>5 DEF BeginVote, Start
  <2>2. j.step # "count"
    OBVIOUS
  <2>3. QED BY <1>2, <2>1, <2>2
<1>6. ASSUME NEW w \in Workers, NEW u \in Moderators, NEW n \in suggestions,
             NEW to \in Statuses, BeginChange(w, u, n, to)
      PROVE  CountsOwnVotes'
  <2> DEFINE j == [step |-> "change", id |-> n, user |-> u, seen |-> status[n], to |-> to]
  <2>1. work' = [work EXCEPT ![w] = j] /\ votes' = votes
    BY <1>6 DEF BeginChange, Start
  <2>2. j.step # "count"
    OBVIOUS
  <2>3. QED BY <1>2, <2>1, <2>2
<1>7. ASSUME NEW w \in Workers,
             CountVote(w) \/ DiscountVote(w) \/ ChangeStatus(w) \/ RefuseChange(w) \/ Crash(w)
      PROVE  CountsOwnVotes'
  <2>1. work' = [work EXCEPT ![w] = NoJob] /\ votes' = votes
    BY <1>7 DEF CountVote, DiscountVote, ChangeStatus, RefuseChange, Crash, Finish
  <2>2. QED BY <1>1, <1>2, <2>1
<1>8. ASSUME NEW w \in Workers, InsertVote(w) PROVE CountsOwnVotes'
  <2>1. work[w] \in VoteJob
    BY <1>8, JobTypes DEF InsertVote
  <2>2. CASE Ballot(work[w]) \in votes
    BY <1>1, <1>2, <1>8, <2>2 DEF InsertVote, Finish
  <2>3. CASE Ballot(work[w]) \notin votes
    <3>1. /\ votes' = votes \cup {Ballot(work[w])}
          /\ work' = [work EXCEPT ![w].step = "count"]
      BY <1>8, <2>3 DEF InsertVote, Continue
    <3>2. /\ Counting' = Counting \cup {w}
          /\ \A v \in Counting \ {w} : work'[v] = work[v]
          /\ work'[w].id = work[w].id /\ work'[w].user = work[w].user
      BY <1>1, <2>1, <3>1 DEF Counting, VoteJob
    <3>3. w \notin Counting
      BY <1>8 DEF InsertVote, Counting
    <3>4. \A v \in Counting : Ballot(work'[v]) = Ballot(work[v]) /\ Ballot(work[v]) # Ballot(work[w])
      BY <2>3, <3>2, <3>3 DEF CountsOwnVotes
    <3>5. Ballot(work'[w]) = Ballot(work[w])
      BY <3>2 DEF Ballot
    <3>6. \A v \in Counting' : Ballot(work'[v]) \in votes'
      BY <3>1, <3>2, <3>4, <3>5 DEF CountsOwnVotes
    <3>7. \A v, x \in Counting' : Ballot(work'[v]) = Ballot(work'[x]) => v = x
      BY <3>2, <3>4, <3>5 DEF CountsOwnVotes
    <3>8. QED BY <3>6, <3>7 DEF CountsOwnVotes, Ballot
  <2>4. QED BY <2>2, <2>3
<1>9. ASSUME NEW w \in Workers, DeleteVote(w) PROVE CountsOwnVotes'
  <2>1. work[w] \in VoteJob
    BY <1>9, JobTypes DEF DeleteVote
  <2>2. CASE Ballot(work[w]) \notin votes
    BY <1>1, <1>2, <1>9, <2>2 DEF DeleteVote, Finish
  <2>3. CASE Ballot(work[w]) \in votes
    <3>1. /\ votes' = votes \ {Ballot(work[w])}
          /\ work' = [work EXCEPT ![w].step = "discount"]
      BY <1>9, <2>3 DEF DeleteVote, Continue
    <3>2. Counting' = Counting /\ \A v \in Counting : work'[v] = work[v]
      BY <1>1, <1>9, <2>1, <3>1 DEF Counting, VoteJob, DeleteVote
    <3>3. \A v \in Counting : Ballot(work[v]) # Ballot(work[w])
      BY <1>9 DEF VotesApart, Counting, DeleteVote
    <3>4. QED BY <3>1, <3>2, <3>3 DEF CountsOwnVotes, Ballot
  <2>4. QED BY <2>2, <2>3
<1>10. QED
  BY <1>3, <1>4, <1>5, <1>6, <1>7, <1>8, <1>9 DEF Next, Begin, Serve

\* There are no more workers counting than votes.
LEMMA CountedAreStored ==
  ASSUME TypeOK, CountsOwnVotes, NEW s \in SuggestionIds
  PROVE  Cardinality(InFlight(s, "count")) <= Cardinality(VotesFor(s))
<1> DEFINE C == InFlight(s, "count")
           V == VotesFor(s)
           f == [w \in C |-> Ballot(work[w])]
<1>1. IsFiniteSet(C) /\ IsFiniteSet(V)
  BY Counts
<1>2. \A w \in C : w \in Counting /\ work[w].id = s
  BY DEF InFlight, Counting
<1>3. \A w \in C : Ballot(work[w]) \in V
  BY <1>2 DEF CountsOwnVotes, VotesFor, Ballot
<1>4. \A v, w \in C : f[v] = f[w] => v = w
  BY <1>2 DEF CountsOwnVotes
<1>5. f \in Injection(C, V)
  <2> HIDE DEF C, V
  <2>1. f \in [C -> V]
    BY <1>3
  <2> HIDE DEF f
  <2>2. QED BY <1>4, <2>1 DEF Injection, IsInjective
<1>6. QED BY <1>1, <1>5, FS_Injection

(***************************************************************************)
(* Unless a vote is withdrawn while it is being counted, or a request      *)
(* dies, vote_count at rest is the number of votes, whatever else          *)
(* interleaves: "remove vote updates only when deleted"                    *)
(* (tests/test_suggestions_repository.py).  The run votes_race shows that  *)
(* this one overlap does break it.                                         *)
(***************************************************************************)
THEOREM CountsAreExact == Spec /\ []VotesApart => []CountIsVotes
<1> DEFINE Inv == /\ TypeOK /\ CountsOwnVotes
                  /\ crashes = 0 => \A s \in SuggestionIds : Drift(s) = 0
<1>1. Init => Inv
  <2> SUFFICES ASSUME Init PROVE Inv
    OBVIOUS
  <2>1. TypeOK
    BY ConstantsAssumption DEF Init, TypeOK, Job
  <2>2. CountsOwnVotes
    BY DEF Init, CountsOwnVotes, Counting, NoJob
  <2>3. QED BY <2>1, <2>2, InitDrift
<1>2. Inv /\ VotesApart /\ [Next]_vars => Inv'
  <2> SUFFICES ASSUME Inv, VotesApart, [Next]_vars PROVE Inv'
    OBVIOUS
  <2>1. TypeOK' /\ CountsOwnVotes'
    BY TypeStep, CountingStep
  <2>2. ASSUME crashes' = 0, NEW s \in SuggestionIds PROVE Drift(s)' = 0
    <3>1. DriftMoves(s) /\ crashes \in Nat
      BY DriftStep DEF TypeOK
    <3>2. crashes = 0 /\ crashes' # crashes + 1
      BY <2>2, <3>1 DEF DriftMoves
    <3>3. Drift(s) = 0
      BY <3>2
    <3>4. ASSUME vote_count[s] = 0, InFlight(s, "discount") # {} PROVE FALSE
      <4>1. Cardinality(InFlight(s, "discount")) # 0
        BY <3>4, Counts, FS_EmptySet
      <4>2. Cardinality(InFlight(s, "count")) <= Cardinality(VotesFor(s))
        BY CountedAreStored
      <4>3. /\ Cardinality(InFlight(s, "count")) \in Nat
            /\ Cardinality(InFlight(s, "discount")) \in Nat /\ Cardinality(VotesFor(s)) \in Nat
        BY DriftIsInt
      <4>4. 0 + Cardinality(InFlight(s, "count")) - Cardinality(VotesFor(s))
                - Cardinality(InFlight(s, "discount")) = 0
        BY <3>3, <3>4 DEF Drift
      <4>5. \A c, v, d \in Nat : c <= v /\ d # 0 => 0 + c - v - d # 0
        OBVIOUS
      <4>6. QED BY <4>1, <4>2, <4>3, <4>4, <4>5
    <3>5. QED BY <3>1, <3>2, <3>3, <3>4 DEF DriftMoves
  <2>3. QED BY <2>1, <2>2
<1>3. Inv => CountIsVotes
  <2> SUFFICES ASSUME Inv, crashes = 0, NEW s \in SuggestionIds,
                      \A w \in Workers : work[w] = NoJob \/ work[w].id # s
               PROVE  vote_count[s] = Cardinality(VotesFor(s))
    BY DEF CountIsVotes
  <2>1. InFlight(s, "count") = {} /\ InFlight(s, "discount") = {}
    BY DEF InFlight, NoJob
  <2>2. Drift(s) = 0
    OBVIOUS
  <2>3. QED BY <2>1, <2>2, FS_EmptySet, DriftIsInt DEF Drift
<1>4. QED BY <1>1, <1>2, <1>3, PTL DEF Spec
=============================================================================
