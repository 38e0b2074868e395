----------------------------- MODULE Suggestions -----------------------------
(***************************************************************************)
(* Suggestions, the votes on them and their moderation                     *)
(* (src/repositories/suggestions.py and the routes that call it).          *)
(*                                                                         *)
(* A vote is a document of its own; vote_count on the suggestion is a      *)
(* cached counter that a later call adjusts.  A worker is one HTTP request *)
(* being served; every MongoDB call is one step.  A request that finds no  *)
(* suggestion ends in a 404 and changes nothing, and no suggestion is ever *)
(* deleted, so requests are taken for existing suggestions only.           *)
(***************************************************************************)
EXTENDS Integers, Sequences, FiniteSets

CONSTANTS
    SuggestionIds,      \* suggestions that may be created
    Voters,             \* viewers that can vote
    Moderators,         \* viewers the permission check lets change a status
    Statuses,           \* SuggestionStatus, "open" among them
    Workers,            \* requests in flight at the same time
    MaxCount,           \* bound: a counter this high takes no more votes
    MaxChanges,         \* bound: a history this long takes no more changes
    MaxCrashes          \* bound: requests that die between two steps

ASSUME ConstantsAssumption ==
    /\ "open" \in Statuses
    /\ IsFiniteSet(Voters) /\ IsFiniteSet(Workers)
    /\ MaxCount \in Nat /\ MaxChanges \in Nat /\ MaxCrashes \in Nat

VARIABLES
    suggestions,        \* the ids inserted so far
    status,             \* the status field of each suggestion
    vote_count,         \* the vote_count field of each suggestion
    status_history,     \* the status_history array of each suggestion
    votes,              \* the vote documents: pairs of suggestion and user
    work,               \* what each worker is doing
    crashes             \* requests that died half way

vars == <<suggestions, status, vote_count, status_history, votes, work, crashes>>

-----------------------------------------------------------------------------
Change == [from : Statuses, to : Statuses, by : Moderators]

NoJob == [step |-> "idle"]
VoteJob ==
    [step : {"vote", "count", "unvote", "discount"}, id : SuggestionIds, user : Voters]
\* seen: the status read before the write; to: the status asked for.
ChangeJob ==
    [step : {"change"}, id : SuggestionIds, user : Moderators, seen : Statuses, to : Statuses]
Job == {NoJob} \cup VoteJob \cup ChangeJob

Init ==
    /\ suggestions = {}
    /\ status = [s \in SuggestionIds |-> "open"]
    /\ vote_count = [s \in SuggestionIds |-> 0]
    /\ status_history = [s \in SuggestionIds |-> <<>>]
    /\ votes = {}
    /\ work = [w \in Workers |-> NoJob]
    /\ crashes = 0

Start(w, job) == work[w] = NoJob /\ work' = [work EXCEPT ![w] = job]
Continue(w, step) == work' = [work EXCEPT ![w].step = step]
Finish(w) == work' = [work EXCEPT ![w] = NoJob]

(* POST /suggestions: the insert, with status "open", no votes, no history. *)
Create(s) ==
    /\ s \notin suggestions
    /\ suggestions' = suggestions \cup {s}
    /\ UNCHANGED <<status, vote_count, status_history, votes, work, crashes>>

(* PUT and DELETE /suggestions/{id}/vote, up to finding the suggestion. *)
BeginVote(w, u, s, step) ==
    /\ step = "vote" => vote_count[s] < MaxCount
    /\ Start(w, [step |-> step, id |-> s, user |-> u])
    /\ UNCHANGED <<suggestions, status, vote_count, status_history, votes, crashes>>

Ballot(job) == <<job.id, job.user>>

(* The unique index one_vote_per_user turns a repeated vote into a no-op. *)
InsertVote(w) ==
    /\ work[w].step = "vote"
    /\ IF Ballot(work[w]) \in votes
       THEN Finish(w) /\ UNCHANGED votes
       ELSE votes' = votes \cup {Ballot(work[w])} /\ Continue(w, "count")
    /\ UNCHANGED <<suggestions, status, vote_count, status_history, crashes>>

CountVote(w) ==
    /\ work[w].step = "count"
    /\ vote_count' = [vote_count EXCEPT ![work[w].id] = @ + 1]
    /\ Finish(w)
    /\ UNCHANGED <<suggestions, status, status_history, votes, crashes>>

DropAnyVote(w) == \* mutant: deleted_count is not looked at
    /\ work[w].step = "unvote"
    /\ votes' = votes \ {Ballot(work[w])}
    /\ Continue(w, "discount")
    /\ UNCHANGED <<suggestions, status, vote_count, status_history, crashes>>

(* delete_one: a vote that was not there changes nothing. *)
DeleteVote(w) ==
    /\ work[w].step = "unvote"
    /\ IF Ballot(work[w]) \in votes
       THEN votes' = votes \ {Ballot(work[w])} /\ Continue(w, "discount")
       ELSE Finish(w) /\ UNCHANGED votes
    /\ UNCHANGED <<suggestions, status, vote_count, status_history, crashes>>

DiscountBelowZero(w) == \* mutant: the filter on vote_count > 0 is forgotten
    /\ work[w].step = "discount"
    /\ vote_count' = [vote_count EXCEPT ![work[w].id] = @ - 1]
    /\ Finish(w)
    /\ UNCHANGED <<suggestions, status, status_history, votes, crashes>>

(* The decrement is guarded by vote_count > 0: at zero it is lost. *)
DiscountVote(w) ==
    /\ work[w].step = "discount"
    /\ vote_count' = [vote_count EXCEPT ![work[w].id] = IF @ > 0 THEN @ - 1 ELSE @]
    /\ Finish(w)
    /\ UNCHANGED <<suggestions, status, status_history, votes, crashes>>

(* PATCH /suggestions/{id}/status: asking for the current status writes nothing. *)
BeginChange(w, u, s, to) ==
    /\ to # status[s]
    /\ Len(status_history[s]) < MaxChanges
    /\ Start(w, [step |-> "change", id |-> s, user |-> u, seen |-> status[s], to |-> to])
    /\ UNCHANGED <<suggestions, status, vote_count, status_history, votes, crashes>>

WriteStatus(job) ==
    /\ status' = [status EXCEPT ![job.id] = job.to]
    /\ status_history' = [status_history EXCEPT ![job.id] =
            Append(@, [from |-> job.seen, to |-> job.to, by |-> job.user])]

AnyStatus(job) == TRUE \* mutant: the update does not filter on the status it has read
SameStatus(job) == status[job.id] = job.seen

ChangeStatus(w) ==
    /\ work[w].step = "change" /\ SameStatus(work[w])
    /\ WriteStatus(work[w])
    /\ Finish(w)
    /\ UNCHANGED <<suggestions, vote_count, votes, crashes>>

(* "Suggestion status was changed by another request" *)
RefuseChange(w) ==
    /\ work[w].step = "change" /\ ~SameStatus(work[w])
    /\ Finish(w)
    /\ UNCHANGED <<suggestions, status, vote_count, status_history, votes, crashes>>

(* The process dies or MongoDB fails between two calls: what is written stays. *)
Crash(w) ==
    /\ work[w] # NoJob /\ crashes < MaxCrashes
    /\ crashes' = crashes + 1
    /\ Finish(w)
    /\ UNCHANGED <<suggestions, status, vote_count, status_history, votes>>

Begin(w) ==
    \/ \E u \in Voters, s \in suggestions, step \in {"vote", "unvote"} :
          BeginVote(w, u, s, step)
    \/ \E u \in Moderators, s \in suggestions, to \in Statuses : BeginChange(w, u, s, to)

Serve(w) ==
    \/ InsertVote(w)   \/ CountVote(w)    \/ DeleteVote(w)
    \/ DiscountVote(w) \/ ChangeStatus(w) \/ RefuseChange(w)

Next ==
    \/ \E s \in SuggestionIds : Create(s)
    \/ \E w \in Workers : Begin(w) \/ Serve(w) \/ Crash(w)

Spec == Init /\ [][Next]_vars

-----------------------------------------------------------------------------
(* Properties *)

(* Every variable keeps the shape the collections and handlers give it. *)
TypeOK ==
    /\ suggestions \subseteq SuggestionIds
    /\ status \in [SuggestionIds -> Statuses]
    /\ vote_count \in [SuggestionIds -> Nat]
    /\ status_history \in [SuggestionIds -> Seq(Change)]
    /\ votes \subseteq SuggestionIds \X Voters
    /\ work \in [Workers -> Job]
    /\ crashes \in Nat

VotesFor(s) == {v \in votes : v[1] = s}
InFlight(s, step) == {w \in Workers : work[w].step = step /\ work[w].id = s}

(* Concurrent votes and withdrawals never push vote_count below the number of   *)
(* votes there are, but for the adjustments still in flight or lost to a crash: *)
(* every drift of the counter (routes never recompute it) is upwards.           *)
NeverUndercounted ==
    \A s \in SuggestionIds :
        vote_count[s] + Cardinality(InFlight(s, "count")) + crashes
            >= Cardinality(VotesFor(s)) + Cardinality(InFlight(s, "discount"))

(* status_history is the whole story of a suggestion: it starts at "open", every *)
(* entry starts where the one before ended, none goes nowhere, and the last one  *)
(* is the status shown, whichever moderators raced for it.                       *)
HistoryIsChain ==
    \A s \in SuggestionIds :
        LET h == status_history[s] IN
        /\ \A i \in DOMAIN h :
              /\ h[i].from # h[i].to
              /\ h[i].from = IF i = 1 THEN "open" ELSE h[i - 1].to
        /\ status[s] = IF h = <<>> THEN "open" ELSE h[Len(h)].to

(* At rest and without crashes vote_count is the number of votes: each removed *)
(* vote is followed by one decrement, each new one by one increment ("remove   *)
(* vote updates only when deleted", tests/test_suggestions_repository.py).     *)
CountIsVotes ==
    crashes = 0 =>
        \A s \in SuggestionIds :
            (\A w \in Workers : work[w] = NoJob \/ work[w].id # s) =>
                vote_count[s] = Cardinality(VotesFor(s))
=============================================================================
