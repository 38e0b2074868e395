# EvalHub control API: specifications, model checks and proofs

The EvalHub control API is a FastAPI service over MongoDB and a Cloud Storage
bucket. It shows evaluation results that other programs write, and keeps state
of its own: who may do what, suggestions and the votes on them, product
updates, and images. Handlers are asyncio coroutines; each `await` of a MongoDB
or bucket call is a point where any other request, in this process or another
replica, may run. Nearly every operation is several such calls without a
transaction around them, which is what these specifications are about.

Paths below are relative to the repository (`src/` is its Python package).

## 1. Components

| Component | Source | State | Operations | What is hard |
|---|---|---|---|---|
| Authorization | `src/services/authorization.py`, `src/repositories/authorization.py`, `src/security/`, the routes `access_admin`, `access_requests`, `auth_me`, two scripts | principals, assignments, access requests, audit events; unique indexes over active assignments and open requests | sign in, grant, revoke, bootstrap, ask, cancel, approve, reject, list | checks are read long before the write they guard; audit event after the write; one real transaction; expiry by the clock without a write |
| Suggestions | `src/repositories/suggestions.py`, `src/api/routes/suggestions*.py` | suggestions with a cached `vote_count`, votes, status history | create, vote, withdraw, change status, list | two documents adjusted by two calls; compare-and-set on the status |
| Image store | `src/services/suggestion_images.py` | objects in the bucket | upload, undo, delete, download | two stores, no transaction; calls that fail after taking effect |
| Product updates | `src/api/routes/product_updates.py`, `src/repositories/product_updates.py` | product updates with at most one image | create, replace text, delete, image | as above |
| Scopes and permissions | `src/models/authorization.py`, `src/security/permissions.py` | none | reading a scope, `allows`, `canonical_key`, `effective_permissions`, the two permission checks | matching rules, equal keys for equal scopes |
| Pagination | `src/repositories/base.py`, `time_window.py` | cursor held by the client | page by time, page by id | inserts between pages, ties, missing sort keys |
| Unit and E2E results | `src/repositories/unit.py`, `e2e.py`, `src/services/unit_comparison.py` | none of its own | lists, trends, comparison of two versions | several reads that are not one snapshot |
| Unit history | `src/services/unit_history.py`, `src/repositories/unit_history.py` | none | runs, then their cases, then one pure function over both | reads that are not one snapshot; four annotation passes, cohorts, commits, branches |
| Evaluation insights | `src/services/evaluation_insights.py`, repository | none | load within limits, select runs, matrix of verdicts, cards | limits spread over chunks; baseline, contexts, flips |
| Authentication | `src/security/auth.py` | cached signing keys | validate a token | delegated to PyJWT |
| Scripts | `scripts/dummy_unit_data.py`, index scripts | runs and cases | insert cases, then runs; delete cases, then runs | it may die half way |
| Application shell, deployment | `src/main.py`, `config.py`, `database.py`, `middleware/`, k6, manifests | none | | |

Interaction: a request is authenticated (`security/auth.py`), its identity is
resolved to roles by the authorization service (which records the login), and
the routes of suggestions and product updates check a permission once, at the
beginning. Suggestions and product updates both call the image store. The
result and insight components only read.

What makes each correct:

* Authorization: power comes from administrators of the same tenant only; no
  one serves themselves; a grant is unique; a request is approved together with
  its grant; documents never go back; every change reaches the audit trail and
  the trail never lies; the last administrator is lost to the clock only.
* Suggestions: the counter against the votes; the history against the status.
* Image store and product updates: documents keep their images; nothing is left
  in the bucket but by a fault; uploads settle.
* Pagination: every result that was there all along is shown exactly once.
* Scopes: keys are equal exactly when scopes mean the same; a stored scope is
  read as it was; what a user is told is what the user may do.
* History, insights, comparison: a report rests on all the records or is
  refused, missing records are no evidence, what is said of a run does not
  change later, and the parts of a report do not contradict each other.

The commit cannot be imported as it is: `src.models.auth`,
`SuggestionStatus`, `SuggestionListResponse`, `SuggestionStatusUpdate`,
`Permission.SUGGESTION_MANAGE`, `settings.suggestions_collection` and a few
imports are missing. The models take these names to resolve as their uses
intend (as the tests do with stubs) and follow the code in everything else.

## 2. Modules

Conventions of all state machines: a *worker* is one HTTP request being served
(`work[w]`); its job is the local state of the coroutine, what it has read
included. `Begin...` actions receive a request and do its checks; every later
action is one MongoDB or bucket call. `Serve(w)` is whatever the request does
next, `Crash(w)` its death between two calls (a process killed, or a database
that stays unreachable): what was written stays and the rest never happens.
A request refused by a check changes nothing and is not modelled as a step,
unless the refusal is the subject of a property. Definitions marked `mutant`
are plausible mistakes: the properties are shown to notice them.

### AccessLedger and AccessControl

`AccessLedger` is what authorization promises: a ledger of roles and one of
petitions, changed by single acts (`Grant`, `Revoke`, `Approve`, ...) of someone who
`Presides` over the user concerned, with no request in flight and no check made
beforehand. `AccessControl` models the whole authorization component and is shown
to implement it (`KeepsTheLedger`), its assignments and access requests being
the two ledgers. `assignments` and `requests` are the
collections in insertion order, `audit` the set of events, `principals` the
known users.

| Code | Actions |
|---|---|
| `resolve`, `upsert_principal`, refused requests | `SignIn` |
| `create_assignment` (service, repository) | `BeginGrant`, `SweepExpired`, `InsertAssignment`, `RecordAudit` |
| `revoke_assignment` | `BeginRevoke`, `RevokeAssignment`, `RecordAudit` |
| `bootstrap_platform_admin.py` | `BeginBootstrap`, `InsertAssignment`, `RecordAudit` |
| `create_access_request` | `BeginRequest`, `CreateRequest`, `RecordAudit` |
| `cancel_access_request` | `CancelRequest`, `RecordAudit` |
| `decide_access_request` (service) | `BeginDecision`, `ReviewRequest` |
| `approve_access_request` | `ApproveRequest`: the four writes of the transaction, all or none |
| `decide_access_request` (repository), reject | `RejectRequest`, `RecordAudit` |
| 404 and 409 answers found at the write | `Refuse` |
| the clock passing an `expires_at` | `Lapse` |

It extends `ScopeAlgebra`, and a resource scope is its key here. The unique
indexes are `KeyFree` and `OpenRequest`. The index over active assignments names
`scope.id`, which only the bootstrap script stores: `IndexKey` is what MongoDB
compares. The legacy role name `platform_admin`, names, reasons and the list
operations are left out.

### ScopeAlgebra

Pure operators: the permission table, how a scope that was sent or stored is
read (`Acceptable`, `ReadScope`: names and values stripped and lowered, of two
spellings of a name the later one, a global scope without its constraints),
its key, `Allows`, and the questions `MayAnywhere` (`require_permission`) and
`MayOn` (`require_resource_permission`). Texts are abstract, `Normal` is what
`strip().lower()` makes of them, and texts longer than accepted are left out;
SHA-256 is taken to be injective. `docs/AUTHORIZATION.md` has the matching rules.

### Suggestions

`votes` and `vote_count` are separate, as in the code: `InsertVote` then
`CountVote`, `DeleteVote` then `DiscountVote` (guarded by `vote_count > 0`).
A status change reads (`BeginChange`) and then writes if the status is still
the one read (`ChangeStatus`) or raises (`RefuseChange`). The read of the
viewer's own vote in between only shapes the answer. The permission check of the
status route is the constant `Moderators`.

### ImageStore

Suggestions with attachments and product updates with one image, over one
bucket. `UploadImage`, `RejectImage` and `UploadFails` are the loop of
`upload_many`; `InsertDocument`, `RejectDocument` and `InsertFails` the insert
and its `except`; `CleanUpImage` the best effort loop of `delete_many`;
`DeleteUpdate` the deletion of a product update; `FindImage`, `StreamImage` and
`BreakOff` a download, whose object is opened after the answer has begun. A call
that raises may have taken effect. A rejected suggestion form never reaches the
handler; a rejected release date or list of highlights does, after the upload.

### Listing and RunPages

`Listing` is what a paginated listing promises: no row twice, and at the end
every row that was there unchanged has been given. `RunPages` is
`repositories/base.py`: `ReadPage` a page with a cursor, `ReadLastPage` one
without, `FailToEncode` the page whose last row has no start time. `kind` tells
the three uses apart: runs by time (`list_runs`), runs by time with a bound on
`started_at` (a time window, or the trends, which exclude null), and cases by id
(`list_by_id`). The runs are written by the evaluation programs, which are
outside this repository: `InsertRun`, `StartRun` and `RelabelRun` are the writes
its reads have to live with. `stable` is a history variable, the ids that the
abstract listing owes. The two specifications are tied together by
`L == INSTANCE Listing WITH given <- Shown, owed <- Owed \ Shown`. A page is one
find taken as a snapshot; MongoDB delivers more than 101 rows in several
batches. The cursor a client sends is one it was given: a broken one is answered
400 and changes nothing. Dates are taken in UTC, the zone of the container.

### Reports, UnitHistory, Insights, UnitComparison

`Reports` is the state machine: one request for a history, for insights or for a
comparison, while `dummy_unit_data.py` seeds and removes a batch of evaluations.

| Code | Actions |
|---|---|
| `dummy_unit_data.py`: seed, clean up, death and restart | `StartSeed`, `Insert`, `StartCleanup`, `Delete`, `EndJob` |
| `repositories/unit_history.py`: runs of the window | `ReadHistoryRuns` |
| `repositories/evaluation_insights.py`: `load_runs`, then `select_runs` | `ReadInsightsRuns` |
| case records, a chunk of runs at a time, within the allowance | `ReadCases` |
| `unit_comparison.py`: versions, candidate run, baseline run | `ReadVersions`, `ReadCandidate`, `ReadBaseline` |

`runs` and `cases` are the two collections, `found` and `got` what the request
has read of them, `due` what was stored when it read (a history variable, as is
`quiet`). Any subset of the right size may come from a query with a limit. The
documents of a scenario are numbered by `started_at` and `_id`, so that a run is
its place and the order of the sort is that of the numbers.

What is made of the reads is three modules of pure operators. `UnitHistory` is
`build_history_insights`: `Prepared` a run with its cases, then the four
annotation passes (`Before` and `Transition`, `ContextBefore`, `References`,
`Observed`, `Progression`; `Annotations` is all of them; `Verified` is what the
second pass has left for the third), cohorts, settings,
commits, branches, cases, issues and signals. `Insights` is
`evaluation_insights.py`: the choice of runs and of a baseline, the landscape of
scopes and branches, the matrix of tests, and every kind of card. `UnitComparison`
is the choice of the two runs and their deltas. Fingerprints, labels and texts
are the values they are made of; rates are whole percentages.

### MC modules and proofs

`MC...` modules give the constants values for TLC where a configuration cannot;
the scenarios of `Reports` are enumerated in `MCReports`. `MCAccessControl` also
has TLC evaluate the theorems about `ScopeAlgebra` for two words (its `ASSUME`s),
before each run of it. `AccessControlProofs`, `AuditProofs` (which extends it),
`ScopeAlgebraProofs`, `SuggestionsProofs`, `ImageStoreProofs`, `RunPagesProofs`,
`ReportsProofs` and `HistoryProofs` (which extends it) hold the theorems.
`ReportsProofs` has what is proved of whole reports, comparisons and insights,
`HistoryProofs` what is proved of a history.

## 3. Runs

| Run | Instance | Shows |
|---|---|---|
| `access_concurrent` | 2 users of one tenant, 2 workers, 3 assignments, 1 request, temporary admin and scoped editor grants | what survives every interleaving |
| `access_serial` | the same with 1 worker, 1 crash, lasting and temporary admin grants | what holds for requests served one at a time; the audit trail and its liveness when a request dies |
| `access_reject_race` | 2 workers | *violated*: a late rejection overwrites an approval |
| `access_reapply` | 1 worker | *violated*: "an open request ... already exists" when none is open |
| `access_scope_collision` | 1 worker, 2 resource scopes | *violated*: "an active assignment already exists for this user, role, and scope" when none does |
| `votes_concurrent` | 2 voters, 1 moderator, 3 workers, 1 crash | the counter only drifts upwards; the history is a chain |
| `votes_race` | 2 workers, no crash | *violated*: the counter at rest is the number of votes |
| `images` | 3 objects, 2 documents, 2 workers, 2 faults | images of documents, leaks, interrupted downloads; liveness of uploads |
| `pages` | 4 runs, 2 start times, pages of 2 | each run once and in order, none left out; the pages implement `Listing` |
| `reports` | 5412 scenarios of 2 to 5 runs with 1 or 2 tests, a batch of up to 2 of them written or removed meanwhile | whole reports, missing records, and that the parts of a report agree |
| `reports_alone` | histories of 2 runs | *violated*: "No earlier measured execution in the same stage, target and execution environment" when there is one |
| `pages_unstarted` | 3 runs, 1 start time | *violated*: a page whose last run has not started is a failure |

Properties:

* `ChainOfTrust`, `NoDoubleGrant`, `ApprovedIsGranted`, `KeepsTheLedger`: the
  safety of authorization under interleaving. The last is the refinement of
  `AccessLedger`; that nobody acts on themselves (`NoSelfDealing`) and that
  documents never go back (`DocumentsMoveForward`) are parts of it and proved on
  their own. `JobsSound` is the invariant they rest on. `AuditTruthful` and
  `AuditGapsExplained` compare the trail with the documents in both directions;
  a request dies only in `access_serial`, which checks the second again with a
  gap that stays.
* `LastAdministratorLapses`: an administrator need not remain, even with requests
  served one at a time. `expires_at` is accepted for an admin role, so a lasting
  administrator may grant a temporary one, who revokes the first and lapses. What
  holds is that the last one goes by the clock: no revocation leaves nobody,
  unless the one who makes it lapses between the check and the write.
  `OnlyAdminsWrite` has the same limit: who begins to write has a live admin
  role, which is not revoked by the time of the write but may have lapsed.
* `LastAdministratorLapses`, `OnlyAdminsWrite` and `ClosedRequestsStayClosed`
  hold in `access_serial` and fail when two requests interleave, because
  permission and status are checked some calls before the write.
  `access_reject_race` shows the one of the three that a message of the code
  contradicts; section 5 proves that two overlaps are all that breaks them. What
  remains under any interleaving is `ChainOfTrust`: the writer *had been* made an
  administrator. A rejection may overwrite an approval for `AuditTruthful` and
  `KeepsTheLedger`; it is `ClosedRequestsStayClosed` that forbids it.
* `EveryChangeIsAudited`: unless a request dies, its write reaches the trail.
* `NeverUndercounted`: `vote_count`, plus what is being counted and what died,
  is never less than the votes, plus what is being discounted.
* `HistoryIsChain`: entries connect from "open" to the current status.
* `ImagesAreThere`: a document misses an image only if its insert was done and
  raised all the same. `LeaksAreFaults`: objects nobody owns are at most
  `MaxFiles` per fault. `BreakOffsExplained`: a download fails half way only
  after a deletion or such an insert. `UploadsSettle`: an uploaded object comes
  to belong to a document or is deleted.
* `ShownOnce`, `NewestFirst`, `EveryRunShown`: what a client puts together from
  its pages while the collection changes. `EveryRunShown` says exactly what may
  be missing: runs without a start time, in a window or beyond the first page.
  `KeepsItsPromise` is the refinement of `Listing`.
* `WholeOrRefused`: however the limit on case records is spread over chunks, a
  report that is returned rests on all records that were there when their chunk
  was read. `CompleteMeansRecorded`: a run whose records were partly written or
  removed between the reads does not pass for complete.
* `SettledHistoryStays`: nothing beside a run changes once the runs up to it are
  recorded, whatever is recorded later. `AnnotationsAgree`: the four passes,
  each with its own idea of the run before, do not contradict each other; the
  third finds what the second has left, so their order matters.
* `EvidenceAddsUp`: cohorts, cells, branches, commits, gaps and issues of one
  history are counted over different runs and still agree.
* `CardsAgree`: the cards of a view agree with each other and with the matrix of
  tests. Some of it needs the runs to be of one context: with several, a
  regression card quotes the latest baseline run of any (see the hazards).
* `ComparisonIsLatest`: two versions, one run of each, the newest there are but
  for what was written between the four reads (`PassedOver`): a run that was there
  all along is passed over only for a run of another version, and only if runs of
  that version came or went meanwhile.

Bounds. Two users are the least that can act on one another; every property is
about a pair of documents and their writers, so two workers and three
assignments make each reachable (bootstrap, a grant, and a twin or a
replacement). One access request suffices since requests of different users or
roles never meet. In `votes_concurrent` three workers let a count, a discount
and a third vote overlap; `MaxCount` only stops new votes from beginning. Three
images and two documents let a full suggestion run beside a product update, and
two faults let an undo fail too. Four runs with two start times have ties inside
a page, across a page boundary and none at all, and a run can be inserted, start
or change before, on and behind the cursor. In `reports` a history has up to four
runs, enough for a run, the one before on its branch, one of another branch before
that, and one that comes later; each way a run can be odd (no branch, no commit,
other settings, another stage, an error, a wrong summary, other tests, a blocked
test, one test twice) meets runs that are not. The limits (4 runs, 6 records, 2
runs to a chunk) are met, and exceeded in the first and in a later chunk; the
script inserts one run at a time (`BufferRuns`), so that it can die between two
buffers. A comparison has three runs of three versions, one or two of them there
from the start, so that either of the runs it will compare may come or go between
its reads. Only the two safety runs over symmetric model values use symmetry.
`CHECK_DEADLOCK FALSE` is set in `images.cfg`, where no request is left to come
when the ids of the instance are used up and all product updates are gone, and in
the two configurations of `Reports`, where a scenario ends with its report.

Fairness. `FairSpec` has weak fairness of `Serve(w)` for each worker: the event
loop resumes every coroutine whose call has answered, and drivers time out calls
that do not, which is a failure and thus a crash or fault. Nothing is assumed of
the arrival of requests, and the liveness properties except a crash or fault.
`Reports` and `RunPages` assume no fairness and state safety only.

## 4. Findings

1. `decide_access_request` lets a rejection overwrite an approval
   (`src/repositories/authorization.py:471`): the request ends up rejected and
   the grant stays active (`access_reject_race`).
2. An approved request stays in the index of open requests
   (`scripts/create_authorization_indexes.py:92`): when the role is gone, its
   user cannot ask again (`access_reapply`).
3. The index of active assignments names `scope.id`, not `scope_key`
   (`scripts/create_authorization_indexes.py:48`): one user cannot be editor in
   two resource scopes (`access_scope_collision`).
4. A vote withdrawn before it is counted leaves `vote_count` one too high
   (`src/repositories/suggestions.py:215`, run `votes_race`).
5. The cursor of a page of runs is made of the last row's `started_at`, which may
   be missing (`src/repositories/base.py:91`): the request fails
   (`pages_unstarted`). Behind a cursor such runs are silently left out.
6. A run whose cases are incomplete is told that no earlier measured execution
   exists in its context without any having been looked for
   (`src/services/unit_history.py:717`, run `reports_alone`).

## 5. Proofs

Proved for any users, tenants, workers, scopes, suggestions, images, runs, records
and bounds:

| Module | Theorem | States |
|---|---|---|
| `AccessControlProofs` | `JobsAlwaysSound` | `Spec => [](TypeOK /\ JobsSound)` |
| | `AuthorityHasAChain` | `Spec => []ChainOfTrust` |
| | `NobodyDealsWithThemselves` | `Spec => []NoSelfDealing` |
| | `NothingIsGrantedTwice` | `Spec => []NoDoubleGrant` |
| | `DocumentsNeverGoBack` | `Spec => DocumentsMoveForward` |
| | `ApprovalsAreGranted` | `Spec => []ApprovedIsGranted` |
| | `ServiceKeepsTheLedger` | `Spec => KeepsTheLedger` |
| | `DocumentsAreTyped` | `Spec => []TypeOK` |
| | `DecidedOnce` | `Spec /\ []DecisionsApart => ClosedRequestsStayClosed` |
| | `AdminsAloneWrite` | `Spec /\ []RevocationsApart => OnlyAdminsWrite` |
| | `TheLastGoesByTheClock` | `Spec /\ []RevocationsApart => LastAdministratorLapses` |
| | `OneScopeIsToldTruly` | `OneResourceScope => (Spec => GrantRefusalIsTrue)` |
| `AuditProofs` | `TrailIsTruthful` | `Spec => []AuditTruthful` |
| | `GapsAreExplained` | `Spec => []AuditGapsExplained` |
| `SuggestionsProofs` | `HistoriesAreChains` | `Spec => [](TypeOK /\ HistoryIsChain)` |
| | `CountersNeverFallShort` | `Spec => []NeverUndercounted` |
| | `CountsAreExact` | `Spec /\ []VotesApart => []CountIsVotes` |
| | `SuggestionsAreTyped` | `Spec => []TypeOK` |
| `ImageStoreProofs` | `DocumentsKeepTheirImages` | `Spec => []ImagesAreThere` |
| | `DownloadsBreakOffForAReason` | `Spec => []BreakOffsExplained` |
| | `OnlyFaultsLeak` | `Spec => []LeaksAreFaults` |
| | `StoreIsTyped` | `Spec => []TypeOK` |
| `RunPagesProofs` | `NothingIsShownTwice` | `Spec => []ShownOnce` |
| | `PagesAreInOrder` | `Spec => []NewestFirst` |
| | `ListingsAreComplete` | `Spec => []EveryRunShown` |
| | `PagesImplementListing` | `Spec => KeepsItsPromise` |
| | `PagesAreTyped` | `Spec => []TypeOK` |
| `ReportsProofs` | `TypeCorrect` | `Spec => []TypeOK` |
| | `AnswersAreWhole` | `Spec => []WholeOrRefused` |
| | `CompleteRunsAreRecorded` | `Spec => []CompleteMeansRecorded` |
| | `ComparedRunsAreLatest` | `Spec => []ComparisonIsLatest` |
| | `CardsDoAgree` | `Spec => []CardsAgree` |
| `HistoryProofs` | `SettledStays` | `Spec => []SettledHistoryStays` |
| | `PassesAgree` | `Spec => []AnnotationsAgree` |
| | `EvidenceDoesAddUp` | `Spec => []EvidenceAddsUp` |
| `ScopeAlgebraProofs` | `KeysTellScopesApart` | `KeysAreMeanings` |
| | `StoredScopeIsRead` | a stored scope is accepted and read as itself |
| | `PermissionsToldAreHeld` | `ToldIsAllowed(held)`, for any grantable assignments |

The only assumptions on constants are those the modules name
(`ConstantsAssumption`, `NormalAssumption`, `ScenariosAssumption`,
`NoneAssumption`, `BoundsAssumption`), which TLC evaluates in every run. Of the
documents of a scenario they say only that they are finitely many, that each has
finitely many records and that its rate is an integer; `NoneAssumption` says that
a missing value is not the label "(no branch recorded)".

*Authorization.* A write is made by a job whose checks are
some calls old, so no property is inductive by itself. `JobsSound` says what a
job in flight still guarantees: its actor has been made an administrator of the
target's tenant, it acts on someone else, and the document it is about to write
is that of its target. `TypeOK /\ JobsSound` is inductive. Its proof rests on
`StepGrows`: no step removes a document or changes whom it concerns, so whoever
was made an administrator stays one who was. With it, `StepWrites` says who may
sign a new grant, revocation or decision, and `StepMoves` how the status of a
document may move; each goes through the actions once, and the theorems follow
from them. The index makes `NoDoubleGrant` true: `KeyFree` is checked in the
step of the insert, and no step activates an old document.

*Ledger.* Each write has to be shown to be an act on the ledger that its state
allows then, with what the request knows from earlier calls, which is `JobsSound`
again; `ScriptsGiveAdmin` adds that the bootstrap script inserts nothing but admin
roles. A sweep is the expiry of some lapsed roles (`SweptExpire`), what the index
lets in is no twin (`KeyFreeIsGiven`), and the transaction of an approval is one
act, its sweep, grant and decision (`LedgerStep`).

*Overlaps.* Three properties need a check to be still true at the write. The
theorems name what must not overlap for that: `DecisionsApart`, no approval and
rejection of one request are both about to write, and `RevocationsApart`, no
revocation of an admin role is about to be written while a grant, revocation or
decision of its holder is in flight. Everything else may interleave, with any
number of workers. `InTurnIsApart` says that both hold for requests served one
at a time, so the theorems cover `access_serial`; `access_reject_race` is the
first hypothesis failing. `RejectsOpen` is inductive for the first: a rejection in
flight is of a pending request, unless an approval beside it closed it. For the
other two it is `JobsCurrent`: a request that will write is of someone whose admin
role was not revoked, since with revocations apart nobody revokes it meanwhile
(`NotRevokedStays`); admin roles may be of any length, for what lapses is not
revoked. That such a request began with a live role is `WritersAreChecked`. A
live role is lost by lapsing or to a revocation (`LiveStays`), and whoever revokes
it is someone else, who still has their own afterwards (`RevokersRemain`): so a
revocation that leaves nobody is by one who has lapsed in flight. That a refused
grant is told of a twin that is none
(finding 3) is no matter of overlaps: with one resource scope the message is true
however requests interleave (`OneScopeIsToldTruly`).

*Audit trail.* A trail is truthful because of what workers carry. `AuditSound`
is inductive with `TypeOK /\ JobsSound`: a job ends with the event of its
endpoint (`JobsNamed`); an event about to be inserted is called for by its
document and missing (`ReportsMissing`), by one worker only (`ReportsDiffer`);
and an event that its document does not call for is an approval that was
overwritten (`TrailTrue`). Documents call for events for ever (`CalledForever`),
except for that approval. `StepTrail` sorts all actions into five cases, by what
they do to documents, trail and workers: nothing, a write that leaves its event
to be recorded, the transaction that records its own, a recording, a death. A
gap is then carried by a worker or lost in a crash, and `GapStep` compares the
cardinalities before and after.

*Suggestions.* A change of status filters on the status it has read, so the new
entry connects to the old chain. `Purposeful` adds what the route checked
before: the status asked for differs from the one read. For the counter,
`Drift` is how far it, with what is being counted, is above the votes, with what
is being discounted. `DriftStep` goes through the actions once: storing a vote
adds a vote and a worker that will count it, counting turns the worker into a
count; only a death moves the drift, and a discount that meets a counter at
zero. The proof compares cardinalities of sets of workers and votes before and
after, which is why the assumption asks for finitely many voters and workers.
`CountersNeverFallShort` follows at once. The other direction is false (finding
4), and `CountsAreExact` says by what alone: under `VotesApart`, no vote that is
being counted is about to be withdrawn, each worker that counts has a vote of its
own that is stored (`CountsOwnVotes`), so there are at least as many votes as
workers counting, and a discount finds the counter above zero.

*Image store.* That a clean-up deletes no image of a live document rests on
ownership of objects, which spans both stores. `StoreInv`: every name in use has
been drawn (`AllDrawn`), a request that is creating a document shares its objects
with nobody (`Private`) and has them stored (`Built`), documents share none
(`Separate`), a clean-up holds images of no document except one whose insert
raised after it was done (`CleanUpsAreSafe`), and a download is of an image that
its document has or had (`ReadsAreOfDocuments`). For the leaks, `StepLeaks` bounds action by action what
may come to belong to nobody: nothing without a fault, and with one at most what
one request holds, which `Small` bounds by `MaxFiles`.

*Pagination.* `ReadInv`: the cursor is the last row shown (`Positioned`), every
row shown is still there at the same place of the order (`Kept`, true because a
start time is only ever set once and rows without one never precede a cursor),
and every stable run that is not behind the cursor was shown (`Covered`). A page
is closed upwards in the order (`PageIsUpper`, by comparing ranks), so moving the
cursor to its last row skips nothing, and a page that is not full is all that is
left (`LastPageIsAll`). With these every step of `RunPages` is a step of
`Listing` or changes nothing there (`StepMaps`).

*Reports.* `ReportInv` adds to the types that nothing is read before the runs are
(`Fresh`) and that, unless the request is refused, the records read are those
that were due, none is of a run still to be read, and an insights request has no
more than the limit (`Whole`). The last two make the step inductive: the
allowance for the next chunk is then at least one, never the zero that MongoDB
takes for no limit, and a chunk cut short leaves one record more than the limit,
so the request is refused. A run passes for complete when as many records were
read as its summary counts; the records read are among its own, and a subset
of a finite set with as many members is that set (`CompleteRun`).

*Comparison.* The four reads of a comparison are no snapshot, so what each
found has to be remembered. `AsAsked` is inductive with `ReportInv`: the two
versions chosen are different and were there (`Chosen`), each run looked up so
far is one of its version, the newest of it while nothing has been written, and
never older than one of its version that was there from the start (`LookedUp`);
and the versions are those of runs no older than any that was there from the
start (`Weighed`), which is what remains of the choice once its runs may be gone.
`QuietStays` carries "nothing was written" to the end, and
`LatestVersionIsLast` shows that the version of the newest run is the newest.

*Insights.* `CardsAgree` compares cards that passes of their own make of one
view, whatever runs and records it is a view of, so it is no induction over steps:
`ViewFacts` says what the state guarantees of a view (finitely many runs,
with rates that are integers) and the rest is about the operators of
`Insights`. `RegressionsAreBelow`, `NoGapCard`, `BrokenIsNoBottleneck` and
`FixedFailsOnBaseline` each compare two kinds of card. The hard one is
`RegressionShows`: if the rate of a skill fell on a branch, and both of the runs
compared were read in full, as passed or failed (`Plain`), and have the same
tests, then some test is broken there or flaky in the matrix. A rate that fell
over the same tests is a smaller set of passes (`ImageCount`, `LowerIsFewer`),
so some test passed before and fails now (`LowerRateHasATest`), and these two are the last records of
the cells that the matrix compares (`LastRecord`, `SeenOnce`). Where runs of several contexts may differ
the property asks for `OneContext`, as the code does not keep them apart
there.

*History.* `SettledStays` needs that each annotation is local: for two histories
that are alike up to the place p (`Alike`), the run before, the context before,
the references, the observed references and the line of progress at p are the
same (`BeforeLocal` to `AnnotationsLocal`), since every one is the latest or the
earliest of a set of places up to p. With `CompleteRun`, a run whose records
were all read is the run that the full record would give, and `InOrderMember`
says that the p-th run found is one of those found.

For the other two properties, `HistoryFacts` collects what all runs of one report
share: a branch key is a branch name and a context (`Keyed`), a run that passes
for complete or measured has the verdicts, cohort and rate of the records read
(`Evidence`), and a run is configured if one like it is (`Configured`). `PassesAgree` first says what each pass finds in terms of
places (`BeforeIs`, `ReferencesAre`, `ObservedAre`, `ProgressionIs`,
`ContextBeforeIs`) and then compares these at one place (`AgreeAt`).
`EvidenceDoesAddUp` has a lemma for each pair of tables: issues and the runs
that show them (`IssuesAgree`), gaps (`GapsShow`), a cohort and its one setting
(`CohortsHaveOneGroup`, `CohortIsConfigured`), cells (`CellCounts`), commits
(`CommitIsShared`), branches (`BranchAddsUp`), and a direction and the rates it
was made of (`DirectionIsEarned`), by counting places (`PlacesCount`).

*Types.* The types of workers, documents and cursors are part of the inductive
invariants above; for suggestions they include that no counter falls below zero,
which is the guard of the decrement.

*Scopes.* Equal keys are equal scopes, so the point of `KeysTellScopesApart` is
that different scopes differ somewhere. `AllowedWith` builds, for a value of a
constraint, a resource that has it and is allowed; a scope that allows no more than
another therefore has all names of the other and no value besides
(`NarrowerScope`), and two scopes that allow the same are the same. Without the
rule that no constraint is empty this would be false.

Every invariant, action property and refinement of the passing runs is a theorem,
three of them under the hypotheses named above. Only model-checked are the two
liveness properties, `EveryChangeIsAudited` and `UploadsSettle`: liveness under
fairness is out of the prover's reach and stays with TLC.

## 6. Not modelled, and the plan

In order of importance:

1. Product updates replaced by PATCH: one call that sets text fields; a release
   date that matches the pattern but is no date makes later answers fail.
2. Of the results: trends and mean scores, one aggregation each. The versions to
   choose from are limited to 20 in the code; the models have fewer.
3. Of the history: the list of scopes and the tokens they travel in, which are
   encodings of the exact values `InScope` compares. Of insights: how many cards
   of a kind are shown and in which order.

Left out for good: authentication (PyJWT does it), decoding of images,
formatting and text limits, health checks, middleware, k6 load tests and
deployment.
