---------------------------- MODULE AccessControl ----------------------------
(***************************************************************************)
(* Who may administer EvalHub: role assignments, access requests and their *)
(* audit trail (src/services/authorization.py over                         *)
(* src/repositories/authorization.py and MongoDB).                         *)
(*                                                                         *)
(* A worker is one HTTP request (or one run of the bootstrap script) being *)
(* served.  Every MongoDB call is one atomic step and every await between  *)
(* two calls is a point where other workers run, so a worker carries the   *)
(* outcome of its earlier reads in its job.  Only the multi-document       *)
(* transaction of an approval is a single step.                            *)
(*                                                                         *)
(* Reductions, each of which loses no behaviour:                           *)
(*  - recording a login and reading a user's assignments are one step:     *)
(*    principals only grow, and SignIn takes the first half alone;         *)
(*  - a request refused by its permission check has recorded the login and *)
(*    nothing else, which is SignIn;                                       *)
(*  - reads of immutable data (owner and tenant of a document, a principal *)
(*    once known) happen in the step that uses them.                       *)
(***************************************************************************)
EXTENDS ScopeAlgebra, FiniteSets

CONSTANTS
    Users,              \* (tenant, principal) pairs that can sign in
    TenantOf,           \* the tenant of each user
    Workers,            \* requests in flight at the same time
    ResourceScopes,     \* keys of the resource scopes that are granted (ScopeAlgebra.Key)
    Payloads,           \* what the body of POST /admin/access/assignments may ask for
    FirstAdmins,        \* bootstrapped before the service starts, in this order
    Bootstrapper,       \* the actor recorded by bootstrap_platform_admin.py
    Nobody,             \* revoked_by, decided_by of a document still open
    MaxAssignments,     \* bound: assignment documents ever inserted
    MaxRequests,        \* bound: access request documents ever inserted
    MaxCrashes          \* bound: requests that die between two steps

Scopes == {"global"} \cup ResourceScopes
Actors == Users \cup {Bootstrapper}

\* AssignmentCreate: expires_at is optional, an admin is always global.
Payload == [role : Roles, scope : Scopes, temporary : BOOLEAN]
WellFormed(p) == p.role = "admin" => p.scope = "global"

ASSUME ConstantsAssumption ==
    /\ Bootstrapper \notin Users
    /\ Nobody \notin Actors
    /\ "global" \notin ResourceScopes
    /\ FirstAdmins \in Seq(Users)
    /\ \A i, j \in DOMAIN FirstAdmins : FirstAdmins[i] = FirstAdmins[j] => i = j
    /\ Payloads \subseteq {p \in Payload : WellFormed(p)}
    /\ MaxAssignments \in Nat /\ MaxRequests \in Nat /\ MaxCrashes \in Nat

VARIABLES
    principals,         \* users that have signed in or were bootstrapped
    assignments,        \* authorization_assignments, in insertion order
    requests,           \* authorization_access_requests, in insertion order
    audit,              \* authorization_audit_events
    work,               \* what each worker is doing
    crashes             \* requests that died half way

vars == <<principals, assignments, requests, audit, work, crashes>>

-----------------------------------------------------------------------------
(* Documents *)

\* expires_at against the clock: none, still ahead, or reached.
Expiries == {"never", "future", "past"}

Assignment ==
    [user : Users, role : Roles, scope : Scopes, expiry : Expiries,
     status : {"active", "expired", "revoked"},
     granted_by : Actors, revoked_by : Users \cup {Nobody}]

AccessRequest ==
    [user : Users, role : Roles,
     status : {"pending", "approved", "rejected", "cancelled"},
     decided_by : Users \cup {Nobody}]

AssignmentEvents == {"granted", "bootstrapped", "revoked"}
RequestEvents == {"created", "cancelled", "approved", "rejected"}
AuditEvent ==
    [event : AssignmentEvents \cup RequestEvents, id : Nat, actor : Actors]

(***************************************************************************)
(* A job: the next step, the audit event it ends with, who acts on whom,   *)
(* what is granted or asked for, and the document concerned (0: none yet). *)
(***************************************************************************)
Job ==
    [step : {"idle", "sweep", "insert", "revoke", "open", "review", "approve",
             "reject", "audit"},
     event : AssignmentEvents \cup RequestEvents,
     actor : Actors, target : Actors, payload : Payload, id : Nat]

WildcardGrant(role) == [role |-> role, scope |-> "*", temporary |-> FALSE] \* mutant
GlobalGrant(role) == [role |-> role, scope |-> "global", temporary |-> FALSE]

NoJob ==
    [step |-> "idle", event |-> "granted", actor |-> Bootstrapper,
     target |-> Bootstrapper, payload |-> GlobalGrant("editor"), id |-> 0]

-----------------------------------------------------------------------------
(* Authority *)

\* list_assignments(active_only=True): the status alone does not decide.
Live(a) == a.status = "active" /\ a.expiry # "past"

HeldRoles(u) ==
    {assignments[i].role : i \in {k \in DOMAIN assignments :
                                    assignments[k].user = u /\ Live(assignments[k])}}

\* Mutant: any role will do.
HoldsARole(u) == HeldRoles(u) # {}

\* Mutant: the status alone decides, a lapsed administrator still administers.
AdminByStatus(u) ==
    \E i \in DOMAIN assignments :
        /\ assignments[i].user = u /\ assignments[i].role = "admin"
        /\ assignments[i].status = "active"

\* require_permission counts global assignments only.
MayManageAccess(u) ==
    \E i \in DOMAIN assignments :
        /\ assignments[i].user = u /\ Live(assignments[i])
        /\ assignments[i].scope = "global"
        /\ "access.manage" \in RolePermissions[assignments[i].role]

(* The checks of create, revoke and decide: no other tenant, not oneself. *)
SameTenant(u, t) == TenantOf[t] = TenantOf[u]
MayActOn(u, t) == SameTenant(u, t) /\ t # u

(***************************************************************************)
(* The unique index over active assignments: (tenant, principal, role,     *)
(* scope.type, scope.id).  Only the bootstrap script stores a scope.id.    *)
(***************************************************************************)
IndexKey(a) ==
    <<a.user, a.role, a.scope = "global", a.granted_by = Bootstrapper>>

NoLiveTwin(docs, a) == \* mutant: the index ignores what has lapsed
    \A i \in DOMAIN docs : Live(docs[i]) => IndexKey(docs[i]) # IndexKey(a)
KeyFree(docs, a) ==
    \A i \in DOMAIN docs : docs[i].status = "active" => IndexKey(docs[i]) # IndexKey(a)

\* The unique index over open access requests.
OpenRequest(u, role) ==
    \E k \in DOMAIN requests :
        /\ requests[k].user = u /\ requests[k].role = role
        /\ requests[k].status \in {"pending", "approved"}

-----------------------------------------------------------------------------
NewAssignment(job, expiry) ==
    [user |-> job.target, role |-> job.payload.role, scope |-> job.payload.scope,
     expiry |-> expiry, status |-> "active",
     granted_by |-> job.actor, revoked_by |-> Nobody]

BootstrapJob(u) ==
    [NoJob EXCEPT !.step = "insert", !.event = "bootstrapped",
                  !.target = u, !.payload = GlobalGrant("admin")]

Record(event, id, actor) == [event |-> event, id |-> id, actor |-> actor]

(* The service starts on the database the bootstrap script has left, *)
(* possibly with no administrator at all.                             *)
Init ==
    /\ principals = {FirstAdmins[i] : i \in DOMAIN FirstAdmins}
    /\ assignments = [i \in DOMAIN FirstAdmins |->
                        NewAssignment(BootstrapJob(FirstAdmins[i]), "never")]
    /\ requests = <<>>
    /\ audit = {Record("bootstrapped", i, Bootstrapper) : i \in DOMAIN FirstAdmins}
    /\ work = [w \in Workers |-> NoJob]
    /\ crashes = 0

Login(u) == principals' = principals \cup {u}
Start(w, job) == work[w] = NoJob /\ work' = [work EXCEPT ![w] = job]
Continue(w, step) == work' = [work EXCEPT ![w].step = step]
Finish(w) == work' = [work EXCEPT ![w] = NoJob]

(* GET /auth/me, and every request refused by its permission check. *)
SignIn(u) ==
    /\ Login(u)
    /\ UNCHANGED <<assignments, requests, audit, work, crashes>>

(* Time passes the expires_at of an assignment; nothing is written.  The *)
(* expiry of a revoked or expired assignment is never looked at again.   *)
Lapse(i) ==
    /\ assignments[i].expiry = "future" /\ assignments[i].status = "active"
    /\ assignments' = [assignments EXCEPT ![i].expiry = "past"]
    /\ UNCHANGED <<principals, requests, audit, work, crashes>>

(* POST /admin/access/assignments, up to the permission, tenant and self checks. *)
BeginGrant(w, u, t, p) ==
    /\ MayManageAccess(u)
    /\ MayActOn(u, t)
    /\ Login(u)
    /\ Start(w, [NoJob EXCEPT !.step = "sweep", !.actor = u, !.target = t, !.payload = p])
    /\ UNCHANGED <<assignments, requests, audit, crashes>>

(* bootstrap_platform_admin.py: no permission check and no sweep. *)
BeginBootstrap(w, u) ==
    /\ Login(u)
    /\ Start(w, BootstrapJob(u))
    /\ UNCHANGED <<assignments, requests, audit, crashes>>

(* The assignments after update_many has expired the lapsed ones of this scope_key. *)
Swept(job) ==
    [i \in DOMAIN assignments |->
        LET a == assignments[i] IN
        IF /\ a.user = job.target /\ a.role = job.payload.role
           /\ a.scope = job.payload.scope /\ a.granted_by # Bootstrapper
           /\ a.status = "active" /\ a.expiry = "past"
        THEN [a EXCEPT !.status = "expired"]
        ELSE a]

SweepExpired(w) ==
    /\ work[w].step = "sweep"
    /\ work[w].target \in principals
    /\ assignments' = Swept(work[w])
    /\ Continue(w, "insert")
    /\ UNCHANGED <<principals, requests, audit, crashes>>

\* A temporary grant may already have lapsed when it is finally inserted.
InsertAssignment(w) ==
    /\ work[w].step = "insert"
    /\ Len(assignments) < MaxAssignments
    /\ \E expiry \in IF work[w].payload.temporary THEN {"future", "past"} ELSE {"never"} :
          LET doc == NewAssignment(work[w], expiry) IN
          /\ KeyFree(assignments, doc)
          /\ assignments' = Append(assignments, doc)
    /\ work' = [work EXCEPT ![w].step = "audit", ![w].id = Len(assignments) + 1]
    /\ UNCHANGED <<principals, requests, audit, crashes>>

(* POST /admin/access/assignments/{id}/revoke *)
BeginRevoke(w, u, i) ==
    /\ MayManageAccess(u)
    /\ MayActOn(u, assignments[i].user)
    /\ Login(u)
    /\ Start(w, [NoJob EXCEPT !.step = "revoke", !.event = "revoked", !.actor = u,
                              !.target = assignments[i].user, !.id = i])
    /\ UNCHANGED <<assignments, requests, audit, crashes>>

RevokeAssignment(w) ==
    /\ work[w].step = "revoke"
    /\ assignments[work[w].id].status = "active"
    /\ assignments' = [assignments EXCEPT ![work[w].id].status = "revoked",
                                          ![work[w].id].revoked_by = work[w].actor]
    /\ Continue(w, "audit")
    /\ UNCHANGED <<principals, requests, audit, crashes>>

(* POST /access-requests: roles held in any scope count, and admin covers all. *)
BeginRequest(w, u, role) ==
    /\ role \notin HeldRoles(u) /\ "admin" \notin HeldRoles(u)
    /\ Login(u)
    /\ Start(w, [NoJob EXCEPT !.step = "open", !.event = "created", !.actor = u,
                              !.target = u, !.payload = GlobalGrant(role)])
    /\ UNCHANGED <<assignments, requests, audit, crashes>>

CreateRequest(w) ==
    /\ work[w].step = "open"
    /\ Len(requests) < MaxRequests
    /\ ~OpenRequest(work[w].actor, work[w].payload.role)
    /\ requests' = Append(requests,
            [user |-> work[w].actor, role |-> work[w].payload.role,
             status |-> "pending", decided_by |-> Nobody])
    /\ work' = [work EXCEPT ![w].step = "audit", ![w].id = Len(requests) + 1]
    /\ UNCHANGED <<principals, assignments, audit, crashes>>

(* POST /access-requests/{id}/cancel: one write, without recording a login. *)
CancelRequest(w, u, k) ==
    /\ requests[k].user = u /\ requests[k].status = "pending"
    /\ requests' = [requests EXCEPT ![k].status = "cancelled"]
    /\ Start(w, [NoJob EXCEPT !.step = "audit", !.event = "cancelled", !.actor = u,
                              !.target = u, !.id = k])
    /\ UNCHANGED <<principals, assignments, audit, crashes>>

(* POST /admin/access/requests/{id}/decision; event is the decision. *)
BeginDecision(w, u, k, event) ==
    /\ MayManageAccess(u)
    /\ Login(u)
    /\ Start(w, [NoJob EXCEPT !.step = "review", !.event = event, !.actor = u, !.id = k])
    /\ UNCHANGED <<assignments, requests, audit, crashes>>

\* The request is read and checked here, and written in a later step.
ByAnother(job) == MayActOn(job.actor, requests[job.id].user)
Reviewable(job) == ByAnother(job) /\ requests[job.id].status = "pending"

ReviewRequest(w) ==
    /\ work[w].step = "review" /\ Reviewable(work[w])
    /\ LET r == requests[work[w].id] IN
       work' = [work EXCEPT
                  ![w].step = IF work[w].event = "approved" THEN "approve" ELSE "reject",
                  ![w].target = r.user, ![w].payload = GlobalGrant(r.role)]
    /\ UNCHANGED <<principals, assignments, requests, audit, crashes>>

\* The four writes of approve_access_request's transaction, all of them or none.
Approvable(job) ==
    /\ job.target \in principals
    /\ KeyFree(Swept(job), NewAssignment(job, "never"))
    /\ requests[job.id].status = "pending"

Granted(job) == Append(Swept(job), NewAssignment(job, "never"))

ApproveRequest(w) ==
    /\ work[w].step = "approve" /\ Approvable(work[w])
    /\ Len(assignments) < MaxAssignments
    /\ assignments' = Granted(work[w])
    /\ requests' = [requests EXCEPT ![work[w].id].status = "approved",
                                    ![work[w].id].decided_by = work[w].actor]
    /\ audit' = audit \cup {Record("granted", Len(assignments) + 1, work[w].actor),
                            Record("approved", work[w].id, work[w].actor)}
    /\ Finish(w)
    /\ UNCHANGED <<principals, crashes>>

\* decide_access_request accepts an approved request for rejection.
Rejectable(job) == requests[job.id].status \in {"pending", "approved"}

RejectRequest(w) ==
    /\ work[w].step = "reject" /\ Rejectable(work[w])
    /\ requests' = [requests EXCEPT ![work[w].id].status = "rejected",
                                    ![work[w].id].decided_by = work[w].actor]
    /\ Continue(w, "audit")
    /\ UNCHANGED <<principals, assignments, audit, crashes>>

ForgetAudit(w) == \* mutant: a failed audit insert is swallowed
    /\ work[w].step = "audit" /\ Finish(w)
    /\ UNCHANGED <<principals, assignments, requests, audit, crashes>>

(* The insert into authorization_audit_events that follows a write. *)
RecordAudit(w) ==
    /\ work[w].step = "audit"
    /\ audit' = audit \cup {Record(work[w].event, work[w].id, work[w].actor)}
    /\ Finish(w)
    /\ UNCHANGED <<principals, assignments, requests, crashes>>

(* The request ends in a 404 or 409: its write found the data changed or taken. *)
UnknownTarget(job) == job.step = "sweep" /\ job.target \notin principals
DuplicateGrant(job) ==
    job.step = "insert" /\ ~KeyFree(assignments, NewAssignment(job, "never"))
NotActive(job) == job.step = "revoke" /\ assignments[job.id].status # "active"
DuplicateRequest(job) == job.step = "open" /\ OpenRequest(job.actor, job.payload.role)
NotPending(job) ==
    \/ job.step = "review" /\ ~Reviewable(job)
    \/ job.step = "approve" /\ ~Approvable(job)
    \/ job.step = "reject" /\ ~Rejectable(job)

Refuse(w) ==
    /\ \/ UnknownTarget(work[w]) \/ DuplicateGrant(work[w]) \/ NotActive(work[w])
       \/ DuplicateRequest(work[w]) \/ NotPending(work[w])
    /\ Finish(w)
    /\ UNCHANGED <<principals, assignments, requests, audit, crashes>>

(* The process dies or MongoDB fails between two calls: what is written stays. *)
Crash(w) ==
    /\ work[w] # NoJob /\ crashes < MaxCrashes
    /\ crashes' = crashes + 1
    /\ Finish(w)
    /\ UNCHANGED <<principals, assignments, requests, audit>>

Begin(w) ==
    \/ \E u \in Users : BeginBootstrap(w, u)
    \/ \E u, t \in Users, p \in Payloads : BeginGrant(w, u, t, p)
    \/ \E u \in Users, i \in DOMAIN assignments : BeginRevoke(w, u, i)
    \/ \E u \in Users, role \in Roles : BeginRequest(w, u, role)
    \/ \E u \in Users, k \in DOMAIN requests : CancelRequest(w, u, k)
    \/ \E u \in Users, k \in DOMAIN requests, event \in {"approved", "rejected"} :
          BeginDecision(w, u, k, event)

Serve(w) ==
    \/ SweepExpired(w)   \/ InsertAssignment(w) \/ RevokeAssignment(w)
    \/ CreateRequest(w)  \/ ReviewRequest(w)    \/ ApproveRequest(w)
    \/ RejectRequest(w)  \/ RecordAudit(w)      \/ Refuse(w)

Next ==
    \/ \E u \in Users : SignIn(u)
    \/ \E i \in DOMAIN assignments : Lapse(i)
    \/ \E w \in Workers : Begin(w) \/ Serve(w) \/ Crash(w)

Spec == Init /\ [][Next]_vars

\* The event loop resumes every coroutine whose MongoDB call has answered.
FairSpec == Spec /\ \A w \in Workers : WF_vars(Serve(w))

-----------------------------------------------------------------------------
(* Properties *)

(* Every variable keeps the shape the collections and handlers give it. *)
TypeOK ==
    /\ principals \subseteq Users
    /\ assignments \in Seq(Assignment)
    /\ requests \in Seq(AccessRequest)
    /\ audit \subseteq AuditEvent
    /\ work \in [Workers -> Job]
    /\ crashes \in Nat

\* u was given the admin role, in t's tenant, by one of the first n assignments.
WasAdmin(u, t, n) ==
    /\ TenantOf[u] = TenantOf[t]
    /\ \E j \in 1..n : assignments[j].user = u /\ assignments[j].role = "admin"

(***************************************************************************)
(* Authority over a tenant comes from that tenant's administrators alone:  *)
(* whoever granted, revoked or decided anything was made an administrator  *)
(* earlier, so every chain of grants starts at the bootstrap script.  The  *)
(* check (services/authorization.py require_permission) and the write are  *)
(* in different steps, other requests run in between.                      *)
(***************************************************************************)
GrantsAreTrusted ==
    \A i \in DOMAIN assignments :
        LET a == assignments[i] IN
        /\ a.granted_by # Bootstrapper => WasAdmin(a.granted_by, a.user, i - 1)
        /\ a.revoked_by # Nobody => WasAdmin(a.revoked_by, a.user, Len(assignments))

DecisionsAreTrusted ==
    \A k \in DOMAIN requests :
        requests[k].decided_by # Nobody =>
            WasAdmin(requests[k].decided_by, requests[k].user, Len(assignments))

ChainOfTrust == GrantsAreTrusted /\ DecisionsAreTrusted

(* Nobody grants to, revokes from or decides for themselves, along any of  *)
(* the four paths that write an assignment or a decision.                  *)
NoSelfDealing ==
    /\ \A i \in DOMAIN assignments :
          assignments[i].user \notin {assignments[i].granted_by, assignments[i].revoked_by}
    /\ \A k \in DOMAIN requests : requests[k].user # requests[k].decided_by

(* Two requests for the same grant, or two sweeps before two inserts, never leave *)
(* two active assignments of one role and scope granted through the API.          *)
NoDoubleGrant ==
    \A i, j \in DOMAIN assignments :
        /\ assignments[i].status = "active" /\ assignments[j].status = "active"
        /\ Bootstrapper \notin {assignments[i].granted_by, assignments[j].granted_by}
        /\ assignments[i].user = assignments[j].user
        /\ assignments[i].role = assignments[j].role
        /\ assignments[i].scope = assignments[j].scope
        => i = j

(* "Grant the role and close the request in one MongoDB transaction": a request *)
(* is approved only together with its grant by the same administrator, and both *)
(* are in the audit trail, whatever becomes of them later.                      *)
ApprovedIsGranted ==
    \A k \in DOMAIN requests : requests[k].status = "approved" =>
        \E i \in DOMAIN assignments :
            /\ assignments[i].user = requests[k].user
            /\ assignments[i].role = requests[k].role
            /\ assignments[i].scope = "global" /\ assignments[i].expiry = "never"
            /\ assignments[i].granted_by = requests[k].decided_by
            /\ {Record("granted", i, requests[k].decided_by),
                Record("approved", k, requests[k].decided_by)} \subseteq audit

(* What a request in flight was checked for stays true of it: its actor was made *)
(* an administrator of the tenant and acts on someone else, the document it is    *)
(* about to write exists and belongs to the user it was checked for, and an       *)
(* approval grants what was asked for.                                            *)
JobSound(j) ==
    /\ j.step \in {"sweep", "insert", "revoke", "approve", "reject"} =>
          /\ j.target \in Users /\ j.target # j.actor
          /\ j.actor # Bootstrapper => WasAdmin(j.actor, j.target, Len(assignments))
    /\ j.step \in {"sweep", "open", "revoke", "review", "approve", "reject"} =>
          j.actor \in Users
    /\ j.step = "revoke" =>
          j.id \in DOMAIN assignments /\ assignments[j.id].user = j.target
    /\ j.step = "review" =>
          j.id \in DOMAIN requests /\ WasAdmin(j.actor, j.actor, Len(assignments))
    /\ j.step \in {"approve", "reject"} =>
          /\ j.id \in DOMAIN requests /\ requests[j.id].user = j.target
          /\ j.payload = GlobalGrant(requests[j.id].role)

JobsSound == \A w \in Workers : JobSound(work[w])

\* The audit events that the stored documents call for.
Warranted ==
    {Record(IF assignments[i].granted_by = Bootstrapper THEN "bootstrapped" ELSE "granted",
            i, assignments[i].granted_by) : i \in DOMAIN assignments}
    \cup {Record("revoked", i, assignments[i].revoked_by) :
            i \in {n \in DOMAIN assignments : assignments[n].status = "revoked"}}
    \cup {Record("created", k, requests[k].user) : k \in DOMAIN requests}
    \cup {Record("cancelled", k, requests[k].user) :
            k \in {n \in DOMAIN requests : requests[n].status = "cancelled"}}
    \cup {Record(requests[k].status, k, requests[k].decided_by) :
            k \in {n \in DOMAIN requests : requests[n].status \in {"approved", "rejected"}}}

AuditGap == Warranted \ audit

(* The trail never claims what did not happen; an approval that a late rejection *)
(* overwrote is the only event its document no longer shows.                     *)
AuditTruthful ==
    \A e \in audit \ Warranted :
        e.event = "approved" /\ requests[e.id].status = "rejected"

(* Writes and their audit events are separate calls: a change is missing from   *)
(* the trail only while its own request is in flight, or for a request that died. *)
AuditGapsExplained ==
    Cardinality(AuditGap) <= Cardinality({w \in Workers : work[w].step = "audit"}) + crashes

(* Documents only move forward: a revoked or expired assignment stays so, only a *)
(* lapsed one expires, a cancelled or rejected request is final, an approved one *)
(* is at most rejected, and who got what from whom never changes.                *)
DocumentsMoveForward ==
    [][/\ \A i \in DOMAIN assignments :
            LET a == assignments[i]
                b == assignments'[i]
            IN  /\ <<a.user, a.role, a.scope, a.granted_by>> =
                   <<b.user, b.role, b.scope, b.granted_by>>
                /\ a.status # "active" =>
                      b.status = a.status /\ b.revoked_by = a.revoked_by
                /\ b.status = "expired" => b.expiry = "past"
       /\ \A k \in DOMAIN requests :
            LET r == requests[k]
                s == requests'[k]
            IN  /\ s.user = r.user /\ s.role = r.role
                /\ r.status \in {"cancelled", "rejected"} => s = r
                /\ r.status = "approved" => s.status \in {"approved", "rejected"}]_<<assignments, requests>>

(* Behind the awaits, the sweeps and the crashes, every write of every request  *)
(* is one act on the ledger that AccessLedger promises, by someone entitled to  *)
(* it, and nothing else ever changes an assignment or a request.                *)
Ledger == INSTANCE AccessLedger WITH roles <- assignments, petitions <- requests

KeepsTheLedger == Ledger!Spec

-----------------------------------------------------------------------------
(* Properties of requests served one at a time.  They hold of all requests *)
(* but those that overlap in the two ways AccessControlProofs names.       *)

(* A decided or cancelled request is not decided again: "access request is no *)
(* longer pending" (services/authorization.py decide_access_request).         *)
ClosedRequestsStayClosed ==
    [][\A k \in DOMAIN requests :
          requests[k].status # "pending" => requests'[k] = requests[k]]_requests

AdminRoles(u) ==
    {i \in DOMAIN assignments : assignments[i].user = u /\ assignments[i].role = "admin"}

IsAdministrator(u) == \E i \in AdminRoles(u) : Live(assignments[i])

\* What u may have lost, u has lost to the clock.
NotRevoked(u) == \E i \in AdminRoles(u) : assignments[i].status # "revoked"

SomeAdministrator == \E u \in Users : IsAdministrator(u)

(***************************************************************************)
(* The service can run out of administrators: the expires_at of a grant    *)
(* may be of an admin role, and a temporary administrator may revoke the   *)
(* lasting one.  But the last one goes by the clock: no revocation leaves  *)
(* nobody, unless the one who makes it lapses between the permission check *)
(* and the write.  create_assignment, revoke_assignment and                *)
(* decide_access_request (services/authorization.py) refuse to act on      *)
(* oneself, which is all that stands against it.                           *)
(***************************************************************************)
LastAdministratorLapses ==
    [][SomeAdministrator /\ ~SomeAdministrator' =>
          \/ \E i \in DOMAIN assignments : Lapse(i)
          \/ \E w \in Workers : /\ RevokeAssignment(w)
                               /\ ~IsAdministrator(work[w].actor)
                               /\ NotRevoked(work[w].actor)]_vars

(* "Only a user with access.manage can create or revoke assignments" or decide: *)
(* who begins to is an administrator with a live role, and the role is not      *)
(* revoked by the time of the write, though it may lapse until then.            *)
OnlyAdminsWrite ==
    [][\A w \in Workers :
          /\ work[w] = NoJob /\ work'[w].step \in {"sweep", "revoke", "review"} =>
                IsAdministrator(work'[w].actor)
          /\ /\ work[w].step \in {"insert", "revoke", "approve", "reject"}
             /\ work[w].actor # Bootstrapper
             /\ work'[w] # work[w]
             /\ <<assignments, requests>>' # <<assignments, requests>>
             => NotRevoked(work[w].actor)]_vars

InTrail(events, id) == \E e \in audit : e.event \in events /\ e.id = id

(* Unless a request dies, every change reaches the audit trail: the insert of the *)
(* audit event (services/authorization.py) comes after the write it reports.      *)
EveryChangeIsAudited ==
    /\ \A i \in 1..MaxAssignments :
        /\ i \in DOMAIN assignments ~> InTrail({"granted", "bootstrapped"}, i) \/ crashes > 0
        /\ (i \in DOMAIN assignments /\ assignments[i].status = "revoked")
                ~> InTrail({"revoked"}, i) \/ crashes > 0
    /\ \A k \in 1..MaxRequests :
        /\ k \in DOMAIN requests ~> InTrail({"created"}, k) \/ crashes > 0
        /\ (k \in DOMAIN requests /\ requests[k].status # "pending")
                ~> InTrail({"cancelled", "approved", "rejected"}, k) \/ crashes > 0

-----------------------------------------------------------------------------
(* What the error messages of refused requests say *)

(* "an open request for this EvalHub role already exists" *)
RequestRefusalIsTrue ==
    [][\A w \in Workers :
          Refuse(w) /\ DuplicateRequest(work[w]) =>
            \E k \in DOMAIN requests :
                /\ requests[k].user = work[w].actor
                /\ requests[k].role = work[w].payload.role
                /\ requests[k].status = "pending"]_vars

(* "an active assignment already exists for this user, role, and scope" *)
GrantRefusalIsTrue ==
    [][\A w \in Workers :
          Refuse(w) /\ DuplicateGrant(work[w]) =>
            \E i \in DOMAIN assignments :
                /\ assignments[i].user = work[w].target
                /\ assignments[i].role = work[w].payload.role
                /\ assignments[i].scope = work[w].payload.scope
                /\ assignments[i].status = "active"]_vars
=============================================================================
