------------------------- MODULE AccessControlProofs -------------------------
(***************************************************************************)
(* Theorems about AccessControl, for any number of users, tenants, workers *)
(* and scopes and any bounds.                                              *)
(*                                                                         *)
(* TypeOK alone is not inductive: the step of a request that writes a      *)
(* document carries what an earlier step has read.  JobsSound says what    *)
(* that is and TypeOK /\ JobsSound is inductive.  The other theorems rest   *)
(* on it and on three lemmas about one step, each proved once, action by   *)
(* action: StepGrows (documents keep place and identity), StepWrites (who  *)
(* signs a write) and StepMoves (how states change).  The last section is  *)
(* about what only overlapping requests can break.                         *)
(***************************************************************************)
EXTENDS AccessControl, TLAPS

-----------------------------------------------------------------------------
(* Shapes *)

\* A function over the indices of a sequence is a sequence of the same length.
LEMMA SeqOverDomain ==
  ASSUME NEW S, NEW s \in Seq(S), NEW T, NEW f \in [DOMAIN s -> T]
  PROVE  f \in Seq(T) /\ Len(f) = Len(s) /\ DOMAIN f = DOMAIN s
  OBVIOUS

\* Replacing one element of a sequence keeps its length and its type.
LEMMA SeqUpdate ==
  ASSUME NEW S, NEW s \in Seq(S), NEW i \in DOMAIN s, NEW x \in S
  PROVE  /\ [s EXCEPT ![i] = x] \in Seq(S)
         /\ Len([s EXCEPT ![i] = x]) = Len(s) /\ DOMAIN [s EXCEPT ![i] = x] = DOMAIN s
  OBVIOUS

\* Revoking an assignment keeps the collection well formed.
LEMMA UpdateType ==
  ASSUME assignments \in Seq(Assignment), NEW i \in DOMAIN assignments, NEW u \in Users
  PROVE  [assignments EXCEPT ![i].status = "revoked", ![i].revoked_by = u] \in Seq(Assignment)
<1>1. assignments[i] \in Assignment
  OBVIOUS
<1>2. [[assignments[i] EXCEPT !.status = "revoked"] EXCEPT !.revoked_by = u] \in Assignment
  BY <1>1 DEF Assignment
<1>3. QED BY <1>2, SeqUpdate

\* So does the passing of its expires_at.
LEMMA LapseType ==
  ASSUME assignments \in Seq(Assignment), NEW i \in DOMAIN assignments
  PROVE  [assignments EXCEPT ![i].expiry = "past"] \in Seq(Assignment)
<1>1. assignments[i] \in Assignment
  OBVIOUS
<1>2. [assignments[i] EXCEPT !.expiry = "past"] \in Assignment
  BY <1>1 DEF Assignment, Expiries
<1>3. QED BY <1>2, SeqUpdate

Identity(a) == <<a.user, a.role, a.scope, a.granted_by>>

\* Expiring lapsed assignments changes nothing but the status of lapsed, active ones.
LEMMA SweptType ==
  ASSUME assignments \in Seq(Assignment), NEW job
  PROVE  /\ Swept(job) \in Seq(Assignment)
         /\ Len(Swept(job)) = Len(assignments)
         /\ DOMAIN Swept(job) = DOMAIN assignments
         /\ \A i \in DOMAIN assignments :
               /\ Identity(Swept(job)[i]) = Identity(assignments[i])
               /\ Swept(job)[i].revoked_by = assignments[i].revoked_by
               /\ Swept(job)[i].expiry = assignments[i].expiry
               /\ \/ Swept(job)[i].status = assignments[i].status
                  \/ /\ assignments[i].status = "active"
                     /\ assignments[i].expiry = "past"
                     /\ Swept(job)[i].status = "expired"
<1>1. \A i \in DOMAIN assignments : assignments[i] \in Assignment
  OBVIOUS
<1>2. \A i \in DOMAIN assignments :
        LET a == assignments[i]
            b == [a EXCEPT !.status = "expired"]
        IN  /\ b \in Assignment /\ Identity(b) = Identity(a)
            /\ b.revoked_by = a.revoked_by /\ b.expiry = a.expiry /\ b.status = "expired"
  BY <1>1 DEF Assignment, Identity
<1>3. Swept(job) \in [DOMAIN assignments -> Assignment]
  BY <1>1, <1>2 DEF Swept
<1>4. ASSUME NEW i \in DOMAIN assignments
      PROVE  \/ Swept(job)[i] = assignments[i]
             \/ /\ assignments[i].status = "active" /\ assignments[i].expiry = "past"
                /\ Swept(job)[i] = [assignments[i] EXCEPT !.status = "expired"]
  BY <1>4 DEF Swept
<1>5. ASSUME NEW i \in DOMAIN assignments
      PROVE  /\ Identity(Swept(job)[i]) = Identity(assignments[i])
             /\ Swept(job)[i].revoked_by = assignments[i].revoked_by
             /\ Swept(job)[i].expiry = assignments[i].expiry
             /\ \/ Swept(job)[i].status = assignments[i].status
                \/ /\ assignments[i].status = "active"
                   /\ assignments[i].expiry = "past"
                   /\ Swept(job)[i].status = "expired"
  BY <1>2, <1>4
<1>6. QED BY <1>3, <1>5, SeqOverDomain

\* The document built for a job is a well-formed assignment.
LEMMA NewType ==
  ASSUME NEW job \in Job, job.target \in Users, NEW e \in Expiries
  PROVE NewAssignment(job, e) \in Assignment
  BY ConstantsAssumption DEF NewAssignment, Assignment, Job, Payload, Actors

\* The permission check: only the admin role carries access.manage.
LEMMA ManagersAreAdmins ==
  ASSUME TypeOK, NEW u \in Users, MayManageAccess(u)
  PROVE  WasAdmin(u, u, Len(assignments))
<1>1. PICK i \in DOMAIN assignments :
          /\ assignments[i].user = u
          /\ "access.manage" \in RolePermissions[assignments[i].role]
  BY DEF MayManageAccess
<1>2. assignments[i] \in Assignment /\ i \in 1..Len(assignments)
  BY DEF TypeOK
<1>3. RolePermissions["editor"] = EditorPermissions
  BY DEF RolePermissions
<1>4. assignments[i].role \in Roles
  BY <1>2 DEF Assignment
<1>5. assignments[i].role = "admin"
  BY <1>1, <1>3, <1>4 DEF Roles, EditorPermissions
<1>6. QED BY <1>1, <1>2, <1>5 DEF WasAdmin

AssignmentsGrow ==
    /\ Len(assignments) <= Len(assignments')
    /\ \A i \in DOMAIN assignments :
          /\ i \in DOMAIN assignments'
          /\ Identity(assignments'[i]) = Identity(assignments[i])

RequestsGrow ==
    \A k \in DOMAIN requests :
        /\ k \in DOMAIN requests'
        /\ requests'[k].user = requests[k].user /\ requests'[k].role = requests[k].role

\* One step keeps every document in its place, and who has what from whom.
LEMMA StepGrows ==
  ASSUME TypeOK, JobsSound, [Next]_vars
  PROVE  AssignmentsGrow /\ RequestsGrow
<1> USE DEF AssignmentsGrow, RequestsGrow
<1>0. /\ assignments \in Seq(Assignment) /\ requests \in Seq(AccessRequest)
      /\ \A w \in Workers : work[w] \in Job /\ JobSound(work[w])
  BY DEF TypeOK, JobsSound
<1>1. CASE UNCHANGED <<assignments, requests>>
  BY <1>1, <1>0
<1>2. ASSUME NEW i \in DOMAIN assignments, Lapse(i)
      PROVE  AssignmentsGrow /\ RequestsGrow
  BY <1>2, <1>0 DEF Lapse, Identity
<1>3. ASSUME NEW w \in Workers, SweepExpired(w)
      PROVE  AssignmentsGrow /\ RequestsGrow
  BY <1>3, <1>0, SweptType DEF SweepExpired
<1>4. ASSUME NEW w \in Workers, InsertAssignment(w)
      PROVE  AssignmentsGrow /\ RequestsGrow
  BY <1>4, <1>0 DEF InsertAssignment, Identity
<1>5. ASSUME NEW w \in Workers, RevokeAssignment(w)
      PROVE  AssignmentsGrow /\ RequestsGrow
  BY <1>5, <1>0 DEF RevokeAssignment, JobSound, Identity
<1>6. ASSUME NEW w \in Workers, ApproveRequest(w)
      PROVE  AssignmentsGrow /\ RequestsGrow
  <2>1. AssignmentsGrow
    BY <1>6, <1>0, SweptType DEF ApproveRequest, Granted
  <2>2. RequestsGrow
    BY <1>6, <1>0 DEF ApproveRequest, JobSound
  <2>3. QED BY <2>1, <2>2
<1>7. ASSUME NEW w \in Workers, CreateRequest(w)
      PROVE  AssignmentsGrow /\ RequestsGrow
  BY <1>7, <1>0 DEF CreateRequest
<1>8. ASSUME NEW w \in Workers, NEW u \in Users, NEW k \in DOMAIN requests, CancelRequest(w, u, k)
      PROVE  AssignmentsGrow /\ RequestsGrow
  BY <1>8, <1>0 DEF CancelRequest
<1>9. ASSUME NEW w \in Workers, RejectRequest(w)
      PROVE  AssignmentsGrow /\ RequestsGrow
  BY <1>9, <1>0 DEF RejectRequest, JobSound
<1>10. QED
  BY <1>1, <1>2, <1>3, <1>4, <1>5, <1>6, <1>7, <1>8, <1>9
  DEF Next, vars, Begin, Serve, SignIn, BeginBootstrap, BeginGrant, BeginRevoke,
      BeginRequest, BeginDecision, ReviewRequest, RecordAudit, Refuse, Crash

\* The jobs that the handlers build are well formed.
LEMMA JobTypes ==
  /\ NoJob \in Job
  /\ \A j \in Job, s \in {"insert", "audit"} : [j EXCEPT !.step = s] \in Job
  /\ \A j \in Job, n \in Nat : [[j EXCEPT !.step = "audit"] EXCEPT !.id = n] \in Job
  /\ \A u \in Users : BootstrapJob(u) \in Job
<1>1. \A role \in Roles : GlobalGrant(role) \in Payload
  BY DEF GlobalGrant, Payload, Scopes
<1>2. NoJob \in Job
  BY <1>1 DEF NoJob, Job, Roles, Actors, AssignmentEvents
<1>3. ASSUME NEW u \in Users PROVE BootstrapJob(u) \in Job
  BY <1>1, <1>2 DEF BootstrapJob, Job, Roles, Actors, AssignmentEvents
<1>4. ASSUME NEW j \in Job, NEW s \in {"insert", "audit"}
      PROVE  [j EXCEPT !.step = s] \in Job
  BY DEF Job
<1>5. ASSUME NEW j \in Job, NEW n \in Nat
      PROVE  [[j EXCEPT !.step = "audit"] EXCEPT !.id = n] \in Job
  BY DEF Job
<1>6. QED BY <1>2, <1>3, <1>4, <1>5

\* One worker's job is replaced by another well-formed one.
LEMMA WorkUpdate ==
  ASSUME work \in [Workers -> Job], NEW w \in Workers, NEW job \in Job,
         work' = [work EXCEPT ![w] = job]
  PROVE  work' \in [Workers -> Job]
  OBVIOUS

\* TypeOK is preserved, given what the jobs in flight rely on.
LEMMA TypeStep ==
  ASSUME TypeOK, JobsSound, [Next]_vars
  PROVE  TypeOK'
<1> USE DEF TypeOK
<1>0. /\ \A w \in Workers : work[w] \in Job /\ JobSound(work[w])
      /\ Payloads \subseteq Payload
      /\ \A role \in Roles : GlobalGrant(role) \in Payload
      /\ \A i \in DOMAIN assignments : assignments[i] \in Assignment /\ i \in Nat
      /\ \A k \in DOMAIN requests : requests[k] \in AccessRequest /\ k \in Nat
      /\ Len(assignments) + 1 \in Nat /\ Len(requests) + 1 \in Nat
  <2>1. /\ \A i \in DOMAIN assignments : assignments[i] \in Assignment /\ i \in Nat
        /\ \A k \in DOMAIN requests : requests[k] \in AccessRequest /\ k \in Nat
        /\ Len(assignments) + 1 \in Nat /\ Len(requests) + 1 \in Nat
    OBVIOUS
  <2>2. QED BY <2>1, ConstantsAssumption DEF JobsSound, GlobalGrant, Payload, Scopes
<1>1. CASE UNCHANGED vars
  BY <1>1 DEF vars
<1>2. ASSUME NEW u \in Users, SignIn(u) PROVE TypeOK'
  BY <1>2 DEF SignIn, Login
<1>3. ASSUME NEW i \in DOMAIN assignments, Lapse(i) PROVE TypeOK'
  BY <1>3, LapseType DEF Lapse
<1>4. ASSUME NEW w \in Workers, NEW u \in Users, BeginBootstrap(w, u) PROVE TypeOK'
  BY <1>4, JobTypes, WorkUpdate DEF BeginBootstrap, Login, Start
<1>5. ASSUME NEW w \in Workers, NEW u \in Users, NEW t \in Users, NEW p \in Payloads,
             BeginGrant(w, u, t, p)
      PROVE  TypeOK'
  <2>1. [NoJob EXCEPT !.step = "sweep", !.actor = u, !.target = t, !.payload = p] \in Job
    BY <1>0, JobTypes DEF Job, Actors
  <2>2. QED BY <1>5, <2>1, WorkUpdate DEF BeginGrant, Login, Start
<1>6. ASSUME NEW w \in Workers, NEW u \in Users, NEW i \in DOMAIN assignments,
             BeginRevoke(w, u, i)
      PROVE  TypeOK'
  <2>1. assignments[i].user \in Users
    BY <1>0 DEF Assignment
  <2>2. [NoJob EXCEPT !.step = "revoke", !.event = "revoked", !.actor = u,
                      !.target = assignments[i].user, !.id = i] \in Job
    BY <1>0, <2>1, JobTypes DEF Job, Actors, AssignmentEvents
  <2>3. QED BY <1>6, <2>2, WorkUpdate DEF BeginRevoke, Login, Start
<1>7. ASSUME NEW w \in Workers, NEW u \in Users, NEW role \in Roles, BeginRequest(w, u, role)
      PROVE  TypeOK'
  <2>1. [NoJob EXCEPT !.step = "open", !.event = "created", !.actor = u,
                      !.target = u, !.payload = GlobalGrant(role)] \in Job
    BY <1>0, JobTypes DEF Job, Actors, RequestEvents
  <2>2. QED BY <1>7, <2>1, WorkUpdate DEF BeginRequest, Login, Start
<1>8. ASSUME NEW w \in Workers, NEW u \in Users, NEW k \in DOMAIN requests,
             CancelRequest(w, u, k)
      PROVE  TypeOK'
  <2>1. [NoJob EXCEPT !.step = "audit", !.event = "cancelled", !.actor = u,
                      !.target = u, !.id = k] \in Job
    BY <1>0, JobTypes DEF Job, Actors, RequestEvents
  <2>3. [requests[k] EXCEPT !.status = "cancelled"] \in AccessRequest
    BY <1>0 DEF AccessRequest
  <2>4. requests' \in Seq(AccessRequest)
    BY <1>8, <2>3, SeqUpdate DEF CancelRequest
  <2>5. QED BY <1>8, <2>1, <2>4, WorkUpdate DEF CancelRequest, Start
<1>9. ASSUME NEW w \in Workers, NEW u \in Users, NEW k \in DOMAIN requests,
             NEW event \in {"approved", "rejected"}, BeginDecision(w, u, k, event)
      PROVE  TypeOK'
  <2>1. [NoJob EXCEPT !.step = "review", !.event = event, !.actor = u, !.id = k] \in Job
    BY <1>0, JobTypes DEF Job, Actors, RequestEvents
  <2>2. QED BY <1>9, <2>1, WorkUpdate DEF BeginDecision, Login, Start
<1>10. ASSUME NEW w \in Workers, SweepExpired(w) PROVE TypeOK'
  <2>1. [work[w] EXCEPT !.step = "insert"] \in Job
    BY <1>0, JobTypes
  <2>2. work' \in [Workers -> Job]
    BY <1>10, <2>1 DEF SweepExpired, Continue
  <2>3. QED BY <1>10, <2>2, SweptType DEF SweepExpired
<1>11. ASSUME NEW w \in Workers, InsertAssignment(w) PROVE TypeOK'
  <2>1. [[work[w] EXCEPT !.step = "audit"] EXCEPT !.id = Len(assignments) + 1] \in Job
    BY <1>0, JobTypes
  <2>2. work' \in [Workers -> Job]
    BY <1>11, <2>1 DEF InsertAssignment
  <2>3. work[w].target \in Users
    BY <1>0, <1>11 DEF InsertAssignment, JobSound
  <2>4. \A e \in Expiries : NewAssignment(work[w], e) \in Assignment
    BY <1>0, <2>3, NewType
  <2>5. PICK e \in Expiries : assignments' = Append(assignments, NewAssignment(work[w], e))
    BY <1>11 DEF InsertAssignment, Expiries
  <2>6. QED BY <1>11, <2>2, <2>4, <2>5 DEF InsertAssignment
<1>12. ASSUME NEW w \in Workers, RevokeAssignment(w) PROVE TypeOK'
  <2>1. work[w].id \in DOMAIN assignments /\ work[w].actor \in Users
    BY <1>0, <1>12 DEF RevokeAssignment, JobSound
  <2>2. [work[w] EXCEPT !.step = "audit"] \in Job
    BY <1>0, JobTypes
  <2>3. work' \in [Workers -> Job]
    BY <1>12, <2>2 DEF RevokeAssignment, Continue
  <2>4. QED BY <1>12, <2>1, <2>3, UpdateType DEF RevokeAssignment
<1>13. ASSUME NEW w \in Workers, CreateRequest(w) PROVE TypeOK'
  <2>1. [[work[w] EXCEPT !.step = "audit"] EXCEPT !.id = Len(requests) + 1] \in Job
    BY <1>0, JobTypes
  <2>2. work' \in [Workers -> Job]
    BY <1>13, <2>1 DEF CreateRequest
  <2>3. work[w].actor \in Users /\ work[w].payload.role \in Roles
    BY <1>0, <1>13 DEF CreateRequest, JobSound, Job, Payload
  <2>4. [user |-> work[w].actor, role |-> work[w].payload.role,
         status |-> "pending", decided_by |-> Nobody] \in AccessRequest
    BY <2>3 DEF AccessRequest
  <2>5. QED BY <1>13, <2>2, <2>4 DEF CreateRequest
<1>14. ASSUME NEW w \in Workers, ReviewRequest(w) PROVE TypeOK'
  <2>1. work[w].id \in DOMAIN requests
    BY <1>0, <1>14 DEF ReviewRequest, JobSound
  <2>2. requests[work[w].id].user \in Users /\ requests[work[w].id].role \in Roles
    BY <1>0, <2>1 DEF AccessRequest
  <2>3. \A s \in {"approve", "reject"} :
          [[[work[w] EXCEPT !.step = s] EXCEPT !.target = requests[work[w].id].user]
              EXCEPT !.payload = GlobalGrant(requests[work[w].id].role)] \in Job
    BY <1>0, <2>2 DEF Job, Actors
  <2>4. work' \in [Workers -> Job]
    BY <1>14, <2>3 DEF ReviewRequest
  <2>5. QED BY <1>14, <2>4 DEF ReviewRequest
<1>15. ASSUME NEW w \in Workers, ApproveRequest(w) PROVE TypeOK'
  <2>1. /\ work[w].id \in DOMAIN requests /\ work[w].actor \in Users
        /\ work[w].target \in Users /\ work[w].id \in Nat
    BY <1>0, <1>15 DEF ApproveRequest, JobSound, Job
  <2>2. NewAssignment(work[w], "never") \in Assignment
    BY <1>0, <2>1, NewType DEF Expiries
  <2>3. assignments' \in Seq(Assignment)
    BY <1>15, <2>2, SweptType DEF ApproveRequest, Granted
  <2>4. [[requests[work[w].id] EXCEPT !.status = "approved"]
            EXCEPT !.decided_by = work[w].actor] \in AccessRequest
    BY <1>0, <2>1 DEF AccessRequest
  <2>5. requests' \in Seq(AccessRequest)
    BY <1>15, <2>1, <2>4, SeqUpdate DEF ApproveRequest
  <2>6. audit' \subseteq AuditEvent
    BY <1>15, <2>1 DEF ApproveRequest, AuditEvent, Record, AssignmentEvents, RequestEvents, Actors
  <2>7. QED BY <1>15, <2>3, <2>5, <2>6, JobTypes, WorkUpdate DEF ApproveRequest, Finish
<1>16. ASSUME NEW w \in Workers, RejectRequest(w) PROVE TypeOK'
  <2>1. work[w].id \in DOMAIN requests /\ work[w].actor \in Users
    BY <1>0, <1>16 DEF RejectRequest, JobSound
  <2>2. [work[w] EXCEPT !.step = "audit"] \in Job
    BY <1>0, JobTypes
  <2>3. work' \in [Workers -> Job]
    BY <1>16, <2>2 DEF RejectRequest, Continue
  <2>4. [[requests[work[w].id] EXCEPT !.status = "rejected"]
            EXCEPT !.decided_by = work[w].actor] \in AccessRequest
    BY <1>0, <2>1 DEF AccessRequest
  <2>5. requests' \in Seq(AccessRequest)
    BY <1>16, <2>1, <2>4, SeqUpdate DEF RejectRequest
  <2>6. QED BY <1>16, <2>3, <2>5 DEF RejectRequest
<1>17. ASSUME NEW w \in Workers, RecordAudit(w) PROVE TypeOK'
  <2>1. Record(work[w].event, work[w].id, work[w].actor) \in AuditEvent
    BY <1>0 DEF Record, AuditEvent, Job
  <2>2. QED BY <1>17, <2>1, JobTypes, WorkUpdate DEF RecordAudit, Finish
<1>18. ASSUME NEW w \in Workers, Refuse(w) \/ Crash(w) PROVE TypeOK'
  <2>1. work' = [work EXCEPT ![w] = NoJob]
    BY <1>18 DEF Refuse, Crash, Finish
  <2>2. work' \in [Workers -> Job]
    BY <2>1, JobTypes, WorkUpdate
  <2>3. CASE Refuse(w)
    BY <2>2, <2>3 DEF Refuse
  <2>4. CASE Crash(w)
    BY <2>2, <2>4 DEF Crash
  <2>5. QED BY <1>18, <2>3, <2>4
<1>19. QED
  BY <1>1, <1>2, <1>3, <1>4, <1>5, <1>6, <1>7, <1>8, <1>9, <1>10, <1>11, <1>12, <1>13,
     <1>14, <1>15, <1>16, <1>17, <1>18
  DEF Next, Begin, Serve

(***************************************************************************)
(* What a job relies on survives every step: assignments keep their place  *)
(* and identity, so an administrator's assignment is found again.          *)
(***************************************************************************)
LEMMA WasAdminGrows ==
  ASSUME TypeOK, AssignmentsGrow
  PROVE  /\ \A u, t : WasAdmin(u, t, Len(assignments)) => WasAdmin(u, t, Len(assignments))'
         /\ \A u, t : \A n \in 0..Len(assignments) : WasAdmin(u, t, n) => WasAdmin(u, t, n)'
<1>0. Len(assignments) \in Nat /\ Len(assignments') \in Nat
  BY DEF TypeOK, AssignmentsGrow
<1>1. ASSUME NEW u, NEW t, NEW n \in 0..Len(assignments), WasAdmin(u, t, n)
      PROVE  \E j \in 1..n : assignments'[j].user = u /\ assignments'[j].role = "admin"
  <2>1. PICK j \in 1..n : assignments[j].user = u /\ assignments[j].role = "admin"
    BY <1>1 DEF WasAdmin
  <2>2. j \in DOMAIN assignments
    BY <1>0, <2>1 DEF TypeOK
  <2>3. Identity(assignments'[j]) = Identity(assignments[j])
    BY <2>2 DEF AssignmentsGrow
  <2>4. QED BY <2>1, <2>3 DEF Identity
<1>2. ASSUME NEW u, NEW t, WasAdmin(u, t, Len(assignments))
      PROVE  WasAdmin(u, t, Len(assignments))'
  BY <1>0, <1>1, <1>2 DEF WasAdmin, AssignmentsGrow
<1>3. ASSUME NEW u, NEW t, NEW n \in 0..Len(assignments), WasAdmin(u, t, n)
      PROVE  WasAdmin(u, t, n)'
  BY <1>1, <1>3 DEF WasAdmin
<1>4. QED BY <1>2, <1>3

\* A job that a step leaves alone keeps what it relies on.
LEMMA JobStaysSound ==
  ASSUME TypeOK, AssignmentsGrow, RequestsGrow,
         NEW w \in Workers, JobSound(work[w]), work'[w] = work[w]
  PROVE  JobSound(work[w])'
<1>1. \A u, t : WasAdmin(u, t, Len(assignments)) => WasAdmin(u, t, Len(assignments))'
  BY WasAdminGrows
<1>2. \A i \in DOMAIN assignments :
         i \in DOMAIN assignments' /\ assignments'[i].user = assignments[i].user
  BY DEF AssignmentsGrow, Identity
<1>3. \A k \in DOMAIN requests :
         /\ k \in DOMAIN requests' /\ requests'[k].user = requests[k].user
         /\ requests'[k].role = requests[k].role
  BY DEF RequestsGrow
<1>4. PICK j : j = work[w] /\ JobSound(j)
  OBVIOUS
<1>5. j.step \in {"approve", "reject"} =>
         /\ j.id \in DOMAIN requests' /\ requests'[j.id].user = j.target
         /\ j.payload = GlobalGrant(requests'[j.id].role)
  BY <1>3, <1>4 DEF JobSound
<1>6. /\ j.step \in {"sweep", "insert", "revoke", "approve", "reject"} =>
            /\ j.target \in Users /\ j.target # j.actor
            /\ j.actor # Bootstrapper => WasAdmin(j.actor, j.target, Len(assignments))'
      /\ j.step = "review" =>
            j.id \in DOMAIN requests' /\ WasAdmin(j.actor, j.actor, Len(assignments))'
  BY <1>1, <1>3, <1>4 DEF JobSound
<1>7. /\ j.step \in {"sweep", "open", "revoke", "review", "approve", "reject"} =>
            j.actor \in Users
      /\ j.step = "revoke" =>
            j.id \in DOMAIN assignments' /\ assignments'[j.id].user = j.target
  BY <1>2, <1>4 DEF JobSound
<1>8. work'[w] = j
  BY <1>4
<1>9. QED BY <1>5, <1>6, <1>7, <1>8 DEF JobSound, WasAdmin

\* When one worker moves, only its own new job is left to be looked at.
LEMMA OthersStaySound ==
  ASSUME TypeOK, JobsSound, AssignmentsGrow, RequestsGrow,
         NEW w \in Workers, \A v \in Workers \ {w} : work'[v] = work[v],
         JobSound(work[w])'
  PROVE  JobsSound'
<1>1. ASSUME NEW v \in Workers PROVE JobSound(work[v])'
  <2>1. CASE v = w
    BY <2>1
  <2>2. CASE v # w
    BY <2>2, JobStaysSound DEF JobsSound
  <2>3. QED BY <2>1, <2>2
<1>2. QED BY <1>1 DEF JobsSound

\* Each handler leaves its worker with a sound job.
LEMMA SoundStep ==
  ASSUME TypeOK, JobsSound, [Next]_vars
  PROVE  JobsSound'
<1>0. /\ AssignmentsGrow /\ RequestsGrow
      /\ work \in [Workers -> Job]
      /\ \A w \in Workers : work[w] \in Job /\ JobSound(work[w])
      /\ \A i \in DOMAIN assignments : assignments[i] \in Assignment
      /\ Len(assignments) \in Nat
      /\ Bootstrapper \notin Users
  BY StepGrows, ConstantsAssumption DEF TypeOK, JobsSound, Actors
<1>01. ASSUME UNCHANGED work PROVE JobsSound'
  BY <1>0, <1>01, JobStaysSound DEF JobsSound
<1>02. \A u, t : WasAdmin(u, t, Len(assignments)) => WasAdmin(u, t, Len(assignments))'
  BY <1>0, WasAdminGrows
<1>03. \A u \in Users : MayManageAccess(u) => WasAdmin(u, u, Len(assignments))
  BY ManagersAreAdmins
<1>1. ASSUME NEW u \in Users, SignIn(u) PROVE JobsSound'
  BY <1>1, <1>01 DEF SignIn
<1>2. ASSUME NEW i \in DOMAIN assignments, Lapse(i) PROVE JobsSound'
  BY <1>2, <1>01 DEF Lapse
<1>3. ASSUME NEW w \in Workers, NEW u \in Users, BeginBootstrap(w, u) PROVE JobsSound'
  <2>1. work' = [work EXCEPT ![w] = BootstrapJob(u)]
    BY <1>3 DEF BeginBootstrap, Start
  <2>2. work'[w] = BootstrapJob(u) /\ \A v \in Workers \ {w} : work'[v] = work[v]
    BY <1>0, <2>1
  <2>3. /\ BootstrapJob(u).step = "insert" /\ BootstrapJob(u).target = u
        /\ BootstrapJob(u).actor = Bootstrapper
    BY DEF BootstrapJob, NoJob
  <2>4. JobSound(work[w])'
    BY <1>0, <2>2, <2>3 DEF JobSound
  <2>5. QED BY <1>0, <2>2, <2>4, OthersStaySound
<1>4. ASSUME NEW w \in Workers, NEW u \in Users, NEW t \in Users, NEW p \in Payloads,
             BeginGrant(w, u, t, p)
      PROVE  JobsSound'
  <2> DEFINE job == [NoJob EXCEPT !.step = "sweep", !.actor = u, !.target = t, !.payload = p]
  <2>1. work' = [work EXCEPT ![w] = job]
    BY <1>4 DEF BeginGrant, Start
  <2>2. work'[w] = job /\ \A v \in Workers \ {w} : work'[v] = work[v]
    BY <1>0, <2>1
  <2>3. job.step = "sweep" /\ job.actor = u /\ job.target = t
    BY DEF NoJob
  <2>4. WasAdmin(u, u, Len(assignments))' /\ TenantOf[t] = TenantOf[u] /\ t # u
    BY <1>4, <1>02, <1>03 DEF BeginGrant, MayActOn, SameTenant
  <2>5. JobSound(work[w])'
    <3> HIDE DEF job
    <3>1. QED BY <1>0, <2>2, <2>3, <2>4 DEF JobSound, WasAdmin
  <2>6. QED BY <1>0, <2>2, <2>5, OthersStaySound
<1>5. ASSUME NEW w \in Workers, NEW u \in Users, NEW i \in DOMAIN assignments,
             BeginRevoke(w, u, i)
      PROVE  JobsSound'
  <2> DEFINE job == [NoJob EXCEPT !.step = "revoke", !.event = "revoked", !.actor = u,
                                  !.target = assignments[i].user, !.id = i]
  <2>1. work' = [work EXCEPT ![w] = job] /\ assignments' = assignments
    BY <1>5 DEF BeginRevoke, Start
  <2>2. work'[w] = job /\ \A v \in Workers \ {w} : work'[v] = work[v]
    BY <1>0, <2>1
  <2>3. job.step = "revoke" /\ job.actor = u /\ job.target = assignments[i].user /\ job.id = i
    BY DEF NoJob
  <2>4. /\ WasAdmin(u, u, Len(assignments))' /\ assignments[i].user \in Users
        /\ TenantOf[assignments[i].user] = TenantOf[u] /\ assignments[i].user # u
    BY <1>5, <1>0, <1>02, <1>03 DEF BeginRevoke, MayActOn, SameTenant, Assignment
  <2>5. JobSound(work[w])'
    <3> HIDE DEF job
    <3>1. QED BY <1>0, <2>1, <2>2, <2>3, <2>4 DEF JobSound, WasAdmin
  <2>6. QED BY <1>0, <2>2, <2>5, OthersStaySound
<1>6. ASSUME NEW w \in Workers, NEW u \in Users, NEW role \in Roles, BeginRequest(w, u, role)
      PROVE  JobsSound'
  <2> DEFINE job == [NoJob EXCEPT !.step = "open", !.event = "created", !.actor = u,
                                  !.target = u, !.payload = GlobalGrant(role)]
  <2>1. work' = [work EXCEPT ![w] = job]
    BY <1>6 DEF BeginRequest, Start
  <2>2. work'[w] = job /\ \A v \in Workers \ {w} : work'[v] = work[v]
    BY <1>0, <2>1
  <2>3. job.step = "open" /\ job.actor = u
    BY DEF NoJob
  <2>4. JobSound(work[w])'
    <3> HIDE DEF job
    <3>1. QED BY <1>0, <2>2, <2>3 DEF JobSound
  <2>5. QED BY <1>0, <2>2, <2>4, OthersStaySound
<1>7. ASSUME NEW w \in Workers, NEW u \in Users, NEW k \in DOMAIN requests,
             CancelRequest(w, u, k)
      PROVE  JobsSound'
  <2> DEFINE job == [NoJob EXCEPT !.step = "audit", !.event = "cancelled", !.actor = u,
                                  !.target = u, !.id = k]
  <2>1. work' = [work EXCEPT ![w] = job]
    BY <1>7 DEF CancelRequest, Start
  <2>2. work'[w] = job /\ \A v \in Workers \ {w} : work'[v] = work[v]
    BY <1>0, <2>1
  <2>3. job.step = "audit"
    BY DEF NoJob
  <2>4. JobSound(work[w])'
    <3> HIDE DEF job
    <3>1. QED BY <2>2, <2>3 DEF JobSound
  <2>5. QED BY <1>0, <2>2, <2>4, OthersStaySound
<1>8. ASSUME NEW w \in Workers, NEW u \in Users, NEW k \in DOMAIN requests,
             NEW event \in {"approved", "rejected"}, BeginDecision(w, u, k, event)
      PROVE  JobsSound'
  <2> DEFINE job == [NoJob EXCEPT !.step = "review", !.event = event, !.actor = u, !.id = k]
  <2>1. work' = [work EXCEPT ![w] = job] /\ requests' = requests
    BY <1>8 DEF BeginDecision, Start
  <2>2. work'[w] = job /\ \A v \in Workers \ {w} : work'[v] = work[v]
    BY <1>0, <2>1
  <2>3. job.step = "review" /\ job.actor = u /\ job.id = k
    BY DEF NoJob
  <2>4. WasAdmin(u, u, Len(assignments))'
    BY <1>8, <1>02, <1>03 DEF BeginDecision
  <2>5. JobSound(work[w])'
    <3> HIDE DEF job
    <3>1. QED BY <1>0, <2>1, <2>2, <2>3, <2>4 DEF JobSound
  <2>6. QED BY <1>0, <2>2, <2>5, OthersStaySound
<1>9. ASSUME NEW w \in Workers, SweepExpired(w) PROVE JobsSound'
  <2>1. work' = [work EXCEPT ![w].step = "insert"] /\ work[w].step = "sweep"
    BY <1>9 DEF SweepExpired, Continue
  <2>2. /\ work'[w].step = "insert" /\ work'[w].actor = work[w].actor
        /\ work'[w].target = work[w].target
        /\ \A v \in Workers \ {w} : work'[v] = work[v]
    BY <1>0, <2>1 DEF Job
  <2>3. /\ work[w].target \in Users /\ work[w].target # work[w].actor
        /\ work[w].actor # Bootstrapper =>
              WasAdmin(work[w].actor, work[w].target, Len(assignments))
    BY <1>0, <2>1 DEF JobSound
  <2>4. PICK a, t : a = work[w].actor /\ t = work[w].target
    OBVIOUS
  <2>5. a # Bootstrapper => WasAdmin(a, t, Len(assignments))'
    BY <2>3, <2>4, <1>02
  <2>6. JobSound(work[w])'
    BY <2>2, <2>3, <2>4, <2>5 DEF JobSound, WasAdmin
  <2>7. QED BY <1>0, <2>2, <2>6, OthersStaySound
<1>10. ASSUME NEW w \in Workers,
              InsertAssignment(w) \/ RevokeAssignment(w) \/ CreateRequest(w) \/ RejectRequest(w)
       PROVE  JobsSound'
  <2>1. work'[w].step = "audit" /\ \A v \in Workers \ {w} : work'[v] = work[v]
    BY <1>10, <1>0
    DEF InsertAssignment, RevokeAssignment, CreateRequest, RejectRequest, Continue, Job
  <2>2. JobSound(work[w])'
    BY <2>1 DEF JobSound
  <2>3. QED BY <1>0, <2>1, <2>2, OthersStaySound
<1>11. ASSUME NEW w \in Workers, ReviewRequest(w) PROVE JobsSound'
  <2> DEFINE r == requests[work[w].id]
  <2>1. /\ work'[w].step \in {"approve", "reject"} /\ work'[w].actor = work[w].actor
        /\ work'[w].target = r.user /\ work'[w].id = work[w].id
        /\ work'[w].payload = GlobalGrant(r.role)
        /\ \A v \in Workers \ {w} : work'[v] = work[v]
        /\ assignments' = assignments /\ requests' = requests
    BY <1>11, <1>0 DEF ReviewRequest, Job
  <2>2. /\ work[w].id \in DOMAIN requests /\ work[w].actor \in Users
        /\ WasAdmin(work[w].actor, work[w].actor, Len(assignments))
    BY <1>11, <1>0 DEF ReviewRequest, JobSound
  <2>3. r.user \in Users /\ TenantOf[r.user] = TenantOf[work[w].actor] /\ r.user # work[w].actor
    <3>1. r \in AccessRequest
      BY <2>2 DEF TypeOK
    <3>2. QED
      BY <1>11, <3>1 DEF ReviewRequest, Reviewable, ByAnother, MayActOn, SameTenant, AccessRequest
  <2>4. JobSound(work[w])'
    BY <2>1, <2>2, <2>3 DEF JobSound, WasAdmin
  <2>5. QED BY <1>0, <2>1, <2>4, OthersStaySound
<1>12. ASSUME NEW w \in Workers,
              ApproveRequest(w) \/ RecordAudit(w) \/ Refuse(w) \/ Crash(w)
       PROVE  JobsSound'
  <2>1. work' = [work EXCEPT ![w] = NoJob]
    BY <1>12 DEF ApproveRequest, RecordAudit, Refuse, Crash, Finish
  <2>2. work'[w].step = "idle" /\ \A v \in Workers \ {w} : work'[v] = work[v]
    BY <1>0, <2>1 DEF NoJob
  <2>3. JobSound(work[w])'
    BY <2>2 DEF JobSound
  <2>4. QED BY <1>0, <2>2, <2>3, OthersStaySound
<1>13. QED
  BY <1>01, <1>1, <1>2, <1>3, <1>4, <1>5, <1>6, <1>7, <1>8, <1>9, <1>10, <1>11, <1>12
  DEF Next, Begin, Serve, vars

\* The state the bootstrap script leaves is well formed.
LEMMA InitSound ==
  ASSUME Init
  PROVE  TypeOK /\ JobsSound
<1>1. \A u \in Users : NewAssignment(BootstrapJob(u), "never") \in Assignment
  <2>1. ASSUME NEW u \in Users
        PROVE  BootstrapJob(u) \in Job /\ BootstrapJob(u).target = u
    BY JobTypes DEF BootstrapJob, NoJob
  <2>2. QED BY <2>1, NewType DEF Expiries
<1>2. /\ FirstAdmins \in Seq(Users)
      /\ \A i \in DOMAIN FirstAdmins : FirstAdmins[i] \in Users /\ i \in Nat
  BY ConstantsAssumption
<1>3. principals \subseteq Users
  BY <1>2 DEF Init
<1>4. assignments \in [DOMAIN FirstAdmins -> Assignment]
  BY <1>1, <1>2 DEF Init
<1>5. assignments \in Seq(Assignment)
  BY <1>2, <1>4, SeqOverDomain
<1>6. requests \in Seq(AccessRequest)
  BY DEF Init
<1>7. audit \subseteq AuditEvent
  BY <1>2 DEF Init, AuditEvent, Record, AssignmentEvents, Actors
<1>8. work \in [Workers -> Job] /\ crashes \in Nat
  BY JobTypes DEF Init
<1>9. JobsSound
  BY DEF Init, JobsSound, JobSound, NoJob
<1>10. QED BY <1>3, <1>5, <1>6, <1>7, <1>8, <1>9 DEF TypeOK

(***************************************************************************)
(* Every variable keeps its shape and a request in flight keeps what it    *)
(* was checked for, however requests, logins, lapses and crashes           *)
(* interleave: what services/authorization.py reads before an await still  *)
(* carries the authority and the document that it writes after it.         *)
(***************************************************************************)
THEOREM JobsAlwaysSound == Spec => [](TypeOK /\ JobsSound)
<1>1. Init => TypeOK /\ JobsSound
  BY InitSound
<1>2. TypeOK /\ JobsSound /\ [Next]_vars => TypeOK' /\ JobsSound'
  BY TypeStep, SoundStep
<1>3. QED BY <1>1, <1>2, PTL DEF Spec

(* Assignments, access requests and audit events are the documents of        *)
(* models/authorization.py whatever the requests in flight carry from one    *)
(* await to the next: each names an actor, and a user and a role.            *)
THEOREM DocumentsAreTyped == Spec => []TypeOK
  BY JobsAlwaysSound, PTL

-----------------------------------------------------------------------------
(***************************************************************************)
(* What one step may write.  A document keeps its authors; a revocation or *)
(* a decision is signed by an administrator of the document's tenant who   *)
(* is not its subject, and so is a new assignment that was not             *)
(* bootstrapped.                                                           *)
(***************************************************************************)
Trusted(u, t) == u # t /\ WasAdmin(u, t, Len(assignments))

AssignmentWrites ==
    \A i \in DOMAIN assignments' :
        \/ /\ i \in DOMAIN assignments
           /\ Identity(assignments'[i]) = Identity(assignments[i])
           /\ \/ assignments'[i].revoked_by = assignments[i].revoked_by
              \/ Trusted(assignments'[i].revoked_by, assignments[i].user)
        \/ /\ i = Len(assignments) + 1
           /\ assignments'[i].user \in Users /\ assignments'[i].revoked_by = Nobody
           /\ \/ assignments'[i].granted_by = Bootstrapper
              \/ Trusted(assignments'[i].granted_by, assignments'[i].user)

RequestWrites ==
    \A k \in DOMAIN requests' :
        \/ /\ k \in DOMAIN requests /\ requests'[k].user = requests[k].user
           /\ \/ requests'[k].decided_by = requests[k].decided_by
              \/ Trusted(requests'[k].decided_by, requests[k].user)
        \/ requests'[k].user \in Users /\ requests'[k].decided_by = Nobody

\* Every write of every action is signed by someone entitled to it.
LEMMA StepWrites ==
  ASSUME TypeOK, JobsSound, [Next]_vars
  PROVE  AssignmentWrites /\ RequestWrites
<1>0. /\ assignments \in Seq(Assignment) /\ requests \in Seq(AccessRequest)
      /\ Len(assignments) \in Nat /\ Len(requests) \in Nat
      /\ \A i \in DOMAIN assignments : assignments[i] \in Assignment
      /\ \A k \in DOMAIN requests : requests[k] \in AccessRequest
      /\ \A w \in Workers : work[w] \in Job /\ JobSound(work[w])
  BY DEF TypeOK, JobsSound
<1>1. ASSUME UNCHANGED assignments PROVE AssignmentWrites
  BY <1>1 DEF AssignmentWrites
<1>2. ASSUME UNCHANGED requests PROVE RequestWrites
  BY <1>2 DEF RequestWrites
<1>3. ASSUME NEW i \in DOMAIN assignments, Lapse(i)
      PROVE  AssignmentWrites /\ RequestWrites
  <2>1. \A n \in DOMAIN assignments' : n \in DOMAIN assignments
          /\ Identity(assignments'[n]) = Identity(assignments[n])
          /\ assignments'[n].revoked_by = assignments[n].revoked_by
    BY <1>0, <1>3 DEF Lapse, Identity
  <2>2. QED BY <1>2, <1>3, <2>1 DEF Lapse, AssignmentWrites
<1>4. ASSUME NEW w \in Workers, SweepExpired(w)
      PROVE  AssignmentWrites /\ RequestWrites
  BY <1>0, <1>2, <1>4, SweptType DEF SweepExpired, AssignmentWrites
<1>5. ASSUME NEW w \in Workers, InsertAssignment(w)
      PROVE  AssignmentWrites /\ RequestWrites
  <2>1. /\ work[w].target \in Users
        /\ work[w].actor = Bootstrapper \/ Trusted(work[w].actor, work[w].target)
    BY <1>0, <1>5 DEF InsertAssignment, JobSound, Trusted
  <2>2. PICK e \in Expiries : assignments' = Append(assignments, NewAssignment(work[w], e))
    BY <1>5 DEF InsertAssignment, Expiries
  <2>3. LET d == NewAssignment(work[w], e)
        IN  d.user = work[w].target /\ d.granted_by = work[w].actor /\ d.revoked_by = Nobody
    BY DEF NewAssignment
  <2>4. AssignmentWrites
    BY <1>0, <2>1, <2>2, <2>3 DEF AssignmentWrites
  <2>5. QED BY <1>2, <1>5, <2>4 DEF InsertAssignment
<1>6. ASSUME NEW w \in Workers, RevokeAssignment(w)
      PROVE  AssignmentWrites /\ RequestWrites
  <2> DEFINE id == work[w].id
  <2>1. /\ id \in DOMAIN assignments /\ assignments[id].user = work[w].target
        /\ work[w].actor \in Users /\ work[w].actor # work[w].target
        /\ WasAdmin(work[w].actor, work[w].target, Len(assignments))
    BY <1>0, <1>6, ConstantsAssumption DEF RevokeAssignment, JobSound, Actors
  <2>2. assignments' = [assignments EXCEPT ![id].status = "revoked",
                                           ![id].revoked_by = work[w].actor]
    BY <1>6 DEF RevokeAssignment
  <2>3. /\ DOMAIN assignments' = DOMAIN assignments
        /\ \A n \in DOMAIN assignments : n # id => assignments'[n] = assignments[n]
        /\ Identity(assignments'[id]) = Identity(assignments[id])
        /\ assignments'[id].revoked_by = work[w].actor
    BY <1>0, <2>1, <2>2 DEF Identity, Assignment
  <2>4. AssignmentWrites
    BY <2>1, <2>3 DEF AssignmentWrites, Trusted
  <2>5. QED BY <1>2, <1>6, <2>4 DEF RevokeAssignment
<1>7. ASSUME NEW w \in Workers, CreateRequest(w)
      PROVE  AssignmentWrites /\ RequestWrites
  <2>1. work[w].actor \in Users
    BY <1>0, <1>7 DEF CreateRequest, JobSound
  <2>2. RequestWrites
    BY <1>0, <1>7, <2>1 DEF CreateRequest, RequestWrites
  <2>3. QED BY <1>1, <1>7, <2>2 DEF CreateRequest
<1>8. ASSUME NEW w \in Workers, NEW u \in Users, NEW k \in DOMAIN requests,
             CancelRequest(w, u, k)
      PROVE  AssignmentWrites /\ RequestWrites
  <2>1. \A n \in DOMAIN requests' : n \in DOMAIN requests
          /\ requests'[n].user = requests[n].user
          /\ requests'[n].decided_by = requests[n].decided_by
    BY <1>0, <1>8 DEF CancelRequest
  <2>2. QED BY <1>1, <1>8, <2>1 DEF CancelRequest, RequestWrites
<1>9. ASSUME NEW w \in Workers, ApproveRequest(w) \/ RejectRequest(w)
      PROVE  RequestWrites
  <2> DEFINE id == work[w].id
  <2>1. /\ id \in DOMAIN requests /\ requests[id].user = work[w].target
        /\ Trusted(work[w].actor, work[w].target)
    BY <1>0, <1>9, ConstantsAssumption
    DEF ApproveRequest, RejectRequest, JobSound, Actors, Trusted
  <2>2. PICK s \in {"approved", "rejected"} :
          requests' = [requests EXCEPT ![id].status = s, ![id].decided_by = work[w].actor]
    BY <1>9 DEF ApproveRequest, RejectRequest
  <2>3. /\ DOMAIN requests' = DOMAIN requests
        /\ \A n \in DOMAIN requests : n # id => requests'[n] = requests[n]
        /\ requests'[id].user = requests[id].user
        /\ requests'[id].decided_by = work[w].actor
    <3>1. requests[id] \in AccessRequest
      BY <1>0, <2>1
    <3>2. QED BY <1>0, <2>1, <2>2, <3>1 DEF AccessRequest
  <2>4. QED BY <2>1, <2>3 DEF RequestWrites
<1>10. ASSUME NEW w \in Workers, ApproveRequest(w)
       PROVE  AssignmentWrites
  <2>1. work[w].target \in Users /\ Trusted(work[w].actor, work[w].target)
    BY <1>0, <1>10, ConstantsAssumption DEF ApproveRequest, JobSound, Actors, Trusted
  <2> DEFINE d == NewAssignment(work[w], "never")
  <2>2. /\ d.user = work[w].target /\ d.granted_by = work[w].actor /\ d.revoked_by = Nobody
        /\ d \in Assignment
    BY <1>0, <2>1, NewType DEF NewAssignment, Expiries
  <2>3. assignments' = Append(Swept(work[w]), d)
    BY <1>10 DEF ApproveRequest, Granted
  <2> HIDE DEF d
  <2>4. Swept(work[w]) \in Seq(Assignment) /\ Len(Swept(work[w])) = Len(assignments)
    BY <1>0, SweptType
  <2>5. ASSUME NEW i \in DOMAIN assignments', i # Len(assignments) + 1
        PROVE  i \in DOMAIN assignments /\ assignments'[i] = Swept(work[w])[i]
    BY <1>0, <2>3, <2>4, <2>5
  <2>6. assignments'[Len(assignments) + 1] = d
    BY <1>0, <2>2, <2>3, <2>4
  <2>7. QED BY <1>0, <2>1, <2>2, <2>5, <2>6, SweptType DEF AssignmentWrites
<1>11. QED
  BY <1>1, <1>2, <1>3, <1>4, <1>5, <1>6, <1>7, <1>8, <1>9, <1>10
  DEF Next, vars, Begin, Serve, SignIn, BeginBootstrap, BeginGrant, BeginRevoke,
      BeginRequest, BeginDecision, ReviewRequest, RejectRequest, RecordAudit, Refuse, Crash

\* The chain of trust survives every step.
LEMMA TrustStep ==
  ASSUME TypeOK, JobsSound, ChainOfTrust, [Next]_vars
  PROVE  ChainOfTrust'
<1>1. AssignmentsGrow /\ AssignmentWrites /\ RequestWrites
  BY StepGrows, StepWrites
<1>2. /\ Len(assignments) \in Nat /\ Len(assignments') \in Nat
      /\ Len(assignments) <= Len(assignments')
      /\ DOMAIN assignments = 1..Len(assignments)
  BY <1>1 DEF TypeOK, AssignmentsGrow
<1>3. \A u, t : WasAdmin(u, t, Len(assignments)) => WasAdmin(u, t, Len(assignments))'
  BY <1>1, WasAdminGrows
<1>4. ASSUME NEW u, NEW t, NEW n \in 0..Len(assignments), WasAdmin(u, t, n)
      PROVE  WasAdmin(u, t, n)'
  BY <1>1, <1>4, WasAdminGrows
<1>5. ASSUME NEW i \in DOMAIN assignments', assignments'[i].granted_by # Bootstrapper
      PROVE  WasAdmin(assignments[i].granted_by, assignments[i].user, i - 1)'
  <2>1. PICK g, u : g = assignments'[i].granted_by /\ u = assignments'[i].user
    OBVIOUS
  <2>2. i - 1 \in 0..Len(assignments) /\ WasAdmin(g, u, i - 1)
    <3>1. CASE i \in DOMAIN assignments /\ Identity(assignments'[i]) = Identity(assignments[i])
      BY <1>2, <1>5, <2>1, <3>1 DEF ChainOfTrust, GrantsAreTrusted, Identity
    <3>2. CASE i = Len(assignments) + 1 /\ Trusted(g, u)
      BY <1>2, <3>2 DEF Trusted
    <3>3. QED BY <1>1, <1>5, <2>1, <3>1, <3>2 DEF AssignmentWrites
  <2>3. WasAdmin(g, u, i - 1)'
    BY <1>4, <2>2
  <2>4. QED BY <2>1, <2>3 DEF WasAdmin
<1>6. ASSUME NEW i \in DOMAIN assignments', assignments'[i].revoked_by # Nobody
      PROVE  WasAdmin(assignments[i].revoked_by, assignments[i].user, Len(assignments))'
  <2>1. PICK r, u : r = assignments'[i].revoked_by /\ u = assignments'[i].user
    OBVIOUS
  <2>2. WasAdmin(r, u, Len(assignments))
    BY <1>1, <1>6, <2>1 DEF AssignmentWrites, Identity, ChainOfTrust, GrantsAreTrusted, Trusted
  <2>3. WasAdmin(r, u, Len(assignments))'
    BY <1>3, <2>2
  <2>4. QED BY <2>1, <2>3 DEF WasAdmin
<1>7. ASSUME NEW k \in DOMAIN requests', requests'[k].decided_by # Nobody
      PROVE  WasAdmin(requests[k].decided_by, requests[k].user, Len(assignments))'
  <2>1. PICK d, u : d = requests'[k].decided_by /\ u = requests'[k].user
    OBVIOUS
  <2>2. WasAdmin(d, u, Len(assignments))
    BY <1>1, <1>7, <2>1 DEF RequestWrites, ChainOfTrust, DecisionsAreTrusted, Trusted
  <2>3. WasAdmin(d, u, Len(assignments))'
    BY <1>3, <2>2
  <2>4. QED BY <2>1, <2>3 DEF WasAdmin
<1>8. QED
  BY <1>5, <1>6, <1>7 DEF ChainOfTrust, GrantsAreTrusted, DecisionsAreTrusted

(***************************************************************************)
(* Authority over a tenant comes from that tenant's administrators alone:  *)
(* whoever granted, revoked or decided was made an administrator of that   *)
(* tenant by an earlier assignment, or is the bootstrap script.            *)
(***************************************************************************)
THEOREM AuthorityHasAChain == Spec => []ChainOfTrust
<1>1. Init => ChainOfTrust
  BY DEF Init, ChainOfTrust, GrantsAreTrusted, DecisionsAreTrusted, NewAssignment,
         BootstrapJob, NoJob
<1>2. ChainOfTrust /\ TypeOK /\ JobsSound /\ [Next]_vars => ChainOfTrust'
  BY TrustStep
<1>3. QED BY <1>1, <1>2, JobsAlwaysSound, PTL DEF Spec

(***************************************************************************)
(* Nobody grants to, revokes from or decides for themselves, whichever of  *)
(* the endpoints writes and whatever ran since its check.                  *)
(***************************************************************************)
THEOREM NobodyDealsWithThemselves == Spec => []NoSelfDealing
<1>1. Init => NoSelfDealing
  BY ConstantsAssumption
  DEF Init, NoSelfDealing, NewAssignment, BootstrapJob, NoJob, Actors
<1>2. TypeOK /\ JobsSound /\ NoSelfDealing /\ [Next]_vars => NoSelfDealing'
  <2> SUFFICES ASSUME TypeOK, JobsSound, NoSelfDealing, [Next]_vars PROVE NoSelfDealing'
    OBVIOUS
  <2>1. AssignmentWrites /\ RequestWrites
    BY StepWrites
  <2>2. ASSUME NEW i \in DOMAIN assignments'
        PROVE  assignments'[i].user \notin {assignments'[i].granted_by, assignments'[i].revoked_by}
    BY <2>1, ConstantsAssumption DEF AssignmentWrites, Identity, NoSelfDealing, Trusted, Actors
  <2>3. ASSUME NEW k \in DOMAIN requests'
        PROVE  requests'[k].user # requests'[k].decided_by
    BY <2>1, ConstantsAssumption DEF RequestWrites, NoSelfDealing, Trusted, Actors
  <2>4. QED BY <2>2, <2>3 DEF NoSelfDealing
<1>3. QED BY <1>1, <1>2, JobsAlwaysSound, PTL DEF Spec

-----------------------------------------------------------------------------
(***************************************************************************)
(* How one step may move the documents there are, and what the assignment  *)
(* it adds may be.                                                         *)
(***************************************************************************)
AssignmentMoves ==
    \A i \in DOMAIN assignments :
        LET a == assignments[i]
            b == assignments'[i]
        IN  /\ a.status # "active" => b.status = a.status /\ b.revoked_by = a.revoked_by
            /\ a.status # "active" => b.expiry = a.expiry
            /\ a.expiry \in {"never", "past"} => b.expiry = a.expiry
            /\ b.status = "expired" => a.status = "expired" \/ b.expiry = "past"

RequestMoves ==
    \A k \in DOMAIN requests :
        LET r == requests[k]
            s == requests'[k]
        IN  /\ r.status \in {"cancelled", "rejected"} => s = r
            /\ r.status = "approved" => s = r \/ s.status = "rejected"

AddedIsNew ==
    \A i \in DOMAIN assignments' : i \notin DOMAIN assignments =>
        /\ i = Len(assignments) + 1
        /\ assignments'[i].status = "active"
        /\ \A j \in DOMAIN assignments :
              assignments'[j].status = "active" =>
                  IndexKey(assignments'[j]) # IndexKey(assignments'[i])

\* Every action moves documents forward only.
LEMMA StepMoves ==
  ASSUME TypeOK, JobsSound, [Next]_vars
  PROVE  AssignmentMoves /\ RequestMoves /\ AddedIsNew
<1>0. /\ assignments \in Seq(Assignment) /\ requests \in Seq(AccessRequest)
      /\ Len(assignments) \in Nat /\ Len(requests) \in Nat
      /\ \A i \in DOMAIN assignments : assignments[i] \in Assignment
      /\ \A k \in DOMAIN requests : requests[k] \in AccessRequest
      /\ \A w \in Workers : work[w] \in Job /\ JobSound(work[w])
  BY DEF TypeOK, JobsSound
<1>1. ASSUME UNCHANGED assignments PROVE AssignmentMoves /\ AddedIsNew
  BY <1>1 DEF AssignmentMoves, AddedIsNew
<1>2. ASSUME UNCHANGED requests PROVE RequestMoves
  BY <1>2 DEF RequestMoves
<1>3. ASSUME NEW i \in DOMAIN assignments, Lapse(i)
      PROVE  AssignmentMoves /\ AddedIsNew /\ RequestMoves
  <2>1. /\ DOMAIN assignments' = DOMAIN assignments
        /\ \A n \in DOMAIN assignments : n # i => assignments'[n] = assignments[n]
        /\ assignments[i].expiry = "future" /\ assignments[i].status = "active"
        /\ assignments'[i].status = "active"
    BY <1>0, <1>3 DEF Lapse, Assignment
  <2>2. QED BY <1>2, <1>3, <2>1 DEF Lapse, AssignmentMoves, AddedIsNew
<1>4. ASSUME NEW w \in Workers, SweepExpired(w)
      PROVE  AssignmentMoves /\ AddedIsNew /\ RequestMoves
  <2>1. assignments' = Swept(work[w])
    BY <1>4 DEF SweepExpired
  <2>2. AssignmentMoves
    BY <1>0, <2>1, SweptType DEF AssignmentMoves
  <2>3. AddedIsNew
    BY <1>0, <2>1, SweptType DEF AddedIsNew
  <2>4. QED BY <1>2, <1>4, <2>2, <2>3 DEF SweepExpired
<1>5. ASSUME NEW w \in Workers, InsertAssignment(w)
      PROVE  AssignmentMoves /\ AddedIsNew /\ RequestMoves
  <2>1. work[w].target \in Users
    BY <1>0, <1>5 DEF InsertAssignment, JobSound
  <2>2. PICK e \in Expiries :
          /\ KeyFree(assignments, NewAssignment(work[w], e))
          /\ assignments' = Append(assignments, NewAssignment(work[w], e))
    BY <1>5 DEF InsertAssignment, Expiries
  <2> DEFINE d == NewAssignment(work[w], e)
  <2>3. d.status = "active" /\ d \in Assignment
    BY <1>0, <2>1, NewType DEF NewAssignment
  <2> HIDE DEF d
  <2>4. /\ \A i \in DOMAIN assignments : assignments'[i] = assignments[i]
        /\ \A i \in DOMAIN assignments' : i \notin DOMAIN assignments =>
              i = Len(assignments) + 1 /\ assignments'[i] = d
    BY <1>0, <2>2, <2>3 DEF d
  <2>5. AssignmentMoves
    BY <2>4 DEF AssignmentMoves
  <2>6. AddedIsNew
    BY <2>2, <2>3, <2>4 DEF AddedIsNew, KeyFree, d
  <2>7. QED BY <1>2, <1>5, <2>5, <2>6 DEF InsertAssignment
<1>6. ASSUME NEW w \in Workers, RevokeAssignment(w)
      PROVE  AssignmentMoves /\ AddedIsNew /\ RequestMoves
  <2> DEFINE id == work[w].id
  <2>1. id \in DOMAIN assignments /\ assignments[id].status = "active"
    BY <1>0, <1>6 DEF RevokeAssignment, JobSound
  <2>2. assignments[id] \in Assignment
    BY <1>0, <2>1
  <2>3. assignments' = [assignments EXCEPT ![id].status = "revoked",
                                           ![id].revoked_by = work[w].actor]
    BY <1>6 DEF RevokeAssignment
  <2>4. /\ DOMAIN assignments' = DOMAIN assignments
        /\ \A n \in DOMAIN assignments : n # id => assignments'[n] = assignments[n]
        /\ assignments'[id].expiry = assignments[id].expiry
        /\ assignments'[id].status = "revoked"
    BY <1>0, <2>1, <2>2, <2>3 DEF Assignment
  <2>5. QED BY <1>2, <1>6, <2>1, <2>4 DEF RevokeAssignment, AssignmentMoves, AddedIsNew
<1>7. ASSUME NEW w \in Workers, CreateRequest(w)
      PROVE  AssignmentMoves /\ AddedIsNew /\ RequestMoves
  BY <1>0, <1>1, <1>7 DEF CreateRequest, RequestMoves
<1>8. ASSUME NEW w \in Workers, NEW u \in Users, NEW k \in DOMAIN requests,
             CancelRequest(w, u, k)
      PROVE  AssignmentMoves /\ AddedIsNew /\ RequestMoves
  <2>1. /\ requests[k].status = "pending"
        /\ \A n \in DOMAIN requests : n # k => requests'[n] = requests[n]
    BY <1>0, <1>8 DEF CancelRequest
  <2>2. QED BY <1>1, <1>8, <2>1 DEF CancelRequest, RequestMoves
<1>9. ASSUME NEW w \in Workers, ApproveRequest(w) \/ RejectRequest(w)
      PROVE  RequestMoves
  <2> DEFINE id == work[w].id
  <2>1. \A n \in DOMAIN requests : n # id => requests'[n] = requests[n]
    BY <1>0, <1>9 DEF ApproveRequest, RejectRequest
  <2>2. CASE ApproveRequest(w)
    BY <2>1, <2>2 DEF ApproveRequest, Approvable, RequestMoves
  <2>3. CASE RejectRequest(w)
    <3>1. id \in DOMAIN requests
      BY <1>0, <2>3 DEF RejectRequest, JobSound
    <3>2. /\ requests[id].status \in {"pending", "approved"}
          /\ requests'[id].status = "rejected"
      BY <1>0, <2>3, <3>1 DEF RejectRequest, Rejectable, AccessRequest
    <3>3. QED BY <2>1, <3>2 DEF RequestMoves
  <2>4. QED BY <1>9, <2>2, <2>3
<1>10. ASSUME NEW w \in Workers, ApproveRequest(w)
       PROVE  AssignmentMoves /\ AddedIsNew
  <2> DEFINE d == NewAssignment(work[w], "never")
             s == Swept(work[w])
  <2>1. d \in Assignment /\ d.status = "active"
    BY <1>0, <1>10, NewType DEF ApproveRequest, JobSound, NewAssignment, Expiries
  <2>2. assignments' = Append(s, d) /\ KeyFree(s, d)
    BY <1>10 DEF ApproveRequest, Approvable, Granted
  <2>3. /\ s \in Seq(Assignment) /\ Len(s) = Len(assignments)
        /\ DOMAIN s = DOMAIN assignments
    BY <1>0, SweptType
  <2>4. \A i \in DOMAIN assignments :
          /\ s[i].revoked_by = assignments[i].revoked_by
          /\ s[i].expiry = assignments[i].expiry
          /\ \/ s[i].status = assignments[i].status
             \/ /\ assignments[i].status = "active" /\ assignments[i].expiry = "past"
                /\ s[i].status = "expired"
    BY <1>0, SweptType
  <2> HIDE DEF d, s
  <2>5. /\ \A i \in DOMAIN assignments : assignments'[i] = s[i]
        /\ \A i \in DOMAIN assignments' : i \notin DOMAIN assignments =>
              i = Len(assignments) + 1 /\ assignments'[i] = d
    BY <1>0, <2>1, <2>2, <2>3
  <2>6. AssignmentMoves
    BY <2>4, <2>5 DEF AssignmentMoves
  <2>7. AddedIsNew
    BY <2>1, <2>2, <2>3, <2>5 DEF AddedIsNew, KeyFree
  <2>8. QED BY <2>6, <2>7
<1>11. QED
  BY <1>1, <1>2, <1>3, <1>4, <1>5, <1>6, <1>7, <1>8, <1>9, <1>10
  DEF Next, vars, Begin, Serve, SignIn, BeginBootstrap, BeginGrant, BeginRevoke,
      BeginRequest, BeginDecision, ReviewRequest, RejectRequest, RecordAudit, Refuse, Crash

(***************************************************************************)
(* Requests for the same grant that overtake each other never leave two    *)
(* active assignments of one role and scope that were granted through the  *)
(* API: the unique index decides at the insert, whatever was read before.  *)
(***************************************************************************)
THEOREM NothingIsGrantedTwice == Spec => []NoDoubleGrant
<1>1. Init => NoDoubleGrant
  BY DEF Init, NoDoubleGrant, NewAssignment, BootstrapJob, NoJob
<1>2. TypeOK /\ JobsSound /\ NoDoubleGrant /\ [Next]_vars => NoDoubleGrant'
  <2> SUFFICES ASSUME TypeOK, JobsSound, NoDoubleGrant, [Next]_vars,
                      NEW i \in DOMAIN assignments', NEW j \in DOMAIN assignments',
                      assignments'[i].status = "active", assignments'[j].status = "active",
                      Bootstrapper \notin {assignments'[i].granted_by,
                                           assignments'[j].granted_by},
                      assignments'[i].user = assignments'[j].user,
                      assignments'[i].role = assignments'[j].role,
                      assignments'[i].scope = assignments'[j].scope
               PROVE  i = j
    BY DEF NoDoubleGrant
  <2>1. AssignmentsGrow /\ AssignmentMoves /\ AddedIsNew
    BY StepGrows, StepMoves
  <2>2. IndexKey(assignments'[i]) = IndexKey(assignments'[j])
    BY DEF IndexKey
  <2>3. CASE i \in DOMAIN assignments /\ j \in DOMAIN assignments
    <3>1. \A n \in {i, j} : /\ assignments[n].status = "active"
                            /\ Identity(assignments'[n]) = Identity(assignments[n])
      BY <2>1, <2>3 DEF AssignmentsGrow, AssignmentMoves
    <3>2. QED BY <2>3, <3>1 DEF NoDoubleGrant, Identity
  <2>4. CASE i \notin DOMAIN assignments \/ j \notin DOMAIN assignments
    BY <2>1, <2>2, <2>4 DEF AddedIsNew
  <2>5. QED BY <2>3, <2>4
<1>3. QED BY <1>1, <1>2, JobsAlwaysSound, PTL DEF Spec

\* What DocumentsMoveForward needs of the state before a step.
ExpiredHasLapsed ==
    \A i \in DOMAIN assignments :
        assignments[i].status = "expired" => assignments[i].expiry = "past"

(***************************************************************************)
(* Documents only move forward, through every path that writes them: no    *)
(* revoked or expired assignment comes back, only a lapsed one expires,    *)
(* and a cancelled or rejected request is final.                           *)
(***************************************************************************)
THEOREM DocumentsNeverGoBack == Spec => DocumentsMoveForward
<1>1. Init => ExpiredHasLapsed
  BY DEF Init, ExpiredHasLapsed, NewAssignment
<1>2. ASSUME TypeOK, JobsSound, ExpiredHasLapsed, [Next]_vars
      PROVE  ExpiredHasLapsed'
  <2>1. AssignmentMoves /\ AddedIsNew
    BY <1>2, StepMoves
  <2>2. QED BY <1>2, <2>1 DEF ExpiredHasLapsed, AssignmentMoves, AddedIsNew
<1>3. ASSUME TypeOK, JobsSound, ExpiredHasLapsed, [Next]_vars
      PROVE  /\ \A i \in DOMAIN assignments :
                  LET a == assignments[i]
                      b == assignments'[i]
                  IN  /\ <<a.user, a.role, a.scope, a.granted_by>> =
                         <<b.user, b.role, b.scope, b.granted_by>>
                      /\ a.status # "active" =>
                            b.status = a.status /\ b.revoked_by = a.revoked_by
                      /\ b.status = "expired" => b.expiry = "past"
             /\ \A k \in DOMAIN requests :
                  LET r == requests[k]
                      s == requests'[k]
                  IN  /\ s.user = r.user /\ s.role = r.role
                      /\ r.status \in {"cancelled", "rejected"} => s = r
                      /\ r.status = "approved" => s.status \in {"approved", "rejected"}
  <2>1. AssignmentsGrow /\ RequestsGrow /\ AssignmentMoves /\ RequestMoves
    BY <1>3, StepGrows, StepMoves
  <2>2. ASSUME NEW i \in DOMAIN assignments
        PROVE  Identity(assignments[i]) = Identity(assignments'[i])
    BY <2>1 DEF AssignmentsGrow
  <2>3. ASSUME NEW i \in DOMAIN assignments, assignments'[i].status = "expired"
        PROVE  assignments'[i].expiry = "past"
    BY <1>3, <2>1, <2>3 DEF AssignmentMoves, ExpiredHasLapsed
  <2>4. QED
    BY <2>1, <2>2, <2>3 DEF Identity, AssignmentMoves, RequestsGrow, RequestMoves
<1>4. QED BY <1>1, <1>2, <1>3, JobsAlwaysSound, PTL DEF Spec, DocumentsMoveForward

\* A request approved by this step was granted by it, and both are in the trail.
GrantOf(k, i) ==
    /\ assignments[i].user = requests[k].user
    /\ assignments[i].role = requests[k].role
    /\ assignments[i].scope = "global" /\ assignments[i].expiry = "never"
    /\ assignments[i].granted_by = requests[k].decided_by
    /\ {Record("granted", i, requests[k].decided_by),
        Record("approved", k, requests[k].decided_by)} \subseteq audit

\* The approving transaction leaves the grant, the decision and both events.
LEMMA ApprovalStep ==
  ASSUME TypeOK, JobsSound, NEW w \in Workers, ApproveRequest(w),
         NEW k, NEW i, k = work[w].id, i = Len(assignments) + 1
  PROVE  /\ i \in DOMAIN assignments' /\ GrantOf(k, i)'
         /\ \A n \in DOMAIN requests : n # k => requests'[n] = requests[n]
<1> DEFINE d == NewAssignment(work[w], "never")
<1>1. /\ work[w] \in Job /\ k \in DOMAIN requests /\ requests[k] \in AccessRequest
      /\ work[w].target \in Users /\ requests[k].user = work[w].target
      /\ work[w].payload = GlobalGrant(requests[k].role)
  BY DEF TypeOK, JobsSound, JobSound, ApproveRequest
<1>2. d \in Assignment
  BY <1>1, NewType DEF Expiries
<1>3. /\ d.user = requests[k].user /\ d.role = requests[k].role
      /\ d.scope = "global" /\ d.expiry = "never" /\ d.granted_by = work[w].actor
  BY <1>1 DEF NewAssignment, GlobalGrant
<1> HIDE DEF d
<1>4. i \in DOMAIN assignments' /\ assignments'[i] = d
  <2>1. assignments' = Append(Swept(work[w]), d)
    BY DEF ApproveRequest, Granted, d
  <2>2. Swept(work[w]) \in Seq(Assignment) /\ Len(Swept(work[w])) = Len(assignments)
    BY SweptType DEF TypeOK
  <2>3. QED BY <1>2, <2>1, <2>2 DEF TypeOK
<1>5. /\ requests'[k].user = requests[k].user /\ requests'[k].role = requests[k].role
      /\ requests'[k].decided_by = work[w].actor
      /\ \A n \in DOMAIN requests : n # k => requests'[n] = requests[n]
  BY <1>1 DEF ApproveRequest, TypeOK, AccessRequest
<1>6. {Record("granted", i, work[w].actor), Record("approved", k, work[w].actor)}
         \subseteq audit'
  BY DEF ApproveRequest
<1>7. QED BY <1>3, <1>4, <1>5, <1>6 DEF GrantOf, Record

(***************************************************************************)
(* "Grant the role and close the request in one MongoDB transaction": a    *)
(* request reads approved only beside the grant of the role it asked for,  *)
(* by the administrator who approved it, and both are in the audit trail.  *)
(***************************************************************************)
THEOREM ApprovalsAreGranted == Spec => []ApprovedIsGranted
<1>1. Init => ApprovedIsGranted
  BY DEF Init, ApprovedIsGranted
<1>2. TypeOK /\ JobsSound /\ ApprovedIsGranted /\ [Next]_vars => ApprovedIsGranted'
  <2> SUFFICES ASSUME TypeOK, JobsSound, ApprovedIsGranted, [Next]_vars,
                      NEW k \in DOMAIN requests', requests'[k].status = "approved"
               PROVE  \E i \in DOMAIN assignments' : GrantOf(k, i)'
    BY DEF ApprovedIsGranted, GrantOf
  <2>1. AssignmentsGrow /\ AssignmentMoves
    BY StepGrows, StepMoves
  <2>2. audit \subseteq audit'
    BY DEF Next, vars, Begin, Serve, SignIn, Lapse, BeginBootstrap, BeginGrant, BeginRevoke,
       BeginRequest, CancelRequest, BeginDecision, SweepExpired, InsertAssignment,
       RevokeAssignment, CreateRequest, ReviewRequest, ApproveRequest, RejectRequest,
       RecordAudit, Refuse, Crash
  <2>3. CASE k \in DOMAIN requests /\ requests'[k] = requests[k]
    <3>1. PICK i \in DOMAIN assignments : GrantOf(k, i)
      BY <2>3 DEF ApprovedIsGranted, GrantOf
    <3>2. /\ i \in DOMAIN assignments' /\ assignments'[i].expiry = "never"
          /\ Identity(assignments'[i]) = Identity(assignments[i])
      BY <2>1, <3>1 DEF AssignmentsGrow, AssignmentMoves, GrantOf
    <3>3. GrantOf(k, i)'
      BY <2>2, <2>3, <3>1, <3>2 DEF GrantOf, Identity, Record
    <3>4. QED BY <3>2, <3>3
  <2>4. CASE \E w \in Workers : ApproveRequest(w)
    <3>1. PICK w \in Workers : ApproveRequest(w)
      BY <2>4
    <3>2. DOMAIN requests' = DOMAIN requests
      BY <3>1 DEF ApproveRequest, TypeOK
    <3>3. PICK id, n : id = work[w].id /\ n = Len(assignments) + 1
      OBVIOUS
    <3>4. /\ n \in DOMAIN assignments' /\ GrantOf(id, n)'
          /\ \A m \in DOMAIN requests : m # id => requests'[m] = requests[m]
      BY <3>1, <3>3, ApprovalStep
    <3>5. CASE k = id
      BY <3>4, <3>5
    <3>6. CASE k # id
      BY <2>3, <3>2, <3>4, <3>6
    <3>7. QED BY <3>5, <3>6
  <2>5. ASSUME ~(\E w \in Workers : ApproveRequest(w))
        PROVE  k \in DOMAIN requests /\ requests'[k] = requests[k]
    <3>1. requests \in Seq(AccessRequest) /\ \A n \in DOMAIN requests : requests[n] \in AccessRequest
      BY DEF TypeOK
    <3>2. CASE UNCHANGED requests
      BY <3>2
    <3>3. ASSUME NEW w \in Workers, CreateRequest(w)
          PROVE  k \in DOMAIN requests /\ requests'[k] = requests[k]
      BY <3>1, <3>3 DEF CreateRequest
    <3>4. ASSUME NEW w \in Workers, NEW u \in Users, NEW n \in DOMAIN requests,
                 CancelRequest(w, u, n)
          PROVE  k \in DOMAIN requests /\ requests'[k] = requests[k]
      BY <3>1, <3>4 DEF CancelRequest, AccessRequest
    <3>5. ASSUME NEW w \in Workers, RejectRequest(w)
          PROVE  k \in DOMAIN requests /\ requests'[k] = requests[k]
      <4>1. work[w].id \in DOMAIN requests
        BY <3>5 DEF RejectRequest, JobsSound, JobSound
      <4>2. requests'[work[w].id].status = "rejected"
        BY <3>1, <3>5, <4>1 DEF RejectRequest, AccessRequest
      <4>3. QED BY <3>1, <3>5, <4>2 DEF RejectRequest
    <3>6. QED
      BY <2>5, <3>2, <3>3, <3>4, <3>5
      DEF Next, vars, Begin, Serve, SignIn, Lapse, BeginBootstrap, BeginGrant, BeginRevoke,
          BeginRequest, BeginDecision, SweepExpired, InsertAssignment, RevokeAssignment,
          ReviewRequest, RecordAudit, Refuse, Crash
  <2>6. QED BY <2>3, <2>4, <2>5
<1>3. QED BY <1>1, <1>2, JobsAlwaysSound, PTL DEF Spec

-----------------------------------------------------------------------------
(***************************************************************************)
(* What overlapping requests can break.  The properties of the run         *)
(* access_serial fail when requests overlap; the theorems below name the   *)
(* two overlaps that are to blame: a rejection in flight beside an         *)
(* approval of the same request, and a revocation in flight of an admin    *)
(* role whose holder's own write is in flight.  Everything else may        *)
(* interleave, with any number of workers.                                 *)
(***************************************************************************)
WriterSteps == {"sweep", "insert", "revoke", "review", "approve", "reject"}

DecisionsApart ==
    \A v, w \in Workers :
        work[v].step = "approve" /\ work[w].step = "reject" => work[v].id # work[w].id

RevocationsApart ==
    \A v, w \in Workers :
        /\ work[v].step = "revoke" /\ assignments[work[v].id].role = "admin"
        /\ work[w].step \in WriterSteps /\ v # w
        => work[w].actor # work[v].target

\* Requests served one at a time are apart.
LEMMA InTurnIsApart ==
  ASSUME \A v, w \in Workers : v = w
  PROVE  Spec => [](DecisionsApart /\ RevocationsApart)
<1>1. DecisionsApart /\ RevocationsApart
  BY DEF DecisionsApart, RevocationsApart
<1>2. QED BY <1>1, PTL

\* Only the revoke endpoint revokes, and only the document it was asked to.
LEMMA RevokedByOne ==
  ASSUME TypeOK, JobsSound, [Next]_vars, NEW i \in DOMAIN assignments,
         assignments'[i].status = "revoked"
  PROVE  \/ assignments[i].status = "revoked"
         \/ \E w \in Workers : RevokeAssignment(w) /\ work[w].id = i
<1>0. /\ assignments \in Seq(Assignment) /\ i \in 1..Len(assignments)
      /\ assignments[i] \in Assignment
      /\ \A w \in Workers : work[w] \in Job /\ JobSound(work[w])
  BY DEF TypeOK, JobsSound
<1>1. CASE UNCHANGED assignments
  BY <1>1
<1>2. ASSUME NEW n \in DOMAIN assignments, Lapse(n)
      PROVE  assignments[i].status = "revoked"
  BY <1>0, <1>2 DEF Lapse
<1>3. ASSUME NEW w \in Workers, SweepExpired(w)
      PROVE  assignments[i].status = "revoked"
  BY <1>0, <1>3, SweptType DEF SweepExpired
<1>4. ASSUME NEW w \in Workers, InsertAssignment(w)
      PROVE  assignments[i].status = "revoked"
  BY <1>0, <1>4 DEF InsertAssignment
<1>5. ASSUME NEW w \in Workers, RevokeAssignment(w), work[w].id # i
      PROVE  assignments[i].status = "revoked"
  BY <1>0, <1>5 DEF RevokeAssignment
<1>6. ASSUME NEW w \in Workers, ApproveRequest(w)
      PROVE  assignments[i].status = "revoked"
  <2>1. assignments'[i] = Swept(work[w])[i]
    <3>1. Swept(work[w]) \in Seq(Assignment) /\ Len(Swept(work[w])) = Len(assignments)
      BY <1>0, SweptType
    <3>2. QED BY <1>0, <1>6, <3>1 DEF ApproveRequest, Granted
  <2>2. QED BY <1>0, <2>1, SweptType
<1>7. QED
  BY <1>1, <1>2, <1>3, <1>4, <1>5, <1>6
  DEF Next, vars, Begin, Serve, SignIn, BeginBootstrap, BeginGrant, BeginRevoke,
      BeginRequest, CancelRequest, BeginDecision, CreateRequest, ReviewRequest,
      RejectRequest, RecordAudit, Refuse, Crash

\* The permission check finds an administrator whose role is live.
LEMMA ManagersAdminister ==
  ASSUME TypeOK, NEW u \in Users, MayManageAccess(u)
  PROVE  IsAdministrator(u)
<1>1. PICK i \in DOMAIN assignments :
          /\ assignments[i].user = u /\ Live(assignments[i])
          /\ "access.manage" \in RolePermissions[assignments[i].role]
  BY DEF MayManageAccess
<1>2. assignments[i] \in Assignment
  BY DEF TypeOK
<1>3. assignments[i].role \in Roles /\ RolePermissions["editor"] = EditorPermissions
  BY <1>2 DEF Assignment, RolePermissions
<1>4. assignments[i].role = "admin"
  BY <1>1, <1>3 DEF Roles, EditorPermissions
<1>5. QED BY <1>1, <1>4 DEF IsAdministrator, AdminRoles

\* An admin role that nobody revokes is not revoked, though it may lapse.
LEMMA NotRevokedStays ==
  ASSUME TypeOK, JobsSound, [Next]_vars, NEW u, NotRevoked(u),
         \A w \in Workers :
            /\ RevokeAssignment(w) /\ assignments[work[w].id].role = "admin"
            => assignments[work[w].id].user # u
  PROVE  NotRevoked(u)'
<1>1. PICK i \in DOMAIN assignments :
          /\ assignments[i].user = u /\ assignments[i].role = "admin"
          /\ assignments[i].status # "revoked"
  BY DEF NotRevoked, AdminRoles
<1>2. /\ i \in DOMAIN assignments'
      /\ assignments'[i].user = u /\ assignments'[i].role = "admin"
  BY <1>1, StepGrows DEF AssignmentsGrow, Identity
<1>3. assignments'[i].status # "revoked"
  BY <1>1, RevokedByOne
<1>4. QED BY <1>2, <1>3 DEF NotRevoked, AdminRoles

\* A live role goes by a revocation or by the clock.
LEMMA LiveStays ==
  ASSUME TypeOK, JobsSound, [Next]_vars, NEW i \in DOMAIN assignments, Live(assignments[i]),
         ~Lapse(i), \A w \in Workers : RevokeAssignment(w) => work[w].id # i
  PROVE  Live(assignments'[i])
<1>0. /\ assignments \in Seq(Assignment) /\ i \in 1..Len(assignments)
      /\ assignments[i] \in Assignment
      /\ assignments[i].status = "active" /\ assignments[i].expiry # "past"
      /\ \A w \in Workers : work[w] \in Job /\ JobSound(work[w])
  BY DEF TypeOK, JobsSound, Live
<1>1. CASE UNCHANGED assignments
  BY <1>1
<1>2. ASSUME NEW n \in DOMAIN assignments, Lapse(n) PROVE Live(assignments'[i])
  <2>1. assignments'[i] = assignments[i]
    BY <1>0, <1>2 DEF Lapse
  <2>2. QED BY <2>1
<1>3. ASSUME NEW w \in Workers, SweepExpired(w) PROVE Live(assignments'[i])
  BY <1>0, <1>3, SweptType DEF SweepExpired, Live
<1>4. ASSUME NEW w \in Workers, InsertAssignment(w) PROVE Live(assignments'[i])
  <2>1. assignments'[i] = assignments[i]
    BY <1>0, <1>4 DEF InsertAssignment
  <2>2. QED BY <2>1
<1>5. ASSUME NEW w \in Workers, RevokeAssignment(w) PROVE Live(assignments'[i])
  <2>1. assignments'[i] = assignments[i]
    BY <1>0, <1>5 DEF RevokeAssignment
  <2>2. QED BY <2>1
<1>6. ASSUME NEW w \in Workers, ApproveRequest(w) PROVE Live(assignments'[i])
  <2>1. assignments'[i] = Swept(work[w])[i]
    <3>1. Swept(work[w]) \in Seq(Assignment) /\ Len(Swept(work[w])) = Len(assignments)
      BY <1>0, SweptType
    <3>2. QED BY <1>0, <1>6, <3>1 DEF ApproveRequest, Granted
  <2>2. QED BY <1>0, <2>1, SweptType DEF Live
<1>7. QED
  BY <1>1, <1>2, <1>3, <1>4, <1>5, <1>6
  DEF Next, vars, Begin, Serve, SignIn, BeginBootstrap, BeginGrant, BeginRevoke,
      BeginRequest, CancelRequest, BeginDecision, CreateRequest, ReviewRequest,
      RejectRequest, RecordAudit, Refuse, Crash

\* Only an approval approves, and only the request it was asked to.
LEMMA ApprovedByOne ==
  ASSUME TypeOK, JobsSound, [Next]_vars, NEW k \in DOMAIN requests,
         requests'[k].status = "approved"
  PROVE  \/ requests[k].status = "approved"
         \/ \E w \in Workers : ApproveRequest(w) /\ work[w].id = k
<1>0. /\ requests \in Seq(AccessRequest) /\ requests[k] \in AccessRequest
      /\ \A w \in Workers : work[w] \in Job /\ JobSound(work[w])
  BY DEF TypeOK, JobsSound
<1>1. CASE UNCHANGED requests
  BY <1>1
<1>2. ASSUME NEW w \in Workers, CreateRequest(w)
      PROVE  requests[k].status = "approved"
  BY <1>0, <1>2 DEF CreateRequest
<1>3. ASSUME NEW w \in Workers, NEW u \in Users, NEW n \in DOMAIN requests,
             CancelRequest(w, u, n)
      PROVE  requests[k].status = "approved"
  BY <1>0, <1>3 DEF CancelRequest, AccessRequest
<1>4. ASSUME NEW w \in Workers, ApproveRequest(w), work[w].id # k
      PROVE  requests[k].status = "approved"
  BY <1>0, <1>4 DEF ApproveRequest
<1>5. ASSUME NEW w \in Workers, RejectRequest(w)
      PROVE  requests[k].status = "approved"
  <2>1. CASE work[w].id = k
    <3>1. requests'[k].status = "rejected"
      BY <1>0, <1>5, <2>1 DEF RejectRequest, AccessRequest
    <3>2. QED BY <3>1
  <2>2. CASE work[w].id # k
    BY <1>0, <1>5, <2>2 DEF RejectRequest
  <2>3. QED BY <2>1, <2>2
<1>6. QED
  BY <1>1, <1>2, <1>3, <1>4, <1>5
  DEF Next, vars, Begin, Serve, SignIn, Lapse, BeginBootstrap, BeginGrant, BeginRevoke,
      BeginRequest, BeginDecision, SweepExpired, InsertAssignment, RevokeAssignment,
      ReviewRequest, RecordAudit, Refuse, Crash

\* What a rejection has read stays true enough: its request is not approved.
RejectsOpen ==
    \A w \in Workers :
        work[w].step = "reject" => requests[work[w].id].status # "approved"

\* A worker comes to its rejection from its review alone.
LEMMA RejectsBegin ==
  ASSUME TypeOK, [Next]_vars, NEW w \in Workers, work'[w].step = "reject"
  PROVE  \/ work'[w] = work[w]
         \/ /\ UNCHANGED requests
            /\ requests[work'[w].id].status = "pending"
<1>0. work \in [Workers -> Job]
  BY DEF TypeOK
<1>1. CASE UNCHANGED work
  BY <1>1
<1>2. ASSUME NEW v \in Workers, Begin(v) PROVE work'[w] = work[w]
  <2>1. CASE v # w
    BY <1>0, <1>2, <2>1
    DEF Begin, BeginBootstrap, BeginGrant, BeginRevoke, BeginRequest, CancelRequest,
        BeginDecision, Start
  <2>2. CASE v = w
    <3>1. ASSUME NEW u \in Users, BeginBootstrap(w, u) PROVE FALSE
      BY <1>0, <3>1 DEF BeginBootstrap, Start, BootstrapJob, NoJob
    <3>2. ASSUME NEW u \in Users, NEW t \in Users, NEW p \in Payloads, BeginGrant(w, u, t, p)
          PROVE  FALSE
      BY <1>0, <3>2 DEF BeginGrant, Start, NoJob
    <3>3. ASSUME NEW u \in Users, NEW i \in DOMAIN assignments, BeginRevoke(w, u, i)
          PROVE  FALSE
      BY <1>0, <3>3 DEF BeginRevoke, Start, NoJob
    <3>4. ASSUME NEW u \in Users, NEW role \in Roles, BeginRequest(w, u, role)
          PROVE  FALSE
      BY <1>0, <3>4 DEF BeginRequest, Start, NoJob
    <3>5. ASSUME NEW u \in Users, NEW k \in DOMAIN requests, CancelRequest(w, u, k)
          PROVE  FALSE
      BY <1>0, <3>5 DEF CancelRequest, Start, NoJob
    <3>6. ASSUME NEW u \in Users, NEW k \in DOMAIN requests,
                 NEW event \in {"approved", "rejected"}, BeginDecision(w, u, k, event)
          PROVE  FALSE
      BY <1>0, <3>6 DEF BeginDecision, Start, NoJob
    <3>7. QED BY <1>2, <2>2, <3>1, <3>2, <3>3, <3>4, <3>5, <3>6 DEF Begin
  <2>3. QED BY <2>1, <2>2
<1>3. ASSUME NEW v \in Workers, ReviewRequest(v)
      PROVE  \/ work'[w] = work[w]
             \/ UNCHANGED requests /\ requests[work'[w].id].status = "pending"
  <2>1. UNCHANGED requests /\ (v # w => work'[w] = work[w])
    BY <1>0, <1>3 DEF ReviewRequest
  <2>2. v = w => requests[work'[w].id].status = "pending"
    BY <1>0, <1>3 DEF ReviewRequest, Reviewable, Job
  <2>3. QED BY <2>1, <2>2
<1>4. ASSUME NEW v \in Workers, Crash(v) \/ (Serve(v) /\ ~ReviewRequest(v))
      PROVE  work'[w] = work[w]
  <2>1. work'[v].step # "reject" /\ (v # w => work'[w] = work[w])
    BY <1>0, <1>4
    DEF Serve, Crash, SweepExpired, InsertAssignment, RevokeAssignment, CreateRequest,
        ApproveRequest, RejectRequest, RecordAudit, Refuse, Continue, Finish, Job, NoJob
  <2>2. QED BY <2>1
<1>5. QED BY <1>1, <1>2, <1>3, <1>4 DEF Next, SignIn, Lapse, vars

\* With decisions apart, a rejection never meets a request approved meanwhile.
LEMMA RejectsStep ==
  ASSUME TypeOK, JobsSound, DecisionsApart, RejectsOpen, [Next]_vars
  PROVE  /\ RejectsOpen'
         /\ \A k \in DOMAIN requests :
               requests[k].status # "pending" => requests'[k] = requests[k]
<1>0. /\ requests \in Seq(AccessRequest) /\ work \in [Workers -> Job]
      /\ \A w \in Workers : work[w] \in Job /\ JobSound(work[w])
      /\ \A k \in DOMAIN requests : requests[k] \in AccessRequest
  BY DEF TypeOK, JobsSound
<1>1. ASSUME NEW w \in Workers, work'[w].step = "reject"
      PROVE  requests'[work'[w].id].status # "approved"
  <2>1. CASE work'[w] = work[w]
    <3>1. /\ work[w].id \in DOMAIN requests
          /\ requests[work[w].id].status # "approved"
      BY <1>0, <1>1, <2>1 DEF JobSound, RejectsOpen
    <3>2. \A v \in Workers : ApproveRequest(v) => work[v].id # work[w].id
      BY <1>1, <2>1 DEF ApproveRequest, DecisionsApart
    <3>3. QED BY <2>1, <3>1, <3>2, ApprovedByOne
  <2>2. CASE UNCHANGED requests /\ requests[work'[w].id].status = "pending"
    BY <2>2
  <2>3. QED BY <1>1, <2>1, <2>2, RejectsBegin
<1>2. ASSUME NEW k \in DOMAIN requests, requests[k].status # "pending"
      PROVE  requests'[k] = requests[k]
  <2>1. CASE UNCHANGED requests
    BY <2>1
  <2>2. ASSUME NEW w \in Workers, CreateRequest(w) PROVE requests'[k] = requests[k]
    BY <1>0, <2>2 DEF CreateRequest
  <2>3. ASSUME NEW w \in Workers, NEW u \in Users, NEW n \in DOMAIN requests,
               CancelRequest(w, u, n)
        PROVE  requests'[k] = requests[k]
    BY <1>0, <1>2, <2>3 DEF CancelRequest
  <2>4. ASSUME NEW w \in Workers, ApproveRequest(w) PROVE requests'[k] = requests[k]
    BY <1>0, <1>2, <2>4 DEF ApproveRequest, Approvable
  <2>5. ASSUME NEW w \in Workers, RejectRequest(w) PROVE requests'[k] = requests[k]
    <3>1. requests[work[w].id].status = "pending"
      BY <2>5 DEF RejectRequest, Rejectable, RejectsOpen
    <3>2. QED BY <1>0, <1>2, <2>5, <3>1 DEF RejectRequest
  <2>6. QED
    BY <2>1, <2>2, <2>3, <2>4, <2>5
    DEF Next, vars, Begin, Serve, SignIn, Lapse, BeginBootstrap, BeginGrant, BeginRevoke,
        BeginRequest, BeginDecision, SweepExpired, InsertAssignment, RevokeAssignment,
        ReviewRequest, RecordAudit, Refuse, Crash
<1>3. QED BY <1>1, <1>2 DEF RejectsOpen

(***************************************************************************)
(* "access request is no longer pending" (services/authorization.py        *)
(* decide_access_request): no closed access request is written again,      *)
(* unless an approval and a rejection of it are in flight together.  The   *)
(* run access_reject_race shows that those two do break it.                *)
(***************************************************************************)
THEOREM DecidedOnce == Spec /\ []DecisionsApart => ClosedRequestsStayClosed
<1>1. Init => RejectsOpen
  BY DEF Init, RejectsOpen, NoJob
<1>2. TypeOK /\ JobsSound /\ DecisionsApart /\ RejectsOpen /\ [Next]_vars => RejectsOpen'
  BY RejectsStep
<1>3. TypeOK /\ JobsSound /\ DecisionsApart /\ RejectsOpen /\ [Next]_vars =>
        [\A k \in DOMAIN requests :
            requests[k].status # "pending" => requests'[k] = requests[k]]_requests
  BY RejectsStep
<1>4. QED BY <1>1, <1>2, <1>3, JobsAlwaysSound, PTL DEF Spec, ClosedRequestsStayClosed

\* What a request in flight still knows when it writes.
JobCurrent(j) ==
    j.step \in WriterSteps /\ j.actor # Bootstrapper => NotRevoked(j.actor)

JobsCurrent == \A w \in Workers : JobCurrent(work[w])

\* A request that a step leaves alone keeps the authority it acts with.
LEMMA AuthorityStays ==
  ASSUME TypeOK, JobsSound, JobsCurrent, RevocationsApart, [Next]_vars,
         NEW v \in Workers, work'[v] = work[v]
  PROVE  JobCurrent(work[v])'
<1>0. /\ work \in [Workers -> Job]
      /\ \A w \in Workers : work[w] \in Job /\ JobSound(work[w]) /\ JobCurrent(work[w])
  BY DEF TypeOK, JobsSound, JobsCurrent
<1>1. PICK j : j = work[v] /\ JobCurrent(j)
  BY <1>0
<1>2. ASSUME j.step \in WriterSteps, NEW w \in Workers, RevokeAssignment(w),
             assignments[work[w].id].role = "admin"
      PROVE  assignments[work[w].id].user # j.actor
  <2>1. work[w].step = "revoke" /\ work'[w].step = "audit"
    BY <1>0, <1>2 DEF RevokeAssignment, Continue, Job
  <2>2. assignments[work[w].id].user = work[w].target /\ w # v
    BY <1>0, <2>1 DEF JobSound
  <2>3. QED BY <1>1, <1>2, <2>1, <2>2 DEF RevocationsApart
<1>3. j.step \in WriterSteps /\ j.actor # Bootstrapper => NotRevoked(j.actor)'
  BY <1>1, <1>2, NotRevokedStays DEF JobCurrent
<1>4. work'[v] = j
  BY <1>1
<1>5. QED BY <1>1, <1>3, <1>4 DEF JobCurrent, NotRevoked, AdminRoles

\* With revocations apart, a request acts with current authority until it ends.
LEMMA CurrentStep ==
  ASSUME TypeOK, JobsSound, JobsCurrent, RevocationsApart, [Next]_vars
  PROVE  JobsCurrent'
<1>0. /\ work \in [Workers -> Job]
      /\ \A w \in Workers : work[w] \in Job /\ JobSound(work[w]) /\ JobCurrent(work[w])
      /\ Bootstrapper \notin Users
  BY ConstantsAssumption DEF TypeOK, JobsSound, JobsCurrent
<1>1. ASSUME NEW w \in Workers, \A v \in Workers \ {w} : work'[v] = work[v],
             JobCurrent(work[w])'
      PROVE  JobsCurrent'
  <2>1. ASSUME NEW v \in Workers PROVE JobCurrent(work[v])'
    <3>1. CASE v = w
      BY <1>1, <3>1
    <3>2. CASE v # w
      BY <1>1, <3>2, AuthorityStays
    <3>3. QED BY <3>1, <3>2
  <2>2. QED BY <2>1 DEF JobsCurrent
<1>3. \A u \in Users : MayManageAccess(u) => NotRevoked(u)
  BY ManagersAdminister DEF IsAdministrator, NotRevoked, Live
<1>4. ASSUME UNCHANGED work PROVE JobsCurrent'
  BY <1>4, AuthorityStays DEF JobsCurrent
<1>5. ASSUME NEW w \in Workers, NEW u \in Users, NEW job, Start(w, job), UNCHANGED assignments,
             (MayManageAccess(u) /\ job.actor = u) \/ job.step \notin WriterSteps
      PROVE  JobsCurrent'
  <2>1. work'[w] = job /\ \A v \in Workers \ {w} : work'[v] = work[v]
    BY <1>0, <1>5 DEF Start
  <2>2. job.step \in WriterSteps => NotRevoked(job.actor)'
    BY <1>3, <1>5 DEF NotRevoked, AdminRoles
  <2>3. JobCurrent(work[w])'
    BY <2>1, <2>2 DEF JobCurrent, NotRevoked, AdminRoles
  <2>4. QED BY <1>1, <2>1, <2>3
<1>6. ASSUME NEW u \in Users, SignIn(u) PROVE JobsCurrent'
  BY <1>4, <1>6 DEF SignIn
<1>7. ASSUME NEW i \in DOMAIN assignments, Lapse(i) PROVE JobsCurrent'
  BY <1>4, <1>7 DEF Lapse
<1>8. ASSUME NEW w \in Workers, NEW u \in Users, BeginBootstrap(w, u) PROVE JobsCurrent'
  <2>1. work'[w] = BootstrapJob(u) /\ \A v \in Workers \ {w} : work'[v] = work[v]
    BY <1>0, <1>8 DEF BeginBootstrap, Start
  <2>2. BootstrapJob(u).actor = Bootstrapper
    BY DEF BootstrapJob, NoJob
  <2>3. JobCurrent(work[w])'
    BY <1>0, <2>1, <2>2 DEF JobCurrent
  <2>4. QED BY <1>1, <2>1, <2>3
<1>9. ASSUME NEW w \in Workers, NEW u \in Users, NEW t \in Users, NEW p \in Payloads,
             BeginGrant(w, u, t, p)
      PROVE  JobsCurrent'
  <2> DEFINE job == [NoJob EXCEPT !.step = "sweep", !.actor = u, !.target = t, !.payload = p]
  <2>1. job.actor = u
    BY DEF NoJob
  <2>2. Start(w, job) /\ MayManageAccess(u) /\ UNCHANGED assignments
    BY <1>9 DEF BeginGrant
  <2> HIDE DEF job
  <2>3. QED BY <1>5, <2>1, <2>2
<1>10. ASSUME NEW w \in Workers, NEW u \in Users, NEW i \in DOMAIN assignments,
             BeginRevoke(w, u, i)
       PROVE  JobsCurrent'
  <2> DEFINE job == [NoJob EXCEPT !.step = "revoke", !.event = "revoked", !.actor = u,
                                  !.target = assignments[i].user, !.id = i]
  <2>1. job.actor = u
    BY DEF NoJob
  <2>2. Start(w, job) /\ MayManageAccess(u) /\ UNCHANGED assignments
    BY <1>10 DEF BeginRevoke
  <2> HIDE DEF job
  <2>3. QED BY <1>5, <2>1, <2>2
<1>11. ASSUME NEW w \in Workers, NEW u \in Users, NEW role \in Roles, BeginRequest(w, u, role)
       PROVE  JobsCurrent'
  <2> DEFINE job == [NoJob EXCEPT !.step = "open", !.event = "created", !.actor = u,
                                  !.target = u, !.payload = GlobalGrant(role)]
  <2>1. job.step \notin WriterSteps
    BY DEF NoJob, WriterSteps
  <2>2. Start(w, job) /\ UNCHANGED assignments
    BY <1>11 DEF BeginRequest
  <2> HIDE DEF job
  <2>3. QED BY <1>5, <2>1, <2>2
<1>12. ASSUME NEW w \in Workers, NEW u \in Users, NEW k \in DOMAIN requests,
             CancelRequest(w, u, k)
       PROVE  JobsCurrent'
  <2> DEFINE job == [NoJob EXCEPT !.step = "audit", !.event = "cancelled", !.actor = u,
                                  !.target = u, !.id = k]
  <2>1. job.step \notin WriterSteps
    BY DEF NoJob, WriterSteps
  <2>2. Start(w, job) /\ UNCHANGED assignments
    BY <1>12 DEF CancelRequest
  <2> HIDE DEF job
  <2>3. QED BY <1>5, <2>1, <2>2
<1>13. ASSUME NEW w \in Workers, NEW u \in Users, NEW k \in DOMAIN requests,
             NEW event \in {"approved", "rejected"}, BeginDecision(w, u, k, event)
       PROVE  JobsCurrent'
  <2> DEFINE job == [NoJob EXCEPT !.step = "review", !.event = event, !.actor = u, !.id = k]
  <2>1. job.actor = u
    BY DEF NoJob
  <2>2. Start(w, job) /\ MayManageAccess(u) /\ UNCHANGED assignments
    BY <1>13 DEF BeginDecision
  <2> HIDE DEF job
  <2>3. QED BY <1>5, <2>1, <2>2
<1>14. ASSUME NEW w \in Workers, SweepExpired(w) \/ ReviewRequest(w) PROVE JobsCurrent'
  <2>1. /\ work[w].step \in {"sweep", "review"} /\ work'[w].actor = work[w].actor
        /\ work'[w].step \in {"insert", "approve", "reject"}
        /\ \A v \in Workers \ {w} : work'[v] = work[v]
    BY <1>0, <1>14 DEF SweepExpired, ReviewRequest, Continue, Job
  <2>2. work[w].actor \in Users /\ NotRevoked(work[w].actor)
    BY <1>0, <2>1 DEF JobSound, JobCurrent, WriterSteps
  <2>3. ASSUME NEW v \in Workers, RevokeAssignment(v) PROVE FALSE
    <3>1. work[v].step = "revoke" /\ work'[v].step = "audit"
      BY <1>0, <2>3 DEF RevokeAssignment, Continue, Job
    <3>2. QED BY <2>1, <3>1
  <2>4. PICK a : a = work[w].actor /\ a \in Users /\ NotRevoked(a)'
    BY <2>2, <2>3, NotRevokedStays
  <2>5. JobCurrent(work[w])'
    BY <2>1, <2>4 DEF JobCurrent, NotRevoked, AdminRoles
  <2>6. QED BY <1>1, <2>1, <2>5
<1>15. ASSUME NEW w \in Workers,
              InsertAssignment(w) \/ RevokeAssignment(w) \/ CreateRequest(w) \/ RejectRequest(w)
       PROVE  JobsCurrent'
  <2>1. /\ work'[w].step = "audit"
        /\ \A v \in Workers \ {w} : work'[v] = work[v]
    BY <1>0, <1>15
    DEF InsertAssignment, RevokeAssignment, CreateRequest, RejectRequest, Continue, Job
  <2>2. JobCurrent(work[w])'
    BY <1>0, <2>1 DEF JobCurrent, WriterSteps
  <2>3. QED BY <1>1, <2>1, <2>2
<1>16. ASSUME NEW w \in Workers,
              ApproveRequest(w) \/ RecordAudit(w) \/ Refuse(w) \/ Crash(w)
       PROVE  JobsCurrent'
  <2>1. work'[w] = NoJob /\ \A v \in Workers \ {w} : work'[v] = work[v]
    BY <1>0, <1>16 DEF ApproveRequest, RecordAudit, Refuse, Crash, Finish
  <2>2. NoJob.step = "idle"
    BY DEF NoJob
  <2>3. JobCurrent(work[w])'
    BY <1>0, <2>1, <2>2 DEF JobCurrent, WriterSteps
  <2>4. QED BY <1>1, <2>1, <2>3
<1>17. CASE UNCHANGED vars
  BY <1>4, <1>17 DEF vars
<1>18. QED
  BY <1>6, <1>7, <1>8, <1>9, <1>10, <1>11, <1>12, <1>13, <1>14, <1>15, <1>16, <1>17
  DEF Next, Begin, Serve

\* Authority is current at every write, with revocations apart.
LEMMA AuthorityIsCurrent == Spec /\ []RevocationsApart => []JobsCurrent
<1>1. Init => JobsCurrent
  BY DEF Init, JobsCurrent, JobCurrent, WriterSteps, NoJob
<1>2. TypeOK /\ JobsSound /\ RevocationsApart /\ JobsCurrent /\ [Next]_vars => JobsCurrent'
  BY CurrentStep
<1>3. QED BY <1>1, <1>2, JobsAlwaysSound, PTL DEF Spec

\* A request that will write begins with the permission check.
LEMMA WritersAreChecked ==
  ASSUME TypeOK, [Next]_vars, NEW w \in Workers, work[w] = NoJob,
         work'[w].step \in {"sweep", "revoke", "review"}
  PROVE  IsAdministrator(work'[w].actor)
<1>0. work \in [Workers -> Job] /\ work[w].step = "idle"
  BY DEF TypeOK, NoJob
<1>1. ASSUME NEW v \in Workers, Crash(v) \/ Serve(v) PROVE FALSE
  <2>1. v = w
    BY <1>0, <1>1
    DEF Serve, Crash, SweepExpired, InsertAssignment, RevokeAssignment, CreateRequest,
        ReviewRequest, ApproveRequest, RejectRequest, RecordAudit, Refuse, Continue, Finish
  <2>2. QED
    BY <1>0, <1>1, <2>1
    DEF Serve, Crash, SweepExpired, InsertAssignment, RevokeAssignment, CreateRequest,
        ReviewRequest, ApproveRequest, RejectRequest, RecordAudit, Refuse, UnknownTarget,
        DuplicateGrant, NotActive, DuplicateRequest, NotPending
<1>2. ASSUME NEW v \in Workers, Begin(v)
      PROVE  \E u \in Users : MayManageAccess(u) /\ work'[w].actor = u
  <2>1. v = w
    BY <1>0, <1>2
    DEF Begin, BeginBootstrap, BeginGrant, BeginRevoke, BeginRequest, CancelRequest,
        BeginDecision, Start
  <2>2. ASSUME NEW u \in Users, BeginBootstrap(w, u) PROVE FALSE
    BY <1>0, <2>2 DEF BeginBootstrap, Start, BootstrapJob, NoJob
  <2>3. ASSUME NEW u \in Users, NEW t \in Users, NEW p \in Payloads, BeginGrant(w, u, t, p)
        PROVE  MayManageAccess(u) /\ work'[w].actor = u
    BY <1>0, <2>3 DEF BeginGrant, Start, NoJob
  <2>4. ASSUME NEW u \in Users, NEW i \in DOMAIN assignments, BeginRevoke(w, u, i)
        PROVE  MayManageAccess(u) /\ work'[w].actor = u
    BY <1>0, <2>4 DEF BeginRevoke, Start, NoJob
  <2>5. ASSUME NEW u \in Users, NEW role \in Roles, BeginRequest(w, u, role) PROVE FALSE
    BY <1>0, <2>5 DEF BeginRequest, Start, NoJob
  <2>6. ASSUME NEW u \in Users, NEW k \in DOMAIN requests, CancelRequest(w, u, k)
        PROVE  FALSE
    BY <1>0, <2>6 DEF CancelRequest, Start, NoJob
  <2>7. ASSUME NEW u \in Users, NEW k \in DOMAIN requests,
               NEW event \in {"approved", "rejected"}, BeginDecision(w, u, k, event)
        PROVE  MayManageAccess(u) /\ work'[w].actor = u
    BY <1>0, <2>7 DEF BeginDecision, Start, NoJob
  <2>8. QED BY <1>2, <2>1, <2>2, <2>3, <2>4, <2>5, <2>6, <2>7 DEF Begin
<1>3. work' # work
  BY <1>0
<1>4. \E v \in Workers : Begin(v)
  BY <1>1, <1>3 DEF Next, SignIn, Lapse, vars
<1>5. QED BY <1>2, <1>4, ManagersAdminister

(***************************************************************************)
(* "Only a user with access.manage can create or revoke assignments" or    *)
(* decide: a request begins only with a live admin role, and that role is  *)
(* still not revoked when the request writes, unless a revocation of it    *)
(* is in flight meanwhile.  Whether it lapses is up to the clock.          *)
(***************************************************************************)
THEOREM AdminsAloneWrite == Spec /\ []RevocationsApart => OnlyAdminsWrite
<1>1. TypeOK /\ JobsCurrent /\ [Next]_vars =>
        [\A w \in Workers :
          /\ work[w] = NoJob /\ work'[w].step \in {"sweep", "revoke", "review"} =>
                IsAdministrator(work'[w].actor)
          /\ /\ work[w].step \in {"insert", "revoke", "approve", "reject"}
             /\ work[w].actor # Bootstrapper
             /\ work'[w] # work[w]
             /\ <<assignments, requests>>' # <<assignments, requests>>
             => NotRevoked(work[w].actor)]_vars
  <2>1. ASSUME TypeOK, [Next]_vars, NEW w \in Workers,
               work[w] = NoJob, work'[w].step \in {"sweep", "revoke", "review"}
        PROVE  IsAdministrator(work'[w].actor)
    BY <2>1, WritersAreChecked
  <2>2. ASSUME JobsCurrent, NEW w \in Workers, work[w].actor # Bootstrapper,
               work[w].step \in {"insert", "revoke", "approve", "reject"}
        PROVE  NotRevoked(work[w].actor)
    BY <2>2 DEF JobsCurrent, JobCurrent, WriterSteps
  <2>3. QED BY <2>1, <2>2
<1>2. QED BY <1>1, JobsAlwaysSound, AuthorityIsCurrent, PTL DEF Spec, OnlyAdminsWrite

\* Whoever revokes and is an administrator still is one afterwards.
LEMMA RevokersRemain ==
  ASSUME TypeOK, JobsSound, NEW w \in Workers, RevokeAssignment(w),
         IsAdministrator(work[w].actor)
  PROVE  IsAdministrator(work[w].actor)'
<1>0. /\ assignments \in Seq(Assignment) /\ work \in [Workers -> Job]
      /\ work[w].step = "revoke" /\ JobSound(work[w])
      /\ work'[w].actor = work[w].actor
  BY DEF TypeOK, JobsSound, RevokeAssignment, Continue, Job
<1>1. PICK i \in AdminRoles(work[w].actor) : Live(assignments[i])
  BY DEF IsAdministrator
<1>2. i \in DOMAIN assignments /\ i # work[w].id
  BY <1>0, <1>1 DEF AdminRoles, JobSound
<1>3. i \in DOMAIN assignments' /\ assignments'[i] = assignments[i]
  BY <1>0, <1>2 DEF RevokeAssignment
<1>4. i \in AdminRoles(work[w].actor)'
  BY <1>0, <1>1, <1>3 DEF AdminRoles
<1>5. Live(assignments[i])'
  BY <1>1, <1>3 DEF Live
<1>6. QED BY <1>4, <1>5 DEF IsAdministrator

(***************************************************************************)
(* The last administrator goes by the clock: a revocation leaves nobody    *)
(* only if its maker's own role lapses while it is in flight, or else is   *)
(* being revoked by another request at the same time.                      *)
(***************************************************************************)
THEOREM TheLastGoesByTheClock ==
  Spec /\ []RevocationsApart => LastAdministratorLapses
<1>1. ASSUME TypeOK, JobsSound, JobsCurrent, [Next]_vars,
             SomeAdministrator, ~SomeAdministrator',
             \A i \in DOMAIN assignments : ~Lapse(i)
      PROVE  \E w \in Workers : /\ RevokeAssignment(w)
                                /\ ~IsAdministrator(work[w].actor)
                                /\ NotRevoked(work[w].actor)
  <2>0. /\ \A w \in Workers : JobSound(work[w]) /\ JobCurrent(work[w])
        /\ Bootstrapper \notin Users /\ AssignmentsGrow
    BY <1>1, StepGrows, ConstantsAssumption DEF JobsSound, JobsCurrent
  <2>1. PICK u \in Users, i \in DOMAIN assignments :
            /\ assignments[i].user = u /\ assignments[i].role = "admin"
            /\ Live(assignments[i])
    BY <1>1 DEF SomeAdministrator, IsAdministrator, AdminRoles
  <2>2. ~Live(assignments'[i])
    <3>1. /\ i \in DOMAIN assignments'
          /\ assignments'[i].user = u /\ assignments'[i].role = "admin"
      BY <2>0, <2>1 DEF AssignmentsGrow, Identity
    <3>2. QED BY <1>1, <3>1 DEF SomeAdministrator, IsAdministrator, AdminRoles, Live
  <2>3. PICK w \in Workers : RevokeAssignment(w) /\ work[w].id = i
    BY <1>1, <2>1, <2>2, LiveStays
  <2>4. PICK a \in Users : a = work[w].actor
    BY <2>0, <2>3 DEF RevokeAssignment, JobSound
  <2>5. NotRevoked(work[w].actor)
    BY <2>0, <2>3, <2>4 DEF RevokeAssignment, JobCurrent, WriterSteps
  <2>6. ~IsAdministrator(work[w].actor)
    <3>1. IsAdministrator(work[w].actor) => IsAdministrator(work[w].actor)'
      BY <1>1, <2>3, RevokersRemain
    <3>2. ~IsAdministrator(a)'
      BY <1>1 DEF SomeAdministrator
    <3>3. work'[w].actor = a
      BY <1>1, <2>3, <2>4 DEF RevokeAssignment, Continue, TypeOK, Job
    <3>4. QED BY <2>4, <3>1, <3>2, <3>3 DEF IsAdministrator, AdminRoles, Live
  <2>7. QED BY <2>3, <2>5, <2>6
<1>2. TypeOK /\ JobsSound /\ JobsCurrent /\ [Next]_vars =>
        [SomeAdministrator /\ ~SomeAdministrator' =>
          \/ \E i \in DOMAIN assignments : Lapse(i)
          \/ \E w \in Workers : /\ RevokeAssignment(w)
                               /\ ~IsAdministrator(work[w].actor)
                               /\ NotRevoked(work[w].actor)]_vars
  BY <1>1
<1>3. QED BY <1>2, JobsAlwaysSound, AuthorityIsCurrent, PTL DEF Spec, LastAdministratorLapses

OneResourceScope == \A s, t \in ResourceScopes : s = t

(***************************************************************************)
(* "an active assignment already exists for this user, role, and scope" is *)
(* true where there is one resource scope at most: what makes it false     *)
(* (run access_scope_collision) is only that the index cannot tell         *)
(* resource scopes apart, not what happens between check and write.        *)
(***************************************************************************)
THEOREM OneScopeIsToldTruly ==
  OneResourceScope => (Spec => GrantRefusalIsTrue)
<1>1. ASSUME OneResourceScope, TypeOK, NEW w \in Workers,
             DuplicateGrant(work[w])
      PROVE  \E i \in DOMAIN assignments :
                /\ assignments[i].user = work[w].target
                /\ assignments[i].role = work[w].payload.role
                /\ assignments[i].scope = work[w].payload.scope
                /\ assignments[i].status = "active"
  <2> DEFINE a == NewAssignment(work[w], "never")
  <2>1. PICK i \in DOMAIN assignments :
            assignments[i].status = "active" /\ IndexKey(assignments[i]) = IndexKey(a)
    BY <1>1 DEF DuplicateGrant, KeyFree
  <2>2. /\ a.user = work[w].target /\ a.role = work[w].payload.role
        /\ a.scope = work[w].payload.scope
    BY DEF NewAssignment
  <2>3. assignments[i].scope \in Scopes /\ work[w].payload.scope \in Scopes
    <3>1. assignments[i] \in Assignment /\ work[w] \in Job
      BY <1>1 DEF TypeOK
    <3>2. QED BY <3>1 DEF Assignment, Job, Payload
  <2> HIDE DEF a
  <2>4. /\ assignments[i].user = a.user /\ assignments[i].role = a.role
        /\ assignments[i].scope = "global" <=> a.scope = "global"
    BY <2>1 DEF IndexKey
  <2>5. assignments[i].scope = work[w].payload.scope
    BY <1>1, <2>2, <2>3, <2>4 DEF Scopes, OneResourceScope
  <2>6. QED BY <2>1, <2>2, <2>4, <2>5
<1>2. OneResourceScope /\ TypeOK /\ [Next]_vars =>
        [\A w \in Workers :
          Refuse(w) /\ DuplicateGrant(work[w]) =>
            \E i \in DOMAIN assignments :
                /\ assignments[i].user = work[w].target
                /\ assignments[i].role = work[w].payload.role
                /\ assignments[i].scope = work[w].payload.scope
                /\ assignments[i].status = "active"]_vars
  BY <1>1
<1>3. OneResourceScope => OneResourceScope'
  BY DEF OneResourceScope
<1>4. QED BY <1>2, <1>3, JobsAlwaysSound, PTL DEF Spec, GrantRefusalIsTrue

-----------------------------------------------------------------------------
(***************************************************************************)
(* Every write is one act on the ledger.                                   *)
(***************************************************************************)

\* Only the script inserts as the Bootstrapper, and only admin roles.
JobOfScript(j) ==
    j.step \in {"sweep", "insert"} /\ j.actor = Bootstrapper => j.payload = GlobalGrant("admin")
ScriptsGiveAdmin == \A w \in Workers : JobOfScript(work[w])

LEMMA ScriptStep ==
  ASSUME TypeOK, JobsSound, ScriptsGiveAdmin, [Next]_vars
  PROVE  ScriptsGiveAdmin'
<1>0. /\ work \in [Workers -> Job] /\ Bootstrapper \notin Users
      /\ \A w \in Workers : work[w] \in Job /\ JobSound(work[w]) /\ JobOfScript(work[w])
  BY ConstantsAssumption DEF TypeOK, JobsSound, ScriptsGiveAdmin
<1>1. ASSUME NEW w \in Workers, NEW job, work' = [work EXCEPT ![w] = job], JobOfScript(job)
      PROVE  ScriptsGiveAdmin'
  BY <1>0, <1>1 DEF ScriptsGiveAdmin, JobOfScript, GlobalGrant
<1>2. ASSUME UNCHANGED work PROVE ScriptsGiveAdmin'
  BY <1>0, <1>2 DEF ScriptsGiveAdmin, JobOfScript, GlobalGrant
<1>3. ASSUME NEW w \in Workers, Begin(w) PROVE ScriptsGiveAdmin'
  <2>1. PICK job : Start(w, job) /\ (job = BootstrapJob(job.target) \/ job.actor \in Users)
    <3>1. ASSUME NEW u \in Users, BeginBootstrap(w, u)
          PROVE  Start(w, BootstrapJob(u)) /\ BootstrapJob(u) = BootstrapJob(BootstrapJob(u).target)
      BY <3>1 DEF BeginBootstrap, BootstrapJob, NoJob
    <3>2. ASSUME NEW u \in Users, NEW t \in Users, NEW p \in Payloads, BeginGrant(w, u, t, p)
          PROVE  \E job : Start(w, job) /\ job.actor \in Users
      <4> DEFINE job == [NoJob EXCEPT !.step = "sweep", !.actor = u, !.target = t, !.payload = p]
      <4>1. job.actor = u
        BY DEF NoJob
      <4>2. QED BY <3>2, <4>1 DEF BeginGrant
    <3>3. ASSUME NEW u \in Users, NEW i \in DOMAIN assignments, BeginRevoke(w, u, i)
          PROVE  \E job : Start(w, job) /\ job.actor \in Users
      <4> DEFINE job == [NoJob EXCEPT !.step = "revoke", !.event = "revoked", !.actor = u,
                                      !.target = assignments[i].user, !.id = i]
      <4>1. job.actor = u
        BY DEF NoJob
      <4>2. QED BY <3>3, <4>1 DEF BeginRevoke
    <3>4. ASSUME NEW u \in Users, NEW role \in Roles, BeginRequest(w, u, role)
          PROVE  \E job : Start(w, job) /\ job.actor \in Users
      <4> DEFINE job == [NoJob EXCEPT !.step = "open", !.event = "created", !.actor = u,
                                      !.target = u, !.payload = GlobalGrant(role)]
      <4>1. job.actor = u
        BY DEF NoJob
      <4>2. QED BY <3>4, <4>1 DEF BeginRequest
    <3>5. ASSUME NEW u \in Users, NEW k \in DOMAIN requests, CancelRequest(w, u, k)
          PROVE  \E job : Start(w, job) /\ job.actor \in Users
      <4> DEFINE job == [NoJob EXCEPT !.step = "audit", !.event = "cancelled", !.actor = u,
                                      !.target = u, !.id = k]
      <4>1. job.actor = u
        BY DEF NoJob
      <4>2. QED BY <3>5, <4>1 DEF CancelRequest
    <3>6. ASSUME NEW u \in Users, NEW k \in DOMAIN requests,
                 NEW event \in {"approved", "rejected"}, BeginDecision(w, u, k, event)
          PROVE  \E job : Start(w, job) /\ job.actor \in Users
      <4> DEFINE job == [NoJob EXCEPT !.step = "review", !.event = event, !.actor = u, !.id = k]
      <4>1. job.actor = u
        BY DEF NoJob
      <4>2. QED BY <3>6, <4>1 DEF BeginDecision
    <3>7. QED BY <1>3, <3>1, <3>2, <3>3, <3>4, <3>5, <3>6 DEF Begin
  <2>2. \A u : BootstrapJob(u).payload = GlobalGrant("admin")
    BY DEF BootstrapJob, NoJob
  <2>3. JobOfScript(job)
    BY <1>0, <2>1, <2>2 DEF JobOfScript
  <2>4. QED BY <1>1, <2>1, <2>3 DEF Start
<1>4. ASSUME NEW w \in Workers, SweepExpired(w) \/ ReviewRequest(w) PROVE ScriptsGiveAdmin'
  <2>1. work[w].actor \in Users
    BY <1>0, <1>4 DEF SweepExpired, ReviewRequest, JobSound
  <2>2. PICK job : work' = [work EXCEPT ![w] = job] /\ job.actor = work[w].actor
    BY <1>0, <1>4 DEF SweepExpired, ReviewRequest, Continue, Job
  <2>3. QED BY <1>0, <1>1, <2>1, <2>2 DEF JobOfScript
<1>5. ASSUME NEW w \in Workers,
             InsertAssignment(w) \/ RevokeAssignment(w) \/ CreateRequest(w) \/ RejectRequest(w)
      PROVE  ScriptsGiveAdmin'
  <2>1. PICK job : work' = [work EXCEPT ![w] = job] /\ job.step = "audit"
    BY <1>0, <1>5
    DEF InsertAssignment, RevokeAssignment, CreateRequest, RejectRequest, Continue, Job
  <2>2. QED BY <1>1, <2>1 DEF JobOfScript
<1>6. ASSUME NEW w \in Workers, ApproveRequest(w) \/ RecordAudit(w) \/ Refuse(w) \/ Crash(w)
      PROVE  ScriptsGiveAdmin'
  <2>1. work' = [work EXCEPT ![w] = NoJob]
    BY <1>6 DEF ApproveRequest, RecordAudit, Refuse, Crash, Finish
  <2>2. QED BY <1>1, <2>1 DEF JobOfScript, NoJob
<1>7. QED
  BY <1>2, <1>3, <1>4, <1>5, <1>6 DEF Next, Serve, SignIn, Lapse, vars

\* Who was made an administrator presides over the users of the tenant.
LEMMA AdminsPreside ==
  ASSUME TypeOK, NEW by \in Users, NEW u, by # u, WasAdmin(by, u, Len(assignments))
  PROVE  Ledger!Presides(by, u)
<1>1. DOMAIN assignments = 1..Len(assignments)
  BY DEF TypeOK
<1>2. QED BY <1>1 DEF WasAdmin, Ledger!Presides

\* A sweep lets some lapsed roles expire.
LEMMA SweptExpire ==
  ASSUME TypeOK, NEW job
  PROVE  \E S \in SUBSET Ledger!Lapsed : Swept(job) = Ledger!Expired(S)
<1> DEFINE S == {i \in DOMAIN assignments :
                    LET a == assignments[i] IN
                    /\ a.user = job.target /\ a.role = job.payload.role
                    /\ a.scope = job.payload.scope /\ a.granted_by # Bootstrapper
                    /\ a.status = "active" /\ a.expiry = "past"}
<1>1. S \in SUBSET Ledger!Lapsed
  BY DEF Ledger!Lapsed
<1>2. Swept(job) = Ledger!Expired(S)
  BY DEF Swept, Ledger!Expired
<1>3. QED BY <1>1, <1>2

\* What the unique index lets in is no twin of a role that is active.
LEMMA KeyFreeIsGiven ==
  ASSUME TypeOK, NEW S \in SUBSET Ledger!Lapsed, NEW d,
         KeyFree(Ledger!Expired(S), d), assignments' = Append(Ledger!Expired(S), d)
  PROVE  Ledger!Give(d)
<1>1. ASSUME NEW i \in DOMAIN assignments \ S, assignments[i].status = "active"
      PROVE  ~Ledger!Twins(assignments[i], d)
  <2>1. i \in DOMAIN Ledger!Expired(S) /\ Ledger!Expired(S)[i] = assignments[i]
    BY DEF Ledger!Expired
  <2>2. IndexKey(assignments[i]) # IndexKey(d)
    BY <1>1, <2>1 DEF KeyFree
  <2>3. QED BY <2>2 DEF IndexKey, Ledger!Twins
<1>2. QED BY <1>1 DEF Ledger!Give

\* Nothing expires.
LEMMA NoneExpires ==
  ASSUME TypeOK
  PROVE  assignments = Ledger!Expired({}) /\ {} \in SUBSET Ledger!Lapsed
<1>1. assignments = [i \in DOMAIN assignments |-> assignments[i]]
  BY DEF TypeOK
<1>2. QED BY <1>1 DEF Ledger!Expired

LEMMA LedgerStep ==
  ASSUME TypeOK, JobsSound, ScriptsGiveAdmin, [Next]_vars
  PROVE  [Ledger!Next]_<<assignments, requests>>
<1>0. /\ assignments \in Seq(Assignment) /\ requests \in Seq(AccessRequest)
      /\ \A w \in Workers : work[w] \in Job /\ JobSound(work[w]) /\ JobOfScript(work[w])
      /\ Bootstrapper \notin Users
  BY ConstantsAssumption DEF TypeOK, JobsSound, ScriptsGiveAdmin
<1>1. CASE UNCHANGED <<assignments, requests>>
  BY <1>1
<1>2. ASSUME NEW i \in DOMAIN assignments, Lapse(i) PROVE Ledger!Next
  BY <1>2 DEF Lapse, Ledger!Next, Ledger!Lapse
<1>3. ASSUME NEW w \in Workers, SweepExpired(w) PROVE Ledger!Next
  <2>1. PICK S \in SUBSET Ledger!Lapsed : Swept(work[w]) = Ledger!Expired(S)
    BY SweptExpire
  <2>2. Ledger!Expire(S)
    BY <1>3, <2>1 DEF SweepExpired, Ledger!Expire
  <2>3. QED BY <2>2 DEF Ledger!Next
<1>4. ASSUME NEW w \in Workers, InsertAssignment(w) PROVE Ledger!Next
  <2> DEFINE j == work[w]
  <2>1. PICK e \in IF j.payload.temporary THEN {"future", "past"} ELSE {"never"} :
          /\ KeyFree(assignments, NewAssignment(j, e))
          /\ assignments' = Append(assignments, NewAssignment(j, e))
    BY <1>4 DEF InsertAssignment
  <2>2. NewAssignment(j, e) = Ledger!Entry(j.target, j.payload.role, j.payload.scope, e, j.actor)
    BY DEF NewAssignment, Ledger!Entry
  <2>3. Ledger!Give(NewAssignment(j, e))
    BY <2>1, NoneExpires, KeyFreeIsGiven
  <2>4. /\ j.step = "insert" /\ j.target \in Users /\ j.target # j.actor /\ UNCHANGED requests
        /\ j.payload.role \in Roles /\ j.payload.scope \in Scopes /\ j.actor \in Actors
    BY <1>0, <1>4 DEF InsertAssignment, JobSound, Job, Payload
  <2>5. CASE j.actor = Bootstrapper
    <3>1. j.payload = GlobalGrant("admin") /\ e = "never"
      BY <1>0, <2>1, <2>4, <2>5 DEF JobOfScript, GlobalGrant
    <3>2. NewAssignment(j, e) = Ledger!FirstEntry(j.target)
      BY <2>2, <2>5, <3>1 DEF Ledger!FirstEntry, GlobalGrant
    <3>3. Ledger!Bootstrap(j.target)
      BY <2>3, <2>4, <3>2 DEF Ledger!Bootstrap
    <3>4. QED BY <2>4, <3>3 DEF Ledger!Next
  <2>6. CASE j.actor # Bootstrapper
    <3>1. j.actor \in Users /\ Ledger!Presides(j.actor, j.target)
      BY <1>0, <2>4, <2>6, AdminsPreside DEF JobSound, Actors
    <3>2. e \in {"never", "future", "past"}
      OBVIOUS
    <3>3. Ledger!Grant(j.actor, j.target, j.payload.role, j.payload.scope)
      BY <2>2, <2>3, <2>4, <3>1, <3>2 DEF Ledger!Grant
    <3>4. QED BY <2>4, <3>1, <3>3 DEF Ledger!Next
  <2>7. QED BY <2>5, <2>6
<1>5. ASSUME NEW w \in Workers, RevokeAssignment(w) PROVE Ledger!Next
  <2> DEFINE j == work[w]
  <2>1. /\ j.step = "revoke" /\ j.actor \in Users /\ j.target # j.actor
        /\ j.id \in DOMAIN assignments /\ assignments[j.id].user = j.target
        /\ WasAdmin(j.actor, j.target, Len(assignments))
    BY <1>0, <1>5 DEF RevokeAssignment, JobSound
  <2>2. Ledger!Presides(j.actor, assignments[j.id].user)
    BY <2>1, AdminsPreside
  <2>3. Ledger!Revoke(j.actor, j.id)
    BY <1>5, <2>2 DEF RevokeAssignment, Ledger!Revoke
  <2>4. QED BY <2>1, <2>3 DEF Ledger!Next
<1>6. ASSUME NEW w \in Workers, CreateRequest(w) PROVE Ledger!Next
  <2> DEFINE j == work[w]
  <2>1. j.actor \in Users /\ j.payload.role \in Roles
    BY <1>0, <1>6 DEF CreateRequest, JobSound, Job, Payload
  <2>2. ASSUME NEW k \in DOMAIN requests, requests[k].user = j.actor,
               requests[k].role = j.payload.role
        PROVE  requests[k].status \in {"rejected", "cancelled"}
    <3>1. requests[k] \in AccessRequest /\ requests[k].status \notin {"pending", "approved"}
      BY <1>0, <1>6, <2>2 DEF CreateRequest, OpenRequest
    <3>2. QED BY <3>1 DEF AccessRequest
  <2>3. Ledger!Ask(j.actor, j.payload.role)
    BY <1>6, <2>2 DEF CreateRequest, Ledger!Ask
  <2>4. QED BY <2>1, <2>3 DEF Ledger!Next
<1>7. ASSUME NEW w \in Workers, NEW u \in Users, NEW k \in DOMAIN requests,
             CancelRequest(w, u, k)
      PROVE  Ledger!Next
  BY <1>7 DEF CancelRequest, Ledger!Next, Ledger!Withdraw
<1>8. ASSUME NEW w \in Workers, work[w].step \in {"approve", "reject"}
      PROVE  LET j == work[w] IN
             /\ j.actor \in Users /\ j.id \in DOMAIN requests
             /\ Ledger!Presides(j.actor, requests[j.id].user)
             /\ j.target = requests[j.id].user
             /\ j.payload = GlobalGrant(requests[j.id].role)
  <2>1. LET j == work[w] IN
        /\ j.actor \in Users /\ j.id \in DOMAIN requests
        /\ j.target = requests[j.id].user /\ j.target # j.actor
        /\ WasAdmin(j.actor, j.target, Len(assignments))
        /\ j.payload = GlobalGrant(requests[j.id].role)
    BY <1>0, <1>8 DEF JobSound
  <2>2. QED BY <2>1, AdminsPreside
<1>9. ASSUME NEW w \in Workers, ApproveRequest(w) PROVE Ledger!Next
  <2> DEFINE j == work[w]
             d == NewAssignment(j, "never")
  <2>1. /\ j.actor \in Users /\ j.id \in DOMAIN requests
        /\ Ledger!Presides(j.actor, requests[j.id].user)
        /\ j.target = requests[j.id].user
        /\ j.payload = GlobalGrant(requests[j.id].role)
    BY <1>8, <1>9 DEF ApproveRequest
  <2>2. PICK S \in SUBSET Ledger!Lapsed : Swept(j) = Ledger!Expired(S)
    BY SweptExpire
  <2>3. Ledger!Give(d)
    BY <1>9, <2>2, KeyFreeIsGiven DEF ApproveRequest, Approvable, Granted
  <2>4. d = Ledger!Entry(requests[j.id].user, requests[j.id].role, "global", "never", j.actor)
    BY <2>1 DEF NewAssignment, GlobalGrant, Ledger!Entry
  <2>5. /\ requests[j.id].status = "pending"
        /\ requests' = [requests EXCEPT ![j.id].status = "approved",
                                        ![j.id].decided_by = j.actor]
    BY <1>9 DEF ApproveRequest, Approvable
  <2>6. Ledger!Approve(j.actor, j.id)
    BY <2>1, <2>3, <2>4, <2>5 DEF Ledger!Approve, Ledger!Decide
  <2>7. QED BY <2>1, <2>6 DEF Ledger!Next
<1>10. ASSUME NEW w \in Workers, RejectRequest(w) PROVE Ledger!Next
  <2> DEFINE j == work[w]
  <2>1. /\ j.actor \in Users /\ j.id \in DOMAIN requests
        /\ Ledger!Presides(j.actor, requests[j.id].user)
    BY <1>8, <1>10 DEF RejectRequest
  <2>2. Ledger!Reject(j.actor, j.id)
    BY <1>10, <2>1 DEF RejectRequest, Rejectable, Ledger!Reject, Ledger!Decide
  <2>3. QED BY <2>1, <2>2 DEF Ledger!Next
<1>11. QED
  BY <1>1, <1>2, <1>3, <1>4, <1>5, <1>6, <1>7, <1>9, <1>10
  DEF Next, vars, Begin, Serve, SignIn, BeginBootstrap, BeginGrant, BeginRevoke,
      BeginRequest, BeginDecision, ReviewRequest, RecordAudit, Refuse, Crash

(***************************************************************************)
(* The authorization component implements its ledger: however the calls    *)
(* of requests interleave and whichever of them die, each write of         *)
(* services/authorization.py is one act of someone who was made an         *)
(* administrator, and roles and requests change in no other way.           *)
(***************************************************************************)
THEOREM ServiceKeepsTheLedger == Spec => KeepsTheLedger
<1>1. Init => Ledger!Init /\ ScriptsGiveAdmin
  <2> SUFFICES ASSUME Init PROVE Ledger!Init /\ ScriptsGiveAdmin
    OBVIOUS
  <2>1. ScriptsGiveAdmin
    BY DEF Init, ScriptsGiveAdmin, JobOfScript, NoJob
  <2>2. /\ assignments \in Seq(Assignment) /\ FirstAdmins \in Seq(Users)
        /\ DOMAIN assignments = DOMAIN FirstAdmins
    BY InitSound, ConstantsAssumption DEF TypeOK, Init
  <2>3. ASSUME NEW i \in DOMAIN assignments
        PROVE  assignments[i] = Ledger!FirstEntry(FirstAdmins[i]) /\ FirstAdmins[i] \in Users
    <3>1. assignments[i] = NewAssignment(BootstrapJob(FirstAdmins[i]), "never")
      BY <2>2, <2>3 DEF Init
    <3>2. NewAssignment(BootstrapJob(FirstAdmins[i]), "never")
            = Ledger!FirstEntry(FirstAdmins[i])
      BY DEF NewAssignment, BootstrapJob, NoJob, GlobalGrant, Ledger!FirstEntry, Ledger!Entry
    <3>3. QED BY <2>2, <2>3, <3>1, <3>2
  <2>4. ASSUME NEW i \in DOMAIN assignments, NEW j \in DOMAIN assignments,
               assignments[i] = assignments[j]
        PROVE  i = j
    <3>1. FirstAdmins[i] = FirstAdmins[j]
      BY <2>3, <2>4 DEF Ledger!FirstEntry, Ledger!Entry
    <3>2. QED BY <2>2, <3>1, ConstantsAssumption
  <2>5. requests = <<>> /\ DOMAIN assignments = 1..Len(assignments)
    BY <2>2 DEF Init
  <2>6. \A i \in DOMAIN assignments : \E u \in Users : assignments[i] = Ledger!FirstEntry(u)
    BY <2>3
  <2>7. Ledger!Init
    BY <2>4, <2>5, <2>6 DEF Ledger!Init
  <2>8. QED BY <2>1, <2>7
<1>2. TypeOK /\ JobsSound /\ ScriptsGiveAdmin /\ [Next]_vars =>
        ScriptsGiveAdmin' /\ [Ledger!Next]_<<assignments, requests>>
  BY ScriptStep, LedgerStep
<1>3. QED BY <1>1, <1>2, JobsAlwaysSound, PTL DEF Spec, KeepsTheLedger, Ledger!Spec
=============================================================================
