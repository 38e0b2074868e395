----------------------------- MODULE AuditProofs -----------------------------
(***************************************************************************)
(* The audit trail of AccessControl tells the truth and its gaps are       *)
(* accounted for, with any number of workers, documents and crashes.       *)
(*                                                                         *)
(* Neither property is inductive.  A trail is truthful because a worker    *)
(* about to insert an event carries one its write has just made true, and  *)
(* gaps can be counted because no two workers carry the same event and     *)
(* none carries an event that is in the trail already.  AuditSound says    *)
(* so; it is inductive with TypeOK and JobsSound.  StepTrail sorts the     *)
(* actions by what they do to documents, trail and workers, once, and the  *)
(* theorems argue about its five cases alone.                              *)
(***************************************************************************)
EXTENDS AccessControlProofs, FiniteSetTheorems

\* The event a worker is about to insert, and the workers about to insert one.
Report(j) == Record(j.event, j.id, j.actor)
Auditing == {w \in Workers : work[w].step = "audit"}

\* A job ends with the event of the endpoint that began it.
JobNamed(j) ==
    /\ j.step \in {"sweep", "insert"} =>
          j.event = IF j.actor = Bootstrapper THEN "bootstrapped" ELSE "granted"
    /\ j.step = "revoke" => j.event = "revoked"
    /\ j.step = "open" => j.event = "created"
    /\ j.step = "review" => j.event \in {"approved", "rejected"}
    /\ j.step = "approve" => j.event = "approved"
    /\ j.step = "reject" => j.event = "rejected"

JobsNamed == \A w \in Workers : JobNamed(work[w])

\* What is about to be inserted is called for, is missing and is inserted once.
ReportsMissing ==
    \A w \in Auditing : Report(work[w]) \in AuditGap /\ work[w].event # "approved"
ReportsDiffer ==
    \A v, w \in Auditing : Report(work[v]) = Report(work[w]) => v = w

\* An event its document no longer shows is an approval that was overwritten.
TrailTrue ==
    \A e \in audit \ Warranted :
        /\ e.event = "approved" /\ e.id \in DOMAIN requests
        /\ requests[e.id].status = "rejected"

AuditSound == JobsNamed /\ TrailTrue /\ ReportsMissing /\ ReportsDiffer

-----------------------------------------------------------------------------
(* The events one document calls for *)

AssignmentCalls(a, i, e) ==
    \/ e = Record(IF a.granted_by = Bootstrapper THEN "bootstrapped" ELSE "granted",
                  i, a.granted_by)
    \/ a.status = "revoked" /\ e = Record("revoked", i, a.revoked_by)

RequestCalls(r, k, e) ==
    \/ e = Record("created", k, r.user)
    \/ r.status = "cancelled" /\ e = Record("cancelled", k, r.user)
    \/ r.status \in {"approved", "rejected"} /\ e = Record(r.status, k, r.decided_by)

\* Warranted holds what the documents call for, one by one.
LEMMA WarrantedBy ==
  /\ \A e : e \in Warranted <=>
        \/ \E i \in DOMAIN assignments : AssignmentCalls(assignments[i], i, e)
        \/ \E k \in DOMAIN requests : RequestCalls(requests[k], k, e)
  /\ \A e : e \in Warranted' <=>
        \/ \E i \in DOMAIN assignments' : AssignmentCalls(assignments'[i], i, e)
        \/ \E k \in DOMAIN requests' : RequestCalls(requests'[k], k, e)
<1>1. \A e : e \in Warranted <=>
        \/ \E i \in DOMAIN assignments : AssignmentCalls(assignments[i], i, e)
        \/ \E k \in DOMAIN requests : RequestCalls(requests[k], k, e)
  BY DEF Warranted, AssignmentCalls, RequestCalls
<1>2. \A e : e \in Warranted' <=>
        \/ \E i \in DOMAIN assignments' : AssignmentCalls(assignments'[i], i, e)
        \/ \E k \in DOMAIN requests' : RequestCalls(requests'[k], k, e)
  BY DEF Warranted, AssignmentCalls, RequestCalls
<1>3. QED BY <1>1, <1>2

\* An event names the document that calls for it, and its kind tells the collection.
LEMMA CalledBy ==
  ASSUME NEW e \in Warranted
  PROVE  \/ /\ e.event \in {"granted", "bootstrapped", "revoked"}
            /\ e.id \in DOMAIN assignments
            /\ AssignmentCalls(assignments[e.id], e.id, e)
         \/ /\ e.event \in {"created", "cancelled", "approved", "rejected"}
            /\ e.id \in DOMAIN requests
            /\ RequestCalls(requests[e.id], e.id, e)
<1>1. ASSUME NEW i \in DOMAIN assignments, AssignmentCalls(assignments[i], i, e)
      PROVE  e.id = i /\ e.event \in {"granted", "bootstrapped", "revoked"}
  BY <1>1 DEF AssignmentCalls, Record
<1>2. ASSUME NEW k \in DOMAIN requests, RequestCalls(requests[k], k, e)
      PROVE  e.id = k /\ e.event \in {"created", "cancelled", "approved", "rejected"}
  BY <1>2 DEF RequestCalls, Record
<1>3. QED BY <1>1, <1>2, WarrantedBy

\* The parts of an assignment that decide which events it calls for.
SameCalls(a, b) ==
    /\ Identity(b) = Identity(a) /\ b.revoked_by = a.revoked_by
    /\ (b.status = "revoked") <=> (a.status = "revoked")

\* Such assignments call for the same events.
LEMMA CallsKept ==
  ASSUME NEW a, NEW b, SameCalls(a, b), NEW i, NEW e
  PROVE  AssignmentCalls(a, i, e) <=> AssignmentCalls(b, i, e)
  BY DEF SameCalls, Identity, AssignmentCalls

\* A step that writes nothing the trail is about.
LEMMA NothingCalled ==
  ASSUME DOMAIN assignments' = DOMAIN assignments, UNCHANGED requests,
         \A i \in DOMAIN assignments : SameCalls(assignments[i], assignments'[i])
  PROVE  Warranted' = Warranted
<1>1. \A e : e \in Warranted' <=> e \in Warranted
  BY CallsKept, WarrantedBy
<1>2. QED BY <1>1

\* A step that appends one assignment calls for the event of its grant.
LEMMA GrantCalled ==
  ASSUME TypeOK, NEW n, n = Len(assignments) + 1,
         DOMAIN assignments' = DOMAIN assignments \cup {n}, UNCHANGED requests,
         \A i \in DOMAIN assignments : SameCalls(assignments[i], assignments'[i]),
         assignments'[n].status = "active",
         NEW e, e = Record(IF assignments'[n].granted_by = Bootstrapper
                           THEN "bootstrapped" ELSE "granted", n, assignments'[n].granted_by)
  PROVE  Warranted' = Warranted \cup {e} /\ e \notin Warranted
<1>1. n \notin DOMAIN assignments
  BY DEF TypeOK
<1>2. \A x : AssignmentCalls(assignments'[n], n, x) <=> x = e
  BY DEF AssignmentCalls
<1>3. \A x : x \in Warranted' <=> x \in Warranted \/ x = e
  BY <1>2, CallsKept, WarrantedBy
<1>4. e.id = n /\ e.event \in {"granted", "bootstrapped"}
  BY DEF Record
<1>5. e \notin Warranted
  BY <1>1, <1>4, CalledBy
<1>6. QED BY <1>3, <1>5

\* Revoking calls for one event, which nothing called for before.
LEMMA RevocationCalled ==
  ASSUME NEW n \in DOMAIN assignments, NEW u, NEW e,
         DOMAIN assignments' = DOMAIN assignments, UNCHANGED requests,
         \A i \in DOMAIN assignments : i # n => assignments'[i] = assignments[i],
         Identity(assignments'[n]) = Identity(assignments[n]),
         assignments[n].status # "revoked",
         assignments'[n].status = "revoked", assignments'[n].revoked_by = u,
         e = Record("revoked", n, u)
  PROVE  Warranted' = Warranted \cup {e} /\ e \notin Warranted
<1>1. \A x : AssignmentCalls(assignments'[n], n, x) <=>
                AssignmentCalls(assignments[n], n, x) \/ x = e
  BY DEF AssignmentCalls, Identity
<1>2. \A x : x \in Warranted' <=> x \in Warranted \/ x = e
  BY <1>1, WarrantedBy
<1>3. e.id = n /\ e.event = "revoked"
  BY DEF Record
<1>4. ~AssignmentCalls(assignments[n], n, e)
  BY <1>3 DEF AssignmentCalls, Record
<1>5. e \notin Warranted
  BY <1>3, <1>4, CalledBy
<1>6. QED BY <1>2, <1>5

\* Opening a request calls for one new event.
LEMMA OpeningCalled ==
  ASSUME TypeOK, NEW k, k = Len(requests) + 1, NEW e,
         DOMAIN requests' = DOMAIN requests \cup {k}, UNCHANGED assignments,
         \A n \in DOMAIN requests : requests'[n] = requests[n],
         requests'[k].status = "pending",
         e = Record("created", k, requests'[k].user)
  PROVE  Warranted' = Warranted \cup {e} /\ e \notin Warranted
<1>1. k \notin DOMAIN requests
  BY DEF TypeOK
<1>2. \A x : RequestCalls(requests'[k], k, x) <=> x = e
  BY DEF RequestCalls
<1>3. \A x : x \in Warranted' <=> x \in Warranted \/ x = e
  BY <1>2, WarrantedBy
<1>4. e.id = k /\ e.event = "created"
  BY DEF Record
<1>5. e \notin Warranted
  BY <1>1, <1>4, CalledBy
<1>6. QED BY <1>3, <1>5

\* Closing a request calls for one new event; an approval is no longer called for
\* when a rejection overwrites it.
LEMMA ClosingCalled ==
  ASSUME NEW k \in DOMAIN requests, NEW u, NEW e,
         NEW status \in {"cancelled", "approved", "rejected"},
         DOMAIN requests' = DOMAIN requests, UNCHANGED assignments,
         \A n \in DOMAIN requests : n # k => requests'[n] = requests[n],
         requests'[k].user = requests[k].user, requests'[k].status = status,
         IF status = "cancelled" THEN u = requests[k].user ELSE u = requests'[k].decided_by,
         \/ requests[k].status = "pending"
         \/ requests[k].status = "approved" /\ status = "rejected",
         e = Record(status, k, u)
  PROVE  /\ Warranted' \subseteq Warranted \cup {e} /\ e \notin Warranted /\ e \in Warranted'
         /\ requests[k].status = "pending" => Warranted' = Warranted \cup {e}
<1>1. \A x : RequestCalls(requests'[k], k, x) =>
                RequestCalls(requests[k], k, x) \/ x = e
  BY DEF RequestCalls
<1>2. \A x : x \in Warranted' => x \in Warranted \/ x = e
  BY <1>1, WarrantedBy
<1>3. e.id = k /\ e.event = status
  BY DEF Record
<1>4. ~RequestCalls(requests[k], k, e) /\ RequestCalls(requests'[k], k, e)
  BY <1>3 DEF RequestCalls, Record
<1>5. e \notin Warranted /\ e \in Warranted'
  BY <1>3, <1>4, CalledBy, WarrantedBy
<1>6. ASSUME requests[k].status = "pending", NEW x \in Warranted PROVE x \in Warranted'
  <2>1. RequestCalls(requests[k], k, x) => RequestCalls(requests'[k], k, x)
    BY <1>6 DEF RequestCalls
  <2>2. QED BY <1>6, <2>1, WarrantedBy
<1>7. QED BY <1>2, <1>5, <1>6

\* What is called for stays so; only a late rejection takes an approval back.
LEMMA CalledForever ==
  ASSUME TypeOK, JobsSound, [Next]_vars, NEW e \in Warranted
  PROVE  \/ e \in Warranted'
         \/ /\ e.event = "approved" /\ e.id \in DOMAIN requests'
            /\ requests'[e.id].status = "rejected"
<1>1. AssignmentsGrow /\ RequestsGrow /\ AssignmentMoves /\ RequestMoves
  BY StepGrows, StepMoves
<1>2. ASSUME e.id \in DOMAIN assignments, AssignmentCalls(assignments[e.id], e.id, e)
      PROVE  e \in Warranted'
  <2>1. /\ e.id \in DOMAIN assignments'
        /\ Identity(assignments'[e.id]) = Identity(assignments[e.id])
        /\ assignments[e.id].status = "revoked" =>
              /\ assignments'[e.id].status = "revoked"
              /\ assignments'[e.id].revoked_by = assignments[e.id].revoked_by
    BY <1>1, <1>2 DEF AssignmentsGrow, AssignmentMoves
  <2>2. AssignmentCalls(assignments'[e.id], e.id, e)
    BY <1>2, <2>1 DEF AssignmentCalls, Identity
  <2>3. QED BY <2>1, <2>2, WarrantedBy
<1>3. ASSUME e.id \in DOMAIN requests, RequestCalls(requests[e.id], e.id, e)
      PROVE  \/ e \in Warranted'
             \/ /\ e.event = "approved" /\ e.id \in DOMAIN requests'
                /\ requests'[e.id].status = "rejected"
  <2>1. /\ e.id \in DOMAIN requests'
        /\ requests'[e.id].user = requests[e.id].user
        /\ requests[e.id].status \in {"cancelled", "rejected"} =>
              requests'[e.id] = requests[e.id]
        /\ requests[e.id].status = "approved" =>
              \/ requests'[e.id] = requests[e.id]
              \/ requests'[e.id].status = "rejected"
    BY <1>1, <1>3 DEF RequestsGrow, RequestMoves
  <2>2. \/ RequestCalls(requests'[e.id], e.id, e)
        \/ requests[e.id].status = "approved" /\ requests'[e.id].status = "rejected"
             /\ e = Record("approved", e.id, requests[e.id].decided_by)
    BY <1>3, <2>1 DEF RequestCalls
  <2>3. QED BY <2>1, <2>2, WarrantedBy DEF Record
<1>4. QED BY <1>2, <1>3, CalledBy

-----------------------------------------------------------------------------
(* What one step does to documents, trail and workers *)

OthersIdle(w) == \A v \in Workers \ {w} : work'[v] = work[v]

\* Nothing the trail is about changes, and no worker comes to or leaves its insert.
Silent ==
    /\ Warranted' = Warranted /\ UNCHANGED <<audit, crashes>>
    /\ \A w \in Workers :
          \/ work'[w] = work[w]
          \/ work[w].step # "audit" /\ work'[w].step # "audit"

\* A worker writes a document and is left with the event of that write.
Writes(w) ==
    /\ OthersIdle(w) /\ UNCHANGED <<audit, crashes>>
    /\ work[w].step # "audit" /\ work'[w].step = "audit"
    /\ work'[w].event # "approved"
    /\ Report(work'[w]) \in Warranted' \ Warranted
    /\ Warranted' \subseteq Warranted \cup {Report(work'[w])}

\* A worker writes documents and their events in one transaction.
WritesBoth(w) ==
    /\ OthersIdle(w) /\ UNCHANGED crashes
    /\ work[w].step # "audit" /\ work'[w].step # "audit"
    /\ \E new : /\ new \subseteq Warranted' \ Warranted
                /\ audit' = audit \cup new /\ Warranted' \subseteq Warranted \cup new

\* A worker inserts its event.
Records(w) ==
    /\ OthersIdle(w) /\ UNCHANGED crashes /\ Warranted' = Warranted
    /\ work[w].step = "audit" /\ work'[w].step # "audit"
    /\ audit' = audit \cup {Report(work[w])}

\* A worker dies.
Dies(w) ==
    /\ OthersIdle(w) /\ Warranted' = Warranted /\ UNCHANGED audit
    /\ work'[w].step # "audit" /\ crashes' = crashes + 1

TrailStep ==
    \/ Silent
    \/ \E w \in Workers : Writes(w) \/ WritesBoth(w) \/ Records(w) \/ Dies(w)

\* A worker that moves without auditing, with nothing written, is silent.
LEMMA OneMovesSilently ==
  ASSUME TypeOK, NEW w \in Workers, NEW job, work' = [work EXCEPT ![w] = job],
         work[w].step # "audit", job.step # "audit",
         Warranted' = Warranted, UNCHANGED <<audit, crashes>>
  PROVE  Silent
<1>1. \A v \in Workers : work'[v] = IF v = w THEN job ELSE work[v]
  BY DEF TypeOK
<1>2. QED BY <1>1 DEF Silent

\* A handler that only starts a job writes nothing.
LEMMA StartIsSilent ==
  ASSUME TypeOK, NEW w \in Workers, NEW job, Start(w, job), job.step # "audit",
         UNCHANGED <<assignments, requests, audit, crashes>>
  PROVE  Silent
<1>1. work' = [work EXCEPT ![w] = job] /\ work[w].step = "idle"
  BY DEF Start, NoJob
<1>2. Warranted' = Warranted
  BY DEF Warranted
<1>3. QED BY <1>1, <1>2, OneMovesSilently

\* Storing an assignment leaves its audit to be written.
LEMMA InsertTrail ==
  ASSUME TypeOK, JobsSound, JobsNamed, NEW w \in Workers, InsertAssignment(w)
  PROVE  Writes(w)
<1> DEFINE n == Len(assignments) + 1
<1>1. /\ assignments \in Seq(Assignment) /\ work \in [Workers -> Job]
      /\ work[w] \in Job /\ JobSound(work[w]) /\ JobNamed(work[w])
      /\ n \in Nat
  BY DEF TypeOK, JobsSound, JobsNamed
<1>2. work[w].target \in Users
  BY <1>1 DEF InsertAssignment, JobSound
<1>3. PICK x \in Expiries : assignments' = Append(assignments, NewAssignment(work[w], x))
  BY DEF InsertAssignment, Expiries
<1> DEFINE d == NewAssignment(work[w], x)
<1>4. d \in Assignment /\ d.status = "active" /\ d.granted_by = work[w].actor
  BY <1>1, <1>2, NewType DEF NewAssignment
<1> HIDE DEF d
<1>5. /\ DOMAIN assignments' = DOMAIN assignments \cup {n}
      /\ assignments'[n] = d
      /\ \A i \in DOMAIN assignments : assignments'[i] = assignments[i]
  BY <1>1, <1>3, <1>4 DEF d
<1>6. /\ OthersIdle(w) /\ work[w].step = "insert" /\ work'[w].step = "audit"
      /\ work'[w].id = n /\ work'[w].event = work[w].event /\ work'[w].actor = work[w].actor
      /\ UNCHANGED <<requests, audit, crashes>>
  BY <1>1 DEF InsertAssignment, OthersIdle, Job
<1>7. work[w].event = IF work[w].actor = Bootstrapper THEN "bootstrapped" ELSE "granted"
  BY <1>1, <1>6 DEF JobNamed
<1> DEFINE e == Report(work'[w])
<1>8. e = Record(IF assignments'[n].granted_by = Bootstrapper
                 THEN "bootstrapped" ELSE "granted", n, assignments'[n].granted_by)
  BY <1>4, <1>5, <1>6, <1>7 DEF Report
<1> HIDE DEF n, e
<1>9. Warranted' = Warranted \cup {e} /\ e \notin Warranted
  <2>1. \A i \in DOMAIN assignments : SameCalls(assignments[i], assignments'[i])
    BY <1>5 DEF SameCalls
  <2>2. n = Len(assignments) + 1
    BY DEF n
  <2>3. QED BY <1>4, <1>5, <1>6, <1>8, <2>1, <2>2, GrantCalled
<1>10. QED BY <1>6, <1>7, <1>9 DEF Writes, e

\* So does revoking one,
LEMMA RevokeTrail ==
  ASSUME TypeOK, JobsSound, JobsNamed, NEW w \in Workers, RevokeAssignment(w)
  PROVE  Writes(w)
<1>1. PICK n : n = work[w].id
  OBVIOUS
<1>2. PICK u : u = work[w].actor
  OBVIOUS
<1>3. /\ assignments \in Seq(Assignment) /\ work \in [Workers -> Job]
      /\ work[w] \in Job /\ JobSound(work[w]) /\ JobNamed(work[w])
  BY DEF TypeOK, JobsSound, JobsNamed
<1>4. /\ n \in DOMAIN assignments /\ assignments[n].status = "active"
      /\ assignments[n] \in Assignment
  BY <1>1, <1>3 DEF RevokeAssignment, JobSound
<1>5. assignments' = [assignments EXCEPT ![n].status = "revoked", ![n].revoked_by = u]
  BY <1>1, <1>2 DEF RevokeAssignment
<1>6. /\ DOMAIN assignments' = DOMAIN assignments
      /\ \A i \in DOMAIN assignments : i # n => assignments'[i] = assignments[i]
      /\ Identity(assignments'[n]) = Identity(assignments[n])
      /\ assignments'[n].status = "revoked" /\ assignments'[n].revoked_by = u
  BY <1>3, <1>4, <1>5 DEF Identity, Assignment
<1>7. /\ OthersIdle(w) /\ work[w].step = "revoke" /\ work'[w].step = "audit"
      /\ work'[w].id = n /\ work'[w].event = "revoked" /\ work'[w].actor = u
      /\ UNCHANGED <<requests, audit, crashes>>
  BY <1>1, <1>2, <1>3 DEF RevokeAssignment, Continue, OthersIdle, Job, JobNamed
<1>8. Report(work'[w]) = Record("revoked", n, u)
  BY <1>7 DEF Report
<1>9. /\ Warranted' = Warranted \cup {Report(work'[w])}
      /\ Report(work'[w]) \notin Warranted
  BY <1>4, <1>6, <1>7, <1>8, RevocationCalled
<1>10. QED BY <1>7, <1>9 DEF Writes

\* storing an access request,
LEMMA CreateTrail ==
  ASSUME TypeOK, JobsSound, JobsNamed, NEW w \in Workers, CreateRequest(w)
  PROVE  Writes(w)
<1>1. PICK k : k = Len(requests) + 1
  OBVIOUS
<1>2. /\ requests \in Seq(AccessRequest) /\ work \in [Workers -> Job]
      /\ work[w] \in Job /\ JobSound(work[w]) /\ JobNamed(work[w]) /\ k \in Nat
  BY <1>1 DEF TypeOK, JobsSound, JobsNamed
<1>3. PICK r : r = [user |-> work[w].actor, role |-> work[w].payload.role,
                    status |-> "pending", decided_by |-> Nobody]
  OBVIOUS
<1>4. requests' = Append(requests, r)
  BY <1>3 DEF CreateRequest
<1>5. /\ DOMAIN requests' = DOMAIN requests \cup {k}
      /\ requests'[k] = r
      /\ \A n \in DOMAIN requests : requests'[n] = requests[n]
  BY <1>1, <1>2, <1>4
<1>6. /\ OthersIdle(w) /\ work[w].step = "open" /\ work'[w].step = "audit"
      /\ work'[w].id = k /\ work'[w].event = "created" /\ work'[w].actor = work[w].actor
      /\ UNCHANGED <<assignments, audit, crashes>>
  BY <1>1, <1>2 DEF CreateRequest, OthersIdle, Job, JobNamed
<1>7. Report(work'[w]) = Record("created", k, requests'[k].user)
  BY <1>3, <1>5, <1>6 DEF Report
<1>8. requests'[k].status = "pending"
  BY <1>3, <1>5
<1>9. /\ Warranted' = Warranted \cup {Report(work'[w])}
      /\ Report(work'[w]) \notin Warranted
  BY <1>1, <1>5, <1>6, <1>7, <1>8, OpeningCalled
<1>10. QED BY <1>6, <1>9 DEF Writes

\* cancelling one,
LEMMA CancelTrail ==
  ASSUME TypeOK, NEW w \in Workers, NEW u \in Users, NEW k \in DOMAIN requests,
         CancelRequest(w, u, k)
  PROVE  Writes(w)
<1>1. /\ requests \in Seq(AccessRequest) /\ requests[k] \in AccessRequest
      /\ work \in [Workers -> Job]
  BY DEF TypeOK
<1>2. /\ DOMAIN requests' = DOMAIN requests
      /\ \A n \in DOMAIN requests : n # k => requests'[n] = requests[n]
      /\ requests[k].user = u /\ requests'[k].user = u
      /\ requests[k].status = "pending" /\ requests'[k].status = "cancelled"
  BY <1>1 DEF CancelRequest, AccessRequest
<1>3. /\ OthersIdle(w) /\ work[w].step = "idle" /\ work'[w].step = "audit"
      /\ work'[w].id = k /\ work'[w].event = "cancelled" /\ work'[w].actor = u
      /\ UNCHANGED <<assignments, audit, crashes>>
  BY <1>1 DEF CancelRequest, Start, OthersIdle, NoJob
<1>4. Report(work'[w]) = Record("cancelled", k, u)
  BY <1>3 DEF Report
<1>5. /\ Warranted' = Warranted \cup {Report(work'[w])}
      /\ Report(work'[w]) \notin Warranted
  BY <1>2, <1>3, <1>4, ClosingCalled
<1>6. QED BY <1>3, <1>5 DEF Writes

\* rejecting one
LEMMA RejectTrail ==
  ASSUME TypeOK, JobsSound, JobsNamed, NEW w \in Workers, RejectRequest(w)
  PROVE  Writes(w)
<1>1. PICK k : k = work[w].id
  OBVIOUS
<1>2. PICK u : u = work[w].actor
  OBVIOUS
<1>3. /\ requests \in Seq(AccessRequest) /\ work \in [Workers -> Job]
      /\ work[w] \in Job /\ JobSound(work[w]) /\ JobNamed(work[w])
  BY DEF TypeOK, JobsSound, JobsNamed
<1>4. k \in DOMAIN requests /\ requests[k] \in AccessRequest
  BY <1>1, <1>3 DEF RejectRequest, JobSound
<1>5. requests' = [requests EXCEPT ![k].status = "rejected", ![k].decided_by = u]
  BY <1>1, <1>2 DEF RejectRequest
<1>51. requests[k].status = "pending" \/ requests[k].status = "approved"
  BY <1>1 DEF RejectRequest, Rejectable
<1>6. /\ DOMAIN requests' = DOMAIN requests
      /\ \A n \in DOMAIN requests : n # k => requests'[n] = requests[n]
      /\ requests'[k].user = requests[k].user /\ requests'[k].decided_by = u
      /\ requests'[k].status = "rejected"
  BY <1>3, <1>4, <1>5 DEF AccessRequest
<1>7. /\ OthersIdle(w) /\ work[w].step = "reject" /\ work'[w].step = "audit"
      /\ work'[w].id = k /\ work'[w].event = "rejected" /\ work'[w].actor = u
      /\ UNCHANGED <<assignments, audit, crashes>>
  BY <1>1, <1>2, <1>3 DEF RejectRequest, Continue, OthersIdle, Job, JobNamed
<1>8. Report(work'[w]) = Record("rejected", k, u)
  BY <1>7 DEF Report
<1>9. /\ Warranted' \subseteq Warranted \cup {Report(work'[w])}
      /\ Report(work'[w]) \notin Warranted /\ Report(work'[w]) \in Warranted'
  BY <1>4, <1>51, <1>6, <1>7, <1>8, ClosingCalled
<1>10. QED BY <1>7, <1>9 DEF Writes

\* and approving one.
LEMMA ApproveTrail ==
  ASSUME TypeOK, JobsSound, NEW w \in Workers, ApproveRequest(w)
  PROVE  WritesBoth(w)
<1>1. PICK n, k, u : n = Len(assignments) + 1 /\ k = work[w].id /\ u = work[w].actor
  OBVIOUS
<1> DEFINE d == NewAssignment(work[w], "never")
<1>2. /\ assignments \in Seq(Assignment) /\ requests \in Seq(AccessRequest)
      /\ work \in [Workers -> Job] /\ work[w] \in Job /\ JobSound(work[w]) /\ n \in Nat
  BY <1>1 DEF TypeOK, JobsSound
<1>3. /\ k \in DOMAIN requests /\ requests[k] \in AccessRequest
      /\ work[w].target \in Users /\ u \in Users
  BY <1>1, <1>2 DEF ApproveRequest, JobSound
<1>4. d \in Assignment /\ d.status = "active" /\ d.granted_by = u
  BY <1>1, <1>2, <1>3, NewType DEF NewAssignment, Expiries
<1>5. assignments' = Append(Swept(work[w]), d)
  BY DEF ApproveRequest, Granted
<1> HIDE DEF d
<1>6. /\ DOMAIN assignments' = DOMAIN assignments \cup {n} /\ n \notin DOMAIN assignments
      /\ assignments'[n] = d
      /\ \A i \in DOMAIN assignments : assignments'[i] = Swept(work[w])[i]
  BY <1>1, <1>2, <1>4, <1>5, SweptType
<1>7. \A i \in DOMAIN assignments : SameCalls(assignments[i], assignments'[i])
  BY <1>2, <1>6, SweptType DEF SameCalls
<1>8. requests' = [requests EXCEPT ![k].status = "approved", ![k].decided_by = u]
  BY <1>1 DEF ApproveRequest
<1>9. requests[k].status = "pending"
  BY <1>1 DEF ApproveRequest, Approvable
<1>10. /\ DOMAIN requests' = DOMAIN requests
       /\ \A m \in DOMAIN requests : m # k => requests'[m] = requests[m]
       /\ requests'[k].user = requests[k].user /\ requests'[k].decided_by = u
       /\ requests'[k].status = "approved"
  BY <1>2, <1>3, <1>8 DEF AccessRequest
<1>11. PICK g, p : g = Record("granted", n, u) /\ p = Record("approved", k, u)
  OBVIOUS
<1>12. \A x : AssignmentCalls(assignments'[n], n, x) <=> x = g
  BY <1>3, <1>4, <1>6, <1>11, ConstantsAssumption DEF AssignmentCalls
<1>13. /\ \A x : RequestCalls(requests'[k], k, x) => RequestCalls(requests[k], k, x) \/ x = p
       /\ RequestCalls(requests'[k], k, p)
  BY <1>10, <1>11 DEF RequestCalls
<1>14. \A x : x \in Warranted' => x \in Warranted \/ x \in {g, p}
  BY <1>6, <1>7, <1>10, <1>12, <1>13, CallsKept, WarrantedBy
<1>15. g \in Warranted' /\ p \in Warranted'
  BY <1>3, <1>6, <1>10, <1>12, <1>13, WarrantedBy
<1>16. g \notin Warranted
  <2>1. g.id = n /\ g.event = "granted"
    BY <1>11 DEF Record
  <2>2. QED BY <1>6, <2>1, CalledBy
<1>17. p \notin Warranted
  <2>1. p.id = k /\ p.event = "approved"
    BY <1>11 DEF Record
  <2>2. ~RequestCalls(requests[k], k, p)
    BY <1>9, <2>1 DEF RequestCalls, Record
  <2>3. QED BY <2>1, <2>2, CalledBy
<1>18. audit' = audit \cup {g, p}
  BY <1>1, <1>11 DEF ApproveRequest
<1>19. /\ OthersIdle(w) /\ work[w].step # "audit" /\ work'[w].step # "audit"
       /\ UNCHANGED crashes
  BY <1>2 DEF ApproveRequest, Finish, OthersIdle, NoJob
<1>20. {g, p} \subseteq Warranted' \ Warranted /\ Warranted' \subseteq Warranted \cup {g, p}
  BY <1>14, <1>15, <1>16, <1>17
<1>21. QED BY <1>18, <1>19, <1>20 DEF WritesBoth

\* Every step is one of the five.
LEMMA StepTrail ==
  ASSUME TypeOK, JobsSound, JobsNamed, [Next]_vars
  PROVE  TrailStep
<1>0. /\ assignments \in Seq(Assignment) /\ work \in [Workers -> Job]
      /\ \A i \in DOMAIN assignments : assignments[i] \in Assignment
  BY DEF TypeOK
<1>1. ASSUME UNCHANGED <<assignments, requests>>
      PROVE  Warranted' = Warranted
  BY <1>1 DEF Warranted
<1>2. ASSUME UNCHANGED <<assignments, requests, audit, work, crashes>>
      PROVE  Silent
  BY <1>1, <1>2 DEF Silent
<1>3. ASSUME NEW u \in Users, SignIn(u) PROVE Silent
  BY <1>2, <1>3 DEF SignIn
<1>4. ASSUME NEW i \in DOMAIN assignments, Lapse(i) PROVE Silent
  <2>1. /\ DOMAIN assignments' = DOMAIN assignments
        /\ \A n \in DOMAIN assignments : SameCalls(assignments[n], assignments'[n])
    BY <1>0, <1>4 DEF Lapse, SameCalls, Identity, Assignment
  <2>2. Warranted' = Warranted
    BY <1>4, <2>1, NothingCalled DEF Lapse
  <2>3. QED BY <1>4, <2>2 DEF Lapse, Silent
<1>5. ASSUME NEW w \in Workers, NEW u \in Users, BeginBootstrap(w, u) PROVE Silent
  <2>1. BootstrapJob(u).step = "insert"
    BY DEF BootstrapJob, NoJob
  <2>2. QED BY <1>5, <2>1, StartIsSilent DEF BeginBootstrap
<1>6. ASSUME NEW w \in Workers, NEW u \in Users, NEW t \in Users, NEW p \in Payloads,
             BeginGrant(w, u, t, p)
      PROVE  Silent
  <2> DEFINE job == [NoJob EXCEPT !.step = "sweep", !.actor = u, !.target = t, !.payload = p]
  <2>1. job.step = "sweep"
    BY DEF NoJob
  <2> HIDE DEF job
  <2>2. QED BY <1>6, <2>1, StartIsSilent DEF BeginGrant, job
<1>7. ASSUME NEW w \in Workers, NEW u \in Users, NEW i \in DOMAIN assignments,
             BeginRevoke(w, u, i)
      PROVE  Silent
  <2> DEFINE job == [NoJob EXCEPT !.step = "revoke", !.event = "revoked", !.actor = u,
                                  !.target = assignments[i].user, !.id = i]
  <2>1. job.step = "revoke"
    BY DEF NoJob
  <2>2. Start(w, job)
    BY <1>7 DEF BeginRevoke
  <2> HIDE DEF job
  <2>3. QED BY <1>7, <2>1, <2>2, StartIsSilent DEF BeginRevoke
<1>8. ASSUME NEW w \in Workers, NEW u \in Users, NEW role \in Roles, BeginRequest(w, u, role)
      PROVE  Silent
  <2> DEFINE job == [NoJob EXCEPT !.step = "open", !.event = "created", !.actor = u,
                                  !.target = u, !.payload = GlobalGrant(role)]
  <2>1. job.step = "open"
    BY DEF NoJob
  <2>2. Start(w, job)
    BY <1>8 DEF BeginRequest
  <2> HIDE DEF job
  <2>3. QED BY <1>8, <2>1, <2>2, StartIsSilent DEF BeginRequest
<1>9. ASSUME NEW w \in Workers, NEW u \in Users, NEW k \in DOMAIN requests,
             NEW event \in {"approved", "rejected"}, BeginDecision(w, u, k, event)
      PROVE  Silent
  <2> DEFINE job == [NoJob EXCEPT !.step = "review", !.event = event, !.actor = u, !.id = k]
  <2>1. job.step = "review"
    BY DEF NoJob
  <2>2. Start(w, job)
    BY <1>9 DEF BeginDecision
  <2> HIDE DEF job
  <2>3. QED BY <1>9, <2>1, <2>2, StartIsSilent DEF BeginDecision
<1>10. ASSUME NEW w \in Workers, SweepExpired(w) PROVE Silent
  <2>1. \A i \in DOMAIN assignments : SameCalls(assignments[i], assignments'[i])
    BY <1>0, <1>10, SweptType DEF SweepExpired, SameCalls
  <2>2. Warranted' = Warranted
    BY <1>0, <1>10, <2>1, SweptType, NothingCalled DEF SweepExpired
  <2>3. /\ work[w].step = "sweep" /\ work'[w].step = "insert"
        /\ \A v \in Workers \ {w} : work'[v] = work[v]
        /\ UNCHANGED <<audit, crashes>>
    BY <1>0, <1>10 DEF SweepExpired, Continue, Job
  <2>4. QED BY <2>2, <2>3 DEF Silent
<1>11. ASSUME NEW w \in Workers, ReviewRequest(w) PROVE Silent
  <2>1. /\ work[w].step = "review" /\ work'[w].step \in {"approve", "reject"}
        /\ \A v \in Workers \ {w} : work'[v] = work[v]
    BY <1>0, <1>11 DEF ReviewRequest, Job
  <2>2. QED BY <1>1, <1>11, <2>1 DEF ReviewRequest, Silent
<1>12. ASSUME NEW w \in Workers, Refuse(w) PROVE Silent
  <2>1. work[w].step # "audit"
    BY <1>12 DEF Refuse, UnknownTarget, DuplicateGrant, NotActive, DuplicateRequest, NotPending
  <2>2. /\ work'[w].step = "idle"
        /\ \A v \in Workers \ {w} : work'[v] = work[v]
    BY <1>0, <1>12 DEF Refuse, Finish, NoJob
  <2>3. QED BY <1>1, <1>12, <2>1, <2>2 DEF Refuse, Silent
<1>13. ASSUME NEW w \in Workers, RecordAudit(w) PROVE Records(w)
  <2>1. work'[w].step = "idle" /\ OthersIdle(w)
    BY <1>0, <1>13 DEF RecordAudit, Finish, NoJob, OthersIdle
  <2>2. QED BY <1>1, <1>13, <2>1 DEF RecordAudit, Records, Report
<1>14. ASSUME NEW w \in Workers, Crash(w) PROVE Dies(w)
  <2>1. work'[w].step = "idle" /\ OthersIdle(w)
    BY <1>0, <1>14 DEF Crash, Finish, NoJob, OthersIdle
  <2>2. QED BY <1>1, <1>14, <2>1 DEF Crash, Dies
<1>15. ASSUME UNCHANGED vars PROVE Silent
  BY <1>2, <1>15 DEF vars
<1>16. QED
  BY <1>3, <1>4, <1>5, <1>6, <1>7, <1>8, <1>9, <1>10, <1>11, <1>12, <1>13, <1>14, <1>15,
     InsertTrail, RevokeTrail, CreateTrail, CancelTrail, RejectTrail, ApproveTrail
  DEF Next, Begin, Serve, TrailStep

\* Each handler leaves its worker with the event of its endpoint.
LEMMA NamedStep ==
  ASSUME TypeOK, JobsNamed, [Next]_vars
  PROVE  JobsNamed'
<1>0. /\ work \in [Workers -> Job]
      /\ \A w \in Workers : work[w] \in Job /\ JobNamed(work[w])
  BY DEF TypeOK, JobsNamed
<1>1. ASSUME UNCHANGED work PROVE JobsNamed'
  BY <1>0, <1>1 DEF JobsNamed
<1>2. ASSUME NEW w \in Workers, NEW job, JobNamed(job), work' = [work EXCEPT ![w] = job]
      PROVE  JobsNamed'
  BY <1>0, <1>2 DEF JobsNamed
<1>3. ASSUME NEW w \in Workers, NEW u \in Users, BeginBootstrap(w, u) PROVE JobsNamed'
  BY <1>2, <1>3 DEF BeginBootstrap, Start, BootstrapJob, NoJob, JobNamed
<1>4. ASSUME NEW w \in Workers, NEW u \in Users, NEW t \in Users, NEW p \in Payloads,
             BeginGrant(w, u, t, p)
      PROVE  JobsNamed'
  <2>1. JobNamed([NoJob EXCEPT !.step = "sweep", !.actor = u, !.target = t, !.payload = p])
    BY ConstantsAssumption DEF NoJob, JobNamed
  <2>2. QED BY <1>2, <1>4, <2>1 DEF BeginGrant, Start
<1>5. ASSUME NEW w \in Workers, NEW u \in Users, NEW i \in DOMAIN assignments,
             BeginRevoke(w, u, i)
      PROVE  JobsNamed'
  <2>1. JobNamed([NoJob EXCEPT !.step = "revoke", !.event = "revoked", !.actor = u,
                               !.target = assignments[i].user, !.id = i])
    BY DEF NoJob, JobNamed
  <2>2. QED BY <1>2, <1>5, <2>1 DEF BeginRevoke, Start
<1>6. ASSUME NEW w \in Workers, NEW u \in Users, NEW role \in Roles, BeginRequest(w, u, role)
      PROVE  JobsNamed'
  <2>1. JobNamed([NoJob EXCEPT !.step = "open", !.event = "created", !.actor = u,
                               !.target = u, !.payload = GlobalGrant(role)])
    BY DEF NoJob, JobNamed
  <2>2. QED BY <1>2, <1>6, <2>1 DEF BeginRequest, Start
<1>7. ASSUME NEW w \in Workers, NEW u \in Users, NEW k \in DOMAIN requests,
             CancelRequest(w, u, k)
      PROVE  JobsNamed'
  <2>1. JobNamed([NoJob EXCEPT !.step = "audit", !.event = "cancelled", !.actor = u,
                               !.target = u, !.id = k])
    BY DEF NoJob, JobNamed
  <2>2. QED BY <1>2, <1>7, <2>1 DEF CancelRequest, Start
<1>8. ASSUME NEW w \in Workers, NEW u \in Users, NEW k \in DOMAIN requests,
             NEW event \in {"approved", "rejected"}, BeginDecision(w, u, k, event)
      PROVE  JobsNamed'
  <2>1. JobNamed([NoJob EXCEPT !.step = "review", !.event = event, !.actor = u, !.id = k])
    BY DEF NoJob, JobNamed
  <2>2. QED BY <1>2, <1>8, <2>1 DEF BeginDecision, Start
<1>9. ASSUME NEW w \in Workers, SweepExpired(w) PROVE JobsNamed'
  <2>1. JobNamed([work[w] EXCEPT !.step = "insert"])
    BY <1>0, <1>9 DEF SweepExpired, Job, JobNamed
  <2>2. work' = [work EXCEPT ![w] = [work[w] EXCEPT !.step = "insert"]]
    BY <1>0, <1>9 DEF SweepExpired, Continue
  <2>3. QED BY <1>2, <2>1, <2>2
<1>10. ASSUME NEW w \in Workers,
              InsertAssignment(w) \/ RevokeAssignment(w) \/ CreateRequest(w) \/ RejectRequest(w)
       PROVE  JobsNamed'
  <2>1. work'[w].step = "audit" /\ \A v \in Workers \ {w} : work'[v] = work[v]
    BY <1>10, <1>0
    DEF InsertAssignment, RevokeAssignment, CreateRequest, RejectRequest, Continue, Job
  <2>2. JobNamed(work'[w])
    BY <2>1 DEF JobNamed
  <2>3. QED BY <1>0, <2>1, <2>2 DEF JobsNamed
<1>11. ASSUME NEW w \in Workers, ReviewRequest(w) PROVE JobsNamed'
  <2>1. /\ work'[w].step = IF work[w].event = "approved" THEN "approve" ELSE "reject"
        /\ work'[w].event = work[w].event /\ work[w].step = "review"
        /\ \A v \in Workers \ {w} : work'[v] = work[v]
    BY <1>11, <1>0 DEF ReviewRequest, Job
  <2>2. JobNamed(work'[w])
    BY <1>0, <2>1 DEF JobNamed
  <2>3. QED BY <1>0, <2>1, <2>2 DEF JobsNamed
<1>12. ASSUME NEW w \in Workers,
              ApproveRequest(w) \/ RecordAudit(w) \/ Refuse(w) \/ Crash(w)
       PROVE  JobsNamed'
  <2>1. work' = [work EXCEPT ![w] = NoJob]
    BY <1>12 DEF ApproveRequest, RecordAudit, Refuse, Crash, Finish
  <2>2. JobNamed(NoJob)
    BY DEF NoJob, JobNamed
  <2>3. QED BY <1>2, <2>1, <2>2
<1>13. QED
  BY <1>1, <1>3, <1>4, <1>5, <1>6, <1>7, <1>8, <1>9, <1>10, <1>11, <1>12
  DEF Next, Begin, Serve, SignIn, Lapse, vars

-----------------------------------------------------------------------------
(* The trail *)

\* A step keeps the trail true and the events in flight missing and distinct.
LEMMA AuditStep ==
  ASSUME TypeOK, JobsSound, AuditSound, [Next]_vars
  PROVE  AuditSound'
<1>0. JobsNamed /\ TrailTrue /\ ReportsMissing /\ ReportsDiffer
  BY DEF AuditSound
<1>1. TrailStep /\ JobsNamed'
  BY <1>0, StepTrail, NamedStep
<1>2. \A w \in Auditing :
         /\ w \in Workers /\ Report(work[w]).event # "approved"
         /\ Report(work[w]) \in Warranted /\ Report(work[w]) \notin audit
  BY <1>0 DEF ReportsMissing, AuditGap, Report, Record, Auditing
<1>3. \A w \in Auditing : Report(work[w]) \in Warranted'
  BY <1>2, CalledForever
<1>4. audit' \subseteq audit \cup Warranted'
  BY <1>1, <1>3 DEF TrailStep, Silent, Writes, WritesBoth, Records, Dies, Auditing
<1>5. TrailTrue'
  <2>1. ASSUME NEW e \in audit, e \notin Warranted
        PROVE  /\ e.event = "approved" /\ e.id \in DOMAIN requests'
               /\ requests'[e.id].status = "rejected"
    <3>1. /\ e.event = "approved" /\ e.id \in DOMAIN requests
          /\ requests[e.id].status = "rejected"
      BY <1>0, <2>1 DEF TrailTrue
    <3>2. RequestMoves /\ RequestsGrow
      BY StepMoves, StepGrows
    <3>3. QED BY <3>1, <3>2 DEF RequestMoves, RequestsGrow
  <2>2. QED BY <1>4, <2>1, CalledForever DEF TrailTrue
<1>6. CASE Silent
  <2>1. /\ Auditing' = Auditing /\ \A w \in Auditing : work'[w] = work[w]
        /\ audit' = audit
    BY <1>6 DEF Silent, Auditing
  <2>2. ReportsMissing' /\ ReportsDiffer'
    BY <1>0, <1>2, <1>3, <2>1 DEF ReportsMissing, ReportsDiffer, AuditGap, Report, Record
  <2>3. QED BY <1>1, <1>5, <2>2 DEF AuditSound
<1>7. ASSUME NEW w \in Workers, Writes(w) PROVE AuditSound'
  <2>1. /\ Auditing' = Auditing \cup {w} /\ w \notin Auditing
        /\ \A v \in Auditing : work'[v] = work[v]
        /\ audit' = audit
    BY <1>7 DEF Writes, OthersIdle, Auditing
  <2>2. /\ Report(work'[w]) \in Warranted' /\ Report(work'[w]) \notin Warranted
        /\ work'[w].event # "approved" /\ Report(work'[w]).event = work'[w].event
    BY <1>7 DEF Writes, Report, Record
  <2>3. Report(work'[w]) \notin audit
    BY <1>0, <2>2 DEF TrailTrue
  <2>4. ReportsMissing'
    BY <1>0, <1>2, <1>3, <2>1, <2>2, <2>3 DEF ReportsMissing, AuditGap, Report, Record
  <2>5. ReportsDiffer'
    <3>1. \A v \in Auditing : Report(work'[v]) # Report(work'[w])
      BY <1>2, <2>1, <2>2
    <3>2. QED BY <1>0, <2>1, <3>1 DEF ReportsDiffer, Report, Record
  <2>6. QED BY <1>1, <1>5, <2>4, <2>5 DEF AuditSound
<1>8. ASSUME NEW w \in Workers, WritesBoth(w) \/ Records(w) \/ Dies(w) PROVE AuditSound'
  <2>1. /\ Auditing' = Auditing \ {w}
        /\ \A v \in Auditing' : work'[v] = work[v]
    BY <1>8 DEF WritesBoth, Records, Dies, OthersIdle, Auditing
  <2>2. ASSUME NEW v \in Auditing' PROVE Report(work[v]) \notin audit'
    <3>1. v \in Auditing /\ v # w
      BY <2>1
    <3>2. CASE WritesBoth(w)
      BY <1>2, <3>1, <3>2 DEF WritesBoth
    <3>3. CASE Records(w)
      <4>1. w \in Auditing /\ audit' = audit \cup {Report(work[w])}
        BY <3>3 DEF Records, Auditing
      <4>2. Report(work[v]) # Report(work[w])
        BY <1>0, <3>1, <4>1 DEF ReportsDiffer
      <4>3. QED BY <1>2, <3>1, <4>1, <4>2
    <3>4. CASE Dies(w)
      BY <1>2, <3>1, <3>4 DEF Dies
    <3>5. QED BY <1>8, <3>2, <3>3, <3>4
  <2>3. ReportsMissing'
    BY <1>0, <1>3, <2>1, <2>2 DEF ReportsMissing, AuditGap, Report, Record
  <2>4. ReportsDiffer'
    BY <1>0, <2>1 DEF ReportsDiffer, Report, Record
  <2>5. QED BY <1>1, <1>5, <2>3, <2>4 DEF AuditSound
<1>9. QED BY <1>1, <1>6, <1>7, <1>8 DEF TrailStep

\* What the bootstrap script leaves is in the trail.
LEMMA InitTrail ==
  ASSUME Init
  PROVE  Warranted = audit /\ Auditing = {}
<1>1. /\ DOMAIN assignments = DOMAIN FirstAdmins /\ DOMAIN requests = {}
      /\ audit = {Record("bootstrapped", i, Bootstrapper) : i \in DOMAIN FirstAdmins}
  BY DEF Init
<1>2. \A i \in DOMAIN FirstAdmins :
         /\ assignments[i].granted_by = Bootstrapper /\ assignments[i].status = "active"
  BY DEF Init, NewAssignment, BootstrapJob, NoJob
<1>3. \A i \in DOMAIN FirstAdmins : \A e :
         AssignmentCalls(assignments[i], i, e) <=> e = Record("bootstrapped", i, Bootstrapper)
  BY <1>2 DEF AssignmentCalls
<1>4. \A e : e \in Warranted <=> e \in audit
  BY <1>1, <1>3, WarrantedBy
<1>5. Auditing = {}
  BY DEF Init, Auditing, NoJob
<1>6. QED BY <1>4, <1>5

\* What the two properties of the trail rest on is inductive.
LEMMA TrailIsSound == Spec => []AuditSound
<1>1. Init => AuditSound
  <2> SUFFICES ASSUME Init PROVE AuditSound
    OBVIOUS
  <2>1. JobsNamed
    BY DEF Init, JobsNamed, JobNamed, NoJob
  <2>2. QED BY <2>1, InitTrail DEF AuditSound, TrailTrue, ReportsMissing, ReportsDiffer
<1>2. TypeOK /\ JobsSound /\ AuditSound /\ [Next]_vars => AuditSound'
  BY AuditStep
<1>3. QED BY <1>1, <1>2, JobsAlwaysSound, PTL DEF Spec

(***************************************************************************)
(* The trail never claims what did not happen: every event in it is called *)
(* for by a stored document, but for an approval that a rejection decided  *)
(* beside it overwrote (services/authorization.py decide_access_request).  *)
(***************************************************************************)
THEOREM TrailIsTruthful == Spec => []AuditTruthful
<1>1. AuditSound => AuditTruthful
  BY DEF AuditSound, TrailTrue, AuditTruthful
<1>2. QED BY <1>1, TrailIsSound, PTL

-----------------------------------------------------------------------------
(* Counting the gaps *)

GapsCounted ==
    /\ IsFiniteSet(AuditGap) /\ IsFiniteSet(Auditing)
    /\ Cardinality(AuditGap) <= Cardinality(Auditing) + crashes

\* Each of the five cases keeps the count.
LEMMA GapStep ==
  ASSUME TypeOK, JobsSound, AuditSound, GapsCounted, [Next]_vars
  PROVE  GapsCounted'
<1>0. /\ JobsNamed /\ TrailTrue /\ ReportsMissing
      /\ TrailStep /\ crashes \in Nat
      /\ IsFiniteSet(AuditGap) /\ IsFiniteSet(Auditing)
      /\ Cardinality(AuditGap) \in Nat /\ Cardinality(Auditing) \in Nat
      /\ Cardinality(AuditGap) <= Cardinality(Auditing) + crashes
  BY StepTrail, FS_CardinalityType DEF AuditSound, GapsCounted, TypeOK
<1>1. CASE Silent
  BY <1>0, <1>1 DEF Silent, Auditing, AuditGap, GapsCounted
<1>2. ASSUME NEW w \in Workers, Writes(w) PROVE GapsCounted'
  <2> DEFINE e == Report(work'[w])
  <2>1. Auditing' = Auditing \cup {w} /\ w \notin Auditing
    BY <1>2 DEF Writes, OthersIdle, Auditing
  <2>2. AuditGap' \subseteq AuditGap \cup {e} /\ crashes' = crashes
    BY <1>2 DEF Writes, AuditGap
  <2>3. /\ IsFiniteSet(Auditing') /\ Cardinality(Auditing') = Cardinality(Auditing) + 1
    BY <1>0, <2>1, FS_AddElement
  <2>4. /\ IsFiniteSet(AuditGap \cup {e})
        /\ Cardinality(AuditGap \cup {e}) <= Cardinality(AuditGap) + 1
    BY <1>0, FS_AddElement
  <2>5. /\ IsFiniteSet(AuditGap')
        /\ Cardinality(AuditGap') <= Cardinality(AuditGap \cup {e})
    BY <2>2, <2>4, FS_Subset
  <2>6. /\ Cardinality(AuditGap \cup {e}) \in Nat /\ Cardinality(AuditGap') \in Nat
    BY <2>4, <2>5, FS_CardinalityType
  <2>7. QED BY <1>0, <2>2, <2>3, <2>4, <2>5, <2>6 DEF GapsCounted
<1>3. ASSUME NEW w \in Workers, WritesBoth(w) PROVE GapsCounted'
  <2>1. Auditing' = Auditing /\ crashes' = crashes /\ AuditGap' \subseteq AuditGap
    BY <1>3 DEF WritesBoth, OthersIdle, Auditing, AuditGap
  <2>2. IsFiniteSet(AuditGap') /\ Cardinality(AuditGap') <= Cardinality(AuditGap)
    BY <1>0, <2>1, FS_Subset
  <2>3. Cardinality(AuditGap') \in Nat
    BY <2>2, FS_CardinalityType
  <2>4. QED BY <1>0, <2>1, <2>2, <2>3 DEF GapsCounted
<1>4. ASSUME NEW w \in Workers, Records(w) PROVE GapsCounted'
  <2>1. /\ Auditing' = Auditing \ {w} /\ w \in Auditing /\ crashes' = crashes
        /\ AuditGap' = AuditGap \ {Report(work[w])}
    BY <1>4 DEF Records, OthersIdle, Auditing, AuditGap
  <2>2. Report(work[w]) \in AuditGap
    BY <1>0, <2>1 DEF ReportsMissing
  <2>3. /\ IsFiniteSet(Auditing') /\ Cardinality(Auditing') = Cardinality(Auditing) - 1
        /\ IsFiniteSet(AuditGap') /\ Cardinality(AuditGap') = Cardinality(AuditGap) - 1
    BY <1>0, <2>1, <2>2, FS_RemoveElement
  <2>4. QED BY <1>0, <2>1, <2>3 DEF GapsCounted
<1>5. ASSUME NEW w \in Workers, Dies(w) PROVE GapsCounted'
  <2>1. /\ Auditing' = Auditing \ {w} /\ crashes' = crashes + 1 /\ AuditGap' = AuditGap
    BY <1>5 DEF Dies, OthersIdle, Auditing, AuditGap
  <2>2. /\ IsFiniteSet(Auditing \ {w})
        /\ Cardinality(Auditing \ {w}) =
              IF w \in Auditing THEN Cardinality(Auditing) - 1 ELSE Cardinality(Auditing)
    BY <1>0, FS_RemoveElement
  <2>3. Cardinality(Auditing') \in Nat
    BY <2>1, <2>2, FS_CardinalityType
  <2>4. QED BY <1>0, <2>1, <2>2, <2>3 DEF GapsCounted
<1>6. QED BY <1>0, <1>1, <1>2, <1>3, <1>4, <1>5 DEF TrailStep

(***************************************************************************)
(* Writes and their events are separate MongoDB calls, so a process that   *)
(* dies between them leaves a gap; every other missing event belongs to a  *)
(* request still in flight, and each gap has a request of its own.         *)
(***************************************************************************)
THEOREM GapsAreExplained == Spec => []AuditGapsExplained
<1>1. Init => GapsCounted
  <2> SUFFICES ASSUME Init PROVE GapsCounted
    OBVIOUS
  <2>1. AuditGap = {} /\ Auditing = {} /\ crashes = 0
    BY InitTrail DEF AuditGap, Init
  <2>2. QED BY <2>1, FS_EmptySet DEF GapsCounted
<1>2. TypeOK /\ JobsSound /\ AuditSound /\ GapsCounted /\ [Next]_vars => GapsCounted'
  BY GapStep
<1>3. GapsCounted => AuditGapsExplained
  BY DEF GapsCounted, AuditGapsExplained, Auditing
<1>4. QED BY <1>1, <1>2, <1>3, JobsAlwaysSound, TrailIsSound, PTL DEF Spec
=============================================================================
