----------------------------- MODULE AccessLedger -----------------------------
(***************************************************************************)
(* What the authorization of EvalHub promises, as if every grant,          *)
(* revocation and decision were one act of an administrator on a ledger,   *)
(* with no request in flight, no check made beforehand and no crash.       *)
(* AccessControl implements it, with roles and petitions for its           *)
(* assignments and access requests.                                        *)
(*                                                                         *)
(* It does not promise that an administrator still is one: an act may be   *)
(* late. Nor that a rejection is of an open petition.                      *)
(***************************************************************************)
EXTENDS Naturals, Sequences

CONSTANTS Users, TenantOf, Roles, Scopes, Bootstrapper, Nobody

VARIABLES
    roles,              \* every role ever given, in order
    petitions           \* every role ever asked for, in order

Entry(u, role, scope, expiry, by) ==
    [user |-> u, role |-> role, scope |-> scope, expiry |-> expiry, status |-> "active",
     granted_by |-> by, revoked_by |-> Nobody]

FirstEntry(u) == Entry(u, "admin", "global", "never", Bootstrapper)

Init ==
    /\ DOMAIN roles = 1..Len(roles)
    /\ \A i \in DOMAIN roles : \E u \in Users : roles[i] = FirstEntry(u)
    /\ \A i, j \in DOMAIN roles : roles[i] = roles[j] => i = j
    /\ petitions = <<>>

-----------------------------------------------------------------------------
(* by may act on u: someone else who was made an administrator of u's tenant. *)
Presides(by, u) ==
    /\ by \in Users /\ by # u /\ TenantOf[by] = TenantOf[u]
    /\ \E i \in DOMAIN roles : roles[i].user = by /\ roles[i].role = "admin"

\* Bootstrapped roles are not told apart from granted ones by anything else.
Twins(a, b) ==
    /\ <<a.user, a.role, a.scope>> = <<b.user, b.role, b.scope>>
    /\ a.granted_by = Bootstrapper <=> b.granted_by = Bootstrapper

Lapsed == {i \in DOMAIN roles : roles[i].status = "active" /\ roles[i].expiry = "past"}

Expired(S) ==
    [i \in DOMAIN roles |-> IF i \in S THEN [roles[i] EXCEPT !.status = "expired"] ELSE roles[i]]

\* A role is given once; those that have lapsed may expire on the occasion.
Give(entry) == \E S \in SUBSET Lapsed :
    /\ \A i \in DOMAIN roles \ S : roles[i].status = "active" => ~Twins(roles[i], entry)
    /\ roles' = Append(Expired(S), entry)

Lapse(i) ==
    /\ roles[i].status = "active" /\ roles[i].expiry = "future"
    /\ roles' = [roles EXCEPT ![i].expiry = "past"]
    /\ UNCHANGED petitions

Expire(S) == roles' = Expired(S) /\ UNCHANGED petitions

Bootstrap(u) == Give(FirstEntry(u)) /\ UNCHANGED petitions

Grant(by, u, role, scope) ==
    /\ Presides(by, u)
    /\ \E expiry \in {"never", "future", "past"} : Give(Entry(u, role, scope, expiry, by))
    /\ UNCHANGED petitions

Revoke(by, i) ==
    /\ roles[i].status = "active" /\ Presides(by, roles[i].user)
    /\ roles' = [roles EXCEPT ![i].status = "revoked", ![i].revoked_by = by]
    /\ UNCHANGED petitions

Ask(u, role) ==
    /\ \A k \in DOMAIN petitions :
          <<petitions[k].user, petitions[k].role>> = <<u, role>> =>
              petitions[k].status \in {"rejected", "cancelled"}
    /\ petitions' = Append(petitions,
            [user |-> u, role |-> role, status |-> "pending", decided_by |-> Nobody])
    /\ UNCHANGED roles

Withdraw(k) ==
    /\ petitions[k].status = "pending"
    /\ petitions' = [petitions EXCEPT ![k].status = "cancelled"]
    /\ UNCHANGED roles

Decide(k, by, decision) ==
    /\ Presides(by, petitions[k].user)
    /\ petitions' = [petitions EXCEPT ![k].status = decision, ![k].decided_by = by]

\* What is approved is given in the same act.
Approve(by, k) ==
    /\ petitions[k].status = "pending" /\ Decide(k, by, "approved")
    /\ Give(Entry(petitions[k].user, petitions[k].role, "global", "never", by))

\* A rejection may be of what was approved, and takes no role away.
Reject(by, k) ==
    /\ petitions[k].status \in {"pending", "approved"} /\ Decide(k, by, "rejected")
    /\ UNCHANGED roles

Next ==
    \/ \E i \in DOMAIN roles : Lapse(i)
    \/ \E S \in SUBSET Lapsed : Expire(S)
    \/ \E u \in Users : Bootstrap(u)
    \/ \E by, u \in Users, role \in Roles, scope \in Scopes : Grant(by, u, role, scope)
    \/ \E by \in Users, i \in DOMAIN roles : Revoke(by, i)
    \/ \E u \in Users, role \in Roles : Ask(u, role)
    \/ \E k \in DOMAIN petitions : Withdraw(k)
    \/ \E by \in Users, k \in DOMAIN petitions : Approve(by, k) \/ Reject(by, k)

Spec == Init /\ [][Next]_<<roles, petitions>>
=============================================================================
