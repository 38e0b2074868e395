--------------------------- MODULE MCAccessControl ---------------------------
(* Values for the constants of AccessControl. *)
EXTENDS AccessControl, TLC

CONSTANTS u1, u2, w1, w2

OneTenant == [u \in Users |-> "t1"]

EditorOf(scope, temporary) == [role |-> "editor", scope |-> scope, temporary |-> temporary]
AdminForever == [role |-> "admin", scope |-> "global", temporary |-> FALSE]
AdminForNow == [role |-> "admin", scope |-> "global", temporary |-> TRUE]

MixedPayloads == {AdminForNow, EditorOf("e2e", TRUE)}
AnyAdminPayloads == {AdminForever, AdminForNow, EditorOf("global", TRUE)}
ScopedPayloads == {EditorOf("e2e", FALSE), EditorOf("unit", FALSE)}

OneAdmin == <<u1>>

Lowered == [x \in Texts |-> IF x = "Unit" THEN "unit" ELSE x]

\* The theorems of ScopeAlgebraProofs, for two names, two values and holders of
\* two assignments.
ASSUME ScopesKeyed == KeysAreMeanings
ASSUME HeldAsTold == \A a, b \in Grantable : ToldIsAllowed({a, b})
ASSUME ReadAsStored ==
    \A size \in 0..2 : \A list \in [1..size -> Texts \X SUBSET Words] :
        LET given == [type |-> "resource", resource |-> "evaluation", constraints |-> list]
        IN  Acceptable(given) =>
                /\ ReadScope(given) \in ScopeRecords
                /\ \A scope \in ScopeRecords : Stores(given, scope) => ReadScope(given) = scope

WorkerSymmetry == Permutations(Workers)
=============================================================================
