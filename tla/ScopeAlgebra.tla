----------------------------- MODULE ScopeAlgebra -----------------------------
(***************************************************************************)
(* What an assignment allows: roles and their permissions                  *)
(* (security/permissions.py), scopes (models/authorization.py) and the two *)
(* questions asked of them (services/authorization.py).  Pure operators;   *)
(* AccessControl.tla says who holds which assignment when.                 *)
(*                                                                         *)
(* A text stands for a name or a value within the lengths that are         *)
(* accepted; Normal[x] is x.strip().lower() and Blank is the empty text.   *)
(***************************************************************************)
EXTENDS Naturals, Sequences

CONSTANTS Texts, Blank, Normal

ASSUME NormalAssumption ==
    /\ Normal \in [Texts -> Texts] /\ Blank \in Texts
    /\ Normal[Blank] = Blank
    /\ \A x \in Texts : Normal[Normal[x]] = Normal[x]

Words == {Normal[x] : x \in Texts} \ {Blank}

-----------------------------------------------------------------------------
(* Roles and permissions *)

Roles == {"editor", "admin"}
EditorPermissions == {"evals.annotate", "evals.edit"}
AdminPermissions ==
    EditorPermissions \cup {"suggestions.moderate", "access.manage", "audit.read",
                            "product_updates.manage"}
RolePermissions == [editor |-> EditorPermissions, admin |-> AdminPermissions]

Resources == {"evaluation", "suggestion", "access", "audit", "product_update"}
PermissionResource(p) ==
    CASE p \in EditorPermissions        -> "evaluation"
      [] p = "suggestions.moderate"     -> "suggestion"
      [] p = "access.manage"            -> "access"
      [] p = "audit.read"               -> "audit"
      [] p = "product_updates.manage"   -> "product_update"

-----------------------------------------------------------------------------
(* Scopes.  Constraints are a function from names to the values accepted.  *)

Constraints == UNION {[names -> (SUBSET Words) \ {{}}] : names \in SUBSET Words}
GlobalScope == [type |-> "global", resource |-> "none", constraints |-> <<>>]
ResourceScope == [type : {"resource"}, resource : Resources, constraints : Constraints]
ScopeRecords == {GlobalScope} \cup ResourceScope

\* A scope as it is sent or stored: its constraints in the order of the
\* document, names and values as they are written.
GivenScope ==
    [type : {"global", "resource"}, resource : Resources \cup {"none"},
     constraints : Seq(Texts \X SUBSET Texts)]

\* What a global scope has besides its type is dropped, not refused.
Acceptable(given) ==
    given.type = "resource" =>
        /\ given.resource # "none"
        /\ \A k \in DOMAIN given.constraints :
               /\ Normal[given.constraints[k][1]] # Blank
               /\ given.constraints[k][2] # {}
               /\ \A v \in given.constraints[k][2] : Normal[v] # Blank

\* Of two spellings of a name the later one stays.
LastSpelling(list, name) ==
    CHOOSE k \in DOMAIN list :
        /\ Normal[list[k][1]] = name
        /\ \A l \in DOMAIN list : Normal[list[l][1]] = name => l <= k

Kept(list) ==
    [name \in {Normal[list[k][1]] : k \in DOMAIN list} |->
        {Normal[v] : v \in list[LastSpelling(list, name)][2]}]

ReadScope(given) ==
    IF given.type = "global" THEN GlobalScope
    ELSE [type |-> "resource", resource |-> given.resource, constraints |-> Kept(given.constraints)]

\* canonical_key: SHA-256 is taken to tell any two payloads apart.
Key(scope) ==
    IF scope.type = "global" THEN <<"global">> ELSE <<scope.resource, scope.constraints>>

\* The stored document of a scope, its names in any order.
Stores(given, scope) ==
    /\ given \in GivenScope
    /\ given.type = scope.type /\ given.resource = scope.resource
    /\ \A k, l \in DOMAIN given.constraints :
           given.constraints[k][1] = given.constraints[l][1] => k = l
    /\ {given.constraints[k] : k \in DOMAIN given.constraints} =
           {<<name, scope.constraints[name]>> : name \in DOMAIN scope.constraints}

-----------------------------------------------------------------------------
(* What is asked of them *)

Contexts ==
    [resource : Resources, attributes : UNION {[names -> Words] : names \in SUBSET Words}]

\* A constraint on an attribute the resource does not have denies.
Allows(scope, context) ==
    \/ scope.type = "global"
    \/ /\ scope.resource = context.resource
       /\ \A name \in DOMAIN scope.constraints :
              /\ name \in DOMAIN context.attributes
              /\ context.attributes[name] \in scope.constraints[name]

\* validate_role_scope: what can be granted.
Grantable ==
    {a \in [role : Roles, scope : ScopeRecords] :
        a.scope.type = "resource" => a.role = "editor" /\ a.scope.resource = "evaluation"}

\* require_permission and require_resource_permission, for one who holds the
\* assignments held; asking for a permission of another resource is refused.
MayAnywhere(held, p) ==
    \E a \in held : a.scope.type = "global" /\ p \in RolePermissions[a.role]

MayOn(held, p, context) ==
    /\ PermissionResource(p) = context.resource
    /\ \E a \in held : p \in RolePermissions[a.role] /\ Allows(a.scope, context)

\* effective_permissions: what a user is told.
EffectivePermissions(held) == UNION {RolePermissions[a.role] : a \in held}

-----------------------------------------------------------------------------
(* What is proved of them in ScopeAlgebraProofs *)

\* The key of a scope, by which a grant sweeps the lapsed ones of its scope, is
\* what the scope means: scopes with different keys differ on some resource, and
\* scopes that differ on one have different keys.
KeysAreMeanings ==
    \A s, t \in ScopeRecords :
        Key(s) = Key(t) <=> \A c \in Contexts : Allows(s, c) = Allows(t, c)

\* What a user is told is what the user may do: for a permission told there is
\* a resource it can be used on, none is usable that is not told, and all but
\* an editor's permissions, if told, hold without exception.
ToldIsAllowed(held) ==
    /\ \A p \in AdminPermissions :
           p \in EffectivePermissions(held) <=> \E c \in Contexts : MayOn(held, p, c)
    /\ \A p \in EffectivePermissions(held) \ EditorPermissions : MayAnywhere(held, p)
    /\ \A p \in AdminPermissions : MayAnywhere(held, p) =>
           \A c \in Contexts : PermissionResource(p) = c.resource => MayOn(held, p, c)
=============================================================================
