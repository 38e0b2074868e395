-------------------------- MODULE ScopeAlgebraProofs --------------------------
(***************************************************************************)
(* The key of a scope tells it from every scope that means something else, *)
(* a stored scope is read as it was, and what a user is told agrees with   *)
(* what is allowed, for any texts and any number of assignments.           *)
(***************************************************************************)
EXTENDS ScopeAlgebra, TLAPS

\* A resource scope is its parts.
LEMMA ShapeOfScope ==
  ASSUME NEW s \in ResourceScope
  PROVE  /\ s.type = "resource" /\ s.resource \in Resources
         /\ DOMAIN s.constraints \in SUBSET Words
         /\ s.constraints = [n \in DOMAIN s.constraints |-> s.constraints[n]]
         /\ \A n \in DOMAIN s.constraints : s.constraints[n] \in SUBSET Words /\ s.constraints[n] # {}
         /\ s = [type |-> "resource", resource |-> s.resource, constraints |-> s.constraints]
<1>1. s.constraints \in Constraints
  BY DEF ResourceScope
<1>2. PICK names \in SUBSET Words : s.constraints \in [names -> (SUBSET Words) \ {{}}]
  BY <1>1 DEF Constraints
<1>3. /\ s.type = "resource" /\ s.resource \in Resources
      /\ s = [type |-> "resource", resource |-> s.resource, constraints |-> s.constraints]
  BY DEF ResourceScope
<1>4. /\ DOMAIN s.constraints = names
      /\ s.constraints = [n \in names |-> s.constraints[n]]
      /\ \A n \in names : s.constraints[n] \in (SUBSET Words) \ {{}}
  BY <1>2
<1>5. s.constraints = [n \in DOMAIN s.constraints |-> s.constraints[n]]
  BY <1>4
<1>6. names \in SUBSET Words
  BY <1>2
<1>7. \A n \in DOMAIN s.constraints : s.constraints[n] \in SUBSET Words /\ s.constraints[n] # {}
  BY <1>4
<1>8. DOMAIN s.constraints \in SUBSET Words
  BY <1>4, <1>6
<1>9. QED BY <1>3, <1>5, <1>7, <1>8

\* Of a scope, a value can be had with values for all its other names.
LEMMA AllowedWith ==
  ASSUME NEW s \in ResourceScope, NEW n \in DOMAIN s.constraints, NEW v \in s.constraints[n]
  PROVE  \E c \in Contexts : /\ Allows(s, c) /\ c.resource = s.resource
                             /\ DOMAIN c.attributes = DOMAIN s.constraints
                             /\ c.attributes[n] = v
<1> DEFINE pick(m) == IF m = n THEN v ELSE CHOOSE w \in s.constraints[m] : TRUE
           c == [resource |-> s.resource, attributes |-> [m \in DOMAIN s.constraints |-> pick(m)]]
<1>1. \A m \in DOMAIN s.constraints : pick(m) \in s.constraints[m]
  BY ShapeOfScope
<1>2. c.attributes \in [DOMAIN s.constraints -> Words]
  <2> HIDE DEF pick
  <2> QED BY <1>1, ShapeOfScope
<1>3. c \in Contexts
  <2>1. c.attributes \in UNION {[names -> Words] : names \in SUBSET Words}
    <3> HIDE DEF c
    <3> QED BY <1>2, ShapeOfScope
  <2>2. c = [resource |-> c.resource, attributes |-> c.attributes] /\ c.resource \in Resources
    <3> HIDE DEF pick
    <3> QED BY ShapeOfScope
  <2>3. QED
    <3> HIDE DEF c
    <3> QED BY <2>1, <2>2 DEF Contexts
<1>4. Allows(s, c)
  <2> HIDE DEF pick
  <2> QED BY <1>1 DEF Allows
<1>5. c.resource = s.resource /\ DOMAIN c.attributes = DOMAIN s.constraints /\ c.attributes[n] = v
  OBVIOUS
<1>6. QED
  <2> HIDE DEF c
  <2> QED BY <1>3, <1>4, <1>5

\* Every scope allows something.
LEMMA AllowedSomewhere ==
  ASSUME NEW s \in ResourceScope
  PROVE  \E c \in Contexts : /\ Allows(s, c) /\ c.resource = s.resource
                             /\ DOMAIN c.attributes = DOMAIN s.constraints
<1>1. CASE \E n \in DOMAIN s.constraints : TRUE
  <2>1. PICK n \in DOMAIN s.constraints : TRUE
    BY <1>1
  <2>2. PICK v \in s.constraints[n] : TRUE
    BY ShapeOfScope
  <2>3. QED BY AllowedWith
<1>2. CASE ~ \E n \in DOMAIN s.constraints : TRUE
  <2> DEFINE c == [resource |-> s.resource, attributes |-> [m \in {} |-> Blank]]
  <2>1. c.attributes \in [{} -> Words]
    OBVIOUS
  <2>2. c \in Contexts
    BY <2>1, ShapeOfScope DEF Contexts
  <2>3. Allows(s, c) /\ DOMAIN c.attributes = DOMAIN s.constraints
    BY <1>2 DEF Allows
  <2>4. QED BY <2>2, <2>3
<1>3. QED BY <1>1, <1>2

\* A scope that allows no more than another names what the other names, and
\* takes no value that the other does not.
LEMMA NarrowerScope ==
  ASSUME NEW s \in ResourceScope, NEW t \in ResourceScope,
         \A c \in Contexts : Allows(s, c) => Allows(t, c)
  PROVE  /\ s.resource = t.resource
         /\ DOMAIN t.constraints \subseteq DOMAIN s.constraints
         /\ \A n \in DOMAIN t.constraints : s.constraints[n] \subseteq t.constraints[n]
<1>1. s.resource = t.resource /\ DOMAIN t.constraints \subseteq DOMAIN s.constraints
  <2>1. PICK c \in Contexts : /\ Allows(s, c) /\ c.resource = s.resource
                              /\ DOMAIN c.attributes = DOMAIN s.constraints
    BY AllowedSomewhere
  <2>2. Allows(t, c) /\ t.type = "resource"
    BY <2>1, ShapeOfScope
  <2>3. QED BY <2>1, <2>2 DEF Allows
<1>2. ASSUME NEW n \in DOMAIN t.constraints, NEW v \in s.constraints[n] PROVE v \in t.constraints[n]
  <2>1. n \in DOMAIN s.constraints
    BY <1>1
  <2>2. PICK c \in Contexts : Allows(s, c) /\ c.attributes[n] = v
    BY <2>1, AllowedWith
  <2>3. Allows(t, c) /\ t.type = "resource"
    BY <2>2, ShapeOfScope
  <2>4. QED BY <2>2, <2>3 DEF Allows
<1>3. QED BY <1>1, <1>2

\* No scope of a resource allows all that the global one allows.
LEMMA GlobalIsWider ==
  ASSUME NEW s \in ResourceScope
  PROVE  \E c \in Contexts : ~ Allows(s, c) /\ Allows(GlobalScope, c)
<1>1. PICK r \in Resources : r # s.resource
  BY DEF Resources
<1> DEFINE c == [resource |-> r, attributes |-> [m \in {} |-> Blank]]
<1>2. c.attributes \in [{} -> Words]
  OBVIOUS
<1>3. c \in Contexts
  BY <1>2 DEF Contexts
<1>4. ~ Allows(s, c) /\ Allows(GlobalScope, c)
  BY <1>1, ShapeOfScope DEF Allows, GlobalScope
<1>5. QED BY <1>3, <1>4

\* Scopes that allow the same in every context are one scope.
LEMMA SameMeaningSameScope ==
  ASSUME NEW s \in ScopeRecords, NEW t \in ScopeRecords,
         \A c \in Contexts : Allows(s, c) = Allows(t, c)
  PROVE  s = t
<1>1. CASE s = GlobalScope \/ t = GlobalScope
  BY <1>1, GlobalIsWider DEF ScopeRecords
<1>2. CASE s \in ResourceScope /\ t \in ResourceScope
  <2>1. /\ s.resource = t.resource
        /\ DOMAIN t.constraints = DOMAIN s.constraints
        /\ \A n \in DOMAIN t.constraints : s.constraints[n] = t.constraints[n]
    <3>1. /\ s.resource = t.resource
          /\ DOMAIN t.constraints \subseteq DOMAIN s.constraints
          /\ \A n \in DOMAIN t.constraints : s.constraints[n] \subseteq t.constraints[n]
      <4>1. \A c \in Contexts : Allows(s, c) => Allows(t, c)
        OBVIOUS
      <4>2. QED BY <1>2, <4>1, NarrowerScope
    <3>2. /\ DOMAIN s.constraints \subseteq DOMAIN t.constraints
          /\ \A n \in DOMAIN s.constraints : t.constraints[n] \subseteq s.constraints[n]
      <4>1. \A c \in Contexts : Allows(t, c) => Allows(s, c)
        OBVIOUS
      <4>2. QED BY <1>2, <4>1, NarrowerScope
    <3>3. QED BY <3>1, <3>2
  <2>2. s.constraints = t.constraints
    <3>1. /\ s.constraints = [n \in DOMAIN s.constraints |-> s.constraints[n]]
          /\ t.constraints = [n \in DOMAIN t.constraints |-> t.constraints[n]]
      BY <1>2, ShapeOfScope
    <3>2. [n \in DOMAIN s.constraints |-> s.constraints[n]] = [n \in DOMAIN t.constraints |-> t.constraints[n]]
      BY <2>1
    <3>3. QED BY <3>1, <3>2
  <2>3. QED BY <1>2, <2>1, <2>2, ShapeOfScope
<1>3. QED BY <1>1, <1>2 DEF ScopeRecords

\* ScopeAlgebra.KeysAreMeanings: a grant sweeps the lapsed ones that allowed
\* exactly what it allows, no others, however their constraints were written.
THEOREM KeysTellScopesApart == KeysAreMeanings
<1>1. SUFFICES ASSUME NEW s \in ScopeRecords, NEW t \in ScopeRecords
               PROVE  Key(s) = Key(t) <=> \A c \in Contexts : Allows(s, c) = Allows(t, c)
  BY DEF KeysAreMeanings
<1>2. ASSUME Key(s) = Key(t) PROVE s = t
  <2>1. CASE s = GlobalScope \/ t = GlobalScope
    <3>1. GlobalScope.type = "global" /\ \A r \in ResourceScope : r.type # "global"
      BY ShapeOfScope DEF GlobalScope
    <3>2. Key(GlobalScope) = <<"global">>
      BY <3>1 DEF Key
    <3>3. \A r \in ResourceScope : Key(r) = <<r.resource, r.constraints>>
      BY <3>1 DEF Key
    <3>4. \A a, b : <<"global">> # <<a, b>>
      OBVIOUS
    <3>5. QED BY <1>2, <2>1, <3>2, <3>3, <3>4 DEF ScopeRecords
  <2>2. CASE s \in ResourceScope /\ t \in ResourceScope
    <3>1. <<s.resource, s.constraints>> = <<t.resource, t.constraints>>
      BY <1>2, <2>2, ShapeOfScope DEF Key
    <3>2. s.resource = t.resource /\ s.constraints = t.constraints
      BY <3>1
    <3>3. QED BY <2>2, <3>2, ShapeOfScope
  <2>3. QED BY <2>1, <2>2 DEF ScopeRecords
<1>3. QED BY <1>2, SameMeaningSameScope

-----------------------------------------------------------------------------
\* A document that stores a scope is accepted and read as that scope, in
\* whatever order it has the names: reading changes no key.
THEOREM StoredScopeIsRead ==
  ASSUME NEW s \in ScopeRecords, NEW d, Stores(d, s)
  PROVE  Acceptable(d) /\ ReadScope(d) = s
<1>1. CASE s = GlobalScope
  BY <1>1 DEF Stores, Acceptable, ReadScope, GlobalScope
<1>2. CASE s \in ResourceScope
  <2> DEFINE list == d.constraints
             K == DOMAIN s.constraints
  <2>1. d.type = "resource" /\ d.resource = s.resource /\ d.resource # "none"
    BY <1>2, ShapeOfScope DEF Stores, Resources
  <2>2. /\ \A k \in DOMAIN list : list[k][1] \in K /\ list[k][2] = s.constraints[list[k][1]]
        /\ \A n \in K : \E k \in DOMAIN list : list[k][1] = n
        /\ \A k, l \in DOMAIN list : list[k][1] = list[l][1] => k = l
    <3>1. {list[k] : k \in DOMAIN list} = {<<n, s.constraints[n]>> : n \in K}
      BY DEF Stores
    <3>2. \A k \in DOMAIN list : \E n \in K : list[k] = <<n, s.constraints[n]>>
      BY <3>1
    <3>3. \A n \in K : \E k \in DOMAIN list : list[k] = <<n, s.constraints[n]>>
      BY <3>1
    <3>4. \A k, l \in DOMAIN list : list[k][1] = list[l][1] => k = l
      BY DEF Stores
    <3>5. QED BY <3>2, <3>3, <3>4
  <2>3. /\ \A n \in K : Normal[n] = n /\ n # Blank
        /\ \A n \in K : s.constraints[n] # {} /\ \A v \in s.constraints[n] : Normal[v] = v /\ v # Blank
    <3>1. \A w \in Words : Normal[w] = w /\ w # Blank
      BY NormalAssumption DEF Words
    <3>2. K \subseteq Words /\ \A n \in K : s.constraints[n] # {} /\ s.constraints[n] \subseteq Words
      BY <1>2, ShapeOfScope
    <3>3. QED BY <3>1, <3>2
  <2>4. DOMAIN list \subseteq Nat
    BY DEF Stores, GivenScope
  <2>5. Acceptable(d)
    <3> HIDE DEF list, K
    <3>1. \A k \in DOMAIN list : /\ Normal[list[k][1]] # Blank
                                  /\ list[k][2] # {}
                                  /\ \A v \in list[k][2] : Normal[v] # Blank
      BY <2>2, <2>3
    <3>2. QED BY <2>1, <3>1 DEF Acceptable, list
  <2>6. \A k \in DOMAIN list : LastSpelling(list, list[k][1]) = k
    <3> SUFFICES ASSUME NEW k \in DOMAIN list PROVE LastSpelling(list, list[k][1]) = k
      OBVIOUS
    <3> DEFINE n == list[k][1]
               P(j) == Normal[list[j][1]] = n /\ \A l \in DOMAIN list : Normal[list[l][1]] = n => l <= j
    <3>1. \A j \in DOMAIN list : Normal[list[j][1]] = n => j = k
      <4> HIDE DEF list, K
      <4> QED BY <2>2, <2>3
    <3>2. Normal[list[k][1]] = n
      <4> HIDE DEF list, K
      <4> QED BY <2>2, <2>3
    <3>3. k <= k
      BY <2>4
    <3>4. P(k) /\ \A j \in DOMAIN list : P(j) => j = k
      <4> HIDE DEF list
      <4> QED BY <3>1, <3>2, <3>3
    <3>5. LastSpelling(list, n) = CHOOSE j \in DOMAIN list : P(j)
      BY DEF LastSpelling
    <3>6. QED
      <4> HIDE DEF P, list
      <4> QED BY <3>4, <3>5
  <2>7. Kept(list) = s.constraints
    <3>1. {Normal[list[k][1]] : k \in DOMAIN list} = K
      <4> HIDE DEF list, K
      <4> QED BY <2>2, <2>3
    <3>2. \A n \in K : {Normal[v] : v \in list[LastSpelling(list, n)][2]} = s.constraints[n]
      <4>1. SUFFICES ASSUME NEW n \in K
                     PROVE  {Normal[v] : v \in list[LastSpelling(list, n)][2]} = s.constraints[n]
        OBVIOUS
      <4>2. PICK k \in DOMAIN list : list[k][1] = n
        BY <2>2
      <4>3. LastSpelling(list, n) = k /\ list[k][2] = s.constraints[n]
        <5> HIDE DEF list, K
        <5> QED BY <2>2, <2>6, <4>2
      <4>4. {Normal[v] : v \in s.constraints[n]} = s.constraints[n]
        BY <2>3
      <4>5. QED
        <5> HIDE DEF list
        <5> QED BY <4>3, <4>4
    <3>3. Kept(list) = [n \in K |-> {Normal[v] : v \in list[LastSpelling(list, n)][2]}]
      <4>1. Kept(list) = [n \in {Normal[list[k][1]] : k \in DOMAIN list} |->
                             {Normal[v] : v \in list[LastSpelling(list, n)][2]}]
        <5> HIDE DEF list
        <5> QED BY DEF Kept
      <4>2. QED
        <5> HIDE DEF list, K
        <5> QED BY <3>1, <4>1
    <3>4. s.constraints = [n \in K |-> s.constraints[n]]
      BY <1>2, ShapeOfScope
    <3>5. [n \in K |-> {Normal[v] : v \in list[LastSpelling(list, n)][2]}] = [n \in K |-> s.constraints[n]]
      <4> HIDE DEF list, K
      <4> QED BY <3>2
    <3>6. QED BY <3>3, <3>4, <3>5
  <2>8. ReadScope(d) = [type |-> "resource", resource |-> s.resource, constraints |-> Kept(list)]
    BY <2>1 DEF ReadScope
  <2>9. s = [type |-> "resource", resource |-> s.resource, constraints |-> s.constraints]
    BY <1>2, ShapeOfScope
  <2>10. QED
    <3> HIDE DEF list, K
    <3> QED BY <2>5, <2>7, <2>8, <2>9
<1>3. QED BY <1>1, <1>2 DEF ScopeRecords

-----------------------------------------------------------------------------
\* ScopeAlgebra.ToldIsAllowed: the permissions a user is told, from the roles
\* of all assignments, are those that some question is answered yes to, and
\* those besides an editor's are held without exception.
THEOREM PermissionsToldAreHeld ==
  ASSUME NEW held \in SUBSET Grantable
  PROVE  ToldIsAllowed(held)
<1>1. \A a \in held : /\ a.role \in Roles /\ a.scope \in ScopeRecords
                      /\ a.scope.type = "resource" => a.role = "editor" /\ a.scope.resource = "evaluation"
  BY DEF Grantable
<1>2. \A s \in ScopeRecords : s.type = "global" \/ (s \in ResourceScope /\ s.type = "resource")
  <2>1. GlobalScope.type = "global"
    BY DEF GlobalScope
  <2>2. \A s \in ResourceScope : s.type = "resource"
    BY ShapeOfScope
  <2>3. QED BY <2>1, <2>2 DEF ScopeRecords
<1>3. /\ RolePermissions["editor"] = EditorPermissions
      /\ RolePermissions["admin"] = AdminPermissions
  BY DEF RolePermissions
<1>4. \A p : p \in EffectivePermissions(held) <=> \E a \in held : p \in RolePermissions[a.role]
  BY DEF EffectivePermissions
<1>5. \A p \in EditorPermissions : PermissionResource(p) = "evaluation"
  BY DEF PermissionResource, EditorPermissions
<1>6. \A p \in AdminPermissions : PermissionResource(p) \in Resources
  BY DEF PermissionResource, AdminPermissions, EditorPermissions, Resources
<1>7. ASSUME NEW p \in AdminPermissions, MayAnywhere(held, p), NEW c \in Contexts,
             PermissionResource(p) = c.resource
      PROVE  MayOn(held, p, c)
  BY <1>7 DEF MayAnywhere, MayOn, Allows
<1>8. ASSUME NEW p \in AdminPermissions, NEW a \in held, p \in RolePermissions[a.role]
      PROVE  \E c \in Contexts : MayOn(held, p, c)
  <2>1. CASE a.scope.type = "global"
    <3> DEFINE c == [resource |-> PermissionResource(p), attributes |-> [m \in {} |-> Blank]]
    <3>1. c.attributes \in [{} -> Words]
      OBVIOUS
    <3>2. c \in Contexts
      <4>1. c.attributes \in UNION {[names -> Words] : names \in SUBSET Words}
        <5> HIDE DEF c
        <5> QED BY <3>1
      <4>2. QED BY <1>6, <4>1 DEF Contexts
    <3>3. c.resource = PermissionResource(p)
      OBVIOUS
    <3>4. MayOn(held, p, c)
      <4> HIDE DEF c
      <4> QED BY <1>8, <2>1, <3>3 DEF MayOn, Allows
    <3>5. QED
      <4> HIDE DEF c
      <4> QED BY <3>2, <3>4
  <2>2. CASE a.scope \in ResourceScope /\ a.scope.type = "resource"
    <3>1. PICK c \in Contexts : Allows(a.scope, c) /\ c.resource = a.scope.resource
      BY <2>2, AllowedSomewhere
    <3>2. a.role = "editor" /\ c.resource = "evaluation"
      BY <1>1, <2>2, <3>1
    <3>3. PermissionResource(p) = c.resource
      BY <1>3, <1>5, <1>8, <3>2
    <3>4. QED BY <1>8, <3>1, <3>3 DEF MayOn
  <2>3. QED BY <1>1, <1>2, <2>1, <2>2
<1>9. ASSUME NEW p \in EffectivePermissions(held) \ EditorPermissions PROVE MayAnywhere(held, p)
  <2>1. PICK a \in held : p \in RolePermissions[a.role]
    BY <1>4
  <2>2. a.role # "editor"
    BY <1>3, <2>1
  <2>3. a.scope.type = "global"
    BY <1>1, <1>2, <2>2
  <2>4. QED BY <2>1, <2>3 DEF MayAnywhere
<1>10. ASSUME NEW p \in AdminPermissions
       PROVE  p \in EffectivePermissions(held) <=> \E c \in Contexts : MayOn(held, p, c)
  BY <1>4, <1>8 DEF MayOn
<1>11. QED BY <1>7, <1>9, <1>10 DEF ToldIsAllowed
=============================================================================
