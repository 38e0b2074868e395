-------------------------------- MODULE Listing --------------------------------
(***************************************************************************)
(* What a paginated listing promises its client while the collection goes  *)
(* on changing: it gives no row twice, and when it says that it is done it *)
(* has given every row it owes, those that were there unchanged all along. *)
(* RunPages implements it.                                                 *)
(***************************************************************************)
CONSTANT Ids            \* ids of documents

VARIABLES
    status,             \* of the listing
    given,              \* ids of the rows the client has got
    owed                \* ids of the rows it still has to get

vars == <<status, given, owed>>

TypeOK ==
    /\ status \in {"idle", "open", "done", "failed"}
    /\ given \subseteq Ids /\ owed \subseteq Ids

Init == status = "idle" /\ given = {} /\ owed = {}

Begin(S) ==
    /\ status # "open" /\ status' = "open"
    /\ given' = {} /\ owed' = S

\* A document that changes is owed no more.
Release(S) == owed' = owed \ S /\ UNCHANGED <<status, given>>

Give(S) ==
    /\ status = "open"
    /\ S \cap given = {}
    /\ given' = given \cup S
    /\ owed' = owed \ S

Continue(S) == Give(S) /\ S # {} /\ UNCHANGED status

End(S) == Give(S) /\ owed \subseteq S /\ status' = "done"

Fail == status = "open" /\ status' = "failed" /\ UNCHANGED <<given, owed>>

Next ==
    \/ \E S \in SUBSET Ids : Begin(S) \/ Release(S) \/ Continue(S) \/ End(S)
    \/ Fail

Spec == Init /\ [][Next]_vars
=============================================================================
