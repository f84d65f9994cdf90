------------------------------- MODULE OrgTree -------------------------------
(***************************************************************************)
(* The organisation an administrator shapes: hierarchy levels, the units   *)
(* below one another, the roles of a level, and where the account of a     *)
(* member stands.  Every edit is one transaction.  Nothing compares a new  *)
(* parent with the unit's own subtree, so a legal edit may close a cycle;  *)
(* a level is removed by a check and, later, a delete.                     *)
(***************************************************************************)
EXTENDS Naturals, FiniteSets

CONSTANTS
    Units, Levels, Roles,   \* the rows that can exist
    None,
    Seeded,                 \* the units there are to begin with
    Accounts,               \* bound: what the member's account may be made
    MaxEdits                \* bound: administrators' commits

Unit == [level : Levels, parent : Units \cup {None}, active : BOOLEAN]
Role == [level : Levels, subtree : BOOLEAN, active : BOOLEAN]

\* What visibility reads of an account; branch: its role is branch_user.
Member == [super : BOOLEAN, branch : BOOLEAN, unit : Units \cup {None}, role : Roles \cup {None}]

ASSUME OrgConstants ==
    /\ MaxEdits \in Nat /\ None \notin Units \cup Levels \cup Roles
    /\ None \notin Unit /\ None \notin Role
    /\ Levels # {} /\ Seeded \in [Units -> Unit \cup {None}]
    /\ Accounts \subseteq Member

VARIABLES
    levels,     \* hierarchy_levels
    units,      \* org_units: the row, or None
    roles,      \* org_roles: the row, or None
    me,         \* the member's row of users
    erasing,    \* levels that passed the check of their removal
    edits       \* commits so far

orgVars == <<levels, units, roles, me, erasing, edits>>

Existing == {u \in Units : units[u] # None}
Offered == {ro \in Roles : roles[ro] # None}

\* parent_id, as pairs of a unit and its parent.
Links == {<<u, units[u].parent>> : u \in {v \in Existing : units[v].parent # None}}

Children(u) == {v \in Existing : units[v].parent = u}

\* Used(l): rows that refer to the level.
Used(l) == \/ \E u \in Existing : units[u].level = l
           \/ \E ro \in Offered : roles[ro].level = l

Edited == edits < MaxEdits /\ edits' = edits + 1

---------------------------------------------------------------------------
(* Levels.                                                                 *)

CreateLevel(l) ==
    /\ l \notin levels
    /\ Edited
    /\ levels' = levels \cup {l}
    /\ UNCHANGED <<units, roles, me, erasing>>

\* The route refuses a level that has units; it does not look at roles.
CheckLevel(l) ==
    /\ l \in levels \ erasing
    /\ \A u \in Existing : units[u].level # l
    /\ erasing' = erasing \cup {l}
    /\ UNCHANGED <<levels, units, roles, me, edits>>

\* Mutant: the check of the route is trusted when the delete is carried out.
DeleteLevel_Trusts(l) ==
    /\ l \in erasing
    /\ Edited
    /\ erasing' = erasing \ {l}
    /\ levels' = levels \ {l}
    /\ UNCHANGED <<units, roles, me>>

\* The delete first clears the level of every unit and role that refers to it,
\* columns that may not be null: one such row and the transaction fails.
DeleteLevel(l) ==
    /\ l \in erasing
    /\ Edited
    /\ erasing' = erasing \ {l}
    /\ levels' = IF Used(l) THEN levels ELSE levels \ {l}
    /\ UNCHANGED <<units, roles, me>>

---------------------------------------------------------------------------
(* Units.                                                                  *)

\* The level and the parent are foreign keys.
CreateUnit(u, l, p) ==
    /\ u \notin Existing /\ l \in levels /\ p \in Existing \cup {None}
    /\ Edited
    /\ units' = [units EXCEPT ![u] = [level |-> l, parent |-> p, active |-> TRUE]]
    /\ UNCHANGED <<levels, roles, me, erasing>>

\* Any existing unit will do as the parent, the unit itself included.
MoveUnit(u, p) ==
    /\ u \in Existing /\ p \in Existing \cup {None}
    /\ Edited
    /\ units' = [units EXCEPT ![u].parent = p]
    /\ UNCHANGED <<levels, roles, me, erasing>>

UpdateUnit(u, active) ==
    /\ u \in Existing
    /\ Edited
    /\ units' = [units EXCEPT ![u].active = active]
    /\ UNCHANGED <<levels, roles, me, erasing>>

\* delete_unit keeps the row.
DeleteUnit(u) == UpdateUnit(u, FALSE)

---------------------------------------------------------------------------
(* Roles, and the account of the member.                                   *)

CreateRole(ro, l, subtree) ==
    /\ ro \notin Offered /\ l \in levels
    /\ Edited
    /\ roles' = [roles EXCEPT ![ro] = [level |-> l, subtree |-> subtree, active |-> TRUE]]
    /\ UNCHANGED <<levels, units, me, erasing>>

UpdateRole(ro, subtree, active) ==
    /\ ro \in Offered
    /\ Edited
    /\ roles' = [roles EXCEPT ![ro].subtree = subtree, ![ro].active = active]
    /\ UNCHANGED <<levels, units, me, erasing>>

\* delete_org_role keeps the row, and with it what the role may see.
DeleteRole(ro) == ro \in Offered /\ UpdateRole(ro, roles[ro].subtree, FALSE)

\* update_user: the flag, the role and the place of an account; the unit and
\* the role named must exist, and the role's level need not be the unit's.
UpdateMember(m) ==
    /\ m \in Accounts
    /\ m.unit \in Existing \cup {None} /\ m.role \in Offered \cup {None}
    /\ Edited
    /\ me' = m
    /\ UNCHANGED <<levels, units, roles, erasing>>

Administer ==
    \/ \E l \in Levels : CreateLevel(l) \/ CheckLevel(l) \/ DeleteLevel(l)
    \/ \E u \in Units, l \in Levels, p \in Units \cup {None} : CreateUnit(u, l, p)
    \/ \E u \in Units, p \in Units \cup {None} : MoveUnit(u, p)
    \/ \E u \in Units : UpdateUnit(u, TRUE) \/ DeleteUnit(u)
    \/ \E ro \in Roles, l \in Levels, s \in BOOLEAN : CreateRole(ro, l, s)
    \/ \E ro \in Roles, s \in BOOLEAN : UpdateRole(ro, s, TRUE)
    \/ \E ro \in Roles : DeleteRole(ro)
    \/ \E m \in Accounts : UpdateMember(m)

---------------------------------------------------------------------------
(* A level may be created on, or given a role, while it is being removed:  *)
(* the check of delete_level is long past when its delete is flushed.      *)
(* Whatever the order, no unit and no role is left without its level, and  *)
(* nothing points at a unit or a role that is not there.                   *)
NothingDangles ==
    /\ \A u \in Existing : units[u].level \in levels /\ units[u].parent \in Existing \cup {None}
    /\ \A ro \in Offered : roles[ro].level \in levels
    /\ me.unit \in Existing \cup {None} /\ me.role \in Offered \cup {None}

=============================================================================
