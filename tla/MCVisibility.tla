---------------------------- MODULE MCVisibility ----------------------------
(***************************************************************************)
(* Administration for TLC: a head office h, a region g below it, a branch  *)
(* b below the region, and a unit n that can still be created.             *)
(***************************************************************************)
EXTENDS Administration

CONSTANTS h, g, b, n, l1, l2, tb, tx, ro, r1, f1, f2, d1, d2

MCSeeded ==
    LET rec(l, p) == [level |-> l, parent |-> p, active |-> TRUE]
    IN  [u \in Units |-> CASE u = h -> rec(l1, None) [] u = g -> rec(l1, h)
                           [] u = b -> rec(l1, g) [] u = n -> None]

MCHome == [t \in Tickets |-> CASE t = tb -> b [] t = tx -> None]

\* The accounts that differ: a super admin, the two without a unit, those of
\* the head office with the role and without, and one of the branch.
MCAccounts ==
    LET rec(s, w, u, k) == [super |-> s, branch |-> w, unit |-> u, role |-> k]
    IN  {rec(TRUE, FALSE, h, None), rec(FALSE, TRUE, None, None), rec(FALSE, FALSE, None, None),
         rec(FALSE, FALSE, h, ro), rec(FALSE, FALSE, h, None), rec(FALSE, FALSE, b, ro)}

\* Accounts without a role see one edit, and those whose rows no unit decides
\* no role.
Standing ==
    /\ me.role = None => edits < MaxEdits
    /\ me.super \/ me.unit = None => roles[ro] = None

\* The reads that go through the same steps as a list see one edit.
LikeList(r) == req[r] # Idle /\ req[r].kind \in {"kpis", "charts", "recent", "report", "digest"}

CatalogueAtRest ==
    /\ Present = {} /\ listing = Absent
    /\ \A q \in Filers : filing[q] = Absent

\* One code for subcategories, two categories and one branch.
FewEntries ==
    /\ \A i \in OfKind("subcategory") : row[i].code = d1
    /\ Cardinality(OfKind("category")) <= 2 /\ Cardinality(OfKind("branch")) <= 1

\* Bounds on the states explored.  Levels, deactivations and a role of another
\* level are edited while nobody reads.  The catalogue is filled once the
\* organisation rests, with few entries, and tickets are raised while nobody files.
Scenarios ==
    \/ /\ CatalogueAtRest
       /\ \/ \A r \in Requests : req[r] = Idle
          \/ /\ Standing /\ (edits < MaxEdits \/ \A r \in Requests : ~LikeList(r))
             /\ levels = Levels /\ erasing = {}
             /\ \A u \in Existing : units[u].active /\ units[u].level = l1
             /\ \A k \in Offered : roles[k].active /\ roles[k].level = l1
    \/ /\ edits = MaxEdits /\ levels = Levels /\ erasing = {} /\ units = Seeded
       /\ assigned = {} /\ \A r \in Requests : req[r] = Idle
       /\ me.super /\ roles[ro] = None
       /\ FewEntries
       /\ \/ \A t \in Filed : filed[t] = Absent /\ listing = Absent
          \/ OfKind("category") = {} /\ \A q \in Filers : filing[q] = Absent

=============================================================================
