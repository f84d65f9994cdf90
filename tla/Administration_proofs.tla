------------------------ MODULE Administration_proofs ------------------------
(***************************************************************************)
(* What members are shown while administrators edit, proved for every      *)
(* organisation, every set of tickets and any number of requests.          *)
(*                                                                         *)
(* The invariant follows a read through its steps: what its walk has found *)
(* and has still to visit lies below the member's unit by links that have  *)
(* existed since it began, and whatever always was below a unit found is   *)
(* found or next to be visited.  When nothing is left to visit, the units  *)
(* found are between those that always were below and those that ever      *)
(* were, and so is what the statements read with them.  In the catalogue,  *)
(* the rows of a subcategory and the requests still to insert one like it  *)
(* are no more together than there are requests.                           *)
(***************************************************************************)
EXTENDS Administration, FiniteSetTheorems, TLAPS

---------------------------------------------------------------------------
(* The organisation.                                                       *)

OrgTypeOK ==
    /\ levels \subseteq Levels
    /\ units \in [Units -> Unit \cup {None}]
    /\ roles \in [Roles -> Role \cup {None}]
    /\ me \in Member
    /\ erasing \subseteq Levels

OrgInv == OrgTypeOK /\ NothingDangles

---------------------------------------------------------------------------
(* The reads.                                                              *)

\* What a member with these rights may be shown, over some links and tickets.
Right(q, t, links, mine) ==
    \/ q.member.super
    \/ /\ q.member.unit = None
       /\ q.member.branch => t \in Mine
    \/ /\ q.member.unit # None
       /\ \/ Home[t] = q.member.unit
          \/ q.subtree /\ Home[t] \in Below(links, q.member.unit)
          \/ t \in mine

\* The history of a read: what is there now is between what was there always
\* and what was there once.
HistoryOK(q) ==
    q.step # "done" =>
        /\ q.always \subseteq Links /\ Links \subseteq q.once
        /\ q.alwaysMine \subseteq assigned /\ assigned \subseteq q.onceMine

\* A ticket fetched: its assignee was read within the history.
FetchOK(q) ==
    /\ (q.ticket # None) <=> (q.kind \in {"fetch", "assistant"})
    /\ q.kind = "fetch" /\ q.step # "load" =>
          /\ q.ticket \in q.alwaysMine => q.mine
          /\ q.mine => q.ticket \in q.onceMine

\* A walk has met nothing that was never below its unit, and everything that
\* always was is met or next to be met.
WalkOK(q) ==
    /\ q.step \in {"walk", "query", "queue", "done"} => q.rule = RuleOf(q.kind, q.member)
    /\ q.step = "walk" =>
          /\ q.rule = "units" /\ q.subtree
          /\ q.member.unit \in q.pending \cup q.found
          /\ q.pending \cup q.found \subseteq Below(q.once, q.member.unit)
          /\ \A l \in q.always : l[2] \in q.found => l[1] \in q.pending \cup q.found
    /\ q.step \in {"query", "queue", "done"} /\ q.rule = "units" =>
          /\ q.member.unit \in q.found
          /\ ~q.subtree => q.found = {q.member.unit}
          /\ q.subtree => /\ q.found \subseteq Below(q.once, q.member.unit)
                          /\ Closed(q.always, q.found)

\* What has been shown, and that it is all when the read is over.
ShownOK(q) ==
    /\ q.step \in {"load", "scope", "walk"} => q.shown = {}
    /\ q.step = "queue" \/ q.queue # {} => q.kind = "digest"
    /\ \A t \in q.shown : Right(q, t, q.once, q.onceMine)
    /\ q.queue \subseteq q.onceMine
    /\ q.step \in {"queue", "done"} /\ q.kind # "recent" =>
          \A t \in IF q.ticket = None THEN Tickets ELSE {q.ticket} :
              Right(q, t, q.always, q.alwaysMine) => t \in q.shown

ReadOK(q) == HistoryOK(q) /\ FetchOK(q) /\ WalkOK(q) /\ ShownOK(q)

ReadInv ==
    /\ assigned \subseteq Tickets
    /\ req \in [Requests -> Request \cup {Idle}]
    /\ \A r \in Requests : req[r] # Idle => ReadOK(req[r])

---------------------------------------------------------------------------
(* The catalogue.                                                          *)

\* Rows are numbered without a gap; of an indexed table no two are the same.
RowsOK ==
    /\ row \in [Rows -> Entry \cup {Absent}]
    /\ \E k \in 0..MaxRows : Present = 1..k
    /\ \A i, j \in Present : row[i] = row[j] /\ Indexed(row[i].kind) => i = j

\* A change of code is that of a category that is there, which it leaves as it is.
FilingOK ==
    /\ filing \in [Filers -> Filing \cup {Absent}]
    /\ \A q \in Filers : filing[q] # Absent /\ filing[q].at # Absent =>
          /\ filing[q].at \in OfKind("category")
          /\ \E code \in Codes : filing[q].entry = [row[filing[q].at] EXCEPT !.code = code]

\* Who is about to insert a given row.
Inserting(e) == {q \in Filers : filing[q] = [at |-> Absent, entry |-> e]}

\* While there is a subcategory of a code, those of it and those on the way are
\* no more than the requests: each way in was opened before the first came.
FewOnTheWay ==
    \A e \in Entry : e.kind = "subcategory" =>
        LET named == Named(e.kind, e.parent, e.code)
        IN  named = {} \/ Cardinality(named) + Cardinality(Inserting(e)) <= Cardinality(Filers)

CatalogueInv == RowsOK /\ FilingOK /\ FewOnTheWay /\ LateAreOpen

---------------------------------------------------------------------------
(* The organisation is edited.                                             *)

LEMMA OrgRows ==
    ASSUME OrgTypeOK
    PROVE  /\ Existing \subseteq Units /\ Offered \subseteq Roles
           /\ \A u \in Existing : units[u] \in Unit
           /\ \A ro \in Offered : roles[ro] \in Role
BY DEF OrgTypeOK, Existing, Offered

LEMMA LinksAreUnits ==
    ASSUME OrgTypeOK, NothingDangles
    PROVE  Links \subseteq Units \X Units
<1> SUFFICES ASSUME NEW u \in Existing, units[u].parent # None
             PROVE  <<u, units[u].parent>> \in Units \X Units
  BY DEF Links
<1> QED
  BY OrgRows DEF NothingDangles

LEMMA LinksStayUnits == OrgInv' => (Links \subseteq Units \X Units)'
<1>1. OrgInv => Links \subseteq Units \X Units
  BY LinksAreUnits DEF OrgInv
<1> QED
  BY <1>1, PTL

\* A unit is added, or one that is there is changed but keeps its level.
LEMMA UnitWritten ==
    ASSUME OrgInv, NEW u \in Units, NEW x \in Unit, units' = [units EXCEPT ![u] = x],
           x.level \in levels, x.parent \in Existing \cup {None},
           UNCHANGED <<levels, roles, me, erasing>>
    PROVE  OrgInv'
<1>1. x # None /\ units \in [Units -> Unit \cup {None}]
  BY OrgConstants DEF OrgInv, OrgTypeOK
<1>2. /\ units' \in [Units -> Unit \cup {None}] /\ units'[u] = x
      /\ \A v \in Units : v # u => units'[v] = units[v]
  BY <1>1
<1>3. Existing' = Existing \cup {u} /\ Offered' = Offered
  BY <1>1, <1>2 DEF Existing, Offered
<1>4. OrgTypeOK'
  BY <1>2 DEF OrgInv, OrgTypeOK
<1>5. ASSUME NEW v \in Existing'
      PROVE  units'[v].level \in levels' /\ units'[v].parent \in Existing' \cup {None}
  <2>1. CASE v = u
    BY <1>2, <1>3, <2>1
  <2>2. CASE v # u
    <3>1. v \in Existing /\ v \in Units
      BY <1>3, <1>5, <2>2 DEF Existing
    <3> QED
      BY <1>2, <1>3, <2>2, <3>1 DEF OrgInv, NothingDangles
  <2> QED
    BY <2>1, <2>2
<1>6. NothingDangles'
  BY <1>3, <1>5 DEF OrgInv, NothingDangles
<1> QED
  BY <1>4, <1>6 DEF OrgInv

LEMMA RoleWritten ==
    ASSUME OrgInv, NEW ro \in Roles, NEW x \in Role, roles' = [roles EXCEPT ![ro] = x],
           x.level \in levels, UNCHANGED <<levels, units, me, erasing>>
    PROVE  OrgInv'
<1>1. x # None /\ roles \in [Roles -> Role \cup {None}]
  BY OrgConstants DEF OrgInv, OrgTypeOK
<1>2. /\ roles' \in [Roles -> Role \cup {None}] /\ roles'[ro] = x
      /\ \A k \in Roles : k # ro => roles'[k] = roles[k]
  BY <1>1
<1>3. Offered' = Offered \cup {ro} /\ Existing' = Existing
  BY <1>1, <1>2 DEF Existing, Offered
<1>4. OrgTypeOK'
  BY <1>2 DEF OrgInv, OrgTypeOK
<1>5. ASSUME NEW k \in Offered' PROVE roles'[k].level \in levels'
  BY <1>2, <1>3 DEF OrgInv, NothingDangles, Offered
<1>6. NothingDangles'
  BY <1>3, <1>5 DEF OrgInv, NothingDangles
<1> QED
  BY <1>4, <1>6 DEF OrgInv

LEMMA AdministerKeeps ==
    ASSUME OrgInv, Administer
    PROVE  OrgInv'
<1>1. ASSUME NEW l \in Levels, CreateLevel(l) PROVE OrgInv'
  BY <1>1 DEF CreateLevel, OrgInv, OrgTypeOK, NothingDangles, Existing, Offered
<1>2. ASSUME NEW l \in Levels, CheckLevel(l) PROVE OrgInv'
  BY <1>2 DEF CheckLevel, OrgInv, OrgTypeOK, NothingDangles, Existing, Offered
<1>3. ASSUME NEW l \in Levels, DeleteLevel(l) PROVE OrgInv'
  <2>1. /\ erasing' \subseteq Levels /\ levels' \subseteq Levels
        /\ UNCHANGED <<units, roles, me>> /\ Existing' = Existing /\ Offered' = Offered
    BY <1>3 DEF DeleteLevel, OrgInv, OrgTypeOK, Existing, Offered
  <2>2. /\ \A u \in Existing : units[u].level \in levels'
        /\ \A ro \in Offered : roles[ro].level \in levels'
    BY <1>3 DEF DeleteLevel, Used, OrgInv, NothingDangles
  <2> QED
    BY <2>1, <2>2 DEF OrgInv, OrgTypeOK, NothingDangles
<1>4. ASSUME NEW u \in Units, NEW l \in Levels, NEW p \in Units \cup {None}, CreateUnit(u, l, p)
      PROVE  OrgInv'
  <2>1. [level |-> l, parent |-> p, active |-> TRUE] \in Unit
    BY DEF Unit
  <2> QED
    BY <1>4, <2>1, UnitWritten DEF CreateUnit
<1>5. ASSUME NEW u \in Existing, NEW x \in Unit, units' = [units EXCEPT ![u] = x],
             x.level = units[u].level, x.parent \in Existing \cup {None},
             UNCHANGED <<levels, roles, me, erasing>>
      PROVE  OrgInv'
  <2>1. u \in Units /\ x.level \in levels
    BY <1>5 DEF OrgInv, NothingDangles, Existing
  <2> QED
    BY <1>5, <2>1, UnitWritten
<1>6. ASSUME NEW u \in Units, NEW p \in Units \cup {None}, MoveUnit(u, p) PROVE OrgInv'
  <2>1. /\ u \in Existing /\ p \in Existing \cup {None} /\ units[u] \in Unit
        /\ UNCHANGED <<levels, roles, me, erasing>>
    BY <1>6, OrgRows DEF MoveUnit, OrgInv
  <2>2. PICK x : x = [units[u] EXCEPT !.parent = p]
    OBVIOUS
  <2>3. x \in Unit /\ x.level = units[u].level /\ x.parent = p
    BY <2>1, <2>2 DEF Unit
  <2>4. units' = [units EXCEPT ![u] = x]
    BY <1>6, <2>1, <2>2 DEF MoveUnit, OrgInv, OrgTypeOK
  <2> QED
    BY <1>5, <2>1, <2>3, <2>4
<1>7. ASSUME NEW u \in Units, NEW a \in BOOLEAN, UpdateUnit(u, a) PROVE OrgInv'
  <2>1. /\ u \in Existing /\ units[u] \in Unit
        /\ UNCHANGED <<levels, roles, me, erasing>>
    BY <1>7, OrgRows DEF UpdateUnit, OrgInv
  <2>2. PICK x : x = [units[u] EXCEPT !.active = a]
    OBVIOUS
  <2>3. x \in Unit /\ x.level = units[u].level /\ x.parent = units[u].parent
    BY <2>1, <2>2 DEF Unit
  <2>4. units' = [units EXCEPT ![u] = x]
    BY <1>7, <2>1, <2>2 DEF UpdateUnit, OrgInv, OrgTypeOK
  <2>5. units[u].parent \in Existing \cup {None}
    BY <2>1 DEF OrgInv, NothingDangles
  <2> QED
    BY <1>5, <2>1, <2>3, <2>4, <2>5
<1>8. ASSUME NEW ro \in Roles, NEW l \in Levels, NEW s \in BOOLEAN, CreateRole(ro, l, s)
      PROVE  OrgInv'
  <2>1. [level |-> l, subtree |-> s, active |-> TRUE] \in Role
    BY DEF Role
  <2> QED
    BY <1>8, <2>1, RoleWritten DEF CreateRole
<1>9. ASSUME NEW ro \in Roles, NEW s, s \in BOOLEAN, NEW a \in BOOLEAN, UpdateRole(ro, s, a)
      PROVE  OrgInv'
  <2>1. /\ ro \in Offered /\ roles[ro] \in Role /\ roles[ro].level \in levels
        /\ UNCHANGED <<levels, units, me, erasing>>
    BY <1>9, OrgRows DEF UpdateRole, OrgInv, NothingDangles
  <2>2. PICK x : x = [roles[ro] EXCEPT !.subtree = s, !.active = a]
    OBVIOUS
  <2>3. x \in Role /\ x.level = roles[ro].level
    BY <1>9, <2>1, <2>2 DEF Role
  <2>4. roles' = [roles EXCEPT ![ro] = x]
    BY <1>9, <2>1, <2>2 DEF UpdateRole, OrgInv, OrgTypeOK
  <2> QED
    BY <2>1, <2>3, <2>4, RoleWritten
<1>10. ASSUME NEW ro \in Roles, DeleteRole(ro) PROVE OrgInv'
  <2>1. roles[ro].subtree \in BOOLEAN /\ UpdateRole(ro, roles[ro].subtree, FALSE)
    BY <1>10, OrgRows DEF DeleteRole, OrgInv, Role
  <2> QED
    BY <1>9, <2>1
<1>11. ASSUME NEW m \in Accounts, UpdateMember(m) PROVE OrgInv'
  <2>1. m \in Member
    BY OrgConstants
  <2> QED
    BY <1>11, <2>1 DEF UpdateMember, OrgInv, OrgTypeOK, NothingDangles, Existing, Offered
<1>12. \A u \in Units : UpdateUnit(u, TRUE) \/ DeleteUnit(u) => OrgInv'
  BY <1>7 DEF DeleteUnit
<1>13. \A ro \in Roles, s \in BOOLEAN : UpdateRole(ro, s, TRUE) => OrgInv'
  BY <1>9
<1> QED
  BY <1>1, <1>2, <1>3, <1>4, <1>6, <1>8, <1>10, <1>11, <1>12, <1>13 DEF Administer

---------------------------------------------------------------------------
(* Lemmas on the operators of the reads.                                   *)

\* The units below a root: the root, the children of those below, more of them
\* when there are more links, and none outside a closed set the root is in.
LEMMA BelowFacts ==
    ASSUME NEW links, NEW root \in Units
    PROVE  /\ root \in Below(links, root)
           /\ \A u \in Units : \A v : v \in Below(links, root) /\ <<u, v>> \in links
                                     => u \in Below(links, root)
           /\ \A more : links \subseteq more => Below(links, root) \subseteq Below(more, root)
           /\ \A S \in SUBSET Units : root \in S /\ Closed(links, S) => Below(links, root) \subseteq S
<1>1. root \in Below(links, root)
  BY DEF Below
<1>2. ASSUME NEW u \in Units, NEW v, v \in Below(links, root), <<u, v>> \in links
      PROVE  u \in Below(links, root)
  <2> SUFFICES ASSUME NEW S \in SUBSET Units, root \in S, Closed(links, S) PROVE u \in S
    BY DEF Below
  <2>1. v \in S
    BY <1>2 DEF Below
  <2> QED
    BY <1>2, <2>1 DEF Closed
<1>3. ASSUME NEW more, links \subseteq more
      PROVE  Below(links, root) \subseteq Below(more, root)
  BY <1>3 DEF Below, Closed
<1>4. ASSUME NEW S \in SUBSET Units, root \in S, Closed(links, S)
      PROVE  Below(links, root) \subseteq S
  BY <1>4 DEF Below
<1> QED
  BY <1>1, <1>2, <1>3, <1>4

\* The rule, written five times, is one: it is decided by the flag, the unit and
\* the role of the account alone (tickets.py, dashboard.py, report_service.py
\* and chat_context.py).
THEOREM RulesAgree ==
    ASSUME NEW kind \in Kinds, NEW m \in Member
    PROVE  RuleOf(kind, m) = IF m.super \/ (m.unit = None /\ ~m.branch) THEN "all"
                             ELSE IF m.unit # None THEN "units" ELSE "own"
<1>1. m.super \in BOOLEAN /\ m.branch \in BOOLEAN
  BY DEF Member
<1>2. /\ RuleOf("list", m) = AccessFilter(m)
      /\ RuleOf("fetch", m) = FetchCheck(m)
      /\ RuleOf("kpis", m) = OrgFilter(m) /\ RuleOf("charts", m) = OrgFilter(m)
      /\ RuleOf("recent", m) = OrgFilter(m)
      /\ RuleOf("report", m) = ReportScope(m)
      /\ RuleOf("assistant", m) = VisibilityClause(m) /\ RuleOf("digest", m) = VisibilityClause(m)
  BY DEF RuleOf
<1> DEFINE rule == IF m.super \/ (m.unit = None /\ ~m.branch) THEN "all"
                   ELSE IF m.unit # None THEN "units" ELSE "own"
<1>3. /\ AccessFilter(m) = rule /\ FetchCheck(m) = rule /\ ReportScope(m) = rule
      /\ VisibilityClause(m) = rule
  BY <1>1 DEF AccessFilter, FetchCheck, ReportScope, VisibilityClause
<1>4. OrgFilter(m) = rule
  BY <1>1 DEF OrgFilter
<1> HIDE DEF rule
<1> QED
  BY <1>2, <1>3, <1>4 DEF Kinds, rule

\* The right a property speaks of.
LEMMA MaySeeIsRight ==
    ASSUME NEW q, q.member \in Member, NEW t, NEW links, NEW mine
    PROVE  MaySee(q, t, links, mine) <=> Right(q, t, links, mine)
<1>1. q.member.super \in BOOLEAN /\ q.member.branch \in BOOLEAN
  BY DEF Member
<1> QED
  BY <1>1 DEF MaySee, Right

\* A right stays when links and tickets are added.
LEMMA RightGrows ==
    ASSUME NEW q, q.member \in Member, NEW t, NEW links, NEW mine, NEW more, NEW others,
           links \subseteq more, mine \subseteq others, Right(q, t, links, mine)
    PROVE  Right(q, t, more, others)
<1>1. q.member.unit # None => q.member.unit \in Units
  BY DEF Member
<1>2. q.member.unit # None => Below(links, q.member.unit) \subseteq Below(more, q.member.unit)
  BY <1>1, BelowFacts
<1> QED
  BY <1>2 DEF Right

\* A filter whose units are found admits what the member has a right to, by the
\* links of the read and by whether the ticket is the member's.
LEMMA AdmittedByRight ==
    ASSUME NEW q \in Request, WalkOK(q), q.step = "query", NEW t, NEW isMine \in BOOLEAN
    PROVE  /\ Admits(q, t, isMine) /\ (isMine => t \in q.onceMine)
                 => Right(q, t, q.once, q.onceMine)
           /\ Right(q, t, q.always, q.alwaysMine) /\ (t \in q.alwaysMine => isMine)
                 => Admits(q, t, isMine)
<1>1. /\ q.kind \in Kinds /\ q.member \in Member /\ q.subtree \in BOOLEAN
      /\ q.found \in SUBSET Units
  BY DEF Request
<1>2. q.rule = IF q.member.super \/ (q.member.unit = None /\ ~q.member.branch) THEN "all"
               ELSE IF q.member.unit # None THEN "units" ELSE "own"
  BY <1>1, RulesAgree DEF WalkOK
<1>3. CASE q.rule = "units"
  <2>1. q.member.unit # None /\ q.member.unit \in Units /\ ~q.member.super
    BY <1>1, <1>2, <1>3 DEF Member
  <2>2. /\ q.member.unit \in q.found
        /\ ~q.subtree => q.found = {q.member.unit}
        /\ q.subtree => /\ q.found \subseteq Below(q.once, q.member.unit)
                        /\ Below(q.always, q.member.unit) \subseteq q.found
    BY <1>1, <1>3, <2>1, BelowFacts DEF WalkOK
  <2>3. Admits(q, t, isMine) <=> (Home[t] \in q.found \/ isMine)
    BY <1>3 DEF Admits
  <2> QED
    BY <1>1, <2>1, <2>2, <2>3 DEF Right
<1>4. CASE q.rule # "units"
  <2>1. Admits(q, t, isMine) <=> (q.rule = "own" => t \in Mine)
    BY <1>1, <1>2, <1>4 DEF Admits
  <2> QED
    BY <1>1, <1>2, <1>4, <2>1 DEF Right, Member
<1> QED
  BY <1>3, <1>4

---------------------------------------------------------------------------
(* A read goes on.                                                         *)

\* One read is rewritten while nothing is edited.
LEMMA ReadWritten ==
    ASSUME ReadInv, UNCHANGED <<orgVars, assigned>>, NEW r \in Requests,
           NEW x \in Request \cup {Idle}, req' = [req EXCEPT ![r] = x],
           x # Idle => ReadOK(x)
    PROVE  ReadInv'
<1>1. /\ req' \in [Requests -> Request \cup {Idle}] /\ req'[r] = x
      /\ \A s \in Requests : s # r => req'[s] = req[s]
  BY DEF ReadInv
<1>2. \A s \in Requests : req'[s] # Idle => ReadOK(req'[s])
  BY <1>1 DEF ReadInv
<1>3. Links' = Links /\ assigned' = assigned
  BY DEF orgVars, Links, Existing
<1>4. \A s \in Requests : req'[s] # Idle => ReadOK(req[s])'
  BY <1>2, <1>3 DEF ReadOK, HistoryOK, FetchOK, WalkOK, ShownOK
<1> QED
  BY <1>1, <1>3, <1>4 DEF ReadInv

LEMMA Reading ==
    ASSUME ReadInv, NEW r \in Requests, req[r] # Idle
    PROVE  /\ req[r] \in Request /\ ReadOK(req[r])
           /\ req[r].member \in Member /\ req[r].kind \in Kinds
           /\ req[r].subtree \in BOOLEAN
           /\ req \in [Requests -> Request \cup {Idle}]
BY DEF ReadInv, Request

LEMMA BeginReadKeeps ==
    ASSUME OrgInv, ReadInv, NEW r \in Requests, NEW kind \in Kinds, NEW t \in Tickets \cup {None},
           BeginRead(r, kind, t)
    PROVE  ReadInv'
<1> DEFINE x == [kind |-> kind, member |-> me,
                 subtree |-> me.role # None /\ roles[me.role].subtree,
                 ticket |-> t, step |-> IF kind = "fetch" THEN "load" ELSE "scope",
                 mine |-> FALSE, rule |-> "own", pending |-> {}, found |-> {},
                 shown |-> {}, queue |-> {},
                 once |-> Links, always |-> Links, onceMine |-> assigned, alwaysMine |-> assigned]
<1>1. /\ req' = [req EXCEPT ![r] = x] /\ UNCHANGED <<orgVars, assigned>>
      /\ (t # None) <=> kind \in {"fetch", "assistant"}
  BY DEF BeginRead
<1>2. (me.role # None /\ roles[me.role].subtree) \in BOOLEAN
  <2>1. me.role # None => roles[me.role] \in Role
    BY OrgRows DEF OrgInv, NothingDangles
  <2> QED
    BY <2>1 DEF Role
<1>3. x \in Request
  <2>1. Links \subseteq Units \X Units /\ assigned \subseteq Tickets /\ me \in Member
    BY LinksAreUnits DEF OrgInv, OrgTypeOK, ReadInv
  <2> QED
    BY <1>2, <2>1 DEF Request, Rule
<1>4. ReadOK(x)
  BY <1>1 DEF ReadOK, HistoryOK, FetchOK, WalkOK, ShownOK
<1> HIDE DEF x
<1> QED
  BY <1>1, <1>3, <1>4, ReadWritten

LEMMA LoadTicketKeeps ==
    ASSUME ReadInv, NEW r \in Requests, LoadTicket(r)
    PROVE  ReadInv'
<1> DEFINE q == req[r]
           isMine == q.ticket \in assigned
<1>1. q # Idle /\ q.step = "load" /\ q \in Request /\ ReadOK(q)
  BY Reading DEF LoadTicket, At
<1>2. PICK x : x = [q EXCEPT !.step = "scope", !.mine = isMine]
  OBVIOUS
<1>3. /\ req' = [req EXCEPT ![r] = x] /\ UNCHANGED <<orgVars, assigned>>
  BY <1>1, <1>2 DEF LoadTicket, ReadInv
<1>i. isMine \in BOOLEAN
  OBVIOUS
<1> HIDE DEF isMine
<1>4. /\ x \in Request /\ x.step = "scope" /\ x.mine = isMine
      /\ x.kind = q.kind /\ x.ticket = q.ticket /\ x.shown = q.shown /\ x.queue = q.queue
      /\ x.once = q.once /\ x.always = q.always
      /\ x.onceMine = q.onceMine /\ x.alwaysMine = q.alwaysMine
  BY <1>1, <1>2, <1>i DEF Request
<1>5. ReadOK(x)
  <2>1. HistoryOK(q) /\ FetchOK(q) /\ ShownOK(q)
    BY <1>1 DEF ReadOK
  <2>2. HistoryOK(x) /\ WalkOK(x) /\ ShownOK(x)
    BY <1>1, <1>4, <2>1 DEF HistoryOK, WalkOK, ShownOK
  <2>3. FetchOK(x)
    BY <1>1, <1>4, <2>1 DEF HistoryOK, FetchOK, isMine
  <2> QED
    BY <2>2, <2>3 DEF ReadOK
<1> QED
  BY <1>3, <1>4, <1>5, ReadWritten

\* A read whose units are being found: what it has fetched and shown stays.
LEMMA ScopeMoves ==
    ASSUME ReadInv, NEW r \in Requests, req[r] # Idle, req[r].step \in {"scope", "walk"},
           NEW x \in Request, req' = [req EXCEPT ![r] = x], UNCHANGED <<orgVars, assigned>>,
           x.step \in {"walk", "query"}, WalkOK(x),
           x.kind = req[r].kind, x.ticket = req[r].ticket, x.mine = req[r].mine,
           x.shown = req[r].shown, x.queue = req[r].queue,
           x.once = req[r].once, x.always = req[r].always,
           x.onceMine = req[r].onceMine, x.alwaysMine = req[r].alwaysMine
    PROVE  ReadInv'
<1>1. ReadOK(req[r])
  BY Reading
<1>2. HistoryOK(x) /\ FetchOK(x) /\ ShownOK(x)
  BY <1>1 DEF ReadOK, HistoryOK, FetchOK, ShownOK
<1> QED
  BY <1>2, ReadWritten DEF ReadOK

LEMMA AccessibleKeeps ==
    ASSUME ReadInv, NEW r \in Requests, Accessible(r)
    PROVE  ReadInv'
<1> DEFINE q == req[r]
           rule == RuleOf(q.kind, q.member)
           walk == rule = "units" /\ q.subtree
<1>1. /\ q # Idle /\ q.step = "scope" /\ q \in Request /\ ReadOK(q)
      /\ q.member \in Member /\ q.kind \in Kinds /\ q.subtree \in BOOLEAN
  BY Reading DEF Accessible, At
<1>2. PICK x : x = [q EXCEPT !.rule = rule, !.step = IF walk THEN "walk" ELSE "query",
                             !.pending = IF walk THEN {q.member.unit} ELSE {},
                             !.found = IF rule = "units" /\ ~walk THEN {q.member.unit} ELSE {}]
  OBVIOUS
<1>3. /\ req' = [req EXCEPT ![r] = x] /\ UNCHANGED <<orgVars, assigned>>
  BY <1>1, <1>2 DEF Accessible, ReadInv
<1>4. rule \in Rule /\ (rule = "units" => q.member.unit \in Units)
  BY <1>1, RulesAgree DEF Rule, Member
<1> HIDE DEF rule
<1>5. /\ x \in Request /\ x.rule = rule /\ x.step = (IF walk THEN "walk" ELSE "query")
      /\ x.pending = (IF walk THEN {q.member.unit} ELSE {})
      /\ x.found = (IF rule = "units" /\ ~walk THEN {q.member.unit} ELSE {})
      /\ x.kind = q.kind /\ x.member = q.member /\ x.subtree = q.subtree
      /\ x.ticket = q.ticket /\ x.mine = q.mine /\ x.shown = q.shown /\ x.queue = q.queue
      /\ x.once = q.once /\ x.always = q.always
      /\ x.onceMine = q.onceMine /\ x.alwaysMine = q.alwaysMine
  BY <1>1, <1>2, <1>4 DEF Request
<1>6. WalkOK(x)
  <2>1. x.rule = RuleOf(x.kind, x.member)
    BY <1>5 DEF rule
  <2>2. CASE walk
    <3>1. q.member.unit \in Below(q.once, q.member.unit)
      BY <1>4, <2>2, BelowFacts
    <3> QED
      BY <1>5, <2>1, <2>2, <3>1 DEF WalkOK
  <2>3. CASE ~walk
    BY <1>5, <2>1, <2>3 DEF WalkOK
  <2> QED
    BY <2>2, <2>3
<1> QED
  BY <1>1, <1>3, <1>5, <1>6, ScopeMoves

\* A unit is visited: its children by the links of now are below the member's
\* unit by links there have been, and all that were always there are met.
LEMMA VisitUnitKeeps ==
    ASSUME OrgInv, ReadInv, NEW r \in Requests, NEW u \in Units, VisitUnit(r, u)
    PROVE  ReadInv'
<1> DEFINE q == req[r]
           pending == (q.pending \ {u}) \cup Children(u)
<1>1. /\ q # Idle /\ q.step = "walk" /\ q \in Request /\ ReadOK(q) /\ u \in q.pending
      /\ q.member \in Member /\ q.kind \in Kinds /\ q.subtree \in BOOLEAN
  BY Reading DEF VisitUnit, At
<1>2. PICK x : x = [q EXCEPT !.pending = pending, !.found = @ \cup {u},
                             !.step = IF pending = {} THEN "query" ELSE "walk"]
  OBVIOUS
<1>3. /\ req' = [req EXCEPT ![r] = x] /\ UNCHANGED <<orgVars, assigned>>
  BY <1>1, <1>2 DEF VisitUnit, ReadInv
<1>4. /\ Children(u) \subseteq Units
      /\ \A v \in Children(u) : <<v, u>> \in Links
      /\ \A v : <<v, u>> \in Links => v \in Children(u)
  <2>1. Existing \subseteq Units /\ None \notin Units
    BY OrgRows, OrgConstants DEF OrgInv
  <2> QED
    BY <2>1 DEF Children, Links
<1>5. /\ q.rule = RuleOf(q.kind, q.member) /\ q.rule = "units" /\ q.subtree
      /\ q.member.unit \in q.pending \cup q.found
      /\ q.pending \cup q.found \subseteq Below(q.once, q.member.unit)
      /\ \A l \in q.always : l[2] \in q.found => l[1] \in q.pending \cup q.found
      /\ Links \subseteq q.once /\ q.always \subseteq Links
      /\ q.always \subseteq Units \X Units
      /\ q.pending \in SUBSET Units /\ q.found \in SUBSET Units
  BY <1>1 DEF ReadOK, WalkOK, HistoryOK, Request
<1>6. q.member.unit \in Units
  BY <1>5
<1>7. Children(u) \subseteq Below(q.once, q.member.unit)
  <2> SUFFICES ASSUME NEW v \in Children(u) PROVE v \in Below(q.once, q.member.unit)
    OBVIOUS
  <2>1. v \in Units /\ <<v, u>> \in q.once /\ u \in Below(q.once, q.member.unit)
    BY <1>1, <1>4, <1>5
  <2> QED
    BY <1>6, <2>1, BelowFacts
<1>8. \A l \in q.always : l[2] \in q.found \cup {u} => l[1] \in pending \cup (q.found \cup {u})
  <2> SUFFICES ASSUME NEW l \in q.always, l[2] \in q.found \cup {u}
               PROVE  l[1] \in pending \cup (q.found \cup {u})
    OBVIOUS
  <2>1. l = <<l[1], l[2]>> /\ l \in Links
    BY <1>5
  <2>2. l[2] = u => l[1] \in Children(u)
    BY <1>4, <2>1
  <2> QED
    BY <1>5, <2>2
<1>9. /\ x \in Request /\ x.pending = pending /\ x.found = q.found \cup {u}
      /\ x.step = (IF pending = {} THEN "query" ELSE "walk")
      /\ x.kind = q.kind /\ x.member = q.member /\ x.subtree = q.subtree /\ x.rule = q.rule
      /\ x.ticket = q.ticket /\ x.mine = q.mine /\ x.shown = q.shown /\ x.queue = q.queue
      /\ x.once = q.once /\ x.always = q.always
      /\ x.onceMine = q.onceMine /\ x.alwaysMine = q.alwaysMine
  BY <1>1, <1>2, <1>4 DEF Request
<1>10. /\ q.member.unit \in pending \cup (q.found \cup {u})
       /\ pending \cup (q.found \cup {u}) \subseteq Below(q.once, q.member.unit)
  BY <1>1, <1>5, <1>7
<1> HIDE DEF pending
<1>11. WalkOK(x)
  <2>1. CASE pending = {}
    BY <1>5, <1>8, <1>9, <1>10, <2>1 DEF WalkOK, Closed
  <2>2. CASE pending # {}
    BY <1>5, <1>8, <1>9, <1>10, <2>2 DEF WalkOK
  <2> QED
    BY <2>1, <2>2
<1> QED
  BY <1>1, <1>3, <1>9, <1>11, ScopeMoves

\* A statement has been read: what it shows is the member's right, and if it was
\* the last one, it shows all that always was.
LEMMA ShowKeeps ==
    ASSUME ReadInv, NEW r \in Requests, NEW kind, NEW tickets, NEW next \in {"query", "queue", "done"},
           Show(r, kind, tickets, next), tickets \subseteq Tickets,
           next = "queue" => kind = "digest",
           \A t \in tickets : Right(req[r], t, req[r].once, req[r].onceMine),
           next # "query" /\ kind # "recent" =>
              \A t \in IF req[r].ticket = None THEN Tickets ELSE {req[r].ticket} :
                  Right(req[r], t, req[r].always, req[r].alwaysMine) => t \in tickets
    PROVE  ReadInv'
<1> DEFINE q == req[r]
<1>1. /\ q # Idle /\ q.step = "query" /\ q.kind = kind /\ q \in Request /\ ReadOK(q)
  BY Reading DEF Show, At
<1>2. PICK x : x = [q EXCEPT !.shown = @ \cup tickets, !.step = next]
  OBVIOUS
<1>3. /\ req' = [req EXCEPT ![r] = x] /\ UNCHANGED <<orgVars, assigned>>
  BY <1>1, <1>2 DEF Show, ReadInv
<1>4. /\ x \in Request /\ x.step = next /\ x.shown = q.shown \cup tickets
      /\ x.kind = q.kind /\ x.member = q.member /\ x.subtree = q.subtree /\ x.rule = q.rule
      /\ x.pending = q.pending /\ x.found = q.found
      /\ x.ticket = q.ticket /\ x.mine = q.mine /\ x.queue = q.queue
      /\ x.once = q.once /\ x.always = q.always
      /\ x.onceMine = q.onceMine /\ x.alwaysMine = q.alwaysMine
  BY <1>1, <1>2 DEF Request
<1>5. HistoryOK(q) /\ FetchOK(q) /\ WalkOK(q) /\ ShownOK(q)
  BY <1>1 DEF ReadOK
<1>6. HistoryOK(x) /\ FetchOK(x) /\ WalkOK(x)
  BY <1>1, <1>4, <1>5 DEF HistoryOK, FetchOK, WalkOK
<1>7. \A t, links, mine : Right(x, t, links, mine) <=> Right(q, t, links, mine)
  BY <1>4 DEF Right
<1>8. \A t \in x.shown : Right(x, t, x.once, x.onceMine)
  BY <1>4, <1>5, <1>7 DEF ShownOK
<1>9. x.step \in {"queue", "done"} /\ x.kind # "recent" =>
          \A t \in IF x.ticket = None THEN Tickets ELSE {x.ticket} :
              Right(x, t, x.always, x.alwaysMine) => t \in x.shown
  BY <1>1, <1>4, <1>7
<1>10. ShownOK(x)
  BY <1>1, <1>4, <1>5, <1>8, <1>9 DEF ShownOK
<1> QED
  BY <1>3, <1>4, <1>6, <1>10, ReadWritten DEF ReadOK

\* What a where-clause reads now is admitted by links and assignments of the
\* read, and nothing that always was is left out.
LEMMA VisibleByRight ==
    ASSUME ReadInv, NEW r \in Requests, At(r, "query")
    PROVE  /\ Visible(r) \subseteq Tickets
           /\ \A t \in Visible(r) : Right(req[r], t, req[r].once, req[r].onceMine)
           /\ \A t \in Tickets : Right(req[r], t, req[r].always, req[r].alwaysMine)
                                    => t \in Visible(r)
<1>1. /\ req[r] \in Request /\ WalkOK(req[r]) /\ req[r].step = "query"
      /\ assigned \subseteq req[r].onceMine /\ req[r].alwaysMine \subseteq assigned
  BY Reading DEF At, ReadOK, HistoryOK
<1>2. ASSUME NEW t
      PROVE  /\ Admits(req[r], t, t \in assigned) => Right(req[r], t, req[r].once, req[r].onceMine)
             /\ Right(req[r], t, req[r].always, req[r].alwaysMine)
                   => Admits(req[r], t, t \in assigned)
  <2> DEFINE isMine == t \in assigned
  <2>1. isMine \in BOOLEAN
    OBVIOUS
  <2>2. (isMine => t \in req[r].onceMine) /\ (t \in req[r].alwaysMine => isMine)
    BY <1>1
  <2> HIDE DEF isMine
  <2>3. /\ Admits(req[r], t, isMine) => Right(req[r], t, req[r].once, req[r].onceMine)
        /\ Right(req[r], t, req[r].always, req[r].alwaysMine) => Admits(req[r], t, isMine)
    BY <1>1, <2>1, <2>2, AdmittedByRight
  <2> QED
    BY <2>3 DEF isMine
<1> QED
  BY <1>2 DEF Visible

LEMMA QueryKeeps ==
    ASSUME ReadInv, NEW r \in Requests,
           \/ ListTickets(r) \/ GetTicket(r) \/ GetKpis(r) \/ GetCharts(r) \/ GetRecentTickets(r)
           \/ BuildReportRows(r) \/ LoadVisibleTicket(r) \/ RenderWorkspace(r)
    PROVE  ReadInv'
<1>1. /\ At(r, "query") /\ req[r] \in Request /\ ReadOK(req[r]) /\ req[r] # Idle
      /\ (req[r].ticket # None) <=> (req[r].kind \in {"fetch", "assistant"})
      /\ req[r].ticket \in Tickets \cup {None}
  <2>1. At(r, "query")
    BY DEF ListTickets, GetTicket, GetKpis, GetCharts, GetRecentTickets, BuildReportRows,
           LoadVisibleTicket, RenderWorkspace, Show
  <2>2. req[r] # Idle /\ req[r] \in Request /\ ReadOK(req[r])
    BY <2>1, Reading DEF At
  <2> QED
    BY <2>1, <2>2 DEF ReadOK, FetchOK, Request
<1>2. ASSUME NEW kind, NEW next \in {"query", "queue", "done"}, kind \notin {"fetch", "assistant"},
             next = "queue" => kind = "digest", Show(r, kind, Visible(r), next)
      PROVE  ReadInv'
  <2>1. req[r].kind = kind /\ req[r].ticket = None
    BY <1>1, <1>2 DEF Show
  <2> QED
    BY <1>1, <1>2, <2>1, VisibleByRight, ShowKeeps
<1>3. CASE \/ ListTickets(r) \/ GetKpis(r) \/ GetCharts(r) \/ BuildReportRows(r) \/ RenderWorkspace(r)
  BY <1>2, <1>3 DEF ListTickets, GetKpis, GetCharts, BuildReportRows, RenderWorkspace
<1>4. CASE GetRecentTickets(r)
  <2>1. PICK latest \in SUBSET Visible(r) : Show(r, "recent", latest, "done")
    BY <1>4 DEF GetRecentTickets
  <2>2. latest \subseteq Tickets
        /\ \A t \in latest : Right(req[r], t, req[r].once, req[r].onceMine)
    BY <1>1, VisibleByRight
  <2> QED
    BY <2>1, <2>2, ShowKeeps
<1>5. CASE LoadVisibleTicket(r)
  <2> DEFINE tickets == Visible(r) \cap {req[r].ticket}
  <2>1. Show(r, "assistant", tickets, "done")
    BY <1>5 DEF LoadVisibleTicket
  <2>2. req[r].ticket \in Tickets /\ req[r].ticket # None
    BY <1>1, <2>1 DEF Show
  <2>3. /\ tickets \subseteq Tickets
        /\ \A t \in tickets : Right(req[r], t, req[r].once, req[r].onceMine)
        /\ \A t \in {req[r].ticket} :
              Right(req[r], t, req[r].always, req[r].alwaysMine) => t \in tickets
    BY <1>1, <2>2, VisibleByRight
  <2> HIDE DEF tickets
  <2> QED
    BY <2>1, <2>2, <2>3, ShowKeeps
<1>6. CASE GetTicket(r)
  <2> DEFINE tickets == {t \in {req[r].ticket} : Admits(req[r], t, req[r].mine)}
  <2>1. Show(r, "fetch", tickets, "done")
    BY <1>6 DEF GetTicket
  <2>2. /\ req[r].kind = "fetch" /\ req[r].step = "query" /\ req[r].ticket \in Tickets
        /\ req[r].ticket # None /\ req[r].mine \in BOOLEAN
    BY <1>1, <2>1 DEF Show, At, Request
  <2>3. /\ req[r].ticket \in req[r].alwaysMine => req[r].mine
        /\ req[r].mine => req[r].ticket \in req[r].onceMine
        /\ WalkOK(req[r])
    BY <1>1, <2>2 DEF ReadOK, FetchOK
  <2>4. /\ Admits(req[r], req[r].ticket, req[r].mine)
              => Right(req[r], req[r].ticket, req[r].once, req[r].onceMine)
        /\ Right(req[r], req[r].ticket, req[r].always, req[r].alwaysMine)
              => Admits(req[r], req[r].ticket, req[r].mine)
    BY <1>1, <2>2, <2>3, AdmittedByRight
  <2>5. /\ tickets \subseteq Tickets
        /\ \A t \in tickets : Right(req[r], t, req[r].once, req[r].onceMine)
        /\ \A t \in {req[r].ticket} :
              Right(req[r], t, req[r].always, req[r].alwaysMine) => t \in tickets
    BY <2>2, <2>4
  <2> HIDE DEF tickets
  <2> QED
    BY <2>1, <2>2, <2>5, ShowKeeps
<1> QED
  BY <1>3, <1>4, <1>5, <1>6

\* The digest is scoped anew.
LEMMA BuildChatContextKeeps ==
    ASSUME OrgInv, ReadInv, NEW r \in Requests, BuildChatContext(r)
    PROVE  ReadInv'
<1> DEFINE q == req[r]
<1>1. q # Idle /\ q.step = "done" /\ q.kind = "assistant" /\ q \in Request /\ ReadOK(q)
  BY Reading DEF BuildChatContext, At
<1>2. PICK x : x = [q EXCEPT !.kind = "digest", !.step = "scope", !.ticket = None,
                             !.shown = {}, !.found = {}, !.once = Links, !.always = Links,
                             !.onceMine = assigned, !.alwaysMine = assigned]
  OBVIOUS
<1>3. /\ req' = [req EXCEPT ![r] = x] /\ UNCHANGED <<orgVars, assigned>>
  BY <1>1, <1>2 DEF BuildChatContext, ReadInv
<1>4. Links \subseteq Units \X Units /\ assigned \subseteq Tickets
  BY LinksAreUnits DEF OrgInv, ReadInv
<1>5. /\ x \in Request /\ x.kind = "digest" /\ x.step = "scope" /\ x.ticket = None
      /\ x.shown = {} /\ x.queue = q.queue /\ x.once = Links /\ x.always = Links
      /\ x.onceMine = assigned /\ x.alwaysMine = assigned
  BY <1>1, <1>2, <1>4 DEF Request, Kinds
<1>6. q.queue = {}
  BY <1>1 DEF ReadOK, ShownOK
<1>7. ReadOK(x)
  BY <1>5, <1>6 DEF ReadOK, HistoryOK, FetchOK, WalkOK, ShownOK
<1> QED
  BY <1>3, <1>5, <1>7, ReadWritten

LEMMA ReadQueueKeeps ==
    ASSUME ReadInv, NEW r \in Requests, ReadQueue(r)
    PROVE  ReadInv'
<1> DEFINE q == req[r]
<1>1. q # Idle /\ q.step = "queue" /\ q \in Request /\ ReadOK(q)
  BY Reading DEF ReadQueue, At
<1>2. PICK x : x = [q EXCEPT !.queue = assigned, !.step = "done"]
  OBVIOUS
<1>3. /\ req' = [req EXCEPT ![r] = x] /\ UNCHANGED <<orgVars, assigned>>
  BY <1>1, <1>2 DEF ReadQueue, ReadInv
<1>4. /\ x \in Request /\ x.step = "done" /\ x.queue = assigned
      /\ x.kind = q.kind /\ x.member = q.member /\ x.subtree = q.subtree /\ x.rule = q.rule
      /\ x.pending = q.pending /\ x.found = q.found
      /\ x.ticket = q.ticket /\ x.mine = q.mine /\ x.shown = q.shown
      /\ x.once = q.once /\ x.always = q.always
      /\ x.onceMine = q.onceMine /\ x.alwaysMine = q.alwaysMine
  BY <1>1, <1>2 DEF Request, ReadInv
<1>5. HistoryOK(q) /\ FetchOK(q) /\ WalkOK(q) /\ ShownOK(q) /\ assigned \subseteq q.onceMine
  BY <1>1 DEF ReadOK, HistoryOK
<1>6. HistoryOK(x) /\ FetchOK(x) /\ WalkOK(x)
  BY <1>1, <1>4, <1>5 DEF HistoryOK, FetchOK, WalkOK
<1>7. \A t, links, mine : Right(x, t, links, mine) <=> Right(q, t, links, mine)
  BY <1>4 DEF Right
<1>8. ShownOK(x)
  <2>1. \A t \in x.shown : Right(x, t, x.once, x.onceMine)
    BY <1>4, <1>5, <1>7 DEF ShownOK
  <2>2. x.kind # "recent" =>
          \A t \in IF x.ticket = None THEN Tickets ELSE {x.ticket} :
              Right(x, t, x.always, x.alwaysMine) => t \in x.shown
    BY <1>1, <1>4, <1>5, <1>7 DEF ShownOK
  <2>3. x.queue \subseteq x.onceMine /\ x.kind = "digest"
    BY <1>1, <1>4, <1>5 DEF ShownOK
  <2> QED
    BY <1>4, <2>1, <2>2, <2>3 DEF ShownOK
<1> QED
  BY <1>3, <1>4, <1>6, <1>8, ReadWritten DEF ReadOK

\* Something is edited or assigned: the histories of the reads that go on take
\* it in, and what was found for them stays between the two.
LEMMA WitnessKeeps ==
    ASSUME ReadInv, Witness, Links' \subseteq Units \X Units, assigned' \subseteq Tickets
    PROVE  ReadInv'
<1> SUFFICES ASSUME NEW r \in Requests
             PROVE  /\ req'[r] \in Request \cup {Idle}
                    /\ req'[r] # Idle => ReadOK(req[r])'
  BY DEF ReadInv, Witness
<1> DEFINE q == req[r]
<1>1. CASE q = Idle
  BY <1>1 DEF Witness
<1>2. CASE q # Idle /\ q.step = "done"
  <2>1. req'[r] = q /\ ReadOK(q) /\ q \in Request
    BY <1>2, Reading DEF Witness
  <2> QED
    BY <1>2, <2>1 DEF ReadOK, HistoryOK, FetchOK, WalkOK, ShownOK
<1>3. CASE q # Idle /\ q.step # "done"
  <2>1. q \in Request /\ ReadOK(q) /\ q.member \in Member
    BY <1>3, Reading
  <2>2. PICK x : x = [q EXCEPT !.once = @ \cup Links', !.always = @ \cap Links',
                               !.onceMine = @ \cup assigned', !.alwaysMine = @ \cap assigned']
    OBVIOUS
  <2>3. req'[r] = x
    BY <1>3, <2>2 DEF Witness
  <2>4. /\ x \in Request /\ x.step = q.step
        /\ x.kind = q.kind /\ x.member = q.member /\ x.subtree = q.subtree /\ x.rule = q.rule
        /\ x.pending = q.pending /\ x.found = q.found /\ x.shown = q.shown
        /\ x.ticket = q.ticket /\ x.mine = q.mine /\ x.queue = q.queue
        /\ x.once = q.once \cup Links' /\ x.always = q.always \cap Links'
        /\ x.onceMine = q.onceMine \cup assigned' /\ x.alwaysMine = q.alwaysMine \cap assigned'
    BY <2>1, <2>2 DEF Request
  <2>5. /\ q.once \subseteq x.once /\ x.always \subseteq q.always
        /\ q.onceMine \subseteq x.onceMine /\ x.alwaysMine \subseteq q.alwaysMine
        /\ Links' \subseteq x.once /\ x.always \subseteq Links'
        /\ assigned' \subseteq x.onceMine /\ x.alwaysMine \subseteq assigned'
    BY <2>4
  <2>6. HistoryOK(q) /\ FetchOK(q) /\ WalkOK(q) /\ ShownOK(q)
    BY <2>1 DEF ReadOK
  <2>7. FetchOK(x)
    BY <2>4, <2>5, <2>6 DEF FetchOK
  <2>8. WalkOK(x)
    <3>1. q.step \in {"walk", "query", "queue"} /\ q.rule = "units" => q.member.unit \in Units
      <4>1. q.pending \in SUBSET Units /\ q.found \in SUBSET Units
        BY <2>1 DEF Request
      <4> QED
        BY <2>6, <4>1 DEF WalkOK
    <3>2. q.member.unit \in Units =>
             Below(q.once, q.member.unit) \subseteq Below(x.once, q.member.unit)
      BY <2>5, BelowFacts
    <3>3. \A S : Closed(q.always, S) => Closed(x.always, S)
      BY <2>5 DEF Closed
    <3>4. x.step \in {"walk", "query", "queue", "done"} => x.rule = RuleOf(x.kind, x.member)
      BY <2>4, <2>6 DEF WalkOK
    <3>5. x.step = "walk" =>
            /\ x.rule = "units" /\ x.subtree
            /\ x.member.unit \in x.pending \cup x.found
            /\ x.pending \cup x.found \subseteq Below(x.once, x.member.unit)
            /\ \A l \in x.always : l[2] \in x.found => l[1] \in x.pending \cup x.found
      <4> SUFFICES ASSUME q.step = "walk"
                   PROVE  /\ q.rule = "units" /\ q.subtree
                          /\ q.member.unit \in q.pending \cup q.found
                          /\ q.pending \cup q.found \subseteq Below(x.once, q.member.unit)
                          /\ \A l \in x.always : l[2] \in q.found => l[1] \in q.pending \cup q.found
        BY <2>4
      <4> QED
        BY <2>5, <2>6, <3>1, <3>2 DEF WalkOK
    <3>6. x.step \in {"query", "queue", "done"} /\ x.rule = "units" =>
            /\ x.member.unit \in x.found
            /\ ~x.subtree => x.found = {x.member.unit}
            /\ x.subtree => /\ x.found \subseteq Below(x.once, x.member.unit)
                            /\ Closed(x.always, x.found)
      <4> SUFFICES ASSUME q.step \in {"query", "queue"}, q.rule = "units"
                   PROVE  /\ q.member.unit \in q.found
                          /\ ~q.subtree => q.found = {q.member.unit}
                          /\ q.subtree => /\ q.found \subseteq Below(x.once, q.member.unit)
                                          /\ Closed(x.always, q.found)
        BY <1>3, <2>4
      <4> QED
        BY <2>6, <3>1, <3>2, <3>3 DEF WalkOK
    <3> QED
      BY <3>4, <3>5, <3>6 DEF WalkOK
  <2>9. ShownOK(x)
    <3>1. \A t, links, mine : Right(x, t, links, mine) <=> Right(q, t, links, mine)
      BY <2>4 DEF Right
    <3>2. \A t : Right(q, t, q.once, q.onceMine) => Right(q, t, x.once, x.onceMine)
      BY <2>1, <2>5, RightGrows
    <3>3. \A t : Right(q, t, x.always, x.alwaysMine) => Right(q, t, q.always, q.alwaysMine)
      BY <2>1, <2>5, RightGrows
    <3>4. \A t \in x.shown : Right(x, t, x.once, x.onceMine)
      BY <2>4, <2>6, <3>1, <3>2 DEF ShownOK
    <3>5. x.step \in {"queue", "done"} /\ x.kind # "recent" =>
            \A t \in IF x.ticket = None THEN Tickets ELSE {x.ticket} :
                Right(x, t, x.always, x.alwaysMine) => t \in x.shown
      BY <2>4, <2>6, <3>1, <3>3 DEF ShownOK
    <3>6. /\ x.step \in {"load", "scope", "walk"} => x.shown = {}
          /\ x.step = "queue" \/ x.queue # {} => x.kind = "digest"
          /\ x.queue \subseteq x.onceMine
      BY <2>4, <2>5, <2>6 DEF ShownOK
    <3> QED
      BY <3>4, <3>5, <3>6 DEF ShownOK
  <2>10. HistoryOK(req[r])'
    BY <2>3, <2>5 DEF HistoryOK
  <2> QED
    BY <2>3, <2>4, <2>7, <2>8, <2>9, <2>10 DEF ReadOK, FetchOK, WalkOK, ShownOK
<1> QED
  BY <1>1, <1>2, <1>3

\* A step of the organisation and its readers.
LEMMA VisibilityStep ==
    ASSUME OrgInv, ReadInv, [Next]_vars
    PROVE  OrgInv' /\ ReadInv'
<1>0. ASSUME UNCHANGED orgVars PROVE OrgInv'
  BY <1>0 DEF orgVars, OrgInv, OrgTypeOK, NothingDangles, Existing, Offered
<1>1. CASE Administer /\ UNCHANGED assigned /\ Witness
  <2>1. OrgInv' /\ assigned' \subseteq Tickets
    BY <1>1, AdministerKeeps DEF ReadInv
  <2> QED
    BY <1>1, LinksStayUnits, <2>1, WitnessKeeps
<1>2. ASSUME NEW t \in Tickets, Assign(t), Witness PROVE OrgInv' /\ ReadInv'
  <2>1. assigned' \subseteq Tickets
    BY <1>2 DEF Assign, ReadInv
  <2>2. OrgInv'
    BY <1>2 DEF Assign, OrgInv, OrgTypeOK, NothingDangles, Existing, Offered
  <2> QED
    BY <1>2, LinksStayUnits, <2>1, <2>2, WitnessKeeps
<1>3. ASSUME NEW r \in Requests, NEW kind \in Kinds, NEW t \in Tickets \cup {None},
             BeginRead(r, kind, t)
      PROVE  OrgInv' /\ ReadInv'
  <2>1. UNCHANGED orgVars
    BY <1>3 DEF BeginRead
  <2> QED
    BY <1>0, <1>3, <2>1, BeginReadKeeps
<1>4. ASSUME NEW r \in Requests, Proceed(r) PROVE OrgInv' /\ ReadInv'
  <2>1. UNCHANGED orgVars
    BY <1>4 DEF Proceed, LoadTicket, Accessible, VisitUnit, ListTickets, GetTicket, GetKpis, GetCharts,
                GetRecentTickets, BuildReportRows, LoadVisibleTicket, BuildChatContext,
                RenderWorkspace, ReadQueue, Show
  <2>2. ReadInv'
    BY <1>4, LoadTicketKeeps, AccessibleKeeps, VisitUnitKeeps, QueryKeeps, BuildChatContextKeeps,
       ReadQueueKeeps DEF Proceed
  <2> QED
    BY <1>0, <2>1, <2>2
<1>5. ASSUME NEW r \in Requests, Answered(r) PROVE OrgInv' /\ ReadInv'
  <2>1. UNCHANGED <<orgVars, assigned>> /\ req' = [req EXCEPT ![r] = Idle]
    BY <1>5 DEF Answered
  <2> QED
    BY <1>0, <2>1, ReadWritten
<1>6. CASE UNCHANGED vars
  <2>1. UNCHANGED orgVars /\ Links' = Links /\ UNCHANGED <<assigned, req>>
    BY <1>6 DEF vars, orgVars, Links, Existing
  <2>2. ReadInv'
    BY <2>1 DEF ReadInv, ReadOK, HistoryOK, FetchOK, WalkOK, ShownOK
  <2> QED
    BY <1>0, <2>1, <2>2
<1> QED
  BY <1>1, <1>2, <1>3, <1>4, <1>5, <1>6 DEF Next

LEMMA VisibilityInit == Init => OrgInv /\ ReadInv
<1> SUFFICES ASSUME Init PROVE OrgInv /\ ReadInv
  OBVIOUS
<1>1. OrgTypeOK
  <2>1. {[level |-> l, subtree |-> TRUE, active |-> TRUE] : l \in Levels} \subseteq Role
    <3>1. \A l \in Levels : [level |-> l, subtree |-> TRUE, active |-> TRUE] \in Role
      BY DEF Role
    <3> QED
      BY <3>1
  <2> QED
    BY <2>1, OrgConstants DEF Init, OrgTypeOK
<1>2. OrgInv
  BY <1>1 DEF Init, OrgInv
<1>3. ReadInv
  BY DEF Init, ReadInv
<1> QED
  BY <1>2, <1>3

---------------------------------------------------------------------------
(* The catalogue.                                                          *)

\* The rows that are there, and the number of the next.
LEMMA PresentFacts ==
    ASSUME RowsOK
    PROVE  /\ Present \subseteq Rows /\ IsFiniteSet(Present) /\ NextRow \in Nat
           /\ NextRow \notin Present
           /\ NextRow \in Rows => \E k \in 0..MaxRows : Present \cup {NextRow} = 1..k
           /\ \A i \in Present : row[i] \in Entry
<1>1. PICK k \in 0..MaxRows : Present = 1..k
  BY DEF RowsOK
<1>2. k \in Nat /\ MaxRows \in Nat
  BY CatalogueBounds
<1>3. IsFiniteSet(Present) /\ Cardinality(Present) = k
  BY <1>1, <1>2, FS_Interval
<1>4. NextRow = k + 1
  BY <1>3 DEF NextRow
<1>5. NextRow \in Rows => k + 1 \in 0..MaxRows /\ Present \cup {NextRow} = 1..(k + 1)
  BY <1>1, <1>2, <1>4 DEF Rows
<1>6. NextRow \notin Present /\ NextRow \in Nat
  BY <1>1, <1>2, <1>4
<1>7. Present \subseteq Rows /\ \A i \in Present : row[i] \in Entry
  BY DEF Present, RowsOK
<1> QED
  BY <1>3, <1>5, <1>6, <1>7

\* A look-up finds the rows that are as the entry says.
LEMMA NamedRows ==
    ASSUME RowsOK, NEW e \in Entry
    PROVE  /\ Named(e.kind, e.parent, e.code) = {i \in Present : row[i] = e}
           /\ IsFiniteSet(Named(e.kind, e.parent, e.code))
<1>1. \A i \in Present : row[i] \in Entry
  BY PresentFacts
<1>2. \A x \in Entry : x.kind = e.kind /\ x.parent = e.parent /\ x.code = e.code => x = e
  BY DEF Entry
<1>3. Named(e.kind, e.parent, e.code) = {i \in Present : row[i] = e}
  BY <1>1, <1>2 DEF Named, OfKind
<1>4. {i \in Present : row[i] = e} \subseteq Present
  OBVIOUS
<1> QED
  BY <1>3, <1>4, PresentFacts, FS_Subset

LEMMA InsertingFinite ==
    ASSUME NEW e
    PROVE  /\ IsFiniteSet(Inserting(e)) /\ Cardinality(Inserting(e)) \in Nat
           /\ Cardinality(Inserting(e)) <= Cardinality(Filers) /\ Cardinality(Filers) \in Nat
<1>1. Inserting(e) \subseteq Filers
  BY DEF Inserting
<1> QED
  BY <1>1, FinitelyMany, FS_Subset, FS_CardinalityType

\* A code has been looked up and not found.
LEMMA LookUpKeeps ==
    ASSUME CatalogueInv, NEW q \in Filers, NEW x \in Filing, filing[q] = Absent,
           filing' = [filing EXCEPT ![q] = x], UNCHANGED <<row, load>>,
           x.at = Absent => Named(x.entry.kind, x.entry.parent, x.entry.code) = {},
           x.at # Absent => /\ x.at \in OfKind("category")
                            /\ \E code \in Codes : x.entry = [row[x.at] EXCEPT !.code = code]
    PROVE  CatalogueInv'
<1>1. RowsOK' /\ LateAreOpen' /\ Present' = Present
  BY DEF CatalogueInv, RowsOK, LateAreOpen, Present, Indexed
<1>2. /\ filing' \in [Filers -> Filing \cup {Absent}] /\ filing'[q] = x
      /\ \A p \in Filers : p # q => filing'[p] = filing[p]
  BY DEF CatalogueInv, FilingOK
<1>3. FilingOK'
  <2>1. \A kind : OfKind(kind)' = OfKind(kind)
    BY <1>1 DEF OfKind
  <2> QED
    BY <1>2, <2>1 DEF CatalogueInv, FilingOK
<1>4. FewOnTheWay'
  <2> SUFFICES ASSUME NEW e \in Entry, e.kind = "subcategory",
                      Named(e.kind, e.parent, e.code)' # {}
               PROVE  Cardinality(Named(e.kind, e.parent, e.code)')
                         + Cardinality(Inserting(e)') <= Cardinality(Filers)
    BY DEF FewOnTheWay
  <2>1. Named(e.kind, e.parent, e.code)' = Named(e.kind, e.parent, e.code)
    BY <1>1 DEF Named, OfKind
  <2>2. filing'[q] # [at |-> Absent, entry |-> e]
    BY <1>2, <2>1
  <2>3. filing[q] # [at |-> Absent, entry |-> e]
    <3>1. [at |-> Absent, entry |-> e] \in Filing
      BY DEF Filing
    <3> QED
      BY <3>1, AbsentIsNoRow
  <2>4. Inserting(e)' = Inserting(e)
    BY <1>2, <2>2, <2>3 DEF Inserting
  <2> QED
    BY <2>1, <2>4 DEF CatalogueInv, FewOnTheWay
<1> QED
  BY <1>1, <1>3, <1>4 DEF CatalogueInv

LEMMA InsertKeeps ==
    ASSUME CatalogueInv, NEW q \in Filers, Insert(q)
    PROVE  CatalogueInv'
<1> DEFINE e == filing[q].entry
           n == NextRow
<1>1. /\ filing[q] # Absent /\ filing[q].at = Absent /\ n \in Rows
      /\ Indexed(e.kind) => Named(e.kind, e.parent, e.code) = {}
      /\ row' = [row EXCEPT ![n] = e] /\ filing' = [filing EXCEPT ![q] = Absent] /\ load' = load
  BY DEF Insert
<1>2. filing[q] \in Filing /\ e \in Entry /\ filing[q] = [at |-> Absent, entry |-> e]
  BY <1>1 DEF CatalogueInv, FilingOK, Filing
<1>3. /\ row' \in [Rows -> Entry \cup {Absent}] /\ row'[n] = e
      /\ \A i \in Rows : i # n => row'[i] = row[i]
  BY <1>1, <1>2 DEF CatalogueInv, RowsOK
<1>4. n \notin Present /\ Present \subseteq Rows /\ \E k \in 0..MaxRows : Present \cup {n} = 1..k
  BY <1>1, PresentFacts DEF CatalogueInv
<1> HIDE DEF e, n
<1>5. Present' = Present \cup {n}
  BY <1>1, <1>2, <1>3, <1>4, AbsentIsNoRow DEF Present
<1>6. RowsOK'
  <2>1. Named(e.kind, e.parent, e.code) = {i \in Present : row[i] = e}
    BY <1>2, NamedRows DEF CatalogueInv
  <2>2. \A i \in Present : row'[i] = row[i] /\ i # n
    BY <1>3, <1>4
  <2>3. \A i, j \in Present' : row'[i] = row'[j] /\ Indexed(row'[i].kind) => i = j
    BY <1>1, <1>3, <1>5, <2>1, <2>2 DEF CatalogueInv, RowsOK
  <2> QED
    BY <1>3, <1>4, <1>5, <2>3 DEF RowsOK, Indexed
<1>7. /\ filing' \in [Filers -> Filing \cup {Absent}] /\ filing'[q] = Absent
      /\ \A p \in Filers : p # q => filing'[p] = filing[p]
  BY <1>1 DEF CatalogueInv, FilingOK
<1>8. FilingOK'
  <2> SUFFICES ASSUME NEW p \in Filers, filing'[p] # Absent, filing'[p].at # Absent
               PROVE  /\ filing'[p].at \in OfKind("category")'
                      /\ \E code \in Codes : filing'[p].entry = [row'[filing'[p].at] EXCEPT !.code = code]
    BY <1>7 DEF FilingOK
  <2>1. p # q /\ filing'[p] = filing[p]
    BY <1>7
  <2>2. /\ filing[p].at \in OfKind("category")
        /\ \E code \in Codes : filing[p].entry = [row[filing[p].at] EXCEPT !.code = code]
    BY <2>1 DEF CatalogueInv, FilingOK
  <2>3. row'[filing[p].at] = row[filing[p].at] /\ filing[p].at \in OfKind("category")'
    BY <1>3, <1>4, <1>5, <2>2 DEF OfKind
  <2> QED
    BY <2>1, <2>2, <2>3
<1>9. FewOnTheWay'
  <2> SUFFICES ASSUME NEW x \in Entry, x.kind = "subcategory",
                      Named(x.kind, x.parent, x.code)' # {}
               PROVE  Cardinality(Named(x.kind, x.parent, x.code)')
                         + Cardinality(Inserting(x)') <= Cardinality(Filers)
    BY DEF FewOnTheWay
  <2> DEFINE named == Named(x.kind, x.parent, x.code)
             ins == Inserting(x)
  <2>1. named = {i \in Present : row[i] = x} /\ IsFiniteSet(named)
    BY NamedRows DEF CatalogueInv
  <2>2. named' = {i \in Present' : row'[i] = x}
    <3>1. \A i \in Present' : row'[i] \in Entry
      BY <1>2, <1>3, <1>4, <1>5, PresentFacts DEF CatalogueInv
    <3>2. \A y \in Entry : y.kind = x.kind /\ y.parent = x.parent /\ y.code = x.code => y = x
      BY DEF Entry
    <3> QED
      BY <3>1, <3>2 DEF Named, OfKind
  <2>3. named = {} \/ Cardinality(named) + Cardinality(ins) <= Cardinality(Filers)
    BY DEF CatalogueInv, FewOnTheWay
  <2>4. /\ IsFiniteSet(ins) /\ Cardinality(ins) \in Nat /\ Cardinality(ins) <= Cardinality(Filers)
        /\ Cardinality(Filers) \in Nat
    BY InsertingFinite
  <2>5. [at |-> Absent, entry |-> x] # Absent
    <3>1. [at |-> Absent, entry |-> x] \in Filing
      BY DEF Filing
    <3> QED
      BY <3>1, AbsentIsNoRow
  <2>6. CASE x = e
    <3>1. named' = named \cup {n} /\ n \notin named
      BY <1>3, <1>4, <1>5, <2>1, <2>2, <2>6
    <3>2. ins' = ins \ {q} /\ q \in ins
      BY <1>2, <1>7, <2>5, <2>6 DEF Inserting
    <3>3. Cardinality(named') = Cardinality(named) + 1 /\ Cardinality(named) \in Nat
      BY <2>1, <3>1, FS_AddElement, FS_CardinalityType
    <3>4. Cardinality(ins') = Cardinality(ins) - 1
      BY <2>4, <3>2, FS_RemoveElement
    <3>5. named = {} => Cardinality(named) = 0
      BY FS_EmptySet
    <3> HIDE DEF named, ins
    <3> QED
      BY <2>3, <2>4, <3>3, <3>4, <3>5 DEF named, ins
  <2>7. CASE x # e
    <3>1. named' = named
      BY <1>3, <1>4, <1>5, <2>1, <2>2, <2>7
    <3>2. ins' = ins
      BY <1>2, <1>7, <2>5, <2>7 DEF Inserting
    <3> QED
      BY <2>3, <3>1, <3>2
  <2> QED
    BY <2>6, <2>7
<1>10. LateAreOpen'
  BY <1>1 DEF CatalogueInv, LateAreOpen
<1> QED
  BY <1>6, <1>8, <1>9, <1>10 DEF CatalogueInv

\* A category is given another code.
LEMMA RewriteKeeps ==
    ASSUME CatalogueInv, NEW q \in Filers, Rewrite(q)
    PROVE  CatalogueInv'
<1> DEFINE e == filing[q].entry
           n == filing[q].at
<1>1. /\ filing[q] # Absent /\ n # Absent
      /\ Named(e.kind, e.parent, e.code) \subseteq {n}
      /\ row' = [row EXCEPT ![n].code = e.code]
      /\ filing' = [filing EXCEPT ![q] = Absent] /\ load' = load
  BY DEF Rewrite
<1>2. /\ n \in OfKind("category") /\ n \in Present /\ n \in Rows /\ row[n] \in Entry /\ row[n].kind = "category"
      /\ \E code \in Codes : e = [row[n] EXCEPT !.code = code]
  BY <1>1, PresentFacts DEF CatalogueInv, FilingOK, OfKind
<1>3. /\ e \in Entry /\ e.kind = "category" /\ e = [row[n] EXCEPT !.code = e.code]
  BY <1>2 DEF Entry
<1>4. row' = [row EXCEPT ![n] = e]
  BY <1>1, <1>3
<1>5. /\ row' \in [Rows -> Entry \cup {Absent}] /\ row'[n] = e
      /\ \A i \in Rows : i # n => row'[i] = row[i]
  BY <1>2, <1>3, <1>4 DEF CatalogueInv, RowsOK
<1>6. [at |-> n, entry |-> e] # Absent /\ filing[q] = [at |-> n, entry |-> e]
  BY <1>1 DEF CatalogueInv, FilingOK, Filing
<1>7. /\ filing' \in [Filers -> Filing \cup {Absent}] /\ filing'[q] = Absent
      /\ \A p \in Filers : p # q => filing'[p] = filing[p]
  BY <1>1 DEF CatalogueInv, FilingOK
<1>8. Named(e.kind, e.parent, e.code) = {i \in Present : row[i] = e}
  BY <1>3, NamedRows DEF CatalogueInv
<1> HIDE DEF e, n
<1>9. Present' = Present /\ Present \subseteq Rows
  BY <1>2, <1>3, <1>5, AbsentIsNoRow DEF Present
<1>10. RowsOK'
  <2>1. \A i, j \in Present : row'[i] = row'[j] /\ Indexed(row'[i].kind) => i = j
    <3> SUFFICES ASSUME NEW i \in Present, NEW j \in Present, row'[i] = row'[j], Indexed(row'[i].kind)
                 PROVE  i = j
      OBVIOUS
    <3>1. CASE i = n \/ j = n
      BY <1>1, <1>5, <1>8, <1>9, <3>1
    <3>2. CASE i # n /\ j # n
      BY <1>5, <1>9, <3>2 DEF CatalogueInv, RowsOK
    <3> QED
      BY <3>1, <3>2
  <2> QED
    BY <1>5, <1>9, <2>1 DEF CatalogueInv, RowsOK, Indexed
<1>11. FilingOK'
  <2> SUFFICES ASSUME NEW p \in Filers, filing'[p] # Absent, filing'[p].at # Absent
               PROVE  /\ filing'[p].at \in OfKind("category")'
                      /\ \E code \in Codes : filing'[p].entry = [row'[filing'[p].at] EXCEPT !.code = code]
    BY <1>7 DEF FilingOK
  <2>1. p # q /\ filing'[p] = filing[p]
    BY <1>7
  <2>2. PICK code \in Codes : filing[p].entry = [row[filing[p].at] EXCEPT !.code = code]
    BY <2>1 DEF CatalogueInv, FilingOK
  <2>3. filing[p].at \in Present /\ filing[p].at \in OfKind("category")
    BY <2>1 DEF CatalogueInv, FilingOK, OfKind
  <2>4. filing[p].at \in OfKind("category")'
    BY <1>3, <1>5, <1>9, <2>3 DEF OfKind
  <2>5. [row'[filing[p].at] EXCEPT !.code = code] = [row[filing[p].at] EXCEPT !.code = code]
    <3>1. CASE filing[p].at # n
      BY <1>5, <1>9, <2>3, <3>1
    <3>2. CASE filing[p].at = n
      <4>1. \A x \in Entry, y \in Codes : [[x EXCEPT !.code = y] EXCEPT !.code = code] = [x EXCEPT !.code = code]
        BY DEF Entry
      <4>2. e.code \in Codes
        BY <1>3 DEF Entry
      <4> QED
        BY <1>2, <1>3, <1>5, <3>2, <4>1, <4>2
    <3> QED
      BY <3>1, <3>2
  <2> QED
    BY <2>1, <2>2, <2>4, <2>5
<1>12. FewOnTheWay'
  <2> SUFFICES ASSUME NEW x \in Entry, x.kind = "subcategory",
                      Named(x.kind, x.parent, x.code)' # {}
               PROVE  Cardinality(Named(x.kind, x.parent, x.code)')
                         + Cardinality(Inserting(x)') <= Cardinality(Filers)
    BY DEF FewOnTheWay
  <2>1. Named(x.kind, x.parent, x.code)' = Named(x.kind, x.parent, x.code)
    <3>1. row[n].kind # x.kind /\ row'[n].kind # x.kind
      BY <1>2, <1>3, <1>5
    <3> QED
      BY <1>5, <1>9, <3>1 DEF Named, OfKind
  <2>2. Inserting(x)' = Inserting(x)
    <3>1. filing[q] # [at |-> Absent, entry |-> x]
      BY <1>1, <1>6
    <3>2. filing'[q] # [at |-> Absent, entry |-> x]
      <4>1. [at |-> Absent, entry |-> x] \in Filing
        BY DEF Filing
      <4> QED
        BY <1>7, <4>1, AbsentIsNoRow
    <3> QED
      BY <1>7, <3>1, <3>2 DEF Inserting
  <2> QED
    BY <2>1, <2>2 DEF CatalogueInv, FewOnTheWay
<1>13. LateAreOpen'
  BY <1>1 DEF CatalogueInv, LateAreOpen
<1> QED
  BY <1>10, <1>11, <1>12, <1>13 DEF CatalogueInv

\* Who breaks off inserts nothing.
LEMMA FilingFailsKeeps ==
    ASSUME CatalogueInv, NEW q \in Filers, FilingFails(q)
    PROVE  CatalogueInv'
<1>1. filing' = [filing EXCEPT ![q] = Absent] /\ UNCHANGED <<row, load>>
  BY DEF FilingFails
<1>2. /\ filing' \in [Filers -> Filing \cup {Absent}] /\ filing'[q] = Absent
      /\ \A p \in Filers : p # q => filing'[p] = filing[p]
  BY <1>1 DEF CatalogueInv, FilingOK
<1>3. RowsOK' /\ LateAreOpen' /\ Present' = Present
  BY <1>1 DEF CatalogueInv, RowsOK, LateAreOpen, Present, Indexed
<1>4. FilingOK'
  BY <1>1, <1>2, <1>3 DEF CatalogueInv, FilingOK, OfKind
<1>5. FewOnTheWay'
  <2> SUFFICES ASSUME NEW x \in Entry, x.kind = "subcategory",
                      Named(x.kind, x.parent, x.code)' # {}
               PROVE  Cardinality(Named(x.kind, x.parent, x.code)')
                         + Cardinality(Inserting(x)') <= Cardinality(Filers)
    BY DEF FewOnTheWay
  <2> DEFINE named == Named(x.kind, x.parent, x.code)
             ins == Inserting(x)
  <2>1. named' = named
    BY <1>1, <1>3 DEF Named, OfKind
  <2>2. ins' \subseteq ins
    <3>1. [at |-> Absent, entry |-> x] \in Filing
      BY DEF Filing
    <3> QED
      BY <1>2, <3>1, AbsentIsNoRow DEF Inserting
  <2>3. IsFiniteSet(ins) /\ Cardinality(ins) \in Nat /\ Cardinality(Filers) \in Nat
    BY InsertingFinite
  <2>4. Cardinality(ins') <= Cardinality(ins) /\ Cardinality(ins') \in Nat
    BY <2>2, <2>3, FS_Subset, FS_CardinalityType
  <2>5. Cardinality(named) \in Nat
    BY NamedRows, FS_CardinalityType DEF CatalogueInv
  <2>6. Cardinality(named) + Cardinality(ins) <= Cardinality(Filers)
    BY <2>1 DEF CatalogueInv, FewOnTheWay
  <2> HIDE DEF named, ins
  <2> QED
    BY <2>1, <2>3, <2>4, <2>5, <2>6 DEF named, ins
<1> QED
  BY <1>3, <1>4, <1>5 DEF CatalogueInv

\* The figures of every branch are of one moment.
LEMMA TicketStatsKeeps ==
    ASSUME CatalogueInv, TicketStats
    PROVE  CatalogueInv'
<1>1. LateAreOpen'
  <2> DEFINE open(b) == OpenAt(b)
             late(b) == {t \in OpenAt(b) : filed[t].late}
  <2>1. load' = [b \in listing |-> [open |-> Cardinality(open(b)), late |-> Cardinality(late(b))]]
    BY DEF TicketStats
  <2>2. \A b : Cardinality(late(b)) <= Cardinality(open(b))
    <3>1. \A b : OpenAt(b) \subseteq Filed /\ late(b) \subseteq OpenAt(b)
      BY DEF OpenAt
    <3>2. \A b : IsFiniteSet(OpenAt(b))
      BY <3>1, FinitelyMany, FS_Subset
    <3> QED
      BY <3>1, <3>2, FS_Subset
  <2> HIDE DEF open, late
  <2> QED
    BY <2>1, <2>2 DEF LateAreOpen
<1>2. UNCHANGED <<row, filing>>
  BY DEF TicketStats
<1>3. RowsOK' /\ FilingOK' /\ FewOnTheWay'
  BY <1>2 DEF CatalogueInv, RowsOK, FilingOK, FewOnTheWay, Present, OfKind, Named, Inserting, Indexed
<1> QED
  BY <1>1, <1>3 DEF CatalogueInv

\* A step of the catalogue.
LEMMA CatalogueStep ==
    ASSUME CatalogueInv, [CatalogueNext]_catalogueVars
    PROVE  CatalogueInv'
<1>1. ASSUME NEW q \in Filers, NEW e \in Entry, LookUp(q, e) PROVE CatalogueInv'
  <2> DEFINE x == [at |-> Absent, entry |-> e]
  <2>1. x \in Filing /\ x.at = Absent /\ x.entry = e
    BY DEF Filing
  <2>2. /\ filing[q] = Absent /\ filing' = [filing EXCEPT ![q] = x] /\ UNCHANGED <<row, load>>
        /\ Named(e.kind, e.parent, e.code) = {}
    BY <1>1 DEF LookUp
  <2> HIDE DEF x
  <2> QED
    BY <2>1, <2>2, LookUpKeeps
<1>2. ASSUME NEW q \in Filers, NEW code \in Codes, CreateCategory(q, code) \/ CreateBranch(q, code)
      PROVE  CatalogueInv'
  <2>1. /\ [kind |-> "category", code |-> code, parent |-> Absent] \in Entry
        /\ [kind |-> "branch", code |-> code, parent |-> Absent] \in Entry
    BY DEF Entry, Coded
  <2> QED
    BY <1>1, <1>2, <2>1 DEF CreateCategory, CreateBranch
<1>3. ASSUME NEW q \in Filers, NEW c \in Rows, NEW code \in Codes, CreateSubcategory(q, c, code)
      PROVE  CatalogueInv'
  <2>1. [kind |-> "subcategory", code |-> code, parent |-> c] \in Entry
    BY DEF Entry, Coded
  <2> QED
    BY <1>1, <1>3, <2>1 DEF CreateSubcategory
<1>4. ASSUME NEW q \in Filers, NEW c \in Rows, NEW code \in Codes, UpdateCategory(q, c, code)
      PROVE  CatalogueInv'
  <2> DEFINE x == [at |-> c, entry |-> [row[c] EXCEPT !.code = code]]
  <2>1. /\ filing[q] = Absent /\ filing' = [filing EXCEPT ![q] = x] /\ UNCHANGED <<row, load>>
        /\ c \in OfKind("category") /\ c \in Present
    BY <1>4 DEF UpdateCategory, OfKind
  <2>2. x.at # Absent /\ x.at = c /\ x.entry = [row[c] EXCEPT !.code = code]
    BY CatalogueBounds DEF Rows
  <2>3. x \in Filing
    <3>1. row[c] \in Entry
      BY <2>1, PresentFacts DEF CatalogueInv
    <3>2. [row[c] EXCEPT !.code = code] \in Entry
      BY <3>1 DEF Entry
    <3> QED
      BY <3>2 DEF Filing
  <2> HIDE DEF x
  <2> QED
    BY <2>1, <2>2, <2>3, LookUpKeeps
<1>5. ASSUME NEW q \in Filers, File(q) PROVE CatalogueInv'
  BY <1>2, <1>3, <1>4, <1>5, InsertKeeps, RewriteKeeps, FilingFailsKeeps DEF File
<1>6. ASSUME UNCHANGED <<row, filing, load>> PROVE CatalogueInv'
  BY <1>6 DEF CatalogueInv, RowsOK, FilingOK, FewOnTheWay, LateAreOpen, Present, OfKind, Named,
              Inserting, Indexed
<1>7. ASSUME NEW t \in Filed, (\E b \in Rows : Raise(t, b)) \/ Work(t) \/ Flag(t) PROVE CatalogueInv'
  BY <1>6, <1>7 DEF Raise, Work, Flag
<1>8. ASSUME ListBranches \/ ExportBranches \/ \E b \in Rows : GetBranch(b) \/ UpdateBranch(b)
      PROVE  CatalogueInv'
  BY <1>6, <1>8 DEF ListBranches, ExportBranches, GetBranch, UpdateBranch, Listed
<1>9. CASE UNCHANGED catalogueVars
  BY <1>6, <1>9 DEF catalogueVars
<1> QED
  BY <1>5, <1>7, <1>8, <1>9, TicketStatsKeeps DEF CatalogueNext

LEMMA CatalogueInitInvariant == CatalogueInit => CatalogueInv
<1> SUFFICES ASSUME CatalogueInit PROVE CatalogueInv
  OBVIOUS
<1>1. Present = {} /\ MaxRows \in Nat
  BY CatalogueBounds DEF CatalogueInit, Present
<1>2. RowsOK
  <2>1. 0 \in 0..MaxRows /\ Present = 1..0
    BY <1>1
  <2> QED
    BY <1>1, <2>1 DEF CatalogueInit, RowsOK
<1>3. FilingOK
  BY DEF CatalogueInit, FilingOK
<1>4. FewOnTheWay
  BY <1>1 DEF FewOnTheWay, Named, OfKind
<1>5. LateAreOpen
  BY DEF CatalogueInit, LateAreOpen
<1> QED
  BY <1>2, <1>3, <1>4, <1>5 DEF CatalogueInv

---------------------------------------------------------------------------
(* The invariant, and what follows from it.                                *)

AdminInv == OrgInv /\ ReadInv /\ CatalogueInv

THEOREM AdministrationInvariant == AdministrationSpec => []AdminInv
<1>1. AdministrationInit => AdminInv
  BY VisibilityInit, CatalogueInitInvariant DEF AdministrationInit, AdminInv
<1>2. AdminInv /\ [AdministrationNext]_allVars => AdminInv'
  <2> SUFFICES ASSUME AdminInv, [AdministrationNext]_allVars PROVE AdminInv'
    OBVIOUS
  <2>1. [Next]_vars /\ [CatalogueNext]_catalogueVars
    BY DEF AdministrationNext, allVars
  <2> QED
    BY <2>1, VisibilityStep, CatalogueStep DEF AdminInv
<1> QED
  BY <1>1, <1>2, PTL DEF AdministrationSpec

\* However the check of a level, the creations on it and its removal are
\* interleaved, no unit and no role is left without its level, and no parent,
\* unit or role is named that is not there (routes/org.py: the delete is flushed
\* under the foreign keys).
THEOREM NoneDangles == AdministrationSpec => []NothingDangles
<1>1. AdminInv => NothingDangles
  BY DEF AdminInv, OrgInv
<1> QED
  BY <1>1, AdministrationInvariant, PTL

\* Every ticket a read has shown is one the member had a right to by links and
\* assignments that have all been there since it began, for any organisation,
\* any tickets and any moves during the walk of get_subtree_ids.
THEOREM EveryReadInScope == AdministrationSpec => []ShownInScope
<1>1. AdminInv => ShownInScope
  <2> SUFFICES ASSUME AdminInv, NEW r \in Requests, At(r, "done")
               PROVE  /\ \A t \in req[r].shown : MaySee(req[r], t, req[r].once, req[r].onceMine)
                      /\ req[r].queue \subseteq req[r].onceMine
    BY DEF ShownInScope
  <2>1. ShownOK(req[r]) /\ req[r].member \in Member
    BY Reading DEF AdminInv, At, ReadOK
  <2> QED
    BY <2>1, MaySeeIsRight DEF ShownOK
<1> QED
  BY <1>1, AdministrationInvariant, PTL

\* A read leaves out no ticket that was the member's to see by links and
\* assignments that held throughout it: whatever is moved, the walk loses none
\* of the units that stayed where they were (core/org_scope.py).
THEOREM NoReadMisses == AdministrationSpec => []NothingMissed
<1>1. AdminInv => NothingMissed
  <2> SUFFICES ASSUME AdminInv, NEW r \in Requests, At(r, "done"), req[r].kind # "recent",
                      NEW t \in IF req[r].ticket = None THEN Tickets ELSE {req[r].ticket},
                      MaySee(req[r], t, req[r].always, req[r].alwaysMine)
               PROVE  t \in req[r].shown
    BY DEF NothingMissed
  <2>1. ShownOK(req[r]) /\ req[r].member \in Member /\ req[r].step = "done"
    BY Reading DEF AdminInv, At, ReadOK
  <2>2. Right(req[r], t, req[r].always, req[r].alwaysMine)
    BY <2>1, MaySeeIsRight
  <2> QED
    BY <2>1, <2>2 DEF ShownOK
<1> QED
  BY <1>1, AdministrationInvariant, PTL

\* However many requests look a code up before one of them writes it, of a
\* category and of a branch there is one row, and of a subcategory no more than
\* there were requests (routes/categories.py and branches.py).
THEOREM FewDuplicates == AdministrationSpec => []DuplicatesBounded
<1>1. AdminInv => DuplicatesBounded
  <2> SUFFICES ASSUME AdminInv, NEW i \in Present
               PROVE  Cardinality(Named(row[i].kind, row[i].parent, row[i].code))
                         <= IF Indexed(row[i].kind) THEN 1 ELSE Cardinality(Filers)
    BY DEF DuplicatesBounded
  <2> DEFINE e == row[i]
             named == Named(e.kind, e.parent, e.code)
  <2>1. RowsOK /\ FewOnTheWay
    BY DEF AdminInv, CatalogueInv
  <2>2. e \in Entry
    BY <2>1, PresentFacts
  <2>3. named = {j \in Present : row[j] = e} /\ i \in named
    BY <2>1, <2>2, NamedRows
  <2>4. CASE Indexed(e.kind)
    <3>1. named = {i}
      BY <2>1, <2>3, <2>4 DEF RowsOK
    <3>2. Cardinality({i}) = 1
      BY FS_Singleton
    <3> QED
      BY <2>4, <3>1, <3>2
  <2>5. CASE ~Indexed(e.kind)
    <3>1. e.kind = "subcategory"
      BY <2>2, <2>5 DEF Entry, Coded, Indexed
    <3>2. Cardinality(named) + Cardinality(Inserting(e)) <= Cardinality(Filers)
      BY <2>1, <2>2, <2>3, <3>1 DEF FewOnTheWay
    <3>3. Cardinality(Inserting(e)) \in Nat /\ Cardinality(Filers) \in Nat
      BY InsertingFinite
    <3>4. Cardinality(named) \in Nat
      BY <2>1, <2>2, NamedRows, FS_CardinalityType
    <3> HIDE DEF e, named
    <3> QED
      BY <2>5, <3>2, <3>3, <3>4 DEF e, named
  <2> QED
    BY <2>4, <2>5
<1> QED
  BY <1>1, AdministrationInvariant, PTL

\* Whatever tickets do while a list of branches is put together, no branch is
\* shown with more late tickets than open ones (routes/branches.py).
THEOREM FiguresBelong == AdministrationSpec => []LateAreOpen
<1>1. AdminInv => LateAreOpen
  BY DEF AdminInv, CatalogueInv
<1> QED
  BY <1>1, AdministrationInvariant, PTL

=============================================================================
