----------------------------- MODULE Visibility -----------------------------
(***************************************************************************)
(* Which tickets a member is shown while the organisation is being edited. *)
(*                                                                         *)
(* The rows a member may see depend on the units below the member's own.   *)
(* They are found by one query per unit, each of which sees the latest     *)
(* commits, and the tickets are then read by another query.  The rule is   *)
(* written out once for each way of reading tickets: the list, one ticket, *)
(* the dashboard, the report and the assistant, which reads the ticket on  *)
(* screen and then a digest of the member's work.                          *)
(***************************************************************************)
EXTENDS OrgTree

CONSTANTS
    Tickets,
    Home,       \* org_unit_id of a ticket, stamped when it is created
    Mine,       \* the tickets the member reported
    Requests,   \* reads that may be under way at the same time
    Idle        \* no request in this slot

ASSUME VisibilityConstants == Home \in [Tickets -> Units \cup {None}] /\ Mine \subseteq Tickets

Kinds == {"list", "fetch", "kpis", "charts", "recent", "report", "assistant", "digest"}

\* The rows a rule admits: all, the member's own, or those of some units.
Rule == {"all", "own", "units"}

\* A request keeps the account as it was authenticated.  pending, found: the
\* walk of get_subtree_ids; mine: the assignee of a ticket fetched before it;
\* queue: the tickets the digest lists as the member's own work.
\* What happened meanwhile is history: the links that have been there at some
\* time, those that have been there throughout, and the same for assignments.
Request == [kind : Kinds, member : Member, subtree : BOOLEAN, ticket : Tickets \cup {None},
            step : {"load", "scope", "walk", "query", "queue", "done"},
            mine : BOOLEAN, rule : Rule, pending : SUBSET Units, found : SUBSET Units,
            shown : SUBSET Tickets, queue : SUBSET Tickets,
            once : SUBSET (Units \X Units), always : SUBSET (Units \X Units),
            onceMine : SUBSET Tickets, alwaysMine : SUBSET Tickets]

ASSUME IdleIsNoRead == Idle \notin Request

VARIABLES
    assigned,   \* tickets whose assignee is the member
    req

vars == <<orgVars, assigned, req>>

At(r, step) == req[r] # Idle /\ req[r].step = step

---------------------------------------------------------------------------
(* The five rules.                                                         *)

\* _ticket_access_filter
AccessFilter(m) == IF m.super THEN "all"
                   ELSE IF m.unit # None THEN "units"
                   ELSE IF m.branch THEN "own" ELSE "all"

\* _get_ticket_or_404
FetchCheck(m) == IF ~m.super /\ m.unit # None THEN "units"
                 ELSE IF ~m.super /\ m.branch THEN "own" ELSE "all"

\* _org_filter
OrgFilter(m) == CASE m.super -> "all"
                  [] ~m.super /\ m.unit # None -> "units"
                  [] ~m.super /\ m.unit = None -> IF m.branch THEN "own" ELSE "all"

\* _build_report_rows
ReportScope(m) == IF m.super THEN "all"
                  ELSE IF m.unit = None THEN IF m.branch THEN "own" ELSE "all"
                  ELSE "units"

\* _visibility_clause
VisibilityClause(m) == IF m.super \/ (m.unit = None /\ ~m.branch) THEN "all"
                       ELSE IF m.unit # None THEN "units" ELSE "own"

RuleOf(kind, m) == CASE kind = "list" -> AccessFilter(m)
                     [] kind = "fetch" -> FetchCheck(m)
                     [] kind \in {"kpis", "charts", "recent"} -> OrgFilter(m)
                     [] kind = "report" -> ReportScope(m)
                     [] kind \in {"assistant", "digest"} -> VisibilityClause(m)

\* The where-clause, or the check of a ticket already loaded.
Admits(q, t, isMine) ==
    CASE q.rule = "all" -> TRUE
      [] q.rule = "own" -> t \in Mine
      [] q.rule = "units" -> Home[t] \in q.found \/ isMine

---------------------------------------------------------------------------
(* A request.                                                              *)

Init ==
    /\ levels = Levels
    /\ units = Seeded
    /\ roles \in [Roles -> {[level |-> l, subtree |-> TRUE, active |-> TRUE] : l \in Levels} \cup {None}]
    /\ me \in Accounts
    /\ NothingDangles
    /\ erasing = {} /\ edits = 0
    /\ assigned = {}
    /\ req = [r \in Requests |-> Idle]

\* get_current_user loads the account with its unit and its role.
BeginRead(r, kind, t) ==
    /\ req[r] = Idle
    /\ (t # None) <=> kind \in {"fetch", "assistant"}
    /\ req' = [req EXCEPT ![r] =
          [kind |-> kind, member |-> me, subtree |-> me.role # None /\ roles[me.role].subtree,
           ticket |-> t, step |-> IF kind = "fetch" THEN "load" ELSE "scope",
           mine |-> FALSE, rule |-> "own", pending |-> {}, found |-> {}, shown |-> {}, queue |-> {},
           once |-> Links, always |-> Links, onceMine |-> assigned, alwaysMine |-> assigned]]
    /\ UNCHANGED <<orgVars, assigned>>

\* One ticket is read before its visibility is worked out.
LoadTicket(r) ==
    /\ At(r, "load")
    /\ req' = [req EXCEPT ![r].step = "scope", ![r].mine = req[r].ticket \in assigned]
    /\ UNCHANGED <<orgVars, assigned>>

\* Mutant: any member of a unit is given the subtree, whatever the role.
Accessible_AnyRole(r) ==
    /\ At(r, "scope")
    /\ LET rule == RuleOf(req[r].kind, req[r].member)
       IN  req' = [req EXCEPT ![r].rule = rule,
                              ![r].step = IF rule = "units" THEN "walk" ELSE "query",
                              ![r].pending = IF rule = "units" THEN {req[r].member.unit} ELSE {},
                              ![r].found = {}]
    /\ UNCHANGED <<orgVars, assigned>>

\* get_accessible_org_unit_ids: the walk, or the member's own unit alone.
Accessible(r) ==
    /\ At(r, "scope")
    /\ LET q == req[r]
           rule == RuleOf(q.kind, q.member)
           walk == rule = "units" /\ q.subtree
       IN  req' = [req EXCEPT ![r].rule = rule,
                              ![r].step = IF walk THEN "walk" ELSE "query",
                              ![r].pending = IF walk THEN {q.member.unit} ELSE {},
                              ![r].found = IF rule = "units" /\ ~walk THEN {q.member.unit} ELSE {}]
    /\ UNCHANGED <<orgVars, assigned>>

\* Mutant: the children replace what was still to be visited.
VisitUnit_Replaces(r, u) ==
    /\ At(r, "walk") /\ u \in req[r].pending
    /\ req' = [req EXCEPT ![r].pending = Children(u),
                          ![r].found = @ \cup {u},
                          ![r].step = IF Children(u) = {} THEN "query" ELSE "walk"]
    /\ UNCHANGED <<orgVars, assigned>>

\* Mutant: the unit is read from the head of the queue and left there.
VisitUnit_Peeks(r, u) ==
    /\ At(r, "walk") /\ u \in req[r].pending
    /\ req' = [req EXCEPT ![r].pending = @ \cup Children(u), ![r].found = @ \cup {u}]
    /\ UNCHANGED <<orgVars, assigned>>

\* One round of get_subtree_ids.  Its list may hold a unit several times; in
\* which order and how often makes no difference to what is read with it.
VisitUnit(r, u) ==
    /\ At(r, "walk") /\ u \in req[r].pending
    /\ LET pending == (req[r].pending \ {u}) \cup Children(u)
       IN  req' = [req EXCEPT ![r].pending = pending,
                              ![r].found = @ \cup {u},
                              ![r].step = IF pending = {} THEN "query" ELSE "walk"]
    /\ UNCHANGED <<orgVars, assigned>>

\* A statement of such a request has been read.
Show(r, kind, tickets, next) ==
    /\ At(r, "query") /\ req[r].kind = kind
    /\ req' = [req EXCEPT ![r].shown = @ \cup tickets, ![r].step = next]
    /\ UNCHANGED <<orgVars, assigned>>

\* What a statement with the filter in its where-clause reads now.
Visible(r) == {t \in Tickets : Admits(req[r], t, t \in assigned)}

\* The total and the page are two statements.
ListTickets(r) == \E next \in {"query", "done"} : Show(r, "list", Visible(r), next)

\* The ticket loaded before is checked against the units found since.
GetTicket(r) == Show(r, "fetch", {t \in {req[r].ticket} : Admits(req[r], t, req[r].mine)}, "done")

\* Eight figures, a statement each, with the filter of the request.
GetKpis(r) == \E next \in {"query", "done"} : Show(r, "kpis", Visible(r), next)

\* Categories, departments and the trend, which takes two statements.
GetCharts(r) == \E next \in {"query", "done"} : Show(r, "charts", Visible(r), next)

\* The ten latest; which of the rows those are is left open.
GetRecentTickets(r) ==
    /\ At(r, "query")
    /\ \E latest \in SUBSET Visible(r) : Show(r, "recent", latest, "done")

\* What is added to a row is read by the id of its ticket.
BuildReportRows(r) == Show(r, "report", Visible(r), "done")

LoadVisibleTicket(r) == Show(r, "assistant", Visible(r) \cap {req[r].ticket}, "done")

\* The digest is scoped anew, after the ticket on screen has been rendered.
BuildChatContext(r) ==
    /\ At(r, "done") /\ req[r].kind = "assistant"
    /\ req' = [req EXCEPT ![r].kind = "digest", ![r].step = "scope", ![r].ticket = None,
                          ![r].shown = {}, ![r].found = {},
                          ![r].once = Links, ![r].always = Links,
                          ![r].onceMine = assigned, ![r].alwaysMine = assigned]
    /\ UNCHANGED <<orgVars, assigned>>

\* Two statements count open tickets; the member's own work comes after them,
\* by its assignee alone.
RenderWorkspace(r) == \E next \in {"query", "queue"} : Show(r, "digest", Visible(r), next)

ReadQueue(r) ==
    /\ At(r, "queue")
    /\ req' = [req EXCEPT ![r].queue = assigned, ![r].step = "done"]
    /\ UNCHANGED <<orgVars, assigned>>

Answered(r) ==
    /\ At(r, "done") /\ req[r].kind # "assistant"
    /\ req' = [req EXCEPT ![r] = Idle]
    /\ UNCHANGED <<orgVars, assigned>>

Proceed(r) ==
    \/ LoadTicket(r) \/ Accessible(r) \/ \E u \in Units : VisitUnit(r, u)
    \/ ListTickets(r) \/ GetTicket(r) \/ GetKpis(r) \/ GetCharts(r) \/ GetRecentTickets(r)
    \/ BuildReportRows(r) \/ LoadVisibleTicket(r) \/ BuildChatContext(r) \/ RenderWorkspace(r) \/ ReadQueue(r)

---------------------------------------------------------------------------
(* What happens meanwhile.                                                 *)

Witness == req' = [r \in Requests |->
    IF req[r] = Idle \/ req[r].step = "done" THEN req[r]
    ELSE [req[r] EXCEPT !.once = @ \cup Links', !.always = @ \cap Links',
                        !.onceMine = @ \cup assigned', !.alwaysMine = @ \cap assigned']]

\* assign_ticket, seen from the member.
Assign(t) ==
    /\ Edited
    /\ assigned' \in {assigned \cup {t}, assigned \ {t}}
    /\ UNCHANGED <<levels, units, roles, me, erasing>>

Next ==
    \/ Administer /\ UNCHANGED assigned /\ Witness
    \/ \E t \in Tickets : Assign(t) /\ Witness
    \/ \E r \in Requests, kind \in Kinds, t \in Tickets \cup {None} : BeginRead(r, kind, t)
    \/ \E r \in Requests : Proceed(r) \/ Answered(r)

\* A request that has begun goes on; nobody has to begin one, or edit anything.
Spec == Init /\ [][Next]_vars /\ \A r \in Requests : WF_vars(Proceed(r))

---------------------------------------------------------------------------
(* Properties.                                                             *)

\* With the parent of a link, S holds its child.
Closed(links, S) == \A l \in links : l[2] \in S => l[1] \in S

\* The units joined to the root by a path of the given links: those of every
\* closed set the root is in.
Below(links, root) ==
    {u \in Units : \A S \in SUBSET Units : root \in S /\ Closed(links, S) => u \in S}

\* What docs/03 section 3 promises a member, over some links and assignments.
MaySee(q, t, links, mine) ==
    CASE q.member.super -> TRUE
      [] ~q.member.super /\ q.member.unit # None ->
            \/ Home[t] = q.member.unit
            \/ q.subtree /\ Home[t] \in Below(links, q.member.unit)
            \/ t \in mine
      [] ~q.member.super /\ q.member.unit = None -> q.member.branch => t \in Mine

\* Nobody is shown a ticket they never had a right to: whatever is moved or
\* assigned during the request, a ticket shown was one the member could see by
\* links and assignments that have all existed since the request began.  The
\* digest's list of the member's own work is not filtered: it may name a ticket
\* assigned to a branch user that no other read would show, and no more.
ShownInScope ==
    \A r \in Requests : At(r, "done") =>
        /\ \A t \in req[r].shown : MaySee(req[r], t, req[r].once, req[r].onceMine)
        /\ req[r].queue \subseteq req[r].onceMine

\* Nothing is missed that was there all along: a ticket below the member's unit
\* by links that held throughout is shown, whichever units moved meanwhile and
\* in whatever order the walk met them.  (The latest ten are not all of them.)
NothingMissed ==
    \A r \in Requests : At(r, "done") /\ req[r].kind # "recent" =>
        \A t \in IF req[r].ticket = None THEN Tickets ELSE {req[r].ticket} :
            MaySee(req[r], t, req[r].always, req[r].alwaysMine) => t \in req[r].shown

Cyclic == \E u \in Units : \E l \in Links : l[1] = u /\ l[2] \in Below(Links, u)

\* A walk ends, unless an administrator has put a unit below itself: the only
\* thing that keeps get_subtree_ids going is a cycle in parent_id.
WalkEnds == \A r \in Requests : At(r, "walk") ~> (~At(r, "walk") \/ Cyclic)

=============================================================================
