----------------------- MODULE TicketRequests_proofs -----------------------
(***************************************************************************)
(* For any number of tickets and of requests in flight, with rows loaded   *)
(* arbitrarily long before the commit: the invariants of TicketRequests    *)
(* and the survival of the evidence on a row.                              *)
(*                                                                         *)
(* None of the invariants is inductive alone, because a commit mixes       *)
(* columns of two rows.  What carries them is that a loaded row satisfies  *)
(* the same conditions as a committed one, and that the columns which only *)
(* ever gain evidence are at least as strong in the table as in any row    *)
(* that was loaded from it.                                                *)
(***************************************************************************)
EXTENDS TicketRequests, TLAPS

\* What one row, committed or loaded, says of itself.
RowOK(t, x) ==
    /\ x.status = "closed" => x.closedAt \/ x.isDuplicate
    /\ x.status \in {"in_progress", "acknowledged"} => x.responded
    /\ x.status = "reopened" => x.reopens > 0
    /\ x.status \in {"resolved", "in_progress", "escalated"} => t \in worked

\* Row x has all the evidence that row old has.
Keeps(old, x) ==
    /\ old.responded => x.responded
    /\ old.closedAt => x.closedAt
    /\ old.isDuplicate => x.isDuplicate
    /\ old.reopens > 0 => x.reopens > 0

TxnOK(r) ==
    LET t == txn[r].ticket
        loaded == txn[r].loaded
    IN  /\ t \in created
        /\ RowOK(t, loaded)
        /\ Keeps(loaded, row[t])

IInv ==
    /\ TypeOK
    /\ \A t \in Tickets : t \notin created => row[t] = NewRow
    /\ \A t \in Tickets : RowOK(t, row[t])
    /\ \A r \in Requests : txn[r] # NoTxn => TxnOK(r)

\* What every handler asks the session to write, compared with what it loaded.
Asks(loaded, w) ==
    /\ w \in Row
    /\ Keeps(loaded, w)
    /\ w.status # loaded.status =>
         /\ w.status = "closed" => w.closedAt \/ w.isDuplicate
         /\ w.status \in {"in_progress", "acknowledged"} => w.responded
         /\ w.status = "reopened" => w.reopens = loaded.reopens + 1
         /\ w.status = "resolved" => loaded.status \in WorkingStatuses

\* The step a commit takes: the evidence on every row survives it.
EvidenceStep ==
    \A t \in Tickets :
        /\ row[t].responded => row'[t].responded
        /\ row[t].closedAt => row'[t].closedAt
        /\ row[t].isDuplicate => row'[t].isDuplicate

---------------------------------------------------------------------------

\* Only a ticket being worked can be resolved: the table has no other way.
LEMMA ResolvedComesFromWork ==
    ASSUME NEW old \in Statuses, old # "resolved", Accepts(old, "resolved")
    PROVE  old \in WorkingStatuses
BY DEF Accepts, ValidTransitions, Statuses, WorkingStatuses

\* A merge of well-formed rows is a well-formed row.
LEMMA MergeType ==
    ASSUME NEW x \in Row, NEW y \in Row, NEW z \in Row
    PROVE  Merge(x, y, z) \in Row
BY DEF Merge, Column, Row

\* A merge keeps the evidence of the row it is merged into.
LEMMA MergeKeeps ==
    ASSUME NEW x \in Row, NEW loaded \in Row, NEW w \in Row,
           Keeps(loaded, w), Keeps(loaded, x)
    PROVE  /\ Keeps(x, Merge(x, loaded, w))
           /\ Keeps(w, Merge(x, loaded, w))
BY DEF Merge, Column, Row, Keeps

\* The commit of anything a handler asks for preserves the invariant.
LEMMA CommitPreserves ==
    ASSUME IInv, NEW r \in Requests, txn[r] # NoTxn, NEW w,
           Asks(txn[r].loaded, w), Commit(r, w)
    PROVE  IInv' /\ EvidenceStep
<1>1. PICK t, loaded : t = txn[r].ticket /\ loaded = txn[r].loaded
  OBVIOUS
<1>2. PICK new : new = Merge(row[t], loaded, w)
  OBVIOUS
<1>3. /\ t \in Tickets /\ loaded \in Row /\ row[t] \in Row /\ w \in Row
      /\ t \in created /\ RowOK(t, loaded) /\ RowOK(t, row[t])
      /\ Keeps(loaded, row[t]) /\ Asks(loaded, w)
  BY <1>1 DEF IInv, TypeOK, Txn, Asks, TxnOK
<1>4. new \in Row /\ Keeps(row[t], new) /\ Keeps(w, new)
  BY <1>2, <1>3, MergeType, MergeKeeps DEF Asks
<1>5. /\ row' = [row EXCEPT ![t] = new]
      /\ txn' = [txn EXCEPT ![r] = NoTxn]
      /\ worked' = IF new.status \in WorkingStatuses THEN worked \cup {t} ELSE worked
      /\ created' = created
      /\ overtaken' \in {overtaken, overtaken \cup {t}}
  BY <1>1, <1>2 DEF Commit
<1>6. worked \subseteq worked'
  BY <1>5
<1>7. RowOK(t, new)'
  <2>1. new.status = IF w.status # loaded.status THEN w.status ELSE row[t].status
    BY <1>2 DEF Merge, Column
  <2>2. CASE w.status # loaded.status
    <3>1. new.status = w.status
      BY <2>1, <2>2
    <3>2. /\ new.status = "closed" => new.closedAt \/ new.isDuplicate
          /\ new.status \in {"in_progress", "acknowledged"} => new.responded
      BY <2>2, <3>1, <1>3, <1>4 DEF Asks, Keeps
    <3>3. new.status = "reopened" => new.reopens > 0
      BY <2>2, <3>1, <1>3, <1>4 DEF Asks, Keeps, Row
    <3>4. new.status \in {"resolved", "in_progress", "escalated"} => t \in worked'
      BY <2>2, <3>1, <1>3, <1>5, <1>6 DEF Asks, RowOK, WorkingStatuses
    <3> QED
      BY <3>2, <3>3, <3>4 DEF RowOK
  <2>3. CASE w.status = loaded.status
    BY <2>1, <2>3, <1>3, <1>4, <1>6 DEF RowOK, Keeps
  <2> QED
    BY <2>2, <2>3
<1>8. TypeOK'
  BY <1>3, <1>4, <1>5 DEF IInv, TypeOK
<1>9. ASSUME NEW u \in Tickets PROVE (u \notin created => row[u] = NewRow)'
  BY <1>3, <1>5 DEF IInv
<1>10. ASSUME NEW u \in Tickets PROVE RowOK(u, row[u])'
  <2>1. CASE u = t
    BY <2>1, <1>3, <1>5, <1>7 DEF IInv, TypeOK, RowOK
  <2>2. CASE u # t
    BY <2>2, <1>5, <1>6 DEF IInv, TypeOK, RowOK
  <2> QED
    BY <2>1, <2>2
<1>11. ASSUME NEW q \in Requests, txn'[q] # NoTxn PROVE TxnOK(q)'
  <2>1. q # r /\ txn'[q] = txn[q] /\ txn[q] # NoTxn
    BY <1>5, <1>11 DEF IInv, TypeOK
  <2>2. TxnOK(q) /\ txn[q].ticket \in Tickets /\ txn[q].loaded \in Row
    BY <2>1 DEF IInv, TypeOK, Txn
  <2>3. Keeps(txn[q].loaded, row'[txn[q].ticket])
    <3>1. CASE txn[q].ticket = t
      BY <3>1, <2>2, <1>3, <1>4, <1>5 DEF TxnOK, Keeps, IInv, TypeOK
    <3>2. CASE txn[q].ticket # t
      BY <3>2, <2>2, <1>5 DEF TxnOK, IInv, TypeOK
    <3> QED
      BY <3>1, <3>2
  <2>4. RowOK(txn[q].ticket, txn[q].loaded) /\ txn[q].ticket \in created
    BY <2>2 DEF TxnOK
  <2> QED
    BY <2>1, <2>3, <2>4, <1>5, <1>6 DEF TxnOK, RowOK, Keeps
<1>12. EvidenceStep
  BY <1>3, <1>4, <1>5 DEF EvidenceStep, Keeps, IInv, TypeOK
<1> QED
  BY <1>8, <1>9, <1>10, <1>11, <1>12 DEF IInv

---------------------------------------------------------------------------
(***************************************************************************)
(* What each handler asks for.                                             *)
(***************************************************************************)

LEMMA TransitionAsks ==
    ASSUME IInv, NEW r \in Requests, NEW s \in Statuses, NEW branchUser \in BOOLEAN,
           TransitionStatus(r, s, branchUser)
    PROVE  IInv' /\ EvidenceStep
<1>1. PICK loaded : loaded = txn[r].loaded
  OBVIOUS
<1>2. PICK w : w = [loaded EXCEPT !.status     = s,
                                  !.resolvedAt = ResolvedStamp(loaded, s),
                                  !.closedAt   = ClosedStamp(loaded, s),
                                  !.responded  = ResponseStamp(loaded, s),
                                  !.reopens    = ReopenCount(loaded, s)]
  OBVIOUS
<1>3. txn[r] # NoTxn /\ Accepts(loaded.status, s) /\ Commit(r, w)
  BY <1>1, <1>2 DEF TransitionStatus
<1>4. loaded \in Row
  BY <1>1, <1>3 DEF IInv, TypeOK, Txn
<1>5. /\ loaded.status \in Statuses /\ loaded.reopens \in Nat
      /\ loaded.responded \in BOOLEAN /\ loaded.closedAt \in BOOLEAN
      /\ ResolvedStamp(loaded, s) \in BOOLEAN
      /\ ClosedStamp(loaded, s) \in BOOLEAN
      /\ ResponseStamp(loaded, s) \in BOOLEAN
      /\ ReopenCount(loaded, s) \in Nat
  BY <1>4 DEF Row, ResolvedStamp, ClosedStamp, ResponseStamp, ReopenCount
<1>6. /\ w.status = s
      /\ w.resolvedAt = ResolvedStamp(loaded, s)
      /\ w.closedAt = ClosedStamp(loaded, s)
      /\ w.responded = ResponseStamp(loaded, s)
      /\ w.reopens = ReopenCount(loaded, s)
      /\ w.isDuplicate = loaded.isDuplicate
      /\ w.duplicateOf = loaded.duplicateOf
  BY <1>2, <1>4 DEF Row
<1>7. w \in Row
  BY <1>2, <1>4, <1>5 DEF Row
<1>8. Keeps(loaded, w)
  <2>1. w.responded = (loaded.responded \/ s \in {"in_progress", "acknowledged"})
    BY <1>6 DEF ResponseStamp
  <2>2. w.closedAt = (loaded.closedAt \/ s = "closed")
    BY <1>6 DEF ClosedStamp
  <2>3. loaded.reopens > 0 => w.reopens > 0
    BY <1>5, <1>6 DEF ReopenCount
  <2> QED
    BY <1>6, <2>1, <2>2, <2>3 DEF Keeps
<1>9. w.status = "resolved" /\ loaded.status # "resolved"
        => loaded.status \in WorkingStatuses
  BY <1>3, <1>5, <1>6, ResolvedComesFromWork
<1>10. Asks(loaded, w)
  BY <1>6, <1>7, <1>8, <1>9 DEF Asks, ClosedStamp, ResponseStamp, ReopenCount
<1> QED
  BY <1>1, <1>3, <1>10, CommitPreserves

LEMMA HandlerAsks ==
    ASSUME IInv, NEW r \in Requests, Handle(r)
    PROVE  IInv' /\ EvidenceStep
<1>1. PICK loaded : loaded = txn[r].loaded
  OBVIOUS
<1>2. txn[r] # NoTxn => loaded \in Row /\ txn[r].ticket \in Tickets
  BY <1>1 DEF IInv, TypeOK, Txn
<1>3. ASSUME NEW s \in Statuses, NEW branchUser \in BOOLEAN,
             TransitionStatus(r, s, branchUser)
      PROVE  IInv' /\ EvidenceStep
  BY <1>3, TransitionAsks
<1>4. CASE AssignTicket(r)
  <2>1. PICK w : w = [loaded EXCEPT !.status = IF @ = "new" THEN "assigned" ELSE @]
    OBVIOUS
  <2>2. txn[r] # NoTxn /\ Commit(r, w)
    BY <1>1, <1>4, <2>1 DEF AssignTicket
  <2>3. Asks(loaded, w)
    BY <1>2, <2>1, <2>2 DEF Asks, Keeps, Row, Statuses
  <2> QED
    BY <1>1, <2>2, <2>3, CommitPreserves
<1>5. ASSUME NEW original \in Tickets \cup Originals, MarkDuplicate(r, original)
      PROVE  IInv' /\ EvidenceStep
  <2>1. PICK w : w = [loaded EXCEPT !.isDuplicate = TRUE,
                                    !.duplicateOf = original,
                                    !.status = "closed"]
    OBVIOUS
  <2>2. txn[r] # NoTxn /\ Commit(r, w)
    BY <1>1, <1>5, <2>1 DEF MarkDuplicate
  <2>3. Asks(loaded, w)
    BY <1>2, <1>5, <2>1, <2>2 DEF Asks, Keeps, Row, Statuses
  <2> QED
    BY <1>1, <2>2, <2>3, CommitPreserves
<1>6. ASSUME NEW branchUser \in BOOLEAN, AddComment(r, branchUser)
      PROVE  IInv' /\ EvidenceStep
  <2>1. PICK w : w = [loaded EXCEPT !.responded = @ \/ ~branchUser]
    OBVIOUS
  <2>2. txn[r] # NoTxn /\ Commit(r, w)
    BY <1>1, <1>6, <2>1 DEF AddComment
  <2>3. Asks(loaded, w)
    BY <1>2, <1>6, <2>1, <2>2 DEF Asks, Keeps, Row
  <2> QED
    BY <1>1, <2>2, <2>3, CommitPreserves
<1>7. CASE EscalateTicket(r)
  <2>1. PICK w : w = [loaded EXCEPT !.status = "escalated"]
    OBVIOUS
  <2>2. txn[r] # NoTxn /\ Commit(r, w)
    BY <1>1, <1>7, <2>1 DEF EscalateTicket
  <2>3. Asks(loaded, w)
    BY <1>2, <2>1, <2>2 DEF Asks, Keeps, Row, Statuses
  <2> QED
    BY <1>1, <2>2, <2>3, CommitPreserves
<1> QED
  BY <1>3, <1>4, <1>5, <1>6, <1>7 DEF Handle

---------------------------------------------------------------------------

LEMMA InitInvariant == Init => IInv
<1> SUFFICES ASSUME Init PROVE IInv
  OBVIOUS
<1>1. NewRow \in Row
  BY DEF NewRow, Row, Statuses
<1>2. TypeOK
  BY <1>1 DEF Init, TypeOK
<1>3. \A t \in Tickets : row[t] = NewRow /\ RowOK(t, row[t])
  BY DEF Init, RowOK, NewRow
<1> QED
  BY <1>2, <1>3 DEF Init, IInv

\* One step of the next-state relation, whoever takes it.
LEMMA StepInvariant ==
    ASSUME IInv, [Next]_vars
    PROVE  IInv' /\ EvidenceStep
<1>1. ASSUME NEW t \in Tickets, CreateTicket(t)
      PROVE  IInv' /\ EvidenceStep
  <2>1. PICK s \in {"new", "assigned"} :
           row' = [row EXCEPT ![t] = [NewRow EXCEPT !.status = s]]
    BY <1>1 DEF CreateTicket
  <2>2. PICK new : new = [NewRow EXCEPT !.status = s]
    OBVIOUS
  <2>3. /\ new \in Row
        /\ new.status \in {"new", "assigned"}
        /\ ~NewRow.responded /\ ~NewRow.closedAt /\ ~NewRow.isDuplicate
    BY <2>2 DEF NewRow, Row, Statuses
  <2>4. /\ t \notin created
        /\ row[t] = NewRow
        /\ row' = [row EXCEPT ![t] = new]
        /\ created' = created \cup {t} /\ txn' = txn /\ worked' = worked
        /\ overtaken' = overtaken
    BY <1>1, <2>1, <2>2 DEF CreateTicket, IInv
  <2>5. TypeOK'
    BY <2>3, <2>4 DEF IInv, TypeOK
  <2>6. \A u \in Tickets : u \notin created' => row'[u] = NewRow
    BY <2>4 DEF IInv, TypeOK
  <2>7. ASSUME NEW u \in Tickets PROVE RowOK(u, row[u])'
    <3>1. CASE u = t
      BY <3>1, <2>3, <2>4 DEF IInv, TypeOK, RowOK
    <3>2. CASE u # t
      BY <3>2, <2>4 DEF IInv, TypeOK, RowOK
    <3> QED
      BY <3>1, <3>2
  <2>8. ASSUME NEW q \in Requests, txn'[q] # NoTxn PROVE TxnOK(q)'
    <3>1. TxnOK(q) /\ txn[q].ticket # t
      BY <2>4, <2>8 DEF IInv, TxnOK
    <3> QED
      BY <3>1, <2>4 DEF TxnOK, RowOK, Keeps, IInv, TypeOK
  <2>9. EvidenceStep
    BY <2>3, <2>4 DEF EvidenceStep, IInv, TypeOK
  <2> QED
    BY <2>5, <2>6, <2>7, <2>8, <2>9 DEF IInv
<1>2. ASSUME NEW r \in Requests, NEW t \in Tickets, LoadTicket(r, t)
      PROVE  IInv' /\ EvidenceStep
  <2>1. /\ t \in created
        /\ txn' = [txn EXCEPT ![r] = [ticket |-> t, loaded |-> row[t]]]
        /\ created' = created /\ row' = row /\ worked' = worked
        /\ overtaken' = overtaken
    BY <1>2 DEF LoadTicket
  <2>2. TypeOK'
    BY <2>1 DEF IInv, TypeOK, Txn
  <2>3. \A u \in Tickets : RowOK(u, row[u])'
    BY <2>1 DEF IInv, RowOK
  <2>4. ASSUME NEW q \in Requests, txn'[q] # NoTxn PROVE TxnOK(q)'
    <3>1. CASE q = r
      <4>1. txn'[q].ticket = t /\ txn'[q].loaded = row[t]
        BY <3>1, <2>1 DEF IInv, TypeOK
      <4> QED
        BY <4>1, <2>1, <2>3 DEF TxnOK, Keeps, RowOK
    <3>2. CASE q # r
      <4>1. txn'[q] = txn[q]
        BY <3>2, <2>1 DEF IInv, TypeOK
      <4> QED
        BY <4>1, <2>1, <2>4 DEF IInv, TxnOK, RowOK, Keeps
    <3> QED
      BY <3>1, <3>2
  <2>5. EvidenceStep
    BY <2>1 DEF EvidenceStep
  <2> QED
    BY <2>1, <2>2, <2>3, <2>4, <2>5 DEF IInv
<1>3. ASSUME NEW r \in Requests, Rollback(r)
      PROVE  IInv' /\ EvidenceStep
  <2>1. /\ txn' = [txn EXCEPT ![r] = NoTxn]
        /\ created' = created /\ row' = row /\ worked' = worked
        /\ overtaken' = overtaken
    BY <1>3 DEF Rollback
  <2>2. TypeOK'
    BY <2>1 DEF IInv, TypeOK
  <2>3. \A q \in Requests : txn'[q] # NoTxn => txn'[q] = txn[q]
    BY <2>1 DEF IInv, TypeOK
  <2>4. \A q \in Requests : txn'[q] # NoTxn => TxnOK(q)'
    BY <2>1, <2>3 DEF IInv, TxnOK, RowOK, Keeps
  <2> QED
    BY <2>1, <2>2, <2>4 DEF IInv, RowOK, EvidenceStep
<1>4. ASSUME NEW r \in Requests, Handle(r)
      PROVE  IInv' /\ EvidenceStep
  BY <1>4, HandlerAsks
<1>5. CASE UNCHANGED vars
  BY <1>5 DEF vars, IInv, TypeOK, RowOK, TxnOK, Keeps, EvidenceStep
<1> QED
  BY <1>1, <1>2, <1>3, <1>4, <1>5 DEF Next

---------------------------------------------------------------------------

\* The inductive invariant holds of every reachable state.
THEOREM InvariantHolds == Spec => []IInv
<1>1. IInv /\ [Next]_vars => IInv'
  BY StepInvariant
<1> QED
  BY <1>1, InitInvariant, PTL DEF Spec

\* Whatever requests race, the table and the sessions only hold ticket rows.
THEOREM TypeCorrect == Spec => []TypeOK
<1>1. IInv => TypeOK
  BY DEF IInv
<1> QED
  BY <1>1, InvariantHolds, PTL

\* No race leaves a closed ticket without closed_at and without a duplicate
\* mark (transition_status against mark_duplicate and the others).
THEOREM ClosedExplained == Spec => []ClosedIsExplained
<1>1. IInv => ClosedIsExplained
  BY DEF IInv, RowOK, ClosedIsExplained
<1> QED
  BY <1>1, InvariantHolds, PTL

\* No race leaves a ticket in work, or acknowledged, with its response clock
\* running (transition_status against add_comment and the others).
THEOREM ResponseClockStopped == Spec => []WorkStopsResponseClock
<1>1. IInv => WorkStopsResponseClock
  BY DEF IInv, RowOK, WorkStopsResponseClock
<1> QED
  BY <1>1, InvariantHolds, PTL

\* A resolved ticket has been worked, though the transition table was consulted
\* for a row that others have overwritten since.
THEOREM ResolvedTicketsWereWorked == Spec => []ResolvedWasWorked
<1>1. IInv => ResolvedWasWorked
  BY DEF IInv, RowOK, ResolvedWasWorked
<1> QED
  BY <1>1, InvariantHolds, PTL

\* A ticket whose status says reopened has a reopen count, though counts of
\* concurrent requests overwrite each other.
THEOREM ReopenedTicketsAreCounted == Spec => []ReopenedIsCounted
<1>1. IInv => ReopenedIsCounted
  BY DEF IInv, RowOK, ReopenedIsCounted
<1> QED
  BY <1>1, InvariantHolds, PTL

\* A commit from a row loaded arbitrarily long ago erases no response stamp, no
\* closing stamp and no duplicate mark.
THEOREM EvidenceSurvives == Spec => EvidenceKept
<1>1. IInv /\ [Next]_vars => [EvidenceStep]_vars
  BY StepInvariant
<1>2. EvidenceStep <=> \A t \in Tickets :
                          /\ row[t].responded => row'[t].responded
                          /\ row[t].closedAt => row'[t].closedAt
                          /\ row[t].isDuplicate => row'[t].isDuplicate
  BY DEF EvidenceStep
<1> QED
  BY <1>1, <1>2, InvariantHolds, PTL DEF Spec, EvidenceKept

---------------------------------------------------------------------------
(***************************************************************************)
(* resolved_at, and the contract.  A commit writes at most one status and  *)
(* one resolution stamp, both worked out from the row its request loaded;  *)
(* as long as nobody has written a status over one it never saw, that row  *)
(* has the stamp its status calls for, and so has the stored one.          *)
(***************************************************************************)

\* resolved_at of one row belongs to its status.
StampOK(x) ==
    /\ x.status = "resolved" => x.resolvedAt
    /\ x.resolvedAt => x.status \in {"resolved", "closed"}

StampInv ==
    /\ \A t \in Tickets \ overtaken : StampOK(row[t])
    /\ \A r \in Requests :
          txn[r] # NoTxn /\ txn[r].ticket \notin overtaken => StampOK(txn[r].loaded)

SInv == IInv /\ StampInv

\* What every handler asks for, of the two columns: a status the contract lets
\* it reach, with the stamp that goes with it.
Settles(loaded, w) ==
    /\ w.status \in Contract!Reach(loaded.status) \cup {loaded.status}
    /\ StampOK(loaded) =>
          /\ StampOK(w)
          /\ w.status = loaded.status => w.resolvedAt = loaded.resolvedAt

ContractStep == [Contract!Next]_(Contract!vars)

\* Ending a request without a new status is the client forgetting what it saw.
LEMMA ForgetStep ==
    ASSUME IInv, NEW r \in Requests, txn[r] # NoTxn,
           txn' = [txn EXCEPT ![r] = NoTxn], StatusShown' = StatusShown
    PROVE  ContractStep
<1>1. ViewShown[r] # NoTxn /\ ViewShown' = [ViewShown EXCEPT ![r] = NoTxn]
  <2>1. \A q \in Requests : txn'[q] = IF q = r THEN NoTxn ELSE txn[q]
    BY DEF IInv, TypeOK
  <2>2. ViewShown' = [q \in Requests |->
           IF txn'[q] = NoTxn THEN NoTxn
           ELSE [ticket |-> txn'[q].ticket, seen |-> txn'[q].loaded.status]]
    BY DEF ViewShown
  <2>3. [ticket |-> txn[r].ticket, seen |-> txn[r].loaded.status] # NoTxn
    BY SlotIsNoTxn DEF IInv, TypeOK, Txn, Row
  <2> QED
    BY <2>1, <2>2, <2>3 DEF ViewShown
<1>2. Contract!Forget(r)
  BY <1>1 DEF Contract!Forget
<1> QED
  BY <1>2 DEF ContractStep, Contract!Next

\* A commit that asks for a status in reach, whatever was committed meanwhile.
LEMMA CommitSettles ==
    ASSUME SInv, NEW r \in Requests, txn[r] # NoTxn, NEW w \in Row,
           Settles(txn[r].loaded, w), Commit(r, w)
    PROVE  StampInv' /\ ContractStep
<1>1. PICK t, loaded : t = txn[r].ticket /\ loaded = txn[r].loaded
  OBVIOUS
<1>2. PICK new : new = Merge(row[t], loaded, w)
  OBVIOUS
<1>3. /\ t \in Tickets /\ t \in created
      /\ row[t] \in Row /\ loaded \in Row
      /\ Settles(loaded, w)
  BY <1>1 DEF SInv, IInv, TypeOK, Txn, TxnOK
<1>4. /\ row' = [row EXCEPT ![t] = new]
      /\ txn' = [txn EXCEPT ![r] = NoTxn]
      /\ created' = created
      /\ overtaken' = IF Overtakes(row[t], loaded, w) THEN overtaken \cup {t}
                                                      ELSE overtaken
  BY <1>1, <1>2 DEF Commit
<1>5. /\ \A u \in Tickets : row'[u] = IF u = t THEN new ELSE row[u]
      /\ \A q \in Requests : txn'[q] = IF q = r THEN NoTxn ELSE txn[q]
  BY <1>3, <1>4 DEF SInv, IInv, TypeOK
<1>6. /\ new.status = IF w.status # loaded.status THEN w.status ELSE row[t].status
      /\ new.resolvedAt = IF w.resolvedAt # loaded.resolvedAt
                          THEN w.resolvedAt ELSE row[t].resolvedAt
  BY <1>2 DEF Merge, Column
<1>7. StampInv'
  <2>1. ASSUME t \notin overtaken' PROVE StampOK(new)
    <3>1. /\ StampOK(loaded) /\ StampOK(row[t])
          /\ ~Overtakes(row[t], loaded, w)
      BY <2>1, <1>1, <1>3, <1>4 DEF SInv, StampInv
    <3>2. StampOK(w) /\ (w.status = loaded.status => w.resolvedAt = loaded.resolvedAt)
      BY <3>1, <1>3 DEF Settles
    <3>3. CASE w.status = loaded.status
      BY <3>1, <3>2, <3>3, <1>6 DEF StampOK
    <3>4. CASE w.status # loaded.status
      <4>1. row[t].resolvedAt = loaded.resolvedAt
        BY <3>1, <3>4 DEF Overtakes
      <4> QED
        BY <4>1, <3>2, <3>4, <1>6 DEF StampOK
    <3> QED
      BY <3>3, <3>4
  <2>2. overtaken \subseteq overtaken'
    BY <1>4
  <2>3. \A u \in Tickets \ overtaken' : StampOK(row'[u])
    BY <2>1, <2>2, <1>5 DEF SInv, StampInv
  <2>4. \A q \in Requests :
           txn'[q] # NoTxn /\ txn'[q].ticket \notin overtaken' => StampOK(txn'[q].loaded)
    BY <2>2, <1>5 DEF SInv, StampInv
  <2> QED
    BY <2>3, <2>4 DEF StampInv, StampOK
<1>8. StatusShown' = [StatusShown EXCEPT ![t] = new.status]
  <2>1. StatusShown' = [u \in Tickets |-> IF u \in created THEN row'[u].status
                                                          ELSE NotRaised]
    BY <1>4 DEF StatusShown
  <2>2. \A u \in Tickets : row'[u].status = IF u = t THEN new.status ELSE row[u].status
    BY <1>5
  <2> QED
    BY <2>1, <2>2, <1>3 DEF StatusShown
<1>9. CASE w.status = loaded.status
  <2>1. StatusShown' = StatusShown
    BY <1>3, <1>6, <1>8, <1>9 DEF StatusShown
  <2> QED
    BY <2>1, <1>4, <1>7, ForgetStep DEF SInv
<1>10. CASE w.status # loaded.status
  <2>1. /\ ViewShown[r] = [ticket |-> t, seen |-> loaded.status]
        /\ ViewShown[r] # NoTxn
        /\ ViewShown' = [ViewShown EXCEPT ![r] = NoTxn]
    <3>1. ViewShown' = [q \in Requests |->
             IF txn'[q] = NoTxn THEN NoTxn
             ELSE [ticket |-> txn'[q].ticket, seen |-> txn'[q].loaded.status]]
      BY DEF ViewShown
    <3>2. [ticket |-> t, seen |-> loaded.status] # NoTxn
      BY <1>3, SlotIsNoTxn DEF Row
    <3> QED
      BY <3>1, <3>2, <1>1, <1>5 DEF ViewShown
  <2>2. /\ ViewShown[r].ticket = t
        /\ new.status \in Contract!Reach(ViewShown[r].seen)
    BY <2>1, <1>3, <1>6, <1>10 DEF Settles
  <2>3. Contract!Act(r)
    BY <2>1, <2>2, <1>8 DEF Contract!Act
  <2> QED
    BY <2>3, <1>7 DEF ContractStep, Contract!Next
<1> QED
  BY <1>9, <1>10

\* The status endpoint: the table has no way out of "resolved" that keeps the
\* stamp, and none into it but with the stamp.
LEMMA TransitionSettles ==
    ASSUME SInv, NEW r \in Requests, NEW s \in Statuses,
           NEW branchUser \in BOOLEAN, TransitionStatus(r, s, branchUser)
    PROVE  StampInv' /\ ContractStep
<1>1. PICK loaded : loaded = txn[r].loaded
  OBVIOUS
<1>2. PICK w : w = [loaded EXCEPT !.status     = s,
                                  !.resolvedAt = ResolvedStamp(loaded, s),
                                  !.closedAt   = ClosedStamp(loaded, s),
                                  !.responded  = ResponseStamp(loaded, s),
                                  !.reopens    = ReopenCount(loaded, s)]
  OBVIOUS
<1>3. txn[r] # NoTxn /\ Accepts(loaded.status, s) /\ Commit(r, w)
  BY <1>1, <1>2 DEF TransitionStatus
<1>4. loaded \in Row
  BY <1>1, <1>3 DEF SInv, IInv, TypeOK, Txn
<1>5. /\ loaded.status \in Statuses /\ loaded.reopens \in Nat
      /\ loaded.responded \in BOOLEAN /\ loaded.closedAt \in BOOLEAN
      /\ loaded.resolvedAt \in BOOLEAN
      /\ ResolvedStamp(loaded, s) \in BOOLEAN
      /\ ClosedStamp(loaded, s) \in BOOLEAN
      /\ ResponseStamp(loaded, s) \in BOOLEAN
      /\ ReopenCount(loaded, s) \in Nat
  BY <1>4 DEF Row, ResolvedStamp, ClosedStamp, ResponseStamp, ReopenCount
<1>6. w \in Row /\ w.status = s /\ w.resolvedAt = ResolvedStamp(loaded, s)
  BY <1>2, <1>4, <1>5 DEF Row
<1>7. w.status \in Contract!Reach(loaded.status) \cup {loaded.status}
  BY <1>3, <1>6 DEF Accepts, Contract!Reach, Contract!ValidTransitions, ValidTransitions
<1>8. ASSUME StampOK(loaded)
      PROVE  StampOK(w) /\ (w.status = loaded.status => w.resolvedAt = loaded.resolvedAt)
  <2>1. loaded.resolvedAt => s \in {"resolved", "closed", "reopened"}
    BY <1>3, <1>5, <1>8 DEF StampOK, Accepts, ValidTransitions
  <2>2. StampOK(w)
    BY <2>1, <1>5, <1>6 DEF StampOK, ResolvedStamp
  <2>3. w.status = loaded.status => w.resolvedAt = loaded.resolvedAt
    BY <1>5, <1>6, <1>8 DEF StampOK, ResolvedStamp
  <2> QED
    BY <2>2, <2>3
<1>9. Settles(loaded, w)
  BY <1>7, <1>8 DEF Settles
<1> QED
  BY <1>1, <1>3, <1>6, <1>9, CommitSettles

LEMMA HandlerSettles ==
    ASSUME SInv, NEW r \in Requests, Handle(r)
    PROVE  StampInv' /\ ContractStep
<1>1. PICK loaded : loaded = txn[r].loaded
  OBVIOUS
<1>2. txn[r] # NoTxn => loaded \in Row /\ txn[r].ticket \in Tickets
  BY <1>1 DEF SInv, IInv, TypeOK, Txn
<1>3. ASSUME NEW s \in Statuses, NEW branchUser \in BOOLEAN,
             TransitionStatus(r, s, branchUser)
      PROVE  StampInv' /\ ContractStep
  BY <1>3, TransitionSettles
<1>4. CASE AssignTicket(r)
  <2>1. PICK w : w = [loaded EXCEPT !.status = IF @ = "new" THEN "assigned" ELSE @]
    OBVIOUS
  <2>2. txn[r] # NoTxn /\ Commit(r, w)
    BY <1>1, <1>4, <2>1 DEF AssignTicket
  <2>3. w \in Row /\ Settles(loaded, w)
    BY <1>2, <2>1, <2>2
       DEF Settles, StampOK, Contract!Reach, Contract!ValidTransitions, Row, Statuses
  <2> QED
    BY <1>1, <2>2, <2>3, CommitSettles
<1>5. ASSUME NEW original \in Tickets \cup Originals, MarkDuplicate(r, original)
      PROVE  StampInv' /\ ContractStep
  <2>1. PICK w : w = [loaded EXCEPT !.isDuplicate = TRUE,
                                    !.duplicateOf = original,
                                    !.status = "closed"]
    OBVIOUS
  <2>2. txn[r] # NoTxn /\ Commit(r, w)
    BY <1>1, <1>5, <2>1 DEF MarkDuplicate
  <2>3. w \in Row /\ Settles(loaded, w)
    BY <1>2, <1>5, <2>1, <2>2 DEF Settles, StampOK, Contract!Reach, Row, Statuses
  <2> QED
    BY <1>1, <2>2, <2>3, CommitSettles
<1>6. ASSUME NEW branchUser \in BOOLEAN, AddComment(r, branchUser)
      PROVE  StampInv' /\ ContractStep
  <2>1. PICK w : w = [loaded EXCEPT !.responded = @ \/ ~branchUser]
    OBVIOUS
  <2>2. txn[r] # NoTxn /\ Commit(r, w)
    BY <1>1, <1>6, <2>1 DEF AddComment
  <2>3. w \in Row /\ Settles(loaded, w)
    BY <1>2, <2>1, <2>2 DEF Settles, StampOK, Row
  <2> QED
    BY <1>1, <2>2, <2>3, CommitSettles
<1>7. CASE EscalateTicket(r)
  <2>1. PICK w : w = [loaded EXCEPT !.status = "escalated"]
    OBVIOUS
  <2>2. txn[r] # NoTxn /\ loaded.status \in OpenStatuses /\ Commit(r, w)
    BY <1>1, <1>7, <2>1 DEF EscalateTicket
  <2>3. w \in Row /\ Settles(loaded, w)
    BY <1>2, <2>1, <2>2
       DEF Settles, StampOK, Contract!Reach, Contract!OpenStatuses, Contract!Statuses,
           OpenStatuses, Row, Statuses
  <2> QED
    BY <1>1, <2>2, <2>3, CommitSettles
<1> QED
  BY <1>3, <1>4, <1>5, <1>6, <1>7 DEF Handle

LEMMA InitSettled == Init => SInv /\ Contract!Init
<1> SUFFICES ASSUME Init PROVE SInv /\ Contract!Init
  OBVIOUS
<1>1. StampInv
  BY DEF Init, StampInv, StampOK, NewRow
<1>2. Contract!Init
  BY DEF Init, Contract!Init, StatusShown, ViewShown
<1> QED
  BY <1>1, <1>2, InitInvariant DEF SInv

LEMMA StepSettles ==
    ASSUME SInv, [Next]_vars
    PROVE  SInv' /\ ContractStep
<1>1. IInv'
  BY StepInvariant DEF SInv
<1>2. ASSUME NEW t \in Tickets, CreateTicket(t) PROVE StampInv' /\ ContractStep
  <2>1. PICK s \in {"new", "assigned"} :
           row' = [row EXCEPT ![t] = [NewRow EXCEPT !.status = s]]
    BY <1>2 DEF CreateTicket
  <2>2. /\ t \notin created /\ created' = created \cup {t}
        /\ txn' = txn /\ overtaken' = overtaken
    BY <1>2 DEF CreateTicket
  <2>3. \A u \in Tickets : row'[u] = IF u = t THEN [NewRow EXCEPT !.status = s] ELSE row[u]
    BY <2>1 DEF SInv, IInv, TypeOK
  <2>4. StampInv'
    BY <2>2, <2>3 DEF SInv, StampInv, StampOK, NewRow
  <2>5. /\ StatusShown[t] = NotRaised
        /\ StatusShown' = [StatusShown EXCEPT ![t] = s]
    <3>1. StatusShown' = [u \in Tickets |-> IF u \in created \cup {t} THEN row'[u].status
                                                                   ELSE NotRaised]
      BY <2>2 DEF StatusShown
    <3>2. \A u \in Tickets : row'[u].status = IF u = t THEN s ELSE row[u].status
      BY <2>3 DEF NewRow
    <3> QED
      BY <3>1, <3>2, <2>2 DEF StatusShown
  <2>6. ViewShown' = ViewShown
    BY <2>2 DEF ViewShown
  <2>7. Contract!Raise(t)
    BY <2>5, <2>6 DEF Contract!Raise
  <2> QED
    BY <2>4, <2>7 DEF ContractStep, Contract!Next
<1>3. ASSUME NEW r \in Requests, NEW t \in Tickets, LoadTicket(r, t)
      PROVE  StampInv' /\ ContractStep
  <2>1. /\ txn[r] = NoTxn /\ t \in created
        /\ txn' = [txn EXCEPT ![r] = [ticket |-> t, loaded |-> row[t]]]
        /\ created' = created /\ row' = row /\ overtaken' = overtaken
    BY <1>3 DEF LoadTicket
  <2>2. \A q \in Requests :
           txn'[q] = IF q = r THEN [ticket |-> t, loaded |-> row[t]] ELSE txn[q]
    BY <2>1 DEF SInv, IInv, TypeOK
  <2>3. StampInv'
    BY <2>1, <2>2 DEF SInv, StampInv, StampOK
  <2>4. /\ ViewShown[r] = NoTxn
        /\ StatusShown[t] = row[t].status /\ StatusShown[t] # NotRaised
        /\ StatusShown' = StatusShown
    BY <2>1, NotRaisedIsNoStatus DEF ViewShown, StatusShown, SInv, IInv, TypeOK, Row
  <2>5. ViewShown' = [ViewShown EXCEPT ![r] = [ticket |-> t, seen |-> StatusShown[t]]]
    <3>1. ViewShown' = [q \in Requests |->
             IF txn'[q] = NoTxn THEN NoTxn
             ELSE [ticket |-> txn'[q].ticket, seen |-> txn'[q].loaded.status]]
      BY DEF ViewShown
    <3>2. [ticket |-> t, loaded |-> row[t]] # NoTxn
      BY SlotIsNoTxn DEF Txn, SInv, IInv, TypeOK
    <3>3. /\ txn'[r] # NoTxn
          /\ txn'[r].ticket = t /\ txn'[r].loaded.status = StatusShown[t]
      BY <3>2, <2>2, <2>4
    <3>4. \A q \in Requests : q # r => txn'[q] = txn[q]
      BY <2>2
    <3> QED
      BY <3>1, <3>3, <3>4 DEF ViewShown
  <2>6. Contract!Look(r, t)
    BY <2>4, <2>5 DEF Contract!Look
  <2> QED
    BY <2>3, <2>6 DEF ContractStep, Contract!Next
<1>4. ASSUME NEW r \in Requests, Rollback(r) PROVE StampInv' /\ ContractStep
  <2>1. /\ txn[r] # NoTxn /\ txn' = [txn EXCEPT ![r] = NoTxn]
        /\ created' = created /\ row' = row /\ overtaken' = overtaken
    BY <1>4 DEF Rollback
  <2>2. \A q \in Requests : txn'[q] = IF q = r THEN NoTxn ELSE txn[q]
    BY <2>1 DEF SInv, IInv, TypeOK
  <2>3. StampInv'
    BY <2>1, <2>2 DEF SInv, StampInv, StampOK
  <2>4. StatusShown' = StatusShown
    BY <2>1 DEF StatusShown
  <2> QED
    BY <2>1, <2>3, <2>4, ForgetStep DEF SInv
<1>5. ASSUME NEW r \in Requests, Handle(r) PROVE StampInv' /\ ContractStep
  BY <1>5, HandlerSettles
<1>6. ASSUME UNCHANGED vars PROVE StampInv' /\ ContractStep
  BY <1>6 DEF vars, SInv, StampInv, StampOK, ContractStep, Contract!vars,
              StatusShown, ViewShown
<1>7. StampInv' /\ ContractStep
  BY <1>2, <1>3, <1>4, <1>5, <1>6 DEF Next
<1> QED
  BY <1>1, <1>7 DEF SInv

\* Whatever requests overlap, resolved_at is set exactly by the resolution that
\* is in force, on every ticket where no status was written over one its writer
\* never saw (transition_status and the handlers that close or escalate).
THEOREM ResolutionStampIsCurrent == Spec => []ResolutionStampCurrent
<1>1. SInv /\ [Next]_vars => SInv'
  BY StepSettles
<1>2. SInv => ResolutionStampCurrent
  BY DEF SInv, StampInv, StampOK, ResolutionStampCurrent
<1> QED
  BY <1>1, <1>2, InitSettled, PTL DEF Spec

\* Every commit of every handler, of any number of requests that overlap, writes
\* a status the table allows from the one it loaded, or none.
THEOREM RequestsImplementContract == Spec => ImplementsContract
<1>1. SInv /\ [Next]_vars => SInv' /\ [Contract!Next]_(Contract!vars)
  BY StepSettles DEF ContractStep
<1> QED
  BY <1>1, InitSettled, PTL DEF Spec, ImplementsContract, Contract!Spec

=============================================================================
