--------------------------- MODULE Creation_proofs ---------------------------
(***************************************************************************)
(* How tickets come to be.                                                 *)
(*                                                                         *)
(* Numbers, for any units, any number of creations at once and any number  *)
(* of tickets: a unit's numbers have no gap, a number taken under the row  *)
(* lock is free, and a number made by counting clashes only with creations *)
(* in flight.  The lock makes a locked number the successor of last_seq    *)
(* until its commit; the unique indexes make a committed ticket a new one, *)
(* so that the counts grow with every commit.                              *)
(*                                                                         *)
(* Routing: an agent's tickets and those on the way to the agent are no    *)
(* more than a colleague's tickets and the creations there may be.         *)
(*                                                                         *)
(* Mails, for any mailbox, any number of replicas and of failures: a       *)
(* message has at most one outcome, and a record that says processed tells *)
(* the truth.  What carries both is the record: a message without one has  *)
(* no outcome, a worker that is about to give it one has inserted the only *)
(* record of it, and the commit that makes the outcome makes the record.   *)
(***************************************************************************)
EXTENDS TicketCreation, EmailIntake, FiniteSetTheorems, TLAPS

Years == {Year(d) : d \in Days}

\* r is creating a ticket of unit u in year y; r holds the lock of its row.
OfUnit(r, u, y) ==
    InFlight(r) /\ txn[r].number.scheme = "unit"
        /\ txn[r].number.unit = u /\ txn[r].number.period = y

Holds(r, u, y) == OfUnit(r, u, y) /\ ~txn[r].first

DayMail(d) == {t \in tickets : t.number.scheme = "mail" /\ t.number.period = d}

\* The numbers of a unit and year.
UnitCounts(u, y) == {m.n : m \in {k \in Taken : k.scheme = "unit" /\ k.unit = u /\ k.period = y}}

NoGaps == \A u \in Units, y \in Years : UnitCounts(u, y) = 1..lastSeq[u][y]

Unique == \A s, t \in tickets : s.number = t.number => s = t

\* A ticket's count is within the tickets there are.
Counted ==
    \A t \in tickets :
        /\ t.number.scheme = "legacy" => t.number.n <= Cardinality(tickets)
        /\ t.number.scheme = "mail" => t.number.n <= Cardinality(DayMail(t.number.period))

\* Locks exclude each other; a locked number is the next of its row.
LocksOK ==
    \A r \in Requests, u \in Units, y \in Years :
        /\ OfUnit(r, u, y) /\ txn[r].first => txn[r].number.n = 1
        /\ Holds(r, u, y) =>
              /\ lastSeq[u][y] # 0
              /\ txn[r].number.n = lastSeq[u][y] + 1
              /\ \A q \in Requests : Holds(q, u, y) => q = r

\* What the unique indexes have let in is new, and stays so.
WrittenOK ==
    \A r \in Requests : Written(r) =>
        /\ txn[r].number \notin Taken
        /\ \A q \in Requests : Written(q) /\ txn[q].number = txn[r].number => q = r
        /\ \A u \in Units, y \in Years : OfUnit(r, u, y) /\ txn[r].first =>
              /\ lastSeq[u][y] = 0
              /\ \A q \in Requests : Written(q) /\ OfUnit(q, u, y) /\ txn[q].first => q = r

\* A number made by counting is at most one ahead of the count.
CountsOK ==
    \A r \in Requests : InFlight(r) =>
        /\ txn[r].number.scheme = "legacy" => txn[r].number.n <= Cardinality(tickets) + 1
        /\ txn[r].number.scheme = "mail" =>
              txn[r].number.n <= Cardinality(DayMail(txn[r].number.period)) + 1

IInv ==
    /\ TypeOK
    /\ IsFiniteSet(tickets)
    /\ Unique
    /\ NoGaps
    /\ Counted
    /\ LocksOK
    /\ WrittenOK
    /\ CountsOK

---------------------------------------------------------------------------
(* Numbers and counts.                                                     *)

LEMMA NumberFields ==
    ASSUME NEW m \in Number
    PROVE  /\ m.scheme \in {"unit", "legacy", "mail"} /\ m.n \in Nat /\ m.n # 0
           /\ m.scheme = "unit" => m.unit \in Units /\ m.period \in Years
           /\ m.scheme = "mail" => m.period \in Days
BY DEF Number, Count, Years

LEMMA DayMailFinite ==
    ASSUME IsFiniteSet(tickets), NEW d
    PROVE  IsFiniteSet(DayMail(d)) /\ Cardinality(DayMail(d)) \in Nat
              /\ Cardinality(tickets) \in Nat
<1>1. IsFiniteSet(DayMail(d))
  BY FS_Subset DEF DayMail
<1> QED
  BY <1>1, FS_CardinalityType

LEMMA Exchanged ==
    ASSUME NEW S, IsFiniteSet(S), NEW s \in S, NEW t, t \notin S \ {s}
    PROVE  IsFiniteSet((S \ {s}) \cup {t}) /\ Cardinality((S \ {s}) \cup {t}) = Cardinality(S)
<1>1. IsFiniteSet(S \ {s}) /\ Cardinality(S \ {s}) = Cardinality(S) - 1
  BY FS_RemoveElement
<1>2. Cardinality((S \ {s}) \cup {t}) = Cardinality(S \ {s}) + 1 /\ IsFiniteSet((S \ {s}) \cup {t})
  BY <1>1, FS_AddElement
<1>3. Cardinality(S) \in Nat
  BY FS_CardinalityType
<1> QED
  BY <1>1, <1>2, <1>3

LEMMA InitInvariant == Init => IInv
<1> SUFFICES ASSUME Init PROVE IInv
  OBVIOUS
<1>0. today \in Days
  BY BoundsAreNatural DEF Init, Days
<1>1. TypeOK /\ Unique /\ Counted
  BY <1>0 DEF Init, TypeOK, Unique, Counted
<1>4. IsFiniteSet(tickets)
  BY FS_EmptySet DEF Init
<1>2. NoGaps
  BY DEF Init, NoGaps, UnitCounts, Taken, Years
<1>3. LocksOK /\ WrittenOK /\ CountsOK
  BY DEF Init, LocksOK, WrittenOK, CountsOK, OfUnit, Holds, Written, InFlight
<1> QED
  BY <1>1, <1>2, <1>3, <1>4 DEF IInv

---------------------------------------------------------------------------
(* Taking a number.                                                        *)

LEMMA NumberedKeeps ==
    ASSUME IInv, NEW r \in Requests, NEW m \in Number, NEW first \in BOOLEAN,
           NEW b \in Branches \cup {NoBranch},
           Numbered(r, m, first, b),
           m.scheme = "legacy" => m.n <= Cardinality(tickets) + 1,
           m.scheme = "mail" => m.n <= Cardinality(DayMail(m.period)) + 1,
           m.scheme = "unit" /\ first => m.n = 1,
           m.scheme = "unit" /\ ~first =>
              /\ lastSeq[m.unit][m.period] # 0
              /\ m.n = lastSeq[m.unit][m.period] + 1
              /\ ~Locked(m.unit, m.period)
    PROVE  IInv'
<1>1. /\ ~InFlight(r)
      /\ UNCHANGED <<today, lastSeq, tickets, active, disturbed>>
      /\ \A q \in Requests : q # r => txn'[q] = txn[q]
      /\ txn'[r] = [step |-> "numbered", number |-> m, first |-> first, branch |-> b,
                    assignee |-> Nobody]
      /\ txn' = [txn EXCEPT ![r] = [step |-> "numbered", number |-> m, first |-> first,
                                    branch |-> b, assignee |-> Nobody]]
  BY DEF Numbered, IInv, TypeOK
<1>2. TypeOK'
  BY <1>1 DEF IInv, TypeOK, Txn
<1>3. IsFiniteSet(tickets)' /\ Unique' /\ NoGaps' /\ Counted'
  BY <1>1 DEF IInv, Unique, NoGaps, Counted, UnitCounts, Taken, DayMail
<1>4. ~Written(r)' /\ \A q \in Requests : q # r =>
        /\ InFlight(q)' = InFlight(q) /\ Written(q)' = Written(q)
        /\ \A u, y : OfUnit(q, u, y)' = OfUnit(q, u, y) /\ Holds(q, u, y)' = Holds(q, u, y)
  BY <1>1 DEF InFlight, Written, OfUnit, Holds
<1>5. \A u, y : /\ OfUnit(r, u, y)' => m.scheme = "unit" /\ m.unit = u /\ m.period = y
                /\ Holds(r, u, y)' => OfUnit(r, u, y)' /\ ~first
  BY <1>1 DEF OfUnit, Holds
<1>6. \A u, y : ~Locked(u, y) => \A q \in Requests : ~Holds(q, u, y)
  BY DEF Locked, Holds, OfUnit
<1>7. LocksOK'
  BY <1>1, <1>4, <1>5, <1>6 DEF IInv, LocksOK
<1>8. WrittenOK'
  BY <1>1, <1>4 DEF IInv, WrittenOK, Taken
<1>9. CountsOK'
  <2>1. \A d : DayMail(d)' = DayMail(d)
    BY <1>1 DEF DayMail
  <2>2. ASSUME NEW q \in Requests, InFlight(q)'
        PROVE  /\ txn'[q].number.scheme = "legacy" => txn'[q].number.n <= Cardinality(tickets) + 1
               /\ txn'[q].number.scheme = "mail" =>
                     txn'[q].number.n <= Cardinality(DayMail(txn'[q].number.period)) + 1
    <3>1. CASE q = r
      BY <3>1, <1>1
    <3>2. CASE q # r
      BY <3>2, <2>2, <1>1, <1>4 DEF IInv, CountsOK
    <3> QED
      BY <3>1, <3>2
  <2> QED
    BY <2>1, <2>2, <1>1 DEF CountsOK
<1> QED
  BY <1>2, <1>3, <1>7, <1>8, <1>9 DEF IInv

\* What the insert and the routing may do to a creation: its number stays.
LEMMA AdvanceKeeps ==
    ASSUME IInv, NEW r \in Requests, Insert(r) \/ Route(r)
    PROVE  IInv'
<1> DEFINE m == txn[r].number
<1>1. /\ InFlight(r) /\ txn[r] \in Txn
      /\ UNCHANGED <<today, lastSeq, tickets, active, disturbed>>
      /\ txn' \in [Requests -> Txn \cup {NoTxn}]
      /\ \A q \in Requests : q # r => txn'[q] = txn[q]
      /\ txn'[r].number = m /\ txn'[r].first = txn[r].first
  <2>1. txn[r] \in Txn /\ InFlight(r)
    BY DEF IInv, TypeOK, Insert, Route, InFlight
  <2>2. CASE Insert(r)
    BY <2>1, <2>2 DEF IInv, TypeOK, Insert, Txn
  <2>3. CASE Route(r)
    <3>1. PICK s \in LeastLoaded(Candidates(txn[r].branch)) \cup {Nobody} :
             txn' = [txn EXCEPT ![r].step = "routed", ![r].assignee = s]
      BY <2>3 DEF Route
    <3>2. s \in Staff \cup {Nobody}
      BY <3>1 DEF LeastLoaded, Candidates, Eligible, AtBranch
    <3> QED
      BY <2>1, <2>3, <3>1, <3>2 DEF IInv, TypeOK, Route, Txn
  <2> QED
    BY <2>1, <2>2, <2>3
<1>2. TypeOK'
  BY <1>1 DEF IInv, TypeOK
<1>3. IsFiniteSet(tickets)' /\ Unique' /\ NoGaps' /\ Counted'
  BY <1>1 DEF IInv, Unique, NoGaps, Counted, UnitCounts, Taken, DayMail
<1>4. \A q \in Requests : InFlight(q)' => InFlight(q) /\ txn'[q].number = txn[q].number
                                         /\ txn'[q].first = txn[q].first
  BY <1>1 DEF InFlight
<1>5. \A q \in Requests : \A u, y : OfUnit(q, u, y)' => OfUnit(q, u, y)
  BY <1>4 DEF OfUnit
<1>6. \A q \in Requests : \A u, y : Holds(q, u, y)' => Holds(q, u, y)
  BY <1>4, <1>5 DEF Holds, OfUnit
<1>7. LocksOK'
  BY <1>1, <1>4, <1>5, <1>6 DEF IInv, LocksOK, OfUnit
<1>8. WrittenOK'
  <2>1. CASE Insert(r)
    <3>1. NoClash(r)
      BY <2>1 DEF Insert
    <3>2. \A q \in Requests : Written(q)' => q = r \/ Written(q)
      BY <1>1 DEF Written, InFlight
    <3>3. \A q \in Requests : Written(q) => txn[q].number # m
      BY <3>1 DEF NoClash
    <3>4. \A u \in Units, y \in Years : OfUnit(r, u, y) /\ txn[r].first =>
             /\ lastSeq[u][y] = 0
             /\ \A q \in Requests : Written(q) /\ OfUnit(q, u, y) => ~txn[q].first
      BY <3>1 DEF NoClash, OfUnit
    <3>5. m \notin Taken
      BY <3>1 DEF NoClash
    <3>6. Taken' = Taken
      BY <1>1 DEF Taken
    <3>7. ASSUME NEW q \in Requests, Written(q)'
          PROVE  /\ txn'[q].number \notin Taken
                 /\ \A p \in Requests : Written(p)' /\ txn'[p].number = txn'[q].number => p = q
      BY <3>7, <3>2, <3>3, <3>5, <1>1 DEF IInv, WrittenOK
    <3>8. ASSUME NEW q \in Requests, Written(q)', NEW u \in Units, NEW y \in Years,
                 OfUnit(q, u, y)', txn'[q].first
          PROVE  /\ lastSeq[u][y] = 0
                 /\ \A p \in Requests : Written(p)' /\ OfUnit(p, u, y)' /\ txn'[p].first => p = q
      <4>1. OfUnit(q, u, y) /\ txn[q].first
        BY <3>8, <1>5, <1>1
      <4>2. \A p \in Requests : OfUnit(p, u, y)' /\ txn'[p].first => OfUnit(p, u, y) /\ txn[p].first
        BY <1>5, <1>1
      <4>3. CASE q = r
        BY <4>1, <4>2, <4>3, <3>2, <3>4
      <4>4. CASE q # r
        <5>1. Written(q)
          BY <4>4, <3>8, <3>2
        <5> QED
          BY <4>1, <4>2, <5>1, <3>2, <3>4 DEF IInv, WrittenOK
      <4> QED
        BY <4>3, <4>4
    <3> QED
      BY <3>6, <3>7, <3>8, <1>1 DEF WrittenOK
  <2>2. CASE Route(r)
    <3>1. \A q \in Requests : Written(q)' => Written(q)
      BY <2>2, <1>1 DEF Route, Written, InFlight
    <3>2. Taken' = Taken
      BY <1>1 DEF Taken
    <3>3. \A q \in Requests : txn'[q].number = txn[q].number /\ txn'[q].first = txn[q].first
      BY <1>1
    <3> QED
      BY <3>1, <3>2, <3>3, <1>1, <1>5 DEF IInv, WrittenOK
  <2> QED
    BY <2>1, <2>2
<1>9. CountsOK'
  <2>1. \A d : DayMail(d)' = DayMail(d)
    BY <1>1 DEF DayMail
  <2> QED
    BY <2>1, <1>1, <1>4 DEF IInv, CountsOK
<1> QED
  BY <1>2, <1>3, <1>7, <1>8, <1>9 DEF IInv

\* A creation that ends without a ticket leaves nothing.
LEMMA RollbackKeeps ==
    ASSUME IInv, NEW r \in Requests, Rollback(r)
    PROVE  IInv'
<1>1. /\ UNCHANGED <<today, lastSeq, tickets, active, disturbed>>
      /\ txn' = [txn EXCEPT ![r] = NoTxn]
  BY DEF Rollback
<1>2. \A q \in Requests : q # r => txn'[q] = txn[q]
  BY <1>1 DEF IInv, TypeOK
<1>3. ~InFlight(r)'
  BY <1>1 DEF IInv, TypeOK, InFlight
<1>4. TypeOK' /\ IsFiniteSet(tickets)' /\ Unique' /\ NoGaps' /\ Counted'
  BY <1>1 DEF IInv, TypeOK, Unique, NoGaps, Counted, UnitCounts, Taken, DayMail
<1>5. \A q \in Requests : (InFlight(q)' => q # r /\ InFlight(q)) /\ (Written(q)' => q # r /\ Written(q))
  BY <1>2, <1>3 DEF InFlight, Written
<1>6. \A q \in Requests : \A u, y : (OfUnit(q, u, y)' => q # r /\ OfUnit(q, u, y))
                                /\ (Holds(q, u, y)' => q # r /\ Holds(q, u, y))
  BY <1>2, <1>3 DEF OfUnit, Holds, InFlight
<1>7. LocksOK'
  BY <1>1, <1>2, <1>6 DEF IInv, LocksOK
<1>8. WrittenOK'
  BY <1>1, <1>2, <1>5, <1>6 DEF IInv, WrittenOK, Taken
<1>9. CountsOK'
  <2>1. \A d : DayMail(d)' = DayMail(d)
    BY <1>1 DEF DayMail
  <2> QED
    BY <2>1, <1>1, <1>2, <1>5 DEF IInv, CountsOK
<1> QED
  BY <1>4, <1>7, <1>8, <1>9 DEF IInv

---------------------------------------------------------------------------
(* The four ways to a number.                                              *)

LEMMA CreateNumberKeeps ==
    ASSUME IInv, NEW r \in Requests
    PROVE  /\ \A u \in Units, b \in Branches \cup {NoBranch} :
                 FirstOfUnit(r, u, b) \/ NextOfUnit(r, u, b) => IInv'
           /\ \A b \in Branches \cup {NoBranch} : NumberLegacy(r, b) => IInv'
           /\ NumberMail(r) => IInv'
<1>0. /\ today \in Days /\ Year(today) \in Years
      /\ \A u \in Units, y \in Years : lastSeq[u][y] \in Nat
  BY DEF IInv, TypeOK, Years
<1>1. ASSUME NEW u \in Units, NEW b \in Branches \cup {NoBranch}, FirstOfUnit(r, u, b)
      PROVE  IInv'
  <2> DEFINE m == [scheme |-> "unit", unit |-> u, period |-> Year(today), n |-> 1]
  <2>1. m \in Number /\ m.scheme = "unit" /\ m.n = 1
    BY <1>0 DEF Number, Count, Years
  <2>2. Numbered(r, m, TRUE, b)
    BY <1>1 DEF FirstOfUnit
  <2> HIDE DEF m
  <2> QED
    BY <2>1, <2>2, NumberedKeeps
<1>2. ASSUME NEW u \in Units, NEW b \in Branches \cup {NoBranch}, NextOfUnit(r, u, b)
      PROVE  IInv'
  <2> DEFINE k == lastSeq[u][Year(today)] + 1
             m == [scheme |-> "unit", unit |-> u, period |-> Year(today), n |-> k]
  <2>1. k \in Count
    BY <1>0 DEF Count
  <2>2. m \in Number /\ m.scheme = "unit"
    BY <1>0, <2>1 DEF Number, Years
  <2>3. /\ lastSeq[m.unit][m.period] # 0 /\ m.n = lastSeq[m.unit][m.period] + 1
        /\ ~Locked(m.unit, m.period)
    BY <1>2 DEF NextOfUnit
  <2>4. Numbered(r, m, FALSE, b)
    BY <1>2 DEF NextOfUnit
  <2> HIDE DEF m
  <2> QED
    BY <2>2, <2>3, <2>4, NumberedKeeps
<1>3. ASSUME NEW b \in Branches \cup {NoBranch}, NumberLegacy(r, b)
      PROVE  IInv'
  <2>1. LegacyCount + 1 \in Count
    BY FS_CardinalityType DEF IInv, LegacyCount, Count
  <2>2. /\ LegacyNumber \in Number /\ LegacyNumber.scheme = "legacy"
        /\ LegacyNumber.n = LegacyCount + 1
    BY <2>1 DEF Number, LegacyNumber
  <2>3. LegacyNumber.n <= Cardinality(tickets) + 1
    BY <2>1, <2>2, FS_CardinalityType DEF IInv, LegacyCount
  <2>4. Numbered(r, LegacyNumber, FALSE, b)
    BY <1>3 DEF NumberLegacy
  <2> QED
    BY <2>2, <2>3, <2>4, NumberedKeeps
<1>4. ASSUME NumberMail(r) PROVE IInv'
  <2> DEFINE m == MailNumber(today)
  <2>1. MailCount(today) \in Nat /\ MailCount(today) = Cardinality(DayMail(today))
    BY DayMailFinite DEF IInv, MailCount, DayMail
  <2>2. /\ m \in Number /\ m.scheme = "mail" /\ m.period = today
        /\ m.n = MailCount(today) + 1
    BY <1>0, <2>1 DEF Number, Count, MailNumber
  <2>3. Numbered(r, m, FALSE, NoBranch)
    BY <1>4 DEF NumberMail
  <2>4. m.n <= Cardinality(DayMail(m.period)) + 1
    BY <1>0, <2>1, <2>2
  <2> HIDE DEF m
  <2> QED
    BY <2>2, <2>3, <2>4, NumberedKeeps
<1> QED
  BY <1>1, <1>2, <1>3, <1>4

---------------------------------------------------------------------------
(* The commit.                                                             *)

LEMMA CommitKeeps ==
    ASSUME IInv, NEW r \in Requests, Commit(r)
    PROVE  IInv'
<1> DEFINE m == txn[r].number
           t == [number |-> m, assignee |-> txn[r].assignee, open |-> TRUE]
           mails(d) == {s \in tickets' : s.number.scheme = "mail" /\ s.number.period = d}
<1>1. /\ Written(r) /\ InFlight(r) /\ txn[r] \in Txn
      /\ tickets' = tickets \cup {t}
      /\ txn' = [txn EXCEPT ![r] = NoTxn]
      /\ UNCHANGED <<today, active, disturbed>>
  BY DEF Commit, Written, InFlight, IInv, TypeOK
<1>2. m \in Number /\ t \in Ticket /\ t.number = m
  BY <1>1 DEF Txn, Ticket
<1> HIDE DEF m
<1>3. m \notin Taken /\ t \notin tickets
  BY <1>1, <1>2 DEF IInv, WrittenOK, Taken, m
<1> HIDE DEF t
<1>4. Taken' = Taken \cup {m}
  BY <1>1, <1>2 DEF Taken
<1>5. /\ \A q \in Requests : q # r => txn'[q] = txn[q]
      /\ ~InFlight(r)'
  BY <1>1 DEF IInv, TypeOK, InFlight
<1>6. \A q \in Requests : (InFlight(q)' => q # r /\ InFlight(q)) /\ (Written(q)' => q # r /\ Written(q))
  BY <1>5 DEF InFlight, Written
<1>7. \A q \in Requests : \A u, y : (OfUnit(q, u, y)' => q # r /\ OfUnit(q, u, y))
                                /\ (Holds(q, u, y)' => q # r /\ Holds(q, u, y))
  BY <1>5 DEF OfUnit, Holds, InFlight
<1>8. /\ \A u, y : OfUnit(r, u, y) <=> m.scheme = "unit" /\ m.unit = u /\ m.period = y
      /\ txn[r].first \in BOOLEAN
  BY <1>1 DEF OfUnit, m, Txn
\* The number is the next of its row, and the row is r's to advance.
<1>9. ASSUME NEW u \in Units, NEW y \in Years, OfUnit(r, u, y)
      PROVE  /\ m.n = lastSeq[u][y] + 1
             /\ \A q \in Requests : q # r => ~Holds(q, u, y)
             /\ \A q \in Requests : q # r /\ Written(q) /\ OfUnit(q, u, y) => ~txn[q].first
  <2>1. CASE txn[r].first
    <3>1. lastSeq[u][y] = 0 /\ m.n = 1
      BY <1>1, <1>9, <2>1 DEF IInv, WrittenOK, LocksOK, m
    <3>2. \A q \in Requests : ~Holds(q, u, y)
      BY <3>1 DEF IInv, LocksOK
    <3>3. \A q \in Requests : Written(q) /\ OfUnit(q, u, y) /\ txn[q].first => q = r
      BY <1>1, <1>9, <2>1 DEF IInv, WrittenOK
    <3> QED
      BY <3>1, <3>2, <3>3
  <2>2. CASE ~txn[r].first
    <3>1. Holds(r, u, y)
      BY <1>9, <2>2 DEF Holds
    <3>2. /\ lastSeq[u][y] # 0 /\ m.n = lastSeq[u][y] + 1
          /\ \A q \in Requests : Holds(q, u, y) => q = r
      BY <3>1 DEF IInv, LocksOK, m
    <3>3. \A q \in Requests : Written(q) /\ OfUnit(q, u, y) => ~txn[q].first
      BY <3>2 DEF IInv, WrittenOK
    <3> QED
      BY <3>2, <3>3
  <2> QED
    BY <2>1, <2>2, <1>8
<1>10. \A u \in Units, y \in Years :
          lastSeq'[u][y] = IF OfUnit(r, u, y) THEN m.n ELSE lastSeq[u][y]
  <2>1. CASE m.scheme # "unit"
    BY <1>8, <2>1 DEF Commit, m
  <2>2. CASE m.scheme = "unit"
    <3>1. m.unit \in Units /\ m.period \in Years
      BY <1>2, <2>2, NumberFields
    <3>2. lastSeq' = [lastSeq EXCEPT ![m.unit] = [lastSeq[m.unit] EXCEPT ![m.period] = m.n]]
      BY <2>2 DEF Commit, m
    <3> HIDE DEF m
    <3>3. lastSeq \in [Units -> [Years -> Nat]]
      BY DEF IInv, TypeOK, Years
    <3> QED
      BY <1>8, <2>2, <3>1, <3>2, <3>3
  <2> QED
    BY <2>1, <2>2
<1>11. TypeOK'
  <2>1. m.scheme = "unit" => m.unit \in Units /\ m.period \in Years /\ m.n \in Nat
    BY <1>2, NumberFields
  <2>2. lastSeq' \in [Units -> [Years -> Nat]]
    BY <2>1 DEF Commit, IInv, TypeOK, m, Years
  <2>3. txn' \in [Requests -> Txn \cup {NoTxn}]
    BY <1>1 DEF IInv, TypeOK
  <2> QED
    BY <1>1, <1>2, <2>2, <2>3 DEF IInv, TypeOK, Years
<1>12. /\ IsFiniteSet(tickets)' /\ Cardinality(tickets)' = Cardinality(tickets) + 1
       /\ Cardinality(tickets) \in Nat
  BY <1>1, <1>3, FS_AddElement, FS_CardinalityType DEF IInv
<1>13. \A d : /\ Cardinality(DayMail(d)) \in Nat
              /\ Cardinality(mails(d)) = IF m.scheme = "mail" /\ m.period = d
                                            THEN Cardinality(DayMail(d)) + 1
                                            ELSE Cardinality(DayMail(d))
  <2> TAKE d
  <2>1. IsFiniteSet(DayMail(d)) /\ Cardinality(DayMail(d)) \in Nat
    BY DayMailFinite DEF IInv
  <2>2. t \notin DayMail(d)
    BY <1>3 DEF DayMail
  <2>3. CASE m.scheme = "mail" /\ m.period = d
    <3>1. mails(d) = DayMail(d) \cup {t}
      BY <1>1, <1>2, <2>3 DEF DayMail
    <3> QED
      BY <2>1, <2>2, <2>3, <3>1, FS_AddElement
  <2>4. CASE ~(m.scheme = "mail" /\ m.period = d)
    <3>1. mails(d) = DayMail(d)
      BY <1>1, <1>2, <2>4 DEF DayMail
    <3> QED
      BY <2>1, <2>4, <3>1
  <2> QED
    BY <2>3, <2>4
<1>14. Unique'
  <2>1. \A s \in tickets : s.number # m
    BY <1>3 DEF Taken
  <2> QED
    BY <1>1, <1>2, <2>1 DEF IInv, Unique
<1>15. NoGaps'
  <2> SUFFICES ASSUME NEW u \in Units, NEW y \in Years
               PROVE  UnitCounts(u, y)' = 1..lastSeq'[u][y]
    BY DEF NoGaps
  <2>0. UnitCounts(u, y) = 1..lastSeq[u][y] /\ lastSeq[u][y] \in Nat
    BY DEF IInv, NoGaps, TypeOK, Years
  <2>1. CASE OfUnit(r, u, y)
    <3>1. UnitCounts(u, y)' = UnitCounts(u, y) \cup {m.n}
      BY <1>4, <1>8, <2>1 DEF UnitCounts
    <3>2. lastSeq'[u][y] = lastSeq[u][y] + 1 /\ m.n = lastSeq[u][y] + 1
      BY <1>9, <1>10, <2>1
    <3> QED
      BY <2>0, <3>1, <3>2
  <2>2. CASE ~OfUnit(r, u, y)
    <3>1. UnitCounts(u, y)' = UnitCounts(u, y)
      BY <1>4, <1>8, <2>2 DEF UnitCounts
    <3> QED
      BY <2>0, <2>2, <3>1, <1>10
  <2> QED
    BY <2>1, <2>2
<1>16. Counted'
  <2>1. /\ m.scheme = "legacy" => m.n <= Cardinality(tickets) + 1
        /\ m.scheme = "mail" => m.n <= Cardinality(DayMail(m.period)) + 1
    BY <1>1 DEF IInv, CountsOK, m
  <2>2. ASSUME NEW s \in tickets
        PROVE  /\ s.number.scheme = "legacy" => s.number.n <= Cardinality(tickets)'
               /\ s.number.scheme = "mail" => s.number.n <= Cardinality(mails(s.number.period))
    <3>1. s.number.n \in Nat
      BY NumberFields DEF IInv, TypeOK, Ticket
    <3>2. /\ s.number.scheme = "legacy" => s.number.n <= Cardinality(tickets)
          /\ s.number.scheme = "mail" => s.number.n <= Cardinality(DayMail(s.number.period))
      BY DEF IInv, Counted
    <3> QED
      BY <1>12, <1>13, <3>1, <3>2
  <2>5. m.n \in Nat
    BY <1>2, NumberFields
  <2>3. /\ m.scheme = "legacy" => m.n <= Cardinality(tickets)'
        /\ m.scheme = "mail" => m.n <= Cardinality(mails(m.period))
    BY <2>1, <2>5, <1>12, <1>13
  <2>4. \A s \in tickets' : s \in tickets \/ s.number = m
    BY <1>1, <1>2
  <2>6. \A s \in tickets' : /\ s.number.scheme = "legacy" => s.number.n <= Cardinality(tickets')
                            /\ s.number.scheme = "mail" =>
                                  s.number.n <= Cardinality(mails(s.number.period))
    BY <2>2, <2>3, <2>4
  <2> QED
    BY <2>6 DEF Counted, DayMail
<1>17. LocksOK'
  <2> SUFFICES ASSUME NEW q \in Requests, NEW u \in Units, NEW y \in Years
               PROVE  /\ OfUnit(q, u, y)' /\ txn'[q].first => txn'[q].number.n = 1
                      /\ Holds(q, u, y)' =>
                            /\ lastSeq'[u][y] # 0
                            /\ txn'[q].number.n = lastSeq'[u][y] + 1
                            /\ \A p \in Requests : Holds(p, u, y)' => p = q
    BY DEF LocksOK
  <2>1. OfUnit(q, u, y)' /\ txn'[q].first => txn'[q].number.n = 1
    BY <1>5, <1>7 DEF IInv, LocksOK
  <2>2. ASSUME Holds(q, u, y)'
        PROVE  /\ lastSeq'[u][y] # 0
               /\ txn'[q].number.n = lastSeq'[u][y] + 1
               /\ \A p \in Requests : Holds(p, u, y)' => p = q
    <3>1. q # r /\ Holds(q, u, y) /\ txn'[q] = txn[q]
      BY <2>2, <1>5, <1>7
    <3>2. lastSeq'[u][y] = lastSeq[u][y]
      BY <3>1, <1>9, <1>10
    <3> QED
      BY <3>1, <3>2, <1>7 DEF IInv, LocksOK
  <2> QED
    BY <2>1, <2>2
<1>18. WrittenOK'
  <2> SUFFICES ASSUME NEW q \in Requests, Written(q)'
               PROVE  /\ txn'[q].number \notin Taken'
                      /\ \A p \in Requests : Written(p)' /\ txn'[p].number = txn'[q].number => p = q
                      /\ \A u \in Units, y \in Years : OfUnit(q, u, y)' /\ txn'[q].first =>
                            /\ lastSeq'[u][y] = 0
                            /\ \A p \in Requests :
                                  Written(p)' /\ OfUnit(p, u, y)' /\ txn'[p].first => p = q
    BY DEF WrittenOK
  <2>1. q # r /\ Written(q) /\ txn'[q] = txn[q]
    BY <1>5, <1>6
  <2>2. txn'[q].number \notin Taken'
    BY <1>1, <1>4, <2>1 DEF IInv, WrittenOK, m
  <2>3. \A p \in Requests : Written(p)' /\ txn'[p].number = txn'[q].number => p = q
    BY <1>5, <1>6, <2>1 DEF IInv, WrittenOK
  <2>4. ASSUME NEW u \in Units, NEW y \in Years, OfUnit(q, u, y)', txn'[q].first
        PROVE  /\ lastSeq'[u][y] = 0
               /\ \A p \in Requests : Written(p)' /\ OfUnit(p, u, y)' /\ txn'[p].first => p = q
    <3>1. OfUnit(q, u, y) /\ txn[q].first
      BY <2>1, <2>4, <1>7
    <3>2. ~OfUnit(r, u, y)
      BY <2>1, <3>1, <1>9
    <3>3. lastSeq'[u][y] = lastSeq[u][y]
      BY <3>2, <1>10
    <3>4. /\ lastSeq[u][y] = 0
          /\ \A p \in Requests : Written(p) /\ OfUnit(p, u, y) /\ txn[p].first => p = q
      BY <2>1, <3>1 DEF IInv, WrittenOK
    <3> QED
      BY <3>3, <3>4, <1>5, <1>6, <1>7
  <2> QED
    BY <2>2, <2>3, <2>4
<1>19. CountsOK'
  <2> SUFFICES ASSUME NEW q \in Requests, InFlight(q)'
               PROVE  /\ txn'[q].number.scheme = "legacy" =>
                            txn'[q].number.n <= Cardinality(tickets)' + 1
                      /\ txn'[q].number.scheme = "mail" =>
                            txn'[q].number.n <= Cardinality(mails(txn'[q].number.period)) + 1
    BY DEF CountsOK, DayMail
  <2>1. InFlight(q) /\ txn'[q] = txn[q] /\ txn[q] \in Txn
    BY <1>5, <1>6 DEF IInv, TypeOK, InFlight
  <2>2. txn[q].number.n \in Nat
    BY <2>1, NumberFields DEF Txn
  <2>3. /\ txn[q].number.scheme = "legacy" => txn[q].number.n <= Cardinality(tickets) + 1
        /\ txn[q].number.scheme = "mail" =>
              txn[q].number.n <= Cardinality(DayMail(txn[q].number.period)) + 1
    BY <2>1 DEF IInv, CountsOK
  <2> QED
    BY <2>1, <2>2, <2>3, <1>12, <1>13
<1> QED
  BY <1>11, <1>12, <1>14, <1>15, <1>16, <1>17, <1>18, <1>19 DEF IInv

---------------------------------------------------------------------------
(* Meanwhile.                                                              *)

LEMMA NextDayKeeps ==
    ASSUME IInv, NextDay \/ \E s \in Staff, b \in BOOLEAN : SetActive(s, b)
    PROVE  IInv'
<1>1. UNCHANGED <<lastSeq, tickets, txn>>
  BY DEF NextDay, SetActive
<1>2. TypeOK'
  <2>1. CASE NextDay
    <3>1. today' \in Days
      BY <2>1, BoundsAreNatural DEF NextDay, Days, IInv, TypeOK
    <3> QED
      BY <2>1, <3>1 DEF NextDay, IInv, TypeOK
  <2>2. CASE \E s \in Staff, b \in BOOLEAN : SetActive(s, b)
    BY <2>2 DEF SetActive, IInv, TypeOK
  <2> QED
    BY <2>1, <2>2
<1>3. IsFiniteSet(tickets)' /\ Unique' /\ NoGaps' /\ Counted'
  BY <1>1 DEF IInv, Unique, NoGaps, Counted, UnitCounts, Taken, DayMail
<1>4. LocksOK'
  BY <1>1 DEF IInv, LocksOK, Holds, OfUnit, InFlight
<1>5. WrittenOK'
  BY <1>1 DEF IInv, WrittenOK, Written, OfUnit, InFlight, Taken
<1>6. CountsOK'
  BY <1>1 DEF IInv, CountsOK, InFlight, DayMail
<1> QED
  BY <1>2, <1>3, <1>4, <1>5, <1>6 DEF IInv

\* A ticket is replaced by one of the same number: the counts stay.
LEMMA ReworkKeeps ==
    ASSUME IInv, NEW t \in tickets, NEW s \in Staff \cup {Nobody}, NEW b \in BOOLEAN,
           Rework(t, [t EXCEPT !.assignee = s, !.open = b])
    PROVE  IInv'
<1> DEFINE n == [t EXCEPT !.assignee = s, !.open = b]
           mails(d) == {k \in tickets' : k.number.scheme = "mail" /\ k.number.period = d}
<1>1. n \in Ticket /\ n.number = t.number
  BY DEF IInv, TypeOK, Ticket
<1>2. tickets' = (tickets \ {t}) \cup {n} /\ disturbed' = TRUE /\ UNCHANGED <<today, lastSeq, active, txn>>
  BY DEF Rework
<1> HIDE DEF n
<1>3. n \notin tickets \ {t}
  BY <1>1 DEF IInv, Unique
<1>4. IsFiniteSet(tickets') /\ Cardinality(tickets') = Cardinality(tickets)
  BY <1>2, <1>3, Exchanged DEF IInv
<1>5. \A d : Cardinality(mails(d)) = Cardinality(DayMail(d))
  <2> TAKE d
  <2>1. CASE t \in DayMail(d)
    <3>1. mails(d) = (DayMail(d) \ {t}) \cup {n}
      BY <1>1, <1>2, <2>1 DEF DayMail
    <3>2. n \notin DayMail(d) \ {t}
      BY <1>3 DEF DayMail
    <3>3. IsFiniteSet(DayMail(d))
      BY DayMailFinite DEF IInv
    <3> QED
      BY <2>1, <3>1, <3>2, <3>3, Exchanged
  <2>2. CASE t \notin DayMail(d)
    <3>1. mails(d) = DayMail(d)
      BY <1>1, <1>2, <2>2 DEF DayMail
    <3> QED
      BY <3>1
  <2> QED
    BY <2>1, <2>2
<1>6. Taken' = Taken
  BY <1>1, <1>2 DEF Taken
<1>7. TypeOK'
  BY <1>1, <1>2 DEF IInv, TypeOK
<1>8. Unique'
  <2>1. \A k \in tickets' : k = n \/ k \in tickets \ {t}
    BY <1>2
  <2>2. \A k \in tickets \ {t} : k.number # n.number
    BY <1>1 DEF IInv, Unique
  <2> QED
    BY <2>1, <2>2 DEF IInv, Unique
<1>9. NoGaps'
  BY <1>2, <1>6 DEF IInv, NoGaps, UnitCounts
<1>10. Counted'
  <2>1. \A k \in tickets' : \E o \in tickets : o.number = k.number
    BY <1>1, <1>2
  <2>2. \A k \in tickets' : /\ k.number.scheme = "legacy" => k.number.n <= Cardinality(tickets')
                            /\ k.number.scheme = "mail" =>
                                  k.number.n <= Cardinality(mails(k.number.period))
    BY <2>1, <1>4, <1>5 DEF IInv, Counted
  <2> QED
    BY <2>2 DEF Counted, DayMail
<1>11. LocksOK'
  BY <1>2 DEF IInv, LocksOK, Holds, OfUnit, InFlight
<1>12. WrittenOK'
  BY <1>2, <1>6 DEF IInv, WrittenOK, Written, OfUnit, InFlight
<1>13. CountsOK'
  <2>1. \A q \in Requests : InFlight(q) =>
          /\ txn[q].number.scheme = "legacy" => txn[q].number.n <= Cardinality(tickets') + 1
          /\ txn[q].number.scheme = "mail" =>
                txn[q].number.n <= Cardinality(mails(txn[q].number.period)) + 1
    BY <1>4, <1>5 DEF IInv, CountsOK
  <2>2. \A q \in Requests : InFlight(q)' => InFlight(q)
    BY <1>2 DEF InFlight
  <2> QED
    BY <1>2, <2>1, <2>2 DEF CountsOK, DayMail
<1> QED
  BY <1>4, <1>7, <1>8, <1>9, <1>10, <1>11, <1>12, <1>13 DEF IInv

LEMMA StepInvariant == IInv /\ [Next]_vars => IInv'
<1> SUFFICES ASSUME IInv, [Next]_vars PROVE IInv'
  OBVIOUS
<1>1. ASSUME NEW r \in Requests, Create(r) PROVE IInv'
  BY <1>1, CreateNumberKeeps, AdvanceKeeps, CommitKeeps, RollbackKeeps DEF Create
<1>2. CASE Meanwhile
  BY <1>2, NextDayKeeps, ReworkKeeps DEF Meanwhile
<1>3. CASE UNCHANGED vars
  <2>1. UNCHANGED <<today, lastSeq, tickets, active, txn, disturbed>>
    BY <1>3 DEF vars
  <2>2. TypeOK' /\ IsFiniteSet(tickets)' /\ Unique' /\ NoGaps' /\ Counted'
    BY <2>1 DEF IInv, TypeOK, Unique, NoGaps, Counted, UnitCounts, Taken, DayMail
  <2>3. LocksOK'
    BY <2>1 DEF IInv, LocksOK, Holds, OfUnit, InFlight
  <2>4. WrittenOK'
    BY <2>1 DEF IInv, WrittenOK, Written, OfUnit, InFlight, Taken
  <2>5. CountsOK'
    BY <2>1 DEF IInv, CountsOK, InFlight, DayMail
  <2> QED
    BY <2>2, <2>3, <2>4, <2>5 DEF IInv
<1> QED
  BY <1>1, <1>2, <1>3 DEF Next

\* The invariant holds whatever the creations do (ticket_seq_service.py and
\* ticket_service.py).
THEOREM InvariantHolds == Spec => []IInv
<1>1. Init => IInv
  BY InitInvariant
<1>2. IInv /\ [Next]_vars => IInv'
  BY StepInvariant
<1> QED
  BY <1>1, <1>2, PTL DEF Spec

---------------------------------------------------------------------------

\* The rows and the creations in flight have the shape the module gives them.
THEOREM TypeCorrect == Spec => []TypeOK
<1>1. IInv => TypeOK
  BY DEF IInv
<1> QED
  BY <1>1, InvariantHolds, PTL

\* The tickets of a unit and year are numbered without a gap, however many
\* creations overlap, fail or lose the race for the first number
\* (ticket_seq_service.py).
THEOREM NumbersHaveNoGaps == Spec => []SequenceHasNoGaps
<1>1. IInv => SequenceHasNoGaps
  <2> SUFFICES ASSUME IInv, NEW u \in Units, NEW y \in DOMAIN lastSeq[u]
               PROVE  UnitCounts(u, y) = 1..lastSeq[u][y]
    BY DEF SequenceHasNoGaps, UnitCounts
  <2>1. y \in Years
    BY DEF IInv, TypeOK, Years
  <2> QED
    BY <2>1 DEF IInv, NoGaps
<1> QED
  BY <1>1, InvariantHolds, PTL

\* A number taken from a row under its lock is nobody else's until it is
\* committed (SELECT ... FOR UPDATE in ticket_seq_service.py).
THEOREM LockedIsFree == Spec => []LockedNumberIsFree
<1>1. IInv => LockedNumberIsFree
  <2> SUFFICES ASSUME IInv, NEW r \in Requests, InFlight(r),
                      txn[r].number.scheme = "unit", ~txn[r].first
               PROVE  /\ txn[r].number \notin Taken
                      /\ \A q \in Requests \ {r} : InFlight(q) => txn[q].number # txn[r].number
    BY DEF LockedNumberIsFree
  <2> DEFINE u == txn[r].number.unit
             y == txn[r].number.period
  <2>1. u \in Units /\ y \in Years
    BY NumberFields DEF IInv, TypeOK, Txn, InFlight
  <2>2. /\ lastSeq[u][y] \in Nat /\ lastSeq[u][y] # 0 /\ txn[r].number.n = lastSeq[u][y] + 1
        /\ \A q \in Requests : Holds(q, u, y) => q = r
    <3>1. Holds(r, u, y)
      BY DEF Holds, OfUnit
    <3>2. lastSeq[u][y] \in Nat
      BY <2>1 DEF IInv, TypeOK, Years
    <3> HIDE DEF u, y
    <3> QED
      BY <2>1, <3>1, <3>2 DEF IInv, LocksOK
  <2>3. txn[r].number \notin Taken
    <3>1. ~(txn[r].number.n \in 1..lastSeq[u][y])
      BY <2>2
    <3>2. UnitCounts(u, y) = 1..lastSeq[u][y]
      BY <2>1 DEF IInv, NoGaps
    <3> QED
      BY <3>1, <3>2 DEF UnitCounts
  <2>4. ASSUME NEW q \in Requests, q # r, InFlight(q), txn[q].number = txn[r].number
        PROVE  FALSE
    <3>1. OfUnit(q, u, y)
      BY <2>4 DEF OfUnit
    <3>2. CASE txn[q].first
      BY <2>1, <2>2, <2>4, <3>1, <3>2 DEF IInv, LocksOK
    <3>3. CASE ~txn[q].first
      BY <2>2, <2>4, <3>1, <3>3 DEF Holds
    <3> QED
      BY <3>2, <3>3
  <2> QED
    BY <2>3, <2>4
<1> QED
  BY <1>1, InvariantHolds, PTL

\* Whatever has been committed, the number a count leads to next is not taken:
\* who fails on a clash succeeds when trying again
\* (generate_ticket_number_legacy; TicketService.generate_ticket_number).
THEOREM NextIsFree == Spec => []NextNumberIsFree
<1>1. IInv => NextNumberIsFree
  <2> SUFFICES ASSUME IInv PROVE NextNumberIsFree
    OBVIOUS
  <2>1. \A d : MailCount(d) = Cardinality(DayMail(d)) /\ Cardinality(DayMail(d)) \in Nat
               /\ Cardinality(tickets) \in Nat
    BY DayMailFinite DEF IInv, MailCount, DayMail
  <2>2. \A t \in tickets : t.number.n \in Nat
    BY NumberFields DEF IInv, TypeOK, Ticket
  <2>3. LegacyNumber \notin Taken
    <3>1. LegacyNumber.scheme = "legacy" /\ LegacyNumber.n = Cardinality(tickets) + 1
      BY DEF LegacyNumber, LegacyCount
    <3>2. \A t \in tickets : t.number.scheme = "legacy" => t.number.n # Cardinality(tickets) + 1
      BY <2>1, <2>2 DEF IInv, Counted
    <3> QED
      BY <3>1, <3>2 DEF Taken
  <2>4. ASSUME NEW d \in Days PROVE MailNumber(d) \notin Taken
    <3>1. /\ MailNumber(d).scheme = "mail" /\ MailNumber(d).period = d
          /\ MailNumber(d).n = Cardinality(DayMail(d)) + 1
      BY <2>1 DEF MailNumber
    <3>2. \A t \in tickets : t.number.scheme = "mail" /\ t.number.period = d =>
                            t.number.n # Cardinality(DayMail(d)) + 1
      BY <2>1, <2>2 DEF IInv, Counted
    <3> QED
      BY <3>1, <3>2 DEF Taken
  <2> QED
    BY <2>3, <2>4 DEF NextNumberIsFree
<1> QED
  BY <1>1, InvariantHolds, PTL

---------------------------------------------------------------------------
(* Routing.                                                                *)

\* The creations that will load s when they commit.
OnTheWay(s) == {r \in Requests : InFlight(r) /\ txn[r].assignee = s}

OpenOf(s) == {t \in tickets : t.open /\ t.assignee = s}

Agents == {s \in Staff : Role[s] = "agent"}

\* Who is routed to has no more than a colleague has; what is on the way to
\* somebody is counted as if it were there.
RoutingInv ==
    ~disturbed =>
        /\ \A s \in Staff : active[s]
        /\ \A a, b \in Agents :
              Home[a] = Home[b] => Load(a) + Cardinality(OnTheWay(a)) <= Load(b) + Cardinality(Requests)

LEMMA LoadsAreFinite ==
    ASSUME IsFiniteSet(tickets), NEW s
    PROVE  /\ Load(s) = Cardinality(OpenOf(s)) /\ IsFiniteSet(OpenOf(s)) /\ Load(s) \in Nat
           /\ IsFiniteSet(OnTheWay(s)) /\ Cardinality(OnTheWay(s)) \in Nat
           /\ Cardinality(OnTheWay(s)) <= Cardinality(Requests) /\ Cardinality(Requests) \in Nat
<1>1. OpenOf(s) \subseteq tickets /\ OnTheWay(s) \subseteq Requests
  BY DEF OpenOf, OnTheWay
<1>2. Load(s) = Cardinality(OpenOf(s))
  BY DEF Load, OpenOf
<1> QED
  BY <1>1, <1>2, FiniteRequests, FS_Subset, FS_CardinalityType

\* Nothing is routed, or what was is given up.
LEMMA NoMoreOnTheWay ==
    ASSUME IInv, RoutingInv, UNCHANGED <<tickets, active, disturbed>>,
           \A s \in Staff : OnTheWay(s)' \subseteq OnTheWay(s)
    PROVE  RoutingInv'
<1> SUFFICES ASSUME ~disturbed, NEW a \in Agents, NEW b \in Agents, Home[a] = Home[b]
             PROVE  Load(a)' + Cardinality(OnTheWay(a)') <= Load(b)' + Cardinality(Requests)
  BY DEF RoutingInv, Agents
<1>1. /\ IsFiniteSet(OnTheWay(a)) /\ OnTheWay(a)' \subseteq OnTheWay(a)
      /\ Cardinality(OnTheWay(a)) \in Nat /\ Cardinality(Requests) \in Nat
      /\ Load(a) \in Nat /\ Load(b) \in Nat
  BY LoadsAreFinite DEF Agents, IInv
<1>2. Cardinality(OnTheWay(a)') <= Cardinality(OnTheWay(a)) /\ Cardinality(OnTheWay(a)') \in Nat
  BY <1>1, FS_Subset, FS_CardinalityType
<1>3. Load(a)' = Load(a) /\ Load(b)' = Load(b)
  BY DEF Load
<1>4. Load(a) + Cardinality(OnTheWay(a)) <= Load(b) + Cardinality(Requests)
  BY DEF RoutingInv
<1> QED
  BY <1>1, <1>2, <1>3, <1>4

\* A candidate who is an agent has the colleagues of the branch beside them.
LEMMA ColleaguesAreCandidates ==
    ASSUME \A s \in Staff : active[s], NEW c \in Branches \cup {NoBranch},
           NEW a \in Agents, a \in Candidates(c), NEW b \in Agents, Home[a] = Home[b]
    PROVE  b \in Candidates(c)
<1> DEFINE agents == Eligible({"agent"})
           all == Eligible({"agent", "supervisor"})
<1>1. a \in agents /\ b \in agents
  BY DEF Eligible, Agents
<1>2. Candidates(c) = AtBranch(agents, c) \/ Candidates(c) = agents
  BY <1>1 DEF Candidates
<1> HIDE DEF agents
<1> QED
  BY <1>1, <1>2 DEF AtBranch

LEMMA RouteKeeps ==
    ASSUME IInv, RoutingInv, NEW r \in Requests, Route(r)
    PROVE  RoutingInv'
<1>1. /\ UNCHANGED <<tickets, active, disturbed>> /\ InFlight(r) /\ txn[r] \in Txn
      /\ txn \in [Requests -> Txn \cup {NoTxn}]
  BY DEF Route, IInv, TypeOK, InFlight
<1>2. PICK s \in LeastLoaded(Candidates(txn[r].branch))
            \cup (IF Candidates(txn[r].branch) = {} THEN {Nobody} ELSE {}) :
          txn' = [txn EXCEPT ![r].step = "routed", ![r].assignee = s]
  BY DEF Route
<1>3. /\ txn'[r].assignee = s /\ txn[r].branch \in Branches \cup {NoBranch}
      /\ \A q \in Requests : q # r => txn'[q] = txn[q]
  BY <1>1, <1>2 DEF Txn
<1> SUFFICES ASSUME ~disturbed, NEW a \in Agents, NEW b \in Agents, Home[a] = Home[b]
             PROVE  Load(a)' + Cardinality(OnTheWay(a)') <= Load(b)' + Cardinality(Requests)
  BY <1>1 DEF RoutingInv, Agents
<1>4. Load(a)' = Load(a) /\ Load(b)' = Load(b) /\ IsFiniteSet(tickets')
  BY <1>1 DEF Load, IInv
<1>5. /\ Load(a) \in Nat /\ Load(b) \in Nat /\ Cardinality(Requests) \in Nat
      /\ IsFiniteSet(OnTheWay(a)) /\ Cardinality(OnTheWay(a)) \in Nat
  BY LoadsAreFinite DEF IInv
<1>6. /\ OnTheWay(a)' \subseteq Requests
      /\ Cardinality(OnTheWay(a)') <= Cardinality(Requests) /\ Cardinality(OnTheWay(a)') \in Nat
  <2>1. OnTheWay(a)' \subseteq Requests
    BY DEF OnTheWay
  <2> QED
    BY <2>1, FiniteRequests, FS_Subset, FS_CardinalityType
<1>7. CASE a = s
  <2>1. a # Nobody
    BY StaffHasRoles DEF Agents
  <2>2. a \in LeastLoaded(Candidates(txn[r].branch))
    BY <1>2, <1>7, <2>1
  <2>3. b \in Candidates(txn[r].branch)
    BY <1>3, <2>2, ColleaguesAreCandidates DEF RoutingInv, LeastLoaded
  <2>4. Load(a) <= Load(b)
    BY <2>2, <2>3 DEF LeastLoaded
  <2> QED
    BY <1>4, <1>5, <1>6, <2>4
<1>8. CASE a # s
  <2>1. OnTheWay(a)' \subseteq OnTheWay(a)
    BY <1>3, <1>8 DEF OnTheWay, InFlight
  <2>2. Cardinality(OnTheWay(a)') <= Cardinality(OnTheWay(a))
    BY <1>5, <2>1, FS_Subset
  <2>3. Load(a) + Cardinality(OnTheWay(a)) <= Load(b) + Cardinality(Requests)
    BY DEF RoutingInv
  <2> QED
    BY <1>4, <1>5, <1>6, <2>2, <2>3
<1> QED
  BY <1>7, <1>8

LEMMA CommitKeepsRouting ==
    ASSUME IInv, RoutingInv, NEW r \in Requests, Commit(r)
    PROVE  RoutingInv'
<1> DEFINE new == [number |-> txn[r].number, assignee |-> txn[r].assignee, open |-> TRUE]
<1>1. /\ tickets' = tickets \cup {new} /\ new.open /\ new.assignee = txn[r].assignee
      /\ UNCHANGED <<active, disturbed>> /\ InFlight(r)
      /\ txn' = [txn EXCEPT ![r] = NoTxn] /\ txn \in [Requests -> Txn \cup {NoTxn}]
  BY DEF Commit, Written, IInv, TypeOK
<1>2. IsFiniteSet(tickets) /\ IsFiniteSet(tickets')
  BY <1>1, FS_AddElement DEF IInv
<1> HIDE DEF new
<1> SUFFICES ASSUME ~disturbed, NEW a \in Agents, NEW b \in Agents, Home[a] = Home[b]
             PROVE  Load(a)' + Cardinality(OnTheWay(a)') <= Load(b)' + Cardinality(Requests)
  BY <1>1 DEF RoutingInv, Agents
<1>3. /\ Load(a) = Cardinality(OpenOf(a)) /\ Load(b) = Cardinality(OpenOf(b))
      /\ IsFiniteSet(OpenOf(a)) /\ IsFiniteSet(OpenOf(b)) /\ IsFiniteSet(OnTheWay(a))
      /\ Load(a) \in Nat /\ Load(b) \in Nat /\ Cardinality(Requests) \in Nat
      /\ Cardinality(OnTheWay(a)) \in Nat
  BY <1>2, LoadsAreFinite
<1>4. \A s : Load(s)' = Cardinality(OpenOf(s)') /\ IsFiniteSet(OpenOf(s)') /\ Load(s)' \in Nat
  <2> TAKE s
  <2>1. OpenOf(s)' \subseteq tickets' /\ Load(s)' = Cardinality(OpenOf(s)')
    BY DEF OpenOf, Load
  <2> QED
    BY <1>2, <2>1, FS_Subset, FS_CardinalityType
<1>5. Load(b) <= Load(b)'
  <2>1. OpenOf(b) \subseteq OpenOf(b)'
    BY <1>1 DEF OpenOf
  <2> QED
    BY <1>3, <1>4, <2>1, FS_Subset
<1>6. OnTheWay(a)' = OnTheWay(a) \ {r}
  BY <1>1 DEF OnTheWay, InFlight
<1>7. Load(a) + Cardinality(OnTheWay(a)) <= Load(b) + Cardinality(Requests)
  BY DEF RoutingInv
<1>8. CASE txn[r].assignee = a
  <2>1. OpenOf(a)' \subseteq OpenOf(a) \cup {new}
    BY <1>1 DEF OpenOf
  <2>2. /\ IsFiniteSet(OpenOf(a) \cup {new})
        /\ Cardinality(OpenOf(a) \cup {new}) <= Cardinality(OpenOf(a)) + 1
        /\ Cardinality(OpenOf(a) \cup {new}) \in Nat
    <3>1. /\ IsFiniteSet(OpenOf(a) \cup {new})
          /\ \/ Cardinality(OpenOf(a) \cup {new}) = Cardinality(OpenOf(a))
             \/ Cardinality(OpenOf(a) \cup {new}) = Cardinality(OpenOf(a)) + 1
      BY <1>3, FS_AddElement
    <3> QED
      BY <1>3, <3>1
  <2>3. Load(a)' <= Load(a) + 1
    <3>1. Cardinality(OpenOf(a)') <= Cardinality(OpenOf(a) \cup {new})
      BY <2>1, <2>2, FS_Subset
    <3> QED
      BY <1>3, <1>4, <2>2, <3>1
  <2>4. Cardinality(OnTheWay(a)') = Cardinality(OnTheWay(a)) - 1
    <3>1. r \in OnTheWay(a)
      BY <1>1, <1>8 DEF OnTheWay
    <3> QED
      BY <1>3, <1>6, <3>1, FS_RemoveElement
  <2> QED
    BY <1>3, <1>4, <1>5, <1>7, <2>3, <2>4
<1>9. CASE txn[r].assignee # a
  <2>1. OpenOf(a)' = OpenOf(a)
    BY <1>1, <1>9 DEF OpenOf
  <2>2. OnTheWay(a)' = OnTheWay(a)
    BY <1>6, <1>9 DEF OnTheWay
  <2> QED
    BY <1>3, <1>4, <1>5, <1>7, <2>1, <2>2
<1> QED
  BY <1>8, <1>9

LEMMA RoutingStep == IInv /\ RoutingInv /\ [Next]_vars => RoutingInv'
<1> SUFFICES ASSUME IInv, RoutingInv, [Next]_vars PROVE RoutingInv'
  OBVIOUS
<1>1. txn \in [Requests -> Txn \cup {NoTxn}]
  BY DEF IInv, TypeOK
<1>2. ASSUME NEW r \in Requests, NEW x, NEW first, NEW c, Numbered(r, x, first, c)
      PROVE  RoutingInv'
  <2>1. /\ UNCHANGED <<tickets, active, disturbed>> /\ txn'[r].assignee = Nobody
        /\ \A q \in Requests : q # r => txn'[q] = txn[q]
    BY <1>1, <1>2 DEF Numbered
  <2>2. \A s \in Staff : OnTheWay(s)' \subseteq OnTheWay(s)
    BY <2>1, StaffHasRoles DEF OnTheWay, InFlight
  <2> QED
    BY <2>1, <2>2, NoMoreOnTheWay
<1>3. ASSUME NEW r \in Requests, Insert(r) PROVE RoutingInv'
  <2>1. txn[r] \in Txn /\ txn' = [txn EXCEPT ![r].step = "inserted"]
    BY <1>1, <1>3 DEF Insert, InFlight
  <2>2. /\ UNCHANGED <<tickets, active, disturbed>> /\ txn'[r].assignee = txn[r].assignee
        /\ InFlight(r) /\ \A q \in Requests : q # r => txn'[q] = txn[q]
    BY <1>1, <1>3, <2>1 DEF Insert, Txn
  <2>3. \A s \in Staff : OnTheWay(s)' \subseteq OnTheWay(s)
    BY <2>2 DEF OnTheWay, InFlight
  <2> QED
    BY <2>2, <2>3, NoMoreOnTheWay
<1>4. ASSUME NEW r \in Requests, Rollback(r) PROVE RoutingInv'
  <2>1. UNCHANGED <<tickets, active, disturbed>> /\ \A s \in Staff : OnTheWay(s)' \subseteq OnTheWay(s)
    BY <1>1, <1>4 DEF Rollback, OnTheWay, InFlight
  <2> QED
    BY <2>1, NoMoreOnTheWay
<1>5. ASSUME NEW r \in Requests, Create(r) PROVE RoutingInv'
  <2>1. ASSUME NEW u \in Units, NEW c \in Branches \cup {NoBranch},
               FirstOfUnit(r, u, c) \/ NextOfUnit(r, u, c)
        PROVE  RoutingInv'
    BY <1>2, <2>1 DEF FirstOfUnit, NextOfUnit
  <2>2. ASSUME NumberMail(r) \/ \E c \in Branches \cup {NoBranch} : NumberLegacy(r, c)
        PROVE  RoutingInv'
    BY <1>2, <2>2 DEF NumberMail, NumberLegacy
  <2> QED
    BY <1>3, <1>4, <1>5, <2>1, <2>2, RouteKeeps, CommitKeepsRouting DEF Create
<1>6. CASE Meanwhile
  <2>1. CASE NextDay
    <3>1. UNCHANGED <<tickets, active, txn, disturbed>>
      BY <2>1 DEF NextDay
    <3>2. \A s \in Staff : OnTheWay(s)' \subseteq OnTheWay(s)
      BY <3>1 DEF OnTheWay, InFlight
    <3> QED
      BY <3>1, <3>2, NoMoreOnTheWay
  <2>2. CASE ~NextDay
    BY <1>6, <2>2 DEF Meanwhile, Rework, SetActive, RoutingInv
  <2> QED
    BY <2>1, <2>2
<1>7. CASE UNCHANGED vars
  <2>1. UNCHANGED <<tickets, active, txn, disturbed>>
    BY <1>7 DEF vars
  <2>2. \A s \in Staff : OnTheWay(s)' \subseteq OnTheWay(s)
    BY <2>1 DEF OnTheWay, InFlight
  <2> QED
    BY <2>1, <2>2, NoMoreOnTheWay
<1> QED
  BY <1>5, <1>6, <1>7 DEF Next

\* As long as only routing loads the agents, none is ahead of a colleague of
\* the branch by more than there can be creations in flight, although each counts
\* before the others have committed (routing_service.py, auto_route_ticket).
THEOREM RoutingStaysBalanced == Spec => []RoutingBalanced
<1>1. Init => RoutingInv
  <2> SUFFICES ASSUME Init PROVE RoutingInv
    OBVIOUS
  <2>1. tickets = {} /\ IsFiniteSet(tickets)
    BY FS_EmptySet DEF Init
  <2>2. \A s : OpenOf(s) = {} /\ OnTheWay(s) = {}
    BY DEF Init, OpenOf, OnTheWay, InFlight
  <2>3. \A s : Load(s) = 0 /\ Cardinality(OnTheWay(s)) = 0 /\ Cardinality(Requests) \in Nat
    BY <2>1, <2>2, LoadsAreFinite, FS_EmptySet
  <2>4. \A s \in Staff : active[s]
    BY DEF Init
  <2> QED
    BY <2>3, <2>4 DEF RoutingInv
<1>2. IInv /\ RoutingInv => RoutingBalanced
  <2> SUFFICES ASSUME IInv, RoutingInv, ~disturbed, NEW a \in Agents, NEW b \in Agents, Home[a] = Home[b]
               PROVE  Load(a) <= Load(b) + Cardinality(Requests)
    BY DEF RoutingBalanced, Agents
  <2>1. /\ Load(a) \in Nat /\ Load(b) \in Nat /\ Cardinality(Requests) \in Nat
        /\ Cardinality(OnTheWay(a)) \in Nat
    BY LoadsAreFinite DEF IInv
  <2>2. Load(a) + Cardinality(OnTheWay(a)) <= Load(b) + Cardinality(Requests)
    BY DEF RoutingInv
  <2> QED
    BY <2>1, <2>2
<1> QED
  BY <1>1, <1>2, InvariantHolds, RoutingStep, PTL DEF Spec

---------------------------------------------------------------------------
(* Mails.                                                                  *)

\* Worker w has inserted a record that is not committed.
Uncommitted(w) == run[w].pc \in {"routing", "committing"}

\* What a run knows of the message in hand and of the records it marked.
WorkerOK(w) ==
    LET m == run[w].mail IN
    /\ run[w].pc \in {"inserting", "routing", "committing", "finishing"} => m \in Messages
    /\ Uncommitted(w) => record[m] = "none"
    /\ run[w].pc = "finishing" =>
         /\ record[m] # "none"
         /\ run[w].found => made[m] = 0 /\ comments[m] = 1
         /\ ~run[w].found => made[m] = 1 /\ comments[m] = 0
    /\ \A x \in run[w].repeated : record[x] # "none"

\* No two workers hold an uncommitted record of one message.
Apart ==
    \A v, w \in Workers :
        v # w /\ Uncommitted(v) /\ Uncommitted(w) => run[v].mail # run[w].mail

\* What the tables say of one message.
MessageOK(m) ==
    /\ record[m] = "none" => made[m] = 0 /\ comments[m] = 0
    /\ made[m] + comments[m] <= 1
    /\ record[m] = "processed" =>
         /\ made[m] + comments[m] = 1
         /\ made[m] = 1 => m \in stamped

IntakeInv ==
    /\ IntakeTypeOK
    /\ \A m \in Messages : MessageOK(m)
    /\ \A w \in Workers : WorkerOK(w)
    /\ Apart

---------------------------------------------------------------------------

LEMMA IntakeInitInvariant == IntakeInit => IntakeInv
BY FailureBound DEF IntakeInit, IntakeInv, IntakeTypeOK, MessageOK, WorkerOK, Apart, Uncommitted,
                    Idle, Run, EmailStatuses

\* A step of worker w that gives outcomes and records only to messages without
\* a record, and none to a message another worker is holding, leaves the other
\* workers as they were.
LEMMA OthersKeep ==
    ASSUME IntakeInv, NEW w \in Workers,
           \A v \in Workers : v # w => run'[v] = run[v],
           \A x \in Messages : record[x] # "none" =>
               /\ record'[x] # "none"
               /\ made'[x] = made[x] /\ comments'[x] = comments[x],
           \A v \in Workers : v # w /\ Uncommitted(v) => record'[run[v].mail] = "none",
           \A v \in Workers : v # w /\ Uncommitted(w)' /\ Uncommitted(v) =>
               run'[w].mail # run[v].mail,
           WorkerOK(w)'
    PROVE  (\A v \in Workers : WorkerOK(v))' /\ Apart'
<1>1. ASSUME NEW v \in Workers, v # w PROVE WorkerOK(v)'
  <2>1. WorkerOK(v) /\ run'[v] = run[v] /\ run[v] \in Run
    BY <1>1 DEF IntakeInv, IntakeTypeOK
  <2>2. \A x \in run[v].repeated : x \in Messages
    BY <2>1 DEF Run
  <2> QED
    BY <1>1, <2>1, <2>2 DEF WorkerOK, Uncommitted
<1>2. Apart'
  BY DEF IntakeInv, Apart, Uncommitted
<1> QED
  BY <1>1, <1>2

\* What a commit of worker w leaves in the records.
LEMMA RecordedMeans ==
    ASSUME IntakeInv, NEW w \in Workers, NEW m, NEW s \in EmailStatuses,
           record' = Recorded(w, m, s)
    PROVE  /\ record' \in [Messages -> EmailStatuses \cup {"none"}]
           /\ m \in Messages => record'[m] = s
           /\ \A x \in Messages : record[x] # "none" => record'[x] # "none"
           /\ \A x \in Messages : x # m /\ record[x] = "none" => record'[x] = "none"
           /\ \A x \in Messages : x # m /\ record'[x] = "processed" => record[x] = "processed"
<1>1. WorkerOK(w) /\ record \in [Messages -> EmailStatuses \cup {"none"}]
  BY DEF IntakeInv, IntakeTypeOK
<1> QED
  BY <1>1 DEF Recorded, WorkerOK, EmailStatuses

\* A step of worker w that touches nothing but the mailbox and its own run.
LEMMA RunOnly ==
    ASSUME IntakeInv, NEW w \in Workers, NEW r \in Run, run' = [run EXCEPT ![w] = r],
           UNCHANGED stored, arrived' = arrived, unseen' \subseteq unseen,
           failures' \in Nat, WorkerOK(w)',
           r.pc \in {"routing", "committing"} =>
               \A v \in Workers : v # w /\ Uncommitted(v) => r.mail # run[v].mail
    PROVE  IntakeInv'
<1>1. IntakeTypeOK'
  BY DEF IntakeInv, IntakeTypeOK, stored
<1>2. run'[w] = r /\ \A v \in Workers : v # w => run'[v] = run[v]
  BY DEF IntakeInv, IntakeTypeOK
<1>3. \A v \in Workers : Uncommitted(v) => record'[run[v].mail] = "none"
  BY DEF IntakeInv, WorkerOK, stored
<1>4. (\A v \in Workers : WorkerOK(v))' /\ Apart'
  <2>1. \A v \in Workers : v # w /\ Uncommitted(w)' /\ Uncommitted(v) =>
            run'[w].mail # run[v].mail
    BY <1>2 DEF Uncommitted
  <2>2. \A x \in Messages : record[x] # "none" =>
            /\ record'[x] # "none"
            /\ made'[x] = made[x] /\ comments'[x] = comments[x]
    BY DEF stored
  <2> QED
    BY <1>2, <1>3, <2>1, <2>2, OthersKeep
<1>5. \A m \in Messages : MessageOK(m)'
  BY DEF IntakeInv, MessageOK, stored
<1> QED
  BY <1>1, <1>4, <1>5 DEF IntakeInv

\* A step of worker w that commits the record of message m at status s, with
\* the tables and the run it leaves.
LEMMA CommitStep ==
    ASSUME IntakeInv, NEW w \in Workers, NEW m \in Messages \cup {NoMessage},
           NEW s \in EmailStatuses, NEW r \in Run,
           record' = Recorded(w, m, s), run' = [run EXCEPT ![w] = r],
           UNCHANGED <<mailbox, failures>>,
           made' \in [Messages -> Nat], comments' \in [Messages -> Nat],
           stamped \subseteq stamped', stamped' \subseteq Messages,
           r.pc \notin {"routing", "committing"},
           \A v \in Workers : v # w /\ Uncommitted(v) => run[v].mail # m,
           \A x \in Messages : x # m \/ record[x] # "none" =>
               made'[x] = made[x] /\ comments'[x] = comments[x],
           m \in Messages => MessageOK(m)',
           WorkerOK(w)'
    PROVE  IntakeInv'
<1>1. /\ record' \in [Messages -> EmailStatuses \cup {"none"}]
      /\ m \in Messages => record'[m] = s
      /\ \A x \in Messages : record[x] # "none" => record'[x] # "none"
      /\ \A x \in Messages : x # m /\ record[x] = "none" => record'[x] = "none"
      /\ \A x \in Messages : x # m /\ record'[x] = "processed" => record[x] = "processed"
  BY RecordedMeans
<1>2. IntakeTypeOK'
  BY <1>1 DEF IntakeInv, IntakeTypeOK, mailbox
<1>3. run'[w] = r /\ \A v \in Workers : v # w => run'[v] = run[v]
  BY DEF IntakeInv, IntakeTypeOK
<1>4. ASSUME NEW v \in Workers, v # w, Uncommitted(v) PROVE record'[run[v].mail] = "none"
  <2>1. run[v].mail \in Messages /\ record[run[v].mail] = "none"
    BY <1>4 DEF IntakeInv, WorkerOK, Uncommitted
  <2> QED
    BY <1>1, <1>4, <2>1
<1>5. (\A v \in Workers : WorkerOK(v))' /\ Apart'
  <2>1. ~Uncommitted(w)'
    BY <1>3 DEF Uncommitted
  <2>2. \A x \in Messages : record[x] # "none" =>
            /\ record'[x] # "none"
            /\ made'[x] = made[x] /\ comments'[x] = comments[x]
    BY <1>1
  <2> QED
    BY <1>3, <1>4, <2>1, <2>2, OthersKeep
<1>6. ASSUME NEW x \in Messages, x # m PROVE MessageOK(x)'
  BY <1>1, <1>6 DEF IntakeInv, MessageOK
<1> QED
  BY <1>2, <1>5, <1>6 DEF IntakeInv

---------------------------------------------------------------------------

\* The rows, mailbox and runs keep the invariant whatever a worker does.
LEMMA PollStep == ASSUME IntakeInv, NEW w \in Workers, Poll(w) \/ DropMail(w) \/ AbandonPoll(w) PROVE IntakeInv'
<1>0. /\ run[w] \in Run /\ WorkerOK(w) /\ failures \in Nat
      /\ run \in [Workers -> Run] /\ unseen \subseteq arrived /\ arrived \subseteq Deliveries
      /\ record \in [Messages -> EmailStatuses \cup {"none"}]
      /\ made \in [Messages -> Nat] /\ comments \in [Messages -> Nat]
      /\ stamped \subseteq Messages
  BY DEF IntakeInv, IntakeTypeOK
<1>i. Idle \in Run
  BY DEF Idle, Run
<1>1. CASE StartPoll(w)
  <2>1. PICK r : r = [Idle EXCEPT !.pc = "fetching", !.listed = unseen]
    OBVIOUS
  <2>2. r = [pc |-> "fetching", listed |-> unseen, fetched |-> {}, mail |-> NoMessage,
             found |-> FALSE, repeated |-> {}]
    BY <2>1 DEF Idle
  <2>3. r \in Run
    BY <1>0, <2>2 DEF Run
  <2>4. run' = [run EXCEPT ![w] = r] /\ UNCHANGED <<mailbox, stored, failures>>
    BY <1>1, <2>1 DEF StartPoll
  <2>5. WorkerOK(w)'
    BY <1>0, <2>2, <2>4 DEF WorkerOK, Uncommitted
  <2> QED
    BY <1>0, <2>2, <2>3, <2>4, <2>5, RunOnly DEF mailbox
<1>2. CASE FetchMail(w)
  <2>1. PICK d \in run[w].listed :
           /\ run' = [run EXCEPT ![w].listed = @ \ {d}, ![w].fetched = @ \cup {d}]
           /\ unseen' = unseen \ {d}
    BY <1>2 DEF FetchMail
  <2>2. PICK r : r = [run[w] EXCEPT !.listed = @ \ {d}, !.fetched = @ \cup {d}]
    OBVIOUS
  <2>3. r \in Run /\ r.pc = "fetching" /\ r.repeated = run[w].repeated
    BY <1>0, <1>2, <2>1, <2>2 DEF Run, FetchMail
  <2>4. run' = [run EXCEPT ![w] = r]
    BY <1>0, <2>1, <2>2 DEF Run
  <2>5. UNCHANGED <<arrived, stored, failures>>
    BY <1>2 DEF FetchMail
  <2>6. WorkerOK(w)'
    BY <1>0, <2>3, <2>4, <2>5 DEF WorkerOK, Uncommitted, stored
  <2> QED
    BY <1>0, <2>1, <2>3, <2>4, <2>5, <2>6, RunOnly
<1>3. CASE EndFetch(w)
  <2>1. PICK r : r = [run[w] EXCEPT !.pc = "handling", !.listed = {}]
    OBVIOUS
  <2>2. r \in Run /\ r.pc = "handling" /\ r.repeated = run[w].repeated
    BY <1>0, <2>1 DEF Run
  <2>3. run' = [run EXCEPT ![w] = r]
    <3>1. run' = [run EXCEPT ![w].pc = "handling", ![w].listed = {}]
      BY <1>3 DEF EndFetch
    <3> QED
      BY <1>0, <2>1, <3>1 DEF Run
  <2>4. /\ UNCHANGED <<arrived, stored>> /\ unseen' \subseteq unseen
        /\ failures' \in Nat
    BY <1>0, <1>3 DEF EndFetch
  <2>5. WorkerOK(w)'
    BY <1>0, <2>2, <2>3, <2>4 DEF WorkerOK, Uncommitted, stored
  <2> QED
    BY <2>2, <2>3, <2>4, <2>5, RunOnly
<1>4. CASE TakeMail(w)
  <2>1. PICK d \in run[w].fetched :
          IF record[Content[d]] # "none"
          THEN run' = [run EXCEPT ![w].fetched = @ \ {d},
                                  ![w].repeated = @ \cup {Content[d]}]
          ELSE run' = [run EXCEPT ![w].fetched = @ \ {d}, ![w].mail = Content[d],
                                  ![w].pc = "inserting"]
    BY <1>4 DEF TakeMail
  <2>2. UNCHANGED <<mailbox, stored, failures>>
    BY <1>4 DEF TakeMail
  <2>3. Content[d] \in Messages
    BY <1>0, ContentIsMessage DEF Run
  <2>4. CASE record[Content[d]] # "none"
    <3>1. PICK r : r = [run[w] EXCEPT !.fetched = @ \ {d}, !.repeated = @ \cup {Content[d]}]
      OBVIOUS
    <3>2. /\ r \in Run /\ r.pc = "handling"
          /\ r.repeated = run[w].repeated \cup {Content[d]}
      BY <1>0, <1>4, <2>3, <3>1 DEF Run, TakeMail
    <3>3. run' = [run EXCEPT ![w] = r] /\ UNCHANGED <<mailbox, stored, failures>>
      BY <1>0, <2>1, <2>2, <2>4, <3>1 DEF Run
    <3>4. WorkerOK(w)'
      BY <1>0, <2>4, <3>2, <3>3 DEF WorkerOK, Uncommitted, stored
    <3> QED
      BY <1>0, <3>2, <3>3, <3>4, RunOnly DEF mailbox
  <2>5. CASE record[Content[d]] = "none"
    <3>1. PICK r : r = [run[w] EXCEPT !.fetched = @ \ {d}, !.mail = Content[d],
                                      !.pc = "inserting"]
      OBVIOUS
    <3>2. /\ r \in Run /\ r.pc = "inserting" /\ r.mail = Content[d]
          /\ r.repeated = run[w].repeated
      BY <1>0, <1>4, <2>3, <3>1 DEF Run, TakeMail
    <3>3. run' = [run EXCEPT ![w] = r] /\ UNCHANGED <<mailbox, stored, failures>>
      BY <1>0, <2>1, <2>2, <2>5, <3>1 DEF Run
    <3>4. WorkerOK(w)'
      BY <1>0, <2>3, <3>2, <3>3 DEF WorkerOK, Uncommitted, stored
    <3> QED
      BY <1>0, <3>2, <3>3, <3>4, RunOnly DEF mailbox
  <2> QED
    BY <2>4, <2>5
<1>5. ASSUME run[w].pc = "inserting", MayInsert(w, run[w].mail)
      PROVE  /\ run[w].mail \in Messages /\ record[run[w].mail] = "none"
             /\ \A v \in Workers : v # w /\ Uncommitted(v) => run[v].mail # run[w].mail
  BY <1>0, <1>5 DEF MayInsert, WorkerOK, Uncommitted
<1>6. CASE InsertRecord(w)
  <2>1. PICK m : m = run[w].mail
    OBVIOUS
  <2>2. /\ m \in Messages /\ record[m] = "none" /\ run[w].pc = "inserting"
        /\ \A v \in Workers : v # w /\ Uncommitted(v) => run[v].mail # m
    BY <1>5, <1>6, <2>1 DEF InsertRecord
  <2>3. CASE record' = Recorded(w, m, "spam") /\ NextMail(w)
    <3>1. PICK r : r = [run[w] EXCEPT !.pc = "handling", !.mail = NoMessage,
                                      !.found = FALSE, !.repeated = {}]
      OBVIOUS
    <3>2. r \in Run /\ r.pc = "handling" /\ r.repeated = {} /\ run' = [run EXCEPT ![w] = r]
      BY <1>0, <2>3, <3>1 DEF Run, NextMail
    <3>3. UNCHANGED <<mailbox, made, comments, stamped, failures>>
      BY <1>6 DEF InsertRecord
    <3>4. WorkerOK(w)'
      BY <1>0, <3>2 DEF WorkerOK, Uncommitted
    <3>5. "spam" \in EmailStatuses
      BY DEF EmailStatuses
    <3>6. record'[m] = "spam"
      BY <2>2, <2>3, <3>5, RecordedMeans
    <3>7. MessageOK(m)'
      BY <2>2, <3>3, <3>6 DEF IntakeInv, MessageOK
    <3> QED
      BY <1>0, <2>2, <2>3, <3>2, <3>3, <3>4, <3>5, <3>7, CommitStep
  <2>4. CASE record' = record /\ run' = [run EXCEPT ![w].pc = "routing"]
    <3>1. PICK r : r = [run[w] EXCEPT !.pc = "routing"]
      OBVIOUS
    <3>2. /\ r \in Run /\ r.pc = "routing" /\ r.mail = m
          /\ r.repeated = run[w].repeated /\ run' = [run EXCEPT ![w] = r]
      BY <1>0, <2>1, <2>4, <3>1 DEF Run
    <3>3. UNCHANGED <<mailbox, stored, failures>>
      BY <1>6, <2>4 DEF InsertRecord, stored
    <3>4. WorkerOK(w)'
      BY <1>0, <2>2, <3>2, <3>3 DEF WorkerOK, Uncommitted, stored
    <3> QED
      BY <1>0, <2>2, <3>2, <3>3, <3>4, RunOnly DEF mailbox
  <2> QED
    BY <1>6, <2>1, <2>3, <2>4 DEF InsertRecord
<1>7. CASE FindTicket(w)
  <2>1. PICK f \in BOOLEAN : run' = [run EXCEPT ![w].pc = "committing", ![w].found = f]
    BY <1>7 DEF FindTicket
  <2>2. PICK r : r = [run[w] EXCEPT !.pc = "committing", !.found = f]
    OBVIOUS
  <2>3. /\ r \in Run /\ r.pc = "committing" /\ r.mail = run[w].mail
        /\ r.repeated = run[w].repeated /\ run' = [run EXCEPT ![w] = r]
    BY <1>0, <2>1, <2>2 DEF Run
  <2>4. Uncommitted(w) /\ UNCHANGED <<mailbox, stored, failures>>
    BY <1>7 DEF FindTicket, Uncommitted
  <2>5. WorkerOK(w)'
    BY <1>0, <2>3, <2>4 DEF WorkerOK, Uncommitted, stored
  <2>6. \A v \in Workers : v # w /\ Uncommitted(v) => r.mail # run[v].mail
    BY <2>3, <2>4 DEF IntakeInv, Apart
  <2> QED
    BY <1>0, <2>3, <2>4, <2>5, <2>6, RunOnly DEF mailbox
<1>8. ASSUME run[w].pc = "committing"
      PROVE  /\ run[w].mail \in Messages /\ record[run[w].mail] = "none"
             /\ made[run[w].mail] = 0 /\ comments[run[w].mail] = 0
             /\ \A v \in Workers : v # w /\ Uncommitted(v) => run[v].mail # run[w].mail
  BY <1>0, <1>8 DEF WorkerOK, Uncommitted, Apart, IntakeInv, MessageOK
<1>9. CASE CommitRouting(w)
  <2>1. PICK m : m = run[w].mail
    OBVIOUS
  <2>2. /\ m \in Messages /\ record[m] = "none" /\ made[m] = 0 /\ comments[m] = 0
        /\ \A v \in Workers : v # w /\ Uncommitted(v) => run[v].mail # m
    BY <1>8, <1>9, <2>1 DEF CommitRouting
  <2>3. PICK r : r = [run[w] EXCEPT !.pc = "finishing", !.repeated = {}]
    OBVIOUS
  <2>4. /\ r \in Run /\ r.pc = "finishing" /\ r.mail = m /\ r.found = run[w].found
        /\ r.repeated = {} /\ run' = [run EXCEPT ![w] = r]
    BY <1>0, <1>9, <2>1, <2>3 DEF Run, CommitRouting
  <2>5. /\ record' = Recorded(w, m, "pending")
        /\ UNCHANGED <<mailbox, stamped, failures>>
        /\ IF run[w].found
           THEN comments' = [comments EXCEPT ![m] = @ + 1] /\ made' = made
           ELSE made' = [made EXCEPT ![m] = @ + 1] /\ comments' = comments
    BY <1>9, <2>1 DEF CommitRouting
  <2>6. "pending" \in EmailStatuses
    BY DEF EmailStatuses
  <2>7. record'[m] = "pending"
    BY <2>2, <2>5, <2>6, RecordedMeans
  <2>8. /\ run[w].found => made'[m] = 0 /\ comments'[m] = 1
        /\ ~run[w].found => made'[m] = 1 /\ comments'[m] = 0
        /\ made' \in [Messages -> Nat] /\ comments' \in [Messages -> Nat]
        /\ \A x \in Messages : x # m => made'[x] = made[x] /\ comments'[x] = comments[x]
    BY <1>0, <2>2, <2>5
  <2>9. WorkerOK(w)'
    BY <1>0, <2>2, <2>4, <2>7, <2>8 DEF WorkerOK, Uncommitted
  <2>10. MessageOK(m)'
    BY <2>7, <2>8 DEF MessageOK
  <2>11. \A x \in Messages : x # m \/ record[x] # "none" =>
            made'[x] = made[x] /\ comments'[x] = comments[x]
    BY <2>2, <2>8
  <2>12. stamped \subseteq stamped' /\ stamped' \subseteq Messages
    BY <1>0, <2>5
  <2>13. record' = Recorded(w, m, "pending") /\ UNCHANGED <<mailbox, failures>>
    BY <2>5
  <2>14. /\ r \in Run /\ r.pc \notin {"routing", "committing"}
         /\ run' = [run EXCEPT ![w] = r]
    BY <2>4
  <2>15. /\ m \in Messages /\ made' \in [Messages -> Nat] /\ comments' \in [Messages -> Nat]
         /\ \A v \in Workers : v # w /\ Uncommitted(v) => run[v].mail # m
    BY <2>2, <2>8
  <2> QED
    BY <2>6, <2>9, <2>10, <2>11, <2>12, <2>13, <2>14, <2>15, CommitStep, ZenonT(60)
<1>10. CASE RoutingFails(w)
  <2>1. PICK m : m = run[w].mail
    OBVIOUS
  <2>2. /\ m \in Messages /\ record[m] = "none"
        /\ \A v \in Workers : v # w /\ Uncommitted(v) => run[v].mail # m
    BY <1>8, <1>10, <2>1 DEF RoutingFails
  <2>3. PICK r : r = [run[w] EXCEPT !.pc = "handling", !.mail = NoMessage,
                                    !.found = FALSE, !.repeated = {}]
    OBVIOUS
  <2>4. r \in Run /\ r.pc = "handling" /\ r.repeated = {} /\ run' = [run EXCEPT ![w] = r]
    BY <1>0, <1>10, <2>3 DEF Run, RoutingFails, NextMail
  <2>5. record' = Recorded(w, m, "failed")
        /\ UNCHANGED <<mailbox, made, comments, stamped, failures>>
    BY <1>10, <2>1 DEF RoutingFails
  <2>6. "failed" \in EmailStatuses
    BY DEF EmailStatuses
  <2>7. record'[m] = "failed"
    BY <2>2, <2>5, <2>6, RecordedMeans
  <2>8. WorkerOK(w)'
    BY <1>0, <2>4 DEF WorkerOK, Uncommitted
  <2>9. MessageOK(m)'
    BY <2>2, <2>5, <2>7 DEF IntakeInv, MessageOK
  <2> QED
    BY <1>0, <2>2, <2>4, <2>5, <2>6, <2>8, <2>9, CommitStep
<1>11. CASE FinishMail(w)
  <2>1. PICK m : m = run[w].mail
    OBVIOUS
  <2>2. /\ m \in Messages /\ record[m] # "none"
        /\ run[w].found => made[m] = 0 /\ comments[m] = 1
        /\ ~run[w].found => made[m] = 1 /\ comments[m] = 0
    BY <1>0, <1>11, <2>1 DEF FinishMail, WorkerOK
  <2>3. PICK r : r = [run[w] EXCEPT !.pc = "handling", !.mail = NoMessage,
                                    !.found = FALSE, !.repeated = {}]
    OBVIOUS
  <2>4. r \in Run /\ r.pc = "handling" /\ r.repeated = {} /\ run' = [run EXCEPT ![w] = r]
    BY <1>0, <1>11, <2>3 DEF Run, FinishMail, NextMail
  <2>5. /\ record' = Recorded(w, m, "processed")
        /\ stamped' = IF run[w].found THEN stamped ELSE stamped \cup {m}
        /\ UNCHANGED <<mailbox, made, comments, failures>>
    BY <1>11, <2>1 DEF FinishMail
  <2>6. "processed" \in EmailStatuses
    BY DEF EmailStatuses
  <2>7. record'[m] = "processed"
    BY <2>2, <2>5, <2>6, RecordedMeans
  <2>8. WorkerOK(w)'
    BY <1>0, <2>4 DEF WorkerOK, Uncommitted
  <2>9. MessageOK(m)'
    BY <1>0, <2>2, <2>5, <2>7 DEF MessageOK
  <2>10. \A v \in Workers : v # w /\ Uncommitted(v) => run[v].mail # m
    BY <2>2 DEF IntakeInv, WorkerOK
  <2>11. stamped \subseteq stamped' /\ stamped' \subseteq Messages
    BY <1>0, <2>2, <2>5
  <2> QED
    BY <1>0, <2>2, <2>4, <2>5, <2>6, <2>8, <2>9, <2>10, <2>11, CommitStep
<1>12. CASE EndPoll(w)
  <2>1. /\ record' = Recorded(w, NoMessage, "none") /\ run' = [run EXCEPT ![w] = Idle]
        /\ UNCHANGED <<mailbox, made, comments, stamped, failures>>
    BY <1>12 DEF EndPoll
  <2>2. record' = Recorded(w, NoMessage, "pending")
    BY <2>1, NoMessageIsNone DEF Recorded
  <2>3. "pending" \in EmailStatuses
    BY DEF EmailStatuses
  <2>4. WorkerOK(w)'
    BY <1>0, <2>1 DEF WorkerOK, Uncommitted, Idle
  <2>5. Idle.pc = "idle"
    BY DEF Idle
  <2>6. \A v \in Workers : v # w /\ Uncommitted(v) => run[v].mail # NoMessage
    BY NoMessageIsNone DEF IntakeInv, WorkerOK, Uncommitted
  <2> QED
    BY <1>0, <1>i, <2>1, <2>2, <2>3, <2>4, <2>5, <2>6, NoMessageIsNone, CommitStep
<1>13. CASE RefuseRecord(w) \/ AbandonPoll(w)
  <2>1. run' = [run EXCEPT ![w] = Idle] /\ UNCHANGED <<mailbox, stored>> /\ failures' \in Nat
    BY <1>0, <1>13 DEF RefuseRecord, AbandonPoll
  <2>2. WorkerOK(w)'
    BY <1>0, <2>1 DEF WorkerOK, Uncommitted, Idle
  <2>3. Idle.pc = "idle"
    BY DEF Idle
  <2> QED
    BY <1>i, <2>1, <2>2, <2>3, RunOnly DEF mailbox
<1>14. CASE DropMail(w)
  <2>1. PICK d \in run[w].fetched : run' = [run EXCEPT ![w].fetched = @ \ {d}]
    BY <1>14 DEF DropMail
  <2>2. PICK r : r = [run[w] EXCEPT !.fetched = @ \ {d}]
    OBVIOUS
  <2>3. r \in Run /\ r.pc = "handling" /\ r.repeated = run[w].repeated
    BY <1>0, <1>14, <2>2 DEF Run, DropMail
  <2>4. run' = [run EXCEPT ![w] = r]
    BY <1>0, <2>1, <2>2 DEF Run
  <2>5. UNCHANGED <<mailbox, stored>> /\ failures' \in Nat
    BY <1>0, <1>14 DEF DropMail
  <2>6. WorkerOK(w)'
    BY <1>0, <2>3, <2>4, <2>5 DEF WorkerOK, Uncommitted, stored
  <2> QED
    BY <2>3, <2>4, <2>5, <2>6, RunOnly DEF mailbox
<1> QED
  BY <1>1, <1>2, <1>3, <1>4, <1>6, <1>7, <1>9, <1>10, <1>11, <1>12, <1>13, <1>14 DEF Poll

LEMMA IntakeStepInvariant == IntakeInv /\ [IntakeNext]_intakeVars => IntakeInv'
<1> SUFFICES ASSUME IntakeInv, [IntakeNext]_intakeVars PROVE IntakeInv'
  OBVIOUS
<1>1. ASSUME NEW d \in Deliveries, Deliver(d) PROVE IntakeInv'
  BY <1>1 DEF Deliver, stored, IntakeInv, IntakeTypeOK, MessageOK, WorkerOK, Apart, Uncommitted
<1>2. ASSUME NEW w \in Workers, Poll(w) \/ DropMail(w) \/ AbandonPoll(w) PROVE IntakeInv'
  BY <1>2, PollStep
<1>3. CASE UNCHANGED intakeVars
  BY <1>3 DEF intakeVars, mailbox, stored, IntakeInv, IntakeTypeOK, MessageOK, WorkerOK, Apart, Uncommitted
<1> QED
  BY <1>1, <1>2, <1>3 DEF IntakeNext

---------------------------------------------------------------------------

\* The mailbox, the rows and the runs of any number of workers keep their types.
THEOREM IntakeTypeCorrect == IntakeSpec => []IntakeTypeOK
<1>1. IntakeInv => IntakeTypeOK
  BY DEF IntakeInv
<1> QED
  BY <1>1, IntakeInitInvariant, IntakeStepInvariant, PTL DEF IntakeSpec

\* A message becomes one ticket or one comment at most, for any number of
\* replicas polling the mailbox, deliveries of the message and failing runs.
THEOREM HandledOnce == IntakeSpec => []OneOutcome
<1>1. IntakeInv => OneOutcome
  BY DEF IntakeInv, MessageOK, OneOutcome
<1> QED
  BY <1>1, IntakeInitInvariant, IntakeStepInvariant, PTL DEF IntakeSpec

\* A record marked as processed has its one outcome, and a ticket made from the
\* message carries its id.
THEOREM ProcessedTellsTheTruth == IntakeSpec => []ProcessedIsComplete
<1>1. IntakeInv => ProcessedIsComplete
  BY DEF IntakeInv, MessageOK, ProcessedIsComplete
<1> QED
  BY <1>1, IntakeInitInvariant, IntakeStepInvariant, PTL DEF IntakeSpec

=============================================================================
