-------------------------- MODULE SlaClock_proofs --------------------------
(***************************************************************************)
(* For any number of tickets and of requests in flight, and a clock that   *)
(* runs arbitrarily long: a deadline never gains more time than has        *)
(* passed, and while no two requests have worked on the ticket at once it   *)
(* gains exactly the time the ticket was seen paused.                       *)
(***************************************************************************)
EXTENDS SlaClock, TLAPS

\* A timer, committed or loaded: the pause is not in the future, and at the
\* moment it started the deadline had gained no more than the time passed.
TimerOK(x) ==
    /\ x.due <= Resolution + now
    /\ x.paused # NotPaused =>
         /\ x.paused <= now
         /\ x.due <= Resolution + x.paused

IInv ==
    /\ TypeOK
    /\ \A t \in Tickets : TimerOK(clock[t])
    /\ \A r \in Requests : txn[r] # NoTxn => TimerOK(txn[r].loaded)

\* A committed timer agrees with the history.
Balanced(x, p) ==
    x.due + (IF x.paused = NotPaused THEN 0 ELSE now - x.paused) = Resolution + p

\* What holds on top of a ticket that no two requests have worked on at once:
\* the request that has it open is alone and has loaded the row that is there.
SerialInv ==
    /\ IInv
    /\ \A t \in Tickets \ overlapped : Balanced(clock[t], pausedFor[t])
    /\ \A r \in Requests, t \in Tickets \ overlapped :
          Holds(r, t) => txn[r].loaded = clock[t]
    /\ \A q, r \in Requests, t \in Tickets \ overlapped :
          Holds(q, t) /\ Holds(r, t) => q = r

---------------------------------------------------------------------------

LEMMA InitInvariant == Init => SerialInv
BY TimeBounds DEF Init, SerialInv, IInv, TypeOK, TimerOK, Timer, Stamped,
                  Balanced, Holds

\* The row a pause or a resume leaves: only the pause is stamped, or the pause
\* is cleared and the deadline is the one there was or the extended one.
LEMMA PauseLeaves ==
    ASSUME IInv, NEW r \in Requests, PauseSla(r)
    PROVE  LET t == txn[r].ticket
               new == [paused |-> now, due |-> clock[t].due]
           IN  /\ t \in Tickets
               /\ clock' = [clock EXCEPT ![t] = new]
               /\ new \in Timer /\ TimerOK(new)
               /\ txn[r].loaded.paused = NotPaused
<1>1. PICK t, loaded : t = txn[r].ticket /\ loaded = txn[r].loaded
  OBVIOUS
<1>2. t \in Tickets /\ loaded \in Timer /\ clock[t] \in Timer /\ TimerOK(clock[t])
      /\ now \in Nat
  BY <1>1 DEF PauseSla, IInv, TypeOK, Txn
<1>3. loaded.paused = NotPaused
  BY <1>1 DEF PauseSla
<1>4. PICK w : w = [loaded EXCEPT !.paused = now]
  OBVIOUS
<1>5. w.paused = now /\ w.due = loaded.due
  BY <1>2, <1>4 DEF Timer
<1>6. clock' = [clock EXCEPT ![t] =
                   [paused |-> Column(@.paused, loaded.paused, w.paused),
                    due    |-> Column(@.due, loaded.due, w.due)]]
  BY <1>1, <1>4 DEF PauseSla, Commit
<1>7. /\ Column(clock[t].paused, loaded.paused, w.paused) = now
      /\ Column(clock[t].due, loaded.due, w.due) = clock[t].due
  BY <1>2, <1>3, <1>5, NotPausedIsNoTime DEF Column
<1>8. clock' = [clock EXCEPT ![t] = [paused |-> now, due |-> clock[t].due]]
  BY <1>6, <1>7
<1>9. [paused |-> now, due |-> clock[t].due] \in Timer
  BY <1>2 DEF Timer
<1>10. TimerOK([paused |-> now, due |-> clock[t].due])
  BY <1>2, TimeBounds DEF TimerOK, Timer
<1> QED
  BY <1>1, <1>2, <1>3, <1>8, <1>9, <1>10

LEMMA ResumeLeaves ==
    ASSUME IInv, NEW r \in Requests, ResumeSla(r)
    PROVE  LET t == txn[r].ticket
               loaded == txn[r].loaded
           IN  /\ t \in Tickets
               /\ loaded.paused \in Nat /\ loaded.paused <= now
               /\ \E d \in Nat :
                     /\ clock' = [clock EXCEPT ![t] = [paused |-> NotPaused, due |-> d]]
                     /\ d = IF loaded.paused = now THEN clock[t].due
                            ELSE loaded.due + (now - loaded.paused)
                     /\ d <= Resolution + now
<1>1. PICK t, loaded : t = txn[r].ticket /\ loaded = txn[r].loaded
  OBVIOUS
<1>2. /\ t \in Tickets /\ loaded \in Timer /\ clock[t] \in Timer /\ now \in Nat
      /\ TimerOK(clock[t]) /\ TimerOK(loaded) /\ loaded.paused # NotPaused
  BY <1>1 DEF ResumeSla, IInv, TypeOK, Txn
<1>3. loaded.paused \in Nat /\ loaded.due \in Nat /\ clock[t].due \in Nat
  BY <1>2 DEF Timer
<1>4. loaded.paused <= now /\ loaded.due <= Resolution + loaded.paused
  BY <1>2 DEF TimerOK
<1>5. PICK e : e = loaded.due + (now - loaded.paused)
  OBVIOUS
<1>6. e \in Nat /\ e <= Resolution + now /\ (e = loaded.due <=> loaded.paused = now)
  <2>1. PICK p \in Nat, x \in Nat : p = loaded.paused /\ x = loaded.due
    BY <1>3
  <2>2. now \in Nat /\ p <= now /\ x <= Resolution + p /\ e = x + (now - p)
    BY <1>2, <1>4, <1>5, <2>1
  <2>3. e \in Nat /\ e <= Resolution + now
    BY <2>2, TimeBounds
  <2>4. e = x <=> p = now
    BY <2>2
  <2> QED
    BY <2>1, <2>3, <2>4
<1>7. PICK d : d = Column(clock[t].due, loaded.due, e)
  OBVIOUS
<1>8. clock' = [clock EXCEPT ![t] =
                   [paused |-> Column(@.paused, loaded.paused, NotPaused),
                    due    |-> Column(@.due, loaded.due, e)]]
  BY <1>1, <1>5 DEF ResumeSla, Commit
<1>9. clock' = [clock EXCEPT ![t] = [paused |-> NotPaused, due |-> d]]
  BY <1>2, <1>7, <1>8 DEF Column
<1>10. d = IF loaded.paused = now THEN clock[t].due ELSE e
  BY <1>6, <1>7 DEF Column
<1>11. d \in Nat /\ d <= Resolution + now
  BY <1>2, <1>3, <1>6, <1>10, TimeBounds DEF TimerOK
<1> QED
  BY <1>1, <1>2, <1>3, <1>4, <1>5, <1>9, <1>10, <1>11

\* Two rows of one fact: what a new committed timer needs for IInv.
LEMMA NewTimer ==
    ASSUME IInv, NEW r \in Requests, NEW t \in Tickets, NEW new \in Timer, TimerOK(new),
           clock' = [clock EXCEPT ![t] = new],
           txn' = [txn EXCEPT ![r] = NoTxn],
           UNCHANGED <<now, open, breached, tracking, history>>
    PROVE  IInv'
<1>1. TypeOK'
  BY DEF IInv, TypeOK, history
<1>2. \A u \in Tickets : TimerOK(clock[u])'
  BY DEF IInv, TypeOK, TimerOK
<1>3. \A q \in Requests : txn'[q] # NoTxn => txn'[q] = txn[q]
  BY DEF IInv, TypeOK
<1>4. \A q \in Requests : txn'[q] # NoTxn => TimerOK(txn[q].loaded)'
  BY <1>3 DEF IInv, TimerOK
<1> QED
  BY <1>1, <1>2, <1>4 DEF IInv

---------------------------------------------------------------------------

LEMMA StepInvariant == IInv /\ [Next]_vars => IInv'
<1> SUFFICES ASSUME IInv, [Next]_vars PROVE IInv'
  OBVIOUS
<1>1. CASE Tick
  <2>1. now' = now + 1 /\ now \in Nat /\ clock' = clock /\ txn' = txn
    BY <1>1 DEF Tick, IInv, TypeOK
  <2>2. TypeOK'
    BY <1>1, <2>1 DEF Tick, IInv, TypeOK
  <2>3. ASSUME NEW x \in Timer, TimerOK(x) PROVE TimerOK(x)'
    BY <2>1, <2>3, TimeBounds, NotPausedIsNoTime DEF TimerOK, Timer
  <2>4. \A t \in Tickets : TimerOK(clock[t])'
    <3> SUFFICES ASSUME NEW t \in Tickets PROVE TimerOK(clock[t])'
      OBVIOUS
    <3>1. PICK x : x = clock[t]
      OBVIOUS
    <3>2. TimerOK(x)'
      BY <2>3, <3>1 DEF IInv, TypeOK
    <3> QED
      BY <2>1, <3>1, <3>2 DEF TimerOK
  <2>5. \A r \in Requests : txn'[r] # NoTxn => TimerOK(txn[r].loaded)'
    <3> SUFFICES ASSUME NEW r \in Requests, txn'[r] # NoTxn
                 PROVE  TimerOK(txn[r].loaded)'
      OBVIOUS
    <3>1. PICK x : x = txn[r].loaded
      OBVIOUS
    <3>2. TimerOK(x)'
      BY <2>1, <2>3, <3>1 DEF IInv, TypeOK, Txn
    <3> QED
      BY <2>1, <3>1, <3>2 DEF TimerOK
  <2> QED
    BY <2>2, <2>4, <2>5 DEF IInv
<1>2. ASSUME NEW t \in Tickets, ChangeStatus(t) PROVE IInv'
  BY <1>2 DEF ChangeStatus, IInv, TypeOK, TimerOK, history
<1>3. ASSUME NEW r \in Requests, NEW t \in Tickets, LoadTicket(r, t) PROVE IInv'
  <2>1. /\ txn' = [txn EXCEPT ![r] = [ticket |-> t, loaded |-> clock[t]]]
        /\ UNCHANGED <<now, clock, open, breached, tracking, pausedFor>>
        /\ overlapped' \subseteq overlapped \cup {t}
    BY <1>3 DEF LoadTicket
  <2>2. TypeOK'
    BY <2>1 DEF IInv, TypeOK, Txn
  <2>3. ASSUME NEW q \in Requests, txn'[q] # NoTxn
        PROVE  TimerOK(txn[q].loaded)'
    <3>1. CASE q = r
      BY <3>1, <2>1 DEF IInv, TypeOK, TimerOK
    <3>2. CASE q # r
      BY <3>2, <2>1, <2>3 DEF IInv, TypeOK, TimerOK
    <3> QED
      BY <3>1, <3>2
  <2> QED
    BY <2>1, <2>2, <2>3 DEF IInv, TimerOK
<1>4. ASSUME NEW r \in Requests, PauseSla(r) PROVE IInv'
  <2>1. txn' = [txn EXCEPT ![r] = NoTxn]
        /\ UNCHANGED <<now, open, breached, tracking, history>>
    BY <1>4 DEF PauseSla, Commit
  <2> QED
    BY <1>4, <2>1, PauseLeaves, NewTimer
<1>5. ASSUME NEW r \in Requests, ResumeSla(r) PROVE IInv'
  <2>1. txn' = [txn EXCEPT ![r] = NoTxn]
        /\ UNCHANGED <<now, open, breached, tracking, history>>
    BY <1>5 DEF ResumeSla, Commit
  <2>2. PICK d \in Nat :
           /\ clock' = [clock EXCEPT ![txn[r].ticket] = [paused |-> NotPaused, due |-> d]]
           /\ d <= Resolution + now
    BY <1>5, ResumeLeaves
  <2>3. [paused |-> NotPaused, due |-> d] \in Timer
        /\ TimerOK([paused |-> NotPaused, due |-> d])
    BY <2>2 DEF Timer, TimerOK
  <2> QED
    BY <1>5, <2>1, <2>2, <2>3, ResumeLeaves, NewTimer
<1>6. ASSUME NEW r \in Requests, Rollback(r) PROVE IInv'
  <2>1. txn' = [txn EXCEPT ![r] = NoTxn]
        /\ UNCHANGED <<now, clock, open, breached, tracking, pausedFor, overlapped>>
    BY <1>6 DEF Rollback, history
  <2>2. \A q \in Requests : txn'[q] # NoTxn => txn'[q] = txn[q]
    BY <2>1 DEF IInv, TypeOK
  <2> QED
    BY <2>1, <2>2 DEF IInv, TypeOK, TimerOK
<1>7. CASE CheckBreaches
  BY <1>7 DEF CheckBreaches, IInv, TypeOK, TimerOK, history
<1>8. CASE UNCHANGED vars
  BY <1>8 DEF vars, history, IInv, TypeOK, TimerOK
<1> QED
  BY <1>1, <1>2, <1>3, <1>4, <1>5, <1>6, <1>7, <1>8 DEF Next

---------------------------------------------------------------------------

\* The transactions that stay open after request r ends are the others, and on
\* a ticket nobody shared with r they see the row they loaded.
LEMMA EndOfTxn ==
    ASSUME SerialInv, NEW r \in Requests, txn[r] # NoTxn,
           txn' = [txn EXCEPT ![r] = NoTxn], overlapped' = overlapped,
           \A t \in Tickets : t # txn[r].ticket => clock'[t] = clock[t]
    PROVE  /\ \A q \in Requests, t \in Tickets \ overlapped' :
                  Holds(q, t)' => txn'[q].loaded = clock'[t]
           /\ \A p, q \in Requests, t \in Tickets \ overlapped' :
                  Holds(p, t)' /\ Holds(q, t)' => p = q
<1>1. ASSUME NEW q \in Requests, NEW t \in Tickets, Holds(q, t)'
      PROVE  q # r /\ Holds(q, t) /\ txn'[q] = txn[q]
  BY <1>1 DEF Holds, SerialInv, IInv, TypeOK
<1>2. ASSUME NEW q \in Requests, NEW t \in Tickets \ overlapped', Holds(q, t)'
      PROVE  txn'[q].loaded = clock'[t]
  <2>1. q # r /\ Holds(q, t) /\ txn'[q] = txn[q] /\ t \in Tickets \ overlapped
    BY <1>1, <1>2
  <2>2. t # txn[r].ticket
    BY <2>1 DEF SerialInv, Holds
  <2> QED
    BY <2>1, <2>2 DEF SerialInv
<1> QED
  BY <1>1, <1>2 DEF SerialInv

LEMMA SerialStep == SerialInv /\ [Next]_vars => SerialInv'
<1> SUFFICES ASSUME SerialInv, [Next]_vars PROVE SerialInv'
  OBVIOUS
<1>1. IInv'
  BY StepInvariant DEF SerialInv
<1>2. /\ \A t \in Tickets \ overlapped : Balanced(clock[t], pausedFor[t])
      /\ \A t \in Tickets : clock[t] \in Timer /\ TimerOK(clock[t])
                               /\ pausedFor[t] \in Nat
      /\ clock \in [Tickets -> Timer] /\ now \in Nat
  BY DEF SerialInv, IInv, TypeOK
<1>3. CASE Tick
  <2>1. /\ now' = now + 1 /\ clock' = clock /\ txn' = txn /\ overlapped' = overlapped
        /\ pausedFor' = [t \in Tickets |->
                             IF clock[t].paused = NotPaused THEN pausedFor[t]
                             ELSE pausedFor[t] + 1]
    BY <1>3 DEF Tick
  <2>2. ASSUME NEW t \in Tickets \ overlapped PROVE Balanced(clock[t], pausedFor[t])'
    <3>1. PICK p, x, f : p = clock[t].paused /\ x = clock[t].due
                        /\ f = pausedFor[t] /\ f \in Nat /\ now \in Nat
      BY <1>2
    <3>2. p # NotPaused => p \in Nat /\ p <= now
      BY <1>2, <3>1 DEF Timer, TimerOK
    <3>3. x \in Nat /\ x + (IF p = NotPaused THEN 0 ELSE now - p) = Resolution + f
      BY <1>2, <3>1 DEF Balanced, Timer
    <3>4. pausedFor'[t] = IF p = NotPaused THEN f ELSE f + 1
      BY <2>1, <3>1
    <3>5. x + (IF p = NotPaused THEN 0 ELSE now' - p) = Resolution + pausedFor'[t]
      <4>1. f \in Nat /\ now' = now + 1
        BY <2>1, <3>1
      <4>2. CASE p = NotPaused
        BY <4>2, <3>3, <3>4
      <4>3. CASE p # NotPaused
        BY <4>1, <4>3, <3>1, <3>2, <3>3, <3>4, TimeBounds
      <4> QED
        BY <4>2, <4>3
    <3> QED
      BY <2>1, <3>1, <3>5 DEF Balanced
  <2> QED
    BY <1>1, <2>1, <2>2 DEF SerialInv, Holds
<1>4. ASSUME NEW t \in Tickets, ChangeStatus(t) PROVE SerialInv'
  BY <1>1, <1>4 DEF ChangeStatus, history, SerialInv, Balanced, Holds
<1>5. ASSUME NEW r \in Requests, NEW t \in Tickets, LoadTicket(r, t) PROVE SerialInv'
  <2>1. /\ txn[r] = NoTxn
        /\ txn' = [txn EXCEPT ![r] = [ticket |-> t, loaded |-> clock[t]]]
        /\ overlapped' = overlapped \cup {u \in {t} : \E q \in Requests : Holds(q, u)}
        /\ UNCHANGED <<now, clock, pausedFor>>
    BY <1>5 DEF LoadTicket
  <2>2. txn'[r] = [ticket |-> t, loaded |-> clock[t]]
        /\ \A q \in Requests : q # r => txn'[q] = txn[q]
    BY <2>1 DEF SerialInv, IInv, TypeOK
  <2>3. \A q \in Requests, u \in Tickets \ overlapped' :
           Holds(q, u)' => txn'[q].loaded = clock'[u]
    BY <2>1, <2>2 DEF SerialInv, Holds
  <2>4. \A q \in Requests : ~Holds(q, t) \/ t \in overlapped'
    BY <2>1
  <2>5. \A p, q \in Requests, u \in Tickets \ overlapped' :
           Holds(p, u)' /\ Holds(q, u)' => p = q
    BY <2>1, <2>2, <2>4 DEF SerialInv, Holds
  <2> QED
    BY <1>1, <1>2, <2>1, <2>3, <2>5 DEF SerialInv, Balanced
<1>6. ASSUME NEW r \in Requests, Rollback(r) PROVE SerialInv'
  <2>1. /\ txn[r] # NoTxn /\ txn' = [txn EXCEPT ![r] = NoTxn]
        /\ UNCHANGED <<now, clock, pausedFor, overlapped>>
    BY <1>6 DEF Rollback, history
  <2> QED
    BY <1>1, <1>2, <2>1, EndOfTxn DEF SerialInv, Balanced
<1>7. ASSUME NEW r \in Requests, PauseSla(r) PROVE SerialInv'
  <2>1. /\ UNCHANGED <<now, pausedFor, overlapped>>
        /\ txn' = [txn EXCEPT ![r] = NoTxn] /\ txn[r] # NoTxn
    BY <1>7 DEF PauseSla, Commit, history
  <2>2. PICK t \in Tickets :
           /\ t = txn[r].ticket
           /\ clock' = [clock EXCEPT ![t] = [paused |-> now, due |-> clock[t].due]]
           /\ txn[r].loaded.paused = NotPaused
    BY <1>7, PauseLeaves DEF SerialInv
  <2>3. t \notin overlapped => clock[t].paused = NotPaused
    BY <2>1, <2>2 DEF SerialInv, Holds
  <2>4. t \notin overlapped => clock[t].due \in Nat /\ clock[t].due = Resolution + pausedFor[t]
    BY <1>2, <2>2, <2>3, TimeBounds DEF Balanced, Timer
  <2>5. ASSUME NEW u \in Tickets \ overlapped PROVE Balanced(clock[u], pausedFor[u])'
    <3>1. CASE u = t
      <4>1. clock'[u].paused = now /\ clock'[u].due = clock[t].due
        BY <1>2, <2>2, <3>1
      <4> QED
        BY <4>1, <3>1, <1>2, <2>1, <2>4, NotPausedIsNoTime DEF Balanced
    <3>2. CASE u # t
      BY <3>2, <1>2, <2>1, <2>2 DEF Balanced
    <3> QED
      BY <3>1, <3>2
  <2> QED
    BY <1>1, <1>2, <2>1, <2>2, <2>5, EndOfTxn DEF SerialInv
<1>8. ASSUME NEW r \in Requests, ResumeSla(r) PROVE SerialInv'
  <2>1. /\ UNCHANGED <<now, pausedFor, overlapped>>
        /\ txn' = [txn EXCEPT ![r] = NoTxn] /\ txn[r] # NoTxn
    BY <1>8 DEF ResumeSla, Commit, history
  <2>2. PICK t, loaded : t = txn[r].ticket /\ loaded = txn[r].loaded
    OBVIOUS
  <2>3. t \in Tickets /\ loaded.paused \in Nat /\ loaded.paused <= now
    BY <1>8, <2>2, ResumeLeaves DEF SerialInv
  <2>4. PICK d \in Nat :
           /\ clock' = [clock EXCEPT ![t] = [paused |-> NotPaused, due |-> d]]
           /\ d = IF loaded.paused = now THEN clock[t].due
                  ELSE loaded.due + (now - loaded.paused)
    BY <1>8, <2>2, ResumeLeaves DEF SerialInv
  <2>5. t \notin overlapped => d = Resolution + pausedFor[t]
    <3> SUFFICES ASSUME t \notin overlapped PROVE d = Resolution + pausedFor[t]
      OBVIOUS
    <3>1. loaded = clock[t]
      BY <2>1, <2>2, <2>3 DEF SerialInv, Holds
    <3>2. PICK p \in Nat, x \in Nat : p = clock[t].paused /\ x = clock[t].due
      BY <1>2, <2>2, <2>3, <3>1 DEF Timer
    <3>3. x + (now - p) = Resolution + pausedFor[t]
      BY <1>2, <2>3, <3>1, <3>2, NotPausedIsNoTime DEF Balanced
    <3>4. d = IF p = now THEN x ELSE x + (now - p)
      BY <2>4, <3>1, <3>2
    <3> QED
      BY <1>2, <3>2, <3>3, <3>4
  <2>6. ASSUME NEW u \in Tickets \ overlapped PROVE Balanced(clock[u], pausedFor[u])'
    <3>1. CASE u = t
      <4>1. clock'[u].paused = NotPaused /\ clock'[u].due = d
        BY <1>2, <2>3, <2>4, <3>1
      <4>2. pausedFor[t] \in Nat
        BY <1>2, <2>3
      <4> QED
        BY <4>1, <4>2, <3>1, <2>1, <2>4, <2>5, TimeBounds DEF Balanced
    <3>2. CASE u # t
      BY <3>2, <1>2, <2>1, <2>4 DEF Balanced
    <3> QED
      BY <3>1, <3>2
  <2> QED
    BY <1>1, <1>2, <2>1, <2>2, <2>4, <2>6, EndOfTxn DEF SerialInv
<1>9. CASE CheckBreaches \/ UNCHANGED vars
  BY <1>1, <1>9 DEF CheckBreaches, vars, history, SerialInv, Balanced, Holds
<1> QED
  BY <1>3, <1>4, <1>5, <1>6, <1>7, <1>8, <1>9 DEF Next

---------------------------------------------------------------------------

\* The timers keep their types: no pause, resume or retry makes a deadline that
\* is not a time.
THEOREM TypeCorrect == Spec => []TypeOK
<1>1. Init => IInv
  BY InitInvariant DEF SerialInv
<1>2. IInv => TypeOK
  BY DEF IInv
<1> QED
  BY <1>1, <1>2, StepInvariant, PTL DEF Spec

\* However many pause_sla and resume_sla requests overlap, the deadline is never
\* later than the original one plus the time that has passed.
THEOREM DeadlineBounded == Spec => []ExtensionBounded
<1>1. Init => IInv
  BY InitInvariant DEF SerialInv
<1>2. IInv => ExtensionBounded
  BY DEF IInv, TimerOK, ExtensionBounded
<1> QED
  BY <1>1, <1>2, StepInvariant, PTL DEF Spec

\* Until two pause_sla or resume_sla requests work on a ticket at once, its
\* deadline has moved by exactly the time the ticket was seen paused.
THEOREM DeadlineExact == Spec => []ExtensionIsPausedTime
<1>1. SerialInv => ExtensionIsPausedTime
  BY DEF SerialInv, ExtensionIsPausedTime, Balanced
<1> QED
  BY <1>1, InitInvariant, SerialStep, PTL DEF Spec

=============================================================================
