----------------------------- MODULE Chat_proofs -----------------------------
(***************************************************************************)
(* For any sessions, any number of questions at once and any limit: turns  *)
(* are stored whole and in order, and what is on screen belongs to the     *)
(* session that the next question resumes.  And whoever calls, no window   *)
(* sees more calls than the limit.                                         *)
(***************************************************************************)
EXTENDS Chat, SequenceTheorems, WellFoundedInduction, TLAPS

ChatTypeOK ==
    /\ session \in [Sessions -> {"free", "pending", "active", "ended"}]
    /\ messages \subseteq Message
    /\ clock \in 0..MaxClock
    /\ req \in [Requests -> Request \cup {Idle}]
    /\ widget \in Widget

\* What is stored: pairs, the answer stamped after the question.
StoredOK ==
    \A m \in messages :
        /\ m.turn <= clock
        /\ session[m.session] \in {"active", "ended"}
        /\ m.role = "user" => m.at = m.turn
        /\ m.role = "assistant" => m.at > m.turn
        /\ \E n \in messages : n.turn = m.turn /\ n.role # m.role /\ n.session = m.session

Asks(r) == req[r] # Idle

\* What is under way: only a blocking call has a session that may still go,
\* and nobody else is in it.
AskedOK ==
    \A r \in Requests : Asks(r) =>
        /\ req[r].step # "open" => req[r].asked \in 1..clock
        /\ session[req[r].session] # "free"
        /\ session[req[r].session] = "pending" =>
              /\ req[r].step = "posted"
              /\ \A q \in Requests : Asks(q) /\ req[q].session = req[r].session => q = r
        /\ req[r].step = "stored" =>
              \E m \in messages : m.turn = req[r].asked /\ m.session = req[r].session

\* The call the widget listens to, if any, is the one it waits for.
ListensOK ==
    \A r \in Requests : Asks(r) /\ req[r].client =>
        /\ widget.phase = IF req[r].step = "posted" THEN "waiting" ELSE "streaming"
        /\ \A q \in Requests : Asks(q) /\ req[q].client => q = r
        /\ widget.sent # NoSession => req[r].session = widget.sent
        /\ req[r].step \notin {"open", "posted"} => widget.session = req[r].session

\* The screen shows one session.  While a call is under way it is the session
\* the call was sent for, unless nothing is shown.
ScreenOK ==
    /\ \A t \in widget.shown : \E m \in messages : m.turn = t /\ m.session = widget.session
    /\ widget.phase # "idle" =>
          /\ widget.sent = NoSession \/ widget.cleared => widget.shown = {}
          /\ widget.sent # NoSession /\ ~widget.cleared => widget.session = widget.sent
          /\ widget.phase \in {"sending", "streaming"} => ~widget.cleared

IInv == ChatTypeOK /\ StoredOK /\ AskedOK /\ ListensOK /\ ScreenOK

LEMMA InitInvariant == Init => IInv
<1> SUFFICES ASSUME Init PROVE IInv
  OBVIOUS
<1>1. ChatTypeOK
  BY ChatConstants DEF Init, ChatTypeOK, Widget
<1>2. StoredOK /\ AskedOK /\ ListensOK /\ ScreenOK
  BY DEF Init, StoredOK, AskedOK, ListensOK, ScreenOK, Asks
<1> QED
  BY <1>1, <1>2 DEF IInv

\* What the type says of the rows at hand.
LEMMA Typed ==
    ASSUME ChatTypeOK
    PROVE  /\ clock \in Nat /\ MaxClock \in Nat
           /\ \A r \in Requests : Asks(r) =>
                 /\ req[r] \in Request /\ req[r].session \in Sessions
                 /\ req[r].asked \in Nat /\ req[r].client \in BOOLEAN
           /\ \A m \in messages : m.session \in Sessions /\ m.turn \in Nat /\ m.at \in Nat
                                  /\ m.session # NoSession /\ m.role \in {"user", "assistant"}
BY ChatConstants DEF ChatTypeOK, Request, Message, Asks

---------------------------------------------------------------------------
(* The server.                                                             *)

\* A session is resolved: it is there, and if it is new nobody is in it.
LEMMA Resolved ==
    ASSUME IInv, NEW s \in Sessions, NEW created \in {"pending", "active"}, Resolves(s, created)
    PROVE  /\ session' \in [Sessions -> {"free", "pending", "active", "ended"}]
           /\ \A n \in Sessions : n # s => session'[n] = session[n]
           /\ session'[s] \in {created, "active"}
           /\ widget.sent # NoSession => s = widget.sent /\ session' = session /\ session'[s] = "active"
           /\ session[s] \in {"free", "active"}
           /\ session[s] = "free" =>
                 /\ \A r \in Requests : Asks(r) => req[r].session # s
                 /\ \A m \in messages : m.session # s
           /\ session[s] = "active" => session' = session
<1>1. /\ session \in [Sessions -> {"free", "pending", "active", "ended"}]
      /\ session[s] = "free" =>
                 /\ \A r \in Requests : Asks(r) => req[r].session # s
                 /\ \A m \in messages : m.session # s
  BY DEF IInv, ChatTypeOK, AskedOK, StoredOK
<1> QED
  BY <1>1 DEF Resolves

LEMMA BeginStreamKeeps ==
    ASSUME IInv, NEW r \in Requests, NEW s \in Sessions, BeginStream(r, s)
    PROVE  IInv'
<1>1. /\ widget.phase = "sending" /\ ~Asks(r)
      /\ UNCHANGED <<messages, clock>>
      /\ req' = [req EXCEPT ![r] = [session |-> s, client |-> TRUE, asked |-> 0, step |-> "open"]]
      /\ widget' = [widget EXCEPT !.phase = "streaming"]
      /\ Resolves(s, "active")
  BY DEF BeginStream, Asks
<1>2. ChatTypeOK'
  <2>1. [session |-> s, client |-> TRUE, asked |-> 0, step |-> "open"] \in Request
    BY ChatConstants DEF Request
  <2>2. widget' \in Widget
    BY <1>1 DEF IInv, ChatTypeOK, Widget
  <2> QED
    BY <1>1, <2>1, <2>2, Resolved DEF IInv, ChatTypeOK
<1>3. /\ \A q \in Requests : q # r => req'[q] = req[q] /\ Asks(q)' = Asks(q)
      /\ req'[r] = [session |-> s, client |-> TRUE, asked |-> 0, step |-> "open"]
  BY <1>1 DEF IInv, ChatTypeOK, Asks
<1>4. StoredOK'
  BY <1>1, Resolved, Typed DEF IInv, StoredOK
<1>5. AskedOK'
  <2>1. ASSUME NEW q \in Requests, Asks(q)', q # r
        PROVE  /\ req'[q].step # "open" => req'[q].asked \in 1..clock'
               /\ session'[req'[q].session] # "free"
               /\ session'[req'[q].session] = "pending" =>
                     /\ req'[q].step = "posted"
                     /\ \A p \in Requests : Asks(p)' /\ req'[p].session = req'[q].session => p = q
               /\ req'[q].step = "stored" =>
                     \E m \in messages' : m.turn = req'[q].asked /\ m.session = req'[q].session
    <3>1. Asks(q) /\ req'[q] = req[q] /\ req[q].session \in Sessions
      BY <2>1, <1>3, Typed DEF IInv
    <3>2. session'[req[q].session] = session[req[q].session]
      BY <3>1, <1>1, Resolved
    <3>3. session'[s] = "active"
      BY <1>1, Resolved
    <3> QED
      BY <3>1, <3>2, <3>3, <1>1, <1>3 DEF IInv, AskedOK
  <2>2. session'[s] = "active" /\ req'[r].session = s /\ req'[r].step = "open"
    BY <1>1, <1>3, Resolved
  <2> QED
    BY <2>1, <2>2 DEF AskedOK
<1>6. ListensOK'
  BY <1>1, <1>3, Resolved, Typed DEF IInv, ListensOK, ChatTypeOK, Widget
<1>7. ScreenOK'
  BY <1>1 DEF IInv, ScreenOK, ChatTypeOK, Widget
<1> QED
  BY <1>2, <1>4, <1>5, <1>6, <1>7 DEF IInv

LEMMA BeginChatKeeps ==
    ASSUME IInv, NEW r \in Requests, NEW s \in Sessions, BeginChat(r, s)
    PROVE  IInv'
<1> DEFINE x == [session |-> s, client |-> TRUE, asked |-> clock + 1, step |-> "posted"]
<1>1. /\ widget.phase = "retrying" /\ ~Asks(r)
      /\ clock' = clock + 1 /\ clock < MaxClock /\ messages' = messages
      /\ req' = [req EXCEPT ![r] = x]
      /\ widget' = [widget EXCEPT !.phase = "waiting"]
      /\ Resolves(s, "pending")
  BY DEF BeginChat, Asks
<1>2. x \in Request /\ clock' \in 0..MaxClock
  BY <1>1, Typed DEF IInv, ChatTypeOK, Request
<1>3. ChatTypeOK'
  BY <1>1, <1>2, Resolved DEF IInv, ChatTypeOK, Widget
<1>4. /\ \A q \in Requests : q # r => req'[q] = req[q] /\ Asks(q)' = Asks(q)
      /\ req'[r] = x
  BY <1>1 DEF IInv, ChatTypeOK, Asks
<1>5. StoredOK'
  BY <1>1, Resolved, Typed DEF IInv, StoredOK
<1>6. AskedOK'
  <2>1. session'[s] \in {"pending", "active"}
    BY <1>1, Resolved
  <2>2. session'[s] = "pending" => \A q \in Requests : Asks(q) => req[q].session # s
    BY <1>1, Resolved
  <2>3. ASSUME NEW q \in Requests, Asks(q)', q # r
        PROVE  /\ req'[q].step # "open" => req'[q].asked \in 1..clock'
               /\ session'[req'[q].session] # "free"
               /\ session'[req'[q].session] = "pending" =>
                     /\ req'[q].step = "posted"
                     /\ \A p \in Requests : Asks(p)' /\ req'[p].session = req'[q].session => p = q
               /\ req'[q].step = "stored" =>
                     \E m \in messages' : m.turn = req'[q].asked /\ m.session = req'[q].session
    <3>1. Asks(q) /\ req'[q] = req[q] /\ req[q].session \in Sessions
      BY <2>3, <1>4, Typed DEF IInv
    <3>2. session'[s] = "pending" => req[q].session # s
      BY <2>2, <3>1
    <3>3. session'[req[q].session] = session[req[q].session]
      BY <3>1, <1>1, Resolved
    <3>4. req[q].step # "open" => req[q].asked \in 1..clock'
      BY <3>1, <1>1, Typed DEF IInv, AskedOK
    <3> QED
      BY <3>1, <3>2, <3>3, <3>4, <1>1, <1>4 DEF IInv, AskedOK
  <2>4. x.session = s /\ x.step = "posted" /\ x.asked \in 1..clock'
    BY <1>1, Typed DEF IInv
  <2>5. session'[s] = "pending" =>
          \A p \in Requests : Asks(p)' /\ req'[p].session = s => p = r
    BY <2>2, <1>4
  <2> HIDE DEF x
  <2> QED
    BY <2>1, <2>3, <2>4, <2>5, <1>4 DEF AskedOK
<1>7. ListensOK'
  BY <1>1, <1>4, Resolved, Typed DEF IInv, ListensOK, ChatTypeOK, Widget
<1>8. ScreenOK'
  BY <1>1 DEF IInv, ScreenOK, ChatTypeOK, Widget
<1> QED
  BY <1>3, <1>5, <1>6, <1>7, <1>8 DEF IInv

\* A stream moves on: its session and who listens stay, nothing is stored.
LEMMA StreamKeeps ==
    ASSUME IInv, NEW r \in Requests, Meta(r) \/ (\E last \in BOOLEAN : Delta(r, last)) \/ BreakOff(r)
    PROVE  IInv'
<1> DEFINE moved ==
             /\ UNCHANGED <<session, messages>>
             /\ clock' \in 0..MaxClock /\ clock' >= clock
             /\ req' \in [Requests -> Request \cup {Idle}]
             /\ \A q \in Requests : q # r => req'[q] = req[q]
             /\ req'[r].session = req[r].session /\ req'[r].client = req[r].client
             /\ req'[r].step \in {"asking", "replying", "answered"}
             /\ req'[r].asked \in 1..clock'
<1>1. /\ Asks(r) /\ req[r] \in Request /\ clock \in Nat /\ MaxClock \in Nat
      /\ req[r].step \in {"open", "asking", "replying"}
  BY Typed DEF IInv, Meta, Delta, BreakOff, At, Asks
<1>2. moved
  <2>1. CASE Meta(r)
    <3> DEFINE x == [req[r] EXCEPT !.step = "asking", !.asked = clock + 1]
    <3>1. /\ clock < MaxClock /\ clock' = clock + 1 /\ UNCHANGED <<session, messages>>
          /\ req' = [req EXCEPT ![r].step = "asking", ![r].asked = clock + 1]
      BY <2>1 DEF Meta
    <3>2. clock + 1 \in 0..MaxClock
      BY <1>1, <3>1
    <3>3. /\ x \in Request /\ x.session = req[r].session /\ x.client = req[r].client
          /\ x.step = "asking" /\ x.asked = clock + 1
      BY <1>1, <3>2 DEF Request
    <3>4. req' = [q \in Requests |-> IF q = r THEN x ELSE req[q]]
      BY <1>1, <3>1, <3>3 DEF IInv, ChatTypeOK
    <3> HIDE DEF x
    <3>5. req' \in [Requests -> Request \cup {Idle}]
      BY <3>3, <3>4 DEF IInv, ChatTypeOK
    <3>6. req'[r] = x /\ \A q \in Requests : q # r => req'[q] = req[q]
      BY <3>4
    <3>7. clock' \in 0..MaxClock /\ clock' >= clock /\ x.asked \in 1..clock'
      BY <1>1, <3>1, <3>2, <3>3
    <3> QED
      BY <3>1, <3>3, <3>5, <3>6, <3>7
  <2>2. CASE BreakOff(r) \/ \E last \in BOOLEAN : Delta(r, last)
    <3>1. req[r].asked \in 1..clock
      BY <1>1, <2>2 DEF IInv, AskedOK, BreakOff, Delta
    <3> QED
      BY <1>1, <2>2, <3>1 DEF IInv, ChatTypeOK, BreakOff, Delta, Request
  <2> QED
    BY <2>1, <2>2
\* What the widget makes of it.
<1>3. /\ widget' \in Widget
      /\ widget'.phase = widget.phase /\ widget'.sent = widget.sent
      /\ widget'.cleared = widget.cleared /\ widget'.shown = widget.shown
      /\ ~req[r].client => widget'.session = widget.session
      /\ req[r].client => widget'.session = req[r].session
  <2>1. CASE Meta(r)
    BY <1>1, <2>1 DEF IInv, ChatTypeOK, Meta, Widget, Request
  <2>2. CASE BreakOff(r) \/ \E last \in BOOLEAN : Delta(r, last)
    BY <1>1, <2>2 DEF IInv, ChatTypeOK, ListensOK, BreakOff, Delta, Widget
  <2> QED
    BY <2>1, <2>2
<1>4. ChatTypeOK'
  BY <1>2, <1>3 DEF IInv, ChatTypeOK
<1>5. StoredOK'
  BY <1>1, <1>2, Typed DEF IInv, StoredOK
<1>6. \A q \in Requests : Asks(q)' => Asks(q)
  BY <1>1, <1>2 DEF Asks
<1>7. AskedOK'
  BY <1>1, <1>2, <1>6, Typed DEF IInv, AskedOK
<1>8. ListensOK'
  BY <1>1, <1>2, <1>3, <1>6 DEF IInv, ListensOK
<1>9. ScreenOK'
  BY <1>1, <1>2, <1>3 DEF IInv, ScreenOK, ListensOK
<1> QED
  BY <1>4, <1>5, <1>7, <1>8, <1>9 DEF IInv

\* The pair of a question is stored.
LEMMA TurnStored ==
    ASSUME IInv, NEW s \in Sessions, NEW asked \in 1..clock, clock < MaxClock,
           clock' = clock + 1, messages' = messages \cup Turn(s, asked, clock + 1),
           \A n \in Sessions : session[n] \in {"active", "ended"} =>
                 session'[n] \in {"active", "ended"},
           session'[s] \in {"active", "ended"}
    PROVE  /\ messages' \subseteq Message /\ clock' \in 0..MaxClock
           /\ StoredOK'
           /\ messages \subseteq messages'
           /\ \E m \in messages' : m.turn = asked /\ m.session = s
<1> DEFINE question == [session |-> s, turn |-> asked, role |-> "user", at |-> asked]
           answer == [session |-> s, turn |-> asked, role |-> "assistant", at |-> clock + 1]
<1>1. clock \in Nat /\ MaxClock \in Nat
  BY Typed DEF IInv
<1>2. question \in Message /\ answer \in Message /\ clock' \in 0..MaxClock
  BY <1>1 DEF Message
<1>3. messages' = messages \cup {question, answer}
  BY DEF Turn
<1>4. /\ question.turn = asked /\ question.role = "user" /\ question.session = s /\ question.at = asked
      /\ answer.turn = asked /\ answer.role = "assistant" /\ answer.session = s /\ answer.at = clock + 1
  OBVIOUS
<1> HIDE DEF question, answer
<1>5. messages' \subseteq Message
  BY <1>2, <1>3 DEF IInv, ChatTypeOK
<1>6. ASSUME NEW m \in messages
      PROVE  /\ m.turn <= clock'
             /\ session'[m.session] \in {"active", "ended"}
             /\ m.role = "user" => m.at = m.turn
             /\ m.role = "assistant" => m.at > m.turn
             /\ \E n \in messages' : n.turn = m.turn /\ n.role # m.role /\ n.session = m.session
  BY <1>1, <1>3, Typed DEF IInv, StoredOK
<1>7. ASSUME NEW m \in {question, answer}
      PROVE  /\ m.turn <= clock'
             /\ session'[m.session] \in {"active", "ended"}
             /\ m.role = "user" => m.at = m.turn
             /\ m.role = "assistant" => m.at > m.turn
             /\ \E n \in messages' : n.turn = m.turn /\ n.role # m.role /\ n.session = m.session
  BY <1>1, <1>3, <1>4
<1>8. StoredOK'
  BY <1>3, <1>6, <1>7 DEF StoredOK
<1> QED
  BY <1>2, <1>3, <1>4, <1>5, <1>8

LEMMA PersistKeeps ==
    ASSUME IInv, NEW r \in Requests, Persist(r)
    PROVE  IInv'
<1> DEFINE s == req[r].session
           asked == req[r].asked
           x == [req[r] EXCEPT !.step = "stored"]
<1>1. /\ Asks(r) /\ req[r].step = "answered" /\ clock < MaxClock /\ clock' = clock + 1
      /\ messages' = messages \cup Turn(s, asked, clock + 1)
      /\ req' = [req EXCEPT ![r] = x]
      /\ UNCHANGED <<session, widget>>
  BY DEF Persist, At, Asks
<1>2. /\ s \in Sessions /\ asked \in 1..clock /\ session[s] \in {"active", "ended"}
      /\ clock \in Nat /\ req[r] \in Request
  BY <1>1, Typed DEF IInv, AskedOK, ChatTypeOK
<1>3. /\ messages' \subseteq Message /\ clock' \in 0..MaxClock
      /\ StoredOK'
      /\ messages \subseteq messages'
      /\ \E m \in messages' : m.turn = asked /\ m.session = s
  BY <1>1, <1>2, TurnStored
<1>4. x \in Request /\ x.session = s /\ x.asked = asked /\ x.step = "stored" /\ x.client = req[r].client
  BY <1>2 DEF Request
<1> HIDE DEF x
<1>5. ChatTypeOK'
  BY <1>1, <1>3, <1>4 DEF IInv, ChatTypeOK
<1>6. /\ \A q \in Requests : Asks(q)' => Asks(q) /\ req'[q].session = req[q].session
                                      /\ req'[q].asked = req[q].asked
                                      /\ req'[q].client = req[q].client
      /\ \A q \in Requests : q # r => req'[q] = req[q]
      /\ req'[r] = x
  BY <1>1, <1>4 DEF IInv, ChatTypeOK, Asks
<1>7. AskedOK'
  <2>1. \A q \in Requests : Asks(q)' => (req'[q].step # "open" => req'[q].asked \in 1..clock')
    BY <1>1, <1>2, <1>4, <1>6, Typed DEF IInv, AskedOK
  <2>2. \A q \in Requests : Asks(q)' =>
          /\ session'[req'[q].session] # "free"
          /\ session'[req'[q].session] = "pending" =>
                /\ req'[q].step = "posted"
                /\ \A p \in Requests : Asks(p)' /\ req'[p].session = req'[q].session => p = q
    BY <1>1, <1>2, <1>4, <1>6 DEF IInv, AskedOK
  <2>3. \A q \in Requests : Asks(q)' /\ req'[q].step = "stored" =>
          \E m \in messages' : m.turn = req'[q].asked /\ m.session = req'[q].session
    <3> SUFFICES ASSUME NEW q \in Requests, Asks(q)', req'[q].step = "stored"
                 PROVE  \E m \in messages' : m.turn = req'[q].asked /\ m.session = req'[q].session
      OBVIOUS
    <3>1. CASE q = r
      BY <3>1, <1>3, <1>4, <1>6
    <3>2. CASE q # r
      BY <3>2, <1>3, <1>6 DEF IInv, AskedOK
    <3> QED
      BY <3>1, <3>2
  <2> QED
    BY <2>1, <2>2, <2>3 DEF AskedOK
<1>8. ListensOK'
  BY <1>1, <1>4, <1>6 DEF IInv, ListensOK
<1>9. ScreenOK'
  BY <1>1, <1>3 DEF IInv, ScreenOK
<1> QED
  BY <1>3, <1>5, <1>7, <1>8, <1>9 DEF IInv

\* A request is over, or its client is gone; nothing else changes.
LEMMA FewerAsk ==
    ASSUME IInv,
           req' \in [Requests -> Request \cup {Idle}],
           \A q \in Requests : Asks(q)' =>
              /\ Asks(q)
              /\ req'[q].session = req[q].session /\ req'[q].asked = req[q].asked
              /\ req'[q].step = req[q].step /\ (req'[q].client => req[q].client),
           UNCHANGED <<messages, clock>>
    PROVE  /\ UNCHANGED session => StoredOK' /\ AskedOK'
           /\ UNCHANGED widget => ListensOK' /\ ScreenOK'
<1>1. UNCHANGED session => StoredOK' /\ AskedOK'
  BY DEF IInv, StoredOK, AskedOK
<1>2. UNCHANGED widget => ListensOK' /\ ScreenOK'
  BY DEF IInv, ListensOK, ScreenOK
<1> QED
  BY <1>1, <1>2

LEMMA DoneKeeps ==
    ASSUME IInv, NEW r \in Requests, Done(r) \/ Cancelled(r)
    PROVE  IInv'
<1>1. /\ Asks(r) /\ req[r] \in Request
      /\ req' = [req EXCEPT ![r] = Idle]
      /\ UNCHANGED <<session, messages, clock>>
  BY Typed DEF IInv, Done, Cancelled, Asks
<1>2. /\ req' \in [Requests -> Request \cup {Idle}]
      /\ \A q \in Requests : q # r => req'[q] = req[q]
      /\ \A q \in Requests : Asks(q)' => Asks(q) /\ req'[q] = req[q] /\ q # r
  BY <1>1 DEF IInv, ChatTypeOK, Asks
<1>3. StoredOK' /\ AskedOK'
  BY <1>1, <1>2, FewerAsk
<1>4. CASE widget' = widget
  <2>1. ListensOK' /\ ScreenOK'
    BY <1>1, <1>2, <1>4, FewerAsk
  <2> QED
    BY <1>1, <1>2, <1>3, <1>4, <2>1 DEF IInv, ChatTypeOK
<1>5. CASE widget' # widget
  <2> DEFINE after == [widget EXCEPT !.phase = "idle",
                         !.shown = IF req[r].step = "stored" THEN @ \cup {req[r].asked} ELSE @]
  <2>1. /\ req[r].client /\ req[r].step \in {"answered", "stored"}
        /\ widget' = after
    BY <1>5 DEF Done, Cancelled
  <2>2. req[r].asked \in 1..MaxClock
    BY <1>1, <2>1, Typed DEF IInv, AskedOK, ChatTypeOK
  <2>3. widget' \in Widget
    BY <2>1, <2>2 DEF IInv, ChatTypeOK, Widget
  <2>4. ListensOK'
    BY <1>1, <1>2, <2>1 DEF IInv, ListensOK
  <2>5. /\ widget'.session = widget.session /\ widget'.phase = "idle"
        /\ \A t \in widget'.shown : t \in widget.shown \/ (t = req[r].asked /\ req[r].step = "stored")
    BY <2>1 DEF IInv, ChatTypeOK, Widget
  <2>6. widget.session = req[r].session
    BY <1>1, <2>1 DEF IInv, ListensOK
  <2>7. ScreenOK'
    BY <1>1, <2>5, <2>6 DEF IInv, ScreenOK, AskedOK
  <2> QED
    BY <1>1, <1>2, <1>3, <2>3, <2>4, <2>7 DEF IInv, ChatTypeOK
<1> QED
  BY <1>4, <1>5

LEMMA AnswerKeeps ==
    ASSUME IInv, NEW r \in Requests, Answer(r)
    PROVE  IInv'
<1> DEFINE s == req[r].session
           asked == req[r].asked
<1>1. /\ Asks(r) /\ req[r].step = "posted" /\ clock < MaxClock /\ clock' = clock + 1
      /\ messages' = messages \cup Turn(s, asked, clock + 1)
      /\ session' = [session EXCEPT ![s] = IF @ = "pending" THEN "active" ELSE @]
      /\ req' = [req EXCEPT ![r] = Idle]
      /\ widget' = IF req[r].client THEN ShowAnswer(r) ELSE widget
  BY DEF Answer, At, Asks
<1>2. /\ s \in Sessions /\ asked \in 1..clock /\ clock \in Nat
      /\ session[s] \in {"pending", "active", "ended"}
  BY <1>1, Typed DEF IInv, AskedOK, ChatTypeOK
<1>3. /\ session' \in [Sessions -> {"free", "pending", "active", "ended"}]
      /\ session'[s] \in {"active", "ended"}
      /\ \A n \in Sessions : n # s => session'[n] = session[n]
      /\ session[s] # "pending" => session'[s] = session[s]
      /\ \A n \in Sessions : session[n] \in {"active", "ended"} => session'[n] \in {"active", "ended"}
  BY <1>1, <1>2 DEF IInv, ChatTypeOK
<1>4. /\ messages' \subseteq Message /\ clock' \in 0..MaxClock
      /\ StoredOK'
      /\ messages \subseteq messages'
      /\ \E m \in messages' : m.turn = asked /\ m.session = s
  BY <1>1, <1>2, <1>3, TurnStored
<1>5. /\ req' \in [Requests -> Request \cup {Idle}]
      /\ \A q \in Requests : Asks(q)' => Asks(q) /\ req'[q] = req[q] /\ q # r
  BY <1>1 DEF IInv, ChatTypeOK, Asks
<1>6. AskedOK'
  <2> SUFFICES ASSUME NEW q \in Requests, Asks(q)'
               PROVE  /\ req'[q].step # "open" => req'[q].asked \in 1..clock'
                      /\ session'[req'[q].session] # "free"
                      /\ session'[req'[q].session] = "pending" =>
                            /\ req'[q].step = "posted"
                            /\ \A p \in Requests : Asks(p)' /\ req'[p].session = req'[q].session => p = q
                      /\ req'[q].step = "stored" =>
                            \E m \in messages' : m.turn = req'[q].asked /\ m.session = req'[q].session
    BY DEF AskedOK
  <2>1. Asks(q) /\ req'[q] = req[q] /\ q # r /\ req[q].session \in Sessions
    BY <1>5, Typed DEF IInv
  <2>2. session'[req[q].session] = session[req[q].session]
    BY <2>1, <1>1, <1>3 DEF IInv, AskedOK
  <2>3. req[q].step # "open" => req[q].asked \in 1..clock'
    BY <2>1, <1>1, <1>2 DEF IInv, AskedOK
  <2> QED
    BY <2>1, <2>2, <2>3, <1>4, <1>5 DEF IInv, AskedOK
<1>7. CASE ~req[r].client
  <2>1. widget' = widget
    BY <1>1, <1>7
  <2>2. ListensOK' /\ ScreenOK'
    BY <2>1, <1>4, <1>5 DEF IInv, ListensOK, ScreenOK
  <2> QED
    BY <1>3, <1>4, <1>5, <1>6, <2>1, <2>2 DEF IInv, ChatTypeOK
<1>8. CASE req[r].client
  <2>1. /\ widget' \in Widget /\ widget'.phase = "idle" /\ widget'.session = s
        /\ widget'.shown = IF widget.cleared THEN widget.shown ELSE widget.shown \cup {asked}
    <3>1. asked \in 1..MaxClock
      BY <1>1, <1>2, Typed DEF IInv
    <3>2. widget' = [widget EXCEPT !.phase = "idle", !.session = s,
                       !.shown = IF widget.cleared THEN @ ELSE @ \cup {asked}]
      BY <1>1, <1>8 DEF ShowAnswer
    <3> QED
      BY <1>2, <3>1, <3>2 DEF IInv, ChatTypeOK, Widget
  <2>2. ListensOK'
    BY <1>1, <1>5, <1>8 DEF IInv, ListensOK
  <2>3. /\ widget.phase = "waiting"
        /\ widget.sent # NoSession => s = widget.sent
    BY <1>1, <1>8 DEF IInv, ListensOK
  <2>4. widget.shown = {} \/ (~widget.cleared /\ widget.session = s)
    BY <2>3 DEF IInv, ScreenOK
  <2>5. \A t \in widget'.shown : \E m \in messages' : m.turn = t /\ m.session = s
    BY <1>4, <2>1, <2>4 DEF IInv, ScreenOK
  <2>6. ScreenOK'
    BY <2>1, <2>5 DEF ScreenOK
  <2> QED
    BY <1>3, <1>4, <1>5, <1>6, <2>1, <2>2, <2>6 DEF IInv, ChatTypeOK
<1> QED
  BY <1>7, <1>8

LEMMA ChatFailsKeeps ==
    ASSUME IInv, NEW r \in Requests, ChatFails(r)
    PROVE  IInv'
<1>1. /\ Asks(r) /\ session' = Unbegun(r)
      /\ req' = [req EXCEPT ![r] = Idle]
      /\ widget' = IF req[r].client THEN [widget EXCEPT !.phase = "idle"] ELSE widget
      /\ UNCHANGED <<messages, clock>>
  BY DEF ChatFails, At, Asks
<1>2. /\ req' \in [Requests -> Request \cup {Idle}]
      /\ \A q \in Requests : Asks(q)' => Asks(q) /\ req'[q] = req[q] /\ q # r
  BY <1>1 DEF IInv, ChatTypeOK, Asks
<1>3. /\ session' \in [Sessions -> {"free", "pending", "active", "ended"}]
      /\ \A n \in Sessions : session[n] # "pending" \/ n # req[r].session => session'[n] = session[n]
  BY <1>1 DEF IInv, ChatTypeOK, Unbegun
<1>4. ChatTypeOK'
  BY <1>1, <1>2, <1>3 DEF IInv, ChatTypeOK, Widget
<1>5. StoredOK'
  BY <1>1, <1>3, Typed DEF IInv, StoredOK
<1>6. AskedOK'
  <2>1. \A q \in Requests : Asks(q)' => session'[req[q].session] = session[req[q].session]
    BY <1>1, <1>2, <1>3, Typed DEF IInv, AskedOK
  <2> QED
    BY <1>1, <1>2, <2>1 DEF IInv, AskedOK
<1>7. ListensOK'
  <2>1. CASE req[r].client
    BY <1>1, <1>2, <2>1 DEF IInv, ListensOK
  <2>2. CASE ~req[r].client
    BY <1>1, <1>2, <2>2 DEF IInv, ListensOK
  <2> QED
    BY <2>1, <2>2
<1>8. ScreenOK'
  BY <1>1 DEF IInv, ScreenOK, ChatTypeOK, Widget
<1> QED
  BY <1>4, <1>5, <1>6, <1>7, <1>8 DEF IInv

LEMMA EndSessionKeeps ==
    ASSUME IInv, NEW s \in Sessions, EndSession(s)
    PROVE  IInv'
<1>1. /\ session[s] = "active" /\ session' = [session EXCEPT ![s] = "ended"]
      /\ UNCHANGED <<messages, clock, req, widget>>
  BY DEF EndSession
<1>2. /\ session' \in [Sessions -> {"free", "pending", "active", "ended"}]
      /\ \A n \in Sessions : session'[n] = session[n] \/ (session[n] = "active" /\ session'[n] = "ended")
  BY <1>1 DEF IInv, ChatTypeOK
<1>3. ChatTypeOK'
  BY <1>1, <1>2 DEF IInv, ChatTypeOK
<1>4. StoredOK'
  BY <1>1, <1>2, Typed DEF IInv, StoredOK
<1>5. AskedOK'
  BY <1>1, <1>2, Typed DEF IInv, AskedOK, Asks
<1>6. ListensOK' /\ ScreenOK'
  BY <1>1 DEF IInv, ListensOK, ScreenOK, Asks
<1> QED
  BY <1>3, <1>4, <1>5, <1>6 DEF IInv

LEMMA RestartKeeps ==
    ASSUME IInv, Restart
    PROVE  IInv'
<1>1. /\ req' = [r \in Requests |-> Idle]
      /\ session' = [s \in Sessions |-> IF session[s] = "pending" THEN "free" ELSE session[s]]
      /\ widget' = [widget EXCEPT !.phase =
                      IF @ \in {"sending", "streaming"} /\ ~widget.streamed
                      THEN "retrying" ELSE "idle"]
      /\ UNCHANGED <<messages, clock>>
  BY DEF Restart
<1>2. ChatTypeOK'
  BY <1>1 DEF IInv, ChatTypeOK, Widget
<1>3. StoredOK'
  BY <1>1, Typed DEF IInv, StoredOK
<1>4. AskedOK' /\ ListensOK'
  BY <1>1 DEF AskedOK, ListensOK, Asks
<1>5. ScreenOK'
  <2>1. /\ widget'.session = widget.session /\ widget'.sent = widget.sent
        /\ widget'.shown = widget.shown /\ widget'.cleared = widget.cleared
        /\ widget'.phase \in {"idle", "retrying"}
        /\ widget'.phase # "idle" => widget.phase # "idle"
    BY <1>1 DEF IInv, ChatTypeOK, Widget
  <2> QED
    BY <1>1, <2>1 DEF IInv, ScreenOK
<1> QED
  BY <1>2, <1>3, <1>4, <1>5 DEF IInv

---------------------------------------------------------------------------
(* The widget.                                                             *)

LEMMA UnheardRequests ==
    ASSUME ChatTypeOK, NEW step \in {"stream", "posted"}, req' = Unheard(step)
    PROVE  /\ req' \in [Requests -> Request \cup {Idle}]
           /\ \A q \in Requests : Asks(q)' =>
                 /\ Asks(q)
                 /\ req'[q].session = req[q].session /\ req'[q].asked = req[q].asked
                 /\ req'[q].step = req[q].step /\ (req'[q].client => req[q].client)
                 /\ (req[q].step = "posted") = (step = "posted") => ~req'[q].client
<1>1. ASSUME NEW q \in Requests, Asks(q)
      PROVE  /\ [req[q] EXCEPT !.client = FALSE] \in Request
             /\ [req[q] EXCEPT !.client = FALSE].session = req[q].session
             /\ [req[q] EXCEPT !.client = FALSE].asked = req[q].asked
             /\ [req[q] EXCEPT !.client = FALSE].step = req[q].step
             /\ ~[req[q] EXCEPT !.client = FALSE].client
  BY <1>1, Typed DEF Request
<1> QED
  BY <1>1 DEF Unheard, ChatTypeOK, Asks

LEMMA WidgetKeeps ==
    ASSUME IInv, Send \/ RefuseCall \/ StreamBreaks \/ GiveUp \/ NewConversation
    PROVE  IInv'
<1>1. /\ UNCHANGED <<session, messages, clock>>
      /\ widget' \in Widget
      /\ req' = req \/ req' = Unheard("stream") \/ req' = Unheard("posted")
  BY DEF IInv, ChatTypeOK, Widget, Send, RefuseCall, StreamBreaks, GiveUp, NewConversation
<1>2. /\ req' \in [Requests -> Request \cup {Idle}]
      /\ \A q \in Requests : Asks(q)' =>
            /\ Asks(q)
            /\ req'[q].session = req[q].session /\ req'[q].asked = req[q].asked
            /\ req'[q].step = req[q].step /\ (req'[q].client => req[q].client)
            /\ req' = Unheard("stream") /\ req[q].step # "posted" => ~req'[q].client
            /\ req' = Unheard("posted") /\ req[q].step = "posted" => ~req'[q].client
  <2>1. CASE req' = req
    <3>1. /\ req' \in [Requests -> Request \cup {Idle}]
          /\ \A q \in Requests : Asks(q)' = Asks(q) /\ req'[q] = req[q]
      BY <2>1 DEF IInv, ChatTypeOK, Asks
    <3>2. \A q \in Requests : Asks(q)' =>
            /\ req' = Unheard("stream") /\ req[q].step # "posted" => ~req'[q].client
            /\ req' = Unheard("posted") /\ req[q].step = "posted" => ~req'[q].client
      BY UnheardRequests DEF IInv
    <3> QED
      BY <3>1, <3>2
  <2>2. CASE req' = Unheard("stream") \/ req' = Unheard("posted")
    BY <2>2, UnheardRequests DEF IInv
  <2> QED
    BY <1>1, <2>1, <2>2
<1>3. ChatTypeOK'
  BY <1>1, <1>2 DEF IInv, ChatTypeOK
<1>4. StoredOK' /\ AskedOK'
  BY <1>1, <1>2, FewerAsk
<1>5. CASE Send
  <2>1. /\ widget.phase = "idle" /\ req' = req
        /\ widget'.phase = "sending" /\ widget'.sent = widget.session /\ ~widget'.cleared
        /\ widget'.session = widget.session /\ widget'.shown = widget.shown
    BY <1>5 DEF Send, IInv, ChatTypeOK, Widget
  <2>2. ListensOK'
    BY <1>2, <2>1 DEF IInv, ListensOK
  <2>3. widget.session = NoSession => widget.shown = {}
    BY Typed DEF IInv, ScreenOK
  <2>4. ScreenOK'
    BY <1>1, <2>1, <2>3 DEF IInv, ScreenOK
  <2> QED
    BY <1>3, <1>4, <2>2, <2>4 DEF IInv
<1>6. CASE RefuseCall \/ StreamBreaks \/ GiveUp
  <2>1. /\ widget'.sent = widget.sent /\ widget'.cleared = widget.cleared
        /\ widget'.session = widget.session /\ widget'.shown = widget.shown
        /\ widget.phase # "idle" /\ widget'.phase \in {"idle", "retrying"}
        /\ widget.phase = "streaming" => req' = Unheard("stream")
        /\ widget.phase = "waiting" => req' = Unheard("posted")
    BY <1>6 DEF RefuseCall, StreamBreaks, GiveUp, IInv, ChatTypeOK, Widget
  <2>2. \A q \in Requests : Asks(q)' => ~req'[q].client
    BY <1>2, <2>1 DEF IInv, ListensOK
  <2>3. ListensOK'
    BY <2>2 DEF ListensOK
  <2>4. ScreenOK'
    BY <1>1, <2>1 DEF IInv, ScreenOK
  <2> QED
    BY <1>3, <1>4, <2>3, <2>4 DEF IInv
<1>7. CASE NewConversation
  <2>1. /\ widget'.session = NoSession /\ widget'.shown = {} /\ widget'.cleared
        /\ widget'.sent = widget.sent
        /\ widget'.phase = IF widget.phase \in {"sending", "streaming"} THEN "idle" ELSE widget.phase
        /\ req' = IF widget.phase = "streaming" THEN Unheard("stream") ELSE req
    BY <1>7 DEF NewConversation, IInv, ChatTypeOK, Widget
  <2>2. ListensOK'
    <3>1. \A q \in Requests : Asks(q)' /\ req'[q].client => req[q].step = "posted"
      BY <1>2, <2>1 DEF IInv, ListensOK
    <3> QED
      BY <1>2, <2>1, <3>1 DEF IInv, ListensOK
  <2>3. ScreenOK'
    BY <2>1 DEF ScreenOK
  <2> QED
    BY <1>3, <1>4, <2>2, <2>3 DEF IInv
<1> QED
  BY <1>5, <1>6, <1>7

LEMMA StepInvariant == IInv /\ [Next]_vars => IInv'
<1> SUFFICES ASSUME IInv, [Next]_vars PROVE IInv'
  OBVIOUS
<1>1. ASSUME NEW r \in Requests, Serve(r) PROVE IInv'
  BY <1>1, BeginStreamKeeps, BeginChatKeeps, StreamKeeps, PersistKeeps, DoneKeeps,
     AnswerKeeps, ChatFailsKeeps DEF Serve
<1>2. CASE Ask
  BY <1>2, WidgetKeeps DEF Ask
<1>3. ASSUME NEW s \in Sessions, EndSession(s) PROVE IInv'
  BY <1>3, EndSessionKeeps
<1>4. CASE Restart
  BY <1>4, RestartKeeps
<1>5. CASE UNCHANGED chatVars
  BY <1>5 DEF chatVars, IInv, ChatTypeOK, StoredOK, AskedOK, ListensOK, ScreenOK, Asks
<1> QED
  BY <1>1, <1>2, <1>3, <1>4, <1>5 DEF Next, Assist, vars

\* The invariant holds whatever breaks off or is cancelled, and across restarts
\* (routes/ai_chat.py and components/AIChatWidget.tsx).
THEOREM InvariantHolds == Spec => []IInv
<1>1. Init => IInv
  BY InitInvariant
<1>2. IInv /\ [Next]_vars => IInv'
  BY StepInvariant
<1> QED
  BY <1>1, <1>2, PTL DEF Spec

\* A question is never stored without its answer, nor before its session, and
\* no order by created_at puts the answer first (chat and chat_stream).
THEOREM TurnsStoredWhole == Spec => []TurnsAreWhole
<1>1. IInv => TurnsAreWhole
  <2> SUFFICES ASSUME IInv, NEW m \in messages
               PROVE  /\ session[m.session] \in {"active", "ended"}
                      /\ \E n \in messages : n.turn = m.turn /\ n.role # m.role /\ n.session = m.session
                      /\ \A n \in messages :
                            n.turn = m.turn /\ n.role = "user" /\ m.role = "assistant"
                               => ~MayPrecede(m, n)
    BY DEF TurnsAreWhole
  <2>1. \A n \in messages :
          n.turn = m.turn /\ n.role = "user" /\ m.role = "assistant" => m.at > n.at
    BY Typed DEF IInv, StoredOK
  <2>2. \A n \in messages : m.at > n.at => ~MayPrecede(m, n)
    BY Typed DEF IInv, MayPrecede
  <2> QED
    BY <2>1, <2>2 DEF IInv, StoredOK
<1> QED
  BY <1>1, InvariantHolds, PTL

\* What is on screen with a stored id is in the session that the next question
\* resumes (AIChatWidget.tsx, handleSend and handleNewSession).
THEOREM ScreenMatchesSession == Spec => []ShownIsInSession
<1>1. IInv => ShownIsInSession
  BY DEF IInv, ScreenOK, ShownIsInSession
<1> QED
  BY <1>1, InvariantHolds, PTL

---------------------------------------------------------------------------
(* The limiter.                                                            *)

\* Of the calls let through, the first d are out of the window and gone; what
\* is still counted, if the user is known at all, is the rest.
Counted(u, d) ==
    /\ \A i \in 1..d : admitted[u][i] + Window < now
    /\ u \in Tracked => /\ hits[u] \in Seq(Nat)
                        /\ Len(hits[u]) = Len(admitted[u]) - d
                        /\ \A i \in 1..Len(hits[u]) : hits[u][i] = admitted[u][d + i]
    /\ u \notin Tracked => d = Len(admitted[u])

\* The calls are in the order of their times.
InOrder(u) ==
    /\ \A i \in 1..Len(admitted[u]) : admitted[u][i] <= now
    /\ \A i, j \in 1..Len(admitted[u]) : i <= j => admitted[u][i] <= admitted[u][j]

LimiterOK ==
    /\ now \in Nat
    /\ admitted \in [Users -> Seq(Nat)]
    /\ \A u \in Users : InOrder(u) /\ \E d \in 0..Len(admitted[u]) : Counted(u, d)
    /\ WindowBounded

LEMMA Least ==
    ASSUME NEW T \in SUBSET Nat, T # {}
    PROVE  \E x \in T : \A y \in T : x <= y
<1> DEFINE R == OpToRel(<, Nat)
<1>1. IsWellFoundedOn(R, Nat)
  BY NatLessThanWellFounded
<1>2. \A x, y \in Nat : x < y => <<x, y>> \in R
  BY DEF OpToRel
<1> HIDE DEF R
<1>3. PICK x \in T : \A y \in T : ~(<<y, x>> \in R)
  BY <1>1, WFMin
<1>4. \A y \in T : x <= y
  <2> TAKE y \in T
  <2>1. x \in Nat /\ y \in Nat /\ ~(y < x)
    BY <1>2, <1>3
  <2> QED
    BY <2>1
<1> QED
  BY <1>4

\* The pops end at the first call that is still in the window, or at none.
LEMMA Pops ==
    ASSUME now \in Nat, NEW calls \in Seq(Nat)
    PROVE  /\ Popped(calls) \in 0..Len(calls)
           /\ \A i \in 1..Popped(calls) : calls[i] + Window < now
<1> DEFINE recent == {i \in 1..Len(calls) : calls[i] + Window >= now}
           ends(k) == /\ \A i \in 1..k : calls[i] + Window < now
                      /\ k < Len(calls) => calls[k + 1] + Window >= now
<1>1. \A i \in 1..Len(calls) : calls[i] \in Nat /\ Window \in Nat /\ Len(calls) \in Nat
  BY LimiterBounds
<1>2. \E k \in 0..Len(calls) : ends(k)
  <2>1. CASE recent = {}
    <3>1. Len(calls) \in 0..Len(calls) /\ ends(Len(calls))
      BY <1>1, <2>1
    <3> QED
      BY <3>1
  <2>2. CASE recent # {}
    <3>0. recent \in SUBSET Nat
      OBVIOUS
    <3>1. PICK x \in recent : \A y \in recent : x <= y
      <4> HIDE DEF recent
      <4> QED
        BY <2>2, <3>0, Least
    <3>2. x - 1 \in 0..Len(calls) /\ (x - 1) + 1 = x /\ x \in Nat
      BY <3>1
    <3>3. \A i \in 1..(x - 1) : i \in 1..Len(calls) /\ ~(x <= i)
      BY <3>1, <3>2
    <3>4. \A i \in 1..(x - 1) : calls[i] + Window < now
      BY <1>1, <3>1, <3>3
    <3>5. ends(x - 1)
      BY <3>1, <3>2, <3>4
    <3> QED
      BY <3>2, <3>5
  <2> QED
    BY <2>1, <2>2
<1>3. Popped(calls) = CHOOSE k \in 0..Len(calls) : ends(k)
  BY DEF Popped
<1> HIDE DEF ends
<1>4. Popped(calls) \in 0..Len(calls) /\ ends(Popped(calls))
  BY <1>2, <1>3
<1> QED
  BY <1>4 DEF ends

\* What a call counts: a tail of the calls let through, out of whose window
\* are all the others.
LEMMA CountedRecently ==
    ASSUME LimiterOK, NEW u \in Users
    PROVE  \E d \in 0..Len(admitted[u]) :
              /\ \A i \in 1..d : admitted[u][i] + Window < now
              /\ Recent(u) \in Seq(Nat)
              /\ Len(Recent(u)) = Len(admitted[u]) - d
              /\ \A i \in 1..Len(Recent(u)) : Recent(u)[i] = admitted[u][d + i]
<1>1. PICK d \in 0..Len(admitted[u]) : Counted(u, d)
  BY DEF LimiterOK
<1>2. admitted[u] \in Seq(Nat) /\ now \in Nat /\ Window \in Nat
  BY LimiterBounds DEF LimiterOK
<1>3. CASE u \notin Tracked
  <2>1. Recent(u) = <<>> /\ d = Len(admitted[u])
    BY <1>1, <1>3 DEF Recent, Counted
  <2>2. Recent(u) \in Seq(Nat) /\ Len(Recent(u)) = Len(admitted[u]) - d
    BY <1>2, <2>1
  <2> QED
    BY <1>1, <2>1, <2>2 DEF Counted
<1>4. CASE u \in Tracked
  <2> DEFINE k == Popped(hits[u])
  <2>1. /\ hits[u] \in Seq(Nat) /\ Len(hits[u]) = Len(admitted[u]) - d
        /\ \A i \in 1..Len(hits[u]) : hits[u][i] = admitted[u][d + i]
        /\ \A i \in 1..d : admitted[u][i] + Window < now
    BY <1>1, <1>4 DEF Counted
  <2>2. k \in 0..Len(hits[u]) /\ \A i \in 1..k : hits[u][i] + Window < now
    BY <1>2, <2>1, Pops
  <2> HIDE DEF k
  <2>3. Recent(u) = SubSeq(hits[u], k + 1, Len(hits[u]))
    BY <1>4 DEF Recent, k
  <2>4. /\ Recent(u) \in Seq(Nat) /\ Len(Recent(u)) = Len(hits[u]) - k
        /\ \A i \in 1..Len(Recent(u)) : Recent(u)[i] = hits[u][k + i]
    <3> DEFINE n == Len(hits[u])
    <3>1. /\ n \in Int /\ k + 1 \in Int
          /\ \A i \in (k + 1)..n : hits[u][i] \in Nat
          /\ (IF k + 1 <= n THEN n - (k + 1) + 1 ELSE 0) = n - (k + 1) + 1
      <4>1. n \in Nat /\ k \in Nat /\ k <= n
        BY <2>1, <2>2
      <4>2. \A i \in 1..n : hits[u][i] \in Nat
        BY <2>1
      <4> HIDE DEF n
      <4> QED
        BY <4>1, <4>2
    <3>2. /\ SubSeq(hits[u], k + 1, n) \in Seq(Nat)
          /\ Len(SubSeq(hits[u], k + 1, n)) = n - (k + 1) + 1
          /\ \A i \in 1..(n - (k + 1) + 1) : SubSeq(hits[u], k + 1, n)[i] = hits[u][(k + 1) + i - 1]
      BY <2>1, <3>1, SubSeqProperties
    <3>3. n - (k + 1) + 1 = n - k /\ \A i \in 1..(n - k) : (k + 1) + i - 1 = k + i
      BY <2>2, <3>1
    <3> QED
      BY <2>3, <3>2, <3>3
  <2>5. d + k \in 0..Len(admitted[u]) /\ Len(Recent(u)) = Len(admitted[u]) - (d + k)
    BY <1>2, <2>1, <2>2, <2>4
  <2>6. ASSUME NEW i \in 1..(d + k) PROVE admitted[u][i] + Window < now
    <3>1. CASE i <= d
      BY <2>1, <3>1
    <3>2. CASE i > d
      <4>1. i - d \in 1..k /\ i - d \in 1..Len(hits[u]) /\ d + (i - d) = i
        BY <2>1, <2>2, <3>2, <1>2
      <4> QED
        BY <2>1, <2>2, <4>1
    <3> QED
      BY <3>1, <3>2
  <2>7. ASSUME NEW i \in 1..Len(Recent(u)) PROVE Recent(u)[i] = admitted[u][(d + k) + i]
    <3>1. k + i \in 1..Len(hits[u]) /\ d + (k + i) = (d + k) + i
      BY <1>2, <2>1, <2>2, <2>4
    <3> QED
      BY <2>1, <2>4, <3>1
  <2> QED
    BY <2>4, <2>5, <2>6, <2>7
<1> QED
  BY <1>3, <1>4

\* The calls still counted after a call of u, with those of idle users gone.
LEMMA EvictedCounts ==
    ASSUME LimiterOK, NEW h, NEW u \in Users, now' = now,
           hits' = Evicted(h), u \in DOMAIN h, h[u] # <<>>, h[u][Len(h[u])] = now,
           DOMAIN h = Tracked \cup {u},
           \A v \in Tracked : v # u => h[v] = hits[v]
    PROVE  /\ u \in DOMAIN hits' /\ hits'[u] = h[u]
           /\ \A v \in Users : v # u /\ admitted'[v] = admitted[v] =>
                 \E d \in 0..Len(admitted'[v]) : Counted(v, d)'
<1>0. now \in Nat /\ Window \in Nat
  BY LimiterBounds DEF LimiterOK
<1>1. ~IdleUser(h, u)
  BY <1>0 DEF IdleUser
<1>2. /\ DOMAIN hits' \subseteq DOMAIN h
      /\ \A v \in DOMAIN hits' : hits'[v] = h[v]
      /\ \A v \in DOMAIN h : v \notin DOMAIN hits' => IdleUser(h, v)
  BY DEF Evicted
<1>3. ASSUME NEW v \in Users, v # u, admitted'[v] = admitted[v]
      PROVE  \E d \in 0..Len(admitted'[v]) : Counted(v, d)'
  <2>1. PICK d \in 0..Len(admitted[v]) : Counted(v, d)
    BY DEF LimiterOK
  <2>2. CASE v \in DOMAIN hits'
    <3>1. v \in Tracked /\ hits'[v] = hits[v]
      BY <1>2, <1>3, <2>2
    <3>2. Counted(v, d)'
      BY <1>3, <2>1, <2>2, <3>1 DEF Counted, Tracked
    <3> QED
      BY <1>3, <3>2
  <2>3. CASE v \notin DOMAIN hits' /\ v \notin Tracked
    <3>1. Counted(v, d)'
      BY <1>3, <2>1, <2>3 DEF Counted, Tracked
    <3> QED
      BY <1>3, <3>1
  <2>4. CASE v \notin DOMAIN hits' /\ v \in Tracked
    <3> DEFINE n == Len(admitted[v])
    <3>1. IdleUser(h, v) /\ h[v] = hits[v]
      BY <1>2, <1>3, <2>4
    <3>2. /\ admitted[v] \in Seq(Nat) /\ n \in Nat /\ InOrder(v)
          /\ hits[v] \in Seq(Nat) /\ Len(hits[v]) = n - d
          /\ \A i \in 1..Len(hits[v]) : hits[v][i] = admitted[v][d + i]
          /\ \A i \in 1..d : admitted[v][i] + Window < now
      BY <2>1, <2>4 DEF LimiterOK, Counted
    <3>3. ASSUME NEW i \in 1..n PROVE admitted[v][i] + Window < now
      <4>1. CASE hits[v] = <<>>
        BY <3>2, <4>1
      <4>2. CASE hits[v] # <<>>
        <5>1. Len(hits[v]) \in 1..Len(hits[v]) /\ d + Len(hits[v]) = n /\ n \in 1..n
          BY <3>2, <4>2
        <5>2. hits[v][Len(hits[v])] = admitted[v][n] /\ hits[v][Len(hits[v])] + Window < now
          BY <3>1, <3>2, <4>2, <5>1 DEF IdleUser
        <5>3. admitted[v][i] <= admitted[v][n] /\ admitted[v][i] \in Nat /\ admitted[v][n] \in Nat
          <6>1. \A j \in 1..n : admitted[v][j] \in Nat
            BY <3>2
          <6>2. n \in 1..n /\ i <= n
            BY <5>1
          <6> QED
            BY <3>2, <6>1, <6>2 DEF InOrder
        <5> QED
          BY <1>0, <5>2, <5>3
      <4> QED
        BY <4>1, <4>2
    <3>4. Counted(v, n)'
      BY <1>3, <2>4, <3>2, <3>3 DEF Counted, Tracked
    <3> QED
      BY <1>3, <3>2, <3>4
  <2> QED
    BY <2>2, <2>3, <2>4
<1> QED
  BY <1>1, <1>2, <1>3

LEMMA AdmitKeeps ==
    ASSUME LimiterOK, NEW u \in Users, Admit(u)
    PROVE  LimiterOK'
<1> DEFINE n == Len(admitted[u])
           calls == Append(Recent(u), now)
           h == WithUser(u, calls)
<1>0. /\ now \in Nat /\ Window \in Nat /\ Limit \in Nat /\ Limit > 0 /\ now' = now
      /\ admitted[u] \in Seq(Nat) /\ n \in Nat
  BY LimiterBounds DEF LimiterOK, Admit
<1>1. /\ admitted' = [admitted EXCEPT ![u] = Append(@, now)]
      /\ hits' = Evicted(h) /\ Len(Recent(u)) < Limit
  BY DEF Admit
<1>2. PICK d \in 0..n : /\ \A i \in 1..d : admitted[u][i] + Window < now
                        /\ Recent(u) \in Seq(Nat)
                        /\ Len(Recent(u)) = n - d
                        /\ \A i \in 1..Len(Recent(u)) : Recent(u)[i] = admitted[u][d + i]
  BY CountedRecently
<1>3. /\ admitted' \in [Users -> Seq(Nat)]
      /\ \A v \in Users : v # u => admitted'[v] = admitted[v]
      /\ admitted'[u] = Append(admitted[u], now)
  BY <1>0, <1>1 DEF LimiterOK
<1>4. /\ admitted'[u] \in Seq(Nat) /\ Len(admitted'[u]) = n + 1 /\ admitted'[u][n + 1] = now
      /\ \A i \in 1..n : admitted'[u][i] = admitted[u][i]
  BY <1>0, <1>3
<1>5. /\ calls \in Seq(Nat) /\ Len(calls) = (n - d) + 1 /\ calls[Len(calls)] = now
      /\ \A i \in 1..(n - d) : calls[i] = admitted[u][d + i]
  BY <1>0, <1>2
<1> HIDE DEF calls
<1>6. /\ DOMAIN h = Tracked \cup {u} /\ h[u] = calls
      /\ \A v \in Tracked : v # u => h[v] = hits[v]
  BY DEF WithUser
<1>7. h[u] # <<>> /\ h[u][Len(h[u])] = now /\ u \in DOMAIN h
  BY <1>0, <1>5, <1>6
<1> HIDE DEF h
<1>8. /\ u \in DOMAIN hits' /\ hits'[u] = calls
      /\ \A v \in Users : v # u => \E e \in 0..Len(admitted'[v]) : Counted(v, e)'
  <2>1. /\ hits' = Evicted(h) /\ now' = now
        /\ DOMAIN h = Tracked \cup {u} /\ \A v \in Tracked : v # u => h[v] = hits[v]
    BY <1>0, <1>1, <1>6
  <2>2. /\ u \in DOMAIN hits' /\ hits'[u] = h[u]
        /\ \A v \in Users : v # u /\ admitted'[v] = admitted[v] =>
              \E e \in 0..Len(admitted'[v]) : Counted(v, e)'
    BY <1>7, <2>1, EvictedCounts
  <2> QED
    BY <1>3, <1>6, <2>2
<1>9. Counted(u, d)'
  <2>1. \A i \in 1..d : admitted'[u][i] + Window < now'
    <3>1. \A i \in 1..d : i \in 1..n
      BY <1>0, <1>2
    <3> QED
      BY <1>0, <1>2, <1>4, <3>1
  <2>2. ASSUME NEW i \in 1..Len(calls) PROVE calls[i] = admitted'[u][d + i]
    <3>1. CASE i \in 1..(n - d)
      <4>1. d + i \in 1..n
        BY <1>0, <1>2, <3>1
      <4> QED
        BY <1>4, <1>5, <3>1, <4>1
    <3>2. CASE i = (n - d) + 1
      <4>1. d + i = n + 1
        BY <1>0, <3>2
      <4> QED
        BY <1>4, <1>5, <3>2, <4>1
    <3> QED
      <4>1. n - d \in Nat
        BY <1>0, <1>2
      <4>2. i \in 1..(n - d) \/ i = (n - d) + 1
        BY <1>5, <4>1
      <4> QED
        BY <3>1, <3>2, <4>2
  <2>3. Len(calls) = Len(admitted'[u]) - d
    BY <1>0, <1>4, <1>5
  <2> QED
    BY <1>5, <1>8, <2>1, <2>2, <2>3 DEF Counted, Tracked
<1>10. \A v \in Users : InOrder(v)'
  <2>1. \A v \in Users : InOrder(v)
    BY DEF LimiterOK
  <2>2. ASSUME NEW v \in Users, v # u PROVE InOrder(v)'
    BY <1>0, <1>3, <2>1, <2>2 DEF InOrder
  <2>3. InOrder(u)'
    <3>1. \A i \in 1..(n + 1) : i \in 1..n \/ i = n + 1
      BY <1>0
    <3>2. \A i \in 1..(n + 1) : admitted'[u][i] <= now /\ admitted'[u][i] \in Nat
      <4>1. \A i \in 1..n : admitted[u][i] <= now /\ admitted[u][i] \in Nat
        BY <1>0, <2>1 DEF InOrder
      <4>2. \A i \in 1..n : admitted'[u][i] <= now /\ admitted'[u][i] \in Nat
        BY <1>4, <4>1
      <4>3. admitted'[u][n + 1] <= now /\ admitted'[u][n + 1] \in Nat
        BY <1>0, <1>4
      <4> QED
        BY <3>1, <4>2, <4>3
    <3>3. ASSUME NEW i \in 1..(n + 1), NEW j \in 1..(n + 1), i <= j
          PROVE  admitted'[u][i] <= admitted'[u][j]
      <4>1. CASE j = n + 1
        BY <1>4, <3>2, <4>1
      <4>2. CASE j \in 1..n
        <5>1. i \in 1..n
          BY <1>0, <3>3, <4>2
        <5> QED
          BY <1>4, <2>1, <3>3, <4>2, <5>1 DEF InOrder
      <4> QED
        BY <3>1, <4>1, <4>2
    <3> QED
      BY <1>0, <1>4, <3>2, <3>3 DEF InOrder
  <2> QED
    BY <2>2, <2>3
<1>11. WindowBounded'
  <2> SUFFICES ASSUME NEW v \in Users, NEW i \in 1..Len(admitted'[v]),
                      i + Limit <= Len(admitted'[v])
               PROVE  admitted'[v][i + Limit] > admitted'[v][i] + Window
    BY DEF WindowBounded
  <2>1. CASE v # u
    BY <1>3, <2>1 DEF LimiterOK, WindowBounded
  <2>2. CASE v = u
    <3>1. i \in 1..n /\ i + Limit \in 1..(n + 1) /\ i \in Nat
      BY <1>0, <1>4, <2>2
    <3>2. CASE i + Limit = n + 1
      <4>1. i \in 1..d
        BY <1>0, <1>1, <1>2, <3>1, <3>2
      <4>2. admitted[u][i] + Window < now /\ admitted[u][i] \in Nat
        <5>1. \A j \in 1..n : admitted[u][j] \in Nat
          BY <1>0
        <5> QED
          BY <1>2, <3>1, <4>1, <5>1
      <4> QED
        BY <1>0, <1>4, <2>2, <3>1, <3>2, <4>2
    <3>3. CASE i + Limit \in 1..n
      <4>1. admitted[u][i + Limit] > admitted[u][i] + Window
        BY <1>0, <3>1, <3>3 DEF LimiterOK, WindowBounded
      <4> QED
        BY <1>4, <2>2, <3>1, <3>3, <4>1
    <3> QED
      <4>1. i + Limit = n + 1 \/ i + Limit \in 1..n
        BY <1>0, <3>1
      <4> QED
        BY <3>2, <3>3, <4>1
  <2> QED
    BY <2>1, <2>2
<1>12. \A v \in Users : \E e \in 0..Len(admitted'[v]) : Counted(v, e)'
  <2>1. d \in 0..Len(admitted'[u])
    BY <1>0, <1>2, <1>4
  <2> QED
    BY <1>8, <1>9, <2>1
<1> QED
  BY <1>0, <1>3, <1>10, <1>11, <1>12 DEF LimiterOK

LEMMA ExceededKeeps ==
    ASSUME LimiterOK, NEW u \in Users, Exceeded(u)
    PROVE  LimiterOK'
<1>1. /\ hits' = WithUser(u, Recent(u)) /\ now' = now /\ admitted' = admitted
  BY DEF Exceeded
<1>2. /\ DOMAIN hits' = Tracked \cup {u} /\ hits'[u] = Recent(u)
      /\ \A v \in Tracked : v # u => hits'[v] = hits[v]
  BY <1>1 DEF WithUser
<1>3. ASSUME NEW v \in Users PROVE \E d \in 0..Len(admitted[v]) : Counted(v, d)'
  <2>1. CASE v = u
    <3>1. PICK d \in 0..Len(admitted[u]) : 
             /\ \A i \in 1..d : admitted[u][i] + Window < now
             /\ Recent(u) \in Seq(Nat)
             /\ Len(Recent(u)) = Len(admitted[u]) - d
             /\ \A i \in 1..Len(Recent(u)) : Recent(u)[i] = admitted[u][d + i]
      BY CountedRecently
    <3>2. Counted(u, d)'
      BY <1>1, <1>2, <3>1 DEF Counted, Tracked
    <3> QED
      BY <2>1, <3>2
  <2>2. CASE v # u
    <3>1. PICK d \in 0..Len(admitted[v]) : Counted(v, d)
      BY DEF LimiterOK
    <3>2. Counted(v, d)'
      BY <1>1, <1>2, <2>2, <3>1 DEF Counted, Tracked
    <3> QED
      BY <3>2
  <2> QED
    BY <2>1, <2>2
<1>4. \A v \in Users : InOrder(v)'
  BY <1>1 DEF LimiterOK, InOrder
<1>5. WindowBounded'
  BY <1>1 DEF LimiterOK, WindowBounded
<1> QED
  BY <1>1, <1>3, <1>4, <1>5 DEF LimiterOK

LEMMA TimeKeeps ==
    ASSUME LimiterOK, Tick \/ Forget \/ UNCHANGED limiterVars
    PROVE  LimiterOK'
<1>0. now \in Nat /\ Window \in Nat
  BY LimiterBounds DEF LimiterOK
<1>1. CASE Tick
  <2>1. now' = now + 1 /\ hits' = hits /\ admitted' = admitted
    BY <1>1 DEF Tick
  <2>2. ASSUME NEW u \in Users PROVE InOrder(u)' /\ \E d \in 0..Len(admitted[u]) : Counted(u, d)'
    <3>1. PICK d \in 0..Len(admitted[u]) : Counted(u, d)
      BY DEF LimiterOK
    <3>2. /\ admitted[u] \in Seq(Nat) /\ InOrder(u)
          /\ \A i \in 1..Len(admitted[u]) : admitted[u][i] \in Nat
      BY DEF LimiterOK
    <3>3. Counted(u, d)'
      BY <1>0, <2>1, <3>1, <3>2 DEF Counted, Tracked
    <3>4. \A i \in 1..Len(admitted[u]) : admitted[u][i] <= now'
      BY <1>0, <2>1, <3>2 DEF InOrder
    <3>5. InOrder(u)'
      BY <2>1, <3>2, <3>4 DEF InOrder
    <3> QED
      BY <3>3, <3>5
  <2>3. WindowBounded'
    BY <2>1 DEF LimiterOK, WindowBounded
  <2> QED
    BY <1>0, <2>1, <2>2, <2>3 DEF LimiterOK
<1>2. CASE Forget
  <2>1. hits' = <<>> /\ admitted' = [u \in Users |-> <<>>] /\ now' = now
    BY <1>2 DEF Forget
  <2>2. admitted' \in [Users -> Seq(Nat)] /\ \A u \in Users : Len(admitted'[u]) = 0
    BY <2>1
  <2>3. ASSUME NEW u \in Users PROVE InOrder(u)' /\ Counted(u, 0)' /\ 0 \in 0..Len(admitted'[u])
    BY <2>1, <2>2 DEF InOrder, Counted, Tracked
  <2>4. WindowBounded'
    BY <2>2 DEF WindowBounded
  <2> QED
    BY <1>0, <2>1, <2>2, <2>3, <2>4 DEF LimiterOK
<1>3. CASE UNCHANGED limiterVars
  BY <1>3 DEF limiterVars, LimiterOK, InOrder, Counted, Tracked, WindowBounded
<1> QED
  BY <1>1, <1>2, <1>3

\* No Window seconds see more than Limit calls of a user, for any limit, any
\* window and any number of users, whoever is evicted meanwhile
\* (core/ratelimit.py, check_rate_limit and _evict_idle).
THEOREM WindowNeverExceeded == Spec => []WindowBounded
<1>1. Init => LimiterOK
  <2> SUFFICES ASSUME Init PROVE LimiterOK
    OBVIOUS
  <2>1. hits = <<>> /\ admitted = [u \in Users |-> <<>>] /\ now = 0
    BY DEF Init, LimiterInit
  <2>2. admitted \in [Users -> Seq(Nat)] /\ \A u \in Users : Len(admitted[u]) = 0
    BY <2>1
  <2>3. ASSUME NEW u \in Users PROVE InOrder(u) /\ Counted(u, 0) /\ 0 \in 0..Len(admitted[u])
    BY <2>1, <2>2 DEF InOrder, Counted, Tracked
  <2>4. WindowBounded
    BY <2>2 DEF WindowBounded
  <2> QED
    BY <2>1, <2>2, <2>3, <2>4 DEF LimiterOK
<1>2. LimiterOK /\ [Next]_vars => LimiterOK'
  <2> SUFFICES ASSUME LimiterOK, [Next]_vars PROVE LimiterOK'
    OBVIOUS
  <2>1. User \in Users
    BY ChatConstants
  <2>2. ASSUME NEW r \in Requests, Serve(r) PROVE LimiterOK'
    <3>1. Admit(User) \/ UNCHANGED limiterVars
      BY <2>2 DEF Serve, BeginStream, BeginChat, Meta, Delta, BreakOff, Persist, Done, Cancelled,
                  Answer, ChatFails
    <3> QED
      BY <2>1, <3>1, AdmitKeeps, TimeKeeps
  <2>3. CASE Ask
    <3>1. Admit(User) \/ Exceeded(User) \/ UNCHANGED limiterVars
      BY <2>3 DEF Ask, Send, RefuseCall, StreamBreaks, GiveUp, NewConversation
    <3> QED
      BY <2>1, <3>1, AdmitKeeps, ExceededKeeps, TimeKeeps
  <2>4. ASSUME NEW s \in Sessions, EndSession(s) PROVE LimiterOK'
    BY <2>4, TimeKeeps DEF EndSession
  <2>5. ASSUME NEW u \in Users, Assist(u) PROVE LimiterOK'
    BY <2>5, AdmitKeeps, ExceededKeeps DEF Assist
  <2>6. CASE Tick \/ Restart \/ UNCHANGED vars
    BY <2>6, TimeKeeps DEF Restart, vars
  <2> QED
    BY <2>2, <2>3, <2>4, <2>5, <2>6 DEF Next
<1>3. LimiterOK => WindowBounded
  BY DEF LimiterOK
<1> QED
  BY <1>1, <1>2, <1>3, PTL DEF Spec

=============================================================================
