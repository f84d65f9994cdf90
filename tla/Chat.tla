-------------------------------- MODULE Chat --------------------------------
(***************************************************************************)
(* The assistant: chat sessions on the server, and the widget that asks.   *)
(*                                                                         *)
(* The widget streams an answer and, when the stream breaks before a word  *)
(* has arrived, asks again at the blocking endpoint.  The server stores a  *)
(* question and its answer together, once the answer is known, and with    *)
(* them the row that logs the call; a request whose client is gone may go  *)
(* on or be cancelled.                                                     *)
(***************************************************************************)
EXTENDS RateLimit

CONSTANTS
    User,       \* the user of the widget
    Sessions,   \* the chat sessions that can be created
    Requests,   \* questions that may be before the server at the same time
    MaxClock,   \* bound: moments at which messages are stamped
    NoSession,
    Idle        \* no request in this slot

ASSUME ChatConstants == User \in Users /\ NoSession \notin Sessions /\ MaxClock \in Nat

\* turn: the instant a question is asked, which also names question and answer.
Message == [session : Sessions, turn : 1..MaxClock, role : {"user", "assistant"},
            at : 1..MaxClock]

\* A chat session is committed before a stream begins and with the answer of a
\* blocking call (step "posted").  client: the widget still listens.
Request == [session : Sessions, client : BOOLEAN, asked : 0..MaxClock,
            step : {"open", "asking", "replying", "answered", "stored", "posted"}]

Widget == [session : Sessions \cup {NoSession}, sent : Sessions \cup {NoSession},
           phase : {"idle", "sending", "streaming", "retrying", "waiting"},
           streamed : BOOLEAN, cleared : BOOLEAN, shown : SUBSET (1..MaxClock)]

VARIABLES
    session,    \* chat_sessions: free, pending (not committed), active, ended
    messages,   \* chat_messages
    clock,      \* datetime.now
    req,        \* the questions before the server
    widget      \* AIChatWidget: its session, the call under way, what is on screen

chatVars == <<session, messages, clock, req, widget>>
vars == <<limiterVars, chatVars>>

Init ==
    /\ LimiterInit
    /\ session = [s \in Sessions |-> "free"]
    /\ messages = {}
    /\ clock = 0
    /\ req = [r \in Requests |-> Idle]
    /\ widget = [session |-> NoSession, sent |-> NoSession, phase |-> "idle",
                 streamed |-> FALSE, cleared |-> FALSE, shown |-> {}]

---------------------------------------------------------------------------
(* The server.                                                             *)

At(r, step) == req[r] # Idle /\ req[r].step = step

\* _resolve_chat_session: the active session named, or a new one.
Resolves(s, created) ==
    IF widget.sent = NoSession
    THEN session[s] = "free" /\ session' = [session EXCEPT ![s] = created]
    ELSE s = widget.sent /\ session[s] = "active" /\ UNCHANGED session

\* chat_stream, up to the response: the session is committed.
BeginStream(r, s) ==
    /\ widget.phase = "sending" /\ req[r] = Idle
    /\ Admit(User)
    /\ Resolves(s, "active")
    /\ req' = [req EXCEPT ![r] = [session |-> s, client |-> TRUE, asked |-> 0,
                                  step |-> "open"]]
    /\ widget' = [widget EXCEPT !.phase = "streaming"]
    /\ UNCHANGED <<messages, clock>>

\* A call that is refused: the limit, or a session that has ended.
RefuseCall ==
    /\ widget.phase \in {"sending", "retrying"}
    /\ \/ Exceeded(User)
       \/ /\ Admit(User)
          /\ widget.sent # NoSession /\ session[widget.sent] # "active"
    /\ widget' = [widget EXCEPT !.phase = IF @ = "sending" THEN "retrying" ELSE "idle"]
    /\ UNCHANGED <<session, messages, clock, req>>

\* The generator's first yield, and asked_at.
Meta(r) ==
    /\ At(r, "open")
    /\ clock < MaxClock
    /\ clock' = clock + 1
    /\ req' = [req EXCEPT ![r].step = "asking", ![r].asked = clock + 1]
    /\ widget' = IF req[r].client THEN [widget EXCEPT !.session = req[r].session] ELSE widget
    /\ UNCHANGED <<limiterVars, session, messages>>

\* Something to read: a token, or (the model failed before one) the hint.
Delta(r, last) ==
    /\ req[r] # Idle /\ req[r].step \in {"asking", "replying"}
    /\ req' = [req EXCEPT ![r].step = IF last THEN "answered" ELSE "replying"]
    /\ widget' = IF req[r].client THEN [widget EXCEPT !.streamed = TRUE] ELSE widget
    /\ UNCHANGED <<limiterVars, session, messages, clock>>

\* The model ends without another word, or fails: what has come is the answer.
BreakOff(r) ==
    /\ req[r] # Idle /\ req[r].step \in {"asking", "replying"}
    /\ req' = [req EXCEPT ![r].step = "answered"]
    /\ UNCHANGED <<limiterVars, session, messages, clock, widget>>

\* Mutant: both rows carry the time the transaction began.
Turn_OneInstant(s, asked, at) ==
    {[session |-> s, turn |-> asked, role |-> role, at |-> at] : role \in {"user", "assistant"}}

Turn(s, asked, at) ==
    {[session |-> s, turn |-> asked, role |-> "user", at |-> asked],
     [session |-> s, turn |-> asked, role |-> "assistant", at |-> at]}

\* A session of its own writes question, answer and log row.
Persist(r) ==
    /\ At(r, "answered")
    /\ clock < MaxClock
    /\ clock' = clock + 1
    /\ messages' = messages \cup Turn(req[r].session, req[r].asked, clock + 1)
    /\ req' = [req EXCEPT ![r].step = "stored"]
    /\ UNCHANGED <<limiterVars, session, widget>>

\* done, with the stored message's id; or without one when storing it failed,
\* in which case the answer on screen is one the server does not have.
Done(r) ==
    /\ req[r] # Idle /\ req[r].step \in {"answered", "stored"}
    /\ req' = [req EXCEPT ![r] = Idle]
    /\ widget' = IF req[r].client
                 THEN [widget EXCEPT !.phase = "idle",
                         !.shown = IF req[r].step = "stored" THEN @ \cup {req[r].asked} ELSE @]
                 ELSE widget
    /\ UNCHANGED <<limiterVars, session, messages, clock>>

\* The generator is cancelled when it next yields to a client that is gone.
Cancelled(r) ==
    /\ req[r] # Idle /\ ~req[r].client /\ req[r].step # "posted"
    /\ req' = [req EXCEPT ![r] = Idle]
    /\ UNCHANGED <<limiterVars, session, messages, clock, widget>>

\* POST /ai/chat: everything in one transaction.
BeginChat(r, s) ==
    /\ widget.phase = "retrying" /\ req[r] = Idle
    /\ clock < MaxClock
    /\ clock' = clock + 1
    /\ Admit(User)
    /\ Resolves(s, "pending")
    /\ req' = [req EXCEPT ![r] = [session |-> s, client |-> TRUE, asked |-> clock + 1,
                                  step |-> "posted"]]
    /\ widget' = [widget EXCEPT !.phase = "waiting"]
    /\ UNCHANGED messages

\* Mutant: the widget keeps the session it had.
ShowAnswer_KeepsSession(r) ==
    [widget EXCEPT !.phase = "idle", !.shown = @ \cup {req[r].asked}]

\* sendChatMessage resolves; "New conversation" may have taken the placeholder
\* of the answer off the screen.
ShowAnswer(r) ==
    [widget EXCEPT !.phase = "idle", !.session = req[r].session,
                   !.shown = IF widget.cleared THEN @ ELSE @ \cup {req[r].asked}]

\* The answer, a hint if the model failed, and the commit.
Answer(r) ==
    /\ At(r, "posted")
    /\ clock < MaxClock
    /\ clock' = clock + 1
    /\ messages' = messages \cup Turn(req[r].session, req[r].asked, clock + 1)
    /\ session' = [session EXCEPT ![req[r].session] = IF @ = "pending" THEN "active" ELSE @]
    /\ req' = [req EXCEPT ![r] = Idle]
    /\ widget' = IF req[r].client THEN ShowAnswer(r) ELSE widget
    /\ UNCHANGED limiterVars

Unbegun(r) ==
    [s \in Sessions |-> IF s = req[r].session /\ session[s] = "pending" THEN "free" ELSE session[s]]

ChatFails(r) ==
    /\ At(r, "posted")
    /\ session' = Unbegun(r)
    /\ req' = [req EXCEPT ![r] = Idle]
    /\ widget' = IF req[r].client THEN [widget EXCEPT !.phase = "idle"] ELSE widget
    /\ UNCHANGED <<limiterVars, messages, clock>>

\* DELETE /ai/sessions/{id}: turns under way are not asked.
EndSession(s) ==
    /\ session[s] = "active"
    /\ session' = [session EXCEPT ![s] = "ended"]
    /\ UNCHANGED <<limiterVars, messages, clock, req, widget>>

\* POST /ai/categorize and /ai/extract-email: a call and its log row.
Assist(u) ==
    /\ Admit(u) \/ Exceeded(u)
    /\ UNCHANGED chatVars

\* The process dies: its calls break, what they have not committed is gone.
Restart ==
    /\ Forget
    /\ req' = [r \in Requests |-> Idle]
    /\ session' = [s \in Sessions |-> IF session[s] = "pending" THEN "free" ELSE session[s]]
    /\ widget' = [widget EXCEPT !.phase =
                    IF @ \in {"sending", "streaming"} /\ ~widget.streamed
                    THEN "retrying" ELSE "idle"]
    /\ UNCHANGED <<messages, clock>>

---------------------------------------------------------------------------
(* The widget.                                                             *)

\* handleSend: the session is the one known now, also for a second attempt.
Send ==
    /\ widget.phase = "idle"
    /\ widget' = [widget EXCEPT !.phase = "sending", !.sent = widget.session,
                             !.streamed = FALSE, !.cleared = FALSE]
    /\ UNCHANGED <<limiterVars, session, messages, clock, req>>

Unheard(step) == [r \in Requests |->
    IF req[r] # Idle /\ (req[r].step = "posted") = (step = "posted")
    THEN [req[r] EXCEPT !.client = FALSE] ELSE req[r]]

\* The stream breaks: asked again if nothing has arrived.
StreamBreaks ==
    /\ widget.phase \in {"sending", "streaming"}
    /\ req' = Unheard("stream")
    /\ widget' = [widget EXCEPT !.phase = IF widget.streamed THEN "idle" ELSE "retrying"]
    /\ UNCHANGED <<limiterVars, session, messages, clock>>

\* The blocking call times out or does not get through.
GiveUp ==
    /\ widget.phase \in {"retrying", "waiting"}
    /\ req' = Unheard("posted")
    /\ widget' = [widget EXCEPT !.phase = "idle"]
    /\ UNCHANGED <<limiterVars, session, messages, clock>>

\* handleNewSession aborts a stream; a blocking call is not abortable.
NewConversation ==
    /\ req' = IF widget.phase = "streaming" THEN Unheard("stream") ELSE req
    /\ widget' = [widget EXCEPT !.session = NoSession, !.shown = {},
                    !.cleared = TRUE,
                    !.phase = IF @ \in {"sending", "streaming"} THEN "idle" ELSE @]
    /\ UNCHANGED <<limiterVars, session, messages, clock>>

---------------------------------------------------------------------------

Serve(r) ==
    \/ \E s \in Sessions : BeginStream(r, s) \/ BeginChat(r, s)
    \/ Meta(r)
    \/ \E last \in BOOLEAN : Delta(r, last)
    \/ BreakOff(r)
    \/ Persist(r)
    \/ Done(r)
    \/ Cancelled(r)
    \/ Answer(r)
    \/ ChatFails(r)

Ask ==
    \/ Send
    \/ RefuseCall
    \/ StreamBreaks
    \/ GiveUp
    \/ NewConversation

Next ==
    \/ \E r \in Requests : Serve(r)
    \/ Ask
    \/ \E s \in Sessions : EndSession(s)
    \/ \E u \in Users : Assist(u)
    \/ Tick /\ UNCHANGED chatVars
    \/ Restart

Spec == Init /\ [][Next]_vars

---------------------------------------------------------------------------

TypeOK ==
    /\ LimiterTypeOK
    /\ session \in [Sessions -> {"free", "pending", "active", "ended"}]
    /\ messages \subseteq Message
    /\ clock \in 0..MaxClock
    /\ req \in [Requests -> Request \cup {Idle}]
    /\ widget \in Widget

\* _load_history orders a session's messages by created_at, and equal times
\* come in any order.
MayPrecede(m, n) == m.session = n.session /\ m.at <= n.at

\* A stored question has its answer and the other way round, in a session that
\* has begun, and no history the model is given has an answer ahead of its
\* question, however the turns of two calls overlap (routes/ai_chat.py, chat
\* and chat_stream).
TurnsAreWhole ==
    \A m \in messages :
        /\ session[m.session] \in {"active", "ended"}
        /\ \E n \in messages : /\ n.turn = m.turn /\ n.role # m.role
                               /\ n.session = m.session
        /\ \A n \in messages :
              n.turn = m.turn /\ n.role = "user" /\ m.role = "assistant" => ~MayPrecede(m, n)

\* The answers on screen with a stored id are in the session the next question
\* resumes, across a retry that opened a second session and a conversation
\* begun anew (components/AIChatWidget.tsx, handleSend and handleNewSession).
ShownIsInSession ==
    widget.phase = "idle" =>
        \A t \in widget.shown : \E m \in messages : m.turn = t /\ m.session = widget.session

=============================================================================
