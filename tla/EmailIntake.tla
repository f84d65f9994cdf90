----------------------------- MODULE EmailIntake -----------------------------
(***************************************************************************)
(* The job that turns the support mailbox into tickets and comments.       *)
(*                                                                         *)
(* A run fetches what is unseen, flagging each mail as seen at once, and   *)
(* then handles the mails one after another in one database session.  A    *)
(* mail is recorded, routed to a ticket or a comment, and marked as        *)
(* processed; routing goes through TicketService, which commits by itself, *)
(* so a mail takes two commits.  Nothing rolls the session back between    *)
(* mails: after a statement that the database refused, every later one of  *)
(* the run is refused as well.                                             *)
(***************************************************************************)
EXTENDS Naturals

CONSTANTS
    Messages,     \* messages, by the id their record is stored under
    Deliveries,   \* mails that may arrive in the mailbox
    Content,      \* the message each delivery carries
    ReplyTo,      \* the message each message replies to, by its In-Reply-To
    Names,        \* the message whose ticket number it carries, in header or subject
    NoMessage,    \* not a reply, no number, or no message in hand
    Suspect,      \* messages that may score as spam, by their relay's headers too
    Unstorable,   \* messages whose record the database refuses
    Workers,      \* polling jobs, one per replica
    MaxFailures   \* bound: crashes, broken connections, failed statements, unreadable mails

ASSUME ContentIsMessage == Content \in [Deliveries -> Messages]
ASSUME ReplyIsMessage == ReplyTo \in [Messages -> Messages \cup {NoMessage}]
ASSUME NamesIsMessage == Names \in [Messages -> Messages \cup {NoMessage}]
ASSUME NoMessageIsNone == NoMessage \notin Messages
ASSUME KindsOfMessages == Suspect \subseteq Messages /\ Unstorable \subseteq Messages
ASSUME FailureBound == MaxFailures \in Nat

VARIABLES
    arrived,   \* deliveries that have reached the mailbox
    unseen,    \* those without the seen flag
    record,    \* status of each message's inbound_emails row, "none" without one
    made,      \* number of tickets made from each message
    comments,  \* number of comments made from each message
    stamped,   \* messages whose id is the email_message_id of their ticket
    run,       \* what each worker is doing
    failures   \* runs that have failed and mails that could not be parsed

mailbox == <<arrived, unseen>>
stored == <<record, made, comments, stamped>>
intakeVars == <<mailbox, stored, run, failures>>

\* EmailStatus.
EmailStatuses == {"pending", "processed", "failed", "spam", "duplicate"}

\* A run: the mails the search listed, those fetched and not handled yet, the
\* message in hand, whether a ticket was found for it, and the records marked as
\* duplicates by statements that no commit has followed.
Run == [pc: {"idle", "fetching", "handling", "inserting", "routing",
             "committing", "finishing"},
        listed: SUBSET Deliveries, fetched: SUBSET Deliveries,
        mail: Messages \cup {NoMessage}, found: BOOLEAN, repeated: SUBSET Messages]

Idle == [pc |-> "idle", listed |-> {}, fetched |-> {}, mail |-> NoMessage,
         found |-> FALSE, repeated |-> {}]

IntakeInit ==
    /\ arrived = {}
    /\ unseen = {}
    /\ record = [m \in Messages |-> "none"]
    /\ made = [m \in Messages |-> 0]
    /\ comments = [m \in Messages |-> 0]
    /\ stamped = {}
    /\ run = [w \in Workers |-> Idle]
    /\ failures = 0

\* A mail reaches the mailbox.  A message sent twice, or whose seen flag
\* somebody clears, is two deliveries of one message.
Deliver(d) ==
    /\ d \notin arrived
    /\ arrived' = arrived \cup {d}
    /\ unseen' = unseen \cup {d}
    /\ UNCHANGED <<stored, run, failures>>

---------------------------------------------------------------------------
(***************************************************************************)
(* Fetching: _poll_imap_sync.                                              *)
(***************************************************************************)

StartPoll(w) ==
    /\ run[w].pc = "idle"
    /\ unseen # {}
    /\ run' = [run EXCEPT ![w] = [Idle EXCEPT !.pc = "fetching", !.listed = unseen]]
    /\ UNCHANGED <<mailbox, stored, failures>>

\* One mail is fetched and flagged as seen.
FetchMail(w) ==
    /\ run[w].pc = "fetching"
    /\ \E d \in run[w].listed :
          /\ run' = [run EXCEPT ![w].listed = @ \ {d}, ![w].fetched = @ \cup {d}]
          /\ unseen' = unseen \ {d}
    /\ UNCHANGED <<arrived, stored, failures>>

\* The list is done, or the connection breaks, perhaps when the server has already
\* flagged the mail it is sending: what was fetched is handled.
EndFetch(w) ==
    /\ run[w].pc = "fetching"
    /\ \/ run[w].listed = {} /\ UNCHANGED <<unseen, failures>>
       \/ /\ failures < MaxFailures
          /\ failures' = failures + 1
          /\ \E d \in run[w].listed : unseen' \in {unseen, unseen \ {d}}
    /\ run' = [run EXCEPT ![w].pc = "handling", ![w].listed = {}]
    /\ UNCHANGED <<arrived, stored>>

---------------------------------------------------------------------------
(***************************************************************************)
(* Handling: process_inbound_email, mail by mail.                          *)
(***************************************************************************)

\* The records a commit of worker w leaves, with message m at status s.
Recorded(w, m, s) ==
    [x \in Messages |-> IF x = m THEN s
                        ELSE IF x \in run[w].repeated THEN "duplicate" ELSE record[x]]

\* The worker turns to the next mail.
NextMail(w) ==
    run' = [run EXCEPT ![w].pc = "handling", ![w].mail = NoMessage,
                       ![w].found = FALSE, ![w].repeated = {}]

\* The lookup by Message-ID: a record that exists is marked as a duplicate, and
\* that is all; a message without one is taken in hand.
TakeMail(w) ==
    /\ run[w].pc = "handling"
    /\ \E d \in run[w].fetched :
          IF record[Content[d]] # "none"
          THEN run' = [run EXCEPT ![w].fetched = @ \ {d},
                                  ![w].repeated = @ \cup {Content[d]}]
          ELSE run' = [run EXCEPT ![w].fetched = @ \ {d}, ![w].mail = Content[d],
                                  ![w].pc = "inserting"]
    /\ UNCHANGED <<mailbox, stored, failures>>

\* A mail that cannot be parsed is logged and gone; the session is not touched.
DropMail(w) ==
    /\ run[w].pc = "handling"
    /\ failures < MaxFailures
    /\ failures' = failures + 1
    /\ \E d \in run[w].fetched : run' = [run EXCEPT ![w].fetched = @ \ {d}]
    /\ UNCHANGED <<mailbox, stored>>

\* The uniqueness of message_id: an insert waits for an uncommitted one of the
\* same id and is refused after a committed one.
MayInsert(w, m) ==
    /\ record[m] = "none"
    /\ m \notin Unstorable
    /\ \A v \in Workers \ {w} : ~(run[v].mail = m /\ run[v].pc \in {"routing", "committing"})

\* The record is inserted; that of a spam mail is committed there and then.
InsertRecord(w) ==
    LET m == run[w].mail IN
    /\ run[w].pc = "inserting"
    /\ MayInsert(w, m)
    /\ \/ m \in Suspect /\ record' = Recorded(w, m, "spam") /\ NextMail(w)
       \/ record' = record /\ run' = [run EXCEPT ![w].pc = "routing"]
    /\ UNCHANGED <<mailbox, made, comments, stamped, failures>>

\* _find_existing_ticket: one whose number the mail carries, or that carries the
\* id the mail replies to.
FindTicket(w) ==
    LET m == run[w].mail IN
    /\ run[w].pc = "routing"
    /\ run' = [run EXCEPT ![w].pc = "committing",
                          ![w].found = \/ ReplyTo[m] \in stamped
                                       \/ \E x \in Messages : x = Names[m] /\ made[x] > 0]
    /\ UNCHANGED <<mailbox, stored, failures>>

\* Mutant: the service uses a session of its own, so that its commit does not
\* take the record along.
CommitRouting_OwnSession(w) ==
    LET m == run[w].mail IN
    /\ run[w].pc = "committing"
    /\ IF run[w].found
       THEN comments' = [comments EXCEPT ![m] = @ + 1] /\ UNCHANGED made
       ELSE made' = [made EXCEPT ![m] = @ + 1] /\ UNCHANGED comments
    /\ run' = [run EXCEPT ![w].pc = "finishing"]
    /\ UNCHANGED <<mailbox, record, stamped, failures>>

\* create_ticket or add_comment, whose commit takes the pending record along.
CommitRouting(w) ==
    LET m == run[w].mail IN
    /\ run[w].pc = "committing"
    /\ record' = Recorded(w, m, "pending")
    /\ IF run[w].found
       THEN comments' = [comments EXCEPT ![m] = @ + 1] /\ UNCHANGED made
       ELSE made' = [made EXCEPT ![m] = @ + 1] /\ UNCHANGED comments
    /\ run' = [run EXCEPT ![w].pc = "finishing", ![w].repeated = {}]
    /\ UNCHANGED <<mailbox, stamped, failures>>

\* Mutant: the status is set whether or not the routing raised.
RoutingFails_Processed(w) ==
    /\ run[w].pc = "committing"
    /\ record' = Recorded(w, run[w].mail, "processed")
    /\ NextMail(w)
    /\ UNCHANGED <<mailbox, made, comments, stamped, failures>>

\* Routing raises before its commit, for a reason of its own (nobody to report
\* the ticket, data the ticket form refuses).
RoutingFails(w) ==
    /\ run[w].pc = "committing"
    /\ record' = Recorded(w, run[w].mail, "failed")
    /\ NextMail(w)
    /\ UNCHANGED <<mailbox, made, comments, stamped, failures>>

\* The second commit: the ticket gets the message id, the record its status.
FinishMail(w) ==
    LET m == run[w].mail IN
    /\ run[w].pc = "finishing"
    /\ record' = Recorded(w, m, "processed")
    /\ stamped' = IF run[w].found THEN stamped ELSE stamped \cup {m}
    /\ NextMail(w)
    /\ UNCHANGED <<mailbox, made, comments, failures>>

\* Mutant: the loop returns after its first mail.
EndPoll_AfterFirst(w) ==
    /\ run[w].pc = "handling"
    /\ record' = Recorded(w, NoMessage, "none")
    /\ run' = [run EXCEPT ![w] = Idle]
    /\ UNCHANGED <<mailbox, made, comments, stamped, failures>>

\* The job's own commit.
EndPoll(w) ==
    /\ run[w].pc = "handling"
    /\ run[w].fetched = {}
    /\ record' = Recorded(w, NoMessage, "none")
    /\ run' = [run EXCEPT ![w] = Idle]
    /\ UNCHANGED <<mailbox, made, comments, stamped, failures>>

\* The database refuses the record: its transaction is gone, and with it the
\* session, which nobody rolls back.  Each remaining mail raises and is logged.
RefuseRecord(w) ==
    LET m == run[w].mail IN
    /\ run[w].pc = "inserting"
    /\ record[m] # "none" \/ m \in Unstorable
    /\ run' = [run EXCEPT ![w] = Idle]
    /\ failures' = failures + 1
    /\ UNCHANGED <<mailbox, stored>>

\* Any other statement of the run fails, or the process dies: the same.
AbandonPoll(w) ==
    /\ run[w].pc # "idle"
    /\ failures < MaxFailures
    /\ failures' = failures + 1
    /\ run' = [run EXCEPT ![w] = Idle]
    /\ UNCHANGED <<mailbox, stored>>

Poll(w) ==
    \/ StartPoll(w) \/ FetchMail(w) \/ EndFetch(w)
    \/ TakeMail(w) \/ InsertRecord(w) \/ FindTicket(w)
    \/ CommitRouting(w) \/ RoutingFails(w) \/ FinishMail(w)
    \/ EndPoll(w) \/ RefuseRecord(w)

IntakeNext ==
    \/ \E d \in Deliveries : Deliver(d)
    \/ \E w \in Workers : Poll(w) \/ DropMail(w) \/ AbandonPoll(w)

\* The scheduler starts the job every two minutes, one run of it per process.
Fairness == \A w \in Workers : WF_intakeVars(Poll(w))

IntakeSpec == IntakeInit /\ [][IntakeNext]_intakeVars

FairIntakeSpec == IntakeSpec /\ Fairness

---------------------------------------------------------------------------
(***************************************************************************)
(* Properties.                                                             *)
(***************************************************************************)

\* The mailbox, the stored rows and the runs have the shape of the code's.
IntakeTypeOK ==
    /\ arrived \subseteq Deliveries
    /\ unseen \subseteq arrived
    /\ record \in [Messages -> EmailStatuses \cup {"none"}]
    /\ made \in [Messages -> Nat]
    /\ comments \in [Messages -> Nat]
    /\ stamped \subseteq Messages
    /\ run \in [Workers -> Run]
    /\ failures \in Nat

\* "A mailbox re-scan cannot create the same ticket twice": a message becomes
\* one ticket or one comment at most, although it is delivered again, its run
\* dies between the two commits, or two replicas fetch it together.
OneOutcome == \A m \in Messages : made[m] + comments[m] <= 1

\* A record marked as processed tells the truth: the message became a ticket or
\* a comment, and a ticket of its own carries its id, so that replies find it.
ProcessedIsComplete ==
    \A m \in Messages :
        record[m] = "processed" =>
            /\ made[m] + comments[m] = 1
            /\ made[m] = 1 => m \in stamped

\* "A silently dropped customer email is not" recoverable: while nothing fails,
\* every mail that arrives is recorded in the end, whatever it is.  A mail is
\* flagged as seen before it is handled, so a failing run does drop mails, those
\* after one that the database refuses among them.
RecordedUnlessFailure ==
    \A d \in Deliveries :
        d \in arrived ~> (record[Content[d]] # "none" \/ failures > 0)

=============================================================================
