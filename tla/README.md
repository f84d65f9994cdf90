# Verification of the internal banking ticketing system

TLA+ specifications of the backend in `src/backend/app`, TLC configurations
that check them on small instances, and TLAPS proofs about them for every value
of the constants. Paths below are relative to `src/backend/app/` unless they
start with `src/`, `docs/` or `README.md` (the repository's own).

Check a model with `tlc -config <run>.cfg <module>.tla` and a proof with
`tlapm <module>_proofs.tla`.

## 1. The system

One FastAPI process serves the API and hosts two scheduled jobs; all state that
lasts is in PostgreSQL and an object store. Everything runs on one event loop,
but every `await` on the database is a point where other requests and jobs run,
and `docs/05` (OPS-2) describes a second replica as the next step. Sessions are
READ COMMITTED, there is no version column, `SELECT ... FOR UPDATE` occurs only
in the ticket numbering, and nothing commits unless the handler says so
(`db/session.py`: `autoflush=False`, `expire_on_commit=False`, rollback on any
exception). So the shape of nearly every operation is *load, check what was
loaded, set attributes, commit the attributes that changed*, and most of what
can go wrong lies between the load and the commit.

| Component | State | Operations | Hard behaviour | What makes it correct |
|---|---|---|---|---|
| Ticket lifecycle (`routes/tickets.py`, `services/ticket_service.py`) | ticket row: status, response/resolution/closing stamps, reopen count, duplicate mark | create, status change, assign, mark duplicate, comment, escalate | two requests working from one loaded row | each move is on the table from what its request saw; a closed, resolved, reopened or worked ticket carries its evidence; no evidence lost |
| SLA clock (`services/sla_service.py`, pause/resume in `routes/tickets.py`) | deadline and pause time, on the ticket and again on `sla_tracking` | stamp at creation, pause, resume, breach check | overlapping resumes; two copies of one fact | the deadline moves by the paused time; a breach is flagged when it is one |
| Escalation engine and SLA worker (`services/escalation_service.py`, `workers/sla_worker.py`) | `escalation_events`, breach flags on two tables, the job's batch | scheduled run: select, mark, commit, mail; manual escalation | check-then-insert, batch transactions, crash between commit and mail, replicas | no more events of a trigger than were decided at the same time; flags agree; mail follows commit; every breach found in the end |
| Database session (`db/session.py`) | a transaction per request or run | load, commit, rollback | column-wise merge of concurrent updates | modelled inside each of the others |
| Email intake (`services/email_service.py`, `workers/email_worker.py`) | `inbound_emails`, the IMAP seen flag | poll, deduplicate, route to a ticket or a comment | crash between seen flag and record, a commit inside the routing, redelivery | each mail handled once; a record tells what was done |
| Ticket numbering (`services/ticket_seq_service.py`, `ticket_service.generate_ticket_number`) | `ticket_sequences`, counts of tickets | next number | the first row of a year, count plus one, a creation that fails | numbers are unique, a sequence has no gaps, trying again works |
| Auto-routing (`services/routing_service.py`) | none of its own | pick the least loaded agent | counts read before other commits | loads stay close |
| Authentication (`services/auth_service.py`, `routes/auth.py`) | accounts, second factor, recovery codes, refresh tokens | login, enrolment, reset, refresh, logout | writes before a raised error, two requests on one token or code | a spent code buys nothing more; a rotated token is dead; codes are of the enrolment in force |
| Web client (`src/frontend/src/lib/api.ts`, `store/auth.ts`, `pages/SecurityPage.tsx`, `components/AIChatWidget.tsx`) | tokens in local storage and in each tab, a chat on screen | sign in and out, refresh, reload, ask | a refresh shared within one tab only; late answers | the stored token works; answers shown are of the session shown |
| Organisation tree and scoping (`services/org_service.py`, `routes/org.py`, filters in six modules) | `org_units.parent_id`, levels, roles, the caller's account | create, move, deactivate, delete; every scoped read | a walk of many statements, cycles, a check before a delete | the walk ends; nobody is shown what they had no right to; nothing is missed |
| Branches and categories (`routes/branches.py`, `routes/categories.py`) | rows with codes | create, change the code, list with counts | look-up before insert, with and without a unique index | one row per code |
| Dashboard and reports (`routes/dashboard.py`, `services/report_service.py`) | none | KPIs, charts, export | the scope while the tree moves | with scoping |
| Attachments (`services/storage_service.py`, `routes/tickets.py`) | rows and objects in two stores | upload, delete | cut off between the stores | a row has its object |
| Backup and restore (`src/backend/scripts`) | backup sets | dump, copy, manifest, prune, restore, verify | requests go on; a script that fails or is killed, also between two files | a set lacks nothing; a verified restore is sound; old sets survive |
| AI assistant (`routes/ai_chat.py`, `services/chat_context.py`) | chat sessions, messages | ask by stream or by a blocking call, end a session | a streamed answer is stored by a second transaction; cut streams; retries | turns are whole and in order |
| AI rate limiter (`core/ratelimit.py`) | recent calls per user, in memory | admit, refuse, evict | sliding window, eviction of users at its limit | no window sees more than the quota |
| AI providers, notifications, audit log, users, health, migrations, seed | rows written once or read only | - | little | section 7 |

Components call each other directly: ticket creation calls the SLA service and
the router in its own transaction; the escalate endpoint and the SLA worker call
the escalation engine in theirs, and the notification service after the commit;
the email job calls `TicketService`, which commits by itself. The jobs, the
requests and the scripts meet only through the database and the object store,
the browser and the server through calls whose answers may not arrive.

## 2. Modules

Dependencies: `TicketLifecycle` is extended by `TicketRequests`, `SlaClock`,
`Escalation`, `LifecycleContract` and `Accounts`; `AuthSession` extends
`Accounts`, `Chat` extends `RateLimit`, `Visibility` extends `OrgTree`, and
`Administration` composes `Visibility` with `Catalogue`. The `MC*` modules
extend the module they instantiate; the `*_proofs` modules the one they are
about, `Creation_proofs` both of those that make tickets.

**TicketLifecycle** is the shared vocabulary: the statuses, `OPEN_STATUSES`,
`VALID_TRANSITIONS`, the test the status endpoint applies (asking for the
present status skips the table), and `Column`, what a flush leaves in one column.

**TicketRequests** models `routes/tickets.py` over rows. `LoadTicket` is
`_get_ticket_or_404`: it copies the committed row into the request's
transaction. Each handler is one action, from the loaded row to the commit,
where `Merge` writes the columns that differ from what was loaded into the row
as it then stands. `Rollback` covers every refusal, error and lost client.

- Any number of statements may run between load and commit, but none of them
  writes before the flush, and the flush takes the row lock: so merging at the
  commit is what the table sees. A wait for the row lock only orders commits.
- Timestamps are booleans because handlers only test them for being empty.
- The escalate endpoint flushes explicitly (`escalation_service.py`, the event's
  insert) and holds the ticket's row lock from there to its commit. The lock is
  not modelled: it only delays the commit of whoever comes second.
- `worked` and `overtaken` are history variables: tickets that were in progress
  or escalated, and tickets whose status was stored over one that the writing
  request had not loaded (`Overtakes`).
- Roles: a branch user may only close or reopen; every other role that may
  write is treated alike. Row scoping (who may see a ticket) is Visibility's.
- Left out: `PATCH` of descriptive fields, watchers, feedback, AI columns. None
  of these writes a column of `Row`.

**LifecycleContract** is the abstract promise about a ticket's status alone: a
client looks at a ticket (`Look`) and may then, once, store a status that the
table allows from what it saw (`Act`), or let it be (`Forget`). Whatever others do
in between is not promised anything about, because the code does not look again.
`TicketRequests!ImplementsContract` states that the API implements it with any
number of requests overlapping. The mapping takes `status` from the committed rows
("not raised" before creation) and `view` from the rows the open requests loaded.
The stronger promise, that every *stored* status follows from the stored one, is
`StoredMovesAreLegal`, which the code breaks (run `TicketJump`).

**SlaClock** keeps the two copies of the deadline apart (`clock` on the ticket,
`tracking` on `sla_tracking`), a clock, the pause and resume endpoints in
load/commit form, and the breach query of the worker. The response deadline is
extended by the same statement as the resolution deadline and is left out.
`pausedFor` and `overlapped` are history variables.
`SLAService.pause_sla`, `resume_sla` and `check_breaches`, which do write
the tracking row, are not called by any route or job and are not modelled.

**Escalation** models the worker's run as the steps it has (`SelectBatch`, one
`MarkTicket` per row, `CommitRun`, one `NotifyRun` per mail, `EndRun`), with the
effects held back until the commit, and the manual endpoint as `PassChecks`
(the engine's look for an open event) and `CommitEscalation`, so that other
transactions run in between. `AbandonRun` is an exception in the run or the
death of the process. Which rule matches is the constant `Ruled`, its
`trigger_after_minutes` is `Grace`; the new owner is left out. Deadlines are
constants here, since SlaClock has what moves them, but there are two of each:
the run selects by the tracking row's (`Deadline`), the grace counts from the
ticket's (`TicketDue`), which a resume moves alone. Events are counted, since nothing
in the code ever sets `resolved_at`.

**EscalationContract** is the abstract promise, for each ticket and trigger: to
escalate one has to claim it while it has not been raised (`Claim`), a claim is
worth one escalation (`Raise`) or none (`GiveUp`), an escalation at most one
announcement (`Tell`). Claims do not exclude each other, as the code's look for an
open event does not. The mapping reads the claims off the runs and requests that
have passed the look and not committed (`ClaimsShown`).

**EmailIntake** models the polling job of each replica, mail by mail.
`StartPoll`, `FetchMail` and `EndFetch` are the IMAP half (`_poll_imap_sync`):
every mail gets its seen flag as it is fetched, before anything is stored.
`TakeMail`, `InsertRecord`, `FindTicket`, `CommitRouting`, `RoutingFails` and
`FinishMail` are `process_inbound_email`.

- A mail takes two commits, because `TicketService.create_ticket` and
  `add_comment` commit by themselves; the first takes the inserted record along
  at status `pending`, the second sets `processed` and puts the message id on
  the ticket. `CommitRouting` and `FinishMail` are those two.
- `message_id` is unique. An insert waits for another replica's uncommitted
  record of the same id and is refused once that is committed (`MayInsert`,
  `RefuseRecord`).
- The session of a run is never rolled back between mails, so after one refused
  statement SQLAlchemy refuses the rest of the run. `RefuseRecord` and
  `AbandonPoll` therefore end the run, dropping what was fetched. A mail that
  cannot be parsed does not touch the session and drops only itself (`DropMail`).
- A mail without a Message-ID is stored under an id made for it, so each
  delivery of it is a message of its own.
- Abstracted: the spam score (`Suspect`), what the text says (`Names`: the
  message on whose ticket the quoted number is), the entity extraction, which
  never fails (it falls back to a heuristic).

**TicketCreation** models a creation from its number to its commit. A ticket of
a unit takes the next number of `ticket_sequences` (`NextOfUnit` under the row
lock, which it keeps until `Commit` or `Rollback`; `FirstOfUnit` when there is
no row to lock); reporters without a unit (`NumberLegacy`) and mail (`NumberMail`)
take a count plus one. `Insert` waits behind an uncommitted row of the same key
and fails once that is committed, as a PostgreSQL unique index does. `Route` is
`auto_route_ticket`: the candidates of the ticket's branch first, then
supervisors, the least loaded by the counts committed now. `Rework`, `SetActive`
and `NextDay` are what changes loads, staff and the date meanwhile. Left out:
matching by the RBAC permissions of a category.

**Accounts** has the rows behind signing in (`is_active`, `mfa_enabled`,
`mfa_secret`, `mfa_backup_codes`) and the handlers that change them: `MfaSetup`,
`MfaEnable`, `RegenerateCodes`, `MfaDisable`, `ResetMfa`, `SetActive`. As with
tickets, a handler works on the row its request loaded. `overtaken` is history:
accounts whose enrolment was changed by a handler that had read another (`Enrol`).
One code stands for a set of ten. Failed attempts are absent on purpose: `login` counts one and
raises, `get_db` rolls the count back, so no committed row ever shows it.

**AuthSession** adds refresh tokens and the browser. A call is sent
(`SendLogin`, `SendRefresh`, `SendLogout`), served (`ServeLogin`, `Login`,
`SelectCode`, `LoginByCode`, `ServeRefresh`, `Refresh`, `Refuse`, `Logout`) and
answered (`SignedIn`, `Refreshed`, `Cleared`, `LoginFailed`) in separate steps,
and its answer may be lost while the server goes on. `storage` is local storage,
shared by the tabs and rewritten by a refresh; `memory` is each tab's store,
which a refresh does not touch. `Reload` drops a tab's calls; `SyncUser` is the
security page writing the tokens it holds back to storage. Left out: hashing,
signatures and access tokens, which carry no state.

**OrgTree** has levels, units, roles and one account, and every administrator's
edit as one action. `CheckLevel` and `DeleteLevel` are two steps, because the
look for units of a level precedes the delete (a delete at a level still in use
fails: SQLAlchemy clears the non-null `level_id` first). Deactivated units and
roles keep granting what they granted: nothing in the walk reads the flag.

**Visibility** models every read that filters by the tree: list, single ticket,
KPIs, charts, the recent tickets, report, assistant, digest. The account is the
one authenticated at the start; the filter is chosen from it (`AccessFilter`,
`FetchCheck`, `OrgFilter`, `ReportScope`, `VisibilityClause`, five definitions
because the code has five); `VisitUnit` is one query of `get_subtree_ids`; `Show`
is one statement of the read proper. The statements of a list, of the KPIs, of
the charts and of the digest are read one after the other by one filter, and
others commit in between. The dashboard shows the ten latest tickets: which of
the visible ones those are is left open, so nothing is promised about what such a
read misses. `once` and `always` are history: the links that existed at some
time, or all the time, since the read began. `Below` says which units are below
one without recursion: those of every set that holds the one and, with a parent,
its children.

**Catalogue** has the rows with codes and the branch counts. Look-up and insert
are two steps, and so are reading branches (the list in any filter, the export,
one branch, the answer to an edit: `Listed`) and counting their tickets
(`TicketStats`). **Administration** interleaves it with Visibility: they share no
variable, so one run explores both.

**Stores** has the attachments table, the bucket, the two endpoints step by step
(`PutObject` before `CommitUpload`, `CommitDelete` before `DropObject`; `CutOff`
anywhere), `backup.py` from `MakeSet` to `BackupDone` and `restore.py` from
`BeginRestore` to `Verified`, all beside each other. Pruning lists the sets it will
remove (`ListOutdated`) and deletes each one file by file, in no particular order
(`RemovePart`, `RemoveFile`, `RemoveSet`), as `shutil.rmtree` does; a kill may fall
anywhere in it, and a restore may read what is left. `pg_dump` is one snapshot;
`pg_restore` is one step that waits for open transactions, since dropping a
table needs its lock. Checksums and presigned links are left out.

**RateLimit** is `core/ratelimit.py`: the sliding window, the eviction of idle
users above `_MAX_TRACKED_USERS`, and `Forget` for a restart.

**Chat** is the assistant's sessions, the stream (`BeginStream`, `Meta`, `Delta`,
`BreakOff`, `Persist`, `Done`, `Cancelled`) and the blocking call (`BeginChat`,
`Answer`, `ChatFails`), each admitted by the limiter, with the widget that asks
by stream first and again by the blocking call when nothing has arrived. The
prompt, the model's text, ratings and the log's other columns are left out.

Proof modules: section 5.

## 3. Runs

| Run | Question | Bounds | Expected |
|---|---|---|---|
| `TicketConcurrent` | What can overlapping requests not break, and what does each of them keep to? | 1 ticket, an original elsewhere, 2 requests, 2 reopenings | holds |
| `TicketJump` | Do stored statuses follow the table? | 1 ticket, 2 requests, 1 reopening | violated |
| `SlaPauseResume` | How far can pauses and resumes move a deadline? | 1 ticket, 3 requests, 4 ticks | holds |
| `SlaPausedBreach` | Does the worker respect a pause and an extension? | 1 ticket, 1 request, 4 ticks | violated |
| `EscalationReplicas` | Do workers and requests together implement the escalation contract, keep the grace, bound events and mails; is every breach flagged, and escalated when the grace is over by then? | 2 tickets, due at 0 and 2, the first with a rule, grace 1 and its own deadline moved by a pause; 2 workers, 1 request, 2 triggers, 2 ticks, 1 crash | holds |
| `EscalationGrace` | Is a ticket escalated when its grace is over? | 1 ticket, 1 worker, 1 request, grace 1, no failure | violated |
| `EmailIntake` | Is each message handled once, and none lost while nothing fails? | 2 messages in 3 deliveries, 2 workers, 1 failure | holds |
| `TicketCreation` | Are numbers unique and without gaps, does trying again work, do loads stay close? | 2 creations at once, 2 units, 3 days over 2 years, 2 agents and a supervisor, 4 tickets | holds |
| `AuthSession` | Does the browser keep a token that works, how many sessions does a code buy, are secret and codes those of the enrolment? | 1 account, 2 tabs, 3 tokens, 2 secrets, 2 sets of codes, 2 requests | holds |
| `Stores` | Do rows have their bytes, are backups complete and verified restores sound? | 2 keys, 2 requests, 3 sets of which 2 are kept | holds |
| `Chat` | Is the quota kept, are turns whole, is what is shown of the session shown? | 2 users, 3 calls in 2 seconds, 2 sessions, 2 questions at once, 6 stamps | holds |
| `Visibility` | Who is shown what while the tree, the roles and the catalogue are edited? Does the walk end? | 4 units, 2 levels, 1 role, 6 accounts, 2 tickets, 1 read, 2 edits; 4 catalogue rows of 2 codes, 2 filers | holds |

The runs of tickets, clocks and mail, and `EscalationGrace`, explore every state of
their instance. The others have a `CONSTRAINT`, stated in the `MC` module:

- `MCEscalation!StartNew`: tickets start new, never assigned, which is all the same
  to the engine. Requests close tickets (and escalate them); the theorems allow any
  other move, reopening among them, and any number of requests.
- `MCTicketCreation!FewChanges`: once somebody else has changed loads or staff
  (after which balance is not claimed), at most one ticket is followed.
- `MCAuthSession!Scenarios`: one tab and no second factor; two tabs of one
  sign-in; or enrolments beside sign-ins without rotation. Enrolment touches
  accounts and codes, rotation tokens and the browser; they meet in `Issue`.
- `MCStores!Scenarios`: requests beside one set, one key beside two sets (a
  backup of a half-restored database), three sets without requests (pruning, beside
  a restore of the oldest set, the one that pruning may take away).
- `MCChat!Scenarios`: time passes and the second user calls while there is no
  conversation; a conversation takes place within one second.
- `MCVisibility!Scenarios`: levels and deactivations are edited while nobody
  reads, since no read looks at them; reads whose steps are those of a list see
  one edit, list and fetch see two; the catalogue is filled once the tree rests,
  since they share nothing. `Accounts` bounds what the member's account may be
  made: one for each branch of the filters. `WalkEnds` is checked within
  the constraint.

What the constraints leave out, the theorems of section 5 cover: every safety
property those runs check is stated by one.

Why the bounds are enough. A lost update needs two requests: one that loads and
one that commits in between; three let a pause be resumed twice and paused again
meanwhile. A second ticket matters only where tickets refer to each other
(duplicates) or share a transaction (the batch). Two reopenings separate a
counter that is lost from one that is not. `Resolution = 2` with four ticks lets
a pause start before the deadline and end after it. One crash at every step is
enough for properties that relate two commits, and it bounds fairness: with
unboundedly many failures nothing is guaranteed. Two days of one year and one of
the next put a creation before and after the change of the sequence row; two
creations race for its first insert. Three tokens are a token and two successors
of it, issued by two refreshes at once. Three sets with two kept are the smallest
case in which pruning may choose wrongly. A chain of three units has a middle
that can be moved below its own descendant, and a fourth unit can be created
during a walk. A limit of three calls with a window of one second lets the
window slide over an eviction. Requests, tokens, keys and sessions are
interchangeable, so runs without liveness use symmetry over them.
`CHECK_DEADLOCK FALSE` stands where the system may come to rest: a clock, date or
stamp has reached its bound, every mail has been handled, all numbers or keys are
used.

What each property is for is said above its definition. The ones a reader may
want to argue about:

- `ClosedIsExplained` would fail if the status endpoint cleared `closed_at` on
  reopening, as the unused `TicketService.transition_status` does.
- `ResolvedWasWorked` holds although illegal jumps do happen (`TicketJump`):
  whichever row the resolving request has loaded, that row was once the committed
  one and was being worked.
- `ResolutionStampCurrent` speaks of tickets not in `overtaken`. A status stored
  over one its writer never saw is a jump, reported as such; every other overlap
  (a load long before the commit, comments, assignments, duplicate marks and
  refusals in between) is in the run and must leave stamp and status together.
- `FewOpenEvents` and `CodeBuysFewSessions` say what a look before a write does
  guarantee: those that looked at the same time may all write, nobody who looks
  later adds to them. So what is recorded together with what is still to come is
  bounded by the number of transactions there can be at once, however long the
  system runs; one alone does it once.
- `EscalatedWhenSeenLate` claims, under fairness and with a failing run, what the
  code does keep of the promise that `EscalationGrace` refutes.
- `ExtensionIsPausedTime` holds until two requests have had the ticket open at
  once (`overlapped`); after that only `ExtensionBounded` does.
- `RecordedUnlessFailure` is deliberately weak: with a failure, mails are dropped.
- `RoutingBalanced` bounds the imbalance by the creations that may be in flight;
  exact balance is not to be had from counts read before other commits.
- `ConfirmedSecret` and `CodesOfEnrolment` speak of accounts not in `overtaken`.
  Setup, enable, disable and reset overlap freely in the run, with each other and
  with sign-ins; only from the moment one of them changes an enrolment it has not
  read can the two be broken, and then they are.
- `HeldTokenWorks` exempts the two ways in which the client itself loses a token,
  by history variables that name the tokens lost.
- `RowHasBytes` and `VerifiedIsSound` exempt rows a restore has brought back
  before their objects, or after a deletion that had not yet removed its object.
- `BackupMissesOnlyDeleted` and `CompleteSetsKept` allow a set to be incomplete
  only while `Keep` newer ones are whole, wherever a pruning was killed.

## 4. Fairness

Liveness is checked only under specifications that state fairness.

- *The jobs.* `setup_sla_worker` and `setup_email_worker` register interval jobs
  (five and two minutes), with the scheduler's default of one instance of a job
  per process, so a worker that has nothing running is started again, and the
  event loop runs what it started: `WF_vars(Run(w))`, `WF_vars(Poll(w))`. A run
  that raises is caught in the job, so the next one is started.
- *The clock*, up to its bound: `WF_vars(Tick)`.
- *A read that has begun* goes on: `WF_vars(Proceed(r))` in Visibility. The event
  loop runs a coroutine whose query has been answered.
- *Requests, edits, mail, failures*: none. Nobody need send anything, and
  nothing has to fail.

Weak fairness is enough: others may change what a run or a read finds, but cannot
stop it from being enabled until it is done.

## 5. Proofs

The theorems hold for every value of the constants that the named assumptions
admit; no bound on clocks, crashes or counts is used beyond being a number.

**TicketRequests_proofs.** `TypeCorrect`, `ClosedExplained`,
`ResponseClockStopped`, `ResolvedTicketsWereWorked`, `ReopenedTicketsAreCounted`
and `EvidenceSurvives`, for any number of overlapping requests. No invariant is
inductive alone: a commit mixes the columns of three rows (what is stored, what
was loaded, what is wanted). `IInv` says that a *loaded* row meets the same
conditions as a committed one (`RowOK`), and that the stored row has kept
whatever evidence the loaded one had (`Keeps`). `Asks` says what every handler
has in common, one lemma per handler shows it, and one lemma about `Merge`
shows that a commit which asks only that keeps `IInv`. `ResolutionStampIsCurrent`
says of stored *and* loaded rows that status and stamp go together, until the
ticket is overtaken: a merge that overtakes nothing either writes both columns or
finds the status it loaded. `RequestsImplementContract` needs no more than the
types: a commit stores the status that was asked for, or leaves it, whatever the
row has become (`CommitSettles`), and each handler asks for one within `Reach` of
what it loaded.

**SlaClock_proofs.** `TypeCorrect`, `DeadlineBounded` and `DeadlineExact`.
`TimerOK` strengthens the bound with the moment the pause began: at that moment
the deadline had gained at most the time gone by, so that adding the length of
the pause cannot exceed it. `DeadlineExact` needs that the one request which has
the ticket open holds the stored row (`SerialInv`), until another overlaps it.

**Escalation_proofs.** `TypeCorrect` and `FlagsAlwaysAgree` for any number of
workers and requests. `AutoEscalationsJustified` if `sla_breach` is not requested
by hand. `MailFollowsCommit` for any finite number of workers and requests
(`FinitelyManyAtWork`), in whatever order they commit, and even where two of them
escalate one ticket: for a ticket and a trigger, the mails sent, the runs that
still have one to send and the requests that do are together no more than the
events committed (`MailInv`). A commit adds one event and one that owes a mail;
a mail, sent or lost, takes its sender off the list; dying only shortens it.
`EscalatedAtMostAtOnce` counts in the same way: the
events of a ticket and trigger and those who hold a claim to it are together no
more than could claim it at once (`FewInv`), since a commit turns a claim into an
event and a claim is made only while there is no event. `EscalationImplementsContract`
maps each step to a claim, a release, an escalation, an announcement or a stutter;
both hold for any workers and requests, together and failing anywhere.

**Creation_proofs**, first of TicketCreation: `TypeCorrect`, `NumbersHaveNoGaps`,
`LockedIsFree`, `NextIsFree`, for any units, years, staff and number of creations
(finitely many at a time, `FiniteRequests`). Numbers of a unit and year are exactly
`1..lastSeq`; whoever took a number from an existing row holds its lock and has
the next one, and nobody else holds it (`LocksOK`); what an index has let in is
new and stays so (`WrittenOK`). For the counted numbers, no number in use exceeds
the count it was made from (`Counted`, `CountsOK`). `RoutingStaysBalanced`: the
balance of loads alone is not inductive, since several creations may have picked
one agent and commit later. `RoutingInv` counts what is on the way to an agent
(`OnTheWay`) as if it were there: at the pick the agent has no more than any
colleague, who is a candidate too, and what is on the way is at most the
creations there are; a commit moves one from the second count to the first.

Then of EmailIntake: `IntakeTypeCorrect`, `HandledOnce` and
`ProcessedTellsTheTruth`, for any deliveries, replicas and failures. The record
carries the argument: a message without one has no outcome, two workers never
hold an uncommitted record of one message (`Apart`, from the unique index), and
the commit that makes the outcome makes the record too.

**Stores_proofs.** `TypeCorrect`, `RowsHaveBytes`, `VerifiedRestoreIsSound`,
`BackupIsComplete`, `NewestSetsAreKept`, for any keys, stamps and requests. A key
under upload belongs
to that upload alone (`Apart`), a set's objects only grow until the index is
written, and what is not yet copied is still listed (`BackupOK`) or its removal
has been noted; a restore that is looking rows up has brought back, or never
missed, the bytes of those it has passed (`RestoreOK`). For pruning, `PruneOK`: a
set that is to be removed, or that has its manifest but not all the rest, has
`Keep` newer ones that are whole and not to be removed (`Standing`). When the sets
are listed this is counting (`ListedAreOld`): sets are finitely many (`FewSets`),
and of a finite set of times those with fewer than `Keep` later ones are `Keep` in
number, if there are as many (`NewestKept`), so what is listed has newer ones that
are not. Every other step leaves what stands as it is (`SetsChange`), a kill too.

**Chat_proofs.** `TurnsStoredWhole`, `ScreenMatchesSession`, `WindowNeverExceeded`.
Every question has
an instant of its own, so a turn is two rows of one name, the question strictly
first (`StoredOK`, `AskedOK`); at most one question has the widget's ear, of the
kind its phase says, and what it will show is of the session it will set
(`ListensOK`, `ScreenOK`). For the limiter, whatever the process has kept of a
user's calls is the end of the admitted ones, and what it has dropped or evicted
had left the window (`Counted`); so the calls in any window are those it counted,
and one more is admitted only below the limit. The window and the limit are any
numbers; a restart forgets, and the property speaks of the calls since the last.

**AuthSession_proofs.** `TypeCorrect`, `RotationIsFinal`, `StoredTokenWorks`, for
any accounts, tabs, tokens and requests. The argument for the stored token: a
token on its way to the browser is known to its call alone and not yet revoked
(`NewsOK`), so storing it makes the storage good; and a call that would revoke
the stored token belongs to a tab that still waits for it, unless a reload gave
the call up (`LostOK`). `EnrolmentIsConfirmed` and `CodesFollowEnrolment` need
no invariant beyond themselves (`EnrolmentOK`) and the types: until the account is
overtaken, a handler that changes the enrolment has read the one it replaces.
`CodeIsSpentByFew`, for finitely many requests: the sessions a code has bought and
the requests that hold it selected are together no more than the requests
(`CodesOK`): it is selected only while it has bought nothing, and a sign-in turns
one that holds it into a session.

**Administration_proofs**, for any organisation, accounts, tickets, reads and
edits, and any catalogue and number of requests (`FinitelyMany` of them).

- `NoneDangles`: `OrgInv` is the shape of the organisation and `NothingDangles`
  itself, which is inductive: a delete of a level in use does not happen.
- `RulesAgree`: for every account the five ways of writing the rule choose the
  same filter.
- `EveryReadInScope` and `NoReadMisses`. What is shown at the end says nothing of
  a walk half done, so `ReadInv` follows a read through its steps. `HistoryOK`:
  the present links are between `always` and `once`. `WalkOK`: whatever is found
  or pending is below the member's unit by `once`, and every child, by `always`,
  of a unit found is found or pending; an edit makes `once` larger and `always`
  smaller, which keeps both. When nothing is pending, the second says that
  `found` is closed under `always`, and so holds everything below the unit by
  these links (`BelowFacts`: no induction is needed, since `Below` is what all
  closed sets share). `AdmittedByRight` carries this from units to tickets
  through each of the three filters, and `ShownOK` from one statement of a read
  to the next. `FetchOK` is for the single ticket, whose assignee was read
  before the walk.
- `FewDuplicates`: `RowsOK` has the unique index. For subcategories, those of one
  code and the requests still to insert one are together no more than the
  requests (`FewOnTheWay`): nobody who looks once there is one adds another.
  `FilingOK` says that a change of code is of a category and changes nothing else,
  so that it cannot make a subcategory.
- `FiguresBelong`: both figures are of one set of tickets.

TLC has checked `OrgInv`, `ReadInv`, `CatalogueInv`, `RoutingInv`, `MailInv` and `FewInv` as
invariants on the instances of `Visibility`, `TicketCreation` and `EscalationReplicas`
as well.

**Only model-checked.** Liveness (`BreachDetected`, `EscalatedWhenSeenLate`,
`RecordedUnlessFailure`, `WalkEnds`), which is out of the prover's reach. No
theorem speaks of a recursive definition, and none cites an
induction principle: where an argument goes down through numbers, it takes the
least counterexample (`Least`, from the well-foundedness of `<`).

## 6. Where the code and its documents disagree

1. *Paused timers* (run `SlaPausedBreach`). `workers/sla_worker.py:51` says paused
   timers are not breached; the pause endpoint writes the ticket, the worker
   reads `sla_tracking`, and no route writes that.
2. *Illegal jumps* (run `TicketJump`). README.md:175 says they are rejected. The
   check is against a row loaded without a lock and the `UPDATE` is keyed by id
   alone: a ticket escalated in between is put on hold.
3. *Grace periods* (run `EscalationGrace`). README.md:214 says the worker revisits
   every overdue ticket; it revisits those not flagged, and flags before the
   rule's grace is looked at.

The others were met while modelling; the models contain the behaviour, and each
could be made a run like these:

4. *Firing twice.* docs/01:82 and README.md:214 say a trigger does not fire twice;
   the look for an open event and the insert are two statements, with no index
   behind them. In `EscalationReplicas` the invariant `events[t][g] <= 1` fails: both
   workers mark a ticket before either commits. `FewOpenEvents` is what holds.
5. *Half sets.* `restore.py:128` says half sets are refused; it looks for manifest,
   dump and index, and a pruning killed inside `rmtree` may have removed objects
   and none of these. In `Stores` a restore then begins on a set with
   `sets[s].gone # {}`.
6. *Replies.* docs/01:44 says a reply to a thread becomes a comment, README.md:90
   that `References` is matched. Only `In-Reply-To` is compared, and only with the
   mails tickets were made from.
7. *Lockout and reuse.* docs/01:127 promises a lockout after five failures and
   docs/01:130 that reuse of a rotated token revokes all: both are written in the
   transaction that the refusal rolls back, so neither is ever stored.
8. *Tokens in the client.* docs/04:150 says a rotated token is never kept; the
   security page writes the store's older copy back (`SyncUser`).
9. *Backups.* `backup.py:20-23` says a set never lacks the bytes of a row it has;
   an attachment deleted between dump and copy is such a row.
10. *Scope.* docs/03:68 says every read is scoped; the lookup by number, the
    assistant's comments and queue and some dashboard counts are not.

## 7. Not modelled

- *AI providers, notifications*: external services; whether they answered is in
  Chat and Escalation.
- *Audit log*: rows written in the transaction they describe and only listed.
- *Users*: creation and editing of people. Reset of a second factor and
  deactivation are in Accounts, moves between units in OrgTree. That two
  administrators may deactivate each other is listed as a hazard.
- *Health, migrations, seed*: no state, or run by hand before the program. The
  views of the web client only show what calls return.
- *Of ticket lifecycle*: `PATCH` of descriptive fields, watchers, feedback, AI
  columns. *Of the SLA clock*: the choice of policy and `SLAService` methods no
  route calls. *Of reports*: aggregation and layout.

Simplifications that run through all modules:

- PostgreSQL's row locks at flush order commits and can abort one of two
  deadlocked transactions; the first is in the order of the steps, the second
  is `Rollback`, `AbandonRun` or `AbandonPoll`.
- A statement's failure and the death of a process have the same effect on the
  database and are one action.
- Times are ticks; a stamp that is only tested for being empty is a Boolean.

## 8. Plan

1. SlaClock composed with Escalation, so that deadlines move while the worker runs.
2. Administration of users (last administrator), and the RBAC permissions that
   routing reads.
3. The theorems that new modules need; the safety properties of the present ones
   all have theirs.
