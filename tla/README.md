# A verification project for the chat service

TLA+ modules that model the chat service of this repository, TLC configurations
that check them on small instances, and theorems about them that the TLA+ proof
system checks for every value of the constants. Paths below are relative to
`src/`, and `message_usecase.go:113` names a line.

Contents: [the system](#1-the-system) · [modules and code](#2-modules-and-code) ·
[runs](#3-runs-bounds-and-fairness) · [proofs](#4-proofs) ·
[findings](#5-findings) · [what is left out](#6-what-is-not-modelled-and-why) ·
[plan](#7-plan)

## 1. The system

One Go process (`cmd/app/main.go`) serves HTTP, gRPC and a metrics page, runs two
Kafka consumers, and keeps its data in PostgreSQL (users, chats, members, refresh
tokens), MongoDB (messages), Redis (revoked access tokens) and Kafka (events).
`docker-compose.yaml:11` restarts it whenever it dies.

```
 client --HTTP--> JWTAuth --> MessageService --check--> PostgreSQL (chat_members)
   |                 |          |  |   \------save----> MongoDB   (messages)
   |               Redis        |  \-----publish-----> Kafka
   |            (blacklist)     |                        |
   +--gRPC--> interceptor       \-- push goroutines   consumers (one goroutine each)
   |             |                   |                   |
   |          AuthService         ws.Manager   event handlers: read newest from MongoDB,
   |   (register, login, logout)     |             |         write it to the chat's row
   +--HTTP--> ChatService --> PostgreSQL <---------/
   +--web socket---------------------/
```

| Component | State it keeps | Operations | What makes it hard | What makes it correct |
|---|---|---|---|---|
| Event log, `kafka/producer.go` | topics, partitions, events | write created / deleted | a write may be lost, repeated, reordered | events are appended and never changed |
| Consumers, `kafka/new_consumer.go`, `manager.go` | position, committed offset, event in hand | fetch, handle, commit | failing handlers and commits, rebalances, restarts | nothing is committed that was not tried; everything is tried |
| Message service, `usecase/message` | requests in service | send, delete, edit, read | membership checked in one database and used in another; errors that hide a success; crashes | what a request does, it does in the name of a user it names, who is a member and the sender; answers and events agree with the store |
| Message store, `database/mongo` | the collection | insert, delete, update, newest, page | equal times | order by time and id |
| Last message, `usecase/event`, `UpdateChatLastMessage` | the chat's last message | two handlers | they run at the same time, and against the requests that announce; names that two files must agree on | it is of its chat, does not go back while nothing is deleted, does not bring back what was deleted; it should be the newest in the end, and is not (section 5) |
| Sessions, `usecase/auth`, JWT middleware | refresh tokens, blacklist | login, logout, authenticate | the clock, whole seconds, two stores | `JWTAuth` keeps a revoked token out; logout leaves none of the refresh tokens that were there and revokes its own access token |
| Chat directory, `usecase/chat`, `chat_repository.go` | chats, members, open transactions | create, add, remove, delete | checks outside of transactions, row locks | lists are added whole and once; every request is answered |
| Start and shutdown, `cmd/app/main.go` | stores opened, servers, orchestrator, wait group | open, serve, stop, time out, close, exit | signals before or during start, requests that hang, stores that requests still use | the process exits, with the right code, and cuts off no request too early |
| Web sockets, `delivery/ws/manager.go`, goroutines of `message_handlers.go` | connections by user | connect, read, push, remove | pushes to one connection, writes that hang, removal by user and not by connection | a user's newest connection is in the map; a push reaches all who are connected; connecting never waits |
| User registry, `user_repository.go`, `RegisterUser` | the table users | register, read credentials | checks and insert apart, checks that fail, strings in the wrong places | accounts differ in what their clients sent; each answer has its reason; a login needs a registration |
| gRPC interceptor, `grpc/middleware/auth.go` | none | admit a call | the names of the methods it lets through | who has no token can get one |
| Routing, metrics, configuration, helpers | none | | | not modelled, see section 6 |

The hazards of the code, each with its line and the property that would catch it,
are listed in `PROJECT.json` under `hazards`.

## 2. Modules and code

```
 KafkaLog ----------> KafkaConsumer --(refines)--> AtLeastOnce
     \                     \
      \-> MessageService ---> LastMessage
 MessageRepo --/
        \----> History

 Directory --(refines)--> Membership      Sessions   Accounts   Sockets   Shutdown
```

Plain arrows are EXTENDS. `MCxxx` modules hold the definitions the `.cfg` files give to the
constants; `xxxProofs` hold the theorems. Throughout, a request, call or goroutine is
a process, and each access to a database, to Redis, to Kafka or to the clock is one
step; what lies between two accesses is local and is part of the step. A call that
returns an error may have taken effect or not. Definitions that begin with the comment
"Faulty" are variants of the definition that follows them; no specification uses
them, and each is there to show which mistake in the code a property would catch.

**KafkaLog** — the broker as the producer sees it. `Publish(topic, event)` is
`SendMessageCreated/Deleted` (producer.go:32-40): the writers keep kafka-go's
defaults, so one call appends its event zero times, once or more often
(`Deliveries`), to any partition of the topic.

**AtLeastOnce** — the abstract promise of a consumer: the place it would resume from
never lies beyond an event nobody has tried to handle.

**KafkaConsumer** — `StartConsuming` (new_consumer.go:35-56). `Fetch` moves the
session's position; `HandlerFails` logs and goes on (`continue` in line 50);
`HandlerSucceeds`, then `Commit`, whose error is only logged. `Rebalance` and `Restart`
move the position back to the committed offset; a rebalance leaves an event in hand
alone, a restart loses it. The context of main.go is never cancelled, so that the
loop never returns.

**MessageRepo** — the queries of `message_repo.go` as operators on a set of messages:
the order (created_at, _id), `Latest`, the filter of deletions and edits, and `Page`
with its anchor.

**MessageService** — `SendMessage`, `DeleteMessage`, `EditMessage`
(message_usecase.go:56-151), in the order of their calls: a send checks, saves and
publishes; a deletion checks, **publishes and then deletes** (lines 113, 117); an edit
checks and updates, and publishes nothing. A malformed id decodes to `NilObjectID`
and fails a deletion after its event was published. `DeleteMany` goes document by document
(`DeleteMessage` may take several steps, and may fail half way). Members come and go in
between (`ChangeMembers`), and the process may die (`Crash`). `saved`, `sighted` and
`removed` are history variables.

*Whose requests these are.* The handlers take `SenderID` and `UserID` from the JSON body
(message_handlers.go:117-121, 165, 204) and do not compare them with the user of the token,
which `JWTAuth` has checked and then put aside. The field of a request is called `claimed`
for this reason: it is the user that the request *names*. Who sent the request is not in
the model, because no step of the code depends on it. So the properties say that what is
done is done *in the name of* a member, or *in the name of* the sender; none of them
says, and the code does not give, that the caller is this user.

**LastMessage** — MessageService and KafkaConsumer composed with the two handlers of
`event_handlers.go`, each a read (`ReadLatest`) and a write (`WriteLatest`) with
anything in between. The topics the consumers were given and the columns of the
table are constants. **As deployed no handler ever runs**: main.go:131, 138 name other
topics than producer.go:21, 26, and no migration makes the columns that
chat_repository.go:233 sets. One run has this wiring (`DeployedTopics`,
`MigratedColumns`) and shows what comes of it. The runs about the handlers use one that is
hypothetical, and is called so (`RepairedTopics`, `RepairedColumns`): they say what the
handlers would do if the names agreed. What they check is safety that holds of the deployed wiring
as well, and the theorems are for any wiring. `gone` is a history variable.

**History** — `GetMessages` (message_usecase.go:153-176, message_repo.go:134-172):
a reader pages back with the time and the id of the oldest message it has, while
others send, delete, leave and join. `created_at` is read before the message is
inserted, so that a message may turn up behind the reader; ids are fresh and, since
several drivers may make them, in no order.

**Sessions** — `LoginUser`, `LogoutUser` (auth_usecase.go:56-112) and `JWTAuth`
(middleware.go:27-74). Time is counted in ticks, several to a second; the claims of a
token are in whole seconds. `Remaining` is `time.Until` (line 99), a step before
`SET` with that time to live (line 102). The middleware looks into the blacklist and
then parses; logout parses and does not look into the blacklist.

**Membership** — what the chat directory promises. A request takes effect at one
moment, for its whole list, and is answered at that moment: a chat opens with all its
members, a list of users joins a chat in which none of them is, a chat closes with its
members. A refusal gives a reason that is true at that moment. "unknown" and "error" say
little: `CheckUserExists` takes a failed query for a user who does not exist
(user_repository.go:93-101), and a COMMIT whose answer is lost may have been made.

**Directory** — `CreateChat`, `AddMembers`, `RemoveMember`, `DeleteChat`, which
implement Membership. The checks of the service are steps of their own, outside of the
transaction. A row that a transaction has inserted is in `rows[p]` until it commits,
holds up an insert of the same row (`UNIQUE(chat_id, user_id)` of `chat_members`) and the deletion
of its chat (the foreign key's lock). PostgreSQL's deadlock detector is `BreakDeadlock`.
Every error rolls back. Lists may be empty, name a user twice, or name one who is not
registered; the creator is put on the list (`WithCreator`).

**Sockets** — `ConnectWebSocket` (message_handlers.go:89-121), the `Manager`
(manager.go:32-88) and the goroutines that a sent, edited or deleted message starts.
A connection is upgraded, entered in the map, read until that fails, and closed; its
entry stays. A push reads the members (`Begin`, which needs `GetChatDetails` to find its
columns), and for each of them looks up the connection under the read lock, writes
without it, and after a failed write removes **whichever connection the user has by
then** and closes the one it wrote to. Two writers on one connection may do no harm,
fail, or panic; nothing recovers that panic, so that the process loses every connection
and comes back (`Panic`). `newest`, `failedFor` and `owed` are history variables.

**Accounts** — `Register` and `Login` from the gRPC handlers to the constraints of the
table, behind the interceptor. The handlers pass what they were sent in an order of their own
(handler.go:33, 60 against auth_usecase.go), which `RowOf` and `Matches` say: what a client calls his
e-mail is stored as the name, his password as the e-mail, and his name is hashed as the
password. `CheckName` and `CheckEmail` let a name pass when the query fails; `Insert` is decided by
UNIQUE and by the lengths of the columns. The properties are about what the clients sent, not
about the columns it ended up in. `Public` is what the interceptor lets
through; in MCAccounts it is computed from the two lists of names, and is empty.

**Shutdown** — the whole of `main`: opening the four stores, in which a signal still
kills; three goroutines that serve, the orchestrator with its context of five seconds,
the three goroutines that stop, the wait group; and then either `os.Exit(1)` or the
deferred closings, in which a signal kills again because `stop()` has run. A store that
cannot be opened makes main return, with exit code 0. What net/http, grpc-go, errgroup
and the pools do is external and is said in the comments of `Start`, `Stop`, `Stopped`,
`ServeReturns` and `ClosesForSure`.

## 3. Runs, bounds and fairness

| Run | Instance | Properties | Shows |
|---|---|---|---|
| `consumer` | 2 consumers, 3 partitions of 2 events, 2 disturbances | ConsumerTypeOK, CommittedWereAttempted, SessionCovered, ImplementsAtLeastOnce, EveryEventIsAttempted | commits follow attempts through rebalances that overtake an event in hand; no failure of a handler stops the loop |
| `message_service` | 3 requests out of 12, 2 users, 2 chats, failing databases, lost events, crashes | ServiceTypeOK, MemberWhileServed, CreatedEventsAreOfStoredMessages, DeletedInTheSendersName, WrittenInTheSendersName, DeletionsAreAnsweredTruthfully, AcknowledgedMeansStored | in whose name things are done; answers and events agree with the store |
| `last_message_faults` | repaired wiring; 3 requests, sends to 2 chats and an edit, failing databases, events lost or written twice, a disturbance | PreviewIsOfTheChat, CommittedMeansVisible, PreviewNeverGoesBack | while nothing is deleted the preview only goes forward, and a committed event has made up for the ones before it |
| `last_message_deletes` | repaired wiring; 3 requests that send or delete, otherwise the same | NothingIsBroughtBack | an event that is late, doubled or handled again does not bring back a message deleted before it was fetched |
| `deployed_wiring` | the topics and columns as deployed; 3 sends, nothing fails | SettledNewestIsShown | a violation, section 5 |
| `sessions` | 1 user, 4 calls, seconds of 2 ticks, tokens of 3 ticks, 4 ticks in all | SessionsTypeOK, BlacklistOutlivesToken, RevokedStaysOut, LogoutIsComplete | neither the delay before `SET` nor the truncation to seconds lets a revoked token past `JWTAuth` |
| `directory` | 2 requests, lists in both orders, with a user twice, with a stranger, empty | DirectoryTypeOK, ImplementsMembership, EveryRequestIsAnswered | a request takes effect at once or not at all and is answered truthfully, deadlocks included |
| `history` | 4 messages at 2 times, pages of 2 | HistoryTypeOK, PagesGoBack, NothingIsSkipped | the anchor survives equal times and its own message's deletion |
| `sockets` | 2 users, 2 connections, 2 pushes, a table with the columns of `GetChatDetails` (hypothetical, section 5) | SocketsTypeOK, OnlyFailedWritesUnlist, PushReachesConnected, ConnectingNeverWaits | who may be missing in the map and from a push; a write that hangs holds nobody up |
| `accounts` | 3 calls of 2 clients, one with a token; two e-mails that fit their column and one that does not, two passwords, two names | AccountsTypeOK, AccountsAreDistinct, AnswersHaveTheirReason, LoginMatchesARegistration | racing registrations, failing checks, and what a login has to send |
| `email_exists` | 2 calls of 2 clients with tokens, nothing fails | EmailExistsMeansHisEmail | a violation, section 5 |
| `shutdown` | the 3 servers, 2 requests | ShutdownTypeOK, NothingIsCutOffInTime, ExitCodeTellsFailure, ProcessExits | the process exits, with the right code, and cuts off no request and closes no store too early |

**Bounds.** Each is a constant with a guard that names it. `MaxLog`, events a
partition may hold: two suffice for an event that was skipped and one whose commit
covers it, three leave room for two chats and for repetitions.
`MaxDisturbances`, restarts and rebalances: the second is what meets the consequences
of the first (an offset that was committed behind a rebalance). `MaxTime`: two times
are enough for messages that are older, newer and of the same time; in Sessions the
clock passes the expiry of every token that is made at the start. `MaxId` is twice
the page, so that a page boundary may fall between two messages of the same time.
`MaxChats` is two, the chat that is there and a new one; a third creation fails.
`MaxConns` is two, an old connection and the one that replaces it. In Accounts two of the e-mails fit
the column they end up in and the passwords are two, so that two accounts come to exist side by side.
Requests (or calls) that have returned are not used again, so that their number
bounds a behaviour; three are needed where two race and a third one observes or
undoes. Two suffice in Directory, where requests conflict in pairs and the circle of a
deadlock is of two, and its theorem is for any number; two pushes are what meets on a connection. Symmetry is used over requests and calls, which differ in nothing else, and in
runs without liveness only. `CHECK_DEADLOCK FALSE` is said in every run because all of these
systems come to rest: the requests are used up, or the process has exited.

**Fairness.** Safety runs have none. `ConsumerFairness` says that each consumer's
goroutine runs and that its calls return; it says nothing of which calls fail.
No liveness is claimed of LastMessage: as deployed no handler runs, and with repaired names a handler
that fails is not tried again.
Directory's fairness is of the steps of a request that is not waiting for a lock, and
PostgreSQL's detector is one of them. Shutdown's is of its goroutines and of the
passing of five seconds; **a request may hang for ever**, and so may clients. The pools of the two
databases wait when they are closed for the connections in use, so that the closing of a
database is fair only when no request is in service, and `ProcessExits` excepts a
request that keeps main from it. In Sockets goroutines run, but a write that could
succeed need not return: a peer that reads nothing holds it up. Accounts states no fairness
and no liveness.

**Mutants.** For every property of a passing run `PROJECT.json` names a definition
that models code and a faulty variant of it under which TLC finds the property violated: a commit
one too far, `ReadMessage` for `FetchMessage`, an ignored error, a filter without the
chat, an anchor without the id, a missing rollback, a time to live in whole seconds.

## 4. Proofs

All hold for every value of the constants that the named assumptions of the modules
allow (`LogAssumption`, `ConsumerAssumption`, `ServiceAssumption`,
`SessionsAssumption`, `HistoryAssumption`, `DirectoryAssumption` with `NoRequestAssumption`, `SocketsAssumption`,
`AccountsAssumption`, `ShutdownAssumption`): any number of users, chats, requests, consumers, partitions,
connections and pushes, pages of any length, and any bound. The one assumption that is about the code rather than about types is
that no two consumers read the same topic (main.go:129-142).

Some theorems have a hypothesis about the instance, which says what they are about:

* NoDeletions (PreviewsGoForward, CommittedAreVisible): nobody asks for a deletion; messages
  are sent and edited. LastMessageFaults.cfg is such an instance. With deletions a preview
  has to go back.
* UnreadTopicsShowNothing, MissingColumnShowsNothing, FailingDetailsPushNothing and
  ClosedServiceStaysEmpty: what is deployed, section 5.

| Module | Theorem | Says |
|---|---|---|
| MessageServiceProofs | ServiceTypeCorrect, ServedForMembers, CreatedEventsAreTrue, DeletionsNameTheSender, VersionsNameTheSender, AcknowledgedSendsAreStored, DeletionsAreTruthful | the seven invariants of the run |
| LastMessageProofs | ConsumerTypeCorrect, CommitsFollowAttempts, SessionsCover | types; commits cover attempted events only, and sessions pass over none that was not tried |
| | ConsumerIsAtLeastOnce | the consumers implement AtLeastOnce |
| | PreviewsAreOfTheirChats | a chat shows only what one of its messages said |
| | PreviewsGoForward, CommittedAreVisible | while nothing is deleted the preview only goes forward, and a committed event has made up for those before it |
| | DeletedStaysDeleted | no event brings back a message that was deleted when it was fetched |
| | UnreadTopicsShowNothing, MissingColumnShowsNothing | each of the two faults of the deployment is enough for no chat to show anything, ever |
| SessionsProofs | SessionsTypeCorrect, BlacklistOutlives, RevokedTokensStayOut, LogoutsAreComplete | the four invariants of the run |
| HistoryProofs | HistoryTypeCorrect, PagesNeverOverlap, NoMessageIsSkipped | the three invariants of the run |
| | LatestIsTheFirstPage | GetLatestMessage and GetMessages agree on what is newest |
| DirectoryProofs | DirectoryTypeCorrect, DirectoryIsMembership | types; the directory implements Membership |
| SocketsProofs | SocketsTypeCorrect, ConnectionsStayListed, PushesAreComplete | the three invariants of the run |
| | FailingDetailsPushNothing | without the columns of GetChatDetails nothing is ever pushed |
| AccountsProofs | AccountsTypeCorrect, AccountsAreApart, AccountsAnswers, AccountsLogins | the four invariants of the run |
| | ClosedServiceStaysEmpty | if no method is public and nobody has a token, nobody ever registers or logs in |
| ShutdownProofs | ShutdownTypeCorrect, RequestsAreNotCutOff, ExitCodesAreRight | the three invariants of the run |

**KafkaConsumer.** `CommittedWereAttempted` is not inductive: a commit covers
everything below its offset, of which it knows nothing. `ConsumerInv` adds
`SessionCovered`: the session has passed over no event that was not tried, save the one in
hand, and everything below an event in hand was tried. A rebalance keeps it because
the committed offset, to which the position goes back, is itself covered; that a
partition has one reader is needed so that nobody else's event is the one in hand.

**MessageService.** `ServiceInv` adds at which steps a request of each kind can be,
that a draft is what its request asked for, that a stored message is one of its versions
in `saved`, that the versions of a message differ in their text only (a fresh id is
what makes this true of an insertion), and that a user in whose name something is served has been
sighted as a member. `DeletionInv` stands on it: what a request has removed is gone, was stored, and
cannot come back, because the id of an insertion is one that nothing stored has ever had;
so another deletion of the message finds nothing. A request removes document by document, and has
removed nothing before it comes to that step (`RemovedAreGone`).

**LastMessage.** Every step is a step of the service or leaves it alone, and the same for
the consumers (the lemma HandlersKeepTheConsumers, which is so by the way the actions are composed),
so that both invariants carry over; then `ShownWereStored` says that
what is shown, or has been read and is about to be, was stored.

That the preview goes forward does not follow from the order of the events, which the log
does not keep. `ForwardInv` says what a handler holds between its read and its write: a
message that is not older than what the chat shows, than its event and than any event of the
chat that was tried before (`ReadIsNewest`). It stays true because while nothing is deleted
the newest message only gets newer (`NoneIsDeleted`: of every message stored there is
its last version, which has its id and its time), and because nobody else writes: all events are
creation events, these have one reader, and a rebalance does not give it a second handler. This
is where a race of the two consumers is excluded, and the only place.
`HandledIsVisible` carries what was written to the commit, which covers the events whose handlers
failed too: they were tried before, so that the read was newer than they are.

`BackInv` is for deletions: what is `gone` for a handler was an id in use and is in the
collection no more. Ids are used once, so that it stays away (`IdsAreUsedOnce`), and what the handler
reads is in the collection.

**Sessions.** The time to live was computed at some moment and reached the expiry
from there (`LifeReachesExpiry`); the clock has only moved on since, so the entry
reaches it all the more (`EntriesReachExpiry`). A request that came after its token was
revoked and found no entry is so late that the token has expired (`BarredComeLate`),
and so parsing refuses it. For logouts, `LogoutInv` says that the token
of a logout which has come as far as the rows is in the blacklist or has expired, that the rows it
found when it began are of its user, so that its DELETE removes them all, and that they stay
away: a row is made by a login of its own, which is over by then.

**History.** The messages of a page differ in how many are before them in the order of
the query, and fewer than the limit are, so that the page is no longer than the limit
(`PageIsBounded`, by an injection into 0..Limit-1); and whatever matches and is not on the page
has more before it, and is older than all of the page (`PageIsNewest`). Neither needs
induction. `HistoryInv` says of the anchor that nothing read is older than it, and of what is
still to be read that it is older than the anchor, or, between two requests, than the whole
page. A message that is inserted meanwhile has an id of its own and is not among those
that count; one that is deleted counts no more. That the anchor's own message
may have been deleted makes no difference, as the filter compares values.

**Directory.** The moment at which a request takes effect is its COMMIT (or its DELETE),
and that of a refusal is the check that finds the reason. That the commit adds the whole list
follows from `ListsAreKept`: the rows of the transaction and the users still on the list
make up what was asked for. That nobody of the list is a member by then, though the checks
were made long before, follows from `RowsAreNew`: the UNIQUE constraint is checked against
the table and against every open transaction, and a row that is waited for is decided
first. The chat is still there because its deletion waits for open rows, and a new
chat is nobody else's (`ChatsAreFresh`). A list that is empty has no row that could hold up the
deletion: it joins nobody to a chat that may be gone, and is told ok.

**Sockets.** An entry is replaced by a newer one or removed by a push whose write to that
user has failed (`FailuresAreKept`), and by nothing else. Whom a push owes something is
in the map, and is still on its list or the one it has looked up (`OwedAreAhead`).

**Accounts.** A row is what a registration that has returned made of its request and is
never changed (`RowsAreOfRegistrations`), any two rows differ in both columns
(`RowsDiffer`, from the constraints alone), a refusal has found its row
(`AnswersFitColumns`), and so has a login past the password (`LoginsMatch`). That the columns tell
the clients' fields apart is `RowOfFields`.

**Shutdown.** The counter of the wait group is the number of servers that have not been
stopped (`Counts`); a server is stopped when nothing is in service there or when the five
seconds are over (`Stops`), so that a counter of zero means one of the two for all of
them, and main goes on to close only then (`Phases`). The group has an error exactly
when a server returned one (`Errors`).

**Only model-checked.** Liveness (EveryEventIsAttempted,
EveryRequestIsAnswered, ConnectingNeverWaits, ProcessExits): the prover does neither ENABLED
nor fairness. Every other property of a passing run is stated by a theorem.
DeletionInv, LogoutInv, ForwardInv and HistoryInv were checked with TLC on the
instances of section 3 before they were proved. The two runs that end in a violation
are of TLC alone.

## 5. Findings

Two runs end in a violation, both of the program as it is deployed.

* `deployed_wiring`. event_handlers.go:15 says of the update of a chat "delete and update last
  message if needed". A message is sent and stored, its event is written to `msg_created`
  (producer.go:21), and nobody reads it: main.go:131, 138 subscribe to `msg_deleted_topic` and
  `msg_created_topic`. All is quiet, and the chat does not show its newest message
  (SettledNewestIsShown). With the names of the topics repaired the UPDATE would fail, since no
  migration makes its columns (chat_repository.go:233).
* `email_exists`. "email already exists" (pkg/customerrors/err.go:8) is told to a client whose
  *password* is another's: Register hands the password over as the e-mail (handler.go:60), and that is
  what CheckEmailExists looks for (user_repository.go:40). The clients of the run hold a token,
  without which the interceptor as deployed lets nobody register (see below).

Three theorems say what the deployment as it is does. Their hypotheses are checked against the names
in the code by an ASSUME of the module named in brackets, in every run of it.

* No chat ever shows a message (DeployedShowsNothing, MCLastMessage). The consumers read
  `msg_created_topic` and `msg_deleted_topic` (main.go:131, 138), the producer writes
  `msg_created` and `msg_deleted` (producer.go:21, 26); and the UPDATE sets columns that no
  migration makes (chat_repository.go:233). Each is sufficient: UnreadTopicsShowNothing,
  MissingColumnShowsNothing.
* Nothing is ever pushed to a web socket (DeployedPushesNothing, MCSockets). `GetChatDetails`
  (chat_repository.go:129) selects columns that no migration makes: FailingDetailsPushNothing.
* Nobody can register or log in who has no token (DeployedIsClosed, MCAccounts). The
  interceptor's public methods (grpc/middleware/auth.go:15-18) are named "/auth.AuthService/...",
  the generated ones "/auth.v1.AuthService/...": ClosedServiceStaysEmpty.

What would remain of the last message if topics and columns were repaired, and of which there is no
run, because the program as it is does not get there:

* A deletion is announced before it is made (message_usecase.go:113, 117): the handler could read
  the message in between, and show it after it has gone.
* The handlers of the two consumers read and write with nothing to order them (event_handlers.go:43-48,
  63-68): the older of two readings could be written last.
* When a chat has lost its last message GetLatestMessage returns an error (event_handlers.go:44), and
  the preview would stay.

Met while modelling, and of no run:

* The ids in the bodies of message requests are not compared with the user of the token
  (message_handlers.go:117-121, 165, 204); see MessageService in section 2.
* The list route is `/messages/` (message_handlers.go:82), and its handler reads a URL parameter "id"
  (line 239) that the route does not have.

* `GetUserID` (middleware.go:76-79) reads a context key that `JWTAuth` does not set;
  the handlers that call it answer 401. The services behind them are modelled as if they were reached.
* `Register` passes e-mail, password and name (handler.go:60) where the use case takes name,
  e-mail and password. The password is stored in clear, as the e-mail, and the name is
  hashed; a client gets in with his e-mail and, as the password, his name:
  LoginMatchesARegistration. An e-mail of more than 20 characters does not fit the column of the name.
* `RegisterUser` does not read back the id of its row (user_repository.go:44-57), and Register answers with 0.
* A write that fails on an old connection removes the one the user has opened since
  (manager.go:71, 86): it stays open, and nothing is pushed to it any more. OnlyFailedWritesUnlist
  allows this (`failedFor`), and says that it is the only way to lose a connection that was not replaced.
* Nothing keeps two goroutines from writing to one connection (manager.go:69), which gorilla/websocket
  answers with a panic.
* A store that cannot be opened ends the process with exit code 0 (main.go:81-113).
* An add with an empty list succeeds even if the chat has been deleted since its adder was found in it.
* A failed query in `CheckUserExists` is reported as a user who does not exist.
* `ChangeUsername` (user_repository.go:103-113) has no WHERE, and no caller.
* `ChatService.Msg` is never set.
* Two logins of a user within a second are given the same access token; revoking one revokes both.
* `ListOfChats` orders by last_message_at, which nothing updates.
* The handler's error switch (chat_handlers.go:225) compares errors that the service has wrapped.
* `ConnectWebSocket` (message_handlers.go:96) and the gRPC interceptor (grpc/middleware/auth.go:46)
  parse the token and do not look into the blacklist; RevokedStaysOut and LogoutIsComplete are about
  `JWTAuth`. A logout revokes the access token it was made with; other access tokens of the user stay usable.
* The consumers (main.go:144) and the goroutines that push (message_handlers.go:128) are not waited for,
  and are cut off when the process exits. NothingIsCutOffInTime is about requests.
* A signal that comes before gRPC's Serve makes Serve return an error (main.go:219), and the exit code is 1
  though nothing failed. ExitCodeTellsFailure leaves this case open (`early`), and that of a store which cannot be opened.
* `AddClient` is never called, so that the gauge of active connections (metrics.go:17-22) only goes down.
* `SendMessage` answers with the message as it was before it was saved, without its id.

## 6. What is not modelled, and why

* Texts are values that stand for themselves; formats, JSON, hashing and wording are
  left out. So are input validation that refuses a request before anything is
  touched, and read-only listings (chats of a user, members, details), which change nothing.
* An older pair of consumers (`kafka/consumers`) is not started by anything. What they
  show, the message of the event rather than the newest, is the faulty variant
  `ReadOwnMessage`, and violates PreviewNeverGoesBack.
* In `LastMessage` chats are never deleted, so that the UPDATE always finds its row.
* A write to Kafka whose context was cancelled may still be made later; the model
  makes it at once or never.
* Redis forgets nothing before its time, and its clock is the application's; sub-millisecond
  truncation of times to live is below a tick. The clock never goes backwards.
* History's reader always sends both parts of its anchor, as the handler's two query
  parameters ask for. With a time alone it would skip messages of the same time: this is the
  faulty variant `BeforeTime`.
* PostgreSQL runs at read committed; statements are atomic; users are never deleted.
* Users are never renamed: `ChangeUsername` has no caller. `SearchUser` only reads, and
  `GetRefreshToken` has no caller either. That the interceptor asks Logout for a token is left out of Sessions.
* What a push carries, and so the order of two pushes; the code promises none. The gauge that
  counts connections. Of two writers on one connection, the bytes that may be mixed up.
* Time in Accounts: a token expires when it likes. The tokens that Login makes are those of Sessions.
* The gauges, routing, configuration, connections, the values of errors and context keys keep no
  state that two actors share; protocol buffers and mocks are generated.

## 7. Plan

Order of the modules: the log and its consumers, the message service, their composition in
LastMessage, then Sessions, Directory over Membership, History, Sockets, Accounts and
Shutdown: done. All safety properties and all refinements of the passing runs are proved. What could
still be proved:

1. The safety half of the liveness properties: that in Directory requests which wait for each
   other's rows form a circle that the detector can break, and that in Shutdown some step is
   left to take until the process has exited.
2. An abstract specification of the preview, for instances without deletions: a register that
   only goes forward and holds what a stored message said. PreviewsGoForward and
   PreviewsAreOfTheirChats are its two halves.

## Running it

```
tlc -workers 2 -config KafkaConsumer.cfg MCKafkaConsumer.tla     # a run of section 3
tlapm LastMessageProofs.tla                                      # a module of section 4
```
