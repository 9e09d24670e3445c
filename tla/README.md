# A TLA+ model of the FocusLens backend

FocusLens measures concentration with a camera. A client starts a study session, sends one score log
per minute and ends the session; the server (Node, Express, Prisma, PostgreSQL, Redis) stores the
logs, writes a report, shares sessions with friends and groups, and compresses old logs. This
directory holds TLA+ modules of the parts of the server whose correctness depends on interleaving,
failure and order, the TLC configurations that check them on small instances, and TLAPS proofs of
what matters most for every instance.

Paths below are relative to the repository; `bs/` stands for `backend/src/`, and the controllers and
services are named without their directory where no other file has the name.

## 1. Inventory

| component | state | operations | what is hard | what makes it correct |
| --- | --- | --- | --- | --- |
| **Study sessions** `bs/controllers/sessionsController.js` | `sessions`, `concentration_logs`, `reports` | start, log (v1), log (v2), end; list, show | check-then-insert, Serializable transactions with at most three attempts, a fallback outside of them, retries of clients, instants read at different moments | one session in progress per user; a report is of all the logs; nothing is added after the end; a measurement counts once; 200 means stored |
| **Roll-up** `bs/services/rollup.js`, `rollupScheduler.js` | the logs and `hourly_stats`, `daily_stats`, `weekly_stats` | three stages, daily timer, `npm run rollup` | upsert that replaces, cutoffs at boundaries, failed stages, several server processes, logs that keep arriving | totals never change; no row is overwritten by a part of its bucket; old logs get archived |
| **Session statistics** `bs/services/sessionStats.js`, `v_session_metric_totals` | none | totals, timeline | reads four tables that a roll-up changes | the union of the tables is every log once |
| **Refresh tokens, login, logout** `bs/services/refreshTokens.js`, `bs/controllers/authController.js`, `bs/middleware/auth.js`, `bs/services/redis.js` | `refresh_tokens`, `users`, the block list in Redis | register, login, refresh, logout, authenticate | rotation against rotation and logout, Redis failing after the database has committed, expiry | one token of a family can be rotated at a time; a used token closes its family; a logout that answered 200 has closed it |
| **Connections** `bs/controllers/connectionsController.js` | `user_connection_requests`, `user_connections` | send, accept, reject, cancel, list | three reads before an insert, against accepts | one pending request per pair, none between friends; a connection only from an accepted request |
| **Groups** `bs/controllers/groupsController.js` | `groups`, `group_members`, `group_invitations`, goals, assignees, feedback | create, invite, join, change role, remove; goals, assignment, feedback, dashboard, views | rank read before the write it allows, transfers that race, an invitation claimed twice or over, rejoining, settings read after the page | never two owners; members only by an invitation of their own, used once; a member has a goal once; nobody reads above the role he had |
| **Shares and reactions** `bs/controllers/sessionSharesController.js` | `session_shares`, `session_reactions` | share, feed, react, unreact | duplicates under concurrency, privacy changed after sharing | one active share per scope, one reaction of a kind per user, nobody sees what the settings hide |
| **Profiles and privacy** `bs/controllers/usersController.js` | `user_profiles`, `user_privacy_settings` | show, update | read by shares and rankings at another moment | as for shares |
| **Reports and rankings** `bs/controllers/reportsController.js`, `rankingsController.js`, the read handlers of `sessionsController.js` | none | page of a session, list, report, period reports, rankings | two to four queries among the writers, midnight, logs that are rolled up meanwhile | a finished session has one set of logs everywhere; an answer is of one moment of its call |
| **Score arithmetic, pagination** `bs/utils/` | none | pure functions | binary fractions, rounding twice | equal to their definition on hundredths |
| **HTTP plumbing** `app.js`, `bs/middleware/`, `bs/services/observability.js` | counters | validate, map errors | the status of a database error | `P2002` is 409, an exhausted retry is 500 |
| **AI client** `ai/` | local | measure, send | retries, lost answers | external: a source of requests |

Sessions and the roll-up meet in `concentration_logs`; statistics, reports, rankings and shares read
what both leave; shares also depend on connections, groups and privacy. No state is shared in memory:
every interaction between two requests goes through PostgreSQL (and Redis for logout), so a step of
the models is one round trip to the database.

`PROJECT.json` lists these components with their status, the hazards with their line in the code,
and for every definition the lines it models.

## 2. Plan, and what became of it

| modules | abstract specification | instances | proofs |
| --- | --- | --- | --- |
| `SessionData`, `Sessions`, `SessionProperties` | `SessionLedger` | `MCSessions` | `SessionsProofs` |
| `Rollup`, `RollupProperties` | | `MCRollup` | `RollupProofs` |
| `Connections`, `ConnectionProperties` | `Friendship` | `MCConnections` | `ConnectionsProofs` |
| `Memberships`, `MembershipProperties` | `Roster` | `MCMemberships` | `MembershipsProofs` |
| `RefreshTokens`, `RefreshProperties` | `TokenFamilies` | `MCRefresh` | `RefreshProofs` |
| `Shares`, `ShareProperties`, `ShareHistory` | | `MCShares` | `ShareProofs` |
| `GroupWork`, `GroupWorkProperties`, `GroupWorkHistory` | | `MCGroupWork` | `GroupWorkProofs` |
| `Reports`, `ReportProperties` | | `MCReports` | `ReportsProofs` |

The order was that of the table: first what writes study data, then what decides who may read it, and
last what reads all of it. `Memberships` and `GroupWork` share the vocabulary of `Roster`. The
composition of sessions with the roll-up and with everything that reads them is `Reports`: it keeps of
`Sessions`, `Rollup`, `Connections` and `Memberships` only what a reader can tell apart, as an
environment whose steps fall between the queries of a reader. `Shares` and `GroupWork` treat settings,
friends, members and sessions in the same way. What the plan has left is in section 11.

**Conventions common to all modules.** A *slot* (of `Requests` or `Calls`) is a place for one running
handler: `call` its request, `pc` the query it sends next, `mem` or `seen` what it remembers of its
reads, `answer` its status and the part of its body that a property is about. One step is one round
trip to the database (or Redis). A slot that has answered takes any other request, also the same one
again: the client that repeats what was not answered. A label in quotes is what the handler waits for.
`Fail` is any query that fails: the handler answers 500 (a logout 503) and its transaction leaves no
trace. A step that waits for no query goes with the query before it. Rows that no endpoint deletes have
no deletion.

**Conventions of the instances.** Where one set of bounds for everything is too large, an `MC` module
has a `PlannedSpec`: the steps of `Next` that stay within `Planned`, a disjunction of regions each of
which lets some parts of the instance vary and holds others still. `Planned` is a bound in the guards
like any other: it removes steps, never adds one. `SYMMETRY` permutes slots, row ids and, where no
value orders them, users; all properties so checked are safety properties. A `VIEW` leaves out what
nothing reads any more: the request and the memory of a slot that has answered and that no property
asks about, since its next step can only be a new request. `Symmetry` and `View` are used with no
liveness property.

## 3. Sessions

**Modules.** `SessionData` holds the rows and the pure functions of the controller. `Sessions` holds
the handlers. `SessionLedger` is what the API promises, every operation one atomic step.
`SessionProperties` states the properties, `SessionsProofs` proves them, `MCSessions` is the root of
the TLC runs.

**State.** `sessions`, `logs`, `reports` are the tables. Of a slot `r` of `Requests`, `req[r]` is the
request and its local values, `pc[r]` what the handler does next, `attempt[r]` the loop variable of
`runSerializableTransaction`, `snap[r]` what its transaction sees, `answer[r]` status and rows of the
response. Two slots with the same request are a retry that overtakes the original.

**Actions and code.**

| action | code in `sessionsController.js` |
| --- | --- |
| `RequestStart`, `CheckActive`, `CreateSession` | `startSession`: `findFirst`, then `new Date()`, then `create` against the partial unique index |
| `RequestLogV1`, `RequestLogV2` | arrival of a log, `receivedAt`, the bound on `measured_at` |
| `BeginTx` | the first query of an attempt, which takes the snapshot |
| `RejectedBySession` | the 404, 403 and 409 of the checks on the session row |
| `TooEarly` | `calculateMinuteIndex` throws 400 |
| `FindExisting` | the row of an earlier request answers 200 or 409 |
| `InsertLog` | `create` and commit |
| `UniqueViolation`, `RecheckSession`, `FindConcurrent` | `P2002` and the two or three reads after it, outside a transaction |
| `SerializationFailure` | `P2034`: another attempt, or 500 after the last |
| `RequestEnd`, `EndSession` | `endSession`: logs, `endedAt`, update and report commit together |

**Transactions.** PostgreSQL is external. The model gives a Serializable transaction what it
guarantees and no more: it reads one snapshot; a body that only reads or throws is ended where it
stands; a body that has written commits only if what it read is still what the tables hold
(`SessionRowCurrent`, `LogsCurrent`), is refused by a unique index (`Clash`), or is aborted. An abort
may happen without a visible cause, because the server may suspect conflicts that are none. A log
insertion reads one row of the log table by its key, so it need not see the other logs unchanged;
`endSession` reads all logs of its session, so it must.

**Abstractions.** Scores are an opaque `Content`: the handlers only compare them. A request that fails
validation changes nothing and is left out. The clock counts ticks; a minute has `MINUTE` of them.
The id of a new session is chosen when the request arrives, so that a bounded run has an id left for
the insert. Sessions, logs and users are never deleted here (the roll-up deletes logs after
30 days, which a session in progress does not reach).

### Runs

| run | instance | shows |
| --- | --- | --- |
| `sessions_v1` | 3 slots, 1 session, 2 contents, 3 instants, 1 attempt | `ReportsComplete`, `AcknowledgedLogsStored`, `OneEndSucceeds` and `ImplementsLedger` of start, v1 log and end |
| `sessions_v2` | 2 slots, 2 client ids, 2 ticks per minute, clients up to 2 ticks ahead; or, without v2 logs, 2 users, 2 sessions and 2 attempts | `OneActivePerUser`, `OneLogPerMeasurement` and `TimesAgree` of v2 mixed with v1, of racing starts and of retried transactions |
| `sessions_live` | 2 slots, 3 attempts, all endpoints | every request is answered |

Why these bounds are enough to be interesting: three slots let two handlers race while a third ends
the session; one attempt is enough for the safety of logs, because an aborted attempt leaves no trace
but its counter and a slot can be issued again at once, and `sessions_v2` and `sessions_live` use two
and three; two contents tell a retry from a different log; three instants give two minutes and a log
received before, but committed after, another instant; `MINUTE = 2` makes two instants fall into
one minute. Bounds in the guards: `MaxClock` (the clock stops), `0 .. MaxClock + MaxFuture + 1`
for `measured_at`, and `Planned` of `sessions_v2`, which keeps v2 logs and the second user, session
and attempt apart.

**Fairness.** `FairSpec` asks for `WF` on the steps of each handler that has been started, which Node's
event loop gives, and of nothing else: clients need not send anything. No fairness says that a
transaction succeeds; that every request is answered rests on the limit of attempts.

### Proofs (`SessionsProofs`)

All safety properties are proved for any users, sessions, contents, minutes, slots and attempts, and so
is `ImplementsLedger`. The inductive invariant `IInv` adds to the type
invariant and the properties of the tables what the handlers rely on:

- `Snapshots`: a snapshot shows an *earlier* state of its session: its logs are among the present ones,
  and the owner and start of a started session are the same now. Without it the commit of a log says
  nothing about the row it is computed from.
- `Past`, `Bounded`: no stored or pending instant is of the future, except a client's, and that only
  within the bound. This is what puts every log before the end of its session.
- `FreshIds`, `Blank`: the id a start will use is still free and has no logs.

`IInv` and `HistoryFrozen` (completed sessions, logs and reports never change) are proved and in no run:
what the runs check follows from them. `HistoryIsFrozen` and `Refinement` show for each action, from
`IInv`, which step of the ledger it is; `AcknowledgedIsStored` needs an
invariant of its own on top of `IInv`, and so does `OneEnd`: `EndsHold` says that an end answered 200 has
left its session completed, with the logs it answered with, and that no other slot holds such an answer.
A second end passes its check of the status only in a snapshot from before the first commit, and then
`SessionRowCurrent` refuses its own.

## 4. Roll-up

**Modules.** `Rollup`, `RollupProperties`, `RollupProofs`, `MCRollup`.

**State.** `tier` maps each of the four tables to the set of logs it accounts for; the row of a session
and a bucket is the set of its logs in that bucket. `log_count` is the cardinality of that set and
every other column a sum over it divided by it, so two rows with equal sets are equal, and what the
view `v_session_metric_totals` adds up is determined by the tables. Where the code compares averages
up to 0.000001, the model compares sets. `accepted` remembers every log ever written and is read by
properties only. A worker is a process that runs the job: `pc`, `stage`, `now` (the instant its run
was started, from which all cutoffs follow) and `snap`.

**Actions and code.** `StartRun` is the timer or the command. `BeginStage` is the first statement of
`rollupStage`, the one that asks for the advisory lock: under Serializable it also takes the snapshot,
before the lock is granted. `NothingDue` is the early return. `CommitStage` is upsert, verification,
deletion and commit; nothing of it is visible before the commit, and PostgreSQL refuses it when another
transaction has changed a row it deletes or overwrites since its snapshot (`Serializable`). The lock
adds no more than that: it is released by the commit, and a run that waited for it goes on with its
old snapshot. `FailStage` is every way to lose
a stage: conflict, verification, time limit, database error, death of the process. `runRollup` does
not retry, so the run is over, and the next one is the schedule's. `InsertLog` is the session
handlers, with a log received up to `MaxDelay` minutes before it is inserted. Time is in minutes,
from a Monday 00:00 UTC.

### Runs

| run | instance | shows |
| --- | --- | --- |
| `rollup_safe` | 3 logs, 2 workers, 1, 2 and 8 days of retention, 7 instants | `Conserved`, `WholeBuckets`, `StagesFinish`, `OneTierUp` |
| `rollup_live` | 1 log, 2 workers, 3 instants | `EveryLogArchived` |
| `rollup_misordered` | retention 2, 1 and 8 days | `Conserved` is violated |

The instants are minutes 5, 55 and 65 (two logs of an hour and one of the next), the day after (a run
whose cutoff without rounding would fall between them), and days 3 and 15 (everything due for days,
then weeks), with logs inserted up to an hour late and on either side of them. Two workers suffice for
a commit between another's snapshot and commit; three logs for two in a bucket and one outside.

**Fairness.** Time passes (`WF(Tick)`), the schedule starts runs (`WF(StartRun)`: `scheduleNext` is in
the `finally` of the timer), a run goes on (`WF(Work)`), and a stage that is tried again and again
succeeds some time (`SF` per stage): the one assumption about the environment, that the database is not
broken for ever.

### Proofs (`RollupProofs`)

For any sessions, logs, workers, instants and retention, `Conserved`, `WholeBuckets`, `StagesFinish` and
`OneTierUp` are invariants **if the retention is ordered** (`RetentionOrdered`, a hypothesis of the
theorems, not an assumption on the constants) and no request stays in flight for a day (`MaxDelay`, in
`RollupAssumption`). The invariant is `Sorted`: the tables are in the order of time, cut at bucket
boundaries, so that a log that has reached a table is of an earlier bucket of that table than every
log that has not. `Retained` puts every moved log before the cutoff of the present, and so before a
new one; `RunsBehind` says what a run has emptied stays empty up to its cutoff; `SnapshotsSuffice`
that what a snapshot has missed is not due. From `Sorted` an upsert never meets an existing row, hence
`CommitStage` moves logs without touching others. The arithmetic of buckets and cutoffs is in
lemmas of its own (`CutoffSplits`, `DueMeaning`, `CutoffsOrdered`).

### Finding

`getRetentionFromEnv` accepts a longer retention for raw logs than for hourly rows. Then the daily
cutoff lies behind the hourly one, the hourly rows of one day arrive in two runs, and the second upsert
*replaces* the day's row. The verification compares the new row with the second part and passes. The
logs of the first part are lost, against section 6 of `docs/rollup-strategy.md` (line 94).
`rollup_misordered` shows it; the theorems show that ordered retention excludes it.

## 5. Connections

**Code.** `connectionsController.js`, over `user_connection_requests` and `user_connections`.

**State.** `requests` (rows by id), `connections` (rows as sets of two users), `active` users.

| action | code |
| --- | --- |
| `ReceiveSend`, `FindReceiver`, `FindConnection`, `FindPending`, `InsertRequest` | `sendRequest`: three reads, then `create` against the partial unique index on the unordered pair |
| `ReceiveRespond`, `FindRequest`, `ClaimRequest` | `respondRequest`: the row, who may give this answer, then one transaction: the update where the status is still `PENDING`, and for an accept the upsert of the connection |
| `ReceiveList`, `ListFriends`, `ListPending` | `getConnections`: friends, then two lists sent together and answered in either order |
| `Fail`, `Deactivate` | any query may fail; an operator may deactivate an account |

The transaction is one step, because its first statement locks the only row it depends on and nothing of
it shows before the commit.

**Run.** `connections_safe`: 2 users, 2 requests, 2 slots, everything in any order. Two users are one
pair, all that any query or index relates; two requests are a first one and another after its answer,
or both at once. The safety properties are in the list of `PROJECT.json`; `ImplementsFriendship` says
that every step of the handlers is, pair by pair, a step of `Friendship` or none.

**Proofs.** `IInv` is `TypeOK`, the two properties of the tables, `AnswersTruthful` and what a handler
has found of the parts of a row that never change (`InHandler`). The step lemmas say of each handler
what it is to the tables (a row added, a row settled, nothing) and to its slot; invariants, `ResolvedOnce`
and the refinement follow from these three cases rather than from the actions. All five properties of
the run are theorems, for any users, requests and slots.

**A divergence.** `NoPendingBetweenFriends` fails: `sendRequest` looks for a connection first and for a
pending request afterwards, and a request that is accepted between the two looks is seen by neither.
The result is a pending request between friends, against `docs/feature-spec.md:148`. Answering it does
no harm: the connection is upserted.

## 6. Memberships

**Code.** The handlers of `groupsController.js` that change members or invitations.

**State.** `members` (role and status by user, of one group), `invitations`, `registered` accounts, `clock`.
One group is enough because no query and no index relates the rows of two.

| action | code |
| --- | --- |
| `CreateGroup` | the nested create of group and owner |
| `CheckInviter`, `FindInvitee`, `CheckMembership`, `FindPending`, `InsertInvitation` | `inviteMember`, by account or by address; the transaction that ends the expired rivals and inserts is one step, since it locks the rivals first |
| `FindInvitation`, `ExpireInvitation`, `CheckJoiner`, `ClaimInvitation` | `joinGroup` with its `updateMany` that claims the invitation and the upsert of the member |
| `CheckOwner`, `FindTarget`, `WriteRole` | `updateMemberRole`, a transfer of ownership included |
| `CheckRemover`, `FindVictim`, `RemoveMember` | `removeMember`, also of oneself |
| `Register`, `Tick`, `Fail` | accounts appear, invitations run out, queries fail |

**Run.** `memberships_safe`: 3 users, 2 invitations, 2 slots, validity of one tick. A third user appears
only while one slot is in use, and no time passes where roles are changed by two calls at once:
`Planned`. Two users and two calls are the races; three users are an owner, a manager and a member,
the least that `RankRespected` needs.

`OnePendingPerTarget`, `AtMostOneOwner`, `AdmittedByInvitation` and `InvitationsSettle` hold of all
interleavings. `ImplementsRoster` and `RankRespected` hold of the calls that are handled one after the
other (`OneAtATime`, a hypothesis in the properties): concurrent calls break them, see below.

**Proofs.** All six properties are theorems, for any users, invitations and slots. `IInv` bears
`AtMostOneOwner` and `OnePendingPerTarget`: it adds the type invariant, that an invitation names somebody
(`Targeted`), and that a handler of `joinGroup` remembers an invitation that exists and is addressed to
its caller (`InHandler`, stable because an invitation is never readdressed: `InvitationsKept`). The
action properties and the refinement need `SInv`, which adds

- `Founded`: no invitation, and no handler past its first check, precedes the group. Without it somebody
  could be admitted by an invitation of no group.
- `Timed`: what `joinGroup` remembers of the clock is past, so an invitation it writes off is over now.
- `Sequential`: while one call runs alone, what it has checked (`Checked`) is still so. This is where
  `OneAtATime` comes in; with two calls it fails, and `OwnerExists` with it.

A change of the members is one of four (`MembersEffect`): founding, admission, a role, a removal; each
property is shown for these, and for the actions that write invitations.

**Divergences.**

- `OwnerExists` fails: a demotion or removal whose target was read as a member takes effect after a
  transfer to him, and the group has no owner (`docs/api-spec.md:1788`, `groupsController.js:397`). No
  endpoint repairs that.
- `JoinedInvitationsAccepted` fails: `joinGroup` writes `EXPIRED` by id alone when it has read a pending
  invitation and found it over, and so overwrites the `ACCEPTED` of a call with an earlier clock
  reading (`docs/feature-spec.md:253`, `groupsController.js:160`). The member stays.
- One person may have two pending invitations, by account and by address, when the account is
  registered between them: the indexes and filters compare like with like.

## 7. Refresh tokens, login and logout

**Code.** `authController.js`, `refreshTokens.js`, `middleware/auth.js`, `redis.js`.

**State.** `accounts`, `active`, `tokens` (rows of `refresh_tokens`), `issued` access tokens (a JWT is its
payload: user and expiry in whole seconds), `blocks` (keys of Redis with the instant they end), `clock`.

| action | code |
| --- | --- |
| `FindAccount`, `CreateAccount`, `CheckPassword`, `IssueTokens` | `register`, `login` |
| `BeginRotation`, `ClaimToken`, `CloseFamily`, `SerializationFailure` | `rotateRefreshToken`: a Serializable transaction with retries; it decides on a snapshot, and `P2034` comes when a row it writes is not what it read, or without a cause |
| `Authenticate` | the middleware, with Redis read or failing |
| `FindPresented`, `ScanFamily`, `RevokeScanned`, `BlockAccess` | `logout`: an update under Read Committed that finds its rows, then writes those that are still there to be written, and the block in Redis, which may be carried out although the caller is told otherwise |
| `Deactivate`, `Tick`, `Fail` | |

**Run.** `refresh_safe`: 1 user, 3 tokens, 2 slots, 2 attempts, a second of two ticks, a JWT of one second.
Three tokens are a family of three, or two families; the requests that an access token admits are
watched for longer than three tokens are (`Planned`). Two ticks per second put a block and an expiry on
either side of the rounding of the two clocks. One user is enough: no handler looks at the tokens of
another, and an access token of another is an access token.

**Proofs.** All properties of the run are theorems, for any users, tokens, slots, attempts and lifetimes.
`IInv`, for `OneLivePerFamily` and `ImplementsFamilies`, adds `FamiliesFormed` (a stored token leads to the root of its family, which has the
same user; used implies revoked) and what handlers remember. The point of the proof is `ClaimToken`: the
guard that no row of the snapshot has been written (`Overtaken`) makes the traded token live at the
commit, so by `OneLivePerFamily` it is the only one, and the fresh one takes its place.

`RInv` adds `Settled`, what a handler has found out about its token and can rely on although it holds no
lock: the rows with which a rotation closes a family are of that family, and where it has none nothing of
the family is live; a logout that goes on has either
scanned its token or found it dead, and a dead token is never revived, because a rotation only adds
fresh ones; a block lasts as long as the access token it bars, on the clock of whole seconds that JWT
has (`Barred`). `LogoutComplete` and `ReuseClosesFamily` follow, and `LoggedOutStaysOut` from the former: with
the block in force `authenticate` answers 401, and 503 when Redis cannot say.

**Divergences.**

- `LogoutClosesFamily` fails: a rotation that commits between the reading and the writing of the logout's
  update leaves its new token live (`docs/client-contract-decisions.md:75`, `refreshTokens.js:160`).
  `LogoutComplete` says what does hold: the token the logout was given is dead.
- `FreshTokenAccepted` fails: who logs out and in again within a second is handed the string that the
  logout has blocked (`docs/auth-flow.md:110`, `authController.js:18`).

## 8. Shares

**Code.** `sessionSharesController.js` and `updatePrivacySettings` of `usersController.js`.

**State.** `privacy`, `friends`, `members`, `completed` sessions, `shares`, `reactions`.

| action | code |
| --- | --- |
| `FindSession`, `CheckLimit`, `CheckGroup`, `FindExisting`, `InsertShare` | `createShare` against the two unique indexes (the table's own and the partial ones of the scopes without a group) |
| `FeedContext`, `ReadPage`, `ReadLevels`, `AnswerFeed` | `getFeed`: friends and groups, the page filtered in the database, the settings Prisma loads after it, the members in common |
| `FindShare`, `ReadOwner`, `ReadViewer`, `WriteReaction` | `addReaction`, `removeReaction` and `findAccessibleShare` |
| `updatePrivacySettings`, `Befriend`, `Join`, `Leave`, `Complete` | what changes between any two of these reads |

`ShareHistory` adds a history variable, `past`: the settings that were in force while a call ran.
`LimitsInForce` compares the answer with them, so that an owner who has narrowed his settings before a
call began is safe from it. It is read by properties only.

**Run.** `shares_safe`: 2 users, 1 session, 1 group, 2 shares, 2 slots. Either two calls share at once
(the races on the indexes), or one call of any kind runs among the writers. The four settings Ann
chooses from are the ones that tell the scopes and the masks of a reader apart. A reader and an owner
are all that a share relates.

**Proofs.** All four properties are theorems, for any constants. `AudienceOnly` speaks of who was
*ever* meant by a share, since friends and members are read before they are used: `Meant` is stable
(friendships do not end, `EverIn` does not), and `InHandler` says that what a handler remembers was so.
`ListedIffReachable` compares the filter of the feed, sets of scopes and levels given to the database, with
the check of reactions, a comparison of ranks: they agree for each scope and each level.
`LimitsInForce` needs the history: `HInv` of `ShareHistory` says that the settings a handler has read were
in force at some moment since it began (`Limited`), and that those in force now count as such, so that
the next read will be of one of them.

**A divergence.** `GroupInCommon` fails: the feed of a group goes on showing what a removed member has
shared, because only the reader's membership is looked at (`docs/security-policy.md:257`,
`sessionSharesController.js:58`). The counts of a share and the reader's own reaction are read in
different queries (`sessionSharesController.js:290`) and may disagree by the reactions between them;
counts are not modelled.

## 9. Goals, feedback and dashboard

**Code.** The handlers of `groupsController.js` that decide by the members and do not change them.

**State.** `goals` (of this group, of others), `assigned` (rows of `group_goal_assignees` by goal and member,
a number so that a second row shows), `feedbacks`, and as environment `members`, `visibility`, `sharing`
(`group_data_sharing`) and `sessions`. Of other groups there are goals, feedback and a `Stranger`,
which the queries of this group must not find.

| action | code |
| --- | --- |
| `CheckCreator`, `CreateGoal` | `createGoal` |
| `CheckAssigner`, `FindGoal`, `ClearGoal`, `FindAssignees`, `FindExisting`, `InsertAssignees`, `AnswerAssigned` | `assignGoal`: an empty list makes it a goal of all; `createMany` inserts all or nothing, and the rows are read back |
| `CheckGoalReader`, `PageOfGoals`, `LoadAssignees` | `getGoals`, with the relation loaded by a query of its own |
| `CheckAuthor`, `FindTarget`, `FindSession`, `GiveFeedback` | `createFeedback` |
| `CheckRecipient`, `ListFeedbacks` | `getFeedbacks` |
| `CheckViewer`, `PageOfMembers`, `ReadSettings`, `ReadSessions` | `getDashboard` |
| `getGroup`, `getMyGroups` | one read each |

`GroupWorkHistory` adds `past`: the roles, members and settings there were while a call ran.

**Run.** `groupwork_safe`: 2 users, 2 goals, 1 feedback, 1 session, 2 slots. Two calls at once assign one
goal (`Assigning`); one call does anything else, with the goals and every fault of a list (`Aiming`),
with feedback (`Advising`), or with members, settings and visibility (`Looking`). `OneWinner` needs two
calls, the other three a call and an environment.

**Proofs.** All four properties are theorems, and so is `AssignedOnce` (in no run: `OneWinner` is its
consequence for the callers, and is checked), for any constants. The members change arbitrarily in this model, and what survives is
`EverMember`: who has been a member has a row for ever. `InHandler` says that goals and targets that were
found still are of this group. `HInv` of `GroupWorkHistory` adds what the reads of a handler have to do
with its `past`: a handler that may write was a manager's or the owner's at some moment (`Seen`), the
settings it has read were those of one, and the rows of a goal that a call has inserted are there until
the goal is cleared (`Held`). For `OneWinner` the invariant speaks of two slots at once (`OneHolder`): the
second insert meets the rows of the first in the unique index, unless they were cleared in between.

**Divergences.** `GroupWide` fails: a goal whose assignees have all left is shown as everybody's, because
inactive assignees are dropped before the list is asked whether it is empty (`docs/api-spec.md:2092`,
`groupsController.js:640`). `assignGoal` reads back what it has inserted (`groupsController.js:705`): a
call that makes it a goal of all in between leaves the answer without the ids of the assignments.

## 10. Reports, rankings and the pages of sessions

**Code.** `getSessions` and `getSession` of `sessionsController.js`, `reportsController.js`,
`rankingsController.js`, `sessionStats.js`, and the views `v_session_metric_totals` and `v_rankings`.

**State.** `sessions`, `reports`, `tier` (the four tables, as sets of logs, like `Rollup`), `ending` (what
the transaction of an `endSession` has read, and when), the people
(`participating`, `active`, `friends`, `members`), `clock`; one reader with `call`, `pc`, `mem`, `answer`.
A reader writes nothing, so one stands for any number. `pc` is a *set* of queries, because the page of a
session sends two at once.

| action | code |
| --- | --- |
| `FindSession`, `ReadLogs` | `getSession`: row, then metrics and timeline in either order |
| `FindSession`, `FindReport`, `ReadLogs` | the report of a session and the timeline beside it |
| `ReadPage`, `CountSessions`, `ReadMetricMap` | `getSessions` |
| `FindSessionsOfPeriod`, `ReadTotals` | the weekly and monthly report; its window and its days are fixed when the call arrives |
| `FindFriends`, `FindGroup`, `CheckMembership`, `FindMembers`, `RankUsers` | `getRankings`; the first day is taken after the scope is read |
| `StartSession`, `InsertLog`, `ReadForEnd`, `EndSession`, `RollUp`, `SetParticipation`, `Deactivate`, `Befriend`, `SetMember`, `Tick` | the writers, each allowed what its own module allows it, and more: a roll-up moves any set of old logs, and `started_at`, `logged_at` and `ended_at` are any instants at which the code may have read the clock |

The writers are not their modules over again, but no step of those is missing here. In `Sessions` a start
asks for a session in progress, reads the clock and inserts, three instants apart; here the insert stores
*any* instant up to the present, so that of two sessions of a user the one that began first may be
inserted, and finished, last. A log stores any instant likewise. An end stores one between its reading of
the logs (`ReadForEnd`) and its commit, its report is of the logs it read, and a log that is inserted in
between undoes the reading, since the transaction is Serializable.

A day, a second and a rounding are modelled (`DAY`, `SECOND`, `Quotient`), since reports round a duration
down and the view rounds it to the nearest. Scores are whole numbers and an average a rounded quotient.

`ReportProperties` adds `past`, the database at every moment of a call, and `arrived`, the instant it came.
A period report must be what *one* of the moments says of the sessions begun on its days, without an
`end_date` of those begun by `arrived` (`PeriodOfOneMoment`); a ranking likewise, which may take its scope
from one moment, its sessions from another and its day from a third (`RankingOfOneMoment`); and a finished
session must have the same logs in all places, but that its report may lack logs that were `KEEP` or more
older than its end (`FinishedAgree`).

**Run.** `reports_safe`: users 1 and 2, three sessions, two logs, days of two ticks, periods of two and three
days, a page of one session and a ranking of one line, five instants. Five regions: two sessions of one
user in the periods and on the list, the second inserted with any start up to then; one session with logs
in all four tables, these and its end as late as can be; rankings by time, where one session has any
start; weekly rankings by focus; weekly rankings of friends and of a group. Monthly reports and lists
in the first region are those of user 1, who may have both sessions. What a region does not delay
happens at the instant that is stored (`Prompt`): the delays of one writer with those of another are left
to the proofs. `Quiet` stops the writers between two calls, where nobody looks: what they could do then
they can do before the first. At most five different moments of a weekly report of the user with two
sessions are remembered, three of a ranking or a list, two of another period report; the page and the
report of one session are compared with none, and `View` leaves the moments of theirs out.

**Proofs.** All three properties are theorems, for any users, sessions, logs, lifetimes and limits. For
`FinishedAgree`, `IInv` says what the tables
keep of finished study (`StudyKept`: logs are of sessions that have begun, archived logs are `KEEP` old or
older, and what an end has read, and then its report, lacks only logs that were so at the end), that what
was read of a finished session is still so (`Fresh`, `ReadSoFar`), and that every moment of the call agrees with the
present on sessions that were finished then (`MomentsKept`). The heart is one lemma on the writers: none
of them changes a finished session, its report or the union of its logs.

`HInv` says what the two queries of a period and the three of a ranking have to do with the moments of the
call. The present is always one of them (`Watched`), so the first query of a period finds what a moment
has (`WindowFinds`), if the window is what it should be: whole days up to the end of the last one or, when
that is not over, up to the arrival of the call (`Window`, `WindowEnds`; the mutant counts the days back
from the hour). What it has found (`PeriodHeld`) is finished and stays as it was (`FinishedKept`), and
finished logs stay in the union of the tables, so the second query computes what that moment would have
given. Nothing is assumed of the order in which sessions begin or are inserted. A ranking reads its scope,
its first day and its sessions at three moments, and `RankingHeld` keeps the three apart. The rest is
about values: the sums of seconds over a set of sessions and of its
parts, roundings of a sum against a sum of roundings, and that there is one way to number the
lines by value and user, which gives each the number of those ahead of him and one (`Placing`). Facts about finite sums are proved
without induction over data: a set for which one fails would have a smallest subset for which it fails,
because the strict subsets of a finite set are well-founded (`MinimalSet`), and taking one element out of
that gives a smaller one.

**Divergences.** `endSession` makes its report of raw logs alone: a session that was in progress for longer
than raw logs are kept loses the rolled-up ones in its report, while its page shows them; `FinishedAgree`
bounds what may be lost. A period report without an `end_date` ends with the instant the call arrived, and
a session of the same day that begins and ends before its first query is left out. Since a start is
read before it is inserted, the report may have a session that was finished after the one it leaves
out, so that it is no whole day of any moment; `PeriodOfOneMoment` therefore speaks of the sessions begun
by the arrival. A report for an `end_date` has whole days. Reports floor a duration that the view rounds: at
most a second per session apart (`docs/backend-plan.md:191`), which `RankingOfOneMoment` states. A group
whose members have all gone between two queries makes `Prisma.join` of an empty list: 500
(`FindMembers`).

## 11. What is proved, what is checked, what is left out

**Fairness.** Only `sessions_live` and `rollup_live` state any. Nothing else in the code promises progress:
a handler is a fixed number of queries, and whether a client calls is his own affair.

**Proved.** Every invariant, action property and refinement that a passing run checks is a theorem, with
the same definition: the run shows it of a small instance, the theorem of every value of the constants
that the module's assumption admits. The `Properties` and `History` modules hold the inductive
invariants beside the properties, so that TLC can be given those as well.

**Only model-checked.** The two liveness properties, `EveryRequestAnswered` and `EveryLogArchived`: fairness
and `ENABLED` are out of the proof system's reach. So are induction over data by the library's theorems
(they take an operator as a parameter) and `RECURSIVE` operators; no module has either. The theorems do
not say that the operators of the community modules are implemented as the code computes: a sum is a
fold, an average a quotient of integers.

**Divergences without a run.** The divergences in sections 5 to 10 were met while modelling. Those with a
property in a `Properties` module can be seen by putting its name into the configuration of that module:
`NoPendingBetweenFriends`, `OwnerExists`, `JoinedInvitationsAccepted`, `LogoutClosesFamily`,
`FreshTokenAccepted`, `GroupInCommon`, `GroupWide`. Also met: the start of a session is read before its
insert is sent and may lie before the end of the user's previous one; an end whose answer was lost is
answered 409 when it is repeated, and the summary is then to be had from the report only.

**Not modelled.**

- The profile: one row, one statement, read for no decision.
- Later pages, the status filter and the order of lists; counts of members and reactions; texts, and dates
  that no handler compares.
- `v_user_session_summaries` and the sums of `v_group_member_stats`: plain aggregates of what is modelled.
- Score arithmetic and pagination (`bs/utils/`): sums of binary fractions, which TLA+ has no numbers for,
  and the parsing of two query strings.
- Request validation and wording, logging and metrics, cookies, image processing and the rest of `ai/`, the
  hour at which the timer fires, `backend/prisma/seed.js` and other scripts that run once.
- A roll-up in `Sessions`: a log whose copy arrives after the first one was rolled up is stored again, the
  one hazard of `PROJECT.json` without a property. `Reports` has the rest of what happens to a session that
  stays in progress for longer than raw logs are kept.

## 12. Running

    tlc -config SessionsV1.cfg MCSessions
    tlc -config SessionsV2.cfg MCSessions
    tlc -config SessionsLive.cfg MCSessions
    tlc -config RollupSafe.cfg MCRollup
    tlc -config RollupLive.cfg MCRollup
    tlc -config RollupMisordered.cfg MCRollup
    tlc -config ConnectionsSafe.cfg MCConnections
    tlc -config MembershipsSafe.cfg MCMemberships
    tlc -config RefreshSafe.cfg MCRefresh
    tlc -config SharesSafe.cfg MCShares
    tlc -config GroupWorkSafe.cfg MCGroupWork
    tlc -config ReportsSafe.cfg MCReports

    for m in Sessions Rollup Connections Memberships Refresh Share GroupWork Reports; do
      tlapm ${m}Proofs.tla
    done

A run takes from seconds to four minutes with two workers, a proof module from half a minute to two minutes.

Operators marked `mutant` are plausible bugs of the code, and so are `FromTheHour`, `Everybody` and
`RawLogsOf` of `Reports`. Putting one in place of the definition that `PROJECT.json` pairs it with must
make TLC refute the property named there.
