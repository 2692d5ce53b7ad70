# The email scheduler in TLA+

This directory is a verification project for the ReachInbox email scheduler
(`src/`): TLA+ modules of its backend and of the pages that call it, TLC
configurations that check them on small instances, and TLAPS proofs of what
matters most for instances of every size.

Paths below are relative to `src/`, and backend files to `src/apps/backend/src/`.

## 1. The system

A user schedules a campaign: one subject and body, many recipients. Each
recipient becomes a row of `scheduled_emails` in PostgreSQL and a delayed BullMQ
job in Redis. Workers claim the row, ask a rate limiter, send by SMTP and record
the outcome. When PostgreSQL gives up, the routes fall back to a store and
timers in the memory of the process.

| Component | State | Operations | Hard behaviour |
|---|---|---|---|
| Schedule route, `routes/emails.ts:28-207` | campaign and email rows, BullMQ jobs, or copies in memory | five awaited calls, then a catch block that starts over in memory | a timed out statement that commits later; `addBulk` failing after the rows exist; a request waiting for Redis |
| Cancel route, `routes/emails.ts:311-345` | `status` of a row, its job | read, check, update, remove the job | the check is stale when the update runs; the update throws and the answer is a success |
| Worker, `workers/emailWorker.ts` | `status`, the job's lock, messages sent | claim, fetch, two limiter checks, revert and defer, send, record or fail | two executions of one job, crashes between any two awaits, failures after the delivery |
| Queue, `queues/emailQueue.ts`, BullMQ | job state, lock, attempts, stalls | add, take, delay, complete, retry, fail, expire a lock, sweep stalled jobs, trim | at-least-once execution |
| Recovery and lifecycle, `services/recovery.ts`, `server.ts` | the rows read at boot | read scheduled rows, add missing jobs, start workers | rows and jobs move while it runs; it runs again after every crash |
| Rate limiter, `services/rateLimiter.ts` | last send of a sender, counter of an hour | two Lua scripts and a SET | the clock is read before the command is executed; expiry of keys; edge of the hour |
| Slack alert, `integrations/slack/service.ts:100-150` | one key per sender and hour | SET NX, read the connection, post | the hour of the key is read some awaits after the hour of the denial; the key is set before the post; its life ends at the edge of the hour |
| In-memory fallback, `utils/inMemoryQueue.ts`, `utils/inMemoryStore.ts` | emails and timers of the process | create, fire, send, update | lost by a restart; blind to cancels; emails that exist in both stores |
| Database access, `utils/db.ts` | `isPostgresConnected` | connect at startup, `withDbTimeout` | set once: a process whose connection is refused never tries again |
| Senders, `routes/senders.ts` | sender rows | list (creates a default one), create, delete (cascades to emails) | deletion under a running job; two default senders |
| Search index, `integrations/elasticsearch/client.ts`, `routes/admin.ts`, `routes/emails.ts:247-285` | one document per email | index, reindex, search | updates without order or version; two stores joined in one answer, or memory alone when a query throws |
| CSV parser, `utils/csvParser.ts` | none | parse, validate, deduplicate | header detection, malformed rows |
| Compose form, `apps/frontend/src/components/ComposeModal.tsx` | fields, file, preview | select or replace a file, preview, submit | a file replaced while an older one is still being read; a lost reply and the next click |
| Sign-in, `routes/auth.ts`, `middleware/auth.ts` | users, session cookies | Google's callback, dev-login, `requireAuth` | the same user in two stores; a header that names the account; accounts created by parallel requests; ids made up of the time; queries without a handler |
| Slack connection, `routes/slack.ts`, `integrations/slack/service.ts:13-95`, `apps/frontend/src/components/Header.tsx` | one row per user, the button | connect, disconnect, status, OAuth callback | errors answered as success, or not at all; clicks that overlap |
| Dashboard, `apps/frontend/src/pages/DashboardPage.tsx`, `components/EmailTable.tsx` | lists, search results | poll every 3 s, debounced search, cancel | answers out of order; two lists read at different times; a page left while it waits |

How they interact: the routes and the recovery write rows and jobs that the
workers read; worker and cancel route share the `status` column and nothing
else; the worker calls the limiter and the Slack alert between two writes of the
row; the fallback shares the catch block of the schedule route with the
database path. Route, worker and an administrator's reindex write the search
index, each without waiting for the others. Every route but those of signing in
acts for the account that `requireAuth` gives its request. The dashboard learns
of all this by polling only. `PROJECT.json` lists the hazards of all this, each at its line,
with the properties that cover it.

## 2. Modules

| Module | Models | Composes |
|---|---|---|
| `EmailQueue` | BullMQ as the backend uses it (external) | |
| `EmailWorker` | `processEmailJob`, one action per await | extends `EmailQueue` |
| `EmailScheduler` | routes, sender deletion, server processes, recovery; the composed system | extends `EmailWorker` |
| `SendLease` | abstract: the lease on sending one email | |
| `RateLimiter` | both scripts with the executions that call them, and time | |
| `SlackAlert` | `notifyRateLimitReached` and the denied executions, and time | |
| `ScheduleFallback` | the schedule route call by call, the in-memory queue, outages | |
| `SearchIndex` | index calls, reindex, and the search that joins index and rows | |
| `Accounts` | the users table, `requireAuth`, Google's callback and dev-login | |
| `Senders` | the sender routes over both stores, the sender of a campaign | extends `Accounts` |
| `Dashboard` | the polls and the two list routes behind them | |
| `SearchBox` | the debounced search of the dashboard | |
| `SlackConnection` | the routes of Slack's connection and the button in the header | |
| `Page` | the page with both, left and loaded again | extends `SearchBox`, `SlackConnection` |
| `CsvParser` | the parser as a function, and its reference definition | |
| `Compose` | the form, its preview, and the recipients the route makes of it | extends `CsvParser` |
| `MC...` | instances for TLC: where workers run, files, symmetry | extend the above |
| `EmailSchedulerProofs` | theorems of `EmailScheduler`, and that it implements `SendLease` | extends it |
| `RateLimiterProofs`, `SlackAlertProofs`, `ScheduleFallbackProofs` | theorems about them | extend them |
| `SearchIndexProofs`, `SendersProofs`, `ComposeProofs` | theorems about them | extend them |
| `PageProofs` | theorems about `Page`, and about the lists of `Dashboard` | extends both |

### State and actions against the code

*`EmailQueue`*. `jobState`, `lock`, `attemptsMade` and `stalls` are what BullMQ
keeps of a job. "queued" covers delayed and waiting: a queued job may be taken
at any moment, which covers every delay. An execution may only leave the job
(`Release`) while it holds the lock. `SweepStalled` returns an active job
without a lock to the queue, once (`maxStalledCount` is at its default).

*`EmailWorker`*. `status` is the column, `pc[w]` the await at which execution
`w` is. `Claim` is the `updateMany` of step 1; `Fetch` the read; `SlotCheck` and
`HourlyCheck` the two answers of the limiter, chosen freely; `Revert` and
`Defer` the two awaits after a denial; `SendMail`, `RecordSent`, `MarkFailed`
steps 4, 5 and the catch block; `Resolve` and `Reject` the return or throw that
BullMQ sees. `Update` is any `update` by id: it throws when the row is gone, and
when the connection fails, applied or not. `ackLost` is a history variable: a
delivery was followed by the catch block.

*`EmailScheduler`*. `server[s]` is "down", "recovering" (the API listens, the
recovery runs) or "up" (workers run). `scan[s]` holds the rows `findMany`
returned and the loop has not yet looked up; `enqueuing[s]` the rows inserted
and not yet given to `addBulk`; `cancelling[s][e]` where a cancel request is.
`Crash` drops all of it and leaves the locks in Redis.

*`RateLimiter`*. A call reads the clock (`Issue`) and its command is executed
later, in the order of its process's connection (`pipe`). `SlotFree`,
`SetLastSend`, `Exhausted` and `Increment` are the lines of the scripts; a
rejected command counts as allowed (`Rejected`); `Resend` is ioredis sending an
unanswered script again. `Tick` expires keys.

*`SlackAlert`*. The limiter's denial names an hour (`Deny`). The row is put back
before the alert is called, and the alert reads the clock anew (`Notify`), perhaps
in the next hour; the SET is executed later still (`SetNX`); then the connection is
read and the message posted.

*`ScheduleFallback`*. `request` is the call the route is at. A call answers,
times out (`TimesOut`) or is refused at once (`Refuses`) by `withDbTimeout`;
`inserting` is a `createMany` that outlived its timeout. `copies`, `timers` and
`running` are the in-memory emails, their timers and their executions. `start`
says how far away the time of the emails is, as far as `setTimeout` can tell:
now, soon, or more than 2^31-1 ms; `JobDelay` and `TimerDelay` are when a job or
a timer set now goes off, and `early` remembers those that do before `start`. The
worker is that of `EmailWorker` without losses of its lock and with the limiter's two
checks as one: `TakeJob`, `Claim`, `Abandon`, `Postpone`, `SendMail`, `RecordSent`,
`RecordFailed`, `LeaveJob`. Each of its statements may throw, applied or not; so a
row may stay `processing`, and one may be sent again. `SweepStalled` finds the jobs of
a process that is gone. `Recover` is the recovery in one step, which may give up
between any two jobs it adds; its interleaving with the workers of other processes is
the subject of `EmailScheduler`. `lost` and `upset` are history: deliveries of a
worker whose outcome was lost; recipients whom a statement that threw concerned.

*`SearchIndex`*. `docs` is the status each document carries, `calls` the calls of
`indexEmail` under way, in no order. `Schedule` is a new row with the route's
unawaited call, `UpdateRow` any update by worker or cancel route, of which only
the one to `sent` is followed by a call. `ReadRows`, `BulkItem` and
`FinishReindex` are `reindexAll`; `AskIndex` and `Join` the two awaits of the
search route. An error of the first counts as no hit; after one of the second the
answer is what the in-memory store holds (`threw`). What matches the query is one fixed set of emails.

*`Dashboard`*. `poll[p]` is one run of `fetchData`: `ReadList` is the moment a
route reads the rows of one list, `ShowLists` and `FailPoll` the two ends of
`Promise.all`. `ChangeRow` takes a row to any status that worker, recovery and
routes may take it to. `startup` is the connection to PostgreSQL, which is tried once
per process: `EndConnect` is its end, `RestartServer` another process. As long as
`isPostgresConnected` is false every list is answered from memory, and in a process
whose connection was refused it is false for good.

*`Accounts`*. `users` is the table, each account known by its email, which nothing
changes: its `googleId`, or "none" before the row exists. A request is a record:
the step it is at (`at`), the cookie it carries (`token`), whom it acts for
(`who`), its `result`. `Arrive`, `FindSession`, `FindDev` and `CreateDev` are the
awaits of `requireAuth`; `FindAccount`, `CreateAccount` and `UpdateAccount` those
of both ways to sign in. A query throws at any of them, applied or not. `Memory` gives
each email its user in memory, an account of its own with another id than that of
the row; `remembered` are the emails whose user has been made there, at first the
demo user only. Without a session the guard of `middleware/auth.ts:69-70` lets a
request go on as the account that its header `x-dev-user-email` names, in production
too, and in development without the header as the demo user (`DevFallback`). The
ids that dev-login and `requireAuth` make up (`MadeUp`) are a prefix and a
millisecond in a unique column: that another account has the same one is a choice.
`lapsed`, `crossed` and `clashed` are history: a query of this request went wrong;
another one wrote the row that it is after; its made-up id was taken.

*`Senders`*. `senders` says of each sender where it is ("db" or "memory") and whose;
`late` holds the statements that `withDbTimeout` gave up and that go on. A route
starts where `requireAuth` ends. `ListSenders`, `CreateDefault`, `ListFromMemory`
and `CreateMemoryDefault` are the awaits of the list, `CreateSender` and
`DeleteSender` the other two routes, `FindSender` the lookup of the schedule
route with its fallback.

*`SearchBox`*. Results are known by the query they answer. `Type` is a change of the
query together with the effect it triggers: the cleanup of the last timer
(`TimersKept`), the early return for an empty query, the new timer. `Ask` is a
timer that runs out, `Answer` and `Fail` the two ends of its request. What an
answer holds for a query is in `SearchIndex`.

*`SlackConnection`*. `connection` is the user's row, `header` the state of the
button, `call` the requests under way: sent, executed by the server, answered. A
request whose page is gone (`left`) is still executed. `ToggleSlack` is a click,
`GetStatus`, `MockConnect`, `DisconnectSlack` and `Callback` the routes with
their query. `Page` puts it and the search box on one page, which the user
reloads at any time and which a failing `mock-connect` leaves for Slack's.

*`CsvParser`*. A file is a sequence of rows of cells, a cell what the code tells
apart. `ParsedRows` is `csv-parse`, `SplitRows` the branch for when it throws,
`AddCandidate` one turn of the loop. The reference says what a file means
without the loop: the rows that hold an address, and the column the header names.

*`Compose`*. `folder` holds the files the user has at hand. `SelectFile` selects one,
be it in place of another, and starts a `FileReader` of its own; `ShowPreview` and
`FailRead` are the ends of one, in any order. `TypeText` is the other field, `Submit`,
`Succeed` and `Fail` the submission, `Schedule` the part of the route between the
request and the recipients. `stale` is history: the preview is not of the file
selected last.

### The abstract specification

`SendLease` says what the claim on the row is for: per email a lease that one
holder takes while it is open, uses for at most one delivery, and gives back
closed or open; a delivery whose acknowledgement is lost may leave it open.
`EmailScheduler!ImplementsLease` maps rows, executions and deliveries to leases
(`LeaseOf`), and `EmailScheduler_faults` checks that every step of the whole
system is a step of the lease or leaves it alone; `EmailSchedulerProofs` proves it.

## 3. Runs

Ten runs pass; each of their properties has, in `PROJECT.json`, a mutant: a
plausible bug that makes TLC report that property.

| Run | Bounds | Shows |
|---|---|---|
| `EmailScheduler_faults` | 1 email, 2 workers in 2 processes, 2 attempts, 1 stall, 1 crash, every fault and request | one owner per row, no second delivery without a lost acknowledgement, a cancel before the claim is final, a settled `sent` stays (`SentIsFinal`), and all of it as a refinement of `SendLease` |
| `EmailScheduler_crash` | 1 email, 2 workers in 2 processes, 3 attempts, 1 crash, failing SMTP, deletions | until a crash rows and jobs stay together (`RowHasItsJob`, `OutcomesAgree`); a crash loses nothing but what a worker had claimed, and the restart gives the other rows their jobs (`OnlyClaimsAreLost`) |
| `RateLimiter_faults` | 2 executions of one process, delays 1 and 2, hours of 2 ticks, 4 ticks, limit 1, 1 failure of Redis | `GrantsAreSpaced`, `HourlyOverrunIsBounded`, `DeferralLeavesTheHour` |
| `SlackAlert_faults` | 2 executions, hours of 2 ticks, 3 ticks, every fault | an hour is announced at most once but for late calls (`SecondAlertIsLate`), at least once but for failures of its own and for denials whose call came after its end (`DeniedHourIsAlerted`) |
| `ScheduleFallback_faults` | 1 recipient, 2 attempts, 3 failures, 2 outages, 1 restart | what is accepted is held (`AcceptedIsHeld`), sent once by each store but for lost outcomes (`OncePerStore`), never before its time (`NotBeforeItsTime`), and run to its end unless a statement of its worker fails (`RequestSettles`, `AbandonedRowSettles`) |
| `SearchIndex_faults` | 2 emails, 1 failure of Elasticsearch or PostgreSQL | a search for sent emails is never wrong about one (`SentSearchIsTruthful`), finds what is settled (`SettledIsFound`); when index and rows agree (`SentIsIndexed`, `ReindexRepairs`) |
| `Dashboard_faults` | 1 email, 2 polls at a time, 2 failures, 1 restart, connected or not | the page converges if the process has connected (`PageConverges`), and loses what it shows rightly to overlapping polls and answers from memory only (`ShownStaysTrue`) |
| `Page_faults` | 2 queries, 2 searches and 2 calls of the header at a time, 1 failure of each kind, any number of reloads | the results answer the query (`ResultsAnswerTheQuery`), the header tells the row (`HeaderTellsTheRow`), the button comes back (`ConnectingEnds`) |
| `Senders_faults` | 2 requests at a time, 2 accounts, one of which a header may name, 2 profiles of one Google user, 2 senders, 1 query that throws or is given up | whom a request acts for (`ActsForItsAccount`), that a sign-in succeeds (`SignInSucceeds`), one default sender (`OneDefault`), and that the routes' answers are so (`AnswersHold`) |
| `Compose_forms` | 295 files of up to 3 rows of 1 or 2 cells, each at hand alone, and 4 at hand together; 1 replacement, 2 reads at a time, 1 text, 1 failure | `SecondCampaignNeedsLostReply`, `RecipientsAreDistinct`; the parser against its reference (`RowsYieldOneAddress`, `HeaderColumnWins`), its two ways of reading (`ParsersAgree`), the preview (`PreviewCountsAddresses`), and that an unchecked recipient was typed and announced as invalid (`UncheckedWereAnnounced`) |

Two runs find the code in disagreement with the repository's own words; each is
a finding in `PROJECT.json`, with the quote.

| Run | What happens |
|---|---|
| `EmailScheduler_restart` | a crash after the claim: the row stays `processing` for good |
| `EmailScheduler_duplicate` | the update to `sent` fails, the catch block records `failed`, the retry sends again |

### What the conditions in the properties stand for

The properties that hold carry conditions, and the conditions are where the code
stops short:

- `CancelledBeforeClaimIsFinal` speaks of rows nobody owns. A cancel while a
  worker owns the row is reported as success, and then the email goes out, or
  the limiter denies it and the worker puts the row back to `scheduled`, perhaps
  after the cancel removed its job.
- `SentIsFinal` leaves out two ways a row that reads `sent` changes. A cancel that
  read the row before checks a stale status (`emails.ts:327`) and overwrites
  `sent` with `cancelled`, although the route says that a sent email cannot be
  cancelled; and an execution whose update to `sent` was applied but not
  acknowledged records `failed` over it, from which a retry may send again.
- `UncheckedWereAnnounced`: what is not an address and is scheduled all the same
  was typed, not uploaded, and the preview counted it as invalid. The preview
  says "skipped" (`ComposeModal.tsx:255`), but the form submits the typed list as
  it is and the route does not look at it (`emails.ts:47`).
- `NotBeforeItsTime`: `setTimeout` takes a delay of more than 2^31-1 ms, 25 days,
  for 1 ms. A campaign further away that falls back to memory is sent at once.
  BullMQ's jobs, those of the recovery included, have no such limit.
- `ActsForItsAccount`: when the lookup of a session throws, the request goes on as
  somebody else: as its namesake in memory if there is one, or as without a session.
  Without one it is the account that its header `x-dev-user-email` names, which is
  also its account where there never was a session; in development the demo user;
  and in production without the header it ends with 401. That account again gives
  way to its namesake in memory if a query throws, if another request creates the
  account first, or if the made-up id clashes.
- `SignInSucceeds`: two sign-ins may create the same account, and one of them
  fails; and when Google's id belongs to one account and its email to another,
  `findFirst` takes either, and the update fails whenever it takes the second.
  dev-login has no error handler: where Google's callback redirects to an error,
  it never answers. And the id that it makes up is a millisecond
  (`routes/auth.ts:122`): of two accounts created in the same one the second fails.
- `OneDefault`: between the empty list and the insertion lies a call to Ethereal.
- `AnswersHold`: a query that throws or is given up makes the routes go on in
  memory, with the same answer: the created sender is there only, the deleted row
  is still there, or gone later, and a campaign gets a sender of the user's in
  memory instead of the chosen one.
- `ResultsAnswerTheQuery`: no request is taken back. The answer to an older query
  stays if it comes last, also beside an empty query; and a failed search keeps
  the results of the query before.
- `HeaderTellsTheRow`: a failing query makes a disconnection succeed without
  effect and a status say "not connected"; two clicks, or a click and the status
  of the page's load, may overlap. When the user declines at Slack's, the browser
  comes back without a code, and the callback connects a mock workspace
  (`routes/slack.ts:25`): `Callback` does not tell one connection from another.
- `ConnectingEnds`: `mock-connect` has no error handler, and while it does not
  answer the button is disabled, until the page is loaded again.
- `RowHasItsJob` and `OutcomesAgree` end with the first crash, and need that no
  statement or command of a worker fails, no running execution loses its lock and
  nobody cancels; TLC finds each of them violated when any one of these is allowed.
  With a stall, an execution that lost its lock may put a row back to `scheduled`
  after a second one completed the job; a cancel may overwrite a row whose job
  goes on; a failed update leaves row and job with different outcomes. A route
  that gives up before `addBulk` leaves a row without a job, which breaks only the
  first. A crash strands what the process had claimed, which `OnlyClaimsAreLost`
  is about.
- `OnlyClaimsAreLost` is checked with one crash. A failed job is retained
  (`removeOnFail`), and after two crashes before the claim such a job of a row
  still `scheduled` keeps the recovery from adding another.
- `GrantsAreSpaced` is checked within one process, whose connection keeps
  commands in order. Two processes may have their scripts executed in another
  order than that of the clocks they carry. And a reservation lives for ten
  delays of its own campaign: a campaign with a delay more than ten times as long
  finds it gone before its own delay is over. It is a spacing of reservations,
  not of messages: a slow send and the next one meet.
- `HourlyOverrunIsBounded` allows for `Quota`, which is 1 when the limit is 0
  (the script does not compare before the counter exists), and for the messages
  past the check when the hour began (`carried`).
- `SecondAlertIsLate`: the key of an hour lives 3600 s from its `SET`, so it may
  be gone when a call of that hour is executed just after its end.
- `DeniedHourIsAlerted` excuses an hour with a failure of its own: the key is set
  before the message is posted, so a failed post silences the rest of the hour. And
  the hour of the alert is not that of the denial: when the row is put back at the
  edge of an hour, the call names the next one, and the hour that was full may never
  be announced (`missed`), without any failure.
- `OncePerStore` counts each store for itself. When a statement commits after its
  timeout, or `addBulk` fails, row and copy of one recipient are both sent. And it
  allows one more message for each delivery of a worker whose outcome was lost, since
  the catch block takes a failed update to `sent` for a failed delivery.
- `SettledIsFound` and `SentIsIndexed` speak of emails whose calls have all ended,
  and ended well. `SettledIsFound` leaves out the answers from memory: when
  `findMany` throws, the search answers with none of the rows (`emails.ts:280-282`). `SentIsIndexed` leaves out rows that were `overtaken`: the call
  of the route, or what a reindex had read before, wrote `scheduled` over `sent`,
  and nothing puts that right before the next reindex. `ReindexRepairs` is about
  a reindex with no other writer and no failed item.
- A search by status finds emails by the status in their documents and returns
  the rows as they are. Only `sent` is ever indexed after `scheduled`, so it may
  miss sent emails and return ones whose row has moved on; what it does not do is
  return one that was not sent (`SentSearchIsTruthful`).
- `ShownStaysTrue` lets the end of a poll take a true entry away if another poll
  overlapped it, the row changed while it ran, or a route answered from memory.
- `PageConverges` needs that the process has connected to PostgreSQL when it started.
  One that has not shows no row for as long as it runs, also when PostgreSQL is back:
  `db.ts:17` logs that it will retry on demand, and nothing does.
- `PreviewCountsAddresses` leaves out previews that are `stale`: each file has a reader
  of its own, so that of a replaced file may end last and set the preview
  (`ComposeModal.tsx:72`), and a file that cannot be read leaves the last preview in
  place. Both show the counts of another file than the one that is sent.
  `UncheckedWereAnnounced` has the first of them in its condition.
- `ParsersAgree` leaves out files whose first row is nothing but commas: that row
  hides the header from one way of reading and not from the other.
- `SecondCampaignNeedsLostReply`: the form has no key by which the route could
  tell a repeated submission from a new campaign.
- `AcceptedIsHeld`, `RequestSettles` and `AbandonedRowSettles` leave out recipients who
  are `upset`: a statement of the worker threw between the claim and the outcome, or
  one of the recovery. Such a row may stay `processing` for good. The first two also
  end with a restart: what is only in memory is gone. `RequestSettles` needs Redis to
  return (`addBulk` waits for it). A process that could not reach PostgreSQL at its
  start never tries again (`Refuses`); it settles its requests in memory. A cancelled
  copy counts as settled in `RequestSettles` although its timer still sends it.

### Bounds and why they are enough

- *Emails and workers.* Emails share no state but the senders and the workers, so
  one email shows every race about a row. Two executions of one job are what
  BullMQ can produce at a time with one stall allowed; a third is a second stall.
- `MaxAttempts` is 2 or 3 (the code: 5). What matters is a first, a last and,
  for the retry after a retry, a middle attempt.
- `MaxStalls` is 1, BullMQ's default. `MaxCrashes` counts deaths of processes
  and losses of Redis.
- `delivered` counts up to 2: no property tells more apart.
- *Time.* An hour of 2 ticks has a beginning, an end and an edge; the runs that
  pass see two full hours, that of the limiter the beginning of a third. `SlotTtlFactor` is 2 (the
  code: 10), so that a reservation expires within the clock's bound.
- *Index and page.* Two emails are the fewest for a search that finds one in the
  index and hides another; one failure is the fewest that loses a call. Emails on
  the page are independent of each other, and two polls are enough to overlap:
  a third adds another order of the same two ends.
- *Page.* Two queries are the fewest of which one overtakes the other, and two
  calls the fewest that overlap. The page may be reloaded as often as it likes.
- *Recipients.* The emails of a campaign share its request, which the run has whole;
  their rows, jobs and copies are apart. So one recipient shows every order of the
  calls, and three failures are a lost outcome, a failed record and a call of the
  route. That the recovery adds some jobs and not others is only in the theorems,
  which are about any number.
- *Accounts and senders.* Two requests show every race of two; the second account
  is the one that memory does not know at first, and the one that the header names. The Google
  user has the demo user's email in one profile and another in the second, so that its
  id and its email may belong to two accounts. Two senders are the seeded one and a new
  one: `OneDefault` is about the request that is about to create a second default.
- *Files.* Every row of one or two cells comes first in a file, alone, before a
  second row, and behind a header; the rows after it repeat an address in another
  case, bring another one, have it in the second column or hold a second header.
  Two cells are the column the header names and another one. Each file is there
  alone, for what the parser makes of it; replacing needs few, which the parser and
  the preview count differently. Two readers are the fewest of which an older ends
  last. One failure is one lost reply, hence two campaigns, or one file not read.
- `MaxFailures`, `MaxOutages`, `MaxRestarts` bound events that the code cannot
  prevent; every call can be the one that fails.
- Symmetry is used over interchangeable workers, or emails, in runs that check
  safety only.

The runs but `Page_faults` do not check for deadlock: a system whose emails are settled, whose requests
are answered and whose budget of faults and time is spent has nothing left to
do.

### Fairness and why the code justifies it

- An execution goes on (`WF` of its steps): every await of the worker ends. For
  the Slack post, which has no timeout, that is an assumption about Slack.
- BullMQ hands a queued job to some worker in the end (`SF` of taking it: a
  worker may be busy again and again).
- Neither check of the limiter denies an execution for ever (`SF` of the two
  admissions): a delay elapses and an hour ends. `DeferralLeavesTheHour` shows
  that a deferred job comes back in another hour.
- A process is restarted by its supervisor; expired locks and stalled jobs are
  found by BullMQ's own timers.
- In `ScheduleFallback` the requests, timers and jobs of a running process go
  on, outages end (`OutagesEnd`), and the limiter admits an email in the end (`SF` of
  `SendMail`).
- The interval of the dashboard keeps starting polls, and every request of the
  browser is answered or fails, in `Page` each call of the header until it is `never`
  answered; a page that was left is loaded in the end. The connection at the start of a
  process succeeds or is refused (`EndConnect`).
- In `ScheduleFallback` the time of the emails comes.

No fairness is assumed of users, failures, crashes or late commits.

## 4. Proofs

The theorems hold for every value of the constants that the named assumptions
allow: any number of emails, workers, processes, recipients, queries and
requests, any bounds and any set of faults.

| Module | Theorem | Property |
|---|---|---|
| `EmailSchedulerProofs` | `TypeCorrect` | `TypeOK` |
| | `SingleOwnerHolds` | `SingleOwner` |
| | `SentIsTruthfulHolds` | `SentIsTruthful` |
| | `NoDuplicateHolds` | `NoDuplicateWithoutLostAck` |
| | `CancelledBeforeClaimIsFinalHolds` | `CancelledBeforeClaimIsFinal` |
| | `SentIsFinalHolds` | `SentIsFinal` |
| | `ImplementsLeaseHolds` | `ImplementsLease`, the refinement of `SendLease` |
| | `RowHasItsJobHolds` | `RowHasItsJob`, under `AllEnqueued` |
| | `OutcomesAgreeHolds` | `OutcomesAgree`, under `Undisturbed` |
| `RateLimiterProofs` | `LimiterTypeCorrect` | `RateLimiter!TypeOK` |
| | `GrantsAreSpacedHolds` | `GrantsAreSpaced`, when all executions run in one process |
| | `HourlyOverrunIsBoundedHolds` | `HourlyOverrunIsBounded`, for any number of processes |
| | `DeferralLeavesTheHourHolds` | `DeferralLeavesTheHour` |
| `SlackAlertProofs` | `AlertTypeCorrect` | `SlackAlert!TypeOK` |
| | `SecondAlertIsLateHolds` | `SecondAlertIsLate` |
| `ScheduleFallbackProofs` | `AcceptedIsHeldHolds` | `AcceptedIsHeld` |
| | `OncePerStoreHolds` | `OncePerStore` |
| | `NotBeforeItsTimeHolds` | `NotBeforeItsTime` |
| `SearchIndexProofs` | `IndexTypeCorrect` | `SearchIndex!TypeOK` |
| | `SentSearchIsTruthfulHolds` | `SentSearchIsTruthful` |
| | `SettledIsFoundHolds` | `SettledIsFound` |
| | `SentIsIndexedHolds` | `SentIsIndexed` |
| | `ReindexRepairsHolds` | `ReindexRepairs` |
| `SendersProofs` | `SendersTypeCorrect` | `TypeInv`, which includes `Senders!TypeOK`, and `AccountInv` |
| | `ActsForItsAccountHolds` | `ActsForItsAccount` |
| | `SignInSucceedsHolds` | `SignInSucceeds` |
| | `OneDefaultHolds` | `OneDefault` |
| | `AnswersHoldHolds` | `AnswersHold` |
| `PageProofs` | `PageTypeCorrect` | `PageTypeOK` |
| | `ResultsAnswerTheQueryHolds` | `ResultsAnswerTheQuery` |
| | `HeaderTellsTheRowHolds` | `HeaderTellsTheRow` |
| | `DashboardTypeCorrect` | `ListsTypeOK` |
| | `ShownStaysTrueHolds` | `ShownStaysTrue` |
| `ComposeProofs` | `ComposeTypeCorrect` | `Compose!TypeOK` |
| | `SecondCampaignNeedsLostReplyHolds` | `SecondCampaignNeedsLostReply` |
| | `RecipientsAreDistinctHolds` | `RecipientsAreDistinct` |
| | `RowsYieldOneAddressHolds` | `RowsYieldOneAddress`, for files of any length |
| | `HeaderColumnWinsHolds` | `HeaderColumnWins` |
| | `ParsersAgreeHolds` | `ParsersAgree` |
| | `PreviewCountsAddressesHolds` | `PreviewCountsAddresses` |
| | `UncheckedWereAnnouncedHolds` | `UncheckedWereAnnounced` |

Assumed are only the named assumptions on the constants, which TLC evaluates on
every instance. Most say what sets the constants are of (a worker runs in one
process, an email has one sender, the stand-ins for "no worker", "no email" and "no
query" are neither). Two say more, and the code's numbers satisfy them:
`HourTtlAssumption`, that a counter lives for an hour at least (`rateLimiter.ts:79`
gives it 3700 s), and `DayAssumption`, that the expiry of a day set by
`updateSenderLastSend` is no shorter than the reservation of some campaign, which
is ten of its delays. Others keep the model's words apart: no sender's id is the
answer `refused`, and none of Google's ids is the word for having none or for one
that dev-login makes up (`SendersAssumption`, `GoogleIdsAssumption`).

Three theorems have a condition of their own, each a statement about constants
that the run of the property satisfies and that TLC shows to be needed.
`GrantsAreSpacedHolds` needs `OneProcess`, for the order in which two processes
reach Redis is not that of the times they read. `OutcomesAgreeHolds` needs
`Undisturbed`: no failing statements or commands in a worker, no lost locks, no
cancel requests. `RowHasItsJobHolds` needs `AllEnqueued`, which adds that no route
gives up between the insertion of its rows and `addBulk`. What is left is every
failure of SMTP and of requests, deletions, and any number of workers, processes,
attempts and stalls of jobs whose executions are gone.

### The send pipeline

Types alone are not inductive: that `attemptsMade` never passes
`MaxAttempts` needs that a live job has attempts left, hence `StateInv`, which
adds to the types how jobs, locks and executions fit together (`QueueOK`: a lock
belongs to an active job, a queued job has attempts left; `WorkOK`: an execution
has a task exactly when it runs; `BackendOK`: what processes that are down do
not hold). `SendInv` then relates claims to deliveries. `ClaimInv` says that an
owned row is never in a status that may be claimed; without it `SingleOwner` is
not inductive, for a second claim must be impossible. `DeliveryInv` says where a
delivery shows until its acknowledgement is recorded or lost: the row may not be
claimed any more, and its owner, if any, is about to record it; without it the
bound on deliveries is not inductive. `CancelledBeforeClaimIsFinal` and
`SentIsFinal` are action properties and follow from the same invariant, one
action at a time: who does not own a row cannot write `failed` or put it back,
and a cancel that starts now sees `sent`.

The refinement rests on that invariant too: a lease has one holder because a row
has one owner, and a lease opens again only if its delivery is none or not
acknowledged. The mapping is a function with records in it, and the steps are many;
so the proof says first what each field of a lease means of rows and executions
(`AllFields`), then that a step of the system does to each email one of the eight
things of `LeaseStep`, and to all but one nothing, and only then that these are
the actions of `SendLease`.

`RowHasItsJob` and `OutcomesAgree` relate the two layers, and become inductive with
`AgreeInv`. Until the first crash, the active job is the one that the holder of its
lock works on, and nobody else works on it (`HolderInv`); then the row can be read
off the await that its execution is at, or off the state in which its job rests
(`RowInv`): a queued job has a row that is still `scheduled` or `failed`, a
completed one a row that is `sent`. A row about to be enqueued has no job yet and
one request that enqueues it (`EnqueueInv`), for otherwise a second job could bring
a finished row back to work; that each scheduled row without a job is such a one is
`PromiseInv`.

### The limiter and the alert

`GrantsAreSpaced` needs that calls reach Redis in the order of the times they
carry. `PipeInv` says so of a connection: it holds each waiting execution once,
in the order of their times. `GrantInv` says of the latest grant that whoever
waits read a later time, and that the key holds the grant's time or a later one
for as long as some reservation lives: reports and scripts that run twice move
it forward only. `OverrunInv` counts those who can still send in the present hour
without having been counted in it (`Passing`), beside those who sent: each message
was counted, was carried over, or used up a failure. It needs that a counter does
not expire before its hour is over (`CounterInv`). `DeferralLeavesTheHour` needs
only that a call read a time that is past (`CallInv`).

`SecondAlertIsLate` follows from `AlertInv`, which is about the hour of the call, not
that of the denial: as long as no call of an hour is late,
one execution at most holds the hour's key, and the key lives to the end of the
hour. What the provers do not know of the quotient that names an hour comes first
in both modules (`DivFacts`, `DivMonotone`).

### The fallback and the index

`ScheduleFallbackProofs` follows the request. `StageInv` says which rows, jobs and
copies there can be at each call, and that a copy exists only after the request
turned to memory. `WorkInv` says how an execution goes with its job and its row: an
active job of a process that lives has one, and from the claim to the outcome the row
is `processing`, so that nobody else may claim it. From there each store has one
delivery per recipient, done or to come, beside those whose outcome was lost
(`BudgetInv`), each recipient is where the request put it unless it is `upset`
(`HeldInv`), and who may send early had a timer too far away (`TimeInv`).

`SearchIndexProofs`: what a document, a call or the snapshot of a reindex says of
an email was true once (`TruthInv`), the hits of a search were true when it asked
(`HitInv`), a row has a document unless a call for it is under way or lost
(`DocInv`), a search keeps what was settled until it is answered from the rows
(`FoundInv`), and an undisturbed reindex has each row written or still to write
(`ReindexInv`).

### Accounts and senders

What makes `Senders` hard is that a request decides by what it read at an earlier
call. `AccountInv` says of each request where it can be with which operation and
account (`PlaceInv`), and that what its last query found is still so unless another
request has written an account that the query would have seen (`FoundInv`; the model
marks such a request `crossed`). From there, who is about to create an account finds
none, and who is about to write Google's id into one finds it nowhere else, which
needs that Google's ids are unique (`IdsInv`, the column's own constraint), or had to choose
between two accounts (`Split`). So the write of an uncrossed request succeeds unless
its made-up id is taken, which is `SignInSucceeds` (`Succeeds`), and a request whose
queries all went well acts for a user in memory only if it had no cookie and was
crossed or clashed, which is `ActsForItsAccount` (`ActsFor`); that a session that falls
back goes on as one of these, whatever its header, is `FallbackStep`. The theorems are
about any set of emails that headers may name.

`DefaultInv` adds the senders: unless creations of an account's default overlapped,
the account has one default, or one request that is about to create it and then no
default and no late statement that would, from which `OneDefault` follows. `Holds` says of one request what
`AnswersHold` says of all: an answer is about the moment it is given, so it rests on
where the request was and for whom it acted there (`OwnAccount`, from `AccountInv`).

### The dashboard and the page

Of the lists: of an email that is not stale for a poll, every list the poll has
received is what a read would return now (`FreshInv`); so the end of a poll shows of
such an email its status, and nothing else. `stale` is history: what overlapped the
poll, changed while it ran, or was answered from memory.

Of the search box and the header: `ResultsAnswerTheQuery` becomes inductive with `AskedInv`, that only
the typed query has a timer and a request that is not old is for it;
`HeaderTellsTheRow` with `CallInv`, that as long as nothing overlapped or failed
there is one call at most, whose page is still there, and what it is about to show
is so.

### The form and the parser

What the parser and the route compute is a fold over a file or a text of any length,
and the theorems about it hold for every file. They need induction over data, for
which the library's theorems take an operator, which the provers cannot instantiate.
`ComposeProofs` does without: a set of numbers that holds 0, and with each number the
next, holds all of them, for otherwise an injection would map a finite set into one
that is smaller (`Upward`, from the pigeonhole principle of `FiniteSetTheorems`). The
same follows for sequences that grow (`Grown`), and that the fold, which the community
module chooses among functions, exists and goes through the list one element at a time
(`FoldExists`, `UniqueGrows`, `KeepGrows`, `ParseGrows`). From there `UniqueFacts`,
`KeepFacts` and `ParseFacts` say what each loop makes of every list: the cells in lower
case and each once; the lines of a set; and as many valid addresses and duplicates as
there are rows with an address, each of them from its own row.

`KeepsAgree` is the induction behind `ParsersAgree`: two sets of rows to keep, of which
one has only blank rows beside the other, are parsed alike, and so is what follows the
first row, if that one is not blank. `HeaderColumnWins` rests on it too, since the
submitted file may have been read either way.

Of the form, `PreviewInv` says that a read that is not old is of the selected file,
that such a read is under way unless the preview shown is of that file or `stale`, and
that the preview of a text is that of the present text; `RequestInv` that
`isSubmitting` is on as long as a request is open, and that accepted campaigns beside
the one whose reply is on its way have lost theirs, which is what makes
`SecondCampaignNeedsLostReply` inductive. Of the constants, `FilesAssumption` and
`TextsAssumption` say what files and texts are made of: rows of at least one cell,
as a line has, and cells.

### Only model-checked

Liveness (fairness and `ENABLED` are beyond the prover): `OnlyClaimsAreLost`,
`DeniedHourIsAlerted`, `RequestSettles`, `AbandonedRowSettles`, `PageConverges`,
`ConnectingEnds`.

## 5. Not modelled, and why

- Message text, HTML, logging, layout: no property is about them.
- Google and Slack OAuth exchanges, Ethereal account creation: external I/O.
- `attempts` and `bullJobId` columns: written, never read by the backend.
- The branch of `InMemoryQueueService.processJob` for a row of PostgreSQL: ids
  of the two stores never meet.
- The distances between the emails of one campaign: in `ScheduleFallback` they are
  all due at one time, and in `EmailScheduler` at any.
- Requests whose body zod refuses: in the async routes the error is thrown where
  nobody handles it, and they are never answered, without any effect on the state.
- Another tab of the same browser: `SlackConnection` has one page at a time.
- `AuthContext`, the forms to sign in and to add a sender, the health report: one
  request at a time, of which only its answer is shown.
- That results of a search are not refreshed by the polls: the page shows what the
  answer held, however old.
- How a query matches a document or a row, and the limit of 100 results: index
  and rows agree on what matches, and the limit is never reached.
- How `csv-parse` reads quotes, and how the preview takes whatever holds an `@`
  for an address: a cell is an address for both or for none.
- Configuration, Docker, scripts, tests.

## 6. Plan

Done: the send pipeline and its proofs, the limiter, the alert, the fallback with
its times, the search index, the polls, the search box, the Slack connection,
accounts and senders, the form and the parser. The runs are kept to a dozen: a
module that comes in shares its questions among few runs.

Every safety and action property that a run checks is a theorem. What is left is to
say more: an abstract specification of what the schedule route promises over its two
stores, with `ScheduleFallback` shown to implement it; and the steps behind the
liveness properties, which are action properties that the prover reaches (a stage of
a request is never entered again, an attempt is never given back), so that only
fairness itself stays with TLC.
