# Verification of EDAE

EDAE watches GitHub repositories and sends what happens there to Telegram,
Slack or e-mail. This directory holds TLA+ models of its backend and of the
parts of its browser client that keep state, the TLC configurations that check
them on small instances, and TLAPS proofs of what matters most for every
instance. File names below are relative to the repository root;
`tlc -config X.cfg M.tla` runs a check, `tlapm M.tla` a proof.

## 1. The system

| component | state it keeps | operations | what must be right |
|---|---|---|---|
| GitHub poll worker (`src/workers/worker.bootstrap.ts`, `github.poll.worker.ts`) | none of its own: the locals of one `processSubscription` per active subscription and tick | a BullMQ job every few minutes: load the subscriptions, run them all concurrently; each polls GitHub, stores the checkpoint, reads the connection, dispatches | no event twice, none forgotten without a trace, one bad subscription does not stop the others, nothing for a subscription that is switched off |
| GitHub poller (`src/workers/github.poller.ts`) | none: eleven functions of a listing and a checkpoint | five cursor polls, three set polls, the closed-issue window, two milestones | silent first poll, every new item reported, none reported twice |
| Subscriptions (`src/modules/subscription`) | `github_subscriptions` rows: source, event type, connection, template, `last_seen` | create, list, delete, `updateLastSeen` | the checkpoint only moves forward and has one writer; no subscription without its source |
| Connections (`src/modules/connection`) | `connections` rows: encrypted credentials, `is_deleted` | create, update, soft delete, restore, list | owner only, deleted ones unused |
| GitHub sources (`src/modules/github_source`) | `github_sources` rows: repository and encrypted token | create, list, delete | unique per user; deletion takes the subscriptions along |
| Notification dispatcher (`src/modules/notification`) | none | render a template, send a message or a file | a failure is reported to the caller |
| Reports (`src/modules/report`, `src/workers/report.worker.ts`) | `report_configs` rows with `last_sent_at` | create, list, delete, hourly worker, manual generation | every period reported once, none forgotten |
| Accounts (`src/modules/user`) | `users` rows: e-mail, pending e-mail, password hash, verified, deleted | registration, login, name, password and e-mail change, password reset, deletion | each change authorised by its own code, none lost |
| One-time codes (`src/modules/token`) | `verification_tokens` rows: purpose, hash, expiry, used | create (invalidating the earlier ones), verify | expire, single use, one active per purpose |
| Authentication (`src/modules/authentification`) | `refresh_tokens` and `user_external_logins` rows | register, confirm, login by e-mail and Google, refresh (rotate), logout | a rotated token is dead and replaced by one; only verified accounts log in or are linked |
| Transaction manager, database errors (`src/modules/infra/transaction_manager`, `src/modules/errors`) | one pooled client per transaction | BEGIN, COMMIT, ROLLBACK; map driver errors | all or nothing |
| Account purge job (`src/jobs/user.purge.job.ts`) | none | delete the soft-deleted accounts, by cascade everything they own | nothing of the account is used afterwards |
| Browser session (`frontend/src/api`, `stores/auth.ts`, `router`, the views of `views/` that log in) | the cookie; access token, user and pending e-mail in memory; the page; what is in flight | submit forms, attach the token, refresh on 401, retry, route guard, boot refresh | token and cookie of one account, a cookie that works, no call that hangs |
| Dashboard tabs (`frontend/src/components`) | the lists a tab has loaded, its loading flags, the selected source | load, patch the lists with the answers, switch tabs | the lists are those of the tables, every button returns |
| Encryption, passwords, mail, PDF, metrics, rate limiter, wiring | none of the program's own | library calls | not modelled |

How they interact: HTTP handlers run one use case in one READ COMMITTED
transaction. The workers, jobs and handlers share nothing but the database
rows; the poll worker reads a snapshot of the rows at the start of a tick and
writes `last_seen` by id later. GitHub and the providers are called outside
any transaction (except the milestone seed of a new subscription). The browser
meets the backend only in requests, each answered in its own time.

What is hard here: the poll worker crosses four awaits per subscription, each
of which can fail, while requests, the purge job and GitHub change what it
read; it stores its checkpoint before it dispatches; the process can die at
each await. The accounts and refresh tokens are check-then-act sequences under
READ COMMITTED that lock only the rows they write. The browser refreshes with
one cookie from several calls at once, and its tabs patch lists that other
handlers reload. PROJECT.json lists each hazard at its line.

## 2. Modules

| module | models |
|---|---|
| `GithubPoller` | the poll functions that keep a cursor, as operators on a listing and a checkpoint |
| `ListingPolls` | the other six polls: branches and tags, merged pull requests, closed issues, stars and forks |
| `GithubPollWorker` | the tick and `processSubscription`, one action per await and outcome; the rows; the requests that change them. Open: the answer of a poll is a parameter |
| `CursorSubscriptions` | the worker over feeds polled by a cursor: releases, commits, opened issues, opened pull requests, completed workflow runs |
| `ListingSubscriptions` | the worker over what is polled without a cursor, and the creation of a milestone subscription with its seed |
| `Delivery` | the abstract specification: items are queued, sent or given up, and queued again only when their memory was lost |
| `AccountTransactions` | the use cases of accounts and their codes, one step per SQL statement, with the locks PostgreSQL takes for them |
| `Sessions` | the authentication service: refresh tokens, external logins, and the requests that read and write them |
| `BrowserSession` | a browser over `Sessions`: store, cookie, router, forms, interceptors |
| `Reports` | the hourly worker and `GenerateReportService` |
| `ReportsTab` | the reports tab of the dashboard over `Reports` |
| `Resources` | connections, sources and subscriptions of one user on the server, and the requests for them |
| `ConnectionsTab`, `GithubNotificationsTab` | the two tabs over `Resources`, and `Dashboard`, which composes them |
| `MC...` | the instances for TLC |
| `...Proofs` | the TLAPS proofs, see section 4 |

    GithubPoller <- GithubPollWorker <- CursorSubscriptions   (implements Delivery)
       ListingPolls, GithubPollWorker <- ListingSubscriptions
                             Sessions <- BrowserSession
                              Reports <- ReportsTab
         Resources <- ConnectionsTab, GithubNotificationsTab <- Dashboard

`AccountTransactions` stands alone: the poll worker sees of an account only its
purge, which `GithubPollWorker` has as an action, and `Sessions` its status.

### The poll worker

`status`, `lastSeen` and `conn` are the columns of the rows; `task[s]` is the
running `processSubscription` of `s`: `pc` the await it stands at, `snap` the
`sub.last_seen` it was started with, `new` and `pending` the `newLastSeen` and
`events` of its `PollResult`. `feed` is what GitHub would list. The other
variables (`sent`, `dropped`, `saveFailed`, `ineligible`, `created`,
`baseline`, `faults`) are history: no guard of the code's steps reads them,
except the bound on failures.

An item of a cursor listing is a positive number, larger ones being listed
first, so `data[0]` is the largest and `data.slice(0, idx)` what is above the
cursor. The texts of an item, the template and the wire formats are left out.
All five cursor polls are one operator, `PollCursor`: their code differs only in
the call, the page size, the name of the key, and the filter of the issue
listing, which `Data` models.

`Save` and `SaveFails` are the two outcomes of the update; a failed update may
have been done and its answer lost. `DispatchFails` likewise. Both failures
are logged and the run goes on, as the code's catch blocks do. `Crash` stands
for a restart of the process: every run is lost, the stored rows stay, and
BullMQ runs the job again. Ticks do not overlap, since the queue's only worker
has concurrency 1 and the job ends when every run has settled.

In `ListingSubscriptions` the listing is a sequence, first item first. Names
take any place in it; what is closed comes first, and comes first again when it
is commented on, because GitHub is asked to sort by the last update. A closed
issue has the second it was closed in, and a window ends at the second of its
tick (`now`): `last_closed_at` is an ISO string with milliseconds, `closed_at`
one without, and they are compared as strings, in which `05Z` comes after
`05.123Z`, so an issue of the very second of the tick lies above the window's
end and in the next window. `seed` is the count that a creation reads before
its row is inserted.

### Accounts

`users`, `issued`, `used` and `expired` are what is committed in `users` and
`verification_tokens`; `tx[t]` is the `t`-th transaction in the order of BEGIN:
`rest` are the statements still to run, `row` the entity it loaded, `version`
the row it has written and so locked, `match` and `marks` the codes its UPDATE
found and set. A transaction inserts at most one code, whose `created_at` is the
time of its BEGIN, so a code is named by its transaction. Each use case is a
sequence of statements, and each statement an action that first waits for
`Blockers`, the transactions that hold a lock it needs: the row lock of an
UPDATE, the KEY SHARE lock that the foreign key of a new code takes on its
account, and the unique index on the e-mail. After the wait a statement sees
what was committed in the meantime, so an UPDATE writes its columns from the
entity and keeps the two flags it does not mention. `Fails` is any error or a
death of the process, at any statement; `DeadlockVictim` is PostgreSQL's
deadlock detector; `Purge` is the nightly job. Left out: the names, the
validators, the refresh token that a confirmed registration also inserts
(`Sessions` has it), and `pending_password`, which no use case sets. A code is
mailed before its transaction commits, and may be submitted from then on.

### Sessions and the browser

`status` is what login sees of a `users` row; `rows` is `refresh_tokens` in the
order of insertion; `req[s]` one request, whose `at` is the statement it comes
to next. A token is its user and the second it was signed in: two tokens of one
user and second are one string, and have two rows with one hash. A transaction
is its reads, one step each, and one step for its writes with the COMMIT, since
no write of this service depends on a row it has to wait for. The waits of the
account use cases are in `AccountTransactions`.

In `BrowserSession` the answer of a request is applied in one step: the
Set-Cookie, the assignments of the store, the router push, the loading flag.
`call[c]` is a private call with the refresh its 401 starts, one refresh per
401 as in `api/client.ts`. `Unload` is a reload: what is in flight goes on at
the server and is not heard. `LoseAnswer` and `Ignored` set `lost`, when the
answer that was not heard changed the cookie.

### Reports and the dashboard

`lastSent` is `last_sent_at` as hours from now; `gen[g]` the run of
`generateForConfig`, a generation of the tick being named after its
configuration and one that was asked for by a request after that. Hours have no
inner order: a report sent "exactly a day ago" may be due or not yet, and
`Elapsed` leaves both open.

A tab is its refs by the names the components give them, one operator per
handler and one per answer. `req[s]` is a request in flight with what its
handler goes on to do (`then`); the use cases that read before they write take
two steps at the server. `doubtful` marks what a browser cannot put in order: a
load overlapped a change, two requests were about one row, an answer was lost.
The properties about lists say nothing then. The notifications tab awaits
the subscriptions inside other handlers, and a flag is cleared by whichever
handler ends first; both are as in the code.

## 3. Runs

| run | configuration | what it shows |
|---|---|---|
| `poll_safety` | two interchangeable subscriptions of one feed on one connection, three items, page of three, one failure or crash | types, five safety and one action property of `CursorSubscriptions` while requests, failures and crashes interleave with the runs, and that it implements `Delivery` (`DeliveryPromise`) |
| `poll_progress` | one subscription of an issue feed, three items of which the second is a pull request and the first may be removed, page of two, two failures | the checkpoint accounts for all it passed and never goes back, also when a page overflows; `NewItemSettles` under fairness |
| `poll_removed_item` | one subscription, GitHub removes items | finding 1: an item older than the checkpoint is reported |
| `poll_undecryptable` | two subscriptions of two repositories, the token of one cannot be decrypted any more, no failures, fairness | finding 5: the other one is never polled again |
| `listing_polls` | one subscription of each kind in turn, three items of which one is of another kind, page of one, three changes of the repository, three seconds, one failure | what a checkpoint covers is accounted for (`ListingAccounts`), a repetition is one the checkpoint let go of (`RepeatsForgotten`), the first poll stays silent, and what stays on offer settles (`OfferSettles`) |
| `account_safety` | one verified account, a second id and e-mail, two passwords, three transactions of any of the ten use cases, failures, expiries, purges | a request of an e-mail change leaves one working code (`OneChangeCode`), a registration leaves account and code or neither (`UnverifiedHasCode`), verified and deleted accounts have used up their own code (`FlagsConfirmed`), no whole-row update takes a flag back (`FlagsOnlySet`), and under fairness every transaction ends, a deadlock of a request with a confirmation included (`Settles`) |
| `account_code_twice` | a password reset and two confirmations | finding 2: a code is consumed twice |
| `account_name_update` | a name update and a password change | finding 3: the name update undoes the other change |
| `browser_session` | one account and one address without one, a boot, three forms and two private calls, tokens that expire, three events | a refresh replaces a session (`RotationConserves`), links are of verified accounts, token and cookie of one account, the cookie works unless an answer was lost (`CookieLive`), the confirmation page has its e-mail, and every call ends (`CallsSettle`) |
| `reports` | a weekly and a daily report on one connection, a day of two hours, a week of two days, one manual generation, the tab with two requests, two events | no period is reported twice without a failed store or an overlapping request (`NoRepeat`) and none is passed over twice in a row (`NotForgotten`), the tab lists the configurations of the table (`ShownConfigs`) and its buttons return |
| `reports_weekday` | the weekly report alone: no request, no failure | finding 4: it goes out later in its day each week, and then a week is skipped |
| `dashboard` | three connections (live, deleted, new), two sources, two subscriptions, two requests in flight, three events | no subscription outlives its source (`NoOrphans`), both tabs show the tables, every button returns |

### Bounds

Poll runs: three items are the least at which a page of two can overflow between
two polls, at which a poll can find more than one new item, and at which a pull
request can hide an issue; `poll_safety` takes the page of three, in which
nothing overflows and several items are sent by one run. Two subscriptions of
one feed and one connection are the least at which one run fails or is deleted
while another goes on. `MaxFaults` bounds failures and crashes together; two let
a crash follow a failed update. `Undecryptable`, empty but in
`poll_undecryptable`, names the subscriptions whose stored token no longer
decrypts. Creating one reads the source with the token, so that it decrypts then;
no tick ever does any work while one of them is active, and a tick that fails
changes nothing, which is why `MaxFaults` does not bound this case. `InOrder` says that new items are always listed
first; it is what GitHub does for releases, issues and pull requests. It is not
what it does for workflow runs, listed by their start and reported at their
completion: with `InOrder = FALSE` `CheckpointAccounts` fails, since a run that
completes below the cursor is never seen (the safety part, `IInv`, still holds).

Listing run: an item leaves a page of one and comes back to it with three
changes, the least for a repetition. Time passes only for closed issues, which
are the only ones that read it; ticks start in different seconds; an issue
that is closed again counts as another item; of the requests only creation and
those about the connection occur. GitHub's `since` is taken to include the whole
second.

Accounts: three transactions are the least for a code, its confirmation and a
third party that interferes, and for the deadlock, which needs a code that is
already there; the property about e-mail changes is violated with two if the
order of the statements is changed.

Browser session: forms, calls and faults come from one budget of three events;
two calls that refresh together leave one for a reload, a failure or a third
party. The clock has three values, an access token lives for one and a refresh
token for two, so that both expire, and two tokens can be signed in one second.
Addresses are not used again after a purge, and the token bridge, which a
watcher fills, follows the store in the same step. The page of the password
reset is left out.

Reports: the short calendar has every case of `isDue`, among them a weekly
report that is past the end of its day (after two weeks in `reports_weekday`,
after up to twenty-four in a day of 24 hours); monthly ones differ from daily
ones only in the period and are not in this run. A generation ends in the hour it starts in, and
the tab is closed while an hour passes and opened in the hours `OpenHours`.

Dashboard: tabs are mounted one at a time, as the view does. Leaving a tab with
requests in flight costs one of the three events. The name and credentials of
a connection are one value, a source is created once (a duplicate is a request
that is refused), and the order of the source list, which decides what
is selected when the selected one is removed, is left open.

The account and browser runs do not check for deadlocks in TLC's sense: they stop
when their transactions or events are used up. `Settles` and `CallsSettle` say
that nothing is left waiting.

### Fairness

`TickStart` is weakly fair because the job repeats for ever, and each run of
`processSubscription` because each call it awaits returns or throws; it has no
timeouts of its own, so a call that never returned would block the run, and
with it `Promise.allSettled` and every later tick. In the listing run the clock
is fair too. In `AccountTransactions` one of the requests that are being served
goes on to its next statement, or to the ROLLBACK of the catch block, or
PostgreSQL, which looks for deadlocks after `deadlock_timeout`, aborts one; with
finitely many transactions that is enough for all of them. In the browser and the tabs a request
is processed and its answer taken, or fails, because a server, or the timeout
of the connection, answers. Users, GitHub and failures are never fair.

## 4. Proofs

TLAPS checks eight modules, and every invariant and action property of a passing
run is a theorem of one of them. Each theorem holds for every value of the
constants that satisfies the named assumption of its module; what is assumed
beyond that stands in the theorem.

**`CursorSubscriptionsProofs`** (`FeedAssumption`, `WorkerAssumption`).
`TypeCorrect` holds as it is. With `Removable = {}` (GitHub removes no item):

* `SnapshotIsFresh`: a run uses the checkpoint that is in its row;
* `OnlyNewReported`: what a run is about to notify is not covered by the stored
  checkpoint;
* `AtMostOnce`: an item is notified at most once, and once more for each update
  of the checkpoint that failed after it;
* `CheckpointNeverGoesBack` (an action property).

None of these is inductive alone. A run loads the row, polls, saves and
dispatches in different steps, and requests and crashes come in between. `IInv`
says that a subscription has no run and no history before its creation, that
every cursor is still listed (`CursorsListed`), what a run has in hand in each
phase (`RunsInPhase`), and that an item the checkpoint has not passed was sent at
most once per failed update, with room for one more if it is about to be sent
(`SendBudget`). A lemma shows that a page is the top of its listing
(`PageIsTop`), from which follows what a poll can return.

`IneligibleGetNothing` (an action property) needs no `Removable = {}`: a
subscription that a tick did not find active gets nothing until a tick finds it
active again. `IneligibleIdle` says that it has no run until the next tick,
whatever is switched on meanwhile, and only a run sends (`OnlyRunsSend`).

**`DeliveryProofs`**. `ImplementsDelivery`: with `Removable = {}`,
`CursorSubscriptions` implements `Delivery` under the mapping of the queue to
what a run has still to send, and of the losses to the failed updates. A poll
maps to `Queue`, a dispatch to `Leave`, a crash and a missing connection to
`GiveUp`, a failed update to `Lose`, and every other step to a stutter.

**`CheckpointProofs`**. `FirstPollSilent`: with `Removable = {}`, nothing that
was there before the first checkpoint is notified (`BaselineCovered`: the
baseline stays below the checkpoint, and below the one about to be stored).
`CheckpointAccountsForAll`: if new items are also listed first (`InOrder`), each
item a checkpoint has passed was sent, is about to be, is known to be given up,
or was in the baseline. Its invariant `PassedAccounted` says the same of the
checkpoint a run is about to store.

**`SessionProofs`** (`SessionAssumption`, and `BrowserAssumption` for the
slots). `TypeCorrect`, `ConfirmHasEmailAlways`, `CookieOfSessionAlways`,
`LinkedIsVerifiedAlways` and `RotationConservesAlways` hold for any users, forms,
private calls and lifetimes of tokens. `IInv` gives each request in flight what
it has found by the statement it has reached (`Sound`: a user, a row of the
table, the token of its answer) and says which slots log in and which refresh
(`Fits`); the others are inductive relative to it.

`CookieLiveAlways`: a browser that has lost no answer keeps a cookie that works,
until it expires or the account is purged, or the answer to the request that
revoked it is on its way. It needs an invariant of its
own, `CInv`: every token in the browser or in an answer has a row (`TokensRowed`);
a refresh has found the row of its own cookie (`RefreshesOwn`); the token of an
answer works until the answer is taken, because no other request holds it
(`AnswersWork`, `AnswersApart`), unless the same token was made twice; calls on
their way have no refresh yet (`CallsApart`); the cookie works, or the request
that ended it is still to be answered (`CookieKept`). TLC checked `CInv` on the
689 023 states of `browser_session`, and on 5 073 750 states with one event more
and two forms, before it was proved.

**`AccountProofs`** (`AccountAssumption`). `TypeCorrect`, `OneChangeCodeAlways`,
`UnverifiedHasCodeAlways`, `FlagsConfirmedAlways` and `FlagsOnlySetAlways`: all
the safety properties of the accounts, for any number of transactions. The
argument, in the order of the module:

1. where a transaction stands, it has the rest of its use case before it
   (`Placed`, from the lemmas on the programs);
2. what it found on the way is still so: the loaded row, the account a
   registration has for itself (`Registers`), the code a confirmation has taken
   (`Confirms`: it is there and will be used up, or the account was purged), the
   codes it marks (`Marks`), and the flags of the row it writes (`Keeps`);
3. `RowsLocked`: two transactions never have both written the row of one user,
   since the second waits. A COMMIT therefore changes no row that another has
   written, and `Keeps` survives it;
4. `Changes`: a request of an e-mail change holds that lock from its update on,
   so no other such request commits a code between its `match` and its COMMIT,
   and it marks every code that still works: at most one remains (`OneCode`).

**`ListingProofs`** (`ListingAssumption`, `WorkerAssumption`).
`ListingTypeCorrect`, `ListingAccountsForAll` (what a checkpoint covers was sent,
is about to be, is known to be given up, or was in the baseline),
`RepeatsOnlyForgotten` (an item is sent once, and once more for each failed
update and each checkpoint that let go of it) and `ListingBaselineIsSilent`. The
three rest on one invariant per row: a run starts from the stored checkpoint
(`RunFits`); a checkpoint, stored or about to be, covers only what is known or on
its way (`CheckpointFits`); and an item that it does not cover has room for one
more dispatch, while the baseline is covered until it is let go of (`ItemFits`).
`Typed` adds which part of a checkpoint each kind of listing uses (`SeenFits`).
Items leave a listing by their place (`RemoveAt`): the lemmas on sequences cannot
be stated for a selection, which takes an operator. TLC checked the invariant on
271 320 states first.

**`ReportProofs`** (`ReportAssumption`). `NeverRepeated` (an action property: a
report goes out only when its period is over, unless the last one was not stored,
or a request was generating the same one), `NeverForgotten` (no report waits
longer than `LongestWait`: a weekly one may pass over one of its days, see
finding 4, never over two in a row), `ConfigsAlwaysShown` (the tab lists the ids
of the stored configurations; `last_sent_at` is no part of it) and
`ReportTypeCorrect`. The invariant has a part for each:

1. `RepeatFits`: `last_sent_at` is not earlier than the last report, unless a run
   has yet to store it or failed to (`SinceStored`); what a tick generates was due
   when it was loaded and still is (`DueLoaded`), unless a request overlaps it
   (`Overlaps`);
2. `WaitFits`: how long a report may have waited at each hour of the week
   (`WaitingAllowed`), which an hour increases by one and a tick on the right day
   resets (`WaitingTicked`); `LongestWait` alone is not inductive. It rests on
   lemmas about the arithmetic of hours and days;
3. `TabFits`: what the requests of the tab owe the list it shows. With none in
   flight the list is the table (`Agree`).

Each step is one of the generations, of the clock, or of the tab (`ReportStep`).
TLC checked the invariant on the 666 203 states of `reports`, and on 59 126 of an
instance with a week of three days, every weekly day, and monthly reports.

**`DashboardProofs`** (`DashboardAssumption`, `ResourceAssumption`).
`DashboardTypeCorrect`, `NeverOrphaned` (no subscription without its source,
though creation and deletion cross), `ConnectionsAlwaysShown` and
`SubscriptionsAlwaysShown` (with nothing in flight the tabs show the tables,
unless `doubtful`: a list was loaded during a change, two requests were about one
row, or an answer was lost). Each request is given what it knows of its row by
how far it has got; each list differs from its table only by answers that are on
their way (`ConnectionsFit`, `SubscriptionsFit`); and as long as the lists are to
be trusted, the changes in flight are about different rows and no list crosses
them (`InOrder`).

Model-checked only: the liveness properties (`NewItemSettles`, `OfferSettles`,
`Settles`, `CallsSettle`, `ButtonsReturn`), since fairness and `ENABLED` are
beyond the prover, and the five runs that expect a violation, which have nothing
to prove.

## 5. Findings

1. An item that disappears from the head of a listing makes the poller report
   the one before it again, contrary to what TECHNICAL.md:226 says of `last_seen`
   ("without re-processing old ones").
2. Two confirmations that run at once both take the same code: it is read as
   unused and later marked without looking again. TECHNICAL.md has codes
   single-use.
3. Updating the display name writes the whole row as it was read, and so undoes
   a password, e-mail or pending-address change that commits in between.
4. A weekly report does not go out on its day each week, as `README.md:401` has
   it ("a weekly report sent every Monday"). It is due seven whole days after
   `last_sent_at`, which is stored when the report has been generated, seconds
   after the tick; the tick a week later is early by those seconds, and the next
   hour sends it. So it drifts an hour a week, without any request or failure,
   until it is past the end of its day and a week is skipped. What remains true is
   `NotForgotten`: never two weeks in a row. A request or a failed hour late in the
   day has the same effect at once.
5. One access token that cannot be decrypted (after a change of the encryption
   key, say) stops all subscriptions: the query that loads them decrypts every
   token, and a tick whose query throws returns. TECHNICAL.md:338-343 has the
   decryption in `processSubscription`, where "a failure in one does not block the
   others".

Two more statements of the documentation differ from the code; no run is spent
on them, since the properties name what follows from each:

* TECHNICAL.md:340-341 dispatches the notifications and then updates `last_seen`;
  the code stores it first. A crash in between loses the notifications for good,
  and a failed update does not stop the dispatch, so that the next tick repeats
  it (`CheckpointAccounts`, `AtMostOncePerSave` and `Delivery` have both);
* a merged pull request is remembered only while it is on the page of the last
  updated ones. One that leaves the page and is updated later is notified again,
  and so are the repetitions below: TECHNICAL.md:226 speaks against them as it
  does against finding 1. `RepeatsForgotten` says exactly which there are.

What the properties leave room for, because the code does it:

* a closed issue is notified twice when it was closed in the second a window
  ended in, and a branch or tag again when its name was taken away and made anew;
* a weekly report that was never sent goes out at the next tick, whatever its
  day; the next one then waits for the first of its days that is a week away;
* a connection that is soft-deleted during a tick is still used by the runs of
  that tick (`IneligibleSilent` speaks of the ticks after it);
* two refreshes with one cookie both succeed when they overlap (`by =
  "overlap"`), and the one that comes too late signs the store out;
* restoring a connection twice, the answers of two selections of a source out
  of order, and a toggle of the deleted list while a change is in flight leave a
  list that is wrong until it is loaded again; a subscription whose creation is
  answered after its source was removed stays listed; the answer of one edit
  closes the form of another (all under `doubtful`, or outside the lists).

## 6. Not modelled

* The profile, security and deletion forms of `DashboardView.vue`, the page of
  the password reset, and `OtpInput.vue`: each holds one form over a use case of
  `AccountTransactions`, without shared state.
* The rate limiter counts in a library; a refused request is one that fails in
  the models. Encryption, password hashing, mail, PDF, logging and metrics are
  library calls and formatting; the translation of database errors, validators,
  DTOs, controllers and dependency wiring are stateless; migrations are used
  only for the constraints and cascades that the modules name.
* Hazards without a property: workflow runs that complete below the cursor
  (`github.poller.ts:274`, `CheckpointAccounts` needs `InOrder`); a call that
  never returns and blocks every later tick (`worker.bootstrap.ts:61`, fairness
  assumes that it returns); a connection that is soft-deleted after the tick
  loaded its subscriptions and is still used by its runs
  (`github.poll.worker.ts:71`); the stale pending address in a confirmation of an
  e-mail change (`user.confirm_email_change.usecase.ts:37`).
* Ownership checks are part of the use cases, but the models have one user per
  resource: that one user does not see another's rows is left to the tests.

What would come next: the password forms of the dashboard over
`AccountTransactions`, and a run in which two browsers of one user share the
tables.
