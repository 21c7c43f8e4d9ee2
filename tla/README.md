# TLA+ models of the alumni club

Models, model-checking runs and machine-checked proofs about the alumni club: its
backend (`backend/club_api`), the operation of its installation (`scripts`), and
two parts of its frontend (`frontend/club_web`) that keep state.  Paths
below are relative to `src/` unless they name a module; `mail.py:147` is line 147 of the file.

Contents: 1 the system, 2 the models and how they correspond to the code, 3 the
runs, 4 fairness, 5 assumptions, 6 the proofs, 7 what the models found, 8 what is
not modelled, 9 the plan.

## 1. The system

One asyncio process serves the JSON API (`backend/club_api`, Django views that
are coroutines), runs the scheduled jobs and, if configured, polls Telegram.  A
second process renders the pages (`frontend/club_web`) and calls the API.  The
database is MariaDB (READ COMMITTED, named locks by `GET_LOCK` that are released
after the commit) or PostgreSQL (advisory locks of the transaction);
`db/queries.py:14` `acquire_lock` hides the difference.  `database.transaction()`
commits when its block ends and rolls back on an exception.  Between two
transactions a coroutine keeps what it has read in local variables while others
run: most of what is hard here is in that gap, in calls to other services that
succeed although the answer is lost, and in processes that stop half way.

| Component | State | Operations | Talks to | What is hard | What makes it correct |
|---|---|---|---|---|---|
| Checkout (`modules/checkout`) | `orders`, `club_checkout_commits` (key, reservation), `products.stock` | commit of a cart, start / change / confirm of an order, pay, webhook, office status, expiry job | payment provider, catalog, podcasts, mail | lost and repeated answers of the provider, three writers per order, stock under edits, expiry against a late payment | no unit sold twice or lost, an order closed exactly when its units are back, paid orders stay payable-for, one extension per payment, every overdue order settled |
| Cart (`checkout/cart.py`) | lines of a cart | add, change, clear, order | checkout | several tabs, prices and stocks that change meanwhile | what was shown in the cart is ordered once or still there |
| Points (`modules/gamification`) | `points_ledger`, `alumni.points_cached` | credits by office, service, attendance, referral; decay | events, members | repeated credits, passes that overlap, a cache beside a ledger | one row per key, cache = sum, no decay of active members or twice in 27 days |
| Social (`gamification/social.py`) | reactions, membership | record a reaction, check membership | Telegram | updates repeated and out of order | the latest reaction wins |
| Members (`modules/members`) | `alumni`, friends | profile, verification, friend requests, erasure, export | almost all | requests admitted before an erasure that end after it | after erasure no access and no data |
| Authentication (`modules/auth`, `core/security.py`) | users, token versions, used links, attempt counters | register, confirm, log in, forgot, reset, staff sessions | mail, Telegram links | password hashing between two looks at the user, links used twice or late | sessions of the present password only, one account per address, one reset per link |
| Mail outbox and push (`modules/notifications`) | `club_mail_outbox`, `push_subs` | queue and send, drain, subscribe, push | mail server, erasure | a message that leaves in the middle of a transaction, several passes, retries | one sender at a time, nothing for the erased, nothing pending for ever |
| Events and reminders (`modules/events`, `jobs/tasks.py`) | events, RSVPs, reminder flags | edit, RSVP, attend, remind | points, mail, push | attendance against cancellation, a crash between mails and flag | exactly the attended are credited |
| Podcasts (`modules/podcasts`) | episodes, subscriptions | publish, subscribe, remind | checkout | renewal by a payment that is reported twice, years that begin on 29 February | one extension per payment, a year for a year |
| Polls (`modules/polls`) | polls, votes | draft, launch, close, vote | members | vote against close and erasure | one final vote each, none after the close |
| Telegram (`modules/telegram`) | one-time links, polling offset | link, commands, webhook and polling | accounts, social | two profiles and one account, failures within a batch, updates out of order | one profile per account, no update skipped |
| Support (`modules/support`) | tickets | open, message, answer, delete, retention | mail | the limit of messages | each operation is one locked row |
| Media (`modules/media`) | `directus_files` rows, files, thumbnail cache and tasks | save, delete, thumbnail, stream | content, profiles | row and file are not one transaction, references added while a file is deleted, cancelled renders | no reference to a deleted file, every slot and descriptor given back |
| News inbox (`modules/news`) | sources, candidates | fetch, merge, import, dismiss | content | two people import one candidate | imported at most once |
| Catalog sync (`modules/catalog`) | programs | collect, plan and apply a synchronisation | the faculty's site | runs that overlap, rows that change before the plan is applied | one row per card, untouched rows as the source says |
| Content (`modules/content`) | products, articles, pages | create, edit, delete | checkout, media | edits of stock against orders | reserved products stay |
| Jobs (`jobs`) | times of the next runs, running tasks | tick, run, start, stop | all | jobs that overlap with requests and, after a restart, with what they left half done | one instance of a job at a time; it comes back |
| Office, analytics, audit, observability | counters, audit rows | reports | - | - | read-only |
| Database layer (`db`) | schema, connections, locks | migrations, transactions, SQL for two databases | all | DDL that commits at once, locks in different orders | the schema is that of the models, orders do not wait in circles |
| HTTP core (`core`) | counters of requests | limits, parsing | all | counters removed while they count | a limit is a limit |
| Operations (`scripts`) | configuration, containers, snapshots | install, deploy, back up, restore | database, media | a kill after any step, a damaged or old snapshot | the recorded backup exists and restores whole |
| Web frontend (`frontend/club_web`) | archive of channel posts | rendering, reading the channel | Telegram's pages, API | posts that come and go between two pages | nothing read is lost |
| Offline copy (`browser/service-worker.js`) | saved pages | save, reuse, trim | API | tabs that interleave, a worker that is stopped | bounded, pinned pages stay, private ones are not saved |

The hazards, each at its line and with the properties that guard it, are listed
in `PROJECT.json`.

## 2. The models

| Module | What it is |
|---|---|
| `Checkout` | orders, reservations, payments, the expiry job, the office's edits, and the payment provider as the code uses it |
| `StockLedger` | abstract specification: units are free or held by orders and are conserved |
| `CheckoutRefinement` | the mapping from `Checkout` to `StockLedger` |
| `Points` | the ledger, its cache, events' credits, referrals, decay |
| `Accounts` | registration, login, sessions, resets, Telegram links, verification, erasure, and writes that come late |
| `Access` | abstract specification: the sessions that let in are listed; a login enters one, a reset or an erasure strikes out all of a member |
| `AccountsRefinement` | the mapping from `Accounts` to `Access` |
| `Outbox` | the mail outbox, passes over it, erasure |
| `Media` | rows and files of the media library, the materials and profiles that show them |
| `Schema` | tables, unique columns and foreign keys, the migrations statement by statement, the API's rights |
| `Maintenance` | installation, deployment, backup and restore |
| `Catalog` | synchronisation of programs with the university's catalogue |
| `News` | sources, candidates, imports |
| `Reminders` | event and podcast reminders, the scheduler's ticks, stops and restarts, dates |
| `Admission` | limits on requests, counters of failed logins |
| `Telegram` | polling, webhook, offset, reactions |
| `Community` | friendships, polls |
| `Previews` | thumbnails, renders, streams, descriptors |
| `Carts` | a cart in several tabs and the order made from it |
| `Locks` | connections, named locks and row locks of the transactions |
| `Offline` | pages saved by the service worker |
| `Feed` | the archive of a channel's posts |
| `Members`, `Club` | the components about members and the others, which share no state, put together |
| `MC*` | instances for TLC |
| `*Proofs`, `CheckoutSafety` | theorems |

Conventions in all of them:

- A database transaction is one action, because what it reads and writes is under
  its locks.  The exception is `Outbox`, where a message leaves in the middle of a
  transaction: there a transaction takes three steps, and its locks are those of
  whoever is between the first and the last.
- What a coroutine remembers between two transactions or calls is a record in
  `task`, `job` or `pass`.  A crash, or an exception, sets it back to idle and
  changes nothing in the tables (`HandlerStops`, `ClerkStops`, `JobStops`,
  `DecayStops`, `Abort`).
- A retry by a client is a request that begins again with the same key.
- Names are the code's.  A definition whose comment begins with *Mutant* is a
  plausible mistake in the definition that follows it; no specification uses it,
  the property named in `PROJECT.json` fails with it.
- Components that share no state share an instance: the variable `part` chooses
  the one that moves, the others keep still.  No behaviour of one is lost by it,
  since a step of one is a stutter of the others; that none is added is a theorem for
  each that section 6 names (`CommunityAlone` ... `CatalogAlone`).

### Checkout

| State | Code |
|---|---|
| `status`, `payment_status`, `payment_id` | columns of `orders` |
| `reservation` | `club_checkout_commits`: none (a podcast's order), held, released |
| `stock`, `present` | `products.stock` or a variant's, and whether the row is there |
| `extensions` | how often the order has extended a podcast subscription |
| `aged` | orders older than `RESERVE_TTL_HOURS` |
| `provider`, `paymentOf`, `remembered` | payments at the provider, their `metadata.order_number`, and the payment it returns for an Idempotence-Key |
| `task[h]` | a handler: creating, fetching or recording a payment |
| `job` | the expiry job: its batch with the snapshot it read, and the row it is at |
| `supply` | history: units on sale or held |

`Commit` is `store.py:44-146` (replay of a key, stock under the cart's locks,
insert), `PlaceOrder` and `Pay` are the handlers that lead to a payment;
`CreatePayment` / `CreateFails` / `CreationFailed` are the call to the provider,
whose answer may be lost after it has acted; `FetchPayment` and `Webhook` ask it
again; `Record` and `JobRecord` are `apply_payment` (`payments.py:250-281`), which
takes the decision in `PaymentOutcome`; `OfficeChange`, `SetStock`,
`DeleteProduct` are the office; `JobScan` ... `JobExpire` is
`expire_reservations` (`store.py:196-233`) row by row, with
`find_order_payment` for a payment whose id was lost.  `ProviderMoves` and
`KeyLapse` are the provider, external.

### Points

`ledger` holds each member's rows of `points_ledger`, `balance` their sum,
`cached` is `points_cached`, `activity` the last credit's day; `events`, `rsvp` and
`ticket` are the events and answers, `task` and `pass` what clerks and decay passes
are doing.  `Add` is `add_in_transaction`
(`gamification/service.py:91`): the lock of the key, the look for the key, the
row and the recomputed cache.  `Attend` reads the RSVP, `AttendCommit` looks at it
again under its lock.  `Verify` and `CreditReferral` are the two transactions of
`patch_member` a crash can separate.  A decay pass (`DecayStart`, `DecayRow`) works
through members it read once, and looks at each again under its lock.

### Accounts

`account`, `email`, `password` (how often it has been replaced), `version`
(`token_version`), `verification`, `telegram`, `code` (a Telegram link) and
`personal` are the rows of a member; `sessions` and `reset` are the tokens that
exist outside, `used` the reset links that are spent; `task[h]` is a request between
admission and its transaction.  Registration, login and reset have two
steps each, since passwords are hashed in a thread between them.  `Write` stands
for the late transactions of profile, photo, vote, link and push requests, each
with the guard that the code has in its transaction (`MayWrite`).  `PatchMember` lets the office
verify anybody, the erased too, since `patch_member` does not look at erasure; `reopened` is
a history of the erased it has verified since, `Ruling` the verifications an instance has it set.

The code keeps no list of sessions: `resolve_alumni` accepts a token that carries the
generation its profile has now (`Accepted`).  `Access` is what this is for.  There a
session is in `accepted[m]` or not, a reset empties the set, nothing brings a
session back, and nobody erased logs in unless the profile has been reopened (`Reopen`).  `AccountsRefinement` maps `accepted[m]` to the sessions that would let in
as `m`, and an erased member to one whose account is gone; requests, links and
generations have no counterpart.

### Outbox

`row`, `attempts`, `due` are the columns of `club_mail_outbox`; `left[d]` is what
pass `d` has read and not come to; `task[p]` is a request or pass in the middle of
a row.  `Enqueue` / `Begin`, `Send`, `Record` are the three steps of a
transaction; `Find` looks for the owner of an old row outside of it; `Erase` is
`anonymize` as far as the outbox is concerned.  In production `Jobs.run` keeps a
single pass; two at a time are what the tests of `drain_mail` exercise, and what
two processes during a deployment are.

### Media

`row`, `disk` are the two stores of a file; `used` and `avatar` the columns that
refer to it, `version` and `barred` what a request compares a member with; `task[p]`
is a request between two transactions.  `Write` and `Insert` (with the ways it
fails) are `save` (`media/service.py:210`); `Assign`, `AssignFails` are the
transaction of `upload_avatar` and its exception handler; `Delete` and `Unlink` are
`delete`, which uploads, the office and `anonymize` call; `Edit` stands for every
create and update of a material, with `media_references` or
`assert_media_references` in its transaction.  These read and write in one step,
since both databases give them a lock of their own (`media.references`, `LOCK
TABLE`).  `InsertLost` and `AssignLost` are commits whose answer does not arrive: the
handlers then clean up as if nothing had been committed.

### Schema and Maintenance

`tables`, `uniques`, `keys` are the database; `at` is the statement that comes
next, of migration `recorded + 1` or of the grants.  `Statements` and `Operations`
are the operations of the five migrations in their order; `ApplyAction` is one
turn of the loop of `0002_foreign_key_actions.py`, which drops a key and adds it
again with its action.  `Revoke` and `Grant` are `mariadb_roles.py`; the tables are walked
in the order of the migrations, not by name, which makes no difference.  A deployment
(`StartDeploy`, `Stop`, `StartApi`) may begin again after a failure anywhere.  The
declarations of `models.py` are the sets `MemberModels` ... `LedgerModels`; nothing in
the migrations' definitions refers to them, so that the two are compared, not
equated.

In `Maintenance` a step is what `mariadb_*.py` does between two places where it can
fail: `StartBackup`, `StopForCopy`, `Dump`, `Tar`, `Publish`, `CopyOffsite`,
`RecordBackup`, `Rotate`, `Resume` are `backup`; `StartDeploy` ... `RecordDeploy` are
`deploy`; `Killed` ends any of them without its `finally`.  `Save` and `Remove` are the
two steps of the media library that a copy may fall between.  `Outdated` leaves out
ages, `Damage` stands for a disk.

### Catalog, News, Feed

`Catalog`: `CollectActual` and `CollectAll` read two listings outside any lock, `Read`
takes `dpo-sync` and the rows, `Apply` writes the plan.  `PlanOf` is `plan_sync`: of the cards
that find one row the first in the source's order gets it, those that find none become rows.  `Edit` and `Delete` are the office,
`touched` what it changed since `Read`.  `News`: a refresh goes through its addresses one
by one (`CreateCandidate`, `FindCandidate`, `SaveCandidate` are `merge_candidate`, `Link`
joins the news that exist), an import locks its candidate in `ImportFind` and writes in
`ImportCommit`.  `Feed`: `FetchPage` is a turn of the loop of `synchronize`
(`sync_changes.py:215`), `MergePosts` its end, `Unavailable` its exception handler; `current` remembers what has
been read and not been edited since.

### Reminders, Admission, Telegram

`Reminders`: `pass` is what each of the two jobs is at, `minutes` whether its minute of the
day is still to come; `TickEvents`, `ReadAnswers`, `PushEvent`, `FlagEvent` and
`TickPodcasts`, `Letter`, `FlagSubscriber` are `tasks.py:28-83`, `Skipped`, `Stop`, `Cut`,
`Restart` the scheduler.  A message that is sent arrives or fails: of an event and of a
subscription `told` is who got it, `missed` whom it failed to reach, and the flag is set in either case,
because the code only logs failures.  Days are numbers; `AddMonths` is the arithmetic of
`payments.py:69-74` with leap years.  `Admission`: `Request` is `rate_limit` for a
client's and a route's limit (`Recent` is the loop of `popleft`), `StartLogin` and `WrongPassword` / `RightPassword` the two ends
of the verification in a thread.  `Telegram`: `GetUpdates`, `Handle`, `HandleFails`,
`Restart` are the polling loop, `Webhook` and `SafeHandle` the other way updates come;
`RecordReaction` is the transaction of `record_reaction`.

### Community, Previews, Carts

`Community`: `Ask`, `ReadLinks`, `Answer` are `friend` before its lock, under it, and its writes;
`SeeFriend`, `RemoveFriend` the two statements of `remove_friend`, which takes no lock.
`Admit` and `Vote` are a request to vote before and in its transaction.  `Previews`: a request
(`Open` ... `Close`) and a render (`Begin`, `TakeSlot`, `Loaded`, `LoadFails`, `CancelQueued`) are
two coroutines, since `shield` lets the render go on; `open` counts descriptors, and the
order of the cache is the set of pairs `older`: `move_to_end` puts one after all others
(`Last`), and what `popitem` leaves is `Kept`.
`Carts`: `LookUp` and `AddCart` are `add_cart` before and under the cart's lock; `ReadCart`,
`PriceItems`, `Commit` are an order's two reads and its transaction; `added` and `ordered` are
histories of what the visitor was shown.

### Locks and Offline

`Locks` says what the other modules assume.  `plan[t]` is the order in which a transaction
asks for its locks, `Begin` gives it one of the six connections.  An edit of stock or variants
(`EditStock`) has the product's row before it asks for `media.references`, any other (`EditOther`)
asks for `media.references` first.  Exclusive and shared
locks of rows last until the commit, named locks until the connection is closed.
`Offline`: every `await` of `put` and of the fetch handler is a step, `WorkerStops` the
browser; `earlier` is the order in which the pages were saved, which `Cache.keys` returns.

## 3. The runs

| Run | Instance | What it shows |
|---|---|---|
| `race` | one order, two payments the provider may mint because it forgets the Idempotence-Key, two handlers (symmetric) | `PaymentEvidence`: what an order records was reported by the provider for this order; `ClosedIffReleased`, `PaidStaysFulfillable`, `ClosedOrderNotPayable`, `SubscriptionExtendedOnce`, in every interleaving with webhook, job and office |
| `shelf` | two orders of one and two units of a product of two, edits and deletion | `ReservedProductsExist`; `RefinesLedger`: the detailed model implements `StockLedger`; `NothingReopens`: nothing final is undone |
| `settle` | one order, one payment, one handler, fairness | `OverdueIsSettled`, `SuccessIsRecorded` |
| `offered` | two handlers, no office | *violated*: `ExpirySparesOfferedPayment`, see 7 |
| `decay` | one member, two overlapping passes, days around the limits of 27 and 30 days and a month's end | `DecayIsFair`: nobody is decayed twice, while active, or of more than there is |
| `access` | a member of the old system, two who register with one address, two reset links, two handlers | `OneAccountPerEmail`; `ResetLinksAreSpent`: a link works once, and not after a later one; `RefinesAccess`: `Accounts` implements `Access` |
| `late` | two members, one Telegram account, a reset link, one handler | `OneProfilePerTelegram`; `ErasedStayOut`: the erased have no access until the office verifies them again, and never by a password or a reset link; late votes are not written, late photos only after such a verification |
| `erasure` | one member, requests for the profile, push messages and orders | *violated*: `ErasureIsFinal`, see 7 |
| `mail` | an old confirmation, a letter of the office, a new confirmation, a request, two passes, one stop | `OneSender`, `ErasedAreLeftAlone`, and, with fairness, `MailIsSettled` |
| `photos` | three files, one of them a photo of the old system; two members, a material, two requests, one stop or lost answer | `FilesResolve`; `PhotosFollowMembers`: a photo is shown only with its member, none of the erased; `NothingLeftBehind` |
| `members` | nine components, one at a time; see below | eleven properties, below |
| `club` | seven components, one at a time; see below | seven properties, below |

| In | Component and instance | Property |
|---|---|---|
| `members` | the ledger: two members, one invited by the other, one event, two clerks | `CreditsAreDue`: a key is credited once, exactly those who attended have an event's credit; `CacheFollowsLedger` |
| | reminders: one event, one subscriber who pays twice, messages that fail, days before and after 29 February 2028, one pass cut off | `RemindersMatchFlags`, `PaidYearsLast` |
| | limits: a client's and a route's limit of different lengths, six seconds; logins: three at once from two clients | `LimitsAreKept` |
| | bot: three updates of one account and two profiles, two seconds, one failure or restart | `ReactionsFollow`, `NoUpdateIsSkipped` |
| | friendships of two members, three rows, and their erasure | `FriendsAgree`: one row, accepted only after both have asked |
| | one poll of two options, two members | `ResultsStand`: a confirmed vote stays, a closed poll is what it was closed with |
| | news: two sources, two addresses, two clerks, three refreshes | `NewsFollowInbox`: imported once, and the candidate names it |
| | feed: four posts on pages of one, two pages, one edit or deletion | `FeedIsWhole` |
| `club` | schema: an empty database or one before the polls, a stop after every statement | `ApiMeetsItsModels`: when the API runs, no table, unique column, key or right is missing, and no key's action but those of the votes |
| | maintenance: one file, two revisions, two snapshots, a remote | `BackupsCanBeRestored` |
| | catalogue: two cards of one title, one without a price, two synchronisations, two changes | `CatalogFollowsSource` |
| | thumbnails: three images, two requests, one worker, two renders at most, a cache of two | `PreviewsGiveBack` |
| | cart: a program, two products, two lines, two tabs, one change of the office | `OrdersTakeTheCart` |
| | locks: three transactions (symmetric), two products, two orders, one member | `NoCircleOfProducts`: transactions that wait for no member's row, are no synchronisation and no edit of stock and pictures at once never wait in a circle |
| | offline: two tabs, three public pages, one pinned, one private, a limit of two | `CopiesStayBounded` |

The type invariants and `StockConserved` are proved (6), not checked by a run: they
follow from the same inductive invariants.

Why the bounds are enough.  A race in this code is between two coroutines over one
row, so two handlers, clerks or passes and one or two rows exhibit it; the job and
the office come on top.  Two payments are needed for one order when the provider
forgets a key, two orders when they compete for stock; three units would only
repeat what happens with two.  `MaxStock` and `MaxVersion` bound what the office
types in and how often a password changes: values above the bound behave like the
bound, since the code only compares them.  `Ruling`, what the office sets
in an instance, is "verified" in `access` and "pending" besides in `late` and `erasure`; the
theorems hold whatever it is, with "rejected" too.  `MaxRows` and `MaxTickets` bound the
ledger and RSVPs: two rows already are a credit and its repetition, three a
credit, a decay and another.  `MaxAttempts` is 2 instead of the configured one, so
that there is a first, a retry and a last.  In `members` and `club` a limit of the code is
reduced to the smallest at which it is met and exceeded (`MaxPending` 2 for 8, `MaxEntries`
2 for 64, `MaxPages` 2, `MaxLines` 2, `MinCards` 1 for 3, `Connections` 3 for 6), and a
span of seconds to a few ticks of the clock with the proportions kept: `Keep`, after which
counters are removed, is as long as the longest span of a route, as in the code.  Days in
`reminders` are those around a 29 February, where a year later is not 365 days.  Pages of
one post put every change of the channel between two pages.  `MaxStops` bounds crashes in `mail` and
`photos`; the safety properties are proved whatever it is.  Three files in `photos` are a
photo, the one that replaces it, and one of a competing request.  Symmetry is used where the
members of a set are interchangeable: handlers of `race`, the new members of
`access`, and the transactions of `club`, whose one action property is about the
catalogue, which has none of them.  `CHECK_DEADLOCK FALSE` is set because
a system whose orders are final, or whose mail is sent, has nothing left to do.

## 4. Fairness

Only `settle` and `mail` have liveness properties.

- The scheduler starts a job again and again (`runner.py:47-54`), and a pass goes
  on to its next row when one fails (`store.py:229`): weak fairness of `JobScan`.
  Each of the job's further steps may be cut off by a stop or preempted by a
  handler that has the row, but not for ever: strong fairness.
- A request ends, by an answer or an exception (HTTP timeouts, 15 s for SMTP):
  weak fairness of a handler's steps.
- The provider settles a payment and redelivers its notification until it is
  recorded: this is what its documentation promises and what `webhook` answers
  with an error for.
- Time passes: `Wait`, weakly fair.  In `mail`, stops are bounded instead of
  strong fairness, which says the same with less to check.

## 5. Assumptions

- A transaction is atomic, its locks work as the database documents them.
- Checkout: payments are enabled; an order becomes overdue only after the request
  that created it has ended (hours against seconds); one subscriber per podcast
  order; the job's batch of 50 is one batch; the search for a lost payment goes
  through the provider's list to its end or fails.
- Points: the service's keys differ from those the application makes; an event
  that exists is published, a member who answers is verified.
- Accounts: a token that has expired is one that is not used again; the mail
  server is configured.
- A reset link that was mailed for a profile without a `token_version` carries no
  generation, and is not invalidated by another reset; `ResetLinksAreSpent` leaves
  it out, as the code does.
- Media: ids of files are new; nobody uploads for an erased profile after its erasure
  (only an upload that began before can still arrive); a photo's kind is set by
  `save` alone, photos of the old system have none.
- Outbox: an address belongs to its user; the application configures at least one
  attempt.
- Schema: a statement of DDL is done or not done; Django's migrations on an empty
  database start with one that has no tables of the club.
- Maintenance: nobody but the scripts and `docker compose start` touches the
  containers; the file lock holds on one machine.
- Reminders: one process runs the jobs, an event's times lie on days.
- Admission (`LimitsFit`, `LocksFit`): the clock does not go back; one process counts; counters
  are kept for the longest span of a limit at least, more than one failure locks an address,
  for no less than the time in which failures count, as in `security.py`.
- Members and Club name what else the proofs use of their constants: marks of nothing
  are no names (`AccountsAreNamed`, `CardsNumbered`); cards, products, limits and bounds are numbers
  (`CardsNumbered`, `ProductsNumbered`, `ArchiveBounds`, `RendersBounded`); a line is of a program or of a
  product (`LinesApart`); the pinned pages fit in the cache and the tabs are finitely many
  (`PinnedAreFew`).
- Telegram: `update_id` grows with the update, dates do not decrease.
- Previews: cached thumbnails may be younger or older than five minutes at any
  time; a render's task has begun before anything cancels it (one that had not
  would keep its descriptor and its entry, which only a stop of the process does).
- Locks: InnoDB's locks of single rows at READ COMMITTED; gap locks and the locks of
  secondary indexes are left out.
- Feed: one synchronisation at a time.  Its schedule is in the mirror's own
  repository.

## 6. The proofs

All are checked by TLAPS for every value of the constants that satisfies the
module's named assumption.  Liveness stays with TLC: fairness and ENABLED are out
of the prover's reach.  Every safety property and action property of a passing run is a
theorem.  No module uses a recursive operator.

| Module | Theorems | Argument |
|---|---|---|
| `CheckoutProofs` | the inductive invariant | `Inv` adds to `TypeOK` that what a handler or the job carries was answered by the provider about that order (`Answers`), that a payment id in the table is of a payment of that order (`Bindings`), and that what is not placed has no traces (`Unplaced`).  Without it a stale answer could be recorded in a wrong row. `ProviderSteps` shows that the provider only adds |
| `CheckoutSafety` | the seven safety properties of `race` and `shelf`, `StockConserved`, and that `Checkout` implements `StockLedger` | every step is one of six kinds of transaction on an order (inserted, prepared, recorded, marked, changed, edited), lemma `OrderSteps`; each property is shown once per kind, and each kind maps to a ledger step or a stutter |
| `PointsProofs` | the type invariant, `CreditsAreDue`, `CacheFollowsLedger`, `DecayIsFair`, and their parts | `Inv` = types, whom requests are about (`Tasks`), clocks (`Clocks`), the owners of an event's keys (`OwnEvents`) |
| `AccountsProofs` | the type invariant, the properties of `access` and `late` and their parts (`ErasureCloses` is `ErasedStayOut`), and that `Accounts` implements `Access` | generations only grow; sessions, links and used links carry one that existed; version and password move together. For the implementation also `Holders`: a Telegram session of the present generation is of the account its erased profile has now, so that no later registration or link lets an old one in again. For `ErasedStayOut` also `Erased`: until the office verifies it again an erased profile has no Telegram account, is not verified and has no photo; and `Guests`: a request by a Telegram session remembers an account, so that the photo's second look refuses it once the profile has none. What a step leaves of `password`, `accepted` and `erased` is shown for logins, resets and erasures one by one (`LoginIsListed`, `ResetIsListed`, `ErasureIsListed`) and for all others at once (`OthersAreUnlisted`) |
| `OutboxProofs` | the type invariant, `OneSender`, `ErasedAreLeftAlone` and its two parts | whoever has a row after a step had it before and nobody touched it, or has just taken it while nobody had it (`TxStep`: `Keeps` or `Starts`); erasure waits for the user's lock, so it cannot come between |
| `MediaProofs` | the type invariant, the three properties of `photos` and their parts | `Inv` says where a request's file is between its steps (`Placed`), that nobody else has it before it is somebody's photo (`Exclusive`), that a login seen before an erasure is older than the profile's (`Seen`), and that while nothing has stopped whatever is unsettled is in some request's hands (`Attended`); `NothingLeftBehind` is `Attended` without requests |
| `MembersProofs` | the nine properties of `members` that `PointsProofs` does not have, below | the specification of `Members` implies each component's (`PointsAlone`, `CommunityAlone` ... `AdmissionAlone`, from `OthersMove`), so that `CreditsAreDue` and `CacheFollowsLedger`, proved of `Points`, hold of it too; each component has an inductive invariant that implies its property |
| `ClubProofs` | the seven properties of `club`, below | likewise (`SchemaAlone`, `MaintenanceAlone` ... `CatalogAlone`, from `ClubsOthersMove`) |

The invariants of the components are where the argument is; each was checked by TLC before
it was proved.

| Property | Inductive invariant | Why it is needed |
|---|---|---|
| `FriendsAgree` | `FriendsInv`: whoever has read the links under the pair's lock has read the present rows, but for those that were removed meanwhile (`LockedAsk`); a row was asked for by its sender, an accepted one by both (`RowsAsked`) | `remove_friend` takes no lock, so what was read may be gone, but nothing may be added to it |
| `ResultsStand` | `PollsInv`: nobody who has been erased has a vote | the result is compared without the erased, so a late vote of theirs must be refused as well as one after the close |
| `NewsFollowInbox` | `NewsInv`: numbers of news are not used again (`NewsNumbered`), candidates that were found exist (`CandidatesFound`), two imports have different candidates, and what an import has found is of its address or gone; if it found none there is none (`ImportsApart`) | the import looks for the news in one step and writes in another; deletions and refreshes come between |
| `NoUpdateIsSkipped`, `ReactionsFollow` | `TelegramInv`: all below the offset are handled, all before one of the batch are handled or in it (`OffsetInv`); a row is the copy of an update of an account still linked (`RowsInv`) | updates come twice, by two ways and in any order |
| `RemindersMatchFlags`, `PaidYearsLast` | `RemindersInv`: an event still to come in the pass has no flag; of the one being told all answers given in time are in the pass, told or missed (`AtEvent`); a flag means that they were told or missed (`OfEvent`); a subscriber is in the pass once, with the end the pass will tell unless a payment has overtaken it.  `MonthStarts` and its lemmas bound what a year of months adds | rows are read once, flags set later; the 29 February |
| `FeedIsWhole` | `FeedInv`: a post that has stood still since the reading began is found or still to come: fewer posts are newer than it, and older than what was read, than the pages left can hold (`StillToCome`) | a page is fetched after posts came or went above it, so the proof counts how many posts are newer |
| `LimitsAreKept` | `LimitsInv`: what was let through within the span is, one by one from the latest, no later than what the counter holds (`Fits`); `LoginsInv`: the failures split into those before the last lapse and those of the window (`Apart`), of which there are no more than the counter says and the logins that were under way can add | counters are swept and restarted at any time; verifications end after the lock they cause |
| `ApiMeetsItsModels` | `SchemaInv`: of the migration under way all statements before the next one are executed (`Executed`); what is there besides belongs to it (`KeysFollow`, `UniquesFollow`, `TablesFollow`); while 0002 runs no key is there both with its action and without, and those passed have theirs (`ActionsGiven`); the rights are those of the tables passed (`RightsTo`) | a deployment begins again at the first statement, on what the stopped one left; between a key's drop and its return it is missing |
| `BackupsCanBeRestored` | `MaintenanceInv`: rows have files, and what a copy has read of either at each of its steps agrees, the API standing still in between (`CopyInv`) | the database and the files are copied one after the other |
| `CatalogFollowsSource` | `CatalogInv`: the run that has the lock has read every row there is, unchanged but for what the office edited (`Reads`); rows have one number and one card each, listings one card for a number.  `RowsPlanned` says what `PlanOf` does with any rows and cards | the plan is computed from rows that may have been edited or deleted; a card may find by its title a row that another card finds by its number |
| `OrdersTakeTheCart` | `CartsInv`: added = ordered + in the cart, for each line | the histories change in different steps. Units are compared, not prices: an order reads the catalogue's price again (`orders.py:74-82`) |
| `NoCircleOfProducts` | `LocksInv`: what a transaction has is below what it will ask for, in an order of all locks (`Climbs`), except for the synchronisation, which takes its named lock first and alone (`Synchronises`), and for an edit of stock and pictures, which has the row and waits for the references (`EditsStock`) | in a circle somebody waits for the highest lock, whose holder then waits for a lower one (`HighestWaits`) |
| `PreviewsGiveBack` | `PreviewsInv` for descriptors, slots and waiters; `CacheInv`: the order of the cache is total and its bytes are those of its thumbnails | `KeptIsWithinLimits`: what is left after the oldest are dropped is within both limits and no less than it could be |
| `CopiesStayBounded` | `OfflineInv`: for every set of trims that are under way, the pages without their victims exceed the limit by no more than the saves that come later (`TrimsSuffice`) | victims are chosen before they are deleted, and two trims may choose the same |

The lemmas on sets in an order (`SomeFirst`, `SomeoneAt`, `FirstOnes`, `SomeNth` in `ClubProofs`), on largest and
least numbers, and on sums of sizes are proved from the library's theorems on finite sets.
`FlattenHolds` says what a sequence of sequences holds when they are joined: `FlattenSeq` is
a recursive function, and an induction over its length would need the library's theorem
with an operator parameter, so the lemma takes the least length at which it fails
(`SomeLeast`).  `FirstTablesMatch` and `LaterTablesMatch` compare the tables of the migrations
with those of `models.py`, group by group.

`SessionsKnowPassword` (a session that lets in was begun with the present password) was a
property of the run `access`.  It is still a theorem, and follows from the implementation of
`Access`.

Only model-checked:

- `OverdueIsSettled`, `SuccessIsRecorded`, `MailIsSettled`: liveness.

## 7. What the models found

1. **Expiry may close an order whose payment link is being handed out** (run
   `offered`).  `docs/development/security.md:216` says an order with a payment in
   progress is not expired.  When a creation fails, `payment_status` goes back to
   NULL (`payments.py:247`); a second pay request may then obtain the payment's link
   while the job, which read the row in between, finds no payment and expires the
   order (`store.py:214`, `store.py:228`).  The member then pays for a closed
   order; the code sends the payment to review, and `PaidStaysFulfillable` and
   `ClosedOrderNotPayable` hold nevertheless.
2. **A request admitted before an erasure may write personal data after it** (run
   `erasure`).  `frontend/club_web/templates/legal/privacy.html:43` promises that
   erasure removes contacts and notifications; `profile` (`members/profile.py:142`)
   and `subscribe` (`notifications/push.py:144`) do not look again in their
   transaction.  An order of a member who is not verified is inserted with the contacts the
   request carried: `Checkout.commit` compares the discount, which was none and is none
   (`checkout/store.py:53-72`).  The avatar and votes are looked at again.

Met on the way, without a run of their own: a succeeded payment with an id other
than the order's is ignored rather than sent to review, which needs the provider
to forget the Idempotence-Key (`security.md:202-205`); a Telegram update whose
handling always fails is fetched again for ever and blocks those behind it
(`bot.py:247-256`); a message whose row was not marked before a crash is sent again
(`mail.py:176`), which is intended; an upload whose row was committed while the answer
was lost removes the file and leaves the row (`media/service.py:254`), which is why
`FilesResolve` excepts `lost`, and one whose photo was committed in that way never
deletes the photo before it (`media/routes.py:140`).

- Migrations: 0002 gives the keys their ON DELETE action (`0002_foreign_key_actions.py:12-36`), 0005
  creates the votes' keys after it (`0005_member_polls.py:54-94`).  On MariaDB they have none, while
  `db/models.py:94-95` and `backend/migrations/20261022-polls.sql:16-17` say CASCADE: deleting a
  poll or a member by SQL is refused there while it has votes, and takes them with it on PostgreSQL.
  The application does neither: erasure empties the row and deletes the votes itself.
  `ApiMeetsItsModels` says just this: every key with its declared action, those of the votes with none.
  0001, 0004 and 0005 fail on what exists when they are repeated after a stop in
  their middle, and the API stays stopped until somebody helps.
- Deployment: killed between starting the containers and writing `last-deploy.json`, it
  leaves the old record, and backup and deployment refuse until the API is stopped
  by hand.
- Catalogue: a card whose title equals that of a row another card has taken is
  dropped in every run without a word.  Status is computed from the price read
  with the rows, hence under the lock, but a price the office writes before the
  update stays with the older status (`touched`).
- Reminders: a moved event keeps its flag and is not reminded of again; the deletion
  of an event ends the pass, and the events after it have left the window by the next
  day; a push message or letter that fails is logged, its flag is set, and it is never tried
  again (`tasks.py:52`, `tasks.py:74-83`), though the office is then shown that the subscriber
  was reminded (`podcasts/routes.py:318`); a payment that overtakes a pass keeps the next year's reminder from being sent.
- Logins: a failure that is counted after a lock sets `locked until` anew, but one whose
  window has lapsed meanwhile begins a new count and takes the lock away
  (`security.py:78-85`).  Three logins at once are needed, so wrong passwords within
  `WINDOW_SECONDS` are bounded by twice `MAX_EMAIL` - 1 and, twice, all but one of the logins under way: this
  is what `LimitsAreKept` says.
- Erasure: a friend request or a membership row that was admitted before it may be
  written after it, like the writes of finding 2.  `patch_member` (`members/admin.py:148-156`) may
  verify an erased profile, and `anonymize` leaves `club_telegram_links` alone: a Telegram link issued
  before the erasure and not yet expired then opens the profile again.  `ErasedStayOut` excepts
  what is `reopened`; `RefinesAccess` allows a login then and none before.
- Points: `anonymize` sets `points_cached` to 0 and leaves the ledger, so a credit, a retry or a decay that
  comes later brings the old sum back.  `CacheFollowsLedger` allows the erased either value:
  nothing says which it should be.
- Thumbnails: a request that is cancelled while a thread opens its file loses the
  descriptor (`LoseDescriptor`).
- Locks: a subscription's payment takes order, then member; erasure takes them the
  other way round; an order, a subscription and an extension of one member can wait
  in a circle over its row and the sequence of numbers; the catalogue's
  synchronisation writes rows in the source's order; an edit of a product's stock and
  pictures takes the row and then `media.references` (`content/admin.py:74-78`), while any other edit with
  pictures takes them the other way round (`orm_store.py:211-217`).  `NoCircleOfProducts` excepts these: InnoDB
  and the limit of five seconds end them, and the request fails.
- Offline: `put` deletes before it writes, so that a full disk costs the older copy;
  a slow save may bring back a page that was withdrawn meanwhile.
- Feed: after the newest post is deleted, every synchronisation is refused as
  `source_went_backwards` until there is a newer one; at `MAX_ITEMS` the archive stays
  `unavailable` for good.

## 8. What is not modelled

Rendering, the site's scripts and parsing: they produce the inputs the models take as
given, and the offline copy's built assets never change.  Reports, page views, audit
and logging read or append only, and nothing relates their rows.  Support: every
operation is one transaction under the lock of one ticket.  The directory, calendars,
exports, the office's lists and the bot's answers to commands read only.
Achievements and levels are computed from the ledger, the channel's membership is
looked up each time.  Prices are in `Carts` as far as an order compares them;
discounts and totals are not, an order in `Checkout` is payable or not.  Sessions of the
office expire by time.  The retention job deletes what is old.  Configuration
checks, status reports and the one-time transfer from PostgreSQL
(`database_transfer.py`, into an empty database under a stopped API) are outside `Maintenance`.

Liveness is stated where something waits for it: orders and mail.  A reminder that a
pass did not come to is not made up for by the code, a refused synchronisation waits
for the next run by hand or by the job, and an update that always fails blocks for
ever, so there is nothing further that the code promises to happen eventually.

## 9. The plan

Done: checkout with its abstract ledger; points; accounts with their abstract list of
sessions; mail; media; and the
components of `members` and `club`.

Left, in this order:

1. An abstract specification of reactions (a map from post to last reaction)
   implemented by `Telegram`, and one of polls implemented by `Community`.
2. The type invariants of `Members`' and `Club`'s components as theorems of their own, where
   an invariant's part is more than its property needs.
3. The arithmetic of prices and discounts (`domain.py`) against a reference
   definition over bounded amounts.
