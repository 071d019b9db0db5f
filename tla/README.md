# HiddenBar: specifications, model checking and proofs

HiddenBar is a web service on which users register bars, find them on a map,
bookmark and review them, and on which administrators approve bars, decide
reports of reviews and suspend users.  A NestJS server (`src/backend`) keeps its
state in PostgreSQL through TypeORM and its photos in S3; a Next.js client
(`src/frontend`) keeps caches, a token-refresh queue and a guided tour.

The server has almost no state in memory.  What is hard about it is that every
handler is a sequence of `await`ed statements, that many handlers run at once,
and that most of them read what they decide on *before* the transaction in which
they act on it.  This directory models those handlers statement by statement,
checks what holds however they interleave, and proves it for any number of
requests, users and rows.

## Inventory

| Part | State | Operations | Correct when |
|---|---|---|---|
| Review statistics | `bar_review_stats`, one row per bar | increment, decrement, adjust rating, adjust photo count, recalculate | the row is what recalculating would give |
| Reviews | `reviews` (status, rating, photoCount, deletedAt) | create, update, remove | one live review per user and bar; no lost status |
| Review reports | `review_reports` (unique per review and reporter) | submit, resolve | a live review is REPORTED while a report is pending; a decision is final |
| Admin reviews | `admin_actions` | moderate, delete | no hidden review without an audit record |
| Review photos | `review_photos`, S3 | upload, remove | at most five, distinct order, photoCount exact, no lost objects |
| Sessions and tokens (`Accounts`) | `refresh_tokens`, cookies, `users.isActive/passwordHash/role` | signup, login, Google login, refresh, logout, reset, change password | a suspended user or an old password keeps no session; one rotation per token |
| Email verification | `email_verifications`, signed tokens | send, verify, use | limits on guesses and codes hold |
| Users, admin users | `users` | edit profile, image, password; suspend, activate, change role | no lost suspension; one administrator remains |
| Bars, admin bars | `bars`, `menu_items`, `operating_hours` | create, edit, delete; approve, reject, delete | what is public was approved; deletion reaches all relations |
| Bar photos, bookmarks | `bar_photos`, `bookmarks`, S3 | upload, remove; add, remove | limit of five; one row per user and bar; no bookmark of a deleted bar |
| Start-up services | triggers, administrator, seed rows | create once, on every start | the same result after crashes and with several instances |
| API client | `isRefreshing`, `failedQueue` | request, 401, refresh, retry, logout | one refresh at a time; every request is answered |
| Bookmark cache | React Query caches | optimistic update, confirm, roll back | the cache ends at the server's state |
| Onboarding tour | phase, step, session and local storage | start, next, events, restore, replay | no step is skipped; a finished tour stays finished |
| Search, maps, dashboard, pages | none | read-only queries, rendering | pure functions |

The parts meet in the database: reviews, reports, photos and administrators
change the same review and aggregate rows; sessions, users and administrators the
same user rows; bars, bookmarks and photos the same bar.  The client meets the
server through refresh-token rotation and optimistic caches.

## Modules

| Module | What it is |
|---|---|
| `ReviewStats` | The aggregate row and the SQL of `ReviewStatsService` as operators; `Recalculate` is the reference definition. |
| `ReviewStats_proofs` | Lemmas: what those operators return, and what `Recalculate` makes of a change of one review. |
| `ReviewBoard` | What the users are promised about reviews: abstract specification of a board on which every call acts at once. |
| `Reviews` | The seven handlers that change reviews, reports, the audit log and the aggregate, as concurrent requests; implements `ReviewBoard` while the calls that read before their transaction run alone. |
| `Reviews_proofs` | Theorems about `Reviews`, the refinement among them. |
| `PhotoSlots` | What the photo endpoints promise: abstract specification of the places of a review. |
| `ReviewPhotos` | Uploads and removals of photos, with the deletion and the report of their review, as concurrent requests; implements `PhotoSlots`. |
| `ReviewPhotos_proofs` | Theorems about `ReviewPhotos`, the refinement among them. |
| `Accounts` | Users, sessions and administrators' decisions: eleven handlers as concurrent requests. |
| `Accounts_proofs` | Theorems about `Accounts`. |
| `EmailVerification` | Codes, guesses and verification tokens on the server, and the forms that send and give up calls. |
| `EmailVerification_proofs` | Theorems about `EmailVerification`. |
| `Bars` | Bars with their menus, hours, photos and bookmarks: the ten handlers that write them, as concurrent requests. |
| `Bars_proofs` | Theorems about `Bars`. |
| `Bootstrap` | The hooks of several instances that start on one database and may stop at any statement. |
| `Bootstrap_proofs` | Theorems about `Bootstrap`. |
| `ApiClient` | The interceptor of every tab, the cookies they share, and refresh and logout on the server. |
| `BookmarkCache` | The caches of one user's bookmarks: optimistic updates, answers, rollbacks and fetches. |
| `Onboarding` | The guided tour of a tab, with its storages, timers and navigation. |
| `Frontend_proofs` | Theorems about the three modules of the browser, which it extends together; that is why they share no names. |
| `MC...` | The instances for TLC: symmetry, and the history variable `overlapped` of `MCReviewPhotos` and `MCAccounts`. |

`Reviews` and `ReviewPhotos` extend `ReviewStats`; they share the tables `reviews` and
`bar_review_stats` but are checked apart, because their product is out of TLC's
reach.  The seam is kept on both sides: `Reviews` reduces photos to the column
`photoCount`, which `create` sets to any value of `PhotoCounts` and `save` may
write back stale; `ReviewPhotos` keeps the removal and the report of a review,
which change the columns its own handlers have read.

### Reviews

Tables are functions from a pool of primary keys to rows or `NoRow`.  A request
of the pool `Requests` makes one call.  Its state is `pc` (its next statement),
`call` (handler and arguments), `ent` (the entity it loaded before its
transaction) and `cols` (the columns `save` found to differ).

| Action | Code |
|---|---|
| `StartCreate`, `StartUpdate`, ... | the reads and checks of a handler before its transaction; a call refused there changes nothing and is no step |
| `AdjustStatement` | `adjustRating` in `update`, which locks the aggregate row first |
| `SaveSelect` | the `SELECT` TypeORM's `save` issues to find the differing columns |
| `LockReport`, `LockReview` | `SELECT ... FOR UPDATE`, or the row lock of an `UPDATE` |
| `LockPhoto` | a deletion marks the photos of its review with one `UPDATE`, which takes their row locks one by one, in any order: before the review in the owner's and the administrator's deletion, after it in a resolution |
| `CommitCreate` ... `CommitResolve` | the remaining writes and `COMMIT` |
| `DeadlockAbort` | PostgreSQL aborts one transaction of a cycle |

TypeORM's `save` reads the row again, deleted or not, and writes every column in
which the entity differs, `deletedAt` too, and `updatedAt`, so that it takes the row
lock also when nothing else differs: `SaveSelect` always goes on to `LockReview`.
`softRemove` sets `deletedAt` by
primary key without looking at the row.  Of `review_photos` there is
which rows exist, deleted or not, and who has locked them; what they show is in
`ReviewPhotos`.  The database runs at READ COMMITTED: an
`UPDATE` that waited for a lock applies to the newest version of the row.  The
writes of a transaction become visible at `COMMIT`, so they are one step, and
the locks a transaction holds from earlier statements are variables.

Initial states are all sets of published reviews that respect the unique index,
with exact aggregates, any photos and no reports: everything else is reached by calls.

`ReviewBoard` has no requests, no locks, no entities and no deleted rows: a board of
live reviews, the scores of the bars, the reports and the audit log, and one
action per kind of call.  `Reviews` maps a row to the board by `OnBoard` (a deleted
row is none, the number of photos is nobody's promise), `ratingCount` to the
score, and the other two to themselves.  `ActsAtOnce` says that a `COMMIT` is the
action of its call on the board as it is then, with the checks a user expects
repeated there: nobody reports a hidden review, posts a second one, or decides
what is decided, although the code has checked some of it statements earlier.
Every other step leaves the board alone, and after each the scores are the
board's.

### ReviewPhotos

The state of a request has, besides `pc`, `call`, `ent` and `cols`, the number
of photos it counted (`existing`), of files S3 accepted (`stored`), of rows it
inserted (`next`), the rows a deletion addresses (`targets`) and the rows its
transaction has written but not committed (`held`).

| Action | Code |
|---|---|
| `StartUpload`, `StartRemovePhoto`, `StartRemoveReview` | `findOne` of the review and the checks on it |
| `CountPhotos` | `count` and the limit, before anything is stored |
| `StoreFiles` | `Promise.allSettled`: any of the files may fail; none left is a 400 |
| `InsertPhoto` | one `save` of the loop, at place `existing + next`: it waits for a place that an open transaction has inserted or is freeing, and a taken place ends the transaction with 409 |
| `FindPhoto`, `UpdatePhotos`, `DeletePhoto` | `findOne` of a photo; the snapshot of the bulk `UPDATE`; the row locks, one by one, in any order |
| `SaveSelect` | the `SELECT` of `manager.save(review)` |
| `CommitUpload`, `CommitRemovePhoto`, `CommitRemoveReview` | the row of the review, the aggregate, `COMMIT` |
| `Report` | `submitReport`, one step: it reads nothing before its lock |
| `DeadlockAbort` | two removals that hold rows of each other |

The administrator's deletion does to the photos what the owner's does, but for
the audit record, and has no action of its own.  Initial states have
any number of photos up to the limit in the first places, exact counts and any
status of the review.

`PhotoSlots` has one variable, `slot`: of every photo there has been its review, its
place and whether it still shows.  `ReviewPhotos` maps it to its rows.  Every step
must show new photos of one review, each at a place of its own that no photo shown
has, or take shown photos of one review away; none is moved, brought back or put where
another is, and none is without a place below the limit.

### Accounts

Users are people with an email address; a row of `users` keeps what the handlers
decide on (password hash, role, `isActive`), `linked` says who has a Google row
in `accounts`, `tokens` is `refresh_tokens`, and `audit` the latest decisions on a
user in `admin_actions`.  A request has `pc`, `call`, `ent` (the user it loaded),
`new` (the token it signed) and `cols`.

| Action | Code |
|---|---|
| `StartSignup`, `StartLogin`, ... | the first read of a handler and the checks on it, however long the hashing takes |
| `FindUser`, `CreateUser`, `LinkAccount` | the user of a token, of a Google account or of an address; the inserts of a new one |
| `PurgeTokens`, `RotateToken`, `ExpireToken` | the deletions before a token is signed |
| `InsertToken` | `saveRefreshToken`; the value of a token is unique |
| `UpdatePassword`, `RevokeTokens` | the two statements of `resetPassword` |
| `SaveSelect`, `SaveUser` | `userRepository.save(user)` of the profile and password handlers |
| `CountAdmins` | the number of administrators, outside the transaction |
| `CommitDecision` | the transaction of `suspendUser`, `activateUser`, `changeUserRole` |
| `Logout` | one statement |
| `Fail` | a statement fails, or the process ends, between any two statements |

A JWT without a nonce is a function of its payload and the second: `Signed` keeps
user, role and second, so two tokens of one second collide in the unique index, as
`src/backend/test/auth.e2e-spec.ts:307` notes.  `adminAccess` are the holders of
an administrator's access token, which the guards do not compare with the row:
who is demoted or suspended may go on deciding until it expires (expiry is left
out, which only adds behaviours).  Signup and reset take the verification token
as valid; `EmailVerification` is about it.

Initial states are any users, at least one of them an administrator, with at most
one session each, and no decision on record.

### EmailVerification

A row of `rows` is a code that was sent, named by the request that saved it;
`mail` is what a mailbox has received, `forms` the state of
`useEmailVerification`, `kind` how the user of an address signs in.

| Action | Code |
|---|---|
| `StartSend`, `CheckDailyLimit`, `DeleteCodes`, `SaveCode`, `SendMail` | the statements of `sendCode`, and the mail |
| `StartVerify`, `FindCode` | a person types a code of their mailbox or a wrong one; `findOne`, the checks and the comparison |
| `CountFailure`, `UseCode` | the `update` that counts the miss it has read, plus one; the one that marks the row used, and the token |
| `GiveUp` | the client's timeout: the form may call again while the server still works |
| `UseToken` | `signup` or `resetPassword`, which check the token and do not use it up |
| `Fail` | a statement or the mail fails |

An answer that arrives for a call the form has given up changes nothing there;
one that arrives for the newest call does what the hook does.

### Bars

The four tables that hang on a bar are one variable, `rows`: a key is a pair of
part and name, and its state is `none`, `live` or `deleted`, because unique
constraints and bulk `UPDATE`s both see deleted rows.  `objects` is S3.

| Action | Code |
|---|---|
| `Create` | one transaction of inserts |
| `StartUpdate`, `SaveSelect`, `SaveUpdate` | the checks of `update`, and the `SELECT` and `UPDATE` of `save(bar)` |
| `BulkBegin`, `BulkEnd` | one `manager.update(Part, { barId }, ...)`: its snapshot, and the moment it has the row locks |
| `CommitUpdate` | the inserts of menu and hours, a conflict with the unique constraint on the weekday included |
| `StartVerdict`, `CommitVerdict` | `approveBar`, `rejectBar` |
| `StartDeletion`, `FindAgain`, `CommitDeletion` | `remove` and `deleteBar` with `softDeleteBarWithRelations` |
| `StartUpload`, `CountPhotos`, `StoreFiles`, `SavePhoto` | `PhotosService.upload`: the limit, S3 refusing any of the files, one row after the other |
| `StartRemovePhoto`, `FindPhoto`, `DropObject`, `SoftDeletePhoto` | `PhotosService.remove` |
| `StartAdd`, `FindMark`, `FindDeletedMark`, `RestoreMark`, `InsertMark` | `BookmarksService.add` over soft-deleted rows |
| `StartDrop`, `DropMark` | `BookmarksService.remove` |
| `Fail` | a statement fails, or the process ends: transactions leave nothing, the others what they did |

`updatedAt` is a column of the model: `save(bar)` writes, and locks the row, whenever
the row has been saved since the entity was loaded, and it puts the time back with
the rest.

Initial states are one bar in any status, an approved one with or without the
record of an approval: `SeedInitService` inserts approved bars that nobody has
approved.

The properties allow exactly the overlaps that break them, named by history
variables: `unread` for the edits that no approval of the bar had loaded, `read` for
those an approval under way has loaded with it, and `slipped` for the unread edits
that an approval published, and for those that had compared their bar before it
committed; `newest` for
the text that should stand, `beside` for calls under way together with a
deletion, `met` for edits of a menu and uploads that overlapped another.

### Bootstrap

Each instance has the next statement of its three kinds of hooks: `ensure`
(`AdminInitService`, `TestUserInitService`), `trig` (`TriggerInitService`) and
`seed` (`SeedInitService`), which awaits the first two.  Every statement commits
by itself; `Stop` ends an instance at any of them, `Fail` when a hook throws, and
`Boot` starts it again.  `SessionCloses` closes the session that holds the
advisory lock at any moment: the lock belongs to a session of the pool, which
the pool closes when it has been idle, and `Unlock` may be sent over another
one.  `Serve` is an owner who creates a bar through an instance that listens, with any
name, a seed's too.  Two instances at the same statement of the triggers, which takes
a lost lock, may fail over an index, a function or the extension although these are
created only where they are missing (`FailContended`).

### ApiClient

`refreshing` and `queue` are `isRefreshing` and `failedQueue` of a tab, `cookie`
is the refresh token that all tabs share, `sessions` the server's table.  A call
may be answered 401 at any time, since access tokens expire, and for what it
says too: a wrong current password and an invalid reset token are 401s.

| Action | Code |
|---|---|
| `Start`, `Serve`, `ServeLogout` | a call of the page, and its answer |
| `Reject`, `Enqueue`, `Refresh` | the three branches of the interceptor for a 401 |
| `SignIn`, `SignedIn` | a login, a signup or a code of Google: its session, and the cookie of its answer |
| `RefreshFind`, `RefreshDelete`, `RefreshInsert` | the statements of `AuthService.refresh` |
| `TurnAway` | a refresh refused with its token left: the throttler of `AuthController` (five a minute), an inactive user, a query that fails |
| `FailRefresh` | a refresh whose insert fails after the deletion, or whose request or answer is lost |
| `Renewed`, `Refused`, `LoggedOut` | the answer of the refresh, the queue and the retry; the logout and the redirect; `finally` |
| `Lose` | timeouts and lost answers of the calls of the page |
| `Revoke`, `Unload` | a suspension, a login elsewhere, the end of a token's days; the browser leaves the page, with all its calls |

The cookie is sent with the paths below `/auth` only.  The client does not look at why a
refresh was refused, so `Refused` follows both `unknown`, the token that the table does not
have, and `failed`, the refusals of a token that may still be good.  The logout may
be lost or throttled; then the cookie stays.

The three statements of the refresh are the handler `refresh` of `Accounts`, reduced
to what a client can tell: `Accounts` has the users and the failures between the
statements, `ApiClient` the cookies, the tabs and the lost answers.

### BookmarkCache

`cards` are the data of the search and detail queries, `list` the data of the
bookmarks query with its `invalid` mark, `fetch` what a query is fetching, and a
`mutation` keeps the context of `onMutate` and the server's answer.  `Mutate`,
`Succeed` and `Fail` are the three callbacks; `ServeMutation` and `ServeLate` the server
before and after the client's timeout; `Ask`, `Answer`, `Deliver`, `FailFetch`,
`OpenList`, `CloseList` the query client.  A fetch that was answered before a
mutation was served and delivered after it is part of the model (`passed`).  A
removal and a failure set the list by hand, which clears `invalid`; every success sets it.

### Onboarding

`tour` is phase and step, `stored` its copy in sessionStorage, `completed` the
flag in localStorage that all tabs share, `timers` the clicks whose 100 ms have
not passed.  Each action ends with the effects React runs for it (`Settle`): a
search without results sends step 6 back to the map, an idle tab greets.

| Action | Code |
|---|---|
| `StartTour`, `EndTour`, `ReplayTour`, `NextStep` | dialogs, tooltip and profile |
| `ClickTarget`, `TimerFires` | the listener that hears clicks until the timer of the first has advanced the tour |
| `DropPin`, `SearchBars` | `useSearchOnboarding` |
| `Navigate`, `Load`, `Unmount`, `Authenticate` | the pathname effect, the first effect, the browser, the session |
| `OtherTab` | another tab ends the tour, or starts it anew |

## Runs

| Run | Instance | Shows |
|---|---|---|
| `reviews_race` | 3 concurrent calls, 2 reviews, 2 users, all handlers | types and clamps; one live review per user and bar; a hidden review is audited; which calls can deadlock |
| `reviews_exact` | 4 calls, 3 users; create, report and resolve overlap, edits and deletions run alone | the aggregate is what recalculating gives; a review is REPORTED exactly while a report is pending; a resolution is final; every call acts at once (`ReviewBoard`) |
| `reviews_answered` | 3 concurrent calls of all handlers, with fairness | every request ends |
| `photos_race` | 3 concurrent calls on one review, uploads of 1 or 2 files | types and clamps; the limit; the promise of `PhotoSlots`: a photo shows at a place of its own until it is gone for good; counts and deletion are exact as long as no calls have overlapped |
| `accounts_race` | 3 concurrent calls of all eleven handlers, 2 users, failures anywhere | types; role and status change only by a recorded decision; the way to sign in stays; a suspension lasts; without overlap a suspended user has no session, a user one session, the latest decision stands, an administrator remains |
| `email_codes` | 3 calls of 2 forms on 2 addresses, failures and timeouts anywhere, codes that expire | one live code, one token per code, every miss counted, but for the one overlap each property names; only who reads the mail proves an address |
| `bars` | 2 concurrent calls of all ten handlers on one bar in every state, seeded or reviewed, failures anywhere | which overlaps publish an edit nobody approved, lose an edit, double a menu, pass the limit, leave a photo without object or a deleted bar with rows, and that nothing else does |
| `hours_again` | one edit of a bar | violated: opening hours are never replaced |
| `bootstrap` | 2 instances, a stop at any statement, the lock lost at any moment, owners who create bars of any name | what can stay half made and why; which names get doubled; no instance fails twice over the same thing |
| `api_refresh` | 3 calls of 2 tabs, signed in or not; lost answers, throttled and failed refreshes, logins, logouts, suspensions; with fairness | a refresh finds its token unknown only for a cause that is not another call of its tab; every call is answered |
| `bookmark_cache` | 3 changes of 2 bars and a fetch at any time, refused, lost or late | at rest the cards and the list agree with the server, but for the named failures and overlaps |
| `tour` | one tab, 3 clicks waiting for their timer | a reload finds the tour where it was; no step is out of sight but for named causes |

**Bounds.**  Two users and two reviews are enough for a reviewer and a reporter,
two reviews of one bar, and a review created again after a deletion; two ratings
(1 and 5) tell every column apart; a photo count of 0 or 1 tells its flag.  In
`reviews_race` a review has up to two photos, so that two deletions can lock them in
different orders; one is enough in the other two runs, where the one photo and the
review make the circle.  The
races need two overlapping requests and a third to make the damage visible or to
close a cycle of locks.  The size of `Requests` bounds the length of a history,
and the handlers in `Alone` are called only while nothing else runs: that is how
a run says which overlaps it allows.  Ids never run out for a request on its way
(`IdLeft`, `PoolSuffices`).

`reviews_exact` leaves `moderate` out: its bookkeeping is that of `resolve`
(`ModerateReviewWithManager` serves both), and `reviews_race` races it.  That
moderation by hand acts at once has been checked with three calls, and is part of
the theorem `AllAtOnce`.

For photos of reviews, `MaxPhotos` is 3 instead of 5: an upload of 1 or 2 files
then still fits beside an earlier photo, fills the review exactly, or is refused,
and two uploads of which each fits alone exceed the limit together.  With two
earlier photos the first or the last can be removed, which is what tells "the
number of photos" from "the first free place".

For accounts, two users are an administrator and another, or two administrators;
two passwords an old and a new one.  One token may be left from before
(`EarlierIds`), so that the first call can be a refresh or a logout.  `Lifetime` is one
second and `MaxClock` 2: tokens of one second and of the next are refreshed while they are
valid, and those of the first second expire in the third.

In `email_codes`, `MaxFail` is 1 and `DailySendLimit` 2: one miss reaches the
limit, and three sends would reach the daily one if the rows stayed.  A code
and a token live through their own unit of time, so that both expire in the next.
Two forms on two addresses are enough for a person at the wrong address and for
two pages that prove the same one.

In `bars`, one bar in each status, with or without a menu, hours and bookmarks
that are live or deleted, and one earlier photo; `MaxPhotos` and `MaxFiles` are
2, so that an upload fits, just fits or is refused.  Every property is about two
calls that meet; the theorems cover any number.  Three calls are out of TLC's
reach.

In `bootstrap`, two columns have the order and the independence of the two of
the code, one seed with one part the statements between which a bar is half
made, and the administrator is the one user (`NumTestUsers` 0); the test users,
who are made by the same statements, have been checked once, with one column and no stop.  One
stop is a crash at any statement, and the instance may start again.  Two stops, a crash
and a second one during the repair, have been checked once with one column; the
theorems are about any number.

In `api_refresh` three calls are one that refreshes, one that waits for it, and
one of the other tab.  In `bookmark_cache` three changes are an add, a removal of
the same bar before the answer, and a change of the other bar; two free fetches
have been checked once.  `tour` has all thirteen steps; a third waiting click is
one more than a double click.

**Fairness.**  `reviews_answered` assumes weak fairness of `Advance(q)` for each request
that has been accepted: Node runs a continuation whose promise has settled and
PostgreSQL grants a lock that is free and breaks a
deadlock after `deadlock_timeout`.  Nothing is assumed of clients.  Weak fairness
suffices because each request waits for a lock whose holder
releases it, and the pool of requests is finite: no stream of newcomers can
overtake for ever.

`api_refresh` assumes one weak fairness: while a request, an answer or a page on its way
to `/login` exists, one of them goes on.  Calls of the page are answered or fail at the
client's timeout (`lib/api.ts:28`).  The refresh and the logout of the interceptor are bare
`axios` calls without that timeout: that they come to an end is an assumption about the network
and the browser.  What a refresh that hangs for ever does is plain in the code:
`isRefreshing` stays up, and every later 401 of the tab waits in the queue.  The
browser leaves a page whose `location.href` was set.  Nothing is assumed of the loss of
answers, of refusals, revocations, or new calls.

## What the violated run says

`hours_again`: `docs/architecture/api/bars.md:243` promises that hours given in an edit
replace the old ones.  `update` soft-deletes the old rows, the unique constraint
on bar and weekday counts deleted rows, and the insert of the same weekday
fails: the whole edit is rolled back with a 500.  The edit form sends all seven
days, so no edit of a bar that has hours succeeds.

## What overlap breaks

The properties name the overlaps that the code does not survive.  What they
exclude is this:

* *Reviews.*  `update` loads the review before its transaction and `save` writes
  every column that differs, so an edit undoes a report that committed in
  between, but not the report's decrement; `softRemove` does not look at the row,
  so the second of two deletions decrements again.  This is why `StatsExact` has
  edits and deletions run alone.  Three kinds of circles of locks are possible
  (`OnlyKnownDeadlocks`): one with an edit, one of two resolvers of a review, and one of
  two deletions of a review that has photos, which the owner's deletion locks
  before the review and a resolution after it (`reviews.service.ts:228`,
  `review-reports.service.ts:164`).  PostgreSQL aborts one of them.
* *Review photos.*  New photos continue at the number of photos: after the removal
  of a photo other than the last, that place is taken, and every retry of the
  upload ends in the same 409 (`review-photos.service.ts:91`).  The bulk `UPDATE`
  of a deletion sees only committed photos; an upload that commits after it
  leaves its rows behind.  Two removals both save the count they loaded, minus
  one; an upload that loaded the review before another one corrects
  `photoReviewCount` a second time.
* *Accounts.*  A login or a refresh that read the user before a suspension inserts
  its token after it; two refreshes with one token, or two logins, leave two
  sessions; a profile edit that loaded the user before a suspension, a change of
  role or a reset of the password writes it back; two demotions at once leave no
  administrator (`admin-users.service.ts:212`).
* *Email verification.*  Parallel guesses of one code count once, and two right
  ones bring two tokens.  `docs/architecture/api/auth.md:183` gives a daily limit
  of five codes, but `sendCode` deletes the rows it counts (`OneLiveCode`), so it is
  never reached.
* *Bars.*  An approval that had loaded the bar before an edit committed publishes the
  edit unread (`admin-bars.service.ts:175-191`), and one that commits while an edit has
  compared its bar but not committed lets the edit appear as approved.  What the
  administrator had on the screen before the approval loads the bar is older
  still, and not in the model.  A verdict or an edit that loaded
  the bar before another edit or a deletion writes the old text, or the bar
  itself, back; two uploads together pass the limit; a bookmark, a photo or a menu
  is inserted under a deleted bar.  `docs/architecture/system-overview.md:418` says that
  the deletion also reaches reviews and their statistics; it does not.
* *Start-up.*  A crash between `CREATE TRIGGER` and the backfill leaves a column
  empty for ever, because the next start finds the trigger; a crash among the
  inserts of a seed bar leaves it incomplete for ever, because the next start finds
  its name.  The advisory lock goes with its session, so two instances can
  initialise at once; then one fails to start, and so can two instances that
  create the same user, once each.  A bar that an owner creates with a seed's name
  after the seed was looked for gets a namesake.
* *API client.*  Two tabs that refresh with one token: the second is refused, and
  its logout ends the session of both (`lib/api.ts:70-82`).  Every refusal has this end: a
  refresh that was throttled (`auth.controller.ts:26`) or failed logs out although the
  session was good, and one that fails between its two statements has lost it.  A wrong current password
  (`users.service.ts:109`) and an invalid reset token (`auth-password.service.ts:40`)
  are 401s, so the client refreshes and retries, and a signed-out user on the
  reset page is sent to `/login`.
* *Bookmark cache.*  A failure puts back a list that was invalid and marks it valid;
  two failures of overlapping changes put back each other's guesses.
* *Tour.*  Sent back from step 6, the tour waits for a pin, but the old pin still
  lies there and a new one is no event (`use-search-onboarding.ts:64-76`).  A
  double click on a target skips a step.  Back in the browser during the welcome,
  then Start, begins a tour that is out of sight.  The clause `nextPageMatch`
  (`onboarding-provider.tsx:119-128`) matters for none of the thirteen steps (lemma
  `SamePage`).

## Theorems

For all values of the constants that satisfy the named assumptions:

| Module | Theorem | Statement |
|---|---|---|
| `Reviews_proofs` | `TypeCorrect` | `Spec => []TypeOK`: among the rest, no column of the aggregate ever leaves the naturals |
| | `OneActive` | `Spec => []OneActiveReviewPerBar` |
| | `HiddenAudited` | `Spec => []HiddenIsAudited` |
| | `Resolved` | `Spec => ResolutionIsFinal` |
| | `LockOrder` | `Spec => []OnlyKnownDeadlocks` |
| | `AggregateExact` | `PreReadAlone => (Spec => []StatsExact)` |
| | `ReportedWhilePending` | `PreReadAlone /\ "moderate" \notin Handlers => (Spec => []ReportedIffPending)` |
| | `AllAtOnce` | `PreReadAlone => (Spec => ActsAtOnce)`: the handlers implement `ReviewBoard` |
| `ReviewPhotos_proofs` | `TypeCorrect` | `Spec => []TypeOK` |
| | `PhotoLimit` | `Spec => []AtMostMaxPhotos` |
| | `KeepsPromise` | `Spec => FillsFreePlaces`: the handlers implement `PhotoSlots` |
| | `CountsExact` | `WatchedSpec => []CountsExactAlone` |
| `Accounts_proofs` | `TypeCorrect` | `Spec => []TypeOK` |
| | `Recorded` | `Spec => DecisionsAreRecorded` |
| | `SignInMethod` | `Spec => SignInMethodStays` |
| | `SuspensionLasts` | `Spec => NoNewSessionOnceSuspended` |
| | `SoundWithoutOverlap` | `WatchedSpec => []SoundAlone` |
| `EmailVerification_proofs` | `EmailTypes` | `Spec => []TypeOK` |
| | `OneCode`, `OneToken`, `MissesCount` | `Spec => []OneLiveCode`, `[]OneTokenPerCode`, `[]EveryMissCounts` |
| | `ReaderProves` | `Spec => []OnlyTheReaderProves` |
| `Bars_proofs` | `BarTypes` | `Spec => []TypeOK` |
| | `ApprovedBarsWereReviewed`, `EditsAreKept` | `Spec => []ApprovedIsReviewed`, `[]EditsStand` |
| | `MenusAreReplaced`, `PhotosHaveObjects`, `PhotosAreLimited` | `Spec => []OneMenu`, `[]PhotoHasObject`, `[]AtMostMaxPhotos` |
| | `DeletionsLast` | `Spec => DeletionLasts`, an invariant and an action property |
| `Bootstrap_proofs` | `BootTypes` | `Spec => []TypeOK` |
| | `EveryBarFound`, `OnlyEndsLeaveHalves`, `FailuresEnd` | `Spec => []EveryBarIsSearchable`, `[]NothingHalfMade`, `[]FailsOnce` |
| `Frontend_proofs` | `ClientTypes` | `Spec => []TypeOK` |
| | `OneRefreshPerTab` | one refresh at a time in a tab, sent with a token that the table has unless a cause outside the tab has taken it |
| | `RefusalsHaveCauses` | `Spec => []RefusedWithCause`: of the refusals for an unknown token |
| | `TourIsResumable`, `TourIsNeverHidden` | `TourSpec => []Resumable`, `[]NeverHidden` |
| | `CardsAreRight`, `ListIsRight` | `CacheSpec => []CardsAgree`, `[]ListAgrees` |

**Reviews.**  `TypeOK` is not inductive: what a commit writes is well-typed only
if the request is at a statement its handler has, with the entity that handler
loads.  `CallsOK` says this, and `TypeOK /\ CallsOK` is inductive (`TypeStep`, one
step per action).  The next two add one conjunct each.  A write to a live row is
either an insert or a save that passed the unique index, or it changes neither
user nor bar, or it deletes (`UniqueRowWrite`); a write that hides a row is a
moderation that logs it, or puts back a status loaded when the row was already
hidden, which is why the invariant also speaks of the entities in flight
(`EntityAfter`, `HiddenWrite`), and the audit log only grows (`AuditGrows`).
A resolution stays because the two commits that write reports pick rows without
one (`ReportsWrite`).  For the lock order `LocksOK` says what each lock tells about
its holder, and with it every wait is for an edit, for a request about to commit,
between two resolvers of one review, or about the photos of a review that two requests
delete (`WaitsFor`).  An edit in a circle must be
waiting for its review, the one place where it can wait while it holds a lock
(`EditsRun`); a request about to commit waits for an edit or a resolver; and a wait
for a review is for one about to commit, or for a resolver at its photos, who waits in turn.

`StatsExact` is false of overlapping calls (see "What overlap breaks"), so
`AggregateExact` assumes `PreReadAlone`: the four handlers that load the review
before their transaction (`PreRead`) belong to `Alone`, the handlers that are called
only while no other call runs.  The run `reviews_exact` satisfies it; reports, resolutions and new reviews
interleave at will.  The invariant `AloneOK` says that a request that holds an
entity is the only one, that the entity is its row, that the columns it will
save are the ones it has changed, and that it corrects the aggregate row exactly
if its review counts.  A commit then writes into the aggregate what the change of
its one review makes of `Recalculate`: lemmas `RecalculateAdd`, `RecalculateDrop`,
`RecalculateRating` and `RecalculateSame` give that, from the cardinalities of the
sets it counts, and `DecrementIncrement` and `AdjustIncrement` say that the clamped SQL
takes back what it has added, as long as it is exact.  `ReportedIffPending` needs
the same invariant, because an edit would write an old status back.

`AllAtOnce` needs the aggregate to be exact, so it has the same hypothesis: then the
scores are those of the board (`ScoresShown`, from `StatsExact` and the view of the
rows, `BoardLive`).  Each commit has a lemma of its own that makes it the action of
its call (`ActsCreate`, `ActsUpdate`, `ActsRemove`, `ActsModerate`, `ActsReport`,
`ActsResolve`), over what a write to one row does to the board (`BoardWrite`,
`BoardChange`, `BoardTake`); every other step writes no table.  Two guards of the board were
checked statements before the commit and need an invariant of their own,
`DecisionsOK`: the report a resolver has locked is still pending when it commits,
because the bulk update of another resolver waits for that lock
(`LockedReportStays`), and a moderation by hand changes the status of the entity
it holds.  The others are checked under the lock, follow from `AloneOK`, or are what
the unique index is for.

**ReviewPhotos.**  The limit holds although it is checked in another statement
than the inserts: an upload that passed the check claims places below the limit
(`UploadOK`), the unique index gives each place of a review to one live photo
(`PlacesOK`), and there are only `MaxPhotos` places.  To be inductive the
invariant also speaks of rows not yet committed: those of an upload have new keys
and places no live photo has, those of two uploads are `Apart`, and a deletion
writes only rows of its own review (`DeletionOK`).  `InsertPhotoPreserves` is
where the waiting of the index is needed, `CommitUploadPreserves` where claimed
rows become visible.  The refinement follows from the same invariant, `PhotosStep`:
the commit of an upload writes rows that were not there, at places below the limit that
no shown photo and no other of them has (`Shows`, a `Fill`); the commit of a removal
takes shown photos of its review away and touches nothing else of them (`Hides`, an
`Empty`); every other step is a stutter.

`CountsExact` is about `WatchedSpec` of `MCReviewPhotos`, `Spec` with the history variable
`overlapped`; the proof modules of photos and accounts extend the MC modules for
it.  Until a call has overlapped another, the entity of the running request is
its row, the count it has read is the number of photos on display, the rows it holds are
the ones its next count adds, and its columns are the ones in which it differs
(`Exact`).  Between two requests `photoCount` is the number of live photos
(`CountsOK`), so `RecalculatePhotos` gives the correction of `photoReviewCount` at the
commit.  Files that S3 refuses and retries are part of it.

**Accounts.**  The invariant says of each running request that it is at a
statement of its handler with an entity this handler accepts (`Local`), and that
the entity agrees with its row in what no decision on record has changed
(`Agrees`): this is what makes writing back a stale user harmless before the first
decision.  Its preservation and the two action properties rest on one fact about
every step (`RowsKept`); `UpdateKeeps` proves it for `save`, the only step where
it is in danger.  `SuspensionLasts` needs `Local` only: the one step that adds a
token works with an entity that was active when it was read (`NewToken`).

`SoundWithoutOverlap` again speaks of `WatchedSpec`.  A request that is alone holds
the row it has read, has ended the old sessions before it inserts a token, and
takes an administrator's role only after it has counted another
(`Exact`; `FewerTokens` and `OneSession` say that the tokens left are one at most).  A
statement may fail and leave the request where it is, so the invariant holds
between any two statements, not only between calls.

**EmailVerification.**  `OnlyTheReaderProves` is carried along the way a proof
takes: what a mail brings (`MailOK`), what is typed (`CodeOK`), what a right guess
says (`UseOK`), what a form holds (`TokenOK`), what was accepted (`ProofOK`).
`KeyOK` says that the key of a code is new until its row is saved, `RaceOK` and
`SaveOK` hold the counts together for codes and addresses on which no two calls
have met: the second guess to read a row, or the second send to delete, is the
step that takes a code or an address out of their range.

**Bars.**  `CallOK` gives each request its handler's statements.  Each property
gets the conjunct that foresees it: `ReviewOK` (an edit that will leave the
status as it is, because it compared a bar that was not approved, still finds it
so or has slipped; a slipped edit is of a bar with an approval on record, which
a seeded bar has not), `TextOK` (a text in use belongs to a call that is done, so no
later step can write it again), `MenuOK` (an edit that replaces a menu alone has
seen every live menu), `PhotoOK` (a key has a row in one bar at most, and none
before its upload), `LimitOK` (an upload that is alone has room for its files),
`DeletedOK` (what a deletion has not seen of a part it has passed was written
beside it).  `LimitOK` counts the files still to come with the photos that are
there: this is what a check in one statement and an insert in another need.

**Bootstrap.**  The invariant follows the lock: while no session that holds it is
lost, only its holder is past `lock` (`Exclusive`), so a trigger that was missing when
it looked is still missing when it creates it.  What a hook relies on it has found
out before (`Ready`).  An instance that ends moves its unfinished work to `cut`
(`EndStep`), every other step finishes what it leaves (`BegunKept`); and a name is
inserted into a table without it, or whoever inserted it, another instance or an owner, is
in `raced` (`SaveOK`).

**ApiClient.**  `OneRefresh` is the reason for the flag: between raising it and
lowering it there is one call that refreshes.  The cookie of a tab that is not
being replaced is usable (`CookieOK`): the table has the token, or a cause has
taken it.  For that, a new token must be nobody's while it is on its way (`Fresh`),
which needs the order of the tokens (`Dated`), and what was sent must be spent by
its tab (`SpentOK`).

**Onboarding.**  `Resumable` and `NeverHidden` are nearly inductive; they also need
that an unmounted page has no tour and that a tour the same tab has ended is
gone from the storage (`OverHere`), or the restored tour could be out of place.

**BookmarkCache.**  `CardsAgree` and `ListAgrees` speak of a state in which nothing
is under way; the invariant says of everything under way that it will leave the
cache right, but for what is in `known` or, for a mutation that fails, in its
`met`.  A card on which no mutation works is right (`CardsOK`), an answer that has
come says what the server has (`AnswerOK`), an answer that a fetch brings is right but for
the bars in `passed` (`FetchOK`), and so is the context of a mutation (`ContextOK`).  An
old answer may overwrite a card whose mutation is served: the mutation's own
answer follows and puts it right.  Of two mutations that overlap each has the
other's bar in its `met`, and a bar they share is in `known` (`MetOK`).  So `met` and `known`,
which the properties need to name their exceptions, are shown to name enough of
them for any number of bars, mutations and fetches.  The assumption `CacheNames`
says that there are finitely many bars, and two queries that are none of them.

The proofs use the assumptions named in the modules and the library's facts
about finite sets and cardinalities.

## Checked only, or not modelled

Liveness under fairness (`EveryRequestAnswered`, `EveryCallSettles`) and properties that speak of
ENABLED are beyond the proof system.  Every invariant, every action property and both refinements
that the passing runs check are theorems above; the types of `Bars` are a theorem only
(`BarTypes`).

Left out of `Reviews`: `ratingAvg` (a function of two modelled columns), texts
and visit dates, the reads of reviews, the crash of the server in the middle of a
transaction (a rollback, like `Rollback`), and requests refused before their
transaction.  Left out of `ReviewPhotos`: the objects in S3 (keys, URLs, and the
clean-up after a failure, whose own failure is only logged), the validation of
files, and statements that fail for reasons other than the unique index and
deadlocks.  Left out of `Accounts`: names
and pictures, the email rows of `accounts`, cookies, throttling, the expiry of
access tokens.  Left out of `EmailVerification`: the hash and the digits of a code,
throttling.  Left out of `Bars`: the columns of a bar but status and text, the
files' validation, the reads.  Left out of `BookmarkCache`: pages of the list,
other users' bookmarks in the counts.  Left out of `Onboarding`: where the overlay
is drawn, and steps whose target is missing.

Not modelled at all:

* search, the admin lists, dashboard and audit log: one read-only SQL query each;
  what they may return is what the modelled handlers left in the tables;
* maps, address search, the Google clients: calls of an external service and the
  formatting of its answer;
* guards, filters, pipes, configuration, mail templates: stateless checks of one
  request; the ones that decide appear as guards of the actions;
* entities, migrations and seeds: declarations and data; their constraints are
  parts of the actions that run into them;
* the location provider: the last answer wins;
* pages and components: rendering and forms, by far most of the source.  Where a
  button is disabled or offered makes a difference, it is a guard (`Offered`,
  `Shown`, the steps of `Form`).

So the modules stand for about a tenth of the source lines, but for every
handler that writes to the database and for the client's state that outlives a
render.

## Plan

What this project does not have yet, in the order of its worth:

1. An abstract session that `Accounts` and `ApiClient` both implement, in place of
   the seam in words between the token table of the one and that of the other.
2. `ReviewBoard` with the photos of `ReviewPhotos` on it, which takes a joint model of the
   two: for the proofs only, as their product is out of TLC's reach.
3. Pure functions: the merging of walking steps (`maps.service.ts:214`), the opening
   hours' text, the address of the search page and its copy in sessionStorage,
   which a reset of the filters does not remove (`search-page-content.tsx:158`).
