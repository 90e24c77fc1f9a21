# A TLA+ model of joinquant-api

`joinquant-api` is a Go client for the JoinQuant web site: it logs in with a
password, keeps a browser session in a cookie jar and in a store, reads
strategies, portfolios and backtests, and submits backtests.  Nothing in it
runs by itself; what is hard is what its callers do at once, what fails in the
middle of a call, and what a caller may conclude from the error it gets.

## Inventory

| component | state | operations | hard behaviour | what makes it correct |
|---|---|---|---|---|
| session and login (`auth.go`, `login_guard.go`, `session.go`) | per client: jar, `sessionLoaded`, `authGeneration`, `loginState`, `authMu`; shared: the `SessionStore` row and the `LoginGuard` lock and record | `Authenticate`, `Login`, `ClearSession`, `ResetLoginProtection`, `Session`, the renewal of a read | goroutines and processes that race for one account, a crash between password and answer, a store that fails | at most three spaced passwords per unresolved login, one renewal per expiry, a cleared session stays cleared, calls return |
| request path (`client.go`) | none of its own; changes the jar and the row | `do`, `getEnvelope`, `getHTML` | saves the session on any answer with cookies, without a lock | the store follows the newest session |
| writes (`backtest_write.go`, `algorithm_write.go`, `algorithm_folder.go`, `backtest_export.go`) | a call's page, request and answer | `BuildBacktest`, `CancelBacktest`, `CreateAlgorithm`, `CreateAlgorithmFolder`, `MoveAlgorithms`, `CreateBacktestExport` | the answer is lost, malformed or ambiguous; transports replay | one request per call; an error that is not `ErrSubmissionUnknown` means nothing was written; a known ID is never dropped |
| pages of a backtest (`backtest_data.go`) | the caller's cursor | result, position, transaction, log and error pages | the task still runs; display limits; odd answers | a reader that sees `Done` has every row once |
| lists (`backtest_pages.go`) | the caller's page number and the folders it has found | `ListAlgorithms`, `ListBacktests`, `ListAllBacktests` | rows come, go and move during the walk; page arithmetic; odd links | every row that stays is reached as far as paging allows, and the walk ends |
| export status and download (`backtest_export.go`) | none | `BacktestExportStatus`, `Download*` | an error page instead of a file | only whole files succeed |
| simulated trading (`strategies.go`, `portfolio.go`, `transactions.go`, `stats.go`, `history.go`) | none | one request each | - | parsing |
| cookie jar (`auth.go`) | `cookiejar` and the entries kept beside it | `SetCookies`, `Replace`, `Clear`, `Snapshot` | expiry in two places | what is saved is what is sent |
| example store (`examples/all/session_store.go`) | a file of rows, a mutex per process | `Load`, `Save`, `Delete` | errors at every step, crashes, loss of power, two processes | the file is always whole; calls take effect once or not at all |

Components meet in three places.  Every read goes through `do`
(`client.go:255`) and may end in `reauthenticate` (`auth.go:86`); every
answer with cookies changes the jar and the row; a write reads its page like any
read, renewal included, and then posts once with an `http.Client` of its own
(`backtest_write.go:274`, `algorithm_write.go:60`), past `do` and without a renewal.  The list of hazards, each at its line and with the properties that
would catch it, is in `PROJECT.json`.

## Modules

| module | models | proofs |
|---|---|---|
| `Auth` | sessions and logins of one account: several clients, several goroutines, one store row, one guard | `AuthProofs`, `AuthCallsProofs` |
| `LoginLimiter` | what the login protection promises, seen from JoinQuant; `Auth` implements it | in `AuthProofs` |
| `MCAuth` | instances of `Auth` for TLC and the view they use | |
| `Writes` | one write and its retries, with net/http and JoinQuant around it | `WritesProofs` |
| `Paging` | a reader of one collection of a backtest beside the task that writes it | `PagingProofs` |
| `Feed` | what such a reader may rely on; `Paging` implements it | in `PagingProofs` |
| `Lists` | a walk through strategies and folders, a history or all backtests, beside their changes | `ListsProofs` |
| `MCLists` | an instance of `Lists` | |
| `SessionStore` | what a `Client` relies on when it is given a store | |
| `FileStore` | the example's file, step by step; it implements `SessionStore` | `FileStoreProofs` |
| `Jar` | `statefulJar` and the `cookiejar` in it, as operators | in `SessionsProofs` |
| `Sessions` | composes `Jar` and `FileStore`: a `Client` from one process to the next | `SessionsProofs` |
| `MCSessions` | an instance of `Sessions` | |

### Auth

State: `jar`, `loaded`, `gen`, `mem`, `authMu` are the fields of a `Client`
(`client.go`); `store` is the `SessionStore` row of the account, `guardLock` and
`guardState` are what a `LoginGuard` holds; `valid` and `issued` are JoinQuant;
`pc`, `call`, `obs`, `copy` are where each goroutine is and its local
variables.  `tries`, `coolUntil`, `renewed`, `cleared` are history variables: no
guard reads them.

| code | actions |
|---|---|
| `getEnvelopeHeaders`, `getHTML` (a read with one renewal) | `BeginRead`, `ObserveGeneration`, `Send`, `AnswerReturns`, `AnswerExpired`, `AnswerSetsCookies`, `SaveSnapshot`, then `SkipRenewal` or the login, then `Retry` |
| a single request: `Session`, the request of a write | `BeginPlain` and the same answers |
| `reauthenticate`, `Authenticate`, `Login` up to the lock | `Begin`, `SkipRenewal`, `TakeMu` |
| `ClearSession` | `ClearJar`, `DeleteRow` |
| `ResetLoginProtection` | `TakeMu`, `ResetProtection` |
| `protectedLoginLocked` up to the probe | `EnterLogin`, `ReloadFails`, `LockFails` |
| the probe, the gate and the reservation | `ProbeValid`, `ProbeExpired`, `ProbeFails`, `GateRefuses`, `Reserve` |
| `loginOnce` | `PostPassword`, `LoginAccepted`, `LoginFails`, `ConfirmValid`, `ConfirmFails` |
| after it | `PersistSession`, `ResolveLogin`, `Settle` on errors |
| the world | `Crash`, `Expire`, `Tick` |

An action ends where the goroutine waits for a lock, for the network or for a
store.  Two pairs of steps are one action because the lock the goroutine holds
keeps everybody else from what they touch: locking the guard, loading its
record and reloading the row; and a probe with the Save of its cookies.

Abstractions:

- A session is its number in order of issue; 0 is a jar whose cookies carry
  none.  Other cookies matter only in that a jar that is not empty is probed,
  hence the choice in `EnterLogin`.
- JoinQuant says "expired" exactly when the session a request carried is not
  `valid`.  It may also answer anything else, or nothing.
- A Save can succeed, fail, or fail although it took effect ("unsure").
- `Cooldown` stands for the five minutes, `Tick` for time.
- `RefreshCookies` is whether answers other than a login's set cookies; the
  code handles them, so both values are checked, and what depends on it is said.
- A client in `Seeded` starts, and starts again after a crash, with any session
  there has been in its jar or with none (`Given`): `New` takes the cookies of the
  caller's `http.Client` and those of `WithCookies` (`client.go:160`).
- The fields of the login form are left out.

### Writes

One caller wants one thing done, calls, and calls again only on an error that is
`Definite`: neither `ErrSubmissionUnknown` nor `ErrSessionPersistence` (after
a persistence error the write was done, only the cookies were not saved).
`Begin` and `ReadPage` are the pages read before the request, whose errors
(`PageErrors`) are those of a read, of its renewal (`Protections`: blocked, cooling
down, no credentials) and of the form in the page, some of which have no name
(`backtest_write.go:148`); `Submit`,
`LoseAnswer` and `Receive` the request and its answer, `Land` JoinQuant.
`Envelope`, `Creation` and `Outcome` translate `writeBacktestEnvelope`,
`createAlgorithm` and the rest of each write: every class of HTTP status,
redirect and envelope the code tells apart, and the errors it returns.
`Request` is what `postBacktestEnvelope` builds: a body that cannot be read
again and no redirects.  `Replays` and `Follows` are net/http's rules for
sending a request again; `Possible` is the one assumption about JoinQuant, that
it refuses only what it did not do and reports only what it did.

`Structured408` is whether a 408 may carry an envelope.  `createAlgorithm`
takes such an answer for a refusal, `writeBacktestEnvelope` for an unknown
outcome; `RefusalIsDefinite` and `OneTask` hold for every write only when there
is none, which is the value the runs take.  The theorems exclude less:
`CreateAlgorithm` where there may be one (`Agreed408`).

### Paging

A reader asks for the rows behind its cursor (`Ask`), gets an answer (`Serve`),
an error (`Lose`) or one the code refuses (`Receive` with `Rejects`), and goes
on from `NextCursor` until `Done` or `ErrTruncated`.  Meanwhile the task writes
rows (`Write`), custom records (`Record`) and changes state (`Advance`), to a
final state at last or to one the client does not know.  `Usable`, `Rejects`,
`NextOffset`, `NextCursor` and `Done` are the checks and computations of the
five page functions; where they differ (`Dated`, `Echoes`, `Counts`) they differ
by `kind`.

What is assumed of JoinQuant, from how the code and its tests use it: an answer
shows the task at one moment; it belongs to the request, or the repeated offset
or the dates show that it does not; an offset counts rows, in the ordinary log
only non-empty lines; a task that has ended has no empty page before its last
row (but possibly one at the display limit, with `max`).  The caller advances
`UserRecordOffset` by the records it got, which is its job by the comment at
`backtest_types.go:185`.  A page is not longer than the largest int.

`Feed` says what this is worth to a caller, without pages, dates or offsets: a
reader takes what the task wrote next, never goes back, is complete only when the
task has ended and it has everything, and does nothing after its end.  The
offset of the cursor is the number of rows it has taken (`ReadsFeed`).

`Positions` need not be one place: behind the last counted row of a log there
may be any number of empty lines, and the model lets JoinQuant start at any of
them.

### Lists

A caller asks for page 0 or 1 of the root (`Ask`) and goes on from `NextPage`
(`Turn`); at the end of a folder it takes another one that it has found
(`Leave`), until none is left.  `Usable` and `PageNumber` are the checks before a
request, `Rejects` and `NextPage` what the three functions make of an answer;
where they differ they differ by `kind`: HTML pages have a link, which must
point ahead and may be hidden, the account-wide list has a page number and a
total.  Meanwhile rows are created anywhere, deleted, or moved to another folder
or place (`Change`); `MoveAlgorithms` is one way to do that.  A row may be a folder:
it is deleted or moved with all it holds, and never into itself (`Along`).  That
folders can be moved and deleted on the web site is not in the repository, which
only creates them; the model allows it because nothing there excludes it.
`ListAlgorithms` and `ListBacktests` return a page whose link is wrong together with
the error; this caller leaves it, as it leaves all that comes with an error (`Receive`).

What is assumed of JoinQuant: an answer shows the list at one moment and honours
the limit it was sent; behind the end of an HTML list it shows nothing, or the
last page again.  `ServeOdd` is everything else: any link, another page number,
a total of -1 or of the largest int, with the rows of the first page or none, unsound
rows; after one (`odd`) only `TypeOK`, `WalkAdvances` and `WalkEnds` are promised.
What the last two say of the account-wide list is little if JoinQuant inflates its
totals: page numbers grow, and the largest int ends the walk, or an empty page does.  `setLimit`, which changes how many
rows an HTML page has, is not modelled.

IDs change with every page (`BACKTEST_ENDPOINTS.md:110`), so a caller cannot tell
that it got a row twice.  Therefore the properties say what a walk is worth:
new rows hide none that was there (`NothingSkipped`), so a caller that looks for
what an `ErrSubmissionUnknown` left behind finds it in any walk that starts after
it landed, if nothing is deleted or moved; each deleted or moved row hides at most
one that stays (`OneMissedPerMove`), but the hidden row, like the moved one, may be a
folder, and then what it holds is not read either (`BACKTEST_ENDPOINTS.md:88`); a list at rest is read exactly once (`OnceEach`).

### SessionStore and FileStore

`SessionStore` is the interface of `auth.go:30` as a linearizable map: a call
starts (`StoreCall`), takes effect or fails at one moment (`Act`) and returns.
It is the contract behind the `store` of `Auth`, there with one more outcome:
`Auth` also allows a store that reports an error for a Save that took effect.

`FileStore` is the file of `examples/all/session_store.go`.  A call takes the
mutex and reads the file (`Read`: a `Load` is done with that), changes one row of
what it read and writes a temporary file (`Write`), syncs it (`Sync`) and renames
it (`Rename`); each step may fail instead.  `file` is what processes see, `disk`
what is there after a loss of power at the earliest: nobody syncs the
directory, so a rename reaches it later (`WriteBack`), and a file whose data was
never synced may be half there (`Torn`).  A `Delete` without a file returns
`ErrSessionNotFound`, which `SessionStore` allows and `ClearSession` ignores.

The mutex belongs to one process.  Two processes that write at once lose each
other's rows (`session_store.go:39`); `fresh` and `astray` record when that
happened, or when the disk went back to an older file, and what needs the
opposite says so.  The temporary file of a process that died stays on the disk
and is not followed further.

### Jar and Sessions

`Jar` gives each operation of `statefulJar` as an operator on a pair: what
`cookiejar` has `kept` and sends, and the `entries` a session is saved from.
`KeptUntil` and `EntryUntil` are the two rules for the time of expiry.
They differ when a cookie has a `Max-Age` and another `Expires`; and an entry
forgets which host set it, so that a host-only cookie of another host is restored
as one of the base URL's (`Becomes`).  `Plain` cookies have neither trait.

`Sessions` is a `Client` whose store is the file: an answer sets cookies and
saves (`Answered`), or sets them without saving (`SetOnly`: redirects, error
answers, downloads, `WithCookies`), `ClearSession` and `Restore` use the store,
`Returned` is what the result does to the jar.  Clients of other accounts, in this
process and in others, use the same file.  One call of the Client to its store
runs at a time: what several goroutines and clients of one account do to each
other is the subject of `Auth`.  `Resumes` compares with what a Client started now
would send, whenever the last call to the store was good and no cookie was set
since (`settled`), all cookies were `plain`, and nothing went `astray`.

## Runs

`Auth` runs with at most two processes, each with its own `Client`, or two
goroutines of one; `MaxSessions` and `MaxGeneration` bound sessions issued and
generations counted, `MaxTime` the clock.

| run | bounds | shows |
|---|---|---|
| `guard` | two processes; reads, logins, resets; one session, three cool-downs | passwords are limited, spaced and on record before they leave (`LoginBudget`, `CooldownKept`, `DurableIntent`, `LoginExclusive`), the guard implements `LoginLimiter` (`LimitsLogins`), and each step of a call uses up one of its at most sixteen (`CallsAreShort`); one process starts with cookies of its own |
| `sharing` | two processes, both may start with cookies; `Authenticate`, `ClearSession`; two sessions | if only logins set cookies, who waited for the guard finds the other's session (`NoRedundantLogin`) and the row never goes back (`StoreNeverRegresses`) |
| `one_client` | two goroutines of one unguarded client that starts without cookies; every operation but `Authenticate` | `authMu` alone keeps logins apart inside a client (`LoginExclusive`, `NoRedundantLogin`), `ClearedStaysCleared`, and without a guard no call drops a live session (`LiveSessionReused`) |
| `calls_return` | one goroutine reads, one of the same client logs in, clears and resets, one of another process authenticates and resets; one session, one generation, no clock, cookies set by logins only | nobody waits in a circle or for a lock left behind (`NoDeadlock`); every call returns, those that wait for `authMu` included, unless its client is overtaken at the guard for ever (`CallsReturn`) |
| `writes` | every write, two calls | see `Writes` above: `OneRequest`, `RefusalIsDefinite`, `OneTask`, `SuccessIsReal`, `KnownIdKept` |
| `paging` | 4 rows, pages of 2, limit 3, 2 records, 2 dates, one retry, ints up to 3 | `NoGapNoRepeat`, `Complete`, `CursorAccepted`, the reader implements `Feed` (`ReadsFeed`), `ReadingAdvances`, `ReadingEnds`, and no offset wraps (`TypeOK`) |
| `lists` | 3 strategies or backtests, a folder in the root and one in it, pages of 1 and 2, ints up to 3, two moves or deletions, one failure | `NothingSkipped`, `OneMissedPerMove`, `OnceEach`, `PagesAccepted`, `WalkAdvances`, `WalkEnds`, and no page number wraps (`TypeOK`) |
| `sessions` | the Client, a Client of another account in its process and one of that account in another process; two slots, two values; three calls or cookies, two ticks | `Readable`, `NoLitter`, `Resumes`, and that the file implements `SessionStore` (`Implements`) |
| `revived`, `lost_update`, `dropped`, `missing_id` | the smallest that show them | the four findings below |

Why the bounds are enough: three passwords and three cool-downs reach the
block and, with `MaxTime = 3`, its edge; a second process, a second session and
a second generation are what a lost update, a stale reload or a skipped renewal
needs; a third goroutine is what makes `authMu` and the guard's lock wait for
each other; two calls are what a duplicate needs; with 4 rows, a page may be
full, short or empty before, at and behind the limit, and the fourth row of a
curve wraps the offset; two folders and three rows on pages of two put a row, and a
folder, on either side of a page's end, and let a folder come out of another before or
after that one is read, `MaxInt = 3` lets a product of page and limit
wrap, and two moves let one row be pushed ahead and another be hidden by it; a
third call is what it takes to save, change and save again, and three threads are two
under one mutex and one beside it.  The theorems below hold beyond them.

The views of `MCAuth` leave out what nothing that a run checks can depend on: a guarded
client's `mem` and `loaded` while it does not hold the login lock (`EnterLogin` overwrites
both before anything reads them, and no property reads them there: `RecordFresh` and
the record of a guarded client are about the lock's holder and the guard's copy); of a
generation all but whether it is the one a read observed and how many may follow
(`CallState`); and the history variables the run's properties do not name
(`GuardState` keeps `tries` and `coolUntil`, `LiveState` all).  `WalkState` of `MCLists`
drops how often an item was got once the list has changed, and both `got` and `steady`
after an odd answer, since no property looks at them then.  `writes`,
`missing_id`, `paging` and `lists` have no deadlock check because there the caller
may stop, `sessions` because its calls are bounded.

### Fairness

`calls_return` assumes that a goroutine runs on and that requests end, since
`http.Client` has a timeout (WF on `Proceed`); that `sync.Mutex` starves nobody (its
starvation mode: SF on `AcquireMu`); and of the guard's lock only that it is given to
somebody who waits when it stays free (WF on `AcquireGuard`).  A `LoginGuard` need not be
fair (`login_guard.go:25-31` asks for exclusion, not for turns), so another process may
overtake a call there again and again: that is the one excuse `CallsReturn` has
(`Overtaken`).  Without it, or without any of the three conjuncts, TLC finds a call that
does not return.  Nothing is assumed of `LockFails`, crashes,
expiry, or callers.  `paging` assumes that the reader goes on asking and that
requests end (WF on `Ask`, `Serve`, `Receive`); losses are not fair, but each
uses up a retry, and the task need not end: `ReadingEnds` starts when it has.
`lists` assumes the same of its caller and of requests; JoinQuant's answers may be
as odd as they like, `WalkEnds` holds because page numbers only grow.

### Findings

- `revived`: `do` saves the jar on any answer with cookies, outside `authMu`
  (`client.go:269`).  A Save in flight while `ClearSession` runs puts the cleared
  session back, contrary to the comment at `auth.go:117`.
- `lost_update`: the same Save, by a client that never loaded the row, replaces
  another process's live session; the next login under the guard sends a
  password, contrary to `README.md:82`.
- `dropped`: every guarded call replaces the jar by the row (`login_guard.go:94`),
  also when the jar holds a live session that could not be saved, contrary to
  `README.md:80`.  Without a guard the row is loaded once, and only the cookies a client
  was built with can be there before it: a seeded client loses them in the same way
  (`login_guard.go:88`), any other keeps its session (`UnguardedKeepsSession`).
- `missing_id`: a good answer without its ID is an unknown outcome, unless its
  cookies cannot be saved: then only the persistence error is returned
  (`backtest_write.go:89`), contrary to `BACKTEST_API.md:166`.  Nothing but such a
  Save hides it (`OnlySavesHideMissingIds`).

## Proofs

All are safety and hold for every value of the constants that satisfies the
named assumptions of the module.

`AuthProofs`: `TypeOK` is inductive by itself.  `LoginExclusive` is not: it needs
that whoever is past a lock holds it (`MuHeld`, `GuardHeld`), to which
`RecordFresh` adds that under the lock the record in memory is the guard's; this
is `LocksInv`.  `LoginBudget` needs `RecordInv`: the record never counts fewer
attempts than were sent (a Save that failed "unsure" may count more), is
reserved before the POST and pending after it, and remembers the last cool-down.
From `TypeOK /\ LocksInv /\ RecordInv` follow `BudgetHolds`, `IntentIsDurable`,
`CooldownHolds`, and, action by action, that each step is a step of
`LoginLimiter` or a stutter for every client (`LoginsAreLimited`).

`WritesProofs`: `NetInv` says that request and answer together are one,
`AnswerInv` that an answer goes with what JoinQuant did.  With the case analysis
of `Outcome` (`DefiniteRefuses`, `SuccessReported`, `IdKept`) they give the
theorems; `RefusalsAreDefinite` and `DoneOnce` add `RefusalInv` and assume
`Agreed408`.  `OnlySavesHideMissingIds` assumes that no Save fails.

`PagingProofs`: `NoGapNoRepeat` and `Complete` need to know what an answer on its
way says (`AnswerInv`): unless it shows that it belongs elsewhere (`Plausible`),
it starts at the cursor, and if it makes `Done` true there is nothing behind
it, a claim that survives the task's steps because a task in a final state
takes none.  Counting is split at a row by `BeforeSplit`, and two places with
the same offset differ by uncounted rows only (`SamePlace`).  `Usable` and `Budget`
carry `CursorAccepted`.  Under the same invariant each step is a step of `Feed` or a
stutter (`ReadingImplementsFeed`): `Write` adds a row or none to those that count
(`WriteRefines`), an accepted page takes rows that are there, and one that makes `Done`
true takes nothing from a reader that has all (`AcceptRefines`).

TLC confirms the conjunction `IInv` of these three modules on the instances of
`guard`, `writes` and `paging`.

`AuthProofs` has two more inductive invariants, for instances with conditions on
the constants.  `ClearInv` (one client that is not seeded, no cookies set outside logins) says that
`authMu` keeps the jar empty between the moment ClearSession empties it and the
moment the row is deleted, and that no Save is under way then: `ClearedHolds`.
`RenewInv` (`OneLogin`: a row that can be saved, cookies set by logins only, and
the guard or a single client) says that a renewed session which still lives is
in the row, that nobody who would send a password is past its probe while it
does, and that the jar holds the newest session when it is confirmed and saved:
`LoginsAreNeeded` and `RowNeverGoesBack`.  TLC confirms both invariants on the
instances of `one_client` and `sharing`.

`AuthCallsProofs` is about how calls end.  `MuHeld` and `GuardHeld` say that whoever is
past a lock holds it; `LocksOwned` adds the converse, that a lock is held only by a
call that is still under it, in its own client, which every path, every error and
`Crash` must keep.  From the three follows `NoDeadlock` (`WaitsEnd`): the guard's holder
runs, and the holder of `authMu` runs or waits for the guard's holder, who is in another
client.  `CallsEnd` shows action by action that `StepsLeft`, which counts down from
sixteen, falls with each step of a call and never rises by another's.
`UnguardedKeepsSession` assumes that nobody is seeded and needs `JarLoaded`: a jar that
holds a session was loaded from the row before, so the row is not read over it.  TLC confirms `LocksOwned` and `JarLoaded`
on instances with three goroutines and on that of `one_client`.

`ListsProofs`: the rows `Behind` the walk are those of the folders it has read
and those before the page it asks for next.  `LostInv` counts the ones among them
that stayed and were not found, now and once the answer on its way is in: never
more than `moves`.  It is inductive because an insertion only pushes rows back
(`PushedBack`) and a removal brings one row at most from before a place to behind
it (`MovedUp`).  `One_Missed_Per_Move` and `Nothing_Skipped` follow.  `OnceInv`
says that as long as nothing changes an item is got once if it lies behind the
walk and not at all otherwise, which gives `Once_Each`; `AnswerInv` gives
`Pages_Accepted`.  `PageArithmetic` relates pages to places in a list, `Grows`
and `Shrinks` say where rows stand after an insertion or a removal.

`FileStoreProofs`: `MutexInv` says that at most one goroutine of a process is
between Lock and Unlock, `FreshInv` that as long as no other process overtook it, what
it writes is what the file holds with its own row changed, `TempInv` that its temporary file is its own, `FileInv` that the file is
whole and synced before it is renamed.  Each step is then a step of `SessionStore` or a stutter
(`FileImplementsStore`).

`SessionsProofs` carries this over to the whole: `UsesFile` shows that every
step of `Sessions` is a step of `FileStore` or leaves it alone, so its invariant
holds (`File_Readable`, `No_Litter`, `File_Implements`).  `Session_Resumes`
needs `PlainJar` (a jar of cookies without attributes loses nothing in a
snapshot), `Pending` (what a Save is about to write is what the client gave it)
and `Settled` (after a Save that returned well the file holds that row, unless
something went `astray`).

`CallsAreShort`, `WalkAdvances` and `ReadingAdvances` are the safety half of what should
end.  Each has a measure, a natural number that every step makes smaller.  For a walk
it is the page numbers left in the folders left and the errors left, three steps for each
(`Walk_Advances`; its only hypothesis is that there are finitely many folders).  For the
reading of a task that has ended it is the rows, records and errors left
(`ReadingIsShort`): that the rows left are not negative is `NoGapNoRepeat`, that an
accepted page takes some or ends the reading is `Rejects` and `Done`
(`AcceptAdvances`), and only an answer from before the end of the task, of which there is
at most one, may do neither.

Only model-checked: the liveness properties `CallsReturn`, `ReadingEnds` and
`WalkEnds`.  They follow from the above if steps that can be taken are taken, which
is a matter of fairness and ENABLED, out of the prover's reach.

## Not modelled

- Export status and download, the reads of one answer (`backtest_data.go`:
  stats, source, runtime, profile, risk) and simulated trading: one request and
  pure parsing, no state between calls beyond the session.
- Temporary files a crash leaves behind: nothing in the code reads or removes
  them.
- An edit of a strategy between BuildBacktest's read of the editor and its post:
  what JoinQuant then compiles is its own business
  (`BACKTEST_ENDPOINTS.md:396` calls it unknown).
- HTML selectors, form encoding, number decoding, logging.
- The examples' command lines.

