# Ops Control: specifications

Ops Control prices quotes for a label printer: a Node/Express server that keeps
its data in JSON files (with SQLite as a mirror), a React client, and an
Electron desktop shell. These modules specify the parts of it whose correctness
depends on order: who waits for whom, what is read before something else is
written, what is left after a crash, what two users do to one quote. Paths below
are relative to `src/`.

## The system

| Component | State | Operations | Where |
|---|---|---|---|
| Per-key lock | Map of promise chains in each process; lock files in `$DATA_DIR/locks` | `withLock(key, fn)` | `server/utils/asyncLock.js` |
| Quote store | `quote_history.json`, table `quotes` of `ops.db` | load, save, upsert, find | `server/repositories/quotesStore.js`, `backends/sqliteBackend.js` |
| Quote routes | none of their own | create, update, trash, restore, purge, approve, restore a backup, `/save-all` | `server/routes/costApi.js`, `shared.js` |
| Approval workflow | `state.approval` inside each quote | `transition` | `server/repositories/approvalWorkflow.js` |
| Calculator editing | two calculator states, one `activeQuoteId`, its version, `isDirty`, saves under way | open, copy, new, edit, save, resolve a conflict | `client/src/context/calcReducer.js`, `client/src/modules/cost/tabs/*Calc` |
| Notifications | `pending.json` | enqueue, digest, acknowledge | `server/services/notifications.js` |
| Sessions and logins | sessions in memory, `sessions.json` up to 2 s later; failed-login table | log in, take over, log out, revoke, expire | `server/services/authService.js` |
| Users, permissions | `users.json`, permission groups | create, change, reset | `costApi.js`, `permissionService.js` |
| Quote versions | table `quote_versions` | append with deduplication and retention | `repositories/quoteVersions.js` |
| Audit | ring in a file, hash chain, monthly archives | append, verify, rotate | `auditChain.js`, `auditRetention.js`, `auditStore.js` |
| Libraries | finance rates, drop-down lists, materials, each a JSON file with a version or revision | load all, edit, `/save-all` | `costApi.js`, `LibFinance.jsx`, `LibDDL.jsx`, `CostLibContext.jsx` |
| Desktop outbox and sync | tables `outbox`, `master_cache`, `sync_state` in the desktop's cache | enqueue, ping, push, mark done or failed, pull | `desktop/native/cache.js`, `desktop/smart-client.js`, `server/routes/sync.js` |
| Backups | snapshots on a schedule, copies on a second disk | snapshot, prune, mirror, restore | `backupScheduler.js`, `backupMirror.js` |
| Imports, price calculation, licensing, updates, devices | files and spreadsheets; formulas; external services | | `importPipeline.js`, `calcEngine.js`, `desktop/` |

How they interact. A client loads the quote list, edits one quote on its screen
and sends it back with the `_version` it loaded. The route calls `upsertQuote`,
which takes the lock `quotes`, reads the file, compares the version, writes the
file and then the mirror. An approval goes around `upsertQuote`: it takes
`quote:<id>`, calls `loadQuotes` (the file or the mirror, as configured), saves
the list, and awaits the `notifications` lock while holding its own. Purge,
`/save-all` and the restore of a backup save the list without a lock. Every
write is announced to browser tabs over an event bus on which nothing depends.

What is hard about it:

- a request is interrupted at every `await`, so what was read before a lock was
  awaited may be out of date when it is used;
- several processes may share a data directory (`OPS_MULTI_INSTANCE=1`), and a
  process may die between any two writes;
- two stores hold the same list, and the mirror may lag behind;
- a save whose answer is lost may still arrive, later, or twice;
- one `activeQuoteId` serves two calculators and several saves under way.

The list of hazards, each at its line, is in `PROJECT.json`.

What makes each component correct:

- lock: one `fn` per key and process, in order; lock files exclude across
  processes; nobody waits for ever; no Map entry is leaked or deleted early;
- store: a request that holds its locks takes effect at once on the current list and
  touches no other quote; the mirror converges to the file; a `_version` stands for
  one content; a row without a state appears only where a purge came in between;
- editing: nobody's work is overwritten unseen; an update goes to the quote on
  screen; what is not saved is marked so; a status changes by approval only;
- approvals and notifications: the trail of a quote is in order and complete,
  what is queued is delivered, and twice only for a cause;
- sessions and users: a revoked session stays revoked across restarts, one
  machine per user, what was acknowledged of the user list is what it holds;
- libraries: a save replaces only what its screen showed and changes only what
  its user typed in;
- outbox and sync: an update is applied once at most, what is called done was
  answered, and the watermark of a pull passes no row that did not arrive;
- audit: rotation loses nothing and the chain verifies.

## Modules

| Module | What it is |
|---|---|
| `Mutex` | the promise of `withLock`: one caller per key and process inside |
| `AsyncLock` | `asyncLock.js` itself, shown to implement `Mutex` |
| `QuoteOps` | pure: the quote, the requests, and what each makes of the list |
| `QuoteRegister` | the promise of the store: each request at one instant |
| `QuoteStore` | load, file write and mirror write as separate steps, locks, crashes; shown to implement `QuoteRegister` |
| `QuoteEditing` | clients, saves under way and a server of atomic requests |
| `Approvals` | transitions of quotes with their version rows and notifications, digests, the webhook, crashes |
| `SmartClient` | the desktop's sync engine: outbox, pushes, pulls, crashes |
| `Accounts` | `users.json`, sessions in memory and on disk, the routes that change them |
| `FinanceEditing` | screens that edit the finance rates, and the version check of `/save-all` |
| `..._proofs` | the theorems about the module of that name |
| `QuoteOps_proofs` | lemmas on what a request makes of the list, used for the store and for editing |
| `MC...` | constants and bounds for TLC |

`QuoteEditing` uses `QuoteOps` for its server: each request is one step, which is
what theorem `Linearizable` establishes for one process that reads from the file, and
for several as long as their sections are kept apart.

**AsyncLock.** A call is one invocation. `pc` follows it through the function:
`queued` is `await previous`, `acquiring` the lock file, `run` the body,
`releasing` the `finally` block. `locks` is `_locks`, `prev` the captured
`previous`, `held` the calls with `releaseFileLock # null`, `fileLock` the files.
A call's promise is resolved when it is `done`: `resolveRun()` happens after
`await previous`, so both halves of `previous.then(() => run)` are settled by
then. `ticket` is history. A lock file whose owner is gone may be taken over at
any time: the 30 seconds are not counted. A live owner is taken to refresh its
file in time; the compromised-lock callback is not modelled.

**QuoteOps.** A quote keeps its `_version`, a content (a model value), its
approval status and whether it is in the trash. The list is a function from ids,
`Absent` where there is no row. `Upserts` is the synchronous body of
`upsertQuote` in its three branches; `Transitions`, `Purges` and `Replaces` are
the three routes that write the list themselves; `Refused` is their 404, 400
and 409. A PATCH carries the client's whole state, approval status included,
because that is what the calculators send.

**QuoteStore.** The body of a request from its load to its save is synchronous,
so one process never has two under way (`section`), two processes may. In a
section the file is replaced (`Save`), then the table (`Mirror`); in between and
before, the process may die. `checked` holds trash and restore requests between
their existence check and their turn on the lock. A request may get the lock file
of its key (`Acquires`), but it may also run without one: `withLock` degrades after
its retries (`asyncLock.js:101-113`), without `OPS_MULTI_INSTANCE` it takes none,
and purge and restore of a backup take no lock at all. A section that overlaps
another, and is not kept from it by lock files both hold, is marked `shared`, and so
is the other (`Beside`); it may save a list that is out of date, and the properties
excuse what it does, not what comes of it later. `drift` records that the last file
write did not reach the table, or came from a shared section, and `swept` the ids
whose row went away while a request that had found it waited. `Backend` is
`readBackendName` with strict mode; `Loads` are the lists `loadQuotes` may return;
`FromFile` those of `loadQuotesFromFile`, which answers an empty list when the read
throws.

**QuoteEditing.** `screen` is `activeQuoteId`, `activeQuoteVersion` and
`isDirty`; `slice` what each calculator shows; `call` the save each has under
way: sent, then answered (`saved`, `refused`), then processed, or dropped when
the connection breaks, after which the request may still reach the server
(`adrift`). The conflict dialog covers the page, so nothing else happens to that
client until it is answered. New is two steps: the click (`New`) starts the look-up
of the rate, and the reducer empties the calculator when it ends (`Reset`), whatever
is under way by then; `resets` counts the look-ups. `origin` and `seen` are history: the quote a state
came from and the content its user was last shown. The list a client opens from
is fetched and loaded in one step. The drift banner, which can enable Save on
a clean screen, is left out.

**Approvals.** A transition is saved in one step (`Transition`), then its request
`req` awaits twice: before the version row and before the queue. It holds
`quote:<id>` all the while (`Free`); the queue changes under `notifications`
without an await, so `Enqueue` and `MarkDelivered` are one step. A digest (`run`)
reads the queue without a lock, posts, and marks by id what was posted. The
webhook may take a digest without its answer arriving. The list in `pending.json`
is a set whose ids give its order; the rows of a quote likewise. `moves`, `last`,
`gap`, `posted`, `again` and `excuse` are history.

**SmartClient.** The engine is an event loop: `StartPush`, `Handle` and `Mark` are
the stretches of `push()` between awaits, `Pull`, `Answer` and `Apply` those of
`pullTable`. Outbox, cache and watermark outlive the app (`Quit`), `lastOnline`
and `pushInFlight` do not. The server is the version check of `upsertQuote` on one
quote; a request whose sender has given up may be handled later (`late`). Time
on the server is the number of changes of the table's file; a row is dated by its
own stamp or by the file. Nothing stamps rows on the server, so a stamp is any time
up to that of the change that brought it; the clocks that make stamps are taken to
agree with the server's. A row is stored under its `id`, `_id`, `code` or `name`
(`Keyed`); one without is passed over. No screen calls `enqueueOrSend` yet: the outbox is
reached through the preload bridge, and `Write` is what that helper does.

**Accounts.** A request that reads the user list and awaits a hash keeps the list
it read (`req[r].list`) and writes it (`LoggedIn`, `Created`, `WasReset`);
`updateUsers` reads it again under its lock (`PwdChanged`); the other routes are
one step. `Open` is `createSession`, written when `timer` runs out; `End` is
`deleteSession` and `revokeSessionsForUser`, written at once or refused. `acked`,
`dead` and `unsaved` are history.

**FinanceEditing.** `ctx` is `finance.summary` in the context, `draft`, `touched`
and `dirty` the state of the panel, `loading` and `saving` its requests. `Loaded`
includes the effect that merges what was loaded into the draft, since React
runs it with the render. A tab stays open: leaving it drops the draft.

## Runs

| Run | Instance | Shows |
|---|---|---|
| `lock` | 2 processes, 2 keys, 5 calls, one nested in another, lock files on | `InProcessMutex`, `FileLockExclusive`, `EntryWhileInUse`, `NoDeadlock`, `ServedInOrder`, `EveryCallEnds`, and that `Mutex` is implemented |
| `store` | 2 processes with lock files that may be missed, every kind of request, reads from the file, 2 contents, mirror may fail | `MirrorTracksFile`, `NoGhost`, `EditsBumpVersion`, `OthersUntouched`, linearizability |
| `editing` | 2 patient clients, the standard calculator | `NoSilentOverwrite`, `UnsavedIsMarked` |
| `approvals` | 2 people, 2 transitions and 2 digests at once, 3 transitions in all, a cap of 2 records, 2 version rows | `HistoryInOrder`, `TrailTracksQuote`, `DeliveredWasPosted`, `RepeatHasCause`, `OnlyTheCapDrops`, `EveryoneIsTold` |
| `smart` | 2 updates of a quote, 2 pushes, 2 attempts; 2 pulls of a plain, a stamped and a keyless row, 4 changes of the table | `UpdateAppliedOnce`, `DoneWasAnswered`, `NoDoubleSend`, `NoRowIsPassed` |
| `accounts` | 2 users, 2 machines, 2 requests awaiting, 3 sessions, 2 changes | `RevokedStaysOut`, `OneMachine` |
| `finance` | 2 administrators, 2 sites, 3 edits, 3 saves | `SeenBeforeReplaced`, `UntouchedKept` |
| `store_drift` | 1 process, reads from the mirror, which may fail, post and purge | finding: a landed save is lost |
| `editing_approval` | 1 client, approvals | finding: a save undoes an approval |
| `editing_reset` | 1 patient client | finding: a new calculator is saved over the old quote |
| `finance_typed` | as `finance` | finding: what is typed during a save is lost |
| `accounts_lost` | as `accounts`, no refused writes | finding: an acknowledged role change is lost |

Bounds and why they are enough.

- `lock`: three calls of one key are the least that shows the Map race (one
  ends, one waits, one arrives); a nested call gives the order of two keys; two
  processes contend for one lock file. No call is made twice, so the runs stop
  when all calls are made, which TLC would call a deadlock: `NoDeadlock` and
  `EveryCallEnds` say what is meant instead. The nested call is as in the approval
  route: `notifications` inside `quote:<id>` (`shared.js:441`, `506`).
- `store`: two ids and two versions; `Budget = 4` counts file writes, look-ups, new
  snapshots and sections that start beside another. Four are enough to create a
  quote, find it, purge it while its trash waits and let the trash run; or for two
  processes to edit one quote twice side by side. The two contents let an edit change
  one. The requests sent name the versions a caller can know (`Sent`); each process
  has one trash or restore waiting at a time.
- `editing`: two quotes of three versions. A client's conflict takes two saves and
  its resolution a third (`MaxSent = 3`); `MaxMarks = 1` lets others approve, trash,
  restore or purge once, which with the saves of the second client is enough to
  change what a save under way is about. One request is adrift at a time and one
  look-up of New under way.
- `approvals`: one quote, since quotes only share the queue; three transitions
  and a cap of two make the queue and the version table overflow while a digest
  has the oldest record in hand. `MaxMoves` bounds the run; nothing else counts up.
- `smart`: the second attempt is the last one (`MaxAttempts = 2` for the code's
  five); two updates give a batch of two, two pushes the race of ping and badge. A
  row is saved, pulled, saved again while an answer is on its way, and once more
  after a crash or between two overlapping answers: four changes. A behaviour has
  the outbox or the cache at work (`half`): the two share only `lastOnline`.
- `accounts`: two requests that await are the least that lose a change; a third
  session shows a takeover after a restart.
- `finance`: both administrators edit both sites, and each saves after the other,
  with a conflict and a reload between.
- Bounds are guards of the MC modules or `WithinBounds`; the modules themselves
  are unbounded but for ids and versions. `Ids` and `0..MaxVersion` bound what
  requests can name.
- Processes, contents, clients, pushes, pulls, machines, requests and sites are
  interchangeable (`SYMMETRY` in `store`, `editing`, `smart`, `accounts` and
  `finance`, which check no liveness).

Definitions named `...Fault` are plausible mistakes, one per checked property;
with the mistake in place TLC finds the property violated.

Fairness is stated where the code's scheduling gives it. For the lock: promise callbacks run, `lockfile.lock`
gives up after ten retries (so `AcquireFile \/ Degrade` is fair together, and
neither alone), a body that ends releases, and every body under a lock ends when
the locks it awaits have. The last is an assumption on callers; the ones in the
code do bounded file operations and the nested `withLock`.

For `approvals`: a schedule starts digests (`shared.js:571-572`), and a webhook
and a disk that are asked again and again answer at last (strong fairness of
`Accepted` and `MarkDelivered`). Nothing is assumed of transitions. The other runs
check safety only and assume no fairness.

## What the runs found

1. **A stale mirror overwrites the file** (`store_drift`). With
   `OPS_DATA_BACKEND=sqlite`, which production uses (`costApi.js:755`), purge
   and approval start from the table and save what they read to the file. After
   one failed shadow write, which `quotesStore.js:168-170` calls acceptable
   because the file has the data, that data is lost.
2. **A save undoes an approval** (`editing_approval`): transitions leave
   `_version` alone, and clients send the approval they loaded.
3. **A save takes back what was typed during it** (`finance_typed`). The rate
   fields stay open while a save is on its way; when it returns, the draft becomes
   what was sent and the touched sites are forgotten, although
   `LibFinance.jsx:113-114` promises that unsaved edits survive.

4. **A new calculator is saved over the old quote** (`editing_reset`). New looks up
   a rate before it empties the calculator. When a save starts after the click and
   the look-up ends first, the save's return puts the quote's id back
   (`StandardCalc.jsx:434`) under the empty calculator: what is typed there next is
   saved as an update of the old quote, at the right version, although
   `StandardCalc.jsx:499-500` promises that a new quote is saved as one. No user is
   hasty here: nothing is touched while a save is under way.
5. **An acknowledged change of the user list is lost** (`accounts_lost`). A login
   saves the list it read before its password check (`costApi.js:865-982`), without
   the lock of `updateUsers`, through which every path of the file is said to go
   (`costApi.js:3948-3951`): a role set in between is gone. Creating a user and
   resetting a password do the same.

### Known limits

What reading and checking the code also showed, outside the assumptions under
which the runs pass. No run is kept for these.

- A read of `quote_history.json` that throws counts as an empty list, and the next
  upsert saves its quote alone (`quotesStore.js:111`). `pending.json` is read in
  the same way (`notifications.js:73`).
- The look-up before a trash or restore is to keep ghosts out of the trash
  (`costApi.js:2955-2957`), but it is done before the lock is awaited: a purge in
  between brings the quote back without its state. Run `store` reaches this;
  `NoGhost` says that it takes such a purge, and no more than that is true.
- With several processes, what no lock file keeps apart can lose a save: purge and
  restore of a backup, which take no lock, an approval beside an update, which take
  different ones, and any request that gave up on its lock file and ran without it
  (`asyncLock.js:101-113`). A crash leaves a lock file behind for 30 s, longer than
  the retries last. `OthersUntouched`, `EditsBumpVersion` and the refinement leave
  out the sections this happens to (`shared`).
- A user who opens or starts another quote while a save is under way gets the
  saved quote's id back under it, and the two calculators share one
  `activeQuoteId`: the next save updates the wrong quote, as in `editing_reset`.
  `NoSilentOverwrite` is about updates of the quote their user worked on, and the run
  has patient users of one calculator; what is typed during a save is also unmarked
  afterwards (`StandardCalc.jsx:425`).
- A write queued after a request that broke while pings kept succeeding is not
  pushed before the next change to online or a click (`smart-client.js:91-95`).
- Rows with none of `id`, `_id`, `code`, `name` are never cached, while the watermark
  moves on: `rate_tables`, keyed by `site` (`sync.js:58-61`), is pulled in vain
  although `smart-client.js:37-45` lists it.
- A row whose own stamp is older than the watermark when the file that brings it is
  saved is never sent (`sync.js:114-122`): an imported row, say, or any stamped row
  beside unstamped ones, which move the watermark to the time of the file. A stamp
  ahead of the server's clock would pass plain rows too; the model has none.
- Of two overlapping pulls of one table, the answer asked for earlier may be stored
  last: it puts old rows under an old watermark, and another answer asked for since
  the newer one then takes the watermark past them. `Lapses` names that step and the
  one where the app dies on such an answer; both are needed for `NoRowIsPassed`.
- A queued POST sent twice creates twice; of two offline edits made from one
  version the second is refused with 409 and counted as done; rows deleted on the
  server never leave the cache.
- After a 409 on the finance rates Save stays disabled until something is typed
  (`sgaDirty` is false), whatever the banner says. A finance file that never had a
  version, or one restored from a backup, lets a stale screen's version match.

## Proofs

Everything below is checked by TLAPS for every value of the constants that meets
the assumptions of the modules (`LockAssumption`, `BoundAssumption`,
`QuoteAssumption`, `AbsentAssumption`, `StoreAssumption`, `IdleAssumption`,
`EditingAssumption`, `ApprovalsAssumption`, `SmartClientAssumption`,
`AccountsAssumption`, `FinanceAssumption`: typing of the parameters, and markers that differ from what they mark). TLC evaluates
the same assumptions in every run.

**AsyncLock_proofs.** Mutual exclusion is not inductive: that two calls are never
inside together depends on how the chain hangs together. `LockInv` adds that
tickets are given out once (`TicketInv`), that the Map entry of a key is the
latest call under way on it (`TailInv`), that every call waits for one of its
scope made no earlier than any call before it (`ChainInv`), and that whoever is
inside saw its predecessor end (`InsideInv`). Two calls inside would then have
tickets in some order, the later one would wait for an active one, and yet have
seen it end. From `LockInv` follow `MutualExclusion`, `MapCleanup`,
`FirstComeFirstServed` and, with `HeldInv` for the files, `FileExclusion`;
`Refinement` maps each step to a step of `Mutex` or a stutter.

`DeadlockFreedom` is about locks taken inside locks, where no queue alone helps: it
assumes that nested locks go one way (`NestsDownward`: some `Depth` of keys falls
from a call to the calls its body awaits), as in the routes, where the only nesting
is `notifications` inside `quote:<id>`; in the run `quote:1` has depth 1 and
`notifications` 0. `WaitInv` adds to `LockInv` that a waiting call waits for an
earlier one of its own scope that is under way or has ended: it never waits for
one that died, since the waiters of a process die with it. Of the calls under way
on the least key the one made first can then go on.

**QuoteStore_proofs.** `TypeInvariance` holds for every deployment. `Serialized`
asks that the file can be read, and that either only the routes of `upsertQuote` are
in use, with any backend, or every read goes to the file. It asks nothing of the
number of processes nor of their lock files. `StoreInv` says that
of two sections open together each is `shared` (`AloneInv`), since a lock file that
both would hold keeps the second from starting, and that what a section which is not
`shared` has loaded is still what is stored (`FreshInv`). From it:
`MirrorConverges`, `VersionsTellContents`, `NothingElseIsTouched` and `Linearizable`,
the refinement of `QuoteRegister`, for every section that is not `shared`; in one
process that is all of them. Run `store_drift` shows what happens outside
`Serialized`, and Known limits what a `shared` section may do. `GhostsNeedAPurge`
stands apart: it needs reads from the file only, and has every route, purges and
backups included. `GhostInv` follows a request from its look-up to its write: its
quote is in the file, or its id was swept.

**QuoteEditing_proofs.** Under `Careful`: users leave a calculator alone while its
save is under way, and one of the two calculators is in use. `EditInv` says what a
screen, a save under way, an answer and a late request know about the list. Each
holds a version and a content, and `Known` says that if the version is still the
stored one, so is the content. That survives every step because the list only
`Grows` (no quote is lost, versions never fall, and a change of content raises the
version), but for a purge, after which what was shown has the origin `Gone`, and for
`Reset`, which may empty a calculator at any time and leave it under a quote that is
not its own: what is claimed of an update is claimed for the quote its user worked
on. An accepted update carries a version that `Upserts` found equal to the stored
one, so what it replaces is what its user saw: `NoLostWork`. `UnsavedShows` follows
from the same invariant. Typing (`EditingTypes`) needs neither assumption; run
`editing_reset` shows what fails within them.

**Approvals_proofs.** `TrailInv`: a quote has one transition under way at most, and
it is its newest (`UnderWay`); while its row is due all rows are of earlier
transitions; rows and records are in order (`RowsInv`, `QueueInOrder`); and the
newest row is the newest transition's unless one is due or missing. A new record's
id is larger than every id in the queue and its transition is the quote's newest,
so order is kept; the cap and retention only take records away, and `KeptNewest`
shows that retention never takes the newest row. `MarkInv` is for the marks: an id
that a digest holds means the same notification in the queue (`HeldGood`). Since
ids are given out as maximum plus one, that needs the newest record to outlive the
cap (`NewestStays`), so that a digest never holds an id newer than the queue.

`IdsInv` says that ids are given out once. With it and `MarkInv`, `NothingElseDrops`:
what the cut takes has a cap's worth of newer ones among what is kept, even when a
batch pushes out several at once (`NewestLeaves`: of all that is taken, look at the
newest), and what a mark takes was sent. `OnceInv` is for repeats. `KeyInv` follows a notification
from its transition to its mark: a transition that may still tell somebody has told
nobody (`Unused`), and a recipient of a transition has one id, in the queue and in
every digest. `Quiet` says that until something excuses a repeat one digest runs at a
time, has not sent what it is about to send, and what was sent and still waits is
what it is about to mark. `IdsInv` (an id, one record) and `KeyInv` (a notification,
one id) give `OneRecordEach`, whatever crashed, failed or overlapped.

**SmartClient_proofs.** `OutboxInv`: items have an id each and fewer attempts than
the limit while pending; what a push has left is pending, one push at a time under
the flag; what was answered is what the push has in hand. `Spent`: an update that
was applied carries a version below the server's, so its repeat is refused. For
pulls, `CacheInv`: what an answer lacks of the plain rows is newer than its own
watermark, and what it has is what the file has or the file is newer (`Covers`); no
watermark is ahead of the file. `PullsPassNoRow` follows for any number of pulls: an
answer that is stored takes the watermark to its own time, and a row it did not bring
is newer than that, unless the answer was asked for since a watermark that has moved
back (`Lapses`). The types (`TypeInvariance`) do not need this.

**Accounts_proofs.** `SessionsGood` relates memory and disk: each token is given out
once, live sessions were not ended, those on disk that were ended are the ones
whose end was not written, and the sessions of a user, live or on disk, are on one
machine. A restart swaps one for the other. `ResetsInv` types the pending resets.

**FinanceEditing_proofs.** `Knows`: rates loaded with a version are the file's if the
file still has that version. Every context, load and save knows its rates in that
sense, a draft agrees with the context wherever its user has not typed, and a save
with what it began from. A save is taken when its version is the file's, so what it
replaces is what it began from.

**Model-checked only.** `EveryCallEnds` and `EveryoneIsTold`: they are liveness under
fairness, which the provers do not reach. Every other property of a passing run is
stated by a theorem, under the assumptions named above. The properties whose
violation is a finding have none, of course; but `NothingElseIsTouched` says where
the one of `store_drift` holds.

## Not modelled

- Price formulas, spreadsheet imports, licensing, updates, devices: data or
  external services more than control.
- The event bus: nothing depends on it. Schedules of backups: timers and copies.
- Audit log, hash chain and rotation: one writer, no interleaving; the hazards of
  rotation (archives that fail, a ring that is not trimmed) are in `PROJECT.json`.
- `/save-all` with several datasets, the drop-down lists and their revision, and the
  quote history sent through it.
- Second factor, lockout counters, expiry of sessions, profile fields, permission
  groups, rate limits: counters and fields of one request each.
- Undo history of the calculators: a pure stack in one reducer.

## Order of work

The core came first: `AsyncLock`, the quote store and the editing of quotes. On top
of it `Approvals`, then the modules that stand alone: `SmartClient`, `Accounts`,
`FinanceEditing`. What would come next: `/save-all` with several datasets and the
drop-down lists, whose screen repeats the protocol of `FinanceEditing` without its
merge; the audit rotation; a quote store that takes its locks from `AsyncLock` instead
of stating them as `Acquires`; and statements about two calculators and impatient users
that the code keeps, where `Careful` is now assumed.
