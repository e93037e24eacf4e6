# A verification development for ogs-swg

ogs-swg is a web panel that administers a sing-box proxy and a WireGuard
interface on one host: a Go process (`core/`, `api/`, `main.go`) with an HTTP
API, an SQLite database, and a React frontend. This directory holds TLA+ models
of its core logic, the TLC configurations that check them, and TLAPS proofs.

Run `tlc -config X.cfg M` for a pair of the table "Runs" below and
`tlapm M.tla` for the modules named `*Proofs`.

## 1. The system

| Component | State | Operations | Where |
|---|---|---|---|
| sing-box configuration file | the JSON file, its `.bak`, `SingboxPendingChanges`, the mutexes `configMu` and `Config.mu` | read-modify-write of inbounds and users, raw replacement, apply, backup, restore | `core/singbox_config.go`, `core/config.go`, `api/handlers_extra.go` |
| inbound administration | `ManagedInbounds`, `StatsInbounds`, `config.json`, table `inbound_meta` | add, update (rename), delete, sync at boot | `core/singbox_config.go`, `core/config.go`, `api/handlers_singbox.go` |
| user accounts | the `users` of inbounds, table `users`, `experimental.v2ray_api.stats.users` | create, update, rename, disable, delete, bulk create, per-inbound edits | `core/config.go`, `api/server.go` |
| traffic sampler | `last`, users cache, `paused`, mutex | ticker, run now, pause, resume | `core/stats_sampler.go`, `core/singbox_client.go` |
| traffic tables | `samples`, `daily_usage` | bulk insert, prune, compress, report | `core/store.go`, `api/server.go` |
| WireGuard file and peers | `wg0.conf`, table `wg_peers`, `wgPendingRestart`, QR cache | create, update, delete, restore peer, raw edit, `wg syncconf` | `core/wireguard.go`, `api/handlers_extra.go`, `api/server.go` |
| WireGuard traffic | `wgLast`, `wg_samples`, `daily_wg_usage` | sampler, prune, compress, buckets, totals | `api/server.go`, `core/store.go` |
| legacy calculator and watcher | log offset, last totals, 60-point history | poll, process | `core/calculator.go`, `core/watcher.go`, `core/stats.go` |
| dashboard | 15 s cache, chart buckets | get | `api/handlers_dashboard.go` |
| admins | table `admins`, tokens | login, change name or password | `api/auth.go`, `core/store.go` |
| logs | none | tail, search with pages | `api/server.go` |
| frontend: sign-in | the token in the state of each tab and in `localStorage`, the route | login, logout, 401, reload | `context/AuthContext.tsx`, `Login.tsx`, `ProtectedRoute.tsx`, `api.ts` |
| frontend: user page | list, selection, form, modals, link cache | save, bulk create, delete, remove from inbounds, show link | `UserManagement.tsx` |
| frontend: dashboard, logs, preferences | range, data, banner; tail and search; `dashboard_prefs` | select, poll, apply, search, save | `Dashboard.tsx`, `LogViewer.tsx`, `Settings.tsx` |
| frontend: configuration pages | texts with their originals, rules, the inbound list and form | load, edit, save, backup, restore | `SingboxConfigEditor.tsx`, `singbox/*`, `RawConfig.tsx` |
| frontend: WireGuard page | peers, forms, QR codes | the operations of `WireGuardPeers` | `WireGuard.tsx` |

**How they interact.** Each HTTP request runs in a goroutine of its own. Two
tickers (the sampler and the WireGuard sampler) and the maintenance goroutine run
beside them. They share the configuration files, the `Config` structure, the
database (one connection, so a statement or a transaction is atomic, a
sequence of statements is not) and two external processes, sing-box and
WireGuard, which read their files when they are restarted. The frontend, which
runs in the browsers of the administrators, knows all of this by calls only: none
carries a version of what it was made from, none is cancelled, and an answer is
applied to whatever the page has become.

**What is hard.** No request is serialised with another except by the mutexes
above, and not every path takes them: copies of files take none, the lists are
read without one. File writes truncate first. The pending flag, the last
counters and the users cache live in memory and die with the process. sing-box
restarts reset its counters. Retention, compression and reports touch the same
rows in separate statements. On a page the state a handler read at the click is
old when its call is answered, answers come in any order, React runs the effects
of a commit after it, and tabs share one `localStorage`. The code's hazards, each at its line, are listed
in `PROJECT.json`.

**What makes it correct**, per component:

- configuration file: no edit is lost; an editor that writes alone leaves a whole
  file to readers, unless its write fails; when
  sing-box runs something else than the file says, the panel says so; nobody
  waits for ever;
- sampler: no byte is counted twice, none is invented, the users are those of
  the file, a pause is obeyed;
- tables: compression conserves what was recorded, retention deletes only what
  is old enough, a report counts a row at most once and within its window;
- accounts: one entry per name and inbound, sing-box counts whom it admits, a
  request that succeeds has done in file and metadata what it was asked for;
- WireGuard: no peer is lost, no address is given twice, the interface follows
  the file or the panel says that it does not;
- sign-in: a token is on display, stored or about to be dropped, never forgotten
  in the browser; a dead session ends, a fresh one does not;
- pages: what is on display ends up being what the server has and what is
  selected; a save writes what the form says and no more; no spinner stays.

## 2. Modules

| Module | Models |
|---|---|
| `SingboxConfig` | the sing-box file and its roll-out |
| `StatsSampler` | the traffic sampler with the file, the lists and the sing-box counters around it |
| `UserAccounts` | the user handlers: edits of the users in the file, the list of counted users, the metadata table |
| `TrafficLedger` | abstract: rows are recorded, kept, forgotten by age |
| `TrafficStore` | `samples` and `daily_usage`, maintenance, prune now, reports; implements `TrafficLedger` |
| `WireGuardPeers` | the peer handlers over `wg0.conf`, the kernel's interface, the pending flag and `wg_peers` |
| `Session` | the tabs of a browser, their tokens, routes, effects and calls |
| `UserPage` | the user page with two handlers at a time, over what the calls do to file and table |
| `FailingCalls` | a call of a page that fails, bounded; declared once for the next three |
| `DashboardPage`, `LogPage`, `LinkModal` | one page (or modal) each |
| `Panel` | composes these three, the routes between them and the preferences of the settings |
| `ConfigFiles` | the two files, the calls on their way and the answers, as the configuration pages see them |
| `ConfigEditor` | the editor of the settings: text, rules, inbounds |
| `ConfigPages` | composes the editor with the raw page of a second administrator |
| `MC*` | definitions for TLC: requests, windows, symmetry sets |
| `*Proofs` | the theorems of the module of that name; `SessionPanelProofs` those of `Session` and of `Panel`, the pages behind the sign-in |

### SingboxConfig

An element of `Handlers` is a goroutine that serves one request at a time; `pc`
says where in its handler it is. `file`, `backup` and `running` (what sing-box
runs) hold a *content*, the set of inbounds of a whole file, or a sentinel:
`Empty` for a truncated file, `Torn` for a text cut short or two texts over each
other, `Missing`, `Down`, `Starting`. An inbound is its tag and port, the two
fields that the code's checks look at.

| Action | Code |
|---|---|
| `RequestEdit`, `LockAndModify`, `RejectEdit`, `TruncateFile`, `WriteFile`, `WriteFails`, `MarkSingboxPending` | the inbound handlers and raw replacement; `ModifySingboxConfig`, `UpdateSingboxConfig`, from taking `configMu` to releasing it |
| `RequestApply`, `ReloadSingbox`, `ReloadFails`, `ClearPending` | `ApplySingboxChanges`, which holds `Config.mu` while systemctl runs |
| `BeginBackup`, `FinishBackup`, `BeginRestore`, `FinishRestore`, `CopyFails` | the backup and restore handlers and `copyFile`, without a lock |
| `StopService`, `StartService`, `SingboxLoads` | the service buttons; sing-box reads its file some time after it was started |
| `PanelRestart` | the process dies at any point: mutexes and flag are gone, files stay |

Reading, modifying and validating are one step: they change nothing that others
see, and the mutex is held. The write is two steps because a reader without
the lock, a crash or a failure may come between, and another writer: `os.WriteFile`
and `copyFile` truncate and then write at an offset of their own, so a restore that
overlaps an editor or another copy leaves the later text, or that with the rest of a
longer one behind it (`Over`). `RejectEdit` may end any
critical section before its write: `sing-box check`, an external program, may
reject anything. The history variable `origin` says who last touched the file, and whether two
did at once (`"mixed"`), so that a property can speak of what the editors guarantee
and leave out the restore, which guarantees nothing (section 3 says so).

### StatsSampler

`Runners` are the goroutines in `sampleOnce`: the ticker and any number of "run
now" requests. A run is `StartRun` (lock, the test of `paused`, the clock, `Stat`),
`LoadUsers` when the modification time is new, `QueryUserStats`, and
`StoreDeltas`; `GiveUp` is every early return. The insert is a transaction that
may fail, and rows of a user and second that exist are ignored. Around it: sing-box moves bytes and restarts, users and inbounds
are edited (a rename is two steps, the file and then the lists), the clock
moves in both directions, the panel restarts. A row carries as history which
stretch of which sing-box process's counter it stands for.

### UserAccounts

The file is the set `users` of entries (name, inbound, credential) and the list
`stats` of the users whom sing-box counts; `meta` is the table `users` of the
database. A request is the sequence of steps its handler in `api/server.go`
takes; each edit of the file is one step, since it holds `configMu` from read to
write, and each database statement is one step.

| Action | Code |
|---|---|
| `Begin` | decoding and field checks of the six handlers |
| `AddUser`, `BulkAdd` | `AddUser` of `core/config.go`, in a creation, in a bulk creation, and as the last resort of an update |
| `LookUp`, `RemoveOld`, `RemoveNew`, `UpdateUser` | `handleUpdateUser`: the metadata when `enabled` is not given, removals (their errors ignored), `UpdateUser` |
| `RemoveUser`, `RemoveUserFromInbound`, `UpdateUserInInbound` | the methods of those names |
| `SaveMeta`, `ForgetMeta`, `BulkSave`, `ReadMeta`, `WriteMeta` | `SaveUserMetadata`, `DeleteUserMetadata`, `GetUserMetadata` where the handlers call them |
| `Answer` | the success status |
| `EditInbound`, `PanelRestart` | the inbound editors and raw replacement, which replace an inbound's users; the process dies between any two steps |

Every step may fail, as each call returns an error; what the handler does then
(stop, ignore, fall back) is in the action. The history variables `alone` and
`byHand` say whether anyone or any failure came between the steps of a request,
and whether the file was edited otherwise since `stats` was last set.

### TrafficLedger and TrafficStore

A recorded row is a record with an identity; a sum in `daily_usage` is the set of
rows it adds up. That makes "a byte is lost" and "a byte is doubled" visible as
a row in no place or in two. `BulkInsert`, `PruneOlderThan` and
`CompressOldSamples` are one statement or transaction each. The maintenance
goroutine sleeps, prunes and compresses with the settings it finds at each
step. A report is two queries with anything between them. A number of days becomes
a `time.Duration`, an int64 of nanoseconds, and wraps as that does (`Wrap`, `Cutoff`;
`Limit` is 2^63 ns in clock units); the history variable `age` is the number of days
the last deletion was asked for. The ledger lets a deletion forget what is older
than its days where these fit a duration (`Fits`), and anything where they do not.

### WireGuardPeers

`file` and `running` (the kernel's interface) are configurations: the address of
the interface and a set of peers, each a key and its first allowed address.
`cfg[h]` is the copy that a handler has loaded, `pending` the flag
`wgPendingRestart`, `meta` the table `wg_peers`. Nothing is locked.

| Action | Code |
|---|---|
| `Ask` | the request and its field checks; a raw replacement and the copying of the `.bak` bring their content with them |
| `LoadToCreate`, `LoadToRestore`, `LoadToUpdate`, `LoadToSetInterface`, `LoadToDelete`, `Refuse` | `LoadWireGuardConfig`, the checks and the change of the copy; `usedIPs`, `findAvailableIP` |
| `RemovePeer` | the delete handler: the row of the table, then the peer of the copy |
| `Truncate`, `WriteSome`, `FinishSave`, `FinishSharedSave`, `TruncateFails`, `WriteFails` | `Save`, `os.WriteFile` and `copyFile`, in steps that others may read and interrupt |
| `RecordPeer` | `UpsertWGPeer` after a creation or restore, its error ignored |
| `ReloadFile`, `SyncConf`, `SyncFails`, `ClearPending`, `MarkPending` | `syncWireGuardConfig`, `writeSyncConf` and the flag |
| `Systemctl`, `SystemctlFails` | the service buttons; a restart clears the flag |
| `LoadToList`, `ListPeer`, `ListEnds` | the list of peers, which writes a row for each |
| `Reply`, `PanelDies` | the answer 200; the process dies and the flag with it |

A file that is being written shows some of its peers, the last perhaps cut short
after its key or before it (`Begun`). Two saves that overlap write at offsets of
their own, and what they leave is any mixture of their lines (`Mixtures`), except
that entries that lack a line are left out. Where the order of the peers
decides which of two wins, both outcomes are possible. That an alias is there
already is one of the reasons for `Refuse`, which may always happen. The history
variables: `seen` is the file as the handler loaded it, `alone` says that
nobody and no failure came between its steps, `shared` holds the handlers whose
saves overlap, `unchecked` is set when a restore, a raw file or a mixture brings
in peers that no check has compared.

### Session

A tab has the token last set (`token`), the one of its last commit (`shown`), and
whether the effects of that commit have yet to run (`due`). `Commit`,
`StoreEffect`, `LeavePanel` and `EnterPanel` are React's: the state is applied, the
effect on `[token]` stores or removes it, the routes redirect (together `React`).
The route (`page`) is the login, a page that polls, or one that calls only when it is
used (the settings, the raw configuration, and the log in search mode, whose interval
runs in tail mode only); `Browse` is the menu and the switch of the log's mode. `Submit`,
`LoginAnswer`, `SignOut`, `Reload` are the user's and the server's part of signing
in and out; `Send`, `Serve`, `Receive` a call of a page, with the token from
`localStorage` and an answer that may end the session (one that does not is gone
when the call is served); `Expire` the 24 hours or
another secret. Tokens are issued once each. The effects of a child run before
those of its parents, so a page's first calls would precede the storing of the
token; that they do not is because the routes mount the page a commit later
(`EnterPanel` needs `~due`).

### UserPage

`file` and `meta` are what the server has, reduced to the flow of each entry, and
`off` is the users it has as disabled, among them such as are in the file all the
same (`DisabledIsSynced` below); `users` and `disabled` (the list), `selected`,
`modal`, `form` are what the page shows. A handler (`job`) is the
list of calls it has yet to make, computed from the state it read at the click:
`SaveEdit`, `SaveNew`, `BulkCreate`, `DeleteRow`, `RemoveFromInbounds`,
`ConfirmDelete` start one, `Serve` or `Fail` is its next call with the server's
part, `Finish` what it does at the end, to the page as it is then. `Fetch`,
`ServeList`, `LandList` and `EditClick`, `ServeInbounds`, `LandInbounds` are the
two reads whose answers come late. `Other` is another administrator. History:
`want` and `clean` of a job, `loaded` of the form, `spoiled`.

### DashboardPage, LogPage, LinkModal, Panel

Each page is its state, its calls in slots (asked, then answered), the acts of the
user, and the answers. An answer carries the range, the filter or the inbound it
was asked for, and lands whatever is selected by then; an effect that follows a
commit at once is part of the step of that commit. `Panel` has one route on
display: leaving a page drops its state and its answers. The settings read
`dashboard_prefs` into a form (`LoadPrefs`, `ChangeHistory`) and write it
(`SavePrefs`); the dashboard reads them at its mount (`Preferred`), when the first
fetch is already started with the default range.

### ConfigFiles, ConfigEditor, ConfigPages

A call is a record of what is asked and what the page asks it for; `Serve` does it
and answers with the file as it is then, `Fail` is a refusal or a loss. The
*versions* (`writes`, `textAt`, `listAt`, `rawAt`) are history: the code has none.
`ConfigEditor` has an action for each control and one, `Land...`, for each
answer; unmounting the list of inbounds drops its reads, not its writes
(`Unheard`). `saveRules` is three steps, the read (`SaveRules`), the merged write
(`LandMerge`) and the load after it (`LandSaveRules`). `ConfigPages` adds the raw
page, which guards nothing.

## 3. Runs

| Run (cfg) | Checks | Bounds | Result |
|---|---|---|---|
| `SingboxConfig` | `TypeOK`, `PendingCoversDrift`, `TornOnlyUnderLock`, `NoLostEdit`, and `RequestsAreAnswered` under `FairSpec` | 2 handlers, 2 tags, 1 port, 5 requests | holds |
| `StatsSampler` | `TypeOK`, `NoByteCountedTwice`, `CountedBytesWereMoved`, `CacheFollowsFile`, `PauseIsPrompt` | 1 user, 2 tags, 2 runners, 2 seconds, 3 bytes per process, 2 sing-box processes, 1 edit | holds |
| `UserAccounts` | `TypeOK`, `OneEntryPerInbound`, `ConnectedAreCounted`, `AloneMeansDone` | 2 handlers (symmetric), 2 names, 2 credentials, 2 managed inbounds of different types and 1 that is not managed, 13 requests | holds |
| `DisabledIsSynced` | a comment of `api/server.go`, under `HandlersOnly` | 1 handler | violated |
| `TrafficStore` | `TypeOK`, `EveryRowHasOnePlace`, `ReportCountsOnce`, `ReportStaysInWindow`, `LedgerSpec` | 2 users (symmetric), 1 reader, 2 rows, clock 0..4, bucket 2, day 2, 2 days, a duration of 3, 2 windows of each user | holds |
| `WireGuardPeers` | `TypeOK`, `PeersAreDistinct`, `AloneMeansDone` | 2 handlers (symmetric), 2 keys, a network of 2 hosts, 2 requests of 15, 3 files to begin with | holds |
| `AddressesAreUnique` | an error text of `api/handlers_extra.go`, under `HealthySpec` | 1 handler, 3 requests | violated |
| `Session` | `TypeOK`, `StoredIsHeld`, `BareCallsFollowRemoval`, `DeadSessionEnds` | 2 tabs, 2 tokens, 1 call of a tab in flight, 1 reload | holds |
| `UserPage` | `TypeOK`, `JobIsExact`, `SaveKeepsEntries`, `ListIsRight`, `SelectionTakesOneEntry` | 2 users, one of them perhaps disabled, 2 inbounds, 2 handlers (symmetric), 4 clicks, 1 failure or foreign edit, 2 lists in flight | holds |
| `Panel` | `PanelTypeOK`, `SpinnersEnd`, `LinkSettles`, `OpensAsSaved`, `DashboardCatchesUp`, `TailCatchesUp` | 3 ranges, 2 refresh intervals, 2 calls of a page in flight, 1 term, 2 pages of results, 2 users with 2 and 1 inbounds, 1 failing call; clicks unbounded | holds |
| `ConfigPages` | `TypeOK`, `ShownIsServed`, `SavesAreExact` | 2 tags, 1 user, 3 texts of WireGuard, 2 rules, 4 clicks of two administrators or failures | holds |
| `OtherRulesUnchanged` | a text of the rules tab | as before, 2 clicks | violated |

**Why the bounds are enough to be of interest.** Two handlers let an editor overlap
an apply, a copy or another editor, and serve any number of requests one after
the other; two tags on one port make duplicates, renames and port collisions all
happen. Two runners contend
for the sampler's mutex and two seconds with a clock that may step back make
duplicate timestamps happen; three bytes let a counter be split in three rows.
Two requests with every order of their steps make each window of an account
handler hit; two names are a rename's, the third inbound is what
`findManagedInbounds` must not touch, and the requests take every path of the
handlers. In the store, days and buckets of two units put a cutoff inside a bucket at odd
clock values, so that a bucket is compressed in two parts; two rows are enough
for a sum and its late addition; one day fits a duration of three units and two
days wrap, to a cutoff in the future. In `WireGuardPeers`, two hosts and the two ends of the network are the least in
which a network is full, an address outside the hosts is asked for and the
interface's address collides; the files to begin with are an empty one, one
with the interface and a peer, and one without an interface address; two
overlapping requests reach every load of a file half written and every
overlap of two saves. In `Session` the second token is that of the session which
follows while calls of the first are under way, and the second tab is the one that
stores or removes behind the first one's back. In `UserPage` one user is in both
inbounds and one in one of them, so that a save has entries to remove, keep and
create; four clicks are opening a form, changing it, saving, and one more act while
the save runs. In `Panel` two calls in flight are what lands in the wrong order,
and an unbounded number of clicks lets every page be left and mounted again. In
`ConfigPages` four clicks are an inbound opened, changed twice and saved, or one
administrator's edit and save within the other's; the file has a rule that names
two inbounds and one that is not simple. The theorems of section 5 hold without
any of these bounds.

`CHECK_DEADLOCK` is on, but for `AddressesAreUnique`, where under `HealthySpec` the
number of requests is bounded and nothing else happens, and for the runs of
`UserPage` and `ConfigPages`, where nothing is left to do when the clicks are used
up.

**Violations.** These runs state what a comment or a text of the repository says,
and TLC shows a behaviour of the code that differs; `PROJECT.json` quotes the
line.

- An update that *disables* a user ignores the error of the removal and answers
  with success: the metadata says disabled, the user can connect
  (`DisabledIsSynced`).
- A *restored* peer gets the address it is sent, although another may have been
  given it meanwhile (`AddressesAreUnique`).
- Saving the *rules* of the editor just as they were loaded puts the rules it does
  not know in front of the others (`OtherRulesUnchanged`). It also drops all inbounds
  of a simple rule but the first, of which the quoted text says nothing.

The models follow the code in more places where a text says otherwise; these have
no run of their own:

- A *restore* rewrites the sing-box file while sing-box runs the old one, and no flag
  is set, which `core/config.go:627` is there for (`FinishRestore`). It takes no lock
  either: overlapping an editor's write it may leave one text over the end of a longer
  one, which no reader can parse, after the editor has answered (`Over`).
- `README.md:106` says that `retention_days` are kept. From 106752 days on, in the
  settings or in a "prune now", their nanoseconds wrap: the cutoff may lie in the
  future, and rows of today are deleted (`Cutoff`). Of such numbers of days the
  ledger promises nothing.
- A *late answer* of the user page lands in the form as it is then: over the flows that
  have been chosen meanwhile, and in the form of another user (`LandInbounds`). A user
  shown as disabled who is in the file is removed from it by a save of the untouched
  form (`SaveCalls`). A list that is out of date stays until the next handler or a
  reload: the poll of `UserManagement.tsx:167` fetches the pending flag alone
  (`LandList`).
- A *Refresh* of the text that was served before a save and answered after it leaves
  the old text in the editor, with Save disabled (`LandText`).
- The users cache of the sampler is keyed by the file's time only. A run between the
  two steps of a *rename* caches a list without the users of the renamed inbound,
  which is reused until the file is written again: their traffic is not recorded
  and their last counters are deleted, though `core/stats_sampler.go:155` speaks of
  users that are no longer active (`StartRun`, `LoadUsers`, `RenameInFile`).
- A *compression* between the two queries of a report hides the rows it moves; the
  comment at `core/store.go:1317` expects the opposite, an overlap, which
  `ReportCountsOnce` excludes (`QueryDaily`, `QueryRaw`).
- A handler whose `wg syncconf` succeeded *clears the flag* that another has set for a
  change that the kernel has not got (`ClearPending`).
- A save that ends on the user page closes whatever form is open by then
  (`Finish`), and the link of the user shown before may appear in the modal of the
  next, whose cache is keyed by the inbound alone (`LandLink`).
- The form of an inbound starts with the transport switched off whatever the file
  says, so that a save of an untouched form removes it (`EditInbound`).
- The raw page writes an empty `wg0.conf` when Save is clicked on the WireGuard tab
  before it is loaded (`RawSave`).

- `core/singbox_config.go:47` says that a raw replacement restarts the service; it
  marks the change as pending (`MarkSingboxPending`).
- The banner of `Dashboard.tsx:179` stays after the restart button has loaded the
  file (`StartService` leaves `pending` alone).
- `api/server.go:1005` says that a bulk creation without an inbound tag means all
  managed inbounds; `AddUser` refuses it, and the metadata is saved as enabled
  (`BulkAdd`, `BulkSave`).
- A creation reserves the interface's address (`api/handlers_extra.go:255`); an
  update reserves the network's and may give the interface's away (`MayTake`).
- A new address of the interface is not among what `wg syncconf` sets, and the
  flag is cleared all the same (`SyncConf`, `ClearPending`).
- Copying the WireGuard `.bak` back neither syncs nor sets the flag (`AfterSave`).

## 4. Fairness

Safety is checked and proved without fairness, or without using it where the
specification states some (`Session`, `Panel`). `FairSpec` of
`SingboxConfig` assumes strong fairness of `Serve(h)` for each handler: a
goroutine that can go on does, and a waiter for a Go `sync.Mutex` that is free
again and again gets it (after 1 ms of waiting the mutex is handed to its oldest
waiter). Nothing is assumed of clients, of the service buttons, of sing-box or
of a panel restart. systemctl is assumed to return, with success or failure.

`Session` assumes of each tab that React commits, runs effects and redirects (weak
fairness of `React`), that calls are answered and answers handled, and that a page
that polls goes on polling (strong fairness of `Poll`): the dashboard and the tail of
the log do every `refreshInterval`, WireGuard every 5 s, the users every 10 s, for the pending
changes and so by a call whose 401 counts. The settings, the raw configuration and
the log in search mode (`LogViewer.tsx:44-51`) do not poll: a tab that stays there
may stay signed in with a dead session until its next call, and `DeadSessionEnds`
excepts it. Nobody has to sign in, sign out, reload
or browse. `Panel` assumes that answers land and that the intervals of the
dashboard and of the tail tick (strong fairness: other calls of the page may take
the slots each time). `UserPage` and `ConfigPages` state safety only.

## 5. Proofs

All theorems hold for every value of the constants under the modules' named
assumptions (sentinels are distinct from data, bounds are natural numbers, the
bucket and the day are not empty, the users and inbounds of a page are finitely
many, a page has slots for the calls its mount starts, a user of the link modal has
an inbound, the files hold configurations at first). What the rules of a file name is an
assumption of that kind: each names an inbound at least (`Rule`).

| Module | Theorem | Property |
|---|---|---|
| `SingboxConfigProofs` | `TypeCorrect`, `PendingCovers`, `EditorsLeaveWholeFiles`, `EditsAreNotLost` | the four invariants of run `SingboxConfig` |
| `StatsSamplerProofs` | `TypeCorrect`, `RowsAreDisjoint`, `RowsAreReal`, `CacheIsCurrent`, `PauseHolds` | the five properties of run `StatsSampler` |
| `UserAccountsProofs` | `TypeCorrect`, `EntriesAreUnique`, `CountsAreCurrent`, `SuccessMeansDone` | the four invariants of run `UserAccounts` |
| `TrafficStoreProofs` | `TypeCorrect`, `RowsHaveOnePlace`, `ReportsCountOnce`, `ReportsStayInWindow` | the four invariants of run `TrafficStore` |
| `WireGuardPeersProofs` | `TypeCorrect`, `DistinctPeers`, `SuccessMeansDone` | the three invariants of run `WireGuardPeers` |
| `TrafficStoreProofs` | `ImplementsLedger` | the refinement `LedgerSpec` |
| `SessionPanelProofs` | `TypeCorrect`, `StoredIsAlwaysHeld`, `BareCallsAlwaysFollowRemoval` | the three invariants of run `Session` |
| `SessionPanelProofs` | `PanelTypeCorrect`, `SpinnersAlwaysEnd`, `LinksAlwaysSettle`, `DashboardOpensAsSaved` | the four invariants of run `Panel` |
| `UserPageProofs` | `TypeCorrect`, `JobsAreExact`, `SavesKeepEntries`, `ListsAreRight`, `SelectionsTakeOneEntry` | the five invariants of run `UserPage` |
| `ConfigPagesProofs` | `TypeCorrect`, `ViewsAreServed`, `SavesChangeNoMore` | the two invariants and the action property of run `ConfigPages` |
| `ConfigPagesProofs` | `MergedRules` | of the merge alone: for all rules and rows, what is kept and what is loaded again |

**SingboxConfig.** The invariants are not inductive by themselves. The
strengthening says where the owner of each mutex is (and that a handler inside a
critical section is its owner), that a handler that has the file open for writing
is seen by the next one that opens it (`WritersAreSeen`), so that a text not whole is
that of a handler still writing, of a failed write, or of a copy (`TornIsBeingWritten`), and that a drift with the flag
down is possible only while an apply is under way with sing-box starting.

**StatsSampler.** Two rows of a user are disjoint because every row ends at or
below the last counter of its process: `last` bounds the rows of the newest
process that was stored, and the process a run has queried is never older than
that. Both need that at most one run is between its query and its store, which
is the mutex. The cache is current because the modification time is taken
before the read, and every write moves it.

**UserAccounts.** Types need to know which kind of request is at which place
(`Kinds`). Entries stay unique because every step removes some, rewrites some in
place, or adds one after the test for its name. The counted users stay current
because the one modifier that does not sync them changes no name. That a
success means done is the last conjunct of `Progress`, which says for each place
in a handler what has been achieved as long as nobody came between: any step of
another resets `alone`, so only a handler's own steps have to be looked at.

**TrafficStore.** A row's identity is fresh when it is recorded; each bucket
holds rows of its own user and interval, so buckets are disjoint and a
compressed row goes to exactly one. A report never counts twice because rows only
move from `samples` to `daily_usage`, and `daily_usage` is read first.
The refinement maps both tables to one set of kept rows; compression maps to a
stutter, and the cutoff of days that fit a duration is that many days ago
(`CutoffOfDays`).

**WireGuardPeers.** Typing needs that a handler at a place of the peer handlers
holds a request with a key, and one with an address where it is used. With that,
`PeersAreDistinct` is inductive: it speaks of the file, the kernel and every
handler's copy at once, and each of these is only ever set to another of them, to
a beginning of a copy (what is left of a distinct list is distinct), or to a copy
changed by one peer after the check of its key and address. `AloneMeansDone` is
the last conjunct of a `Progress` as in `UserAccounts`; what the copy must be at
its save is `Wanted`, and what the file and table are afterwards is `Filed`.

**Session.** That the stored token is held says nothing about a tab's own next
effects, so the strengthening adds what a tab is about to do: a tab that is loading a
login has no token (`LoadingInv`), and a tab inside the panel with a token, set or
on display, and a tab that is signed in and has run its effects, finds a token in
the storage unless one was removed (`PanelInv`). With these, `StoredIsHeld` and `BareCallsFollowRemoval` are inductive
together: only `Store` changes the storage, and it stores the token of the commit
it belongs to.

**Panel.** One page is on display, and each has an invariant of its own variables,
which a step of another page leaves alone and a mount or an unmount establishes
afresh (`DashboardInv`, `LogsInv`, `LinksInv`). `LinkSettles` speaks of a modal with
every answer in; `LinkDue` says of one with calls under way that its link is right,
or missing after a failure, or asked for by a call for the user and the inbound on
display, and that its cache holds links of its user alone: that is what the rerun of
the effect at every change of the cache is for. `OpensAsSaved` needs that what was
saved last is what the storage would give (`chosen = Preferred`). The fairness of
`PanelSpec` is not used.

**UserPage.** `JobIsExact` speaks of the end of a handler only. The strengthening
(`OnTrack`) says of every handler on its way what its remaining calls will make of
the file: each entry that was asked for is there already, or a call to come makes it
so, and no call to come makes it otherwise. The call of `updateUser`, which takes
the flows from the entries that are to stay, is the one that looks at what is there;
it comes first, and the lemmas say what is left for the calls after it to repair.
`SaveKeepsEntries` needs that a form that has its user's entries still names its user
(`FormShowsUser`). `ListIsRight` needs that the list served last is right when nothing is on its way to
be served (`LastIsRight`): lists are served in one order and may land in another.
`SelectionTakesOneEntry` needs that the users of the selection had one entry when the
loop began and that the loop's own calls add none (`SmallUsers`). The calls of a loop are a
sequence made of a set (`InOrder`), so its lemmas say of the sequence what was known
of the set; this is where the set has to be finite.

**ConfigPages.** A view is as old as the answer that landed last, so what holds of a
view has to hold of everything that can become one: of the answers on their way, of
the open form, and of the calls made from them. All of them are *served*: of a
version the file has had, and what the file holds as long as it has that version
(`Served`, `FilesInv`, `EditorInv`, `RawInv`). A step that writes leaves what is of
an older version of an older version (`StillServed`), so only the steps that make an
answer, a form or a call need a look. Typing of the file needs the types of all calls
under way, and that no text is saved before one was loaded (`TextIsLoaded`).
`SavesAreExact` follows from the same invariant with the algebra of the merge: the
rules chosen from a concatenation are the concatenation of the chosen
(`ChosenConcat`), so that what was kept is kept, and the rows that were saved are the
simple rules that are loaded again (`MergedRules`). These lemmas are inductions over
sequences. They are proved from the well-foundedness of the naturals, with the set of
the numbers, or sequences, for which the claim holds in the place of a predicate
(`SetInduction`, `AppendInduction`), and with the recursion of `Chosen` as a function
(`ChosenComputed`).

**Only model-checked:** the liveness properties `RequestsAreAnswered`,
`DeadSessionEnds`, `DashboardCatchesUp` and `TailCatchesUp` (liveness under fairness
is beyond the prover) and the violations. Every invariant, action property and
refinement that a passing run checks is a theorem.

## 6. Abstractions, and what is not modelled

- The content of an inbound beyond tag and port; the wording of errors; JSON.
- Of an account: flow, VMess fields and quota; a credential is one value. An
  inbound has a tag, a type with users, and each name at most once after an edit
  by hand.
- Bytes in the two directions: one direction is modelled.
- Of WireGuard: private and preshared keys, endpoints and aliases, further
  `AllowedIPs` than the first (no handler compares them), the QR cache, the making of
  the `.bak`. Networks of more than 256 addresses, where `findAvailableIP` does not
  look beyond the first 256.
- The WireGuard steps of the maintenance goroutine and the VACUUM; they leave
  the modelled tables alone.
- A second panel process on the same files (`-sampler-only` beside a panel).
- Data races on `Config` fields beyond the orders of whole reads and writes.
- Client links, key and certificate generation, interface lookup: string
  building without state. Server wiring, build scripts.
- Of the frontend: the WireGuard page, the general, features and database tabs of
  the settings, the usage report, sorting, filtering and formatting, toasts and
  widgets; `ConfigViewer.tsx` and `InboundUserModal.tsx`, which no page shows. Of an
  inbound's form, the fields no guard reads. React's batching is modelled where it
  is visible (`Session`); elsewhere a handler's sets and the effects of their commit
  are one step. A call fails before it has its effect, but for an apply of the
  dashboard.

## 7. Plan

A new module joins the run of one it composes with. In this order:

1. `InboundLists`: managed and stats lists, `inbound_meta` and `config.json`
   under concurrent adds, renames and deletes; composes with `SingboxConfig`'s
   abstraction of the file.
2. `WireGuardTraffic`: sampler, cumulative counters, prune and compression, and
   the report's differences against what was moved.
3. `QuotaPeriod`, `LogTail`, `Calculator`: pure algorithms against reference
   definitions over bounded inputs.
4. `DashboardCache` and `Admins`.
5. Theorems: the invariants of 1 and 2.
