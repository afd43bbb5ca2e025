# TLA+ models of the Kasten FRS web helper

The helper is one Go process in an OpenShift cluster. It lets a user create a
Kasten `FileRecoverySession` (FRS) for a VM's restore point, waits until K10
has an SFTP server running for it, and then lets the user browse and download
the restored files through the browser. This directory holds the TLA+
specifications of the parts of it that have state, their TLC configurations and
their TLAPS proofs. Paths below are relative to the repository.

## 1. Inventory

| Component | State | Operations | Touches |
|---|---|---|---|
| SFTP pool, `internal/sftpclient/pool.go` | `entries`: (cookie, FRS) -> session, `lastUsedAt`; a mutex | `Store`, `Get`, `Close`, `Sweep`, `CloseAllForFRS`, `Len` | the SSH connections |
| SFTP client, `internal/sftpclient/client.go` | per session: connection, `chrootDepth` (no lock) | `Dial`, `Close`, `ListDir`, `Open`, `Stat` | the FRS's SFTP server |
| Handlers, `internal/handlers/handlers.go`, `sessions.go` | locals of each request's goroutine; a gauge | `handleConnect`, `handleBrowse`, `handleDownload`, `handleDownloadZip`, `handleSessionDelete` | pool, watch map, API server |
| Wizard, `internal/handlers/wizard.go` | watch map: FRS -> state, `createdAt`; a mutex; one goroutine per created FRS; the sweeper | `handleWizardCreate`, `watchFRSCreated`, `handleWizardCancel`, `sweep` | API server (`k8s/frs.go`) |
| FRS access, `internal/k8s/*.go` | none | `CreateFRS`, `GetFRS`, `DeleteFRS`, `WaitForReady`, `ListFRS`, restore points | API server |
| Key management, `internal/keymgr/keymgr.go` | the Secret; `Manager` of a running process | `LoadOrGenerate`, `generateAndPersist`, `deriveAndPatch`, `parseInto` | API server, other pods |
| Authentication, `internal/auth` | none: signed cookie with its second of issue; tokens made from the cookie | `Issue`, `Verify`, `RequireAuth`, `CSRFToken`, `HandleLogin`, `handleLogout` | the browser; the cookie keys the pool |
| Server and start, `cmd/helper/main.go`, `internal/server`, `internal/startup` | listener, requests in flight | `run`, `startup.Run` (preflight), `server.Run` (serve, drain), `Recoverer` | all of the above |
| Wizard page, `web/static/app.js`, `web/templates/wizard.html` | three lists, hidden fields, a button; htmx requests in flight | row clicks, ticks, `enableSubmitIfVolumesPresent`, swaps | `handleWizardVMs`, `RPs`, `Volumes`, `Create` |
| RestorePoint queries, `internal/k8s/restorepoints.go` | none | `ListVMs`, `ListVMNamespaces`, `ListRestorePoints`, `GetRestorePointDetails` | API server |

How they interact. A cookie and an FRS make the key of a pool entry.
`handleConnect` asks the API server for the FRS, dials its SFTP server and
stores the session; every later request takes it from the pool and reads from
it without a lock, so requests share sessions, and sessions are closed under
them by expiry and deletion. `handleWizardCreate` starts a goroutine that only
communicates through the watch map, which pages poll and which cancel, delete
and the sweeper edit. The wizard page asks for one list after the other and keeps
what was clicked in hidden fields; answers come when they come. Everything the
helper knows of a browser is in the cookie it signed and in the token of the
form, so both must outlive its process. Processes meet in the Secret (a rolling update runs two
of them) and in the FRS objects, which K10 and `kubectl` change as they like.

What is hard: all of this happens in goroutines of their own, and the tests of
the repository call one function at a time. The hazards, each at its line, are
listed in `PROJECT.json`.

What makes each part correct: a request reads only over a connection dialed for
its own cookie and FRS, which is open and stays so while it is reasonable to
expect it; connections do not leak; the watch map tells the truth, gets an
answer and forgets; there is one SSH key and the helper never loses it; a
junction leads where it leads on the restored volume; an archive is complete or
can be seen not to be; a user who waits is told the truth and does not wait for
nothing; the FRS is for the VM, the RestorePoint and the volumes the user chose;
a login lasts as long as configured whatever the process goes through; a
shutdown ends and says truthfully how.

## 2. Modules

    SftpPool
       ^ EXTENDS
    SftpSessions ..... SftpSessionsProofs     (property UsesPool: PoolSpec)
    FrsWatch ......... FrsWatchProofs
       ^ EXTENDS          ^ EXTENDS
    BrowseFlow ....... BrowseFlowProofs       (property UsesWatch: Spec)
    KeyCustody <------ KeyManager ..... KeyManagerProofs
               refines
    RestorePoints <--- Wizard ......... WizardProofs         (EXTENDS)
    HelperLife <------ AuthSession .... AuthSessionProofs    (EXTENDS)
    JunctionResolve .. JunctionResolveProofs
    ArchiveWalk ...... ArchiveWalkProofs

`MC*.tla` hold the small instances; their `.cfg` give the constants. A module
that needs no such definitions (`FrsWatch`, `BrowseFlow`) is run directly; the
pool is run as part of `SftpSessions`, and its theorems come first in
`SftpSessionsProofs`.
Operators whose comment begins "Mutant of" are not part of a specification:
each is a plausible mistake in the definition that follows it, kept to show
that a property notices it.

**SftpPool** (`pool.go`). `entries` and `idle` (the age of `lastUsedAt`,
saturating one tick past the TTL) are the map; `conn` is the life of each
`*Session`: dialed, stored, closing (its `Close` goroutine has been started),
closed. One action per method, each one critical section of the mutex. `Store`
overwrites without closing, as in the code. Sessions are never dialed twice:
the set `Sessions` bounds the number of dials, until a restart.

**SftpSessions** (`handlers.go`, `sessions.go`, `wizard.go`). The request
goroutines on top of the pool's actions, split at the Kubernetes and SSH calls
and at every acquisition of the pool's lock. `Acquire` stands for `Pool.Get` in
the three handlers that read, `Release` for their return. `handleWizardCancel`
deletes an FRS and does not touch the pool, which is also what `kubectl delete`
does. The gauge is kept (`ReadLen`, `SetGauge` are two steps). `owner`, `held`
and `ended` are history.

**FrsWatch** (`wizard.go`, `k8s/frs.go`). The watch map, the goroutine of each
created FRS, `WaitForReady` with its deadline, deletion, the sweeper, restart.
`GetFRS` answers only when the object exists and its transport is published
(`buildFRSView` returns an error otherwise), and the deadline is looked at only
in a turn that returned neither Ready nor Failed. Conclude and RecordVerdict
are two steps, because a cancel or a sweep fits between them. K10 and the API
server are external.

**BrowseFlow** (`handlers.go`, `wizard.go`, `web/templates`). The way of a user
from Create FRS to a listing. A tab shows a page, or is in a handler (`at`);
redirects, `HX-Redirect` and the poll every 3 seconds take it from one handler
to the next. Handlers are split between their reads of the watch map, the pool
and the API server, so the FRS may become Ready, fail or vanish, and the entry
be written, swept or cleared, between any two. `shown` is what the preparing page
says of the FRS, `conn` the entries of the pool. A tab is a window (`Windows`) of a
user on an FRS, and the tabs of one user on one FRS share an entry (`KeyOf`): one of
them may connect, let it expire or lose it while another is between its steps. A
listing keeps the session it got, so the loss of a connection reaches it
(`listLost`) even if the entry has been replaced by then. `Dial` and a listing may fail
at any time. FrsWatch's actions go on in the
background (`Background`); each handler step that touches the watch map is one of
its actions. A request is assumed to take less than the TTL, the port of an FRS
to be the permitted one, and `partial=ready` to be asked for by htmx only.

**KeyCustody** and **KeyManager** (`keymgr.go`, `main.go`). KeyCustody says what
the component promises: a private key is installed once, never replaced by a
helper, and processes sign with what is installed. KeyManager is the code: Get,
then Create or Update with the `resourceVersion` read, against other processes,
operators, crashes, API errors and lost answers; the refinement mapping takes
the private field of the Secret, if it parses, as the installed key. Formats
are abstracted to "parses to key k", empty, and garbage.

**JunctionResolve** (`client.go`). Several `ListDir` on one `Session`: probe by
OPENDIR, READLINK, the cached `chrootDepth`, rediscovery at depth 1 to 5, the
ancestor walk. Steps are SFTP round trips between two uses of the shared
`chrootDepth`; the data race on it is resolved as single loads and stores of a
machine word. Paths are sequences of names.

**ArchiveWalk** (`handleDownloadZip`). The recursion as a stack of frames, the
entries written with the path each was read from (`of`), and how the deferred
`tw.Close` and `gz.Close` leave the stream. Junctions are those ListDir has
resolved. The volume is any set of paths that holds the directory of each of its
paths (`ArchiveAssumption`). A walk that would go deeper than `MaxDepth` stops for
good: it is not complete, so nothing is claimed of it.

**RestorePoints** (`k8s/restorepoints.go`, `LookupFRSSource`). K10's objects as
records (`Meta`), which of them exist (`points`), and each query as an operator on
them: the grouping of `ListVMs` as a fold of the loop's body, in no particular
order, the two shapes of `/details` with the fallback from one to the other.
Timestamps are positive, names unique in a namespace, and a RestorePoint is in
the namespace its `appNamespace` label names (`CatalogAssumption`): `ListVMs`
goes by the label, `ListRestorePoints` by the namespace.

**Wizard** (`app.js`, `wizard.html`, `wizard.go`). One tab. `vmList`, `rpList` and
`volList` are the rows on the page, `form` the hidden fields, `asked` the requests
htmx has out; an answer is swapped in at any time, in any order, fails (a 502 is
not swapped), or is the login page. A row without data attributes ("Loading",
"No RestorePoints") can be clicked and puts "undefined" into the fields, as in the
browser. A clicked VM clears the fields and the button, and not the lists; a
clicked RestorePoint clears nothing. `htmx:afterRequest` is delivered to the
element that made the request, so the refresh after a swap of the volumes may or
may not happen. K10 creates and retires the RestorePoints in `Volatile` at any time;
the others are there from the beginning. No RestorePoint is called "undefined" in a namespace "undefined"
(`PlaceholderAssumption`). `picked`, `current`, `waited` and `afresh` are history: what was
chosen since the VM was, which lists are for what is chosen, which choices were last made
from such a list, and whether boxes were ticked after the RestorePoint was picked.

**HelperLife** (`main.go`, `server.go`, `preflight.go`, `middleware.go`). The process:
start, configuration errors, preflight and key, serving, SIGTERM, drain with its
deadline, errors and kills. A fault is a set of broken layers; `preflight` is what
the log names for it, `LoadOrGenerate` what the loading of the key fails for, given
the fault and the Secret (complete, missing, empty, one half only, or garbage). The
fault and the `cause` of the error are recorded only for a start they ended.

**AuthSession** (`auth.go`, `session.go`, `handlers.go`). A browser with tabs, on top
of HelperLife. A cookie is the login it came from, with the secret that signed it,
its age and how far into its second it was issued, since the code keeps whole
seconds; a token is the pair of secret and cookie it was made from. Signatures are
taken to be unforgeable. `HELPER_SESSION_TTL` is positive.

## 3. Runs

Passing runs:

| Run | Instance | Shows |
|---|---|---|
| `sessions` | 2 cookies, 2 FRSs, 2 sessions, 2 requests, TTL 1; symmetry; 178 000 states | PooledIsOpen, ExpiredNeverRevived, Isolation, InUseSurvives, OrphansWereReplaced, LateStoresOnly, and that the handlers refine the pool (UsesPool) |
| `watch` | 2 FRSs, wait 1, sweep age 1, failing API calls; 67 100 states | VerdictIsTrue, PendingIsWatched, VerdictIsFinal, WatcherEnds, DeletedIsForgotten |
| `browse` | 1 user, 1 FRS, 1 window, wait 1, sweep age 1, no failing API calls; 10 800 states | ShownIsTrue, the handlers keep to FrsWatch (UsesWatch), WaitingEnds, FailureShows |
| `keys` | 2 pods, 2 keys, 2 operator edits, 2 faults; 33 800 states | OneKey, PairMatches, KeyIsKept (refinement of KeyCustody), ComesUp |
| `junctions` | 2 listings at once, 5 links of all kinds, chroot of depth 2; 63 600 states | RightTarget, DepthIsChroot, ListingIsStable, ListingAdvances, ListingEnds |
| `archive` | a volume with a junction and a broken link, any root; 1 570 states | Unpacks, CompleteHasAll, WalkEnds |
| `wizard` | 3 RestorePoints of 2 VMs of one name, 2 of them volatile, 2 requests in flight; 340 100 states | EveryPointIsOffered, OneRestorePoint, NothingCarriedOver, WaitingIsRewarded |
| `server` | 2 tabs, 2 logins, 2 secrets, TTL of 1 s in half seconds, grace 1, 6 sets of faults, 6 kinds of Secret; 445 300 states | CleanExit, DiagnosisIsRight, ForbiddenNeedsLogin, LoginLasts, TermEnds |

Why the bounds are enough to be interesting: two requests on one key with one
of them connecting already give replacement, expiry under a reader and the
delete race.
A TTL, a wait and a sweep age of one tick each have a step before, at and after
the limit, and since the clock is independent of the goroutines, the sweep can
come before or after the verdict. Two pods and two edits give every order of
Get, Create, Update and an operator's write. The links of `junctions` are one
that must be stripped, one that dangles beyond the maximum depth, one outside
the chroot, a relative one found by the ancestor walk and one that OPENDIR
follows. Two requests in flight are what it takes for answers to change places;
the RestorePoints of `wizard` share VM names, RestorePoint names and disk names
across namespaces, so that whatever is looked up by too little finds the wrong
one. The two that are volatile are the later one of a VM that has two, so that its
latest RestorePoint changes under the page, and the only one of the other VM, so that
a whole row comes and goes. Each RestorePoint has one disk, which the two of the first
VM share: with more disks only the number of ticks grows. In `server` half a second is the tick, so a cookie can be issued at the start
or in the middle of its second, and a TTL that is a whole number of seconds is the
case in which the browser still sends a cookie that the helper no longer takes. The
faults of a start are none, one that only some starts meet (`create`), and pairs in
which one hides the other or does no harm; each meets every kind of Secret.

Tabs only meet in the FRS and its entry, and FrsWatch itself acts for everybody
else, so `browse` has one tab. With two windows that share the entry (250 500
states) the run passes as well and takes too long to be repeated every time; the
proofs cover any number of them. `browse` leaves API failures
out because a page whose every query fails does wait for ever, and the proofs
cover its safety properties with them.

Symmetry is used only in `sessions`, whose properties are all safety properties.
Deadlock is checked in `sessions`, `watch`, `browse`, `wizard` and `server`; the other systems may
stop (a listing on a dead connection, a finished archive, processes that run).

Fairness, and why the code gives it:

- `watch`: the Go scheduler runs every goroutine, `time.Ticker` fires, time
  passes. K10 and users owe nothing.
- `browse`: as in `watch`, handlers run to their end, and htmx polls as long as
  the preparing page is there (`hx-trigger="every 3s"`). Users press nothing.
- `keys`: a started process runs on, and the kubelet restarts one that exited.
- `junctions`, `archive`: a pending SFTP call is answered or fails.
- `server`: time passes, and `srv.Shutdown` returns when it can. Handlers owe
  nothing: a download takes as long as the browser cares to read, which is why the
  drain has a deadline.

`sessions` and `wizard` check safety properties only and assume no fairness.

Runs whose property, stated by a comment of the code or by its README, is violated:

| Run | What the code does |
|---|---|
| `delete_race` | a connect that is dialing while the FRS is deleted stores its session afterwards, so a pooled session for the deleted FRS remains (`handlers.go:360`) |
| `browse_detour` | once the FRS is Ready the polling page goes to `/browse`, which redirects to `.../connect`; that is a GET, only POST is routed, and the catch-all sends the user to `/sessions` instead of the listing (`handlers.go:422`) |
| `depth_poisoned` | a dangling junction that resolves by coincidence teaches the session a wrong `chrootDepth`, and the next junction opens another directory (`client.go:350`) |
| `truncated_archive` | after an error the deferred closes finish tar and gzip properly; the archive looks whole (`handlers.go:676-678`, `766`) |

## 4. Proofs

All proved by TLAPS (SMT, Zenon, LS4) for every value of the constants that the
modules' `ASSUME`s admit: finite sets of users and FRSs in SftpSessions, natural
numbers as limits, distinct special values.

- **SftpSessionsProofs**: of the pool alone `PoolInvariant` (types, PooledIsOpen,
  OneKeyPerSession) and `PoolNeverRevives`; of the handlers `TypeCorrect`,
  `RequestsAreIsolated`, `InUseIsKept`, `NothingElseIsLost`, `DeletesAreFinal`,
  `HandlersUsePool`.
  The conjunction `PoolInv` is inductive: that eviction leaves no closed session
  behind needs that no session has two keys, and that a stored session is not
  stored again needs its state. Isolation needs what is true before `Acquire`: a
  session about to be stored belongs to one request and was dialed for its key
  (`Storing`), a pooled one sits under the key it was dialed for (`Owned`).
  InUseSurvives needs `Fresh`: the entry of a session in use is no older than
  the use, so the TTL cannot have passed for the entry before it has for the
  request. NothingElseIsLost is about one action after the other: every operation
  that takes an entry out of the pool closes its session (`EvictOrphans`), except
  for the `Store` over it. DeletesAreFinal is the positive side of `delete_race`:
  since `handleConnect` asks for the FRS before it dials, and nothing takes a request
  back to before its query, the connects that can still store for a deleted FRS are
  those under way when it was deleted (`NobodyConnects`), and no other step adds an
  entry (`NothingIsPooled`). The refinement of the pool is `NextIsPoolNext`, step by step.
- **FrsWatchProofs**: `TypeCorrect`, `VerdictsAreTrue`, `PendingAreWatched`,
  `VerdictsAreFinal`, `ForgottenForGood`. The strengthening says what a goroutine knows: a verdict
  not yet written is true (`Justified`, with `Shown`), a verdict in the map means
  its goroutine has ended (`Spent`), an entry does not precede its goroutine
  (`NotYet`, `Fresh`). ForgottenForGood is the half of DeletedIsForgotten
  that needs no fairness: when entry and goroutine of a deleted FRS are gone, they
  are gone for good, because only a goroutine of its own or its creation could bring
  the entry back. That it comes to this is liveness and left to TLC.
- **BrowseFlowProofs**: `PagesUseWatch` (each step of a page or handler is a step
  of FrsWatch or none), `ShownAreTrue`, `FlowTypeCorrect`, for any users, FRSs and tabs that
  share pool entries. ShownIsTrue is not
  inductive: a page whose poll is in flight comes back with what it said before
  (`Waiting`), and what it learns from the map or from `GetFRS` is true by
  FrsWatch's invariant, which PagesUseWatch carries over.
- **KeyManagerProofs**: `TypeCorrect`, `OneKeyHolds`, `CustodyRefined`,
  `PairsMatch`. The whole-Secret Update of `deriveAndPatch` is safe because of
  `Unchanged`: at the version a process has read, the Secret holds what it has
  read. `Gone`: no Secret, no key to lose. `PairsMatch` assumes that operators
  never provide halves of different pairs, which `parseInto` does not check.

- **WizardProofs**: `TypeCorrect`, `VolumesAreOfOnePoint`, `VMsStartAfresh`,
  `WaitersAreRewarded`, `PointsAreOffered`. What the user sends is right because of
  what is on the page before: boxes of one answer only (`OneAtATime`), fields filled
  only since the VM was chosen (`FieldsArePicked`), lists that count as current
  being for what is in the form (`CurrentListsFit`), and so the picks made from
  them (`PicksFit`): a RestorePoint of the VM, boxes of that VM, and boxes of that
  RestorePoint if they were ticked after it. `CreatedFits` leaves out what K10 does to
  the catalog after the POST, so that it is inductive. That the volumes are those of
  the RestorePoint is promised only with `afresh`: without it TLC finds the FRS of a
  RestorePoint picked last with the volumes of the one before (section 5). The proof of WaitersAreRewarded asked for
  `PlaceholderAssumption`: a click on a "Loading" row cannot be told from a click on
  a RestorePoint that really is called "undefined". `PointsAreOffered` is about the
  loop of `ListVMs`: `FoldIsLoop` shows that the fold passes every point once,
  `AddPointTallies` that each turn keeps count, latest time and latest name right.
- **AuthSessionProofs**: `ExitsAreClean`, `DiagnosesAreRight`, `RefusalsNeedLogin`,
  `LoginsLast`, `TypeCorrect`. `LifeInv` is about the process (a running one has
  cut nothing, a dead one serves nobody, log and error of a failed start are about
  one and the same fault, `Blame`); the rest says that whatever a browser or a page holds was
  issued, with the secret unless that has been changed since (`CookiesAreIssued`,
  `SignedWithSecret`, `TokensAreGood`). Tabs, logins, TTL and faults are arbitrary.
- **JunctionResolveProofs**: `DepthsAreChroot`, `TargetsAreRight`,
  `ListingsAreStable`, `ListingsAdvance`, `TypeCorrect`, for any number of listings at
  a time. The first three assume `NoMisleadingNames`: of no target is a suffix a directory
  that the discovery tries and that is not the right one. That is what
  `depth_poisoned` lacks; without it they are false. TargetsAreRight also assumes
  `ChrootIsFound`. Both hold on the volume of the run `junctions`, where TLC checks
  them (`PlainVolume` in MCJunctionResolve). The invariant fixes the outcome of each
  link (`EntriesAgree`) independently of who learned the depth: a depth read from
  the cache is right even after another listing has dropped it (`CachedIsChroot`),
  and the discovery cannot run past a target it can strip (`DiscoveryStops`).
  ListingsAdvance needs none of these assumptions: the links left and the stage
  reached with the one in hand (`Stage`) are a variant: whatever changes a listing's
  position brings it nearer its end, and no other listing changes it. A listing that finds
  the shared depth gone goes on to the discovery and never back to the cache. That
  is all of ListingEnds but the fairness.
- **ArchiveWalkProofs**: `CompleteArchives`, `ArchivesUnpack`, `TruncatedArchives`,
  `TypeCorrect`, for every volume, junction cycles included, and every order of the
  listings. The invariant relates stack and archive. For Unpacks: frames are nested and each was
  called for an entry no longer in its caller's list (`Chain`, `Nested`), the
  header of a directory precedes its listing (`Opened`), and nothing at or below a
  name still to come is archived (`Fresh`), which rests on the entries of a
  directory having different names (`SiblingsApart`). For CompleteHasAll: each
  entry is in a directory archived before it (`Grounded`), which gives "nothing
  else" by induction over the archive (`NothingElse`), and what is in an archived
  directory is archived or to come (`Covered`), which gives "everything" by
  induction over the levels of the reference once nothing is to come
  (`NothingMissing`). `TruncatedArchives` says what the code does keep where
  `truncated_archive` shows that it does not keep its comment: nothing that does
  not belong there, and no short file in an archive whose tar was ended.

Each `Inv` was checked by TLC as an invariant of its run's instance before it was
proved.

Induction. The library's induction theorems have an operator parameter, so the two
modules that need induction on numbers derive it for sets (`Induction`) from the
well-foundedness of `<` (`LeastNumber`), and show in the same way that the
recursive functions they unfold exist (`WithinLevels`, `LoopExists`).

Every invariant and every action property of the passing runs is the subject of a
theorem. Only model-checked is all liveness (WatcherEnds, DeletedIsForgotten,
WaitingEnds, FailureShows, ComesUp, ListingEnds, WalkEnds, TermEnds), which is out
of reach of the prover; of DeletedIsForgotten and ListingEnds the safety half is
proved. The type invariants of JunctionResolve, ArchiveWalk, AuthSession, BrowseFlow
and Wizard are proved and are not part of the runs.

## 5. Other observations

Seen while modelling, without a run of their own:

- `Get` closes an entry older than the TTL although an earlier request may still
  be streaming from it (`pool.go:56`): age counts from the last `Get`, not from
  the last use. InUseSurvives promises one TTL and no more.
- The watcher of a cancelled FRS writes its verdict into the map after the
  cancel has cleared the entry (`wizard.go:353`); the sweeper forgets it
  (DeletedIsForgotten).
- After a Ready verdict for an FRS that has failed or gone since, the preparing
  page bounces between the poll and `/browse` until the entry is swept
  (`handlers.go:389`, `499`). Without an entry, an FRS that `GetFRS` does not
  return is polled for ever (`handlers.go:514-517`), and so is one in state
  Succeeded or Terminated.
- `handlers.go:414-418` speaks of the "next poll" finding the synthesized
  watchState; it is never stored.
- A session whose server is gone stays in the pool: a failing ListDir evicts
  nothing (`handlers.go:426`).
- `Store` does not close the session it replaces; it stays open until the
  process ends. OrphansWereReplaced shows that nothing else leaks connections.
- `SFTPConnectionsActive` can be stale: `Len` and `Set` are two calls, and an
  expiry in `Get` does not touch the gauge (`handlers.go:361`).
- An FRS that fails before its transport is published is reported as Timeout
  after the full wait, because `GetFRS` returns an error for it.
- A Secret that exists with both fields empty is never completed: Create is
  refused (`keymgr.go:63`, against `keymgr.go:37-38`). ComesUp excludes it.
- Entry names in the archive are full paths, where `handlers.go:667-669` says
  relative to the root, and the basename for a single file.
- One link that does not resolve ends the whole archive; junctions that form a
  cycle (Application Data) make the walk endless.
- Nobody calls `Sweep`, and `Get` expires only the entry it is asked for: the
  connection of a user who walks away, or comes back with a new cookie, stays open
  until the process ends (`pool.go:84`; `pool.go:23` speaks of "expiring idle
  entries").
- A click on a VM row clears the hidden fields and leaves the RestorePoints and
  volumes of the previous VM on the page until the next answer arrives
  (`app.js:243-251`; the message at `wizard.go:258` takes the vol-list to be
  "cleared on a re-click"). Picking from them creates an FRS in one VM's namespace
  with the volumes of another's. OneRestorePoint and NothingCarriedOver hold all
  the same; WaitingIsRewarded is about users who wait. If the answer is an error
  the old list stays for good.
- A click on a RestorePoint clears neither the hidden `pvcNames` nor the button
  (`app.js:291-304`). The comment at `app.js:260-262` says that they are rebuilt
  "after every vol-list swap"; that happens only if htmx delivers `htmx:afterRequest` to
  `#vol-list` itself (`app.js:336`), and `htmx.ajax` is called without a source
  element. If it does not, a user who ticks a volume of one RestorePoint, picks
  another of the VM, waits for its volumes, all unchecked, and presses Create gets an
  FRS of the second RestorePoint with the volume names of the first. This is why
  WaitingIsRewarded promises the volumes of the RestorePoint only to a user who ticks
  after picking it.
- A row that says "Loading" or that there is nothing can be clicked, and the text
  "undefined" is then a namespace and a name (`app.js:240`, `297`).
- With an expired login a list of the wizard fills with the login page, because the
  redirect is followed and its answer is a 200 (`auth.go:73`).
- `GET /wizard/vms?ns=` lists any namespace, whatever `HELPER_FRS_NAMESPACES` says,
  and the picker offers all of them (`wizard.go:153`, `restorepoints.go:144`); an
  FRS created in one that is not listed never shows on `/sessions` (`frs.go:119`).
- The preflight does not ask about `update`, which `deriveAndPatch` needs, and does not
  look into the Secret, which may be empty, lack its private half or not parse,
  although `main.go:67-69` promises the operator the actual cause; for these the
  log names no cause, and may name a layer that is broken without doing harm (`dns`,
  which the client does not use; `create`, if the Secret exists). And `OverallTimeout` does
  not cap "the preflight block as a whole" (`preflight.go:58`): the discovery call
  has no context, and each access review has a timeout of its own.
- A negative `HELPER_SESSION_TTL` means "no expiry" to `Verify` (`session.go:91`)
  and an immediate end to the browser, which gets a negative Max-Age (`auth.go:57`).
- A login in a second tab makes the forms of the first answer 403 until they are
  reloaded (`auth.go:84`); ForbiddenNeedsLogin shows that nothing less does.
- `wizard.go:325` mentions a "Wait longer" button that does not exist.

## 6. Not modelled

Rendering and markup; logging and metrics except one gauge; the parsing of the
configuration, whose values are constants here; response headers; the signature
scheme; SSH and SFTP as protocols; K10, the API server and the kubelet beyond what
is needed of them. Of the repository's functions, `ListActiveFRS`,
`handleWizardNamespaces` and `LoadPrivateKey` have no caller in the program, and
`testserver.go` is a server for tests. Path helpers (`validatePath`, `joinPath`,
`parentPath`, the breadcrumbs, archive and download names) work on one string at a
time and are left to unit tests.

What is left: BrowseFlow keeps of a pool entry only whether it is there, too old or
broken; showing that these entries are the ones of SftpPool, with the sessions behind
them, would join the two compositions into one.
