# cogmemory in TLA+

This directory holds TLA+ models of the Cog memory daemon, the TLC
configurations that check them on small instances, and theorems about them that
TLAPS checks for every value of the constants. `PROJECT.json` maps every
definition to the source lines it stands for.

The daemon serves files of a memory directory to several agents over a Unix
socket, one JSON-RPC request per line. Every connection has its own goroutine,
the store is the directory itself, and nothing but `flock`, `rename` and one
mutex in the domain controller orders what the goroutines do. That is what the
models are about.

## Inventory

| component | source | state | operations | interacts with |
|---|---|---|---|---|
| File store, mutating core | `store/store.go` 150-620, 1040-1090 | files and temp files of the memory directory; flocks; `MemoryStore.mu` (only ever read-locked, by the walks) | Read, Outline, Write, Append, AppendSection, Patch, Move, atomicWrite | called by every handler goroutine; the file system |
| Domain controller, hot reload | `domain/domain.go` 50-180 | `domains`, `flat`, `modTime`, `lastErr` under `mu`; `domains.yml` on disk | New, reload, maybeReload, List, Get, LastError | called by handlers; editors and git change the manifest |
| Domain controller, paths | `domain/domain.go` 180-450 | none | DomainForPath, ValidateWrite, ResolveFile, ActionItems, Observations, Entities, validate | the write gate of the handlers, the files of their scans |
| Server and daemon lifecycle | `main.go`, `health/health.go`, `rpc/server.go` | socket path, listener, accept loop, connections, `Server.wg`, signals | Listen, Serve, handleConn, GracefulShutdown, watchdog | systemd, clients, the handlers |
| RPC handlers and RBAC | `rpc/methods.go`, `rpc/params.go`, `rbac/rbac.go` | none (rules are fixed at start) | 26 methods: decode, check role, check manifest, call the store | store, controller |
| Walk-based queries and git | `store/store.go` 618-760, 1480-1540 | none; a read lock of `mu` | scanFiles, List, Search, Stats, L0Index, ScenarioCheck, Git | the files the core changes at the same time |
| Action items, observations, session brief | `store/store.go` 840-1040, `store/observations.go`, `store/session_brief.go` | scanner state per file | skipActionLine, CountActions, OpenActions | walks |
| Housekeeping scan | `store/housekeeping.go` | the marker file's mtime | caps, staleness, dormancy, touch of the marker | walks, controller |
| Clusters, links, entity audit, indexes | `store/cluster.go`, `store/link.go`, `store/wiki.go` | none | text analysis of one snapshot | walks |
| Configuration | `config/config.go` | none | read once at start | main |
| Deployment, import script | `deploy/`, `scripts/` | none | systemd unit, one-off import | the daemon's restarts |

What is hard, and what makes each part correct:

* **Store.** Handlers interleave between any two system calls. The flock is on
  the inode a handler opened, and `atomicWrite` puts another inode behind the
  path, so a handler may hold the lock of a file that is no longer there. Write
  and Move take no lock. An I/O error or the death of the process can fall
  between any two calls. Correct means: what is read under the lock stays put
  until it is acted on, a rewrite is all or nothing, a line never disappears
  unasked, error paths leave nothing behind, everyone gets an answer, and, where
  the clients keep to a discipline, the store is linearizable.
* **Hot reload.** `reload` and `maybeReload` drop the mutex around the file
  accesses: queries, and edits of the manifest, interleave with a reload, and the
  reload that read the older manifest may install it last.
  Correct means: answers come from the manifest on disk, a broken one is
  reported and leaves the last good registry alone, and what a race got wrong the
  next query puts right.
* **Lifecycle.** Processes replace each other on one socket path, and are signalled or
  killed at any step, or stop because something they are set up with is no good.
  Correct means: the new one always gets the path, clients are accepted and answered,
  a signalled process ends, and it ends after its requests.
* **Handlers, paths.** Which gate runs first decides which error a client sees
  and whether a write is checked at all; a handler that asks the controller
  several times mixes manifests. Correct means: nothing changes without the right
  to change it, a stray path is not written whatever is edited meanwhile, no
  answer names what the role may not read where the method filters, every request
  is answered.
* **Walks, git.** A walk sees files one by one while others move; `git add` and
  `git commit` are two processes. Correct means: an answer names only what was
  there, it misses nothing that nobody touched, a commit is not older than its
  request.
* **Action items, observations, housekeeping, audits.** Thirteen line scanners
  with nested states, whole-day ages, dates compared as strings and a marker
  compared by mtime; several tools read one file, each with rules of its own.
  Correct means: the comment and fence states skip what they should, the tools
  agree where they report the same thing, nothing is counted twice or charged to
  another entity.

The hazards, each at its line, are listed in `PROJECT.json`.

## Modules

```
FileContent   what the updates compute from the bytes of one file
StoreRequest  the requests, and what each asks for
  AtomicStore   what the store promises: every request takes effect at once
  FileStore     the store, one action per system call that others can observe
    MCFileStore   instances for TLC
DomainController  the hot reload
  MCDomainController  its symmetry
Daemon            processes, socket path, connections, shutdown
Manifest      what the controller answers from one registry
  Methods       RBAC, and the steps of the 26 methods in their order
    Handlers      handler goroutines that run them on one memory
      MCHandlers    an instance for TLC
FileScan      the line scanners of one file
  MCFileScan    lines for TLC
*_proofs      the theorems: FileStore, AtomicStore (the refinement),
              DomainController, Daemon, FileScan, Handlers (types, changes,
              commits), HandlersSound (what an answer names) and
              HandlersComplete (what it misses)
```

`FileStore` and `AtomicStore` share `StoreRequest`, so both read a request the
same way; `FileStore` instantiates `AtomicStore` under a refinement mapping.
`Handlers` composes the rest from above: a call of the controller reads, installs and
answers (when it reloads is `DomainController`), a rewrite, an append or a move is one
step (their inside is `FileStore`), and so is the scan of one file (line by line in
`FileScan`). `Daemon` needs only that a request that has begun ends, which
`RequestsServed` and `EveryRequestAnswered` say.

### FileContent, StoreRequest

A file is the sequence of its non-blank lines and one bit, whether it ends in a
newline. The bit is what `AppendSection` looks at (`store.go:359-379`): it
decides between an append in place and a rewrite. Texts are identities, one per
request; a text in `LeadText` starts with a newline, which also allows an append
in place; a `Heading` is what a section append looks for. `Inserted`, `Patched`,
`Appended` and `Written` are the contents the four updates produce.

### FileStore

`dir` maps paths to inodes, `data` holds the inodes' bytes, `temps` is the set
of inodes with a `.tmp-memory-*` name. Per handler: `pc`, the request, the open
descriptor `fd`, what it read (`buf`), its temp file and its outcome. The lock is
not a variable: who holds it follows from `pc` and `fd` (`Holding`), as the lock
lives as long as the descriptor. The actions follow the calls of the code:

| actions | code |
|---|---|
| Start, Reply | `dispatch`, the deferred unlock and close, the response |
| OpenExisting, OpenCreate, OpenMissing | `os.Open`, `os.OpenFile` (Read, AppendSection, Patch) |
| Lock | `lockShared`, `lockExclusive`: blocks while the same **inode** is locked |
| LookRead, LookReject, LookUpdate | everything between the lock and the first write |
| AppendInPlace | Seek, WriteString, Sync |
| CreateTemp, FillTemp, Publish, WriteFails | `atomicWrite`: CreateTemp; write, Sync, Close; Rename; its error paths |
| MoveStat, MoveRename | Move |
| Crash | the process dies: handlers, descriptors and locks are gone, files stay |

`LookRead` and `AppendInPlace` are single steps: writers in place and readers of
one inode exclude each other by flock, and the other writers fill an inode that
nobody else can open (`TempsPrivate`). A handler that opens a path after a
rename gets the new inode, one that opened it before keeps the old one. Freed
inodes are reused.

A normal `SIGTERM` is a `Crash` to the requests in flight: the daemon does not
wait for them (`daemon_drain` below).

### AtomicStore

The promise: a map from paths to contents on which each request takes effect in
one step between its invocation and its response. `FileStore` maps to it by
`file` (a missing file is no inode), `phase` (a request has taken effect when its
last write has) and `result`. Two freedoms are granted
because the code takes them: an append may create a missing file empty before it
writes, and an append that reports an I/O error may have left its text or a
prefix of it.

### DomainController

One action per step of a query: stat, the comparison with `modTime`
(`CheckEmpty`, `Compare`), `reload`'s read, second stat and install, and the
recording of an error. `Edit` changes the manifest between any two of them. A
manifest is good, void (valid without domains), bad or missing, and each edit
has a later mtime. Two history variables say what a query can be held to:
`fresh[p]`, no edit and no I/O error since it began, and `alone[p]`, besides that no
other query has stored what it read before the last edit.

What the reload keeps and what it does not:

* `ServesCurrent`, the promise of the `Controller`'s comment, does not hold
  (`reload_stale`): the second stat can see a later manifest than the read.
* `NextQueryServesCurrent` is what is left of it: edits may fall inside reloads and
  an older manifest may be installed last, but the next query that runs `alone`
  answers from the manifest on disk. The exception is a registry that carries the
  mtime of a later manifest (`Mislabelled`), which is the case of `reload_stale`.
* `NextQueryReportsError`: an install of an earlier read clears the error of a
  manifest that is broken by now (`domain.go:116`). `modTime` is then not the one of
  the broken manifest, so the next query reads it again and reports it, with the same
  exception.
* `NoStaleError`, the promise of `LastError`, does not hold (`reload_error`): the
  error of a slow reload is stored over a later good load.

### Daemon

`main[i]` follows the main goroutine: set-up (configuration, store, controller), stat
and removal of the socket file, bind, the Serve goroutine, `signal.Notify`, waiting,
drain, exit. `path` is the process
whose socket the path names. `supervised` says whether systemd runs the
processes, one at a time; otherwise several may start at once. A connection is
queued at a listener, then open; its handler scans, dispatches and answers line
by line. A signal before `Arm` kills the process, as Go does without a handler.
A process ends `stopped` (main returned), `misconfigured` (`os.Exit(1)` because the
configuration, the memory root, `domains.yml` or the directory of the socket is no
good, `main.go:39-66`), `failed` (`os.Exit(1)` because another process was at the
socket path) or `killed`.
`Awaited` is what the drain waits for: nothing, since `main` passes a new
WaitGroup.

### Manifest, Methods, Handlers

`Manifest` has the operators of `domain.go` that look at one registry: `Valid`,
`Known`, `Get`, `Declares`, `Targets`, `DomainForPath`, `IDAsPath`. A path is a
tuple of names. `Picked` is a filter of a sequence written without recursion, so
that the modules above can be proved about.

`Methods` writes each handler of `rpc/` as the sequence of its steps, in the
order of the code: which parameters are checked, which gate is asked when, which
calls of the controller and the store follow, what is filtered before a scan and
what after it. `Program` is the dispatch table. `Check` is `rbac.Engine.Check`:
the first rule whose pattern matches decides, and may deny.

`Handlers` runs the programs. `at[p]` is the step a handler is about to take,
`loc[p]` its local variables, `code[p]` the error it will answer with. There is
an action for each kind of step:

| actions | code |
|---|---|
| Start, Reply | `handleConn`, `dispatch`, `okResponse`, `errorResponse` |
| CheckParams, CheckMessage, PassGate | `decodeParams` and the parameter checks, the RBAC gates |
| GetDomain, ResolveFile, ListTargets, ListDomains, ResolveEach, NextFile | calls of the controller, each of which may reload |
| FindOwner, CheckMisplaced | the two calls of `ValidateWrite` |
| EnterDir, VisitNext | `filepath.WalkDir`: a directory is listed, then each file in it is looked at |
| ScanNext, OpenFile, CheckExists, ReadContent, StoreFails | the reads of single files, and their errors |
| Permit, Hide, SelectBelow, Report, AddRoots, StatMarker, ReportChanged, FindEntities | the filters and sums of `rpc/` and `store/` |
| SaveFile, MoveFile, RefuseChange | Write, AppendSection, Patch, Move |
| StageFiles, AddFile, Commit | `git add -A` path by path under index.lock, `git commit` |
| ReadManifest, InstallManifest | `reload` in a call of the controller: the read, and the install later |
| Edit | somebody edits domains.yml |

A call of the controller is up to three steps. It may read the manifest and install
it later, when it has been edited again or when another handler has installed a newer
one; then, or without any reload, it answers from the registry there is. Whether a
call reloads is left open: the cached mtime may be the one of a later manifest, a stat
or a read may fail, the manifest may be invalid. So every registry a handler can be
given in `DomainController` it can be given here, the stale and the older ones
included.

`during[p]` is history: the registries and the contents of every file since
p's request began. `AnswersSound` and `AnswersComplete` compare an answer with
it, as no answer can be about a single moment. What an answer must not miss is
said without the programs: `InWalk` is the files below the directory a method
walks, less those it documents to leave out, `InScope` the declared files of one
name in the domain asked for or in all.

What is simplified: the content of a file is the number of the change that made
it, which is its mtime too. Targets are scanned in the order of the manifest,
which decides nothing here. Without a marker every file counts as changed, as if
the fallback window were long. Every scenario file is active. Only the scans that
the code makes strict fail on an I/O error; the lenient ones skip the file, as
they do when it is missing. Temp files do not show up in walks. The first segment
of a file at the root ends in `.md` and so is never the id of a domain. Unknown
methods change nothing and are left out. Whether an entities file has entities is
left open (`FindEntities`). `LastError`, which `session_brief` reports, is in
`DomainController`.

### FileScan

All scanners of a kind of file read one file side by side, one action per line:
`ReadActionLine` for OpenActions, CountActions, the session brief and the
staleness scan; `ReadObservationLine` for RecentObservations,
RecentObservationsForFile, Cluster and the dormancy scan; `ReadEntityLine` for the
entity audit. The file is the history of what was read, so the properties can
define their answers over the whole file and compare. `skip` is what
`skipActionLine` keeps between lines. A line is what prefixes and regular
expressions tell apart; a date is its rank as a string and whether the calendar
has it, since some scanners compare strings and others parse.

## Runs

| run | instance | result |
|---|---|---|
| `store_pair` | 2 handlers, 2 paths, all 7 operations, any of 3 start contents, I/O errors, crashes | `LockedContentStable`, `TempsPrivate`, `LitterOnlyByCrash`, `CurrentRewriteIsAtomic`, `LinesLostOnlyByRequest` hold |
| `store_answers` | 3 handlers on 1 path, read, append, patch; weak fairness | the inductive invariant `IInv` holds, `EveryRequestAnswered` |
| `store_clients` | 3 clients, 4 paths: two that one client uses with every operation, one that all read and append, terminated, and one that all read and replace; I/O errors, torn appends on the owned paths, crashes | refines `AtomicStore`, `AppendsOnlyGrow` |
| `reload_race` | 3 queries, 2 edits at any time, I/O errors | the inductive invariant `ReloadInv`, `NextQueryServesCurrent`, `NextQueryReportsError` hold |
| `daemon_life` | 2 processes, supervised or not, 2 connections of 2 requests, starts that fail, kills and signals; weak fairness | `DaemonInv`, `RestartsCleanly`, `SignalStops`, `QueuedIsTaken`, `RequestsAnswered` hold |
| `scan_file` | every action list, log and entity list of up to 5 lines, 3 since dates | `SkipMatchesReference`, `CountsAgree`, `StaleAreOpen`, `RecentIsVisibleOfFile`, `ClustersCountEntries`, `DormantMeansQuiet`, `AuditMatchesBlocks` hold |
| `serve_requests` | 2 handlers: each method beside a move, and changes and commits beside each other; 1 edit of the manifest | `AnswersSound`, `AnswersComplete`, `StrayNeverWritten`, `CommitCovers`, `ChangesPermitted`, `RequestsServed` hold |
| `lost_append` | 2 appends to one unterminated file | `AppendsOnlyGrow` is violated |
| `move_overwrites` | a write and a move | `MoveNeverOverwrites` is violated |
| `reload_stale` | 2 queries, 2 edits | `ServesCurrent` is violated |
| `reload_error` | 2 queries, 2 edits | `NoStaleError` is violated |
| `daemon_drain` | 1 process, 1 connection | `DrainsBeforeExit` is violated |

What the passing runs say together about sharing files: reading and appending
terminated files is safe; reading and replacing whole files is safe; one client
per file is safe whatever it does. Mixing rewrites (an append to a file whose
last line is not terminated, a section append, a patch) with anything else on
one path is not, and `LinesLostOnlyByRequest` names the only ways a line is then
lost: a write, a patch of that very line, a move, or a rewrite by a handler that
locked an inode the path no longer names.

`serve_requests` shows how far the answers of a daemon without snapshots can be
relied on: whatever moves, changes and edits happen meanwhile, an answer holds
every file that nobody touched and nothing that was never there. It may hold a
moved file twice or not at all, and parts of two registries, of which one may be
older than the manifest on disk; a write that neither of two registries rejects may be
refused when an install falls between the calls of `ValidateWrite`, but one that every
registry of the time rejects is never made.

`scan_file` shows where the tools agree on one file and where they differ by
rule: `session_brief` counts unnamed items that `open_actions` does not list;
`domain_summary` counts entries in comments that `recent_observations` does not
show. No doc says otherwise, so these are part of the model and the properties are
about what must hold in spite of them. The entity audit is different: it skips only
lines that begin a comment (`store.go:1319`), so that the lines inside a longer
comment count, while `RPC.md:567` and `store.go:90-92` count "non-comment" lines.
`AuditMatchesBlocks` states how far the two are apart: an entity is charged for the
lines the docs name (`Documented`) and for the lines inside a comment of several lines
(`Commented`), and for no others. It is flagged whenever the docs say so, and, as far
as the docs go, without need only because of such a comment.

The five violations are disagreements between code and documentation:

* `lost_append`: two agents append to a file that does not end in a newline.
  Both open it; the first rewrites it and is answered; the second gets the lock
  of the old inode, rewrites from the old content, and the first append is gone.
* `move_overwrites`: a file created between Move's stat and its rename is
  replaced, although an existing destination is documented as an error.
* `reload_stale`: an edit between `reload`'s read and its second stat leaves the
  old registry under the new mtime; the edit takes effect only with the next one.
* `reload_error`: a query that read a broken manifest stores its error after another
  query has loaded the repaired one. `LastError` is documented to be nil then; it
  keeps the error until the next edit, and `session_brief` shows agents a
  `controller_last_error` about a manifest that is no longer there.
* `daemon_drain`: SIGTERM ends the process in the middle of a request, with the
  shutdown timeout still running.

### Bounds

* A request takes a fresh text, so `Text` bounds the requests of a behaviour: 2
  or 3, one for each handler that can be in flight at once. The losses found
  need two, and the third handler in `store_answers` is there because a lock
  that passes from a holder to a waiter while another queues needs three.
* Inodes: one for each path, open descriptor and temp file that can exist at
  once, so that the kernel always has one to give and a full disk occurs through
  `WriteFails` only; freed ones are reused. Four paths in `store_clients`: two for an
  owner who moves between them, and one for each way of sharing. In that run `Tearing`
  keeps torn appends, which end a file without a newline, to the owned paths.
* Start contents: missing, terminated, unterminated. Nothing else about a file
  changes what the operations do.
* `VIEW Live` identifies states that differ only in the bytes of an inode that
  nothing refers to; such bytes are overwritten before they can be read.
* Two edits of the manifest: enough for a stale read, an error and a repair; a
  third query can race both: it is the one that runs `alone` after an older
  install. `daemon_life` has two processes, the one that holds
  the path and its successor, and two connections, so that one can wait for the
  other; two requests per connection make pipelining visible.
* Symmetry is used in `store_clients` (the two clients that own nothing, and the
  texts) and in `reload_race` (the queries), which check safety only.
* Five lines reach every order of an opened and an unclosed comment, two fences
  and an item, two entries of one tag with one between, and two entities with
  facts between comments. The dates lie on both sides of each limit, one of them
  is no day of the calendar.
* `serve_requests` has 9 files in 7 directories below the root, one for each thing a
  method looks for, and 3 manifests: a valid one, one that moves an id to another
  directory and declares other files, one that is invalid. One edit falls between any
  two steps of a request. It is enough for the races of the reload: two clients may
  read the manifests before and after it and install them in either order, and two of
  the sessions run clients whose calls overtake each other so. Each query runs beside
  a move out of a walked directory, the requests that change things beside each other.
* `MaxChange` bounds the changes of files: one for each request that makes one.

### Fairness

`FileStore`: weak fairness of each handler's next step. The Go scheduler runs
every runnable goroutine. A waiter for a flock is not promised the lock by that
(the kernel may prefer others), but with finitely many requests it competes with
finitely many holders. Nothing is assumed of clients.
`Daemon`: weak fairness of the main goroutine, of Accept on a queued connection,
of Accept's failure on a closed listener, and of the handlers, which end because
of `EveryRequestAnswered`. Nothing is assumed of clients, signals or systemd.
`Handlers`: weak fairness of each handler's next step. A handler waits for
nobody: git fails on a lock that is taken, and the flocks are inside the steps.
Nothing is assumed of clients and editors. `RequestsServed` rests on it.

`RequestsAnswered` and `SignalStops` rest on that of `Daemon`. `daemon_life` lets
Accept fail only on a closed listener; with `"accept"` in `Faults` it may fail for
other reasons (too many open files), Serve returns, and `QueuedIsTaken` is not
promised.

Deadlock is checked in the store runs (`Rest` stands for a daemon with nothing to do)
and in the reload runs. In the `Daemon` runs every process may have ended; a file of
`scan_file` ends, and so do the requests of `serve_requests`.

## Theorems

All proofs are checked by TLAPS (SMT, Zenon, LS4) without assumptions other than
the named ones on the constants: `TextAssumption`, `MissingAssumption`,
`StoreAssumption`, `ControllerAssumption`, `DaemonAssumption`,
`ScanAssumption`, `HandlersAssumption`. TLC evaluates
them in every run. Those on the handlers say what a file tree and a manifest are:
paths are sequences of names, every directory above a file is one of `Dir`, the
directory order names every path and directory but the root, requests which
change files name paths of the memory, and a manifest is a sequence of domains
whose path and declared files are sequences.

**FileStore_proofs** (its first lemmas are on contents: what each update returns
and which lines it keeps).

* `Invariance`: `Spec => []IInv`. `LockedContentStable` is not inductive: that
  nobody writes the locked inode needs exclusive locks (`LockExclusive`), that
  temp files are not reachable through a path or a descriptor (`TempsPrivate`),
  and which request is at which step (`StepOK`). `TempsPrivate` in turn needs
  that a free inode is no one's, and Move needs `NamesDistinct` so that a rename
  does not leave an inode with two names.
  The proof has a lemma per action.
* `TypeCorrect`, `LockedContent`, `PrivateTemps` follow from it.
* `CurrentRewrite`: a rewrite whose path still names the locked inode is atomic.
* `LinesLost`: the four ways to lose a line are the only ones, for any number of
  clients, paths and requests, with I/O errors and crashes. It needs that
  appends, patches and insertions keep the other lines, and that a step other
  than an append in place, a rename or a move changes no file.
* `NoLitter`: `LitterOnlyByCrash`. It needs that a handler about to create a temp
  file holds none, so that the name it drops is never one still in the directory.

**AtomicStore_proofs**: `StoreIsAtomic`, the refinement, for any number of
clients, paths and requests, with I/O errors and crashes, under `Sharing`: each
path belongs to one client (`Owned`), or is only read and replaced as a whole
(`ByRename`), or is only read and appended to, and terminated (`Grown`).
`store_clients` is an instance of it with a path of each kind, and `lost_append` is
what happens without it. The theorem also takes `"io" \in Faults`: a disk that is full
at CreateTemp fails in the model whether or not I/O errors are asked for, and the
error must be one the promise allows. The invariant `SInv` says what sharing buys:
the inode a request has open is the one the path names, or was replaced by a
rename and nothing names it (`Placed`); a terminated file stays so and is never
rewritten (`NoRewrite`). `SharingInvariance` shows it, one lemma per action, and
`NextImplements` that every step is a step of `AtomicStore` or a stutter.
`AppendsGrow` combines `SInv` with `LinesLost`: none of the four ways to lose a
line is left on a path that is only appended to.

**DomainController_proofs**, for any number of queries and edits at any time, with I/O
errors: `ReloadInvariance`, and from it `NextQueryCurrent` and `NextQueryReports`. The
heart of `ReloadInv` is that what carries the number of the manifest on disk is that
manifest, in the registry and in the hands of a reload; a cached mtime of the manifest
on disk then means that it is the registry, or that the registry is mislabelled.
`QueryOK` says it step by step, and that what a query which nothing has disturbed has
in hand is the manifest on disk. No assumption rules out a race: those of the code
that do harm are in the statement, as `Mislabelled` and `alone`.

**Daemon_proofs**: `DaemonInvariance` (who owns the path, where connections may queue,
and that only a process told to stop closes its listener) and `TakesOverPath`: under
systemd no process is ever kept from the path, and main returns only behind a signal.
Its core is `SocketOwned`: with one process at a time, whatever the stat saw still
holds at the removal and at the bind. A process may still end unasked, killed or
misconfigured; its successor finds whatever it left.

**FileScan_proofs**, for files of any length, any lines, dates and limits:
`SkipsRight` (the states of `skipActionLine` against a definition by counting
fences and looking back for an open comment), `StaleOpen`, `RecentVisible` and
`DormantQuiet`. Three invariants carry them: `SkipInv` relates the skip state to
the lines read, `ListsInv` says which lines are in which list, `LogInv` that the
latest date is not before any entry's. Three more carry the counts:
`CountersAgree` (`TallyInv`: the counters are the cardinalities of the sets of
lines that each rule counts), `ClustersOfEntries` (`ClusterInv`: a tag's counter is
the number of the entries behind it, each once) and `AuditRight` (`BlocksInv`: the
blocks are the headings in their order, each with the facts up to the next one;
`ChargedLines` splits these into the lines the docs name and those inside a comment). A
counter
that follows a set line by line needs no induction over the file: the induction is
the one over the steps. `ScannersTyped` is the type invariant.

**Handlers_proofs**, for any number of handlers, requests, rules, paths and
manifests: `OnlyPermittedChanges` and `StraysRejected`, from `ChecksHold`. Both
rest on the programs: `OthersHarmless` says that no other method has a step that
changes files, `Places` which step of a changing method does what. The invariant
`IInv` then carries what a check established to the step that uses it: `Gated`
that the role may write, `Vetted` that an owner was found, and later that the
path is not misplaced, in a registry the controller held while the request ran.
Without `Vetted` at the second call nothing says what the first one found, since the
registry may have changed. Edits and reloads (`Turns`) move no handler; they only add
to the histories.

In the same module, for the same parameters: `HandlersTyped` is the type
invariant of the handlers, whose heart is that a jump never leaves the program.
`Fits` says it of a sequence of steps, `FitsJoin` that it survives putting
programs together, and `ProgramFits` that all 26 methods have it. `CommitsCover`
is `CommitCovers`: the invariant `CoversAt` says that what git has taken into the
index since its request listed the files is a content of that time, and that the
files it has still to take are in its list, so that at the end none is missing.

**HandlersSound_proofs**: `AnswersAreSound` is `AnswersSound`, for every method, role,
manifest, number of edits and number of handlers. The invariant `SoundAt` of a request
that has not failed has three parts.

* `SoundBy`: whatever the local variables hold is borne out by the history of the
  request: a found file or an entry of the answer by the contents there have been
  (`Seen`), a target by a registry of the time (`Named`). A step either reads now,
  which is the last moment of the history, or copies what it had; histories only
  grow (`LongerHistory`), so the steps of the others disturb nothing.
* `LeftBy`: what a loop has left is part of the list it goes through, so a scan
  reads nothing that was not a target, and domain_summary has a target when it asks
  whether the file exists.
* `ShownAt`: what may be shown depends on the program, and `ProgramShows` says that
  each one is of one of four shapes. It looks for no targets (`Unaimed`), it asks
  before it resolves (`Rounds`), its last step is the filter on the answer
  (`Hides`: no jump gets past it), or it `Sifts`: step c filters a list, nothing is
  read before c, and after c only from that list, which does not grow again. This
  is what makes the difference between filtering the answer and filtering the
  targets immaterial to the role, and it is the part that a handler with its steps
  in another order breaks.

**HandlersComplete_proofs**: `AnswersAreComplete` is `AnswersComplete`, again for
every method, role, manifest and number of handlers. The property speaks of the
files that were there, with one content, all the time (`Steady`), and is no
invariant by itself: halfway through a request nothing is in the answer yet.
`CompleteAt` says where such a file is at each step of a request that has not
failed.

* `LineAt`: the methods that list files are lines of steps (`Line`). Step c finds
  the file: a walk, a list of targets, one `ResolveFile` or one for each domain.
  Step d reads the list, or c is itself the reader. The steps between only filter
  the list and those behind only filter the answer. `Carries` says that the file is
  ahead of step c's loop or already on the list, then on the list, then ahead of
  step d's loop or already in the answer, and behind d in the answer.
  `AtSource`, `OnLine`, `AtReader` and `BehindLine` keep it, one for each part of
  the line; `WalkRoute` and `TargetRoute` find the line of each method.
* Ahead of a walk is the file itself or a directory above it (`OnWay`). A directory
  that is listed yields the next one on the way (`EntriesLead`), since the type
  invariant says that the directories above a file that exists exist, and the
  directory order has them all. This is where a walk could go past a file whose
  neighbours move, and does not.
* Ahead of a loop over domains is a pair of a domain and a file name that resolves
  to the file in every registry of the time (`AllName`, `NamedTarget`), so it does
  not matter which of them each call of the controller answers from, nor in which
  order reloads install them. It needs that
  registries are valid: with two domains of one id `Get` could name another file.
* `RoundsAt`: domain_summary goes back and forth between the declared files. Those
  it has passed are in the answer or did not exist when it looked; the one it is
  at may be a step short of it (`Told`). The files are those of the domain it got,
  which is one of the time (`Gotten`).
* `Marked`: the time housekeeping_scan compares with is one the marker had.

It needs `SoundAt` from the module before: what a scan has left is part of its
list, and a loop that has ended has left nothing. `SteadyBefore` makes the steps of
the others harmless: what is steady, named or let through after a step was so
before it, because histories only grow.

Only model-checked: the liveness properties (`EveryRequestAnswered`,
`RequestsAnswered`, `SignalStops`, `QueuedIsTaken`, `RequestsServed`), whose
fairness speaks of ENABLED, which is out of the provers' reach.

## What the models leave out

* Contents: in the store blank lines and their trimming, heading levels, the check
  of observation lines, section and line-range reads. None of them decides whether
  and where the file is written, except as an error before the open.
* Directories in `FileStore`: all paths are in one, which exists. `Handlers` has
  directories and `MkdirAll`.
* The directory fsync that `atomicWrite` does not do: `Crash` is the death of the
  process, not of the machine.
* One mtime per edit of the manifest and per change of a file: how coarse the
  clock is cannot be told from the code.

## Not modelled

* The watchdog ticker: it runs whatever the other goroutines do, so it says
  nothing about them; its period is a division of one configuration value.
* Configuration: read once at start, without state afterwards.
* Deployment units and the import script: systemd's restart policy is the
  environment of `Daemon`, the script is not part of the program.
* Text analysis: the keywords of clusters and searches, the matching of links and
  entity names in text, frontmatter. They are functions of one line or one name,
  without order, state or concurrency; a model would restate the regular
  expressions.
* The caps of housekeeping: comparisons of counts with limits. The counts are in
  `FileScan`.
* The limits of scanners on the length of a line, and the sizes `stats` reports.
* Temp files as seen by walks: `LitterOnlyByCrash` bounds when there are any that
  last.
