# restic-defensive-mcp in TLA+

A verification project for `restic-defensive-mcp`, the read-only MCP server that
runs a fixed set of `restic` commands for its clients. It holds TLA+ modules
translated from the Go sources, configurations that check them with TLC on small
instances, and theorems that the TLA+ proof system (TLAPS) checks for every value
of the constants. `PROJECT.json` ties every definition to the lines it models,
every run to its properties, every property to a plausible bug it catches, and
every hazard to the properties that watch it.

Run one configuration with `tlc -config MCScan.cfg Scan.tla`, and the proofs of
one module with `tlapm ScanProofs.tla`.

## 1. The system

An MCP client sends a tool call over stdio. A handler (`internal/mcpserver`)
selects a repository and snapshots the policy lets it see, and asks the registry
(`internal/repositories`) to run a restic command: metadata commands
(`restic snapshots`) through the coalescer and its cache, content commands (`ls`,
`find`, `stats`) directly. The registry admits a command if the repository and the
server have a free slot, and the runner (`internal/restic`) starts the child,
bounds its output and time, and stops its process group. Handlers then page
through what the child printed, and hand out continuation cursors.

### 1.1 Inventory

| Part | State it keeps | Operations | What is hard | What makes it correct |
|---|---|---|---|---|
| Coalescer and cache, `repositories/metadata.go` | table of calls in flight, reference counts, shared contexts, cache with expiry | `RunMetadata`, `join`, `release`, `finish`, `cacheGet`, `cachePut` | callers join, leave and cancel at any point; `finish` stores its result after unlocking | the count is exact; nobody suffers from another's cancellation; nothing runs for nobody; only successes are served; the cache is bounded |
| Slots, `repositories/registry.go` | a semaphore per repository, a global one | `Run`, `run` | two semaphores in sequence, rejection while holding the first, deferred receives | no slot leaks or is returned twice; "busy" always has somebody to blame; a run never blocks |
| The two together | - | the leader goroutine of a call enters `run` under the shared context | `run`'s receives against `finish`'s publication | `run` is what the coalescer takes it for; identical commands never turn each other away |
| Runner, `restic/runner.go`, `process_unix.go` | child, process group, pipes, context, three timers, caps | `Run`, `RunScan`, watcher, `cappedBuffer.Write`, classification | three goroutines stop the same child; helpers hold the pipes; every cause may race every other | restic gets its grace; the runner returns in time; "ok" is complete; no process survives a success |
| Scanner, `restic/scan.go` and `browse_snapshot`, `find_files` | per page: skip count, budgets, page; per traversal: offset | `ScanLS`, `ScanFind`, page continuation | each page re-reads the stream and skips by count; hidden entries; budgets ending anywhere | pages partition the visible entries; "complete" means all; cuts are reported |
| Cursors and `list_snapshots`, `mcpserver/cursor.go`, `handlers.go` | bounded store of single-use cursors | `issue`, `take`, first page, continuation | repository changes between pages; one cursor sent twice; expiry, eviction, restart | pages follow one order, nothing twice, nothing stable missed, no fork |
| Snapshot selection, `mcpserver/selection.go` | - (frozen selection in the cursor) | `visibleSnapshots`, `resolveVisibleSnapshot`, `snapshotsByIDs` | snapshots come and go between selection, recheck, command and page; a prefix that several ids share; roots broader or narrower than what is allowed | nothing outside the policy is shown; "latest" was the newest; "not found" is true; nothing stable is overlooked; a page comes from live snapshots |
| Path, host and tag policy, `policy/paths.go` | none | allow/deny decisions | prefixes on component boundaries, Windows paths | agrees with a reference definition |
| Freshness and windows, `mcpserver/freshness.go`, `window.go` | none | grouping, latest per group, overdue | ties, empty groups | agrees with a reference definition |
| Single snapshot, statistics, `handlers.go` | none | `get_snapshot`, `repository_stats` | figures about a whole snapshot | only snapshots visible as a whole are counted |
| Repositories, capabilities | none | handlers | thin callers of the above | inherited |
| Boot and configuration, `config`, `cmd`, `repositories.New` | configuration and sealed entries, made once | load, validate, find restic, open, check and read secret files, seal, `--validate-config`, `--diagnose` | files that change between two looks at them; credentials in several files; several problems, one exit code | the verdict is true; a sealed entry is of one piece and from acceptable files; the limits fit together |
| Command lines, `restic/commands.go`, `metadataKey` | none | builders, `AssertArgvAllowed`, the key of a shared result | names that look like options, the value `--`, keys joined from words | restic reads what was meant; no two questions share a key |
| Parsing, redaction, audit, errors, schemas | none | string functions | encodings | out of scope |
| Windows processes | child | kill | - | not modelled |

The parts interact by calls only. What is shared between goroutines is the
coalescer's table and cache (one mutex each), the slots (buffered channels), the
cursor store (one mutex), the contexts, and the child with its pipes. The only
callback is the runner's consumer (`RunScan`), which may end the child early.

### 1.2 Hazards

`PROJECT.json` lists each at its line. By kind: orders of cancellation, joining and
finishing in the coalescer; leaks and double returns of slots; results published
before slots are free; three timers and a caller stopping one child; exit codes
hiding other errors; counts that shift between pages; budgets that end at the last
entry; snapshots that come and go between pages; single-use cursors under repeated
sending, eviction and restart; markers with equal times; a selection that is stale when its snapshots
are read; "latest" while a backup ends; prefixes on component boundaries and roots broader than the policy; groups made by tags
the client may not see;
secret files that are replaced while the server starts.

## 2. Modules

```
Metadata ----------\                     Admission (abstract)
   ^                \                        ^ implemented by
   | EXTENDS         Registry --INSTANCE-->  Slots
MetadataProofs       ^                       ^
                     RegistryProofs          SlotsProofs

Runner <-- RunnerProofs        Scan <-- ScanProofs        Listing <-- ListingProofs

Policy <-- Freshness <-- Selection <-- Answers <-- SelectionProofs
                             Argv <------'

Config <-- Boot <-- BootProofs
```

### Metadata (`metadata.go`)

One action per critical section, since the mutexes make each atomic and anything
may happen in between. A request goes `idle, lookup, join, wait, done` (`rpc`); a
call `free, running, returned, put, ended` (`cstate`). `Join` and `Lead` are the two
branches of `join`; `TakeResult` and `GiveUp` the two cases of the select in
`RunMetadata`, both possible when both are ready; `GiveUp` includes `release`,
which cancels the shared context when it drops the last reference and removes the
call from the table; `Finish` deletes the table entry and publishes the result,
`CachePut` runs after the unlock. `ReadRepository` marks the instant whose
state a listing reflects: a payload is abstracted to that instant (`cread`,
`asOf`). `Survivors` is `cachePut`'s pruning and eviction. `RunReturns` gives
`run`'s contract nondeterministically; `Registry` shows that the real `run` keeps
it.

### Slots and Admission (`registry.go`)

`Slots` models `run` select by select: `CheckCtx`, `TakeRepoSlot` or `RejectAtRepo`,
`TakeGlobalSlot` or `RejectAtGlobal`, `CommandEnds`, then the deferred receives in
their order (`DropGlobalSlot`, `DropRepoSlot`). `Rejection` is the non-blocking
select: a done context may win even when a slot is free. `Admission` is the
promise without semaphores: at most so many commands at a time, a request is run once or
turned away, nothing queues. The refinement maps "executing" to the span between
the second send and the runner's return.

### Registry

`Metadata` joined with an instance of `Slots` whose runs are the coalescer's calls
and the content commands. `LeadAndRun` starts `run` in the same step in
which `join` starts the goroutine; a call's context is its shared context; `Deliver`
hands the verdict to `RunReturns` only after both receives.

### Runner (`runner.go`, `process_unix.go`)

The calling goroutine (`pc`), os/exec's watcher (`execw`, modelled from how
`newCommand` configures `Cancel` and `WaitDelay`), the runner's watcher (`watcher`), the
group (`alive`) and those of its members that hold the pipes (`piped`). `Helpers` are
what restic may start: ssh, rclone, a password command. A process that leaves the group is not modelled. Processes may ignore
SIGTERM and exit at any time by themselves. `Tick` is a second, taken only when no goroutine has
a step to take, which models that scheduling delays are short against the timers. os/exec's
own kill of the leader has no action: `GroupKillComesFirst` shows that it is never due, because
`childWaitDelay` covers the graceful window. `Classification` is the
order in which the causes are looked at. `sinceTerm` and `sinceDone` are
observers.

### Scan (`scan.go`, page continuation of `browse_snapshot` and `find_files`)

The output is a sequence of kinds (a node or match the policy shows or hides, a
line of another type, a find group, something malformed) and the decoder's loop is
one action per entry. Budgets are counted in entries: a byte stands for the
encoding of one. `Continue` is the handler issuing a cursor, and the client sending
it, with any page size.

### Listing (`cursor.go`, `list_snapshots`, the order of `ParseSnapshots`)

Handlers run concurrently (`work`), cursors live in `store`, and `World` changes the
repository, the clock and the cached listing, or restarts the server. `CutPage`
is a first page by offset or a continuation by marker; `Stored` is `issue` with the clock
read before the lock; `Take`, `TakeRefused` and `TakeUnknown` are `take`. Snapshots that
the policy or the filters drop never reach the marker and are left out. Times begin with the zero time, which
`afterSnapshotMarker` takes for no marker (`NoMarker`); `Init` lets at most one snapshot have it (`ZeroTimeIsUnique`), because with two of them
a traversal may begin again, which is noted below.

### Policy (`policy/paths.go`, the filters of `selection.go` and `window.go`)

The decisions without state. A cleaned path is the sequence of its components, so that `Under` is
`pathUnder`'s test on a component boundary; an empty set of hosts, tags or paths restricts nothing, as an empty
allowlist does. `FilterPaths`, `SnapshotVisible`, `StatsSnapshotAllowed`, `MatchesFilters` and `Contains` are the
functions of those names, `LatestScoped` is `validateLatestScope`.
`PublicSnapshot` is `publicSnapshot`, by the host, the tags (`FilterTags`) and the paths that it leaves. That it redacts names is `Freshness`'s subject only,
where it may make two groups one.

### Freshness (`freshness.go`)

The summary of `list_snapshots` as operators over a set of snapshots: `Groups` by host, or by host and tags, the `Newest` of each, its
`Age`, and the `Judgement`. A snapshot from the future has age zero. The handler passes what `publicSnapshot` has left of the snapshots
(`Selection!Published`), so that tags outside the policy make no groups of their own. How a host is named and how the key of a host and its
tags is made are the constant operators `Named` and `Spelled`, about which nothing is assumed: the names are redacted first, and the code joins
the host with "|" and the tags with ",", so that two groups whose names are redacted or hold these characters may share a key. `hidden_scope`, the partial-path flags and the notes describe the configuration and are left out, and so is the status
`incomplete`, which no handler asks for.

### Selection (`selection.go`, the handlers of five tools)

One request of `list_snapshots`, `get_snapshot`, `browse_snapshot`, `find_files` or `repository_stats`, and for `browse_snapshot` and `find_files` the
whole traversal (`Listing` follows that of `list_snapshots`, which answers here with all it selects), goes through `idle, select, (recheck,) read, holding, answered` (`stage`). A step from one to the
next ends with one restic command, and `AddSnapshot` and `RemoveSnapshot` happen in between. `Found` and `Chosen` are
`visibleSnapshots` and `resolveVisibleSnapshot`, over what restic has `Reported` for the host and the tags it was asked for (`AskedHosts`: the only
allowed host stands in for one that is not given; several allowed hosts do not); `Recheck` is `snapshotsByIDs`, which `browse_snapshot` calls
always and `find_files` on a continuation. `restic ls` of a removed snapshot fails (`Fails`, the only step then
possible), `find` and `stats` pass over it. A browse page is any non-empty part of what is left, because `Scan` says where
pages are cut; a find page takes whole groups, counted by the offset in the output. Snapshots are numbered in the order of
their times; equal times are `Listing`'s subject. `Wanted`, `Visible` and `InScope` are the reference the code's tests are
compared with: they quantify over all paths where the code compares roots with prefixes.
`seen`, `stable` and `newest` observe the repository.

The metadata cache is on. If the first look is answered from it, the request is taken to begin with the observation that is in the cache. For the
second look, `kept` says whether the cache holds a look at the frozen ids at which all of them were there: another traversal may have put it there
(`KeptByAnother`), `RecheckKept` is answered from it, and it expires (`CacheExpires`). Only looks that succeeded matter, since one that found
something missing makes the selection stale at once. `seen` then goes back to that look. Left out: an unknown repository name, an id that is no hexadecimal prefix.

### Argv and Answers (`commands.go`, `metadataKey`)

Operators on sequences of words, and one function from questions to command lines for each builder (`SnapshotsArgv`, `LSArgv`, `FindArgv`, `StatsArgv`);
`Buildable` is what they accept, `AssertArgvAllowed` the function of that name, `Accepted` both. A word is one of a few strings of which only what the code
tests is known: empty or with a control character, beginning with a dash, a denied option, an id, a path with its cleaned form, and where its NULs are, which is all that
`MetadataKey` needs. `Reading` is how restic reads a command line, an assumption about its option parser: a valued option takes the next word whatever it is, `--`
ends the options. `Meaning` is what was meant. `AssertArgvAllowed` takes the first `--` for the end of the options even where it is the value of
`--tag`; what follows must then not begin with a dash, so that nothing is accepted that restic would read otherwise, but some legitimate
filters are refused. `Answers` puts the two sides together: which questions the policy of `Selection` lets a client put (`Permitted`), and whether one of them is
answered as another (`AnswersFitQuestions`).

### Config and Boot (`config.go`, `secret_file_unix.go`, `backend.go`, `registry.go`, `main.go`, `diagnostics.go`)

`Config` holds what is decided without state: `WithDefaults` and `LimitsAccepted` over the real numbers of the source, `ConfigAccepted`,
`SecretAccepted`, `ClassifyBackend`, `EnvFileAccepted`, `HasStaticS3Credentials`, `ChildEnvAccepted`. A file is its kind, size, privacy and body; the
checks of single strings are one field of a repository (`sound`), and `WithNul` stands for the values of credentials with a null byte, which only `BuildChildEnv` refuses.

`Boot` goes system call by system call: `CheckConfigFile` (Lstat), `ReadConfig` (ReadFile, which opens whatever is at the path by then), `FindBinary`,
`ProbeVersion`, and for every secret file of every repository `CheckSecretPath` (Lstat), `OpenSecret` (O_NOFOLLOW), `CheckOpenSecret` (fstat), `ReadSecret`; then
`SealRepository`, and for `--diagnose` `Contact`. Between any two of them the operator may `Replace` a file or `Edit` it in place; a descriptor keeps
its file. Opening a FIFO may block: `Spec` has no fairness, so that a boot may wait at any step, and nothing is claimed of how long it takes. `Trouble` is the difference between a server, which stops at the first problem, and a diagnosis, which goes on.
`proven` observes for each path whether the file now at it has been an acceptable secret, and `clean` whether all files read for a repository were.

### Slips

Definitions introduced by a comment "Slip:" are the code with a plausible mistake
(a missing reset, a dropped guard, an off-by-one). No specification uses them; they
show that the properties are sensitive: with the slip in place of the definition it
belongs to, TLC finds the property named in `PROJECT.json` (`mutants`) violated.

## 3. Runs

| Run | Instance | Shows |
|---|---|---|
| `metadata` | 3 requests, 2 keys, 3 calls, cache of 1, TTL 1, clock to 1 | the coalescer and its cache under every order of joining, cancelling and finishing |
| `slots` | 3 runs, 2 repositories, 2 slots each, 2 global | exact semaphores, deserved rejections, refinement of `Admission`, every run returns |
| `registry` | 2 requests, 1 key, 2 calls, 1 content command, 1 slot of each kind; clock to 1, but time passes only while no content command was started (`ContentAtOnce`) | the coalescer over the real `run`: refinement of `Metadata`, no self-inflicted "busy", slots free before the answer (through `NeverBusyByItself`), every caller answered though `run` may refuse its command |
| `runner` | a leader and 2 helpers, timeout 4, grace 2, wait delay 3 | grace, the group killed before the leader alone, timely return, honest verdicts, no survivors of a success |
| `scan` | every output of up to 6 entries, 5 bytes, 4 decoded, pages of 1 or 2 | pages partition the visible entries, whatever the budgets |
| `listing` | 3 snapshots, the 6 ways in which their times can be equal or zero, 2 traversals, 2 handlers, pages of 1 or 2, offset 0 or 1, 1 cursor, clock to 1, caching | one order, nothing twice, nothing stable missed, no fork, bounded store |
| `selection` | 3 snapshots, 3 policies (hosts: any, one, two; tags: any, one of two), 4 catalogues (each snapshot of a kind of its own, two of one host), 5 tools with every combination of host, tag, path, id and window; at most 2 snapshots per request; freshness judged at 2 moments with 3 cadences | selection, recheck and pages over a changing repository show what the policy allows, and overlook nothing stable; the freshness judgement is true of the repository; before the request, every question made of 6 names and 5 other words (two like options, `--`, one with NULs) that the policy allows is read as it was meant and has a key of its own |
| `boot` | 2 repositories that share a password file, the first on S3 with credentials in two files; 3 modes, 4 states of restic, every disk with at most one fault, 1 change by the operator during the boot | exit codes are true of the disk; what is sealed is of one piece and from acceptable files; limits fit together |
| `metadata_coalescing` | 3 requests, 1 key | finding 1 |
| `runner_waitlimit` | 1 helper | finding 2 |
| `runner_group` | 1 helper | finding 3 |
| `scan_pagelimit` | outputs of up to 5 entries | finding 4 |

**Why these bounds.** In the coalescer three callers make the smallest case with a last, a first and a middle one
to leave, and three calls the smallest in which an
abandoned call, its successor and a third are alive at once; a cache of one
entry over two keys forces eviction. In `slots` two repositories and
two global slots let a run be turned away at the global limit while its
repository has room, and two slots per repository let it be turned away there
too. `registry` has one slot of each kind, so that the content command
and a winding-down call can both starve the next one; calls are interchangeable until they are made, so that a
leader takes the next unused one (`NextCall`). `ContentAtOnce` leaves out the steps of the clock once a content command was begun: what a content command has in
common with the coalescer is the semaphores, which know no time, and time only ages the cache, which needs no semaphore. No fairness is asked of the clock, so that
this takes no premise from the liveness properties; the proofs need no such restriction. In `boot` a disk has at most one fault to begin with, and the operator makes at most one change
(`MaxChanges`), which may undo the fault or add a second one, between any two system calls; two repositories, of which the first has two credential files, give a first and
a last one, and a password file both use. In the runner the wait delay is longer than
the grace, as in the code (3 s and 2 s), and a timeout of four, before which the wait delay can run out, lets everything race
with everything. In `scan` the byte budget may end before, at and after the entry budget and the
end of the stream, with two find groups and up to three pages. In `listing` only the order
of the snapshots' times matters, whether two are equal, and whether one is zero: `Times` lists these cases up to the names of the snapshots, ties across a page boundary
among them; a store of one
cursor makes two traversals evict each other. In `selection` a snapshot's roots are within, above or across the allowed paths, and
so is the scope asked for; two of them share their host and differ in a tag that is outside the policy, if it has tags; one id prefix stands for two snapshots, a window begins or ends at the middle snapshot, and
the limit of two is below the number of snapshots, so that it is met, and a find page may be shorter than the selection. The two moments at which freshness is judged lie
before and after the newest snapshot, so that there are snapshots from the future and ages below, at and above the cadences of one and two.

Symmetry is used in the safety runs `metadata` and `listing`, whose symmetric values are only
compared for equality; never with liveness.

**Deadlock** is not checked where a run may end: a finite number of requests,
commands or processes, and a clock with a bound, leave nothing to do.

**Fairness.** `Slots`, `Registry`: a goroutine that can take a step takes one, and a
running command ends, because `run` gives every command a timeout and the runner returns after it (which is
`Runner!RunReturns` and `ReturnsInTime`). In `Registry` one weak fairness condition over all these steps is enough: somebody
who can go on does, and since no step of a caller, command or call can be repeated for ever, everybody comes to an end. Clients owe nothing: they need
neither ask nor cancel. `Runner`: goroutines are scheduled and time passes; no process need ever exit.
`Scan`: the scan goes on and a client that was given a cursor uses it,
which is the premise of asking whether a traversal ends. `Listing` is checked for safety only.

## 4. Proofs

Each theorem is of the specification TLC checks, for every number of requests,
keys, calls, runs, repositories, every capacity, TTL, budget and page size. The assumptions are
the ASSUMEs of the modules: finite sets, distinct placeholder values, and at least one slot, byte, entry and
page, which `validateLimits` enforces at boot (TLC evaluates them in every run).

* **MetadataProofs.** `TypeInv` (TypeOK and "an ok outcome has read") is inductive. `SharingInv` adds
  the heart of the argument: `refs` equals the number of waiters; a waiter's call is in the table or
  finished; what the table offers is for its key, in flight and not cancelled; and only abandoned
  calls are cancelled. The count alone is not inductive: a caller that joins changes it only because
  the table offers live calls, and the table does so only because `release` cleans up at the last
  reference, which needs the count. From it follow `RefsAreExact`, `Isolation`, `NoZombies`,
  `CancelledIsOwn`, `TableIsLive`. `CoalescingInv` gives `Coalescing`: while nobody gives up, every
  call in flight is the table's. `ServingInv` gives every cached or served
  datum a source, a finished successful call for that key (`ServedIsRead`). `BoundInv` gives `CacheIsBounded`.
* **SlotsProofs.** `SlotInv`: types, and each semaphore equals the cardinality of its holders. The
  holders change by one element exactly at a send or a receive (`SlotTaken`, `SlotDropped`). Hence
  `NoLeak`, `BusyIsDeserved`, and `KeepsPromise`, the refinement of `Admission`.
* **RegistryProofs.** `RegistryInv` relates the position of `run` to the state of its call (a call in
  flight is inside `run`, one that was delivered has returned) and the verdict to what it means (cancelled only if
  the shared context is done, ok only after a read). It gives `CoalescerWorks` (the composition
  implements `Metadata`, so its theorems carry over: `IsolationThroughSlots`), `AnswerFreesSlots`, `SlotsAreWanted`,
  `IdenticalNotInTheWay`, and `SlotsExactThroughCoalescer`: seen from the slots, the composition is `Slots`.
* **ScanProofs.** `ScanInv`: what earlier pages listed is the first `offset` visible entries
  (`Traversed`); during a scan, what was skipped and kept are the visible entries up to
  `pos` (`Scanned`); a finished page is flush with what it claims (`Paged`). It gives
  `Consecutive`, `CompleteIsAll`, `CutsAreReported`.

* **ListingProofs.** `Inv` joins types, `Alone` (a traversal has at most one cursor or handler, and only while its client may go on), `Small` (the store) and
  `Walks`: the marker of every cursor, reader and answer is the last snapshot its client was or will be shown, and all that stayed and is not behind it was listed. That no
  traversal forks is what keeps a marker flush: a second handler of the same traversal would list behind its back. It gives `Typing`, `StoreIsBounded`, `NoTraversalForks`, `PagesDescending`,
  `NothingMissed`, for any numbers of snapshots, traversals and handlers, any page sizes, offsets and bounds.
* **BootProofs.** `BootInv`: types; what a stage needs has been begun (`Begun`); the limits of a configuration that was let through fit (`ConfigFits`); an open
  descriptor whose file is acceptable was seen to be so while it was at its path (`Observed`); the location in use was accepted (`Located`); and every
  sealed entry is whole. `Observed` is what `SealedProven` needs: fstat looks at the descriptor, and only a descriptor that is still linked follows the
  path. It gives `Typing`, `SealedWhole`, `SealedProven`, `LimitsFitting`, for any files and any number of changes.
  `VerdictsTrue` needs more, and only of boots during which nothing was changed (a change can make any verdict out of date):
  `Faithful` says that what was read is still on the disk (`FilesTrue`, `ConfigFaithful`), that every repository sealed so far is good and every problem
  noted has its cause (`SealedSoFar`, `ProblemsTrue`). The entries of a repository's files are gathered into one sequence; `EntriesUpTo`
  says which of them came from which file, so that a variable given twice or a credential missing in the sequence is one in the files.
* **RunnerProofs.** `Inv` joins types, `Phases` (what may be true at each point of `run`: no child before the start, no leader after
  `Wait`), `Timed`, `Outcome` (what each error of `Wait` says of the child's exit and of what was read) and two of the properties.
  `Timed` is the argument: two timers run against each other, the watcher's graceful window and os/exec's wait delay, and they are
  comparable only because both count from the same moment. `Tick` waits for every step that is due (`Urgent`), so what is left of
  each is a function of `sinceTerm`, and the shorter window ends first. It gives `Typing`, `GroupIsKilledFirst`,
  `ReturnsWithinDelay`, `OkIsHonest`, `SurvivorsOfFailureOnly` and, of steps, `GraceIsGiven`, for any group of processes and any
  durations that satisfy `TimeAssumption`. They are theorems of `Spec`, which the fair specification of the run implies.
* **SelectionProofs.** First about paths of any length: `FilterPathsExact` (the paths under the filtered roots are those under a
  root and allowed), `OverlapExact` (two paths overlap if something is under both), `StatsAllowedIsWhole`. Then `SelInv`: types; nothing is frozen before the choice (`Untouched`); what is present has been observed
  (`Watched`); arguments past the checks were granted (`ArgumentsGood`); what is frozen was wanted and chosen (`WellChosen`);
  pages are read from snapshots seen during their call (`ReadsLive`). The key lemma, `FoundIsWanted`, equates the code's tests with the reference,
  from those facts about paths. It gives `ShownIsWithinPolicy`, `SelectionIsMeaningful`, `StatsAreWithinPolicy`,
  `LatestIsNewest`, `LiveSelection`, `PrefixesAreDecided`, `NotFoundIsHonest`. `FreshnessHolds` adds that what is
  listed holds all that stayed and is wanted (`Listed`), and needs that a finite set of numbers has a last one (`FiniteHasLast`, from the
  well-foundedness of strict inclusion), and that the code groups published snapshots by what the client may see of them (`KeyIsSeen`). `NothingOverlooked` adds `Accounted`: everything wanted was chosen, and while no snapshot
  was removed, the groups that `find_files` has shown are an initial part of all groups in their order (`GroupByGroup`). Only because
  they are is the number of groups shown the place where the next page has to begin (`NextInOrder`, by counting).
  Last come the command lines, for any words, lists of any length and any policy: `NothingMisunderstood`. A line built from switches, options with their
  values and a rest is read as that (`RolesOfLine`, `LineRead`): the roles of its words are given outright, shown to follow restic's rule, and no other roles do (`RolesAre`). Each
  builder's line has this form whatever its words look like (`FlagsAdded`, `LineClosed`), because options stand in their places by counting and ids, paths and patterns
  cannot begin with a dash; only `ls`, with its switch after the id, is read word by word (`ListingRead`). Keys
  differ because no word of an accepted line has a NUL (`KeyIs`, `KeysApart`).

`RefsAreExact`, `TableIsLive`, `AnswerFreesSlots`, `SlotsAreWanted`, `SelectionIsMeaningful` and `PrefixesAreDecided` state invariants that no
run lists, because the properties of the runs follow from them: they are lemmas worth knowing of.

**Only model-checked**: liveness (`EveryRunReturns`, `EveryCallerAnswered`, `RunReturns`, `TraversalEnds`), since proofs about
fairness and ENABLED are out of the prover's reach. Every other property of a passing run is stated by a theorem. The library's induction
theorems cannot be used either; where a recursive function is proved about, its value is given and shown to obey its equation, or a
last counterexample is ruled out.

## 5. Findings

1. **An abandoned call evicts its successor** (`metadata_coalescing`, `metadata.go:150`). `finish` deletes whatever
   the key maps to. Caller A leads a call and leaves; `release` takes the call out of the table; B leads a second one; the
   first command ends and its `finish` removes the second from the table; C leads a third beside it. While no client gives up this cannot happen (`Coalescing`).
2. **The wait limit does not always end the group** (`runner_waitlimit`, `runner.go:172`). If restic exits with an
   error while a helper holds the pipes past the delay, `Wait` returns the exit error instead of `ErrWaitDelay`, and the group is not killed.
   `SurvivorsMeanFailure` says what does hold.
3. **A cancelled group may survive** (`runner_group`, `runner.go:163`). The watcher leaves when `Wait` has returned; a
   helper without the pipes that ignores SIGTERM never gets the SIGKILL SECURITY.md describes.
4. **A find page may exceed its size** (`scan_pagelimit`, `scan.go:465`). The limit is compared with the matches of one group.

Noticed while modelling: freshness groups by the tags that the policy allows, so that of two backups of a host that differ only in a hidden tag the newer one
speaks for both (`handlers.go:249`); the cache TTL counts from the end of the command
(`metadata.go:107`); the group key of freshness does not tell "h|a" without tags from "h" with the tag "a" (`freshness.go:169`); with the metadata
cache on, ages are taken from the current clock over an older listing, so that "overdue" may be said of a repository that has a newer
snapshot (`freshness.go:51`); exit code 130 of a child that someone else interrupted is reported as `cancelled` (`runner.go:375`); a page
that fills just as a budget ends issues a cursor whose page is empty (`scan.go:482`); a snapshot
added with an old time appears in a traversal under way (`handlers.go:354`); a continuation answered `resource_busy` has
spent its cursor (`handlers.go:109`); the continuation of `find_files` loses the requested time window in its report (`handlers.go:706`); a snapshot removed between the recheck
of a find continuation and `restic find` shifts the count of groups to skip, so that a group of a snapshot that is still there is never shown (`handlers.go:686`, the
reason for the premise `frozen \subseteq stable` of `NothingStableOverlooked`); with the metadata cache on, the recheck may
look at a cached listing (`selection.go:194`); `selected_snapshots` of `repository_stats` counts one that was removed before
`restic stats` ran (`handlers.go:892`); of two snapshots with the zero time, the first as a marker makes a traversal begin again
(`handlers.go:355`); `config.Load` opens the file by its path after it has looked at it (`config.go:132`); `--diagnose` contacts repositories with
a restic that is too old or whose version is unknown, and then exits with 2, while the message of `diagnostics.go:120` asks for a supported one; credentials
split over two files may come from different rotations (`registry.go:76`).

## 6. Not modelled

Windows process handling (a different, simpler stop path; secret files on Windows, where permissions are left to the file system);
`--version` and contradictory flags, which end the program at once; the text of reports; JSON decoding, redaction, audit and schemas (data formats without state); the MCP SDK's transport; the test
harness and build scripts. From the modelled parts, payload bytes, wording and logging are left out.

## 7. Plan

The order is: first what is shared between requests and goes wrong silently, then what a single request relies on.

1. Done: `Metadata`, `Slots`/`Admission`, `Registry`, `Runner`, `Scan`, `Listing`, `Policy`, `Freshness`, `Selection` (with the metadata
   cache on), `Argv`, `Config`, `Boot`, and the proofs above.
2. Proofs of every safety property the runs check: done.
3. `list_snapshots` against docs/tool-contract.md:152-153: a run of `Listing` that shows an addition with an old time spliced into a
   traversal.
