# Formal models of Lammergeier

Lammergeier is a language with a compiler to Go (`src/compiler/`, Python), a standard library
written in the language itself (`src/lib/*.lam`), a package manager, a package registry and a
language server. This directory holds TLA+ models of the parts whose correctness depends on
interleavings, failures and long sequences of steps, the configurations that check them with TLC,
and theorems about them proved with TLAPS. `PROJECT.json` is the index: components, runs, the source
lines each definition stands for, hazards, findings, theorems.

Paths below are relative to the repository (`src/`).

## 1. Inventory of the system

### Modelled

**Channel** (`lib/lamconcurrency.lam`). A channel is closed at most once and is one of two things.
*Unbounded*: a slice under a mutex, a Go channel `ready` that holds at most one wake-up token, and a
Go channel `done` that close closes. *Bounded* or *rendezvous*: a Go channel `data` of fixed
capacity, and `done`; each operation is a sequence of `select` statements. Operations: `send`,
`offer`, `receive`, `receiveTimeout`, `poll`, `close` (and `asyncSend`, `asyncReceive`, which wrap
the first ones in a goroutine). Hard: one token stands for any number of queued values; `select`
picks at random among the ready cases; what a first `select` saw may be stale at the second. Correct
means: FIFO, nothing lost or duplicated, "closed" answered only when drained, nobody parked beside a
value, nobody parked after close.

**Actor system** (`lib/lamactor.lam`). State: a registry (`actors`, `named`, `nextId`) under a
mutex, and for each actor an entry with a flag `stopped`, a bounded mailbox and one goroutine that
loops over it. Operations: `spawn`, `spawnNamed`, `tell`, `ask`, `stop`, `shutdown`, and the loop
itself; handlers may make the same calls as anyone. Hard: an entry looked up under the mutex is used
after it; a name may be bound again between the stop of its holder and the removal of its entry; a
handler may stop its own actor or the whole system; a handler panics. Correct means: orderly stops
drain, live actors stay reachable, every call returns, a stopped actor exits.

**Cron** (`lib/lamcron.lam`). State: `_started` under a mutex, and the robfig/cron scheduler.
Operations: `schedule`, `remove`, `start`, `stop`; jobs call back. Hard: `stop` is two steps, and it
waits for jobs that may themselves be in `stop`.

**Database handle** (`lib/lamdb.lam`). State: of a call of `exec`, the attempts made; of a
`transaction`, Go's `sql.Tx`, the flags of the wrapper `Tx` and what the server did. Operations:
`exec` with its retries, `transaction` with a callback that may run statements, commit and roll back
in any order. Hard: an answer may be lost after the statement took effect; the context may be
cancelled at any point. Correct means: what the caller is told is what became of the work.

**Migrator** (`lib/lammigrate.lam`). State: a directory of `.sql` files, the table `lam_migrations`,
the schema. Operations: `up` and `down`. Hard: each statement commits by itself, and a call may end
at any of them. Correct means: the table says what is in force, files are applied without gaps, a
batch is one call.

**Registry server and client** (`tools/registry/server.py`; class `Registry` of
`compiler/install_cli.py`). State: one index file and the tarballs of each package, on disk; a cache
of tarballs by digest on the client's side. Operations: publish (a POST, one thread per request, no
lock), the two GETs, download. Hard: overlapping publishes, a death between emptying a file and
writing it, a cache shared by installs. Correct means: what is installed is what was published, a
listed version can be fetched, versions are immutable and stay.

**Package manager** (`compiler/install_cli.py`, `manifest.py`, `apidiff.py`). State: the tree
`extlibs/`, the pins and Go pins of `lamlib.lock.toml`, the dependencies in `lamlib.toml`; nothing
keeps the three in step. Operations: install with its breadth-first walk, bare and frozen install,
uninstall, tidy, verify. Hard: versions chosen early must suit demands met later, and those of
libraries already there; libraries lie inside one another's directories; a command dies, or is
refused halfway. Correct means: installed libraries find what they ask for, the lock file describes
the tree, a frozen install restores it.

**Flow analyses of the checker** (`compiler/semantic.py`). State of the visitor: the names
definitely assigned, whether the suite terminates. Hard: loops with `else`, `break` and `continue`,
`try` with its four suites, `do`, nested in any way. Correct means: a local taken for assigned is,
and no function falls off its end.

**Narrowing** (`compiler/narrowing.py`, `semantic_narrowing.py`, `visitors/narrowing.py`). Where
`isinstance(x, T)` is known to hold, the checker and the code generator take `x` for a `T`; the
generated code reads a second Go variable. Correct means: that variable has the value of `x`, and
`x` is a `T`.

**Class lowering** (`compiler/visitors/definitions.py`, `subtyping.py`). Classes become Go structs
with embedded pointers, virtual calls go through a field `_lamSelf`. Correct means: whatever the
static type, the object's own definition runs, from the first line of its constructor on.

**`try` and `do` lowering** (`compiler/visitors/statements.py`). They become Go closures; a `return`
inside one sets flags that later code looks at. Correct means: a return, a `?` and a raise get where
they were sent.

**Naming of definitions** (`compiler/namespacing.py`). All modules of a program share one Go
package; definitions are renamed, imports and aliases rewritten. Correct means: two definitions
never share a Go name, a reference reaches its definition.

**Builds and their caches** (`compiler/lammergeier.py`, `cache.py`). State: the markers of clean
checks, the library cache, and the files, which an editor changes meanwhile. Correct means: a
skipped check would have been clean, a cached text is what the translation would give, modules are
initialised after what they import.

**Language server's modules** (`compiler/lsp.py`, `modules.py`). State: the open documents, the
index of modules. Messages open, change and close documents and report files late. Correct means:
the server sees what the editor shows.

### How the parts interact

An actor's mailbox is a bounded Channel: `tell` and `ask` use its `offer`, the loop its `receive`,
`stop` its `close`. `ActorSystem` keeps the mailbox at the grain of those operations (refusal,
acceptance, late acceptance after close, drain), which is what `BoundedChannel` establishes about
them. The registry server and its clients share nothing but HTTP: `Registry` composes the two in one
module, the client reading the files the handlers write. What `Packages` needs of a registry is
which versions it offers. A migration is run statement by statement through `Db.exec`; the migrator
needs to know only which statements are in force when a call ends, and takes any answer. Inside the
compiler the parts are passes over one program: the checker (flow, narrowing) decides what is
accepted, naming and lowering decide what Go sees, the build decides which of it is done again. Each
is correct for whatever the one before lets through, so that the models share no state.

### Not modelled

| Part | Why |
|---|---|
| Contexts, retry, rate limits, caches | Go's context package, one mutex section per call, loops around a callback, arithmetic on the clock |
| What the language server answers; formatter, `migrate_cli` | functions of a text |
| Grammar, type inference, overloads, diagnostics | recursive functions over programs of any size, with no state but the program |
| The rest of the code generator | emits Go text: a statement of its correctness needs a semantics of both languages |
| Path lookup, preprocessing, `go.mod`, the call of the Go compiler | glue, and external tools |
| Schema builder | pure text |
| Locks, wait groups, atomics | each call goes to Go's `sync` |
| Network, process and file wrappers | each call goes to the Go standard library |
| Data structures and pure libraries | sequential functions, well covered by the tests |
| Editor extension, website, examples, benchmarks, scripts | no state of the program's own |

Most of the lines of the compiler are of the third and fourth kind: what they compute is a function
of a syntax tree. The models take from them the parts with an order of steps in which something can
go wrong.

## 2. Modules

| Module | Stands for | Lines |
|---|---|---|
| `ClosableQueue` | abstract: what a Channel promises, whichever implementation is behind it | 63 |
| `UnboundedChannel`, `MCUnboundedChannel`, `UnboundedChannelProofs` | channels over slice, token and `done`; theorems | 654 |
| `ActorSystem`, `MCActorSystem`, `ActorSystemProofs` | the actor system; theorems | 802 |
| `BoundedChannel` | channels over a Go channel and `done` | 249 |
| `Cron`, `MCCron` | the cron wrapper | 146 |
| `MCConcurrency` | instance: a bounded channel, or a Cron | 28 |
| `ConcurrencyProofs` | theorems about `BoundedChannel` and `Cron` | 503 |
| `Migrator`, `MCMigrator` | migrations | 230 |
| `Db` | statements and transactions | 239 |
| `MCDatabase` | instance: a migrator, a database handle, or the registry | 34 |
| `DatabaseProofs` | theorems about `Migrator` and `Db` | 851 |
| `Registry`, `MCRegistry`, `RegistryProofs` | server and client; theorems | 1179 |
| `Packages`, `MCPackages`, `PackagesProofs` | the package manager; theorems | 2661 |
| `FlowAnalysis`, `FlowAnalysisProofs` | definite assignment and termination; theorems | 1575 |
| `Narrowing` | narrowing of a local | 249 |
| `Dispatch` | classes over Go structs | 176 |
| `TryLowering` | `try` and `do` as closures | 227 |
| `Namespaces` | names in the one Go package | 216 |
| `Builds` | builds, checks, caches, initialisation order | 235 |
| `Documents` | the language server's index of modules | 134 |
| `MCToolchain` | instances of the eight parts of the toolchain | 65 |
| `ToolchainProofs` | theorems about `Documents`, `Builds`, `Namespaces`, `TryLowering`, `Narrowing` and `Dispatch` | 6159 |

Operators whose comment calls them a mutation are not part of the models. Each is a definition
changed the way a plausible bug would change it; `PROJECT.json`, under `mutants`, says which
property then fails.

### ClosableQueue

A queue that takes values (`Put`, or `Handoff` when sender and receiver meet), hands them out in
order, is closed once, and answers "closed and drained" only when it is. The constant `LateAccept`
says whether a send may still win after close: FALSE for unbounded channels, TRUE for bounded ones,
where the code does allow it.

### UnboundedChannel

`queue`, `ready` and `closed` are the code's slice, token and `done`. What runs under the mutex is
one step. A blocking receive is `BeginReceive` (the first look under the mutex), then `SelectReady`
or `SelectDone` (the `select`), then `TakeAgain` (the look after a token, which passes the token on
if values remain); `Timeout` belongs to `receiveTimeout`. `accepted`, `delivered` and `told` are
history, and are what the refinement to `ClosableQueue` maps to.

- `NoLostWakeup`: a queued value has a token, or a receiver that consumed the token and is on its
  way.
- `WaitingReceiverServed`, `CloseReleasesReceivers`: nobody stays parked beside a value, or after
  close.
- `ImplementsClosableQueue`: FIFO, nothing lost or duplicated, "closed" is final, with no late
  acceptance.
- `Conservation` (what was accepted is what was handed out followed by what is queued) and
  `DrainedIsFinal` follow from it; they are proved, not run.

### BoundedChannel

One action per case of each `select`: sending into the buffer, meeting a receiver (`Rendezvous`),
the `done` case, the default, the drain after `done`, the timer. A receive through `done` looks at
`data` once more before it says closed.

- `LateSendRefused`: a value whose send began after close is never accepted.
- `CloseReleasesAll`: nobody stays blocked once the channel is closed.
- `ImplementsClosableQueue`, with `LateAccept`: a send that looked at `done` before close may be
  accepted after it, even after a receiver was told "closed". The value then stays in the buffer
  until somebody receives again. The code's two selects allow this.

### ActorSystem

Each section under `registry.mu` is one step, and so is each mailbox operation and each look at
`stopped`. `pc`, `dst` and `kind` say which call a goroutine is in, so that an entry is used after
the lookup exactly as the code does it. A client and an actor's handler run the same actions; an
actor calls only while its loop is in `handle`. A message is its sender, its number and its kind.

- `OrderlyStopDrains`: an actor that was told to stop and left its loop has handled all that was
  accepted before the mailbox was closed.
- `BindingsRegistered`: a bound name leads to a registered actor of that name.
- `LiveAreRegistered`: an actor that nobody stopped is in the registry.
- `LiveBindingKept`: no step takes a name away from a live actor.
- `CallsReturn`, `StoppedActorsExit`: with timed waits every call returns, also that of a handler
  that stops its own actor; an actor told to stop exits.

### Cron

`started` is the flag, `running` the external scheduler. `Stop` clears the flag, `StopScheduler`
stops the scheduler, `StopWaited` waits for the jobs in flight.

- `StoppedDoesNotRun`: with no stop between its steps, a Cron marked stopped fires nothing.
- `StopReturns`: a stop that no later start undoes returns, unless a job of this Cron is itself
  waiting in stop.

### Migrator

A call lists the directory and the table first (`Up`, `Down`) and works the list off: `ReadFile`,
`RunStatement`, then `Record` or `Forget`. `Stop` is every way a call can end early: an unreadable
file, a failing statement or query, the death of the process. Files come and go at any time. Rows
have the ids the table gives them, which is the order `down` uses. An irreversible file has an empty
down section, as the code lets it have.

- `RecordAgrees`: a file no call stopped in and no call is at work on has a row if and only if all
  its statements are in force (irreversible files excepted once rolled back); else none is.
- `BatchesFollowCalls`: two rows share a batch exactly when one call of `up` inserted them.
- `NoGaps`: a file is recorded only when every earlier file its call saw is recorded.

### Db

One call is made. `Attempt` and `AttemptFails` are the rounds of `exec`'s loop, the second with an
error that is transient or not and an effect that took place or not; `Wait` is the pause, which a
cancelled context ends. A transaction is `Begin`, then what the callback does (`Run`, `RunFails`,
`Commit`, `Rollback`, `Return`), then `EndFailed` or `EndOk`, which look at the flags `rolledBack`
and `committed` as the code does. `Expire`, `ExpiredRollback` and `Disconnect` come from outside.
`database/sql` and the drivers are external and modelled as their docs and the code's use of them
have it.

- `AppliedAsAnswered`: beside the attempts whose answer was lost, an Ok stands for one attempt that
  took effect, an error for none, and there are at most `MaxRetries + 1`.
- `TransactionAnswers`: what `transaction` answers is what became of the work, but for commits whose
  answer was lost and callbacks that commit and then fail; no connection is left inside a
  transaction.

### Registry

One package. A handler is `Publish` (the checks, with the index read there and never again), then
`OpenTarball`, `WriteTarball`, `OpenIndex`, `WriteIndex`, `Answer`; `Die` at any point. Opening a
file empties it; writing over what another handler wrote gives one's own bytes or a mix. A download
looks into the cache, drops a bad file, fetches, compares the digest, fills the cache; any of it may
fail. Yanking is external: the server reads the flag and sets it nowhere, so an operator edits the
index while no handler is at work.

- `OneLiveEntry`: no two live entries for one version, however handlers overlap.
- `EntryHasTarball`: a listed version never answers 404. It holds because of the order of the code,
  the tarball (`server.py:287`) before the index (299); the docstring of `server.py` (41-45) has the
  opposite order (section 3).
- `InstallsWhatWasPublished`: a download gives whole bytes that some publisher sent for that
  version.
- `PublishedForGood`: unless handlers overlapped or one died with the index open, each acknowledged
  upload of a version never yanked is listed, with its own tarball.

### Packages

`disk`, `pins`, `goPins` and `manifest` are the files; `job` is the command that runs. An install is
`Install` (resolution of the named library), `Descend` once per library met (one round of the
breadth-first walk), `Sweep` (the final check of all demands and of the Go majors), then per library
`Keep`, `Refuse` (the API gate) or `RemoveTree` and `CopyTree`, and at the end `WriteLock` and
`WriteManifest`. `Frozen` copies what the pins say, with force. A directory holds the libraries
whose name extends its own: removing it puts them aside, copying puts them back. `Die` may leave
half a tree, half a lock file. `unsettled` remembers that a command died or was refused halfway, or
that an uninstall took nested libraries along.

- `DemandsMet`: on disk every library finds its dependencies in versions its ranges admit.
- `PinsMatchTrees`: `lamc verify` has nothing to report (`VerifyPasses`). Both hold until something
  is unsettled. What verify hashes with a library is all that lies in its directory but the
  directories of pinned libraries (`_verify_pin`): a nested library without a pin counts (`Strays`).
- `FrozenRestores`: a frozen install that gets to its end has every pinned tree whole and as pinned,
  whatever was there before, and cleared it of what dead commands left in its directory, but for
  installed libraries, pinned or not, and what lies in them.
- `FrozenRepairs`, that verify passes then, is violated by those without a pin (section 3, run
  `frozen_verify`).
- `GoPinsCover`: the Go version locked suits every library then on disk.

### FlowAnalysis

The body of a function is not chosen beforehand: it grows by one step of the visitor at a time (a
statement, or the opening, continuation or end of a construct). Beside what the visitor knows
(`marks`, `ends`, ...), the state has what holds of the executions that get there (`path`): whether
there is any, and what all have assigned. So one state stands for all executions of all functions
with that prefix.

- `ReadsAssigned`: names the checker takes for assigned are assigned in every execution. Excepted
  are `owed` names (marked in a `do`, or in the `else` of a loop that breaks) and `hidden` ones
  (inside a handler or a `finally`), where the code marks too much; see section 3.
- `NoFallOffEnd`: nothing gets past a suite that the checker holds to terminate.

### Narrowing

One local `x`, classes `B` and `C` below `A`. Each step executes one test or statement and says of
the region it enters whether its text assigns `x`. A region has the type `x` is taken for (`type`)
and what the Go variable in scope holds (`view`); conditions give facts on their true and false
sides (`ConditionFacts`), branches of an `if` that all exit give facts behind it, and a region that
assigns `x` is not narrowed. A nested function may assign `x`, with or without `nonlocal`.

- `NarrowedHolds`: what is read is the value of `x`, and of the type assumed, but for `rebound` (a
  nested function without `nonlocal`) and `reassigned` (the finding of run `narrow_guard`).

### Dispatch

For each hierarchy of four classes without diamonds, each choice of methods and constructors, one
object is made: `New`, `ParentInit` (a call of a parent's `init`), `Return` (the parent replaced,
the object bound into it), `Made`. `Called` is the definition that runs when a method is called
through a view, over Go's promotion rule and the wrappers. `UpIn` is the class with its ancestors, a
recursive function since parents come before their children; as no class is reached over two paths,
the depth of an ancestor is the number of classes on the way (`Distance`).

- `ViewsBehaveAsObject`: through every base, calls and class tests find the object's own class, also
  inside constructors.

### TryLowering

`running` is the stack of `try` and `do` statements, `slots` the Go flags that were declared, `slot`
the pair in scope. `due` is what the program asked for and has not got yet: a return, a `?`, a
raise. A `finally` runs with what it holds up put aside.

- `ExitsAsAsked`: code runs only while nothing is due, and the call ends with what was asked for,
  but for calls in which code began while the flag in its scope still asked for a return (`stale`;
  see section 3).

### Namespaces

One module, here, imports from two others, the first of which may pass on names of the second. One
step handles one import (`HandleBinding`, the loop of `build_plans`); renamed definitions are
functions of the modules' symbols. Definitions are functions and classes, which are exported in Go,
private functions, whose first letter becomes lower case and which the checker lets nobody import
(`IsPrivate`), and consts, which keep their spelling. A module stands for the tag that is appended
to its names.

- `GoNamesApart`: definitions of different modules never share a Go name, nor does a const share one
  with a definition of its own module, unless that one is renamed too, for the sake of a third
  module (section 3).
- `ReferencesReachDefinitions`: every name and member that here uses is spelled so that the code
  generator finds its definition.

### Builds

A build is `Start`, `ReadModule` per entry of the worklist, `Resolved`, `CheckModule` per module in
any order, `Checked`, `EmitLibrary` per module in any order (the pool of workers), `Link`, `Finish`;
or `Abort` anywhere. Edits of libraries and of the main file come between any two steps. A source is
what it imports and the version of what it declares; a module is clean if all it reaches have its
version. The order of initialisation is a walk (`InitWalk`) over a list of modules to visit and to
leave (`VisitNext`), which is the call stack of the recursive `visit` written out.

- `SkippedAreClean`: a module whose check is skipped would check clean.
- `TextsAreFresh`: a text from the cache is what its file would be translated to in this build, but
  for dispatching calls on other libraries' classes.
- `ImportsInitFirst`: each module is initialised once, and after all it reaches, unless it reaches
  an import cycle.

### Documents

`onDisk` is the file system, `opened` the editor's documents, `indexed` the server's index.
`DidOpen`, `DidChange`, `DidClose`, `DidChangeWatchedFiles`, `Scan` (completion and symbol search),
`Request` (anything else) are the handlers; a check may read and index any files it meets.
`WriteFile` is the world.

- `ServerSeesEditor`: what a check finds of a module is the document if it is open, else the file,
  but for files whose change was not reported yet and open documents a scan has replaced.

## 3. Runs

| Run | Instance | Shows |
|---|---|---|
| `unbounded` | 3 goroutines, one of which sends twice, the others once, any number of receives of each kind, close | no lost wake-up, release of receivers, implementation of `ClosableQueue` |
| `concurrency` | a channel: 3 goroutines, two of them send once, capacities 0 and 1; or a Cron: 3 goroutines, 2 jobs, one of which calls stop | the properties of `BoundedChannel`, and `ClosableQueue` with late acceptance; those of `Cron` |
| `actor_safety` | 1 client with 2 messages, 2 actors, 1 name, mailboxes of 1, timed and untimed shutdowns | the safety properties |
| `actor_live` | 1 client, 1 actor, one message each, timed waits | `CallsReturn`, `StoppedActorsExit` |
| `migrate` | 3 files of 2, 1 and 2 statements, the second irreversible; 3 calls of `up`, steps 0 to 2; or a handle: 2 statements, 3 retries; or the registry: 2 handlers, 1 client, 2 versions, 2 contents, 3 uploads | the properties of `Migrator`, `Db` and `Registry` |
| `toolchain` | eight instances, one per part of the toolchain | the properties of `Packages`, `FlowAnalysis`, `Narrowing`, `Dispatch`, `TryLowering`, `Namespaces`, `Builds`, `Documents` |
| `actor_ask` | as `actor_live` | finding: an ask answers Ok although the handler panicked |
| `cron_restart` | as the Cron of `concurrency` | finding: a start between the two halves of a stop is undone |
| `migrate_failed` | as `migrate`, 1 call of `up` | finding: a failed file is not rolled back |
| `registry_immutable` | as the registry of `migrate` | finding: overlapping uploads of one version are both acknowledged |
| `narrow_guard` | as in `toolchain` | finding: facts of a guard survive an assignment in its `else` |
| `frozen_verify` | as the packages of `toolchain`, 3 commands | finding: a frozen install does not repair what verify reports |

`toolchain`, `migrate` and `concurrency` check parts that share no state: the variable `part` picks
one in the initial state, and the others rest. No interleaving of two parts is left out that could
matter, since none reads what another writes. Every run sets `CHECK_DEADLOCK FALSE`: a program may
stop calling, a function body may end, a bound may be reached, so that a state in which nothing more
happens is legal. What must not stay blocked is stated as liveness.

### Why the bounds are enough for the cases that matter

- Channels: two receivers parked while two values arrive is the least that needs the token passed
  on. The third goroutine sends both (`MaxSends` is 2 for it): a run in which the token is not
  passed on (the mutant of `WaitingReceiverServed`) leaves the second receiver parked beside a
  value. Sends, receives and close overlap three ways. Capacity 0 has rendezvous, capacity 1 a full
  and an empty buffer. Receives are not counted, so their number is unbounded.
- Actors: two actors and one name give the rebinding of a name while its old holder is being
  removed; a mailbox of one is full after one message (64 in the code). The liveness run has one
  actor, whose handler also calls.
- Cron: two stops and a start overlap; one job that stops and one that does not.
- Migrator: three files have a gap in the middle; with three calls of `up` a batch comes after
  another one was rolled back; two statements have a place between them.
- Db: two statements leave a transaction half done; 3 retries have a first, a middle and a last
  attempt.
- Registry: two handlers are the least that overlap, and the third upload is a retry, a republish
  after a yank, or a second version. Handlers and contents are symmetric, and no liveness is checked
  in `migrate`.
- Packages: three libraries, one of them nested in another, three versions in two majors; a demand
  met late, one met by a library already there, a conflict. Four commands (`MaxCommands`) have an
  install over an install, an uninstall, and a repair behind a death.
- FlowAnalysis: eight steps (`MaxSteps`) at depth two (`MaxDepth`) hold each construct inside each
  other. The theorems have no bound.
- Narrowing: two regions (`MaxRegions`) inside one another; what happens inside them is not bounded.
- Dispatch: four classes (`Depths`) have two parents with a parent each, all choices of overrides
  and constructors. The theorem has no bound.
- TryLowering: seven statements (`MaxStmts`), four levels (`MaxNesting`): a `try` in a `do` in a
  `try`, with all its suites.
- Namespaces: two imports, two spellings that share a Go name (`x`, `X`), functions, private
  functions, consts and classes (consts in the first library only, which may hold two definitions),
  a relayed name. The theorems have no bound on the modules' definitions, nor
  (`AnyImportsReachDefinitions`) on the imports, but that one of them may be of a whole module.
- Builds: three libraries in a chain, the last of which may import the second again, two edits
  (`MaxEdits`) and two builds (`MaxBuilds`): the second meets the caches of the first. Nine steps
  (`MaxVisits`) are enough to walk any of their import graphs to the end.
- Documents: two paths and two texts; nothing is counted, so message sequences of any length are
  covered.

### Fairness

Go's scheduler runs every goroutine that can run, and a `select` with a ready case proceeds. So:
weak fairness on the steps of a call in progress (never on beginning a call), on each actor's loop,
and on `StopScheduler`, `StopWaited` and `Finish` of Cron (a job that may return does). The timer of
`receiveTimeout` is not relied on in `unbounded`. Actors also need strong fairness on the end of a
handler: a handler that may make calls forever is assumed to end at some time. The other modules
have safety properties only: a failed or dead command is not retried by the code, so nothing is
promised to happen.

### Findings

1. `actor_ask` (`lib/lamactor.lam:181`): when `onMessage` panics and the actor fails, the loop still
   offers nil to the reply channel, and `ask` answers `Ok(None)`. `docs/stdlib.md:1446` says that
   the result distinguishes a stopped actor from a handler that returned `None`.
2. `cron_restart` (`lib/lamcron.lam:185`): `stop` clears the flag before it stops the scheduler. A
   `start` in between leaves a Cron marked started that does not run, and further starts return at
   once. Its doc says it can be started again.
3. `migrate_failed` (`lib/lammigrate.lam:393`): statements run outside any transaction. The class
   doc (line 204) says that a failure in the middle rolls the file back.
4. `registry_immutable` (`tools/registry/server.py:277`): nothing is locked between the read of the
   index and its write. `docs/package_manager.md:735` says that versions are immutable.
5. `narrow_guard` (`compiler/narrowing.py:273`): the facts of a guard hold behind an `if` whose
   branches all exit, even where its `else` suite runs on and assigns the local.
   `docs/SYNTAX.md:2166` says that where `isinstance(x, T)` is known to hold, `x` is a `T`.
6. `frozen_verify` (`compiler/install_cli.py:2262`): an install that died before it wrote the lock
   file leaves a library without a pin inside the directory of a pinned one. verify hashes it with
   the outer library, which it reports as drifted; a frozen install puts it aside and restores it
   (1368), pin or no pin, so that the report stays. verify itself advises "run `lamc install
   --frozen` to repair from the lockfile" (2319), as `docs/package_manager.md:814` repeats.

One doc disagrees with the code to the code's advantage, so that no run shows a property failing.
The docstring of `tools/registry/server.py` (41-45) describes a publish as "append to index" (step
2) and then the tarball (step 3). The code writes the tarball first (287) and the index after it
(299). `EntryHasTarball` is about the code's order; in the docstring's order, which is its mutant, a
version is listed while its tarball is not there yet, for good if the handler dies in between.

Behaviour the models have, no doc denies, and a user might not expect:

- Channels: a bounded send accepted after "closed" was answered.
- Actors: a `tell` accepted after the loop exited; an untimed shutdown from a handler, which waits
  for itself.
- Cron: a job in `stop` of its own Cron, which waits for itself.
- Db: a statement applied as often as it was tried, when answers are lost; a callback that commits
  and then returns Err, which gets its Err though its work is in force.
- Registry: an index emptied by a crash loads as a package with no versions. A yanked version may be
  published again, and this rewrites its tarball: downloads pinned to the old digest then fail,
  although the docs call a yanked version still downloadable.

### What the properties leave aside

These are places where the code, read with the models, does less than a property without exceptions
would say. They were met while modelling, each exception names one of them, and they are not claimed
as findings.

- Packages (`unsettled`): an uninstall of `@s/a` deletes the nested `@s/a/b`, whose pin stays
  (`install_cli.py:1401`); the lock file is written in place, after the trees; a tree of the pinned
  version is kept unchecked (1360); an uninstall drops the Go pins (1414); dependencies are copied
  in the order met, not leaves first (1260). After a death, an unpinned nested library is for verify
  a part of the one around it (finding 6).
- FlowAnalysis (`owed`, `hidden`): marks of a `do` body reach its handler and what follows; those of
  a loop's `else` reach what follows a `break`; a `finally` is visited with the marks of the ways
  that continue.
- Narrowing (`rebound`): nested functions rebind a captured local without `nonlocal`
  (`docs/SYNTAX.md:3131`), but only `nonlocal` names are kept from narrowing.
- Dispatch: a class that inherits a member from two sides does not implement the wrapper interface
  of that base, so that it is not bound into it; in a diamond the second path to a class is left
  nil, so that diamonds are not among the hierarchies.
- TryLowering (`stale`): all `try` statements of a scope share one pair of flags, so that an `else`
  runs after a body that returned, a `try` begun in a `finally` forgets a pending return, and a
  raise there followed by a catch outside returns although it was caught.
- Namespaces: a const and a function of one module that is not the main one, with the same exported
  spelling, both become `X__tag` when a third module has the name. Modules with one tag (`@a/b` and
  `a_b`, `namespacing.py:530`) are left out: definitions of theirs that clash would both become
  `X__a_b`.
- Builds: the key of a library's text has the subclasses of its own classes only; calls in it on
  classes of other libraries may be stale.
- Documents (`overwritten`): a scan puts the file's text in place of an open document's, and a later
  save is not looked at since the document is open.

## 4. Theorems

Each holds for every value of the constants under the named assumptions of its module
(`SizesAssumption`, `MaxSendsAssumption`, `CronAssumption`, `MigratorAssumption`,
`RegistryAssumption`, `OrderAssumption`, `VersionsAssumption`, `DbAssumption`, `TextsAssumption`,
`ValuesAssumption`, `ContentsAssumption`, `DepthsAssumption`), which say no more than that bounds
are numbers, that sets are disjoint where the code keeps them apart, that a list of names has each
once, that a manifest names each dependency once (it is a table), that a text is not the absence of
a file, that what is imported is a module, and that a returned value is told apart from the zero
value. `FlowAnalysis`, `Namespaces` and `Narrowing` need no assumption.

**UnboundedChannelProofs** - `TypeCorrect`, `NoLostWakeupHolds`, `ConservationHolds`,
`DrainedIsFinalHolds`, `Refinement`. `NoLostWakeup` alone is nearly inductive: a step removes the
token only by making its receiver one that is about to take, and that receiver passes it on.
`Conservation` gives the order; `DrainedIsFinal` needs that nothing is queued after close. The
refinement maps each action to one of `ClosableQueue`, or to a stutter.

**ConcurrencyProofs**, of bounded channels - `LateSendRefusedHolds`, `Refinement`. `CallsInv`: a
process at the last look at `data` has seen the channel closed, and one inside a send has begun one.
`BufferInv`: what was accepted is what was delivered followed by what is buffered, and a rendezvous
channel buffers nothing. Every step does one of six things to the buffer and the histories (lemma
`BufferSteps`), and each is a step of `ClosableQueue` or a stutter. `LateInv`: what is late or
accepted belongs to a send that was begun, so that the value of a new send is neither; and a value
at the second `select` is not late, since its first one saw the channel open. Of Cron -
`TypeCorrect`, `StoppedDoesNotRunHolds`. The invariant says that a scheduler which runs though the
flag is clear has a stop that is yet to stop it.

**ActorSystemProofs** - `OrderlyStopDrainsHolds`, `BindingsRegisteredHolds`,
`LiveAreRegisteredHolds`, `LiveBindingKeptHolds` (an action property). `ActorInv` is shared by the
four: names lead to spawned actors (`RegistryOK`), a call in progress holds one (`CallsOK`), a
mailbox is closed exactly when its actor was stopped and no loop leaves before that (`StopsOK`), and
whoever waits for an actor to exit, to take it off the registry, has signalled it before
(`WaitsOK`). The last part is what makes the removal safe although it happens long after the lookup:
by then the actor is stopped, whatever was spawned or bound meanwhile. `OrderlyStopDrains` is
inductive with it, since a loop leaves an unfailed actor only when closed and empty, and what is
accepted after that is in `late`.

**DatabaseProofs**, of migrations - `RecordAgreesHolds`, `NoGapsHolds`, `BatchesFollowCallsHolds`.
`RecordAgrees` says nothing of the file in hand. The invariant adds what holds of it: how far the
call is (`Progress`), that rows have distinct ids (`IdsDiffer`), that `up` has only files without
rows to do and `down` only files with rows (`TodoRows`), and what is kept of files not torn
(`KeptIntact`). `NoGaps` adds `SeenCovered`: what a call of `up` saw is recorded or still to do.
`BatchInv` adds to `BatchesFollowCalls` that while a call of `up` runs, the rows with its number are
those it inserted, and no row has a greater number (lemma `NextBatchIsNew`: the number is above all
rows that are left, whatever was rolled back). Of the handle - `AppliedAsAnsweredHolds`, from
`ExecInv`: while no answer is given, the statement took effect as often as answers were lost, and an
attempt is made only while there are retries left. `TransactionAnswersHolds`, from `TxInv`: at most
one of the two flags is set, and only on a transaction that is done; statements are in force only if
`committed` or in doubt.

**RegistryProofs** - `EntryHasTarballHolds`, from `TarballInv`: a handler past its first file
operation has a tarball, and all that any list names was saved. `OneLiveEntryHolds`, from `LiveInv`:
not the index alone but each list a handler has read has one live entry per version, and none for
the version that handler publishes. `InstallsWhatWasPublishedHolds`, from `ClientInv`: a client has
nothing but bytes that passed the digest check. `PublishedForGoodHolds`, from `GoodInv`: disturbed,
or one handler is at work, it has read the index as it is, and its tarball is as far as its step
says.

**PackagesProofs** - `DemandsMetHolds`, `PinsMatchTreesHolds`, `GoPinsCoverHolds`,
`FrozenRestoresHolds`. `PkgOK` says of each kind of command what its record holds: of the walk
(`WalkOK`), that the order and the queue are plans for libraries that were found, each of them once,
and that the demands and Go versions gathered so far are those of all that left the queue and of all
that stands; of an install and a frozen one, which libraries are left to copy, and that no library
is aside but while the one around it is replaced. `GoInv`: the Go version to be locked suits
whatever was found and whatever other library is kept, on disk or aside. For the other two,
`SettledInv` says that until something is unsettled the state is `Between` what the pins say and
what the command will make of it: trees are those of the pins, but for libraries already copied,
which are those of the pins to be (`NewPins`); and both the old and the new pins meet each other's
demands (`Meets`). That the new ones do is what the final sweep buys (lemma `WalkMeets`): a demand
of a library found or standing is among those it compares. The libraries of the pins then being
those on disk, `DemandsMet` and `PinsMatchTrees` follow. About the operators: `SubsequenceFacts` (a
subsequence has the elements at its places, each once), `FreshPicks` and `WithPicksFacts` (a round
of the walk picks each new dependency once, in a version that every demand known admits).
`FrozenRestores` needs no good state to start from: by `FrozenInv`, while a frozen install runs,
each pinned library is still to be copied, or put aside while the library around it is, or as
pinned; by `ClearInv`, each is still to be copied, or its directory was cleared and whatever is in
it but the pinned is an installed library or lies in one (`Cleared`). A copy of a library keeps that
of the ones around it, since it puts back what it put aside (`RemoveKeepsClear`, `CopyKeepsClear`).

**FlowAnalysisProofs** - `ReadsAssignedHolds`, `NoFallOffEndHolds`, for functions of any length and
nesting. The invariant `FlowInv` says of the suite visited and of each construct around it that its
marks, but for excused names, are assigned on its paths; that the paths recorded for its exits,
breaks and continues only lose executions on the way; and that a construct said to have no `break`
or no exit has recorded none. Five lemmas about the shapes of steps (`EnterKeeps`, `ContinueKeeps`,
`ResumeKeeps`, `SuiteKeeps`, `JumpKeeps`) carry it over all 22 actions.

**ToolchainProofs** - `ServerSeesEditorHolds`, from `DocInv`: what is indexed of an open document is
its text, unless a scan replaced it; what is indexed of another file is nothing or what the file
says, unless a change is still to be reported. `SkippedAreCleanHolds`, from `CheckInv`: every marker
ever made is for a module among sources that all declare its version; as its key has the sources of
all that the module reaches, a build that finds it there checks the same sources (lemma
`MarkerIsClean`). `TextsAreFreshHolds`, from `TextInv`: each cached text agrees with its key in all
but the calls that are left aside, and so does each text of the build. `GoNamesApartHolds`: in a
state with three modules, equal Go names carry the same tag (lemma `GoNameParts`), so both
definitions are renamed in one module, or neither is; the definitions themselves never change. The
proof corrected the property: it had claimed the exception for libraries only, which fails for a
module here that is not the main one and holds two clashing definitions.
`ReferencesReachDefinitionsHolds`, and `AnyImportsReachDefinitions` for any number of imports, of
any names and under any, of which one may be of a whole module; both from `NameInv`. What the
finished plan makes of a name hangs on three tables, and the invariant says of each what makes it
safe to follow: a name is claimed for a definition that is spelled so, or is an import (`ClaimsOK`);
a claimed function or const has its Go identifier in the table or is spelled by it (`GoOK`); a
rewrite that is not of an import leads to the type the name was claimed for (`RewritesOK`). Each own
name is `Settled`, each handled import leads to a settled name (`NamedOK`, `MemberOK`), and the
names of imports still to come are not rewritten. A registration redirects the name it is made under
and no other (`RegisterKeeps`), so the imports handled before it stay as they are (`SettledKept`,
`NamedKept`). That following rewrites ends at the definition (`Rewriting`) needs that an unrenamed
type of a library shares its name with nothing elsewhere. The prover read `SUBSET S \ T` in the
model as the subsets of a difference, TLC as the difference; it is now in parentheses.
`ExitsAsAskedHolds`, for statements of any number and nesting, from `TryInv`. That code runs only
while nothing is due is not inductive: whether a closure's end becomes a return hangs on flags that
were set before. `TryInv` therefore relates the whole stack (`Safe`) to what is due: what is
recorded in a `do` body or in the function's result is on its way there or held up by the first
`finally` from there on (`MarkOK`); on the way out of a return every `try` closure that is left
finds the flag set (`LeaveOK`), and otherwise the flag asks for a return only on account of what a
`finally` holds up (`RunOK`, `FinallyOK`). One lemma over any stack per kind of step (`PushSafe`,
`PopSafe`, `EnterSafe`, `HoldSafe`, `FinallySafe`, `ReturnSafe`, `FailSafe`, `RaiseSafe`,
`EndSafe`), then one per action. `NarrowedHoldsHolds`, for regions inside one another to any depth,
from `NarrowInv`, which has two halves. `StackFits` always holds: a region takes `x` for less than
it was declared, or for just that and reads `x` itself; it does the latter where all regions around
assign `x` or a nested function does; and the facts put aside for behind it fit what is around it.
`StackTrue` holds until an exception of the property is met: each view is the value of `x`, and that
value is of the types taken in and behind each region. An assignment keeps the second half only
thanks to the first. Beneath them, `NarrowedTypeFacts` (the type that a fact gives is lower, and has
every value the fact is true of), `ConditionFactsTrue` (whichever way a condition goes, what it says
is true) and `ExtendFacts`. The proof made the model say facts as a pair, with one that says nothing
(`NoFact`), where it had folded a sequence of them. `ViewsBehaveAsObjectHolds`, for hierarchies of
any size. That the recursive `UpIn` conforms to its equation (`UpEquation`) is an induction over the
classes, by a least counterexample; from it follow that what lies above a class is closed upwards
and comes before it (`UpFacts`), that two ancestors of a class lie on one line or in parts that
share nothing (`OnePath`), that Go promotes the one nearest definition, which is the checker's
(`PromotedIs`), and that a class without ambiguous members implements the wrapper interface of every
ancestor (`ImplementsAll`), so that no bind is skipped. `ClassInv`: in each constructor on the stack
every part of the object is bound to its class and no other (`Bound`); what a finished parent's
constructor brings is bound again (`ReplaceBound`). `ImportsInitFirstHolds`, for any import graphs,
from `LinkInv`: while a build reads, all it has read or has to read is reached from the main file
and nothing imported is forgotten, so that at the end of the worklist its sources are closed
(`IsProgram`). The order then comes from `WalkInv`, which every step of the walk keeps (`LeaveKept`,
`SkipKept`, `VisitKept`): all that is listed before the leave of a module is reached from that
module. A module that is left before one of its imports is in the order would thus be reached from
that import, a cycle. That the recursive `InitWalk` is such a walk is `WalkEquation`, by a least
counterexample again. The proof made the property say more: import cycles, which the compiler
allows, had been left out of the model, and are now in it.

Type invariants are parts of these inductive invariants (or theorems of their own, `TypeCorrect`)
and are not run.

Only model-checked: liveness (`WaitingReceiverServed`, `CloseReleasesReceivers`, `CloseReleasesAll`,
`StopReturns`, `CallsReturn`, `StoppedActorsExit`: fairness and ENABLED are out of the prover's
reach). Every invariant that a run expected to pass checks is proved.

## 5. What the models leave out

- Values of messages, wording of errors, the text of SQL, manifests and tarballs.
- `isClosed`, `size`, `find`, `isAlive`, `numActors`, `entryIds`, `count`, `list` and `status`,
  which only read.
- The times of timers: a timer may fire at any moment, or never.
- Migrator: two processes that call `up` at once (no lock is taken, nothing is promised).
- Db: the retries of `query`, which are those of `exec`; explicit `begin`; savepoints; observers;
  the query builder; the pool.
- Registry: seeding at boot, and the collision of the file names of `@a/b__c` and `@a__b/c`; how a
  client chooses a version (it downloads any entry ever listed).
- Packages: git and path sources, `[replace]`, `--global`, the project's own Go dependencies, two
  commands at once.
- FlowAnalysis: what an expression may raise inside a simple statement; comprehension and lambda
  scopes.
- Narrowing: list, dict, JSON and interface targets, fields as subjects, the walrus, `go!` blocks,
  readers that are created in a region and run after it.
- Dispatch: diamonds, ambiguous members, covariant adapters, generics.
- TryLowering: `return` and `?` inside `finally`, `try` without `catch`, async functions.
- Namespaces: the number appended when `X__tag` itself is taken; modules whose names give one tag;
  interfaces and variables, which are named like classes and consts; import cycles.
- Builds: the order among the modules that reach an import cycle, eviction and file format of the
  cache, libraries that are injected without an import.
- Documents: relative imports of documents that are on no disk, what a request answers.

## 6. Plan

Done: concurrency (Channel, ActorSystem, Cron), persistence (Migrator, Db, Registry, Packages), the
compiler's analyses and lowerings, builds, and the language server's index. Next:

1. Go generics and the members a class takes from two bases, in `Dispatch`; eviction and the file
   format of the cache, in `Builds`.
2. A clock for `lib/lamratelimit.lam` and the timeouts of `lib/lamcontext.lam`. The code queues no
   waiters of a bucket, so under any fairness Go gives one of them may wait for ever: there is no
   liveness to check, only arithmetic.
