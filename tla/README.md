# A TLA+ verification of OmniVM

OmniVM embeds CPython, V8, the JVM, CRuby, Go plugins and Rust units in one
process. All guest code runs on one OS thread, the Golden Thread; everything
else (goroutines, host threads, finalizer threads, a watchdog pthread) reaches
it through queues. Objects cross between runtimes as handles or as Arrow
buffers, and programs that mix languages are compiled to manifests, whose ops
an executor interprets.

This directory models the parts of that machine in which interleavings,
lifetimes and stale state decide whether it is correct, checks them with TLC
and proves the central results with TLAPS. Paths below are relative to `src/`.

- [1 Inventory](#1-inventory)
- [2 Modules](#2-modules)
- [3 Runs, bounds and what they show](#3-runs-bounds-and-what-they-show)
- [4 Fairness](#4-fairness)
- [5 Proofs](#5-proofs)
- [6 Where the code differs from what it says](#6-where-the-code-differs-from-what-it-says)
- [7 What is not modelled](#7-what-is-not-modelled)
- [8 Plan](#8-plan)

`PROJECT.json` has the same inventory by machine: components, runs, the mutant
that shows each property can fail, the source lines of every definition, the
hazards and the theorems.

## 1 Inventory

### Host core

| Component | State | Operations | Hard | Correct when |
|---|---|---|---|---|
| Handle table, `pkg/handles` | live handles with reference counts, scopes and edges; a finalizer channel with a coalescing spill; counters | Register, Retain, Escape, RecordReference, DropReference, Release and its variants, QueueReleaseFromFinalizer, DrainFinalizerReleases, ReleaseScope, ReleaseAll | callbacks run outside the lock; sweeps work on snapshots; finalizers on any thread | a callback runs once and after the handle is gone; counts and queues conserve references; ids are not reused; sweeps are complete |
| Dispatcher, `pkg/dispatcher` | two channels, a stopped channel, contexts, two eventfds, nested executions | RunOnMain(Fast), RunAsync(Fast)Context, Run, RunEpoll, PumpOnce, PumpUntil, shutdown drain | submission races shutdown; waits nest; a wakeup may be lost; select is random | everybody is answered, truthfully; a task runs once; fast tasks come first; a cancelled loop stops |
| Watchdog, `pkg/watchdog` | armed flag, timeout, generation, active runtime, a condition variable | Init, Arm, Disarm, SetActiveRuntime, the thread, Shutdown | the decision and the interrupt are not atomic; executions nest under one deadline | fires on time, once, at the innermost runtime; never for an execution that has ended |
| Engine, `pkg/engine` | runtimes, the handle table, the dispatcher, the watchdog | New, Init, Call, Exec, ExecWithWatchdog, Shutdown | order of the shutdown steps | nothing runs in a runtime that is down |
| VM facade, `pkg/omnivm` | started and shutdown flags, initOrder, the active interrupt, two contexts | Register, Start, Run, Call, CallBatch, Execute, Shutdown | task and drain timeouts, failed start, contexts that end at any time | no code runs in a runtime that is down; each is torn down once; every call and every Shutdown returns |
| libomnivm, `cmd/libomnivm` | the engine, one execution lock, the executor that callbacks reach, loaded modules, cooperative runs | OmniRunManifest*, OmniLoadManifestModule, OmniManifestCall, OmniManifestRunSubmit, Step, Result, OmniCall, the worker drain, OmniShutdown | entries nest in guest code; a lock held over several C calls; calls from other threads | callbacks reach their own executor; nothing is drained or shut down under a manifest; a run that is stepped ends |

### Data

| Component | State | Operations | Hard | Correct when |
|---|---|---|---|---|
| Arrow store, `pkg/arrow` | buffers by name with owner and borrow references, named borrows, detached buffers, tombstones, deferred releases with an overflow | Allocate, Set*, Borrow, Release, BufGet, BufRelease, Free, DrainDeferred | a name is replaced while it is viewed; finalizers give back by name; full queues | memory is given back once, when nobody has it; no borrow is lost |
| C Data interface, `pkg/arrow/cdata_*.go` | none but the leases | export, import; captures of nested values and reads by layout in `pkg/manifest` | shapes, strides, offsets, bitmaps, overflow | what comes into a buffer comes out of it |

### Manifest executor, `pkg/manifest`

| Component | State | Operations | Hard | Correct when |
|---|---|---|---|---|
| Op interpreter, `executor.go`, `HandleCall` | the Go stack; scopes, handle scopes, yield collectors, streams of loops | try, loop, foreach, return, break, continue, throw, yield, functions, Execute | every way out of every construct, through guest code and panics | what was opened is closed; a signal ends what it names; finally runs |
| Bindings and captures, `executor.go`, `captures.go` | scopes, binding versions, injected versions per runtime, origins; the globals of the runtimes | declare, assign, exec, eval, conditions, HandleCall, push and pop of scopes | guest code calls back in mid-run; an injection is left out when it seems current | guest code sees the binding it names |
| Channels, select, spawn, `channels.go` | Go channels with a closed flag, goroutines, wait groups, stream handles | send, recv, select, close, pull, spawn, wait | close against send; looks and takes that are two steps; waits on the Golden Thread | no value lost or doubled, no panic without a race, every wait returns |
| Async ops, `async.go`, Rust futures, `pkg/rust`, `rt.rs` | a done flag and result per runtime; tables of futures, pending bridge calls | await, parallel, exec and eval async, drive, pump, release | timeouts, late answers, awaits that nest, calls out of suspended futures | an op gets its own result; what is abandoned stops; awaits return |
| Cooperative runs, `cooperative.go` | an orchestration goroutine, a driver | Submit, Step, Result, marshaled calls | the lock between two steps, two threads in one executor | the run ends |
| Bridge and guest proxies, `stubs.go`, `captures.go` | handles by identity, proxy caches of the guests, queued releases | get, call, return, close, collect, captures | transfers against retains, collectors, ids of jobs and handles | every reference has an owner; a proxy in use names a live handle |
| Rust units, `pkg/rust/toolchain.go`, `loader.go` | a cargo workspace and a cache of artifacts that all processes share; per process two hashes and the units it has loaded | start, build, publish, prune, load | several processes, a death in the middle, sources that change, two locks | nobody builds in another's way; what is loaded fits; every build returns |
| Go plugins | loaded plugins and their exports | build, load, register | processes, files | - |
| Validation, doctor | none | checks | - | - |

### Runtimes

Python, Ruby, the JVM and V8 (`pkg/python`, `pkg/ruby`, `pkg/jvm`,
`pkg/javascript`) are cgo shims: Initialize, Execute, Eval, Pump, Interrupt,
Shutdown. What matters of them here is which interrupt a watchdog may raise and
when it is delivered, and that code can change its own globals. The Rust side
(`pkg/rust`, `runtime/rust/omnivm`) has state of its own: boxed and spawned
futures, pending bridge calls, an object table, the drive loop that parks on
the dispatcher's eventfd. `pyomnivm` loads libomnivm into a Python host and steps
cooperative runs from its event loop.

### Compiler and tools

`polyscript/` compiles PolyScript to manifests, a sequential function of text.
`cmd/` holds the programs, demos and stress tests.

### How they interact

    host thread, goroutines, foreign threads       finalizers of guests
        | RunOnMain, RunAsync                          | queue a release
        v                                              v
    dispatcher ---- Golden Thread ---- drains ----> handle table, Arrow store
        |   ^             |  arms, active runtime
        |   | PumpUntil   v
        v   |         watchdog ---- interrupt ----> runtime
    manifest executor -- inject, exec, eval --> runtime
            ^                                      |
            +---------- HandleCall, bridge --------+

The Golden Thread nests: guest code calls a manifest function, whose op runs
guest code, or waits for a goroutine and pumps the dispatcher while it waits.
Dispatcher (frames), Watchdog (executions), ControlFlow (constructs), Bindings
(scopes and code), Awaits (awaits), Library (entries) and Proxies (functions)
each model that nesting as a stack of which only the top moves.

## 2 Modules

| Module | Models | EXTENDS, INSTANCE |
|---|---|---|
| `HandleTable` | `pkg/handles/table.go` | instances `HandleLifetime` |
| `HandleLifetime` | abstract: what a handle's life is | - |
| `HandleTableProofs` | theorems about `HandleTable` | `HandleTable` |
| `Dispatcher` | `pkg/dispatcher/dispatcher.go`, `epoll_linux.go` | instances `GoldenThread` |
| `GoldenThread` | abstract: tasks executed once, innermost first, or refused | - |
| `DispatcherProofs` | theorems about `Dispatcher` | `Dispatcher` |
| `Watchdog` | `pkg/watchdog/watchdog_linux.go` with the executions of `pkg/engine` and `cmd/libomnivm` | - |
| `ArrowStore` | `pkg/arrow/arrow.go`, `buffer_bridge.go`, `callbacks.go` | - |
| `Layouts` | the layouts of tables (`stubs.go`) and C arrays (`pkg/arrow/cdata_types.go`) | - |
| `Captures` | the capture of nested values (`executor.go`) | `Layouts` |
| `Tables` | what `Layouts` and `Captures` promise, as invariants of the store | `ArrowStore`, `Captures` |
| `HostVM` | `pkg/omnivm/omnivm.go` on `executeTask`, `safeExec` and `taskTimeoutLoop` of the dispatcher | - |
| `HostVMProofs` | theorems about `HostVM` and `Watchdog` | `HostVM`, `Watchdog` |
| `Library` | the entries of `cmd/libomnivm/main.go`, `pkg/manifest/cooperative.go`, the host loop of `pyomnivm` | - |
| `LibraryProofs` | theorems about `Library` and `UnitCache` | `Library`, `UnitCache` |
| `UnitCache` | `pkg/rust/toolchain.go`, `LoadUnit` of `pkg/rust/loader.go` | - |
| `ControlFlow` | the op interpreter of `pkg/manifest/executor.go`, `HandleCall` and streams of `stubs.go` | - |
| `ControlFlowProofs` | theorems about the executor: `ControlFlow`, `Layouts`, `Captures` | `ControlFlow`, `Tables` |
| `Bindings` | the bindings of `pkg/manifest/executor.go`, the injection of `captures.go`, the scopes of `stubs.go` | - |
| `BindingsProofs` | theorems about `Bindings` | `Bindings` |
| `Channels` | `pkg/manifest/channels.go`, the channel streams of `stubs.go` | - |
| `ChannelsProofs` | theorems about `Channels` and `Awaits` | `Channels`, `Awaits` |
| `Awaits` | `pkg/manifest/async.go`, `pkg/rust/rust.go`, `runtime/rust/omnivm/src/rt.rs` | - |
| `Proxies` | values, handles and proxies of `stubs.go`, `executor.go`, `captures.go` | - |
| `ProxiesProofs` | theorems about `Proxies` and `ArrowStore` | `Proxies`, `ArrowStore` |
| `MCHandleTable`, `MCDispatcher`, ... | TLC instances | the module they are named for; `MCArrowStore` also `Tables` |
| `MCWorkers` | the TLC instance of the workers of a server | `Library`, `UnitCache` |

The abstract specifications are `HandleLifetime`, what the table promises of a
handle, and `GoldenThread`, what the dispatcher promises of a task; the detailed
modules are shown to implement them. The modules meet at these seams: the table
in `Proxies` is that of `HandleTable` with its queue as a bag; the loop in
`HostVM` takes any queued task, of which the order is in `Dispatcher`; the
calls of workers in `Channels` and of cooperative runs in `Library` go through
`RunOnMain`, which is in `Dispatcher`; what `HostVM` interrupts at a task's
timeout, `Watchdog` interrupts at an execution's.

Definitions whose comment begins with "Mutant" are not part of a
specification: each is a plausible bug in the definition beside it, and
`PROJECT.json` names the property that notices it.

### HandleTable

A thread is idle or at a place inside a method (`job`). Everything a method
does in one holding of `t.mu` is one step; a method that unlocks, or calls a
release callback, stops there and others may move. `entries`, `queue`
(`finalizerQueue`), `spill`, `order`, `total` (`finalizerSpill`,
`finalizerOrder`, `finalizerTotal`) and the counters are the fields of `Table`.
`held`, `calls` and `lost` are history: the references clients own, the
callbacks run, the finalizer releases refused. Clients release only references
they own; finalizer releases of stale ids, double sweeps and callbacks that
fail are all there.

Left out: access counts and the chatty-proxy warning, `Stats`, `Inspect` and
the cycle statistics, which read the table and change nothing in it.

### Dispatcher

One caller per task (`caller`), one Golden Thread in one of three loops
(`loop`, chosen by `Init`): `Run`, `RunEpoll` with its eventfds, or a host that
calls `PumpOnce` and `PumpUntil`. `stack` holds the frames of `executeTask` and
`PumpUntil`. A select whose cases are ready is one step per case, since Go
chooses at random. The channel to the caller (`task.done`, or the channel of
`runAsync`) is `reply`, of capacity one.

Left out: pump callbacks, extra watched descriptors and the fd for Rust. The Go
timers of `executeTask` are in `HostVM`.

### Watchdog

The thread sleeps, wakes, decides under `wd_mutex` (`Fire`) and raises the
interrupt after it (`Interrupt`). On the Golden Thread executions nest; `Plan`
is the order in which each of the three kinds arms, sets `active_runtime`,
runs, restores and disarms. Time passes in ticks while some deadline is
running. `raised` is a superset of the interrupts that still wait for guest
code to notice them.

Calls of the runtime that hosts libomnivm are not timed, and calls of Go
plugins have a Go timer of their own; neither is armed here. There is one
deadline for all nested executions; see section 6.

### ArrowStore

A `Buffer` is numbered by its first memory. `refs`, `borrowRefs`, `owned` are
its counts, `namedBorrows` the queue of borrows per name, `detached` the
buffers that live on borrows alone. Leases end through the lease; guests' views
end by name, through `DeferredRelease` and its overflow, which the Golden
Thread drains. `freed` counts calls of each memory's release callback.

Left out: `BufferOwner`; `Buffer.Retain` and `Buffer.Release`, which only tests
call; copying of metadata (validation is in `Layouts`). `removeNamedBorrowLocked` does
nothing for a view, since `BufGet` keeps no lease, and is not modelled.

### Layouts and Captures

Functions, without state. A buffer is a sequence of items of `elem` bytes with
the metadata it was stored with; positions are byte positions, and one between
two items reads `Stray`. A Go type is the sequence of its levels, `Slice` or an
array's length; `ShapeDims` finds shape and contiguity of a value, `CaptureView`
makes the buffer, which points into the value (`Pointed`: the innermost block
and whatever lies behind it) or copies its scalars. These are in `Captures`; the
code recurses over values, the functions over the levels of their types, with
what they say of every value behind a level (`DimsOf` is one step of it).
`LogicalLayout`, `Index` and `Iter` are the table's, `ImportCArrowArray` and
`BorrowCArrowArray` the C arrays'. `StridedBounds` has the code's test before
each addition, by quotients; its sums, and the products and strides, are
functions of the number of dimensions they have passed. `ShapeProduct` stands
for three copies of one function.

Left out: dtypes and formats but for their widths, memory that a C-shared
plugin owns (its shape is its plugin's), the descriptors' own release.

### Bindings

`scopes` is the stack of scopes, `code` the stack of guest code in progress,
each piece with the number of scopes below it; so exactly one of the executor
and the guest may act. `Start` is what `opExec`, `opEval` and `evalCondition`
do before guest code runs: the automatic injection with its dedup, the record
of injected versions, the explicit captures. `Automatic` says which kinds of
code get the injection: exec, eval and the branches of a parallel op do; a
condition with captures, exec and eval with `async` and the segments of a concat
do not. A binding is a plain value, or a `RuntimeRef` to a global: those an eval
has bound have an origin (`EvalBinds`), those an await or a function's source has
bound have none (`RefBinds`). `Assign` to a ref writes its global, which may bear
another name.

The records are of one Executor. Guest globals belong to the runtimes, which all
executors share: they start with anything, and `Mutate` changes one at any time,
as the code in progress, a task, a thread or another manifest does. `changed` is
history: the globals written other than by an injection or under the name's own
binding since this manifest bound the name or injected it there.

Left out: Java, whose captures are cleared after each op; proxies, streams,
tables and bridge ops; arguments by reference, which are slots of a table in the
runtime. The handle scopes that go with the scopes are in `ControlFlow`.

### HostVM

A call (`call`) passes `checkReady`, a look at its context, the enqueue of
`runAsync`, and then waits for its answer or its context. Its task, on the
loop, sets the active interrupt, evaluates, runs the after-call code and the
metrics, and takes the interrupt back (`step`, `item`). `timer` is the
`taskTimeoutLoop` of each task: it wakes, reads the interrupt under its lock,
and raises it in a step of its own. A `Closer` is a goroutine in `Shutdown`,
with the wait for the loop, the drain timeout, the hooks and the teardown as
steps. Runaway code ends only by an interrupt; `Deaf` runtimes have none.
`Menu` gives each call the requests it may make.

### Library

`stack` holds the C entries on the host's thread, `job` what the goroutine of
each cooperative run does, `queue` the calls that wait for a step, `foreign`
the other threads. An entry first waits for the execution lock (`locking`),
then wires its executor (`Wire`, with what was wired before) and unwires it
when it ends; `Submit` wires too, and only `Result` unwires. Guest code of any
entry may enter again. `forsaken` are the runs whose host task was cancelled.
Executors are what the lock and the callbacks are about; what their ops do is in
the modules of the manifest executor.

### UnitCache

A process (`Procs`) starts: it hashes the support crate, compiles the workspace
under the lock `flock`, and loads the dylib. Its goroutines (`Threads`) then
call for units: `at` is the place of each in `BuildUnitMapped`, with its three
looks for the artifact, the lock of its process, the lock of all processes, the
member it writes, what cargo does, the rename, the prune and the deferred
calls. `members`, `cache`, `stamp` and `dylib` are files. Of a source only its
version matters, so a hash of the crate is the pair of its version and the
members that are in Cargo.lock (`Hashes`). `cache` has for every key the version
its artifact is linked to and the time of its publication (`clock`), by which
`Pruned` tells the oldest. `Die` and `ChangeSources` may come
anywhere, and a change may bring back what was there before. Of times of
modification there is one bit, `newer`: some source or Cargo.lock is newer than
the dylib, which is all that `supportSourcesNewerThan` looks at; a change sets it
either way. A workspace may be fresh, built before, or hold a stamp that is not of
its dylib (`UnitInit`).

`sound` and `deceived` are history. The start of a process is sound if its build did
not fail, nobody has edited the sources since, and it rebuilt the dylib or was not
deceived. `Disguised` is what deceives: the dylib is of other sources, and neither
the stamp, or the lack of one, nor the times say so. `deceived` is set when the
sources come to be disguised and lasts until a forced build.

Cargo itself is external: it fails at a member without its files, replaces the
dylib in two steps (`Relink`), and may miss other sources unless its fingerprints
were removed, as the comment at `toolchain.go:222` reports. Left out: a cargo that
survives its process, a read-only workspace, in which `withBuildLock` locks
nothing, and `.lock` files.

### ControlFlow

The recursion of `executeOps` is a stack of frames: the run, functions and
generators, loops, foreach loops over a stream, tries, and guest code, which may
call manifest functions. `signal` is the error on its way up, with `aim`, a
history variable: the frame that ought to take it. `scopes`, `handleScopes`,
`handles` and `yieldCollectors` are the executor's fields, each with the frame
that opened it. After `Execute` the host may call functions of the module it
loaded. `disturbed` is history: a panic was recovered in `HandleCall` past an
open catch or generator; such a panic leaves handle scopes behind, so that their
number is not bounded by the depth of the stack. Ifs, parallel arms and the cases of a select run their
ops where they stand and have no frame.

### Channels

One channel, the executor (`Main`) and the goroutines it spawned (`Workers`);
`proc` says what each is doing. Where the code looks and then acts, the look and
the act are two steps: the pending check and the receive of a pull, the closed
check and the send of a select. `accepted`, `taken` and `told` are history: the
values in, the values out, the values whose sender was told. In blocking mode
`Main` is the Golden Thread and runs the guest calls of workers only while it
waits and pumps; in cooperative mode the host does.

### Awaits

An await is a frame: it looks for its result, lets the event loop or the Rust
executor run, and looks again until its deadline. Tasks of Python and
JavaScript report through global variables (`flags`, `results`), which all
manifests of the process share. Manifests run one at a time (`manifest`,
`EnterManifest`), each with an Executor that numbers its awaits of references from
1 (`nextRuntimeRefID`), so two of them use the same variables. Rust tasks sit
in the tables of `rt.rs` (`place`), their bridge calls in `outbound`. Whatever
runs may call back and await in turn. `abandoned` and `got` are history: the
tasks whose await ended first, and whose result each await returned.

### Proxies

The executor's values and handles (`entries`, `bridged`) and the proxies in the
guests' caches (`open`). An operation is one step, with the proxy the guest
makes of its answer; collectors (`Collect`) and `Drain` come at any time. `fate`
is history: a handle is `sound` until a scope, a close or an end of file takes
it, or two proxies adopt its one reference; `crossed` are the values that were
asked for again where their handle had been lost. The properties are about the
others, and section 6 says how the rest goes wrong.

## 3 Runs, bounds and what they show

Every property of a passing run is also run against a mutant of the model,
which must violate it.

| Run | Instance | States | Shows |
|---|---|---|---|
| `handle_safety` | 2 threads, 2 handles, 1 scope, 2 references and 1 edge per handle, 3 finalizer releases, queue and spill of one place | 2,061,019 | `ReleasedAtMostOnce`, `BooksBalance`, `SweepIsComplete`, `ImplementsLifetime` |
| `dispatch_safety` | 2 synchronous and 1 asynchronous task, channels of one place, all loops, panics | 2,859,024 | `AnswersAreTrue`, `QueuedTasksAreSignalled`, `FastIsOvertakenAtMostOnce` |
| `dispatch_liveness` | 2 synchronous tasks, one of them of a goroutine the other waits for, all loops | 33,340 | `NobodyWaitsForEver`, `ImplementsGoldenThread` |
| `watchdog_timing` | 2 runtimes, timeouts of 1 and 2 ticks, 2 arms, depth 2, 2 starts | 709,251 | `NestingIsKept`, `NothingHangs`, `FiresAsArmed` |
| `arrow_store` | 2 names, 2 slots, 3 memories, 2 of them external, queue, overflow and tombstones of one place | 634,836 | `BooksBalance`, `BorrowsAreReturned`; and `TablesAreExact` and `CapturesAreRead`, asked once for all inputs below |
| `host_vm` | 2 calls with requests of their own, one of them runaway code and one a batch of two items, 1 closer, 2 runtimes of which one is deaf, channels of one place, task and drain timeouts, a Start that may fail | 151,066 | `NoCodeInDeadRuntimes`, `TimeoutHitsItsTask`, `TeardownIsOrdered`, `EverybodyReturns` |
| `workers` | the library: 1 foreign thread, 3 executors, 3 guest calls, 4 entries; the unit cache: 2 processes with a goroutine each, 3 units of which one does not compile, a cache of 1 artifact, 2 versions of the sources, 2 builds, 1 death or change, in a fresh workspace or one with a stamp that is not of its dylib | 335,808 | `LockIsAccounted`, `CallbacksReachTheirOwn`, `NothingIsCutOff`, `RunsEnd`; `BuildsKeepTheirOwn`, `BuildsReturn` |
| `control_flow` | 1 shared channel, 6 ops, 5 frames, loops of 2 iterations | 3,064,985 | `EverythingIsClosed`, `SignalsArrive` |
| `bindings_copies` | 2 names, 1 bound by evals, 2 values, 1 runtime with any globals at first, 2 scopes, 2 pieces of code, 4 versions, the last of them with one scope only, 1 global changed at a time | 130,992 | `CopiesAreCurrent` |
| `channels` | 2 workers, a channel of size 0 or 1, both modes, 4 ops, 3 values, batches of 2 | 144,320 | `ValuesAreKept`, `PanicNeedsRace`, `LiveStreamsStay`, `WaitsReturn` |
| `awaits` | 2 manifests in turn, Python's loop, both Rust executors, 3 tasks, 3 ops, depth 2 | 855,820 | `FuturesAreKept`, `OwnResults`, `AwaitsReturn` |
| `proxies` | 2 guests, 1 value reached through 2 owners, 2 handles, a job numbered 2, depth 1, 1 pending release | 429,545 | `ReferencesAreOwned`, `OwnedProxiesAreLive`, `IdentityIsKept`, `UnusedIsReleased` |

The library in one worker and the cache between workers have no state in common
(what a manifest does with a unit is a call), so `workers` checks them in one
run, each while the other rests: `part` says which moves.

`TypeOK` is checked with each of them, as a part of one of the invariants or by
the theorem `TypeCorrect`.

What the properties say, beyond their names:

- `BooksBalance` (table): references are owned, on their way or counted as lost;
  the finalizer queue with its spill and its counters agrees; every handle is
  live or released under one cause; edges are between live handles, so that the
  cycle diagnostics never walk into a released one (`EdgesAreLive`).
  `BooksBalance` (store): reference counts, tables, release callbacks and named
  borrows agree, and the memory of a lease stays what it was until the lease is
  released (`LeasesStayValid`).
- `CapturesAreRead`: nested values that are captured are read as they were, by
  rows and through C; and a value no larger than memory is captured unless it is
  ragged or has no scalars and a shape whose product overflows before its 0.
- `TablesAreExact`: `LayoutsAreExact`, a layout is accepted exactly if every
  element lies in the buffer, compared with the list of all elements;
  `ArraysSurvive`, C arrays with their nulls survive an import from any offset.
- `NestingIsKept`: `active_runtime` is the innermost execution's, and the
  execution armed last is timed. `NothingHangs`: overdue code is interrupted and
  `Shutdown` joins. `FiresAsArmed`: on time, once per arm.
- `TimeoutHitsItsTask`: the timeout of a task that still runs interrupts the
  runtime the task is in. `TeardownIsOrdered`: once each and in reverse order,
  except after a Start that failed and was repeated. `EverybodyReturns`: each
  call is answered or given up and each Shutdown ends; it excepts calls
  nobody will answer and whose context never ends (`lost`; section 6).
- `RunsEnd` excepts a host that stops stepping, and one that has itself entered
  what needs the lock of the run.
- `EverythingIsClosed`: scopes and handle scopes are those of the functions and
  catches that are running, in order; handles belong to the scope they were made
  in; a generator collects its own values; the stream of a generator call goes
  with its loop. `SignalsArrive`: a signal ends where it is aimed at, and no try
  is left without its finally.
- `ValuesAreKept`: what was accepted is buffered or was taken once, in order,
  and a sender told "sent" was not lied to. `PanicNeedsRace`: a select panics
  only if the channel was closed after its look. `LiveStreamsStay`: a pull ends
  a stream only if the channel is closed or another receiver took the value.
- `FuturesAreKept`: the bridge call of a suspended future is in exactly one place
  on its way, and an abandoned future never runs again. `OwnResults`: an await
  returns its own task's result. Awaits that share their variables within a manifest
  (async ops, parallel, results to be bound) may get that of an await that ended
  early, encloses them or began in between (`Misleading`). Those of references are
  numbered, and share with other manifests only: they are misled only where another
  manifest abandoned one of the same number (`Crossed`). Both happen (section 6).
- `CopiesAreCurrent`: guest code starts with the current value of every plain binding
  it is to be given. It excepts names an eval has bound and globals that somebody
  has written since (`changed`): guest code, another manifest, or an assignment
  through a ref that another name holds. What remains is the dedup's own promise:
  whatever scopes, rebinds and captures come and go, a version that is current in
  the record is the value in the global.
- `BuildsKeepTheirOwn`: one agent of all processes is in the workspace, and builds
  only what is not there (`NobodyBuildsTwice`); a process that starts gets the dylib of
  what it has hashed, unless its build failed, somebody edited the sources meanwhile, or it
  took for built what is `Disguised`, by files of older times without a stamp, or by
  an edit that was undone; a build
  fails for its own unit, or for what a dead process left, and for nobody else's
  unit; its artifact survives its own prune, unless nothing else could go; what is
  loaded is linked to the dylib of the process. `BuildsReturn`: whatever fails or
  dies, all other builds and starts end.

Why the bounds are enough:

- **Handles.** Every race of the table is between two threads over one handle,
  or between a sweep's snapshot and one handle of it; the second handle gives a
  sweep a rest to go on with, an edge a target and the spill an order. A queue
  and a spill of one place are full after one release each, so coalescing,
  refusal and the move from spill to drain all happen.
- **Dispatcher.** One place per channel makes full channels frequent. Two
  tasks race for them and nest; the third, asynchronous, adds the other way of
  being answered. `FastIsOvertakenAtMostOnce` needs one fast and two normal
  tasks and has three.
- **Watchdog.** Two executions are enough for an inner and an outer one and for
  one after another; two timeouts make a later deadline longer or shorter than
  an earlier one. The second start reuses the thread's variables.
- **Arrow.** Three memories let a name be set, replaced while borrowed and set
  again; two holders give views in either order. One tombstone place makes
  `forgetReleasedLocked` and the limit matter.
- **Layouts.** 13 types of up to three levels with 0, 1 or 2 values each, by value
  and by pointer; one and two dimensions of -1 to 3 or 20, so that products pass the
  largest int64 of 31, with strides of -2 to 3, offsets of -1 to 4, items of 1
  and 2 bytes; C arrays of up to 10 elements, over more than one byte of bitmap,
  with at most two nulls.
- **HostVM.** Two calls are one that runs and one that is queued, refused or
  follows it in another runtime; the timeout of the first can meet the second.
  A closer may call again after its drain timeout. Both contexts end at any time.
- **Library.** Four entries nest a run in a run, a call in a run, or follow a
  submission by what needs its lock; three executors are a module, a run and a
  cooperative run at once; the foreign thread's call can be served by any step.
- **Unit cache.** Two processes with a goroutine each race for the lock of all
  processes; two goroutines of one process differ only in a mutex before it. A cache
  of one artifact prunes at every second build. One upset is a death or a change
  at each place; litter needs one death and one build after it. Two versions of the
  sources are one that is there and another. An edit that is undone would need a
  second upset, and the run starts where the first has left off: a stamp of the
  version to which the one change goes back. The theorem needs none of these bounds.
- **Control flow.** Six ops and five frames are a function called from guest
  code in a try, in a loop, that throws or panics; or two foreach loops over one
  channel with a way out of both. Deeper stacks repeat these pairs: what a frame
  does depends on the signal and on itself.
- **Bindings.** The dedup records of different runtimes are independent, so one
  runtime suffices for `CopiesAreCurrent`. Two names are needed for captures
  under another name. Three versions are an outer binding, an inner one and a
  pop; four are an await, a copy of its ref, a rebinding of the first name and an
  assignment through the copy, all in one scope. Versions and code that runs share a
  budget (`Small`): two pieces of code nest while two versions are given, so that a
  function called from guest code injects, returns and is followed by another
  injection. Nobody changes a global after the last version (`Quiet`): it would only be
  excepted. Values are symmetric; the theorem needs none of these bounds.
- **Channels.** Two workers and `Main` are a sender, a receiver and one who
  closes or takes in between. Three values fill a place, a hand and a retry.
- **Awaits.** Three tasks are one that is abandoned, one that follows on the same
  variables, and one that calls; depth 2 is an await inside a call of an await. Two
  manifests are one that abandons a reference and one whose await has the same number.
- **Proxies.** Two guests hold one value; two handles let a value lose its
  handle and get another, and give the job a number to share. Collectors and
  drains come between any two operations.

All bounds are CONSTANTS named `Max...`; the queue capacities of the code are
parameters too. `CHECK_DEADLOCK FALSE` is set where the system may come to
rest: a stopped dispatcher, an engine that is down, all bounds used up.

## 4 Fairness

- `Dispatcher!FairSpec`: callers proceed, tasks end, the Golden Thread's loop
  takes steps. Strong fairness of the selects stands for Go's random choice: a
  case that is ready again and again is chosen. A task that never ends, or a
  host that never pumps, is outside the assumption, as it is outside the code's
  promise.
- `Watchdog!WatchdogFairSpec`: the pthread runs, time passes, `Shutdown`'s join
  proceeds. Nothing is assumed of guest code: `NothingHangs` is about code that
  never returns.
- `ArrowStore!StoreFairSpec`: the Golden Thread keeps draining; a finalizer whose
  channel was full goes on to the overflow. Nothing is assumed of guests, so
  `BorrowsAreReturned` excepts guests that keep the channel filled: the channel
  is drained before the overflow.
- `HostVM!FairSpec`: `Run`, the loop, the task it serves and the goroutines of
  calls, timers and closers go on; the timer of a task comes. Code that runs away
  need not end. Callers need not call, contexts need not end, the drain timeout
  need not come.
- `Library!FairSpec`: an entry ends unless it waits for the lock, a run's
  goroutine goes on, and the host steps the runs it has not forsaken and takes
  their results, as `pyomnivm`'s loop does.
- `Channels!FairSpec`: every goroutine goes on, and a wait that is over is
  noticed; a spawned function ends after some guest calls (strong fairness of
  its completion), which the executor's wait relies on. Nobody need send, receive
  or close: `WaitsReturn` excepts waits for a goroutine that is itself waiting
  to receive, or retrying a send, for ever.
- `Awaits!AwaitsFairSpec`: the thread's loop goes on, the host pumps between ops, and
  every deadline passes (weak fairness of each). Tasks need not end and calls need not be answered.
- `Proxies!FairSpec`: drains recur, since the executor drains after every op and
  at every boundary (`drainPostOpDeferredWork`). Collectors need not run.
- `UnitCache!UnitFairness`: a process that starts and a goroutine that builds go on when
  they can (weak fairness), so cargo ends and whoever holds a lock gives it back.
  Nothing is assumed of the order in which a lock is given: `BuildsReturn` holds
  since the number of builds is finite in the instance, and a holder always leaves.
- `HandleTable`, `Bindings` and `ControlFlow` have no liveness property and no
  fairness.

## 5 Proofs

All theorems hold for every value of the constants that satisfies the module's
ASSUME: any number of threads, tasks and handles, any capacities.

`HandleTableProofs`:

- `TypeCorrect`: `[]TypeOK`. By itself it is not inductive; `TypeInv` adds
  `JobOK`, which says what a thread at each place inside a method carries (a
  callback has an id that was registered, a sweep a snapshot of such ids).
- `AtMostOnce`: `[]ReleasedAtMostOnce`, and `NeverReused`: `IdsAreNeverReused`.
  `LifeInv` is the strengthening: a live handle has had no callback, a thread
  about to call one has a handle that is not live, no two threads have the
  same, and nothing at or above `nextID` has happened. That every step adds or
  removes at most one handle, or runs one callback, is `StepKind`, proved from
  the actions once; invariant, action property and refinement all follow from
  it.
- `EdgesStayLive`: `[]EdgesAreLive`, by itself inductive, and a part of the books.
- `RefinesLifetime`: `ImplementsLifetime`, the refinement of `HandleLifetime`.
- `SweepsAreComplete`: `SweepIsComplete`. The invariant follows a sweep: each
  handle of the snapshot it took has gone for good or is still to come
  (`SweepFits`), since no id is ever handed out again.
- `BooksAlwaysBalance`: `[]BooksBalance`. `BooksInv` counts, for every handle,
  what it is owed (`Owed`): the references held, the releases queued, those
  spilled and the one a draining thread carries. The spill is a function on
  handles of which the code keeps the total, so the total is the cardinality of
  `Pending`, the pairs of a handle and one of its spilled releases; the releases
  of each cause are counted the same way. Every step changes these sets by one
  element.

`DispatcherProofs`:

- `TypeCorrect`: `[]TypeOK`.
- `AnswersStayTrue`: `[]AnswersAreTrue`: what a caller is told of its task is
  what happened to it. The invariant is `Inv`: types (`Typed`); no task twice in
  a channel or on the stack (`Order`); and for every task its `Story`: where it
  may be (with its caller, in one channel, on the stack, gone), and in each
  place how often it has run and what its reply holds. Each kind of step is one
  lemma about the story of the task it moves and the stories it leaves alone.
- `NoWakeupIsLost`: `[]QueuedTasksAreSignalled`, and `FastStaysAhead`:
  `[]FastIsOvertakenAtMostOnce`. A second invariant, `Watch`: at each place of
  `RunEpoll` between its installation and its wait, who owes the eventfd a write
  for a task that is queued (`Signals`); and that no fast task is passed before it
  is queued, or while a loop that found the fast channel empty has still to choose
  (`Overtakes`). Most steps are `Beside`: they queue nothing and signal nothing.
- `RefinesGoldenThread`: `ImplementsGoldenThread`. The stage of a task is read off
  its story (`StageFromStory`), so `Inv`, with `Ended` (a function that has ended
  was started), is all the refinement needs: a step that pushes, pops or refuses
  a task is a step of `GoldenThread`, every other leaves the stages and the
  nesting of tasks alone.

`BindingsProofs`, for any names, values, runtimes, nesting and versions:

- `TypeCorrect`: `[]TypeOK`, with the nesting of scopes and code. That a pop
  leaves no code without its scope is `CodeOutside`: while the executor runs,
  the innermost scope is not that of the code.
- `CopiesStayCurrent`: `CopiesAreCurrent`. The invariant is `Inv`: a plain
  binding is known, a ref has a variable, and the target of an eval in progress has
  an origin (`Evals`); and for every runtime and name (`Copied`), if the name has no
  origin, its visible binding is plain and the recorded version is current, so that
  an injection would be left out, then the global holds the visible value or is in
  `changed`. Nothing is assumed of the variable of a ref: it may be any name, with
  an origin or without. A bump makes every record of its names stale (`BumpIs`); a
  step that binds some names and writes no other name's global, unless it says so in
  `changed`, is an instance of one lemma, `BindStep`, and an assignment through a
  ref is one of these. A start injects the binding that is visible
  (`OfferedIsVisible`) or relies on `Copied`; a capture sets its record to 0.

`HostVMProofs`, for any calls, runtimes and goroutines in Shutdown, with or
without timeouts:

- `TypeCorrect`, `OnlyLiveRuntimesRun`, `TimeoutsHitTheirTasks` and
  `TeardownStaysOrdered`: the three safety properties of the run. `Closing` says
  that one Shutdown at most is past its first lines, that the loop has stopped
  when it comes to the hooks, and that no runtime is down before; `Task`, that
  the active interrupt is that of the task that runs, so that a timer that reads
  it late gets the runtime of a later task and never of its own (`Timers`);
  `Ordered`, that what is left of `order` is what is alive.

and about `Watchdog`, for any runtimes, any nesting and any timeouts of which one
is the longest:

- `NestingStays`: `NestingIsKept`, and `FiresOnlyAsArmed`: `FiresAsArmed`. The
  invariant is `WatchdogInv`: which runtime each nested execution sets and puts
  back (`Routes`); that all but the innermost are in guest code, and were armed in
  the order of their nesting (`Nests`); that a generation is left for each Arm
  still to come (`Counted`), so that the bound of the model never hides one; and
  that a deadline is that of the last Arm, at most `timeout` away (`Timed`,
  `LastArmedIsTimed`). What an execution puts back as it leaves is then what the
  one around it is in, and the thread can fire only when the time of the last
  execution that was armed has passed.

`ControlFlowProofs`, for any channels, any depth and any number of ops:

- `SignalsReachTheirFrames`: `SignalsArrive`. `Sound` says of a signal that it aims
  at the innermost frame that takes its kind (`AimsIn`), and the
  same of a signal that a finally body puts off, for the frames around it
  (`FrameOK`). A frame that is pushed while no signal is under way cannot hide
  its aim, and one that is left did not take it.
- `WhatIsOpenedIsClosed`: `EverythingIsClosed`. While nothing was disturbed by a
  panic (`Nest`), scopes and yield collectors are those of the frames that have
  one, in their order, and a generator's stream is registered in the scope in
  which its loop stands, with no scope in between (`StreamsNest`). Each is shown
  for a push, a pop, a cut to an outer frame and a change of the top; an action is
  one of these.

The proof corrected the model: after a panic in a catch body the handle scopes
outgrow the stack, so that the scope of a handle is any number and not one up to
`MaxDepth`.

and about `Layouts`, for any width of the integers, any number of dimensions, and
any sizes, strides, offsets, widths and nulls:

- `LayoutsStayExact`: `TablesAreExact`, from `ExactLayouts`: `LayoutsAreExact`, and
  `SurvivingArrays`: `ArraysSurvive`. The functions count dimensions, so the
  induction is over a set of numbers (`Climb` from the first dimension, `Descend`
  from the last) and needs no operator as a parameter. `BoundsAre`: the tests by
  quotients before the additions say exactly that all sums fit. `Hull`: the bounds
  are those of two elements and no element passes them, so testing the bounds is
  testing all elements. `DenseStrides`: strides the table makes itself never wrap
  when the product fits. `SlicesWithin`: an index cut after d dimensions is an
  index, filled with ones, so every slice begins inside the buffer, and the
  reader's wrapping sum is the sum (`SlicesAre`); `PickIs` and `FullRead` carry
  that through the nested rows to the elements. `EmptyRead` is the table with a
  dimension of 0, of which no read can fail. `ArraySurvives` compares the bitmap
  by element: `BitsFit` says that the bytes that are kept cover the last element.

and about `Captures`, for types of any number of levels, slices and arrays of any
lengths, any scalars and widths:

- `CapturesStayRead`: `CapturesAreRead`, from `FaithfulCaptures`. The functions of a
  capture are functions of the level, so the induction is again over a set of
  numbers, from the last level up. `Even(kinds, shape, d, v)` says that what lies
  behind d levels has the shape that is left of the whole; it gives the rows of v
  their length and the same for each (`EvenIs`). `BlocksAre`: a block of each level
  is a dimension times the block behind it, so the strides of the capture are those
  of a dense table (`StridesAre`), though they are computed with different tests.
  `FlattenIs` places each scalar of a concatenation, and `DenseIs` gives every value
  as many scalars as its block. `DenseRead` reads a value from wherever its
  scalars lie (`Lies`), and `HollowRead` one with a dimension of 0 from anywhere.
  `DeepIs` says why a pointer is enough: if the scalars follow each other, no level
  behind the first is a slice, so memory from the first scalar on is the whole
  value (`PointedIs`). `FactorsCount` says that scalars that fit memory are
  counted, so that such a value is captured (`CaptureCounted`). The assumption on
  the constants says that `Slice` and `Failed` are none of the other values, and
  that types have a level.

`LibraryProofs`, for any threads, executors, guest calls and entries:

- `TypeCorrect`, `LockStaysAccounted`, `CallbacksReach` and `NothingCutOff`: the
  three safety properties of the run. What makes them inductive: only the entry
  on top may wait for the lock, and a shutdown enters first (`Frames`); the lock
  is held for one cooperative run or by one entry of the stack, whose executor is
  wired; and the calls in the
  queue are those of the goroutines and threads that wait for one. Each action is
  one lemma about the owner of the lock.

and about `UnitCache`, for any processes, goroutines, units, upsets, builds and
sizes of the cache:

- `BuildsStayApart`: `BuildsKeepTheirOwn`, of which the inductive invariant is
  `UnitInv`. `Alone` and `Unpublished` are the lock and the look after it. `Stamped`
  says when the stamp, the lack of one and the times may be trusted, though the
  sources are hashed before the lock is waited for and may come back: unless
  `deceived`, a dylib that the next start would leave as it is is of the present
  sources. `deceived` is set exactly where an edit breaks that, and a forced build
  of a sound process mends it. `Hashed` and `Linked` carry a process from the
  sources it hashed to the dylib it opens; `OfItsKey` says the same
  of an artifact and its key, whichever process built it. `Newest` is what a
  prune is told by: when the newest artifact goes, the excess is no smaller than
  all this process has not loaded, so nothing else of it stays.

`ProxiesProofs`, for any guests, values, runtimes, jobs, handles and nesting:

- `TypeCorrect`, `ReferencesStayOwned`, `OwnedProxiesStayLive` and
  `IdentityStays`. The invariant has for every handle `Owned`: while it is sound,
  its references are those of its open proxies and queued releases and of the
  registration until it is adopted; so it cannot go while a proxy has it. `Known`
  says that a live value that has not crossed is remembered under its handle. The
  proof counts: a proxy that opens, closes or is collected changes the cardinality
  of `Of(h)` by one, and of no other handle.

and about `ArrowStore`, for any names, leases, views, regions of memory and
capacities of the channel, the overflow and the tombstones:

- `StoreBooksBalance`: `BooksBalance`. The invariant is `StoreInv`. `CountsInv`
  has for every buffer its references as the owner's, the leases' (a set of
  places) and the named borrows' (`NamedOf`, pairs of a name and a place in its
  queue): a borrow appends one pair (`NamedAppend`), the drain takes the first and
  moves those behind it, one to one (`NamedTail`). `MemoryInv` says that two
  buffers that are referenced never have one memory, so that the memory a replaced or
  last released buffer gives back is in use by nobody else. `SlotsInv` says when
  the drain has a name in its hand and that the order of the overflow names nobody
  twice, so that a name leaves it with its last release. Memory comes
  (`MemoryComes`), goes (`MemoryGoes`) or stays (`MemoryStays`), and a place is used
  otherwise (`SlotMoves`); every action is made of these. That the drain always
  finds a borrow to give back, and that a lease that ends always has one, follows:
  with the modelled callers the code's branches for a release without a borrow are
  never taken.

`ChannelsProofs`, for any goroutines, values and operations and any size of the
channel:

- `TypeCorrect`, `ValuesStayKept`, `PanicsNeedARace` and `OpenStreamsStay`: the
  three safety properties of the run. `Fits` says what the state of one process
  means for the channel: who waits to receive finds it open and empty, so that a
  value that goes in may overtake no other; who has a value of its own, in a
  select or a retried send, has one that never went in and that nobody else has
  (`Alone`), so that nothing goes in twice; a select that has looked and finds the
  channel closed was raced; a pull with pending that has looked finds a value, a
  closed channel or a thief. `PutIs` and `TakeIs` say what a value does on its way
  through, whoever is blocked; every action is then a put, a take, a close
  (`ClosesKeeps`) or the step of one process beside the channel (`Moves`).

and about `Awaits`, for any event loops and executors, any number of tasks and ops
and any depth of awaits:

- `FuturesStayKept`: `FuturesAreKept`. The invariant is `FuturesInv`. `TasksOK` and
  `FramesOK` say which table may hold which kind of future, and that a frame awaits
  one future or only tasks of event loops; `DrivesOK`, that what is driven is driven
  by one frame, a spawned future by the top one only (while its drive waits nothing
  runs on the thread that could begin another), and a local one has one frame for
  good. `Way(out, st, a, b, t)` is
  a place of a call of `t` on its way: a place in `OUTBOUND`, in what a frame still
  has to serve, or the frame of the op that serves it. `WaysOK` says that a task has a
  way only while it is suspended, never two, and one if it has asked; a drain
  moves all ways from `OUTBOUND` to a frame, a serve from the frame to the op, and
  the end of the op ends both. `StopsOK` is the rest of the property; it needs that a
  local or spawned future in no table has ended.
- `AwaitsGetTheirOwn`: `OwnResults`. `ResultsInv` adds, for tasks of event loops, who
  owns the variables (`OwnersOK`: a task is awaited until it ends or is abandoned,
  one awaited further out is older, branches of one `parallel` have different
  variables, and references of one manifest have each its own number) and what stands
  in them (`ResultsOK`): for every task that is awaited nothing yet, its own result,
  or that of a task that may mislead it (`Misled`, `Crosses`). Nobody clears the
  result variable of a reference, which keeps what an earlier manifest has left in
  it; so it counts only once the flag is set, by the awaited task or by an abandoned
  one of another manifest (`Sees`), and when no result that is still to be bound hides
  behind the flag (`Determined`). A task that ends, begins or is
  abandoned is one lemma each (`ResultsEnd`, `ResultsJoin`, `ResultsStay`).

These proofs corrected the model: the arms of `Released` overlapped, so that a
blocking call that is being driven could have been read as released, and
`Misleading` left to the parser what its union ranged over.

Only model-checked:

- Liveness, in all modules: the provers have no rule for fairness and ENABLED.
  Every invariant and every action property of the runs is proved.

## 6 Where the code differs from what it says

The properties state what the code keeps, and where it keeps less than it says
or than one would expect, they except exactly that. The exceptions, and what
else was met while modelling, by module:

**HandleTable**

- `ReleaseScope` looks at `Escaped` only in its snapshot
  (`pkg/handles/table.go:408-417`): a handle that escapes before its turn is
  released with the scope.

**Dispatcher**

- An asynchronous task sent after the shutdown drain is never answered
  (`pkg/dispatcher/dispatcher.go:381`), nor is one whose function panics
  (367-371).
- `Run` drains the fast channel and then selects among both (148), and
  `PumpUntil` has one select only; a fast task may be passed there, although
  `README.md:1002` says fast tasks are always drained before normal ones.
  `FastIsOvertakenAtMostOnce` is what `Run` keeps.

**Watchdog**

- The interrupt is raised after the mutex is released
  (`pkg/watchdog/watchdog_linux.go:82`); an execution that disarms in between
  leaves it to the next one in that runtime.
- An inner execution's Disarm ends the only deadline, so an outer one goes on
  untimed (`pkg/engine/engine.go:156`).
- `README.md:521` says the dispatcher sets `active_runtime`; `Engine.Call` and
  `Engine.Exec` do.

**ArrowStore**

- `BufRelease` names a name and gives back the oldest borrow of it
  (`pkg/arrow/arrow.go:493`); with a replaced buffer that may be the borrow of
  another view, whose memory then goes under it.

**Layouts** (`pkg/manifest/stubs.go`, `pkg/arrow/cdata_types.go`)

- A C array imported with nulls and an offset and exported again hands out the
  bitmap without its bit offset (`cdata_types.go:244`), so other elements are null.
  `ArraysSurvive` leaves these out; without that it fails.
- `total * elemSize` (`stubs.go:5990`) and `offset+maxOffset` (5979) may wrap, and
  a shape far larger than the buffer is accepted; the export tests the same
  product (`cdata_types.go:279`). `LayoutsAreExact` leaves these out (`SumsStay`).
- A flat table with an offset keeps the length of the whole buffer (5960), so its
  last elements are missing and an iteration ends without an answer; the offset of
  the buffer's own metadata is not looked at (6017).
- Nulls are not looked up in tables of more than one dimension (5868, 5896).

**HostVM** (`pkg/omnivm/omnivm.go`)

- A Start repeated after a failed one keeps the old `initOrder` (112), so Shutdown
  tears some runtimes down twice.
- After `ErrDrainTimeout` a second Shutdown returns nil with nothing torn down
  (495).
- The example at `README.md:903` calls `vm.Execute` on the Golden Thread before
  `Run`, and waits for ever; `ExecuteWithContext` submits without its context.
- Results of `CallBatch` are written after a caller whose context ended has left
  (313).
- The interrupt of a timeout that comes as its task ends stays pending for the
  next task of the runtime.

**Library** (`cmd/libomnivm/main.go`)

- A cooperative run holds the execution lock from Submit to Result: on the same
  thread, a second run, a module call, the worker drain or the shutdown in
  between waits for ever, although `README.md:260` promises that other requests
  of the host go on; a host task that is cancelled never gives the lock back.
- Guest code that runs or calls a manifest inside another one waits for ever.
- A call of a foreign thread waits for the next step or pump, and one that is
  left over is served with the executor of the next run.
- `hostRun` drops the error of `RunOnMain` (`pkg/manifest/cooperative.go:70`), so
  work the dispatcher refused counts as done.

**ControlFlow** (`pkg/manifest/executor.go`)

- A return or throw out of a foreach over a native generator call is wrapped
  (1309) and so becomes an error, which a catch even catches; so does one whose
  stream fails to close (1454-1463).
- A panic recovered in `HandleCall` (`stubs.go:421`) leaves the scope of an open
  catch body and the collector of an open generator behind.
- `runFinally` drops errors and control flow of the finally body (1811-1815).
- Two foreach loops over one channel share its handle: leaving the inner one
  closes the stream of the outer.
- A yield in a plain function that a generator calls goes to that generator, and
  handles made in the base scope after `Execute` stay until the worker drain.

**Bindings** (`pkg/manifest/captures.go`)

- The origin of a name is never forgotten (494), so a later plain value of the
  name is not injected into the runtime that once bound it by an eval.
- The walk of the automatic injection passes over refs of the runtime itself
  and names with its origin without marking them as shadowing, so an outer
  binding of the same name may be injected over the inner one's global (474-496,
  against the comments at 466 and 507).
- An inner plain binding injected over a global that an outer `RuntimeRef` lives
  in is not undone when its scope is popped.
- An eval records the origin before it runs, and keeps it when it fails
  (`executor.go:656`).
- Assigning to a `RuntimeRef` formats the value with `%v` into code, without
  quotes, and ignores whether that ran (`executor.go:1941-1947`).
- A capture `{y: x}` is skipped when x is a ref of the runtime named x, though y
  is what the code asked for (242).
- Captures of Python and Ruby are globals that stay, although the comment at 197
  relies on their scope.
- A ref that an await or a function's source has bound (`async.go:318`, 376,
  `executor.go:1146`, 1163) has no origin. After `await x; y := x; x := 5; exec;
  y := 7` the last assignment runs `x = 7` in the runtime and bumps y only
  (`executor.go:1939-1947`), so the next exec leaves x out as current, and finds 7.
  Without the exception for `changed` the property fails there.
- The records of injected versions are of one Executor, and each manifest has its own
  (`main.go:812`), while the globals are shared by all: what another manifest, a task
  or a thread writes to a global of that name is found in place of the value, since
  nobody bumps the version. The comment at `executor.go:178-180` calls stale entries
  harmless, and has only the versions in mind.

**Channels** (`pkg/manifest/channels.go`)

- The receive arm of a select discards the value; a value of a pull that fails to
  wrap is lost.
- A pull looks whether a value is pending and then receives: another receiver may
  take it in between, and the pull ends the stream. A send arm looks whether the
  channel is open and then sends: a close in between panics (599).
- Whether a wait pumps is decided by what the executor has and not by the thread
  it runs on (447), and the builtin `recv` on the Golden Thread never pumps (314).

**Awaits**

- The async ops of a runtime report through one flag and one result
  (`pkg/manifest/async.go:73`): the late end of an abandoned, enclosing or nested
  op completes another's await, with the wrong result. Parallel ops have
  variables by index, which nest the same way; a variable an await bound may be
  overwritten later.
- Awaits of references are numbered by a field of the Executor (`executor.go:188`),
  0 in every run, and report through globals of the runtime, which all runs share
  (`async.go:278-285`, 330-337). One that a manifest abandons at its timeout may end
  while the next manifest awaits under the same number, and completes that await:
  with its own result, or, if one of the two binds its result to a name instead, with
  what stood in the variable before. `OwnResults` excepts these (`Crossed`). Within
  a manifest the numbers are unique.
- A Python await inside a running loop makes no progress until its timeout of 30
  seconds.
- `release_future` of a background task that was driven once drops its handle
  only, although the comment at `rt.rs:221-223` says it is cancelled; a nested
  drive of such a task says it is not live. A blocking closure cannot be aborted.

**Proxies** (`pkg/manifest/stubs.go`, `captures.go`)

- A handle transferred twice is adopted by two proxies that own one reference
  (`docs/boundary-semantics.md:237-238`: a close releases exactly once); a transfer
  that meets an open proxy is not adopted, and its reference stays until the
  worker drain.
- The ids of jobs (`executor.go:2493`) are used as those of handles by the guests
  (`stubs.go:1529-1537`), and Python and Ruby remember both under one key
  (`captures.go:1948-1951`).
- A value that is reached through two owner runtimes loses its remembered handle;
  identity is forgotten between manifests although escaped handles stay.
- The release of a channel's stream handle closes the stream though another
  handle of it may live.

**UnitCache** (`pkg/rust/toolchain.go`)

- "Stale members were removed after their builds" (598) does not hold for the
  member of a process that died: the next builds compile it too, and when it is half
  written or does not compile every build of every process fails, and a start goes
  on with the dylib that is there, until somebody removes the directory.
- "Currently-loaded units are never pruned" (652) holds for the process that
  prunes. Another one may remove an artifact between the look of its caller and
  `LoadUnit`, which then reports a missing file; a second try builds it again.
- At the limit, a process that has loaded all older artifacts removes the one it has
  just published (681), and cannot load it at any try. The order is that of
  publication, since nothing touches an artifact that is used.
- When the sources change while a process runs, its next build compiles the new
  dylib, and the artifact it links to it is published under the key of the old one
  (64, 340): loading it may fail, here and in other processes of that key.
- The stamp holds a hash with the live Cargo.lock (226), in which a build has entered
  its member; so a start after a build forces a rebuild of the dylib, and has other
  keys, although the comment at 61-63 means to avoid that.
- A start looks for the dylib and opens it without the lock (333, `loader.go:135`),
  while another process may be replacing it; the error stays for the life of the
  process, being kept by a `sync.Once`.
- The hash is taken before the lock is waited for (285) and stamped after the build
  (316-318). When an edit comes in between, the dylib of the new sources gets the
  stamp of the old ones; once that edit is undone, the next start takes the dylib for
  current, and loads code that is in no source.
- Without a stamp only times are compared (290-294): over a prebuilt target, sources
  with other contents and older times force nothing, cargo may miss them, and the
  start stamps the old dylib with their hash, so that no later start forces a rebuild
  either. `SupportIsFresh` excepts both (`Disguised`), and fails without that.

## 7 What is not modelled

- **Runtimes.** CPython, V8, the JVM and CRuby behind cgo and JNI
  (`pkg/python`, `pkg/ruby`, `pkg/jvm`, `pkg/javascript`), by far the longest part
  of the code: each function prepares C values and calls an API whose behaviour is
  outside this repository. Their interrupts, event loops and globals are in the
  modules that use them.
- **Text.** The compiler, the stubs and capture code that `stubs.go`,
  `captures.go` and `plugins.go` generate as strings in guest languages (what the
  generated proxies do is in `Proxies`), validation, messages. The same holds
  for the builds of Go plugins; those of Rust units are in `UnitCache`.
- **Data.** Go proxies by
  reflection, polyglot values, the encodings of the Rust guest runtime: functions
  of values without state.
- **Diagnostics.** Access counts, `Stats`, `Inspect`, cycle statistics and the
  chatty-proxy warning of the handle table; metrics; the doctor.
- **Programs.** `cmd/omnivm`, demos and the stress test.

- **Steps of modelled parts.** A `wait` without arguments that a worker runs waits for
  the worker's own goroutine too, and so for ever (`channels.go:407-410`); `Channels`
  has the waits of the executor. An abort of a spawned Rust task acts at its next
  await only (`rt.rs:233-238`), so the task may run on, and push one more bridge call,
  which is served for nobody; in `Awaits` a task that is released asks nothing more.
  `VM.Shutdown` has no guard (`omnivm.go:489-501`): one before the first Start waits
  for a loop that has not run, until its drain timeout or for ever; `HostVM` shuts
  down what was started.

Of components that are modelled in part, `PROJECT.json` says what is missing.
The map therefore covers a small share of all lines: what the modules stand for
is the state and the control of the host, which is a small share of the code.

## 8 Plan

Done: the handle table and its refinement; the dispatcher and its refinement;
watchdog and Arrow store; bindings; the VM; the library with cooperative runs;
the control flow of the executor; channels and goroutines; async ops and Rust
futures; handles, proxies and identity across guests; the cache of Rust units.

Every safety and every action property of the runs is proved; theorems next by worth are about models still to come.

Models next: the cache of Go plugins (`plugins.go`), which builds to the final path;
`BufferOwner` in the store; parallel ops that mix runtimes in Awaits;
Java's captures in Bindings; the object table of the Rust guest runtime; cycle
statistics and the chatty-proxy rule of the table as functions against reference
definitions; liveness of the table's drains, which rests on hosts that keep
draining.
