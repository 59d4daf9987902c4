# Verification of the OPC UA supervisor and daemon

TLA+ models, TLC runs and TLAPS proofs for the repository's own code:
`apps/`, `src/supervisor`, `src/config` and `src/daemon` (paths below are
relative to the repository). Vendored code is modelled only where the program
relies on what it does: the lifecycle of `httplib::Server`, SQLite's locking,
the process calls of POSIX and Windows, `std::from_chars`, the way the C runtime
of Windows splits a command line.

## The system

`opcua-supervisor` is one process with a main thread, a thread that runs the
HTTP API, and the workers of cpp-httplib. It owns one `opcua-daemon` process
(PID 1 and its only child in the container) and one connection to the SQLite
database; each daemon opens a connection of its own and reads the configuration
once, when it starts.

    client -> httplib worker --operations_mutex_--> ProcessController --fork, kill, waitpid--> daemon
                                     \------------> ConfigRepository -> SQLite <- daemon
    main -> ProcessController (start, reap, stop), ApiServer (Run, Stop)

### Inventory

| component | state | operations | what is hard | what makes it correct |
|---|---|---|---|---|
| `ProcessController` (`process_controller.cc`) | `child_pid_`, `status_`, `shutdown_requested_`, `mutex_`; outside it the kernel's process table | `Start`, `Stop`, `Restart`, `ReapExited`, `status`, `RequestShutdown`, destructor | calls from many threads; a flag read outside the mutex; failing system calls after a fork; children that die or refuse to at any time; pids that are reused | at most one daemon, none lost, signals only to the own child, truthful results and verdicts, no launch after shutdown, the mutex is always released |
| `ApiServer` (`api_server.cc`) on `httplib::Server` | `lifecycle_state_`, `stop_requested_`, `is_running_`, `svr_sock_` and the descriptor, the pool and its queue, `operations_mutex_` | `Run`, `Stop`, start handler, seven routes | `Stop` before, during and after `Run`; a listener that fails by itself; connections in flight | `Run` once, a `Stop` is never lost, `Ok` only after a `Stop`, nothing in flight on return, the socket is closed once |
| supervisor main (`apps/opcua-supervisor/main.cc`, `supervisor_exit.cc`) | `shutdown_signal`, the future of `Run`, results | start, the 50 ms loop, shutdown sequence, destructors | a signal against the end of the API server; handlers in flight during shutdown; two mutexes | terminates, leaves no daemon, exit code tells the truth, nobody inside destroyed objects |
| `ConfigRepository` on `SqliteDb` | the table `config`, transactions | `Open`, `Initialize`, `Load`, `Save` | several processes; crashes; `Initialize` is no transaction; BUSY; error paths; the ignored answer of `PRAGMA journal_mode` | readers see whole configurations, defaults are repaired, no transaction is left open |
| daemon process (child branch of `StartUnlocked`, `apps/opcua-daemon/main.cc`, `opcua_server.cc`) | signal mask and dispositions, `g_shutdown_requested`, `running`, the monitor thread, the `UA_Server` | from fork to exit | signals at any moment of the start; a start that fails while another thread polls | a signal ends it, a failed start ends it, a return leaves nothing behind |
| `ServerConfig` (`server_config.cc`) | a value | `Default`, `Validate` | boundaries of the fields | defaults valid; only valid values are stored |
| JSON codec (`ConfigJsonParser`, `ConfigToJson` in `api_server.cc`) | a position in the text | parse, print | escapes, surrogates, integer range, duplicate and missing keys | round trip; rejects what is not one configuration |
| integer parsing (`ParseIntValue`, `ParseApiPort`) | none | parse | overflow, trailing text | exactly the decimal numbers in range |
| `ProcessController` on Windows | `process_handle_`, `status_`, `shutdown_requested_`, `mutex_` | the same methods | handles to own and close, `TerminateProcess` that only begins the end, a wait that fails or times out, exit code 259 | the handle is neither leaked nor dropped early, verdicts are right, the slot promise as long as no wait fails |
| handlers and both starts (`api_server.cc`, the two `main.cc`) | the supervisor's connection, `operations_mutex_`, what a daemon loaded | the seven routes, `Initialize` and `Load` of every start | the handlers share one connection; daemons start, crash and load while a PUT runs; the supervisor dies between COMMIT and the answer | answers are true, after a PUT and a restart the daemon has loaded the configuration, nothing else replaces one |
| command line on Windows (`QuoteWindowsArgument`) | none | quote, join | backslashes before quotes | the daemon gets the same arguments |
| `Status`, `Result` | a value | accessors | nothing | |

Hazards, each with its line and the properties aimed at it, are listed in
`PROJECT.json`.

## Modules

| module | models | runs |
|---|---|---|
| `ProcessController` | the POSIX controller, its callers, the kernel's process table | `pc_faults`, `pc_live` |
| `WindowsController` | the Windows controller on process handles | `windows` |
| `DaemonSlot` | abstract: one slot for a daemon with admission, launch, death, verdict | refined by both controllers |
| `ApiServer` | `ApiServer::Impl` and the part of httplib under it | `api_safety`, `api_assert` |
| `Supervisor` | main, composed of `ProcessController` and `ApiServer` | `sup_safety`, `sup_live` |
| `ConfigRepository` | the repository over SQLite, several processes | `cfg_safety` |
| `ConfigRegister` | abstract: one register that changes as a whole | refined by `ConfigRepository` |
| `ConfigService` | handlers and the starts of supervisor and daemon, composed with `ConfigRepository` | `service`, `service_live` |
| `DaemonProcess` | one daemon from fork to end | `daemon` |
| `JsonString` | `EscapeJsonString` and `ParseString`, byte by byte | `conversions` |
| `IntegerText`, `IntegerInput` | the three integer parsers as operators; every text given to them | `conversions` |
| `ConfigJson` | the parser of objects and `ConfigToJson`, token by token | `conversions` |
| `ConfigFields` | `Default`, `Validate`, rows and their text, the port served | `conversions` |
| `CommandLine` | the quoting of arguments on Windows | `conversions` |
| `Conversions` | the disjoint union of the six modules before it | `conversions` |
| `...Proofs` | theorems | TLAPS |
| `MC...` | symmetry and constant values for TLC | |

Operators commented "Mutant" are not part of the specifications: each is a
plausible bug, substituted for the definition after it to see that a property
notices.

### ProcessController

A thread is at a control point `pc[t]`; `op[t]` is the method it is in and
`ret[t]` the `Status` it got. Methods run under `mutex_` (`lock`), so a method is
cut into steps only where something outside the mutex can get in between: at each
system call, and at each load of `shutdown_requested_`. `Start` is `StartGate`,
`StartReap`, `Fork` or `ForkFails`, `RestoreMask`, and, when the signal mask
cannot be restored, `AbortKill` and `AbortWait`; `Stop` is `StopReap`, `StopTerm`,
`StopPoll`/`PollDeadline`, `StopKill`, `StopWait`; `Restart` is two gates around
the two. `StopUnlocked` and `StartUnlocked` are shared the way the code shares
them (`FinishStop`). The local `pid` of `StartUnlocked` is one variable, since only
the holder of the mutex has one.

The kernel is the process table `proc`, the wait status of zombies, and the
signals sent to a process. A child is an arbitrary program: it ends whenever it
likes, with any status, and may ignore SIGTERM. Pids are reused, by other
processes too. With `AutoReap` SIGCHLD was inherited as SIG_IGN: a child that ends
disappears and `waitpid` answers ECHILD. With `SyscallFaults` every system call
may fail. The polling interval and the timeouts are abstracted: the deadline may
pass at any round. `EINTR` only repeats a call. The branch of `DecodeExitedStatus`
for a status that is neither an exit nor a signal cannot be reached without
`WUNTRACED` or `WCONTINUED`.

### ApiServer

`RunGate` ... `RunEnds` are `Run` with `listen_internal` inlined; `Stop`,
`StopCheck`, `StopAssert`, `StopExchange`, `StopShutdown` are `Impl::Stop` and
`httplib::Server::stop`, step by step because `is_running_` and `svr_sock_` are
atomics without a lock. The start handler can run the same `stop` on the API
thread. Blocks under `lifecycle_mutex_` are one step each. Workers take
connections, handlers take `operations_mutex_`. What the operation under that
mutex does is left to `Supervisor`. `is_decommissioned` is left out (see the
module's comment). `descriptor` is the state of the listening socket itself, next to
`svr_sock_`, the variable that holds its number: a listener that fails closes the
first and leaves the second, so that a later `stop` closes the number again.
`AcceptClose` is that step; `ListenerClosedOnce` says it is the only way to it.

### Supervisor

Instances of both modules share the threads: a handler's operation
(`BeginOperation`, `EndOperation`) holds `operations_mutex_` around one call of a
controller method, main calls the controller and `Stop` itself, and the API thread
enters `Run` whenever it is scheduled, maybe after main has already called `Stop`.
`MainAt` makes main wait for the call it is in. `DestroyApi` and
`DestroyController` are the destructors in the order of C++. A `std::thread` that
cannot be started ends the process by `std::terminate` (`main = "aborted"`): the
daemon is left behind, which `CleanExit` does not deny. What main does before the
controller exists is in `ConfigService`.

### ConfigRepository

Rows are the keys in the order of `ConfigEntriesFrom`; a value is abstract, with a
set of values that `Validate` rejects. Each statement of its own and each
statement of a transaction is a step. SQLite is one write lock, a private copy of
the rows for the writer, a snapshot for a reader, and a commit that a reader
blocks when WAL is not in force. A blocked statement waits, or gives up with BUSY
when the timeout is over. Some errors end a transaction by themselves, so that the
later ROLLBACK fails. `Crash` is the end of a process at any step.

### DaemonProcess

Control points of the forked child and of the daemon's main thread, one step per
signal call, the monitor thread, signals pending, blocked and handled, and the
state of the `UA_Server`. The mask the supervisor had before the fork is arbitrary;
what is promised of a signal is promised when it was not blocked there.

### WindowsController

The same cut as in `ProcessController`, at the calls of the Windows API and the
loads of the flag. A process stands for the object its handle names; it ends
whenever it likes, with any code. `TerminateProcess` only begins the end
(`doomed`), and fails when the process has ended already. A wait after it may time
out although the end has begun. `wait_failed` remembers that a
`WaitForSingleObject` failed in `ReapExitedUnlocked`, which takes a live daemon
for a crashed one (`process_controller.cc:389`): what the code promises, it
promises until then, and the properties say so. The destructor closes the handle
even when its stop has failed.

### ConfigService

Two connections of one `ConfigRepository`: the supervisor's, which all handlers
share under `operations_mutex_`, and the daemon's. A handler is `Receive` (parsing
and validation, before the mutex), `Lock`, one or more steps with the repository or
the controller, and `Respond`. The controller is reduced to what `DaemonSlot` says
of it. `main` opens and initializes and then starts a daemon; each daemon
initializes, loads and serves. `SupervisorDies` is a crash at any moment, and the
supervisor is started again when its daemon is gone, as in the container. `fresh`
is a history variable: the configurations in force since the last start or restart
that was answered 200. A daemon that is "serving" has loaded a configuration and
passed it to `OpcuaServer::Run`, which so far applies its port only
(`opcua_server.cc:83`); `ServesFresh` is about what was loaded.

### Conversions

`JsonString` runs the loops of the code one byte or escape at a time, over values
to print and over texts that somebody else wrote; `ReadsMeaning` and `RoundTrip`
compare with the table of UTF-8 in the Unicode Standard and the rules of UTF-16.
`ConfigJson` does the same one level up: a token per step, the text chosen while it
is read. `IntegerText` has `ParseInteger`, `ParseIntValue` and `ParseApiPort` over
`from_chars` and `to_string`; `IntegerInput` types every text of the alphabet into
them. `ConfigFields` has all 13 fields with the rules of `Validate`, the text of
the rows, other programs that edit rows, and the cast of the port to 16 bits.
`CommandLine` compares what `BuildCommandLine` joins with what the C runtime takes
apart. They share no state, so `Conversions` runs one of them, its `subject`, per
behaviour.

## Runs

| run | instance | shows |
|---|---|---|
| `pc_faults` | 2 threads, 2 pids, failing calls | `OneDaemon`, `NoLostChild`, `KillTargetsOwnChild`, `ResultsTruthful`; refinement of `DaemonSlot` |
| `pc_live` | the same, calls work | `CrashVerdict`, `ShutdownIsFinal`, `CriticalSectionEnds` |
| `windows` | 2 threads, 2 processes, exit codes 0, 1, 259, failing calls | `HandleOwned`, `DaemonControlled`, `VerdictExact`; refinement of `DaemonSlot` until a wait fails |
| `api_safety` | 2 runners, 2 stoppers, 2 workers, queue of 2, failing calls | `RunOnce`, `OkOnlyAfterStop`, `NothingInFlight`, `ListenerClosedOnce` |
| `api_assert` | 1 runner, 1 stopper | violated: `StopFindsSocket`, see Findings |
| `sup_safety` | 1 worker, 1 pid, failing calls and server | `NoRevival`, `CleanExit`, `OwnStopIsNoFailure`, `NoUseAfterDestroy` |
| `sup_live` | 1 worker, 1 pid, failing server | `ShutdownCompletes`, `DeathNoticed` |
| `cfg_safety` | 2 connections, 3 keys, 3 requests (one invalid), failing calls | `LoadSeesWholeConfig`, `InitializeRepairs`, `TransactionEnds`; refinement of `ConfigRegister` |
| `service` | 2 workers, 2 keys, 3 requests (one invalid), failing calls, crashes | `ConnectionExclusive`, `AnswersTruthful`, `ServesFresh`, `ReplacedOnlyByPut` |
| `service_live` | 2 workers, 1 key, BUSY only | `RequestsAnswered` |
| `daemon` | both signals, failing calls | `SignalEnds`, `FailedRunEnds`, `ReturnsClean`, `ZeroOnlyOnRequest` |
| `conversions` | see Bounds | `StringsExact`, `IntegersExact`, `ObjectsExact`, `RowsExact`, `ArgumentsSurvive` |

The properties of `conversions` are those of its modules, put together:

- `StringsExact`: `RoundTrip` (what GET prints can be PUT and means the same),
  `ReadsMeaning` (accepted exactly with the meaning of the text),
  `PrintedNoLonger` (a configuration does not grow beyond what a PUT may have);
- `IntegersExact`: `StoredIntegerExact`, `PortExact`, `JsonIntegerExact`;
- `ObjectsExact`: `AcceptsWholeConfigs`, `RefusesOnlyOthers`, `PrintedIsAccepted`;
- `RowsExact`: `SavedIsLoaded`, `LoadInventsNothing`, `PortServedAsStored`;
- `ArgumentsSurvive`: one property of `CommandLine`.

The type invariants of the modules with proofs are proved rather than run; those of
`JsonString` and `ConfigJson` are part of `StringsExact` and `ObjectsExact`.

### Bounds

- Threads and workers: the controller's methods exclude each other, so one thread
  inside and one outside show every interleaving of two methods; a third can only
  wait. `Supervisor` has one worker beside main and the API thread: it may hold
  `operations_mutex_` while main waits for the controller's mutex. Its invariants
  are proved for any number of workers; with two, handlers that wait for each
  other are in `api_safety` and `service`.
- Pids: two are needed to have a daemon while another process has taken the pid
  of the one before it, or two daemons if the code allowed them. `Supervisor`
  needs one: a second daemon is `ProcessController`'s question.
- Exit codes 0 and 1 and one signal are the cases `DecodeExitedStatus` tells
  apart.
- `MaxQueue`: one or two accepted connections that wait are enough for a drain
  with busy workers. The code has no bound by default.
- Keys: with three, a crash or a Save has a position before, between and after
  defaults; two configurations that differ in every key make any mixture visible.

- `windows`: the exit codes are success, the code of `TerminateProcess` and
  `STILL_ACTIVE`; two processes show a second daemon beside one that was dropped.
- `service`: with two keys a mixture of two configurations is visible; two workers
  are one inside and one waiting. For liveness one key is enough.
- `JsonString`: up to three of 19 bytes around the bounds of the ranges, the bounds
  of four-byte sequences, and up to three of 25 ways to write a character, cut at
  every byte.
- `IntegerInput`: all texts of up to four of eight characters. TLC's integers have
  32 bits, so the bounds of `int` and of the port are shrunk to 127 and 81, which
  keep the order and the number of digits around the bounds; the code's widths
  differ from these in size only, and `SpecIntegersExact` holds for any. `ConfigFields` has the real port and a small
  `MaxInt` above it.
- `ConfigJson`: a string field and an integer field, texts of up to 15 tokens with
  `kMaxConfigJsonBytes` at 14 (`MaxJson`, counted in tokens), one piece of
  whitespace: 9 tokens are a whole configuration, so every duplicate, missing,
  unknown or trailing part fits.
- `ConfigFields`: the default with one field at or beyond its bound, and three rows
  edited; `CommandLine`: two arguments of six characters together, four kinds of
  character.

Two clauses are about calls that do not fail, and say nothing in a run that lets them
fail: the second half of `CleanExit` in `sup_safety` (`SyscallFaults` is TRUE) and the
clause of `VerdictExact` about `kCrashed` in `windows` (`OtherFaults` is TRUE). The
theorems `ExitIsClean` and `VerdictsAreExact` show them for both values.
Self-reaping children (`AutoReap`) are left to the proofs: the runs have it FALSE.
Symmetry is used in safety runs only. Deadlock is checked except where the
modelled part may end: `ApiServer` when `Run` is over, `DaemonProcess` when the
process is.

### Fairness

- A thread that holds a mutex, main, the monitor and the threads inside `Run` and
  `Stop` go on (weak fairness): nothing in the code suspends them, and each call they
  block in is fair itself.
- A thread that waits for a mutex gets it in the end (strong fairness), which
  `std::mutex` on the supported platforms gives in practice and the standard does
  not promise.
- A child that was sent SIGKILL ends. Nothing is assumed of a child that was sent
  SIGTERM only. `CriticalSectionEnds` rests on the deadline of `StopUnlocked`
  alone: a thread that polls ends polling.
- A connection ends in spite of further requests: httplib answers at most
  100 per connection and times out on reads. `accept` is not made to return or to
  fail (`Accept` and `AcceptBreaks` have no fairness): only a closed socket ends it
  for certain. Clients, signals and Run itself are
  never assumed to come, except that the API thread that was started runs.
- A statement that SQLite blocks goes on or is told BUSY after 5 seconds.
- `ConfigService`: handlers and the repository go on (weak fairness), a handler that
  waits for `operations_mutex_` gets it in the end (strong fairness). Daemon,
  clients and crashes are never assumed to move.

Liveness of `ProcessController` and `Supervisor` is checked without failing system
calls: a `kill` that fails leaves a running daemon by design, and the callers are
told.

## Proofs

Eight modules prove their theorems for every value of the constants, from the named
assumption of the module they extend alone. The invariants checked by the runs are
seldom inductive; each module states `IInv`, shows that `Init` gives it and that
every action keeps it (`InitIInv`, `NextIInv`), and derives the properties. Type
invariants with Boolean variables and functions appear in two parts, `Flags` and
`Shapes`, because two provers share the work.

| module | theorems |
|---|---|
| `ProcessControllerProofs` | `TypeOK`, the four invariants of `pc_faults`; `ShutdownIsFinal`; `ImplementsDaemonSlot`; `CrashVerdict` |
| `ApiServerProofs` | `ApiTypeOK`, the four invariants of `api_safety` |
| `SupervisorProofs` | `MainTypeOK`, the four invariants of `sup_safety` |
| `DaemonProcessProofs` | `DaemonTypeOK`, the invariants `ReturnsClean` and `ZeroOnlyOnRequest` of `daemon` |
| `ConfigRepositoryProofs` | `ConfigTypeOK`, the three invariants of `cfg_safety`; `ImplementsRegister` |
| `WindowsControllerProofs` | `WindowsTypeOK`, the two invariants and `VerdictExact` of `windows`; `ImplementsSlot` |
| `ConfigServiceProofs` | `ServiceTypeOK`, the three invariants of `service`; `ReplacedOnlyByPut` |
| `ConversionsProofs` | the five invariants of `conversions`: `StringsExact`, `IntegersExact`, `ObjectsExact`, `RowsExact`, `ArgumentsSurvive` |

### ProcessController

`ProcessControllerProofs` proves for any sets of threads and pids, with or without
failing system calls and self-reaping children, from the assumption
`ProcessControllerAssumption` alone:

- `TypeCorrect`, `AtMostOneDaemon`, `ChildNeverLost`, `SignalsReachOwnChild`,
  `ReportsAreTrue`: `Spec => []P` for the type invariant and the four invariants of `pc_faults`;
- `ShutdownFinal`: `Spec => ShutdownIsFinal`.

None of the invariants is inductive: `OneDaemon` does not say that a thread about
to fork has seen an empty slot, `NoLostChild` says nothing while the mutex is held.
`IInv` adds what the code relies on:

- `MutexInv`: the thread inside a method is the holder of the mutex, so there is
  one;
- `MethodInv`: a control point is reached only from the methods that contain it;
- `MemberInv`: `status_` is `kRunning` exactly when `child_pid_` is set, and then
  it names an unreaped child (unless children are self-reaping);
- `OwnInv`: from fork to the end of `StartUnlocked` the only child is the local
  `pid`, otherwise it is `child_pid_`; a thread about to fork has no child;
- `ReturnInv`: what a method found out is still so when it releases the mutex.

A step of the holder disturbs only its own part of `IInv`; `HolderBefore` and
`HolderAfter` state that once, and each action then shows the part for its next
control point. `ShutdownFinal` uses a second invariant, `Quiet`, in the presence of
`IInv`: the flag is up, there is no child and no thread is between the last load of
the flag and the end of a launch. The premise of `ShutdownIsFinal` gives `Quiet`,
because with the mutex free nobody is inside a method, and no step leaves it,
because every launch has a load of the flag still before it.

`RefinesDaemonSlot` shows that every step of the controller is a step of
`DaemonSlot` or a stutter: the actions are sorted by what they do to the four
variables of the slot, and `IInv` supplies the guards (a thread about to fork has
no child, a verdict is given to a dead one only). `ZombieInv` is added for
self-reaping children, `SignalInv` (no signal was sent to a child unless a thread
is between the signal and the end of its `StopUnlocked`) for `CrashVerdict`.

### ApiServer

`GateInv` ties the place of each `Run` to `lifecycle_state_`, so that at most one
is inside; `StopInv` relates `stop_requested_`, the threads in `stop` and the ways
out of `Run`; `PoolInv` keeps queue and workers empty outside the loop, and the
mutex with the worker that is in an operation; `UnboundInv` and `OwnerInv` follow
the descriptor: before `bind` there is none, and afterwards exactly one thread, or
`svr_sock_`, is to close it, unless the listener has failed by itself.

### Supervisor

Nothing about the parts is proved again: `NextController` and `NextApi` show that
every step of the supervisor is a step, or none, of each part, and the lemmas of
their proof modules are cited by instance. On top of them `OrderInv` and
`OutcomeInv` say what has happened when main is at a point (shutdown requested,
server stopped, result collected), and `CallInv` which threads are inside the
controller. `NoRevival` rests on the controller's `Quiet`: the flag is up and
the successful `Stop` of main found or left no child.

### ConfigRepository

`StoreInv`: the table holds a whole valid configuration or a part of the defaults.
`SaveInv`: the writer's private rows are its input up to the next key and the
table from there on. `KeysInv`: an `Initialize` has passed only keys that are
there. The refinement of `ConfigRegister` maps a table that is not whole to the
register before its first value, and adds `SnapshotInv`: what a reader holds was
in force at some time since its SELECT, or is refused by `Load`.

### DaemonProcess, WindowsController

`StageInv` and `RequestInv` tie the stages of the daemon to the threads and the
`UA_Server` it has, and a lowered `running` to a reason for it. On Windows
`HolderInv` says for each control point of the thread inside what it knows of
handle and state (`At`), `FreeInv` the same for nobody inside, `OpenInv` that only
the member's handle is open, and `DestroyInv` that the destructor has closed it.
`KernelInv`, on top of them and as long as no wait has failed, says which process
there is: the one of the handle, or the one the destructor left. `HolderEffect`
sorts the steps of a method by what they do to the daemon (leave it, judge it,
create it, announce it, close its handle); `DaemonControlled` and the refinement of
`DaemonSlot` both follow from that.

### ConfigService

The repository is not proved about again: `RepositoryMoves` shows that every step of
the service is a step of `ConfigRepository`, or none, so that its invariant holds
here, cited by the instance `R`. To it are added: `MutexInv`, who holds the mutex;
`MainInv`, that the supervisor's connection is used by main before there is an API
and afterwards only by the one handler inside its call; `CallInv`, how far the
called operation is at each place of the handler; `RequestInv`, that what a PUT
passes on was validated; `DaemonInv` for the start of the daemon; `AnswerInv`, that
an answer is what the operation returned. `FreshInv` follows the history variable:
from a start or restart that was answered 200 to the next COMMIT, the daemon has
loaded, or will load, one of the configurations in force since.

### Conversions

What a conversion computes for every text needs induction over the text, and the
library's induction theorems take an operator, which no installed prover can
instantiate. `ConversionsProofs` therefore starts from one library fact without such
a parameter, `WFMin`: a set of numbers that is not empty has a smallest one
(`Minimum`). From it follow:

- `Induction`, stated for a set that holds 0 and with every number the next;
- `Recursion`: a recursive definition over a measure has a solution, so that
  `CHOOSE` in the model's recursive functions finds the intended one;
- `Fold`, a loop over a sequence, with what a turn does (`FoldAppend`), that it can
  be cut in two (`FoldConcat`), and that the library's `FoldLeft` is it
  (`FoldReached`).

On these rest, for every text of every length:

- `SpecArgumentsSurvive`: `QuoteWindowsArgument` and the reader of the C runtime are
  two loops. By induction on the argument, reading what the first wrote so far, with
  the backslashes it still holds back, leaves the second with the characters taken so
  far (`ReadQuotedWord`). The arguments follow one by one (`ReadArguments`); the
  program name, which is read by other rules, has no quote and does not end in a
  backslash.
- `SpecIntegersExact`: `to_string` writes the one numeral of a number that has no zero
  in front (`CanonicalDigits`), and `from_chars` takes the longest run of digits as its
  value (`LoopIsValue`); the three parsers then differ in which numerals and which
  rest they refuse.
- `SpecRowsExact`: `RowInv` says that, until somebody edits them, the rows are those of
  the valid configuration that Save answered Ok to; the lemmas on numerals take its
  integers through their text (`EntriesAreLoaded`). That edited rows mean what they say
  (`LoadedIs`) needs no invariant: Load is a function of the rows.
- `SpecObjectsExact`: `ObjectInv` relates what the parser has read, up to whitespace,
  to the text that `ConfigToJson` would make of the fields read so far in the order
  they came (`Stage`): a prefix of it, broken off where `expect` says. An accepted text is
  then the text of a whole configuration, and a text is refused only where no
  configuration has a text that goes on like that.
- `SpecStringsExact`, for any bytes that are printed and any text of elements, cut
  off anywhere. Three layers lead to it. First the tables: a row of the Unicode
  Standard fits at a byte exactly when `ValidUtf8SequenceLength` gives its length
  (`ValidTwo`, `ValidThree`, `ValidFour`), and `AppendCodePoint` writes the bytes that
  stand for the code point (`EncodeSpells`). Then the readings: `Characters` and
  `Meaning` are taken apart at their first character or element, and one more element
  at the end means one more code point (`OpensMore`, `MeansMore`), so that what is read
  and what is ahead can be put together. Then the steps: what the parser meets is one
  element and the rest (`Ahead`), and it takes exactly that element for what it means
  (`AdvanceOne`, `EscapeAhead`, `TwoUnits`) or refuses a text that has no hope left
  (`NoAdvance`, `CutShort`); what `EscapeJsonString` writes for the next bytes is one
  element with their meaning (`EmitsFormed`, `EmitsNone`). `StringInv` says, for each
  control point, what is wanted and where the code is on the way: while it prints, the
  output and the bytes to come stand for the characters wanted; while it parses, the
  meaning of what was read and of what is ahead do. For `PrintedNoLonger` it
  counts what GET would print for the characters read so far, which is no longer than
  what was read (`PrintLenFits`); the bytes that are kept would not do, because a
  control character is one byte and is printed as six.

`ConversionsAssumption` has what the code justifies: values are bytes; a text is made
of elements, each a well-formed character, an escape of RFC 8259, or something that
begins like none of them, and is cut off where it ends or before; `ConfigToJson` prints
every field once, a field is an integer or a string, the requests have all fields with
values of their kind and integers within `int`, a port is less than the greatest `int`,
a missing row is no text, and the path of the daemon's executable holds no quote and
does not end in a backslash.

### Only model-checked

Every invariant and action property that a passing run checks is proved, and so is
every refinement. Liveness under fairness (`CriticalSectionEnds`, `ShutdownCompletes`,
`DeathNoticed`, `SignalEnds`, `FailedRunEnds`, `RequestsAnswered`) is beyond the prover.

## Findings

`api_assert`: `httplib.h:11462` asserts that `Server::stop` finds a socket while
`is_running_`. `Impl::Stop` sets `stop_requested_`, leaves the mutex and calls
`server_.stop()`; the start handler on the API thread, which runs after
`is_running_` was set, may see `stop_requested_` and call `server_.stop()` as well.
If it takes the socket before main looks at `is_running_`, main's assertion fails.
`CMakeLists.txt` sets no build type and no `NDEBUG`, so by default the supervisor
aborts, and leaves its daemon, on a SIGTERM that arrives while the API starts. In a
build with `NDEBUG` the second `stop` closes descriptor -1 and is harmless; the
other runs model that build, and `ShutdownCompletes` is about it.

Two more behaviours of the code deserve a look and have no violation run of their own.
They are in the models, the properties except exactly them, and the hazards at these
lines therefore name no property:

- `process_controller.cc:389`: on Windows, a `WaitForSingleObject` that fails while
  reaping makes `ReapExitedUnlocked` report `kCrashed` and close the only handle, although
  the daemon may live. The next `Start` then launches a second one, and neither `Stop`
  nor the destructor reaches the first. `wait_failed` in `WindowsController` marks this;
  `DaemonControlled` and the refinement of `DaemonSlot` hold until then.
- `apps/opcua-supervisor/main.cc:83`: when the daemon has been started and
  `std::thread` throws, the exception leaves `main`, the process ends by
  `std::terminate` without any destructor, and the daemon stays. It is
  `main = "aborted"` in `Supervisor`; `CleanExit` speaks of returns from main, and
  `ShutdownCompletes` takes this end for an end.

## Not modelled

- `Status` and `Result`: values without behaviour of their own; their outcomes are
  the results in every module. The wording of messages and responses, and the other
  options of the command line.
- The checks of `ApiServer::Run` for null dependencies and the range of the port
  (`api_server.cc:539`): main passes both objects and a port that `ParseApiPort` accepted.
- The exception of `httplib`'s `enqueue` when it cannot start a thread of its pool
  (`httplib.h:10372`).
- `std::bad_alloc` anywhere, except where it is one of the failures of a call.
- A supervisor that dies outside a container and leaves its daemon to init: the
  repository has no code for it.
- `ToWideString` beyond that it succeeds or makes `Start` fail.
- Grandchildren: the daemon starts no process, and the controller waits for its own
  child only.
- open62541, the HTTP protocol, the rest of the vendored code, build files and
  tests.

## Plan

What is left: a composition of `DaemonProcess` with `ProcessController` that
replaces the arbitrary child, and a proof that the composition of the supervisor
implements the controller's promise to the handlers of `ConfigService`.
