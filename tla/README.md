# VeriPatch in TLA+

VeriPatch is a desktop updater: a Lua GUI talks JSON-RPC to a Python backend, which runs
the package manager of the machine (WinGet, softwareupdate, apt, dnf, pacman, zypper) and
streams its output back. These modules model the backend's core and the window: the runner
that launches a command and watches over it, the validator that decides which commands are
official, the updaters that turn one request into commands and one report, the listing that
tells what waits, the server that gates and serves the requests of several clients at once,
the Python clients of that server, the window with its client and the backends that it
starts, finds and replaces, and the scripts by which a release of the whole is approved and
published.

## 1. The system

| Component | State | Operations | Interacts with |
|---|---|---|---|
| command runner, `execution/runner.py` | locals of a call: output so far, queue, deadline, process | `run`, `run_streaming` | validator and audit log (calls), reader thread (queue), child process (pipe, signals), consumer (generator) |
| registry and validator, `sources/` | the registry tables, constant | `validate_command`, `validate_source` | audit log |
| updaters, `updaters/` | locals of a call: packages left, results, combined output | `apply`, `apply_streaming`, `list_updates`, `check_updates` | runner (twice validated), parsers |
| output parsers, `execution/parsers.py` | none | one per package manager | updaters |
| JSON-RPC server, `ipc/server.py`, `ipc/socket_server.py`, `ipc/protocol.py` | per connection: request count, shutdown flag; per process: elevation | `handle_request`, the handlers, the apply gate, the accept and session loops | clients (lines), updaters (generator), audit log |
| audit log, `privileges/audit.py` | the log file | `log_*`, `read_entries` | every component that decides something |
| elevation, `privileges/elevation.py` | none | `is_elevated`, guidance | server, operating system |
| OS detection, `detection/os_detect.py` | none | `detect_os` | server |
| Python clients, `ipc/client.py`, `ipc/rpc_cli.py` | connection or child process, last id, timeout | `start`, `connect`, `call`, `close`, `run_rpc` | server |
| GUI client, `gui/app/ipc/client.lua` | `_backend_ready`, `_spawn_attempted`, `use_rpc`, request id | `ensure_backend`, `call`, `poll_elevated`, `reset_backend_session` | server, launchers |
| GUI frame, `gui/app/ui/` | update list, blockers, `elevated`, whether the buttons are enabled | the buttons and prompts | GUI client, launchers |
| launchers, `scripts/start-*.ps1` | processes | start, stop, restart | backend, GUI |
| release and governance scripts, `scripts/*.py`, `release.yml` | governance documents, session records, consensus file | status run, gates, consensus check, publish | working tree, git, people |
| diagnostics, logging, configuration, packaging, CI | none that another part reads back | | |

What is hard in it:

- **Interleaving.** A streaming call is three actors on one pipe and one queue, and its
  generator moves only when the consumer asks. Connections are threads that share the
  machine and the log, with no lock.
- **Time.** The deadline is looked at in one place; a kill reaches the direct child only, whose
  helpers go on, and is followed by a wait that may fail; on Windows draining the pipe has no
  limit.
- **Partial failure.** One package of a list fails; a listing fails and looks empty; the log
  cannot be written; a client is gone in the middle of a stream.
- **Reentrancy.** The window has one thread, but a call that waits on its socket lets
  wxWidgets dispatch clicks: a second handler starts on top of the first and changes the
  flags that the first one goes on with.
- **Replacement.** Becoming elevated means starting another backend on the same port, while
  the old one serves, a prompt is open and the window polls.
- **Ordering.** Requests are sent ahead, progress is mixed into the responses; a client that
  gave up on an answer shares its wire with the late answer.
- **Several looks at one thing.** A machine is looked at once to check and once to list; a
  release is judged by tests, documents and `git status` of three moments.
- **Agreement of tables.** The registry, the tables of commands and the validated stand-ins
  are separate.

What makes each part right: a runner that reports a process only when it is over, with all
its output, recorded before the launch; a validator that approves only what the registry
holds for this system; an updater that touches only what was asked for, tries all of it and
claims no success that was not earned; a server that answers every request once, in order, as long as its session stands,
and lets nothing change the machine without confirmation, privilege and an entry in the log;
a client whose calls get their own answers and that leaves no backend behind; a window that
sends what was confirmed, once, one install at a time, and comes back to its buttons whatever
its backend does; a listing whose empty answer is true; a release whose very commit was judged
by the gates.

## 2. The modules

| Module | Models | Refines |
|---|---|---|
| `CommandRunner` | one call of `run` or `run_streaming` | `CommandPromise` |
| `CommandPromise` | what a caller of the runner relies on | |
| `CommandRunner_proofs` | theorems about `CommandRunner` | |
| `SourceValidator` | registry, `validate_command`, the updaters' command tables | |
| `CheckUpdates` | one request for `validate_command` or `check_updates`: detection, updater, runner, parser | |
| `CheckUpdates_proofs` | theorems about `CheckUpdates` and `SourceValidator` | |
| `UpdaterApply` | one call of `apply` or `apply_streaming` on each platform | `ApplyPromise` |
| `ApplyPromise` | what one apply may do to a machine | |
| `UpdaterApply_proofs` | theorems about `UpdaterApply` | |
| `Ranks`, `Ranks_proofs` | the rank of a number in a set of positions, and the lemmas about it | |
| `ApplyServer` | sessions, handlers, gate, applies, clients | |
| `ApplyServer_proofs` | theorems about `ApplyServer` | |
| `PythonClient` | a client from its start to its close, with the backend as it sees it | |
| `PythonClient_proofs` | theorems about `PythonClient` | |
| `GuiSession` | the window's handlers, its client, launchers and backends on the port | `InstallPromise` |
| `InstallPromise` | what the window promises of an install | |
| `GuiSession_proofs` | theorems about `GuiSession` | |
| `ReleaseConsensus` | status runs, edits and commits, the release pipeline | |
| `ReleaseConsensus_proofs` | theorems about `ReleaseConsensus` | |
| `MC*` | the constants of the runs | |

The modules are layers of assumption and guarantee. `CommandRunner` shows that a command
runs on when its generator is dropped, and that its helpers do after a kill; `UpdaterApply`
starts from that (`begun` holds the targets whose command was launched, and `Install` may
happen for any of them at any time, after the report too) and shows what the call as a whole
does; `ApplyServer` takes an apply as changes until a report, and perhaps behind it, or an
abandoned command. `GuiSession` takes
a backend as one answer to a request, and an apply that runs only where an elevated backend
admitted it, which is `ApplyServer`'s `ChangesAreGated`. `PythonClient` takes the server as
one that serves a connection's requests one at a time and in order, which is `ApplyServer`'s
`AnswersInOrder` and `ProgressBelongs`. `CheckUpdates` extends `SourceValidator` and calls its
`validate_command` wherever the code does.

### CommandRunner

`pc` is the calling thread's place between two points where something else can be seen:
each audit write, the queue's `get`, each `yield`, each wait. `queue`, `pipe` and `reader` are
the objects of the same name; `written` records all that the command wrote. The process may
close its standard output and live on, and may leave a helper that holds the pipe (`Fork`,
`CloseOutput`). `CheckDeadline` is the top of the loop, the only place where the deadline is
read. An audit write may raise at every place that has one (`AuditFails`). `Close` is
`GeneratorExit` at a yield, which no `except` arm of the code catches. The clock counts polls
of the queue. Abstracted: decoding and cleaning of a line, to whether it is visible.
`ShownIsVisible` matches the lines handed over with the visible ones by their `Rank`.

### SourceValidator

The registry is written out as sets of records, the lookups as operators, and `Reason` is the
chain of checks in its order. `Runs` lists each command the updaters run with the command
they validate in its place. The module has the validator's step; its runs are those of
`CheckUpdates`.

### CheckUpdates

A behaviour is one request. `machine` is what `platform.system` and `/etc/os-release` say, with
the quotes that `_parse_os_release` takes off or leaves; `at` and `stage` are the handler's
place in `check` or `list_updates`. Each command is validated twice, by the updater
(`UpdaterValidates`) and by the runner (`RunnerValidates`), and `log` keeps the order of these
decisions and of the launch. A line of output is the record of what the parsers look at - how
it begins, its first word, its columns, the marks in it - and of what it means: whether an
update is announced, in the form of the tests' fixtures. A tool may come and go between two
looks at it, print any set of its lines, and end in any way.

### UpdaterApply

`request` is drawn from all the arguments the method takes; `machine` says what the updater
finds (package manager known, commands approved), `available` which packages wait. `Pick`,
`Launch`, `Refused`, `Conclude` and `Finalize` are the loop of `_apply_selected_packages`;
`WholeSystem` the one command of the other paths; `Tell` and `Told` a line yielded before a
`return`. A command that was launched installs packages one by one (`Install`), by itself or
by its helpers: the runner kills the direct child of a command that timed out and nobody else
(`runner.py:336-349`), so that what it began may go on when it was concluded, when the call has
reported and when its consumer has left. `begun` remembers which commands these are. A command
may end in any way `CommandEnds` allows: not launched, timed out after having installed, or with
an exit code and lines that report some packages. `ApplyPromise` promises accordingly: the scope
and what was begun bound what is ever installed, nothing is begun after the call is over, and a
success is claimed only without a failure; it does not promise that a machine stands still
after the report. `Drains` says where the call hangs in `subprocess.run` on Windows.

### ApplyServer

A session is `reading`, `handling`, `admitted`, `applying`, `answering` or `ended`; a request's
id is its place in its client's list of lines. Each handler is an action, the gate's two refusals
are actions of their own, and passing the gate, the audit entry and the start of the updater are
three, between which other sessions act and the client may leave. An apply can report, raise
before or during its run, or lose its client (`ProgressFails`); its command, or a helper of
it, may then be an `orphan` that still changes the machine. Three kinds of line are `Fatal`:
one that is not UTF-8 raises from the iteration over the stream (`ReadUndecodable`, together
with the lines read ahead with it), one nested too deep raises `RecursionError` past the handler
of JSON errors (`ReadTooDeep`), a method that is a list or an object raises `TypeError` from the
look-up (`MethodUnhashable`, `server.py:275`). Each ends its session without an answer.
`changed` remembers on behalf of which requests the machine was changed. With one session
the model is also the server on stdin and stdout. The methods that only answer are one
method, `query`; their payloads are left out.

### PythonClient

`at` is the client's place: new, idle, reading a line or a stream, or one of the steps of
`close`. `requests` and `answers` are the two directions of the wire; a request's id is its
place in `calls`, which also keeps how each call ended and whose answer it took. A stdio
client owns its backend: its stderr is a pipe of `StderrRoom` tracebacks that nobody reads, and
`PeerRaises` blocks on it when it is full. A socket client may stop waiting at any time
(`ReadTimesOut`), and then `spent` holds, because Python refuses every later read of a stream that
timed out. The callback of a streaming call may raise (`ReadProgress`). `Close` makes a call of
its own, `CloseStdin` raises where an unsent line is left in the buffer (`stuck`), and `Kill`
is the wait that ran out. With `cli` the user is `rpc_cli`. The payloads are left out.

### ReleaseConsensus

`tree` is the working tree and `head` the last commit; a tree is a record of what the scripts
look at: test results, documents that are dated, undated or missing, milestones with their
number of criteria, the consensus file, the session records. A status run goes from step to
step (`RunPytest`, `CheckGovernance`, `Survey`, `Report`) and people edit and commit in
between; `evidence` holds what each step found at its own moment. `FileRecord` leaves the
record of the run in the tree. `Tag`, `Validate`, `RunGates` and `Publish` are the jobs of
`release.yml` on the tagged commit. `StaticGate` is open where it fails: bandit may be missing or
not run (`analysed`), and then its findings count for nothing. The tests of a tree are taken to
go the same way wherever they run. `moved` and `unfiled` are history.

### GuiSession

`stack` holds the handlers, the running one on top. A frame says what its handler does
(`doing`, the button), where it is (`at`), which call it makes (`method`) and how far that
has come (`conn`). `Click` puts a frame on a stack whose top waits on a socket, in
`Dispatching`; a message box is modal and `show` runs before the main loop, so nothing is put
on these. `CallResumes` to `BackendStaysAway` are `ipc:call` with `ensure_backend` and
`_spawn_backend`, for all methods alike; what a handler does with the answer follows in
actions of its own. A ping of a backend that listens may fail, since it may be slow; a request
may be left unanswered at any time. `launches` are the PowerShell launchers under way: a
launcher first stops what listens (`LauncherStops`, where `-Restart` is given), then starts
its own (`LauncherStarts`), and whatever comes in between may. `host` tells the ways apart in
which a backend is started. `asked` is what the handler sends; `agreed`, `skips`, `sent` and
`adminSeen` are history: what the boxes showed and the user kept of it (`Agreed`: without Cursor,
where the answer was "Yes = Skip Cursor"), whether Cursor was skipped, how often an install was
sent, whether an elevated backend was ever there. `agreed` and `asked` are set apart, so that a
handler may ask for more than was agreed, and `update_selected` does (`Unheard`). `OneShot` is the
call's last resort, a shell command with the request in it: no backend reads it, but on POSIX
the shell echoes the first line, so that the call may end with its own request for an answer. Under
the mapping of `KeepsPromise` the install in hand is the top handler's apply, its phase is read
from where the call is and what its connection leads to, and what runs is `jobs`.
Abstracted: labels, texts, JSON, the log; the elevated process of `request_elevation` on the
backend's side, which is started without `-m veripatch` and never listens.

## 3. What the runs show

| Run | Question | Result |
|---|---|---|
| `runner` | does the output arrive whole, does a verdict wait for its process, is a launch recorded first, does the call end | holds |
| `check` | is only an official source of this system approved, do the updaters' tables agree with the registry, is only the own tool's listing run, is an empty answer true | holds |
| `updater` | on each platform: is only the scope touched, each target tried, success earned, the summary consistent, does the call end | holds |
| `updater_selection` | "Install only the updates you checked" | no: filters are ignored |
| `updater_listing_fails` | is "all skipped" said only when it is so | no: a failed listing looks the same |
| `server` | one answer per request, in order, up to a line that ends the session; progress with its request; changes behind the gate and the log; shutdown last; every request answered unless its session breaks or its operation never ends | holds |
| `server_pair` | two connections: neither ends the other's session | holds |
| `client` | does a call take its own answer, does `close` leave nothing behind, does `rpc_cli` exit as it went, does every call end | holds, with the exceptions that the properties name |
| `release` | has a published commit passed the gates by its own numbers, do the gates let pass what a status run approved, does an approval speak of the commit, must a record be committed before the next approval | holds |
| `gui` | on every kind of machine: does an install ask for what was confirmed, once, and does every handler end | holds, but for the Cursor of `gui_skip_cursor` |
| `gui_nested` | with a handler on top of another: never two installs at a time, buttons that follow the install, none without rights that the window was shown, each one confirmed, sent once, then run or lost | holds |
| `gui_skip_cursor` | "Yes = Skip Cursor and update everything else" | no: update selected installs it |

The exceptions of `AnswerIsOwn` and `CallsEnd` are real: after a callback has raised out of a
stream the next plain call takes a line of that stream for its answer (`client.py:82`
compares no id), and a stdio backend that has logged enough tracebacks blocks on its stderr
while its client waits without a limit.

Further places where the code and what is said of it differ are in the models without a run
of their own:

- `run` on Windows waits without limit for a helper that holds the pipe of a killed command
  (`CommandRunner`, `Windows = TRUE`). docs/ARCHITECTURE.md:49 says "Validated subprocess execution
  with dry-run and timeouts"; a generator that was dropped leaves its process without a deadline
  (`runner.py:318`; `Close`).
- docs/ARCHITECTURE.md:100 says that `VERIPATCH_DRY_RUN=1` forces dry-run mode; an explicit `dry_run`
  argument wins (`runner.py:164`; `UpdaterApply`'s `request.dry` is what came of both).
- `validate_command` compares only the first argument (`SourceValidator`, `ArgumentAllowed`).
- dnf's `check-update` exits with 100 when updates exist, so a listing that found some reports
  failure (`CheckUpdates`, `Listed`); apt's and zypper's rows are told by English words, so that
  a localised table reads as empty (`EmptyAnswerIsTrue` speaks of the fixtures' form only).
- An empty selection is no selection for `apply_updates` (`ApplyServer`, `Asked`).
- The window's one-shot fallback never reaches a backend (`GuiSession`, `OneShot`); on POSIX
  the call can take its own request for a response without result and without error.
- A request whose method is a list or an object, a line that is not UTF-8 and one nested too
  deep end the session without an answer, where every other bad request gets an error response
  (`ApplyServer`, `Fatal`).
- A command that timed out is killed without its helpers; what they install comes after the
  report that counts the package as failed (`UpdaterApply`, `Install`).
- The static gate passes without bandit's report: its installation and its run are not
  checked (`run-static-analysis-gate.py:25-28`, `:50-67`), and a missing file is no finding, so a
  published commit may have findings that governance/QUALITY_GATES.md blocks (`StaticGate`).
- QUALITY_GATES.md:36 asks for 90% of the collected tests; the script counts those that were not
  skipped (`UnitGate`). MCReleaseConsensus's first tree, 20 of 40 skipped, is published.
- The consensus file names a version and no commit, so one consensus serves every later commit
  of that version (`ValidConsensus`), and `release.yml` does not check that the tag is on main
  (docs/RELEASE.md:3); the gates run on the tagged commit all the same, which is
  `GatesJudgeTheTag`. A milestone with more than five criteria (v1.3.0-stable has seven) is
  never approved (`CriteriaMet`); without git the tree reads as clean (`Survey`); the unit gate
  lets a tenth of the tests fail where the consensus lets none.

### Bounds

- `runner`: a deadline of three polls, a grace of two, three lines. Three polls allow an
  empty poll, a poll answered late and one at the deadline; with three lines one can be in the
  result, one in the queue and one in the pipe at once. The proofs drop all of these bounds.
- `check`: the whole registry; the commands are all those of the updaters and, around
  them, commands with no argument, a longer, shorter or misplaced one, another spelling, or
  another program. Machines of each system and package manager, an unknown one, one known by
  `ID_LIKE` only and one whose values are in single quotes; for each tool the lines of its
  fixtures - heading, rule, update, note - and the ones next to them.
- `updater`, `updater_*`: the three platforms and three packages, one of them Cursor; all requests over them. A list of three
  has a first, a middle and a last failure; two filters over three packages can overlap,
  cover or miss one another. Exit codes 0 and 1.
- `server`: one session, three lines (`MaxSent`), one progress line per apply
  (`MaxProgress`): enough for an apply with lines before and after it in the buffer. The lines
  are of every kind: blank, invalid, the three that end a session, a query, an unknown method,
  shutdown, a preview, and applies with and without their confirmation.
  `server_pair`: two sessions with two lines each over a shutdown, a line that ends its session
  and a real apply, and no progress lines, which no property of that run speaks of. Sessions are interchangeable
  there, so they are a symmetry set; the run has no liveness property.
- `client`: three calls, so that one may be left, the next take its line and a third follow;
  the shutdown of `close` is a fourth. One progress line per apply, a stderr pipe that holds one
  traceback. The proofs drop all of these bounds.
- `release`: two status runs, two edits and one tag over a tree in order, with one or two
  values out of order for almost every field: a first run that is approved or not, and a
  second that meets its record, with an edit or a commit between any two steps of either. The
  proofs drop these bounds too.
- `gui`: one click, one ping per wait, one backend that dies, all kinds of machine, two
  packages of which one is Cursor. One ping per wait is enough: the waits differ only in
  their number, and a backend may come before the ping, between ping and give-up of another
  wait, or never.
- `gui_nested`: two clicks, so that the second handler runs after the first or on top of it;
  with a third nothing new meets, as an install disables the buttons and a box is modal. On
  Windows with launchers, where there is most to race.
- `gui_skip_cursor`: one click.

Deadlock is not checked where a call or a session may end, which is in all of them.

### Fairness

- `CommandRunner`: weak fairness of the calling thread, the reader thread, the clock, of a
  consumer that resumes the generator or drops it, and of a kill taking effect. Threads are
  scheduled by the operating system; nothing is assumed of the command, which may hang for
  ever. On Windows that makes `run` unending while a helper holds its pipe, so liveness is
  checked for a POSIX system.
- `UpdaterApply`: the call makes its steps, and a running command ends, which is
  `CommandRunner`'s `EventuallyEnds`. Where that does not hold, in `subprocess.run` on Windows,
  nothing is assumed (`Drains`), and `EventuallyEnds` says that the call ends or hangs there.
- `ApplyServer`: each session's thread makes its steps. Nothing is assumed of the clients, nor
  of an operation for which a package manager is run (`Operate`), since on Windows it may hang:
  `EveryRequestAnswered` is about the requests whose operations end.
- `PythonClient`: the client's thread and the backend's run, and a stream that has timed out
  raises at the next read. Nothing is assumed of the user, who need never call, nor of the
  socket's limit. An operation that a backend serves ends; one that hangs on Windows hangs a
  stdio client too, which has no limit of its own.
- `GuiSession`: the window's thread runs, since every wait of the code has an end (the socket's
  and the polls' limits), and message boxes are answered. Nothing is assumed of launchers,
  prompts and backends, which may never come.

## 4. What is proved

`CommandRunner_proofs`, for every set of commands and lines, every timeout and any number of
output lines:

- `TypeCorrect`, `Invariance`: the inductive invariant `Inv` is `TypeOK`, `OutputConserved`,
  `ShownInv` and `ControlInv`, which says for each place of the calling thread where the process is, what the
  queue can hold, and what the audit log says. The properties alone are not inductive:
  `NoRunawayChild` at the end of a call needs to know that the wait before it was for a
  killed process; `CompleteMeansAll` needs that the sentinel is enqueued only when nobody can
  write, and is the last thing in the queue.
- `OutputIsConserved`, `CompletionMeansAll`, `NoRunawayChildren`, `RecordComesFirst`,
  `NothingCutShort`, `VisibleLinesShown`: the run's safety properties, from `Inv`; and `AuditIsFaithful`, that the
  audit log tells what became of the command, which is proved only.
- `RunnerKeepsPromise`: every step is a step of `CommandPromise` or a stutter under the
  mapping of `KeepsPromise`.

The assumptions are those the modules name: `CommandAssumption`, `LineAssumption`,
`ExitAssumption`, `TimeAssumption`, `FlagAssumption`, `BoundAssumption`.

`UpdaterApply_proofs`, for every finite set of packages, every set of exit codes and every
request on each platform:

- `TypeCorrect`, `Invariance`: `Inv` joins the safety properties with `TargetInv` (what runs or
  waits lies in the scope and was not tried before), `ProgressInv` (while the call is under
  way, its targets are what waits, what runs and what was tried) and `OutcomeInv` (the running
  total is a success only if everything tried so far was, and a report prepared in advance
  claims no apply). Without `ProgressInv`, `EveryTargetAttempted` could be lost when the loop
  ends; without `OutcomeInv`, `SuccessIsEarned` when it reports.
- `OnlyTheScope`, `EveryTargetIsAttempted`, `SuccessMeansAll`: the run's safety properties.
- `SummariesAddUp`: on top of `Inv`, by `LoopInv` and `CountInv`, which relate the two counters
  of the loop to the cardinalities of what was installed and what was tried while the call is
  under way; `gained`, what the running command has installed and the loop has not counted
  yet, makes up the difference.
- `UpdaterKeepsPromise`: every step is a step of `ApplyPromise` or a stutter under the mapping
  of `KeepsPromise`, the installations by helpers of commands long concluded among them: what
  they rest on is that `begun` lies in the scope and that a target once tried is not begun again.

From `PackageAssumption` (the packages are a finite set), `CodeAssumption` and
`ModeAssumption`.

`ApplyServer_proofs`, for any number of sessions, any set of lines they may send, and any
`MaxSent` and `MaxProgress`:

- `TypeCorrect`, `Invariance`: `Inv` adds three parts to the properties. `GateInv`: whoever stands between the gate
  and the log has passed the gate, and whatever may change the machine now, in a session or as
  an orphan, was admitted by it and has its entry in the log; `ChangesAreGated` alone says nothing of a command that has not
  changed anything yet. `SessionInv`: a request in hand has been read, and a session told to
  stop was told so by a line of its own. `OutInv`: what is written belongs to lines that were
  read, and the request in hand has no response yet, which is why its progress cannot come
  after it.
- `ChangesGated`, `ChangesAudited`, `EndsForOwnCause`, `ProgressStays`: the runs' safety
  properties, from `Inv`.

- `AnswersAreInOrder`: on top of `Inv`, by `OrderInv`. That the n-th response answers the n-th
  request that is owed one is said by ranks - the rank of a response among the responses of its
  session is the rank of its request among the owed ones - since a formulation that filters
  sequences (`SelectSeq`) is opaque to the provers. Owed is what a session has dealt with and did not break on; `OrderInv` adds that a request in
  hand is none that ends its session. A step leaves both sets of positions as
  they are (`OrderStays`), or adds its last element to both (`OrderGrows`), or reads a line that
  is owed nothing or not yet answered (`OrderMisses`); `Ranks_proofs` says what that does to ranks.
- `ShutdownComesLast`: by `CountInv`, which makes `request_count` the number of the responses that
  bear an id, and says that a session reads nothing after the line of its shutdown.

From `RequestAssumption` and `BoundAssumption`. The sets of sessions and lines may be infinite.

`PythonClient_proofs`, for any set of methods, any number of calls and progress lines and any
room in the stderr pipe:

- `TypeCorrect`, `Invariance`: `Inv` joins the properties with four parts. `FlowInv` is the
  heart of it: as long as no stream was left and no read timed out, one request at most is under
  way, it is the one the client reads for, and when the client does not read the wire is empty
  - ids need not be compared then. `CallInv` says which call may be pending, `ClientInv` what
  each step of `close` knows of the backend, `BackInv` what a backend that has gone no longer
  has. `FlowInv` is lost for good when a callback raises or a read times out; what remains true
  then is why `AnswerIsOwn` has an exception for the first (`AnyAbandoned`) and none for the second:
  a `spent` client reads no more.
- `AnswersAreOwn`, `ClosesCleanly`, `CliExitsHonestly`: the run's safety properties, from `Inv`.

From `ClientAssumption`.

`GuiSession_proofs`, for every set of packages, any number of clicks and pings, handlers on top
of each other to any depth, and any number of backends that die:

- `TypeCorrect`, `Invariance`: `Inv` joins `ChangesAreConfirmed` with `StackInv` (only the top
  handler applies or shows a box; what lies below it waits on a socket), `FrameInv` (a handler that
  is not applying has neither asked nor sent, and who has sent reads the answer), `TopInv`
  (the buttons are disabled exactly while the top handler applies, and it installs only while
  `elevated` holds) and `AdminInv` (what the window believes or is connected to was there). The
  properties alone are not inductive: `OneApplyAtATime` needs that an apply disables the
  buttons and that a handler that lies below another had no apply when it was covered, and
  `InstallsElevated` that only the top handler can turn `elevated` off, and is then no install.
- `Confirmed` is about what an install asks for against what its boxes offered, which are set
  in different places of the handlers: both are the same but for `update_selected`'s Cursor.
- `SentOnce`, `OneApply`, `ActionsFollow`, `ElevatedInstalls`: the runs' safety
  properties, from `Inv`.
- `WindowKeepsPromise`: every step is a step of `InstallPromise` or a stutter under the mapping
  of `KeepsPromise`. Each lemma about a kind of step shows both at once (`Sound`): that it keeps
  `Inv`, and which step of the promise it is.

From `PackageAssumption` and `BoundAssumption`.

`ReleaseConsensus_proofs`, for every set of versions and edits, every first tree and any number
of edits, commits and runs:

- `TypeCorrect`, `Invariance`: `EvidenceInv` says that what a run gathered is still so while
  nobody has edited or committed, `RecordInv` that a record which was not committed makes the
  tree differ from the commit and that a run under way has a number no record has,
  `PipelineInv` what each place of the pipeline knows of the tagged commit, `ApprovalInv` that a
  commit which a run approved is green until somebody edits or commits.
- `TheTagIsJudged`, `ApprovalIsGreen`, `RecordsAreCommittedFirst`: the run's properties. The first
  joins the two programs: whether or not bandit ran, a published commit is gated by its own
  numbers (`Gated`), and the pipeline stops an approved commit only for what a status run does
  not look at (`OnlyTheGatesSee`).

From `ReleaseAssumption`: the trees are of the fields' types, and no edit forges the record of
a coming run.

`CheckUpdates_proofs`, for every set of commands to validate, every machine - whatever its
os-release says - and every line its tools may print:

- `TypeCorrect`, `Invariance`: `Inv` joins `TypeOK` and `RunsAreApprovedListings` with
  `PlaceInv` (for each place of the handler, the request it validates and the decisions that
  stand at the end of the log), `ApprovedInv` (the outcome is `Reason` of the request, and who
  stands in the log as approved is), `LaunchInv` (how many commands each stage may have launched)
  and `ResultInv` (the results are concluded in their order, and an empty list comes from a
  listing that succeeded). That a launch has two approvals right before it needs `PlaceInv`
  from the moment the updater asks, since the runner decides for itself in a later step.
- `ApprovesOfficialOnly`, from the lemma `ApprovedIsOfficial` about the chain of checks in
  `validate_command`; `UpdatersAgree`, from `RunsApproved`: the first argument of every command of
  the updaters is a prefix of the source that bears its program's name (`RunsRegistered`), and no
  two sources of the registry bear the same (`SourcesDiffer`), so that the registry's first match is
  the only one.
- `RunsApprovedListings`, `EmptyAnswersAreTrue`: from `Inv`; the second also needs that no parser
  drops a line in the form of the fixtures (`UsualListed`).

From `MachinesAssumption` (a machine is a system name and an os-release of words),
`UsualAssumption` (a line marked `usual` has the form `FixtureRow` of tests/fixtures: that is what
the mark means), `FoldedAssumption` (lower case and stripping leave the registry's own names
alone, which are lower case) and `PrefixAssumption` (a string begins with itself; TLC computes it,
the provers know nothing of the characters of a string).

Each proof has one lemma for each kind of step (`TellKeeps`, `RecordKeeps`, `GateStays`,
`OutGrows` and so on), which says what that kind keeps whatever the action, and one step per
action, or per group of actions of one kind, that shows the action to be of it.

The type invariants of the runner, the updater, the server, the client, the window and the release, and
the inductive invariants of all seven modules, are theorems and no properties of a run; TLC finds
each inductive invariant true on the constants of the runs.

Every safety property, action property and refinement that a passing run checks is a theorem.
Only model-checked are the five liveness properties, which the prover cannot do: `EventuallyEnds`
of the runner and of the updater, `EveryRequestAnswered`, `CallsEnd` and `HandlersEnd`. The
properties of the runs that find a violation are false and stay with TLC.

## 5. What is not modelled, and the plan

Not modelled: closing the window in the middle of a handler, where what happens is wxLua's;
a reader thread of the runner that cannot be started although its process was;
reading the audit log back; diagnostics, logging, configuration parsing, packaging,
`ci.yml` and `staging-promotion.yml`, which keep no state that another part reads back.

In this order:

1. `VeriPatch`: `GuiSession` and `ApplyServer` composed, from a click to the machine. Through
   `InstallPromise` and `ChangesAreGated` the two meet today only as assumption and guarantee.
2. For the composition, as a theorem, that every change goes back to a confirmed click.
