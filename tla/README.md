# A verification project for remoteos-mcp

remoteos-mcp lets an AI client operate a machine: each machine runs a server
whose tools click, type, read files and run shells, and a gateway in front of a
fleet of machines decides which consumer may call which machine. This directory
holds TLA+ models of the parts of it that are hard to test, the TLC runs that
check them on small instances, and proofs, checked by TLAPS, of what matters
most for instances of every size.

Paths below are relative to `src/src/remoteos/` unless they start with `src/`.

- [1. Inventory](#1-inventory): the system's parts and what makes each correct
- [2. Modules](#2-modules): which module models which part, and how
- [3. Runs](#3-runs): what each run checks, its bounds, what it shows
- [4. Proofs](#4-proofs): what is proved, from what, along which argument
- [5. Findings](#5-findings): where the code and its own words disagree
- [6. Not modelled](#6-not-modelled)
- [7. Plan](#7-plan)

To repeat everything, in this directory: `tlc -workers 2 -config X.cfg M` for
the pairs of section 3, `tlapm M.tla` for the modules of section 4.

## 1. Inventory

How the parts meet. A consumer's request reaches the **gateway**, which reads
its **registry** and **machine source** afresh when they changed, decides, and
sends the request on to a **machine** over a connection pool. On the machine the
**task manager** runs the tool in a thread, one task per call. Around this
request path there are slower loops that share files with it: **sync-configs**
writes registry and project configs from a manifest; the **key store** commands
and the **watchdog** write the machine source; the **updater** and the
**installers** replace the program itself. On the machine a desktop tool goes
from the **coordinates** of a picture, or from a mark or ref of an **element
list**, through the **input drivers** of its platform into applications that
live their own lives; on Linux it first needs the **session** the seat is in.

| Component | State it keeps | Operations | What is hard | What makes it correct |
|---|---|---|---|---|
| Task manager, `taskmanager.py` | task table, one semaphore per category, cancel flags | the tool wrapper, CancelTask, stale sweep, history pruning | threads meet at every step: a cancel or sweep between slot, start, result and release; a hung tool | slots conserved; record, answer and CancelTask reply agree; no long legal call is swept; live tasks findable; nobody waits for ever |
| Task tools, `tools/tasks.py` | none | GetRunningTasks, GetTaskStatus, CancelTask | two listings from two copies of the table | an active call is listed |
| Gateway admission, `gateway/registry.py`, `gateway/app.py` | last good copy of two files and their signatures | reload, SIGHUP, the decision, reading the body | other processes replace the files between any two system calls; invalid and unreadable files | revocation and kill switch bite the very next request; one log line per request |
| Gateway upstream, `gateway/app.py` | keep-alive pool | send, one retry, relay, log | stale pooled connections, lost answers, timeouts, restarts | a tool never runs twice; stale connections never surface; one true line; every request answered |
| Config sync, `gateway/sync.py`, `manifest.py`, `targets.py`, `cli_fleet.py` | registry under a lock, config files elsewhere | plan, register, write, confirm, narrow, withdraw | two stores that cannot change together; writes that land and report failure; death anywhere; overlapping runs | no file carries an unknown token; a project keeps its token; allow-lists are the manifest's |
| Key store, `gateway/keystore.py`, `probe.py` | `machines.json` under a lock | set-key, import, repair | decisions rest on probes that take minutes outside the lock | an edit made meanwhile is not undone |
| Watchdog, `gateway/check.py`, `drift.py`, `no_admin.py`, `messages.py` | status file, what is owed to whom | probe, repair, advance, announce | delivery fails in part; the announcement precedes the write of the status | every outage and recovery told, and told once when nothing fails |
| Fleet server, `gateway/fleet.py` | reply budget | list, tools, call | concurrent calls share the budget; it is held while the consumer reads, who may stop | budget never exceeded, always given back |
| Enrollment, `gateway/enroll.py`, `cli_enroll.py` | none of its own | a chain of key-store, registry, manifest and sync steps | a failure in the middle | it can be run again |
| Access log, `gateway/accesslog.py` | the log file | append, rotate | rotation beside readers | no line lost |
| Live-session notices, `gateway/live_sessions.py`, `session_scan.py` | none | scan, notify | processes vanish while scanned | none beyond best effort |
| Gateway command line, `gateway/cli.py` | none | registry edits under the lock | none of its own | |
| Updater, `updater.py`, `release_channel.py`, `selfupgrade.py` | attempts file | decide, record, start | the upgrade kills its updater; the installed version is read early | attempts counted right; nothing downgraded |
| Linux installer, `src/installers/install-linux/` | link, builds, pending mark, service unit | switch, prove, undo, prune | kill or reboot between any two steps | what runs after the end is proven, or nothing does |
| Windows and macOS installers, `src/installers/install-ps1/`, `src/install.sh` | the same | the same with other tools | the same | the same |
| OAuth server, `oauth.py`, `auth.py` | clients, codes, tokens | register, authorise, exchange, verify | the order of checks and removals, expiry, restarts | a token is one approval, redeemed once, by its client, in time |
| Child processes, `platform/command.py` | the process group | run, time out, kill, reap | a group id must not be reused before the kill | nothing survives, nobody else is killed |
| Coordinates, `coords.py` | none: computed anew by every call | frame, both mappings, regions | rounding at edges, odd origins, scales | a click lands on what the picture showed |
| Input: scrolling, typing, held keys, paste (`scroll.py`, `typing_input.py`, `input_keys.py`, `text_entry.py`, the platforms' input) | keys and buttons down, the clipboard | HoldKey, Click, Scroll, Move, Drag, Shortcut, Type | any step may fail, with its work done or not; three systems | nothing left down unasked; the reply is what happened |
| Element lists, `element_tree.py`, `marks.py` | refs | walk, merge with OCR words | bounds met, elements vanish under the walk | nothing is lost without a word |
| Element actions, `platform/linux/windows.py`, `platform/win/uia.py` | refs, worker threads | ClickElement, TypeElement | applications change or hang between listing and action | one action at most, on the very element |
| Linux session, `platform/linux/session.py`, `shell_env.py` | one cached session | detect, run with a retry | logins and logouts under a running command | a stale session heals |
| Tiers, configuration, security (`__main__.py`, `tiers.py`, `config.py`, `security.py`) | start-up decisions | resolve, guard, middleware | many sources for one value | no shell is open on the network |
| Command-line client, `cli_call.py`, `file_transfer.py`, `mcp_sse.py` | a file being transferred | chunked upload and download | a chunk lost or repeated | the file arrives whole or not at all |
| Other platform calls and tools (screenshots, windows, services, processes, registry) | the operating system's | one-shot calls | few: their concurrency is the task manager's | |

PROJECT.json has the same list with sources and status, and under `hazards`
every place where this code could go wrong in a way a test would hardly reach.

## 2. Modules

Three groups: the components with a run and constants of their own, the smaller
components of the gateway and of the machine, and the proofs.

| Module | Models |
|---|---|
| `TaskManager` | `taskmanager.py` |
| `CallPromise` | nothing: what the task manager promises, in four actions; `TaskManager` implements it (`KeepsPromise`) |
| `GatewayAdmission` | `LiveConfig` of `gateway/registry.py`, `Gateway.handle` up to the forwarding |
| `SyncConfigs` | `gateway/sync.py`, its command in `cli_fleet.py` and `registry.py`'s consumers |
| `KeyStore` | `gateway/keystore.py`, the repair in `check.py`, enroll-finish in `cli_enroll.py`, and their commands in `cli_fleet.py` |
| `LinuxSwitch` | the switch in `src/installers/install-linux/`: `90-main.sh` from the build on, `40-switch.sh`, `prune_builds` |
| `SwitchMark` (extends `LinuxSwitch`) | what the installer's pending mark is for: a history variable and the invariants about it |
| `GatewayUpstream` | `_send_upstream`, `_relay` and `_UpstreamResponse` of `gateway/app.py` |
| `Watchdog`, `EpisodeReports` | a run of `gateway/check.py`; `gateway/drift.py` and `gateway/no_admin.py` |
| `FleetServer` | `gateway/fleet.py` |
| `CallClient` | `cli_call.py`'s put and get with `tools/files.py` and `file_transfer.py` |
| `Updater`, `ReleaseChannel` | `updater.py`, `selfupgrade.py`; `release_channel.py` as operators |
| `ChildProcesses` | `platform/command.py` on POSIX |
| `LinuxSession` | `platform/linux/session.py`, `shell_env.py`, `availability.py` |
| `OAuthServer` | `oauth.py`, `auth.py` |
| `Startup` | `__main__.py`, `config.py`, `tiers.py`, `security.py` |
| `Coordinates` | `coords.py` and its use in `tools/desktop.py` |
| `InputDrivers` | the input of the three platforms, `scroll.py`, `typing_input.py` |
| `InputTools` (extends `InputDrivers`) | the tools that send input, `input_keys.py`, `text_entry.py` |
| `ElementActions` | element tools on Linux: `platform/linux/windows.py`, the refs of `element_tree.py` |
| `ElementLists` | the walk of `element_tree.py`, `marks.py` |
| `UiaWorker` | element tools on Windows: `platform/win/uia.py` |
| `*Proofs` | theorems about the module before the suffix; `GatewayPartsProofs` about the upstream and the composed gateway host, `MachineProofs` about the machine server's parts, `MachinePartsProofs` about its plans and marks and about the composed machine server |
| `MC*` | constants of the runs; `MCGatewayParts` and `MCMachineParts` hold several components |

`MCGatewayParts` and `MCMachineParts` put components that share no state into
one run: variable `component` picks one at the start, the others stay at rest,
so a run explores the sum of their states, not the product. At rest a component
is in its idle or in a `parked` state, where no step enabled is one that
fairness asks for. `MCMachineParts` takes the constant `Parts`, the components a
run checks; it extends `TaskManager` too, for its liveness.

`GatewayAdmission` ends where `GatewayUpstream` begins: phase `forwarded` of the
one is phase `admitted` of the other. They share no variable (a request carries
its snapshot with it), so they are checked apart.

Definitions that differ in one detail from the one above them, with a comment
that begins "Mutant:", are plausible mistakes in the code, which the property they
are listed with in PROJECT.json must and does detect. No specification uses them.

### TaskManager

One call is one invocation of a tool; its thread's place in `wrapper` is `pc`.

| Action | Code |
|---|---|
| `Call` | the TaskInfo is built, and its `created_at` stamped, before the lock |
| `Register` | `create_task` under `_lock`: insert, sweep stale tasks, prune the history |
| `Acquire`, `LockTimeout` | `sem.acquire(timeout=60)` |
| `FailWaiting` | the answer without a slot: cancelled, or failed with a lock timeout |
| `Start` | cancel check, then `_transition` to running |
| `Return` | the tool function ends, with a value or an error |
| `Finish` | `_transition` to the final status, refused after a cancel |
| `Release` | the `finally` |
| `CancelTask` | `cancel_task`: only a pending or running task of the table |

What is atomic here is atomic in the code: a section under `_lock`, a semaphore
operation, a tool function. `_transition` is one section, so "check the cancel
flag and write the status" is one step; between any two steps other threads act.
`info` keeps the TaskInfo of a call after its record is pruned from `tasks`,
because the wrapper's thread still holds the object.
`CallPromise` has no threads, slots or clock: an outcome is decided by the end of
the call, a cancel or a sweep, whichever is first, and the client is told. The
refinement mapping reads the outcome off the record's status and the answer off
the reply.
The clock counts in units of the stale limit and moves at any moment.

### GatewayAdmission

The event loop serves one thing at a time (`loop`), but writers are other
processes, so each system call of `reload` is a step: stat of the registry, read
of the registry, stat and read of the machine source, then the decision. The
signature is stored before the read. A read that fails, or reads an invalid
file, keeps the old copy and sets `failed`. A file's signature (device, inode,
size, mtime) is the number of its write: every write changes it, which is what
the atomic replace in the code is for. `seen` records what the files held from
the arrival of the request in the loop on; it only serves to state the
properties. A request with an invalid machine name is turned away before any of
this and left out; one without a usable Authorization header is a request whose
token no registry knows.

### GatewayUpstream

A request is `admitted`, `sent`, to be sent again (`retry`), relaying
(`headers`) or `ended`. Pooled connections only count, split into those the
machine still holds open and those it has closed. The requests are those to one
machine; those to other machines share the two clients' pools and appear as the
connections they hold (`others`), so a request that has to dial may find a pool
`Full`, and its wait may end in the 503 of `PoolTimeout`. The machine and its
connections are the environment: it stops, restarts, closes idle connections,
drops what it was sent on a new one, is silent, refuses (`MachineRefuses`: 401
or 403, or any other error), and starts a tool late, even after the gateway gave
up. `OutcomeOf` is the log's choice at the end of a stream, by the status alone:
`upstream_denied` for 401 and 403, `ok` for every other, errors included. Two facts about machines are assumed because
`_send_upstream` says it rests on them: a request that races the closing of an
idle connection is discarded unread, and headers leave when the tool starts.
Without the first, the retry itself could not be right.
`trouble` and `crowded` are history variables: since the first send the machine
was really away, dropped a new connection or went silent; the wait for a place
in a pool timed out.

### SyncConfigs

A run loads the manifest, takes the registry lock, handles the projects in any
order, withdraws the consumers that left, and ends. Handling a project is
`plan_project` and the first half of `_apply` (`PlanProject`, which registers the
token), then `WriteConfig` or `FailWrite`, then `ConfirmToken`. They are apart
because the config file lies elsewhere: a failure or a death between them is
what the token logic is written for. `FailWrite(r, landed)` is a `TargetError`
whose write did or did not reach the file. `Die` is a kill or a failed save of
the registry.
The owner edits the manifest, deletes a config, revokes a consumer, or
adds one by hand under a project's name; the last two take the lock, as the CLI
does. Token hashes are modelled by the tokens; hashing is one-to-one.

### KeyStore

One machine's entry, its exposure and whether a consumer is allowed it; the edits
of one run to several machines do not depend on each other. A run reads the store
(`seen`), probes without the lock, then edits in one step under it.

| Action | Code |
|---|---|
| `SetKey`, `SetKeyAndUrl`, `Probe`, `StoreKey`, `Expose` | `machine set-key`: read the store, probe, edit, `_expose_new` |
| `Enroll`, `ChooseUrl`, then as set-key, `List` | `enroll-finish`: checks, the url that answers, `set_key`, the projects |
| `Import`, `Resolve`, `Apply`, `Expose` | `machine import`: candidates, `resolve_import`, `apply_import` |
| `Check`, `ReadKey`, `Verify`, `Repair` | `check`: a 401, the recipe over ssh, the probe of that key, the edit |
| `SetRecipe`, `EditRegistry` | `repair-recipe`; expose, unexpose, allow, deny |
| `Rotate`, `Die` | a box gets another key; a kill or a failing step |

A probe answers with the box's verdict or not at all; an HTTP error other than a
rejection has the effect of no answer. Which of several answering copies is the
most common is left open. `calm` is a history variable: no box changed its key
since the run read the store. Without that no probe could prove anything.

### LinuxSwitch

One run of the installer at a time (it holds a lock): `phase` is where it is,
`run` its shell variables. `Init` are the boxes it meets: without an install,
with the unit of before the venv, with a venv directory, with a venv of its own.

| Action | Code |
|---|---|
| `BeginRun`, `CheckMark`, `PollRunning` | `venv_is_current` or `build_venv`, the pending mark, what runs before the switch |
| `Mark`, `BeginSwap`, `AdoptDirectory`, `SwapLink`, `KeepLink` | `arm`, the mark, each step of `swap_venv`; `ensure_system_gi` |
| `WriteFiles`, `Enable`, `Restart` | `switch_to_new_install` |
| `ProveHealth`, `HealthFailed`, `FinishEnableOnly`, `PruneBuilds` | `prove_health` and the end of `main` |
| `RestoreFiles`, `RemoveLink`, `MoveBack`, `RestoreLink`, `RestoreMark`, `RestartRestored` | each step of `restore_previous` and `restore_venv` |
| `LeaveAsItRan`, `AwaitPrevious`, `NothingProven`, `Stop`, `Disable`, `DisableOnly` | `undo_switch`, `stop_unproven` |
| `GiveUp`, `Interrupt` | a signal or failed step, not yet armed or armed: `on_exit` |
| `Kill`, `Reboot`, `ServiceRestarts` | kill -9; power cut; systemd's `Restart=always` |

A process (`proc`) is the build and the files it was started with, so it can
differ from what link and files say now: that difference is what the mark is
about. The mark holds systemd's InvocationID, of which only matters whether it
is still the unit's. A link whose making failed (`KeepLink`, `GiLinks`) leaves a
run that was modified and not changed. `systemctl stop` and `disable` are taken
to work; the code ignores their failures. Whether a source works is a constant (`Good`); a good one
may still fail to answer in time. The three files are one value `conf`.

`SwitchMark` adds `lapsed`, a history variable no step reads: since the process
that runs now was started the mark has lost track of it. The code has two gaps of
that kind: systemd starts the service anew after a crash in the middle of a
switch, which gives it another InvocationID than the mark's; and a kill ends a
rollback between removing the mark and restarting (finding 3).

### Watchdog and EpisodeReports

| Action | Code |
|---|---|
| `StartRun` | probing all, `advance` for every record, what is owed |
| `Announce(G, outcome)` | one message of the state report, naming `G`: sent, lost, or sent and reported lost |
| `Save`, `CannotSave` | the write of the status file |
| `CannotStart`, `Unexpected` | the failures `main` catches; `AnnounceFailure`, `KnownFailure`, `RecordFailure` their own report |
| `RunLost` | a crash, or a status file that cannot take the failure either |
| `Judge`, `Send`, `ReportBreaks`, `WriteReport`, `ReportLost` | the same for an episode report |

A run begins with `LoadStatus`: a file that cannot be read or parsed is an empty
status, and what the run saves then has forgotten everything before.
The text of a message is abstracted to the items it names, and how items are
split over messages is free. `told`, `toldDown` and `heard` are what the owner
knows; `torn` is what was said by a run whose status is not saved yet;
`forgotten` is what the file lost and the owner may remember otherwise, as after
an unreadable file or when a machine left. The two
episode reports run one after the other on fields of their own and follow the
same steps: `kind` says which one a behaviour follows.

### FleetServer

A request goes from `new` over `admit`, `initialize` and `question` to `answer`
and `over`; each round is decided again on the configuration of its moment
(`access`). `Chunk` reserves what the machine sends, from the request's cap and
the budget all share; `Deliver`, `SendTimesOut`, `Cancel`, `FailRequest` and
`BreakReply` are the ways a request ends, and each gives back what it holds.
The MCP framing is the library's.

### CallClient

A put is `StartPut`, then calls (`SendCall`, `ServeCall`, `Receive`) for each
chunk, the hash and the rename. A call its client gave up on stays in the air
and runs later (`RunLate`) or never. A file is the sequence of its chunks. The
get is the atomic write of `write_atomically`, with a crash at any step. `late`
marks the one exposure the protocol has, a late call between hash and rename.

### Updater and ReleaseChannel

`BeginRun` (the installed version is that of the process), `NothingToDo`,
`RecordAttempt` (on disk before anything starts), `StartUpgrade`, `StartFails`
(the count goes back if it can be written), `StartTimesOut` (the installer may
run all the same) and `RunKilled`. Days pass, releases appear and are held, and
`SelfUpgrade` starts the same installer beside it. `ReleaseChannel` has `choose`
and `behind_since` as operators over the list; a version is the number its
comparable key stands for.

### ChildProcesses

A process table with ids the kernel reuses once nothing bears them. `Fork`,
`Stranger` and `Exit` are the world; `Spawn`, `Finished`, `TimeOut`,
`Terminate`, `Grace`, `Kill` and `Reap` are `run_child`, in the order of the
code: members are scanned before the first signal, the group is signalled, and
its leader is reaped last. A signal reaches the group's members of its moment.

### LinuxSession

Users log in, out and switch, X servers leave sockets behind (`LogIn`, `LogOut`,
`Switch`, `Plant`). `procs` are the displays in the environments of the server
user's processes: one that outlives its session keeps the display of a session
that is gone, until it ends (`LeftoverEnds`). `Detect` is `_detect` with what a
failed lookup makes of it; the display it finds is that of any process of the
user, as the code takes the first. The server runs as an ordinary user, who can
work in sessions of its own only; an X command is `Ask`, `BeginCommand`, `RunCommand`, `Redetect`, `Rerun`, on the
one cache that several commands share. `ShellEnv` is what a Shell child gets.

### OAuthServer

One step per request: a handler reads its request before it touches the store
and awaits nothing after. `RegisterClient`, `Authorize`, `Exchange` with its
checks in the order of the code, `ServeKey` and `ServeToken` for the gate,
`TimePasses`, `Restart`. `approved` is a history variable.

### Startup

`ServerValues` and `ToolValues` choose every value (command line or its
environment, then the file, then the default), `Resolve` turns them into tools,
`Serve` is the bind guard, `Request` the gates in their order. The names of the
tools are the code's.

### Coordinates

Nothing of a picture is kept, so a click computes the frame again from the
displays of its moment: `Snapshot`, `Click`, `Zoom` and `ChangeDisplay`. Scales
are exact quotients; where a float product that ends in one half may fall to
either side, the mapping is the set of both.

### InputDrivers and InputTools

`InputDrivers` has one operator per request to a platform, each with an
argument that says whether it succeeds: a failed xdotool may have done its work,
a refused SendInput has not, macOS builds all events before it posts one. The
plans of `scroll.py` and `typing_input.py` are operators (`WheelEvents`,
`Plan`). `InputTools` has the steps of each tool on top: `held_keys` presses,
works and releases in reverse order; `paste_text` saves, sets, pastes, restores;
`_drag` presses, walks and drops. Type's own click may release a button that was
down, or leave its own down when it fails (`ClickedFirst`). `task` is the call at work, `down` what is
physically down, `out` what the system was given.

### ElementActions

`BeginTool`, `ReadTarget`, `WalkTree` and `PublishTree` list an application;
`CheckLive`, `Act`, `Mouse`, `GiveFocus`, `WaitFocus`, `TypeText` act on a
listed element; `ShotBegins` and `ShotEnds` are an AnnotatedSnapshot beside
it. Between any two of them the application retitles, raises or closes windows,
reuses a list row, moves the focus, or does not answer (`World`). Elements of a
window may overlap: a click at a place hits any element of the active window that
lies there, as the application decides. `Roots` has each way `_atspi_root` finds
a frame or none, `Listed` drops the elements that can have no ref, and the window
list may be empty, which `Same` takes as no proof. `did` records what the
application was made to do, `calm` that the desktop kept still.

### ElementLists

The walk as a stack of branches (`Visit`, `Descend`, `EndBranch`, `CanVisit`,
`EndWalk`) under its four bounds, over elements that vanish. `Children` is the
function the platform hands to `walk`: what is below an element, in order.
`Publish` is `_published`, which drops the elements that can have no ref
(`refless`) without a word; `NotRead` is a platform that could not read at all.
`Merge` and its
helpers (`JoinWords`, `ReadingOrder`, `Covered`) as operators.

### UiaWorker

Callers (`BeginUia`, `PutJob`, `GetResult`, `GiveUp`, `ByHand`) and threads
(`StartThread`, `MakeClient`, `SwapClient`, `Loop`, `OnJob`, `EndJob`). A thread
is "at" a call into an application, which returns when the application likes; a
wait for it may time out at any moment, and then the thread is abandoned and
goes on beside its successor.

## 3. Runs

| Run | Module, config | Question | Result |
|---|---|---|---|
| `task_safety` | `MCTaskManager` | do slots, records, answers and the history stay right under every interleaving, and is `CallPromise` implemented? | holds, 3.2 million states |
| `gateway_admission` | `MCGatewayAdmission` | is every decision one of what the files held since the request came? | holds, 1.06 million states |
| `gateway_parts` | `MCGatewayParts` | does the retry ever run a tool twice, is the log line true, is everyone answered; do status file and owner agree; is the reply budget exact and given back; is a transferred file whole? | holds, 229 000 states |
| `machine_desktop` | `MCMachineParts`, `MCMachineDesktop.cfg` | are stale sessions healed, do clicks land, is input accounted for, do element tools act once and on the right element, is nothing lost untold? | holds, 1.8 million states |
| `machine_server` | `MCMachineParts`, `MCMachineServer.cfg` | are attempts counted, tokens proven, shells closed; is a call behind a hung tool answered, does a machine get to its channel, does a timed-out command end with its whole group, does an abandoned thread end? | holds, 204 000 states |
| `sync_configs` | `MCSyncConfigs` | tokens known and stable, a finished run installs its manifest? | holds, 614 000 states |
| `sync_overlap` | `MCSyncConfigs`, `MCSyncOverlap.cfg` | are allow-lists the manifest's after a successful run? | violated: finding 1 |
| `key_store` | `MCKeyStore` | do import and repair store only what a box accepts, whoever edits meanwhile; is a recipe ever lost? | holds, 1.1 million states |
| `enroll_retry` | `MCKeyStore`, `MCKeyStoreEnroll.cfg` | is a machine exposed whose enrollment failed and was retried? | violated: finding 2 |
| `linux_switch` | `MCLinuxSwitch` | whatever interrupts a switch, does the link exist, does a rollback restore everything, is what runs at the end proven, and does the mark outlive what interrupts a switch? | holds, 10.2 million states |
| `linux_switch_mark` | `MCLinuxSwitch`, `MCLinuxSwitchMark.cfg` | is a process that is not what the files say always restarted? | violated: finding 3 |
| `late_action` | `MCUiaWorker` | does an action that was given up begin anything more? | violated: finding 4 |

Bounds, and why the interesting cases lie within them.

- **Task manager**: three calls, two of which compete for a category of one
  slot (DESKTOP) while the third has a category of two (SHELL). `MaxHistory` is
  1, so two finished tasks already overflow it. The clock runs to 3 with
  `StaleAfter` 1 and a declared runtime of 2 for one call, so it can be under
  both limits, between them, or over both. `machine_server` freezes the clock, as
  time has no part in the answer. `MaxTime` is the only bound that the
  code does not have.
- **Admission**: two requests of one consumer and one machine, four registry
  contents (granted, token unknown, machine denied, machine not exposed: one for
  each verdict), two machine sources, two registry writes and one of the source.
  Two writes are needed for one to slip between stat and read and another after
  it. More requests add nothing: they only meet in the shared copies.
- **Upstream**: two requests, one idle connection and two in all per pool, shared
  with the requests to other machines, so a pool can be exhausted by them, full
  for a retry, and overfilled by returns; one restart of the machine.
- **Sync**: two runs (overlapping, or one after the other's death), two
  projects, four tokens, one manifest edit, one act of the owner. In the
  manifests p loses a machine, moves to another gateway url, leaves, or becomes
  direct. Two tokens are minted beforehand, leaving two for the runs. `MaxTokens`,
  `MaxManifestEdits` and `MaxOwnerActs` are bounds of the model.
- **Key store**: two runs at a time, two commands or owner's acts, one rotation;
  two urls and three keys, because a repair has to tell the stored key, the one
  the box wants and a wrong one apart; up to two config copies per import. The
  store starts with any entry or none. `MaxCommands`, `MaxRotations` and
  `MaxCopies` are bounds of the model. `enroll_retry` has one run at a time and
  enrollments only, from an empty store, so nothing but the retry can explain
  the outcome.
- **Linux switch**: three runs, one kill or reboot and one crash of the service;
  three sources (the system's, a good and a bad one) and two keys. Three runs
  are a switch, a second that is interrupted, and a third that meets what the
  second left. The four starting boxes stand for earlier runs. `MaxRuns`,
  `MaxKills` and `MaxCrashes` are bounds of the model; the proofs need none of
  them.
- **Watchdog**: one machine and the gateway's own record, which every message may
  split; two states, one failure besides the unwritable status, one fault, which
  may be a crash, a failed read or a failed write. Two
  boxes and two faults in the episode reports. The proofs need no bound.
- **Fleet**: two requests, a reply of two units and a budget of three, so two
  replies at their cap do not fit; one change of the configuration, between any
  two rounds. **Transfers**: three puts of two chunks and two faults, enough for
  a late call of the first to meet the third.
- **Updater**: two releases with different soaks, one of which does not install,
  three days, two attempts, two faults. **Children**: three ids, one of them the
  child's, so that a freed id is reused at once. **Session**: two commands, five
  logins (X11 of the own and of another user, Wayland, the greeter) and three
  changes.
- **OAuth**: a configured client beside another one, two codes, lifetimes of one
  tick in three. **Start**: tool lists empty, of one tool, of an unknown one, and
  of the whole third tier.
- **Coordinates**: a display with two pixels to a unit and an odd origin, one
  with a pixel to a unit, pictures of three widths, 48 rectangles that lie
  within, across and beside the edges. **Input**: three systems, four key
  lists, wheels at, under and over the limit, texts with every kind of line end
  and a character of two units, one fault per history.
- **Elements**: two windows of one application, with two titles or one, three
  elements of which two lie at one place of one window, and three trees and
  changes of the desktop together (`MaxChanges`): two trees and a change between
  them, or a tree and two changes. **Lists**: six paths on
  three levels, limits, depths and visits under and over their number, four
  readings. **UI Automation**: four calls and one thread that may be stuck
  (`machine_desktop`), two calls and two (`machine_server`), three threads in all,
  so the limit is met and, once a stuck call returns, left again.

`MaxFaults`, `MaxReportFaults`, `MaxAccessChanges`, `MaxPuts`,
`MaxTransferFaults`, `MaxUpdaterFaults`, `LastDay`, `MaxSessionFaults`, `MaxNow`,
`MaxCodes`, `MaxInputFaults`, `MaxChanges` and `MaxThreads` are
bounds of the model. `MAX_UNITS`, `MAX_MARKS`, `MAX_REPLY`, `MAX_BUFFERED`, `MAX_STUCK_WORKERS` and the
lifetimes are constants of the code with small values; `MAX_REPEAT`, `MAX_CLICKS`,
`MAX_LINES` and `MAX_ATTEMPTS` have the code's.

`CHECK_DEADLOCK FALSE` is set everywhere because all these histories end: all
calls answered, all requests over, all runs finished, the bounds met. Symmetry
is used over requests and over runs, in runs without liveness properties only,
over urls and keys in `key_store`, and over titles and names of elements in
`machine_desktop`.

Fairness.

- Task manager: weak fairness of each call's `WrapperStep`, that is, the
  operating system runs a thread that can run, and `acquire(timeout=60)` returns
  after 60 s. `Return` is not fair: a tool may hang for ever. `Call` and
  `CancelTask` are not fair either.
- Upstream: weak fairness of `GatewayStep` for each request: the event loop runs
  what is ready, and connect and read timeouts fire. The machine, the pool's
  housekeeping and the consumer owe nothing.
- Fleet: the event loop runs a handler that is ready, the session's timeout and
  `SEND_TIMEOUT_SECONDS` fire. Neither the machine nor the consumer owes
  anything.
- Episode reports: the timer starts every run and a run goes on to its end; the
  owner and the release list are reached again and again (strong fairness),
  without which no announcement could ever be made.
- Updater: days pass, the scheduler starts it again, an installer ends.
- Children: `ServerStep` is weakly fair as each of its waits has a timeout.
  Processes owe nothing: they may ignore SIGTERM and keep pipes for ever.
- UI Automation: a call into an application returns in the end. That is what the
  module's own sentence takes for granted ("ends when its call returns").
- All other components are checked for safety only.

## 4. Proofs

Each theorem holds for all values of the constants under the named assumptions
of the module, which say that constants have their kinds (finitely many calls,
positive limits, natural numbers) and, in some modules, what the code or the
system guarantees of its inputs:

- `SyncConfigs`: a manifest lists projects with their machines, none of them
  called as the fleet entry is;
- `Coordinates`: there is a display, and a display has an extent, as `coords.py`
  refuses any other;
- `LinuxSession`: the server's user is not root, and a login is of a known kind;
- `InputDrivers`: a wheel clamped to `MAX_CLICKS` fits the 16-bit delta of
  Windows (`120 * MAX_CLICKS < 2^15`), which is why `scroll.py` clamps;
- `InputTools`: a tool may be given any list of keys, names that are no keys
  included, any text over the characters told apart, any whole number of clicks;
- `ElementLists`: the elements below a window form a tree, whose children are
  given in order. An OCR may read any words at any places; a word's text stands
  for the word, so two places that read alike are two texts of the model.

TLC has checked every strengthened invariant below before it was proved.

| Module | Theorem | Shows |
|---|---|---|
| `TaskManagerProofs` | `TypeCorrect` | `TypeOK` |
| | `SlotsCorrect`, `CategoryLimitCorrect` | slots are conserved; never more tools of a category at work than its limit |
| | `RepliesCorrect` | record, answer and CancelTask reply agree |
| | `SweepCorrect` | only a task that outlived both limits is swept |
| | `FindableCorrect` | a live task is in the table |
| | `PromiseKept` | the task manager implements `CallPromise` |
| | `HistoryCorrect` | a registration leaves at most `MaxHistory` final tasks |
| `GatewayAdmissionProofs` | `TypeCorrect` | copies are whole contents that someone wrote |
| | `DecisionCorrect`, `UpstreamCorrect` | each decision is of a content the files held since the request came |
| `KeyStoreProofs` | `TypeCorrect`, `ProvenCorrect` | shapes; what import and check carry through their probes |
| | `AutomaticCorrect` | import and repair replace a pair only by one its box accepts |
| | `RecipeCorrect` | no edit of key or url loses a recipe |
| `SyncConfigsProofs` | `TypeCorrect` | shapes; tokens are ones that were minted |
| | `FileTokensKnown` | a token in a file is known to the registry or was taken away |
| | `TokensStable` | no run changes a token that is still good |
| | `RunsInstallManifest` | a run leaves no consumer broader than the manifest it read, and exact if nothing failed |
| `GatewayPartsProofs` | `TypeCorrect` | the pool within its size, phases known |
| | `AtMostOnceCorrect` | no tool runs twice for one request |
| | `StaleHiddenCorrect` | "unreachable" means real trouble of the machine, or a pool of the gateway without a place in time |
| | `LogCorrect` | one line per ended request; a line that rests on the machine's headers is true of the tool |
| | `OwnerCorrect` | status file and owner agree on machines, gateway and the check itself, but for what is torn or forgotten; of that the owner never misses bad news |
| | `EpisodesCorrect` | an episode the file calls announced was told |
| | `BudgetCorrect` | the reply budget is what the open requests hold, within its limit |
| | `TransfersCorrect` | a put's target is a whole file unless a call ran late; a download is never cut |
| | `PartsCorrect` | of the composed gateway host: all types and the safety of every part |
| `MachineProofs` | `ShellClosed` | no tool of the third tier for a network client without key or token |
| | `TokensStandForApprovals` | a token is one approval, redeemed once, in time, by its client |
| | `AttemptsCorrect` | no release is started more often than the attempts file says |
| | `DriftClockSteady` | the day a machine fell behind stays that day, and is never in the future |
| | `StrangersSafe` | no signal reaches a process the call did not start |
| | `GroupsEnd` | when a call ends at its timeout nothing of it runs in its group |
| | `StaleSessionsHeal` | a command with a stale X11 session ends in the current one, unless a process left over from a session that is gone holds its display |
| | `PointsAlwaysLand` | points of a picture land on what they show; a zoom covers what was asked |
| | `UiaPromiseKept` | a call acts once at most and its reply says so; threads stay within the limit |
| | `ElementsActedOnAsListed` | a call does one thing at most and its reply is true of it; an element's own interface reaches the element listed, a click on a still desktop that one or one of its window at its place |
| | `InputHandedBack` | keys, buttons and clipboard are given back whatever step fails |
| | `WalkComplete` | a walk lists in the order of the tree and without a gap; a list that gives no reason is all that could be read and have a ref |
| `MachinePartsProofs` | `InputPlannedWhole` | any wheel turns by what was asked within its clamp, in chunks each system takes; on Windows and macOS any text is typed stroke by stroke as it reads, each line end one Enter |
| | `ListsAndMarksComplete` | what `WalkComplete` says; and of any elements and any words the picture gets at most `MAX_MARKS` marks, by rows from the top, no word in two of them, no element left out for a word, and nothing left out that is not counted as dropped |
| | `MachineTyped` | of the composed machine server: all types |
| | `NothingIsLost` | of the composed machine server: plans and lists lose nothing untold (`NothingLost`), but for elements that can have no ref |
| | `MachineCorrect` | of the composed machine server: the safety invariants of the run, all together |
| `LinuxSwitchProofs` | `TypeCorrect` | shapes; a stopped unit has no process |
| | `LinkCorrect` | the venv link points at a build that is there |
| | `RollbackCorrect` | a run that goes back ends with the link and files of before it |
| | `EndsCorrect` | a restart run that was not killed ends with a proven process or a stopped and disabled service |
| | `StagedCorrect` | whatever runs, kills, crashes and reboots came before, an enable-only run's change stays pending until the process follows it, unless one of the two gaps was hit |

The arguments.

- **Replies.** `RepliesAgree` alone is not inductive: it says nothing of a call
  in the middle. `LifecycleInv` adds what each place in the wrapper allows the
  record to be (`StatusesAt`), that the cancel flag and the status "cancelled"
  coincide, and that an answer is fixed exactly when the thread is about to
  release or done. The crucial step is `Finish`: a cancel that came first makes
  the guard of `_transition` false, and one that comes later finds a final
  status and changes nothing.
- **Promise.** The same invariant maps every step to one of `CallPromise` or to
  a stutter: a registration to the sweep of exactly the calls whose record it
  changed, the end of a call to `Settle` if nobody cancelled it and to
  `AnswerCancelled` if somebody did.
- **Slots.** A step that takes or returns a slot adds its call to `Holders` or
  removes it, all others leave the set alone; the cardinality lemmas on adding
  and removing an element do the rest. Calls are assumed finite for that.
- **Sweep.** `SweepInv` adds that a running task has a start time, so `IsStale`
  compares an age that exists; the clock never goes back.
- **History.** Creation stamps are distinct (`StampInv`), so of the final tasks
  only the `MaxHistory` newest have fewer newer ones than that: the oldest of
  those kept has all others kept among the newer (`NewestFew`).
- **Findable.** Pruning removes only final tasks, and a final status is final.
- **Admission.** `Fresh` says why comparing signatures is sound: a copy whose
  last load succeeded and whose signature is the file's has the file's content,
  except between stat and read. `AdmissionInv` adds that everything the file
  held while the request is in the loop is in `seen`, and so is each copy once
  the reload is past its file. A write between stat and read only makes the
  copy newer than its signature, which costs a second read and no more.
- **Upstream.** `RequestInv` says for each phase how many copies of the request
  exist, on what kind of connection, and whether the machine gave trouble. The
  retry is reached only from a dead reused connection, where no copy is left.
  `HeadersTold` carries from the headers to the line that the tool ran if and
  only if the status was 200, and that no copy is left to run later.
- **Key store.** `PairProven` says what a run knows between probe and edit: the
  pair it will store fits its box, or is what was there, and a repair's url is
  the one it read. The comparison under the lock makes that true of the entry as
  it is then: if url and key are what they were, the new pair may replace them.
  `OneEditor` shows that nobody else could have made the change.
- **Sync.** `SyncInv` relates each project's registry entry to its file: every
  token of the file is known or taken away (`FilesInv`), at most one of the known
  ones is in it, so a run that reuses a token reuses the file's, and only gateway
  entries carry tokens, so an entry made by hand brings none. `DraftSound` says
  the same of the text a run is about to write, and that no other known token is
  in it, so confirming its token takes no good one away: the hashes a registry
  edit drops are in no file. Registration comes before the write and removal
  after it, which is why a run killed between the two leaves known tokens only.
  `DoneSound` is what a run has done so far for the manifest it loaded; only the
  holder of the lock changes it.
- **Budget.** `BudgetExact` is a sum over the open requests; it is stated as the
  number of units held (`Reserved`, pairs of a request and a number), so that
  adding and removing an interval of units is one lemma on cardinalities each.
- **Transfers.** `PutInv` holds until a call that was given up on runs late: from
  the good reply to the hash until the rename the part is what was sent. `late`
  is set by exactly the calls that could break it.
- **Composition.** The parts share no variable; a step of one is a stutter of
  the others, so the conjunction of their invariants is inductive.
- **Owner.** `OwnerUpToDate` says nothing of a run in progress. `WatchInv` adds
  that the status being built agrees with the owner on all it calls announced,
  but for what is torn or forgotten; that the news "the check runs again" is told or owed
  before the status may be saved; and that without a fault nothing is exempt.
  A message changes only what it makes torn, and `Saved` lets go of exactly what
  agrees by then.
- **Start.** `StartInv` carries the guard's condition from `Serve` to every
  request: options and tools do not change while the server runs.
- **Tokens.** `CodesInv`: each code in the store stands for one approval, has a
  number of its own, and no token has the number of a code still in the store.
- **Attempts.** `AttemptsInv` adds that between the record and the start the
  count to go back to is one less, for the same release.
- **Drift.** `ReleasesInv` says that no release is of a later day, and that what is
  installed is of the list. Then the newest of those that soaked exists (the least
  age, then the least place in the list), and as a day passes or a release appears
  the days on which newer releases finished their soak stay and others come no
  earlier than today, so the least of them stays (`DaysOnlyGrow`).
- **Strangers.** `ChildInv`: until the server reaps the child, running or zombie
  it bears its id, so the kernel gives that id to nobody and a stranger's group,
  which has a stranger's own id, is another one.
- **Groups.** `GroupInv` adds that once the group was killed its leader is a zombie,
  so nobody is left in the group who could fork into it.
- **Session.** `SessionInv` adds that a command whose world stands still runs
  again in a session that is there or on the display of a leftover process; it
  fails after that only in the latter case, or if the truthful lookup found no
  X11 session.
- **Points.** Rounding and scaling are restated as inequalities between products:
  the pixel of a unit's middle lies between the unit's edges, and the clamp only
  moves a point of the edge inwards. A zoom rounds its box outwards.
- **Threads.** `AliveInv`: a thread is started only when all others alive are
  among the overrun ones, which are fewer than the limit. `QueueInv` and `JobFine`
  say who holds a job and what it may have done by then; a reply "not asked" or
  "failed" is given only for a job that can no longer act. `ClientInv` says when
  an abandoned start may still replace the process-wide client: never once its
  successor is in use. The newest list of an element is found by the least
  element of a set of naturals.
- **Elements.** `ListingInv`: a ref is bound to one tree, whose entries say the
  window and the name they had. `Acts` and `ActsWithin` carry from the check to
  the action that nothing was done yet and that on a still desktop the element is
  where it was listed. A click at a place of the active window then hits that
  element or another one of the same window at the same place (`OnAsked`).
- **Input.** `HoldingInv` says what is down: what was down before the call, what
  it still holds, what it was to press, and what is known to be stuck. `task.held`
  is a prefix of the keys asked for, so the body of `held_keys` runs under all of
  them (`SeenInv`), and releases in any order of failures empty it. `GripInv`
  relates the button pressed last to the one macOS's provider remembers;
  `ClipInv` what a paste saved to what was there.
- **Walk.** Paths are ordered: one turns off before another (`TurnsBefore`) or
  leads above it. `StackInv` says that a branch deeper on the stack holds elements
  a level deeper, all of which turn off before those that wait further up, so the
  element at hand comes after all that is listed (`FoundPart`) and before all that
  waits. `ReachedPart` accounts for each element to list: it is listed, below one
  that is gone, below one that waits, or below the last level with `clipped` set.
  When nothing waits and nothing was clipped, only the first two are left. The
  order on paths is transitive by cases on where two of them part; no induction.
- **Plans.** What a recursive function computes is proved without induction over
  data, by least counterexample over its number of steps (`UpTo`): any function
  that begins and goes on as the definition says is the one defined (`Recursion`,
  `Defined`). `EndsWith` is the invariant of `AddChar` along a text: what the
  strokes so far press is the prefix of the text with its line ends as keys,
  whether the last was a carriage return or not. For a wheel, the sum of the first
  chunks is what their number allows (`ChunksTo`), so the last chunk ends the
  sum. `PlanInv` carries the plan from the request to the reply.
- **Marks.** Sorting is the least item taken again and again (`InOrderSorts`),
  which the order of keys allows, as it is total and transitive (`LeastItem`). `RowsRun`
  and `RowsOrder` say what rows are: an item is at most the row height below the
  first of its row, so none comes before one further above it than that. `Joined`
  is the invariant of `JoinWords`: each word is in exactly one line. `Kept` is the
  one of the elements' marks, which drops nothing but equal marks.
  `MergeTells` cuts the elements' and the words' marks at `MAX_MARKS` and counts.
  `MarkedInv` says that the reply is `Merge` of what was found and read.
- **Machine composition.** `MachineInv` has for each part its invariant and its
  types if it is at work, and its `parked` state if it is not (`UpdaterPart`,
  `StartPart`, `ElementPart`, `ListPart`, `UiaPart`); parts that begin at rest
  have theirs always (`AlwaysFit`). `PartsApart` says that a step of one is a
  stutter of the others. The types need more than themselves: an action that
  walks holds the lock (`ElementTyped`), an installed release is one of the
  list, a job's listing is one of a thread (`UiaRest`), a key that goes down is a
  key of the task (`TypedInv`).
- **Staged.** `MarkedOrFollows`: whoever may leave files the process does not
  follow has put the mark first. A run that found no mark found a process that
  followed the files (`FoundFollowing`), so going back leaves it following them.
  `FlagsInv` relates a run's flags to its policy and phase. The first two hold as
  long as the mark has not `lapsed`; what systemd starts afresh follows the files,
  whatever happened before, and from there they hold again.
- **Switch.** `SwitchInv`: builds get numbers past every earlier one, so the
  build of before the run is never this run's, and removing this run's build
  cannot remove it; it stays in the store until the run ends. `RollbackInv` adds
  that before anything is written, and again after it is restored, link and
  files are those of before. `EndsInv` adds what each phase knows of the
  process: `SoundInstall` (what runs, and what a restart would run, is good and
  of one version) is established by the two proofs the installer asks for, and
  kept by crashes and reboots since both start what link and files say.
  `EndsCorrect` assumes `VersionsDiffer`: the installer compares versions, so of
  two sources with one version it cannot tell a bad from a good one. With such
  sources the property can fail, by a crash of the service between the mark and
  the swap followed by a kill.

Model-checked only: the liveness properties, as liveness under fairness and
ENABLED are out of the prover's reach. Every safety invariant and action
property of a passing run is proved.

Of `StaysOnChannel` and `GroupEndsAlone` the safety half is proved
(`DriftClockSteady`, `StrangersSafe`, `GroupsEnd`), the liveness half model-checked.

No module uses RECURSIVE operators.

## 5. Findings

1. **Overlapping sync runs can install the older manifest**
   (`gateway/cli_fleet.py:375`). The manifest is loaded before the registry lock
   is awaited.
2. **A retried enrollment can leave the machine unexposed**
   (`gateway/cli_enroll.py:208`). `enroll-finish` stores the key and then exposes
   the machine if it was new. When the registry edit fails, the printed retry
   finds the machine known, skips the exposure, lists it in the projects and
   reports success; no project reaches it. The test of the neighbouring failure
   says "the printed retry must end usable"
   (`src/tests/test_gateway_enroll.py:285`). Exposing a machine that no consumer
   is allowed yet, as `_exposure_plan` already judges, closes it.
3. **A killed rollback can leave a process that the next run takes as
   unchanged** (`src/installers/install-linux/40-switch.sh:115`). The rollback
   restores the files, removes the mark, then restarts. Killed between, the
   process still has the new key. The next run finds no mark, and
   `check_running_install` compares only the version and asks for a refusal, so
   nothing is restarted; its proof fails on the key and it leaves the process
   "as it ran". `90-main.sh:100` says: "restart, never take it as unchanged."
   Renewing the mark before the files move back closes it.
4. **An action that was given up can still begin** (`platform/win/uia.py:321`).
   `activate` and `set_text` ask whether their thread was abandoned only after a
   refused pattern. A call that hung earlier, while the element was looked up,
   or a job still in the queue when its caller gave up, goes on to press the
   element after the caller was told the application did not answer. The module
   says "an abandoned action stops after the call that hung" (`uia.py:13`).
   Asking once more before the pattern narrows it to the call itself.

Further disagreements, met while modelling and not among the runs. Where a
definition is named, naming it as an INVARIANT or PROPERTY of the config shows
the history; the others are plain in the code.

- **An abandoned upload leaves no access-log line** (`gateway/app.py:525`
  against "one line per request", `src/README.md:596`): ClientDisconnect leaves
  `handle` past every `_record`. `OneLinePerRequest` of `GatewayAdmission`.
- **The recovery of the check can go untold** (`gateway/check.py:430`): when the
  announcement of a failure is delivered but reported lost, and the run that
  recorded it is lost too, nothing remembers that the owner thinks the check is
  down. `RecoveryAnnounced` of `Watchdog`.
- **A put can leave a file nobody sent** (`cli_call.py`, `src/README.md:797`
  "sha256-checked, atomic"): a chunk given up on that arrives between hash and
  rename. `PutIsAtomic` of `CallClient`.
- **A session cached as headless stays so** (`platform/linux/session.py:387`):
  only a failing X command detects again, and a headless or Wayland cache runs
  none. `HealsAfterLogin` of `LinuxSession`, with `SessionFairness`.
- **GetRunningTasks can miss a call that is active all along**
  (`tools/tasks.py:55`): it lists running tasks first and pending ones second,
  from two copies of the table.
- **A crash outdates the mark as a kill does**
  (`src/installers/install-linux/90-main.sh:112`): when the service dies in the
  middle of a switch, systemd starts it under another InvocationID than the mark
  names, and the next run finds no mark of its process. It is the first disjunct of
  `Lapses` in `SwitchMark`.
- **The retry may find the dead session again**
  (`platform/linux/session.py:110`): `_scan_proc_for_x_env` returns the display
  of the first process of the uid that has one. A process that outlives its
  session keeps the dead display, so after a logout and a login the fresh
  detection may fail again, and the cache keeps it. `_run_x` says it "handles a
  stale cached session after a logout/login" (`session.py:386`).
  `RetryHandlesRelogin` of `LinuxSession`.
- **A click may land on another element of the window**
  (`platform/linux/windows.py:665`): `_center` asks whether the window is the
  active one, nothing asks what lies on top of the element within it. The tool
  says "unless something else is on top of it there" (`tools/desktop.py:663`), and
  `_center` "a click never lands somewhere else". `ClickedUncovered` of
  `ElementActions`.
- **A tree can be incomplete without saying so** (`element_tree.py:208`):
  elements without an entry are dropped, which is wanted
  (`src/tests/test_element_tree.py:511`), and a provider that fails gives an empty
  tree; both without a reason, where the tool says "the reply says when the list
  is incomplete" (`tools/desktop.py:628`). `TreeSaysIncomplete` of `ElementLists`.
- **X11 types line ends as they come** (`platform/linux/x11_input.py:59`): the
  text goes to `xdotool type` unplanned, so "\r\n" is two characters, where
  Windows and macOS press one Enter as `typing_input.py:1` ("the same plan on
  every OS") and `tools/desktop.py:319` say. `SamePlanEverywhere` of `InputTools`.
- **Two windows of one title**: AT-SPI's frame is found by a title read before,
  so the tree of another window of the same application may be listed
  (`platform/linux/windows.py`, `_frame_titled`); `ElementActs` therefore speaks
  of entries that lie `InItsWindow`.
- **macOS**: a hover with modifiers carries no flags; with two buttons pressed
  and the later released, moves are no drags though the first is down
  (`_held_button` holds one); a click of the button a "down" holds leaves
  `_held_button` set; `get_clipboard` does not look at pbpaste's exit code.

## 6. Not modelled

In the modelled parts:

- the asyncio semaphores of `taskmanager.py` (`_get_semaphore`): nothing calls
  them;
- an exception outside `Exception` in a tool function, which leaves the record
  "running" until the sweep; a wall clock set back; two tasks with the same
  `created_at` (ties in the history are broken by the sort, here there are none);
- the order and the cut to 50 entries of the task listings;
- an OSError from `stat` in `reload`, and a file rewritten in place within the
  same signature; writers are assumed to replace files, as the project's own do;
- in `sync.py`, the entries of a config that are not the fleet's: the file is
  read at planning and replaced whole later, so an edit of them in between is
  lost;
- names, paths, JSON and TOML layout, ssh transport, and the messages to live
  sessions in `sync.py`; entries made by hand under an alias that points to the
  fleet's url; the refusals of `validate_run`, which precede any change.
- in the Linux installer: sudoers, updater timer, firewall, enrollment, desktop
  packages; an interruption between the three files of one `conf`;
  camera-box upgrading a build in place; a build that fails, which only ends the
  run before anything changed. An enable-only run may prune the build of a
  process it leaves running: nothing in the code promises otherwise.
- in `gateway/sync.py` and `keystore.py`, lost updates that are plain in the code: two
  first imports, or two `set-key` of one machine, whose last edit wins;
- in the key store: how `import` reads and labels configs, how many of several
  copies must answer, a store edited by hand or unreadable;
- in the watchdog: wording, and where a long report is cut into messages;
- in the fleet server: MCP framing and sessions of the library;
- in `enroll.py`: the ssh tunnel, the vault and the wait for a new box: one
  process that asks external services in order; its last step, `enroll-finish`,
  is in `KeyStore`;
- in the client: `run_shell` and `run_tool`, which are one call each, and the
  transport (`mcp_sse.py`);
- in `oauth.py`: discovery documents and the consent page;
- in `platform/command.py`: the Windows tree kill, which is one call of taskkill;
  a member of the group that another user runs (sudo), which no signal of the
  server reaches: the code swallows the error (`command.py:300`);
- in `platform/linux/x11_input.py`: which key xdotool presses for a character;
- in `platform/win/uia.py`: a COM call that reports an error is taken not to have
  acted; one that hangs may have;
- in `marks.py`: an element's class apart from its name: `NameOf` stands for both, as
  `_unique` compares both; of two that differ in class alone the listing order decides
  which number is lower, here it is the name's;
- in `platform/`: screenshots, windows, services, processes, registry and
  clipboards as such. Each is one call into the operating system whose effect
  the code does not track; the concurrency around them is the task manager's;
- `ocr.py`, which turns an external engine's output into words (`ElementLists`
  takes the words as they come), and `window_match.py`, one string comparison.

Whole components.

- **Access log** (`gateway/accesslog.py`): one process appends and rotates. What
  matters, that a request leaves its line, is in the gateway's modules.
- **Live-session notices**: a scan of `/proc` and a message, best effort, whose
  failure changes nothing.
- **Gateway command line**: parsing around registry operations that are modelled
  where they meet others.
- **Windows and macOS installers**: PowerShell and shell scripts with a switch of
  their own; not modelled yet, see the plan.

## 7. Plan

What is left, in this order.

1. **Refinements**: abstract specifications of the key store and the sync run,
   as `CallPromise` is for the task manager, and the proofs that they are
   implemented.
2. **Windows and macOS installers** as instances of one switch beside
   `LinuxSwitch`, with the abstract specification that an install is old, new or
   stopped, never in between.
