# A verification project for PIBIC LAB

PIBIC LAB is a desktop application (Python, with a web view) that students use to
reach virtual machines behind an SSH gateway: it opens SSH sessions, terminals and
port forwards, runs a per-user web workspace on a VM, drives a Proxmox server
through a tunnel, and installs services from a catalog. This directory holds TLA+
models of its stateful parts, TLC configurations that check them on small
instances, and proofs of what matters most for instances of any size. Every
definition is translated from the source; `PROJECT.json` maps each to its lines.

## 1. The system

```
 web view (app.js, workspace.js, proxmox_wizard.js)      timers, requests in flight
    | HTTP on loopback; each call on a thread of its own
 apps/lab/api.py                                          argument checks
    |
 AppFacade (facade.py + workspace_multiuser.py)           workspace forwards by profile
    |            |               |             |
 SSHSession   PackageInstaller  Proxmox      SQLiteStore, AuditService,
 Manager      (thread pool)     Service      CredentialStore, known_hosts
    | submits coroutines             |
 AsyncLoopRunner: one thread, one asyncio loop
    |
 AsyncSSH  ---  gateway / VM  ---  Proxmox API, workspace instance
```

| Component | State | Operations | Hard because | Correct when |
|---|---|---|---|---|
| `SSHSessionManager` (`ssh_service.py`) | `_states`: profile -> session; in each session tables of terminals and forwards | connect, disconnect, open/close terminal, open/close forward and SOCKS, run command, poll, input, resize | coroutines interleave at every await; the state found before an await is used after it; connections drop; a caller's timeout does not stop its coroutine | what is open can be closed; teardown happens once and completes; a disconnect leaves nothing open |
| `AsyncLoopRunner` | the loop | run with a timeout | gives up on the result, not on the work | - |
| Terminal I/O (`_reader`, `_terminal_poll`, `app.js`) | buffer, closed flag, reader tasks; in the UI the session id and a timer | read, trim, poll | destructive poll, requests that overtake one another, lost answers | output is shown once; a gap stops the terminal |
| `PackageInstaller` (`catalog.py`) | job objects, executor queue, rows, audit events | start job, execute job | two workers, writes that fail, kills between two writes, remote commands that outlive their timeout | rows, log and VM agree; stops at the first failure; every job ends |
| Workspace (`workspace_multiuser.py`) | `_workspace_forwards`, the pid/port/token files and process on the VM | status, open, close, disconnect | concurrent opens, start timeouts, processes slow to end, reconnects that bypass the close | at most one instance per user that nothing told to stop; what is stored leads to it; a close tells it to stop |
| `ProxmoxService` and wizard | a SOCKS listener per request, tasks on the server | request, clone, create, download, power, task status, cancel, web window | a POST carried out whose answer is lost, retries, cancel against receipt | what the user is told is what happened |
| Host keys (`hostkeys.py`) | `known_hosts` | probe, trust | whole-file rewrite, concurrent confirmations | a changed key blocks; no trusted key is lost |
| `CredentialStore`, `ssh_connect` | keyring entries, preferences | store, read, delete | done before a connect that may fail | - |
| `SQLiteStore` | profiles, environments, preferences, settings, jobs | save and load rows | read-modify-write of whole rows by several threads | no update is lost |
| `AuditService` | `audit.jsonl` | append, recent | appends may fail | - |
| `permissions.py`, `redaction.py`, `commands.py`, detector, Docker, ZeroTier, diagnostics | none that lasts | pure or one command each | - | - |
| Desktop shell (`launcher.py`, `vela_compat.py`) | bridge readiness | bootstrap, recovery | events of an external toolkit | - |

The hazards, each at its line with the properties that cover it, are listed in
`PROJECT.json`.

## 2. Modules

### SSHSessions - sessions, terminals and forwards

One task is one coroutine in flight; an action is the code it runs between two
awaits, for nothing else can interleave on a single-threaded loop. A caller that
gave up leaves its coroutine running, so tasks are not tied to callers.

| Variable | Code |
|---|---|
| `states` | `_states` |
| `conn`, `owner` | the AsyncSSH connection of an `SSHState`, its `profile_id` |
| `terminals`, `forwards` | the tables of an `SSHState` |
| `process`, `listener`, `via`, `busy` | remote processes and local sockets, the connection each belongs to, the sockets with a client |
| `pc`, `profile`, `sess`, `at`, `todo`, `reconnect` | where each coroutine waits and its local variables |

`Connect` runs `_connect` up to its first await (the whole of `_disconnect`'s first
part when a session is registered), `ConnClosed` goes on from there, `DialOk` and
`DialFailed` end it. `Disconnect`, `ListenerClosed`, `ConnClosed` are `_disconnect`:
pop, close every terminal, close the forwards of a snapshot one by one, clear the
table, close the connection. `OpenTerminal`/`TerminalOpened` and
`OpenForward`/`ForwardOpened` are the two halves of the open calls; the second half
uses the session found by the first, as the code does. `CloseTerminal` has no await
that suspends. AsyncSSH, the gateway and the clients of forwards are environment
actions (connections drop or finish closing, processes exit, clients come and go).
What is left out: `run_command` and its variants, the host key calls (no state of
the manager), the bytes of a terminal, which are module `Terminal`.

Two constants state assumptions rather than sizes. `ExclusiveConnect` says that two
`_connect` of one profile are never in flight together; nothing in the code
guarantees it, and run `ssh_orphan` shows what happens without it. `LateListener`
says that AsyncSSH may return a listener from a connection that closed meanwhile.

### InstallJobs and InstallLedger - installation jobs

`InstallLedger` is the abstract specification: what the history of jobs promises its
reader. A row goes queued, running, one final outcome, and says success only when
every item (the commands of the plan and the verification) succeeded, in order.

`InstallJobs` is `PackageInstaller`. A worker thread may be preempted anywhere; a step
ends where others can see it: at a write of the row, an event of the log, a command
on the VM. Every write may fail (bounded by `MaxFaults`) and the process may be
killed at any point (`MaxCrashes`); the rows, the log and what runs on the VM stay.

| Variable | Code |
|---|---|
| `request` | the plan's number of commands and `verify_command_id` |
| `job`, `row` | the `InstallationJob` object and its row; `output` counts the commands announced in it, `exit_code` is unset, zero or not |
| `audit` | the job's events in `audit.jsonl` |
| `queue` | the queue of the `ThreadPoolExecutor`; `Working` are the jobs that hold a worker |
| `pc` | the line of `start_job` or `_execute_job` reached |
| `method` | plain, `sudo` or `doas` |
| `launched`, `passed`, `remote` | commands that reached the VM, items that succeeded, whether one is running there |

The refinement maps a job's phase to the state in its row, so an object that is
ahead of its row (set to success, not yet saved) is still running to the reader.

### Terminal and OutputChannel - from the shell's output to the screen

The terminals of one profile with the page that shows one of them at a time. A
request of the page is a call on a server thread that submits one coroutine; none of
these coroutines suspends between its reads and writes of a `TerminalState`, so
handling a request is one action, its answer's arrival at the page another, and the
page's own code up to its `await` a third. Requests are handled, and their answers
arrive, in any order, and the user clicks whenever the page allows it. Output is counted
in pieces, one per read; keys likewise.

| Variable | Code |
|---|---|
| `live`, `table` | the profile has a session that is not closed, its `terminals` |
| `process`, `closed`, `buffer`, `received` | a `TerminalState` and its shell |
| `sessionId`, `polling`, `display` | `state.terminal.sessionId`, `pollTimer`, `xterm` or `fallback` |
| `kind`, `target`, `stage`, `data`, `ended`, `reopen` | the requests in flight |
| `stray` | coroutines whose thread gave up on them |
| `read`, `trimmed`, `shown`, `typed` | history: what became of output and keys |
| `base`, `before` | history: what was on the screen when a poll was sent, and when the poll that brought a piece was |
| `unheard`, `displaced` | history: shells whose open was never answered; shells whose id the page dropped at an answer about another |

`OutputChannel` is the abstract specification of the output: a piece waits from the
moment it is read, until it is shown or lost; what is lost never comes back, what is
shown stays as it is, and each batch that is shown is in order. The pieces that wait are
those in the buffer and in the answers on their way, so that a poll that is handled, which
takes the one into the other, is no step of the channel.

`OpenTerminal`, `CloseTerminal`, `CloseNothing`, `Type` and `Tick` are the page up to
its `await`; `HandleOpen`, `HandlePoll`, `HandleInput`, `HandleClose`, `Refuse` the
server; `OpenDone`, `PollAnswered`, `PollFailed`, `InputDone`, `CloseDone` what follows
the `await`. `GiveUp` and `StrayRuns` are a `result(timeout)` that raises and the
coroutine that runs all the same; `AnswerLost` is a failing `fetch`, or an audit log
that raises after the work is done. `Read` is `_reader` with its cut, `WatchProcess`
is `_watch_process`; the shell and the connection are the environment.

The page disables no button while a request is in flight, neither waits for one poll or
key before it sends the next nor numbers them, and compares an answer with nothing. The
code therefore does go wrong in four ways, which no property excludes by an assumption:

- Keys, and the output of polls that are on their way together, may change places.
  `KeysArriveOnce` speaks of how often, `ScreenInOrder` of polls that were sent after one
  another: what was on the screen when a poll was sent is above, and older than, what it
  brings.
- A late answer about an old terminal clears the id of a newer one (`app.js:722`, `751`),
  and of two opens in flight the first loses its shell (`app.js:613`). `displaced` records
  such shells, `unheard` those whose open was never answered; `EveryShellIsHeld` says that
  no shell is lost in any other way.
- A close that overlaps an open disposes of the renderer the open has made.
  `LossStopsPolling` and `OutputIsShown` speak of terminals that have one.
- A failed poll stops the timer for good. `OutputIsShown` holds as long as it runs, and
  `LossStopsPolling` says that it does not run on over a gap. The status dot is not
  modelled: the page sets it to error, and the next dashboard refresh or reconnect sets it
  back (`app.js:203`), so that nothing can be said of it.

Also left out: `terminal_resize` (no state of the program), a change of profile while a
terminal is open, decoding and escape sequences. AsyncSSH is taken to close a channel
only after its output has been handed to the readers; with a PTY there is nothing on
stderr, so the two readers are one. An open is one step although `create_process`
suspends: what a disconnect in between does is the subject of `SSHSessions`.

### Workspace - one remote instance per user

`workspace_status`, `workspace_open`, `workspace_close` and `ssh_disconnect` of one
profile, on threads of the HTTP server, and the three shell scripts they run at the
VM. A call waits for its script for a bounded time; the script runs to its end in any
case, so scripts are processes of their own, and each of their commands that others can
see is an action. A port is drawn at random and its access token is as unique: both
stand for the instance that is started with them.

| Variable | Code |
|---|---|
| `session`, `sessions` | the registered `SSHState` and how many there were |
| `stored`, `listener` | `_workspace_forwards[profile]`, the local sockets made |
| `late`, `unheard` | `open_forward` coroutines whose caller gave up; the sockets they opened (history) |
| `pc`, `kind`, `got`, `fwd` | where a call is, what it was made for, its `instance` and `forward` |
| `step`, `caller`, `own`, `out` | where a script is, who waits for it, the instance it starts, what it printed |
| `instance`, `pidFile`, `portFile` | the processes of the user at the VM, `$STATE/pid`, `$STATE/port` |

`Probe`, `StopKill` to `StopRemove`, `StartKill` to `StartTooLate` are the scripts;
`Probed` to `EndSession` the calls between two of them; `GiveUp` is a timeout or a
channel that closed; `ConnectionLost`, `Connect` (which drops the old session without a
`workspace_close`) and `Restart` of the program may happen anywhere. Forwards are as
`SSHSessions` shows them: closed with their connection, or by `close_forward`.

A script that sends `kill` only tells a process to stop (`Told`, state `stopping`); the
process ends when it likes (`InstanceStops`), or never. The stop script waits 2 s at most and
the start script 0.2 s, and both go on whether or not it has ended: so does the model, and
an instance that is stopping may answer a probe, live on without a pid file, and overlap the
next one. The properties therefore speak of instances that nothing has told to stop, which is
what the scripts control. `open_forward` has a time limit of 10 s in its caller: `OpenForward`
may fail and leave a coroutine that opens its socket afterwards (`LateForward`), with an id that
nobody was told.

Two history variables state what a property assumes. `raced`: a start or stop script was
sent while another one was changing things. The code allows it: `_start_instance` waits
16 s, the loop of its script may take 36 s, and a retry after that starts a second
instance whose pid file the first script then removes (`workspace_multiuser.py:178-179`), so
that it runs on, unknown. `overlapped`: two calls of the profile were in flight at once;
of two opens the forward of one is overwritten in `_workspace_forwards` and stays open.
Without either hypothesis TLC finds these. `ClosedMeansEnded` is what the changelog promises of a
close; it does not hold (finding 4), and `ClosedMeansStopped` is what does.

### ProxmoxTask - what the page is told of a task

An operation is a coroutine of the page: one request at a time, then polls of its task,
whether or not its dialog is still open. A request opens a SOCKS listener, is served or
declined, closes the listener in a `finally`, writes its audit row and answers. When
`open_socks` takes longer than its caller waits, the request fails before the `try`, and the
listener that opens all the same belongs to nobody (`ProxiedTooLate`).

| Variable | Code |
|---|---|
| `session`, `rights` | the SSH session; what `permissions_for` and `assert_vm_allowed` permit |
| `step`, `listener`, `answer` | the request in flight of each operation, and of a cancel |
| `leaked` | the requests whose listener opened too late |
| `task`, `asked` | the task at Proxmox and whether it was told to stop |
| `audited` | the operations in `audit.jsonl` |
| `what`, `elsewhere`, `follow`, `polls`, `report` | an operation, its coroutine, what it told the user |
| `panel`, `shown`, `button`, `hidden`, `activeTask`, `activeRequestController` | the dialog of the wizard, with its cancel button, and the variables its operations share |
| `tripped`, `clicked`, `mixed` | history: downloads that ended because the form was gone, operations that were cancelled, operations that were started while another was followed |

`list_vms` to `cancel_task` are what each request does at Proxmox. `Refused`, `ProxiedTooLate`,
`Declined`, `Unanswered`, `AuditFails`, `SessionLost` are the ways it fails; `Begin`,
`ResponseTaken`, `Poll`, `PollTaken`, `GiveUp`, `Refresh`, `FormGone`, `CancelTask`, `AbortRequest`,
`CancelTaken` the page. A task ends with an exitstatus of `OK`, of warnings, of an error, of an
interruption, or with none; `Outcome` is what the page makes of each.

- `ErrorsAreReal` speaks of runs without a fault, as the code owes nothing else: a lost
  session makes `close_forward` raise after the POST was carried out, so that it is reported
  as an error and not audited, whatever the comment at `ssh_service.py:538-539` intends. Even
  then the page tells three errors of its own making while the task goes on, which the
  property names: it asks a node that does not run the task (`clone_vm` posts to the source's
  node and returns the target's, `proxmox_service.py:692`; a download polls the node that the
  form shows by then, `proxmox_wizard.js:536`), it has polled as often as it will (lines 428
  and 562), or it reads a form that was closed (536-537). Warnings are an error to the page.
- `DoneIsTrue` names one success that nobody knows of: a download without an exitstatus
  (line 558).
- `PanelIsHonest` and `CancelHitsItsOwn` exclude `mixed`, for the coroutines write to whichever
  panel there is. The answer to a cancel writes its words there too, even over an outcome
  (lines 377, 384, 397), so they may stand where something was cancelled.
- `ListenersAreClosed` is about listeners that a request was given; the `leaked` ones stay
  until the session ends.

### Connection - host keys, credentials and the profile's row

`ssh_probe`, `ssh_trust`, `ssh_connect` and `save_profile`, on threads without a common
lock. `known_hosts` is read, emptied and written in three steps; `ssh_connect` looks at it
in its probe and again when AsyncSSH loads it. The key of a server may change at any
time, the keyring and the database may fail, the process may be killed.

| Variable | Code |
|---|---|
| `serverKey`, `known_hosts` | the key a server shows, the file |
| `secret`, `row` | the password in the keyring; the row in `profiles`, named by the edit its fields come from |
| `offer`, `confirmed` | the key in the dialog, the keys the user has confirmed (history) |
| `pc`, `host`, `key`, `profile`, `lines`, `options` | where a call is and its local variables |

`torn` (a trust was cut off, or overlapped a look or another trust) is excluded from
`ConfirmedKeysAreKept`, and `crossed` (an edit was saved between the read and the write of a
connect) from `EditsSurvive`, which is proved and part of no run: in both cases the code does
lose the other one's write. `CredentialsOnlyToConfirmedKeys` and `SecretsWaitForTheKey` need
neither.

## 3. Runs

Bounds are the smallest at which the interleavings in question exist.

| Run | Instance | Shows |
|---|---|---|
| `ssh_exclusive` | 2 profiles, 2 connections, 3 coroutines, 1 terminal, 2 listeners, symmetric | types, `NoOrphanConnection`, `DisconnectedMeansClosed`. Three coroutines are a disconnect, an open on the same session, and a call of the other profile; a second connection lets a profile reconnect |
| `ssh_overlap` | 1 profile, 2 connections, 2 coroutines, 1 terminal, 2 listeners, any calls overlap, late listeners | `TeardownIsExclusive`, `OpenListenersAreReachable`, `RunningShellsAreReachable`, `SessionsNeverReturn`, `TeardownCompletes`. Two listeners are needed for one to be added while the other is being closed |
| `ssh_orphan` | overlapping connects allowed | a violation: see finding 1 |
| `ssh_hang` | clients of forwards may stay for ever | a violation: see finding 2 |
| `install` | 2 jobs, 1 worker, plans of up to 2 commands, 1 kill, 1 failing write | types, `CommandsAreAnnounced`, `RowAgreesWithAudit`, `StopsAtTheFirstFailure`, refinement of the ledger, `EveryJobEnds`. One worker makes a job wait, which the two of the code would need three jobs for; two commands make a first failure with something left to stop |
| `install_doas` | 1 job | a violation: see finding 3 |
| `terminal_one` | 1 shell, 2 requests, a buffer of 2, 3 pieces, 1 key, 1 fault | types, `BufferHoldsTheLatest`, `ScreenInOrder`, `KeysArriveOnce`, refinement of the channel, `OutputIsShown`. Two requests are two polls that overlap, or a poll and a click; the third piece does not fit the buffer |
| `terminal_two` | 2 shells, 3 requests, 1 piece, 1 fault, symmetric | `ShownOnce`, `LossStopsPolling`, `EveryShellIsHeld`. Two shells are an old terminal and a new one; three requests are a poll of the old one, its close and an open |
| `workspace` | 2 threads, 2 scripts at once, 3 calls, 3 connects or restarts, 1 exit, symmetric; no state after `overlapped` and `raced` | types, `OneInstance`, `InstanceIsKnown`, `StoredForwardServes`, `ListenersAreAccounted`, `ClosedMeansStopped`. Three calls are an open, a second that finds its instance or not, and a close; two threads let any two overlap |
| `workspace_ends` | 1 thread, 2 calls, 1 connect | a violation: see finding 4 |
| `proxmox` | 2 operations, 2 polls, 1 fault, 1 cancel in flight, symmetric; no state after `mixed` and a fault | types, `DoneIsTrue`, `ErrorsAreReal`, `PanelIsHonest`, `CancelHitsItsOwn`, `AuditAgrees`, `ListenersAreClosed`. Two operations are one whose dialog was closed and the next; two polls let a task go on after one |
| `connection` | 2 threads, 2 hosts, 2 keys, 6 calls, 1 change of a key, 2 edits, symmetric | types, `CredentialsOnlyToConfirmedKeys`, `SecretsWaitForTheKey`, `ConfirmedKeysAreKept`. Six calls are look and trust of two hosts and two connects; two hosts make a line that another's trust must keep |

Two runs stop at states after which nothing new is of interest (`CONSTRAINT Telling` and
`OneTrouble`). In `workspace` every property assumes the negation of `overlapped` or `raced`, none is
left once both hold, and neither is ever undone. In `proxmox` it is a bound: `mixed` operations are
explored without faults, and faults without mixing; the proofs have no such bound.

Deadlock is not checked in the `install` runs: ids of jobs are finite, so the
instance stops once every job is over. The other runs check it, except where TLC's
own search for the one violation ends them. In `workspace`, `proxmox` and `connection`
every step is taken a bounded number of times and the only step allowed where all may stop is
`Rest`: that there is no deadlock shows that every call, script and operation comes to
an end, if what can go on does.

### Fairness

`SSHSessions!LoopSpec`: the loop runs what is ready (a popped session's teardown
goes on once what it awaits has happened), `asyncssh.connect` ends by its
`connect_timeout` of 12 s, and a connection that was told to close closes. Nothing
is assumed of open calls, which have no timeout in the coroutine. `ClientsLeaveSpec`
adds that every client of a forward leaves in the end, which the code does not
guarantee; it is what `TeardownCompletes` needs, and `ssh_hang` checks the same
property without it. `InstallJobs!FairSpec`: each job's thread is scheduled; every
remote command is awaited with a timeout, so a job that waits can always go on.
`Terminal!PageFairness`: the interval timer ticks, the loop runs what was submitted,
coroutines nobody waits for included, and an answer arrives at the page or its
request fails; each request for itself, so that none is passed over for ever. Shells owe
nothing: they may write or exit, or not.

## 4. Findings

1. **Overlapping connects orphan a session** (`ssh_orphan`, `ssh_service.py:199`).
   `_connect` looks at `_states` before it dials and assigns after. Two in flight for
   one profile leave the first connection open with nobody able to close it, against
   `docs/ARCHITECTURE.md:83`.
2. **A client of a forward holds a disconnect up** (`ssh_hang`, `ssh_service.py:221`).
   The wait for a listener is unbounded in `_disconnect`, bounded to 1.5 s in
   `_close_forward`. On Python 3.12 it waits for connected clients; the session is no
   longer registered, so no later call finishes the work.
3. **`doas` is automated** (`install_doas`, `catalog.py:247`), although
   `docs/SECURITY.md:35` and `README.md:99` say it is not.

4. **A close does not end the instance** (`workspace_ends`, `workspace_multiuser.py:374`).
   `workspace_close` answers that forward and instance were ended, and `CHANGELOG.md:8` says so
   of closing and disconnecting. The answer is the same where the stop script was not sent or
   not heard, and the script itself gives up waiting after 2 s.

What section 2 tells of `displaced`, `unheard`, `raced`, `overlapped`, `mixed`, `tripped`, `leaked`,
`torn` and `crossed` is how the code behaves where they occur; no line of the repository
promises otherwise, so these are not listed as findings. `PROJECT.json` lists them as hazards
without a property, or with a note that says what the property leaves open.

## 5. Proofs

Checked by TLAPS for every value of the constants, under the named assumptions
`ConstantsAssumption` of the modules (`None` is not an id; bounds are naturals).

**SSHSessionsProofs.** `TypeCorrect` first. Then one inductive invariant,
`OverlapInv`, without any assumption on overlap: `Ownership` (a registered session
belongs to its profile, a suspended coroutine holds a session of its profile that
has existed), `TeardownIsExclusive`, `ClosingIsAwaited` (a connection told to close
has a coroutine waiting for it), `HandlesFollowTheirConnection` (what was made on a
closed connection is closed) and the two reachability invariants. Ownership is what
makes exclusion inductive: a pop can only pick a session no other teardown holds.
`TeardownExclusion`, `ListenersReachable`, `ShellsReachable` and `NoReturn` follow.
`NoOrphans` assumes `ExclusiveConnect` and adds `ConnectIsAlone` (a profile with a
connect in flight has no session and no other connect), which is what lets `DialOk`
overwrite nothing. `DisconnectCloses` assumes also `~LateListener` and puts all of it
together.

**InstallJobsProofs.** `TypeOK` is inductive only together with `Progress`, which
says for each program point how the counters, the plan, the row and the object
relate; it bounds the output by the plan. Relative to both: `Announced` (the row is
never behind what was launched) gives `CommandsInRow`, `Audited` (the log tells the
outcome before the row does) gives `RowsAgreeWithAudit`, and `Progress` alone gives
`StopsAtFailure` and, step by step, the refinement `RowsAreALedger`.

**TerminalProofs.** `TypeCorrect`, then `OnceInv`: `ShownOnce` is inductive together
with `BufferHoldsTheLatest` and `NothingInvented` (what is on its way or shown was
read), for a new piece has a number above all that came before. It gives
`OutputShownOnce` and `BuffersHoldTheLatest`. `LossStopsTheTimer` rests on two more
invariants: `NameInv` (nobody but its open names a shell until the page has its id, so no
poll can have taken its output before), and `AccountInv` (the accounts of an opening shell
are complete; a poll of the page's terminal that nobody waits for has stopped the timer, or
is about to; the property itself). None of the theorems about `Terminal` assumes any order
of requests.

**ConnectionProofs.** Types are inductive together with `Located` (a call under way
is about a host). Then three invariants, each relative to the types only.
`ConfirmedInv`: every line of the file, every line that a trust is about to write,
and every key that a connect expects was confirmed for its host. It needs no
assumption, as overlapping trusts lose lines but never make one up; `SecretsWait`
and `CredentialsAreSafe` follow from it. `EditsInv`: until an edit crosses a connect,
the row is the last edit and so is the row that each connect will write
(`EditsAreKept`). `KeptInv`: until a trust is torn, one trust is in flight at a time,
nothing is offered meanwhile, and all that was confirmed is what it is about to write;
with no trust in flight it is what the file has, and the host on offer has no line
(`ConfirmedAreKept`). `crossed` and `torn` are the hypotheses of these two, as the
code does not exclude what they record.

**WorkspaceProofs.** Four layers, each relative to the ones before. `TypeInv`: types, at most one
script on behalf of each call (`OneScript`), and what scripts and calls hold at each of their
points (`ScriptOk`, `HoldOk`). `VmInv`, until a script was sent during another's changes
(`raced`): one script makes changes, what runs is what the pid file names or what that script
has just launched, and past its kill nothing else runs that was not told to stop
(`OneChange`, `Known`, `Cleared`). It gives `InstancesAreFew` and `InstancesAreKnown`.
`CallInv`, until two calls overlapped (`overlapped`): every other call is idle, a forward that
was popped is gone from the table, every open listener is stored, held by the call or was opened too late
(`Alone`, `Popped`, `Accounted`; `ListenersAccounted`). `QuietInv`, until either: what is stored
leads to an instance that nothing has told to stop (`ForwardServes`, and step by step `ClosesStop`). `raced` and
`overlapped` are the properties' own conditions, for the code excludes neither.

**ProxmoxTaskProofs.** Types are inductive only together with what an answer in flight says of
its task (`AnswersInv`), for the page takes the names it uses next out of answers; with it goes
`DoneIsTrue`: whoever is told "done" was told by an answer about a task that has ended well, and
a task that has ended stays as it is. Relative to these two: `ListenersInv` (a request has
its listener exactly while it is between open and close, and one that opened too late needs a
session), `AuditInv`, `ErrorsInv` (as long as there was no fault, nothing was lost and every error
on its way has a cause at the server, or is of the page's own making) and `PanelInv` (unless two
operations were followed at once, the one that is followed is the one the panel shows, with its
outcome or the words of a cancel, and what is cancelled was clicked). The theorems are `TypeCorrect`, `DoneIsSo`,
`ListenersEnd`, `AuditIsTrue`, `ErrorsTrue`, `PanelTells` and `CancelsItsOwn`.

**TerminalOrderProofs.** What holds in whichever order requests are handled and answered.
`ScreenInv`: what was on the screen when a poll was sent is still there, and older than what its
answer carries (`ScreenKeepsOrder`; `OnceInv` is what makes the buffer newer than the screen).
`KeysInv`: the keys at a shell, of the coroutines that nobody waits for, and of the requests to be
handled are all different, and were typed (`KeysAreTypedOnce`). `ShellsAreHeld` rests on `HeldInv`,
which says what each request in flight knows of its shell: an open that failed may only have
opened one that is `unheard`; after a close was handled, or a poll told that its shell was
closed, that shell is dead or a coroutine is still to close it. What is left of the cases is what
`unheard` and `displaced` record.

**TerminalChannelProofs.** `OutputIsAChannel`: `Terminal` implements `OutputChannel`. A reader
produces a piece, for which older ones may give way; an answer that arrives is shown, or lost where
there is no renderer; an answer that is lost, and a poll that runs for nobody, lose what they
carry; all other steps are none of the channel's. That a shown batch stops waiting is `OnceInv`
(it is nowhere else), that it is in order is `BatchInv` (an answer is a buffer, and a buffer is in
order). Run `terminal_one` checks it with `ChannelSpec` as a property.

Every safety invariant, action property and refinement that a passing run checks is a theorem.
Only model-checked: liveness (`TeardownCompletes`, `EveryJobEnds`, `OutputIsShown`), which rests
on fairness and is beyond the prover; and that the code violates what section 4 quotes.

## 6. Plan

Modelled and proved about: `SSHSessions`, `InstallJobs`, `Terminal`, `Workspace`,
`ProxmoxTask`, `Connection`. What is left:

1. An abstract registry that `SSHSessions` implements: a session is made, handed out, torn down.
2. The permission rules (`permissions.py`) beyond what `ProxmoxTask` uses of them.

## 7. Not modelled

Redaction, identifier checks, manifests, detection output, Docker, ZeroTier and
diagnostics adapters, and the views are formatting or single calls without state.
The rows of environments, settings and preferences are single writes. `bootstrap` and
the dashboard read what the other components keep; of two answers the page shows the
last that comes. `open_web_forward` (`proxmox_service.py:694`) pops, closes, opens and stores a
forward as `workspace_open` does, without an instance behind it. The text of the shell
scripts is the subject of `workspace_shell_fix.py`, which only changes their quotes. The desktop shell's start-up depends on the event order of an
external toolkit. Scripts, packaging, the archived payloads of the workspace server
and vendored code are not part of the application's logic. The per-component
reasons are in `PROJECT.json`.
