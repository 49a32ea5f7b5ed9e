# ope-term in TLA+

ope-term is a desktop terminal (Tauri: a Rust core and a TypeScript web view)
that opens SSH sessions over a visible chain of hops, local shells and SFTP
transfers. This directory models the parts of it that decide something while
several actors race: sessions, prompts, tabs, reconnects, transfers. The modules
are checked with TLC on small instances; every safety property that a run checks
is also proved with TLAPS for every value of the constants.
Paths below are relative to the repository root (`src-tauri/src/*.rs`,
`src/*.ts`).

## Inventory of the system

| Component | State it keeps | Operations | Hard behaviour | What makes it correct |
|---|---|---|---|---|
| SSH session task (`ssh.rs`, `transport.rs`) | position in `run`, hop, accepted keys, three bounded channels, `DisconnectLog` | connect a hop, verify its key, authenticate, open a tunnel, open the shell, shell loop, end | prompts answered late, twice or for another session; timers; cascading link failures; close from anywhere | a hop is trusted by the file or by the operator; a loss names the hop that failed; every end has the reason the UI's policy expects; a close ends the task, unless the other side leaves it waiting |
| Registry and commands (`lib.rs`) | `AppState.terminals` (at most 64), search permits | connect, close, input, answers, exit sweep | `Closed` is sent before removal; close before registration | a finished session is always removed; an answer only reaches a live session |
| Host key store (`host_keys.rs`) | `~/.ssh/known_hosts` | check, save under `SAVE_LOCK` | two sessions save different keys | one key per host and algorithm |
| Secure prompts (`prompt-queue.ts`, `main.ts`) | two queues, one dialog | enqueue, show next, answer, discard | the result of an answer overtakes or is overtaken by events | one dialog, none forgotten, none for a dead connection, warnings read |
| Terminal tab (`main.ts`, `reconnect.ts`, `terminal-input.ts`) | connection id, state, retry count and timer, input buffer and chain | connect, retry, event, type, close | close overtakes connect; input typed before a drop; timer against operator | no orphan session, no input in another shell, bounded retries |
| SFTP backend (`sftp.rs`, `ssh.rs`) | active transfers, cached channel, `.part` and backup files | list, transfer, cancel, replace | a failure between two renames; stale channel; duplicate targets | the target is always the old or the new file; a failed transfer leaves nothing behind |
| SFTP queue (`sftp-ui.ts`, `transfer-queue.ts`) | queue items, one processing | enqueue, process, progress, cancel, retry | progress and result arrive in either order, retry in between | one transfer at a time, each settles with its own result |
| Local terminal (`local_terminal.rs`) | PTY, reader and writer threads, child | start, input, resize, close, reap, exit sweep | full writer queue, shell that ignores SIGHUP, sweep against late registration | a close is served, the child is reaped before the session leaves, the sweep ends |
| Session log (`session_log.rs`) | queue of 64, writer thread, file generations, search cursor | append, rotate, search by pages | a crash between two renames, a file that grows or moves under a search | the newest files are kept in order and bounded, one stamp a line, every line found once |
| Soak driver (`reliability.rs`) | attempt, heartbeat accounting, report | connect loop, heartbeat, settle | late answers, full command channel, deadline against end | every heartbeat is counted once, the soak ends |
| SSH configuration (`ssh_config.rs`) | list of blocks (pure after reading) | read with Include, resolve, expand ProxyJump | nested files, criteria on values set before, cycles and diamonds | the first value wins, a chain holds each host behind its jumps |
| Local file scopes (`local_files.rs`) | up to 64 tokens | register, resolve, list | eviction while in use | a path never leaves its scope |
| Panes and workspaces (`pane-layout.ts`, `workspaces.ts`) | split tree, tab list | split, close, move, snapshot, restore | degenerate trees | each tab in exactly one pane |
| Route map, keybindings, palette, rendering, storage, scripts | display state or none | | sequential | not modelled (see the end) |

How they interact: the UI calls Tauri commands by `invoke`, each an
asynchronous request with one result; the backend answers with events on a
channel that the connect call carried. The command reaches the session's task
through a bounded channel. Nothing orders the result of an invoke against the
events, nor the events of two sessions. The full list of what is hard to test,
with line numbers, is `hazards` in PROJECT.json.

## Modules

| Module | What it is |
|---|---|
| `SessionLifecycle` | abstract: what a session promises the UI (registered, may reach a shell, ends once with a fitting outcome, announces it, leaves) |
| `SshSession` | the session tasks, the registry, the close and known_hosts |
| `MCSshSession` | routes, capacities and the reduced specification for its runs |
| `SshProofs` | theorems about `SshSession`, its refinement of `SessionLifecycle`, and `SshConfig` |
| `SecurePrompts`, `MCSecurePrompts` | the dialogs of the UI |
| `SecurePromptsProofs` | theorems about `SecurePrompts` |
| `TerminalTab` | a tab above an INSTANCE of `SessionLifecycle` |
| `TransferQueue` | the transfer list of the UI above the transfers of the sessions |
| `TransferQueueProofs` | theorems about `TransferQueue` |
| `SftpTransfer` | upload and download, one file-system call at a time |
| `SftpTransferProofs` | theorems about `SftpTransfer` |
| `TerminalTabProofs` | theorems about `TerminalTab` |
| `LocalTerminal` | local shells, their processes, the registry and the exit sweep |
| `LocalTerminalProofs` | theorems about `LocalTerminal` |
| `SessionLog` | the log's writer thread, its rotation call by call, the paged search |
| `SessionLogProofs` | theorems about `SessionLog` |
| `SoakDriver` | the soak's loop above an INSTANCE of `SessionLifecycle` |
| `SoakDriverProofs` | theorems about `SoakDriver` |
| `SshConfig`, `MCSshConfig` | reading, resolving and expanding the SSH configuration; its lines for TLC |

The composition is by refinement: `SshSession` implements `SessionLifecycle`
(checked and proved), and both its users, `TerminalTab` and `SoakDriver`, are
built on `SessionLifecycle`'s actions, so what holds of tabs and soaks holds
above the real task.

### SshSession

`pc[s]` is the await at which the task of session `s` stands:

| pc | code |
|---|---|
| `prepare` | config, route expansion, session log (`ssh.rs` 492-540) |
| `connect` | `client::connect` / `connect_stream` up to the server key |
| `check`, `ask`, `save` | `check_server_key`: `host_keys::check`, `wait_for_answer`, `host_keys::save` |
| `auth`, `askAuth` | `authenticate`, `ask_for_auth` |
| `tunnel` | `channel_open_direct_tcpip` |
| `open` | `channel_open_session`, then the PTY and shell requests |
| `loop`, `writing` | `session_loop` polling; awaiting `data_bytes` inside its select arm |
| `lost` | `disconnects.wait` after the shell channel ended |
| `finish`, `closed`, `gone` | `run` has returned; `Closed` sent; removed from the registry |

`queue` holds the three bounded channels (commands, host keys, auth), `closing`
the sends a `TerminalControl::close` still awaits, `asked`/`authAsked` every
prompt ever issued (the index is the request id, as the counter in the code),
`approved` the prompts the operator answered with trust. `link`, `why`,
`record` and `root` are the connections of the route, each with a task of its
own in russh: a link that fails by itself is in `root`, one whose tunnel was
dropped is not. The comment at `ssh.rs` 275-277 gives the order the model
assumes: a handler reports its disconnect before the tunnel above it drops.

Abstracted: which authentication methods are tried and in which order
(`AskAuth` may prompt up to `MaxAuthPrompts` times, `AuthRefused`,
`AuthSucceeds` at any time); Resize and SFTP commands in the loop, which take
time but change no state of the module; output data; malformed auth responses.
The prompt's own 300 s timer cannot fire inside the 30 s set-up timer, so the
model has only the latter. The exit sweep is in `LocalTerminal`.

Which waits have a timer decides what becomes of a close. `connect` to `save` are
under the 30 s of `CONNECTION_SETUP_TIMEOUT` (`ssh.rs` 574-607), `tunnel` has the
same limit (626), `askAuth` its five minutes. `auth` (611), `open` (656) and
`writing` (714) have none and take neither answers nor commands meanwhile: they
are `AwaitsPeer`.

### SecurePrompts

One action per JavaScript task. `screen` is the pair of `PromptQueue`s,
`events[c]` the event channel of a connection, `calls` the answers under way
(sent, then resolved, then handled by the `finally` of `answerHostKey` or by
`submitAuthPrompt`). `awaited[c]` is the prompt the connection's task waits
for; an answer to another prompt is ignored by the task (proved of
`SshSession`). Escape is not disabled while an answer is under way, so the same
prompt may be answered twice (`Invoke` has no guard but `MaxCalls`). The filter
of `discardPending` is `Without`, which gives each prompt that stays its `Place`
among those that stay.

### TerminalTab

`connects`, `closes` and `sending` are invokes under way; `events[c]` the event
channel; `ui` the fields of `SessionUi`; `buffer` and `chain` the typed input
(one piece stands for one chunk of `chunkTerminalInput`). `autos`, `hadShell`,
`typed`, `received` and `pieces`, the count of all that was typed, are history. An SSH tab is modelled; a local tab differs in that it
never retries by itself.

### TransferQueue

`items` is every item that was ever queued, `queue` the numbers of those in the
panel, `processing` what `sftp-ui.ts` looks at before it runs another one, and
`drawn` the item and the connection that each transfer id was drawn for. `calls` are the `sftp_transfer` invokes (sent, registered with the
session, settled), `on` the connection each went to, `progress` the events of a
transfer that the UI has not handled, `completed` what the backend did. An item
keeps the connection it was queued on; the terminal reconnects at any time
(`Connect`, `Disconnect`). The result of an invoke and the last progress events
arrive in either order, and the operator may cancel, retry or remove between
them. The question whether to overwrite is the operator's choice to let an item
start; the two directory listings that follow a transfer are the await in
`Listed`.

### SftpTransfer

`pc[t]` is the next file-system or SFTP call of transfer `t`, `target`, `part`
and `backup` what is under the names it uses. Each call works or fails; a call to
the server may also take effect and lose its answer (`Effect`). The cancel flag
is looked at only by the copy loop. One module has both directions, because
their calls have the same order: `upload` tells a rename that refuses an existing
name (the server's) from one that replaces it (the local one), and the hard link
that a download uses for a new file. Downloads also set the mode of the `.part`
(`set_permissions`); its failure is a failure of `Copy`, with the same cleanup.
Two transfers of a session have the same target if their paths are spelt alike
(`register_transfer` compares strings); the model has one spelling. There is no
crash action: a property of every state, or of every step, also speaks of the
state in which the program dies.

### LocalTerminal

`task[s]` is where `run` stands (`starting`, `spawned`, `select`, `sending` a
piece of input to the writer thread inside the select arm, `hangup` and
`killing` of `terminate_shell`, `reaping` where a thread could not be started and
the child is waited for) and, after it, `ended` and `gone` of the command in
`lib.rs`. `commands` is the bounded channel, `queued` the writer thread's,
`writer` that thread, `shell` and `job` the two processes, `sweep` and `toAsk`
the close of every terminal when the program exits. A shell has a nature that it
keeps: it reads no input (`deaf`), it or only its job ignores a hang-up
(`defiant`, `badjob`), or no signal ends it while the model looks (`wedged`).
The exit task is `Reap`. The registry is shared: connects and the sweep
interleave with every step of `run`.

Abstracted: output, the reader thread and its flow control, the size of a
window, the look-up of profile and environment. The five seconds of
`SHELL_REAP_LIMIT` are longer than any process that can die takes to, so
`ReapLimit` is for wedged shells only (the wait of `reaping` has no limit, and a
wedged shell holds it); the two seconds before it may pass at any
time. Windows has another `terminate_shell`, which is not modelled.

### SessionLog

`writer[w]` is the next call of the rotation or `ready`, `names` the directory
(generation 0 is the active name), `files` every file ever created, by order of
creation, so a file that is renamed or unlinked while it is open stays itself.
A chunk of output is one unit that ends a line or does not; `Limit` counts
chunks. The chunk the thread has taken stays first in `queue` until it is
written, and `Room` leaves it out. `view` is a search whose every line matches:
its name, its cursor and what its pages have given. Several terminals may have
one name (`Writers`); `session_log` has one at a time, restarted after a close,
a failing call or a crash.

### SoakDriver

`phase`, `ready`, `closing` and `waiting` are the loop of `run_connection` and
the send it awaits; `inflight`, `unanswered` and `acknowledged` the heartbeats,
named by their numbers; `report` the counters of `SoakReport`. The session is
`SessionLifecycle`'s, with what the driver can tell of it besides: whether it
has taken its Close (`told`) and whether it waits for the peer's window
(`stalled`). `Beat(old)` lets any prefix of the heartbeats in flight time out.
`Join` is the end of the connection and the decision of `run_soak` in one step:
nothing comes between them. Events still in the channel are lost then, as in the
code.

### SshConfig

`active` is the stack of files being read, `blocks` the list they all append to,
`opened` and `directives` what the limits of the reader count. `calls` is the
recursion of `expand_chain`: the host of each call, its jumps and the next of
them; the first is the route itself. A directive is chosen when its line is
read, so TLC meets every file of up to `MaxDirectives` lines, once. Patterns are
names or `*`.

What the results are compared with does not go through blocks or calls. `given`
(history) is what each host has got from the lines read so far, one by one, with
the lines of an included file standing for its Include or, for the finding, read
as OpenSSH nests them. `IsChainOf` reads a chain from its end: a list that ends
with a host gives way to the rest of the list and that host's jumps
(`InFront`), until nothing is left. `Beyond` is what is reached from a host, as
that which is in every set closed under jumps.

## Runs

| Run | Instance | Shows |
|---|---|---|
| `ssh_route` | 1 session, bastion and target, 1 key, channels of 1, 1 auth prompt, storage faults | `TypeOK`, `EveryHopTrusted`, `LossNamesTheRootHop`, `CloseEndsSession`, `KeepsLifecycle` |
| `ssh_shared` | 3 sessions (symmetric), 2 slots, 1 host with 2 keys; host keys only | `OneKeyPerHost` |
| `secure_prompts` | 2 tabs (symmetric), 2 connections, 3 prompts, 2 answers under way | `TypeOK`, `OneDialogAndNoneForgotten`, `ActionablePromptsAreCurrent`, `WarningsAreSeen` |
| `terminal_tab` | 3 connections, 2 pieces of input in all, 1 retry | `TypeOK`, `InputReachesItsShell`, `NoOrphanSession`, `RetriesAreBounded`, `RetryOnlyAfterAShell` |
| `transfer_queue` | 2 items, 2 transfers, 2 connections, 2 queued, 1 finished item kept | `TypeOK`, `OneTransferAtATime`, `NoneWaitsInVain`, `StartsWhereQueued`, `StatusIsTrue`, `QueueDrains` |
| `sftp_transfer` | 2 transfers, 1 or 2 sessions, either direction, 2 failing calls, another program | `TypeOK`, `TargetIsWhole`, `LeavesNothingBehind`, `OldFileIsKept`, `UnconfirmedReplacesNothing` |
| `local_terminal` | 1 session, 7 natures of a shell, channels of 1, 4 requests | `TypeOK`, `NoShellOutlivesItsSession`, `CloseIsServed`, `SweepEnds` |
| `session_log` | 1 terminal, 2 starts, 2 generations, 2 chunks a file, 7 chunks, 4 files, 1 fault, 2 pages of 2 | `TypeOK`, `NewestFilesAreKept`, `LinesStampedOnce`, `FilesAreBounded`, `SearchReadsEveryLineOnce` |
| `soak_driver` | 3 connections, 3 heartbeats, 1 retry, channel of 1 | `TypeOK`, `HeartbeatsAddUp`, `SoakEnds` |
| `ssh_config` | 3 hosts, 3 files, 13 directives of which up to 4 are read, depth 2, 4 hops | `FirstValueWins`, `ChainFollowsTheJumps` |
| `prompt_misfinish` | as `secure_prompts`, 2 prompts | violated: the result of an old answer finishes the next prompt |
| `local_job` | 1 session, 3 natures | violated: a job that ignores the hang-up survives a shell that heeds it |

Further configurations show the other findings; each is violated by the code as
modelled, like the two runs above:

| Configuration | Module | Violated |
|---|---|---|
| `MCSshStorage.cfg` | `MCSshSession` | `RefusalHasNoCause`: a known_hosts file error carries the cause of a broken path |
| `MCSshPromptTimer.cfg` | `MCSshSession` | `HostKeyPromptOutlivesSetup`: the 30 s timer beats the five minutes of the prompt |
| `MCSshStalled.cfg` | `MCSshSession` | `CloseAlwaysEnds` under `AnsweringServer`: a peer that stops reading keeps a close in the queue |
| `MCSshUnanswered.cfg` | `MCSshSession` | `CloseAlwaysEnds` under `ReadingPeer`: a server that leaves an authentication or channel request unanswered does, too |
| `MCTransferRetry.cfg` | `TransferQueue` | `RetriesAreHonoured`: the operator's retry is undone by the old attempt's result |
| `MCSftpPart.cfg` | `SftpTransfer` | `FailureRemovesPart`: a failed download leaves its `.part` |
| `MCSessionLogShared.cfg` | `SessionLog` | `NewestFilesAreKept`: two terminals that log to one file |

`OwnCursorIsAccepted` of `SessionLog`, `BudgetWasSpent`,
`ReconnectsFollowShells` and `DroppedByALoss` of `SoakDriver` and
`IncludeIsNested` of `SshConfig` are violated when added to the configuration of
their module's run.

Why the bounds are enough. Two hops are the least that has a tunnel, a cascade
and a hop that is not the last. Capacity 1 makes every channel full with one
message, which is where close can block; a larger one only delays it. Three
sessions with two slots let one wait for the registry while two race for the
file; two keys are the least that can disagree. Three prompts let one be on
screen, one queued and one arrive; two answers under way are a double key
press. Three connections of a tab are a shell, its drop, the one retry that is
allowed and one more start; two pieces of input are the least that has an order.
Two items are one that runs and one that waits, two connections a reconnect in
between. Two transfers are the least that compete for a target, and two failing
calls reach every error path of a replacement: the second is the restore that
fails as well. One local session is enough for its `run`, because sessions share
only the registry and the sweep; the theorems cover any number, and four requests
are one written, one in each channel and one the task holds. Two generations are
the least with a shift, four files the least with which a rotation removes one,
and a page of two lines ends within a file that goes on. Three connections are a loss, its
retry and a manual one after it; three heartbeats let one be late, one in flight
and one waiting for room. Three hosts make a diamond and cycles of one, two and
three; four directives are a condition, a value, an Include and what follows it. Deadlock is not checked
(`CHECK_DEADLOCK FALSE`): every instance stops when its bounded sessions are
over.

`ssh_shared` uses `VerifySpec`, the behaviours of the specification with no
close, no failing link and no typed input. It restricts the environment only:
every action of the file and the verifier is there, and the theorems cover the
rest.

## Fairness

In `SshSession`, weak fairness of the task's timers (`TimerFires`) and of the steps
in which it waits for nobody (`OwnStep`): tokio polls every ready task. Strong
fairness of each send of a close: a bounded channel serves waiting senders in
turn, so a send whose channel has room again and again succeeds. Nothing is
assumed of the operator, of the network or of the servers: that a server presents
its key, answers an authentication request or opens a channel, that its shell
exits, and that the peer's window opens are steps without fairness, and so is an
answer of an ssh-agent, for which `auth` may wait as well. The handshake needs
none, because its timer runs until it is over. Of russh it is assumed that a
channel open and a write fail once the connection's own task has ended
(`OpenFails`, `ChannelLost`), and that the disconnects at the end of `run` find
room in that task's queue.

`CloseEndsSession` therefore has an exception, `[]AwaitsPeer`: the task stands
for ever in one wait without a timer. It is not enough that it does so for a
while, and every other place has to let a close through: prompts, full channels,
tunnels and lost links included. `CloseAlwaysEnds` is the same without the
exception. It needs both further assumptions: `ReadingPeer` (the window opens
again after every write) and `AnsweringServer` (every request is answered); with
one of them alone it fails, as the two configurations above show. With both it
holds on the instance of `MCSshStalled.cfg`.

In `LocalTerminal` the task, the writer thread, the exit task and the sweep run,
and a process that has been told to die dies unless it is wedged; that a shell
reads its input or exits by itself is not assumed. `CloseIsServed` excepts
(`Stuck`) a loop held by the input of a deaf shell, and a set-up that has failed
and waits for a wedged one (`local_terminal.rs:169` and `200`). In `SoakDriver`
both tasks are polled, the deadline comes, and a session that took its Close ends;
that a window opens, a shell answers or a server completes the set-up is not
assumed. A session in its set-up takes no command, so the Close that the driver
sends at its deadline, or when a shell is not ready within 90 s, does not end it:
`SoakEnds` excepts a window shut for ever and a set-up that lasts for ever
(`[]stalled`, `[]InSetup`). In
`TransferQueue` invokes arrive and
resolve, JavaScript tasks run, and a registered transfer ends, by itself or with
its session; nothing is assumed of the operator. The other modules state safety
only.

## Proofs

`SshProofs` proves of `SshSession`, from `SessionAssumption` alone:

- `Inductive`: `Spec => []IInv`, where `IInv` is `TypeOK` and, for each session,
  `Progress` (where the task is determines its hop and how many keys it has
  accepted), `OwnPrompt` (a waiting verifier holds the id of a prompt of its own
  session, hop and key, and saves only if that prompt was approved),
  `GenuineAnswers` (a trust answer in the queue carries the id of a prompt of
  that session which the operator approved) and `TrustedHop`.
  `EveryHopTrusted` is not inductive alone: an answer is in the queue long
  before it is taken, so what it says has to be carried along.
- `TypeCorrect`, `HopsAreTrusted`: from `IInv`.
- `KnownHostsUnambiguous`: if known_hosts starts unambiguous it stays so, from
  the check that `save` repeats under its lock.
- `LossIsTheRootHops`: with `LinkInv` (a recorded hop is dead and of the least
  hops it failed with, a hop that lost its tunnel is above a dead one), every
  loss names a hop of `root`.

- `ImplementsLifecycle`: the initial state maps to the initial state of
  `SessionLifecycle`, and every step to a step or a stutter (`StepMaps`);
  `RootHasCause` says a link that ended has a cause, which rules out a loss
  without one.

and of `SshConfig`, from `ConfigAssumption` alone, for any files, lines, hosts
and limits:

- `FirstValuesWin`, with `ReadingInv`: its types, `ReadingBounded`, and `AsRead`,
  which says in every state of reading what `FirstValueWins` says at the end, and
  that the lines to come are for a host exactly when the last block selects it.
  An option goes to the last block and not to a host, so the step to prove is
  that a block with one option more gives a host one value more
  (`OneMoreOption`), whichever options it has by then.
- `ChainsFollowTheJumps`, with `ChainInv`. While a route is expanded, `ChainSoFar`
  says of the calls and the output: a call is for the jump its caller took last
  (`Stacked`), to a host beyond the caller's (`Nested`); each host of the output is
  behind its jumps (`Ordered`); the jumps that a call has done are out
  (`DoneAreOut`); and, with the lists that are done below each call laid end to
  end, the output is the chain of that list (`Accounts`). The refusal as too long
  needs the other half of `Accounts`: a list that is expanded to its end passes
  the jumps of every call on its way. `NoCycle` turns `Ordered` into the absence
  of a cycle: of a cycle's hosts, none can be the first in the output.
- `RoutesFit`: what `expand_chain` returns is a route of one host to `MaxRoute`,
  which is what `SshSession` assumes of its own.
- `ReadingIsBounded`, `EveryStepCounts` and `WorkIsBounded`: reading and expansion
  keep their limits and end. `Work` adds up lines, files opened and closed, calls
  and returns; every step adds to it, and it is at most `MaxWork`, whatever files
  include each other and hosts jump through each other.

`SftpTransferProofs` proves, from `TransferAssumption` alone:

- `Inductive`: `Spec => []IInv`. `IInv` is `TypeOK`, `TargetIsWhole`,
  `BackupsAreWhole` (a backup holds a whole file, and none exists before the
  transfer sets the target aside), `Confirmed` (who goes on although it saw a
  target was allowed to overwrite it) and `Alone` (downloads of one session to
  one target run one at a time, and what one set aside does not come back
  meanwhile).
- `NeverAPart`: what takes the target's name is a `.part` whose copy is complete
  or a backup, and a backup was a target.
- `NoSilentReplace`: files are put in place by `PlaceNew`, which needs a free
  name, or by `Replace`, which only a confirmed transfer reaches.
- `OldFileSurvives`: only `Replace` and `DropBackup` take the old file's last
  name away, and by then a confirmed transfer is installed. `Restore` could lose
  it in a download by renaming over it; `Alone` excludes that for one session.
- `LittleIsLeft` (`LeavesNothingBehind`): `Tidy` accounts for files while a
  transfer is under way: without a failing call there is no `.part` before its
  creation and after its removal, and a download that goes back to its backup
  has met one failing call already, so a restore that fails is the second.

`TerminalTabProofs` proves, from `TabAssumption` alone:

- `Inductive`: `Spec => []IInv`, with `SessionTypes` and `TabTypes`, `InOrder`
  (a session is absent until its connect has arrived, and `closed` is the last
  event it sends), `LossAfterShell` (whoever ends as a lost shell has said
  `ready` before, and the tab hears that first), `Counted` (an automatic attempt
  is counted before it is made, and the count is positive only after a shell)
  and `NoOrphanSession`.
- `BoundedRetries`: `autos` counts what really happened and `attempt` what the
  code believes; `Counted` relates the two across resets.
- `RetriesFollowAShell`: `attempt > 0`, which the code takes for
  "reconnecting", implies a shell only because of `LossAfterShell`.
- `NoOrphans`: the connect's result, the events and the close of the tab in any
  order; `InOrder` rules out a session that lives before its connect arrived.
- `InputInductive`: `Spec => []InputInv`. `InputReachesItsShell` speaks of what
  waits in the UI, so `InputInv` says of that line: what is buffered belongs to
  the current connection (`BufferIsCurrent`), nothing waits for one that is not
  ready (`NothingTypedYet`), and the pieces for the current shell are exactly
  those typed and not received, in order (`LineIsComplete`). `HeadIsNext` is
  what the arrival of a piece needs: the one on its way was sent for the current
  connection, but the tab may have turned to another one since.
- `InputCorrect`, and `TypeCorrect` for all of `TypeOK`, from the two invariants.

`LocalTerminalProofs` proves, from `LocalAssumption` alone:

- `Inductive`: `Spec => []IInv`, with `TypeOK`, `RegistryIsTasks` (the registry
  holds exactly the sessions whose task is neither to come nor over),
  `ShellsHaveTasks` (a shell whose loop runs has its threads, so somebody waits
  for it) and `EndsWithoutShell`.
- `NoShellLeftBehind`: `NoShellOutlivesItsSession` speaks of tasks that are
  gone; `EndsWithoutShell` says the same from the moment `run` returns.
- `EmptiedMeansNoTask`: what the exit sweep concludes from an empty registry.

`SecurePromptsProofs` proves, from `PromptAssumption` alone:

- `IInv` has a part for each group of variables: `TabInv` (a tab's connection was
  started for it), `BackendInv` (an event carries a prompt of its connection),
  `ScreenInv` (types of the two queues, `Calm`: one dialog, none forgotten),
  `CallInv`, and `ActionablePromptsAreCurrent`. The last is inductive only with
  `BackendInv`: an event that arrives late must be known to be of the connection
  whose channel it came on.
- `TypeCorrect`, `OneDialog`, `DialogsAreCurrent`: from `IInv`.
- `NoWarningGoesUnseen` (an action property): but for the dialog itself, only a
  discard takes prompts from the queues, and the one that does not spare warnings
  closes the tab.
- Nearly all of the work is in the queue: that `Without` keeps the other prompts,
  each once and in order (`PlaceFacts` and what follows). `LeastElement` takes
  the step by induction, as a minimal element of finite sets.

`TransferQueueProofs` proves, from `QueueAssumption` alone:

- `Inductive`: `Spec => []IInv`. Its parts take the items, the queue, the ids drawn
  and the calls as parameters, because `processQueue` is entered in the middle
  of a step, with the list as that step leaves it: `IdsMatch` (an item and its
  transfer know each other), `CallsAreRight` and `EventsAreRight` (result and
  last event of a transfer say the same of it), `OnlyFailuresAreRetried` (a
  transfer whose item has moved on to another did not complete) and
  `ItemsAreRight`. `PanelIsRight` says that the panel runs the one transfer that
  is under way.
- `OneAtATime`, `NeverElsewhere`, `NoneForgotten`, `StatusCorrect`, `TypeCorrect`:
  from `IInv`. `StatusIsTrue` needs the most: a result settles whichever item
  has the id, so a completed transfer must not belong to an item that was queued
  again, which is what `OnlyFailuresAreRetried` excludes.

`SessionLogProofs` proves, from `LogAssumption`, for any number of writers of one
name:

- `TypeCorrect`; and `SearchCorrect`, with `SearchInv`: the cursor stands behind
  the last result, and the file the search began with only grows, so what was
  due at the beginning is still there to be found.

and, for `OneWriter` (one terminal at a time logs to a file, with any number of
starts after one another; with two, `MCSessionLogShared.cfg` shows the
property violated, finding 10):

- `StampsCorrect`, `BoundCorrect`, with `Attached`: from its start until it moves
  the active file away, the writer has the named file open, and its `size` and
  `fresh` are those of that file.
- `NewestCorrect`, with `NameInv`: the names are in order, without a file between
  two of them that has none, and as many as the faults leave. A shift makes a
  hole and moves it upwards, so `HolesAreFaults` tells the hole of the rotation
  under way from those that cut-short ones have left, one for each fault; that
  is why a rotation loses a second file only after a second fault.

`SoakDriverProofs` proves, from `SoakAssumption` alone:

- `TypeCorrect` and `CountsCorrect` (`HeartbeatsAddUp`), with `SoakInv`: types,
  `Pipeline` (acknowledged heartbeats, those in the event channel, in the shell,
  in the command channel and the one that waits for room stand in the order of
  their numbers), `Accounts` and `Closed` (a connection that is over has none
  open). That no answer is taken for a replayed one is a matter of the order: an
  answer that arrives is behind every one acknowledged before it.

The proofs use no induction over sequences. Where a filter or a count needs one,
it is taken over finite sets (`LeastElement`), for which the library's ordering
theorems have no operator as a parameter; where a chain needs one, over the least
number for which the fact would fail (`LeastNumber`). The functions that resolve
a host and expand a list are recursive functions of a number, given by their next
step (`FiniteRun`, `EndlessRun`).

Only model-checked: the liveness properties (`CloseEndsSession`, `QueueDrains`,
`CloseIsServed`, `SweepEnds`, `SoakEnds`), because what they rest on is fairness,
and with it ENABLED, of which the provers have no theory. The properties
that the findings show violated have no theorem, of course.

## Findings

1. `ssh.rs:574`: the set-up timer of 30 s includes the operator's host-key
   prompt; `docs/RELIABILITY.md:9` promises five minutes apart from it.
2. `ssh.rs:714`: a close waits while input is being written to a peer that does
   not read; `docs/TRANSPORTS.md:17,23` promises the contrary.
3. `ssh.rs:259`: an I/O error of known_hosts becomes the cause of a broken path,
   which the comment at `ssh.rs:175` excludes.
4. `main.ts:1378,1468`: the result of an answer finishes whichever prompt is
   active.
5. `sftp-ui.ts:462`: the result of a failed attempt settles an item that the
   operator has queued again meanwhile; `docs/SFTP.md:16` offers the retry.
6. `sftp.rs:419`: a download whose remote file cannot be opened, and a lookup of
   a backup name that fails (`sftp.rs:514,559`), leave the `.part` behind;
   `docs/SFTP.md:38` says it is removed.

7. `local_terminal.rs:274`: the group is killed only when the shell itself did
   not exit in time; `docs/LOCAL_TERMINAL.md:81` and the comment at
   `local_terminal.rs:255` speak of the job as well.
8. `local_terminal.rs:224`: the loop awaits room for input before it looks at the
   next command; `docs/LOCAL_TERMINAL.md:82` says no close waits for ever. The
   error paths at `169` and `200`, which wait for the child without a limit, hold
   a close in the same way.
9. `local_terminal.rs:150`: two errors after the spawn leave the shell to itself;
   the comment at `lib.rs:124` says that an emptied registry leaves no child.
10. `session_log.rs:275`: two sessions with one log file rotate it against each
    other; `docs/SESSION_LOGS.md:32`.
11. `session_log.rs:380`: a page may return a cursor that the next one refuses,
    against the comment at `session_log.rs:397`.
12. `reliability.rs:375`, `515` and `580`: three counters of the report say less
    than their comments (`reliability.rs:214`, `212`, `195`).
13. `ssh_config.rs:280`: lines after an Include go to the last block of the
    included file, and an Include under a Host applies to every host;
    `docs/ROADMAP.md:11` lists OpenSSH's Include as done.
14. `ssh.rs:611`, `656`: authentication and the opening of the shell channel wait
    for the server without a timer, and no close is taken meanwhile;
    `docs/TRANSPORTS.md:17,23` promises the contrary. The Close of the soak
    driver (`reliability.rs:551`) is such a one.

Not a finding, because no text promises the contrary: two sessions that download
to one local file are not compared with each other, and if another program
writes to that name as well, each can restore its backup over the other's
(`OldFileIsKept` needs `NoRace`).

## Plan

Done: every module above with its runs, and theorems for all safety properties
of the runs. Next, in this order:

1. Refinement, as theorems: `SftpTransfer` as the transfer that `TransferQueue`
   assumes; the tab above `SshSession` itself. `LocalTerminal` is not a
   `SessionLifecycle` as that stands: a local session may end as failed after its
   shell was reached (`local_terminal.rs:224`, a write to the terminal that
   fails), which an SSH session never does.
2. `PaneLayout`: the split tree, its removal and its restore, against the list
   of its tabs.

## Not modelled

- Local file scopes (`local_files.rs`): a list of at most 64 tokens under one
  lock, the oldest dropped for the newest (`local_files.rs:56`); a scope that is
  dropped while a browser shows it answers with an error. Each operation is one
  step, and what a path may reach is decided by the file system.
- An `sftp_cancel` that arrives before its transfer has resolved its local path
  (`lib.rs:383`) is not found and has no effect; `TransferQueue` has the UI's
  side of it only.
- Panes and workspaces: pure tree operations with unit tests, next in the plan.
- Route map, keybindings, fuzzy matching, rendering, storage wrappers and secrets
  in the DOM are sequential code without protocol; scripts and packaging are
  outside the program; glib is vendored.
- Text: tokens, quoting and globs of the SSH configuration, the bytes of
  known_hosts, the three matchers of the log search, escape sequences.
- Windows: the other `terminate_shell`.
