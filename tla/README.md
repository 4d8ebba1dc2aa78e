# A TLA+ verification of tmux-mcp

tmux-mcp lets a language model use the panes of a person's tmux session. A
front end (`mcp.rs`, one process per client) speaks MCP; a daemon (one per tmux
session) holds a control-mode connection to tmux, tracks every pane from what
tmux reports, judges command lines by a policy, and answers requests: read a
command's output, run a command, press keys, ask the person to approve a
command. This directory models the parts of it that are hard to test, checks
them with TLC on small instances and proves the central results with TLAPS for
every instance. Paths are relative to the repository (`src/` there is
`src/src/` in `PROJECT.json`).

## Inventory

| Component | State it keeps | Operations | Correct when |
|---|---|---|---|
| OSC 133 tracker (`pane/osc133.rs`, `pane/state.rs`, `pane/processor.rs`) | phase, pending text, capture buffer, history with outputs, OSC 7 report | `handle_a` .. `handle_e`, `append_output`, `update_cwd_from_osc7` | whatever markers come, the history is addressable, one command runs at most, finished commands do not change, outputs are what the stream holds |
| Pane snapshots (`pane/registry.rs`, `pane/snapshot.rs`) | facts and the last published snapshot with its version, under one lock | `apply_output`, `sending_command`, `set_integration`, `set_mode`, `set_pid`, `place`, `publish` | one version names one snapshot |
| Write handlers (`daemon/rpc.rs`) | per request: the pane handle, the snapshot decided from, the approval taken | `command_run`, `inject_osc133`, `press_key`/`send_keys`, `request_approval` | a line reaches the pane only as it was judged; every call ends |
| Approvals (`policy/approval.rs`) | the pending approval of an origin and its time | `store`, `verify`, `consume`, expiry | an approval covers its command in its context, once |
| Event loop and registry (`daemon/mod.rs`, `pane/registry.rs`) | the tracked panes and windows | bootstrap, `%output`, `%pane-mode-changed`, `%layout-change`, `%window-close` | the panes tracked are those tmux shows, and their output is sent |
| Control-mode connection (`tmux/connection.rs`, `tmux/reader.rs`, `tmux/notification.rs`) | replies awaited, a block being read, a bounded notification channel | `connect`, `execute`, `send_command`, `send_keys`, `reader_loop` | a reply answers its own command, a line is entered whole, nobody waits for ever |
| Daemon lifecycle (`daemon/server.rs`, `client.rs`, `main.rs`) | socket, lock file, client count | spawn, lock, serve, retire, idle exit | one daemon per session, and a client finds it |
| RPC transport (`client.rs`, `daemon/server.rs`) | ids given out, senders of pending requests | request, reply, disconnect | every call is answered or fails |
| Read handlers (`daemon/rpc.rs`) | none of their own | `wait_and_read`, `apply_read_params`, history, capture | a read waits as long as it is asked to and shows its window |
| MCP front end (`mcp.rs`) | the offsets a session keeps of each pane's commands | `for_read`, `record` | consecutive reads give each part of an output once |
| Policy rules (`policy/mod.rs`, `policy/rules/`, `policy/value.rs`, `policy/structural.rs`) | compiled rules | judge a command: three-valued keys, exemptions, the strictest decision | what is not known never loosens a decision; neither does order or a rule more |
| Line parser and walker (`policy/parse/`) | the context a command of the line runs in | walk lists, pipes, compounds, words | a path it resolves is the path the command touches |
| Command grammars (`policy/grammar/`) | the declared grammars | parse the words of a program | operands, directory and inner commands are those of the program |
| Policy configuration (`policy/config/`) | compiled policy, stamps of its files | `check_reload`, `load_sources`, `compiled` | a decision is taken by the files as they are |
| Byte-level parsing (`parse/`, `pane/osc.rs`), process facts (`proc.rs`) | none | | |

How they interact: the event loop and the handlers are tasks of a
multi-threaded runtime. They share the registry (a read-write lock), each
`TrackedPane` (a mutex), the tmux connection (a mutex, held from the version
check of a write through its last byte) and the approval store. A handler takes
a snapshot, decides from it without any lock, and comes back to write: the
version in the snapshot is what ties the two moments together. The reader task
stands between tmux and everyone: replies go to a queue of waiting senders,
notifications to the event loop's channel. The front end's requests overlap on
one socket, and an id is all that says which reply is whose.

The hard behaviour is in the gaps: a pane that changes, disappears or is
tracked anew between a decision and its write; two calls that decided at the
same moment; a marker that arrives as the wait for it is given up; a
notification dropped, or told before the window it moved from was; a reply in
pieces between notifications; a connection that closes as a request is written;
two reads that answer in the other order; a file edited while the policy is
compiled from it; a `cd` of the line that may have failed. `PROJECT.json` lists
each hazard at its line under "hazards".

## Modules

| Module | Models | Uses |
|---|---|---|
| `Osc133` | the tracker, every handler an action, every stream of markers allowed | |
| `Markers` | what the tracker promises: phase, newest id and status, input start, place | |
| `PaneWrites` | event loop, one pane through its incarnations, write handlers, approvals | `Markers` |
| `Registry` | layouts against several panes and windows, the bootstrap, the commands sent to tmux | |
| `ControlMode` | `connect`, `execute` and its callers, the reader, the event loop that asks tmux in turn | |
| `Transport` | `request` and `route_replies` against `answer` and `write_replies` | |
| `Reads` | the two reading tools, their offsets, `wait_and_read`, the windows of a read | `Transport` |
| `DaemonLifecycle` | the daemons of a session and the clients that look for one | |
| `TriValues` | values that may be unknown, and the CEL operators on them | |
| `PolicyRules` | identities of paths, the match of each key, exemptions, the decision | `TriValues` |
| `Walker` | the walk over a line, the grammars' part in it, and what a shell really runs | `PolicyRules` |
| `PolicyDecisions` | the decision of a line, and what the policy promises of it, for any commands | `PolicyRules` |
| `PolicyLines` | a line judged from what was reported, then run | `Walker`, `PolicyDecisions` |
| `PolicyReload` | the engine's stamps and compiled policy against edits of the files | |
| `MC*` | values for the constants; `MCOsc133` also keeps the stream that was read | |
| `NatRecursion` | induction and recursion up to a bound, for the proofs about `Reads` and the policy | |
| `*Proofs` | proofs | |

### Osc133

One variable per field of `TerminalState` and `Osc133Parser`. Printed text is
abstracted to numbers: the n-th piece of text is n, so that two buffers share
text exactly when they share a number. `handle_c` takes the command's text from
E, from `cmdline_url` or from the screen, in that order. `push_command` is
`push_command_start` together with what its caller does to the new record and
the eviction past `MAX_COMMAND_HISTORY`. `ForgetReport` is
`PaneProcessor`'s own work on a C marker. `Osc133Parser::reset` is called by
tests only and is left out.

### PaneWrites

`panes[i]` is the `TrackedPane` of incarnation `i`: its facts (`term`, in the
terms of `Markers`; `mode`, `phase`, `integration`, `input`, `pid`) and the
snapshot published of them (`snap`, with `version`). `Published` is `publish`:
a snapshot equal to the last one keeps its version. Text typed at the prompt is
abstracted to whether there is any, and the commands of a snapshot to the
newest one's id and status; a change of the text behind them raises versions
in the code that it does not raise here, which only refuses more writes.

The code never awaits while it holds a pane's lock, so each critical section is
one action: `Output` is `apply_output` on a chunk with up to four markers (a
whole prompt cycle, D, OSC 7, A, B). `ModeChanges`, `ModeAnswered` and `SetMode`
are three: the event loop awaits tmux between the first two and the pane's lock
between the others. The connection's lock is held
across awaits: `Acquire`, `Check` and `Written` are the three steps of
`send_command`.

`call[h]` is where a handler is (`pc`) and what it holds between awaits: the
handle it read, the snapshot it decided from, the pane it looked up for the
write, the approval it took. `Begin` is everything up to the first await;
`Policy` is `check_policy`; `Lookup` is `pane_to_write`, which looks the pane up
by id once more; `Consume` removes the approval after the write; `MarkerCame`,
`Timeout`, `GiveUp` and `Reread` are `at_prompt`, `started_command` and
`probe_osc133`; `Settled` is the second `press_key` waits for the screen to
change. Calls of kind "keys" are `press_key`, with the version a model
was shown as their snapshot.

`grants`, `expired` and `sent` are history: `sent` holds each write that passed
the version check with the snapshot that check met. The policy is a parameter
(`Verdict`). The foreground program changes freely: nothing reports it.

### Registry

`home` is the session as tmux has it, `tracked` the registry's idea of it. Each
change of the session tells the layouts of the windows it touched, in order,
through the bounded channel; what finds it full is dropped. A layout is the set
of panes at its leaves (`parse_layout`), a closed window one with none.
`Handle` is `%layout-change` or `%window-close` with everything the event loop
does for it: `apply_layout`, then `execute_actions` with `enable_pane_output`,
`disable_pane_output` and `query_pane_pid`. It holds the registry and the
connection from the first to the last, so it is one step; `Succeeds` is whether
the commands to tmux do, by the session as it is then. `moved` and `lost`
remember whether a pane changed windows or a notification was dropped.

### ControlMode

tmux answers a command with a block of lines and does not say which command it
answers. A command is a number, the data of a block is the set of commands its
output belongs to, and a reply is right when it is `{cmd}`. `Registers`,
`ReadLine` and `ReaderEnds` are `reader_loop` with its biased select;
`Register`, `Write` and the await of `execute` are three steps, as tmux and the
reader run between them. `left` counts the tmux commands a call has still to
issue under one hold of the connection's mutex: `Continues` is `send_command`
and `send_keys`, which stop at the first that fails, and the event loop's own
calls, which log it and go on. `Drained` is `connect`'s sleep before its first
command; with `AttachInTime` the reply to the attach has come and gone by then.
tmux may notify within a block, and go at any step.

### Transport and Reads

`Request` is `request` up to its insert into the pending map, `Write` its write,
which starts a task in the daemon or meets a closed connection: then it fails,
or is taken and lost. `RouteEnds` is the end of `route_replies`, which drops
every sender. `DaemonEnds` takes the tasks and any part of the replies with it.

`Reads` gives the tasks their work. An output is the sequence of its lines, each
whether the search matches it; the last may be open (no newline yet), and may
still change. `Look` and `Judge` are the two looks of `wait_and_read`, the
snapshot and then the output, since chunks arrive in between; `Wake`, `Settles`
and `Deadline` are its select. `ApplyReadParams` translates `apply_read_params`
with `merge_context_ranges` and `collect_context_lines`; the separators between
groups of lines are left out. Its loops are recursive functions (`Matching`,
`ContextRanges`, `ContextLines`), which the proofs can unfold. `ForRead`,
`Record` (`With` is the insert, `Evicted` the bound) are the session's
`Offsets`. `seen`, `high` and `overlapped` are history. A `command_run` reads
the command it started: nothing of it was read when the call began, which is
the guard of `Begin`.

There is one incarnation of the pane. A pane tracked anew counts its commands
from one again while a session's offsets, kept by pane id and command id
(`mcp.rs:45`), stay: the first read of such a command may start in the middle
of it. No module models that.

### DaemonLifecycle

`daemon[d]` is how far `serve` has come in daemon `d`: one action per call on
the file system, since another process may act between any two of them. A lock
file is named after the daemon that made it; `lockPath` and `sockPath` are what
the two paths lead to, and a file removed by path stays with those who opened
it. "refused" is a daemon whose `serve` returned an error, at its start or from
an `accept` that failed: `run` logs it and goes on with its event loop, holding
neither lock nor listener (`client.rs` says it exits), while the connections it
had accepted are still answered. `client[c]` is where a client is in `connect`; `peer[c]` is the
daemon at the other end of its connection, which is also the process `retire`
kills. A request that fails counts as version 0, older than any. Left out: the
log file, pids that are used again, and the exact times; a wait may end as soon
as its condition holds or, where it does not, by its deadline.

### TriValues, PolicyRules, PolicyDecisions, Walker and PolicyLines

A value is text, a list, a Boolean, null or unknown, and a list may be known in
part (`value.rs`). `PolicyRules` judges a command by a rule's keys, on the
command and on each path it touches: a rule matches surely, perhaps or not, a
restrictive rule counts when it perhaps matches and an allowing one only when
it surely does. `PerPath`, `Meet`, `SureOn` and the passes of the exemptions
follow `rules/mod.rs`; `Decide` is the strictest of what is left.

`PolicyDecisions` has `evaluate` and `evaluate_all` over the commands a line
shows, and the properties: of any rules and any commands, so that the proofs
need not know how the walker came by them. Its `TypeOK` says what they may count
on (a command shows words and lists of words, a rule's keys test what there is),
and `policy_lines` checks that the walker keeps to it. `Shows` is that nothing
known of a command as judged differs from the command as run.

`Walk` is the walker over a syntax tree: and-or lists, pipes, subshells,
braces, `if`, `case`, tests (`[[ ]]`, `(( ))`), loops, functions, command
substitutions, and the inner commands
of `sudo`, `env` and `ssh`, with the context (directory, host, user, home,
whether the shell is its own) each command gets. What a shell really does with
the same tree is `Real*`, external, with every `cd`, condition and expansion
decided both ways; a command that runs has the place in the line (piped, after
what, before what) that the walker gives it. `PolicyLines` puts the two together: a line is judged from
what OSC 7 last reported, and then run.

Left out: `sure()`, `+` on lists, `drop`, regular expressions, quoting,
here-documents and option syntax; the words of a line are such as the grammars
declare. Inner commands of `ssh` have no word that is expanded there. `Once`
only binds a value, so that TLC works it out once.

### PolicyReload

A file's text is a number, zero while there is no file. A stamp is a number
too, for the path the file resolves to and its modification time; an edit gives
the file a stamp of its own or leaves the one it has, as a second write in one
tick or a kept modification time does. `Compile` and `StampNew` are
`PolicyEngine::new`, which compiles first and stamps afterwards. Every access
of `check_reload` and `compile_config` to a file or a lock of the engine is a
step, decisions overlap, and a person edits at any of them.

`FreshPolicy` says that a decision that would reload nothing has the policy of
its own sources. It is a weak form of what the code's comments promise: it is
asked of edits made while no decision is under way, each with a stamp of its
own (`calm`), and still the code does not keep it.

## What is checked

Runs that pass:

| Run | Shows |
|---|---|
| `tracker` | over every stream of six markers, texts and OSC 7 reports: `HistoryAddressable`, `RunningIsNewest`, `OutputsMatchStream` (the output of a command recorded at its C, or at a D right after a B, is the text up to the next A, B or D, or since that B, computed from the stream), `LocationIsFresh`, `FinishedIsFrozen` (a step never changes a finished command) and `ImplementsMarkers` |
| `command_runs` | two calls, each `command_run`, `inject_osc133` or `request_approval`, with two places to report: `VersionNamesSnapshot`, `RunsReachAnEmptyPrompt`, `RunsWhereItWasJudged`, `OneLineAtAKnownPhase` |
| `calls_end` | a `command_run` or a `press_key` on a pane that prints, is dropped and is tracked anew: `CallsEnd`, the call comes to its end, whether it is refused, waits in vain or its command starts |
| `registry` | panes opened, closed, moved and swapped between two windows, told late or not at all: `WindowsUpToDate`, `NoGhosts`, `TrackedIsHeard` |
| `control_mode` | two handlers and the event loop on one connection: `RepliesMatch`, `LinesEnteredWhole`, and `CallsReturn`, although the channel of notifications is full and tmux may go |
| `reads` | two overlapping calls while commands print, end and are evicted and the daemon may end: `NoLostCall`, `NothingSkipped` (a line before a session's offset was shown or searched whole), `PlaceKept`, `CompletedIsWhole`, `EndsWakeReads`, `ShowsItsContext` (against a definition by sets of matches) |
| `daemons` | `OneServesUntilOneLeaves` and `RetiresOnlyOlder`, with clients of two builds, three daemons and a crash at any step |
| `policy_lines` | lines judged and run: `JudgesWhatRuns` (every command that runs was judged with nothing known of it that is not so, on lines the walk follows), `JudgedAsRun` (no command that ran deserved a stricter decision), `TypeOK` (on which the theorems about the other five rest), `OrderDecidesNothing`, `AddingNeverLoosens`, `ExemptionsKeepToTheirPaths`, `ProjectStaysHere` |

Runs that show where the code and its documentation part; each is a finding in
`PROJECT.json` with the quoted line:

| Run | Shows |
|---|---|
| `reused_version` | a pane tracked anew starts at version 0: a decision from the old pane may pass the version check of the new one |
| `two_daemons` | `serve` removes its lock file by path when it leaves: one daemon locks the old file, the next a new one, and both serve |
| `unfollowed_lines` | `JudgesEveryLine`: the walk does not read `!`, so the `rm` of `! cd /p && rm x` is judged in `/p` and runs only where the `cd` failed |
| `reload` | `FreshPolicy`: a decision for a pane with no known directory finds the home file changed, compiles a policy without a project and leaves the project's stamp; the project's own decisions then find nothing changed and are taken without its rules. The decisions need not overlap for it |

Further configurations stand beside the runs. TLC finds a counterexample in
each; they record behaviour a reader should know of:

| Configuration | Property | Shows |
|---|---|---|
| `MCOsc133_OneOutput` | `TextInOneOutput` | a stray D after a command's own D records that command's text a second time |
| `MCPaneWrites_Modes` | `LinesAvoidModes` | `inject_osc133` sends its second line without a mode check |
| `MCPaneWrites_Consumed` | `OneRunPerApproval` | between the write and `consume` an approval covers a second run |
| `MCPaneWrites_Foreground` | `ApprovalBindsForeground` | an approval outlives a change of the foreground program, which the README says it does not |
| `MCRegistry_Moved` | `AllTracked` | a pane moved to a window told of first is placed there, then dropped with the window it left, and not tracked until the next layout |
| `MCPolicyLines_Nowhere` | `JudgedAsRunAnywhere` | on a host that is not known an absolute name is its last component, so a deny of the project's `./run` does not meet `/p/run`; `ai/decisions.md` ("Command identity is the spelling") accepts it |
| `MCPolicyLines_Unwalked` | `JudgesEveryLine` | a command substituted inside `[[ ]]` runs and was judged by nothing |
| `MCPolicyReload_Overlap` | `FreshPolicy` | with every directory known, two decisions that recompile at once leave the policy of the one and the stamps of the other |
| `MCPolicyReload_AnyMoment` | `FreshAlways` | `PolicyEngine::new` stamps after it compiled: an edit between the two is met by no decision |

Met while modelling:

- where the phase is Unknown already a command line publishes nothing, so two
  probes decided at one version are both sent (`OneLineAtAKnownPhase` therefore
  speaks of known phases); and `set_integration(false)` may land after the
  marker it waited for, which leaves a marked phase with integration false
  until the next marker;
- a function whose body changes directory is not followed where it is called
  after an absolute `cd`, like `!`; both lines are those of `unfollowed_lines`,
  TLC stops at the first. `policy_lines` has `!` where no `cd` is under it and
  a call where the directory is not known, and `JudgesWhatRuns` is of lines in
  which `!` stands before no `cd`, no called function moves its caller, and no
  test holds a substitution;
- `JudgedAsRun` is of rules in which no exempted rule exempts another: an allow
  that exempts an ask that exempts a deny turns Ask into Deny as more gets
  known. It is of a default other than deny: an ask that only may match is
  decided Ask, and the same command known not to match gets the default. And it
  is of commands judged by the place they run in (`Placed`), which is where
  `MCPolicyLines_Nowhere` starts from.

Not findings, as `ai/state.md` accepts them: what happens between the write and
the moment tmux runs it, the late echo of keys, and a prompt redrawn while a
probe waits.

### Bounds

- `tracker`: `MaxHistory` 2 makes eviction happen with a third command; a stream
  of six is long enough for a command, a stray marker and a second command.
- `command_runs`: `MaxVersion` stops the pane's events once its version is
  there, not what handlers do to it. A pane gets two versions as it is tracked
  (its pid, its mode), a third with a prompt, and 4 leaves one change more
  between a call's decision and its write; two handlers are what each property
  speaks of. `MaxId` 1 lets one command start, which is what `started_command`
  waits for. `ls` is allowed everywhere and `rm` asks, so that neither handlers
  nor places differ but by name (`Symmetry`). The pane's pid is told by tmux
  and there is one incarnation; the theorems cover the rest.
- `calls_end`: one call against the event loop. A call that probes takes the
  lock of the connection twice and the event loop takes it in between, so a
  lock that is kept is met. The versions of all incarnations add up to `MaxVersion`
  5: enough for a prompt, a line, its C and a pane tracked anew. The pane is
  first tracked out of any mode (`ShellSpec`), so that the bound is not spent
  on leaving one.
- `registry`: two windows and three panes give a move into a window that has a
  pane of its own and a swap; a channel of three holds a move and a change
  before it, and overflows at the next. Ids are not used again, as in tmux.
- `control_mode`: a line of two pieces shows whether one can come between them,
  a channel of one is full at the first notification, and two notifications
  fill it while the event loop waits for a reply.
- `reads`: two calls overlap; a history of one evicts with the second command,
  and three lines hold a match with context on both sides and an open line.
  `MaxRequests` 2 is one call after the other or both at once.
- `daemons`: three daemons are one that leaves or dies and two that follow it,
  which is what a second lock file takes; the three rounds of a client are the
  code's own.
- `policy_lines`: a line for each form the walker distinguishes and their
  mixtures, by 14 sets of rules with every kind of key, from two directories on
  two hosts, with what is expanded one of two paths. Loops run two rounds at
  most. A pane is followed for one line; the next starts like the first.
- `reload`: one project, two decisions at once, two edits, of panes in the
  project, in none, and in no known directory. With one decision at a time,
  known directories and four edits at rest TLC finds no violation.

Deadlock is not checked: panes fall silent, calls end, files are not edited and
clients disconnect, and a bounded model stops there. That no caller is stuck is
what `CallsEnd`, `CallsReturn` and `NoLostCall` say.

### Fairness

`PaneWrites`: `ShellSpec` asks that a call that has begun and can go on
does so (`GoesOn`), and that the event loop finishes what it has begun (`ModeAnswered`, `SetMode`). It is
strong fairness because a step that needs the connection is disabled whenever
someone else holds it; tokio's mutex is fair, it is handed on in the order of
the requests. Deadlines pass. Nothing is asked of tmux, the shell or the
person.

`ControlMode`: `FairSpec` has weak fairness of the reader, of the event loop
and of tmux's answers, which is what `execute` relies on, having no deadline of
its own; and strong fairness of each task's `Execute`, for the same mutex.

### Mutants

Each property is broken by a plausible slip in the code it is about (operators
marked "Mutant" in the modules): a change that keeps its version, a version not
compared, an eviction that forgets the output, a lock let go between two
commands, a reader that waits for room, a request after the connection closed,
an open line consumed, a directory kept after a `cd` that may have failed.

## What is proved

`Osc133Proofs`: `TypeCorrect`, `HistoryIsAddressable`,
`TheRunningCommandIsTheNewest` and `FinishedCommandsAreFrozen`, for every
history bound and every stream. The inductive invariant is `TypeOK`,
`HistoryAddressable`, `RunningIsNewest` and `CaptureIsOutput` together: that the
"active command" of a handler is the running one needs that all older records
are finished, and that a push keeps every output needs that ids have no gap.

There too, `TrackerImplementsMarkers`. Each handler is the marker's step in
`Markers`, or shows nothing; the invariant above is what makes A find its
running command and B leave no newest command unfinished.

And, of the tracker with the stream it read (`MCSpec`, for any `MaxLog`),
`OutputsAreTheStreams` and `TheReportIsFresh`. `StreamInv` says where in the
stream each record was made and what its text is by then: of a command that is
over, the text up to the first A, B or D (`Settled`, which no later item
changes); of the running one, the text up to the end of the stream (`GoesOn`);
of one that only a D shows, the text since a B right before it. For the last,
the capture has to be the text since a B whenever the stream stands after one
with no other marker (`AtInput`), which is why the invariant speaks of the
capture although the property does not. Text is counted (`PrintedIn`), so a
piece more of it is one more number in the output and in the stream.

`PaneWritesProofs`: `WritesTypeCorrect`, `VersionsNameSnapshots`,
`CommandsReachAnEmptyPrompt`, `CommandsRunWhereJudged` and `OneLineAtAVersion`,
for any number of handlers, commands, contexts, versions and incarnations and
any policy. The properties are about writes, the checks were made by calls long
before, so the inductive invariant `IInv` says what a call has made sure of at
each place (`CallOK`), what is known of each write (`WriteOK`) and that panes
only ever become a `Later` of themselves: versions do not go back, one version
is one snapshot, and integration is not unlearned. The last is needed for the
probe: a run that waited in vain goes on only to a known phase because
integration is known by then. `Check` is where it comes together: the version
is the call's, so the snapshot is, so what the call checked holds of the pane.

`RegistryProofs`: `RegistryTypeCorrect`, `RegistryUpToDate`, `RegistryNoGhosts`
and `RegistryHeard`, for any panes, windows and capacity. The invariant says
that the last layout on its way for a window is the window as it is
(`LastIsTrue`), and that a pane tracked under a window with none on its way is
in it (`ShowsTracked`); while no pane moved, a pane is told of and tracked under
its one window (`OneHome`), and a window with nothing on its way has all its
panes tracked (`AllShown`). `NoGhosts` is `ShowsTracked` with nothing on its
way; `WindowsUpToDate` needs the other two as well. `TrackedIsHeard` needs only
that a tracked pane is heard while it is alive (`Heard`), which every layout
keeps, losses and moves or not.

`ControlModeProofs`: `ControlTypeCorrect`, `RepliesAreMatched` and
`LinesAreWhole`, for any number of request tasks, pieces and notifications,
assuming `AttachInTime`; without it the attach reply shifts every later one.
The mutex leaves one task anywhere in `execute` (`Alone`), so at most one
answer is outstanding: between two commands nothing of an answer is in stdin,
in the block or on stdout (`Quiet`), and while a task waits all there is
belongs to its command (`Awaited`). A reply is then `{cmd}` although neither
tmux nor the reader names a command. `InOrder` counts how much of a line the
pane has: its last pieces are the holder's, in order, from `Register` to the
reply. tmux gone with a command on its way is the one case in which something
is left over, and then nothing more is entered or answered.

`ReadsProofs`: `CallsAreNotLost`, for any number of calls and requests and
whatever the tasks of the daemon do. Every step of `Reads` is one of the
transport's (`TransportNext`), so the argument is about ids alone: they are
below `nextId` (`IdsOK`), belong to one call and answer nothing before they are
written (`IdsOnce`), and a sender is there until the end of the connection is
read (`Routed`).

On top of it `TypesHold`, `NothingIsSkipped`, `CompletedRepliesAreWhole` and
`ReadsWakeAtTheEnd`, from `RInv`, for any asks and any number of commands,
lines, calls and requests. An offset travels: from the session into a request,
into a task, into a reply, and back. At each of these places `RInv` says that
what is before the line was seen or is in that very reply (`Covered`), while
the output grows and its last line may still change (`Grows`: what could be
consumed stays as it is). A task that was not woken since its look holds what
is still so (`TaskOK`), which is why one that waits saw its command run, and
one that found it done looked at the whole output. What a read returns is a
matter of `apply_read_params` alone: `PlainRead` and `SearchRead` consume only
whole lines, and each line they consume was shown or is no match (`GoodRead`).
For a search that needs the ranges of context, merged, to cover each selected
match up to the line consumed.

`ContextIsShown` says that they cover nothing else. The loops of
`merge_context_ranges` and `collect_context_lines` are recursive functions, and
what they return is shown along the recursion with `NatRecursion`: after k
matches the ranges are in order, apart, and together just the lines around those
k (`ContextRangesHold`); the lines listed from them are strictly ascending and
just those in the ranges (`ContextLinesList`). So a read with `search` shows
each line within the context of a selected match once, in order, and no other.

And `PlaceIsKept`, from `PInv`: as long as the session's calls did not overlap,
one is out at most (`OneCall`), it is answered once (`AnsweredOnce`), and its
request, task or reply starts where the session was in whichever command it
will read (`AskPlace`, `TaskPlace`, `ReplyPlace`). The offset is found again
since a session keeps as many as the pane keeps commands.

`PolicyProofs`: `OrderDecidesNothingHolds`,
`AddingNeverLoosensHolds`, `ExemptionsKeepToTheirPathsHolds`,
`ProjectStaysHereHolds` and `JudgedAsRunHolds`, for any rules, any commands and
any project. They are about states, not behaviours: each says that the property
holds wherever `TypeOK` does (two of them need no more of it than that the rules
are a sequence), and `TypeOK` is what `policy_lines` checks of the walker, as `PolicyLines` itself reaches
recursive operators.

- Order, and one rule more. An exemption is worked out in two passes, each a
  fold over the sequence of rules; `NatRecursion` shows that a pass yields, for
  each rule, the union of what every rule exempts it from, which a permutation
  only renames and a rule that exempts nothing leaves as it is. What is matched
  is then a set of actions that stays the same or grows, and the decision is
  its strictest.
- Paths. A rule of a path key holds surely on a path or not; what exempts it
  takes away only paths its own keys surely hold on. One path left is enough
  for the rule to match, and then the decision is no looser than its action.
- `JudgedAsRunHolds`. When more gets known, a value that was known stays
  (`Turns`), a list keeps the elements it was sure of, and a truth that was
  True or False stays so (`Firm`). Each operator of `TriValues`, each key of a
  rule, the identity of the command and its paths are shown to keep this, with
  one exception: an allow rule without a user key is for the shell's own user,
  which a user not known to be that may turn out to be, so that of an allow
  rule alone False may become True. A rule of another kind then only passes
  from perhaps to surely or surely not, exemptions only grow (`ExemptionsTurn`),
  every ask and deny that matches what runs matched what was judged, and an
  allow that counted still counts (`DecideTurns`). `JudgesWhatRuns` is not a
  hypothesis: the theorem is of each pair of a command judged and a command run
  that it shows and places right (`Shows`, `Placed`); that there is such a pair
  for every command that runs, the place aside, is what `JudgesWhatRuns` checks.

`NatRecursion`: the library's induction theorems take a predicate, which the
provers cannot instantiate; `UpTo` and `Recursion` say the same of a set and of
a function, from the fact that the finite subsets of a set are well-founded
under inclusion (1..n stands for n).

`DaemonLifecycleProofs`: `LifecycleTypeCorrect`, `OneDaemonServes` and
`NewerIsNotRetired`, for any number of daemons, clients and builds. While no
daemon leaves by itself one lock file was ever made (`OneLock`): everyone has
the same file open, one holds its lock, and only the holder touches the socket.
The step into leaving is the only one that breaks it, which is why the theorem
is about behaviours without it; `two_daemons` shows what happens after.
`NewerIsNotRetired` needs `Judged`: between the answer and the kill a daemon may
stop serving but never starts again, and keeps its build.

Assumptions are those of the modules' ASSUMEs: `MaxHistory` is positive, the
null values differ from the real ones, the policy and its default answer Allow,
Ask or Deny,
builds, capacities and bounds are positive numbers, the event loop is no
request task.

Only model-checked: liveness (`CallsEnd`, `CallsReturn`), which the provers do
not reach; and `JudgesWhatRuns` with the `TypeOK` of `policy_lines`, as the walk over
a line's syntax tree and the shell that runs it are recursive operators, which
the provers do not take.

## Not modelled, and the plan

Left out for good: formatting, tool schemas, screen rendering, the byte-level
parsers (`parse/`, `pane/osc.rs`), the option syntaxes of the grammar parsers,
the parser of the rules' format and the third-party shell parser below
`policy/parse`; `proc.rs` only reads facts for display.

Left of the plan, in this order:

1. A second incarnation of the pane in `Reads`, for the offsets that outlive it.
2. `PaneShell`: `PaneWrites` composed with a shell, for the commands that
   `started_command` may mistake for its own.
3. Inner commands of `ssh` with words expanded there, in `Walker`.
4. What does hold of the reload, as a theorem of decisions that do not overlap,
   in known directories, with edits made at rest.
