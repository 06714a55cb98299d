# A verification project for RemCmd

RemCmd is a desktop SSH client: terminals, remote files and file transfers over
one SSH connection per session. This directory holds TLA+ models of it, the TLC
configurations that check them and TLAPS proofs about them. Paths below are
relative to the repository, `app/` stands for `crates/remcmd-app/src/app/` and
`ssh/` for `crates/remcmd-ssh/src/`.

    tlc -workers 2 -config MCTransferQueue.cfg MCTransferQueue    # one run
    tlapm TransferSystemProofs.tla                                # one module of proofs

## 1. The system

Two kinds of threads matter. The *interface thread* runs every handler of the
window to its end before the next one. The *tokio runtime* runs, for each
connection, a connection worker, file workers, transfer tasks and probes. They
share nothing but channels, a cancellation flag per attempt and a rate limiter.
Blocking threads (the keychain, the profiles file, the updater, a local shell)
report back to the interface thread.

| part | state | operations | correct when |
|---|---|---|---|
| transfer queue and scheduler (`app/sftp/state.rs`, `app/sftp/operations.rs`) | per session: tasks with a state and an overwrite flag, `next_id`; shared: the limit, a round-robin cursor | enqueue, take the next, cancel, replace, clear, mark_*, fail_pending | never more running than the limit allows; settled is final; a free slot is filled; nothing is forgotten |
| session and window (`app/workspace.rs`, `app/connection_flow.rs`, `app/terminal_session.rs`) | sessions, panes, tabs; one pending connection, one keychain lookup, one prompt for all sessions | open, prepare, ask, connect, disconnect, close, reconnect, events | a secret goes where it was asked for; events of a removed or reconnected session do no harm; no connection without a pane |
| connection worker (`ssh/connection.rs`) | life-cycle state, chain of transports, open shell, `RemoteFiles` | connect through jumps, host keys, authenticate, relay, resize, disconnect | the window hears of the end; nothing stays open |
| file worker and tasks (`ssh/remote_files.rs`, `ssh/transfer.rs`) | command channel, cancellation map, join set | start, cancel, shut down, join | one result per attempt; cancellation arrives; it ends |
| file installation (`ssh/sftp.rs`, `ssh/scp.rs`) | destination, temporary file | check, copy, install, discard | whole files only; no loss; no leftovers |
| transport, proxies, host keys (`ssh/transport.rs`, `ssh/proxy.rs`, `ssh/plan.rs`, `ssh/host_key.rs`) | russh session, known hosts, plan | open, verify, authenticate, execute | no unknown key is accepted unasked; a proxy's answer is read no further than it goes |
| shell, shell integration (`ssh/shell.rs`, `ssh/shell_integration.rs`, `ssh/cwd.rs`) | filter over the output | input, output, resize | output is neither lost nor doubled |
| remote file browser, editor (`app/sftp/`, `file_editor.rs`) | request ids, lists with trees and selections, open file, dirty and saving marks | list, select, delete, create, open, save, reload | answers of old requests are ignored, as far as their ids tell; no edit is replaced by an answer |
| exit flow (`app/lifecycle.rs`) | exit task | prompt, save all, recheck, leave | no unsaved file or transfer is left unasked |
| storage, credentials, import (`crates/remcmd-storage`, `app/profiles.rs`, `app/openssh_import.rs`) | profiles file, keychain, form, import preview | edit, save, delete, restore, import | the two stores agree after a failure |
| updater (`crates/remcmd-update`, `app/updates.rs`) | status, package file | check, download, cancel, verify, open | only a verified file is opened |
| local terminal (`crates/remcmd-local`) | child, PTY, threads | input, resize, disconnect | the child ends with its window |
| performance monitor (`ssh/performance.rs`, `app/performance.rs`) | the monitored session, a task per connection | start, stop, sample | one server is sampled, the one that is looked at |
| diagnostics (`crates/remcmd-diagnostics`) | events in memory, buffered lines, log files | record, rotate, clear, export | a bundle holds no secret; no log outlives its retention |
| terminal (`crates/remcmd-terminal`, `app/terminal_view.rs`) and text input (`text_field.rs`, `file_editor.rs`) | snapshot, selection, composition, damage; text, cursor, undo | render, select, scroll, resize; edit, compose, undo | a frame shows the screen; offsets stay between characters |
| quick commands, spotlight (`app/quick_commands.rs`, `app/spotlight.rs`) | chosen servers, typed text, chosen row | choose, submit; search, navigate, open | a command reaches each chosen server once; what is opened is the row that is shown as chosen |
| views, menus, settings pages | - | - | see section 7 |

How they interact for a transfer:

    window --enqueue--> queue --scheduler--> ConnectionCommand channel
      ^                                          |  (unbounded)
      | handle_connection_event                  v
    event pump <--- event channel (256) <--- connection worker
                        ^       ^                |  RemoteFiles::dispatch (unbounded)
                        |       |                v
                        |   transfer task <--- file worker
                        +-- result event         |  map: id -> cancellation flag
                                                 v
                             destination and temporary file

and for a connection:

    profile --prepare--> keychain lookup --> prompt --> command approval --> plan
                          (other thread)      (user)        (user)            |
    window <-- events: host key? state, Resized, Closed/Failed <-- connection worker
       |                                                             ^
       +-- commands: Input, Resize, Disconnect; host-key decision ---+

What is hard here: the interface addresses events by session although a session
may have had several connections, each of which counts its requests from 1; one preparation, one lookup and one prompt are
shared by all sessions; the attempt, its report, its clean-up and a retry of the
same id are steps of different tasks; an attempt may be cancelled, aborted,
refused or lost anywhere; every reply of the server may be lost; the profiles
file and the keychain are written by overlapping threads, each with the list it
found when it began; the exit asks while edits and transfers go on. `PROJECT.json`
lists these hazards at their lines.

## 2. Modules

State machines, each with its variables and one action per handler or step:

| module | models | checked by |
|---|---|---|
| `TransferPromise` | nothing of the code: what transfers promise | refined by `TransferQueue` |
| `TransferQueue` | the interface thread: queues, scheduler, and the session life cycle as far as it decides about tasks | `transfer_queue`, `TransferSystemProofs` |
| `FileWorker` | `FileWorkerHandle::spawn`, the tasks it spawns | within `TransferSystem` |
| `TransferSystem` | all of the above with the connection worker and the event pump in between; composes `TransferQueue` (EXTENDS) and `FileWorker` (INSTANCE) | `transfer_system`, `transfer_liveness`, one finding, `TransferSystemProofs` |
| `FileInstall` | one attempt on its two files, for `sftp::upload_file`, `scp::upload_file`, `sftp::download_file` | `file_install`, `FileProofs` |
| `ConnectionWorker` | `run_connection_plan`: chain, host keys, shell, relay, unwinding | within `TerminalSystem` |
| `LocalTerminal` | the three threads of a local shell | within `TerminalSystem` |
| `TerminalSystem` | one terminal of the window with either worker behind it (EXTENDS and INSTANCE), joined by two channels | `terminal_system`, `TerminalSystemProofs` |
| `SessionFlow` | `connection_flow.rs`: from "connect" to a running connection and back, for several sessions and profiles | `session_flow`, one finding, `SessionFlowProofs` |
| `RemoteEditor` | a session's directory and its open file, as operators on one record | within `EditorSystem` |
| `EditorSystem` | the editors, their connections one after another, the workers that read, compare, truncate and write, the files, and the exit | `remote_editor`, one finding, `FileProofs` |
| `OpenSshImport`, `ProfileStore` | the candidates of an import; the list of profiles, the file, the keychain and the threads that write them | `profile_store`, one finding, `ProfileStoreProofs` |
| `Workspace` | sessions, panes, tabs, splits, the quick terminal (`workspace.rs`, `pane_layout.rs`) | `WorkspaceProofs` |
| `Updates` | status, tasks, package file and schedule of the updater | `ServiceProofs` |
| `Diagnostics` | recording threads under two locks, logs, bundles | `ServiceProofs` |
| `PerformanceMonitor` | what is sampled for which session, and late samples | `PerformanceMonitorProofs` |
| `FileBrowser` | the two lists of remote files of a session and the connection that answers them | explored with TLC, section 3 |

Algorithms, as operators without a state of their own, checked on all short
inputs by ASSUMEs that TLC evaluates with a run:

| module | models | checked in | evaluated with |
|---|---|---|---|
| `ProxyTransport` | HTTP CONNECT, SOCKS5, proxy commands, tokens and digests | `MCSessionFlow` | `session_flow` |
| `SshTransport` | the race of addresses, authentication, `execute`, closing a combined chain, `SshSession` | `MCSessionFlow` | `session_flow` |
| `ShellStream` | opening a shell, the start filter, directory reports and their place among the other events | `MCSessionFlow` | `session_flow` |
| `ScpSink` | the messages of an SCP upload, the quoting of its path | `MCTransferSystem` | `transfer_system` |
| `FileTree` | remote paths, plans of directories, recursive removal and creation | `MCTransferSystem` | `transfer_system` |
| `OpenSshConfig` | the reading of `~/.ssh/config`: scopes, patterns, includes, jumps | `MCSessionFlow` | `session_flow` |
| `FileList` | one list of remote files: rows, clicks, requests, removal | `MCEditorSystem` | `remote_editor` |
| `TextEditing` | text fields and the file editor: cursor, selection, input method, undo | `MCEditorSystem` | `remote_editor` |
| `ProfileForm` | the form a profile is edited in | `MCEditorSystem` | `remote_editor` |
| `TerminalView` | frames from damaged rows, selections and their text, layout, wheel, composition, what a terminal tells and asks, the bytes of a key, prompts at the right edge | `MCEditorSystem` | `remote_editor` |
| `Prompts` | the quick command with its servers, the spotlight with its search | `MCEditorSystem` | `remote_editor` |

An operator named after a function, with a comment beginning `Wrong:`, is a
plausible mistake in that function; the properties are known to catch it. The
branches of a CASE in these algorithms are those of a `match` and are read in order.

### Correspondence and abstractions

*TransferQueue.* A task is a pair of session and id; `"Absent"` is the state of an
id without a task, so that clearing and removal are assignments. `SessionState`
is reduced to what handlers ask of it: `can_connect` (Idle), `can_disconnect`
(Connecting or Connected), and Disconnecting; Authenticating is shown as
Connecting. A handler is one action. The exception is
`start_queued_sftp_transfers`, with which most of them end: each turn of its
loop sends a command to another thread, which may act on it before the next
turn, so `scheduling` is TRUE while the loop turns, every turn is an action, and
no other handler is enabled. The send succeeds exactly while the worker's
receiver lives (`Reachable`). In this module alone the workers are arbitrary:
any event about any session that ever had a connection, at any time. Batches,
progress, messages and the tree walk that enqueues many tasks are left out; no
guard depends on them. Connecting is one step here; `SessionFlow` has what happens
in it. `Limits` are the values the settings clamp to, 1 to 8.

*FileWorker.* An attempt is the n-th Transfer command for an id on a connection.
`Checking`, `Copying`, `Installing` are the stretches of `upload_file` and
`download_file` between the places where the flag is read. The report and the
removal from the map are separate steps, because an await lies between them.
Directory and file requests, executed by the worker between two commands, are a
delay, and every step may be delayed. A connection may have both an SFTP and an SCP
worker; the model has one, which behaves like either. It exists before the first
command, while the code creates it at the first one; an idle worker cannot be told from one that is not there.
Progress events are not represented: `mark_progress` changes no state, and the
capacity of the event channel is set so low that it is full anyhow.

*TransferSystem.* The connection worker has the states of `run_connection_plan`
as far as its peers can tell. `Establishing` ignores file commands, as
`wait_for_operation` does; `Running` relays or refuses them. `Closing` is the
time between the two events of `finish_disconnection`; `Returning` is the time
between the last event and the end of the function, when its receivers and its
`RemoteFiles` are dropped. `ShellCloses`, `FailConnection` and `ReportConnected`
are the choices of the server and the network.

*FileInstall.* One attempt is followed through check, copy and installation; the
copy has a beginning and an end, and may be cancelled or fail between them. A
parallel download is such a copy: its segments fail or succeed together, since
`copy_download_parallel` returns the first failure after stopping the others. A
remote call may fail, and one that took effect may be reported as failed. A
timed-out command that the server executes only later is left out. Names are
not modelled: the temporary name contains the process and the transfer and is
not used twice, so a second attempt starts without a temporary file.

*ConnectionWorker, TerminalSystem.* One terminal with one connection. The events that
only tell the stage of a connection, and the switch of the performance monitor, are
left out; waiting for room in the event channel is a guard; a changed host key is a
failure of the step; a command to a worker that has returned fails (`SendFails`).

*LocalTerminal.* The thread of the PTY and the thread that reads it, with the
start, the poll, `try_wait` and the kill as steps of their own.

*SessionFlow.* The window is one record and the functions of the code are operators
on it. Which pane is shown is left open (`Workspace` has it), and so is what the worker
does with a host key (`TerminalSystem`). The keychain is read when its answer is
delivered. An edited profile reaches the window when its save is heard of, and of the
edits only a new, unapproved command text matters here. The last event of a connection is handled before the
same session asks for another one. Authentication by agent or none raises no question;
typed secrets are remembered or not, as the user chose; forgetting a secret and
deleting a profile are in `ProfileStore`. `MaxRequests` bounds preparations and edits.

*RemoteEditor, EditorSystem.* One directory and the file in the editor. A session has up to
`MaxConnections` connections, one after another. `StartConnection` is `start_connection_plan`
(`app/connection_flow.rs:842`): the next connection finds no listing and no open file, whatever was
edited in it, and its request ids begin at 1 again. A connection has its own commands, worker and
events; `Ends` takes it away while its worker goes on with some of what it was given, so that an
answer, or the end itself, may be heard after the next connection was started and is taken by
session and id alone, as in `handle_connection_event`. What lies between "connect" and the start of
the plan is `SessionFlow`'s; here it is one step, and Failed and Disconnected are one state. The
connection may also be told to end with its terminal left standing (`disconnect_session`), where a
worker that takes no command any more makes the session fail at once. The answer to a read or a save sets the
path of the open file as well as its contents. `current` is
history: the file was not changed by anyone else since it was compared; `failed` is history too: the
sessions whose save failed while the exit waited. Files are
opened to be edited; a connected session has a file service; transfers are one boolean, which
outlives a connection as their queue does.
`FailRequested` stands for every failure and timeout of a request, for which
russh-sftp's own timeout sees; nothing happens after the window closed. `MaxTroubles`
counts creations, deletions, transfers begun, losses and outside writes; `MaxRequests` the ids of a connection.

*ProfileStore, OpenSshImport.* The editor's form is any content it would accept
(`ProfileForm` has the form); the secrets to log in are one; the two lookups of a save
are one step, and so is a preview, whose list may be old when it is applied. The order
and repetition of jump hosts, more than one proxy and more than one configuration
file are left out; loading at the start succeeds. `calm` is history: no two writers met
and nothing failed in a path that has no rollback; `StoresAgree` speaks of calm
histories only. The paths without one are a failing `persist_profiles`, a restoration or clean-up that
fails itself, and the lookup of an import (`crates/remcmd-storage/src/openssh.rs:258`). The last should
have one by the repository's own word: `ImportRollsBack` says so and is violated (section 5).
Login secrets of imported profiles are exempt from `StoresAgree`.

*ProfileForm.* Name, target and address stand for the texts of the form; a save
succeeds or fails as a whole; a form is opened only where none is. The native menu and
file dialog are not told apart from the ones in the window; a warning after the
login secrets could not be deleted is left out.

*Workspace.* Which pane or tab comes next is left open where the code chooses by
position. A session is prepared (`pending`, with its prompts), or waits for the approval of its proxy
command (`approval`), or for its rejected secret to be deleted (`rejected`); different sessions may be
in all three at once, and a new approval takes the dialog from an old one. A worker's failure is heard
before its session is connected again. Local and remote sessions are not told apart;
`close_other_tabs` is a sequence of activations and closes; the early returns of
`set_active_pane` follow from `PanesMatchTabs`. Late reports come only for sessions that
had a worker.

*Updates.* Bytes are counted in units; GitHub's answers are free; all network failures
are one; the clock is a flag that a check is due; the buttons of an old frame may still
be pressed, so the guards are the functions' own. A restart and the panel's texts are
left out. Between the verification and the opening someone else may replace the file:
`OpensVerified` speaks of what was read for the verification.

*Diagnostics.* An event is an id and the set of secrets in its text; redaction removes
those registered. A log is a set of lines; torn lines, the filter of the view, the
fields of the manifest and access to the directory by others are left out.

*PerformanceMonitor.* A connection is reduced to what the panel depends on; a sample is
the connection it came through; stopped monitors that have not ended are counted. A
session's last state event is handled before its next connection starts. What the
sampling command prints is left out.

*FileBrowser, FileList.* Trees are at most three deep; the question before a deletion is
answered in the step that asks it; the files of a selected download are `TransferQueue`'s
business; nobody else changes the server's files.

*Algorithms.* `ProxyTransport`: a word of an HTTP answer counts as one byte; a cut answer
stands for every failure to read, failures to write are left out; the digest of a command is the text
that is hashed. `SshTransport`: answers are records, a timeout is the flag `late`; loading a
key and negotiating a hash have no timeout, as in the code. `ShellStream`: the marker is two
bytes and the prefix of a report one. `ScpSink`: the server's messages are one
sequence; `Close` stands also for the end of the channel, silence for the timeout.
`FileTree`: a local path is a list of names, a remote one a sequence of bytes. `OpenSshConfig`:
lines are as parsed, patterns are sets of names. `TextEditing`: the field and the editor
share operators and a flag tells them apart; CRLF as a grapheme, mouse positions and
layout are left out. `TerminalView`: a cell is a kind and a character, pixels
are whole numbers; the engine is external: it damages at least the rows it changes;
columns, colours and styles are left out. What a terminal tells is a record with its kind, and one
clipboard stands for both; a key is a name or the code of a character. `Prompts`: a letter of a
name is a model of a letter, and what separates words is one character; icons, labels and the
height of the panel are left out.

## 3. Properties and runs

| run | module | instance | states | what it shows |
|---|---|---|---|---|
| `transfer_queue` | MCTransferQueue | 2 sessions, 1 transfer each, 1 connection each, limits {1, 2} | 212 000 | type; tasks only in sessions of the window; the limit holds across sessions; settled is settled; slots are refilled but for one case; refinement of `TransferPromise` |
| `transfer_system` | MCTransferSystem | 1 session, 1 transfer, 2 connections, 2 attempts per connection, limit 1, channel of 1 event | 742 000 | every Running task is carried; never two working attempts at one transfer; every overwrite answers a conflict |
| `transfer_liveness` | TransferSystem | as above with 1 connection, limits {1, 2} | 100 000 | the three liveness properties |
| `file_install` | FileInstall | all three methods | 1 082 | six properties of an attempt and its confirmed retry |
| `terminal_system` | TerminalSystem | 1 jump host and the target, 1 key, 2 sizes, channel of 2 events, 3 acts of the user, 1 piece of output | 617 000 | only approved keys are learned; transports close newest first; what was typed arrives in order; both ends settle on one size; the window hears of the end |
| `session_flow` | MCSessionFlow | 2 sessions, 3 profiles (proxy with a password; jump host with an encrypted key; proxy command), 3 requests | 502 000 | a secret goes to the host and method it was asked for; a command runs only as approved; the prompt is that of the pending preparation; only accepted secrets are stored |
| `remote_editor` | MCEditorSystem | 1 session, 2 connections, 2 files, 3 texts, 2 requests a connection, 2 unheard of, 1 trouble; see the bounds | 691 000 | a clean editor holds what the server holds, also when answers of the first connection are heard in the second under its ids; edits survive what happens beside them, but for what the property names; the window closes only knowingly; saves settle |
| `profile_store` | MCProfileStore | 3 profiles, 2 hosts in the configuration, 3 acts, 2 threads, 1 failure | 1 330 000 | file and keychain agree; jump hosts exist; marks have threads |
| `conflict_releases_slot`, `disconnected_may_connect`, `stays_open_if_saving_fails`, `import_rolls_back` | | | | the findings of section 5 |

`CHECK_DEADLOCK FALSE` is set in all of them: with the bounds used up and every
task settled, the system rests; an attempt that is done stops.

**Bounds.** Two sessions are what "across sessions", round robin and the loss of a
session need, and with one transfer each two tasks compete for one slot. Two
connections of one session are what a reconnection needs; then all events of
the first may arrive during the second. An id is attempted at most twice, for the
overwrite flag, once set, excludes a second conflict; `MaxAttempts = 2` therefore
restricts nothing, and `OverwriteAnswersConflict` checks the claim itself. With
a capacity of one, every sender finds the event channel full at some time; the
code's 256 makes that rare, not impossible. The command channels need no bound:
the view of `MCTransferQueue` identifies states that differ in channels and
overwrite flags only, which no guard of the open model and no property of that
run reads, and in `TransferSystem` a session sends each command at most once per
state of its task or connection. The view of `MCTransferSystem` leaves out the
commands left to an ended worker and the flags of attempts past their copy.

A chain of two steps has an inner and an outer transport; three acts are enough to
type around a resize, or to resize twice and type. Two sessions and three requests
are a preparation that replaces another's, and a third that comes too late. In the
editor two unheard requests are a save with a refresh under way; one trouble is one loss,
one outside write or one transfer at any place of that. `MCSpec` follows two kinds of history, since
both at once are too many for TLC: one connection, one file and trouble beside it; and connections one after
another without trouble but that the user ends them. There both files are needed, so that an answer can be about another
file than the one that waits with its id, two requests of each connection, a read and a save, and
no limit on how often they are answered late. The theorems of `FileProofs` are about `Spec`, with
all of it at once. Two threads and three
acts of the profile store are a save, a deletion or an import overtaken by another, and one
act after both; the forms, configurations and initial lists are chosen so that each kind of
secret and each dependency between hosts occurs.

The ASSUMEs of `MCSessionFlow`, `MCTransferSystem` and `MCEditorSystem` are evaluated on: answers of a proxy or a server
and outputs of a shell of up to 4 to 6 items; SCP streams of 3 early and 3 late messages; paths
up to three names deep, local trees of 5 places and remote ones of 4; configuration files of up
to three lines with one included line; a tree of five paths; all texts of up to two of five
characters and chosen longer ones; all sequences of 6 steps of the profile form (8 without typed
secrets); screens of two rows of three cells, rows of up to 7 cells for prompts; all sequences of 5
steps of a terminal (10 and 12 for layouts, 4 for the wheel, 6 for composition), all sequences of
4 events of a terminal; every named key with all that can be held with it, and every visible
character; and 4 steps of each prompt.

Modules without a run of their own were explored with TLC too, each invariant under
the instance given here:

    Workspace            MaxIds = 4                                             865 159 states
    Updates              Current = 1, MaxVersion = 3, MaxDigest = 2,
                         MaxPackage = 2                                       3 078 750
    Diagnostics          Secrets = {s, i}, Identities = {i}, 2 threads,
                         Capacity = 1, FlushInterval = 2, Retention = 1,
                         MaxDay = 2, MaxEvents = 2                            6 050 000
    PerformanceMonitor   2 sessions, MaxConnections = 2, MaxActs = 5,
                         MaxSamples = 2                                       2 533 318
    FileBrowser          Paths = {"/", "d", "f"}, "f" in the directory "d",
                         one kind of click, MaxRequests: Sidebar 3, Center 1  3 169 950

**What each property is about** is said in the comment before it. The ones
to know first: `ActiveNeverGrowsPastLimit` (not an invariant: the limit may be
lowered under running tasks), `SlotsRefilled` (with the exception it names:
`start_queued_sftp_transfers` is not called when a connection ends, so
Queued tasks of other sessions wait on although slots are free),
`RunningIsCarried` (the safety core of progress: for every Running task there is a
command, an attempt, a report or an announced end that will settle it),
`OneWorkingAttempt`, `OverwriteAnswersConflict`, `MissingOnlyInBetween`,
`SecretsGoWhereTheyBelong`, `OnlyAcceptedSecretsSaved`, `CleanMeansSaved`,
`WindowClosesKnowingly` and `StoresAgree`.

## 4. Fairness

`Fairness` in `TransferSystem`: weak fairness of the scheduling loop, of the
connection worker's own turns and of the file worker (tokio polls a ready task,
and each of these stays ready until it is polled; a send into a full channel is
simply not enabled). The event pump has strong fairness: the interface thread
runs a scheduling loop, or another handler, while the pump waits, which
disables the pump again and again; the executor serves woken tasks in turn, so the pump
is not passed over for ever. Nothing is assumed of the user, of
`ReportConnected`, `ShellCloses` and `FailConnection`. The progress of
the transfer tasks depends on the server and is a *hypothesis* (`TasksProgress`) of the
one property that needs it: `RunningSettles`. `LostConnectionFreesSlots` and
`FileWorkersEnd` hold although tasks hang; the two-second timeout of the join is
what gives the second (the mutant without it fails).

`Fairness` in `TerminalSystem`: weak fairness of frames, of the resize timer, of the
pump, and of the worker's own progress (`WorkerProgress`, `LocalProgress`): its ready
turns, not what the user decides or the server sends. That a connected terminal's worker goes on
includes that `send_input` (`ssh/connection.rs:977`) returns: it waits for the window of the SSH
channel, which a server that reads nothing keeps closed. `EndReachesWindow` does not speak of such a server.

`Fairness` in `EditorSystem`, as long as the window is open: weak fairness of each
connection's worker (a request is answered or fails by its timeout), of the handling of its
events and of the end of a connection that was told to end or has no handle any more, and of the exit task. The user need not do anything.

The other modules state safety only.

## 5. Findings

1. `ConflictReleasesSlot`. `mark_conflict` accepts only Running. Cancel a
   transfer at the moment its attempt reports a conflict: the event finds
   Cancelling and is dropped, the cancellation finds no attempt, and the task
   keeps its slot until the connection ends. With a limit of 1, transfers stop.
2. `DisconnectedMayConnect`. A credential prompt that is taken away by anything but its
   own Cancel button (another session shown, another page, another session's host key) leaves
   the preparation pending, and every later attempt of every session to connect is
   refused without a word (`app/connection_flow.rs:64` and `:215`).
3. `StaysOpenIfSavingFails`. Connecting a session again drops the file that is open in it, with an
   edit the loss of the connection had left there (`app/connection_flow.rs:842`); nothing asks. If that
   happens while an exit waits for saves, after one has failed, the exit finds nothing unsaved
   and removes the window, although its prompt said "RemCmd will stay open if saving fails."
   A second session with a slow save leaves up to a minute for it.
   `EditsSurviveTrouble` names the reconnection among what drops an edit.
4. `ImportRollsBack`. A lookup that fails after the first secret of an import was changed returns
   without the rollback that a failing change and a failing write have
   (`crates/remcmd-storage/src/openssh.rs:258`); `openssh.rs:101` and `docs/openssh-import.md:48` promise one transaction.

Three more were found with TLC in the same way. Their formulas stay in the modules, without a run of
their own:

* `CancellationReachesAttempt` (`TransferSystem`, under `FairSystemSpec` with 1 session, transfer and
  connection, limit 1 and a channel of 2 events). An attempt removes its id from the
  cancellation map after reporting (`ssh/remote_files.rs:295`). If the report is a conflict and the user
  confirms quickly, the retry's flag is what is removed: the retry cannot be
  cancelled, nor stopped at shutdown before the two seconds are over. `ssh/connection.rs:279` says
  "Requests cancellation of an active SFTP transfer."
* `FailureKeepsDestination` (`FileInstall`, method `Download`). A confirmed replacement removes the destination
  before the rename (`ssh/sftp.rs:300`); if the rename fails, the error path removes the new file
  as well. A replacement over SCP (`mv -f`) has no such window (`MissingOnlyInBetween`). The test at
  `ssh/sftp/tests.rs:673` asserts the opposite of an overwriting download, but interrupts only its copy.
* `StaleAnswersIgnored` (`EditorSystem`, with the reconnections of `remote_editor`). Ids begin at 1
  with each connection and events are addressed by session, so
  the answer to the first listing of the old connection completes the first listing of the new
  one, and the true answer is ignored. The test `stale_sftp_response_does_not_replace_the_latest_directory`
  (`app/sftp/state.rs:1310`) claims the opposite, within one connection. A late read may in the same way open another
  file than the one asked for, and a late `FileWritten` gives an open file another path, to which its
  next save goes; neither makes an editor clean that is not (`CleanMeansSaved`), since the path comes with the text.

Behaviour met while modelling that no line of the repository speaks against; the
models have it, and the properties exempt it where they would see it:

* Connections. `retry_connection_with_prompt` replaces another session's preparation and
  `start_connection_plan` clears another session's lookup. The deletion of a rejected secret may
  remove a newer, good one; a secret typed for a host may be stored after the profile's host was
  edited. `connect_selected_profile` makes the session before the connection may be refused
  (`app/connection_flow.rs:180`, `:200`). A local shell's `Started` may overwrite `Failed`.
* Files. `begin_request` drops an unsaved edit, or a save under way, when a list refreshes
  (`app/sftp/state.rs:119`), so an upload that completes during an exit can take away the edit whose save
  failed; opening another file, closing an ended terminal and deleting a
  profile drop it unasked too; `close_tab` asks about edits but not about a save under way. A save
  whose answer was lost is refused when repeated. `write_file` compares and truncates in
  two requests. A failed listing forgets the downloads of directories of its list
  (`state.rs:180`); a late answer expands a directory again that the user has collapsed; a removal
  that fails half-way leaves both lists with what is gone; collapsed directories keep selected
  children, which are deleted with the selection. Of two selected files of one name one is uploaded
  (`transfer/plan.rs:58`). A local file that grows during an SCP upload is sent beyond its announced size
  (`ssh/scp.rs:95`).
* Profiles. The end of a save replaces the window's list (`profiles.rs:738`), removes every mark of its profile
  (`:735`) and closes whatever form is open (`:744`); choosing another proxy before the secret was
  looked up deletes the stored one (`:314`); a late secret replaces what was typed. A failed
  load of `profiles.json` starts with an empty list, which the next save writes over the file
  (`app/mod.rs:302`). An import keeps the login secrets of a profile whose host it changes. An included file's last `Host` goes on behind the `Include`
  (`openssh.rs:804`), and a `ProxyJump` with a user or port of its own loses the HostName of the
  host it names (`:377`).
* Terminals. A reported directory with the byte 0x9c in it ends its report early, and
  0x9d in plain output hides the next report (`ssh/cwd.rs:31`, `:42`). A wheel turned into arrow keys
  takes the selection away without painting it; scrolled back, output may change the
  text under a selection; the resize of an ended terminal is shown as an error. Behind
  non-ASCII text the input method's cursor is looked up in the wrong place
  (`text_field.rs:517`, `file_editor.rs:618`), and the editor takes a commit of exactly the
  composed text for no change (`file_editor.rs:577`).
* The rest. A record under way while the log is cleared may reappear in it; nothing flushes at the
  exit. A sample that was under way refills a panel that was cleared. Between the verification of a
  package and its opening someone else may replace it.

## 6. Proofs

A proof holds for every value of the constants under the named assumptions of the
module it extends. TLC first checked each property on the instance of section 3, and the
parts of the inductive invariants, with bounded quantifiers, where an attempt left a doubt.

`TransferSystemProofs`, the first half about `TransferQueue` (naturals; a non-empty set of
limits within 1..8):

* `TypeCorrectness`, `Consistency`: `TypeOK` is inductive, and so is
  `TypeOK /\ QueueConsistent`. The conjunct `handle = NoHandle` for sessions
  outside the window is the strengthening that makes the first conjunct
  inductive: without it a command could still be sent for a removed session.
* `LimitRespected`: `Active` grows only by `StartTask`, which adds one element and is
  guarded by `Cardinality(Active) < limit`; every other action leaves `Active`
  alone or shrinks it (cardinality lemmas from FiniteSetTheorems).
* `Settlement`, `Refill`: one case per action; `Refill` needs the case
  distinction whether an action sets `scheduling`, frees a slot or loses a session.
* `Implementation`: `Spec => Promise!PromiseSpec`. Every action maps to one
  step of `TransferPromise` or a stutter; `QueueConsistent` is needed to tell
  "never submitted" from "forgotten".

The second half is about `TransferSystem`, where the arbitrary workers of the first are
replaced by those of the code (`MaxAttempts` at least 2, an event channel with room for one):

* `SystemImplementsQueue`: `SystemSpec => Spec`. Every step of the composed system is a
  step of the queue or leaves the queue alone, so `SystemLimitRespected` and
  `SystemKeepsPromise` follow from the theorems above.
* `SystemTypeCorrectness`, `RunningCarried`, `OneAttemptWorks`, `OverwriteIsAnswer`, from
  one inductive invariant, `SystemIInv`. `OnceOK`: an order to transfer is in one place
  only, in the command channel, at the file worker or in an attempt; `GivenOK`: the window has
  given it, with the user's consent if it overwrites. `HandleOK`, `OrderOK`, `LinkOK` relate what each
  connection has told, and in which order, to the handle and the state the window has of it;
  `SettledOK` says that whatever an ended connection still does with a task, the task is settled.
  A step is proved for the part it belongs to (`ConnectKeeps`, `StartKeeps`, `QuietKeeps` for the window;
  `LifeKeeps`, `ReturnKeeps`, `TakeAwayKeeps`, `RelayKeeps` for a connection; `FileWorkerKeeps`,
  `AttemptKeeps`; `PumpKeeps` for the events, by way of `HeardOn`, `HeardOver` and `MarkKeeps`).
  The attempt at this proof corrected `RunningIsCarried`: with three connections of a session, the late
  end of the first may drop the handle of the second, whose `Connected`, still on its way,
  then makes the window send an order to the third, which is opening and ignores it. That
  task waits for the end of the connection without a handle; the property now says
  that such a connection is bound to end. Two connections, as TLC has, do not show it.

`TerminalSystemProofs` (a chain of at least one step, at least one key, the default size among the sizes,
channels with room for one event, any number of reads):

* `TerminalTypeCorrectness`; `TransportsClosedInOrder` with `EstablishedInv`: at each place
  of the worker the open transports are a beginning of the chain that the place determines
  (`ChainOK`), and on the way out either nothing is open or its closing is still to come.
* `LearnedKeysWereApproved` with `AskInv`: while a decision is awaited there is exactly one
  question, in the events or on the screen, and otherwise none; so a decision is about the
  key that was asked about.
* `InputTypedInOrder` with `FlowInv`: before the shell is open nothing is typed, and
  afterwards the sequence of all that was and will be typed as things stand is ordered.
  `RunFacts` says what merging does to a run of resizes; `OrderedAround` and
  `RisingAround` that places which type nothing may be left out.
* `LeastNatural` is the induction on naturals used here: a set of naturals without a
  least element is empty (from the well-foundedness of the order), which takes no operator as a parameter.

`SessionFlowProofs` (a non-empty set of profiles, each with its proxy, jump hosts and authentication; any
sessions, secrets, texts typed and keychains):

* `FlowTypes`, `SecretsBelong`, `CommandsAreConsented`, `PromptsAreCurrent`, `SecretsEndWithConnections`
  and the action properties `ConnectionsAreKept` and `SavedSecretsAreRight`, from one inductive
  invariant, `FlowInv`. None of the seven is inductive: the secrets of a worker were collected by a
  preparation, so `Made` says of that, and of a plan that waits for its approval, that its secrets are those
  of the first steps; `Own` ties what is under way to the profile of its session; `Apart` says that a
  session is prepared, or approved, or connected, never two of them, which is why a plan may
  be started without another look; `Ended` and `Passed` are about the secrets of a running connection.
* `PromptIsCurrent` does not hold inside a handler: `accept_preparation_secret` goes on to the next
  step before the next prompt is there. `Fine` is what holds all along, and `PreparationContinues`
  shows that what `continue_connection_preparation` leaves is `Good` again.
* `SuccessfulAreRight` is the lemma behind `SavedSecretsAreRight`: the credentials of a host that
  let the user in are right because no other step is on the same host, and those of the proxy because the
  worker is past it. It needs the check of duplicate hosts in `ConnectionPlan::validate`, which
  the attempt at this proof brought into `ValidPlan`.
* `WeakerKeeps` covers everything that only takes away: a prompt dismissed, a session removed, a lookup
  dropped.

`FileProofs`, first part: the six properties of `FileInstall` for every
set of methods, from an invariant that ties the step to the two
files and the two history variables.

`FileProofs`, second part, is about `EditorSystem`, with any sessions, files and texts and any bounds:

* `EditorTypeCorrect`, `CleanAlwaysSaved`, `EditsAlwaysSurvive`, `WindowAlwaysClosesKnowingly`, from
  `EditorInv`, which TLC checked first. It does not say that ids tell answers apart, since over
  reconnections they do not: `ConnectionsOK` speaks of every answer of every connection, old ones
  included, and says that a read or written text that is still marked current is what the file it
  names holds. `SessionsOK` says the same of a clean editor, and that
  what the file waits for is what its marks say; `ExitOK` is about the exit under way.
* An answer is heard by whichever session waits for its id (`HeardKeeps`); because it brings its path
  with its text, the editor is right afterwards whatever request it answers. `OutdatedKeeps` and
  `StoreKeeps` are the effects of a write, which takes the mark from every text read or written before it. An edit
  survives because a file that waits for a read has no editor yet whose text an answer could replace.

`ProfileStoreProofs` (`None` is no id and no content; naturals; the initial lists are closed and the
configurations are typed):

* `StoreTypeCorrect`; `JumpHostsAlwaysExist`: a list is closed when it is made and is passed on
  whole by save, roll-back and import (`WithClosed`, `WithoutClosed`, `ThreadClosed`).
* `LocksAlwaysHaveThreads`: marks are counted per profile against its threads, and `OneImport`
  says that an import has one thread.
* `StoresAlwaysAgree` with `CalmInv`: as long as the history is calm (section 2 says what ends that;
  the import's missing rollback is a finding, not covered here) there is at most one thread,
  and its stage tells what it has done to the list, the file and the keychain so far and what undoes it
  (`SaveOK`, `ImportOK`, `DeleteOK`).

`WorkspaceProofs`: `LayoutOK` (tabs, panes and the view fit together) is kept by the four
operations on the layout (`ActivateKeeps`, `OpenTabKeeps`, `SplitKeeps`, `RemoveKeeps`), `SessionsOK`
(handles, states and panes of the sessions, and that a session waits for one thing at a time) by what removes a session (`DepartKeeps`), makes a
pane (`NewPaneKeeps`) and hears of a connection (`LinkKeeps`). Four theorems; the one to know is
`NoConnectionHidden`: no session without a pane has a connection.

`ServiceProofs`, about `Updates`: the links between task, status and package file (`OneTask`,
`DownloadMatchesOffer`, `TemporaryBounded`, `OffersNewer`, and `FoundOK` about an answer not heard of yet) are
inductive together, since a check may replace the offer a download was begun for. Six
theorems, `AlwaysOpensVerified` an action property.

`ServiceProofs`, about `Diagnostics` (`Sizes`: capacity, flush interval and retention are positive): the invariant is
split along the two locks, `FileInv` and `MemoryInv`, with `RecordingInv` for a thread between them and
`BundleInv` for an export; `BundleAlwaysClean` rests on `RedactCuts`.

`PerformanceMonitorProofs` (`Bounds`: naturals): `WindowOK` is what the window knows, `ReportsOK` what
is on its way to it, `StartOK` what a connection was started with. Everything ends in
`sync_performance_monitoring`, hence `SyncKeeps` and `SyncedStep`.

**Only model-checked.** The liveness properties of `TransferSystem`, `TerminalSystem` and `EditorSystem`
(`SavesSettle`), since fairness and ENABLED are beyond the prover; the
algorithms and `FileBrowser`, which rest on folds or RECURSIVE operators: what a recursive definition computes for every
input needs an induction theorem with an operator as its parameter, which the provers cannot instantiate.
Arithmetic of the cursor (`Distance`) is needed by none of the
proofs: every property holds for whichever Queued task is taken.

## 7. Not modelled

Rendering: views, menus, overlays, themes, localisation.
Settings beyond the limit of transfers and the switch of the performance monitor:
each is a value written to a file and read at the start. The emulation of a terminal
is a function of bytes in a library (alacritty); russh, tokio, gpui, the keyring and
the operating system are taken as their interfaces say, and the models mark what stands
for them. The arithmetic of the segments of a parallel
download (`download_segment_ranges`) is left to the unit tests of the code. `PROJECT.json` gives a
status and a reason for each component.

## 8. Plan

A run of its own for `FileBrowser`, and the ranges of a parallel download as a
partition of the file.
