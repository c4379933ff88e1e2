# Formal models of computer-use-linux

computer-use-linux is an MCP server: a client (an agent) calls its tools over
stdin/stdout, and the tools look at a Linux desktop and send input to it.  This
directory holds TLA+ models of the parts of it whose correctness depends on
order, failure and cancellation, the TLC configurations that check them, and
TLAPS proofs of their main safety properties.  Line numbers refer to the
repository at the commit the models were written from; `PROJECT.json` maps every
definition to its lines.

One fact shapes every model of the server.  `src/main.rs:8` starts tokio with
`flavor = "current_thread"`: all futures of a server run on one thread, so the
code between two `.await`s is one atomic step, and so is dropping a future with
everything it owns.  What interleaves is: other calls at every `.await`, tasks
spawned to survive a cancelled call, blocking threads, the libei worker thread,
other server processes, and the desktop.  The client may cancel a call at any
`.await` (rmcp drops the request's future).

## 1. The system

### 1.1 Components

| component | state it keeps | operations | talks to |
|---|---|---|---|
| input tools (`server.rs` `dispatch_click`, `_drag`, `_scroll`, `_press_key`, `_type_text`) | `input_operation_lock`, `portal_session_init_lock`, `kde_clipboard_lock` | take the lock, check the target, choose a backend, send, report | portal sessions, command backends, snapshot cache, windows |
| portal sessions (`remote_desktop.rs`) | two cached sessions, an `AtomicBool valid` each, a process-wide input lock | start, click, drag, scroll, chord, type, invalidate, close | compositor (D-Bus, libei), restore token |
| release guards (`remote_desktop.rs`) | the controls now pressed | arm, disarm, release and close on drop | portal sessions, both locks |
| restore token (`remote_desktop.rs`) | a token file and a lock file per device kind | claim, keep, remove | other server processes, the portal |
| KDE clipboard paste (`server.rs`) | the user's clipboard, while it is replaced | read, replace, chord, restore | Klipper, portal keyboard |
| libei sender (`ei_input.rs`) | a worker thread, a one-place queue, device states | connect, send, emit | compositor |
| snapshot cache (`server.rs`) | `last_snapshot`: nodes, pid, window, recovery scope | commit, page, resolve, check a target, recover | AT-SPI, spill files |
| tree reading (`atspi_tree.rs`, `tree_encoding.rs`) | none | traverse, scope, compact, encode | AT-SPI bus |
| spill files (`tree_spill.rs`) | one file per server in a shared directory | write, remove, sweep | other server processes |
| diagnostics cache (`diagnostics_cache.rs`) | entry, generation, time | report, invalidate | doctor probes, setup tools |
| screenshots (`screenshot.rs`, `server.rs`) | `desktop_size`, `capture_layout` with its generation | capture, read the monitor layout | compositor, indicator |
| absolute pointer (`abs_pointer.rs`) | a uinput device with its geometry | create, replace, move, click, drag | screenshots |
| command backends (`ydotool.rs`, `pixelflux.rs`, `hyprland_input.rs`, `keyboard_keymap.rs`, `command_runner.rs`) | child processes | run with a limit | daemons, X server |
| indicator (`indicator.rs` and its binary) | overlay process, a lock file shared by captures | show, follow, hold for a capture | other server processes |
| windows (`windowing/`) | none kept between calls; of a KWin call: callback object, script file, script in KWin | list, focus, move, resize | one backend per desktop |
| doctor and setup (`diagnostics.rs`, `gnome_extension.rs`) | desktop settings | probe, set up | desktop |
| accessibility guard | the accessibility flag it found | enable, restore | session bus |
| Pi extension (`pi/extension`) | pending requests, a child server | call, time out, restart | the server |

### 1.2 How they interact, and what is hard

* **Calls** run concurrently.  Input calls queue on `input_operation_lock`; the
  guard moves into a task for input that must not be cut short
  (`run_cancellation_safe_guarded`), or is cloned into a release guard for input
  that runs inside the request.  When a request is dropped, the task, or the
  cleanup its release guard spawns, keeps the clone.  Getting this wrong either
  lets two calls press keys at once, or leaks the lock and blocks input for good.
* **Sessions** are shared by clone.  One call's failure invalidates the session
  that a later call may have cached, and the close runs in a task of its own.
* **Observations** read an accessibility tree without the lock, for seconds, and
  then replace the tree that element indices mean, while other calls are between
  the check of an index and its use.
* **Probes** run on a blocking thread while setup tools change what they read.
* **Processes**: several servers share the restore token, the spill directory,
  the overlay and the clipboard, and each of them may be killed at any point.

### 1.3 What makes each component correct

* input tools: one sender at a time across all backends, across cancelled calls
  and their leftovers; the lock is never leaked.
* release guards: whatever is pressed comes up, whoever is cancelled where.
* portal sessions: none is closed under running input, and none that is closing
  is handed out by the cache.
* snapshot cache: an index means the element the client was shown; a target that
  was checked is the target acted on; a recovery does not leave the application.
* spill files: the file on disk is the tree whose indices work.
* diagnostics cache: a setup tool's effect is visible to the next call; nothing
  older than 30 s is reused.
* restore token: used once, by one process at a time, and never lost to another.
* libei sender: input whose caller gave up is not sent later.
* windows: input is sent only after the window asked for was seen with focus; a call
  leaves no script, object or file behind and ends although KWin hangs.
* indicator: no capture shows the overlay; no overlay stays hidden for ever.

## 2. Plan

In the order of what would hurt most if it were wrong.

1. *(done)* **ExclusiveInput**, **InputOperations** and its proof: the input
   lock, cancellation, release guards, sessions.
2. *(done)* **SnapshotCache**: indices, targets, recovery.
3. *(done)* **DiagnosticsCache** and its proof.
4. *(done)* **RestoreToken** and its proof: a single-use token shared by server
   processes, under a file lock with a time limit.
5. *(done)* **KdeClipboard**: the clipboard while a paste replaces it, with writes that
   time out and land later, other servers, and a person who copies.
6. *(done)* **SpillDirectory**: files of several servers, crashes, pid reuse, the sweep;
   SnapshotCache's `spilled` is the content of one server's file.
7. *(done)* **EventChannel**, **EisInput** and its proof: the worker thread,
   the one-place queue, receipts and limits; *(open)* InputOperations' `PressDone`/`EventLands`
   shown to be what EisInput allows.
8. *(done)* **CaptureHold** and its proof: the indicator's lock file and the begin/shown/end
   datagrams of several servers with one overlay; **ScreenFiles**: what a capture leaves.
9. *(done)* **KwinScript**, **WindowFocus** and its proof: script transactions and
   their residue, focus that is verified before input; *(open)* two servers and
   a server that exits between two steps.
10. *(done)* **InputRoutes** and its proof: which backend acts, in which window, and what
    is answered; **HyprlandKeys**, **CommandRunner**, **Toplevels**, **IpcWindows**,
    **CosmicHelper** behind it.
11. *(done)* **CapturePoints**, **KwinElements**: a point of a picture, and of an element,
    while the desktop is rearranged.
12. *(done)* **TreeReading**, **TreeResult**, **ElementWrites**: what is read of a tree and
    written to it; pages and compaction over all small trees.
13. *(done)* **SessionEnvironment**, **AccessibilitySetup**, **ExtensionSetup**,
    **DoctorReport**, **PiClient**.

Theorems *(done)*: exclusion, sound sessions and the refinement of ExclusiveInput; the
safety of InputRoutes, HyprlandKeys, CommandRunner, Toplevels and IpcWindows, of SnapshotCache,
TreeReading, TreeResult, ElementWrites, WindowFocus and CosmicHelper; the order and the use of tokens, the files of the user and the sweep; the age
of reports, the safety of SessionEnvironment, ExtensionSetup, DoctorReport and PiClient; the
refinement of EventChannel, what is emitted and pasted; captures without the overlay.
Theorems about clicks on elements, buttons and pictures of windows (KwinElements, CapturePoints).
*(open)* `LandsAsPictured` and `WarningIsSo`.

## 3. The modules

### ExclusiveInput: what the input lock promises

The abstract specification: an `owner` and the set of controls that are `down`.
`Begin` needs nothing down, only the owner acts, `End` needs nothing down.

### InputOperations: input tools, sessions and release guards

One slot of `Calls` is a tool call together with what may outlive it: its
request future (`pc`), its input future (`job`, inside the request or in a
detached task) and its release cleanup (`cleanup`).

| in the model | in the code |
|---|---|
| `queue`, `holders` | waiters of `input_operation_lock`, and the live clones of its `OwnedMutexGuard` (`InputOperationGuard`) |
| `portalLock` | `portal_input_lock`, shared by all sessions of the process |
| `sess`, `valid`, `live`, `closing`, `cache` | the session a future has cloned; its `AtomicBool`; whether the compositor has it open; close tasks; the two `Mutex<Option<..>>` of the server |
| `armed`, `left` | the release guard's list, and what the operation has still to press |
| `held` | what the compositor sees pressed |

`Press` arms before it sends, `ReleaseDone` disarms after the answer, and
`EventLands` is the event of a dropped or timed-out await that took effect all
the same.  `DropReleaseGuard` is the destructor, `CleanupRelease` and
`CleanupClose` the task it spawns.  `CancelInline`, `CancelAwaiting`,
`CancelPreparing` and `CancelQueued` are the drop of the request future at every
place it can be.  Which of the many refusals of a tool applies, and which
backend is chosen, is nondeterministic: every property holds for every choice.

Properties: `InputIsSound`, which is `OneSender`, `ReleaseCovered` (whatever
is down on a usable session is on the list of a running guard, so losing that
future at any point releases it) and `NoDeadSession` (neither closed under a
sender nor taken from the cache);
`ImplementsExclusiveInput` (the
refinement of ExclusiveInput, with `owner` the call some clone of the guard
belongs to and `down` all pressed controls); `QueuedCallsProceed`;
`PressedComesUp`.

### DiagnosticsCache: the report that is reused

A report is the version of the desktop it saw and the time it was read.  The
probe (`ProbeReads`) reads at some moment between `StartProbe` and
`StoreReport`; `SetupChanges`, `SetupReturns`, `Invalidate`, `DesktopChanges` and
`Tick` fall anywhere in between, and `CancelProbing` drops the call with the
mutex in its hand.  `ReportIsCurrent`: `SetupIsVisible` and `ReuseWithinTTL`.

### SnapshotCache: indices, targets and recovery

`snapshot` is `last_snapshot`, `spilled` the content of the current spill file,
`shown` the last tree a result gave the client, which is not state of the
program: the properties compare the two.  Observations (`ReadAppState`,
`AimObservation`, `ReadObservation`, `Commit`, `CommitEmpty`) read without the
lock; actions (`Begin`, `Check`, `LookUpOwner`, `OwnerKnown`, `InvokeDead`,
`Recover`, `RecoverNothing`) hold it.  The window backend may not know pids
(`Reported`), the bus may not tell an owner (`OwnerKnown`), objects vanish.  An
action's element is the cached one of its index, or the best match of a selector
(`Prefer`, `SelectorMatch`); a tree is read for the application a window or its process
names (`AppsFor`).

`CacheIsShown`, `ActsAsMeant` (`IndexMeansShown`, `ActsInTarget`), and the violated `RetryInTarget` (section 6).

### RestoreToken: one token, many starts

A slot of `Starts` is one start of a portal session with persistence, in any
process: `flock` belongs to the open file, so starts exclude each other within a
process as well.  `lock` and `file` are what the state directory holds; `mine`,
`given` and `granted` are what a start read and was answered.  The portal is
external: it numbers the tokens it issues, restores from each once (`used`), may
revoke them all, and may still act on a request whose caller has gone
(`GrantToNobody`).  `Lost` is a start that is dropped, times out or is killed
anywhere from `Start` to the commit; `Commit` itself runs on a blocking thread
that a cancelled call does not stop, only `Killed` does.

Properties: `NewerReplaces`, `FileUnused`; `UnusableForgotten` is proved.

### ScreenFiles: pictures on disk that may be the user's

A capture asks the backends of its ladder one after the other (`TryNext`): GNOME
Shell and gnome-screenshot write to a temporary path of the capture's own, the
portal to one it chooses, often in the user's Pictures.  The names in Pictures are noted
(`NoteNames`) and the time of the request taken (`AskPortal`) in two steps, and the user
may save, delete or move a file between any two.  The portal may name any file of the
user's.  A capture waits for its turn (`pipeline`) or, for the uinput pointer, the size
of the desktop and a click on an element, goes ahead without.  `files` is what each path
names, with the inode, its maker, and the captures to which the file is new (`after`):
those that had asked when it was created, which is what a birth time tells (`BirthTimes`
says whether the file system has them), and, of a file that comes to Pictures, those that
had noted the names.  `pin` is the file `OwnedScreenshotCleanup` keeps open, `names`
what was in Pictures before, `late` the writers whose capture no longer waits,
`pipeline` and `worker` the two semaphores.

| in the model | in the code |
|---|---|
| `Proven` | `OwnedScreenshotCleanup::new`: a new name in Pictures, or created after the request |
| `Deletes`, `CleanUp` | `cleanup_screenshot_path`: the path still names the pinned file |
| `PrepareTimesOut` | the second that preparing a portal's file may take; the thread finishes and drops |
| `Cancel`, `DropCleanup` | the call is dropped: a file in the queue goes with its destructor, one being read with its thread |

Property: `OnlyItsPictureGoes` (`UserFilesSurvive` and `ChargedFilesGo`).  What the code
cannot tell from its picture, and the property leaves to it, is a file that the user saves
after the names were noted or the portal was asked and before the picture is opened, or moves
to Pictures then, if the portal names that file or it has taken the picture's name: TLC shows
such a file deleted when the property does not except it.

### SpillDirectory: files of servers that may be gone

Files are named for a pid, a start time and a number.  A server slot stands for a
start time; pids are taken again.  `StartServer` and `BeginSpill` sweep, `Kill`
leaves a file behind, `HourPasses` ages what is there.  SnapshotCache says when a
server spills; here it may at any time.  Property: `SweepIsExact`.

### InputRoutes: which backend acts, and what is answered

A call of one of the five input tools goes down the rungs of its dispatch function:
the background route of Hyprland, the focus of the target, the maps of points and
elements, the privacy of wtype, pixelflux, then for a pointer xdotool, the uinput
device, the portal and ydotool, for keys the portal, the clipboard, wtype, xdotool
and ydotool.  `host` is what the process found (session, desktop, settings,
programs); `device`, `space`, `pointer` and `keyboard` the server's cached backends;
`front` the window with focus.  `effect` records what reached the desktop: by which
routes, in which windows, whole or not, and whether text was an argument.  A rung
that may have sent answers; only one that is sure to have sent nothing goes to the
next.

Properties: `AnswersForItsRoute` (one route acts, and the answer is true of it),
`ReachesAim` (violated where a capture prompts, section 6), `SecretStaysPrivate`.

### HyprlandKeys: keys sent to a window in the background

Presses go in chunks; each chunk is one request of down and up events, answered with
a word for each.  The compositor is external: it handles requests in order, each
event or not, also those whose caller gave up, and its answer may be cut short.
`ReadReply` is the three-way reading of an answer (whole, refused from some point
on, anything else), `SendRelease` and `ReadRelease` the release of what may be down.
Property: `HyprAnswerIsTrue`.

### CommandRunner: programs that are run

A run leads a process group.  `leader`, `helper` and `pipes` are the kernel's side,
`reused` says that the group's number has gone to someone else, which needs the
leader reaped and the helpers gone.  The supervisor reads to the end of both pipes
before it waits for the leader, and kills the group at a limit, a failure or a
dropped call.  Blocking runs are not dropped.  Property:
`RunEndsWhole` (`KillsItsOwn` and `CommandEnds`).


### EventChannel and EisInput: the libei sender

EventChannel is what an operation needs of the way its events go out: an event
is taken only while somebody waits for it, only the event that was taken is
sent, and an answer says what happened to it.

EisInput is one connection: the future that connects and sends (`client`,
`pc`), the worker thread (`worker`, `hand`, `result`), the channel of one place
between them (`queue`), the readiness it announces (`ready`), and what each side
believes of the devices: `devices` and `active` are the worker's, `offered` and
`resumed` the compositor's, `inbox` the device events in between.

| in the model | in the code |
|---|---|
| `Send`, `Enqueue`, `GiveUp` | `EisSender::send`: both awaits under one limit, and the drop of the caller |
| `Announce`, `StartupFails` | the start-up loop of the worker and `connect`'s wait for it |
| `HandleEvent` | `handle_event`, in the start-up loop and in the select of the request loop |
| `Receive` | the request taken from the channel; one whose receipt is closed is skipped |
| `EmitOn`, `EmitNothing`, `Answer` | `emit` and the receipt; an error ends the thread |
| `Hangup` | the channel closed: every sender is gone |

Key codes, buttons and coordinates are reduced to the set of devices that can
carry an event (`Reach`).

Properties: `AnswersAreTrue`; `EmittedTakesEffect` (a success hides at most a
pause the worker has not read); `ImplementsEventChannel`, with `asked` the event
somebody awaits and `taken` the one in the worker's hand; `AbandonedWorkerEnds`.

### KdeClipboard: another's clipboard, borrowed

A paste reads the clipboard, replaces it, presses the chord and puts it back.
It runs in a task no cancellation stops, under both of its server's locks.
Klipper is external and serves its messages in order (`inbox`), also those whose
caller has given up: that is what a time limit leaves behind.  The application
reads the clipboard some time after the chord (`pasting`, `pasted`).

`Answered` and `Failed` say which way each of the four calls goes on: a failed
read falls back to ydotool, a failed write is taken back (`Undo`) and not typed,
a failed chord is not retyped (`AfterChord`), a failed restore is reported
(`warned`).

Property: `PastesAndRestores`, that is `PastesItsText` (no text twice, whatever happens,
and the right one) and `ClipboardComesBack`, both until a paste is `disturbed`: two servers paste at once, the user
copies meanwhile, a server exits, or the application reads after the delay.

### CaptureHold: pictures without the indicator

Servers and the overlay of the session share a lock file, which captures hold
shared, and exchange datagrams: `begin` (answered with whether something was on
screen), `end`, and reports of actions.  A capture is a call of
`hold_for_capture` with what its caller does next (`pc`); `replies` are the
answers in each server's socket, also late ones.  The overlay is one thread whose
handlers are cut where a server can come in between: `Sync` tests the lock and
`Draw` draws, `HandleBegin` removes the surfaces and `Reply` answers.  The
compositor is external: it shows removed surfaces for up to `HIDE_SETTLE`
(`displayed`, `recent`).  A server that sleeps that long after an answer has
slept past the removal, which is the guard of `Settled`.

Several captures of one server may hold the lock at once, as README.md:145 says
and the tests of `indicator.rs` do; the server's own tools also take turns
(`screenshot.rs:457`), so they do less than the model allows.

Properties: `NoOverlayInCapture`, `NeitherIsStuck` (`AnswerComes` and `OverlayComesBack`).

### KwinScript and WindowFocus: a window gets focus before input is sent

KwinScript is one script transaction: a callback object and a script file are put
in place, KWin loads, starts and runs the script, the script calls back, and
`KwinScriptCleanup` takes everything away.  A script is named by its caller and a
number (`Begin`); `owns` and `path` are the cleanup's fields, `current` says that
the process whose name was resolved is KWin still, `asked` holds the requests KWin
has not handled, also those whose caller gave up.  `Fail` is an error or
`KWIN_SCRIPT_TIMEOUT` at any await, `Drop` the destructor that starts the cleanup
again in a task of its own.  KWin handles the requests of a connection in order
(`KwinLoads`, `KwinStarts`, `KwinUnloads`), `start` runs every script not yet
started, and KWin may hang or be replaced (`KwinRestarts`).

WindowFocus is `focus_window_target` on top of it:

| in the model | in the code |
|---|---|
| `StartList`, `ListedNothing`, `OtherListed` | `first_answer`: the next backend is asked if one fails or lists nothing |
| `Listed`, `Unresolved` | `resolve_window_target` |
| `Looked`, `Activated`, `NotActivated`, `OtherActivates` | `activate_window`: KWin is listed again for the uuid, then activates |
| `Queried`, `OtherQueried`, `CutOff`, `Deadline`, `QueryAgain` | `wait_for_focused_window_with`, one round of its loop |
| `Conclude`, `Satisfies` | `focus_satisfies_target`: whether input is sent |

`seen` and `landed` are history for the properties: what the desktop really showed
while the call verified focus (`Watch`).  A window that gets focus late, or not at
all although KWin accepted the activation, is a step of `UserSwitches`.

Properties: `NothingLeft`, `FocusAnswerIsTrue`, `CallEnds`.

### The desktop: SessionEnvironment, AccessibilitySetup, ExtensionSetup, DoctorReport

SessionEnvironment is `hydrate_session_bus_env`: `env` is the server's environment,
reduced to the variables that decide (`Keys`), each with the session it names;
`ancestry` the processes above the server, `manager` the systemd user manager.  A call
finds the processes (`BeginHydration`), takes the variables of one after the other
(`FillFromProcess`) and asks the manager (`FillFromManager`), while processes end.
Property: `NeverGrafted`.

AccessibilitySetup puts `setup_accessibility` beside the `guard-accessibility` process
and the user, a command at a time: `saved` is the GSettings key, `enabled` the runtime
property, `monitor` and `line` the guard's `gsettings monitor`.  `undone` are the setups
something came between.  Property: `AccessStaysOn` (`SetupSaves` and `GuardRestores`).

ExtensionSetup is `setup_window_targeting`: `disk` are the user copies where the Shell
looks and where the host may make the server look, `shell` what the Shell found at
log-in and what it imported, which stays.  Properties: `SetupLasts`, and the violated
`ReloadIsReported` (section 6).

DoctorReport is what `doctor_report` concludes from the outcomes of its probes
(`machine`), beside what the server does on that machine (`PointBy`, `KeyboardRoutes`,
`ListedBy`).  Property: `ReportIsRight`, that is `AdvertisedIsUsed` and `ReadinessAgrees`,
before and after `record_screenshot_result`.  `AdvertisedIsUsed` is about every session
and override; what it does not say, because the code does otherwise, is in section 6.

### Toplevels: windows without an identifier

The wlr foreign-toplevel backend and labwc name a window by a hash of what it shows.
Every call looks it up again (`Unique`, `FindHandle`), on a connection of its own whose
worker it awaits (`Collect`, `SendActivate`, `Handled`, `BreakOff`), while windows open,
close, change their titles and take the focus (`TopDesktop`).  labwc is listed over its
own IPC, which cuts long titles (`Cut`), and activated through the other protocol, whose
handles fit a name loosely (`Fits`).  `sole` and `kept` are history (`Look`): which window
was the only one to match while the call looked, and while focus was queried.
Property: `NamedIsActivated`.

### IpcWindows: windows with an identifier, in one of several sessions

niri, i3, Sway and Hyprland are asked over a socket or by a program, once to list and
once to focus; between the two, windows open and close and sessions start and end.
`NiriSession`, `I3Session` and `HyprSession` choose the session each time; `IdOfWindow`
and `Selects` are the id of a listing and what a request with it selects.  X11 and
container ids are of kinds of their own; niri's and Sway's are counted, an X11 id comes
again when its window has closed (an X server gives a new client the range of one that went;
the comment in `windows_from_root` orders the ids within one client only), and so do
Hyprland's addresses.  Nothing in the code tells a window from a later one with its id, so
what `FocusesWhatWasListed` can say, where a variable names the session, is that while the
listed window is open no other is focused, and that where ids do not come again no other is
ever.

### PiClient: the extension that runs the server

`launch` is the binary a session uses, `fallback` that it is one of PATH taken for want
of the package's; `client` the session's MCP client, `conn` and `proc` what each client
and each server process is at.  A cancelled call has its answer while what it waited for
goes on (`Dropped`, `Installed`, `ConnectEnds`); `SessionOver` may come anywhere, also a
crash of the server (`ProcessEnds`).  Properties: `NoServerStays`, that every server is
held by its session's client or ends, `CallsAreTold`, that a request is sent once and one
without an answer is reported as such, and that a fallback is left once the package's
binary is there.  Calls run one after another, as Pi runs them (`Free`); a request under
way when the session ends fails with the error of the ended session.

### The tree of an application: TreeReading, TreeResult, ElementWrites

TreeReading is the walk of `snapshot_tree_inner` and of `focused_element_probe`, one
D-Bus read a step: `queue`, `attempted` and `dropped` are `BoundedTraversal`, `reads` the
budget of child reads, `cur` the node being read with the children asked for and not yet
answered (`ReadKid`, in any order), `nodes` and `cut` the snapshot and its `truncated`,
or the search's `incomplete`; `container` is the focused container a search went on from
(`Narrow`).  The application removes, adds and focuses elements in between, calls fail.
`edited`, `failed` and `moved` are history for the property: what the walk cannot answer
for.  Property: `TreesAreRead`, that is `SnapshotIsWhole` and `FocusIsFound`.

TreeResult is what is made of a tree that was read (`raw`): `Compact`, `Interactive`, the
part of it in a result (`Fit`) and its pages (`Page`), over all trees of five nodes with
containers, text, actions, windows and live regions, one of which may not have had its
children counted.  Property: `TreeIsUsable`
(`TreeIsExact`, `NothingUsedIsLost`, `TreeIsGiven`).  `NothingUsedIsLost` states an
exception: a comment in `should_keep_accessibility_node` has compaction keep what
interactive_only keeps, and it drops an unnamed window or dialog below the first level.
Another is a live region whose `child_count` could not be read (`unwrap_or_default` in
`read_node`; its children are read by a second request, which may succeed): it is taken for
an empty one and dropped, and text below it no longer counts as a result.

ElementWrites is `set_element_value`, with the readback of a text chunk by chunk in the
units the peer counts in, and `perform_action_inner` with the second try of
`perform_element_action_with` on the object found in place of one that is gone, beside an
application that applies a text late or changed, edits it and replaces its actions.  A call
that sets or invokes may fail before the application has seen it, after it did what was
asked (the answer is lost), or before it does it (`took`, `due`, `invoked`); such an error
(`unsure`: "failed to set", "failed to invoke") tells the client nothing.  `ErrorMeansNothing`
says what is left: any other error, a rejection or a refusal means that nothing was changed
and nothing will be, and no action is run twice, though `Recovers` asks a second object: the
server must not take a lost answer for an object that was gone before it was asked
(`is_recoverable_action_query_error`).  Property: `WritesAreTold` (`VerifiedIsHeld`,
`ErrorMeansNothing`, `ActionIsNamed`).

### CosmicHelper: what a helper process sees of COSMIC

The helper is a Wayland client that lives for one request.  `wire` are the compositor's
events in order, `unread` the requests it has not read; `rec`, `outputs`, `heads` and
`ready` are `AppData`.  What a request or a change of the desktop calls for are bursts of
events, one for a window, an output or a head, in any order (`owed`); the compositor sends
one after the other (`SendsOwed`) and nothing else in between, as it does from one turn of
its loop, while the helper may read the first of them before the last is sent.  An event is applied at a time and the helper may look after any
of them, as the socket delivers them in pieces (`Looks`).  `had` is history: who had the
focus, where windows were and how the monitors were arranged since the helper began.
Property: `HelperIsTrue` (`ListingIsTrue`, `ActivationIsTrue`, `LayoutIsWhole`).  "Verified" means that the window had the focus while the
helper looked, not that it got it from the request: a focus event that was not read yet
when the request is sent counts, also if the window has just lost it.  Where the
compositor has no COSMIC protocol of window states the helper does not bind the list of
windows either (`Announced`): it lists none, and the property says so.

### CapturePoints: what a point of a picture names

`desktop` and `window` are the real arrangement, `view` is `desktop_size` with
`capture_layout` (`gen` its generation), `session` the portal session with its streams and
the layout it was started under, `axes` the size the uinput device was made for.  `shot`
is the call that takes a picture, crops it or places a window, `aim` the one that moves
the pointer; each goes from await to await (`at`) while monitors are rearranged, windows
move and the other takes a picture.  The six desktops differ in who tells the layout and
in which units (`HyprctlTells`, `KscreenTells`, `XrandrTells`), how bounds of windows are
told (`ListedBounds`, which are absent where the monitors cannot be read), and what the compositor does with a point (`SpotByDevice`,
`SpotByStream`).  Property: `PointsAreMeant` (`LandsAsPictured`, `CropIsWindow`,
`WarningIsSo`, `ButtonIsUp`).

What it holds for is as the code has it.  A point is judged only if the monitors are where
they were in the picture the caller has seen: nothing in a click names the picture, and a
click after a rearrangement goes elsewhere.  `read_monitor_layout` takes the layout of a
cached session without asking whether it is still so, and keeps it for the picture: until
the next one, a click that lands as pictured may be said to be off the screen
(`aim.stale`).  A GNOME stage is scaled or not, and where the extension does not tell the
scale a stream keeps 1 (`ScaleUnknown`).  At a broken scale the edge of a monitor may fall
within a pixel; that pixel is on the monitor for the caller, and what it names may be beside
it.  On Sway a picture is never below scale 1 (`PictureScale`).

A picture has whole pixels, so that at a broken scale it is a little less than the desktop
and the scales of its axes differ.  The server takes them for one scale within a hundredth
(`Even`), and then takes each pixel for a place up to one pixel off (`Grazes`):
`CropIsWindow` allows a row and a column for it.  `Gapped` and `Halved` are such layouts,
half a pixel more than a whole number of them across; the first has a gap whose last pixel
is taken for one of the monitor after it.  The quotients are computed exactly where the code
has floating-point numbers.

`WarningIsSo` judges the warning about a window against the picture of the call
(`shot.seen`); what it is against an older one is in section 6.  On the desktops of the run
that tell bounds on the desktop and no monitors, Plasma and X11, the desktop begins at 0,0.

### KwinElements: a click on an element, on KWin

`tree` is the frame and the element of the cached snapshot as a toolkit tells their
bounds: from the corner of the window (`local`), of its content (`client`) or of its frame
(`frame`).  `wins` and `front` are KWin's windows, `elem` is the click on its way through
`resolve_click_target`, `prepare_kwin_element_click`, `map_element_click` and the choice of
the device, one step per await.  Windows move, hide, close, change places and the front
between any two of them, and monitors are rearranged.  The device for the pointer may be one
of an older picture.  Property: `ElementIsHit`.

It says where the point goes and not which window covers it there.  Nothing tells the
server that the frame in the tree is still that of the window it was read from: if it is
not, another window of the process may have become the one that fits, and the property
asks only that the click stays in a window of the process that is shown (`StillMeant`).
A toolkit that tells frames tells where the element is on the desktop, as one does that tells
global points: if the window has moved, that is what is hit.  The window is the one that fits
within a point, with a tolerance of two in its size (`Around`), and where a pixel of the
picture stands for two points, at scales below 1, the click is within one of them; where the
picture is not the desktop at its scale exactly, which `capture_point` takes within a
hundredth (`OnCapture`, `Even`), it may be a point short (`Slack`).
What happens after KWin was asked is not seen by the code either and is excepted
(`elem.since`).  An element with a native action is not clicked at all; that path is in
`ElementWrites`.

## 4. Runs, bounds and fairness

| run | question | instance |
|---|---|---|
| `input_faults` | safety of input under every fault; points, window crops and off-screen notes on six desktops; clicks on elements on Plasma; one part at a time | 3 calls, 3 sessions, 2 controls at a time, 2 strokes, symmetric; 2 or 3 arrangements per desktop of at most 2 monitors shown, at scales from 1/2 to 2, 1 change (the staggered ones stay), 1 picture beside 2 clicks or drags, the second a plain click and not on Sway; 3 windows of 2 processes, with and without a title bar, side by side or not shown, a device or none, 1 click on an element, 1 change |
| `input_exclusive` | refinement and liveness | 2 calls, 2 sessions, faults: a revoked session only |
| `desktop` | the report's age, the session found, both setup tools, what doctor says, Pi's server process, one part at a time | 2 callers, TTL 2, clock to 3, 1 change, 1 invalidation besides those of setup tools; 16 ancestries, 2 hydrations, 2 changes around them; 1 accessibility setup and the guard, 3 switches or failures; 2 extension setups, 2 events; 16,000 machines; Pi: 2 calls, 3 processes, 2 clients, 1 session end |
| `setup_reload` | the documented reload of the Shell, violated | the extension part of `desktop` |
| `snapshot` | indices, targets, recovery, spill file; a tree while it is read, what a client is given of it, values set and actions invoked; one part at a time | 3 objects in two windows of one process and one of another, one mortal, one process without a reported pid; 8 elements, budgets of 3 to 9 nodes and 2 to 9 levels, 1 change and 1 failing read; all trees of 5 nodes, budgets of 2 and 4; texts to 3 scalars read in chunks of 2, 1 retry, 2 acts of the application |
| `snapshot_retry` | the documented pid check, violated | the cache part of `snapshot`: 3 objects, two of one window before and after its process came back |
| `disk_files` | tokens, pictures and spilled trees under every fault, one part at a time | 3 starts, 2 tokens issued; 2 captures, one picture name of the user's Pictures and one elsewhere, 2 inodes, 2 acts of the user, one capture with the whole ladder and one by GNOME's tool alone; 3 servers, 2 pids, 2 files each |
| `text_input` | libei: answers, refinement, the two views of devices, no thread left behind; paste: texts and clipboard under late and refused calls; one part at a time | 3 sends, 2 devices, 5 device changes; 2 pastes of one server or of two, 1 copy, every fault but a slow application |
| `capture_hold` | no picture of the overlay, answers reach those who wait, the overlay comes back | 3 captures of two servers, 2 actions, queue of 2; slow overlay, cancellation, killed servers, idle exit, crash |
| `window_focus` | nothing left behind, focus reported truly, the call ends | 1 call by window id, 5 scripts, 2 queries before the deadline, 2 windows, one known to another backend; every fault |
| `input_backends` | one route per call, true answers, the aimed window, private text; keys on Hyprland; programs that are run; windows named by what they show or by an id; COSMIC's helper; one part at a time | 12 hosts, 2 calls, 1 change around them (2 in `routes_prompt`), 2 windows; 5 texts of 3 presses in chunks of 2; 1 async and 1 blocking run; 2 windows of 4 labels, 3 changes; 2 sessions, 3 windows, 2 changes of sessions; 2 windows, 2 outputs, 4 layouts, 2 changes, the bursts of windows and outputs in one order (`InOneOrder`) |
| `routes_prompt` | the documented focus before input, violated | a capture that asks for consent |

*Why the bounds are enough.*  Three calls give a cancelled call whose cleanup
runs, the next owner, and one that waits; three sessions a condemned one, its
successor and the other device kind's.  Two controls are a modifier and a key,
two strokes a repetition that finds the guard disarmed once.  Of the diagnostics
bounds, TTL 2 lets a report be fresh, at its limit and past it, and the change
and the invalidation fall before or after a probe's read.  In the
snapshot runs an identifier, which is not looked up in the cache, is tried while that is
empty, and objects vanish only between being resolved and being invoked, where it is found
out.  The trees of the instance have one index, so which of several matches a selector
prefers is settled not by the run but by the theorems of Trees_proof, which hold for
all trees.  Monitors are rearranged after the first picture or call of
`input_faults` has begun, since before it nothing has been read, and not after the last has
ended.  In the
snapshot runs one observation slot and one action slot interleave at every
await; two actions never do, as they hold the lock, and a second concurrent
observation only repeats what one does between two steps of an action.

*Exceptions.*  What the code does not protect from is recorded where it happens
(`mishap` in RestoreToken, `disturbed` in KdeClipboard, `ended` in CaptureHold), and
a property that needs its absence says so; so one run checks it with every fault,
up to the moment at which the exception begins.

*Faults.*  In `input_faults` the cleanup's release and close may be lost and
commands may leave a button down; there the refinement would be false, since no
program can release what the compositor does not take, so `input_exclusive`
keeps those faults out and says what holds when the compositor answers.

In the `desktop` run two hydrations let the second use what the manager learned after
the first; three switches let the user turn the key off twice and a command fail once;
two setups of the extension follow or overlap each other, and two events are a logout,
a toggle, a package or a failure before, between or after them.  The machines are every
combination of what the input lists depend on, every override of the keyboard with every one of the pointer and every portal, and
every combination of the rest.

Three sends let one be abandoned in the queue, one be in the worker's hand and
one follow; five device changes are two devices offered and resumed, and one of
them paused or lost.  Three captures are two of one server and one of another;
with two actions the overlay is shown, hidden and shown again, also by a successor
of one that crashed.  Two pastes of one server let the late writes of one meet the
read of the next, a third is another server's.  The slow application is left out of
the run: all it can do is to disturb a paste.

Five scripts are those of one focus request: two lists, the activation and two
queries, one before the deadline and one begun after it (`MaxQueries` stands for
the 20 rounds of 50 ms that fit into a second; a third round repeats the second).
All of it is one caller's: transactions share nothing but KWin's `start`, which a
dropped transaction of the same caller shares with the next one.  The user's
switches, and windows that close, are left out when no call of the instance could
tell.

*Fairness.*  `WF(Progress(c))`: the runtime polls every woken future, and every
await of an input call has a limit: portal events `INPUT_TIMEOUT`, the
cleanup `RELEASE_TIMEOUT`, portal requests 120 s, commands their own.  `Begin`
and cancellation are the client's and get no fairness.  `CloseSession` and
`Disconnect` are spawned tasks and the compositor's own clean-up.  For
the accessibility guard, `WF(GuardStep)`: its commands have a limit and its timer
ticks every second; the user, the monitor and setups get none.
For the libei worker, `WF(WorkerStep)`: its thread runs, its start-up has a limit
of 5 s, and afterwards it is woken by the channel it waits on; the compositor and
the sender get none.  For a paste, `WF(Progress(p))`: the calls to Klipper, the
chord and the delay all have limits; Klipper itself gets none.  For captures,
`WF(Hold(c))`: asking, waiting and settling have limits, and so has every way of
taking a picture; `WF(OverlayStep)`: its event loop runs the animation timer as
long as it is active; and the compositor drops what was removed.  For a focus
request, `WF` of `Proceed` or `Deadline` and of `ServerSteps`: every await of a
transaction, the cleanup's `unloadScript` and the transition allowance have limits;
KWin, the user and cancellation get none.

*Deadlock* is checked in `input_faults`, `input_exclusive` and the violation
`snapshot_retry`.  The systems of the other runs may stop: an EIS connection ends for good;
each paste, capture, focus request, walk of a tree and setup of the instance is made a
bounded number of times.  `input_faults` does not stop because its input calls are made
again and again; its parts about points, which end, may stutter there (`PointsEnd`).

## 5. Proofs

Every theorem is proved for all values of the constants that satisfy the named
assumption of its module (`ConstantsAssumption`, `DesktopAssumption`, ...), and no proof
is left open.  TLC checked each inductive invariant on an instance before it was proved.

### InputOperations_proof

`TypeCorrect` and `InputIsExclusive` hold for every set of calls, sessions and controls,
every number of strokes and every set of faults.  `OneSender` is not inductive: that
two calls cannot send rests on each sender holding a clone of the lock's guard
(`holders`) and on all clones belonging to one call.  The inductive invariant
`IInv` adds: all clones belong to one call; a running task, an inline future and
a cleanup each imply the clone they hold; what the states of `pc`, `job`
and `cleanup` imply about each other; and that an armed guard has a running
future.  The proof has one step per action; the four destructor paths share
lemmas about `Return` and `DropReleaseGuard`.

`InputStaysSound` (`InputIsSound`) is that and `SessionsStaySound`, which is about what holders cannot show: which
session a call sends on, which are closed, and which still hold controls down.
Its invariant (`SafeInv`, by `SafeInvariance`) adds which stages of a call go together
(`Stages`, `TasksRun`), that a session has been taken out of use before a cleanup works
on it or a task closes it, that no running future sends on a session that is being closed
(`SessionsInv`), and `ReleaseCovered`: what is down on a usable session is on the
list of a running guard.

`LockIsExclusive` proves the refinement of **ExclusiveInput**: each step of
InputOperations is a step of the abstract lock or leaves it alone.  Besides, it needs that
whatever is down on *any* session belongs to a guard or a cleanup that still holds the
lock (`HeldByOperation`), or to a command that runs (`HeldByCommand`).  It supposes that
no close fails and that no command is killed between press and release (`"close"` and
`"command"` are not among the faults; `input_exclusive` leaves them out too): with either
a button stays down after its owner has gone, and no program can
release what the compositor does not take.  Lost releases and revoked sessions are allowed.

The third part is about CapturePoints and KwinElements, for any monitors, scales, windows and
number of changes.  `DesktopAssumption` says of the constants that each arrangement shows a
monitor, that sizes and scales are positive and that coordinates are those of a screen (`Reach`);
`ElementAssumption` that the content of a window is within its frame.

`ElementsStayHit` (`ElementIsHit`): the invariant (`ElementInv`) follows a click from the tree
to the device.  It says of the point KWin's answer gave that it was in a window of the
process that was shown then, and the element while the tree was right (`InOwner`,
`Aims`), of the pixel made of it that it shows that point in a picture of the
size the click will be made for (`Lands`), and of a device that is ready that it has that size;
each holds until something has changed since KWin was asked.  A pixel is the rounded quotient
of a product, and so is the way back; `PixelReturns` bounds the two roundings together, and
the bound is why a scale below 1, and one that is only almost that of the picture, has a
slack of a point.

`CropsShowWindow` (`CropIsWindow`): the pixels that are cut out are those that show some of the
window.  Left and top are rounded down and right and bottom up (`OutwardShows`), the cut is
clipped at the picture (`ClipCells`), and what is clipped is off the screen; where the server's
scale is a little less than the true one a row and a column more are cut; the invariant
(`CropInv`) says that the bounds and the size a call works with are still those of the window
and of its picture while nothing was moved.  `ButtonComesUp` (`ButtonIsUp`) is about every way a step of a click or a drag may fail.

The first attempts failed for reasons TLC then showed on instances that were added to the
run.  `ElementIsHit` was false for a window that had moved and whose toolkit tells frames, for
frames the code takes with its tolerance, and below scale 1.  The picture of a Sway desktop
below scale 1 had been modelled too small.  `LandsAsPictured` was false at the last pixel of a
monitor at scale 1.5 whose neighbour is offset.  The model and the properties now say what the
code does.

### InputBackends_proof

Five of the modules that `input_backends` checks.

InputRoutes: `RouteTypes`, `OneRoutePerCall` (`AnswersForItsRoute`) and `SecretNeverShown`
(`SecretStaysPrivate`) hold for any hosts, fields and requests.  A call has many rungs
still to ask when one acts, so "one route" is not inductive; what is: nothing reaches
the desktop before the call is answered (`QuietBefore`), the rung tells the tool
(`RungOfTool`), and a call in mode "argument" has the field that was found plain still
in front of it (`ArgumentIsPlain`).  `UndisturbedReachAim` says for which calls the
window is the one meant whatever else happens: all keyboard calls, and every call where
captures do not ask for consent; `AimIsReached` is its corollary for `ReachesAim`, whose
negation is the finding `routes_prompt`.  `AimInv` follows the window in front from rung
to rung; the case that needs care is a scroll that falls back to ydotool after the
portal's dialog, safe only because a scroll for a window has been given a point by then.

Toplevels: `NamedGetsFocus` (`NamedIsActivated`), for any finite set of windows and any
labels; that the set is finite is an assumption, since the code counts the candidates.  The
history variables `sole` and `kept` say what was seen while the worker looked; the
invariant, that whatever is asked of the compositor is among it (`AskedIsNoted`), that
the window that matches alone while the worker collects has been noted (`Noted`), and
that a worker that has answered asks nothing (`Silent`).

CommandRunner: `OnlyOwnGroups`, the safety half of `RunEndsWhole`: the number of a group
cannot be another's before its leader has been waited for, and that is the last thing a run
does with it (`OwnNumber`); after the kill nobody is left who could start a helper
(`GroupGone`).

HyprlandKeys: `HyprAnswersTruly` (`HyprAnswerIsTrue`), for any texts and any number of presses
in a chunk.  A chunk's request that is late is the first of those the compositor has
not handled, and until it is handled the window has seen what the call counts as delivered;
afterwards at most the chunk as well, and what is held is to be released (`Counted`).
Of a reply that is exact the proof computes what took effect (`FirstTookEffect`): half the
events, rounded up, are presses (`OddsCount`, a bijection), and only the last can be held.
That there is a first word that is not "ok" is the least element of a set of numbers,
which the library gives for well-founded relations (`Least`).

IpcWindows: `ListedIsFocused` (`FocusesWhatWasListed`), for any number of sessions and windows.
The window that was listed has the id of the call while it is open (`HasId`), and open windows
have different ids, so what is selected is that window, or a later one once it has closed;
an id of the kinds that are counted was given before the call listed its windows
(`IdWasGiven`), so no window that opens later has it; X11 and container ids are on either side
of the base; and a session that ends does not come back under its name (`NamesAreNew`).

### Trees_proof

SnapshotCache: `CacheStaysShown` and `ActionsStayMeant`, from `IndexKeepsMeaning` and
`ActionsStayInTarget`, are the safety properties of the cache, for any objects, windows
and processes, and `TypeCorrect` its type invariant. The invariant says what a call
knows at each stage (`CallInv`): an action holds the input lock from its first look at
the cache to its last invocation, and every writer of the cache needs that lock, so the
tree it checked is the one it resolves its element in; what the check concluded from the
tree's pid and window is true of the tree's objects, because a tree is of the process
and the window it is recorded for (`Fits`); and an object found again after a failed
invocation is of the process or the window that the tree's scope names (`Pinned`,
`Recoverable`). `SnapshotAssumption` has it that indices, selectors and objects are
different things: the code keeps them in parameters of different types.

TreeReading: `TreesStayRead` (`TreesAreRead`), for any finite set of elements, any trees of
them, any budgets, lost answers and changes meanwhile.  `TreeInv` is a conjunction of named
parts: the tree the application has stands (`TreeStands`: nobody is a child of two), the
queue is no longer than its budget and was paid for (`QueueFits`, `ReadsFit`), what has been read of the current element is that element's own (`GotIsOwn`,
`KidsAreRead`), and above all `ReadSoFar`: whoever has been there all the time, below
the root in the tree that never moved, has been read or is below somebody who waits in the
queue or is among the children being read, unless something was left and `cut` says so
(`Covers`).  It is kept because what is dequeued is replaced by its own children; at the end
nothing waits (`EndIsWhole`).  How deep an element lies is a recursive function of
a number; its facts are proved by induction over the naturals, in the form of sets
(`SetInduction`, `LeastOf`), which needs no theorem with an operator for a parameter.
`TreeAssumption` has it that an object has one parent, which is how AT-SPI defines
`Accessible.Parent`, and that the parts of the model's tree are finite.

TreeResult: `TreesStayUsable` (`TreeIsUsable`), for any trees, sizes of nodes and budgets.  The
central notion is a tree that lists some objects of the tree that was read (`Listed`): in its
order, each below the last of those that are above it there.  What is above a node is in one
line (`AboveInLine`), so the nearest parent that stays is the last of what stays above
(`NearestIsLast`), and a tree cut down again lists what is left of the first
(`CollapseListed`); compaction and interactive_only are two uses of that.  A node is below a
live region after compaction if it was before (`LiveRegionIs`), because a region with a child
that was counted stays, and one that loses all its children has nothing below it
(`NoChildNothingBelow`).  The invariant of the pages is that they are the beginning of the
tree, at least a node each (`ResultInv`).  `ForestAssumption` says what a tree that was read is:
nodes at their positions, after their parents; it says nothing of how many children a
node claims to have.  The functions that look up the chain of parents exist because each
value is determined by one before it (`ByParents`).  The attempt found that `NothingUsedIsLost`
as it was checked before held only of trees with all children counted: it now names
the region whose count failed, and the run has such trees.

ElementWrites: `WritesStayTold` (`WritesAreTold`), for any texts, chunks, lists of actions and
changes by the application.  A text is the sequence of its UTF-16 units, and who counts
characters counts those units that do not end a pair (`Before`), so what the peer answers and
what the reader compares with are pieces of such sequences, however each of them counts
(`BeforeFits`, `NoPairs`).  The invariant: while the field does not change, what was read of it
is the text, and the offsets of both are at the same unit (`ReadAlike`, `MatchIsSame`); at the
end they are at the last one of both (`ReadToEnd`); and the text itself matches chunk by
chunk, because no chunk ends within a pair (`SameMatches`).  `WritesAssumption` has it that a
text is well formed, as a Rust `str` is, and that what a peer returns for half a pair is no
character of the texts.

### WindowFocus_proof

`NothingLeftBehind` and `FocusTypeCorrect` hold for any callers, scripts, windows and
faults.  `NothingLeft` speaks of transactions that
have ended; inductive is what holds of each one at every step (`LeftBehind`): an
object or file that exists is on the record of a transaction not yet done, a script
in KWin, or about to be loaded, has its unload asked for or belongs to a
transaction that will ask, and nothing is on record before it is put in place.  Every
step is an instance of one of four lemmas: clean up, move, stand still, begin.

`FocusIsTold` (`FocusAnswerIsTrue`) is about the answer of a focus request while the
user, KWin and other requests switch windows.  What is true at the end was seen at some
time of the call, so the invariant speaks of the past through the history variables `seen`
and `landed`: what the call has concluded from the answers it heard (`CallKnows`), and
what the query it waits for may report (`QueryKnows`): a focus that was seen, and, if the
focus has been at the target since before the deadline and the query began after it, that
one.  A step of the script engine changes what one caller's script answers only
(`HeardOf`, `Apart`).

### DiskFiles_proof

RestoreToken: `TypeCorrect`, `TokensInOrder`,
`UnusableIsForgotten` and `FileStaysUnused` (`FileUnused`).  That a start in possession of
the permit is alone with the store (`Exclusive`) is an invariant of its own; with it, every
token a permit holder was given is newer than the file (`Newer`), useless grants are
known by their tokens until they are dropped (`UnusableKnown`), the token a start takes to
the portal is the one in the file (`MineIsFile`), and a used token is in the file only
while the start that used it is about to replace it (`UsedReplaced`).

ScreenFiles: `UserFilesStay`, the safety half of `OnlyItsPictureGoes`.  What a cleanup
deletes is a path of its own or a file that was new to its capture when it came to its name:
a name that is proven new is not among those noted before (`NewName`), and the inode that
the capture holds open is borne by no older file (`Pinned`) and by one name only (`OneName`);
the steps of the user include moving a file (`MovesInv`).
It is assumed that the temporary paths, whose names have a random part, are none of the user's.

SpillDirectory: `SweepStaysExact` (`SweepIsExact`).  A file with the start time of a running
server bears its pid as well (`Owned`), and a server in the middle of a file is
past the number of the one it names (`Ordered`).

### Desktop_proof

Five modules of the desktop around the input calls.

DiagnosticsCache: `TypeCorrect`, `SetupVisible`, `ReuseFresh` and their
conjunction `Current`.
The invariant says what an entry's generation means: an entry whose generation
is still current was read after the last setup returned, because every return
bumps the generation; the same must be carried for a probe in flight, whose
generation was taken before it read.

ExtensionSetup: `SetupStays` (`SetupLasts`), for any number of setups, of events and of
states of the copies.  A setup reports what it found some steps before; the invariant
follows the calls that nothing came between (`Smooth`).  They have all found the same
package, so none removes what another wrote, and what each has written or removed still
stands when it reports (`Stands`); no such call runs beside one that something came between.
The proof did not go through for the property as it was first stated, and a run with
three events gave the reason: a packaged setup told of another data directory than the
Shell's removes nothing from the Shell's, where an unfinished user copy may stand of which
neither the call nor the Shell, which imported nothing from it, could say so.  The
property now leaves that disk out; where the directories agree it says what it said.

PiClient: `CallsStayTold`, which is `CallsAreTold` and the safety half of `NoServerStays`,
for any number of calls, clients, processes and ended sessions.  Three facts carry it.  Only
one call waits at a time, which is the sequential mode the extension registers its tools
with (`OneUnanswered`).  Every client but the session's is closed, so what an older session
left behind finds its client closed (`ClientsInUse`).  A live process is the one its client
holds or one whose connect is under way, and such a connect is its client's or ends in
the closing of the process (`ProcsOfClients`).

SessionEnvironment: `NothingGrafted` (`NeverGrafted`), for any processes of a nested session
below those of the desktop that hosts it, which is the assumption (`HostAbove`) and the case
the code's comment names; it says nothing of a Wayland session nested in an X11 one.  A call
walks up the processes while they end, and the walk can end early; the property is not
inductive, since the type of the nested session could be found after the host's display.
What is: a call comes to each variable of the nested session before it comes to the host's
display (`NestedFirst`), and once that is taken none of the former is left (`NoneLeft`).

DoctorReport: `ReportStaysRight` (`ReportIsRight`), for every machine in the product of what
the probes can tell, where the run takes 16,000 of them.  Both lists are built by pushes in a
fixed order: each keeps the list sorted by a rank (`Pushed`), so that the whole list is
known (`WindowsSorted`, `InputsSorted`), its order and all it holds.

### TextInput_proof

EisInput: `TypeCorrect`, `AnswersTrue` and `ChannelImplemented`,
the refinement of EventChannel, for any number of sends, devices and device
changes.  The invariant ties the worker's hand to the senders: at most one send
awaits, an event in the queue or in the hand has been sent by a call, none is in
both, and a result is true of the event in the hand.  Each step of EisInput is
then a step of EventChannel or leaves its four variables alone.

`EmittedInEffect` (`EmittedTakesEffect`) needs what the inbox says: of a device that
does not take input, every resume the worker has read or will read is followed by a
pause, a removal or a disconnection it has not read yet (`Informed`), so with an empty
inbox what the worker holds for active does take input.

KdeClipboard: `OwnTextIsPasted`, the safety half of `PastesAndRestores`, for any number of
pastes and servers, with timeouts, refusals and calls that arrive late.  Klipper takes its
messages in order: when the read that opens a paste is answered, everything an earlier
paste left on its way has been taken (`Queued`), so until this paste restores nothing but its
text is on the clipboard (`Shown`), unless it meets another server's or the user's copy.

### Observations_proof

CaptureHold: `NeverPictured` and `TypeCorrect` hold for every set of faults;
the first excepts an overlay that crashed.  The invariant follows an answer: what a waiting capture finds in its
socket was sent after it took the lock, since it emptied the socket then
(`Answers`); the handler that sent it had removed the surfaces (`Hidden`); and
nothing is drawn while somebody holds the lock (`Quiet`).

CosmicHelper: `HelperStaysTrue` (`HelperIsTrue`), for any windows, outputs, layouts and
number of changes.  An answer depends on events that were sent long ago and may come while
others are unread, so nothing said of the present of both sides is inductive.  The
invariant is about the whole way of the helper's view, from what it knows now over each
event on the wire (`Leads`): every view on the way is true of something that was so
(`ViewIsTrue`), and the last is what there is now, but for the bursts that are owed
(`Ending`).  Reading an event takes the first step of that way, sending a burst makes it
longer, and a change of the desktop only adds to what was so (`Grows`).  That a burst is read
in the middle is covered by the truth of every view: a window with a handle that has been
seen without the focus was not the only one to have it, a layout in the middle of its
burst is not `ready`, and a place is told only with an origin that put the window where it
was (`RecordIsTrue`, `LayoutShows`, `PlaceIsTrue`).  Each burst has a lemma that says what
it does to a view and that it keeps the way true (`AnnouncesTold` to `HeadBurstTold`).

### Only model-checked

Liveness is out of the prover's reach (`ENABLED`, fairness): `QueuedCallsProceed`,
`PressedComesUp`, `AbandonedWorkerEnds`, `NeitherIsStuck`, `CallEnds`, `AccessStaysOn` and the
liveness halves of `NoServerStays`, `OnlyItsPictureGoes`, `RunEndsWhole` and
`PastesAndRestores`.

Two conjuncts of `PointsAreMeant` stay with TLC.  `LandsAsPictured` relates every route of a
point to every note that may be made of it, each with roundings of its own, some of them
twice; `WarningIsSo` compares areas that are sums over a set of monitors, and a sum
over a set is a fold, whose value no installed prover can find by induction.

## 6. Findings

`snapshot_retry`: `perform_element_action_with` checks the call's target before
its first invocation only.  If the owner of the cached object cannot be looked
up, as when the object has just left the bus, the element passes; the invocation
fails, the recovery re-reads the scope the *snapshot* was taken with, and the
element found there is invoked although its process (the pid that matched the
refreshed tree) is not the one the call named.  The parameter's documentation
says "an element another process owns is refused" (`src/server.rs:4426`).

`routes_prompt`: the description of `click` says of a window target "raised and focused
first [...] nothing is sent when focus cannot be verified" (`src/server.rs:1213`).
The window is focused, then `ensure_abs_pointer` captures the screen to size a uinput
pointer that does not exist yet; that capture may open a consent dialog, which takes
the focus, and the click is emitted without asking for the focus again, as the portal
route does after its own dialog.

`setup_reload`: whether the Shell must be reloaded is answered from whether the
extension is enabled now, not from what the Shell has imported since log-in.  An old
user copy that was imported and then turned off is replaced, turned on, and reported as
active with `requires_shell_reload=false`, while the Shell keeps the old code
(`src/gnome_extension.rs:114`: "Enabling an extension does not replace the object cached
by GNOME Shell.").  A second setup after one that did ask for a reload answers the same.

Two comments say more than the code does, and no run is about them.

"Lists are ordered best-first and mirror the order the tool actually tries them"
(`src/diagnostics.rs:312`) is so of the windows, and of the calls that have a second choice
(`WindowsInOrder`, `FallbacksInOrder`); of the whole list of input backends it is not:

* with `COMPUTER_USE_LINUX_FORCE_YDOTOOL_POINTER`, `COMPUTER_USE_LINUX_FORCE_PORTAL_POINTER` or
  `CU_DISABLE_ABS_POINTER` the report goes on preferring `abs_pointer` where there is uinput
  (`src/diagnostics.rs:345`), which `ensure_abs_pointer` then skips (`src/server.rs:1064`);
* on COSMIC in a session without a type the report wants the type to know COSMIC
  (`is_cosmic_wayland_platform`) and prefers `abs_pointer`, and the server does not use it
  (`UntypedCosmic`);
* an override of the keyboard may name a backend that is not there: input is said to be
  possible by another one that no keyboard call takes (the exception in `InputAsSaid`);
* on Plasma text is pasted, or typed by ydotool if the clipboard cannot be read, in whichever
  order the list has the portal and ydotool.

"The physical capture rect is a safe fallback: [...] it can only under-warn, never
false-positive" (`src/server.rs:6291`) is not so of a picture from before the desktop grew,
or where monitors begin left of 0 and bounds are not told in pixels of the picture: a
window that is all on the screen is said not to be.  `WarningIsSo` excepts the older
picture.

## 7. Limits of the models

* WindowFocus resolves targets by window id and by application; titles, classes,
  pids and terminals select among the same windows.  One backend that answers at
  once stands for all but KWin, and GNOME Introspect's passive verification and the
  exact-X11 list are left out.  A server that exits in the middle of a script
  transaction leaves the file, and KWin the script: no code runs then.

* Two servers that paste at once, a server that exits during the delay, and a
  user who copies during a paste all lose the user's clipboard.  Nothing in the
  repository promises otherwise; the properties of KdeClipboard except it (`disturbed`), and the
  hazards say so.
* The overlay of CaptureHold is the one with layer surfaces.  If it is killed
  while it is shown, the next capture does not wait for the compositor; the property
  excepts that (`ended`), and the hazards say so.
* With two EIS devices of one interface, a press and its release may go to
  different devices (`src/ei_input.rs:242` takes the first active one).
  EisInput does not record what a device holds.

## 8. Not modelled

Terminal inspection, output formats and pixels, drawing, packaging, the test support.
InputOperations takes the route of a call, its points and the segments of its text as
nondeterministic choices: InputRoutes has the choice of the route, CapturePoints and
KwinElements the points.  See `components` in `PROJECT.json` for each.
