--------------------------- MODULE InputOperations ---------------------------
(***************************************************************************)
(* The input tools of the server (click, drag, scroll, press_key,          *)
(* type_text): how one tool call comes to own the cross-backend input      *)
(* lock, which future or task performs its input, and what happens to the  *)
(* lock, the portal session and the controls still held down when the call *)
(* is cancelled or an event fails half way.                                *)
(*                                                                         *)
(* The runtime is single threaded (main.rs, flavor = "current_thread"), so *)
(* the code between two awaits is one atomic step.  Dropping a future runs *)
(* all its destructors in one step too.                                    *)
(*                                                                         *)
(* A slot c of Calls stands for up to three activities of one tool call:   *)
(*   pc[c]       the request future (the dispatch_* function);             *)
(*   job[c]      the input future: run inside the request future ("inline")*)
(*               or in a task detached by run_cancellation_safe_guarded;   *)
(*   cleanup[c]  the task spawned by a release guard's destructor.         *)
(* Element indices, coordinates, messages and window focus are abstracted  *)
(* to whether the step that computes them succeeds.                        *)
(***************************************************************************)
EXTENDS Integers, Sequences

CONSTANTS
    Calls,       \* slots of concurrently served tool calls
    Sessions,    \* identities of remote desktop portal sessions
    Devices,     \* the session kinds in use, a subset of {"pointer", "keyboard"}
    MaxKeys,     \* bound: controls one operation holds at a time (modifiers and key)
    MaxStrokes,  \* bound: press/release rounds of one operation (clicks, characters)
    Faults,      \* faults of the desktop: "release", "close", "command", "revoke"
    None,        \* no call, no session, no device
    Local        \* the controls of the uinput, XTEST and wtype routes

ASSUME ConstantsAssumption ==
    /\ Devices \subseteq {"pointer", "keyboard"}
    /\ MaxKeys \in Nat \ {0}
    /\ MaxStrokes \in Nat \ {0}
    /\ None \notin Calls \cup Sessions \cup Devices
    /\ Local \notin Sessions

VARIABLES
    queue,       \* calls waiting in ComputerUseLinux::input_operation_lock, first come first served
    holders,     \* live clones of the lock's guard: <<call, activity>>
    portalLock,  \* the call whose input or cleanup holds the global portal_input_lock, or None
    pc,          \* state of each request future
    job,         \* state of each input future
    cleanup,     \* state of each release cleanup task
    sess,        \* the session an activity of the call has cloned, or None
    dev,         \* the session kind a call is starting, or None
    armed,       \* how many controls the release guard will release
    left,        \* strokes the input future has still to begin
    valid,       \* sessions whose AtomicBool is true
    live,        \* sessions open in the compositor
    closing,     \* sessions with a close task spawned by invalidate_and_close
    cache,       \* portal_pointer_session and portal_keyboard_session
    held         \* controls the desktop sees pressed, per session and for Local

lockVars    == <<queue, holders, portalLock>>
callVars    == <<pc, dev>>
jobVars     == <<job, armed, left>>
sessionVars == <<valid, live, closing, cache>>
vars == <<lockVars, callVars, jobVars, cleanup, sess, sessionVars, held>>

Keys == 1..MaxKeys

\* Input futures that are past every check and may send events.
Sending == {"rising", "pressing", "releasing", "falling", "command", "commandDown"}
Guarded == {"rising", "pressing", "releasing", "falling"}
Finished == {"ok", "err", "refused"}

\* The lock, its clones and the sessions range over what the code can put there; an
\* operation never holds more controls than it was told to press.
TypeOK ==
    /\ queue \in Seq(Calls)
    /\ holders \subseteq Calls \X {"call", "task", "cleanup"}
    /\ portalLock \in Calls \cup {None}
    /\ pc \in [Calls -> {"idle", "queued", "prepare", "starting", "measuring",
                         "ready", "fallback", "awaiting", "inline"}]
    /\ job \in [Calls -> {"none", "wait", "check"} \cup Sending \cup Finished]
    /\ cleanup \in [Calls -> {"none", "release", "close"}]
    /\ sess \in [Calls -> Sessions \cup {None}]
    /\ dev \in [Calls -> Devices \cup {None}]
    /\ armed \in [Calls -> 0..MaxKeys]
    /\ left \in [Calls -> 0..MaxStrokes]
    /\ valid \subseteq Sessions
    /\ live \subseteq Sessions
    /\ closing \subseteq Sessions
    /\ cache \in [Devices -> Sessions \cup {None}]
    /\ held \in [Sessions \cup {Local} -> SUBSET Keys]

Init ==
    /\ queue = <<>>
    /\ holders = {}
    /\ portalLock = None
    /\ pc = [c \in Calls |-> "idle"]
    /\ job = [c \in Calls |-> "none"]
    /\ cleanup = [c \in Calls |-> "none"]
    /\ sess = [c \in Calls |-> None]
    /\ dev = [c \in Calls |-> None]
    /\ armed = [c \in Calls |-> 0]
    /\ left = [c \in Calls |-> 0]
    /\ valid = {}
    /\ live = {}
    /\ closing = {}
    /\ cache = [d \in Devices |-> None]
    /\ held = [r \in Sessions \cup {Local} |-> {}]

-----------------------------------------------------------------------------
(* The request future: waiting for the lock, preparing, choosing a route.  *)

Begin(c) ==
    /\ pc[c] = "idle" /\ job[c] = "none" /\ cleanup[c] = "none"
    /\ pc' = [pc EXCEPT ![c] = "queued"]
    /\ queue' = Append(queue, c)
    /\ UNCHANGED <<holders, portalLock, dev, jobVars, cleanup, sess, sessionVars, held>>

\* input_operation_lock.lock_owned(): a fair mutex, so only the first waiter gets it.
Acquire(c) ==
    /\ pc[c] = "queued" /\ queue # <<>> /\ Head(queue) = c
    /\ holders = {}
    /\ queue' = Tail(queue)
    /\ holders' = {<<c, "call">>}
    /\ pc' = [pc EXCEPT ![c] = "prepare"]
    /\ UNCHANGED <<portalLock, dev, jobVars, cleanup, sess, sessionVars, held>>

\* Mutant: the cleanup task gets no clone of the guard.
CleanupGuardForgotten(c) == {}

\* The clone of the lock's guard that an armed release guard hands to its cleanup.
CleanupGuard(c) == IF armed[c] = 0 THEN {} ELSE {<<c, "cleanup">>}

\* The request future ends: its guards go, and a finished task's result with them.
Return(c) ==
    /\ pc' = [pc EXCEPT ![c] = "idle"]
    /\ holders' = (holders \ {<<c, "call">>, <<c, "task">>}) \cup CleanupGuard(c)
    /\ job' = [job EXCEPT ![c] = "none"]
    /\ left' = [left EXCEPT ![c] = 0]
    /\ dev' = [dev EXCEPT ![c] = None]
    /\ sess' = IF armed[c] = 0 /\ cleanup[c] = "none" THEN [sess EXCEPT ![c] = None] ELSE sess

\* clear_portal_*_session: close s once, and forget it if it is the cached session.
ClearSession(s) ==
    /\ valid' = valid \ {s}
    /\ closing' = closing \cup (valid \cap {s})
    /\ cache' = [d \in Devices |-> IF cache[d] = s THEN None ELSE cache[d]]
    /\ UNCHANGED live

\* An early return before any input: focus, target or element checks failed,
\* the pointer device was replaced, or no backend may take the action.
Refuse(c) ==
    /\ pc[c] \in {"prepare", "ready", "fallback"}
    /\ Return(c)
    /\ UNCHANGED <<queue, portalLock, armed, cleanup, sessionVars, held>>

\* The session cannot map the point (portal_coordinate_error).
RefuseAndClear(c) ==
    /\ pc[c] = "ready"
    /\ ClearSession(sess[c])
    /\ Return(c)
    /\ UNCHANGED <<queue, portalLock, armed, cleanup, held>>

\* xdotool, the absolute pointer, wtype or ydotool: the guard moves to a task.
RunCommand(c) ==
    /\ pc[c] \in {"prepare", "fallback"}
    /\ pc' = [pc EXCEPT ![c] = "awaiting"]
    /\ job' = [job EXCEPT ![c] = "command"]
    /\ holders' = (holders \ {<<c, "call">>}) \cup {<<c, "task">>}
    /\ UNCHANGED <<queue, portalLock, dev, armed, left, cleanup, sess, sessionVars, held>>

\* pixelflux_send: the task has one clone of the guard, the call keeps another.
RunPixelflux(c) ==
    /\ pc[c] = "prepare"
    /\ pc' = [pc EXCEPT ![c] = "awaiting"]
    /\ job' = [job EXCEPT ![c] = "command"]
    /\ holders' = holders \cup {<<c, "task">>}
    /\ UNCHANGED <<queue, portalLock, dev, armed, left, cleanup, sess, sessionVars, held>>

UseCachedSession(c, d) ==
    /\ pc[c] = "prepare" /\ cache[d] \in valid
    /\ sess' = [sess EXCEPT ![c] = cache[d]]
    /\ pc' = [pc EXCEPT ![c] = "ready"]
    /\ UNCHANGED <<lockVars, dev, jobVars, cleanup, sessionVars, held>>

InitLockHeld == \E c \in Calls : pc[c] \in {"starting", "measuring"}

\* ensure_portal_*_session: an invalid cached session is dropped and a new one
\* started, one start at a time (portal_session_init_lock).
EnsureSession(c, d) ==
    /\ pc[c] = "prepare" /\ cache[d] \notin valid
    /\ ~InitLockHeld
    /\ cache' = [cache EXCEPT ![d] = None]
    /\ dev' = [dev EXCEPT ![c] = d]
    /\ pc' = [pc EXCEPT ![c] = "starting"]
    /\ UNCHANGED <<lockVars, jobVars, cleanup, sess, valid, live, closing, held>>

Unreferenced(s) ==
    /\ \A c \in Calls : sess[c] # s
    /\ \A d \in Devices : cache[d] # s
    /\ s \notin closing

NewSession(c, s) ==
    /\ pc[c] = "starting"
    /\ Unreferenced(s) /\ s \notin live
    /\ sess' = [sess EXCEPT ![c] = s]
    /\ valid' = valid \cup {s}
    /\ live' = live \cup {s}
    /\ UNCHANGED <<lockVars, jobVars, cleanup, closing, held>>

\* A pointer session is cached only after capture_space_rect has been awaited.
StartPointerSession(c, s) ==
    /\ dev[c] = "pointer"
    /\ NewSession(c, s)
    /\ pc' = [pc EXCEPT ![c] = "measuring"]
    /\ UNCHANGED <<cache, dev>>

StartKeyboardSession(c, s) ==
    /\ dev[c] = "keyboard"
    /\ NewSession(c, s)
    /\ pc' = [pc EXCEPT ![c] = "ready"]
    /\ cache' = [cache EXCEPT !["keyboard"] = s]
    /\ dev' = [dev EXCEPT ![c] = None]

CacheSession(c) ==
    /\ pc[c] = "measuring"
    /\ cache' = [cache EXCEPT !["pointer"] = sess[c]]
    /\ pc' = [pc EXCEPT ![c] = "ready"]
    /\ dev' = [dev EXCEPT ![c] = None]
    /\ UNCHANGED <<lockVars, jobVars, cleanup, sess, valid, live, closing, held>>

\* Consent denied or timed out: an error, or for scroll and for a session that is
\* not Wayland another route.
StartFails(c) ==
    /\ pc[c] = "starting"
    /\ Return(c)
    /\ UNCHANGED <<queue, portalLock, armed, cleanup, sessionVars, held>>

StartFallsBack(c) ==
    /\ pc[c] = "starting"
    /\ pc' = [pc EXCEPT ![c] = "fallback"]
    /\ dev' = [dev EXCEPT ![c] = None]
    /\ UNCHANGED <<lockVars, jobVars, cleanup, sess, sessionVars, held>>

\* Portal click, drag, chord and text: the input future is part of the request.
RunInline(c) ==
    /\ pc[c] = "ready"
    /\ pc' = [pc EXCEPT ![c] = "inline"]
    /\ job' = [job EXCEPT ![c] = "wait"]
    /\ \E n \in 1..MaxStrokes : left' = [left EXCEPT ![c] = n]
    /\ UNCHANGED <<lockVars, dev, armed, cleanup, sess, sessionVars, held>>

\* Portal scroll (no stroke) and the KDE clipboard paste (one chord) are detached.
RunPortalTask(c) ==
    /\ pc[c] = "ready"
    /\ pc' = [pc EXCEPT ![c] = "awaiting"]
    /\ job' = [job EXCEPT ![c] = "wait"]
    /\ \E n \in 0..1 : left' = [left EXCEPT ![c] = n]
    /\ holders' = (holders \ {<<c, "call">>}) \cup {<<c, "task">>}
    /\ UNCHANGED <<queue, portalLock, dev, armed, cleanup, sess, sessionVars, held>>

-----------------------------------------------------------------------------
(* The input future on a portal session.                                   *)

Detached(c) == <<c, "task">> \in holders

\* The clipboard could not be read or replaced, so no chord is sent.
PasteRefused(c) ==
    /\ job[c] = "wait" /\ Detached(c) /\ left[c] = 1
    /\ job' = [job EXCEPT ![c] = "refused"]
    /\ left' = [left EXCEPT ![c] = 0]
    /\ UNCHANGED <<lockVars, callVars, armed, cleanup, sess, sessionVars, held>>

TakePortalLock(c) ==
    /\ job[c] = "wait" /\ portalLock = None
    /\ portalLock' = c
    /\ job' = [job EXCEPT ![c] = "check"]
    /\ UNCHANGED <<queue, holders, callVars, armed, left, cleanup, sess, sessionVars, held>>

\* ensure_valid, ensure_current_layout and input_proxy succeed; a release guard exists.
Checked(c) ==
    /\ job[c] = "check" /\ sess[c] \in valid
    /\ job' = [job EXCEPT ![c] = "rising"]
    /\ UNCHANGED <<lockVars, callVars, armed, left, cleanup, sess, sessionVars, held>>

\* Mutant: nothing ends the presses of an operation.
PressUncounted(c) ==
    /\ job[c] = "rising" /\ armed[c] < MaxKeys
    /\ armed' = [armed EXCEPT ![c] = @ + 1]
    /\ left' = IF armed[c] = 0 THEN [left EXCEPT ![c] = @ - 1] ELSE left
    /\ job' = [job EXCEPT ![c] = "pressing"]
    /\ UNCHANGED <<lockVars, callVars, cleanup, sess, sessionVars, held>>

\* The guard is armed before the press is sent.
Press(c) ==
    /\ job[c] = "rising" /\ armed[c] < MaxKeys
    /\ armed[c] = 0 => left[c] > 0
    /\ armed' = [armed EXCEPT ![c] = @ + 1]
    /\ left' = IF armed[c] = 0 THEN [left EXCEPT ![c] = @ - 1] ELSE left
    /\ job' = [job EXCEPT ![c] = "pressing"]
    /\ UNCHANGED <<lockVars, callVars, cleanup, sess, sessionVars, held>>

PressDone(c) ==
    /\ job[c] = "pressing" /\ sess[c] \in live
    /\ held' = [held EXCEPT ![sess[c]] = @ \cup {armed[c]}]
    /\ job' = [job EXCEPT ![c] = "rising"]
    /\ UNCHANGED <<lockVars, callVars, armed, left, cleanup, sess, sessionVars>>

\* Last pressed, first released; no press follows until every control is up.
Release(c) ==
    /\ job[c] \in {"rising", "falling"} /\ armed[c] > 0
    /\ job' = [job EXCEPT ![c] = "releasing"]
    /\ UNCHANGED <<lockVars, callVars, armed, left, cleanup, sess, sessionVars, held>>

\* The guard forgets a control only once its release was answered.
ReleaseDone(c) ==
    /\ job[c] = "releasing" /\ sess[c] \in live
    /\ held' = [held EXCEPT ![sess[c]] = @ \ {armed[c]}]
    /\ armed' = [armed EXCEPT ![c] = @ - 1]
    /\ job' = [job EXCEPT ![c] = IF armed[c] = 1 THEN "rising" ELSE "falling"]
    /\ UNCHANGED <<lockVars, callVars, left, cleanup, sess, sessionVars>>

\* An event in flight when its future is dropped or times out may have landed.
EventLands(c) ==
    /\ sess[c] \in live
    /\ held' = CASE job[c] = "pressing"  -> [held EXCEPT ![sess[c]] = @ \cup {armed[c]}]
                 [] job[c] = "releasing" -> [held EXCEPT ![sess[c]] = @ \ {armed[c]}]
                 [] OTHER -> held

\* Mutant: a guard with nothing armed keeps the portal lock.
DropGuardKeepingLock(c) ==
    /\ armed' = [armed EXCEPT ![c] = 0]
    /\ cleanup' = [cleanup EXCEPT ![c] = IF armed[c] = 0 THEN @ ELSE "release"]
    /\ UNCHANGED portalLock

\* Mutant: an armed guard releases nothing.
DropGuardReleasingNothing(c) ==
    /\ armed' = [armed EXCEPT ![c] = 0]
    /\ portalLock' = IF portalLock = c THEN None ELSE portalLock
    /\ UNCHANGED cleanup

\* Drop of PointerReleaseGuard and KeyboardReleaseGuard: with nothing armed both
\* locks are let go, otherwise both move to a task that releases the controls.
DropReleaseGuard(c) ==
    /\ armed' = [armed EXCEPT ![c] = 0]
    /\ IF armed[c] = 0
       THEN /\ portalLock' = IF portalLock = c THEN None ELSE portalLock
            /\ UNCHANGED cleanup
       ELSE /\ cleanup' = [cleanup EXCEPT ![c] = "release"]
            /\ UNCHANGED portalLock

\* Mutant: the session stays valid while its cleanup runs.
CondemnedNothing(c) == {}

\* The session a dropping guard invalidates.
Condemned(c) == IF armed[c] = 0 THEN {} ELSE {sess[c]}

FinishInline(c) ==
    /\ pc[c] = "inline" /\ job[c] = "rising" /\ armed[c] = 0 /\ left[c] = 0
    /\ DropReleaseGuard(c)
    /\ Return(c)
    /\ UNCHANGED <<queue, sessionVars, held>>

FinishTask(c) ==
    /\ Detached(c) /\ job[c] = "rising" /\ armed[c] = 0 /\ left[c] = 0
    /\ DropReleaseGuard(c)
    /\ job' = [job EXCEPT ![c] = "ok"]
    /\ UNCHANGED <<queue, holders, callVars, left, sess, sessionVars, held>>

\* A check, a motion, a press or a release fails: the guard drops, and the request
\* future clears the session before it returns.
FailInline(c) ==
    /\ pc[c] = "inline" /\ job[c] \in Guarded \cup {"check"}
    /\ UNCHANGED held \/ EventLands(c)
    /\ DropReleaseGuard(c)
    /\ valid' = valid \ {sess[c]}
    /\ closing' = closing \cup ((valid \cap {sess[c]}) \ Condemned(c))
    /\ cache' = [d \in Devices |-> IF cache[d] = sess[c] THEN None ELSE cache[d]]
    /\ Return(c)
    /\ UNCHANGED <<queue, live>>

\* In a task only a changed monitor layout and an armed guard touch the session.
FailTask(c) ==
    /\ Detached(c) /\ job[c] \in Guarded \cup {"check"}
    /\ UNCHANGED held \/ EventLands(c)
    /\ DropReleaseGuard(c)
    /\ job' = [job EXCEPT ![c] = "err"]
    /\ left' = [left EXCEPT ![c] = 0]
    /\ holders' = holders \cup CleanupGuard(c)
    /\ \/ /\ valid' = valid \ Condemned(c)
          /\ UNCHANGED closing
       \/ /\ job[c] = "check"
          /\ valid' = valid \ {sess[c]}
          /\ closing' = closing \cup (valid \cap {sess[c]})
    /\ UNCHANGED <<queue, callVars, sess, live, cache>>

-----------------------------------------------------------------------------
(* The input future as an external command or the uinput device.           *)

CommandPress(c) ==
    /\ job[c] = "command"
    /\ job' = [job EXCEPT ![c] = "commandDown"]
    /\ held' = [held EXCEPT ![Local] = {1}]
    /\ UNCHANGED <<lockVars, callVars, armed, left, cleanup, sess, sessionVars>>

CommandDone(c) ==
    /\ job[c] \in {"command", "commandDown"}
    /\ job' = [job EXCEPT ![c] = "ok"]
    /\ held' = [held EXCEPT ![Local] = {}]
    /\ UNCHANGED <<lockVars, callVars, armed, left, cleanup, sess, sessionVars>>

\* A failed drag always sends the release and a failed device is dropped; the
\* release of a command can itself be lost.
CommandFails(c) ==
    /\ job[c] \in {"command", "commandDown"}
    /\ job' = [job EXCEPT ![c] = "err"]
    /\ \/ held' = [held EXCEPT ![Local] = {}]
       \/ "command" \in Faults /\ UNCHANGED held
    /\ UNCHANGED <<lockVars, callVars, armed, left, cleanup, sess, sessionVars>>

-----------------------------------------------------------------------------
(* The request future takes the task's guard and result back.              *)

ReceiveOk(c) ==
    /\ pc[c] = "awaiting" /\ job[c] = "ok"
    /\ Return(c)
    /\ UNCHANGED <<queue, portalLock, armed, cleanup, sessionVars, held>>

ReceiveError(c) ==
    /\ pc[c] = "awaiting" /\ job[c] = "err"
    /\ IF sess[c] = None THEN UNCHANGED sessionVars ELSE ClearSession(sess[c])
    /\ Return(c)
    /\ UNCHANGED <<queue, portalLock, armed, cleanup, held>>

\* KdeClipboardPasteError: an ambiguous write ends the call ...
ReceiveRefusal(c) ==
    /\ pc[c] = "awaiting" /\ job[c] = "refused"
    /\ Return(c)
    /\ UNCHANGED <<queue, portalLock, armed, cleanup, sessionVars, held>>

\* ... and another error before the paste lets a command type the text.
PasteFallsBack(c) ==
    /\ pc[c] = "awaiting" /\ job[c] = "refused"
    /\ pc' = [pc EXCEPT ![c] = "fallback"]
    /\ holders' = (holders \ {<<c, "task">>}) \cup {<<c, "call">>}
    /\ job' = [job EXCEPT ![c] = "none"]
    /\ sess' = [sess EXCEPT ![c] = None]
    /\ UNCHANGED <<queue, portalLock, dev, armed, left, cleanup, sessionVars, held>>

\* Nobody waits for a task whose request was cancelled: its guard goes with it.
DropTaskResult(c) ==
    /\ pc[c] = "idle" /\ job[c] \in Finished
    /\ Return(c)
    /\ UNCHANGED <<queue, portalLock, armed, cleanup, sessionVars, held>>

-----------------------------------------------------------------------------
(* Cancellation: the client drops the request, at any await.               *)

CancelQueued(c) ==
    /\ pc[c] = "queued"
    /\ \E i \in DOMAIN queue :
          /\ queue[i] = c
          /\ queue' = SubSeq(queue, 1, i - 1) \o SubSeq(queue, i + 1, Len(queue))
    /\ pc' = [pc EXCEPT ![c] = "idle"]
    /\ UNCHANGED <<holders, portalLock, dev, jobVars, cleanup, sess, sessionVars, held>>

CancelPreparing(c) ==
    /\ pc[c] \in {"prepare", "starting", "measuring", "ready", "fallback"}
    /\ Return(c)
    /\ UNCHANGED <<queue, portalLock, armed, cleanup, sessionVars, held>>

\* Mutant: the guard of a running task goes with the request.
CancelAwaitingWithTask(c) ==
    /\ pc[c] = "awaiting"
    /\ pc' = [pc EXCEPT ![c] = "idle"]
    /\ holders' = holders \ {<<c, "call">>, <<c, "task">>}
    /\ UNCHANGED <<queue, portalLock, dev, jobVars, cleanup, sess, sessionVars, held>>

CancelAwaiting(c) ==
    /\ pc[c] = "awaiting"
    /\ pc' = [pc EXCEPT ![c] = "idle"]
    /\ holders' = holders \ {<<c, "call">>}
    /\ UNCHANGED <<queue, portalLock, dev, jobVars, cleanup, sess, sessionVars, held>>

CancelInline(c) ==
    /\ pc[c] = "inline"
    /\ UNCHANGED held \/ EventLands(c)
    /\ DropReleaseGuard(c)
    /\ valid' = valid \ Condemned(c)
    /\ Return(c)
    /\ UNCHANGED <<queue, live, closing, cache>>

-----------------------------------------------------------------------------
(* The release cleanup: release, close, then let both locks go.            *)

CleanupRelease(c) ==
    /\ cleanup[c] = "release"
    /\ cleanup' = [cleanup EXCEPT ![c] = "close"]
    /\ \/ held' = [held EXCEPT ![sess[c]] = {}]
       \/ "release" \in Faults /\ UNCHANGED held
    /\ UNCHANGED <<lockVars, callVars, jobVars, sess, sessionVars>>

CleanupClose(c) ==
    /\ cleanup[c] = "close"
    /\ \/ /\ live' = live \ {sess[c]}
          /\ held' = [held EXCEPT ![sess[c]] = {}]
       \/ "close" \in Faults /\ UNCHANGED <<live, held>>
    /\ cleanup' = [cleanup EXCEPT ![c] = "none"]
    /\ portalLock' = None
    /\ holders' = holders \ {<<c, "cleanup">>}
    /\ sess' = IF pc[c] = "idle" /\ job[c] = "none" THEN [sess EXCEPT ![c] = None] ELSE sess
    /\ UNCHANGED <<queue, callVars, jobVars, valid, closing, cache>>

-----------------------------------------------------------------------------
(* Sessions on their own.                                                  *)

\* The task spawned by invalidate_and_close; it holds no lock.
CloseSession(s) ==
    /\ s \in closing
    /\ closing' = closing \ {s}
    /\ \/ /\ live' = live \ {s}
          /\ held' = [held EXCEPT ![s] = {}]
       \/ "close" \in Faults /\ UNCHANGED <<live, held>>
    /\ UNCHANGED <<lockVars, callVars, jobVars, cleanup, sess, valid, cache>>

\* The last clone of the session's bus connection is gone: the portal closes it.
Disconnect(s) ==
    /\ s \in valid \cup live /\ Unreferenced(s)
    /\ valid' = valid \ {s}
    /\ live' = live \ {s}
    /\ held' = [held EXCEPT ![s] = {}]
    /\ UNCHANGED <<lockVars, callVars, jobVars, cleanup, sess, closing, cache>>

\* The person at the desktop stops the remote session.
Revoke(s) ==
    /\ "revoke" \in Faults /\ s \in live
    /\ live' = live \ {s}
    /\ held' = [held EXCEPT ![s] = {}]
    /\ UNCHANGED <<lockVars, callVars, jobVars, cleanup, sess, valid, closing, cache>>

-----------------------------------------------------------------------------
Prepare(c) ==
    \/ Acquire(c) \/ Refuse(c) \/ RefuseAndClear(c)
    \/ RunCommand(c) \/ RunPixelflux(c)
    \/ \E d \in Devices : UseCachedSession(c, d) \/ EnsureSession(c, d)
    \/ \E s \in Sessions : StartPointerSession(c, s) \/ StartKeyboardSession(c, s)
    \/ CacheSession(c) \/ StartFails(c) \/ StartFallsBack(c)
    \/ RunInline(c) \/ RunPortalTask(c)

PortalInput(c) ==
    \/ PasteRefused(c) \/ TakePortalLock(c) \/ Checked(c)
    \/ Press(c) \/ PressDone(c) \/ Release(c) \/ ReleaseDone(c)
    \/ FinishInline(c) \/ FinishTask(c) \/ FailInline(c) \/ FailTask(c)

CommandInput(c) == CommandPress(c) \/ CommandDone(c) \/ CommandFails(c)

Receive(c) ==
    \/ ReceiveOk(c) \/ ReceiveError(c) \/ ReceiveRefusal(c) \/ PasteFallsBack(c)
    \/ DropTaskResult(c)

Cancel(c) ==
    CancelQueued(c) \/ CancelPreparing(c) \/ CancelAwaiting(c) \/ CancelInline(c)

Cleanup(c) == CleanupRelease(c) \/ CleanupClose(c)

\* What the runtime does without the client: every await here has a time limit.
Progress(c) ==
    Prepare(c) \/ PortalInput(c) \/ CommandInput(c) \/ Receive(c) \/ Cleanup(c)

Next ==
    \/ \E c \in Calls : Begin(c) \/ Progress(c) \/ Cancel(c)
    \/ \E s \in Sessions : CloseSession(s) \/ Disconnect(s) \/ Revoke(s)

Spec == Init /\ [][Next]_vars

Fairness ==
    /\ \A c \in Calls : WF_vars(Progress(c))
    /\ \A s \in Sessions : WF_vars(CloseSession(s)) /\ WF_vars(Disconnect(s))

FairSpec == Spec /\ Fairness
-----------------------------------------------------------------------------
(* Safety.                                                                 *)

Sends(c) == job[c] \in Sending \/ cleanup[c] # "none"

\* At any moment at most one tool call is able to press, release or move anything,
\* counting tasks and cleanups that outlive a cancelled request
\* (InputOperationGuard, run_cancellation_safe_guarded, spawn_release_cleanup).
OneSender == \A c1, c2 \in Calls : Sends(c1) /\ Sends(c2) => c1 = c2

\* Whatever is pressed on a session that may still be used is on the list of the
\* release guard of a running input future: losing that future at any await, with
\* the press answered or not, cannot leave the control down.
ReleaseCovered ==
    \A s \in valid :
        held[s] # {} =>
            \E c \in Calls : /\ sess[c] = s /\ job[c] \in Guarded
                             /\ held[s] \subseteq 1..armed[c]

\* A close never reaches a session under an input future that is sending on it, and a
\* session the next call would take from the cache is open in the compositor with no
\* close or release cleanup under way for it (unless it was revoked).
NoDeadSession ==
    /\ \A s \in closing : \A c \in Calls : sess[c] = s => job[c] \notin Guarded
    /\ \A d \in Devices :
          cache[d] \in valid =>
              /\ cache[d] \in live \/ "revoke" \in Faults
              /\ cache[d] \notin closing
              /\ \A c \in Calls : cleanup[c] # "none" => sess[c] # cache[d]

\* ReleaseCovered: what is pressed on a session that may still be used will be released
\* by a guard.  NoDeadSession: no session is closed under the operation that sends on it,
\* nor taken from the cache once it is closed.
SessionsAreSound == ReleaseCovered /\ NoDeadSession

\* No two calls send input at once, nor does one leave a control down or use a session
\* that another has closed.
InputIsSound == OneSender /\ SessionsAreSound

-----------------------------------------------------------------------------
(* What the input lock promises, and what must happen eventually.          *)

\* The call some activity of which holds the input lock.
Owner == IF holders = {} THEN None ELSE (CHOOSE h \in holders : TRUE)[1]

Down == {p \in (Sessions \cup {Local}) \X Keys : p[2] \in held[p[1]]}

\* An input operation starts with nothing pressed, nobody else touches a control
\* while it runs, and the lock passes on only when everything it pressed is up.
Exclusive == INSTANCE ExclusiveInput WITH owner <- Owner, down <- Down,
                                          Controls <- (Sessions \cup {Local}) \X Keys

ImplementsExclusiveInput == Exclusive!Spec

\* A call waiting for the lock gets it or is cancelled, whatever was cancelled, failed
\* or left to a cleanup before it: no path leaks the lock.
QueuedCallsProceed == \A c \in Calls : pc[c] = "queued" ~> pc[c] # "queued"

\* A control pressed through the portal or a device comes up again.
PressedComesUp == \A r \in Sessions \cup {Local} : held[r] # {} ~> held[r] = {}
=============================================================================
