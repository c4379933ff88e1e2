------------------------------ MODULE KwinScript ------------------------------
(***************************************************************************)
(* A KWin script transaction (windowing/backends/kwin.rs): a callback      *)
(* object and a script file are put in place, KWin loads and starts the    *)
(* script, the script calls back with its answer, and everything is taken  *)
(* away again, also when the transaction fails, times out or is dropped.   *)
(*                                                                         *)
(* Each transaction has a session-bus connection and a plugin name of its  *)
(* own.  A script is <<c, n>>, the n-th of caller c.  KWin handles what    *)
(* one connection sent in the order sent, those of several in any order,   *)
(* and it may be stuck for as long as it likes.                            *)
(***************************************************************************)
EXTENDS Integers, Sequences

CONSTANTS
    Callers,    \* tasks that run script transactions, one after another
    MaxScripts, \* bound on the scripts of one caller (KWIN_PLUGIN_SEQUENCE)
    Windows,    \* the windows there may be
    None,       \* no window
    Faults      \* "partial", "drop", "restart"; "switch", "close": the user

ASSUME ScriptAssumption ==
    /\ MaxScripts \in Nat
    /\ None \notin Windows

VARIABLES
    scripts, \* what the scripts of each caller say, in the order begun
    tx,      \* the transactions there are: what the future keeps
    objects, \* callback objects registered at a path of the script's name
    files,   \* script files in the temporary directory
    asked,   \* requests sent to KWin and not handled
    loaded,  \* scripts loaded in KWin
    waiting, \* of those, the scripts that were never started
    started, \* of those, the scripts that are going to run
    open,    \* the windows
    active   \* the window with focus, or None

pluginVars  == <<loaded, waiting, started>>
kwinVars    == <<asked, pluginVars>>
desktopVars == <<open, active>>
scriptVars  == <<scripts, tx, objects, files, kwinVars, desktopVars>>

Scripts  == Callers \X (1..MaxScripts)
Kinds    == {"windows", "result"}
Awaiting == {"resolve", "prepare", "load", "loaded", "start", "poll"}
Steps    == Awaiting \cup {"unload", "remove", "done"}

Answers == [ok : BOOLEAN, open : SUBSET Windows, active : Windows \cup {None}]
Nothing == [ok |-> FALSE, open |-> {}, active |-> None]

\* at: how far it is; current: the process it resolved is KWin still; owns, path: the
\* fields of KwinScriptCleanup.
Transactions == [at : Steps, current : BOOLEAN, owns : BOOLEAN, path : BOOLEAN,
                 delivered : BOOLEAN, dropped : BOOLEAN, answer : Answers]

ScriptInit ==
    /\ scripts = [c \in Callers |-> <<>>]
    /\ tx = [t \in {} |-> Nothing]
    /\ objects = {} /\ files = {}
    /\ asked = {} /\ loaded = {} /\ waiting = {} /\ started = {}
    /\ open = Windows
    /\ active \in Windows \cup {None}

Known(t) == t \in DOMAIN tx
At(t, steps) == Known(t) /\ tx[t].at \in steps
Current(c) == <<c, Len(scripts[c])>>
Says(t) == scripts[t[1]][t[2]]
Without(t) == [u \in DOMAIN tx \ {t} |-> tx[u]]
Asked(t, request) == <<t, request>> \in asked

(***************************************************************************)
(* The transaction.                                                        *)
(***************************************************************************)

\* The state of a transaction that begins: KwinScriptCleanup::new.
New == [at |-> "resolve", current |-> FALSE, owns |-> FALSE, path |-> FALSE,
        delivered |-> FALSE, dropped |-> FALSE, answer |-> Nothing]

\* A new plugin name, and the connection.  The caller has the answer of its last script.
Begin(c, kind, window) ==
    LET t == <<c, Len(scripts[c]) + 1>>
        kept == {u \in DOMAIN tx : ~(u[1] = c /\ tx[u].at = "done")}
    IN
    /\ Len(scripts[c]) < MaxScripts
    /\ scripts' = [scripts EXCEPT ![c] = Append(@, [kind |-> kind, window |-> window])]
    /\ tx' = [u \in kept \cup {t} |-> IF u = t THEN New ELSE tx[u]]
    /\ UNCHANGED <<objects, files, kwinVars, desktopVars>>

\* KwinScriptCleanup::run, or Drop, of a transaction whose last state is r.  KWin
\* is asked to unload the script only once the callback object was registered.
CleanUp(t, r) ==
    /\ tx' = [tx EXCEPT ![t] = [r EXCEPT !.at = IF r.owns THEN "unload" ELSE "remove"]]
    /\ asked' = IF r.owns THEN asked \cup {<<t, "unload">>} ELSE asked

\* get_name_owner: the answer has to come from the process that is KWin now.
Resolve(t) ==
    /\ At(t, {"resolve"})
    /\ tx' = [tx EXCEPT ![t].at = "prepare", ![t].current = TRUE]
    /\ UNCHANGED <<scripts, objects, files, kwinVars, desktopVars>>

\* The callback object is registered, the file written, loadScript sent.
Prepare(t) ==
    /\ At(t, {"prepare"})
    /\ objects' = objects \cup {t}
    /\ files' = files \cup {t}
    /\ asked' = asked \cup {<<t, "load">>}
    /\ tx' = [tx EXCEPT ![t].at = "load", ![t].owns = TRUE, ![t].path = TRUE]
    /\ UNCHANGED <<scripts, pluginVars, desktopVars>>

\* The object is registered, but the file cannot be written, or the proxy fails.
PrepareFails(t) ==
    /\ "partial" \in Faults
    /\ At(t, {"prepare"})
    /\ objects' = objects \cup {t}
    /\ \E wrote \in BOOLEAN :
        /\ files' = IF wrote THEN files \cup {t} ELSE files
        /\ CleanUp(t, [tx[t] EXCEPT !.owns = TRUE, !.path = wrote])
    /\ UNCHANGED <<scripts, pluginVars, desktopVars>>

\* loadScript answered; start is sent.
Start(t) ==
    /\ At(t, {"loaded"})
    /\ tx' = [tx EXCEPT ![t].at = "start"]
    /\ asked' = asked \cup {<<t, "start">>}
    /\ UNCHANGED <<scripts, objects, files, pluginVars, desktopVars>>

\* try_recv finds what the callback sent; the loop looks again every 20 ms.
Receive(t) ==
    /\ At(t, {"poll"})
    /\ tx[t].delivered
    /\ CleanUp(t, tx[t])
    /\ UNCHANGED <<scripts, objects, files, pluginVars, desktopVars>>

\* KWIN_SCRIPT_TIMEOUT, or an error, at any await.
Fail(t) ==
    /\ At(t, Awaiting)
    /\ CleanUp(t, [tx[t] EXCEPT !.answer = Nothing])
    /\ UNCHANGED <<scripts, objects, files, pluginVars, desktopVars>>

\* Mutant: unloadScript without a time limit.
GiveUpUnloadAnswered(t) ==
    /\ At(t, {"unload"}) /\ ~Asked(t, "unload")
    /\ tx' = [tx EXCEPT ![t].at = "remove"]
    /\ UNCHANGED <<scripts, objects, files, kwinVars, desktopVars>>

\* One second for unloadScript, then the cleanup goes on without an answer.
GiveUpUnload(t) ==
    /\ At(t, {"unload"})
    /\ tx' = [tx EXCEPT ![t].at = "remove"]
    /\ UNCHANGED <<scripts, objects, files, kwinVars, desktopVars>>

\* The object and the file go, and callbacks find no object; a spawned cleanup has
\* nobody to answer to.
Remove(t) ==
    /\ At(t, {"remove"})
    /\ objects' = IF tx[t].owns THEN objects \ {t} ELSE objects
    /\ files' = IF tx[t].path THEN files \ {t} ELSE files
    /\ tx' = IF tx[t].dropped THEN Without(t) ELSE [tx EXCEPT ![t].at = "done"]
    /\ UNCHANGED <<scripts, kwinVars, desktopVars>>

\* Mutant: without Drop for KwinScriptCleanup.
DropForgets(t) ==
    /\ At(t, Steps \ {"done"})
    /\ tx' = Without(t)
    /\ UNCHANGED <<scripts, objects, files, kwinVars, desktopVars>>

\* The future is dropped with the guard still armed: a task of its own cleans up,
\* from the beginning.
Drop(t) ==
    /\ At(t, Steps \ {"done"})
    /\ ~tx[t].dropped
    /\ CleanUp(t, [tx[t] EXCEPT !.dropped = TRUE, !.answer = Nothing])
    /\ UNCHANGED <<scripts, objects, files, pluginVars, desktopVars>>

(***************************************************************************)
(* KWin and the desktop.                                                   *)
(***************************************************************************)

KwinLoads(t) ==
    /\ Asked(t, "load")
    /\ asked' = asked \ {<<t, "load">>}
    /\ loaded' = loaded \cup {t}
    /\ waiting' = waiting \cup {t}
    /\ tx' = IF At(t, {"load"}) THEN [tx EXCEPT ![t].at = "loaded"] ELSE tx
    /\ UNCHANGED <<scripts, objects, files, started, desktopVars>>

\* start runs every script that was not started, those of other transactions too.
KwinStarts(t) ==
    /\ Asked(t, "start") /\ ~Asked(t, "load")
    /\ asked' = asked \ {<<t, "start">>}
    /\ started' = started \cup waiting
    /\ waiting' = {}
    /\ tx' = IF At(t, {"start"}) THEN [tx EXCEPT ![t].at = "poll"] ELSE tx
    /\ UNCHANGED <<scripts, objects, files, loaded, desktopVars>>

KwinUnloads(t) ==
    /\ Asked(t, "unload") /\ ~Asked(t, "load") /\ ~Asked(t, "start")
    /\ asked' = asked \ {<<t, "unload">>}
    /\ loaded' = loaded \ {t}
    /\ waiting' = waiting \ {t}
    /\ started' = started \ {t}
    /\ tx' = IF At(t, {"unload"}) THEN [tx EXCEPT ![t].at = "remove"] ELSE tx
    /\ UNCHANGED <<scripts, objects, files, desktopVars>>

\* KwinWindowCallback::accept of the callback of script t, answering a.  The sender is
\* the expected one unless KWin was replaced since Resolve; the method and the plugin
\* name are those of the script at whose path the object is.  Once the transaction has
\* failed nobody holds the receiver.
Callback(t, a) ==
    tx' = IF /\ t \in objects /\ tx[t].current
             /\ At(t, Awaiting) /\ ~tx[t].delivered
          THEN [tx EXCEPT ![t].delivered = TRUE, ![t].answer = a]
          ELSE tx

\* The script that lists the windows.
ListWindows(t) ==
    /\ Says(t).kind = "windows"
    /\ Callback(t, [ok |-> TRUE, open |-> open, active |-> active])
    /\ UNCHANGED active

\* The script that activates a window, if it is still there.
ActivateWindow(t) ==
    /\ Says(t).kind = "result"
    /\ LET there == Says(t).window \in open IN
        /\ active' = IF there THEN Says(t).window ELSE active
        /\ Callback(t, [Nothing EXCEPT !.ok = there])

\* A started script runs once, wherever its transaction has got to.
Run(t) ==
    /\ t \in started
    /\ started' = started \ {t}
    /\ ListWindows(t) \/ ActivateWindow(t)
    /\ UNCHANGED <<scripts, objects, files, asked, loaded, waiting, open>>

\* KWin is replaced: its scripts are gone and calls it had not handled fail.
KwinRestarts ==
    /\ "restart" \in Faults
    /\ tx' = [t \in DOMAIN tx |-> [tx[t] EXCEPT !.current = FALSE]]
    /\ asked' = {} /\ loaded' = {} /\ waiting' = {} /\ started' = {}
    /\ UNCHANGED <<scripts, objects, files, desktopVars>>

\* Also KWin, when it gives the activated window focus late or not at all.
UserSwitches ==
    /\ "switch" \in Faults
    /\ \E w \in open \cup {None} : w # active /\ active' = w
    /\ UNCHANGED <<scripts, tx, objects, files, kwinVars, open>>

WindowCloses(w) ==
    /\ "close" \in Faults
    /\ w \in open
    /\ open' = open \ {w}
    /\ active' = IF active = w THEN None ELSE active
    /\ UNCHANGED <<scripts, tx, objects, files, kwinVars>>

(***************************************************************************)
(* The steps of a transaction, and those of its environment.               *)
(***************************************************************************)

Transact(t) ==
    \/ Resolve(t) \/ Prepare(t) \/ PrepareFails(t) \/ Start(t) \/ Receive(t)
    \/ Fail(t) \/ GiveUpUnload(t) \/ Remove(t)

Kwin ==
    \/ \E t \in Scripts : KwinLoads(t) \/ KwinStarts(t) \/ KwinUnloads(t) \/ Run(t)
    \/ KwinRestarts

\* The server runs and its timers expire; nothing is assumed of KWin.
ServerSteps(t) ==
    Prepare(t) \/ Start(t) \/ Receive(t) \/ Fail(t) \/ GiveUpUnload(t) \/ Remove(t)
-----------------------------------------------------------------------------
\* Types.
ScriptTypeOK ==
    /\ scripts \in [Callers -> Seq([kind : Kinds, window : Windows \cup {None}])]
    /\ \A c \in Callers : Len(scripts[c]) <= MaxScripts
    /\ DOMAIN tx \subseteq {t \in Scripts : t[2] <= Len(scripts[t[1]])}
    /\ tx \in [DOMAIN tx -> Transactions]
    /\ objects \subseteq Scripts /\ files \subseteq Scripts
    /\ asked \subseteq Scripts \X {"load", "start", "unload"}
    /\ loaded \subseteq Scripts /\ waiting \subseteq loaded /\ started \subseteq loaded
    /\ open \subseteq Windows
    /\ active \in open \cup {None}

\* A transaction that has ended, in whatever way and at whatever step, leaves nothing:
\* no callback object, no script file, and no script in KWin beyond the unloadScript
\* that is still to be handled (call_kwin_script_on_connection, KwinScriptCleanup).
NothingLeft ==
    \A t \in Scripts :
        ~At(t, Steps \ {"done"}) =>
            /\ t \notin objects /\ t \notin files
            /\ t \in loaded => Asked(t, "unload")
=============================================================================
