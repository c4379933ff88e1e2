----------------------------- MODULE IpcWindows -----------------------------
(***************************************************************************)
(* Windows of compositors that are asked through a socket of theirs: niri  *)
(* (niri msg, or the socket), i3 and Sway (i3-msg, swaymsg) and Hyprland   *)
(* (hyprctl, with a new and an old dispatcher).  Each request chooses the  *)
(* session anew; a window listed by one request is named by its id in the  *)
(* next, while windows and whole sessions come and go.                     *)
(***************************************************************************)
EXTENDS Naturals, Sequences, FiniteSets

CONSTANTS
    Sessions,       \* sessions of one compositor for the same user
    NoSession,
    Matching,       \* those whose name fits WAYLAND_DISPLAY
    ContainerBase,  \* SWAY_CONTAINER_ID_BASE, above every X11 id
    MaxBorn,        \* bound on the windows that open
    MaxSessions     \* bound on the sessions that start and end

ASSUME IpcAssumption ==
    /\ NoSession \notin Sessions /\ Matching \subseteq Sessions
    /\ MaxBorn \in Nat /\ MaxSessions \in Nat
    /\ ContainerBase \in Nat /\ ContainerBase > MaxBorn

VARIABLES
    kind,       \* which compositor
    socketVar,  \* the session NIRI_SOCKET, I3SOCK or the instance signature names
    live,       \* sessions that run
    sockets,    \* the newest first: sessions whose socket is there
    windows,    \* of each session
    born,       \* windows that have opened
    counted,    \* the container ids each session has given
    over,       \* sessions that have ended; one that starts has a new name
    turns,      \* sessions that have started or ended
    ask,        \* the call: list, focus, and what it answered
    raised      \* windows its requests focused

ipcSessionVars == <<kind, socketVar, live, sockets, windows, born, counted, over, turns>>
ipcVars == <<ipcSessionVars, ask, raised>>

Ipc == {"niri", "i3", "sway", "hyprland"}
SocketFiles == {sockets[i] : i \in DOMAIN sockets}

NoAsk == [at |-> "idle", session |-> NoSession, window |-> 0, id |-> 0, answer |-> "none"]

IpcTypeOK ==
    /\ kind \in Ipc /\ socketVar \in Sessions \cup {NoSession}
    /\ live \subseteq SocketFiles /\ SocketFiles \subseteq Sessions
    /\ \A s \in Sessions : \A w \in windows[s] :
        w.born \in 1..MaxBorn /\ w.x11 \in 0..MaxBorn /\ w.con \in 1..MaxBorn
    /\ ask.at \in {"idle", "listed", "second", "done"}
    /\ ask.answer \in {"none", "ok", "failed"}
    /\ counted \in [Sessions -> 0..MaxBorn]
    /\ over \subseteq Sessions /\ turns \in 0..MaxSessions
    /\ raised \subseteq Sessions \X (1..MaxBorn)

IpcInit ==
    /\ kind \in Ipc
    /\ socketVar \in Sessions \cup {NoSession}
    /\ \E s \in Sessions : live = {s} /\ sockets = <<s>>
    /\ windows = [s \in Sessions |-> {}]
    /\ counted = [s \in Sessions |-> 0]
    /\ born = 0 /\ over = {} /\ turns = 0
    /\ ask = NoAsk /\ raised = {}

(***************************************************************************)
(* Which session a request goes to.                                        *)
(***************************************************************************)
Newest(S) == LET at == {i \in DOMAIN sockets : sockets[i] \in S} IN
    IF at = {} THEN NoSession ELSE sockets[CHOOSE i \in at : \A j \in at : i <= j]

\* Mutant: a NIRI_SOCKET that is stale is passed over.
NiriSessionAny ==
    IF socketVar \in SocketFiles THEN socketVar ELSE Newest(Matching)

\* niri_socket_path: an explicit socket is authoritative, even if stale; otherwise the
\* only one that matches the display.
NiriSession ==
    LET fit == SocketFiles \cap Matching IN
    IF socketVar # NoSession
    THEN IF socketVar \in SocketFiles THEN socketVar ELSE NoSession
    ELSE IF Cardinality(fit) = 1 THEN Newest(fit) ELSE NoSession

\* i3_socket_path: a variable that names no socket is used only if there is none.
I3Session ==
    IF socketVar \in SocketFiles \/ sockets = <<>> THEN socketVar ELSE Newest(Sessions)

\* infer_hyprland_instance_signature: of those that run, one of this display, the newest.
HyprSession ==
    IF socketVar # NoSession THEN socketVar
    ELSE IF live \cap Matching # {} THEN Newest(live \cap Matching) ELSE Newest(live)

SessionNow ==
    CASE kind = "niri" -> NiriSession
      [] kind \in {"i3", "sway"} -> I3Session
      [] kind = "hyprland" -> HyprSession

(***************************************************************************)
(* Ids                                                                     *)
(***************************************************************************)

\* Mutant: a container id is used as it is.
IdOfWindowBare(w) ==
    IF kind \in {"i3", "sway"} /\ w.x11 # 0 THEN w.x11 ELSE w.con

\* to_window_info: an X11 window has its X11 id, a native window on Sway its container id
\* above the base; niri has ids of its own, Hyprland addresses.
IdOfWindow(w) ==
    IF kind \in {"i3", "sway"}
    THEN IF w.x11 # 0 THEN w.x11 ELSE ContainerBase + w.con
    ELSE w.con

\* i3_focus_command
Selects(w, id) ==
    IF kind \in {"i3", "sway"}
    THEN IF id >= ContainerBase THEN w.con = id - ContainerBase ELSE w.x11 = id
    ELSE w.con = id

Selected(s, id) == {w \in windows[s] : Selects(w, id)}

(***************************************************************************)
(* The call.                                                               *)
(***************************************************************************)
IpcDone(answer) == ask' = [ask EXCEPT !.at = "done", !.answer = answer]

\* list_windows, and a window of the list.
IpcList ==
    /\ ask.at = "idle"
    /\ SessionNow \in live
    /\ \E w \in windows[SessionNow] :
        ask' = [ask EXCEPT !.at = "listed", !.session = SessionNow, !.window = w.born,
                           !.id = IdOfWindow(w)]
    /\ UNCHANGED <<ipcSessionVars, raised>>

\* The compositor carries a request out: what the request selects gets the focus.
Focuses == raised' = raised \cup {<<SessionNow, w.born>> : w \in Selected(SessionNow, ask.id)}

\* Mutant: hyprctl and i3-msg are taken at their exit status.
AcceptsAny == TRUE

\* The reply says it was done: niri says so of any id; i3-msg of each command, whatever it
\* exits with; hyprctl prints ok and nothing else.
Accepts == kind = "niri" \/ Selected(SessionNow, ask.id) # {}

\* No reply, from a program that did not start, or was killed, or a session that is gone:
\* niri goes on to the socket; nothing else is tried for the others.
FocusLost ==
    /\ ask.at \in {"listed", "second"}
    /\ IF ask.at = "listed" /\ kind = "niri"
       THEN ask' = [ask EXCEPT !.at = "second"]
       ELSE IpcDone("failed")
    /\ \/ UNCHANGED raised
       \/ SessionNow \in live /\ Focuses
    /\ UNCHANGED ipcSessionVars

\* A reply.  Hyprland may not know the new dispatcher, and is asked by the old one.
FocusReplied ==
    /\ ask.at \in {"listed", "second"}
    /\ SessionNow \in live
    /\ \/ Focuses /\ Accepts /\ IpcDone("ok")
       \/ /\ ask.at = "listed" /\ kind = "hyprland"
          /\ ask' = [ask EXCEPT !.at = "second"]
          /\ UNCHANGED raised
       \/ /\ ~Accepts \/ kind = "niri" \/ ask.at = "second"
          /\ IF ask.at = "listed" /\ kind = "niri"
             THEN ask' = [ask EXCEPT !.at = "second"] ELSE IpcDone("failed")
          /\ UNCHANGED raised
    /\ UNCHANGED ipcSessionVars

(***************************************************************************)
(* Programs and sessions.                                                  *)
(***************************************************************************)

\* Sway's container ids and niri's are counted.  An X11 id comes again once its window has
\* closed, since the server gives a client that comes the ids of one that went; so does the
\* address of a window on Hyprland, and that of a container on i3, which is no id of any.
WindowOpens(s) ==
    /\ s \in live /\ born < MaxBorn /\ born' = born + 1
    /\ \E x11 \in 0..MaxBorn, c \in 1..MaxBorn :
        /\ kind \in {"niri", "hyprland"} => x11 = 0
        /\ kind = "i3" => x11 # 0 /\ c = 1
        /\ \A w \in windows[s] : x11 = 0 \/ w.x11 # x11
        /\ kind = "hyprland" => \A w \in windows[s] : w.con # c
        /\ kind \in {"niri", "sway"} => c = counted[s] + 1
        /\ counted' = [counted EXCEPT ![s] = @ + 1]
        /\ windows' = [windows EXCEPT ![s] = @ \cup {[born |-> born', x11 |-> x11, con |-> c]}]
    /\ UNCHANGED <<kind, socketVar, live, sockets, over, turns, ask, raised>>

IpcCloses(s) ==
    /\ \E w \in windows[s] : windows' = [windows EXCEPT ![s] = @ \ {w}]
    /\ UNCHANGED <<kind, socketVar, live, sockets, born, counted, over, turns, ask, raised>>

SessionStarts(s) ==
    /\ s \notin live \cup over /\ turns < MaxSessions /\ turns' = turns + 1
    /\ live' = live \cup {s} /\ sockets' = <<s>> \o sockets
    /\ UNCHANGED <<kind, socketVar, windows, born, counted, over, ask, raised>>

\* It ends, and takes its socket with it or leaves it behind.
SessionEnds(s) ==
    /\ s \in live /\ turns < MaxSessions /\ turns' = turns + 1
    /\ live' = live \ {s} /\ over' = over \cup {s}
    /\ windows' = [windows EXCEPT ![s] = {}]
    /\ \/ UNCHANGED sockets
       \/ \E i \in DOMAIN sockets :
            /\ sockets[i] = s
            /\ sockets' = SubSeq(sockets, 1, i - 1) \o SubSeq(sockets, i + 1, Len(sockets))
    /\ UNCHANGED <<kind, socketVar, born, counted, ask, raised>>
-----------------------------------------------------------------------------
IpcNext ==
    \/ IpcList \/ FocusLost \/ FocusReplied
    \/ ask.at # "done" /\ \E s \in Sessions :
        WindowOpens(s) \/ IpcCloses(s) \/ SessionStarts(s) \/ SessionEnds(s)

IpcSpec == IpcInit /\ [][IpcNext]_ipcVars
-----------------------------------------------------------------------------
SessionIsNamed ==
    \/ kind \in {"niri", "hyprland"} /\ socketVar # NoSession
    \/ kind \in {"i3", "sway"} /\ socketVar = ask.session /\ socketVar \in SocketFiles

Open(s, n) == \E w \in windows[s] : w.born = n

\* Ids that another window may have once the window has closed.
IdComesAgain ==
    kind = "hyprland" \/ (kind \in {"i3", "sway"} /\ ask.id < ContainerBase)

\* A window that may be focused: the one that was listed, or a later one that has its id.
IsMeant(s, n) ==
    /\ s = ask.session
    /\ n = ask.window \/ (IdComesAgain /\ n > ask.window /\ ~Open(s, ask.window))

\* The ids are good from one request to the next: what a call focuses is the window it
\* listed, though others open and close, X11 and container ids count independently, and
\* another session starts ("so the two kinds never share a window_id"; "Never silently
\* switch sessions").  Where ids come again, a later window may be focused, but only once
\* the one that was listed has closed.  This is so where a variable names the session: i3
\* and Sway go to the newest once that one has ended.  A success means that a window was
\* focused, for niri that its request was handled.
FocusesWhatWasListed ==
    /\ SessionIsNamed => \A r \in raised : IsMeant(r[1], r[2])
    /\ ask.answer = "ok" /\ kind # "niri" => raised # {}
=============================================================================
