------------------------------ MODULE Toplevels ------------------------------
(***************************************************************************)
(* Windows that have no identifier: the wlr foreign-toplevel backend, and  *)
(* labwc, which is listed over an IPC socket of its own and activated      *)
(* through the same Wayland protocol.  A window_id is a hash of what a     *)
(* window shows, its app id and title and, for labwc, its pid; every call  *)
(* looks the window up again on a connection of its own, while windows     *)
(* open, close, change their titles and take the focus.                    *)
(***************************************************************************)
EXTENDS Naturals, FiniteSets

CONSTANTS
    Tops,           \* the windows of the compositor, each opened once at most
    Labels,         \* what a window can show, records [app, title] with None in them
    None,
    Pid,            \* the process of each window
    Cut,            \* Labels -> Labels: what labwc's IPC makes of a long title
    Hash,           \* the hash of a process, or None, and a label
    Blank,          \* the label with neither an app id nor a title
    MaxRoundtrips,  \* MAX_ROUNDTRIPS
    MaxChanges      \* bound on what the user and the programs do to windows

ASSUME ToplevelAssumption ==
    /\ Blank \in Labels /\ Cut \in [Labels -> Labels]
    /\ IsFiniteSet(Tops) /\ None \notin Tops \cup {"ok", "failed"}
    /\ MaxRoundtrips \in Nat \ {0} /\ MaxChanges \in Nat

VARIABLES
    protocol,   \* "wlr" or "labwc"
    opened,     \* the windows there are
    label,      \* what each shows
    undone,     \* windows announced since the bind without their `done` yet
    active,     \* the activated windows
    changes,
    worker,     \* the call's blocking worker
    asked,      \* a window the compositor has been asked to activate
    answer,     \* what the activation call answered
    confirmed,  \* the window the focus query reported was the one asked for
    struck,     \* the window the request activated
    sole,       \* windows that were once the only one to match since the call began
    kept        \* windows that were active, and the only one to match, since the query

compositorVars == <<opened, label, undone, active, changes>>
topVars == <<protocol, compositorVars, worker, asked, answer, confirmed, struck, sole, kept>>

TopSteps == {"idle", "listing", "collecting", "sending", "sent", "done",
             "asking", "checking", "checked"}

\* What a listing shows of a window: to_window.
ShownAs(p, w, l) == [pid |-> IF p = "wlr" THEN None ELSE Pid[w],
                     label |-> IF p = "wlr" THEN l ELSE Cut[l]]
Shown(w) == ShownAs(protocol, w, label[w])
IdOf(key) == Hash[key.pid, key.label]
TopList == [w \in opened |-> Shown(w)]

NoTop == [at |-> "idle", tries |-> 0, want |-> None, focused |-> None, handle |-> None]

TopTypeOK ==
    /\ protocol \in {"wlr", "labwc"}
    /\ opened \subseteq Tops /\ undone \subseteq opened /\ active \subseteq opened
    /\ label \in [Tops -> Labels] /\ changes \in 0..MaxChanges
    /\ worker.at \in TopSteps /\ worker.tries \in 0..MaxRoundtrips
    /\ worker.handle \in Tops \cup {None} /\ asked \in Tops \cup {None}
    /\ answer \in {None, "ok", "failed"} /\ confirmed \in BOOLEAN
    /\ struck \in Tops \cup {None} /\ sole \subseteq Tops /\ kept \subseteq Tops

\* The caller has listed the windows, and names one of them.
TopInit ==
    /\ protocol \in {"wlr", "labwc"}
    /\ opened \in SUBSET Tops \ {{}}
    /\ label \in [Tops -> Labels]
    /\ undone = {} /\ changes = 0
    /\ \E w \in opened :
        /\ active = {w}
        /\ \E v \in opened :
            worker = [NoTop EXCEPT !.want = ShownAs(protocol, v, label[v])]
    /\ asked = None /\ answer = None /\ confirmed = FALSE
    /\ struck = None /\ sole = {} /\ kept = {}

(***************************************************************************)
(* The worker.                                                             *)
(***************************************************************************)
Worker(r) == worker' = [worker EXCEPT !.at = r]
Fail == Worker("done") /\ answer' = "failed" /\ UNCHANGED <<asked, confirmed>>

\* Mutant: siblings that show the same are not refused.
MatchesFirst(list, key) == {w \in DOMAIN list : list[w] = key}

\* Mutant: the id alone is compared.
MatchesId(list, key) ==
    LET same == {w \in DOMAIN list : IdOf(list[w]) = IdOf(key)} IN
    IF Cardinality(same) = 1 THEN same ELSE {}

\* unique_window: the one window with the id, if it also shows what was asked for.
Unique(list, key) ==
    LET same == {w \in DOMAIN list : IdOf(list[w]) = IdOf(key)} IN
    IF Cardinality(same) = 1 THEN {w \in same : list[w] = key} ELSE {}

\* ipc_matches: a part the IPC did not name matches anything.
Fits(l, key) ==
    /\ key.label.app \in {None, Cut[l].app}
    /\ key.label.title \in {None, Cut[l].title}

\* The only handle that fits, in the foreign protocol of labwc.
OnlyHandle(key) ==
    LET fit == {w \in opened : Fits(label[w], key)} IN
    IF Cardinality(fit) = 1 THEN fit ELSE {}

\* labwc's list first; the binds of wlr, which describe every window there is.
BeginActivation ==
    /\ worker.at = "idle"
    /\ IF protocol = "labwc" THEN Worker("listing") /\ UNCHANGED undone
       ELSE Worker("collecting") /\ undone' = {}
    /\ UNCHANGED <<opened, label, active, changes, asked, answer, confirmed, struck>>

\* list_windows, unique_window, and a label to find it by.
ListIpc ==
    /\ worker.at = "listing"
    /\ IF Unique(TopList, worker.want) # {} /\ worker.want.label # Blank
       THEN Worker("collecting") /\ undone' = {} /\ UNCHANGED <<asked, answer, confirmed>>
       ELSE Fail /\ UNCHANGED undone
    /\ UNCHANGED <<opened, label, active, changes, struck>>

\* Mutant: the window chosen is the one listed when the call was made.
FindHandleListed == opened \cap (sole \cup Unique(TopList, worker.want))

\* The handle to activate, in what the last sync brought.
FindHandle ==
    IF protocol = "wlr" THEN Unique(TopList, worker.want) ELSE OnlyHandle(worker.want)

\* collect: a sync, until no window lacks its description; labwc does not wait for it.
Collect ==
    /\ worker.at = "collecting"
    /\ \/ /\ protocol = "wlr" /\ undone # {}
          /\ IF worker.tries + 1 < MaxRoundtrips
             THEN /\ worker' = [worker EXCEPT !.tries = @ + 1]
                  /\ UNCHANGED <<asked, answer, confirmed>>
             ELSE Fail
       \/ /\ protocol = "labwc" \/ undone = {}
          /\ IF FindHandle = {} THEN Fail
             ELSE /\ \E w \in FindHandle :
                        worker' = [worker EXCEPT !.at = "sending", !.handle = w]
                  /\ UNCHANGED <<asked, answer, confirmed>>
    /\ UNCHANGED <<compositorVars, struck>>

\* handle.activate(seat), flushed by the sync after it.
SendActivate ==
    /\ worker.at = "sending"
    /\ Worker("sent")
    /\ asked' = worker.handle
    /\ UNCHANGED <<compositorVars, answer, confirmed, struck>>

\* Mutant: the answer is given without waiting for the last sync.
HandledUnsynced ==
    /\ worker.at = "sent"
    /\ Worker("done")
    /\ answer' = "ok"
    /\ UNCHANGED <<compositorVars, asked, confirmed, struck>>

\* The last sync is answered after the request.
Handled ==
    /\ worker.at = "sent"
    /\ asked = None
    /\ Worker("done")
    /\ answer' = "ok"
    /\ UNCHANGED <<compositorVars, asked, confirmed, struck>>

\* Mutant: a timeout drops the worker's handle, and the worker goes on.
BreakOffDetached ==
    /\ worker.at \in {"listing", "collecting", "sending", "sent"}
    /\ answer' = "failed"
    /\ UNCHANGED <<compositorVars, worker, asked, confirmed, struck>>

\* The deadline, or an error of a socket, wherever the worker waits.  query awaits the
\* worker itself, so nothing is sent after the answer.
BreakOff ==
    /\ worker.at \in {"listing", "collecting", "sending", "sent"}
    /\ Fail
    /\ UNCHANGED <<compositorVars, struck>>

(***************************************************************************)
(* The focus query that follows.                                           *)
(***************************************************************************)
BeginFocus ==
    /\ worker.at = "done" /\ answer = "ok"
    /\ worker' = [worker EXCEPT !.at = IF protocol = "labwc" THEN "asking" ELSE "checking",
                                !.tries = 0]
    /\ undone' = {}
    /\ UNCHANGED <<opened, label, active, changes, asked, answer, confirmed, struck>>

\* GET_FOCUSED_WINDOW: a window or nothing.
AskFocused ==
    /\ worker.at = "asking"
    /\ \E f \in IF active = {} THEN {None} ELSE {Shown(w) : w \in active} :
        worker' = [worker EXCEPT !.at = IF f = None THEN "checked" ELSE "checking",
                                 !.focused = f]
    /\ UNCHANGED <<compositorVars, asked, answer, confirmed, struck>>

\* focused_in: the one activated window, if nothing else has its id.  labwc: the window
\* that was said to have the focus, if it is listed once and has it still.
FocusedWindow ==
    IF protocol = "labwc" THEN Unique(TopList, worker.focused) \cap active
    ELSE IF Cardinality(active) = 1
         THEN {w \in active : Unique(TopList, Shown(w)) = {w}} ELSE {}

CheckFocus ==
    /\ worker.at = "checking"
    /\ \/ /\ protocol = "wlr" /\ undone # {} /\ worker.tries + 1 < MaxRoundtrips
          /\ worker' = [worker EXCEPT !.tries = @ + 1]
          /\ UNCHANGED confirmed
       \/ /\ protocol = "labwc" \/ undone = {} \/ worker.tries + 1 = MaxRoundtrips
          /\ Worker("checked")
          /\ confirmed' = (/\ protocol = "wlr" => undone = {}
                           /\ \E w \in FocusedWindow : IdOf(Shown(w)) = IdOf(worker.want))
    /\ UNCHANGED <<compositorVars, asked, answer, struck>>

(***************************************************************************)
(* The compositor, the programs and the user.                              *)
(***************************************************************************)
Watched == worker.at \notin {"checked"} /\ (worker.at = "done" => asked # None \/ answer = "ok")
Changed == Watched /\ changes < MaxChanges /\ changes' = changes + 1
Untouched == UNCHANGED <<worker, asked, answer, confirmed, struck>>

\* It handles the request; the handle of a closed window is inert.
Activates ==
    /\ asked # None
    /\ asked' = None
    /\ IF asked \in opened THEN active' = {asked} /\ struck' = asked
       ELSE UNCHANGED <<active, struck>>
    /\ UNCHANGED <<opened, label, undone, changes, worker, answer, confirmed>>

TopOpens(w) ==
    /\ Changed /\ w \notin opened
    /\ opened' = opened \cup {w} /\ undone' = undone \cup {w}
    /\ label' = [label EXCEPT ![w] = Blank]
    /\ UNCHANGED active /\ Untouched
Retitled(w, l) ==
    /\ Changed /\ w \in opened /\ label[w] # l
    /\ label' = [label EXCEPT ![w] = l]
    /\ UNCHANGED <<opened, undone, active>> /\ Untouched
Described(w) ==
    /\ w \in undone /\ undone' = undone \ {w}
    /\ UNCHANGED <<opened, label, active, changes>> /\ Untouched
TopCloses(w) ==
    /\ Changed /\ w \in opened
    /\ opened' = opened \ {w} /\ undone' = undone \ {w} /\ active' = active \ {w}
    /\ UNCHANGED label /\ Untouched
\* Focus moves; a compositor may announce the new window before the old one.
FocusMoves(w) ==
    /\ Changed /\ w \in opened \ active
    /\ active' \in {{w}, active \cup {w}}
    /\ UNCHANGED <<opened, label, undone>> /\ Untouched

\* The windows that match, in the sense of the protocol they are activated by.
NamedNow(open, show) ==
    IF protocol = "wlr"
    THEN {w \in open : ShownAs(protocol, w, show[w]) = worker.want}
    ELSE {w \in open : Fits(show[w], worker.want)}
SameId(open, show) == {w \in open : IdOf(ShownAs(protocol, w, show[w])) = IdOf(worker.want)}

\* What was the case while the worker looked.
Look ==
    LET named == NamedNow(opened', label')
        same == SameId(opened', label') IN
    /\ sole' = IF worker'.at = "collecting" /\ Cardinality(named) = 1
               THEN sole \cup named ELSE sole
    /\ kept' = IF /\ worker.at \in {"done", "asking", "checking"}
                  /\ worker'.at \in {"asking", "checking"}
                  /\ Cardinality(same) = 1 /\ same \subseteq active'
               THEN kept \cup same ELSE kept
-----------------------------------------------------------------------------
TopServer ==
    \/ BeginActivation \/ ListIpc \/ Collect \/ SendActivate \/ Handled \/ BreakOff
    \/ BeginFocus \/ AskFocused \/ CheckFocus

TopDesktop ==
    \/ Activates
    \/ \E w \in Tops :
        \/ TopOpens(w) \/ Described(w) \/ TopCloses(w) \/ FocusMoves(w)
        \/ \E l \in Labels : Retitled(w, l)

TopNext == (TopServer \/ TopDesktop) /\ Look /\ UNCHANGED protocol
TopSpec == TopInit /\ [][TopNext]_topVars
-----------------------------------------------------------------------------
\* The window that gets the focus was, at some time while the call collected the windows,
\* the only one that showed what the caller named; siblings are refused ("rejected before
\* activation or focus verification").  A success means the compositor has handled the
\* request, and none is sent after the call has answered ("potentially activate after the
\* tool had returned").  Focus is confirmed only if the one window with the id had it at
\* some time during the query.
NamedIsActivated ==
    /\ [](struck # None => struck \in sole)
    /\ [](answer = "ok" => asked = None)
    /\ [][answer # None => asked' \in {asked, None}]_topVars
    /\ [](confirmed => kept # {})
=============================================================================
