----------------------------- MODULE WindowFocus -----------------------------
(***************************************************************************)
(* Focusing a window before input is sent to it (windowing/target.rs and   *)
(* registry.rs): the windows are listed by the first backend that answers, *)
(* the target is resolved and activated through the backend that listed    *)
(* it, and focus is queried until the window has it or the time is over.   *)
(*                                                                         *)
(* KWin's script transactions are those of KwinScript, step by step; one   *)
(* backend stands for those tried after it and answers at once or fails.   *)
(***************************************************************************)
EXTENDS KwinScript

CONSTANTS
    Target,     \* WindowTarget of each caller: how it names a window, and which
    App,        \* app_id of each window
    OtherWindows, \* the windows the other backend knows
    MaxQueries  \* bound on the focus queries of a call

ASSUME FocusAssumption ==
    /\ Target \in [Callers -> [by : {"window_id", "app_id"}, window : Windows]]
    /\ OtherWindows \subseteq Windows
    /\ MaxQueries \in Nat \ {0, 1}

VARIABLES
    call,   \* the state of each caller's focus_window_target
    seen,   \* the window had focus at some time since its activation was answered
    landed  \* it has had focus since before the deadline, without a break

focusVars == <<scriptVars, call, seen, landed>>

Verifying == {"querying", "other_query", "sleeping"}
CallSteps == Verifying \cup {"idle", "listing", "looking", "activating",
                             "other_list", "other_activate", "done", "cancelled"}

Idle == [at |-> "idle", window |-> None, other |-> FALSE, late |-> FALSE,
         startedLate |-> FALSE, queries |-> 0, stale |-> FALSE, missed |-> FALSE,
         last |-> None, ok |-> FALSE]

Init ==
    /\ ScriptInit
    /\ call = [c \in Callers |-> Idle]
    /\ seen = [c \in Callers |-> FALSE]
    /\ landed = [c \in Callers |-> FALSE]

Set(c, r) == call' = [call EXCEPT ![c] = r]

\* Its result stays.
Return(c, r) ==
    Set(c, [Idle EXCEPT !.at = "done", !.window = r.window, !.last = r.last, !.ok = r.ok,
                        !.missed = r.missed, !.stale = r.stale])

\* A call goes on with a script; a script a call waits for has ended; a call goes on
\* without one.
Scripted(c, kind, r) == Set(c, r) /\ Begin(c, kind, r.window)
Ended(c, at) == call[c].at = at /\ At(Current(c), {"done"})
Unscripted == UNCHANGED scriptVars
Collected(c) ==
    /\ tx' = Without(Current(c))
    /\ UNCHANGED <<scripts, objects, files, kwinVars, desktopVars>>
Answer(c) == tx[Current(c)].answer

(***************************************************************************)
(* List, resolve, activate.                                                *)
(***************************************************************************)

\* resolve_window_target: a window_id names one window, an app_id the first of its
\* windows in a list whose order is left open.
Resolutions(c, windows) ==
    IF Target[c].by = "window_id"
    THEN windows \cap {Target[c].window}
    ELSE {w \in windows : App[w] = App[Target[c].window]}

StartList(c) ==
    /\ call[c].at = "idle"
    /\ Scripted(c, "windows", [call[c] EXCEPT !.at = "listing"])

\* first_answer passes over a backend that fails or lists no windows.
ListedNothing(c) ==
    /\ Ended(c, "listing")
    /\ Answer(c).open = {}
    /\ Set(c, [call[c] EXCEPT !.at = "other_list"])
    /\ Collected(c)

\* The window is resolved; activate_window first lists again, for its uuid.
Listed(c) ==
    /\ Ended(c, "listing")
    /\ \E w \in Resolutions(c, Answer(c).open) :
        Scripted(c, "windows", [call[c] EXCEPT !.at = "looking", !.window = w])

\* No window matched, in either list.
Unresolved(c) ==
    /\ \/ /\ Ended(c, "listing")
          /\ Answer(c).open # {}
          /\ Resolutions(c, Answer(c).open) = {}
          /\ Collected(c)
       \/ call[c].at = "other_list" /\ Unscripted
    /\ Return(c, call[c])

Looked(c) ==
    /\ Ended(c, "looking")
    /\ call[c].window \in Answer(c).open
    /\ Scripted(c, "result", [call[c] EXCEPT !.at = "activating"])

\* The window has gone, or KWin does not answer or refuses.
NotActivated(c) ==
    /\ \/ Ended(c, "looking") /\ call[c].window \notin Answer(c).open
       \/ Ended(c, "activating") /\ ~Answer(c).ok
    /\ Return(c, call[c])
    /\ Collected(c)

Activated(c) ==
    /\ Ended(c, "activating")
    /\ Answer(c).ok
    /\ Scripted(c, "windows", [call[c] EXCEPT !.at = "querying", !.queries = 1])

\* The other backend answers, and its window is activated through it.
OtherListed(c) ==
    /\ call[c].at = "other_list"
    /\ \E w \in Resolutions(c, OtherWindows \cap open) :
        Set(c, [call[c] EXCEPT !.at = "other_activate", !.window = w, !.other = TRUE])
    /\ Unscripted

\* It refuses, or activates the window if it is still there.
OtherActivates(c) ==
    /\ call[c].at = "other_activate"
    /\ \/ Return(c, call[c]) /\ UNCHANGED active
       \/ /\ call[c].window \in open
          /\ active' = call[c].window
          /\ Set(c, [call[c] EXCEPT !.at = "other_query", !.queries = 1])
    /\ UNCHANGED <<scripts, tx, objects, files, kwinVars, open>>

(***************************************************************************)
(* wait_for_focused_window                                                 *)
(***************************************************************************)

\* focus_satisfies_target: exact focus, or that of the application if it was named.
Satisfies(c, requested, focused) ==
    /\ focused # None
    /\ \/ focused = requested
       \/ Target[c].by = "app_id" /\ App[focused] = App[requested]

\* The wait is over: the result has the last window a query reported.
Conclude(c, r) == Return(c, [r EXCEPT !.ok = Satisfies(c, r.window, r.last)])

\* Mutant: a query that ended past the deadline is the last one.
HeardLate(c, r) ==
    IF r.last = r.window \/ r.late
    THEN Conclude(c, r)
    ELSE Set(c, [r EXCEPT !.at = "sleeping"])

\* A query that started past the deadline is the last one.
Heard(c, r) ==
    IF r.last = r.window \/ r.startedLate
    THEN Conclude(c, r)
    ELSE Set(c, [r EXCEPT !.at = "sleeping"])

\* Mutant: a query without an answer counts as one for the window (is_none_or).
JudgeLenient(c, ok, window) ==
    Heard(c, [call[c] EXCEPT !.missed = ~ok, !.stale = window = None,
                             !.last = IF window = None THEN call[c].window ELSE window])

\* A query answers with the focused window or None, or it fails.
Judge(c, ok, window) ==
    Heard(c, [call[c] EXCEPT !.missed = ~ok, !.stale = window = None,
                             !.last = IF window = None THEN @ ELSE window])

Queried(c) ==
    /\ Ended(c, "querying")
    /\ Judge(c, Answer(c).ok, Answer(c).active)
    /\ Collected(c)

OtherQueried(c) ==
    /\ call[c].at = "other_query"
    /\ \/ Judge(c, TRUE, IF active \in OtherWindows THEN active ELSE None)
       \/ Judge(c, FALSE, None)
    /\ Unscripted

\* FOCUS_VERIFY_QUERY_TIMEOUT: the query is dropped, and the wait ends.
CutOff(c) ==
    /\ \/ call[c].at = "querying" /\ Drop(Current(c))
       \/ call[c].at = "other_query" /\ Unscripted
    /\ Conclude(c, [call[c] EXCEPT !.missed = TRUE, !.stale = TRUE])

\* FOCUS_VERIFY_DELAY is over, or the deadline has come: started is now.
QueryAgain(c) ==
    /\ call[c].at = "sleeping"
    /\ call[c].late \/ call[c].queries + 1 < MaxQueries
    /\ LET r == [call[c] EXCEPT !.queries = @ + 1, !.startedLate = call[c].late,
                                 !.missed = FALSE, !.stale = FALSE] IN
        IF r.other THEN Set(c, [r EXCEPT !.at = "other_query"]) /\ Unscripted
        ELSE Scripted(c, "windows", [r EXCEPT !.at = "querying"])

\* FOCUS_VERIFY_TRANSITION_TIMEOUT
Deadline(c) ==
    /\ call[c].at \in Verifying
    /\ ~call[c].late
    /\ Set(c, [call[c] EXCEPT !.late = TRUE])
    /\ Unscripted

\* The client cancels the request, and the future is dropped with what it awaits.
Cancel(c) ==
    /\ "drop" \in Faults
    /\ call[c].at \notin {"idle", "done", "cancelled"}
    /\ Set(c, [Idle EXCEPT !.at = "cancelled"])
    /\ IF At(Current(c), Steps \ {"done"}) THEN Drop(Current(c)) ELSE Unscripted
-----------------------------------------------------------------------------
Proceed(c) ==
    \/ StartList(c) \/ ListedNothing(c) \/ Listed(c) \/ Unresolved(c)
    \/ Looked(c) \/ NotActivated(c) \/ Activated(c)
    \/ OtherListed(c) \/ OtherActivates(c)
    \/ Queried(c) \/ OtherQueried(c) \/ QueryAgain(c)

CallStep(c) == Proceed(c) \/ CutOff(c) \/ Deadline(c) \/ Cancel(c)

\* The user acts at any time; when it makes no difference to a call it is left out.
Switching == \E c \in Callers : call[c].at \in Verifying \cup {"activating", "other_activate"}
Calling == \E c \in Callers : call[c].at \notin {"done", "cancelled"}

\* What the desktop showed while a call verified focus.
Watch ==
    LET focus(c) == call'[c].at \in Verifying IN
    /\ seen' = [c \in Callers |->
                  \/ seen[c]
                  \/ focus(c) /\ Satisfies(c, call'[c].window, active')]
    /\ landed' = [c \in Callers |->
                  IF focus(c)
                  THEN active' = call'[c].window /\ (landed[c] \/ ~call'[c].late)
                  ELSE landed[c]]

Next ==
    /\ \/ \E c \in Callers : CallStep(c)
       \/ (\E t \in Scripts : Transact(t)) /\ UNCHANGED call
       \/ Kwin /\ UNCHANGED call
       \/ Switching /\ UserSwitches /\ UNCHANGED call
       \/ Calling /\ (\E w \in Windows : WindowCloses(w)) /\ UNCHANGED call
    /\ Watch

Spec == Init /\ [][Next]_focusVars

\* The server runs and its timers expire; nothing is assumed of KWin or the user.
FairSpec ==
    /\ Spec
    /\ \A c \in Callers :
        WF_focusVars((Proceed(c) \/ Deadline(c)) /\ Watch)
    /\ \A t \in Scripts : WF_focusVars(ServerSteps(t) /\ UNCHANGED call /\ Watch)
-----------------------------------------------------------------------------
\* Types, and that a call waits for a script of its own.
TypeOK ==
    /\ ScriptTypeOK
    /\ call \in [Callers -> [at : CallSteps, window : Windows \cup {None}, other : BOOLEAN,
                             late : BOOLEAN, startedLate : BOOLEAN, queries : 0..MaxQueries,
                             stale : BOOLEAN, missed : BOOLEAN,
                             last : Windows \cup {None}, ok : BOOLEAN]]
    /\ seen \in [Callers -> BOOLEAN] /\ landed \in [Callers -> BOOLEAN]

\* Input is sent, and a window reported as focused, only if a window the target allows
\* had focus at some time after its activation was answered: neither an answer from
\* before nor one meant for another script counts (focus_satisfies_target).  If it had
\* focus from some time before the deadline to the end, and the last query was answered,
\* the call says so: a query cut short by the deadline or begun before focus moved does
\* not decide (the comment in wait_for_focused_window_with).
FocusAnswerIsTrue ==
    \A c \in Callers :
        /\ call[c].ok => seen[c]
        /\ call[c].at = "done" /\ landed[c] /\ ~call[c].missed => call[c].ok

\* A call ends whatever KWin, the other backend and the user do.
CallEnds ==
    \A c \in Callers : call[c].at = "listing" ~> call[c].at \in {"done", "cancelled"}
=============================================================================
