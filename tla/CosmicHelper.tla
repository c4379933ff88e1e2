---------------------------- MODULE CosmicHelper ----------------------------
(***************************************************************************)
(* The COSMIC helper: a process per request that connects to the           *)
(* compositor, collects what its protocols announce and lists windows,     *)
(* activates one or tells the layout of the monitors.  Events come one by  *)
(* one in the order they were sent; the helper looks at what it has        *)
(* collected after any of them, while windows open, close, move and take   *)
(* the focus and monitors are rearranged.                                  *)
(***************************************************************************)
EXTENDS Integers, Sequences, FiniteSets

CONSTANTS
    Tasks,       \* what a helper is asked for: [what, win]
    Offers,      \* by that, what the compositor may offer: [info, xdg, manage]
    Wins,        \* windows; their identifiers do not come again
    Outs,        \* outputs, and heads of the output management protocol
    Spots,       \* coordinates: origins of outputs, places on an output
    Layouts,     \* arrangements of monitors: functions from heads to [there, on, x, mode]
    Origins,     \* of the outputs at the beginning
    Begin,       \* where the windows are at the beginning: [out, x]
    Roundtrips,  \* of prime
    MaxDesk,     \* bound on what changes on the desktop
    NoWin        \* no window, no output, nothing known

ASSUME CosmicAssumption ==
    /\ NoWin \notin Wins \cup Outs
    /\ Tasks \subseteq [what : {"list", "layout", "activate"}, win : Wins \cup {NoWin}]
    /\ \A t \in Tasks :
          /\ t.what = "activate" => t.win \in Wins
          /\ Offers[t.what] \subseteq [info : BOOLEAN, xdg : BOOLEAN, manage : BOOLEAN]
    /\ Spots \subseteq Int /\ Origins \in [Outs -> Int] /\ Begin \in [Wins -> [out : Outs, x : Int]]
    /\ Layouts \subseteq [Outs -> [there : BOOLEAN, on : BOOLEAN, x : Int, mode : Int]]
    /\ Roundtrips \in Nat \ {0}

VARIABLES
    task,       \* what this helper is asked
    has,        \* what the compositor offers
    shown,      \* windows there are
    activated,  \* the one that has the focus
    place,      \* the output of each, and where it is on it
    origin,     \* of each output
    layout,     \* the arrangement of the monitors
    due,        \* windows whose handle the compositor has not answered yet
    tracked,    \* windows whose handle it keeps up to date
    owed,       \* what the compositor is about to send: bursts in any order, and an end
    wire,       \* events the helper has not read
    unread,     \* requests the compositor has not read
    rec,        \* records of the helper
    tops,       \* toplevel_done
    outputs,    \* OutputPosition of each
    heads,      \* OutputHeadState of each
    ready,      \* output_layout_ready
    stage, trips,
    helperSays, \* its answer
    deskMoves,  \* changes on the desktop so far
    had         \* what there was since the helper was started

cosmicDeskVars == <<shown, activated, place, origin, layout, due, tracked, deskMoves, had>>
helperVars == <<rec, tops, outputs, heads, ready>>
stageVars == <<stage, trips, helperSays>>
cosmicVars == <<task, has, cosmicDeskVars, owed, wire, unread, helperVars, stageVars>>

NoRecord == [listed |-> FALSE, open |-> FALSE, named |-> FALSE, handle |-> FALSE, seen |-> FALSE,
             focused |-> FALSE, at |-> [o \in Outs |-> NoWin]]
NothingSaid == [kind |-> "nothing", listed |-> {}, focused |-> {}, bounds |-> <<>>, monitors |-> {}]
NoHead == [known |-> FALSE, on |-> FALSE, x |-> NoWin, mode |-> NoWin, over |-> FALSE]

NothingOwed == [bursts |-> {}, end |-> <<>>]

Global(w, p, o) == o[p[w].out] + p[w].x

CosmicBegins ==
    /\ due = {} /\ tracked = {} /\ owed = NothingOwed /\ wire = <<>>
    /\ unread = <<[do |-> "bind", win |-> NoWin], [do |-> "sync", win |-> NoWin]>>
    /\ rec = [w \in Wins |-> NoRecord] /\ tops = FALSE
    /\ outputs = [o \in Outs |-> [logical |-> NoWin, done |-> FALSE]]
    /\ heads = [h \in Outs |-> NoHead] /\ ready = FALSE
    /\ stage = "sync" /\ trips = 0 /\ helperSays = NothingSaid /\ deskMoves = 0
    /\ had = [activated |-> {activated}, place |-> [w \in Wins |-> {Global(w, place, origin)}],
              layout |-> {layout}, shown |-> shown, always |-> shown]

CosmicInit ==
    /\ task \in Tasks
    /\ has \in Offers[task.what]
    /\ IF task.what = "layout" THEN layout \in Layouts ELSE layout = NoWin
    /\ shown \in IF task.what = "layout" THEN {{}} ELSE SUBSET Wins
    /\ activated \in shown \cup {NoWin}
    /\ place = Begin
    /\ origin = Origins
    /\ CosmicBegins

(***************************************************************************)
(* The compositor                                                          *)
(***************************************************************************)
Event(e, w, o, x) == [e |-> e, win |-> w, out |-> o, x |-> x]
Announces(w) == <<Event("toplevel", w, NoWin, 0), Event("identifier", w, NoWin, 0)>>
StateOf(w, f) == Event(IF f = w THEN "focused" ELSE "unfocused", w, NoWin, 0)
States(w, f) == IF w \in tracked THEN <<StateOf(w, f)>> ELSE <<>>
Done == <<Event("tops_done", NoWin, NoWin, 0)>>
LayoutDone == <<Event("layout_done", NoWin, NoWin, 0)>>
Positions(o, x) ==
    IF has.xdg THEN <<Event("logical", NoWin, o, x), Event("output_done", NoWin, o, 0)>> ELSE <<>>
HeadEvents(h, l) ==
    <<Event(IF l[h].on THEN "enabled" ELSE "disabled", NoWin, h, 0)>> \o
    IF l[h].on THEN <<Event("mode", NoWin, h, l[h].mode), Event("position", NoWin, h, l[h].x)>>
    ELSE <<>>

Emits(events) == wire' = wire \o events /\ UNCHANGED owed
Owes(bursts, end) == owed' = [bursts |-> bursts, end |-> end] /\ UNCHANGED wire

\* It does nothing else until it has sent what it owes.
SendsOwed ==
    /\ \/ /\ \E b \in owed.bursts : wire' = wire \o b /\ owed' = [owed EXCEPT !.bursts = @ \ {b}]
       \/ /\ owed.bursts = {} /\ owed.end # <<>>
          /\ wire' = wire \o owed.end /\ owed' = NothingOwed
    /\ UNCHANGED <<task, has, cosmicDeskVars, unread, helperVars, stageVars>>

\* ext_foreign_toplevel_list is bound only where there is COSMIC's protocol of window states.
Announced == IF has.info THEN shown ELSE {}

NewHead(h, l) == <<Event("head", NoWin, h, 0)>> \o HeadEvents(h, l)
NewOutput(o) == <<Event("output_done", NoWin, o, 0)>> \o Positions(o, origin[o])

Serve ==
    /\ owed = NothingOwed /\ unread # <<>> /\ unread' = Tail(unread)
    /\ LET r == Head(unread) IN
       \/ /\ r.do = "bind"
          /\ IF task.what = "layout"
             THEN Owes({NewHead(h, layout) : h \in {o \in Outs : layout[o].there}}, LayoutDone)
             ELSE Owes({NewOutput(o) : o \in Outs} \cup {Announces(w) : w \in Announced}, <<>>)
          /\ UNCHANGED <<activated, due, tracked, had>>
       \/ /\ r.do = "sync" /\ Emits(<<Event("synced", NoWin, NoWin, 0)>>)
          /\ UNCHANGED <<activated, due, tracked, had>>
       \/ /\ r.do = "handle" /\ due' = due \cup ({r.win} \cap shown)
          /\ UNCHANGED <<owed, wire, activated, tracked, had>>
       \/ /\ r.do = "activate"
          /\ \/ /\ r.win \in shown /\ activated' = r.win
                /\ had' = [had EXCEPT !.activated = @ \cup {r.win}]
                /\ Emits(States(activated, r.win) \o States(r.win, r.win) \o Done)
             \/ UNCHANGED <<activated, owed, wire, had>>
          /\ UNCHANGED <<due, tracked>>
    /\ UNCHANGED <<task, has, shown, place, origin, layout, deskMoves, helperVars, stageVars>>

\* The handles asked for are answered some time later, together.
HandleEvents(w) ==
    <<StateOf(w, activated), Event("geometry", w, place[w].out, place[w].x)>>
TellHandles ==
    /\ owed = NothingOwed
    /\ due # {} /\ due' = {} /\ tracked' = tracked \cup due
    /\ Owes({HandleEvents(w) : w \in due}, Done)
    /\ UNCHANGED <<task, has, shown, activated, place, origin, layout, deskMoves, had, unread,
                   helperVars, stageVars>>

Changes(what) ==
    /\ stage # "done" /\ deskMoves < MaxDesk /\ deskMoves' = deskMoves + 1
    /\ owed = NothingOwed /\ (task.what = "layout") = (what = "layout")
    /\ UNCHANGED <<task, has, unread, helperVars, stageVars>>
Bound == unread = <<>> \/ Head(unread).do # "bind"

ToplevelOpens(w) ==
    /\ Changes("windows") /\ w \notin had.shown /\ shown' = shown \cup {w}
    /\ Emits(IF Bound /\ has.info THEN Announces(w) ELSE <<>>)
    /\ had' = [had EXCEPT !.shown = @ \cup {w}]
    /\ UNCHANGED <<activated, place, origin, layout, due, tracked>>

ToplevelCloses(w) ==
    /\ Changes("windows") /\ w \in shown /\ shown' = shown \ {w}
    /\ activated' = IF activated = w THEN NoWin ELSE activated
    /\ due' = due \ {w} /\ tracked' = tracked \ {w}
    /\ Emits(IF Bound /\ has.info THEN <<Event("closed", w, NoWin, 0)>> ELSE <<>>)
    /\ had' = [had EXCEPT !.activated = @ \cup {activated'}, !.always = @ \ {w}]
    /\ UNCHANGED <<place, origin, layout>>

FrontMoves(w) ==
    /\ Changes("windows") /\ w \in shown \ {activated} /\ activated' = w
    /\ Emits(States(activated, w) \o States(w, w) \o IF tracked # {} THEN Done ELSE <<>>)
    /\ had' = [had EXCEPT !.activated = @ \cup {w}]
    /\ UNCHANGED <<shown, place, origin, layout, due, tracked>>

\* A window on another output is there before it has left the first, or after.
ToplevelMoves(w, o, x) ==
    /\ Changes("windows") /\ w \in shown /\ place[w].out # o
    /\ place' = [place EXCEPT ![w] = [out |-> o, x |-> x]]
    /\ LET here == <<Event("geometry", w, o, x)>>
           away == <<Event("output_leave", w, place[w].out, 0)>> IN
       IF w \in tracked THEN Emits(here \o away \o Done) \/ Emits(away \o here \o Done)
       ELSE UNCHANGED <<owed, wire>>
    /\ had' = [had EXCEPT !.place[w] = @ \cup {Global(w, place', origin)}]
    /\ UNCHANGED <<shown, activated, origin, layout, due, tracked>>

OutputMoves(o, x) ==
    /\ Changes("windows") /\ x # origin[o] /\ origin' = [origin EXCEPT ![o] = x]
    /\ Emits(IF Bound THEN Positions(o, x) ELSE <<>>)
    /\ had' = [had EXCEPT !.place = [w \in Wins |-> @[w] \cup {Global(w, place, origin')}]]
    /\ UNCHANGED <<shown, activated, place, layout, due, tracked>>

\* The monitors are arranged anew: what changed of each head, in any order, and its end.
LayoutChanges(l) ==
    /\ Changes("layout") /\ l # layout /\ layout' = l
    /\ LET Changed == {o \in Outs : l[o] # layout[o] /\ (l[o].there \/ layout[o].there)}
           HeadChange(h) ==
             IF layout[h].there /\ ~l[h].there THEN <<Event("head_over", NoWin, h, 0)>>
             ELSE IF l[h].there /\ ~layout[h].there
                  THEN NewHead(h, l) ELSE HeadEvents(h, l) IN
       IF Bound THEN Owes({HeadChange(h) : h \in Changed}, LayoutDone)
       ELSE UNCHANGED <<owed, wire>>
    /\ had' = [had EXCEPT !.layout = @ \cup {l}]
    /\ UNCHANGED <<shown, activated, place, origin, due, tracked>>

(***************************************************************************)
(* The helper reads an event                                               *)
(***************************************************************************)
Asks(do, w) == unread' = Append(unread, [do |-> do, win |-> w])

HeadNews == {"head", "head_over", "enabled", "disabled", "mode", "position"}

\* Mutant: the layout stays ready until it is done again.
ReadyAfterDone(e) == e = "layout_done" \/ ready

\* output_layout_ready: from the manager's done to the next event of a head or a mode.
ReadyAfter(e) == e = "layout_done" \/ (ready /\ e \notin HeadNews)

HeadAfter(s, ev) ==
    CASE ev.e = "head" -> [NoHead EXCEPT !.known = TRUE]
      [] ev.e = "head_over" -> [s EXCEPT !.over = TRUE]
      [] ev.e = "enabled" -> [s EXCEPT !.on = TRUE]
      [] ev.e = "disabled" -> [s EXCEPT !.on = FALSE]
      [] ev.e = "mode" -> [s EXCEPT !.mode = ev.x]
      [] ev.e = "position" -> [s EXCEPT !.x = ev.x]

RecordAfter(r, ev, info) ==
    CASE ev.e = "toplevel" -> [r EXCEPT !.listed = TRUE, !.open = TRUE, !.handle = info]
      [] ev.e = "identifier" -> [r EXCEPT !.named = TRUE]
      [] ev.e = "closed" -> [r EXCEPT !.open = FALSE, !.handle = FALSE]
      [] ev.e = "focused" -> [r EXCEPT !.seen = TRUE, !.focused = TRUE]
      [] ev.e = "unfocused" -> [r EXCEPT !.seen = TRUE, !.focused = FALSE]
      [] ev.e = "geometry" -> [r EXCEPT !.at[ev.out] = ev.x]
      [] ev.e = "output_leave" -> [r EXCEPT !.at[ev.out] = NoWin]

OutputAfter(p, ev) ==
    CASE ev.e = "logical" -> [logical |-> ev.x, done |-> FALSE]
      [] ev.e = "output_done" -> [p EXCEPT !.done = TRUE]
      [] OTHER -> p

Dispatch ==
    /\ stage # "done" /\ wire # <<>> /\ wire' = Tail(wire)
    /\ LET ev == Head(wire) IN
       /\ rec' = IF ev.win = NoWin THEN rec
                 ELSE [rec EXCEPT ![ev.win] = RecordAfter(@, ev, has.info)]
       /\ tops' = (ev.e = "tops_done" \/ (tops /\ ~(ev.e = "toplevel" /\ has.info)))
       /\ outputs' = IF ev.out = NoWin THEN outputs
                     ELSE [outputs EXCEPT ![ev.out] = OutputAfter(@, ev)]
       /\ heads' = IF ev.e \in HeadNews THEN [heads EXCEPT ![ev.out] = HeadAfter(@, ev)] ELSE heads
       /\ ready' = ReadyAfter(ev.e)
       /\ trips' = trips + IF ev.e = "synced" THEN 1 ELSE 0
       /\ stage' = IF stage = "sync" /\ trips' = Roundtrips THEN "prime" ELSE stage
       /\ IF ev.e = "synced" /\ trips' < Roundtrips THEN Asks("sync", NoWin)
          ELSE IF ev.e = "toplevel" /\ has.info THEN Asks("handle", ev.win) ELSE UNCHANGED unread
    /\ UNCHANGED <<task, has, cosmicDeskVars, owed, helperSays>>

(***************************************************************************)
(* The helper looks at what it has                                         *)
(***************************************************************************)
Replies(what, listed, focused, bounds, monitors) ==
    /\ stage' = "done"
    /\ helperSays' = [kind |-> what, listed |-> listed, focused |-> focused, bounds |-> bounds,
                 monitors |-> monitors]
    /\ UNCHANGED unread
Says(what) == Replies(what, {}, {}, <<>>, {})
Looks == UNCHANGED <<task, has, cosmicDeskVars, owed, wire, helperVars, trips>>

Opened == {w \in Wins : rec[w].open}

\* Mutant: it is enough to know a window's name.
StatesSeenNamed == \A w \in Opened : rec[w].named

\* cosmic_state_seen
StatesSeen == \A w \in Opened : rec[w].named /\ (rec[w].handle => rec[w].seen)

Primed ==
    /\ Opened = {} \/ ~has.info \/ tops
    /\ has.xdg => \A w \in Opened, o \in Outs :
                     rec[w].at[o] # NoWin => outputs[o].logical # NoWin /\ outputs[o].done
    /\ StatesSeen

\* Mutant: the origin of an output is not added.
GlobalBoundsRelative(r) ==
    LET known == {r.at[o] : o \in {p \in Outs : r.at[p] # NoWin /\ outputs[p].logical # NoWin}}
    IN IF Cardinality(known) = 1 THEN CHOOSE x \in known : TRUE ELSE NoWin

\* global_window_bounds: what the outputs whose origin is known agree on.
GlobalBounds(r) ==
    LET usable == {o \in Outs : r.at[o] # NoWin /\ outputs[o].done /\ outputs[o].logical # NoWin}
        known == {outputs[o].logical + r.at[o] : o \in usable}
    IN IF Cardinality(known) = 1 THEN CHOOSE x \in known : TRUE ELSE NoWin

CollectsWindows ==
    /\ stage = "prime" /\ Primed /\ task.what = "list"
    /\ LET listed == {w \in Opened : rec[w].named} IN
       Replies("windows", listed, {w \in listed : rec[w].focused},
               [w \in Wins |-> GlobalBounds(rec[w])], {})
    /\ Looks

GoesOn ==
    /\ stage = "prime" /\ Primed /\ task.what # "list" /\ stage' = task.what
    /\ UNCHANGED <<unread, helperSays>> /\ Looks

\* INIT_STATE_TIMEOUT passes.
NotPrimed == stage = "prime" /\ ~Primed /\ Says("error") /\ Looks

Active == {h \in Outs : heads[h].known /\ heads[h].on /\ ~heads[h].over}

\* monitor_layout_from_state: an incomplete head leaves no layout.
TellsLayout ==
    /\ stage = "layout" /\ ready
    /\ IF Active = {} \/ \E h \in Active : heads[h].x = NoWin \/ heads[h].mode = NoWin
       THEN Says("error")
       ELSE Replies("layout", {}, {}, <<>>, {<<heads[h].x, heads[h].mode>> : h \in Active})
    /\ Looks

NoLayout == stage = "layout" /\ ~ready /\ Says("error") /\ Looks

AsksForFocus ==
    /\ stage = "activate"
    /\ IF has.manage /\ rec[task.win].named /\ rec[task.win].handle
       THEN stage' = "verify" /\ Asks("activate", task.win) /\ UNCHANGED helperSays
       ELSE Says("error")
    /\ Looks

\* Mutant: any window that has the focus will do.
FocusSeenAny == \E w \in Opened : rec[w].focused

FocusSeen == task.win \in Opened /\ rec[task.win].focused

Verifies == stage = "verify" /\ FocusSeen /\ Says("verified") /\ Looks
VerifyLate == stage = "verify" /\ ~FocusSeen /\ Says("unverified") /\ Looks

HelperStep ==
    \/ Dispatch \/ CollectsWindows \/ GoesOn \/ NotPrimed \/ TellsLayout \/ NoLayout
    \/ AsksForFocus \/ Verifies \/ VerifyLate
CompositorStep ==
    \/ Serve \/ SendsOwed \/ TellHandles
    \/ \E w \in Wins : ToplevelOpens(w) \/ ToplevelCloses(w) \/ FrontMoves(w)
                         \/ (\E o \in Outs, x \in Spots : ToplevelMoves(w, o, x))
    \/ \E o \in Outs, x \in Spots : OutputMoves(o, x)
    \/ \E l \in Layouts : LayoutChanges(l)
CosmicNext == HelperStep \/ (stage # "done" /\ CompositorStep)
CosmicSpec == CosmicInit /\ [][CosmicNext]_cosmicVars
-----------------------------------------------------------------------------
\* A listing has every window that was there all the time and none that never was, or none
\* at all where COSMIC does not tell states of windows; one that kept the focus has it, one
\* that has it had it; and bounds are where the window was at some time ("Only xdg-output logical_position can translate COSMIC's output-relative
\* window geometry").
ListingIsTrue ==
    helperSays.kind = "windows" =>
        /\ IF has.info THEN had.always \subseteq helperSays.listed ELSE helperSays.listed = {}
        /\ helperSays.listed \subseteq had.shown /\ helperSays.focused \subseteq had.activated
        /\ \A w \in helperSays.listed \ helperSays.focused : had.activated # {w}
        /\ \A w \in helperSays.listed : helperSays.bounds[w] \in had.place[w] \cup {NoWin}

\* Verified means that the window itself had the focus while the helper looked, and a window
\* that had it all the time is verified.
ActivationIsTrue ==
    /\ helperSays.kind = "verified" => task.win \in had.activated
    /\ helperSays.kind = "unverified" => had.activated # {task.win}

\* A layout is one the monitors had, never half of one and half of the next.
LayoutIsWhole ==
    helperSays.kind = "layout" =>
        \E l \in had.layout :
            helperSays.monitors =
                {<<l[h].x, l[h].mode>> : h \in {o \in Outs : l[o].there /\ l[o].on}}

\* What the helper says of the desktop was so at some time while it looked.
HelperIsTrue == ListingIsTrue /\ ActivationIsTrue /\ LayoutIsWhole
=============================================================================
