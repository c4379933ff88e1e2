---------------------------- MODULE KwinElements ----------------------------
(***************************************************************************)
(* A click on an element of an accessibility tree, on KWin.  Toolkits tell *)
(* the bounds of an element from the corner of its window, from that of    *)
(* the window's content on the desktop, or from that of its frame, and do  *)
(* not say which.  The server compares the frame in the tree it has kept   *)
(* with the windows that KWin tells it of, and clicks only where one       *)
(* window and one point fit.  KwinWindows move, hide, close and come to the    *)
(* front in between.                                                       *)
(***************************************************************************)
EXTENDS CapturePoints

CONSTANTS
    KwinWindows,    \* windows
    ProcessOf,      \* the process of each
    Placements, \* what they may be like: [frame, client, shown, plain]
    Offsets     \* where elements are in the content of a window

ASSUME ElementAssumption ==
    /\ IsFiniteSet(KwinWindows) /\ ProcessOf \in [KwinWindows -> Nat]
    /\ Offsets \subseteq Pairs
    /\ Placements \subseteq [frame : Rectangles, client : Rectangles, shown : BOOLEAN, plain : BOOLEAN]
    /\ \A w \in Placements, i \in Axes :
          w.frame.at[i] <= w.client.at[i] /\ Far(w.client)[i] <= Far(w.frame)[i]

VARIABLES
    wins,       \* the windows KWin has: what each is like, or Absent
    front,      \* the active one
    tree,       \* the tree kept: [owner, told, point, spot, id, pid], or Absent
    elem        \* the click, or Absent

windowVars == <<wins, front>>
elementVars == <<pointVars, windowVars, tree, elem>>
Open == {w \in KwinWindows : wins[w] # Absent}

(***************************************************************************)
(* The tree, and the click up to what it wants to hit.                     *)
(***************************************************************************)

Plus(p, q) == [i \in Axes |-> p[i] + q[i]]
Minus(p, q) == [i \in Axes |-> p[i] - q[i]]

\* The bounds of a window's frame in the tree, by the toolkit.
Tells(w, toolkit) ==
    CASE toolkit = "local" -> [w.client EXCEPT !.at = <<0, 0>>]
      [] toolkit = "client" -> w.client
      [] toolkit = "frame" -> w.frame

\* An element at this place in the content of a window; spot is where it is on the screen.
\* A tree is of a process, whichever window was asked for.
ReadTree ==
    /\ tree = Absent
    /\ \E w \in Open, toolkit \in {"local", "client", "frame"}, p \in Offsets,
          known \in BOOLEAN :
       \E id \in {Absent} \cup {v \in Open : ProcessOf[v] = ProcessOf[w]} :
         LET spot == Plus(wins[w].client.at, p)
         IN  tree' = [owner |-> w, toolkit |-> toolkit, told |-> Tells(wins[w], toolkit),
                      point |-> IF toolkit = "local" THEN p ELSE spot, spot |-> spot,
                      offset |-> p, id |-> id, pid |-> IF known THEN ProcessOf[w] ELSE Absent]
    /\ UNCHANGED <<pointVars, windowVars, elem>>

NewElem == [at |-> "target", global |-> FALSE, focus |-> Absent, id |-> Absent, pid |-> Absent,
            point |-> Absent, windows |-> Absent, front |-> Absent, outputs |-> {},
            since |-> Absent, logical |-> Absent, pixel |-> Absent, size |-> Absent,
            hit |-> Absent, answer |-> Absent]

ElemAt(at) == elem # Absent /\ elem.at = at
Step(at) == elem' = [elem EXCEPT !.at = at]
AnswerElem(answer) == elem' = [NewElem EXCEPT !.at = "done", !.answer = answer]
ElemOnly == UNCHANGED <<pointVars, windowVars, tree>>

\* With coordinate_space "atspi" the caller gives a point of the desktop.
BeginElement(global, focus) ==
    /\ elem = Absent /\ tree # Absent
    /\ elem' = [NewElem EXCEPT !.at = IF focus = Absent THEN "target" ELSE "focus",
                               !.global = global, !.focus = focus,
                               !.point = IF global THEN tree.spot ELSE tree.point]
    /\ ElemOnly

FocusElement ==
    /\ ElemAt("focus")
    /\ \/ AnswerElem("refused") /\ UNCHANGED windowVars
       \/ elem.focus \in Open /\ front' = elem.focus /\ UNCHANGED wins /\ Step("target")
    /\ UNCHANGED <<pointVars, tree>>

\* depth_one_kwin_element_frame.
InFrame == elem.global \/ Inside(elem.point, tree.told)

TargetElement ==
    /\ ElemAt("target")
    /\ IF \/ elem.focus # Absent /\ tree.id \notin {Absent, elem.focus}
          \/ ~InFrame
       THEN AnswerElem("refused")
       ELSE elem' = [elem EXCEPT !.at = IF tree.pid = Absent THEN "owner" ELSE "kwin",
                                 !.id = IF elem.focus # Absent THEN elem.focus ELSE tree.id,
                                 !.pid = tree.pid]
    /\ ElemOnly

\* object_ref_owner_pid.
LearnPid ==
    /\ ElemAt("owner")
    /\ \/ AnswerElem("refused")
       \/ elem' = [elem EXCEPT !.at = "kwin", !.pid = ProcessOf[tree.owner]]
    /\ ElemOnly

ReadKwin ==
    /\ ElemAt("kwin")
    /\ \/ AnswerElem("refused")
       \/ elem' = [elem EXCEPT !.at = "map", !.windows = wins, !.front = front,
                               !.outputs = Shown(desktop), !.since = changes]
    /\ ElemOnly

(***************************************************************************)
(* map_element_click: every way in which what KWin told does not fit is a  *)
(* refusal.                                                                *)
(***************************************************************************)

Near(p, q) == \A i \in Axes : p[i] - q[i] \in -1..1

\* element_coordinate_matches: what the bounds of the frame may be measured from.
FitsLocal(told, w) == Near(told.at, <<0, 0>>) /\ Near(told.size, w.client.size)
FitsClient(told, w) == Near(told.at, w.client.at) /\ Near(told.size, w.client.size)
FitsFrame(told, w) == Near(told.at, w.frame.at) /\ Near(told.size, w.frame.size)
FitsWindow(told, w) == FitsLocal(told, w) \/ FitsClient(told, w) \/ FitsFrame(told, w)

PointsIn(w) ==
    LET p == elem.point
        told == tree.told
        within(r) == elem.global => Inside(p, r)
        local == IF elem.global THEN p ELSE Plus(w.client.at, Minus(p, told.at))
    IN  (IF FitsLocal(told, w) /\ within(w.client) THEN {local} ELSE {})
        \cup (IF \/ FitsClient(told, w) /\ within(w.client)
                 \/ FitsFrame(told, w) /\ within(w.frame)
              THEN {p} ELSE {})

\* Mutant: of several points the first is taken.
FirstOf(points) == IF points = {} THEN Absent ELSE CHOOSE p \in points : TRUE

\* global_element_point: there must be one.
TheOne(points) ==
    IF Cardinality(points) = 1 THEN CHOOSE p \in points : TRUE ELSE Absent

\* Mutant: the window that was asked for is taken to own the element.
OwnerAsked ==
    LET fitting == {w \in KwinWindows : /\ elem.windows[w] # Absent /\ ProcessOf[w] = elem.pid
                                    /\ elem.id \in {Absent, w}
                                    /\ FitsWindow(tree.told, elem.windows[w])}
    IN  TheOne({w \in fitting : elem.windows[w].plain /\ elem.windows[w].shown})

\* associated_window: the only window of the process, hidden ones counted, that fits, which
\* is the one that was asked for if one was.
OwnerSeen ==
    LET fitting == {w \in KwinWindows : /\ elem.windows[w] # Absent /\ ProcessOf[w] = elem.pid
                                    /\ FitsWindow(tree.told, elem.windows[w])}
        w == TheOne(fitting)
    IN  IF w # Absent /\ elem.id \in {Absent, w}
           /\ elem.windows[w].plain /\ elem.windows[w].shown
        THEN w ELSE Absent

\* Mutant: the union of the outputs is taken to begin at 0, 0.
PixelFromZero(p, union, size) == [i \in Axes |-> (2 * p[i] * size[i] + union.size[i]) \div (2 * union.size[i])]

\* round_coordinate: half a pixel is rounded up.
Pixel(p, union, size) ==
    [i \in Axes |-> (2 * (p[i] - union.at[i]) * size[i] + union.size[i]) \div (2 * union.size[i])]

\* The output KWin has a window on is that of its middle.
OutputOf(w, outputs) ==
    LET middle == [i \in Axes |-> w.frame.at[i] + w.frame.size[i] \div 2]
    IN  {m \in outputs : Inside(middle, RectOf(m))}

\* capture_point: outputs that do not overlap, of the scale of the picture within a
\* hundredth, and a point on the output of the window.
OnCapture(p, w, size) ==
    LET outputs == elem.outputs
        union == Box(Rects(outputs))
    IN  /\ \A m, n \in outputs : m = n \/ Cells(m) \cap Cells(n) = {}
        /\ Even(union, size)
        /\ \A m \in outputs, i \in Axes :
              LET apart == union.size[i] * m.scale - 2 * size[i]
              IN  50 * Max({apart, -apart}) <= union.size[i]
        /\ \E m \in OutputOf(w, outputs) : Inside(p, RectOf(m))
        /\ Inside(Pixel(p, union, size), [at |-> <<0, 0>>, size |-> size])

\* A picture is taken for its size; it counts as the last one only if the point is found.
MapElement ==
    /\ ElemAt("map")
    /\ LET w == OwnerSeen
           size == PictureSize(desktop)
           p == IF w = Absent THEN Absent ELSE TheOne(PointsIn(elem.windows[w]))
       IN  IF \/ w = Absent \/ p = Absent
              \/ elem.focus # Absent /\ elem.front # w
              \/ ~OnCapture(p, elem.windows[w], size)
           THEN AnswerElem("refused") /\ UNCHANGED view
           ELSE /\ elem' = [elem EXCEPT !.at = "ready", !.logical = p, !.size = size,
                            !.windows = Absent, !.front = Absent, !.outputs = {},
                                        !.pixel = Pixel(p, Box(Rects(elem.outputs)), size)]
                /\ view' = Pictured
    /\ UNCHANGED <<deskVars, session, axes, buttonDown, aim, shot, taken, windowVars, tree>>

\* Mutant: a device made for another picture is used.
FitsAnyDevice == axes # Absent

FitsDevice == axes = elem.size

\* kwin_abs_pointer_ready: the device is to be of the size of that picture.
ReadyDevice ==
    /\ ElemAt("ready")
    /\ IF ~env.uinput THEN Step("portal") /\ UNCHANGED axes
       ELSE IF FitsDevice THEN Step("device") /\ UNCHANGED axes
       ELSE \/ axes' = elem.size /\ Step("device")
            \/ /\ axes' = Absent
               /\ IF axes = Absent THEN Step("portal") ELSE AnswerElem("refused")
    /\ UNCHANGED <<deskVars, view, session, buttonDown, aim, shot, taken, windowVars, tree>>

\* The device takes pixels of the picture, the portal the logical point.
ClickElement ==
    /\ ElemAt("device") \/ ElemAt("portal")
    /\ \/ AnswerElem("error")
       \/ elem' = [elem EXCEPT !.at = "done", !.answer = "sent",
                     !.hit = IF elem.at = "device" THEN SpotByDevice(elem.pixel) ELSE elem.logical]
    /\ ElemOnly

(***************************************************************************)
(* The user, and the specification.                                        *)
(***************************************************************************)

MayMove ==
    /\ changes.monitors + changes.window < MaxMoves
    /\ changes' = [changes EXCEPT !.window = @ + 1]
    /\ UNCHANGED <<env, desktop, window, view, session, axes, buttonDown, aim, shot, taken, tree, elem>>

WindowChanges ==
    /\ MayMove
    /\ \E w \in KwinWindows, to \in Placements \cup {Absent} :
         to # wins[w] /\ wins' = [wins EXCEPT ![w] = to]
    /\ UNCHANGED front

FrontChanges ==
    /\ MayMove
    /\ front' \in KwinWindows \ {front}
    /\ UNCHANGED wins

MonitorsChange == Rearrange /\ UNCHANGED <<windowVars, tree, elem>>

\* There may be a device of the size of an older picture.
ElementInit ==
    /\ RestInit
    /\ axes = Absent \/ (env.uinput /\ axes \in [Axes -> 1..Reach])
    /\ wins \in [KwinWindows -> Placements] /\ front \in KwinWindows
    /\ tree = Absent /\ elem = Absent

ElementSteps ==
    \/ ReadTree
    \/ \E global \in BOOLEAN, focus \in {Absent} \cup KwinWindows : BeginElement(global, focus)
    \/ FocusElement \/ TargetElement \/ LearnPid \/ ReadKwin
    \/ MapElement \/ ReadyDevice \/ ClickElement

ElementNext == ElementSteps \/ WindowChanges \/ FrontChanges \/ MonitorsChange
ElementSpec == ElementInit /\ [][ElementNext]_elementVars
-----------------------------------------------------------------------------
\* The frame in the tree is still that of its window.
StillTold == tree.owner \in Open /\ tree.told = Tells(wins[tree.owner], tree.toolkit)

\* The element is still where the caller has it: a place in the content of its window, or a
\* point of the desktop, which is also what a toolkit tells that tells frames.
StillMeant ==
    /\ StillTold
    /\ elem.global \/ tree.toolkit = "frame" =>
          tree.spot = Plus(wins[tree.owner].client.at, tree.offset)

\* A frame fits that is off by a point, and by another in its size.
Around(r) == [at |-> [i \in Axes |-> r.at[i] - 1], size |-> [i \in Axes |-> r.size[i] + 3]]

\* How far from its point the pixel of a click may be: half a pixel.  That is no point at all
\* from scale 1 on, unless the picture is not the desktop at its scale exactly: a click may
\* then be a point short.
Slack(i) ==
    LET across == Box(Rects(Shown(desktop))).size[i]
        size == PictureSize(desktop)[i]
    IN  {d \in -2..1 : /\ 2 * d * size <= across /\ 2 * (-1 - d) * size < across
                       /\ 2 * size = across * TopScale(desktop) => d >= 0}
Meant(p) == \A i \in Axes : elem.hit[i] - p[i] \in Slack(i)

\* A click on an element that is sent, with nothing changed since KWin was asked, goes to
\* a window of its process that is shown, to the one asked for if one was, and to the
\* element itself if the frame in the tree is still that of its window: not to a sibling of
\* the same size, nor beside it because the bounds were measured from elsewhere.
ElementIsHit ==
    ElemAt("done") /\ elem.answer = "sent" /\ elem.since = changes =>
        /\ \E w \in Open : /\ ProcessOf[w] = ProcessOf[tree.owner] /\ elem.id \in {Absent, w}
                           /\ wins[w].shown
                           /\ \E d \in [Axes -> -2..1] : /\ \A i \in Axes : d[i] \in Slack(i)
                                                        /\ Inside(Minus(elem.hit, d), Around(wins[w].frame))
        /\ StillMeant => Meant(Plus(wins[tree.owner].client.at, tree.offset))
=============================================================================
