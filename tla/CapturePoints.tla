---------------------------- MODULE CapturePoints ----------------------------
(***************************************************************************)
(* Points of a picture and the desktop they name.  Pictures are taken in   *)
(* device pixels of the box around all monitors; windows, portal streams   *)
(* and the pointer of the compositor live in its logical layout.  The      *)
(* server keeps the size of the last picture, the monitors it read for it, *)
(* a uinput device of some picture's size and a portal session with the    *)
(* layout it was started under, while monitors are rearranged, windows     *)
(* move and other calls take pictures between any two awaits.              *)
(*                                                                         *)
(* A pair is <<across, down>>; scales are in halves.                       *)
(***************************************************************************)
EXTENDS Integers, Sequences, FiniteSetsExt

CONSTANTS
    Hosts,       \* desktops: [desk, ext, views, uinput, eis]
    Desktops,    \* by desk, its arrangements: sets of [at, size, scale, turned, on, copy]
    Places,      \* where a window may be: [at, size]
    Requests,    \* of a call: [tool, points, relative]
    MaxMoves,    \* bounds: rearrangements and window moves,
    MaxPictures, \* pictures
    MaxCalls,    \* and calls
    Absent       \* nothing kept, nothing read

VARIABLES
    env,       \* the desktop the server runs on
    desktop,   \* the arrangement of its monitors
    window,    \* where the window is
    changes,   \* how often either changed
    view,      \* desktop_size and capture_layout, and how often the desktop had changed then
    session,   \* PortalPointerSession: [streams, layout, kwin, ei], or Absent
    axes,      \* the size abs_pointer was made for, or Absent
    buttonDown, \* whether its button is down
    aim,       \* the call that moves the pointer
    shot,      \* the call that takes a picture or places a window
    taken      \* pictures and calls so far

deskVars == <<env, desktop, window, changes>>
pointVars == <<deskVars, view, session, axes, buttonDown, aim, shot, taken>>

Axes == 1..2
Far(r) == [i \in Axes |-> r.at[i] + r.size[i]]
Inside(p, r) == \A i \in Axes : r.at[i] <= p[i] /\ p[i] < Far(r)[i]
RectOf(m) == [at |-> m.at, size |-> m.size]
Rects(monitors) == {RectOf(m) : m \in monitors}
Box(rects) ==
    LET low == [i \in Axes |-> Min({r.at[i] : r \in rects})]
    IN  [at |-> low, size |-> [i \in Axes |-> Max({Far(r)[i] : r \in rects}) - low[i]]]
Pairs == [Axes -> Int]
Rectangles == [at : Pairs, size : [Axes -> Nat]]

\* More than any desktop.
Reach == 1073741824
ASSUME DesktopAssumption ==
    /\ \A host \in Hosts : \A d \in Desktops[host.desk] :
          /\ \E m \in d : m.on
          /\ \A m \in d : /\ m.at \in [Axes -> (-Reach)..Reach] /\ m.size \in [Axes -> 1..Reach]
                         /\ m.scale \in 1..Reach
    /\ \A host \in Hosts : host.desk \in {"gnome", "kde", "hyprland", "sway", "x11"}
    /\ Places \subseteq [at : Pairs, size : [Axes -> Nat \ {0}]] /\ Absent \notin Pairs

Cells(r) == (r.at[1] .. Far(r)[1] - 1) \X (r.at[2] .. Far(r)[2] - 1)
RoundUp(a, b) == -((-a) \div b)

Wayland == env.desk # "x11"
Kwin == env.desk = "kde"

(***************************************************************************)
(* The desktop: what it shows, where its pointer goes and what it tells.   *)
(***************************************************************************)

Shown(d) == {m \in d : m.on}
TopScale(d) == Max({m.scale : m \in Shown(d)})

\* A picture has the box around the monitors at the largest scale, which on Sway is never
\* below 1; on X11 the root.
PictureScale(d) == IF env.desk = "sway" THEN Max({TopScale(d), 2}) ELSE TopScale(d)
InPixels(box, scale) == [i \in Axes |-> (box.size[i] * scale) \div 2]
PictureSize(d) ==
    LET box == Box(Rects(Shown(d)))
    IN  IF Wayland THEN InPixels(box, PictureScale(d)) ELSE Far(box)

\* What a pixel of a picture shows.  The picture is as many whole pixels as the box has at
\* its scale, so that those of a broken scale end before the box does.
SpotOf(d, p) ==
    LET box == Box(Rects(Shown(d)))
    IN  IF Wayland THEN [i \in Axes |-> box.at[i] + (2 * p[i]) \div PictureScale(d)] ELSE p
Lit(d, spot) == \E m \in Shown(d) : Inside(spot, m)

\* The compositor spreads the axes of a device over its layout.
SpotByDevice(p) ==
    LET box == Box(Rects(Shown(desktop)))
    IN  [i \in Axes |-> box.at[i] + (p[i] * box.size[i]) \div axes[i]]

\* mutter divides a point of a stream by the scale of its monitor if its views are scaled;
\* EIS is sent a global point.
SpotByStream(stream, p) ==
    LET scales == {m.scale : m \in {n \in Shown(desktop) : RectOf(n) = stream.rect}}
        scale == IF session.ei THEN stream.scale
                 ELSE IF env.views /\ scales # {} THEN Max(scales) ELSE 2
    IN  [i \in Axes |-> stream.rect.at[i] + p[i] \div scale]

\* hyprctl tells modes, kscreen-doctor all outputs in pixels, swaymsg rectangles; KWin,
\* the GNOME extension and COSMIC tell logical monitors, xrandr no scale.
Swapped(size, turned) == IF turned THEN <<size[2], size[1]>> ELSE size
Pixels(m) == [i \in Axes |-> (m.size[i] * m.scale) \div 2]
HyprctlTells(d) == {[m EXCEPT !.size = Swapped(Pixels(m), m.turned)] : m \in Shown(d)}
KscreenTells(d) == {[m EXCEPT !.size = Pixels(m)] : m \in d}
MonitorOf(m) == [at |-> m.at, size |-> m.size, scale |-> m.scale]
XrandrTells(d) == {[MonitorOf(m) EXCEPT !.scale = 0] : m \in Shown(d)}

(***************************************************************************)
(* Reading the layout.  A layout is a set of monitors, {} if there is none *)
(* that can be used.                                                       *)
(***************************************************************************)

\* Half a unit is rounded up.
Logical(size, scale) == [i \in Axes |-> (4 * size[i] + scale) \div (2 * scale)]

ParseHyprland(told) ==
    {[MonitorOf(m) EXCEPT !.size = Logical(Swapped(m.size, m.turned), m.scale)] : m \in told}

ParseKscreen(told) ==
    {[MonitorOf(m) EXCEPT !.size = Logical(m.size, m.scale)]
        : m \in {n \in told : n.on /\ ~n.copy}}

ParseSway(told) == {MonitorOf(m) : m \in {n \in told : n.on}}

\* kwin_output_layout takes no outputs that overlap.
KwinLayout ==
    IF Kwin /\ \A m, n \in Shown(desktop) : m = n \/ Cells(m) \cap Cells(n) = {}
    THEN {MonitorOf(m) : m \in Shown(desktop)} ELSE {}

CompositorLayout ==
    CASE env.desk = "gnome" -> IF env.ext THEN {MonitorOf(m) : m \in Shown(desktop)} ELSE {}
      [] env.desk = "hyprland" -> ParseHyprland(HyprctlTells(desktop))
      [] Kwin -> ParseKscreen(KscreenTells(desktop))
      [] env.desk = "sway" -> ParseSway(desktop)
      [] OTHER -> {}

\* Any of the programs asked may fail: the next one is asked, or there is no layout.
CompositorReads == {CompositorLayout, {}}
LogicalReads == {CompositorLayout, XrandrTells(desktop), {}}

(***************************************************************************)
(* From one space to another.                                              *)
(***************************************************************************)

\* The scales of the two axes differ by a hundredth at most.
Even(box, size) ==
    LET apart == size[1] * box.size[2] - size[2] * box.size[1]
    IN  100 * Max({apart, -apart}) <= box.size[1] * box.size[2]

\* Mutant: the layout is taken to begin at 0, 0.
OutwardFromZero(r, box, size) ==
    LET low == [i \in Axes |-> (r.at[i] * size[i]) \div box.size[i]]
        high == [i \in Axes |-> RoundUp(Far(r)[i] * size[i], box.size[i])]
    IN  [at |-> low, size |-> [i \in Axes |-> high[i] - low[i]]]

\* A logical rectangle in pixels, rounded outward.
Outward(r, box, size) ==
    LET low == [i \in Axes |-> ((r.at[i] - box.at[i]) * size[i]) \div box.size[i]]
        high == [i \in Axes |-> RoundUp((Far(r)[i] - box.at[i]) * size[i], box.size[i])]
    IN  [at |-> low, size |-> [i \in Axes |-> high[i] - low[i]]]

\* monitor_rects_in_capture, root_monitor_rects: {} if the layout describes another space.
OnPicture(layout, size) ==
    IF layout = {} \/ ~Wayland THEN Rects(layout)
    ELSE LET box == Box(Rects(layout))
         IN  IF Even(box, size) THEN {Outward(RectOf(m), box, size) : m \in layout} ELSE {}

\* Bounds in the pixels of a desktop at one scale, rounded outward.
PixelBounds(scale) ==
    Outward(window, [at |-> Box(Rects(Shown(desktop))).at, size |-> <<2, 2>>], <<scale, scale>>)

\* HyprlandCaptureLayout, at the largest scale; Absent if the monitors cannot be read.
HyprlandBounds == {PixelBounds(TopScale(desktop)), Absent}

\* SwayCaptureLayout: also Absent where scales differ; its scale is never below 1.
SwayBounds ==
    {Absent} \cup (IF \E m, n \in Shown(desktop) : m.scale # n.scale THEN {}
                   ELSE {PixelBounds(Max({TopScale(desktop), 2}))})

\* What the listing of a backend may tell of the window.
ListedBounds ==
    CASE env.desk = "hyprland" -> HyprlandBounds
      [] env.desk = "sway" -> SwayBounds
      [] OTHER -> {window}

LogicalBounds == env.desk \in {"gnome", "kde"}

\* KWin tells the rectangle of its workspace, GNOME's extension the monitors.
WorkspaceReads ==
    (IF Kwin THEN {{Box(Rects(Shown(desktop)))}}
     ELSE IF env.ext THEN {Rects(Shown(desktop))} ELSE {}) \cup {{}}

Clip(r, size) ==
    LET low == [i \in Axes |-> Max({r.at[i], 0})]
        high == [i \in Axes |-> Min({Far(r)[i], size[i]})]
    IN  IF \E i \in Axes : high[i] <= low[i] THEN Absent
        ELSE [at |-> low, size |-> [i \in Axes |-> high[i] - low[i]]]

\* logical_window_crop_rect and the part of it that is on the picture, or Absent.
WindowMap(bounds, monitors, size) ==
    IF bounds = Absent \/ (LogicalBounds /\ (monitors = {} \/ ~Even(Box(monitors), size)))
    THEN Absent
    ELSE LET full == IF LogicalBounds THEN Outward(bounds, Box(monitors), size) ELSE bounds
             part == IF size = Absent THEN full ELSE Clip(full, size)
         IN  IF part = Absent THEN Absent ELSE [crop |-> part, full |-> full]

\* WindowCoordinateMap::portal_point.
Between(p, full, bounds) ==
    [i \in Axes |-> bounds.at[i] + ((p[i] - full.at[i]) * bounds.size[i]) \div full.size[i]]

\* map_capture_point_to_stream_layout: Absent unless all monitors are shared at one scale
\* and the picture is of this layout.
LogicalPoint(p) ==
    LET layout == session.layout
        streams == {s.rect : s \in session.streams}
        box == Box(Rects(layout))
        many == Cardinality(layout) > 1
        spot == [i \in Axes |-> box.at[i] + (p[i] * box.size[i]) \div view.size[i]]
    IN  IF \/ view.size = Absent \/ layout = {} \/ streams # Rects(layout)
           \/ ~Inside(p, [at |-> <<0, 0>>, size |-> view.size])
           \/ many /\ \E m, n \in layout : m.scale # n.scale
           \/ many /\ (\E m \in layout : m.scale = 0) /\ view.size # box.size
           \/ ~Even(box, view.size)
           \/ ~\E r \in streams : Inside(spot, r)
        THEN Absent ELSE spot

\* PortalStream::relative_point, in halves of a pixel.
InStream(stream, spot) == [i \in Axes |-> (spot[i] - stream.rect.at[i]) * stream.scale]

Clamp(p, size) == [i \in Axes |-> Max({0, Min({p[i], size[i] - 1})})]

(***************************************************************************)
(* Pictures.                                                               *)
(***************************************************************************)

NoView == [size |-> Absent, gen |-> 0, monitors |-> Absent, seen |-> Absent, stale |-> FALSE]

\* Mutant: the monitors read for the picture before are kept.
PicturedOver ==
    [view EXCEPT !.size = PictureSize(desktop), !.gen = @ + 1, !.seen = changes.monitors]

\* cache_desktop_size: the monitors are to be read again.
Pictured ==
    [size |-> PictureSize(desktop), gen |-> view.gen + 1, monitors |-> Absent, seen |-> changes.monitors,
     stale |-> FALSE]

NoShot == [at |-> "idle", does |-> "screen", bounds |-> Absent, since |-> Absent, size |-> Absent,
           seen |-> Absent, says |-> Absent, crop |-> Absent]

\* A window is resolved, raised and listed before the picture is taken.
BeginPicture(does) ==
    /\ shot.at \in {"idle", "done"}
    /\ taken.pictures < MaxPictures
    /\ taken' = [taken EXCEPT !.pictures = @ + 1]
    /\ \E bounds \in IF does = "screen" THEN {Absent} ELSE ListedBounds :
         shot' = [NoShot EXCEPT !.at = IF does = "move" THEN "move" ELSE "take", !.does = does,
                                !.bounds = bounds, !.since = changes]
    /\ UNCHANGED <<deskVars, view, session, axes, buttonDown, aim>>

TakePicture ==
    /\ shot.at = "take"
    /\ view' = Pictured
    /\ shot' = [shot EXCEPT !.at = IF shot.does = "window" /\ shot.bounds # Absent THEN "warn" ELSE "done",
                            !.size = view'.size]
    /\ UNCHANGED <<deskVars, session, axes, buttonDown, aim, taken>>

\* move_window, resize_window: the compositor has the last word, and the window is listed
\* again. Only GNOME's extension and X11 can do it.
PlaceWindow ==
    /\ shot.at = "move"
    /\ IF env.desk = "x11" \/ env.ext
       THEN /\ window' \in Places
            /\ shot' = [shot EXCEPT !.at = "list"]
       ELSE /\ shot' = [shot EXCEPT !.at = "done"]
            /\ UNCHANGED window
    /\ UNCHANGED <<env, desktop, changes, view, session, axes, buttonDown, aim, taken>>

ListAgain ==
    /\ shot.at = "list"
    /\ \E bounds \in ListedBounds :
         shot' = [shot EXCEPT !.at = "warn", !.bounds = bounds, !.since = changes]
    /\ UNCHANGED <<deskVars, view, session, axes, buttonDown, aim, taken>>

\* off_screen_note_for_bounds: against the monitors of GNOME's extension, or against the
\* picture, which is taken if there is none.
OffScreen(bounds, rects) ==
    LET seen == MapThenSumSet(LAMBDA r : Cardinality(Cells(bounds) \cap Cells(r)), rects)
    IN  seen < Cardinality(Cells(bounds))

WarnOffScreen ==
    /\ shot.at = "warn"
    /\ \/ /\ env.ext
          /\ shot' = [shot EXCEPT !.says = OffScreen(shot.bounds, Rects(Shown(desktop))),
                                  !.seen = changes.monitors,
                                  !.at = IF shot.does = "window" THEN "crop" ELSE "done"]
          /\ UNCHANGED view
       \/ /\ view' = IF view.size = Absent THEN Pictured ELSE view
          /\ shot' = [shot EXCEPT
                        !.seen = view'.seen,
                        !.says = OffScreen(shot.bounds, {[at |-> <<0, 0>>, size |-> view'.size]}),
                        !.at = IF shot.does = "window" THEN "crop" ELSE "done"]
    /\ UNCHANGED <<deskVars, session, axes, buttonDown, aim, taken>>

\* window_crop_rect_for_capture, on the picture this call has taken.
CropWindow ==
    /\ shot.at = "crop"
    /\ \E monitors \in WorkspaceReads :
         LET map == WindowMap(shot.bounds, monitors, shot.size)
         IN  shot' = [shot EXCEPT !.at = "done", !.crop = IF map = Absent THEN Absent ELSE map.crop]
    /\ UNCHANGED <<deskVars, view, session, axes, buttonDown, aim, taken>>

(***************************************************************************)
(* A click or a drag: which points, and by which route.                    *)
(***************************************************************************)

NoAim == [at |-> "idle", tool |-> "click", points |-> <<>>, relative |-> FALSE, seen |-> Absent,
          bounds |-> Absent, size |-> Absent, spots |-> <<>>, route |-> Absent, hits |-> <<>>,
          check |-> <<>>, gen |-> 0, noted |-> {}, blind |-> {}, answer |-> Absent, since |-> Absent,
          read |-> Absent, stale |-> FALSE]

To(step) == aim' = [aim EXCEPT !.at = step]
AnswerAim(answer) == aim' = [aim EXCEPT !.at = "done", !.answer = answer]
AimOnly == UNCHANGED <<deskVars, view, session, axes, buttonDown, shot, taken>>
Given == 1..Len(aim.points)

BeginAim(r) ==
    /\ aim.at \in {"idle", "done"}
    /\ taken.calls < MaxCalls
    /\ taken' = [taken EXCEPT !.calls = @ + 1]
    /\ aim' = [NoAim EXCEPT !.at = IF r.relative THEN "focus" ELSE "route", !.tool = r.tool,
                            !.points = r.points, !.relative = r.relative, !.seen = view.seen]
    /\ UNCHANGED <<deskVars, view, session, axes, buttonDown, shot>>

\* The window is listed when it is focused; for logical bounds the size of the picture is
\* taken next, which takes one if there is none.
FocusForPoint ==
    /\ aim.at = "focus"
    /\ view' = IF LogicalBounds /\ view.size = Absent THEN Pictured ELSE view
    /\ \E bounds \in ListedBounds :
         aim' = [aim EXCEPT !.at = "map", !.bounds = bounds, !.size = view'.size, !.since = changes]
    /\ UNCHANGED <<deskVars, session, axes, buttonDown, shot, taken>>

\* focused_window_coordinate_map, apply_window_relative_click_coordinates: the point is one
\* of the cropped picture, and a logical one for the portal.
MapPoint ==
    /\ aim.at = "map"
    /\ \E monitors \in WorkspaceReads :
         LET map == WindowMap(aim.bounds, monitors, aim.size)
             p == aim.points[1]
             q == [i \in Axes |-> map.crop.at[i] + p[i]]
         IN  IF map = Absent THEN AnswerAim("refused")
             ELSE IF ~Inside(p, [map.crop EXCEPT !.at = <<0, 0>>]) THEN AnswerAim("refused")
             ELSE aim' = [aim EXCEPT !.at = "route", !.points = <<q>>,
                            !.spots = IF LogicalBounds THEN <<Between(q, map.full, aim.bounds)>>
                                      ELSE <<>>]
    /\ AimOnly

ChooseRoute ==
    /\ aim.at = "route"
    /\ aim' = [aim EXCEPT !.at = IF ~Wayland THEN "x11" ELSE IF env.uinput THEN "device" ELSE "portal"]
    /\ AimOnly

\* The X server keeps the pointer on the root.
PointByXServer ==
    /\ aim.at = "x11"
    /\ \/ AnswerAim("error")
       \/ aim' = [aim EXCEPT !.at = "note", !.route = "x11", !.answer = "sent",
                             !.hits = [i \in Given |-> Clamp(aim.points[i], PictureSize(desktop))],
                             !.check = [i \in Given |-> [of |-> i, at |-> aim.points[i]]]]
    /\ AimOnly

(***************************************************************************)
(* The uinput pointer.                                                     *)
(***************************************************************************)

\* Mutant: a device that was made for another picture is used.
UseAnyDevice ==
    /\ aim.at = "device"
    /\ axes # Absent
    /\ To("move")
    /\ AimOnly

\* A device that fits the last picture is used as it is.
UseDevice ==
    /\ aim.at = "device"
    /\ axes # Absent /\ view.size \in {axes, Absent}
    /\ To("move")
    /\ AimOnly

\* One made for another picture is dropped.
DropStaleDevice ==
    /\ aim.at = "device"
    /\ axes # Absent /\ view.size \notin {axes, Absent}
    /\ axes' = Absent
    /\ aim' = [aim EXCEPT !.at = "replace", !.size = view.size]
    /\ UNCHANGED <<deskVars, view, session, buttonDown, shot, taken>>

\* Without a device a picture is taken for its size.
SizeDevice ==
    /\ aim.at = "device"
    /\ axes = Absent
    /\ \/ To("portal") /\ UNCHANGED view
       \/ view' = Pictured /\ aim' = [aim EXCEPT !.at = "create", !.size = view'.size]
    /\ UNCHANGED <<deskVars, session, axes, buttonDown, shot, taken>>

MakeDevice ==
    /\ aim.at \in {"create", "replace"}
    /\ \/ axes' = aim.size /\ To("move")
       \/ UNCHANGED axes /\ IF aim.at = "replace" THEN AnswerAim("refused") ELSE To("portal")
    /\ UNCHANGED <<deskVars, view, session, buttonDown, shot, taken>>

Hit(spot, step) == aim' = [aim EXCEPT !.hits = Append(@, spot), !.at = step]
Emitted(i) == Clamp(aim.points[i], axes)

\* A write that fails may have reached the device.
MoveDevice ==
    /\ aim.at = "move"
    /\ Hit(SpotByDevice(Emitted(1)), "press") \/ To("drop")
    /\ AimOnly

PressButton ==
    /\ aim.at = "press"
    /\ \/ buttonDown' = TRUE /\ To(IF aim.tool = "drag" THEN "path" ELSE "release")
       \/ buttonDown' \in BOOLEAN /\ To("undo")
    /\ UNCHANGED <<deskVars, view, session, axes, shot, taken>>

\* The twenty motions of a drag end at its end.
FollowPath ==
    /\ aim.at = "path"
    /\ Hit(SpotByDevice(Emitted(2)), "release") \/ To("undo")
    /\ AimOnly

ReleaseButton ==
    /\ aim.at = "release"
    /\ \/ /\ buttonDown' = FALSE
          /\ aim' = [aim EXCEPT !.at = "note", !.route = "uinput", !.answer = "sent",
                        !.noted = {i \in Given : Emitted(i) # aim.points[i]},
                        !.check = [i \in Given |-> [of |-> i, at |-> Emitted(i)]]]
       \/ buttonDown' \in BOOLEAN /\ To("undo")
    /\ UNCHANGED <<deskVars, view, session, axes, shot, taken>>

\* release_after_error: one more release, which may fail too.
UndoPress ==
    /\ aim.at = "undo"
    /\ buttonDown' \in {buttonDown, FALSE}
    /\ To("drop")
    /\ UNCHANGED <<deskVars, view, session, axes, shot, taken>>

\* Mutant: the device stays after an error.
KeepDevice ==
    /\ aim.at = "drop"
    /\ AnswerAim("error")
    /\ AimOnly

\* run_abs_pointer: the device goes, and what it held down comes up.
DropDevice ==
    /\ aim.at = "drop"
    /\ axes' = Absent
    /\ buttonDown' = FALSE
    /\ AnswerAim("error")
    /\ UNCHANGED <<deskVars, view, session, shot, taken>>

(***************************************************************************)
(* The portal.                                                             *)
(***************************************************************************)

\* assign_stream_pixel_scales, normalize_eis_streams.
Streams(rects, layout, ei) ==
    {[rect |-> r, scale |->
        LET scales == {m.scale : m \in {n \in layout : RectOf(n) = r /\ n.scale > 0}}
        IN  IF env.views /\ ~ei /\ scales # {} THEN Max(scales) ELSE 2] : r \in rects}

\* The user shares some of the monitors. A picture is taken if there is none.
StartSession ==
    /\ aim.at = "portal"
    /\ session = Absent
    /\ \/ AnswerAim("refused") /\ UNCHANGED <<session, view>>
       \/ \E shared \in SUBSET Rects(Shown(desktop)) \ {{}} :
          \E layout \in IF KwinLayout # {} THEN {KwinLayout} \cup LogicalReads ELSE LogicalReads :
            /\ session' = [streams |-> Streams(shared, layout, env.eis), layout |-> layout,
                           kwin |-> layout = KwinLayout /\ layout # {}, ei |-> env.eis]
            /\ view' = IF view.size = Absent THEN Pictured ELSE view
            /\ UNCHANGED aim
    /\ UNCHANGED <<deskVars, axes, buttonDown, shot, taken>>

\* A drag without a picture takes one; what is off the screen is told first.
UseSession ==
    /\ aim.at = "portal"
    /\ session # Absent
    /\ view' = IF aim.tool = "drag" /\ view.size = Absent THEN Pictured ELSE view
    /\ aim' = [aim EXCEPT !.at = "note", !.route = "portal",
                          !.check = [i \in Given |-> [of |-> i, at |-> aim.points[i]]]]
    /\ UNCHANGED <<deskVars, session, axes, buttonDown, shot, taken>>

LoseSession(answer) == session' = Absent /\ AnswerAim(answer)

\* A point that is on no shared monitor ends the session.
MapToSession ==
    /\ aim.at = "logical"
    /\ LET spots == IF aim.spots # <<>> THEN aim.spots
                    ELSE [i \in Given |-> LogicalPoint(aim.points[i])]
       IN  IF \E i \in DOMAIN spots : spots[i] = Absent THEN LoseSession("refused")
           ELSE aim' = [aim EXCEPT !.at = "current", !.spots = spots] /\ UNCHANGED session
    /\ UNCHANGED <<deskVars, view, axes, buttonDown, shot, taken>>

\* Mutant: any layout of as many monitors is the same.
SameMonitorCount(a, b) == Cardinality(a) = Cardinality(b)

SameMonitorLayout(a, b) == a = b

\* ensure_current_layout: the session must have been started under this layout.
CheckLayout ==
    /\ aim.at = "current"
    /\ \E layout \in IF session.kwin THEN {KwinLayout, {}} ELSE LogicalReads :
         IF layout # {} /\ session.layout # {} /\ SameMonitorLayout(session.layout, layout)
         THEN To("send") /\ UNCHANGED session
         ELSE LoseSession("error")
    /\ UNCHANGED <<deskVars, view, axes, buttonDown, shot, taken>>

\* map_absolute_point: each point must be in a stream.
SendToStreams ==
    /\ aim.at = "send"
    /\ LET streams(spot) == {s \in session.streams : Inside(spot, s.rect)}
           hit(spot) == LET s == CHOOSE t \in streams(spot) : TRUE
                        IN  SpotByStream(s, InStream(s, spot))
       IN  \/ LoseSession("error")
           \/ /\ \A i \in Given : streams(aim.spots[i]) # {}
              /\ aim' = [aim EXCEPT !.at = "done", !.answer = "sent",
                                    !.hits = [i \in Given |-> hit(aim.spots[i])]]
              /\ UNCHANGED session
    /\ UNCHANGED <<deskVars, view, axes, buttonDown, shot, taken>>

(***************************************************************************)
(* What an answer says of points that are off the screen.                  *)
(***************************************************************************)

AfterNotes == IF aim.route = "portal" THEN "logical" ELSE "done"

\* named_off_screen_note, with monitors that fit the picture of this size.
Noted(layout, size, stale) ==
    LET rects == OnPicture(layout, size)
        point == Head(aim.check)
    IN  aim' = [aim EXCEPT
            !.at = "note", !.check = Tail(@), !.read = Absent, !.stale = @ \/ stale,
            !.noted = IF \E r \in rects : Inside(point.at, r) THEN @
                      ELSE IF rects = {} THEN @ ELSE @ \cup {point.of},
            !.blind = IF rects = {} THEN @ \cup {point.of} ELSE @]

NotePoint ==
    /\ aim.at = "note"
    /\ IF aim.check = <<>> THEN To(AfterNotes)
       ELSE LET point == Head(aim.check)
            IN  IF view.size = Absent
                THEN aim' = [aim EXCEPT !.check = Tail(@), !.blind = @ \cup {point.of}]
                ELSE IF ~Inside(point.at, [at |-> <<0, 0>>, size |-> view.size])
                THEN aim' = [aim EXCEPT !.check = Tail(@),
                        !.noted = IF aim.route = "uinput" THEN @ ELSE @ \cup {point.of}]
                ELSE IF view.monitors # Absent
                THEN Noted(view.monitors, view.size, view.stale)
                ELSE aim' = [aim EXCEPT !.at = "reading", !.gen = view.gen, !.size = view.size]
    /\ AimOnly

\* read_monitor_layout: the session's, KWin's, the compositor's, or RandR's on X11.
MonitorReads ==
    IF session # Absent /\ session.layout # {} THEN {session.layout}
    ELSE (IF KwinLayout # {} THEN {KwinLayout} ELSE {})
         \cup (IF Wayland THEN CompositorReads ELSE LogicalReads)

ReadMonitors ==
    /\ aim.at = "reading"
    /\ \E read \in MonitorReads :
         aim' = [aim EXCEPT !.at = "keeping", !.read = read,
                            !.stale = @ \/ (session # Absent /\ read \notin LogicalReads \cup {KwinLayout})]
    /\ AimOnly

\* Mutant: what was read for an older picture is kept for a newer one.
KeptAlways == [view EXCEPT !.monitors = aim.read, !.stale = aim.stale]

\* capture_monitor_rects keeps what it read unless a picture was taken meanwhile.
Kept ==
    IF view.gen = aim.gen THEN [view EXCEPT !.monitors = aim.read, !.stale = aim.stale] ELSE view

KeepMonitors ==
    /\ aim.at = "keeping"
    /\ view' = Kept
    /\ Noted(aim.read, aim.size, aim.stale)
    /\ UNCHANGED <<deskVars, session, axes, buttonDown, shot, taken>>

(***************************************************************************)
(* The user, and the specification.                                        *)
(***************************************************************************)

Rearrange ==
    /\ changes.monitors + changes.window < MaxMoves
    /\ desktop' \in Desktops[env.desk] \ {desktop}
    /\ changes' = [changes EXCEPT !.monitors = @ + 1]
    /\ UNCHANGED <<env, window, view, session, axes, buttonDown, aim, shot, taken>>

WindowMoves ==
    /\ changes.monitors + changes.window < MaxMoves
    /\ window' \in Places \ {window}
    /\ changes' = [changes EXCEPT !.window = @ + 1]
    /\ UNCHANGED <<env, desktop, view, session, axes, buttonDown, aim, shot, taken>>

RestInit ==
    /\ env \in Hosts
    /\ desktop \in Desktops[env.desk]
    /\ window \in Places
    /\ changes = [monitors |-> 0, window |-> 0]
    /\ view = NoView /\ session = Absent /\ buttonDown = FALSE
    /\ aim = NoAim /\ shot = NoShot
    /\ taken = [pictures |-> 0, calls |-> 0]

PointInit == RestInit /\ axes = Absent

PictureSteps ==
    \/ \E does \in {"screen", "window", "move"} : BeginPicture(does)
    \/ TakePicture \/ PlaceWindow \/ ListAgain \/ WarnOffScreen \/ CropWindow

AimSteps ==
    \/ \E r \in Requests : BeginAim(r)
    \/ FocusForPoint \/ MapPoint \/ ChooseRoute \/ PointByXServer
    \/ UseDevice \/ DropStaleDevice \/ SizeDevice \/ MakeDevice
    \/ MoveDevice \/ PressButton \/ FollowPath \/ ReleaseButton \/ UndoPress \/ DropDevice
    \/ StartSession \/ UseSession \/ MapToSession \/ CheckLayout \/ SendToStreams
    \/ NotePoint \/ ReadMonitors \/ KeepMonitors

PointNext == PictureSteps \/ AimSteps \/ Rearrange \/ WindowMoves
PointSpec == PointInit /\ [][PointNext]_pointVars
-----------------------------------------------------------------------------
\* A column or row of pixels shows some of a rectangle of the desktop.
Scale == IF Wayland THEN PictureScale(desktop) ELSE 2
Origin(i) == IF Wayland THEN Box(Rects(Shown(desktop))).at[i] ELSE 0
Meets(i, n, r) == /\ (n + 1) * 2 > (r.at[i] - Origin(i)) * Scale
                  /\ n * 2 < (Far(r)[i] - Origin(i)) * Scale

\* The desktop is a whole number of pixels across.  Where it is not, the server takes its
\* scale for a little less than it is, and a pixel for one up to one further on.
WholePixels(i) == ~Wayland \/ (Box(Rects(Shown(desktop))).size[i] * Scale) % 2 = 0
Grazes(i, n, r) == Meets(i, n, r) \/ (~WholePixels(i) /\ Meets(i, n + 1, r))

Picture == Cells([at |-> <<0, 0>>, size |-> PictureSize(desktop)])
PixelsOf(r) == {p \in Picture : \A i \in Axes : Meets(i, p[i], r)}
PixelsNear(r) == {p \in Picture : \A i \in Axes : Grazes(i, p[i], r)}

\* At a broken scale the first or last pixel of a monitor may show what is beside it too.
OnEdge(p) == \E m \in Shown(desktop) : p \in PixelsNear(RectOf(m))

\* Where the stage of GNOME is scaled and its extension did not tell the scale, a stream
\* keeps 1 and a point of it goes elsewhere.
ScaleUnknown ==
    env.views /\ session # Absent /\ ~session.ei /\ \E m \in session.layout : m.scale = 0

\* A point that was sent went where the caller's picture showed it, or into the window it
\* was relative to, or the answer says that it is off the screen; and it says so of no
\* point that is on it, unless the monitors it is checked against are those of a session
\* from before they were rearranged (aim.stale).  This is so if the monitors are where they
\* were in that picture, and the window where it was when it was focused, however the
\* device, the session and the monitors that were kept came about.
LandsAsPictured ==
    aim.at = "done" /\ aim.answer = "sent" /\ aim.seen = changes.monitors
        /\ (aim.relative => aim.since = changes)
        /\ ~(aim.route = "portal" /\ ScaleUnknown) =>
        \A i \in Given :
            LET hit == aim.hits[i]
                meant == \/ hit = SpotOf(desktop, aim.points[i]) /\ (aim.relative => aim.points[i] \in PixelsNear(window))
                         \/ aim.relative /\ Inside(hit, window)
            IN  IF i \in aim.noted THEN aim.stale \/ ~(meant /\ Lit(desktop, hit))
                ELSE meant /\ (i \in aim.blind \/ aim.stale \/ Lit(desktop, hit) \/ OnEdge(aim.points[i]))

\* A cropped picture is the window, all of it that is on the screen, and nothing else: where
\* the desktop is no whole number of pixels across, at most a row above it and a column
\* left of it.
CropIsWindow ==
    shot.at = "done" /\ shot.since = changes /\ shot.crop # Absent =>
        PixelsOf(window) \subseteq Cells(shot.crop) /\ Cells(shot.crop) \subseteq PixelsNear(window)

\* What the caller is told of a window that is not all there is so.
WarningIsSo ==
    shot.at = "done" /\ shot.since = changes /\ shot.says = TRUE /\ shot.seen = changes.monitors =>
        \E c \in Cells(window) : ~Lit(desktop, c)

\* No button is down when the call that pressed it has been answered.
ButtonIsUp == aim.at \in {"idle", "done"} => ~buttonDown

PointsAreMeant == LandsAsPictured /\ CropIsWindow /\ WarningIsSo /\ ButtonIsUp
=============================================================================
