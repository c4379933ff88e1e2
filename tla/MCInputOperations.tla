------------------------- MODULE MCInputOperations -------------------------
(***************************************************************************)
(* Instances for TLC of InputOperations and, beside it, of CapturePoints   *)
(* and KwinElements: where a point of the last picture is sent, what a     *)
(* cropped picture shows, and where a click on an element of the last tree *)
(* is sent.  A behaviour is of one part, the other rests; one of the       *)
(* points is about one aspect of them.  Calls and sessions are             *)
(* interchangeable.                                                        *)
(***************************************************************************)
EXTENDS InputOperations, KwinElements, TLC

CONSTANT Parts
VARIABLES part,   \* of the input machinery or of points
          aspect  \* what a behaviour is about

\* Arrangements of monitors by desktop: beside each other, one left of the other or above
\* the origin of neither, scaled, turned, copied, or off.  Two are half a pixel more than a
\* whole number of them across, which is close enough to one scale for the server.
M(x, y, w, h, s) ==
    [at |-> <<x, y>>, size |-> <<w, h>>, scale |-> s, turned |-> FALSE, on |-> TRUE, copy |-> FALSE]
SideBySide == {M(0, 0, 2, 2, 2), M(2, 0, 2, 1, 2)}
Changed == {M(0, 0, 2, 1, 2), M(2, 0, 2, 2, 2)}
Turned == {[M(0, 0, 2, 2, 3) EXCEPT !.turned = TRUE]}
Mixed == {M(0, 0, 4, 2, 2), M(4, 0, 2, 2, 3)}
Left == {M(-2, 0, 2, 1, 4), M(0, 0, 2, 2, 4)}
Copied ==
    {M(0, 0, 4, 2, 2), [M(1, 0, 2, 2, 2) EXCEPT !.copy = TRUE], [M(4, 0, 2, 2, 2) EXCEPT !.on = FALSE]}
Staggered == {M(0, 0, 2, 4, 3), M(2, 1, 2, 2, 3)}
Coarse == {M(0, 0, 4, 2, 1)}
Gapped == {M(0, 0, 26, 2, 3), M(28, 0, 25, 2, 3)}
LeftScaled == {M(-4, 0, 4, 8, 3), M(0, 0, 8, 8, 3)}
RightCoarse == {M(0, 0, 4, 8, 1), M(4, 0, 8, 8, 1)}
Halved == {M(-28, 0, 28, 8, 3), M(0, 0, 25, 8, 3)}
ElementDesktops == {LeftScaled, RightCoarse, Halved}
ByDesk ==
    [gnome |-> {Changed, Turned}, kde |-> {SideBySide, Copied, Gapped} \cup ElementDesktops,
     hyprland |-> {Left, Mixed, Staggered, Gapped}, sway |-> {Left, Coarse}, x11 |-> {SideBySide, Changed}]

OnePlace == [at |-> <<1, 0>>, size |-> <<1, 2>>]
PastGap == [at |-> <<28, 0>>, size |-> <<2, 2>>]
SomePlaces == {OnePlace, PastGap, [at |-> <<-1, 0>>, size |-> <<4, 1>>]}

Click(p, relative) == [tool |-> "click", points |-> <<p>>, relative |-> relative]
SomeRequests ==
    {Click(<<3, 1>>, FALSE), Click(<<0, 1>>, TRUE), Click(<<41, 1>>, FALSE),
     [tool |-> "drag", points |-> <<<<0, 0>>, <<5, 1>>>>, relative |-> FALSE]}

H(d, ext, views, uinput, eis) ==
    [desk |-> d, ext |-> ext, views |-> views, uinput |-> uinput, eis |-> eis]
GnomeHost == H("gnome", TRUE, TRUE, FALSE, FALSE)
SomeHosts ==
    {GnomeHost, H("gnome", TRUE, TRUE, FALSE, TRUE), H("kde", FALSE, FALSE, FALSE, FALSE),
     H("hyprland", FALSE, FALSE, TRUE, FALSE), H("sway", FALSE, FALSE, FALSE, FALSE),
     H("x11", FALSE, FALSE, FALSE, FALSE)}

\* Two windows of a process and one of another. Frames have titles or none, a window is
\* left of the origin, one a popup of another size, one hidden.
W(frame, client) == [frame |-> frame, client |-> client, shown |-> TRUE, plain |-> TRUE]
R(x, y, w, h) == [at |-> <<x, y>>, size |-> <<w, h>>]
Titled == W(R(0, 0, 4, 5), R(0, 1, 4, 4))
Hidden == [W(R(4, 0, 4, 4), R(4, 0, 4, 4)) EXCEPT !.shown = FALSE]
Untitled == W(R(0, 0, 4, 5), R(0, 0, 4, 5))
Beside == W(R(-5, 0, 3, 6), R(-5, 2, 3, 4))
SomePlacements ==
    {Titled, Untitled, Beside, W(R(-4, 0, 4, 6), R(-4, 2, 4, 4)), [W(R(4, 3, 3, 3), R(4, 3, 3, 3)) EXCEPT !.plain = FALSE], Hidden}
ThreeWindows == {"w1", "w2", "w3"}
TwoProcesses == [w \in ThreeWindows |-> IF w = "w3" THEN 2 ELSE 1]
OneOffset == {<<3, 1>>}
KwinHosts == {H("kde", FALSE, FALSE, uinput, FALSE) : uinput \in BOOLEAN}
AllHosts == SomeHosts \cup KwinHosts

RestingElements ==
    /\ wins = [w \in KwinWindows |-> Absent] /\ front = "w3"
    /\ tree = Absent /\ elem = Absent

\* On a host with uinput there may be a device for an older picture.
InitElements ==
    /\ env \in KwinHosts /\ desktop \in ElementDesktops /\ window = OnePlace
    /\ changes = [monitors |-> 0, window |-> 0] /\ view = NoView
    /\ session = Absent /\ buttonDown = FALSE /\ aim = NoAim /\ shot = NoShot
    /\ taken = [pictures |-> 0, calls |-> 0]
    /\ axes \in {Absent, <<9, 9>>}
    /\ axes = Absent => desktop \in {LeftScaled, Halved}
    /\ axes # Absent => env.uinput /\ desktop = RightCoarse
    /\ wins \in [KwinWindows -> Placements]
    /\ wins["w1"] \notin {Untitled, Beside} /\ wins["w2"] \in {Titled, Hidden} /\ wins["w3"] = Titled
    /\ axes # Absent => wins["w2"] = Titled
    /\ desktop = Halved => env.uinput /\ wins["w1"] = Titled
    /\ front = "w3" /\ tree = Absent /\ elem = Absent

PointsInit ==
    /\ aspect \in {"point", "picture", "element"}
    /\ IF aspect = "element" THEN InitElements
       ELSE /\ PointInit /\ RestingElements
            /\ env \in SomeHosts /\ desktop \notin ElementDesktops
            /\ IF desktop = Gapped THEN window = PastGap
               ELSE window # PastGap /\ (aspect = "point" => window = OnePlace)
            /\ env.eis => desktop = Turned

\* At rest while a run is about something else.
PointsAtRest ==
    /\ aspect = "picture" /\ PointInit /\ RestingElements
    /\ env = GnomeHost /\ desktop = Turned /\ window = OnePlace

\* Windows of the other process stay; the front changes after the click has focused one.
\* Without uinput the process of a tree is known.
ElementPart ==
    \/ /\ ElementSteps
       /\ elem' # Absent => (elem'.global => elem'.focus = Absent)
       /\ tree'.pid = Absent => env.uinput
    \/ /\ tree # Absent /\ (elem = Absent \/ ElemAt("map"))
       /\ \/ WindowChanges /\ wins'["w3"] = wins["w3"]
          \/ MonitorsChange /\ {desktop, desktop'} = {LeftScaled, RightCoarse}
    \/ ElemAt("kwin") /\ FrontChanges

\* What is rearranged before the first picture or call is a way to begin. Staggered and
\* gapped monitors stay: they are there for what is rounded.
DeskChanges ==
    \/ /\ taken # [pictures |-> 0, calls |-> 0]
       /\ Rearrange /\ desktop' \notin ElementDesktops /\ {Staggered, Gapped} \cap {desktop, desktop'} = {}
    \/ WindowMoves /\ PastGap \notin {window, window'}

\* The pixel before the second monitor is of the gap, and taken for one of the monitor.
AimsFit ==
    taken'.calls > taken.calls /\ ~aim'.relative =>
        (aim'.points = <<<<41, 1>>>> <=> desktop = Gapped)

\* What a call leaves behind, a device, a session and a view, is met by a plain click. It
\* does nothing on Sway that it does not on Plasma.
SecondIsPlain ==
    taken.calls = 1 /\ taken'.calls = 2 =>
        env.desk # "sway" /\ aim'.tool = "click" /\ ~aim'.relative

pointsVars == <<aspect, elementVars>>
PointsNext ==
    /\ UNCHANGED aspect
    /\ \/ /\ aspect = "point" /\ UNCHANGED <<windowVars, tree, elem>>
          /\ \/ BeginPicture("screen") \/ TakePicture \/ AimSteps
             \/ DeskChanges /\ (aim.at # "done" \/ taken.calls < MaxCalls)
          /\ SecondIsPlain /\ AimsFit
       \/ /\ aspect = "picture" /\ UNCHANGED <<windowVars, tree, elem>>
          /\ PictureSteps \/ DeskChanges
       \/ aspect = "element" /\ ElementPart

\* Every call is answered.
PointsEnd ==
    /\ {aim.at, shot.at} \subseteq {"idle", "done"} /\ (elem = Absent \/ ElemAt("done"))
    /\ UNCHANGED pointsVars

allVars == <<part, vars, pointsVars>>

Symmetry == Permutations(Calls) \cup Permutations(Sessions)

MCInit ==
    /\ part \in Parts /\ Init
    /\ IF part = "input" THEN PointsAtRest ELSE PointsInit

MCNext ==
    /\ UNCHANGED part
    /\ \/ part = "input" /\ Next /\ UNCHANGED pointsVars
       \/ part = "points" /\ UNCHANGED vars /\ (PointsNext \/ PointsEnd)

MCSpec == MCInit /\ [][MCNext]_allVars
MCFairSpec == MCSpec /\ Fairness
=============================================================================
