---------------------------- MODULE MCInputRoutes ----------------------------
(* Instances of InputRoutes for TLC: two windows and the hosts that differ in *)
(* the routes they allow. *)
EXTENDS InputRoutes

CONSTANTS w1, w2

\* w1 has a password field, w2 an ordinary one.
FieldOf == [w \in {w1, w2} |-> IF w = w1 THEN "password" ELSE "plain"]

Plain == [session |-> "wayland", desktop |-> "gnome", force |-> "none", background |-> FALSE,
          pixelflux |-> FALSE, xdotool |-> TRUE, wtype |-> TRUE, portal |-> TRUE]

SomeHosts ==
    {Plain,
     [Plain EXCEPT !.desktop = "kde"],
     [Plain EXCEPT !.desktop = "kde", !.force = "ydotool"],
     [Plain EXCEPT !.desktop = "kde", !.pixelflux = TRUE],
     [Plain EXCEPT !.desktop = "cosmic"],
     [Plain EXCEPT !.desktop = "hyprland", !.background = TRUE],
     [Plain EXCEPT !.desktop = "hyprland", !.force = "portal"],
     [Plain EXCEPT !.desktop = "sway", !.portal = FALSE],
     [Plain EXCEPT !.force = "xdotool"],
     [Plain EXCEPT !.session = "x11"],
     [Plain EXCEPT !.session = "x11", !.xdotool = FALSE],
     [Plain EXCEPT !.session = "mixed"]}

PointerRequests ==
    {r \in Request :
        /\ r.tool \in Pointer
        /\ r.target \in {NoWindow, w2}
        /\ r.kind = "plain" \/ (r.tool = "click" /\ r.kind = "extra" /\ r.on = "point")
        /\ r.on = "relative" => r.target # NoWindow
        /\ r.tool = "click" => r.on # "nothing"
        /\ r.tool = "scroll" => r.on \notin {"primary", "atspi"}
        /\ r.tool = "drag" => r.target = NoWindow /\ r.on = "point"}

KeyboardRequests ==
    {r \in Request :
        /\ r.tool \in {"press_key", "type_text"}
        /\ r.on = "nothing"
        /\ r.kind \in IF r.tool = "press_key" THEN {"plain", "extra"}
                      ELSE {"plain", "unicode", "long"}}

PointClicks == {r \in PointerRequests : r.tool = "click" /\ r.on = "point"}
SomeRequests == PointerRequests \cup KeyboardRequests
=============================================================================
