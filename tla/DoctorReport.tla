----------------------------- MODULE DoctorReport -----------------------------
(***************************************************************************)
(* What doctor says of a desktop (diagnostics.rs) beside what the server   *)
(* does there: the backends listed best-first against those input, capture *)
(* and the window list try first, and the readiness against its blockers,  *)
(* also after get_app_state has recorded the outcome of a capture.         *)
(*                                                                         *)
(* A machine is the outcome of the probes, each one a command with a time  *)
(* limit, and the environment.  Which outcomes are stale is the subject of *)
(* DiagnosticsCache.                                                       *)
(***************************************************************************)
EXTENDS Naturals, Sequences, FiniteSets

CONSTANT Machines  \* the machines considered

\* keys and points: the override that is set, if any; "no_uinput" is CU_DISABLE_ABS_POINTER.
Windowing == <<"gnome_shell_extension", "gnome_introspect", "cosmic", "kwin", "hyprland",
               "niri", "i3", "labwc", "wlr", "x11">>
Backends == {Windowing[i] : i \in DOMAIN Windowing}

\* kwin: keyboard and pointer methods, their device types, a ScreenCast that can share a
\* monitor and hide the cursor.
PortalFacts == {"keyboard_methods", "pointer_methods", "keyboard", "pointer", "screencast",
                "monitor", "versioned", "hidden"}
Machine == [session : {"wayland", "untyped", "x11", "mixed"},
            desktop : {"gnome", "kde", "cosmic", "sway"},
            display : BOOLEAN, keys : {"none", "ydotool", "xdotool", "portal"},
            points : {"none", "ydotool", "portal", "no_uinput"},
            pixelflux : BOOLEAN, uinput : BOOLEAN, xdotool : BOOLEAN, wtype : BOOLEAN,
            ydotool : BOOLEAN, portal : SUBSET PortalFacts, windows : SUBSET Backends,
            exact : BOOLEAN, shots : SUBSET {"gnome_shell", "portal", "x11", "gnome_screenshot"},
            tree : BOOLEAN]

ASSUME MachineAssumption == Machines \subseteq Machine

VARIABLES
    machine,
    doctor   \* the report of an observation, or how far it is

doctorVars == <<machine, doctor>>

If(condition, s) == IF condition THEN s ELSE <<>>
Found(s) == s # <<>>

(***************************************************************************)
(* The probes' conclusions.                                                *)
(***************************************************************************)

\* platform_is_wayland: a session without a type is Wayland if it has a Wayland display.
Wayland(m) == m.session \in {"wayland", "untyped"}

\* is_cosmic_wayland_platform wants the type.
CosmicPlatform(m) == m.session = "wayland" /\ m.desktop = "cosmic"

KeyboardPortal(m) == {"keyboard_methods", "keyboard"} \subseteq m.portal

\* A ScreenCast of version 1 has no cursor modes, and hides the cursor.
PointerPortal(m) ==
    /\ {"pointer_methods", "pointer", "screencast", "monitor"} \subseteq m.portal
    /\ "versioned" \in m.portal => "hidden" \in m.portal

\* Mutant: xdotool is advertised wherever there is an X display.
AdvertiseXdotoolAnywhere(m) == m.keys # "ydotool" /\ m.xdotool /\ m.display

AdvertiseXdotool(m) ==
    m.keys # "ydotool" /\ m.xdotool /\ m.display /\ (m.keys = "xdotool" \/ ~Wayland(m))

\* wtype_compatible_wayland_desktop
TakesWtype(m) == Wayland(m) /\ m.desktop = "sway" /\ m.wtype /\ m.keys # "ydotool"

CanSendInput(m) ==
    \/ m.pixelflux
    \/ Wayland(m) /\ KeyboardPortal(m)
    \/ TakesWtype(m)
    \/ AdvertiseXdotool(m)
    \/ m.ydotool

\* capability_map_with_portal_keyboard: input
InputBackends(m) ==
    LET pointer == Wayland(m) /\ PointerPortal(m)
        portal == pointer \/ (Wayland(m) /\ KeyboardPortal(m))
        forced == pointer /\ KeyboardPortal(m) /\ m.points = "portal" /\ m.keys = "portal"
        first == forced \/ (CosmicPlatform(m) /\ pointer /\ m.points # "ydotool")
    IN If(m.pixelflux, <<"pixelflux">>)
       \o If(m.uinput /\ Wayland(m) /\ ~CosmicPlatform(m), <<"abs_pointer">>)
       \o If(AdvertiseXdotool(m), <<"xdotool">>)
       \o If(TakesWtype(m) /\ ~AdvertiseXdotool(m) /\ m.keys # "portal", <<"wtype">>)
       \o If(portal /\ first, <<"portal">>)
       \o If(m.ydotool, <<"ydotool">>)
       \o If(portal /\ ~first, <<"portal">>)

\* screenshot_backends
Shots == <<"gnome_shell", "portal", "x11", "gnome_screenshot">>
ScreenshotBackends(m) ==
    If(m.pixelflux, <<"pixelflux">>) \o SelectSeq(Shots, LAMBDA s : s \in m.shots)

\* Mutant: X11 comes last although it wins over GNOME's Introspect.
WindowBackendsInOrder(m) == SelectSeq(Windowing, LAMBDA b : b \in m.windows)

\* capability_map_with_portal_keyboard: window_control
WindowBackends(m) ==
    LET ok(b) == b \in m.windows
        early == ok("gnome_introspect") /\ ok("x11") /\ m.exact
        listed(b) == If(ok(b), <<b>>)
    IN listed("gnome_shell_extension")
       \o If(early, <<"x11">>)
       \o listed("gnome_introspect") \o listed("cosmic") \o listed("kwin") \o listed("hyprland")
       \o listed("niri") \o listed("i3") \o listed("labwc") \o listed("wlr")
       \o If(ok("x11") /\ ~early, <<"x11">>)

\* windowing_report: what the backends that were found can do.
CanFocus(m) == \E b \in m.windows : b # "gnome_introspect" /\ (b = "x11" => m.exact)

\* readiness_report_with_portal_keyboard
Blockers(m) ==
    (IF m.tree THEN {} ELSE {"accessibility"})
    \cup (IF m.windows = {} THEN {"windows"} ELSE IF CanFocus(m) THEN {} ELSE {"focus"})
    \cup (IF CanSendInput(m) THEN {} ELSE {"input"})
    \cup (IF Found(ScreenshotBackends(m)) THEN {} ELSE {"no_screenshot"})

NextStep(m) ==
    CASE ~m.tree -> "accessibility"
      [] m.tree /\ m.windows = {} -> "windows"
      [] m.tree /\ m.windows # {} /\ ~CanFocus(m) -> "focus"
      [] m.tree /\ CanFocus(m) /\ ~CanSendInput(m) -> "input"
      [] m.tree /\ CanFocus(m) /\ CanSendInput(m) ->
            IF Found(ScreenshotBackends(m)) THEN "verify" ELSE "screenshot"

(***************************************************************************)
(* The observation: doctor_report, then record_screenshot_result.          *)
(***************************************************************************)

DoctorInit ==
    /\ machine \in Machines
    /\ doctor = [at |-> "none"]

Diagnose ==
    /\ doctor.at = "none"
    /\ doctor' = [at |-> "reported",
                  status |-> IF Found(ScreenshotBackends(machine)) THEN "unverified" ELSE "unavailable",
                  blockers |-> Blockers(machine), next |-> NextStep(machine),
                  warnings |-> IF Found(ScreenshotBackends(machine))
                               THEN {"unverified"} ELSE {}]
    /\ UNCHANGED machine

\* Mutant: the blocker of a report without a route stays after a capture succeeded.
RecordKeepingBlocker(captured) ==
    /\ doctor.at = "reported"
    /\ doctor' = [doctor EXCEPT !.at = "recorded",
           !.status = IF captured THEN "verified" ELSE "failed",
           !.warnings = {},
           !.blockers = @ \cup (IF captured THEN {} ELSE {"failed"}),
           !.next = IF machine.tree /\ CanFocus(machine) /\ CanSendInput(machine)
                    THEN IF captured THEN "ready" ELSE "inspect_failure"
                    ELSE @]
    /\ UNCHANGED machine

\* A capture can succeed where no route was detected, by an override.
Record(captured) ==
    /\ doctor.at = "reported"
    /\ doctor' = [doctor EXCEPT !.at = "recorded",
           !.status = IF captured THEN "verified" ELSE "failed",
           !.warnings = {},
           !.blockers = (@ \ {"no_screenshot"}) \cup (IF captured THEN {} ELSE {"failed"}),
           !.next = IF machine.tree /\ CanFocus(machine) /\ CanSendInput(machine)
                    THEN IF captured THEN "ready" ELSE "inspect_failure"
                    ELSE @]
    /\ UNCHANGED machine

DoctorNext == Diagnose \/ \E captured \in BOOLEAN : Record(captured)
DoctorSpec == DoctorInit /\ [][DoctorNext]_doctorVars

(***************************************************************************)
(* What the server does on that machine (InputRoutes has the whole choice; *)
(* here only what a call without any session tries first).                 *)
(***************************************************************************)

XdotoolKeyboard(m) ==
    m.keys # "ydotool" /\ m.display /\ m.xdotool /\ (m.keys = "xdotool" \/ ~Wayland(m))

\* chord_route, with no portal session open.
ChordBy(m) ==
    LET portal == m.keys # "ydotool" /\ ~XdotoolKeyboard(m) /\ Wayland(m)
                  /\ (m.keys = "portal" \/ ~m.ydotool)
    IN IF portal THEN IF m.keys # "portal" /\ TakesWtype(m) /\ m.portal = {}
                      THEN "wtype" ELSE "portal"
       ELSE IF XdotoolKeyboard(m) THEN "xdotool" ELSE "ydotool"

\* type_text: KDE pastes, or types by ydotool if the clipboard cannot be read.
TextBy(m) ==
    IF m.keys = "ydotool" THEN {"ydotool"}
    ELSE IF XdotoolKeyboard(m) THEN {"xdotool"}
    ELSE IF ~Wayland(m) THEN {"ydotool"}
    ELSE IF m.desktop = "kde" THEN {"portal", "ydotool"}
    ELSE IF m.keys = "portal" \/ ~TakesWtype(m) THEN {"portal"} ELSE {"wtype"}

\* Calls on a native X11 session go to xdotool.
X11Pointer(m) == m.session = "x11" /\ m.display

\* ensure_abs_pointer
UsesUinput(m) ==
    /\ m.uinput /\ ~X11Pointer(m)
    /\ ~(Wayland(m) /\ m.desktop = "cosmic")
    /\ m.points \notin {"no_uinput", "ydotool"}
    /\ ~(m.points = "portal" /\ Wayland(m))

\* A click at a point: xdotool on X11, the uinput pointer, the portal.
PointBy(m) ==
    IF X11Pointer(m) /\ m.points # "ydotool" THEN "xdotool"
    ELSE IF UsesUinput(m) THEN "abs_pointer"
    ELSE IF /\ Wayland(m) /\ m.points # "ydotool"
            /\ m.desktop = "cosmic" \/ m.points = "portal" \/ ~m.ydotool
         THEN "portal" ELSE "ydotool"

Works(m, route) ==
    CASE route = "wtype" -> m.wtype
      [] route = "xdotool" -> m.xdotool /\ m.display
      [] route = "portal" -> KeyboardPortal(m)
      [] route = "ydotool" -> m.ydotool
      [] route = "pixelflux" -> m.pixelflux

KeyboardRoutes(m) == IF m.pixelflux THEN {"pixelflux"} ELSE {ChordBy(m)} \cup TextBy(m)
FirstTried(m) == IF m.pixelflux THEN {"pixelflux"} ELSE {PointBy(m)} \cup KeyboardRoutes(m)

\* first_answer: an exact X11 list wins over Introspect's.
ListedBy(m) ==
    LET usable(i) == Windowing[i] \in m.windows
        first == Windowing[CHOOSE i \in DOMAIN Windowing :
                    usable(i) /\ \A j \in DOMAIN Windowing : usable(j) => i <= j]
    IN IF first = "gnome_introspect" /\ m.exact /\ "x11" \in m.windows THEN "x11" ELSE first

(***************************************************************************)
(* Properties                                                              *)
(***************************************************************************)

Before(a, b, list) == \A i, j \in DOMAIN list : list[i] = a /\ list[j] = b => i < j

\* The windows are listed by the first backend of the report, and whenever those before a
\* backend fail, by that one.
WindowsInOrder(m) ==
    \A i \in DOMAIN WindowBackends(m) :
        LET left == {WindowBackends(m)[k] : k \in i..Len(WindowBackends(m))} IN
        ListedBy([m EXCEPT !.windows = left]) = WindowBackends(m)[i]

\* Where a call has a second choice, the first stands before it.
FallbacksInOrder(m) ==
    /\ UsesUinput(m) => Before("abs_pointer", "portal", InputBackends(m))
    /\ XdotoolKeyboard(m) => Before("xdotool", "ydotool", InputBackends(m))
    /\ "wtype" \in TextBy(m) => Before("wtype", "ydotool", InputBackends(m))

\* A keyboard route that the server takes and that works is in the list.
RoutesAreListed(m) ==
    \A r \in KeyboardRoutes(m) : Works(m, r) => \E i \in DOMAIN InputBackends(m) : InputBackends(m)[i] = r

\* Input can be sent if and only if the keyboard has a route that works, save that an
\* override can name a backend that does not.
InputAsSaid(m) ==
    LET some == \E r \in KeyboardRoutes(m) : Works(m, r) IN
    /\ some => CanSendInput(m)
    /\ CanSendInput(m) => some \/ (m.keys # "none" /\ ~Works(m, m.keys))

\* COSMIC on a session without a type: the report takes it for another Wayland desktop, and
\* the server does not.
UntypedCosmic(m) == m.session = "untyped" /\ m.desktop = "cosmic"

\* Without an override, what the report prefers is what some call does first.  (With one it
\* need not be: a forced pointer leaves abs_pointer in front.)
PreferredIsTried(m) ==
    /\ m.keys = "none" /\ m.points = "none" /\ ~UntypedCosmic(m)
    /\ Found(InputBackends(m))
    => InputBackends(m)[1] \in FirstTried(m)

\* What the report tells of a desktop is what the server does there, under every override:
\* windows are listed in the order of the report; what a keyboard call takes is listed and
\* stands before what it falls back to; it is not said that input can be sent where no
\* call can send it, nor the contrary.
AdvertisedIsUsed ==
    doctor.at # "none" =>
        /\ WindowsInOrder(machine) /\ RoutesAreListed(machine) /\ FallbacksInOrder(machine)
        /\ InputAsSaid(machine) /\ PreferredIsTried(machine)

\* "Ready" is said only with nothing in the way, and a setup with nothing in the way is
\* told so: the next step, the blockers and the screenshot's status agree, before and
\* after a capture.
ReadinessAgrees ==
    doctor.at # "none" =>
        /\ (doctor.blockers = {}) <=> (doctor.next \in {"verify", "ready"})
        /\ doctor.next = "ready" => doctor.status = "verified"
        /\ doctor.status = "unverified" <=> doctor.warnings # {}

\* The report describes what the server does, and agrees with itself.
ReportIsRight == AdvertisedIsUsed /\ ReadinessAgrees
=============================================================================
