------------------------------ MODULE MCDesktop ------------------------------
(***************************************************************************)
(* Instances for TLC of what is set up around the input calls: the         *)
(* diagnostics cache, the session environment, the two setup tools with    *)
(* the accessibility guard, the doctor report, and the Pi extension that   *)
(* runs the server.  A tool call uses each of them by itself, so a         *)
(* behaviour is that of one of them while the others rest in one of their  *)
(* initial states.                                                         *)
(***************************************************************************)
EXTENDS DiagnosticsCache, SessionEnvironment, AccessibilitySetup, ExtensionSetup, DoctorReport,
        PiClient

CONSTANTS c1, c2, s1, i1, i2, p1, p2

VARIABLE part  \* what a behaviour is about

(* Processes above the server: of a nested X11 session, with all or part of its
   variables, below those of the Wayland desktop that hosts it. *)
Of(desktop, keys) == [k \in Keys |-> IF k \in keys THEN desktop ELSE Absent]
X11Keys == Keys \ {"wayland", "instance"}
Nested == {<<>>} \cup {<<Of("x11", ks)>> : ks \in {X11Keys, {"type", "display"}, {"display"}}}
Hosting == {<<>>, <<Host>>, <<Of("wayland", {"type", "wayland", "bus"})>>, <<Of("wayland", {"bus"}), Host>>}
SomeAncestries == {inner \o outer : inner \in Nested, outer \in Hosting}

(* Machines: every combination of what input depends on, and of what the rest depends on. *)
Plain == [session |-> "wayland", desktop |-> "sway", display |-> TRUE, keys |-> "none",
          points |-> "none", pixelflux |-> FALSE, uinput |-> TRUE, xdotool |-> TRUE,
          wtype |-> TRUE, ydotool |-> TRUE, portal |-> PortalFacts, windows |-> {"i3"},
          exact |-> TRUE, shots |-> {"portal"}, tree |-> TRUE]
SomePortals == {{}, PortalFacts, {"keyboard_methods", "keyboard"}, PortalFacts \ {"keyboard"},
                PortalFacts \ {"pointer"}, PortalFacts \ {"hidden"}, PortalFacts \ {"versioned", "hidden"}}
ForInput ==
    {[Plain EXCEPT !.session = s, !.desktop = d, !.display = x, !.pixelflux = f, !.uinput = u,
                   !.xdotool = t, !.wtype = w, !.ydotool = y, !.portal = o] :
        s \in {"wayland", "untyped", "x11", "mixed"}, d \in {"gnome", "kde", "cosmic", "sway"},
        x \in BOOLEAN, f \in BOOLEAN, u \in BOOLEAN, t \in BOOLEAN, w \in BOOLEAN, y \in BOOLEAN,
        o \in SomePortals}
Forced ==
    {[Plain EXCEPT !.session = s, !.desktop = d, !.keys = k, !.points = p, !.portal = o,
                   !.uinput = u, !.xdotool = t, !.ydotool = y] :
        s \in {"wayland", "untyped", "x11"}, d \in {"cosmic", "sway"},
        k \in {"none", "ydotool", "xdotool", "portal"},
        p \in {"none", "ydotool", "portal", "no_uinput"}, o \in SomePortals,
        u \in BOOLEAN, t \in BOOLEAN, y \in BOOLEAN}
ForRest ==
    {[Plain EXCEPT !.windows = w, !.exact = e, !.shots = s, !.tree = t, !.pixelflux = p] :
        w \in SUBSET {"gnome_shell_extension", "gnome_introspect", "kwin", "wlr", "x11"},
        e \in BOOLEAN, s \in SUBSET {Shots[i] : i \in DOMAIN Shots}, t \in BOOLEAN, p \in BOOLEAN}
OneMachine == {Plain}
SomeMachines == ForInput \cup Forced \cup ForRest

desktopVars == <<part, vars, envVars, accessVars, extVars, doctorVars, piVars>>
DesktopInit ==
    /\ part \in {"cache", "environment", "accessibility", "extension", "doctor", "pi"}
    /\ Init
    /\ EnvInit /\ (part # "environment" => ancestry = <<>> /\ manager = Host /\ answers /\ runtime)
    /\ AccessInit /\ (part # "accessibility" => saved /\ enabled /\ bus)
    /\ ExtInit /\ (part # "extension" => disk["shell"] = CurrentCopy /\ system /\ listed)
    /\ IF part = "doctor" THEN DoctorInit ELSE machine = Plain /\ doctor = [at |-> "none"]
    /\ PiInit /\ (part # "pi" => binaries = [package |-> TRUE, path |-> TRUE, fits |-> TRUE, canInstall |-> TRUE])
DesktopNext ==
    /\ part' = part
    /\ \/ part = "cache" /\ Next /\ UNCHANGED <<envVars, accessVars, extVars, doctorVars, piVars>>
       \/ part = "environment" /\ EnvNext /\ UNCHANGED <<vars, accessVars, extVars, doctorVars, piVars>>
       \/ part = "accessibility" /\ AccessNext /\ UNCHANGED <<vars, envVars, extVars, doctorVars, piVars>>
       \/ part = "extension" /\ ExtNext /\ UNCHANGED <<vars, envVars, accessVars, doctorVars, piVars>>
       \/ part = "doctor" /\ DoctorNext /\ UNCHANGED <<vars, envVars, accessVars, extVars, piVars>>
       \/ part = "pi" /\ PiNext /\ UNCHANGED <<vars, envVars, accessVars, extVars, doctorVars>>
\* The fairness of each part, asked of the behaviours that are about it.
DesktopFairness ==
    /\ WF_accessVars(part = "accessibility" /\ GuardStep)
    /\ \A k \in PiCalls : WF_piVars(part = "pi" /\ CallStep(k) /\ pi[k].at # "idle")
    /\ \A p \in Procs : WF_piVars(part = "pi" /\ (ConnectEnds(p) \/ Kill(p)))
    /\ WF_piVars(part = "pi" /\ InstallEnds)
DesktopSpec == DesktopInit /\ [][DesktopNext]_desktopVars /\ DesktopFairness
=============================================================================
