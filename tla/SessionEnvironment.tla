-------------------------- MODULE SessionEnvironment --------------------------
(***************************************************************************)
(* How the server finds its desktop session (diagnostics.rs:               *)
(* hydrate_session_bus_env).  A host may start it without the variables    *)
(* that name the session; every tool first fills in what is missing from   *)
(* the processes above it, nearest first, then from the systemd user       *)
(* manager, and stops looking once the result is complete.                 *)
(*                                                                         *)
(* One user manager can serve two desktops: a nested native X11 session    *)
(* and the Wayland desktop that hosts it.  The value of a variable is the  *)
(* session it belongs to.                                                  *)
(***************************************************************************)
EXTENDS Naturals, Sequences, FiniteSets

CONSTANTS
    Ancestries, \* the environments of the processes above the server, nearest first
    Absent,     \* a variable that is not set
    MaxHydrations, \* bound on the calls
    MaxImports  \* bound on what the user manager learns or loses

\* XDG_SESSION_TYPE, DISPLAY, WAYLAND_DISPLAY, XDG_CURRENT_DESKTOP, the bus with
\* XDG_RUNTIME_DIR, and HYPRLAND_INSTANCE_SIGNATURE for the rest of DESKTOP_ENV_KEYS.
Keys == {"type", "display", "wayland", "desktop", "bus", "instance"}
Desktops == {"x11", "wayland"}
Environment == [Keys -> Desktops \cup {Absent}]

\* The nested session is below the desktop that hosts it: from the first process that has
\* the host's WAYLAND_DISPLAY upwards, none is of the nested session.
HostAbove(processes) ==
    \A i, j \in DOMAIN processes :
        i <= j /\ processes[i]["wayland"] = "wayland"
            => processes[j]["type"] # "x11" /\ processes[j]["display"] # "x11"

ASSUME EnvironmentAssumption ==
    /\ Absent \notin Desktops
    /\ Ancestries \subseteq Seq(Environment)
    /\ \A processes \in Ancestries : HostAbove(processes)
    /\ MaxHydrations \in Nat /\ MaxImports \in Nat

VARIABLES
    env,       \* the environment of the server
    hydrated,  \* HYDRATED_ENV, or {}
    ancestry,  \* what the processes above it were started with
    manager,   \* the environment of the systemd user manager
    answers,   \* systemctl --user can be asked
    runtime,   \* /run/user/UID/bus exists
    hydrating, \* a call holds the mutex
    sources,   \* processes it has found and not yet taken the variables of
    hydrations,
    imports

aroundVars == <<ancestry, manager, answers, runtime, imports>>
envVars == <<env, hydrated, hydrating, sources, hydrations, aroundVars>>

Unset == [k \in Keys |-> Absent]
Host == [k \in Keys |-> "wayland"]

EnvInit ==
    /\ env = Unset
    /\ hydrated = {}
    /\ ancestry \in Ancestries
    /\ manager \in {Unset, Host}
    /\ answers \in BOOLEAN
    /\ runtime \in BOOLEAN
    /\ hydrating = FALSE
    /\ sources = <<>>
    /\ hydrations = 0
    /\ imports = 0

\* A plain X11 session: it has a display, and no Wayland display.
NativeX11(e) == e["type"] = "x11" /\ e["display"] # Absent /\ e["wayland"] = Absent

\* Mutant: a variable that is missing is filled in whatever the session is.
FilledBlindly(e, source) == [k \in Keys |-> IF e[k] # Absent THEN e[k] ELSE source[k]]

\* desktop_env_hydration_updates
Filled(e, source) ==
    [k \in Keys |-> IF e[k] # Absent \/ (k = "wayland" /\ NativeX11(e)) THEN e[k]
                    ELSE source[k]]

FromManager(e) == IF answers THEN Filled(e, manager) ELSE e

\* XDG_RUNTIME_DIR and the bus in it: one bus serves both desktops of the user.
FromRuntime(e) == IF e["bus"] = Absent /\ runtime THEN [e EXCEPT !["bus"] = "wayland"] ELSE e

Complete(e) ==
    /\ e["bus"] # Absent /\ e["desktop"] # Absent /\ e["type"] # Absent
    /\ e["display"] # Absent \/ e["wayland"] # Absent

\* hydrate_session_bus_env, under its mutex: nothing to do, or the processes above the
\* server, as far as the walk comes: it ends at one that is gone when its parent is asked for.
BeginHydration ==
    /\ ~hydrating /\ hydrations < MaxHydrations
    /\ hydrations' = hydrations + 1
    /\ IF hydrated = {env} THEN UNCHANGED <<hydrating, sources>>
       ELSE /\ hydrating' = TRUE
            /\ \E n \in 0..Len(ancestry) : sources' = SubSeq(ancestry, 1, n)
    /\ UNCHANGED <<env, hydrated, aroundVars>>

\* hydrate_desktop_env_from_process_tree stops once every variable is set: what is set is
\* never replaced, so going on changes nothing.
FillFromProcess ==
    /\ hydrating /\ sources # <<>>
    /\ env' = Filled(env, Head(sources))
    /\ sources' = Tail(sources)
    /\ UNCHANGED <<hydrated, hydrating, hydrations, aroundVars>>

FillFromManager ==
    /\ hydrating /\ sources = <<>>
    /\ env' = FromRuntime(FromManager(env))
    /\ hydrated' = IF answers /\ Complete(env') THEN {env'} ELSE hydrated
    /\ hydrating' = FALSE
    /\ UNCHANGED <<sources, hydrations, aroundVars>>

\* The desktop that hosts the session tells the user manager about itself, all at once
\* (systemctl --user import-environment); the manager starts or stops answering.
ManagerLearns ==
    /\ imports < MaxImports
    /\ imports' = imports + 1
    /\ \/ manager' = Host /\ UNCHANGED <<answers, runtime>>
       \/ answers' = ~answers /\ UNCHANGED <<manager, runtime>>
       \/ ~runtime /\ runtime' = TRUE /\ UNCHANGED <<manager, answers>>
    /\ UNCHANGED <<env, hydrated, hydrating, sources, ancestry, hydrations>>

\* A process above the server ends and the next one takes its place.
AncestorEnds ==
    /\ imports < MaxImports
    /\ imports' = imports + 1
    /\ ancestry # <<>>
    /\ ancestry' = Tail(ancestry)
    /\ UNCHANGED <<env, hydrated, hydrating, sources, manager, answers, runtime, hydrations>>

EnvNext == BeginHydration \/ FillFromProcess \/ FillFromManager \/ ManagerLearns \/ AncestorEnds
EnvSpec == EnvInit /\ [][EnvNext]_envVars

(***************************************************************************)
(* Properties                                                              *)
(***************************************************************************)

\* Types of the variables.
EnvTypeOK ==
    /\ env \in Environment /\ manager \in Environment
    /\ hydrated = {} \/ \E e \in Environment : hydrated = {e}
    /\ answers \in BOOLEAN /\ runtime \in BOOLEAN /\ hydrating \in BOOLEAN
    /\ ancestry \in Seq(Environment) /\ sources \in Seq(Environment)
    /\ hydrations \in 0..MaxHydrations /\ imports \in 0..MaxImports

\* A process-local X11 session stays one: from whatever the server learns, and in
\* whatever order, the host's WAYLAND_DISPLAY is never grafted onto it, so that every
\* later choice of a backend is for the session the server runs in.
NeverGrafted == env["type"] = "x11" /\ env["display"] = "x11" => env["wayland"] # "wayland"

=============================================================================
