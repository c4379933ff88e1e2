--------------------------- MODULE MCInputBackends ---------------------------
(***************************************************************************)
(* Instances for TLC of the ways input is sent: the choice of a route, the *)
(* background keys of Hyprland, the programs that are run, and the windows *)
(* that are named to two kinds of compositor or listed by COSMIC's helper. *)
(* InputRoutes takes the outcome of a backend as a choice and backends do  *)
(* not call each other, so a behaviour is that of one of them while the    *)
(* others rest in their initial states.                                    *)
(***************************************************************************)
EXTENDS MCInputRoutes, HyprlandKeys, CommandRunner, Toplevels, IpcWindows,
        CosmicHelper

CONSTANTS k1, k2, k3, r1, r2, top1, top2, ses1, ses2, cw1, cw2, out1, out2

VARIABLE part  \* what a behaviour is about

\* A whole and a broken last chunk, a press that comes twice in a chunk, and one that
\* cannot be mapped.
SomeTexts == {<<k1>>, <<k1, k2, k1>>, <<k1, k1>>, <<k2, k1>>, <<k1, k3>>}

(* Windows of two programs; a title that labwc's IPC cuts, two labels with one hash. *)
Label(a, t) == [app |-> a, title |-> t]
NoLabel == Label(None, None)
FourLabels == {NoLabel, Label("a", "t"), Label("a", "long"), Label(None, "t")}
TwoPids == [w \in Tops |-> IF w = top1 THEN 1 ELSE 2]
CutTitles == [l \in Labels |-> IF l.title = "long" THEN Label(l.app, "t") ELSE l]
CollidingHash == [p \in {1, 2, None}, l \in Labels |->
                    <<p, IF l = Label("a", "long") THEN Label("a", "t") ELSE l>>]

(* Two monitors side by side, changed about, one off, one gone. *)
Monitor(on, x, mode) == [there |-> TRUE, on |-> on, x |-> x, mode |-> mode]
NoMonitor == [there |-> FALSE, on |-> FALSE, x |-> 0, mode |-> 0]
TwoMonitors(a, b) == [o \in Outs |-> IF o = out1 THEN a ELSE b]
FourLayouts == {TwoMonitors(Monitor(TRUE, 0, 1), Monitor(TRUE, 1, 1)),
                TwoMonitors(Monitor(TRUE, 2, 1), Monitor(TRUE, 0, 2)),
                TwoMonitors(Monitor(TRUE, 0, 1), Monitor(FALSE, 1, 1)),
                TwoMonitors(Monitor(TRUE, 0, 2), NoMonitor)}
TwoOrigins == [o \in Outs |-> IF o = out1 THEN 0 ELSE 4]
ThreeTasks == {[what |-> "list", win |-> NoWin], [what |-> "layout", win |-> NoWin],
               [what |-> "activate", win |-> cw1]}
Whole == [info |-> TRUE, xdg |-> TRUE, manage |-> TRUE]
SomeOffers == [list |-> {Whole, [Whole EXCEPT !.info = FALSE], [Whole EXCEPT !.xdg = FALSE]},
               activate |-> {Whole, [Whole EXCEPT !.manage = FALSE]}, layout |-> {Whole}]
OnFirst == [w \in Wins |-> [out |-> out1, x |-> 1]]

\* The helper keeps a record of each window and output apart: one order will do for them.
InOneOrder ==
    task.what # "layout" =>
        \A b \in owed.bursts \ owed'.bursts : b = CHOOSE c \in owed.bursts : TRUE

partVars == <<part, routeVars, hyprVars, runnerVars, topVars, ipcVars, cosmicVars>>
InputInit ==
    /\ part \in {"route", "hyprland", "command", "toplevel", "ipc", "cosmic"}
    /\ RouteInit /\ HyprInit /\ RunnerInit /\ TopInit /\ IpcInit
    /\ part # "route" => host = Plain /\ front = w1 /\ daemon
    /\ part # "hyprland" => presses = <<k1>>
    /\ part # "toplevel" => /\ protocol = "wlr" /\ opened = {top1} /\ label = [w \in Tops |-> NoLabel]
    /\ part # "ipc" => kind = "niri" /\ socketVar = ses1 /\ live = {ses1}
    /\ CosmicInit
    /\ part # "cosmic" => task.what = "layout" /\ layout = TwoMonitors(Monitor(TRUE, 0, 2), NoMonitor)
InputNext ==
    /\ part' = part
    /\ \/ /\ part = "route" /\ RouteNext
          /\ UNCHANGED <<hyprVars, runnerVars, topVars, ipcVars, cosmicVars>>
       \/ /\ part = "hyprland" /\ HyprNext
          /\ UNCHANGED <<routeVars, runnerVars, topVars, ipcVars, cosmicVars>>
       \/ /\ part = "command" /\ RunnerNext
          /\ UNCHANGED <<routeVars, hyprVars, topVars, ipcVars, cosmicVars>>
       \/ /\ part = "toplevel" /\ TopNext
          /\ UNCHANGED <<routeVars, hyprVars, runnerVars, ipcVars, cosmicVars>>
       \/ /\ part = "ipc" /\ IpcNext
          /\ UNCHANGED <<routeVars, hyprVars, runnerVars, topVars, cosmicVars>>
       \/ /\ part = "cosmic" /\ CosmicNext /\ InOneOrder
          /\ UNCHANGED <<routeVars, hyprVars, runnerVars, topVars, ipcVars>>
InputSpec == InputInit /\ [][InputNext]_partVars /\ RunnerFairness
=============================================================================
