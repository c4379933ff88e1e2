-------------------------- MODULE AccessibilitySetup --------------------------
(***************************************************************************)
(* Who turns the desktop's accessibility on and off: setup_accessibility   *)
(* (diagnostics.rs), the foreground guard-accessibility process            *)
(* (accessibility_guard.rs), and the user.  Each of the first two is a     *)
(* sequence of gsettings and busctl commands, and the setting can change   *)
(* between any two of them.                                                *)
(***************************************************************************)
EXTENDS Naturals, FiniteSets

CONSTANTS
    SetUps,      \* calls of setup_accessibility
    MaxSwitches  \* bound on what the user switches and on what breaks

ASSUME AccessibilityAssumption == MaxSwitches \in Nat

VARIABLES
    saved,     \* toolkit-accessibility in GSettings
    enabled,   \* org.a11y.Status IsEnabled
    bus,       \* org.a11y.Bus gives an address
    guard,     \* what the guard process does next
    monitor,   \* its gsettings monitor: "none", "spawned", "subscribed", "exited"
    line,      \* the monitor has printed a line the guard has not read
    setups,    \* what each setup does next, and what it read
    told,      \* what each setup answered
    undone,    \* setups during which accessibility was turned off or a command failed
    switches

settingVars == <<saved, enabled, bus>>
guardVars == <<guard, monitor, line>>
setupVars == <<setups, told, undone>>
accessVars == <<settingVars, guardVars, setupVars, switches>>

GuardStates == {"off", "connect", "register", "spawn", "get", "set", "verify", "wait",
                "stopped", "failed"}
Ended == {"off", "stopped", "failed"}
AccessReading == [saved : BOOLEAN, ready : BOOLEAN]
Unread == [saved |-> FALSE, ready |-> FALSE]
SetupReports == {"none", "changed", "ready", "unverified", "not enabled"}

AccessInit ==
    /\ saved \in BOOLEAN
    /\ enabled \in BOOLEAN
    /\ bus \in BOOLEAN
    /\ guard = "off" /\ monitor = "none" /\ line = FALSE
    /\ setups = [c \in SetUps |-> [at |-> "idle", before |-> Unread, now |-> Unread]]
    /\ told = [c \in SetUps |-> "none"]
    /\ undone = {}
    /\ switches = 0

SettingUp == {c \in SetUps : setups[c].at \notin {"idle", "done"}}

\* The monitor prints a line for a change it is subscribed to.
Notices == IF saved' # saved /\ monitor = "subscribed" THEN line' = TRUE ELSE UNCHANGED line

(***************************************************************************)
(* guard-accessibility                                                     *)
(***************************************************************************)

StartGuard ==
    /\ guard = "off" /\ guard' = "connect"
    /\ UNCHANGED <<settingVars, monitor, line, setupVars, switches>>

\* AccessibilityConnection::new, register_event and the spawn, each with a deadline.
Prepare ==
    /\ \/ guard = "connect" /\ guard' = "register" /\ UNCHANGED monitor
       \/ guard = "register" /\ guard' = "spawn" /\ UNCHANGED monitor
       \/ guard = "spawn" /\ guard' = "get" /\ monitor' = "spawned"
    /\ UNCHANGED <<settingVars, line, setupVars, switches>>

\* The monitor subscribes some time after it was spawned: earlier changes print nothing.
MonitorSubscribes ==
    /\ monitor = "spawned" /\ monitor' = "subscribed"
    /\ UNCHANGED <<settingVars, guard, line, setupVars, switches>>

\* ensure_enabled: read, and if it is off write and read back.
EnsureEnabled ==
    /\ \/ guard = "get" /\ guard' = (IF saved THEN "wait" ELSE "set")
          /\ UNCHANGED <<settingVars, line>>
       \/ guard = "set" /\ guard' = "verify" /\ saved' = TRUE /\ enabled' = TRUE /\ Notices
          /\ UNCHANGED bus
       \/ guard = "verify" /\ guard' = (IF saved THEN "wait" ELSE "failed")
          /\ UNCHANGED <<settingVars, line>>
    /\ UNCHANGED <<monitor, setupVars, switches>>

\* Mutant: the guard looks at the setting only when the monitor prints a line.
WakeByLine ==
    /\ guard = "wait" /\ line
    /\ guard' = "get" /\ line' = FALSE
    /\ UNCHANGED <<settingVars, monitor, setupVars, switches>>

\* The loop of run: a line of the monitor, or the readback every second.
Wake ==
    /\ guard = "wait" /\ guard' = "get" /\ line' \in {FALSE, line}
    /\ UNCHANGED <<settingVars, monitor, setupVars, switches>>

\* A signal, which every wait of the guard gives way to; the setting stays as it is.
StopGuard ==
    /\ guard \notin Ended /\ guard' = "stopped"
    /\ monitor' = IF monitor = "none" THEN "none" ELSE "exited"
    /\ UNCHANGED <<settingVars, line, setupVars, switches>>

\* A command fails, the event stream ends, the monitor exits.
GuardFails ==
    /\ guard \notin Ended
    /\ switches < MaxSwitches /\ switches' = switches + 1
    /\ guard' = "failed"
    /\ monitor' = IF monitor = "none" THEN "none" ELSE "exited"
    /\ UNCHANGED <<settingVars, line, setupVars>>

(***************************************************************************)
(* setup_accessibility                                                     *)
(***************************************************************************)

To(c, at) == setups' = [setups EXCEPT ![c].at = at]

\* accessibility_report reads the bus and the saved key, and later the runtime property.
BeginReport(c) ==
    /\ setups[c].at \in {"idle", "after"}
    /\ setups' = [setups EXCEPT
           ![c].at = IF @ = "idle" THEN "read before" ELSE "read after",
           ![c].now = [saved |-> saved, ready |-> bus]]
    /\ UNCHANGED <<settingVars, guardVars, told, undone, switches>>

\* accessibility_tree_ready, without a toolkit bridge that is forced on.
TreeReady(c) == setups[c].now.ready /\ (enabled \/ setups[c].now.saved)

ReadBefore(c) ==
    /\ setups[c].at = "read before"
    /\ setups' = [setups EXCEPT ![c].at = "saved",
                 ![c].before = [saved |-> setups[c].now.saved, ready |-> TreeReady(c)]]
    /\ UNCHANGED <<settingVars, guardVars, told, undone, switches>>

\* Mutant: the saved key is not looked at while a tree can be built.
SaveUnlessReady(c) ==
    /\ setups[c].at = "saved"
    /\ IF setups[c].before.saved \/ setups[c].before.ready
       THEN To(c, "runtime") /\ UNCHANGED <<settingVars, line>>
       ELSE /\ To(c, "verify")
            /\ saved' = TRUE /\ enabled' = TRUE /\ Notices
            /\ UNCHANGED bus
    /\ UNCHANGED <<guard, monitor, told, undone, switches>>

\* enable_accessibility: the saved key is set even when an existing tree is usable. On
\* GNOME the bus launcher makes IsEnabled follow it.
Save(c) ==
    /\ setups[c].at = "saved"
    /\ IF setups[c].before.saved
       THEN To(c, "runtime") /\ UNCHANGED <<settingVars, line>>
       ELSE /\ To(c, "verify")
            /\ saved' = TRUE /\ enabled' = TRUE /\ Notices
            /\ UNCHANGED bus
    /\ UNCHANGED <<guard, monitor, told, undone, switches>>

Verify(c) ==
    /\ setups[c].at = "verify"
    /\ To(c, IF saved THEN "runtime" ELSE "request")
    /\ UNCHANGED <<settingVars, guardVars, told, undone, switches>>

\* set-property IsEnabled: asked when the key did not read back, or when no tree could
\* be built before.
RequestRuntime(c) ==
    /\ setups[c].at \in {"runtime", "request"}
    /\ To(c, "after")
    /\ IF setups[c].at = "request" \/ ~setups[c].before.ready
       THEN enabled' = TRUE /\ bus' \in {bus, TRUE}
       ELSE UNCHANGED <<enabled, bus>>
    /\ UNCHANGED <<saved, guardVars, told, undone, switches>>

\* The report compares a second doctor report with the first.
EndSetup(c) ==
    /\ setups[c].at = "read after"
    /\ To(c, "done")
    /\ told' = [told EXCEPT ![c] =
           CASE ~TreeReady(c) -> "not enabled"
             [] TreeReady(c) /\ ~setups[c].now.saved -> "unverified"
             [] OTHER -> IF setups[c].before.ready /\ setups[c].before.saved
                         THEN "ready" ELSE "changed"]
    /\ UNCHANGED <<settingVars, guardVars, undone, switches>>

\* A write or a request fails: the setup goes on.
CommandFails(c) ==
    /\ switches < MaxSwitches /\ switches' = switches + 1
    /\ \/ setups[c].at = "saved" /\ ~setups[c].before.saved /\ To(c, "verify")
       \/ setups[c].at \in {"runtime", "request"} /\ To(c, "after")
    /\ undone' = undone \cup {c}
    /\ UNCHANGED <<settingVars, guardVars, told>>

(***************************************************************************)
(* The user, and the specification.                                        *)
(***************************************************************************)

\* The user, or another program, switches accessibility; the bus comes or goes.
Switch ==
    /\ switches < MaxSwitches /\ switches' = switches + 1
    /\ \/ saved' = ~saved /\ enabled' \in {enabled, ~saved} /\ Notices /\ UNCHANGED bus
       \/ bus' = ~bus /\ UNCHANGED <<saved, enabled, line>>
    /\ undone' = undone \cup IF (saved /\ ~saved') \/ (bus /\ ~bus') THEN SettingUp ELSE {}
    /\ UNCHANGED <<guard, monitor, setups, told>>

GuardStep == Prepare \/ EnsureEnabled \/ Wake
SetupStep == \E c \in SetUps :
    BeginReport(c) \/ ReadBefore(c) \/ Save(c) \/ Verify(c) \/ RequestRuntime(c) \/ EndSetup(c) \/ CommandFails(c)

AccessNext ==
    \/ StartGuard \/ GuardStep \/ MonitorSubscribes \/ StopGuard \/ GuardFails
    \/ SetupStep \/ Switch
AccessSpec == AccessInit /\ [][AccessNext]_accessVars

\* The guard's commands have a time limit and its timer ticks.
AccessFairness == WF_accessVars(GuardStep)

(***************************************************************************)
(* Properties                                                              *)
(***************************************************************************)

\* Types of the variables.
AccessTypeOK ==
    /\ saved \in BOOLEAN /\ enabled \in BOOLEAN /\ bus \in BOOLEAN
    /\ guard \in GuardStates
    /\ monitor \in {"none", "spawned", "subscribed", "exited"} /\ line \in BOOLEAN
    /\ setups \in [SetUps -> [at : {"idle", "read before", "saved", "verify", "runtime", "request",
                                   "after", "read after", "done"},
                             before : AccessReading, now : AccessReading]]
    /\ told \in [SetUps -> SetupReports]
    /\ undone \subseteq SetUps /\ switches \in 0..MaxSwitches

\* Whoever turns the setting off while the guard runs, and whether or not its monitor
\* heard of it, the guard turns it on again or ends.
GuardRestores == (guard \notin Ended /\ ~saved) => <>(saved \/ guard \in Ended)

\* A setup that nothing undid leaves the saved key on, which is what newly started
\* applications read, also when a tree was usable before it.
SetupSaves ==
    \A c \in SetUps : setups[c].at = "done" /\ c \notin undone =>
        told[c] \in {"changed", "ready", "not enabled"}

\* Accessibility stays on: the saved key after a setup, the setting under the guard.
AccessStaysOn == [](SetupSaves /\ GuardRestores)
=============================================================================
