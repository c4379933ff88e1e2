---------------------------- MODULE ExtensionSetup ----------------------------
(***************************************************************************)
(* setup_window_targeting (gnome_extension.rs): install the bundled GNOME  *)
(* Shell extension, enable it, and say whether the Shell must be reloaded. *)
(*                                                                         *)
(* The Shell looks for extensions when the user logs in, the user's copy   *)
(* before the system's.  It imports extension.js once per session, when    *)
(* the extension is first enabled, and keeps that copy whatever becomes of *)
(* the files.                                                              *)
(***************************************************************************)
EXTENDS Naturals, FiniteSets

CONSTANTS
    Installs,   \* calls of setup_window_targeting, of any server of the session
    OwnDirs,    \* where servers look for user extensions: "shell", as the Shell does,
                \* or "host", when XDG_DATA_HOME differs
    MaxEvents   \* bound on what the user, the packages and failures do

Dirs == {"shell", "host"}

ASSUME ExtensionAssumption == OwnDirs \subseteq Dirs /\ MaxEvents \in Nat

\* A copy: its two files, "worded" a metadata.json of which only displayed fields differ.
Copy == [meta : {"none", "old", "worded", "current"}, js : {"none", "old", "current"}]
NoCopy == [meta |-> "none", js |-> "none"]
CurrentCopy == [meta |-> "current", js |-> "current"]

VARIABLES
    disk,      \* the user copy in each directory
    system,    \* the packaged copy is installed
    listed,    \* the extension is in org.gnome.shell enabled-extensions
    shell,     \* what the Shell found at login and what it has imported
    install,   \* each call: how far it is and what it read
    said,      \* what it answered
    disturbed, \* calls begun before the user, a package or a failure came between
    events

shellVars == <<disk, system, listed, shell>>
extVars == <<disk, system, listed, shell, install, said, disturbed, events>>

Sources == {"none", "user", "system"}
Shells == [found : Sources, imported : {"none", "old", "current"}]
InstallSteps == {"idle", "query", "enabled", "files", "javascript", "enable", "list", "report",
          "done"}
Tri == {"yes", "no", "unknown"}
InstallCall == [at : InstallSteps, loaded : Sources \cup {"unknown"}, dir : Dirs, packaged : BOOLEAN,
         enabled : Tri, changed : BOOLEAN, removed : BOOLEAN, failed : BOOLEAN,
         ok : BOOLEAN, serves : BOOLEAN]
InstallAnswers == [made : BOOLEAN, ok : BOOLEAN, serves : BOOLEAN, reload : BOOLEAN]

Fresh == [at |-> "idle", loaded |-> "unknown", dir |-> "host", packaged |-> FALSE,
          enabled |-> "unknown", changed |-> FALSE, removed |-> FALSE, failed |-> FALSE,
          ok |-> FALSE, serves |-> FALSE]

\* The session after a log-in, with or without an older user copy.
LogIn(copy, packaged, on) ==
    LET found == IF copy.meta # "none" THEN "user" ELSE IF packaged THEN "system" ELSE "none"
    IN [found |-> found,
        imported |-> IF ~on \/ found = "none" \/ (found = "user" /\ copy.js = "none") THEN "none"
                     ELSE IF found = "user" THEN copy.js ELSE "current"]

ExtInit ==
    /\ disk \in [Dirs -> {NoCopy, [meta |-> "old", js |-> "old"], CurrentCopy}]
    /\ disk["host"] = NoCopy
    /\ system \in BOOLEAN
    /\ listed \in BOOLEAN
    /\ shell = LogIn(disk["shell"], system, listed)
    /\ install = [c \in Installs |-> Fresh]
    /\ said = [c \in Installs |-> [made |-> FALSE, ok |-> FALSE, serves |-> FALSE, reload |-> FALSE]]
    /\ disturbed = {}
    /\ events = 0

Under(c, step) == install[c].at = step
Installing == {c \in Installs : install[c].at \notin {"idle", "done"}}
Begun == {c \in Installs : install[c].at # "idle"}
\* GNOME Shell serves the window-control D-Bus API.
Serves == shell.imported # "none" /\ listed
Fault == events < MaxEvents /\ events' = events + 1

\* loaded_extension: the path the Shell reports, or no answer in two seconds. A user copy
\* it loaded names the directory to write to.
Query(c) ==
    /\ Under(c, "idle")
    /\ \E known \in {shell.found, "unknown"}, own \in OwnDirs :
        /\ IF known = "unknown" THEN Fault ELSE UNCHANGED events
        /\ install' = [install EXCEPT ![c].at = "enabled", ![c].loaded = known,
                           ![c].dir = IF known = "user" THEN "shell" ELSE own,
                           ![c].packaged = system]
    /\ disturbed' = disturbed \cup IF Installing \cap disturbed = {} THEN {} ELSE {c}
    /\ UNCHANGED <<shellVars, said>>

\* gnome_extension_enabled
ReadEnabled(c) ==
    /\ Under(c, "enabled")
    /\ \E e \in {IF listed THEN "yes" ELSE "no", "unknown"} :
        /\ IF e = "unknown" THEN Fault ELSE UNCHANGED events
        /\ install' = [install EXCEPT ![c].at = "files", ![c].enabled = e]
    /\ UNCHANGED <<shellVars, said, disturbed>>

\* The files cannot be removed or written: the call goes on to list the windows.
FilesFail(c) ==
    /\ Fault /\ UNCHANGED disk
    /\ install' = [install EXCEPT ![c].at = "list", ![c].failed = TRUE]
    /\ disturbed' = Begun

\* remove_user_copy: a user copy shadows the packaged one.
RemoveUserCopy(c) ==
    /\ Under(c, "files") /\ install[c].packaged
    /\ \/ /\ disk' = [disk EXCEPT ![install[c].dir] = NoCopy]
          /\ install' = [install EXCEPT ![c].at = "enable",
                             ![c].removed = disk[install[c].dir] # NoCopy]
          /\ UNCHANGED <<disturbed, events>>
       \/ FilesFail(c)
    /\ UNCHANGED <<system, listed, shell, said>>

\* What the Shell acts on is not the bundled version.
NeedsReload(copy) == copy.js # "current" \/ copy.meta \in {"none", "old"}

\* write_extension_files: compare, then write metadata.json ...
WriteMetadata(c) ==
    /\ Under(c, "files") /\ ~install[c].packaged
    /\ \/ /\ disk' = [disk EXCEPT ![install[c].dir].meta = "current"]
          /\ install' = [install EXCEPT ![c].at = "javascript",
                             ![c].changed = NeedsReload(disk[install[c].dir])]
          /\ UNCHANGED <<disturbed, events>>
       \/ FilesFail(c)
    /\ UNCHANGED <<system, listed, shell, said>>

\* ... and extension.js. A failure between the two leaves an old one.
WriteJavascript(c) ==
    /\ Under(c, "javascript")
    /\ \/ /\ disk' = [disk EXCEPT ![install[c].dir].js = "current"]
          /\ install' = [install EXCEPT ![c].at = "enable"]
          /\ UNCHANGED <<disturbed, events>>
       \/ FilesFail(c)
    /\ UNCHANGED <<system, listed, shell, said>>

\* The Shell imports the copy it found, as its files are now.
Import ==
    IF shell.found = "none" \/ shell.imported # "none" THEN shell
    ELSE [shell EXCEPT !.imported =
              IF shell.found = "system" THEN "current" ELSE disk["shell"].js]

\* gnome-extensions enable reaches a Shell that found the extension. Else, or if it
\* fails, gsettings adds it to the list the Shell reads.
Enable(c) ==
    /\ Under(c, "enable")
    /\ \/ /\ listed' = TRUE /\ shell' = Import
          /\ install' = [install EXCEPT ![c].at = "list", ![c].ok = TRUE]
          /\ UNCHANGED events
       \/ /\ Fault /\ UNCHANGED <<listed, shell>>
          /\ install' = [install EXCEPT ![c].at = "list", ![c].ok = FALSE]
    /\ UNCHANGED <<disk, system, said, disturbed>>

\* list_extension_windows
ListWindows(c) ==
    /\ Under(c, "list")
    /\ \/ install' = [install EXCEPT ![c].at = "report", ![c].serves = Serves] /\ UNCHANGED events
       \/ Fault /\ install' = [install EXCEPT ![c].at = "report"]
    /\ UNCHANGED <<shellVars, said, disturbed>>

\* Mutant: what the Shell has loaded is not looked at.
ReloadForRemovedOnly(i) ==
    \/ i.packaged /\ i.removed
    \/ ~i.serves
    \/ i.enabled # "no" /\ i.changed

\* system_extension_requires_shell_reload, setup_requires_shell_reload
Reload(i) ==
    \/ i.packaged /\ (i.removed \/ i.loaded = "user")
    \/ ~i.serves
    \/ i.enabled # "no" /\ i.changed

EndInstall(c) ==
    /\ Under(c, "report")
    /\ install' = [install EXCEPT ![c].at = "done"]
    /\ LET i == install[c] IN
       said' = [said EXCEPT ![c] = [made |-> TRUE, ok |-> i.ok /\ ~i.failed,
                                        serves |-> i.serves, reload |-> Reload(i)]]
    /\ UNCHANGED <<shellVars, disturbed, events>>

(***************************************************************************)
(* The user and the packages.                                              *)
(***************************************************************************)

\* The user logs out and in, turns the extension on or off; a package is installed or
\* removed.
Around ==
    /\ Fault
    /\ \/ shell' = LogIn(disk["shell"], system, listed) /\ UNCHANGED <<disk, system, listed>>
       \/ listed' = FALSE /\ UNCHANGED <<disk, system, shell>>
       \/ ~listed /\ listed' = TRUE /\ shell' = Import /\ UNCHANGED <<disk, system>>
       \/ system' = ~system /\ UNCHANGED <<disk, listed, shell>>
    /\ disturbed' = disturbed \cup Begun
    /\ UNCHANGED <<install, said>>

InstallStep(c) ==
    \/ Query(c) \/ ReadEnabled(c) \/ RemoveUserCopy(c) \/ WriteMetadata(c)
    \/ WriteJavascript(c) \/ Enable(c) \/ ListWindows(c) \/ EndInstall(c)

ExtNext == (\E c \in Installs : InstallStep(c)) \/ Around
ExtSpec == ExtInit /\ [][ExtNext]_extVars

(***************************************************************************)
(* Properties                                                              *)
(***************************************************************************)

\* Types of the variables.
ExtTypeOK ==
    /\ disk \in [Dirs -> Copy]
    /\ system \in BOOLEAN /\ listed \in BOOLEAN
    /\ shell \in Shells
    /\ install \in [Installs -> InstallCall] /\ said \in [Installs -> InstallAnswers]
    /\ disturbed \subseteq Installs /\ events \in 0..MaxEvents

\* Nothing came between a call to which the Shell named its copy, or which looks where the
\* Shell does, nor is another on its way.
Undisturbed(c) ==
    /\ said[c].made /\ c \notin disturbed /\ install[c].loaded # "unknown"
    /\ Installing = {}
    /\ install[c].packaged \/ install[c].dir = "shell"

\* A setup that succeeds and asks for nothing more has set up the sessions to come too:
\* what the Shell would load at the next log-in is a current copy, unless the Shell has a
\* user copy on its disk that the call could not know of; and where the packaged copy is to
\* run, the Shell does not run a user copy that shadowed it.
SetupLasts ==
    \A c \in Installs : Undisturbed(c) /\ said[c].ok /\ ~said[c].reload =>
        /\ install[c].dir = "shell" \/ disk["shell"] = NoCopy =>
              LogIn(disk["shell"], system, listed).imported = "current"
        /\ install[c].packaged => shell.found # "user"

\* "The report's requires_shell_reload says when GNOME Shell needs a new login" (cli.rs):
\* without it the Shell runs the bundled code.
ReloadIsReported ==
    \A c \in Installs : Undisturbed(c) /\ said[c].ok /\ ~said[c].reload =>
        shell.imported = "current"

=============================================================================
