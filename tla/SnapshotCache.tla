---------------------------- MODULE SnapshotCache ----------------------------
(***************************************************************************)
(* The cached accessibility snapshot of one server: get_app_state and      *)
(* include_tree observations replace it, element actions (click, scroll,   *)
(* set_value, perform_action) resolve an index or a selector in it, and    *)
(* perform_action recovers from a dead object through it.                  *)
(*                                                                         *)
(* Trees are read without the input lock and cached under it; an element   *)
(* action holds the lock from its target check to its last invocation.     *)
(* Every action below is the code between two awaits.  A client may cancel *)
(* a call at any of them.                                                  *)
(*                                                                         *)
(* The desktop is a set of accessible objects that can vanish.  A node is  *)
(* abstracted to its object, a selector to the name it looks for.  Titles  *)
(* tell windows apart.                                                     *)
(***************************************************************************)
EXTENDS Integers

CONSTANTS
    Observers, \* slots of concurrent observations: get_app_state, include_tree
    Actors,    \* slots of concurrent element actions
    Objects,   \* accessible objects, each on a bus name that is never used again
    Windows,   \* windows of the window backend
    Names,     \* what selectors look for
    Indices,   \* element indices
    Identifiers, \* bound: objects clients name by element_identifier
    Mortal,    \* bound: objects that vanish during a run
    WindowOf,  \* the window an object belongs to
    PidOf,     \* the process of a window
    NameOf,    \* the name of an object
    Useful,    \* objects that suit what actions do: with bounds, actions or a value
    Showing,   \* objects whose states say that they are showing and visible
    Reported,  \* windows whose pid the window backend reports
    None

Callers == Observers \cup Actors
Pids == {PidOf[w] : w \in Windows}
OwnerOf(o) == PidOf[WindowOf[o]]

ASSUME SnapshotAssumption ==
    /\ WindowOf \in [Objects -> Windows]
    /\ PidOf \in [Windows -> Pids]
    /\ NameOf \in [Objects -> Names]
    /\ Reported \subseteq Windows
    /\ Observers \cap Actors = {}
    /\ Identifiers \subseteq Objects /\ Mortal \subseteq Objects
    /\ Useful \subseteq Objects /\ Showing \subseteq Objects
    /\ Indices \cap Names = {} /\ Objects \cap (Indices \cup Names) = {}
    /\ None \notin Callers \cup Objects \cup Windows \cup Pids \cup Names \cup Indices

VARIABLES
    alive,     \* objects that still answer
    snapshot,  \* ComputerUseLinux::last_snapshot
    spilled,   \* the tree in TreeSpiller::current's file, or None
    shown,     \* the last tree a result gave the client
    lock,      \* the call that holds input_operation_lock, or None
    pc,        \* state of each call
    goal,      \* the pid and the window a call's target resolved to
    by,        \* how an action names its element: an index, a name or an identifier
    node,      \* the cached node cloned for the target check
    object,    \* the object reference to invoke
    read       \* the tree an observation has read, or the scope a recovery saved

callVars == <<pc, goal, by, node, object, read>>
vars == <<alive, snapshot, spilled, shown, lock, callVars>>

NoNodes == [i \in Indices |-> None]
Trees == {f \in [Indices -> Objects \cup {None}] :
            \A i, j \in Indices : f[i] = f[j] /\ f[i] # None => i = j}

\* AccessibilityRecoveryScope: the pid the request or the tree fixed, and whether
\* the request named a window.
Scopes == [pid : Pids \cup {None}, byWindow : BOOLEAN]

Snapshots == [nodes    : Trees,
              pid      : Pids \cup {None},      \* the pid that matched the tree's roots
              window   : Windows \cup {None},
              narrowed : Windows \cup {None},   \* window_scope
              scope    : Scopes \cup {None}]
Empty == [nodes |-> NoNodes, pid |-> None, window |-> None, narrowed |-> None,
          scope |-> None]

\* A target: the pid it resolved to, the window, and whether it names that window.
Goals == [pid : Pids \cup {None}, window : Windows \cup {None}, named : BOOLEAN]
NoGoal == [pid |-> None, window |-> None, named |-> FALSE]

\* Types; what an action is about to invoke is an object, never an index.
TypeOK ==
    /\ alive \subseteq Objects
    /\ snapshot \in Snapshots
    /\ spilled \in Trees \cup {None}
    /\ shown \in Trees
    /\ lock \in Callers \cup {None}
    /\ pc \in [Callers -> {"idle", "reading", "tree", "failed", "targeting", "checking",
                           "lookup", "resolved", "recovering", "retrying"}]
    /\ goal \in [Callers -> Goals]
    /\ by \in [Callers -> Indices \cup Names \cup Objects \cup {None}]
    /\ node \in [Callers -> Objects \cup {None}]
    /\ object \in [Callers -> Objects \cup {None}]
    /\ read \in [Callers -> Snapshots]

Init ==
    /\ alive = Objects
    /\ snapshot = Empty
    /\ spilled = None
    /\ shown = NoNodes
    /\ lock = None
    /\ pc = [c \in Callers |-> "idle"]
    /\ goal = [c \in Callers |-> NoGoal]
    /\ by = [c \in Callers |-> None]
    /\ node = [c \in Callers |-> None]
    /\ object = [c \in Callers |-> None]
    /\ read = [c \in Callers |-> Empty]

\* The call returns or is cancelled; a lock guard it holds goes with its future.
Done(c) ==
    /\ pc' = [pc EXCEPT ![c] = "idle"]
    /\ goal' = [goal EXCEPT ![c] = NoGoal]
    /\ by' = [by EXCEPT ![c] = None]
    /\ node' = [node EXCEPT ![c] = None]
    /\ object' = [object EXCEPT ![c] = None]
    /\ read' = [read EXCEPT ![c] = Empty]
    /\ lock' = IF lock = c THEN None ELSE lock

ReportedPid(w) == IF w \in Reported THEN PidOf[w] ELSE None

\* Targets of a call: none, a bare pid, or a window with the pid reported for it.
Targets == {NoGoal} \cup [pid : Pids, window : {None}, named : {FALSE}]
              \cup {[pid |-> ReportedPid(w), window |-> w, named |-> TRUE] : w \in Windows}

\* The window a target leads to: the one it names, or one listed for its pid; a
\* lookup can also fail.
WindowsFor(t) ==
    {None} \cup (IF t.named THEN {t.window}
                 ELSE {w \in Windows : t.pid # None /\ ReportedPid(w) = t.pid})

-----------------------------------------------------------------------------
(* Observations: read a tree, then cache it and return it.                 *)

\* The objects a traversal can meet: the app matched by pid, or every app, with
\* the other windows of a narrowed app left out.
InScope(p, w) ==
    {o \in alive : /\ p # None => OwnerOf(o) = p
                   /\ w # None /\ OwnerOf(o) = PidOf[w] => WindowOf[o] = w}

\* resolve_accessibility_app_filter: the application whose tree is read is one of the
\* process, if one is listed, or whichever a name matches.
AppsFor(pid) == {None, pid}

\* snapshot_accessibility_tree for a pid and a window title: f is a tree below the
\* roots matched by p, narrowed to w.  The pid may match no root, and an app with
\* one window is not narrowed.
TreeRead(f, p, w, pid, title) ==
    /\ p \in AppsFor(pid) /\ w \in {None, title}
    /\ p # None /\ w # None => PidOf[w] = p
    /\ \A i \in Indices : f[i] # None => f[i] \in InScope(p, w)

\* get_app_state: the tree of the resolved window's process, or of whatever app
\* matches by name.  A scoped tree carries the scope a recovery may use.
ReadAppState(c) ==
    /\ pc[c] = "idle"
    /\ \E t \in Targets : \E window \in WindowsFor(t) :
       \E f \in Trees, p \in Pids \cup {None}, w \in Windows \cup {None} :
          /\ TreeRead(f, p, w, ReportedPid(window), IF t.named THEN window ELSE None)
          /\ \E scope \in {[pid |-> IF t.named THEN p ELSE t.pid, byWindow |-> t.named]}
                             \cup (IF p = None THEN {None} ELSE {}) :
                read' = [read EXCEPT ![c] =
                    [nodes |-> f, pid |-> p, window |-> window, narrowed |-> w,
                     scope |-> scope]]
    /\ pc' = [pc EXCEPT ![c] = "tree"]
    /\ UNCHANGED <<alive, snapshot, spilled, shown, lock, goal, by, node, object>>

\* resolve_post_action_window: the target's, or the one focused before or now.
PostActionWindows(t) == IF t = NoGoal THEN Windows \cup {None} ELSE WindowsFor(t)

\* include_tree after an action: without a target of its own the observation
\* borrows the pid of the cached snapshot ...
AimObservation(c) ==
    /\ pc[c] = "idle"
    /\ \E t \in Targets :
       \E window \in PostActionWindows(t) :
       \E targeted \in IF window = None THEN {FALSE}
                       ELSE IF t = NoGoal THEN BOOLEAN ELSE {TRUE} :
          LET pid == IF ReportedPid(window) # None THEN ReportedPid(window)
                     ELSE IF ~t.named /\ t.pid # None THEN t.pid
                     ELSE IF targeted THEN None ELSE snapshot.pid
          IN goal' = [goal EXCEPT ![c] =
                        [pid |-> pid, window |-> IF targeted THEN window ELSE None,
                         named |-> t.named]]
    /\ pc' = [pc EXCEPT ![c] = "reading"]
    /\ UNCHANGED <<alive, snapshot, spilled, shown, lock, by, node, object, read>>

\* The title that narrows the tree, when it comes from the cached snapshot
\* (post_action_window_title, narrowed_through_cache).
CachedTitle(c) ==
    IF ~goal[c].named /\ snapshot.pid # None /\ snapshot.pid = goal[c].pid
    THEN snapshot.narrowed ELSE None

\* post_action_tree_window: the window the tree has been shown to belong to.
TreeWindow(c, p, w) ==
    IF CachedTitle(c) # None
    THEN IF p = snapshot.pid /\ w = snapshot.narrowed THEN snapshot.window ELSE None
    ELSE IF /\ goal[c].window # None
            /\ IF ReportedPid(goal[c].window) # None
               THEN p = ReportedPid(goal[c].window) ELSE w # None
         THEN goal[c].window ELSE None

\* ... and, after another await, its window scope.
ReadObservation(c) ==
    /\ pc[c] = "reading"
    /\ \E f \in Trees, p \in Pids \cup {None}, w \in Windows \cup {None} :
          /\ TreeRead(f, p, w, goal[c].pid,
                      IF goal[c].named THEN goal[c].window ELSE CachedTitle(c))
          /\ read' = [read EXCEPT ![c] =
                [nodes |-> f, pid |-> p, window |-> TreeWindow(c, p, w), narrowed |-> w,
                 scope |-> None]]
    /\ pc' = [pc EXCEPT ![c] = "tree"]
    /\ goal' = [goal EXCEPT ![c] = NoGoal]
    /\ UNCHANGED <<alive, snapshot, spilled, shown, lock, by, node, object>>

ReadFails(c) ==
    /\ pc[c] \in {"idle", "reading"}
    /\ pc' = [pc EXCEPT ![c] = "failed"]
    /\ goal' = [goal EXCEPT ![c] = NoGoal]
    /\ UNCHANGED <<alive, snapshot, spilled, shown, lock, by, node, object, read>>

\* Mutant: the file of the replaced tree stays.
SpillLeftBehind(s, large) == IF large THEN s.nodes ELSE spilled

\* store_snapshot_for removes the spill file of the tree it replaces; a tree too
\* large for the result is then written out, or cut if that fails (fit_tree).
SpillAfter(s, large) == IF large THEN s.nodes ELSE None

\* Mutant: the tree is cached without the input lock.
CommitUnlocked(c) ==
    /\ pc[c] = "tree"
    /\ snapshot' = read[c]
    /\ \E large \in BOOLEAN : spilled' = SpillAfter(read[c], large)
    /\ shown' = read[c].nodes
    /\ Done(c)
    /\ UNCHANGED alive

\* The guard is taken, the tree cached, spilled and returned without an await.
Commit(c) ==
    /\ pc[c] = "tree" /\ lock = None
    /\ snapshot' = read[c]
    /\ \E large \in BOOLEAN : spilled' = SpillAfter(read[c], large)
    /\ shown' = read[c].nodes
    /\ Done(c)
    /\ UNCHANGED alive

\* Mutant: a failed observation leaves the old tree cached.
FailKeepingTree(c) ==
    /\ pc[c] = "failed" /\ lock = None
    /\ shown' = NoNodes
    /\ Done(c)
    /\ UNCHANGED <<alive, snapshot, spilled>>

CommitEmpty(c) ==
    /\ pc[c] = "failed" /\ lock = None
    /\ snapshot' = Empty
    /\ spilled' = SpillAfter(Empty, FALSE)
    /\ shown' = NoNodes
    /\ Done(c)
    /\ UNCHANGED alive

-----------------------------------------------------------------------------
(* Element actions: check the target, resolve the element, invoke it.      *)

Prefer(found, good) == IF found \cap good # {} THEN found \cap good ELSE found

\* resolve_semantic_node: of several matches one that suits the action, then one that
\* is showing; matches that neither tells apart are refused.
SelectorMatch(f, b) ==
    LET found == {o \in Objects : NameOf[o] = b /\ \E i \in Indices : f[i] = o}
        best == Prefer(Prefer(found, Useful), Showing)
    IN  IF \E o \in best : best = {o} THEN CHOOSE o \in best : TRUE ELSE None

\* resolve_cached_node.
Resolve(f, b) == IF b \in Indices THEN f[b] ELSE SelectorMatch(f, b)

\* The node an action is about; an identifier is not looked up in the cache.
NodeOf(c) == IF by[c] \in Objects THEN by[c] ELSE Resolve(snapshot.nodes, by[c])

Begin(c) ==
    /\ pc[c] = "idle" /\ lock = None
    /\ lock' = c
    /\ \E t \in Targets : goal' = [goal EXCEPT ![c] = t]
    /\ \E b \in Indices \cup Names \cup Identifiers : by' = [by EXCEPT ![c] = b]
    /\ pc' = [pc EXCEPT ![c] = "checking"]
    /\ UNCHANGED <<alive, snapshot, spilled, shown, node, object, read>>

\* The tree's own pid speaks for its nodes; without one the bus is asked.
NeedsLookup(c) ==
    goal[c].pid # None /\ (by[c] \in Objects \/ snapshot.pid = None)

\* Mutant: a matching pid is enough for a narrowed tree.
PidSuffices(c) ==
    by[c] \in Objects \/ goal[c].pid # None \/ goal[c].window \in {None, snapshot.window}

\* The window part of check_node_target.
WindowAgrees(c) ==
    \/ by[c] \in Objects
    \/ goal[c].window = None
    \/ goal[c].pid # None /\ snapshot.narrowed = None
    \/ snapshot.window = goal[c].window

Resolved(c) ==
    /\ WindowAgrees(c)
    /\ NodeOf(c) # None
    /\ object' = [object EXCEPT ![c] = NodeOf(c)]
    /\ pc' = [pc EXCEPT ![c] = "resolved"]

Check(c) ==
    /\ pc[c] = "checking" /\ ~NeedsLookup(c)
    /\ goal[c].pid \in {None, snapshot.pid} \/ by[c] \in Objects
    /\ node' = [node EXCEPT ![c] = NodeOf(c)]
    /\ Resolved(c)
    /\ UNCHANGED <<alive, snapshot, spilled, shown, lock, goal, by, read>>

LookUpOwner(c) ==
    /\ pc[c] = "checking" /\ NeedsLookup(c)
    /\ NodeOf(c) # None
    /\ node' = [node EXCEPT ![c] = NodeOf(c)]
    /\ pc' = [pc EXCEPT ![c] = "lookup"]
    /\ UNCHANGED <<alive, snapshot, spilled, shown, lock, goal, by, object, read>>

\* An owner the bus does not tell cannot be shown to be wrong; the model keeps in
\* node whether the owner is known.  The element is then resolved once more.
OwnerKnown(c) ==
    /\ pc[c] = "lookup"
    /\ \/ OwnerOf(node[c]) = goal[c].pid /\ UNCHANGED node
       \/ node' = [node EXCEPT ![c] = None]
    /\ Resolved(c)
    /\ UNCHANGED <<alive, snapshot, spilled, shown, lock, goal, by, read>>

\* is_recoverable_action_query_error: the bus has no such name any more.
GoneFromBus(c) == object[c] \notin alive

\* perform_action on a selector whose object is gone from the bus, with a snapshot
\* that pins a pid or a window observed for it.
InvokeDead(c) ==
    /\ pc[c] = "resolved" /\ GoneFromBus(c)
    /\ by[c] \in Names
    /\ snapshot.scope # None
    /\ \/ snapshot.scope.pid # None
       \/ snapshot.scope.byWindow /\ snapshot.window # None
    /\ read' = [read EXCEPT ![c] = snapshot]
    /\ pc' = [pc EXCEPT ![c] = "recovering"]
    /\ UNCHANGED <<alive, snapshot, spilled, shown, lock, goal, by, node, object>>

\* Mutant: any scoped tree will do.
AnyScope(c, p, window) == read[c].scope.byWindow => window = read[c].window

\* What the refreshed tree must show: the original pid, and the original window
\* when the request named one.
SameScope(c, p, window) ==
    /\ p # None
    /\ read[c].scope.byWindow => window = read[c].window /\ window # None

\* Re-read the scope, forget the old indices and resolve the selector in the new
\* tree, which the client has not seen.
Recover(c) ==
    /\ pc[c] = "recovering"
    /\ \E window \in Windows \cup {None}, f \in Trees,
          p \in Pids \cup {None}, w \in Windows \cup {None} :
          LET scope == read[c].scope
              pid == IF scope.pid # None THEN scope.pid ELSE ReportedPid(window)
          IN /\ TreeRead(f, p, w, pid, IF scope.byWindow THEN window ELSE None)
             /\ SameScope(c, p, window)
             /\ Resolve(f, by[c]) \notin {None, object[c]}
             /\ object' = [object EXCEPT ![c] = Resolve(f, by[c])]
    /\ node' = [node EXCEPT ![c] = object[c]]
    /\ snapshot' = Empty
    /\ spilled' = SpillAfter(Empty, FALSE)
    /\ pc' = [pc EXCEPT ![c] = "retrying"]
    /\ UNCHANGED <<alive, shown, lock, goal, by, read>>

\* The selector finds nothing, or the dead object again: the indices are gone too.
RecoverNothing(c) ==
    /\ pc[c] = "recovering"
    /\ snapshot' = Empty
    /\ spilled' = SpillAfter(Empty, FALSE)
    /\ Done(c)
    /\ UNCHANGED <<alive, shown>>

\* Answered, refused by a check, failed for good, or cancelled.
End(c) ==
    /\ pc[c] # "idle"
    /\ Done(c)
    /\ UNCHANGED <<alive, snapshot, spilled, shown>>

Vanish(o) ==
    /\ o \in alive
    /\ alive' = alive \ {o}
    /\ UNCHANGED <<snapshot, spilled, shown, lock, callVars>>

-----------------------------------------------------------------------------
Observe(c) ==
    \/ ReadAppState(c) \/ AimObservation(c) \/ ReadObservation(c) \/ ReadFails(c)
    \/ Commit(c) \/ CommitEmpty(c)

ActOnElement(c) ==
    \/ Begin(c) \/ Check(c) \/ LookUpOwner(c) \/ OwnerKnown(c)
    \/ InvokeDead(c) \/ Recover(c) \/ RecoverNothing(c)

Next ==
    \/ \E c \in Observers : Observe(c)
    \/ \E c \in Actors : ActOnElement(c)
    \/ \E c \in Callers : End(c)
    \/ \E o \in Mortal : Vanish(o)

Spec == Init /\ [][Next]_vars

-----------------------------------------------------------------------------
\* get_tree_page and every resolution read the tree the client saw last, or none, and
\* the spill file on disk, if any, is that tree: a tree nobody was shown never takes its
\* place, whatever was cancelled, failed or recovered in between.
CacheIsShown ==
    /\ snapshot.nodes \in {shown, NoNodes}
    /\ spilled # None => spilled = snapshot.nodes

\* The object about to be invoked for an index is the one the client saw there, even
\* if other calls read new trees between the check and the invocation.
IndexMeansShown ==
    \A c \in Callers :
        pc[c] = "resolved" /\ by[c] \in Indices => object[c] = shown[by[c]]

\* An action with a target acts on what its check was about: the same node, owned by
\* the target's process, and from a narrowed tree only in the target's window.  A
\* recovered action reaches another object, of the process the cached tree came from,
\* or of the observed window's process if the tree told none.
ActsInTarget ==
    \A c \in Callers :
        /\ pc[c] = "resolved" /\ node[c] # None =>
              /\ object[c] = node[c]
              /\ goal[c].pid # None => OwnerOf(object[c]) = goal[c].pid
              /\ goal[c].named /\ goal[c].pid # None /\ by[c] \notin Objects
                    /\ snapshot.narrowed # None
                 => WindowOf[object[c]] = goal[c].window
        /\ pc[c] = "retrying" =>
              /\ object[c] # node[c]
              /\ read[c].pid # None => OwnerOf(object[c]) = OwnerOf(node[c])
              /\ OwnerOf(object[c]) =
                    IF read[c].scope.pid # None THEN read[c].scope.pid
                    ELSE PidOf[read[c].window]

\* An action is about the element the client saw, and what its target names.
ActsAsMeant == IndexMeansShown /\ ActsInTarget

\* "Process id of the target app: an element another process owns is refused": a
\* recovered action too stays in the process its target named.
RetryInTarget ==
    \A c \in Callers :
        pc[c] = "retrying" /\ goal[c].pid # None => OwnerOf(object[c]) = goal[c].pid
=============================================================================
