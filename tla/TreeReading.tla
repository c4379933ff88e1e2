---------------------------- MODULE TreeReading ----------------------------
(***************************************************************************)
(* Reading an accessibility tree: the snapshot of an application and the   *)
(* search for the focused element.  Both walk breadth first, under limits  *)
(* on nodes, depth and child reads and, for the snapshot, a deadline; each *)
(* read is a call of its own, and the application changes its tree and its *)
(* focus in between.  An index that is read late names another child.      *)
(***************************************************************************)
EXTENDS Naturals, Sequences, FiniteSets

CONSTANTS
    Elements,     \* accessible objects
    Registry,     \* the registry's root
    Shapes,       \* the trees a reading may begin with: functions to the children
    Frames,       \* named frames: windows that a title tells apart
    Rules,        \* the windows a title fits, by each rule of matching_window in turn
    AllWindows,   \* they, unnamed frames, dialogs and file choosers
    Containers,   \* elements that take focus for what they contain
    Chrome,       \* application roots, frames and menus: no content
    Owner,        \* the process of an application's root
    Named,        \* the roots that match the application's name
    Jobs,         \* what is asked: [kind, pid, named, title, nodes, depth]
    MaxEdits,     \* bound on what the application changes
    MaxFaults,    \* bound on the calls that fail
    Nil

ASSUME TreeAssumption ==
    /\ IsFiniteSet(Elements) /\ Registry \notin Elements /\ Nil \notin Elements \cup {Registry}
    /\ Containers \subseteq Elements
    /\ Shapes \subseteq [Elements \cup {Registry} -> Seq(Elements)]
    \* an element has one place
    /\ \A k \in Shapes : \A p, q \in Elements \cup {Registry} :
          \A i \in DOMAIN k[p], j \in DOMAIN k[q] : k[p][i] = k[q][j] => p = q /\ i = j
    /\ \A j \in Jobs : j.nodes \in Nat /\ j.depth \in Nat

VARIABLES
    kids,      \* the children of every element
    focused,   \* the elements that say they have the focus
    job,
    at,
    queue,     \* BoundedTraversal: what is to be read, how much was, what was dropped
    attempted,
    dropped,
    reads,     \* child reads left
    cur,       \* the node being read
    nodes,     \* what the snapshot has
    cut,       \* truncated, or incomplete
    scope,     \* the roots, and the window the tree was narrowed to
    container, \* the last focused container, and the depth it is at
    shell,     \* nothing but chrome so far
    verdict,   \* what the search answers
    edits, edited,  \* changes so far, and the elements whose children changed
    moved,     \* the focus moved
    faults, failed  \* failing calls so far, and the elements they were about

treeVars == <<kids, focused, job, at, queue, attempted, dropped, reads, cur, nodes, cut,
              scope, container, shell, verdict, edits, edited, moved, faults, failed>>
worldVars == <<kids, focused, edits, edited, moved>>
walkVars == <<queue, attempted, dropped, reads>>
probeVars == <<container, shell, verdict>>
faultVars == <<faults, failed>>

NoCur == [el |-> Nil, depth |-> 0, parent |-> 0, count |-> 0, got |-> <<>>, left |-> {}]
NoContainer == [el |-> Nil, depth |-> 0]

SetOf(s) == {s[i] : i \in DOMAIN s}
Least(a, b) == IF a < b THEN a ELSE b
Snapshotting == job.kind = "snapshot"
\* A search of one application only.
Scoped == job.pid # Nil

TreeBegins ==
    /\ at = "begin" /\ queue = <<>> /\ attempted = 0 /\ dropped = FALSE
    /\ reads = job.nodes /\ cur = NoCur /\ nodes = <<>> /\ cut = FALSE
    /\ scope = [roots |-> {}, scoped |-> FALSE, window |-> Nil]
    /\ container = NoContainer /\ shell = TRUE /\ verdict = "none_yet"
    /\ edits = 0 /\ edited = {} /\ moved = FALSE /\ faults = 0 /\ failed = {}

TreeInit ==
    /\ kids \in Shapes
    /\ focused \in {{c, e} \ {Nil} : c \in Containers \cup {Nil},
                                        e \in (Elements \ Chrome) \cup {Nil}}
    /\ job \in Jobs
    /\ TreeBegins

(***************************************************************************)
(* BoundedTraversal                                                        *)
(***************************************************************************)
Capacity(n, q) == LET used == n + Len(q) IN IF used < job.nodes THEN job.nodes - used ELSE 0

\* enqueue: what does not fit is dropped, and that is remembered.
Enqueue(items, n, q) ==
    LET room == Least(Capacity(n, q), Len(items)) IN
    /\ queue' = q \o SubSeq(items, 1, room)
    /\ dropped' = (dropped \/ room < Len(items))

\* An element that is no longer in the tree does not answer; another may fail to.
InTree(e) == \E p \in Elements \cup {Registry} : \E i \in DOMAIN kids[p] : kids[p][i] = e
Fault(e) == /\ failed' = failed \cup {e}
            /\ IF InTree(e) THEN faults < MaxFaults /\ faults' = faults + 1 ELSE UNCHANGED faults
Answers(e) == InTree(e) /\ UNCHANGED faultVars

(***************************************************************************)
(* Where to begin: select_roots                                            *)
(***************************************************************************)

\* The members of s at the places S, in their order.
InOrder(s, S) ==
    {[i \in DOMAIN f |-> s[f[i]]] :
        f \in {g \in [1..Cardinality(S) -> S] : /\ S = {g[i] : i \in DOMAIN g}
                                              /\ \A i, j \in DOMAIN g : i < j => g[i] < g[j]}}

\* By process and name, by process, by name, or everything there is.
SelectRoots(roots) ==
    LET ofPid == {i \in DOMAIN roots : Owner[roots[i]] = job.pid}
        fits == {i \in DOMAIN roots : roots[i] \in Named} IN
    IF job.pid # Nil /\ ofPid # {}
    THEN [places |-> IF job.named /\ ofPid \cap fits # {} THEN ofPid \cap fits ELSE ofPid,
          scoped |-> TRUE]
    ELSE IF job.named
    THEN [places |-> IF job.pid # Nil THEN fits \ ofPid ELSE fits, scoped |-> TRUE]
    ELSE [places |-> IF job.pid # Nil THEN DOMAIN roots \ ofPid ELSE DOMAIN roots,
          scoped |-> FALSE]

BeginReading ==
    /\ at = "begin"
    /\ LET s == SelectRoots(kids[Registry]) IN
       \E list \in InOrder(kids[Registry], s.places) :
       /\ scope' = [roots |-> SetOf(list), scoped |-> s.scoped, window |-> Nil]
       /\ IF ~Snapshotting /\ Scoped /\ ~s.scoped
          THEN /\ at' = "done" /\ verdict' = "no_app"
               /\ UNCHANGED <<queue, dropped>>
          ELSE /\ at' = "loop" /\ UNCHANGED verdict
               /\ Enqueue([i \in DOMAIN list |-> [el |-> list[i], depth |-> 0, parent |-> 0]],
                          0, <<>>)
    /\ UNCHANGED <<worldVars, job, attempted, reads, cur, nodes, cut, container, shell, faultVars>>

\* The registry cannot be read, or not before the deadline.
BeginFails ==
    /\ at = "begin" /\ faults < MaxFaults
    /\ at' = "done" /\ verdict' = "failed" /\ faults' = faults + 1
    /\ UNCHANGED <<worldVars, job, walkVars, cur, nodes, cut, scope, container, shell, failed>>

(***************************************************************************)
(* One node                                                                *)
(***************************************************************************)

\* Mutant: the search ends at a container that has the focus.
NarrowDone(item) ==
    /\ at' = "done" /\ verdict' = "found" /\ container' = [el |-> item.el, depth |-> item.depth]
    /\ UNCHANGED <<queue, dropped, reads, cut>>

\* A focused container: in one application only what is in it is searched from here on.
Narrow(item) ==
    /\ container' = [el |-> item.el, depth |-> IF Scoped THEN item.depth ELSE container.depth]
    /\ at' = "kids" /\ UNCHANGED verdict
    /\ IF Scoped THEN /\ queue' = <<>> /\ dropped' = FALSE /\ cut' = FALSE
                      /\ reads' = Capacity(attempted + 1, <<>>)
       ELSE queue' = Tail(queue) /\ UNCHANGED <<dropped, reads, cut>>

\* pop, and the node's own fields; for the search, whether it has the focus.  A field
\* that cannot be read is left out of a snapshot's node: it then has no children.
ReadNode ==
    /\ at = "loop" /\ queue # <<>> /\ attempted < job.nodes
    /\ attempted' = attempted + 1
    /\ LET item == Head(queue)
           e == item.el IN
       \/ /\ Fault(e)
          /\ queue' = Tail(queue) /\ cut' = (cut \/ ~Snapshotting)
          /\ \/ UNCHANGED <<at, cur>>
             \/ /\ Snapshotting /\ at' = "kids"
                /\ cur' = [NoCur EXCEPT !.el = e, !.depth = item.depth, !.parent = item.parent]
          /\ UNCHANGED <<dropped, reads, probeVars>>
       \/ /\ Answers(e)
          /\ cur' = [NoCur EXCEPT !.el = e, !.depth = item.depth, !.parent = item.parent,
                                  !.count = Len(kids[e])]
          /\ shell' = (shell /\ e \in Chrome)
          /\ IF Snapshotting \/ e \notin focused
             THEN /\ at' = "kids" /\ queue' = Tail(queue)
                  /\ UNCHANGED <<dropped, reads, cut, container, verdict>>
             ELSE IF e \in Containers THEN Narrow(item)
             ELSE /\ at' = "done" /\ verdict' = "found" /\ queue' = Tail(queue)
                  /\ container' = [el |-> e, depth |-> item.depth]
                  /\ UNCHANGED <<dropped, reads, cut>>
    /\ UNCHANGED <<worldVars, job, nodes, scope>>

MayDescend == cur.depth - container.depth < job.depth /\ Capacity(attempted, queue) > 0

\* The node has children, by the count a snapshot read with it, or that a search reads now.
SeesUnread == IF Snapshotting THEN cur.count > 0 ELSE kids[cur.el] # <<>>

\* Mutant: with nothing asked for nothing was left out.
LeavesUnreadSilently == UNCHANGED <<cut, faultVars>>

\* Nothing is asked of the node: any child it has goes unread.
LeavesUnread ==
    \/ cut' = (cut \/ SeesUnread) /\ (Snapshotting \/ cut \/ InTree(cur.el)) /\ UNCHANGED faultVars
    \/ ~Snapshotting /\ ~cut /\ Fault(cur.el) /\ cut' = TRUE

\* children_up_to: the count, and how many of the children are asked for.
CountKids ==
    /\ at = "kids" /\ MayDescend /\ reads > 0
    /\ \/ /\ Fault(cur.el)
          /\ at' = "push" /\ cut' = (cut \/ ~Snapshotting)
          /\ UNCHANGED <<cur, reads>>
       \/ /\ Answers(cur.el)
          /\ LET count == Len(kids[cur.el])
                 tries == Least(count, Least(reads, Capacity(attempted, queue))) IN
             /\ reads' = reads - tries
             /\ cut' = (cut \/ tries < count \/ (Snapshotting /\ tries = 0 /\ cur.count > 0))
             /\ cur' = [cur EXCEPT !.got = [i \in 1..tries |-> Nil], !.left = 1..tries]
             /\ at' = IF tries = 0 THEN "push" ELSE "reading"
    /\ UNCHANGED <<worldVars, job, queue, attempted, dropped, nodes, scope, probeVars>>

\* The depth limit, no room for another node, or no child read left.
StayAbove ==
    /\ at = "kids" /\ (~MayDescend \/ reads = 0)
    /\ at' = "push" /\ LeavesUnread
    /\ UNCHANGED <<worldVars, job, walkVars, cur, nodes, scope, probeVars>>

\* GetChildAtIndex, in any order; a read that fails is passed over.
ReadKid(i) ==
    /\ at = "reading" /\ i \in cur.left
    /\ \/ /\ i \in DOMAIN kids[cur.el]
          /\ cur' = [cur EXCEPT !.got[i] = kids[cur.el][i], !.left = @ \ {i}]
          /\ UNCHANGED faultVars
       \/ /\ cur' = [cur EXCEPT !.left = @ \ {i}]
          /\ IF i \in DOMAIN kids[cur.el] THEN Fault(kids[cur.el][i]) ELSE UNCHANGED faultVars
    /\ at' = IF cur.left = {i} THEN "push" ELSE at
    /\ UNCHANGED <<worldVars, job, walkVars, nodes, cut, scope, probeVars>>

(***************************************************************************)
(* The window among those of an application                                *)
(***************************************************************************)

\* matching_window: the one window that the first rule to fit any finds.
ChosenWindow(list) ==
    LET fits == [i \in DOMAIN Rules[job.title] |-> Rules[job.title][i] \cap SetOf(list)]
        first == {i \in DOMAIN fits : fits[i] # {} /\ \A k \in 1..i - 1 : fits[k] = {}}
        only == {e \in SetOf(list) : \E i \in first : fits[i] = {e}} IN
    IF Cardinality(SetOf(list) \cap AllWindows) > 1 /\ only # {}
    THEN CHOOSE e \in only : TRUE ELSE Nil

\* Mutant: nothing but the window is kept.
KeptBesideAlone(e, chosen) == e = chosen

\* kept_beside_window: not another named frame.
KeptBeside(e, chosen) == e = chosen \/ e \notin Frames

Push ==
    /\ at = "push"
    /\ \E list \in InOrder(cur.got, {i \in DOMAIN cur.got : cur.got[i] # Nil}) :
       LET chosen == IF Snapshotting /\ cur.depth = 0 /\ job.title # Nil THEN ChosenWindow(list) ELSE Nil
           keep == {i \in DOMAIN list : chosen = Nil \/ KeptBeside(list[i], chosen)} IN
       \E kept \in InOrder(list, keep) :
       /\ Enqueue([i \in DOMAIN kept |->
                      [el |-> kept[i], depth |-> cur.depth + 1, parent |-> Len(nodes) + 1]],
                  attempted, queue)
       /\ scope' = IF chosen = Nil THEN scope ELSE [scope EXCEPT !.window = chosen]
    /\ nodes' = IF Snapshotting THEN Append(nodes, [el |-> cur.el, parent |-> cur.parent]) ELSE nodes
    /\ at' = "loop" /\ cur' = NoCur
    /\ UNCHANGED <<worldVars, job, attempted, reads, cut, probeVars, faultVars>>

(***************************************************************************)
(* The end                                                                 *)
(***************************************************************************)

\* SNAPSHOT_TIMEOUT before a node, or its grace within one: the node is dropped.
StopReading ==
    /\ Snapshotting /\ at \in {"loop", "kids", "reading", "push"}
    /\ at = "loop" => queue # <<>>
    /\ at' = "done" /\ cut' = TRUE
    /\ UNCHANGED <<worldVars, job, walkVars, cur, nodes, scope, probeVars, faultVars>>

\* finish_focus_probe, or the snapshot.
EndReading ==
    /\ at = "loop" /\ (queue = <<>> \/ attempted >= job.nodes)
    /\ at' = "done" /\ cut' = (cut \/ dropped)
    /\ verdict' = IF Snapshotting THEN verdict
                  ELSE IF cut' THEN "incomplete"
                  ELSE IF container.el # Nil THEN "found"
                  ELSE IF Scoped /\ shell /\ attempted > 0 THEN "shell" ELSE "none"
    /\ UNCHANGED <<worldVars, job, walkVars, cur, nodes, scope, container, shell, faultVars>>

ReaderStep ==
    \/ BeginReading \/ BeginFails \/ ReadNode \/ CountKids \/ StayAbove \/ Push \/ StopReading \/ EndReading
    \/ \E i \in cur.left : ReadKid(i)

(***************************************************************************)
(* The application                                                         *)
(***************************************************************************)
Edit == at \notin {"begin", "done"} /\ edits < MaxEdits /\ edits' = edits + 1
ReaderStays == UNCHANGED <<job, at, walkVars, cur, nodes, cut, scope, probeVars, faultVars>>

WithoutAt(s, i) == SubSeq(s, 1, i - 1) \o SubSeq(s, i + 1, Len(s))

\* A child goes, with what is below it.
Detaches(p, i) ==
    /\ Edit /\ i \in DOMAIN kids[p]
    /\ kids' = [kids EXCEPT ![p] = WithoutAt(@, i)]
    /\ edited' = edited \cup {p}
    /\ UNCHANGED <<focused, moved>> /\ ReaderStays

\* One is put before the others.
Attaches(p, e) ==
    /\ Edit /\ ~InTree(e) /\ e \notin {p, Registry} /\ kids[e] = <<>>
    /\ kids' = [kids EXCEPT ![p] = <<e>> \o @]
    /\ edited' = edited \cup {p}
    /\ UNCHANGED <<focused, moved>> /\ ReaderStays

FocusGoes(e) ==
    /\ Edit /\ focused # {e} /\ focused' = {e} /\ moved' = TRUE
    /\ UNCHANGED <<kids, edited>> /\ ReaderStays

AppStep ==
    \/ \E p \in Elements : (\E i \in 1..3 : Detaches(p, i)) \/ (\E e \in Elements : Attaches(p, e))
    \/ \E e \in Elements \ Chrome : FocusGoes(e)

TreeNext == ReaderStep \/ AppStep
TreeSpec == TreeInit /\ [][TreeNext]_treeVars
-----------------------------------------------------------------------------
\* What is below some elements, through elements that were neither changed nor failed.
SteadyKids(S, skipped) ==
    (UNION {SetOf(kids[p]) : p \in S \ (edited \cup failed)}) \ (skipped \cup failed)
Steady(S, skipped) ==
    LET reach[n \in 0..Cardinality(Elements)] ==
            IF n = 0 THEN S \ failed ELSE reach[n - 1] \cup SteadyKids(reach[n - 1], skipped)
    IN reach[Cardinality(Elements)]

OtherWindows == IF scope.window = Nil THEN {} ELSE Frames \ {scope.window}

\* A snapshot that is not marked truncated has every element of its application that was
\* there all the time, but the other named windows ("True when max_nodes, max_depth, the
\* child read budget, or the deadline stopped traversal with unread elements left. Failed
\* element reads do not count").
SnapshotIsWhole ==
    (at = "done" /\ Snapshotting /\ ~cut /\ verdict # "failed") =>
        Steady(scope.roots, OtherWindows) \subseteq {nodes[i].el : i \in DOMAIN nodes}

\* A search says that nothing has the focus, or that a container has it, only if it has
\* seen all there is, or all that is in the container, unless the focus moved meanwhile
\* ("A focused container is not a definitive recipient if descendants were unread").
FocusIsFound ==
    (at = "done" /\ ~Snapshotting /\ ~moved) =>
        /\ verdict \in {"none", "shell"} => Steady(scope.roots, {}) \cap focused = {}
        /\ verdict = "found" /\ container.el \in Containers =>
              Steady(IF Scoped THEN {container.el} ELSE scope.roots, {}) \cap focused
                \subseteq Containers

\* A snapshot and a search of the focus do not call whole what they have not read.
TreesAreRead == SnapshotIsWhole /\ FocusIsFound
=============================================================================
