---------------------------- MODULE Trees_proof ----------------------------
(***************************************************************************)
(* What is read of an application and done to it by its accessibility      *)
(* tree, for any number of calls, windows, objects and trees.              *)
(*                                                                         *)
(* The cache.  The tree an action was checked against is the tree it       *)
(* resolves its element in, because the action holds the input lock from   *)
(* its first check (CallInv) and a tree is only cached by who takes that   *)
(* lock.  What a check concludes from the cached tree's pid and window is  *)
(* true of its nodes because every tree fits what it says of itself (Fits).*)
(*                                                                         *)
(* The walk.  While nothing was cut or dropped, what was read so far       *)
(* covers the tree (Covers): below it is what was read too, what waits to  *)
(* be read, what failed, and what belongs to another window.               *)
(*                                                                         *)
(* The result.  A tree that was cut down is the tree that was read with    *)
(* some of its objects, each below the nearest of those above it (Listed), *)
(* and cutting it down again keeps it so (CollapseListed).                 *)
(*                                                                         *)
(* The writes.  While a field does not change, what was read of it is the  *)
(* text, and the offsets of who reads and who answers are at the same unit *)
(* (ReadAlike), however each of them counts.                               *)
(***************************************************************************)
EXTENDS SnapshotCache, TreeReading, TreeResult, ElementWrites, SequenceTheorems,
        FiniteSetTheorems, FunctionTheorems, WellFoundedInduction, TLAPS

(*************************** The cache ***************************************)

\* From the target check to the last invocation.
Acting == {"checking", "lookup", "resolved", "recovering", "retrying"}

\* A tree's objects are of the process and the window it is recorded for, and a scope to
\* recover in names the process that was found.
Fits(s) ==
    /\ \A i \in Indices :
          s.nodes[i] # None =>
              /\ s.pid # None => OwnerOf(s.nodes[i]) = s.pid
              /\ s.narrowed # None /\ OwnerOf(s.nodes[i]) = PidOf[s.narrowed] =>
                     WindowOf[s.nodes[i]] = s.narrowed
    /\ s.narrowed # None => s.window \in {None, s.narrowed}
    /\ s.scope # None /\ s.pid # None => s.scope.pid = s.pid

\* The target of an action: a window it names has a pid only as the backend reports it.
GoalKnown(c) ==
    goal[c].named => /\ goal[c].window \in Windows
                     /\ goal[c].pid = ReportedPid(goal[c].window)

\* What the target check has shown of object o.
InTarget(c, o) ==
    /\ goal[c].pid # None => OwnerOf(o) = goal[c].pid
    /\ goal[c].named /\ goal[c].pid # None /\ by[c] \notin Objects /\ snapshot.narrowed # None
          => WindowOf[o] = goal[c].window

\* A tree a recovery may start from: its scope pins a process, or the window observed.
Pinned(s) ==
    /\ s.scope # None
    /\ \/ s.scope.pid # None
       \/ s.scope.byWindow /\ s.window # None

\* The dead object a recovery started from is the one its selector found in that tree.
Recoverable(s, b, o) ==
    Pinned(s) /\ b \in Names /\ o # None /\ o = Resolve(s.nodes, b)

\* What a call knows at each of its stages.
CallInv(c) ==
    /\ Fits(read[c])
    /\ pc[c] \in Acting => lock = c /\ GoalKnown(c)
    /\ pc[c] = "lookup" => node[c] # None /\ node[c] = NodeOf(c) /\ goal[c].pid # None
    /\ pc[c] = "resolved" =>
          /\ object[c] # None /\ object[c] = NodeOf(c)
          /\ node[c] # None => node[c] = object[c] /\ InTarget(c, object[c])
    /\ pc[c] = "recovering" => Recoverable(read[c], by[c], object[c])
    /\ pc[c] = "retrying" =>
          /\ object[c] # node[c]
          /\ read[c].pid # None => OwnerOf(object[c]) = OwnerOf(node[c])
          /\ OwnerOf(object[c]) =
                IF read[c].scope.pid # None THEN read[c].scope.pid
                ELSE PidOf[read[c].window]

IInv == TypeOK /\ CacheIsShown /\ Fits(snapshot) /\ \A c \in Callers : CallInv(c)

(* Nothing is cached and nobody acts. *)
LEMMA EmptyFits == Fits(Empty) /\ Empty \in Snapshots
  <1>1. NoNodes \in Trees
    BY SnapshotAssumption DEF NoNodes, Trees
  <1>2. Empty \in Snapshots
    BY <1>1 DEF Empty, Snapshots
  <1>3. Fits(Empty)
    BY DEF Fits, Empty, NoNodes
  <1> QED
    BY <1>2, <1>3

LEMMA InitIInv == Init => IInv
  <1> SUFFICES ASSUME Init PROVE IInv
    OBVIOUS
  <1>1. TypeOK
    <2>1. NoNodes \in Trees /\ NoGoal \in Goals
      BY SnapshotAssumption DEF NoNodes, Trees, NoGoal, Goals
    <2> QED
      BY <2>1, EmptyFits DEF Init, TypeOK
  <1>2. CacheIsShown
    BY DEF Init, CacheIsShown, Empty
  <1>3. Fits(snapshot) /\ \A c \in Callers : CallInv(c)
    BY EmptyFits DEF Init, CallInv, Acting
  <1> QED
    BY <1>1, <1>2, <1>3 DEF IInv

(* What a call that does not move knows stays true, unless it holds the lock and the
   cached tree changes. *)
LEMMA OthersKeep ==
    ASSUME NEW x \in Callers, CallInv(x),
           /\ pc'[x] = pc[x] /\ goal'[x] = goal[x] /\ by'[x] = by[x]
           /\ node'[x] = node[x] /\ object'[x] = object[x] /\ read'[x] = read[x],
           pc[x] \in Acting => lock' = lock /\ snapshot' = snapshot
    PROVE  CallInv(x)'
  <1>1. CASE pc[x] \in Acting
    BY <1>1 DEF CallInv, GoalKnown, InTarget, NodeOf, Recoverable, Resolve
  <1>2. CASE pc[x] \notin Acting
    BY <1>2 DEF CallInv, Acting
  <1> QED
    BY <1>1, <1>2

(* A call that ends knows nothing any more, and takes the lock from nobody else. *)
LEMMA DoneKeeps ==
    ASSUME IInv, NEW c \in Callers, Done(c),
           snapshot' = snapshot \/ lock = None \/ lock = c
    PROVE  \A x \in Callers : CallInv(x)'
  <1> SUFFICES ASSUME NEW x \in Callers PROVE CallInv(x)'
    OBVIOUS
  <1> USE DEF IInv
  <1>1. CASE x = c
    <2>1. pc'[c] = "idle" /\ read'[c] = Empty
      BY DEF Done, TypeOK
    <2> QED
      BY <1>1, <2>1, EmptyFits DEF CallInv, Acting
  <1>2. CASE x # c
    <2>1. /\ pc'[x] = pc[x] /\ goal'[x] = goal[x] /\ by'[x] = by[x]
          /\ node'[x] = node[x] /\ object'[x] = object[x] /\ read'[x] = read[x]
      BY <1>2 DEF Done, TypeOK
    <2>2. pc[x] \in Acting => lock' = lock /\ snapshot' = snapshot
      BY <1>2, SnapshotAssumption DEF CallInv, Done
    <2> QED
      BY <2>1, <2>2, OthersKeep
  <1> QED
    BY <1>1, <1>2

LEMMA DoneTyped ==
    ASSUME TypeOK, NEW c \in Callers, Done(c)
    PROVE  /\ pc' \in [Callers -> {"idle", "reading", "tree", "failed", "targeting",
                                   "checking", "lookup", "resolved", "recovering",
                                   "retrying"}]
           /\ goal' \in [Callers -> Goals]
           /\ by' \in [Callers -> Indices \cup Names \cup Objects \cup {None}]
           /\ node' \in [Callers -> Objects \cup {None}]
           /\ object' \in [Callers -> Objects \cup {None}]
           /\ read' \in [Callers -> Snapshots]
           /\ lock' \in Callers \cup {None}
  <1>1. NoGoal \in Goals
    BY DEF NoGoal, Goals
  <1> QED
    BY <1>1, EmptyFits DEF TypeOK, Done

(* A resolved element is a node of the tree. *)
LEMMA ResolvedNode ==
    ASSUME NEW f \in Trees, NEW b, Resolve(f, b) # None
    PROVE  \E i \in Indices : f[i] = Resolve(f, b)
  <1>1. CASE b \in Indices
    BY <1>1 DEF Resolve
  <1>2. CASE b \notin Indices
    <2> DEFINE found == {o \in Objects : NameOf[o] = b /\ \E i \in Indices : f[i] = o}
               best == Prefer(Prefer(found, Useful), Showing)
    <2>1. best \subseteq found
      BY DEF Prefer
    <2>2. Resolve(f, b) = IF \E o \in best : best = {o} THEN CHOOSE o \in best : TRUE ELSE None
      BY <1>2 DEF Resolve, SelectorMatch
    <2> HIDE DEF best
    <2>3. \E o \in best : best = {o}
      BY <2>2
    <2>4. (CHOOSE o \in best : TRUE) \in best
      BY <2>3
    <2>5. Resolve(f, b) \in found
      BY <2>1, <2>2, <2>3, <2>4
    <2> QED
      BY <2>5
  <1> QED
    BY <1>1, <1>2

(* A call that moves and leaves the lock and the cache alone: what it has to show. *)
LEMMA OneMoves ==
    ASSUME IInv, NEW c \in Callers,
           lock' = lock, snapshot' = snapshot, spilled' = spilled, shown' = shown,
           TypeOK', CallInv(c)',
           \A x \in Callers \ {c} :
              /\ pc'[x] = pc[x] /\ goal'[x] = goal[x] /\ by'[x] = by[x]
              /\ node'[x] = node[x] /\ object'[x] = object[x] /\ read'[x] = read[x]
    PROVE  IInv'
  <1> USE DEF IInv
  <1>1. ASSUME NEW x \in Callers, x # c PROVE CallInv(x)'
    BY <1>1, OthersKeep
  <1>2. CacheIsShown'
    BY DEF CacheIsShown
  <1>3. Fits(snapshot)'
    BY DEF Fits
  <1> QED
    BY <1>1, <1>2, <1>3

(* A tree that was read is of its process and its window. *)
LEMMA ReadFits ==
    ASSUME NEW f \in Trees, NEW p \in Pids \cup {None}, NEW w \in Windows \cup {None},
           NEW pid, NEW title, TreeRead(f, p, w, pid, title)
    PROVE  \A i \in Indices :
              f[i] # None => /\ p # None => OwnerOf(f[i]) = p
                             /\ w # None /\ OwnerOf(f[i]) = PidOf[w] => WindowOf[f[i]] = w
  BY DEF TreeRead, AppsFor, InScope

LEMMA NoWindowReported == ReportedPid(None) = None
  BY SnapshotAssumption DEF ReportedPid

(* A window a call names has a pid only as the backend reports it. *)
LEMMA TargetTyped ==
    ASSUME NEW t \in Targets
    PROVE  /\ t \in Goals
           /\ t.named => t.window \in Windows /\ t.pid = ReportedPid(t.window)
  <1>1. \A v \in Windows : ReportedPid(v) \in Pids \cup {None}
    BY SnapshotAssumption DEF ReportedPid
  <1>2. CASE t = NoGoal
    BY <1>2 DEF NoGoal, Goals
  <1>3. CASE t \in [pid : Pids, window : {None}, named : {FALSE}]
    BY <1>3 DEF Goals
  <1>4. CASE \E v \in Windows : t = [pid |-> ReportedPid(v), window |-> v, named |-> TRUE]
    BY <1>1, <1>4 DEF Goals
  <1> QED
    BY <1>2, <1>3, <1>4 DEF Targets

LEMMA ReadAppStateKeeps ==
    ASSUME IInv, NEW c \in Callers, ReadAppState(c)
    PROVE  IInv'
  <1> USE DEF IInv
  <1>a. PICK t \in Targets : \E window \in WindowsFor(t) :
           \E f \in Trees, p \in Pids \cup {None}, w \in Windows \cup {None} :
              /\ TreeRead(f, p, w, ReportedPid(window), IF t.named THEN window ELSE None)
              /\ \E wanted \in {[pid |-> IF t.named THEN p ELSE t.pid, byWindow |-> t.named]}
                                 \cup (IF p = None THEN {None} ELSE {}) :
                    read' = [read EXCEPT ![c] =
                        [nodes |-> f, pid |-> p, window |-> window, narrowed |-> w,
                         scope |-> wanted]]
    BY DEF ReadAppState
  <1>b. PICK window \in WindowsFor(t), f \in Trees, p \in Pids \cup {None},
             w \in Windows \cup {None} :
          /\ TreeRead(f, p, w, ReportedPid(window), IF t.named THEN window ELSE None)
          /\ \E wanted \in {[pid |-> IF t.named THEN p ELSE t.pid, byWindow |-> t.named]}
                             \cup (IF p = None THEN {None} ELSE {}) :
                read' = [read EXCEPT ![c] =
                    [nodes |-> f, pid |-> p, window |-> window, narrowed |-> w,
                     scope |-> wanted]]
    BY <1>a
  <1>c. TreeRead(f, p, w, ReportedPid(window), IF t.named THEN window ELSE None)
    BY <1>b
  <1>1. PICK wanted \in {[pid |-> IF t.named THEN p ELSE t.pid, byWindow |-> t.named]}
                          \cup (IF p = None THEN {None} ELSE {}) :
          read' = [read EXCEPT ![c] =
              [nodes |-> f, pid |-> p, window |-> window, narrowed |-> w,
               scope |-> wanted]]
    BY <1>b
  <1> DEFINE s == [nodes |-> f, pid |-> p, window |-> window, narrowed |-> w,
                   scope |-> wanted]
  <1>2. t \in Goals
    BY TargetTyped
  <1>3. window \in Windows \cup {None}
    BY <1>2 DEF WindowsFor, Goals
  <1>4. wanted \in Scopes \cup {None}
    BY <1>2 DEF Scopes, Goals
  <1>5. s \in Snapshots
    BY <1>3, <1>4 DEF Snapshots
  <1>6. Fits(s)
    <2>1. \A i \in Indices :
             f[i] # None => /\ p # None => OwnerOf(f[i]) = p
                            /\ w # None /\ OwnerOf(f[i]) = PidOf[w] => WindowOf[f[i]] = w
      <3>1. PICK reported, title : TreeRead(f, p, w, reported, title)
        BY <1>c, Zenon
      <3> QED BY <3>1, ReadFits, SMT
    <2>2. w # None => window = w
      BY <1>c DEF TreeRead, AppsFor
    <2>3. wanted # None /\ p # None => wanted.pid = p
      <3>1. p # None => p = ReportedPid(window)
        BY <1>c DEF TreeRead, AppsFor
      <3>2. p # None /\ ~t.named => t.pid = p
        BY <3>1, NoWindowReported DEF WindowsFor
      <3> QED
        BY <3>2
    <2> QED
      BY <2>1, <2>2, <2>3 DEF Fits
  <1>7. read' = [read EXCEPT ![c] = s] /\ pc' = [pc EXCEPT ![c] = "tree"]
        /\ UNCHANGED <<alive, snapshot, spilled, shown, lock, goal, by, node, object>>
    BY <1>1 DEF ReadAppState
  <1> HIDE DEF s
  <1>8. TypeOK'
    BY <1>5, <1>7 DEF TypeOK
  <1>9. pc'[c] = "tree" /\ read'[c] = s
    BY <1>7 DEF TypeOK
  <1>10. CallInv(c)'
    BY <1>9, <1>6 DEF CallInv, Acting
  <1> QED
    BY <1>7, <1>8, <1>10, OneMoves DEF TypeOK

LEMMA AimObservationKeeps ==
    ASSUME IInv, NEW c \in Callers, AimObservation(c)
    PROVE  IInv'
  <1> USE DEF IInv
  <1>1. PICK g : goal' = [goal EXCEPT ![c] = g] /\ g \in Goals
    <2>1. PICK t \in Targets :
             \E window \in PostActionWindows(t) :
             \E targeted \in IF window = None THEN {FALSE}
                             ELSE IF t = NoGoal THEN BOOLEAN ELSE {TRUE} :
                LET pid == IF ReportedPid(window) # None THEN ReportedPid(window)
                           ELSE IF ~t.named /\ t.pid # None THEN t.pid
                           ELSE IF targeted THEN None ELSE snapshot.pid
                IN goal' = [goal EXCEPT ![c] =
                              [pid |-> pid, window |-> IF targeted THEN window ELSE None,
                               named |-> t.named]]
      BY DEF AimObservation
    <2>2. PICK window \in PostActionWindows(t) :
             \E targeted \in IF window = None THEN {FALSE}
                             ELSE IF t = NoGoal THEN BOOLEAN ELSE {TRUE} :
                LET pid == IF ReportedPid(window) # None THEN ReportedPid(window)
                           ELSE IF ~t.named /\ t.pid # None THEN t.pid
                           ELSE IF targeted THEN None ELSE snapshot.pid
                IN goal' = [goal EXCEPT ![c] =
                              [pid |-> pid, window |-> IF targeted THEN window ELSE None,
                               named |-> t.named]]
      BY <2>1
    <2>3. PICK targeted \in IF window = None THEN {FALSE}
                            ELSE IF t = NoGoal THEN BOOLEAN ELSE {TRUE} :
                LET pid == IF ReportedPid(window) # None THEN ReportedPid(window)
                           ELSE IF ~t.named /\ t.pid # None THEN t.pid
                           ELSE IF targeted THEN None ELSE snapshot.pid
                IN goal' = [goal EXCEPT ![c] =
                              [pid |-> pid, window |-> IF targeted THEN window ELSE None,
                               named |-> t.named]]
      BY <2>2
    <2>4. t \in Goals
      BY TargetTyped
    <2>5. window \in Windows \cup {None}
      BY <2>4 DEF PostActionWindows, WindowsFor, Goals
    <2>6. ReportedPid(window) \in Pids \cup {None}
      BY <2>5, NoWindowReported, SnapshotAssumption DEF ReportedPid
    <2>7. snapshot.pid \in Pids \cup {None}
      BY DEF TypeOK, Snapshots
    <2> DEFINE pid == IF ReportedPid(window) # None THEN ReportedPid(window)
                      ELSE IF ~t.named /\ t.pid # None THEN t.pid
                      ELSE IF targeted THEN None ELSE snapshot.pid
               g == [pid |-> pid, window |-> IF targeted THEN window ELSE None,
                     named |-> t.named]
    <2>8. g \in Goals
      BY <2>4, <2>5, <2>6, <2>7 DEF Goals
    <2> QED
      BY <2>3, <2>8
  <1>2. TypeOK'
    BY <1>1 DEF TypeOK, AimObservation
  <1>3. pc'[c] = "reading" /\ read'[c] = read[c]
    BY DEF AimObservation, TypeOK
  <1>4. CallInv(c)'
    BY <1>3 DEF CallInv, Acting, Fits
  <1> QED
    BY <1>1, <1>2, <1>4, OneMoves DEF TypeOK, AimObservation

(* A window shown to hold a tree narrowed to a window is that window. *)
LEMMA TreeWindowFits ==
    ASSUME IInv, NEW c \in Callers, NEW p \in Pids \cup {None}, NEW w \in Windows,
           w = IF goal[c].named THEN goal[c].window ELSE CachedTitle(c)
    PROVE  TreeWindow(c, p, w) \in {None, w}
  <1>1. w # None
    BY SnapshotAssumption
  <1>2. CASE CachedTitle(c) # None
    BY <1>1, <1>2 DEF TreeWindow, IInv, Fits
  <1>3. CASE CachedTitle(c) = None
    BY <1>1, <1>3 DEF TreeWindow
  <1> QED
    BY <1>2, <1>3

LEMMA ReadObservationKeeps ==
    ASSUME IInv, NEW c \in Callers, ReadObservation(c)
    PROVE  IInv'
  <1> USE DEF IInv
  <1>1. PICK f \in Trees, p \in Pids \cup {None}, w \in Windows \cup {None} :
          /\ TreeRead(f, p, w, goal[c].pid,
                      IF goal[c].named THEN goal[c].window ELSE CachedTitle(c))
          /\ read' = [read EXCEPT ![c] =
                [nodes |-> f, pid |-> p, window |-> TreeWindow(c, p, w), narrowed |-> w,
                 scope |-> None]]
    BY DEF ReadObservation
  <1> DEFINE s == [nodes |-> f, pid |-> p, window |-> TreeWindow(c, p, w), narrowed |-> w,
                   scope |-> None]
  <1>2. TreeWindow(c, p, w) \in Windows \cup {None}
    BY DEF TreeWindow, TypeOK, Snapshots, Goals
  <1>3. s \in Snapshots
    BY <1>2 DEF Snapshots
  <1>4. Fits(s)
    <2>1. \A i \in Indices :
             f[i] # None => /\ p # None => OwnerOf(f[i]) = p
                            /\ w # None /\ OwnerOf(f[i]) = PidOf[w] => WindowOf[f[i]] = w
      BY <1>1, ReadFits
    <2>2. w # None => TreeWindow(c, p, w) \in {None, w}
      BY <1>1, TreeWindowFits DEF TreeRead, AppsFor
    <2> QED
      BY <2>1, <2>2 DEF Fits
  <1>5. read' = [read EXCEPT ![c] = s]
    BY <1>1
  <1> HIDE DEF s
  <1>6. TypeOK'
    <2>1. NoGoal \in Goals
      BY DEF NoGoal, Goals
    <2> QED
      BY <1>3, <1>5, <2>1 DEF TypeOK, ReadObservation
  <1>7. pc'[c] = "tree" /\ read'[c] = s
    BY <1>5 DEF TypeOK, ReadObservation
  <1>8. CallInv(c)'
    BY <1>7, <1>4 DEF CallInv, Acting
  <1> QED
    BY <1>5, <1>6, <1>8, OneMoves DEF TypeOK, ReadObservation

LEMMA ReadFailsKeeps ==
    ASSUME IInv, NEW c \in Callers, ReadFails(c)
    PROVE  IInv'
  <1> USE DEF IInv
  <1>1. NoGoal \in Goals
    BY DEF NoGoal, Goals
  <1>2. TypeOK'
    BY <1>1 DEF TypeOK, ReadFails
  <1>3. CallInv(c)'
    BY DEF TypeOK, ReadFails, CallInv, Acting, Fits
  <1> QED
    BY <1>2, <1>3, OneMoves DEF TypeOK, ReadFails

(* A tree is cached with the lock free: nobody is acting on the one it replaces. *)
LEMMA CommitKeeps ==
    ASSUME IInv, NEW c \in Callers, Commit(c)
    PROVE  IInv'
  <1> USE DEF IInv
  <1>1. read[c] \in Snapshots /\ read[c].nodes \in Trees /\ Fits(read[c])
    BY DEF TypeOK, Snapshots, CallInv
  <1>2. Done(c) /\ snapshot' = read[c] /\ shown' = read[c].nodes /\ alive' = alive
        /\ spilled' \in {None, read[c].nodes} /\ lock = None
    BY DEF Commit, SpillAfter
  <1>3. TypeOK'
    BY <1>1, <1>2, DoneTyped DEF TypeOK
  <1>4. CacheIsShown'
    BY <1>2 DEF CacheIsShown
  <1>5. Fits(snapshot)'
    BY <1>1, <1>2 DEF Fits
  <1>6. \A x \in Callers : CallInv(x)'
    BY <1>2, DoneKeeps
  <1> QED
    BY <1>3, <1>4, <1>5, <1>6

(* Forgetting the tree, by a call that ends with the lock in its hands or free. *)
LEMMA ForgetKeeps ==
    ASSUME IInv, NEW c \in Callers, Done(c), snapshot' = Empty, spilled' = None,
           shown' \in {shown, NoNodes}, alive' = alive, lock \in {None, c}
    PROVE  IInv'
  <1> USE DEF IInv
  <1>1. NoNodes \in Trees
    BY EmptyFits DEF Empty, Snapshots
  <1>2. TypeOK'
    BY <1>1, DoneTyped, EmptyFits DEF TypeOK
  <1>3. CacheIsShown'
    BY DEF CacheIsShown, Empty
  <1>4. Fits(snapshot)'
    BY EmptyFits DEF Fits
  <1>5. \A x \in Callers : CallInv(x)'
    BY DoneKeeps
  <1> QED
    BY <1>2, <1>3, <1>4, <1>5

LEMMA CommitEmptyKeeps ==
    ASSUME IInv, NEW c \in Callers, CommitEmpty(c)
    PROVE  IInv'
  BY ForgetKeeps DEF CommitEmpty, SpillAfter

LEMMA RecoverNothingKeeps ==
    ASSUME IInv, NEW c \in Callers, RecoverNothing(c)
    PROVE  IInv'
  BY ForgetKeeps DEF RecoverNothing, SpillAfter, IInv, CallInv, Acting

LEMMA EndKeeps ==
    ASSUME IInv, NEW c \in Callers, End(c)
    PROVE  IInv'
  <1> USE DEF IInv
  <1>1. Done(c) /\ UNCHANGED <<alive, snapshot, spilled, shown>>
    BY DEF End
  <1>2. TypeOK'
    BY <1>1, DoneTyped DEF TypeOK
  <1>3. CacheIsShown' /\ Fits(snapshot)'
    BY <1>1 DEF CacheIsShown, Fits
  <1>4. \A x \in Callers : CallInv(x)'
    BY <1>1, DoneKeeps
  <1> QED
    BY <1>2, <1>3, <1>4

LEMMA VanishKeeps ==
    ASSUME IInv, NEW o \in Objects, Vanish(o)
    PROVE  IInv'
  <1> USE DEF IInv
  <1>1. UNCHANGED <<snapshot, spilled, shown, lock, callVars>>
    BY DEF Vanish
  <1>2. TypeOK'
    BY <1>1 DEF TypeOK, Vanish, callVars
  <1>3. CacheIsShown' /\ Fits(snapshot)'
    BY <1>1 DEF CacheIsShown, Fits
  <1>4. ASSUME NEW x \in Callers PROVE CallInv(x)'
    BY <1>1, OthersKeep DEF callVars
  <1> QED
    BY <1>2, <1>3, <1>4

LEMMA BeginKeeps ==
    ASSUME IInv, NEW c \in Callers, Begin(c)
    PROVE  IInv'
  <1> USE DEF IInv
  <1>1. PICK t \in Targets, b \in Indices \cup Names \cup Identifiers :
            goal' = [goal EXCEPT ![c] = t] /\ by' = [by EXCEPT ![c] = b]
    BY DEF Begin
  <1>2. t \in Goals /\ (t.named => t.window \in Windows /\ t.pid = ReportedPid(t.window))
    BY TargetTyped
  <1>3. /\ lock = None /\ lock' = c /\ pc' = [pc EXCEPT ![c] = "checking"]
        /\ UNCHANGED <<alive, snapshot, spilled, shown, node, object, read>>
    BY DEF Begin
  <1>4. TypeOK'
    BY <1>1, <1>2, <1>3, SnapshotAssumption DEF TypeOK
  <1>5. CacheIsShown' /\ Fits(snapshot)'
    BY <1>3 DEF CacheIsShown, Fits
  <1>6. ASSUME NEW x \in Callers PROVE CallInv(x)'
    <2>1. CASE x = c
      <3>1. pc'[c] = "checking" /\ read'[c] = read[c] /\ goal'[c] = t /\ lock' = c
        BY <1>1, <1>3 DEF TypeOK
      <3>2. Fits(read[c])
        BY DEF CallInv
      <3> QED
        BY <2>1, <3>1, <3>2, <1>2 DEF CallInv, GoalKnown, Fits, ReportedPid
    <2>2. CASE x # c
      <3>1. pc[x] \notin Acting
        BY <1>3, SnapshotAssumption DEF CallInv
      <3> QED
        BY <2>2, <3>1, <1>1, <1>3, OthersKeep DEF TypeOK
    <2> QED
      BY <2>1, <2>2
  <1> QED
    BY <1>4, <1>5, <1>6

(* The node an action is about, of the tree it is checked against. *)
LEMMA NodeTyped ==
    ASSUME IInv, NEW c \in Callers
    PROVE  /\ NodeOf(c) \in Objects \cup {None}
           /\ by[c] \notin Objects /\ NodeOf(c) # None =>
                 \E i \in Indices : NodeOf(c) = snapshot.nodes[i]
  <1> USE DEF IInv
  <1>1. snapshot.nodes \in Trees
    BY DEF TypeOK, Snapshots
  <1>2. by[c] \notin Objects /\ NodeOf(c) # None =>
           \E i \in Indices : NodeOf(c) = snapshot.nodes[i]
    BY <1>1, ResolvedNode DEF NodeOf
  <1>3. NodeOf(c) \in Objects \cup {None}
    BY <1>1, <1>2 DEF NodeOf, Trees
  <1> QED
    BY <1>2, <1>3

(* A tree narrowed to another window than the target's is refused, and in the target's
   process a tree narrowed to its window holds nothing of the others. *)
LEMMA AgreedWindow ==
    ASSUME IInv, NEW c \in Callers, GoalKnown(c), WindowAgrees(c), NodeOf(c) # None,
           goal[c].named, goal[c].pid # None, by[c] \notin Objects,
           snapshot.narrowed # None, OwnerOf(NodeOf(c)) = goal[c].pid
    PROVE  WindowOf[NodeOf(c)] = goal[c].window
  <1> USE DEF IInv
  <1>1. goal[c].window \in Windows /\ goal[c].pid = ReportedPid(goal[c].window)
    BY DEF GoalKnown
  <1>2. goal[c].window # None /\ goal[c].pid = PidOf[goal[c].window]
    BY <1>1, SnapshotAssumption DEF ReportedPid
  <1>3. snapshot.window = goal[c].window
    BY <1>2 DEF WindowAgrees
  <1>4. snapshot.narrowed = goal[c].window
    BY <1>2, <1>3 DEF Fits
  <1>5. PICK i \in Indices : NodeOf(c) = snapshot.nodes[i]
    BY NodeTyped
  <1> QED
    BY <1>2, <1>4, <1>5 DEF Fits

LEMMA CheckKeeps ==
    ASSUME IInv, NEW c \in Callers, Check(c)
    PROVE  IInv'
  <1> USE DEF IInv
  <1>1. /\ pc[c] = "checking" /\ ~NeedsLookup(c)
        /\ goal[c].pid \in {None, snapshot.pid} \/ by[c] \in Objects
        /\ node' = [node EXCEPT ![c] = NodeOf(c)]
        /\ WindowAgrees(c) /\ NodeOf(c) # None
        /\ object' = [object EXCEPT ![c] = NodeOf(c)]
        /\ pc' = [pc EXCEPT ![c] = "resolved"]
        /\ UNCHANGED <<alive, snapshot, spilled, shown, lock, goal, by, read>>
    BY DEF Check, Resolved
  <1>2. TypeOK'
    BY <1>1, NodeTyped DEF TypeOK
  <1>3. lock = c /\ GoalKnown(c) /\ Fits(read[c])
    BY <1>1 DEF CallInv, Acting
  <1>4. goal[c].pid # None => by[c] \notin Objects /\ OwnerOf(NodeOf(c)) = goal[c].pid
    <2> SUFFICES ASSUME goal[c].pid # None
                 PROVE  by[c] \notin Objects /\ OwnerOf(NodeOf(c)) = goal[c].pid
      OBVIOUS
    <2>1. by[c] \notin Objects /\ snapshot.pid = goal[c].pid
      BY <1>1 DEF NeedsLookup
    <2>2. PICK i \in Indices : NodeOf(c) = snapshot.nodes[i]
      BY <1>1, <2>1, NodeTyped
    <2> QED
      BY <1>1, <2>1, <2>2 DEF Fits
  <1>5. InTarget(c, NodeOf(c))
    BY <1>1, <1>3, <1>4, AgreedWindow DEF InTarget
  <1>6. pc'[c] = "resolved" /\ node'[c] = NodeOf(c) /\ object'[c] = NodeOf(c)
    BY <1>1 DEF TypeOK
  <1>7. NodeOf(c)' = NodeOf(c) /\ InTarget(c, NodeOf(c))' /\ GoalKnown(c)'
    BY <1>1, <1>3, <1>5 DEF NodeOf, InTarget, GoalKnown
  <1>8. CallInv(c)'
    BY <1>1, <1>3, <1>6, <1>7 DEF CallInv, Fits, InTarget
  <1> QED
    BY <1>1, <1>2, <1>8, OneMoves DEF TypeOK

LEMMA LookUpOwnerKeeps ==
    ASSUME IInv, NEW c \in Callers, LookUpOwner(c)
    PROVE  IInv'
  <1> USE DEF IInv
  <1>1. /\ pc[c] = "checking" /\ NeedsLookup(c) /\ NodeOf(c) # None
        /\ node' = [node EXCEPT ![c] = NodeOf(c)]
        /\ pc' = [pc EXCEPT ![c] = "lookup"]
        /\ UNCHANGED <<alive, snapshot, spilled, shown, lock, goal, by, object, read>>
    BY DEF LookUpOwner
  <1>2. TypeOK'
    BY <1>1, NodeTyped DEF TypeOK
  <1>3. lock = c /\ GoalKnown(c) /\ Fits(read[c])
    BY <1>1 DEF CallInv, Acting
  <1>4. pc'[c] = "lookup" /\ node'[c] = NodeOf(c) /\ NodeOf(c)' = NodeOf(c) /\ GoalKnown(c)'
    BY <1>1, <1>3 DEF TypeOK, NodeOf, GoalKnown
  <1>5. CallInv(c)'
    BY <1>1, <1>3, <1>4 DEF CallInv, Fits, NeedsLookup
  <1> QED
    BY <1>1, <1>2, <1>5, OneMoves DEF TypeOK

LEMMA OwnerKnownKeeps ==
    ASSUME IInv, NEW c \in Callers, OwnerKnown(c)
    PROVE  IInv'
  <1> USE DEF IInv
  <1>1. /\ pc[c] = "lookup"
        /\ \/ OwnerOf(node[c]) = goal[c].pid /\ node' = node
           \/ node' = [node EXCEPT ![c] = None]
        /\ WindowAgrees(c) /\ NodeOf(c) # None
        /\ object' = [object EXCEPT ![c] = NodeOf(c)]
        /\ pc' = [pc EXCEPT ![c] = "resolved"]
        /\ UNCHANGED <<alive, snapshot, spilled, shown, lock, goal, by, read>>
    BY DEF OwnerKnown, Resolved
  <1>2. TypeOK'
    BY <1>1, NodeTyped DEF TypeOK
  <1>3. /\ lock = c /\ GoalKnown(c) /\ Fits(read[c])
        /\ node[c] = NodeOf(c)
    BY <1>1 DEF CallInv, Acting
  <1>4. node'[c] # None => node'[c] = NodeOf(c) /\ OwnerOf(NodeOf(c)) = goal[c].pid
    BY <1>1, <1>3 DEF TypeOK
  <1>5. node'[c] # None => InTarget(c, NodeOf(c))
    BY <1>1, <1>3, <1>4, AgreedWindow DEF InTarget
  <1>6. pc'[c] = "resolved" /\ object'[c] = NodeOf(c) /\ NodeOf(c)' = NodeOf(c)
        /\ GoalKnown(c)'
    BY <1>1, <1>3 DEF TypeOK, NodeOf, GoalKnown
  <1>7. CallInv(c)'
    BY <1>1, <1>3, <1>4, <1>5, <1>6 DEF CallInv, Fits, InTarget
  <1> QED
    BY <1>1, <1>2, <1>7, OneMoves DEF TypeOK

LEMMA InvokeDeadKeeps ==
    ASSUME IInv, NEW c \in Callers, InvokeDead(c)
    PROVE  IInv'
  <1> USE DEF IInv
  <1>1. /\ pc[c] = "resolved" /\ by[c] \in Names
        /\ read' = [read EXCEPT ![c] = snapshot]
        /\ pc' = [pc EXCEPT ![c] = "recovering"]
        /\ UNCHANGED <<alive, snapshot, spilled, shown, lock, goal, by, node, object>>
    BY DEF InvokeDead
  <1>2. TypeOK'
    BY <1>1 DEF TypeOK
  <1>3. lock = c /\ GoalKnown(c) /\ object[c] # None /\ object[c] = NodeOf(c)
    BY <1>1 DEF CallInv, Acting
  <1>4. NodeOf(c) = Resolve(snapshot.nodes, by[c])
    BY <1>1, SnapshotAssumption DEF NodeOf
  <1>5. Pinned(snapshot)
    BY DEF InvokeDead, Pinned
  <1>6. pc'[c] = "recovering" /\ read'[c] = snapshot /\ by'[c] = by[c]
        /\ object'[c] = object[c]
    BY <1>1 DEF TypeOK
  <1>7. Recoverable(snapshot, by[c], object[c])
    BY <1>1, <1>3, <1>4, <1>5 DEF Recoverable
  <1>8. Recoverable(read[c], by[c], object[c])'
    BY <1>7, <1>6 DEF Recoverable, Resolve, Pinned
  <1>9. CallInv(c)'
    BY <1>8, <1>1, <1>3, <1>6 DEF CallInv, Fits, GoalKnown
  <1> QED
    BY <1>1, <1>2, <1>9, OneMoves DEF TypeOK

(* The new tree is of the process the scope pins, or of the observed window's; the dead
   object was of the process its tree was matched by. *)
LEMMA RecoverKeeps ==
    ASSUME IInv, NEW c \in Callers, Recover(c)
    PROVE  IInv'
  <1> USE DEF IInv
  <1>1. PICK window \in Windows \cup {None}, f \in Trees, p \in Pids \cup {None},
             w \in Windows \cup {None} :
          LET wanted == read[c].scope
              pid == IF wanted.pid # None THEN wanted.pid ELSE ReportedPid(window)
          IN /\ TreeRead(f, p, w, pid, IF wanted.byWindow THEN window ELSE None)
             /\ SameScope(c, p, window)
             /\ Resolve(f, by[c]) \notin {None, object[c]}
             /\ object' = [object EXCEPT ![c] = Resolve(f, by[c])]
    BY DEF Recover
  <1> DEFINE wanted == read[c].scope
             pid == IF wanted.pid # None THEN wanted.pid ELSE ReportedPid(window)
             found == Resolve(f, by[c])
  <1>2. /\ TreeRead(f, p, w, pid, IF wanted.byWindow THEN window ELSE None)
        /\ SameScope(c, p, window)
        /\ found \notin {None, object[c]}
        /\ object' = [object EXCEPT ![c] = found]
    BY <1>1
  <1>3. /\ pc[c] = "recovering" /\ node' = [node EXCEPT ![c] = object[c]]
        /\ snapshot' = Empty /\ spilled' = None
        /\ pc' = [pc EXCEPT ![c] = "retrying"]
        /\ UNCHANGED <<alive, shown, lock, goal, by, read>>
    BY DEF Recover, SpillAfter
  <1>4. /\ lock = c /\ GoalKnown(c) /\ Fits(read[c])
        /\ Recoverable(read[c], by[c], object[c])
    BY <1>3 DEF CallInv, Acting
  <1>5. read[c] \in Snapshots /\ read[c].nodes \in Trees
    BY DEF TypeOK, Snapshots
  <1>6. PICK i \in Indices : f[i] = found
    BY <1>2, ResolvedNode
  <1>7. found \in Objects
    BY <1>2, <1>6 DEF Trees
  <1>8. p # None /\ p = pid /\ OwnerOf(found) = pid
    BY <1>2, <1>6 DEF TreeRead, AppsFor, InScope, SameScope
  <1>9. OwnerOf(found) = IF wanted.pid # None THEN wanted.pid ELSE PidOf[read[c].window]
    <2>1. CASE wanted.pid # None
      BY <1>8, <2>1
    <2>2. CASE wanted.pid = None
      <3>1. window = read[c].window
        BY <1>2, <1>4, <2>2, Zenon DEF SameScope, Recoverable, Pinned
      <3>2. ReportedPid(window) # None
        BY <1>8, <2>2
      <3>3. ReportedPid(window) = PidOf[window]
        BY <3>2 DEF ReportedPid
      <3> QED
        BY <1>8, <2>2, <3>1, <3>3
    <2> QED
      BY <2>1, <2>2
  <1>10. read[c].pid # None => OwnerOf(found) = OwnerOf(object[c])
    <2> SUFFICES ASSUME read[c].pid # None PROVE OwnerOf(found) = OwnerOf(object[c])
      OBVIOUS
    <2>1. wanted.pid = read[c].pid
      BY <1>4 DEF Fits, Recoverable, Pinned
    <2>2. PICK j \in Indices : read[c].nodes[j] = object[c]
      BY <1>4, <1>5, ResolvedNode DEF Recoverable
    <2>3. OwnerOf(object[c]) = read[c].pid
      BY <2>2, <1>4 DEF Fits, Recoverable
    <2> QED
      BY <1>9, <2>1, <2>3
  <1> HIDE DEF found, pid
  <1>11. TypeOK'
    BY <1>2, <1>3, <1>7, EmptyFits DEF TypeOK
  <1>12. CacheIsShown' /\ Fits(snapshot)'
    BY <1>3, EmptyFits DEF CacheIsShown, Empty, Fits
  <1>13. ASSUME NEW x \in Callers PROVE CallInv(x)'
    <2>1. CASE x = c
      <3>1. /\ pc'[c] = "retrying" /\ node'[c] = object[c] /\ object'[c] = found
            /\ read'[c] = read[c] /\ lock' = c /\ goal' = goal
        BY <1>2, <1>3, <1>4 DEF TypeOK
      <3>2. GoalKnown(c)'
        BY <3>1, <1>4 DEF GoalKnown
      <3> QED
        BY <2>1, <3>1, <3>2, <1>2, <1>4, <1>9, <1>10 DEF CallInv, Fits
    <2>2. CASE x # c
      <3>1. pc[x] \notin Acting
        BY <2>2, <1>4 DEF CallInv
      <3> QED
        BY <2>2, <3>1, <1>2, <1>3, OthersKeep DEF TypeOK
    <2> QED
      BY <2>1, <2>2
  <1> QED
    BY <1>11, <1>12, <1>13

LEMMA NextKeeps == IInv /\ [Next]_vars => IInv'
  <1> SUFFICES ASSUME IInv, [Next]_vars PROVE IInv'
    OBVIOUS
  <1>1. ASSUME NEW c \in Observers, Observe(c) PROVE IInv'
    BY <1>1, ReadAppStateKeeps, AimObservationKeeps, ReadObservationKeeps, ReadFailsKeeps,
       CommitKeeps, CommitEmptyKeeps DEF Observe, Callers
  <1>2. ASSUME NEW c \in Actors, ActOnElement(c) PROVE IInv'
    BY <1>2, BeginKeeps, CheckKeeps, LookUpOwnerKeeps, OwnerKnownKeeps, InvokeDeadKeeps,
       RecoverKeeps, RecoverNothingKeeps DEF ActOnElement, Callers
  <1>3. ASSUME NEW c \in Callers, End(c) PROVE IInv'
    BY <1>3, EndKeeps
  <1>4. ASSUME NEW o \in Mortal, Vanish(o) PROVE IInv'
    BY <1>4, VanishKeeps, SnapshotAssumption
  <1>5. CASE UNCHANGED vars
    <2>1. UNCHANGED <<alive, snapshot, spilled, shown, lock, pc, goal, by, node, object,
                      read>>
      BY <1>5 DEF vars, callVars
    <2>2. TypeOK' /\ CacheIsShown' /\ Fits(snapshot)'
      BY <2>1 DEF IInv, TypeOK, CacheIsShown, Fits
    <2>3. ASSUME NEW x \in Callers PROVE CallInv(x)'
      BY <2>1, OthersKeep DEF IInv
    <2> QED
      BY <2>2, <2>3 DEF IInv
  <1> QED
    BY <1>1, <1>2, <1>3, <1>4, <1>5 DEF Next

(* The cached tree, its file and the tree the client saw agree, every tree fits what it
   says of itself, and every call knows what its stage promises (store_snapshot_for,
   check_node_target, the recovery of perform_action). *)
THEOREM Invariance == Spec => []IInv
  BY InitIInv, NextKeeps, PTL DEF Spec

(* Calls, trees and targets stay of their kind; what is about to be invoked is an object. *)
THEOREM TypeCorrect == Spec => []TypeOK
  <1>1. IInv => TypeOK
    BY DEF IInv
  <1> QED
    BY <1>1, Invariance, PTL

(* get_tree_page and every resolution read the tree the client saw last, or none, and the
   spill file is that tree. *)
THEOREM CacheStaysShown == Spec => []CacheIsShown
  <1>1. IInv => CacheIsShown
    BY DEF IInv
  <1> QED
    BY <1>1, Invariance, PTL

(* An index means the object the client saw there, from the target check to the
   invocation, whatever other calls read meanwhile. *)
THEOREM IndexKeepsMeaning == Spec => []IndexMeansShown
  <1>1. IInv => IndexMeansShown
    <2> SUFFICES ASSUME IInv, NEW c \in Callers, pc[c] = "resolved", by[c] \in Indices
                 PROVE  object[c] = shown[by[c]]
      BY DEF IndexMeansShown
    <2>1. object[c] # None /\ object[c] = NodeOf(c)
      BY DEF IInv, CallInv
    <2>2. NodeOf(c) = snapshot.nodes[by[c]]
      BY SnapshotAssumption DEF NodeOf, Resolve
    <2>3. snapshot.nodes # NoNodes
      BY <2>1, <2>2 DEF NoNodes
    <2> QED
      BY <2>1, <2>2, <2>3 DEF IInv, CacheIsShown
  <1> QED
    BY <1>1, Invariance, PTL

(* An action with a target invokes the node its check was about, in the target's process
   and, from a narrowed tree, in the target's window; a recovered action stays in the
   process of the tree it came from. *)
THEOREM ActionsStayInTarget == Spec => []ActsInTarget
  <1>1. IInv => ActsInTarget
    <2> SUFFICES ASSUME IInv, NEW c \in Callers
                 PROVE  /\ pc[c] = "resolved" /\ node[c] # None =>
                              object[c] = node[c] /\ InTarget(c, object[c])
                        /\ pc[c] = "retrying" =>
                              /\ object[c] # node[c]
                              /\ read[c].pid # None => OwnerOf(object[c]) = OwnerOf(node[c])
                              /\ OwnerOf(object[c]) =
                                    IF read[c].scope.pid # None THEN read[c].scope.pid
                                    ELSE PidOf[read[c].window]
      BY DEF ActsInTarget, InTarget
    <2> QED
      BY DEF IInv, CallInv
  <1> QED
    BY <1>1, Invariance, PTL

(* ActsAsMeant: whatever is read between its steps, an action is about the element the
   client saw under the index it gave, and inside the target it named. *)
THEOREM ActionsStayMeant == Spec => []ActsAsMeant
  <1>1. IndexMeansShown /\ ActsInTarget => ActsAsMeant
    BY DEF ActsAsMeant
  <1> QED
    BY <1>1, IndexKeepsMeaning, ActionsStayInTarget, PTL
-----------------------------------------------------------------------------
(*************************** The walk ****************************************)


Below == {p \in Nat \X Nat : p[1] < p[2]}

LEMMA BelowWF == IsWellFoundedOn(Below, Nat)
<1>1. OpToRel(<, Nat) = Below BY Zenon DEF OpToRel, Below
<1> QED BY <1>1, NatLessThanWellFounded, Zenon

LEMMA LeastOf == ASSUME NEW T \in SUBSET Nat, T # {} PROVE \E x \in T : \A y \in T : x <= y
<1>1. PICK x \in T : \A y \in T : ~ (<<y, x>> \in Below) BY BelowWF, WFMin
<1>2. ASSUME NEW y \in T PROVE x <= y
  <2>1. <<y, x>> \in Nat \X Nat OBVIOUS
  <2>2. ~(<<y, x>>[1] < <<y, x>>[2]) BY <1>1, <2>1 DEF Below
  <2> QED BY <2>2
<1> QED BY <1>2, <1>1

LEMMA SetInduction == ASSUME NEW S, 0 \in S, \A n \in Nat : n \in S => n + 1 \in S PROVE Nat \subseteq S
<1> SUFFICES ASSUME NEW k \in Nat, k \notin S PROVE FALSE OBVIOUS
<1>1. PICK m \in Nat \ S : \A y \in Nat \ S : m <= y BY LeastOf
<1>2. m # 0 /\ m - 1 \in Nat /\ m - 1 \in S BY <1>1
<1> QED BY <1>2, <1>1

\* What a set closed under steady children has of S has all that is steadily below S.
LEMMA SteadyWithin ==
    ASSUME NEW S, NEW X, NEW T, S \ failed \subseteq T, SteadyKids(T, X) \subseteq T,
           Cardinality(Elements) \in Nat
    PROVE  Steady(S, X) \subseteq T
<1> DEFINE N == Cardinality(Elements)
           Reach(g, m) == g = [n \in 0..m |-> IF n = 0 THEN S \ failed
                                              ELSE g[n - 1] \cup SteadyKids(g[n - 1], X)]
           M == {m \in Nat : \E g : Reach(g, m)}
<1>1. 0 \in M
  <2>1. Reach([n \in 0..0 |-> S \ failed], 0) OBVIOUS
  <2> QED BY <2>1
<1>2. ASSUME NEW m \in Nat, m \in M PROVE m + 1 \in M
  <2>1. PICK g : Reach(g, m) BY <1>2
  <2> DEFINE h == [n \in 0..m + 1 |-> IF n <= m THEN g[n] ELSE g[m] \cup SteadyKids(g[m], X)]
  <2>2. ASSUME NEW n \in 0..m + 1, n # 0
        PROVE  h[n] = h[n - 1] \cup SteadyKids(h[n - 1], X)
    <3>1. n - 1 \in 0..m /\ h[n - 1] = g[n - 1] BY <2>2
    <3>2. CASE n <= m
      <4>1. n \in 0..m /\ h[n] = g[n] BY <3>2, <2>2
      <4>2. g[n] = g[n - 1] \cup SteadyKids(g[n - 1], X) BY <4>1, <2>1, <2>2
      <4> QED BY <4>1, <4>2, <3>1
    <3>3. CASE n = m + 1
      <4>1. h[n] = g[m] \cup SteadyKids(g[m], X) BY <3>3
      <4> QED BY <4>1, <3>1, <3>3
    <3> QED BY <3>2, <3>3
  <2>3. h[0] = S \ failed BY <2>1
  <2> HIDE DEF h
  <2>4. Reach(h, m + 1)
    <3>1. h = [n \in 0..m + 1 |-> h[n]] BY DEF h
    <3> QED BY <3>1, <2>2, <2>3
  <2> QED BY <2>4
<1>3. N \in M
  <2> HIDE DEF M
  <2> QED BY <1>1, <1>2, SetInduction
<1>4. PICK g : Reach(g, N) BY <1>3
<1> DEFINE f == CHOOSE r : Reach(r, N)
<1>5. Reach(f, N) BY <1>4, Zenon
<1> DEFINE In == {m \in Nat : m \in 0..N => f[m] \subseteq T}
<1> HIDE DEF f
<1>6. 0 \in In BY <1>5
<1>7. ASSUME NEW m \in Nat, m \in In PROVE m + 1 \in In
  <2> SUFFICES ASSUME m + 1 \in 0..N PROVE f[m + 1] \subseteq T OBVIOUS
  <2>1. m \in 0..N /\ f[m] \subseteq T BY <1>7
  <2>2. f[m + 1] = f[m] \cup SteadyKids(f[m], X)
    <3>1. m + 1 # 0 /\ (m + 1) - 1 = m OBVIOUS
    <3> QED BY <1>5, <3>1
  <2>3. SteadyKids(f[m], X) \subseteq SteadyKids(T, X) BY <2>1 DEF SteadyKids
  <2> QED BY <2>1, <2>2, <2>3
<1>8. N \in In
  <2> HIDE DEF In
  <2> QED BY <1>6, <1>7, SetInduction
<1>9. f[N] \subseteq T BY <1>8
<1>10. Steady(S, X) = f[N] BY Zenon DEF Steady, f
<1> QED BY <1>9, <1>10


LEMMA FiniteInterval == ASSUME NEW n \in Nat, NEW S \in SUBSET (1..n)
                        PROVE IsFiniteSet(S) /\ Cardinality(S) \in Nat
<1>1. IsFiniteSet(1..n) BY FS_Interval
<1>2. IsFiniteSet(S) BY <1>1, FS_Subset
<1> QED BY <1>2, FS_CardinalityType

\* What is taken in order is a sequence of what was at those places, each place once.
LEMMA InOrderTakes ==
    ASSUME NEW E, NEW s \in Seq(E), NEW S \in SUBSET DOMAIN s, NEW list \in InOrder(s, S)
    PROVE  /\ list \in Seq(E)
           /\ \E f \in [DOMAIN list -> S] :
                 /\ S = {f[i] : i \in DOMAIN list}
                 /\ \A i \in DOMAIN list : list[i] = s[f[i]]
                 /\ \A i, j \in DOMAIN list : f[i] = f[j] => i = j
<1> DEFINE n == Cardinality(S)
<1>1. n \in Nat
  <2>1. DOMAIN s = 1..Len(s) /\ Len(s) \in Nat OBVIOUS
  <2> QED BY <2>1, FiniteInterval
<1> HIDE DEF n
<1>2. PICK f \in [1..n -> S] : /\ S = {f[i] : i \in DOMAIN f}
                               /\ \A i, j \in DOMAIN f : i < j => f[i] < f[j]
                               /\ list = [i \in DOMAIN f |-> s[f[i]]]
  BY DEF InOrder, n
<1>3. DOMAIN f = 1..n BY <1>2
<1>3a. \A i, j \in 1..n : i < j => f[i] < f[j] BY <1>2, <1>3
<1>4. list = [i \in 1..n |-> s[f[i]]] BY <1>2, <1>3
<1>5. DOMAIN list = 1..n BY <1>4
<1>6. \A i \in 1..n : list[i] = s[f[i]] BY <1>4
<1>7. \A i \in 1..n : f[i] \in S BY <1>2
<1>8. \A i \in 1..n : s[f[i]] \in E BY <1>7
<1>9. list \in [1..n -> E] BY <1>4, <1>8
<1>10. list \in Seq(E) BY <1>9, <1>1, SeqDef
<1>11. ASSUME NEW i \in 1..n, NEW j \in 1..n, f[i] = f[j] PROVE i = j
  <2>0. DOMAIN s = 1..Len(s) OBVIOUS
  <2>1. f[i] \in Nat /\ f[j] \in Nat BY <1>7, <2>0
  <2>2. ~(i < j) /\ ~(j < i) BY <1>3a, <1>11, <2>1
  <2> QED BY <2>2, <1>1
<1>12. S = {f[i] : i \in 1..n} BY <1>2, <1>3
<1>13. f \in [DOMAIN list -> S] BY <1>2, <1>5
<1>14. /\ S = {f[i] : i \in DOMAIN list}
       /\ \A i \in DOMAIN list : list[i] = s[f[i]]
       /\ \A i, j \in DOMAIN list : f[i] = f[j] => i = j
  <2>1. S = {f[i] : i \in DOMAIN list} BY <1>12, <1>5
  <2>2. \A i, j \in DOMAIN list : f[i] = f[j] => i = j BY <1>11, <1>5
  <2> QED BY <2>1, <2>2, <1>5, <1>6
<1> HIDE DEF n
<1> QED BY <1>10, <1>13, <1>14, Zenon

LEMMA InOrderSet ==
    ASSUME NEW E, NEW s \in Seq(E), NEW S \in SUBSET DOMAIN s, NEW list \in InOrder(s, S)
    PROVE  SetOf(list) = {s[i] : i \in S}
<1>1. PICK f \in [DOMAIN list -> S] :
                 /\ S = {f[i] : i \in DOMAIN list}
                 /\ \A i \in DOMAIN list : list[i] = s[f[i]]
  BY InOrderTakes
<1>2. \A i \in DOMAIN list : f[i] \in S BY <1>1
<1> QED BY <1>1, <1>2 DEF SetOf

LEMMA SetOfConcat ==
    ASSUME NEW E, NEW s \in Seq(E), NEW t \in Seq(E) PROVE SetOf(s \o t) = SetOf(s) \cup SetOf(t)
<1>1. s \o t \in Seq(E) /\ Len(s \o t) = Len(s) + Len(t) OBVIOUS
<1>2. \A i \in 1..Len(s) + Len(t) : (s \o t)[i] = IF i <= Len(s) THEN s[i] ELSE t[i - Len(s)]
  OBVIOUS
<1>3. DOMAIN (s \o t) = 1..Len(s) + Len(t) /\ DOMAIN s = 1..Len(s) /\ DOMAIN t = 1..Len(t)
      /\ Len(s) \in Nat /\ Len(t) \in Nat
  BY <1>1
<1> DEFINE c == s \o t
<1> HIDE DEF c
<1>4. DOMAIN c = 1..Len(s) + Len(t)
      /\ \A i \in 1..Len(s) + Len(t) : c[i] = IF i <= Len(s) THEN s[i] ELSE t[i - Len(s)]
  BY <1>2, <1>3 DEF c
<1>5. SetOf(c) \subseteq SetOf(s) \cup SetOf(t)
  <2> SUFFICES ASSUME NEW i \in DOMAIN c PROVE c[i] \in SetOf(s) \cup SetOf(t) BY DEF SetOf
  <2>1. CASE i <= Len(s) BY <2>1, <1>3, <1>4 DEF SetOf
  <2>2. CASE i > Len(s)
    <3>1. i - Len(s) \in DOMAIN t /\ c[i] = t[i - Len(s)] BY <2>2, <1>3, <1>4
    <3> QED BY <3>1 DEF SetOf
  <2> QED BY <2>1, <2>2, <1>3, <1>4
<1>6. SetOf(s) \subseteq SetOf(c)
  <2> SUFFICES ASSUME NEW i \in DOMAIN s PROVE s[i] \in SetOf(c) BY DEF SetOf
  <2>1. i \in DOMAIN c /\ c[i] = s[i] BY <1>3, <1>4
  <2> QED BY <2>1 DEF SetOf
<1>7. SetOf(t) \subseteq SetOf(c)
  <2> SUFFICES ASSUME NEW i \in DOMAIN t PROVE t[i] \in SetOf(c) BY DEF SetOf
  <2>1. i + Len(s) \in DOMAIN c /\ c[i + Len(s)] = t[i]
    <3>1. i \in Nat /\ i >= 1 /\ i + Len(s) \in 1..Len(s) + Len(t) /\ (i + Len(s)) - Len(s) = i
          /\ ~(i + Len(s) <= Len(s)) BY <1>3
    <3> QED BY <3>1, <1>4
  <2> QED BY <2>1 DEF SetOf
<1> QED BY <1>5, <1>6, <1>7 DEF c

LEMMA SetOfSubSeq ==
    ASSUME NEW E, NEW s \in Seq(E), NEW m \in Nat \ {0}, NEW n \in 0..Len(s)
    PROVE  /\ SubSeq(s, m, n) \in Seq(E) /\ SetOf(SubSeq(s, m, n)) \subseteq SetOf(s)
           /\ Len(SubSeq(s, m, n)) = IF m <= n THEN n - m + 1 ELSE 0
           /\ \A i \in 1..Len(SubSeq(s, m, n)) : SubSeq(s, m, n)[i] = s[i + m - 1]
<1> DEFINE u == SubSeq(s, m, n)
<1>0. Len(s) \in Nat /\ DOMAIN s = 1..Len(s) OBVIOUS
<1>1. u = [i \in 1..(n - m + 1) |-> s[i + m - 1]] OBVIOUS
<1> HIDE DEF u
<1>2. \A i \in 1..(n - m + 1) : i + m - 1 \in DOMAIN s BY <1>0
<1>3. CASE m <= n
  <2>1. n - m + 1 \in Nat BY <1>3
  <2>2. u \in [1..(n - m + 1) -> E] BY <1>1, <1>2
  <2>3. u \in Seq(E) BY <2>1, <2>2, SeqDef
  <2>4. Len(u) = n - m + 1 BY <2>1, <2>2, <2>3
  <2>5. DOMAIN u = 1..(n - m + 1) BY <1>1
  <2>6. SetOf(u) \subseteq SetOf(s) BY <2>5, <1>1, <1>2 DEF SetOf
  <2> QED BY <2>3, <2>4, <2>6, <1>1, <1>3 DEF u
<1>4. CASE n < m
  <2>1. 1..(n - m + 1) = 1..0 BY <1>4
  <2>2. DOMAIN u = 1..0 BY <1>1, <2>1
  <2>3. u \in [1..0 -> E] BY <1>1, <2>1
  <2>4. u \in Seq(E) /\ Len(u) = 0 BY <2>3, SeqDef, LenProperties
  <2>5. SetOf(u) = {} BY <2>2 DEF SetOf
  <2> QED BY <2>4, <2>5, <1>4 DEF u
<1> QED BY <1>3, <1>4, <1>0

LEMMA PrefixOf ==
    ASSUME NEW E, NEW s \in Seq(E), NEW n \in 0..Len(s)
    PROVE  /\ SubSeq(s, 1, n) \in Seq(E) /\ Len(SubSeq(s, 1, n)) = n
           /\ \A i \in 1..n : SubSeq(s, 1, n)[i] = s[i]
OBVIOUS

Places == Elements \cup {Registry}
Roots == SetOf(kids[Registry])
Items == [el : Elements, depth : Nat, parent : Nat]

\* The tree: an element has one parent, and the roots stay.
TreeStands ==
    /\ kids \in [Places -> Seq(Elements)]
    /\ \A p, q \in Places : SetOf(kids[p]) \cap SetOf(kids[q]) # {} => p = q
    /\ \A i, j \in DOMAIN kids[Registry] : kids[Registry][i] = kids[Registry][j] => i = j
    /\ job \in Jobs /\ edited \subseteq Elements

\* What waits to be read: as much as may still be read, each root once.
QueueFits ==
    /\ queue \in Seq(Items) /\ attempted \in Nat /\ attempted + Len(queue) <= job.nodes
    /\ \A i \in DOMAIN queue : queue[i].depth = 0 <=> queue[i].el \in Roots
    /\ \A i, j \in DOMAIN queue : queue[i].el = queue[j].el /\ queue[i].el \in Roots => i = j
    /\ dropped \in BOOLEAN /\ cut \in BOOLEAN
    /\ nodes \in Seq([el : Elements, parent : Nat])

ReadsFit == reads \in Nat

Reading == at \in {"kids", "reading", "push"}

CurFits ==
    /\ cur \in [el : Elements \cup {Nil}, depth : Nat, parent : Nat, count : Nat,
                got : Seq(Elements \cup {Nil}), left : SUBSET Nat]
    /\ at = "loop" => cur = NoCur
    /\ Reading => cur.el \in Elements /\ (cur.depth = 0 <=> cur.el \in Roots)
    /\ cur.left \subseteq DOMAIN cur.got

\* The children that were read are the node's own.
GotIsOwn ==
    /\ \A p \in Places : \A i \in DOMAIN cur.got :
          cur.got[i] # Nil /\ cur.got[i] \in SetOf(kids[p]) => p = cur.el \/ p \in edited
    /\ at \in {"kids", "push"} => cur.left = {}

Steadily(e) == e \notin edited \cup failed

\* None of a steady node's children is forgotten.
KidsAreRead ==
    Steadily(cur.el) /\ ~cut =>
        /\ at = "kids" => cur.count = Len(kids[cur.el])
        /\ at \in {"reading", "push"} =>
              \A i \in DOMAIN kids[cur.el] : \/ i \in cur.left
                                             \/ kids[cur.el][i] \in failed
                                             \/ i \in DOMAIN cur.got /\ cur.got[i] = kids[cur.el][i]

ScopeFits ==
    /\ ~Snapshotting => scope.window = Nil
    /\ DOMAIN scope = {"roots", "scoped", "window"}
    /\ container.el # Nil => container.el \in Elements
    /\ at = "begin" => TreeBegins
    /\ at \notin {"begin", "done"} => verdict = "none_yet"

NowWaiting == {queue[i].el : i \in DOMAIN queue} \cup (IF Reading THEN {cur.el} ELSE {})
Base == IF Scoped /\ ~Snapshotting /\ container.el # Nil THEN {container.el} ELSE scope.roots

\* T was read: what is below it was read, or waits, or is of another window.
Covers(T) ==
    /\ Base \ failed \subseteq T \cup NowWaiting
    /\ \A p \in T \ (edited \cup failed) :
          SetOf(kids[p]) \subseteq OtherWindows \cup failed \cup T \cup NowWaiting
    /\ \A e \in T \cap Roots : e \notin NowWaiting
    /\ Snapshotting => T \subseteq {nodes[i].el : i \in DOMAIN nodes}
    /\ ~Snapshotting /\ ~moved =>
          (T \cup (IF Reading THEN {cur.el} ELSE {})) \cap focused
             \subseteq IF container.el = Nil THEN {} ELSE Containers
    /\ Reading /\ cur.el \in Roots => \A i \in DOMAIN queue : queue[i].el # cur.el

ReadSoFar ==
    at \notin {"begin", "done"} /\ ~cut /\ ~dropped => \E T \in SUBSET Elements : Covers(T)

\* At the end nothing waits.
EndIsWhole ==
    at = "done" =>
        /\ \/ Snapshotting /\ ~cut /\ verdict # "failed"
           \/ ~Snapshotting /\ verdict \in {"none", "shell"}
           \/ ~Snapshotting /\ verdict = "found" /\ container.el \in Containers
           => /\ \E T \in SUBSET Elements : Covers(T)
              /\ queue = <<>>
        /\ verdict \in {"none", "shell"} => container.el = Nil

TreeInv == /\ TreeStands /\ QueueFits /\ ReadsFit /\ CurFits /\ GotIsOwn /\ KidsAreRead /\ ScopeFits
           /\ ReadSoFar /\ EndIsWhole

LEMMA TreeConstants ==
    /\ Cardinality(Elements) \in Nat /\ Registry \notin Elements /\ Nil \notin Elements
    /\ Nil \notin Containers
    /\ \A j \in Jobs : j.nodes \in Nat /\ j.depth \in Nat
BY TreeAssumption, FS_CardinalityType

LEMMA EnqueueTakes ==
    ASSUME NEW E, NEW items \in Seq(E), NEW q \in Seq(E), NEW n \in Nat, job.nodes \in Nat,
           n + Len(q) <= job.nodes, dropped \in BOOLEAN, Enqueue(items, n, q)
    PROVE  /\ queue' \in Seq(E) /\ n + Len(queue') <= job.nodes
           /\ Len(q) <= Len(queue') /\ Len(queue') <= Len(q) + Len(items)
           /\ \A i \in 1..Len(q) : queue'[i] = q[i]
           /\ \A i \in 1..Len(queue') - Len(q) : queue'[Len(q) + i] = items[i]
           /\ dropped' = (dropped \/ Len(queue') < Len(q) + Len(items))
<1>0. Len(q) \in Nat /\ Len(items) \in Nat OBVIOUS
<1> DEFINE room == Least(Capacity(n, q), Len(items))
<1>1. room \in Nat /\ room <= Len(items) /\ n + Len(q) + room <= job.nodes
  BY <1>0 DEF Least, Capacity
<1>2. queue' = q \o SubSeq(items, 1, room) /\ dropped' = (dropped \/ room < Len(items))
  BY DEF Enqueue
<1> HIDE DEF room
<1>3. PICK u : u = SubSeq(items, 1, room) OBVIOUS
<1>4. u \in Seq(E) /\ Len(u) = room /\ \A i \in 1..room : u[i] = items[i]
  <2>1. room \in 0..Len(items) BY <1>0, <1>1
  <2>3. Len(u) = room BY <2>1, <1>3, PrefixOf, Zenon
  <2>4. \A i \in 1..room : u[i] = items[i] BY <2>1, <1>3, PrefixOf, Zenon
  <2>5. u \in Seq(E) BY <2>1, <1>3, PrefixOf, Zenon
  <2> QED BY <2>3, <2>4, <2>5
<1>5. queue' \in Seq(E) /\ Len(queue') = Len(q) + room BY <1>2, <1>3, <1>4
<1>6. \A i \in 1..Len(q) + room : queue'[i] = IF i <= Len(q) THEN q[i] ELSE u[i - Len(q)]
  BY <1>2, <1>3, <1>4, ConcatProperties
<1>7. \A i \in 1..Len(q) : queue'[i] = q[i] BY <1>6, <1>0, <1>1
<1>8. ASSUME NEW i \in 1..room PROVE queue'[Len(q) + i] = items[i]
  <2>1. Len(q) + i \in 1..Len(q) + room /\ ~(Len(q) + i <= Len(q)) /\ (Len(q) + i) - Len(q) = i
    BY <1>0, <1>1
  <2>2. queue'[Len(q) + i] = u[(Len(q) + i) - Len(q)] BY <1>6, <2>1
  <2> QED BY <2>1, <2>2, <1>4
<1>9. Len(queue') - Len(q) = room /\ (Len(queue') < Len(q) + Len(items) <=> room < Len(items))
  BY <1>5, <1>0, <1>1
<1>10. \A i \in 1..Len(queue') - Len(q) : queue'[Len(q) + i] = items[i] BY <1>8, <1>9
<1>11. n + Len(queue') <= job.nodes /\ Len(q) <= Len(queue') /\ Len(queue') <= Len(q) + Len(items)
  BY <1>5, <1>0, <1>1
<1>12. dropped' = (dropped \/ Len(queue') < Len(q) + Len(items)) BY <1>9, <1>2, Zenon
<1> QED BY <1>5, <1>7, <1>10, <1>11, <1>12, Zenon

\* The application's steps keep the tree a tree.
LEMMA TreeStandsStep == TreeStands /\ TreeNext => TreeStands'
<1> SUFFICES ASSUME TreeStands, TreeNext PROVE TreeStands' OBVIOUS
<1>1. CASE UNCHANGED worldVars /\ UNCHANGED job
  BY <1>1 DEF TreeStands, worldVars, Places
<1>2. ASSUME NEW p \in Elements, NEW i \in 1..3, Detaches(p, i) PROVE TreeStands'
  <2>1. i \in DOMAIN kids[p] /\ kids' = [kids EXCEPT ![p] = WithoutAt(@, i)]
        /\ edited' = edited \cup {p} /\ job' = job
    BY <1>2 DEF Detaches, ReaderStays
  <2>2. kids[p] \in Seq(Elements) /\ p \in Places BY DEF TreeStands, Places
  <2>3. WithoutAt(kids[p], i) \in Seq(Elements) /\ SetOf(WithoutAt(kids[p], i)) \subseteq SetOf(kids[p])
    <3>1. DOMAIN kids[p] = 1..Len(kids[p]) /\ Len(kids[p]) \in Nat BY <2>2
    <3>2. i - 1 \in 0..Len(kids[p]) /\ 1 \in Nat \ {0} /\ i + 1 \in Nat \ {0}
          /\ Len(kids[p]) \in 0..Len(kids[p])
      BY <3>1, <2>1
    <3>3. PICK a, b : a = SubSeq(kids[p], 1, i - 1) /\ b = SubSeq(kids[p], i + 1, Len(kids[p])) OBVIOUS
    <3>4. a \in Seq(Elements) /\ SetOf(a) \subseteq SetOf(kids[p])
      BY <3>2, <3>3, <2>2, SetOfSubSeq, Zenon
    <3>5. b \in Seq(Elements) /\ SetOf(b) \subseteq SetOf(kids[p])
      BY <3>2, <3>3, <2>2, SetOfSubSeq, Zenon
    <3>6. WithoutAt(kids[p], i) = a \o b BY <3>3 DEF WithoutAt
    <3>7. SetOf(a \o b) = SetOf(a) \cup SetOf(b) BY <3>4, <3>5, SetOfConcat
    <3>8. a \o b \in Seq(Elements) BY <3>4, <3>5
    <3> QED BY <3>4, <3>5, <3>6, <3>7, <3>8
  <2>4. kids' \in [Places -> Seq(Elements)]
        /\ \A q \in Places : kids'[q] = IF q = p THEN WithoutAt(kids[p], i) ELSE kids[q]
    BY <2>1, <2>2, <2>3 DEF TreeStands
  <2>5. \A q \in Places : SetOf(kids'[q]) \subseteq SetOf(kids[q]) BY <2>3, <2>4
  <2>6. kids'[Registry] = kids[Registry] BY <2>4, TreeConstants DEF Places
  <2>7. \A q, r \in Places : SetOf(kids'[q]) \cap SetOf(kids'[r]) # {} => q = r
    BY <2>5 DEF TreeStands
  <2>8. \A j, k \in DOMAIN kids'[Registry] : kids'[Registry][j] = kids'[Registry][k] => j = k
    BY <2>6, Zenon DEF TreeStands
  <2>9. job' \in Jobs /\ edited' \subseteq Elements BY <2>1 DEF TreeStands
  <2> QED BY <2>4, <2>7, <2>8, <2>9 DEF TreeStands, Places
<1>3. ASSUME NEW p \in Elements, NEW e \in Elements, Attaches(p, e) PROVE TreeStands'
  <2>1. ~InTree(e) /\ kids' = [kids EXCEPT ![p] = <<e>> \o @]
        /\ edited' = edited \cup {p} /\ job' = job
    BY <1>3 DEF Attaches, ReaderStays
  <2>2. kids[p] \in Seq(Elements) /\ p \in Places /\ <<e>> \in Seq(Elements) BY DEF TreeStands, Places
  <2>3. <<e>> \o kids[p] \in Seq(Elements) /\ SetOf(<<e>> \o kids[p]) = {e} \cup SetOf(kids[p])
    <3>1. PICK s : s = <<e>> OBVIOUS
    <3>2. s \in Seq(Elements) /\ DOMAIN s = {1} /\ s[1] = e BY <3>1
    <3>3. SetOf(s) = {e} BY <3>2 DEF SetOf
    <3>4. SetOf(s \o kids[p]) = SetOf(s) \cup SetOf(kids[p])
      <4>1. s \in Seq(Elements) BY <3>2
      <4>2. kids[p] \in Seq(Elements) BY <2>2
      <4> QED BY <4>1, <4>2, SetOfConcat
    <3>5. s \o kids[p] \in Seq(Elements) BY <3>2, <2>2
    <3> QED BY <3>1, <3>3, <3>4, <3>5, Zenon
  <2>4. kids' \in [Places -> Seq(Elements)]
        /\ \A q \in Places : kids'[q] = IF q = p THEN <<e>> \o kids[p] ELSE kids[q]
    BY <2>1, <2>2, <2>3 DEF TreeStands
  <2>5. \A q \in Places : e \notin SetOf(kids[q]) BY <2>1 DEF InTree, SetOf, Places
  <2>6. \A q \in Places : SetOf(kids'[q]) = IF q = p THEN {e} \cup SetOf(kids[q]) ELSE SetOf(kids[q])
    BY <2>3, <2>4
  <2>7. \A q, r \in Places : SetOf(kids'[q]) \cap SetOf(kids'[r]) # {} => q = r
    <3> SUFFICES ASSUME NEW q \in Places, NEW r \in Places, NEW x \in SetOf(kids'[q]), x \in SetOf(kids'[r])
                 PROVE  q = r
      OBVIOUS
    <3>1. CASE x = e BY <3>1, <2>5, <2>6
    <3>2. CASE x # e
      <4>1. x \in SetOf(kids[q]) /\ x \in SetOf(kids[r]) BY <3>2, <2>6
      <4> QED BY <4>1 DEF TreeStands
    <3> QED BY <3>1, <3>2
  <2>8. kids'[Registry] = kids[Registry] BY <2>4, TreeConstants DEF Places
  <2>9. \A j, k \in DOMAIN kids'[Registry] : kids'[Registry][j] = kids'[Registry][k] => j = k
    BY <2>8, Zenon DEF TreeStands
  <2>10. job' \in Jobs /\ edited' \subseteq Elements BY <2>1 DEF TreeStands
  <2> QED BY <2>4, <2>7, <2>9, <2>10 DEF TreeStands, Places
<1>4. ASSUME NEW e, FocusGoes(e) PROVE TreeStands'
  BY <1>4 DEF FocusGoes, ReaderStays, TreeStands, Places
<1>5. ASSUME ReaderStep PROVE UNCHANGED worldVars /\ UNCHANGED job
  BY <1>5 DEF ReaderStep, BeginReading, BeginFails, ReadNode, CountKids, StayAbove, Push, StopReading,
     EndReading, ReadKid
<1> QED BY <1>1, <1>2, <1>3, <1>4, <1>5 DEF TreeNext, AppStep


\* A step of the reader leaves the application as it is, and one of the application the reader.
LEMMA ReaderKeeps == ReaderStep => UNCHANGED <<kids, focused, edits, edited, moved, job>>
BY DEF ReaderStep, BeginReading, BeginFails, ReadNode, CountKids, StayAbove, Push, StopReading,
   EndReading, ReadKid, worldVars

LEMMA AppKeeps ==
    AppStep => /\ UNCHANGED <<job, at, queue, attempted, dropped, reads, cur, nodes, cut, scope,
                              container, shell, verdict, faults, failed>>
               /\ at \notin {"begin", "done"}
BY DEF AppStep, Detaches, Attaches, FocusGoes, Edit, ReaderStays, walkVars, probeVars, faultVars

LEMMA RootsStay == TreeStands /\ TreeNext => Roots' = Roots
<1> SUFFICES ASSUME TreeStands, TreeNext PROVE kids'[Registry] = kids[Registry] BY DEF Roots
<1>1. CASE ReaderStep BY <1>1, ReaderKeeps
<1>2. CASE AppStep
  BY <1>2, TreeConstants DEF AppStep, Detaches, Attaches, FocusGoes, TreeStands, Places
<1> QED BY <1>1, <1>2 DEF TreeNext

\* What is read first are roots, each once.
LEMMA BeginList ==
    ASSUME TreeStands, NEW list \in InOrder(kids[Registry], SelectRoots(kids[Registry]).places)
    PROVE  /\ list \in Seq(Elements) /\ SetOf(list) \subseteq Roots
           /\ \A i, j \in DOMAIN list : list[i] = list[j] => i = j
<1> DEFINE S == SelectRoots(kids[Registry]).places
<1>1. kids[Registry] \in Seq(Elements) BY DEF TreeStands, Places
<1>2. S \in SUBSET DOMAIN kids[Registry] BY DEF SelectRoots
<1> HIDE DEF S
<1>3. PICK k : k = kids[Registry] OBVIOUS
<1>4. PICK P : P = S OBVIOUS
<1>5. k \in Seq(Elements) /\ P \in SUBSET DOMAIN k /\ list \in InOrder(k, P)
  BY <1>1, <1>2, <1>3, <1>4 DEF S
<1>6. /\ list \in Seq(Elements)
      /\ \E f \in [DOMAIN list -> P] :
            /\ P = {f[i] : i \in DOMAIN list}
            /\ \A i \in DOMAIN list : list[i] = k[f[i]]
            /\ \A i, j \in DOMAIN list : f[i] = f[j] => i = j
  BY <1>5, InOrderTakes
<1>7. PICK f \in [DOMAIN list -> P] : /\ \A i \in DOMAIN list : list[i] = k[f[i]]
                                      /\ \A i, j \in DOMAIN list : f[i] = f[j] => i = j
  BY <1>6, Zenon
<1>8. \A i \in DOMAIN list : f[i] \in DOMAIN k BY <1>5, <1>7
<1>9. \A i, j \in DOMAIN k : k[i] = k[j] => i = j BY <1>3 DEF TreeStands
<1>10. SetOf(list) \subseteq SetOf(k) BY <1>7, <1>8 DEF SetOf
<1> QED BY <1>3, <1>6, <1>7, <1>8, <1>9, <1>10 DEF Roots

\* What is put off is among the children that were read: no root.
LEMMA PushList ==
    ASSUME TreeStands, CurFits, GotIsOwn, at = "push",
           NEW list \in InOrder(cur.got, {i \in DOMAIN cur.got : cur.got[i] # Nil}),
           NEW keep \in SUBSET DOMAIN list, NEW kept \in InOrder(list, keep)
    PROVE  /\ list \in Seq(Elements)
           /\ \A i \in DOMAIN cur.got : cur.got[i] # Nil => cur.got[i] \in SetOf(list)
           /\ \A i \in DOMAIN list : \E j \in DOMAIN cur.got : cur.got[j] # Nil /\ list[i] = cur.got[j]
           /\ kept \in Seq(Elements) /\ SetOf(kept) = {list[i] : i \in keep}
           /\ SetOf(kept) \cap Roots = {}
<1>1. PICK g, P : g = cur.got /\ P = {i \in DOMAIN cur.got : cur.got[i] # Nil} OBVIOUS
<1>2. g \in Seq(Elements \cup {Nil}) /\ P \in SUBSET DOMAIN g /\ list \in InOrder(g, P)
  BY <1>1 DEF CurFits
<1>3. /\ list \in Seq(Elements \cup {Nil})
      /\ \E f \in [DOMAIN list -> P] :
            /\ P = {f[i] : i \in DOMAIN list}
            /\ \A i \in DOMAIN list : list[i] = g[f[i]]
            /\ \A i, j \in DOMAIN list : f[i] = f[j] => i = j
  BY <1>2, InOrderTakes
<1>4. \A i \in DOMAIN list : \E j \in P : list[i] = g[j] BY <1>3
<1>5. \A i \in DOMAIN list : \E j \in DOMAIN cur.got : cur.got[j] # Nil /\ list[i] = cur.got[j]
  BY <1>4, <1>1
<1>6. SetOf(list) = {g[i] : i \in P} BY <1>2, InOrderSet, Zenon
<1>7. \A i \in DOMAIN cur.got : cur.got[i] # Nil => cur.got[i] \in SetOf(list) BY <1>6, <1>1
<1>8. \A i \in DOMAIN list : list[i] \in Elements
  <2>1. \A i \in DOMAIN list : list[i] \in Elements \cup {Nil} BY <1>3
  <2> QED BY <2>1, <1>5
<1>9. list \in Seq(Elements)
  <2>1. DOMAIN list = 1..Len(list) /\ Len(list) \in Nat /\ list = [i \in DOMAIN list |-> list[i]]
    BY <1>3
  <2>2. list \in [1..Len(list) -> Elements] BY <2>1, <1>8
  <2> QED BY <2>1, <2>2, SeqDef
<1>10. kept \in Seq(Elements) BY <1>9, InOrderTakes
<1>11. SetOf(kept) = {list[i] : i \in keep} BY <1>9, InOrderSet, Zenon
<1>12. ASSUME NEW e \in SetOf(kept), e \in Roots PROVE FALSE
  <2>1. PICK j \in DOMAIN cur.got : cur.got[j] # Nil /\ e = cur.got[j] BY <1>11, <1>12, <1>5
  <2>2. Registry \in Places /\ Registry # cur.el /\ Registry \notin edited
    BY TreeConstants DEF Places, CurFits, Reading, TreeStands
  <2> QED BY <2>1, <2>2, <1>12 DEF GotIsOwn, Roots
<1> QED BY <1>5, <1>7, <1>9, <1>10, <1>11, <1>12


\* A queue that is enqueued to: no more than fits, the items in their order.
LEMMA ItemsOf ==
    ASSUME NEW list \in Seq(Elements), NEW d \in Nat, NEW m \in Nat
    PROVE  LET items == [i \in DOMAIN list |-> [el |-> list[i], depth |-> d, parent |-> m]] IN
           items \in Seq(Items) /\ Len(items) = Len(list) /\ DOMAIN items = DOMAIN list
<1> DEFINE items == [i \in DOMAIN list |-> [el |-> list[i], depth |-> d, parent |-> m]]
<1>1. DOMAIN list = 1..Len(list) /\ Len(list) \in Nat OBVIOUS
<1>2. items \in [1..Len(list) -> Items] BY <1>1 DEF Items
<1>3. items \in Seq(Items) BY <1>1, <1>2, SeqDef
<1>4. DOMAIN items = 1..Len(list) BY <1>1
<1>5. Len(items) = Len(list) BY <1>3, <1>4, <1>1
<1> QED BY <1>1, <1>3, <1>4, <1>5

\* The parts of TreeInv that a step needs.
TreeFits == TreeStands /\ QueueFits /\ ReadsFit /\ CurFits /\ GotIsOwn /\ KidsAreRead /\ ScopeFits

\* What the first enqueue does.
LEMMA BeginQueue ==
    ASSUME TreeFits, BeginReading
    PROVE  \/ UNCHANGED <<queue, dropped>> /\ at' = "done"
           \/ /\ queue' \in Seq(Items) /\ Len(queue') <= job.nodes /\ dropped' \in BOOLEAN
              /\ \A i \in DOMAIN queue' : queue'[i].el \in Roots /\ queue'[i].depth = 0
              /\ \A i, j \in DOMAIN queue' : queue'[i].el = queue'[j].el => i = j
              /\ ~dropped' => \A e \in scope'.roots : \E i \in DOMAIN queue' : queue'[i].el = e
              /\ at' = "loop"
<1>1. PICK list \in InOrder(kids[Registry], SelectRoots(kids[Registry]).places) :
        /\ scope' = [roots |-> SetOf(list), scoped |-> SelectRoots(kids[Registry]).scoped, window |-> Nil]
        /\ \/ UNCHANGED <<queue, dropped>> /\ at' = "done"
           \/ /\ at' = "loop"
              /\ Enqueue([i \in DOMAIN list |-> [el |-> list[i], depth |-> 0, parent |-> 0]], 0, <<>>)
  BY DEF BeginReading
<1> SUFFICES ASSUME at' = "loop",
                    Enqueue([i \in DOMAIN list |-> [el |-> list[i], depth |-> 0, parent |-> 0]], 0, <<>>)
             PROVE  /\ queue' \in Seq(Items) /\ Len(queue') <= job.nodes /\ dropped' \in BOOLEAN
                    /\ \A i \in DOMAIN queue' : queue'[i].el \in Roots /\ queue'[i].depth = 0
                    /\ \A i, j \in DOMAIN queue' : queue'[i].el = queue'[j].el => i = j
                    /\ ~dropped' => \A e \in scope'.roots : \E i \in DOMAIN queue' : queue'[i].el = e
  BY <1>1
<1>2. /\ list \in Seq(Elements) /\ SetOf(list) \subseteq Roots
      /\ \A i, j \in DOMAIN list : list[i] = list[j] => i = j
  BY BeginList DEF TreeFits
<1>3. PICK items : items = [i \in DOMAIN list |-> [el |-> list[i], depth |-> 0, parent |-> 0]] OBVIOUS
<1>4. items \in Seq(Items) /\ Len(items) = Len(list) BY <1>2, <1>3, ItemsOf
<1>5. Enqueue(items, 0, <<>>) BY <1>3
<1>6. PICK q : q = <<>> OBVIOUS
<1>7. q \in Seq(Items) /\ Len(q) = 0 BY <1>6
<1>8. job.nodes \in Nat /\ dropped \in BOOLEAN /\ 0 + Len(q) <= job.nodes
  BY <1>7, TreeConstants DEF TreeFits, TreeStands, QueueFits
<1>9. /\ queue' \in Seq(Items) /\ 0 + Len(queue') <= job.nodes
      /\ Len(q) <= Len(queue') /\ Len(queue') <= Len(q) + Len(items)
      /\ \A i \in 1..Len(queue') - Len(q) : queue'[Len(q) + i] = items[i]
      /\ dropped' = (dropped \/ Len(queue') < Len(q) + Len(items))
  <2>1. Enqueue(items, 0, q) /\ 0 \in Nat BY <1>5, <1>6
  <2>2. items \in Seq(Items) /\ q \in Seq(Items) BY <1>4, <1>7
  <2> QED BY <2>1, <2>2, <1>8, EnqueueTakes, Zenon
<1>10. Len(queue') \in Nat /\ DOMAIN queue' = 1..Len(queue') /\ DOMAIN list = 1..Len(list)
       /\ Len(list) \in Nat
  BY <1>9, <1>2
<1>11. Len(queue') <= Len(list) BY <1>9, <1>4, <1>7, <1>10
<1>12. \A i \in DOMAIN queue' : i \in DOMAIN list /\ queue'[i] = items[i]
  <2> SUFFICES ASSUME NEW i \in DOMAIN queue' PROVE i \in DOMAIN list /\ queue'[i] = items[i] OBVIOUS
  <2>1. i \in DOMAIN list BY <1>10, <1>11
  <2>2. i \in 1..Len(queue') - Len(q) /\ Len(q) + i = i BY <1>10, <1>7
  <2> QED BY <2>1, <2>2, <1>9
<1>13. \A i \in DOMAIN queue' : i \in DOMAIN list /\ queue'[i].el = list[i] /\ queue'[i].depth = 0
  <2>1. \A i \in DOMAIN list : items[i].el = list[i] /\ items[i].depth = 0 BY <1>3
  <2> QED BY <2>1, <1>12
<1>14. \A i \in DOMAIN queue' : queue'[i].el \in Roots BY <1>13, <1>2 DEF SetOf
<1>15. \A i, j \in DOMAIN queue' : queue'[i].el = queue'[j].el => i = j BY <1>13, <1>2
<1>16. ASSUME ~dropped' PROVE \A e \in scope'.roots : \E i \in DOMAIN queue' : queue'[i].el = e
  <2>0. Len(queue') < Len(q) + Len(items) => dropped' BY <1>9, Zenon
  <2>1. ~(Len(queue') < Len(q) + Len(items)) BY <2>0, <1>16, Zenon
  <2>2. DOMAIN queue' = DOMAIN list BY <2>1, <1>4, <1>7, <1>10, <1>11
  <2>3. scope'.roots = {list[i] : i \in DOMAIN list} BY <1>1 DEF SetOf
  <2> QED BY <2>2, <2>3, <1>13
<1>17. dropped' \in BOOLEAN BY <1>9, Zenon
<1> QED BY <1>9, <1>10, <1>13, <1>14, <1>15, <1>16, <1>17

\* What a node's children do to the queue: they come last, none of them a root, and all that
\* were read are there, or some were dropped, or are of another window.
LEMMA PushQueue ==
    ASSUME TreeFits, Push
    PROVE  /\ queue' \in Seq(Items) /\ attempted + Len(queue') <= job.nodes /\ dropped' \in BOOLEAN
           /\ Len(queue) <= Len(queue')
           /\ \A i \in DOMAIN queue : queue'[i] = queue[i]
           /\ \A i \in DOMAIN queue' : i \notin DOMAIN queue => queue'[i].el \notin Roots /\ queue'[i].depth # 0
           /\ scope'.window = scope.window \/ (Snapshotting /\ cur.depth = 0 /\ scope'.window # Nil
                  /\ \E i \in DOMAIN cur.got : cur.got[i] = scope'.window)
           /\ scope'.roots = scope.roots /\ DOMAIN scope' = {"roots", "scoped", "window"}
           /\ dropped => dropped'
           /\ ~dropped' =>
                 \A i \in DOMAIN cur.got : cur.got[i] # Nil =>
                    \/ \E k \in DOMAIN queue' : queue'[k].el = cur.got[i]
                    \/ scope'.window # Nil /\ cur.got[i] \in Frames \ {scope'.window}
<1> DEFINE AllGot == {i \in DOMAIN cur.got : cur.got[i] # Nil}
           Chosen(list) == IF Snapshotting /\ cur.depth = 0 /\ job.title # Nil THEN ChosenWindow(list) ELSE Nil
           Keep(list, c) == {i \in DOMAIN list : c = Nil \/ KeptBeside(list[i], c)}
           ItemsFor(kept) == [i \in DOMAIN kept |->
                                 [el |-> kept[i], depth |-> cur.depth + 1, parent |-> Len(nodes) + 1]]
<1>1. PICK list \in InOrder(cur.got, AllGot) : \E kept \in InOrder(list, Keep(list, Chosen(list))) :
          /\ Enqueue(ItemsFor(kept), attempted, queue)
          /\ scope' = IF Chosen(list) = Nil THEN scope ELSE [scope EXCEPT !.window = Chosen(list)]
  BY Zenon DEF Push
<1>2. PICK c, keep : c = Chosen(list) /\ keep = Keep(list, c) OBVIOUS
<1>3. PICK kept \in InOrder(list, keep) :
          /\ Enqueue(ItemsFor(kept), attempted, queue)
          /\ scope' = IF c = Nil THEN scope ELSE [scope EXCEPT !.window = c]
  BY <1>1, <1>2, Zenon
<1>4. keep \in SUBSET DOMAIN list BY <1>2
<1>5. at = "push" BY DEF Push
<1>6. /\ list \in Seq(Elements)
      /\ \A i \in DOMAIN cur.got : cur.got[i] # Nil => cur.got[i] \in SetOf(list)
      /\ \A i \in DOMAIN list : \E j \in DOMAIN cur.got : cur.got[j] # Nil /\ list[i] = cur.got[j]
      /\ kept \in Seq(Elements) /\ SetOf(kept) = {list[i] : i \in keep}
      /\ SetOf(kept) \cap Roots = {}
  <2>1. list \in InOrder(cur.got, {i \in DOMAIN cur.got : cur.got[i] # Nil}) OBVIOUS
  <2> QED BY <2>1, <1>4, <1>5, PushList DEF TreeFits
<1>7. c # Nil => Snapshotting /\ cur.depth = 0 /\ \E i \in DOMAIN cur.got : cur.got[i] = c
  <2> SUFFICES ASSUME c # Nil PROVE Snapshotting /\ cur.depth = 0 /\ c \in SetOf(list)
    BY <1>6 DEF SetOf
  <2>1. Snapshotting /\ cur.depth = 0 /\ c = ChosenWindow(list) BY <1>2
  <2> DEFINE fits == [i \in DOMAIN Rules[job.title] |-> Rules[job.title][i] \cap SetOf(list)]
             first == {i \in DOMAIN fits : fits[i] # {} /\ \A k \in 1..i - 1 : fits[k] = {}}
             only == {e \in SetOf(list) : \E i \in first : fits[i] = {e}}
  <2>2. ChosenWindow(list) = IF Cardinality(SetOf(list) \cap AllWindows) > 1 /\ only # {}
                             THEN CHOOSE e \in only : TRUE ELSE Nil
    BY Zenon DEF ChosenWindow
  <2>3. only \subseteq SetOf(list) OBVIOUS
  <2> HIDE DEF only
  <2>4. c \in only BY <2>1, <2>2
  <2> QED BY <2>1, <2>3, <2>4
<1>8. PICK d, m : d = cur.depth + 1 /\ m = Len(nodes) + 1 OBVIOUS
<1>9. d \in Nat /\ m \in Nat /\ d # 0 BY <1>8 DEF TreeFits, CurFits, QueueFits
<1>10. PICK items : items = [i \in DOMAIN kept |-> [el |-> kept[i], depth |-> d, parent |-> m]] OBVIOUS
<1>11. items \in Seq(Items) /\ Len(items) = Len(kept) /\ DOMAIN items = DOMAIN kept
  BY <1>6, <1>9, <1>10, ItemsOf
<1>12. Enqueue(items, attempted, queue) BY <1>3, <1>8, <1>10
<1>13. job.nodes \in Nat /\ dropped \in BOOLEAN /\ attempted \in Nat
       /\ attempted + Len(queue) <= job.nodes /\ queue \in Seq(Items)
  BY TreeConstants DEF TreeFits, TreeStands, QueueFits
<1>14. /\ queue' \in Seq(Items) /\ attempted + Len(queue') <= job.nodes
       /\ Len(queue) <= Len(queue') /\ Len(queue') <= Len(queue) + Len(items)
       /\ \A i \in 1..Len(queue) : queue'[i] = queue[i]
       /\ \A i \in 1..Len(queue') - Len(queue) : queue'[Len(queue) + i] = items[i]
       /\ dropped' = (dropped \/ Len(queue') < Len(queue) + Len(items))
  BY <1>11, <1>12, <1>13, EnqueueTakes, Zenon
<1>14a. Len(queue') <= Len(queue) + Len(items) BY <1>14, Zenon
<1>15. dropped' \in BOOLEAN /\ (dropped => dropped')
  BY <1>14, Zenon
<1>15a. Len(queue') < Len(queue) + Len(items) => dropped' BY <1>14, Zenon
<1>16. /\ Len(queue) \in Nat /\ Len(queue') \in Nat /\ Len(kept) \in Nat /\ Len(items) = Len(kept)
       /\ DOMAIN queue = 1..Len(queue) /\ DOMAIN queue' = 1..Len(queue') /\ DOMAIN kept = 1..Len(kept)
  BY <1>6, <1>11, <1>13, <1>14
<1>16a. Len(queue) \in Nat /\ Len(queue') \in Nat /\ Len(kept) \in Nat /\ Len(items) = Len(kept)
  BY <1>16
<1>17. \A i \in DOMAIN items : items[i].el = kept[i] /\ items[i].depth = d BY <1>10
<1>18. ASSUME NEW i \in DOMAIN queue', i \notin DOMAIN queue
       PROVE  queue'[i].el \notin Roots /\ queue'[i].depth # 0
  <2>1. /\ i - Len(queue) \in 1..Len(queue') - Len(queue) /\ Len(queue) + (i - Len(queue)) = i
        /\ i - Len(queue) \in DOMAIN kept
    BY <1>16, <1>14, <1>18
  <2>2. queue'[i] = items[i - Len(queue)] BY <2>1, <1>14
  <2>3. queue'[i].el = kept[i - Len(queue)] /\ queue'[i].depth = d BY <2>1, <2>2, <1>17, <1>11
  <2> QED BY <2>1, <2>3, <1>6, <1>9 DEF SetOf
<1>19. ASSUME ~dropped', NEW e \in SetOf(kept) PROVE \E k \in DOMAIN queue' : queue'[k].el = e
  <2>00. ~dropped' BY <1>19
  <2>0. ~(Len(queue') < Len(queue) + Len(items)) BY <1>15a, <2>00, Zenon
  <2>1. Len(queue') = Len(queue) + Len(kept) BY <2>0, <1>14a, <1>16a
  <2>2. PICK i \in DOMAIN kept : e = kept[i] BY DEF SetOf
  <2>3. i \in 1..Len(queue') - Len(queue) /\ Len(queue) + i \in DOMAIN queue' BY <2>1, <2>2, <1>16
  <2>4. queue'[Len(queue) + i] = items[i] BY <2>3, <1>14
  <2> QED BY <2>2, <2>3, <2>4, <1>17, <1>11
<1>20. /\ scope'.window = IF c = Nil THEN scope.window ELSE c
       /\ scope'.roots = scope.roots /\ DOMAIN scope' = {"roots", "scoped", "window"}
  BY <1>3 DEF TreeFits, ScopeFits
<1>21. ASSUME ~dropped', NEW i \in DOMAIN cur.got, cur.got[i] # Nil
       PROVE  \/ \E k \in DOMAIN queue' : queue'[k].el = cur.got[i]
              \/ scope'.window # Nil /\ cur.got[i] \in Frames \ {scope'.window}
  <2>1. PICK k \in DOMAIN list : list[k] = cur.got[i] BY <1>6, <1>21 DEF SetOf
  <2>2. CASE k \in keep
    <3>1. cur.got[i] \in SetOf(kept) BY <2>1, <2>2, <1>6
    <3> QED BY <3>1, <1>19, <1>21
  <2>3. CASE k \notin keep
    <3>1. c # Nil /\ ~KeptBeside(list[k], c) BY <2>3, <1>2
    <3> QED BY <3>1, <2>1, <1>20 DEF KeptBeside
  <2> QED BY <2>2, <2>3
<1> HIDE DEF AllGot, Chosen, Keep, ItemsFor
<1> QED BY <1>7, <1>14, <1>15, <1>16, <1>18, <1>20, <1>21


LEMMA TailOf ==
    ASSUME NEW q \in Seq(Items), q # <<>>
    PROVE  /\ Tail(q) \in Seq(Items) /\ Len(Tail(q)) = Len(q) - 1 /\ Len(q) \in Nat \ {0}
           /\ DOMAIN q = 1..Len(q) /\ DOMAIN Tail(q) = 1..Len(q) - 1
           /\ \A i \in DOMAIN Tail(q) : Tail(q)[i] = q[i + 1] /\ i + 1 \in DOMAIN q
           /\ Head(q) = q[1] /\ 1 \in DOMAIN q /\ Head(q) \in Items
OBVIOUS

\* A node is read: it leaves the queue, or the queue is emptied for it.
LEMMA NodeIsRead ==
    ASSUME TreeFits, ReadNode
    PROVE  /\ queue # <<>> /\ attempted < job.nodes /\ attempted' = attempted + 1
           /\ queue' = Tail(queue) \/ queue' = <<>>
           /\ Head(queue) \in Items
           /\ at = "loop"
BY TailOf DEF ReadNode, Narrow, TreeFits, QueueFits

LEMMA QueueFitsStep == TreeFits /\ TreeNext => QueueFits'
<1> SUFFICES ASSUME TreeFits, TreeNext PROVE QueueFits' OBVIOUS
<1>0. Roots' = Roots /\ TreeStands /\ QueueFits /\ CurFits BY RootsStay DEF TreeFits
<1>1. CASE UNCHANGED <<job, queue, attempted, dropped, cut, nodes>> BY <1>0, <1>1 DEF QueueFits
<1>2. CASE UNCHANGED <<job, queue, attempted, dropped, nodes>> /\ cut' \in BOOLEAN
  BY <1>0, <1>2 DEF QueueFits
<1>3. CASE BeginReading
  <2>1. at = "begin" /\ attempted' = attempted /\ job' = job /\ cut' = cut /\ nodes' = nodes
    BY <1>3 DEF BeginReading
  <2>2. attempted = 0 BY <2>1 DEF TreeFits, ScopeFits, TreeBegins
  <2>3. CASE UNCHANGED <<queue, dropped>> BY <2>1, <2>3, <1>1
  <2>4. CASE /\ queue' \in Seq(Items) /\ Len(queue') <= job.nodes /\ dropped' \in BOOLEAN
             /\ \A i \in DOMAIN queue' : queue'[i].el \in Roots /\ queue'[i].depth = 0
             /\ \A i, j \in DOMAIN queue' : queue'[i].el = queue'[j].el => i = j
    <3>1. attempted' + Len(queue') <= job'.nodes BY <2>1, <2>2, <2>4
    <3> QED BY <2>1, <2>4, <1>0, <3>1 DEF QueueFits
  <2> QED BY <2>3, <2>4, <1>3, BeginQueue
<1>4. CASE ReadNode
  <2>1. /\ queue # <<>> /\ attempted < job.nodes /\ attempted' = attempted + 1
        /\ queue' = Tail(queue) \/ queue' = <<>>
        /\ job' = job /\ nodes' = nodes
    BY <1>4, NodeIsRead DEF ReadNode
  <2>2. job.nodes \in Nat BY <1>0, TreeConstants DEF TreeStands
  <2>3. dropped' \in BOOLEAN /\ cut' \in BOOLEAN
    BY <1>4, <1>0 DEF ReadNode, Narrow, QueueFits
  <2>4. CASE queue' = <<>>
    <3>1. queue' \in Seq(Items) /\ Len(queue') = 0 /\ DOMAIN queue' = {} BY <2>4
    <3>2. attempted' \in Nat /\ attempted' + Len(queue') <= job'.nodes
      BY <3>1, <2>1, <2>2, <1>0 DEF QueueFits
    <3> QED BY <3>1, <3>2, <2>1, <2>3, <1>0 DEF QueueFits
  <2>5. CASE queue' = Tail(queue)
    <3>1. /\ queue' \in Seq(Items) /\ Len(queue') = Len(queue) - 1 /\ Len(queue) \in Nat \ {0}
          /\ \A i \in DOMAIN queue' : queue'[i] = queue[i + 1] /\ i + 1 \in DOMAIN queue
          /\ DOMAIN queue' = 1..Len(queue) - 1
      BY <2>1, <2>5, <1>0, TailOf DEF QueueFits
    <3>2. attempted' \in Nat /\ attempted' + Len(queue') <= job'.nodes
      BY <3>1, <2>1, <2>2, <1>0 DEF QueueFits
    <3>3. \A i \in DOMAIN queue' : queue'[i].depth = 0 <=> queue'[i].el \in Roots
      BY <3>1, <1>0 DEF QueueFits
    <3>4. \A i, j \in DOMAIN queue' : queue'[i].el = queue'[j].el /\ queue'[i].el \in Roots => i = j
      <4>1. \A i, j \in DOMAIN queue' : queue'[i].el = queue'[j].el /\ queue'[i].el \in Roots => i + 1 = j + 1
        BY <3>1, <1>0 DEF QueueFits
      <4> QED BY <4>1, <3>1
    <3> QED BY <3>1, <3>2, <3>3, <3>4, <2>1, <2>3, <1>0 DEF QueueFits
  <2> QED BY <2>1, <2>4, <2>5
<1>5. CASE Push
  <2>1. at = "push" /\ attempted' = attempted /\ job' = job /\ cut' = cut BY <1>5 DEF Push
  <2>2. /\ queue' \in Seq(Items) /\ attempted + Len(queue') <= job.nodes /\ dropped' \in BOOLEAN
        /\ Len(queue) <= Len(queue')
        /\ \A i \in DOMAIN queue : queue'[i] = queue[i]
        /\ \A i \in DOMAIN queue' : i \notin DOMAIN queue => queue'[i].el \notin Roots /\ queue'[i].depth # 0
    BY <1>5, PushQueue
  <2>3. DOMAIN queue = 1..Len(queue) /\ DOMAIN queue' = 1..Len(queue')
    BY <2>2, <1>0 DEF QueueFits
  <2>4. \A i \in DOMAIN queue' : queue'[i].depth = 0 <=> queue'[i].el \in Roots
    BY <2>2, <1>0 DEF QueueFits
  <2>5. \A i, j \in DOMAIN queue' : queue'[i].el = queue'[j].el /\ queue'[i].el \in Roots => i = j
    BY <2>2, <1>0 DEF QueueFits
  <2>6. nodes' \in Seq([el : Elements, parent : Nat])
    <3>1. cur.el \in Elements /\ cur.parent \in Nat BY <2>1, <1>0 DEF CurFits, Reading
    <3>2. nodes' = nodes \/ nodes' = Append(nodes, [el |-> cur.el, parent |-> cur.parent])
      BY <1>5 DEF Push
    <3>3. nodes \in Seq([el : Elements, parent : Nat]) BY <1>0 DEF QueueFits
    <3>4. PICK r : r = [el |-> cur.el, parent |-> cur.parent] OBVIOUS
    <3>5. r \in [el : Elements, parent : Nat] BY <3>1, <3>4
    <3>6. Append(nodes, r) \in Seq([el : Elements, parent : Nat]) BY <3>3, <3>5, AppendProperties
    <3> QED BY <3>2, <3>3, <3>4, <3>6
  <2> QED BY <2>1, <2>2, <2>4, <2>5, <2>6, <1>0 DEF QueueFits
<1>6. CASE AppStep BY <1>1, <1>6, AppKeeps
<1>7. CASE BeginFails BY <1>1, <1>7 DEF BeginFails, walkVars
<1>8. CASE CountKids
  <2>1. UNCHANGED <<job, queue, attempted, dropped, nodes>> BY <1>8 DEF CountKids
  <2>2. cut' \in BOOLEAN BY <1>8, <1>0 DEF CountKids, QueueFits
  <2> QED BY <1>2, <2>1, <2>2
<1>9. CASE StayAbove
  <2>1. UNCHANGED <<job, queue, attempted, dropped, nodes>> BY <1>9 DEF StayAbove, walkVars
  <2>2. cut' \in BOOLEAN BY <1>9, <1>0 DEF StayAbove, LeavesUnread, QueueFits
  <2> QED BY <1>2, <2>1, <2>2
<1>10. CASE StopReading BY <1>2, <1>10 DEF StopReading, walkVars
<1>11. CASE EndReading
  <2>1. UNCHANGED <<job, queue, attempted, dropped, nodes>> BY <1>11 DEF EndReading, walkVars
  <2>2. cut' \in BOOLEAN BY <1>11, <1>0 DEF EndReading, QueueFits
  <2> QED BY <1>2, <2>1, <2>2
<1>12. ASSUME NEW i, ReadKid(i) PROVE QueueFits' BY <1>1, <1>12 DEF ReadKid, walkVars
<1> QED BY <1>3, <1>4, <1>5, <1>6, <1>7, <1>8, <1>9, <1>10, <1>11, <1>12 DEF TreeNext, ReaderStep


CurType == [el : Elements \cup {Nil}, depth : Nat, parent : Nat, count : Nat,
            got : Seq(Elements \cup {Nil}), left : SUBSET Nat]

LEMMA NoCurType == NoCur \in CurType /\ NoCur.left \subseteq DOMAIN NoCur.got
<1>1. PICK e : e = <<>> OBVIOUS
<1>2. e \in Seq(Elements \cup {Nil}) BY <1>1
<1>3. NoCur.got = e BY <1>1 DEF NoCur
<1>4. NoCur = [el |-> Nil, depth |-> 0, parent |-> 0, count |-> 0, got |-> e, left |-> {}]
  BY <1>1, Zenon DEF NoCur
<1>5. {} \subseteq Nat OBVIOUS
<1>6. NoCur \in CurType BY <1>2, <1>4, <1>5 DEF CurType
<1>7. NoCur.left = {} BY <1>4
<1> QED BY <1>6, <1>7

\* The node that is read next, before its children are.
LEMMA FreshCur ==
    ASSUME NEW item \in Items, NEW n \in Nat
    PROVE  LET c == [NoCur EXCEPT !.el = item.el, !.depth = item.depth, !.parent = item.parent, !.count = n]
               d == [NoCur EXCEPT !.el = item.el, !.depth = item.depth, !.parent = item.parent] IN
           /\ c \in CurType /\ c.el = item.el /\ c.depth = item.depth /\ c.count = n
           /\ c.left = {} /\ DOMAIN c.got = {}
           /\ d \in CurType /\ d.el = item.el /\ d.depth = item.depth /\ d.count = 0
           /\ d.left = {} /\ DOMAIN d.got = {}
<1> DEFINE c == [NoCur EXCEPT !.el = item.el, !.depth = item.depth, !.parent = item.parent, !.count = n]
           d == [NoCur EXCEPT !.el = item.el, !.depth = item.depth, !.parent = item.parent]
<1>1. item.el \in Elements /\ item.depth \in Nat /\ item.parent \in Nat BY DEF Items
<1>2. PICK e : e = <<>> OBVIOUS
<1>3. e \in Seq(Elements \cup {Nil}) /\ DOMAIN e = {} /\ {} \subseteq Nat BY <1>2
<1>4. PICK z : z = NoCur OBVIOUS
<1>5. z \in CurType BY <1>4, NoCurType
<1>6. z.count = 0 /\ z.left = {} /\ z.got = e BY <1>2, <1>4 DEF NoCur
<1>7. PICK a, b, k : a = item.el /\ b = item.depth /\ k = item.parent OBVIOUS
<1>8. PICK u : u = [z EXCEPT !.el = a, !.depth = b, !.parent = k] OBVIOUS
<1>9. /\ u \in CurType /\ u.el = a /\ u.depth = b /\ u.count = 0 /\ u.left = {} /\ u.got = e
  BY <1>1, <1>5, <1>6, <1>7, <1>8 DEF CurType
<1>10. PICK v : v = [u EXCEPT !.count = n] OBVIOUS
<1>11. v \in CurType /\ v.el = a /\ v.depth = b /\ v.count = n /\ v.left = {} /\ v.got = e
  BY <1>9, <1>10 DEF CurType
<1>12. c = v /\ d = u BY <1>4, <1>7, <1>8, <1>10, Zenon
<1> HIDE DEF c, d
<1>13. /\ c \in CurType /\ c.el = item.el /\ c.depth = item.depth /\ c.count = n
       /\ c.left = {} /\ DOMAIN c.got = {}
  BY <1>3, <1>7, <1>11, <1>12
<1>14. /\ d \in CurType /\ d.el = item.el /\ d.depth = item.depth /\ d.count = 0
       /\ d.left = {} /\ DOMAIN d.got = {}
  BY <1>3, <1>7, <1>9, <1>12
<1> QED BY <1>13, <1>14, Zenon DEF c, d
\* What reading a node makes of cur: nothing, or the node with none of its children read.
LEMMA ReadNodeCur ==
    ASSUME TreeFits, ReadNode
    PROVE  \/ cur' = NoCur /\ at' = "loop" /\ Head(queue).el \in failed' /\ queue' = Tail(queue)
              /\ (cut' => cut \/ ~Snapshotting) /\ (~Snapshotting => cut') /\ UNCHANGED <<dropped, container>>
           \/ /\ cur' \in CurType /\ cur'.el = Head(queue).el /\ cur'.depth = Head(queue).depth
              /\ cur'.left = {} /\ DOMAIN cur'.got = {} /\ at' \in {"kids", "done"}
              /\ cur'.el \notin failed' => cur'.count = Len(kids[cur'.el])
<1>1. Head(queue) \in Items /\ at = "loop" BY NodeIsRead
<1>2. cur = NoCur BY <1>1 DEF TreeFits, CurFits
<1>3. PICK item : item = Head(queue) OBVIOUS
<1>4. item \in Items BY <1>1, <1>3
<1>5. CASE /\ Fault(item.el) /\ queue' = Tail(queue) /\ cut' = (cut \/ ~Snapshotting)
           /\ UNCHANGED <<at, cur>> /\ UNCHANGED <<dropped, container>>
  <2>1. item.el \in failed' BY <1>5 DEF Fault
  <2>2. cut' => cut \/ ~Snapshotting BY <1>5
  <2>3. ~Snapshotting => cut' BY <1>5, Zenon
  <2> QED BY <1>1, <1>2, <1>3, <1>5, <2>1, <2>2, <2>3
<1>6. CASE /\ Fault(item.el) /\ Snapshotting /\ at' = "kids"
           /\ cur' = [NoCur EXCEPT !.el = item.el, !.depth = item.depth, !.parent = item.parent]
  <2>1. item.el \in failed' BY <1>6 DEF Fault
  <2>2. /\ cur' \in CurType /\ cur'.el = item.el /\ cur'.depth = item.depth
        /\ cur'.left = {} /\ DOMAIN cur'.got = {}
    BY <1>4, <1>6, FreshCur, 0 \in Nat, Zenon
  <2> QED BY <1>3, <1>6, <2>1, <2>2
<1>7. CASE /\ at' \in {"kids", "done"}
           /\ cur' = [NoCur EXCEPT !.el = item.el, !.depth = item.depth, !.parent = item.parent,
                                   !.count = Len(kids[item.el])]
  <2>1. Len(kids[item.el]) \in Nat BY <1>4 DEF Items, TreeFits, TreeStands, Places
  <2>2. /\ cur' \in CurType /\ cur'.el = item.el /\ cur'.depth = item.depth
        /\ cur'.left = {} /\ DOMAIN cur'.got = {} /\ cur'.count = Len(kids[item.el])
    BY <1>4, <1>7, <2>1, FreshCur, Zenon
  <2> QED BY <1>3, <1>7, <2>2
<1> QED BY <1>3, <1>5, <1>6, <1>7 DEF ReadNode, Narrow, probeVars

LEMMA CountOf ==
    ASSUME TreeFits, at = "kids"
    PROVE  /\ Least(Len(kids[cur.el]), Least(reads, Capacity(attempted, queue))) \in Nat
           /\ Least(Len(kids[cur.el]), Least(reads, Capacity(attempted, queue))) <= Len(kids[cur.el])
           /\ Least(Len(kids[cur.el]), Least(reads, Capacity(attempted, queue))) <= reads
           /\ Len(kids[cur.el]) \in Nat
<1>1. reads \in Nat /\ attempted \in Nat /\ Len(queue) \in Nat
  BY DEF TreeFits, QueueFits, ReadsFit
<1>2. job.nodes \in Nat BY TreeConstants DEF TreeFits, TreeStands
<1>3. kids[cur.el] \in Seq(Elements) BY DEF TreeFits, CurFits, Reading, TreeStands, Places
<1>4. Len(kids[cur.el]) \in Nat BY <1>3
<1>5. Capacity(attempted, queue) \in Nat BY <1>1, <1>2 DEF Capacity
<1> QED BY <1>1, <1>4, <1>5 DEF Least

\* What reading one child makes of cur.
LEMMA ReadKidCur ==
    ASSUME TreeFits, NEW i \in cur.left, ReadKid(i)
    PROVE  /\ cur' \in CurType /\ cur'.left = cur.left \ {i} /\ cur'.el = cur.el /\ cur'.depth = cur.depth
           /\ DOMAIN cur'.got = DOMAIN cur.got /\ cur'.left \subseteq DOMAIN cur'.got
           /\ cur'.count = cur.count
           /\ \A j \in DOMAIN cur.got : j # i => cur'.got[j] = cur.got[j]
           /\ \/ cur'.got = cur.got /\ (i \in DOMAIN kids[cur.el] => kids[cur.el][i] \in failed')
              \/ i \in DOMAIN kids[cur.el] /\ cur'.got[i] = kids[cur.el][i]
<1>1. cur \in CurType /\ cur.left \subseteq DOMAIN cur.got /\ at = "reading"
  BY DEF TreeFits, CurFits, CurType, ReadKid
<1>2. CASE cur' = [cur EXCEPT !.left = @ \ {i}] /\ (i \in DOMAIN kids[cur.el] => Fault(kids[cur.el][i]))
  BY <1>1, <1>2 DEF CurType, Fault
<1>3. CASE i \in DOMAIN kids[cur.el] /\ cur' = [cur EXCEPT !.got[i] = kids[cur.el][i], !.left = @ \ {i}]
  <2>1. kids[cur.el] \in Seq(Elements) BY <1>1 DEF TreeFits, CurFits, Reading, TreeStands, Places
  <2>2. kids[cur.el][i] \in Elements BY <2>1, <1>3
  <2>3. PICK x, g : x = kids[cur.el][i] /\ g = [cur.got EXCEPT ![i] = x] OBVIOUS
  <2>4. g \in Seq(Elements \cup {Nil}) /\ DOMAIN g = DOMAIN cur.got /\ g[i] = x
        /\ \A j \in DOMAIN cur.got : j # i => g[j] = cur.got[j]
    BY <2>2, <2>3, <1>1 DEF CurType
  <2>5. cur' = [cur EXCEPT !.got = g, !.left = @ \ {i}] BY <1>3, <1>1, <2>3 DEF CurType
  <2>6. cur' \in CurType /\ cur'.got = g /\ cur'.left = cur.left \ {i} /\ cur'.el = cur.el
        /\ cur'.depth = cur.depth /\ cur'.count = cur.count
    BY <2>4, <2>5, <1>1 DEF CurType
  <2> QED BY <2>3, <2>4, <2>6, <1>1, <1>3
<1> QED BY <1>2, <1>3 DEF ReadKid

LEMMA ReadsFitStep == TreeFits /\ TreeNext => ReadsFit'
<1> SUFFICES ASSUME TreeFits, TreeNext PROVE reads' \in Nat BY DEF ReadsFit
<1>1. CASE ReadNode
  <2>1. attempted \in Nat /\ job.nodes \in Nat /\ reads \in Nat
    BY TreeConstants DEF TreeFits, QueueFits, TreeStands, ReadsFit
  <2>2. Capacity(attempted + 1, <<>>) \in Nat BY <2>1 DEF Capacity
  <2> QED BY <1>1, <2>1, <2>2 DEF ReadNode, Narrow
<1>2. CASE CountKids
  <2>1. reads \in Nat /\ at = "kids" BY <1>2 DEF TreeFits, ReadsFit, CountKids
  <2>2. PICK n : n = Least(Len(kids[cur.el]), Least(reads, Capacity(attempted, queue))) OBVIOUS
  <2>3. n \in Nat /\ n <= reads BY <2>1, <2>2, CountOf
  <2>4. reads' = reads \/ reads' = reads - n BY <1>2, <2>2 DEF CountKids
  <2> QED BY <2>1, <2>3, <2>4
<1>3. CASE AppStep BY <1>3, AppKeeps DEF TreeFits, ReadsFit
<1>4. ASSUME ReaderStep, ~ReadNode, ~CountKids PROVE reads' = reads
  BY <1>4 DEF ReaderStep, BeginReading, BeginFails, StayAbove, Push, StopReading, EndReading, ReadKid,
     walkVars
<1> QED BY <1>1, <1>2, <1>3, <1>4 DEF TreeNext, TreeFits, ReadsFit

LEMMA CurFitsStep == TreeFits /\ TreeNext => CurFits'
<1> SUFFICES ASSUME TreeFits, TreeNext PROVE CurFits' OBVIOUS
<1>0. Roots' = Roots /\ CurFits /\ cur \in CurType BY RootsStay DEF TreeFits, CurFits, CurType
<1>1. CASE cur' \in CurType /\ cur'.left \subseteq DOMAIN cur'.got /\ at' = "done"
  BY <1>1 DEF CurFits, Reading, CurType
<1>2. CASE cur' = NoCur /\ at' = "loop"
  <2>1. cur' \in CurType /\ cur'.left \subseteq DOMAIN cur'.got BY <1>2, NoCurType
  <2> QED BY <1>2, <2>1 DEF CurFits, Reading, CurType
<1>3. CASE cur' \in CurType /\ cur'.left \subseteq DOMAIN cur'.got /\ Reading /\ Reading'
           /\ cur'.el = cur.el /\ cur'.depth = cur.depth
  BY <1>0, <1>3 DEF CurFits, Reading, CurType
<1>4. CASE BeginReading
  <2>1. cur' = NoCur /\ at' \in {"loop", "done"}
    BY <1>4 DEF BeginReading, TreeFits, ScopeFits, TreeBegins
  <2> QED BY <2>1, <1>1, <1>2, NoCurType
<1>5. CASE UNCHANGED cur /\ at' = "done" BY <1>0, <1>1, <1>5 DEF CurFits
<1>6. CASE ReadNode
  <2>1. Head(queue) \in Items /\ queue # <<>> BY <1>6, NodeIsRead
  <2>2. Head(queue).depth = 0 <=> Head(queue).el \in Roots
    BY <2>1, TailOf DEF TreeFits, QueueFits
  <2>3. CASE cur' = NoCur /\ at' = "loop" BY <2>3, <1>2
  <2>4. CASE /\ cur' \in CurType /\ cur'.el = Head(queue).el /\ cur'.depth = Head(queue).depth
             /\ cur'.left = {} /\ DOMAIN cur'.got = {} /\ at' \in {"kids", "done"}
    <3>1. cur'.el \in Elements BY <2>1, <2>4 DEF Items
    <3> QED BY <1>0, <2>2, <2>4, <3>1 DEF CurFits, Reading, CurType
  <2> QED BY <1>6, <2>3, <2>4, ReadNodeCur
<1>7. CASE CountKids
  <2>1. at = "kids" /\ at' \in {"push", "reading"} BY <1>7 DEF CountKids
  <2>2. CASE cur' = cur BY <2>1, <2>2, <1>0, <1>3 DEF Reading, CurFits
  <2>3. CASE \E tries \in Nat : cur' = [cur EXCEPT !.got = [i \in 1..tries |-> Nil], !.left = 1..tries]
    <3>1. PICK tries \in Nat : cur' = [cur EXCEPT !.got = [i \in 1..tries |-> Nil], !.left = 1..tries]
      BY <2>3
    <3>2. PICK g : g = [i \in 1..tries |-> Nil] OBVIOUS
    <3>3. g \in Seq(Elements \cup {Nil}) /\ DOMAIN g = 1..tries /\ 1..tries \subseteq Nat BY <3>2
    <3>4. cur' = [cur EXCEPT !.got = g, !.left = 1..tries] BY <3>1, <3>2
    <3>5. cur' \in CurType /\ cur'.got = g /\ cur'.left = 1..tries /\ cur'.el = cur.el
          /\ cur'.depth = cur.depth
      BY <3>3, <3>4, <1>0 DEF CurType
    <3> QED BY <2>1, <3>3, <3>5, <1>3 DEF Reading
  <2>4. ASSUME cur' # cur PROVE \E tries \in Nat : cur' = [cur EXCEPT !.got = [i \in 1..tries |-> Nil], !.left = 1..tries]
    <3> DEFINE tries == Least(Len(kids[cur.el]), Least(reads, Capacity(attempted, queue)))
    <3>1. cur' = [cur EXCEPT !.got = [i \in 1..tries |-> Nil], !.left = 1..tries]
      BY <1>7, <2>4, Zenon DEF CountKids
    <3>2. tries \in Nat BY <2>1, CountOf
    <3> QED BY <3>1, <3>2, Zenon
  <2> QED BY <2>2, <2>3, <2>4
<1>8. CASE StayAbove BY <1>8, <1>0, <1>3 DEF StayAbove, Reading, CurFits
<1>9. ASSUME NEW i \in cur.left, ReadKid(i) PROVE CurFits'
  <2>1. at = "reading" /\ at' \in {"push", "reading"} BY <1>9 DEF ReadKid
  <2>2. cur' \in CurType /\ cur'.left \subseteq DOMAIN cur'.got /\ cur'.el = cur.el /\ cur'.depth = cur.depth
    BY <1>9, ReadKidCur DEF TreeFits
  <2> QED BY <2>1, <2>2, <1>3 DEF Reading
<1>10. CASE Push BY <1>10, <1>2 DEF Push
<1>11. CASE AppStep
  <2>1. UNCHANGED <<cur, at>> BY <1>11, AppKeeps
  <2> QED BY <2>1, <1>0 DEF CurFits, Reading
<1>12. CASE BeginFails \/ StopReading \/ EndReading
  BY <1>5, <1>12 DEF BeginFails, StopReading, EndReading
<1> QED BY <1>4, <1>6, <1>7, <1>8, <1>9, <1>10, <1>11, <1>12 DEF TreeNext, ReaderStep


\* Whose children changed is remembered, and so is what failed.
LEMMA AppEdits ==
    ASSUME TreeStands, AppStep
    PROVE  edited \subseteq edited' /\ \A q \in Places : kids'[q] = kids[q] \/ q \in edited'
BY DEF AppStep, Detaches, Attaches, FocusGoes, TreeStands, Places

LEMMA FailedGrows == TreeNext => failed \subseteq failed'
<1> SUFFICES ASSUME TreeNext PROVE failed \subseteq failed' OBVIOUS
<1>1. CASE AppStep BY <1>1, AppKeeps
<1>2. CASE ReadNode BY <1>2 DEF ReadNode, Fault, Answers, faultVars
<1>3. CASE CountKids BY <1>3 DEF CountKids, Fault, Answers, faultVars
<1>4. CASE StayAbove BY <1>4 DEF StayAbove, LeavesUnread, Fault, faultVars
<1>5. ASSUME NEW i, ReadKid(i) PROVE failed \subseteq failed'
  BY <1>5 DEF ReadKid, Fault, faultVars
<1>6. CASE BeginReading \/ BeginFails \/ Push \/ StopReading \/ EndReading
  BY <1>6 DEF BeginReading, BeginFails, Push, StopReading, EndReading, faultVars
<1> QED BY <1>1, <1>2, <1>3, <1>4, <1>5, <1>6 DEF TreeNext, ReaderStep

\* What CountKids makes of cur: the node's count is its number of children, or something failed
\* or was cut.
LEMMA CountKidsCur ==
    ASSUME TreeFits, CountKids
    PROVE  \/ cur' = cur /\ cur.el \in failed' /\ at' = "push"
           \/ \E n \in Nat : /\ n <= Len(kids[cur.el]) /\ cur'.el = cur.el
                             /\ n < Len(kids[cur.el]) => cut'
                             /\ DOMAIN cur'.got = 1..n /\ \A i \in 1..n : cur'.got[i] = Nil
                             /\ cur'.left = 1..n /\ at' = IF n = 0 THEN "push" ELSE "reading"
<1>1. at = "kids" /\ cur \in CurType BY DEF CountKids, TreeFits, CurFits, CurType
<1>2. CASE Fault(cur.el) /\ at' = "push" /\ cur' = cur BY <1>2 DEF Fault
<1>3. PICK n, m : n = Least(Len(kids[cur.el]), Least(reads, Capacity(attempted, queue))) /\ m = Len(kids[cur.el])
  OBVIOUS
<1>4. n \in Nat /\ n <= m /\ m \in Nat BY <1>1, <1>3, CountOf
<1>5. CASE /\ cut' = (cut \/ n < m \/ (Snapshotting /\ n = 0 /\ cur.count > 0))
           /\ cur' = [cur EXCEPT !.got = [i \in 1..n |-> Nil], !.left = 1..n]
           /\ at' = IF n = 0 THEN "push" ELSE "reading"
  <2>1. PICK g : g = [i \in 1..n |-> Nil] OBVIOUS
  <2>2. DOMAIN g = 1..n /\ \A i \in 1..n : g[i] = Nil BY <2>1
  <2>3. cur' = [cur EXCEPT !.got = g, !.left = 1..n] BY <1>5, <2>1
  <2>4. cur'.got = g /\ cur'.left = 1..n /\ cur'.el = cur.el BY <2>3, <1>1 DEF CurType
  <2>5. n < m => cut' BY <1>5, Zenon
  <2> QED BY <2>2, <2>4, <2>5, <1>3, <1>4, <1>5
<1> QED BY <1>2, <1>3, <1>5 DEF CountKids

LEMMA GotIsOwnStep == TreeFits /\ TreeNext => GotIsOwn'
<1> SUFFICES ASSUME TreeFits, TreeNext PROVE GotIsOwn' OBVIOUS
<1>0. TreeStands /\ GotIsOwn /\ CurFits BY DEF TreeFits
<1>1. CASE DOMAIN cur'.got = {} /\ cur'.left = {} BY <1>1 DEF GotIsOwn
<1>2. CASE cur' = NoCur
  <2>1. DOMAIN cur'.got = {} /\ cur'.left = {} BY <1>2 DEF NoCur
  <2> QED BY <1>1, <2>1
<1>3. CASE UNCHANGED <<kids, edited, cur>> /\ (at' \in {"kids", "push"} => at \in {"kids", "push"})
  BY <1>0, <1>3 DEF GotIsOwn, Places
<1>4. CASE AppStep
  <2>1. UNCHANGED <<at, cur>> BY <1>4, AppKeeps
  <2>2. edited \subseteq edited' /\ \A q \in Places : kids'[q] = kids[q] \/ q \in edited'
    BY <1>0, <1>4, AppEdits
  <2> QED BY <2>1, <2>2, <1>0 DEF GotIsOwn, Places
<1>5. CASE BeginReading
  BY <1>2, <1>5 DEF BeginReading, TreeFits, ScopeFits, TreeBegins
<1>6. CASE ReadNode
  BY <1>1, <1>2, <1>6, ReadNodeCur
<1>7. CASE CountKids
  <2>1. UNCHANGED <<kids, edited>> /\ at = "kids" BY <1>7 DEF CountKids, worldVars
  <2>2. CASE cur' = cur BY <2>1, <2>2, <1>3, <1>7
  <2>3. CASE \E n \in Nat : /\ cur'.el = cur.el
                            /\ DOMAIN cur'.got = 1..n /\ \A i \in 1..n : cur'.got[i] = Nil
                            /\ cur'.left = 1..n /\ at' = IF n = 0 THEN "push" ELSE "reading"
    <3>1. \A i \in DOMAIN cur'.got : cur'.got[i] = Nil BY <2>3
    <3>2. at' \in {"kids", "push"} => cur'.left = {} BY <2>3
    <3> QED BY <3>1, <3>2 DEF GotIsOwn
  <2> QED BY <1>7, <2>2, <2>3, CountKidsCur
<1>8. ASSUME NEW i \in cur.left, ReadKid(i) PROVE GotIsOwn'
  <2>1. UNCHANGED <<kids, edited>> /\ at' = IF cur.left = {i} THEN "push" ELSE at
    BY <1>8 DEF ReadKid, worldVars
  <2>2. /\ cur'.left = cur.left \ {i} /\ cur'.el = cur.el
        /\ DOMAIN cur'.got = DOMAIN cur.got
        /\ \A j \in DOMAIN cur.got : j # i => cur'.got[j] = cur.got[j]
        /\ \/ cur'.got = cur.got
           \/ i \in DOMAIN kids[cur.el] /\ cur'.got[i] = kids[cur.el][i]
    BY <1>8, ReadKidCur
  <2>3. at' \in {"kids", "push"} => cur'.left = {} BY <2>1, <2>2, <1>8 DEF ReadKid
  <2>4. cur.el \in Places BY <1>0, <1>8 DEF ReadKid, CurFits, Reading, Places
  <2>5. ASSUME NEW p \in Places, NEW j \in DOMAIN cur'.got, cur'.got[j] # Nil, cur'.got[j] \in SetOf(kids'[p])
        PROVE  p = cur'.el \/ p \in edited'
    <3>1. CASE cur'.got[j] = cur.got[j] BY <3>1, <2>1, <2>2, <2>5, <1>0 DEF GotIsOwn
    <3>2. CASE j = i /\ i \in DOMAIN kids[cur.el] /\ cur'.got[i] = kids[cur.el][i]
      <4>1. cur'.got[i] \in SetOf(kids[cur.el]) BY <3>2 DEF SetOf
      <4> QED BY <4>1, <3>2, <2>1, <2>2, <2>4, <2>5, <1>0 DEF TreeStands
    <3> QED BY <3>1, <3>2, <2>2
  <2> QED BY <2>3, <2>5 DEF GotIsOwn, Places
<1>9. CASE Push BY <1>2, <1>9 DEF Push
<1>10. CASE BeginFails \/ StayAbove \/ StopReading \/ EndReading
  BY <1>3, <1>10 DEF BeginFails, StayAbove, StopReading, EndReading, worldVars
<1> QED BY <1>4, <1>5, <1>6, <1>7, <1>8, <1>9, <1>10 DEF TreeNext, ReaderStep

LEMMA KidsAreReadStep == TreeFits /\ TreeNext => KidsAreRead'
<1> SUFFICES ASSUME TreeFits, TreeNext PROVE KidsAreRead' OBVIOUS
<1>0. KidsAreRead /\ CurFits /\ TreeStands /\ GotIsOwn /\ failed \subseteq failed' BY FailedGrows DEF TreeFits
<1>1. CASE at' \notin {"kids", "reading", "push"} BY <1>1 DEF KidsAreRead
<1>2. CASE AppStep
  <2>1. UNCHANGED <<at, cur, failed, cut>> BY <1>2, AppKeeps
  <2>2. edited \subseteq edited' /\ \A q \in Places : kids'[q] = kids[q] \/ q \in edited'
    BY <1>0, <1>2, AppEdits
  <2>3. SUFFICES ASSUME Reading PROVE KidsAreRead' BY <2>1, <1>1 DEF Reading
  <2>4. cur.el \in Places BY <2>3, <1>0 DEF CurFits, Places
  <2> QED BY <2>1, <2>2, <2>4, <1>0 DEF KidsAreRead, Steadily
<1>3. CASE ReaderStep
  <2>0. UNCHANGED <<kids, edited>> BY <1>3, ReaderKeeps
  <2>1. CASE ReadNode
    <3>1. cur'.el \notin failed' => cur'.count = Len(kids[cur'.el]) \/ at' = "loop"
      BY <2>1, ReadNodeCur
    <3>2. at' \notin {"reading", "push"} BY <2>1, ReadNodeCur
    <3> QED BY <3>1, <3>2, <2>0 DEF KidsAreRead, Steadily
  <2>2. CASE CountKids
    <3>1. CASE cur' = cur /\ cur.el \in failed' BY <3>1 DEF KidsAreRead, Steadily
    <3>2. CASE \E n \in Nat : /\ n <= Len(kids[cur.el]) /\ cur'.el = cur.el
                              /\ n < Len(kids[cur.el]) => cut'
                              /\ DOMAIN cur'.got = 1..n
                              /\ cur'.left = 1..n /\ at' = IF n = 0 THEN "push" ELSE "reading"
      <4>1. PICK n \in Nat : /\ n <= Len(kids[cur.el]) /\ cur'.el = cur.el
                             /\ n < Len(kids[cur.el]) => cut'
                             /\ cur'.left = 1..n /\ at' = IF n = 0 THEN "push" ELSE "reading"
        BY <3>2
      <4>2. kids[cur.el] \in Seq(Elements)
        BY <1>0, <2>2 DEF CountKids, CurFits, Reading, TreeStands, Places
      <4>3. Len(kids[cur.el]) \in Nat /\ DOMAIN kids[cur.el] = 1..Len(kids[cur.el]) BY <4>2
      <4>4. ASSUME ~cut' PROVE DOMAIN kids[cur.el] = cur'.left
        <5>1. ~(n < Len(kids[cur.el])) BY <4>1, <4>4, Zenon
        <5>2. n = Len(kids[cur.el]) BY <5>1, <4>1, <4>3
        <5> QED BY <5>2, <4>1, <4>3
      <4> QED BY <4>1, <4>4, <2>0 DEF KidsAreRead
    <3> QED BY <2>2, <3>1, <3>2, CountKidsCur
  <2>3. CASE StayAbove
    <3>1. cur' = cur /\ at = "kids" /\ at' = "push" BY <2>3 DEF StayAbove
    <3> SUFFICES ASSUME Steadily(cur.el)', ~cut' PROVE DOMAIN kids[cur.el] = {}
      BY <3>1, <2>0 DEF KidsAreRead, Steadily
    <3>2. ~cut /\ ~SeesUnread
      BY <2>3, Zenon DEF StayAbove, LeavesUnread
    <3>3. Steadily(cur.el) BY <1>0, <2>0, <3>1 DEF Steadily
    <3>4. kids[cur.el] \in Seq(Elements)
      BY <1>0, <3>1 DEF CurFits, Reading, TreeStands, Places
    <3>5. cur.count = Len(kids[cur.el]) BY <1>0, <3>1, <3>2, <3>3 DEF KidsAreRead
    <3>6. Len(kids[cur.el]) = 0
      <4>1. Len(kids[cur.el]) \in Nat BY <3>4
      <4> QED BY <4>1, <3>2, <3>5 DEF SeesUnread
    <3> QED BY <3>4, <3>6
  <2>4. ASSUME NEW i \in cur.left, ReadKid(i) PROVE KidsAreRead'
    <3>1. /\ cur'.left = cur.left \ {i} /\ cur'.el = cur.el
          /\ DOMAIN cur'.got = DOMAIN cur.got
          /\ \A j \in DOMAIN cur.got : j # i => cur'.got[j] = cur.got[j]
          /\ \/ cur'.got = cur.got /\ (i \in DOMAIN kids[cur.el] => kids[cur.el][i] \in failed')
             \/ i \in DOMAIN kids[cur.el] /\ cur'.got[i] = kids[cur.el][i]
      BY <2>4, ReadKidCur
    <3>2. cut' = cut /\ at = "reading" /\ at' # "kids" BY <2>4 DEF ReadKid
    <3>3. i \in DOMAIN cur.got BY <2>4, <1>0 DEF CurFits
    <3> SUFFICES ASSUME Steadily(cur.el)', ~cut', NEW j \in DOMAIN kids[cur.el]
                 PROVE  \/ j \in cur'.left
                        \/ kids[cur.el][j] \in failed'
                        \/ j \in DOMAIN cur'.got /\ cur'.got[j] = kids[cur.el][j]
      BY <3>1, <3>2, <2>0 DEF KidsAreRead, Steadily
    <3>4. Steadily(cur.el) BY <1>0, <2>0, <3>1 DEF Steadily
    <3>5. \/ j \in cur.left
          \/ kids[cur.el][j] \in failed
          \/ j \in DOMAIN cur.got /\ cur.got[j] = kids[cur.el][j]
      BY <1>0, <3>2, <3>4 DEF KidsAreRead
    <3> QED BY <3>1, <3>3, <3>5, <1>0
  <2>5. CASE BeginReading \/ BeginFails \/ Push \/ StopReading \/ EndReading
    BY <1>1, <2>5 DEF BeginReading, BeginFails, Push, StopReading, EndReading
  <2> QED BY <1>3, <2>1, <2>2, <2>3, <2>4, <2>5 DEF ReaderStep
<1> QED BY <1>2, <1>3 DEF TreeNext


LEMMA ScopeFitsStep == TreeFits /\ TreeNext => ScopeFits'
<1> SUFFICES ASSUME TreeFits, TreeNext PROVE ScopeFits' OBVIOUS
<1>0. ScopeFits BY DEF TreeFits
<1>1. CASE UNCHANGED <<job, scope, container>> /\ at' = "done" BY <1>0, <1>1 DEF ScopeFits, Snapshotting
<1>2. CASE UNCHANGED <<job, scope, container, verdict>> /\ at \notin {"begin", "done"} /\ at' # "begin"
  BY <1>0, <1>2 DEF ScopeFits, Snapshotting
<1>3. CASE AppStep
  <2>1. UNCHANGED <<job, scope, container, verdict, at>> /\ at \notin {"begin", "done"} BY <1>3, AppKeeps
  <2> QED BY <2>1, <1>2
<1>4. CASE BeginReading
  <2>1. /\ at = "begin" /\ container' = container /\ at' # "begin" /\ (at' # "done" => verdict' = verdict)
        /\ DOMAIN scope' = {"roots", "scoped", "window"} /\ scope'.window = Nil
    BY <1>4 DEF BeginReading
  <2>2. container = NoContainer /\ verdict = "none_yet" BY <2>1, <1>0 DEF ScopeFits, TreeBegins
  <2> QED BY <2>1, <2>2 DEF ScopeFits, NoContainer
<1>5. CASE ReadNode
  <2>1. Head(queue) \in Items /\ at = "loop" BY <1>5, NodeIsRead
  <2>2. Head(queue).el \in Elements BY <2>1 DEF Items
  <2>3. container' = container \/ container'.el = Head(queue).el
    BY <1>5 DEF ReadNode, Narrow, probeVars
  <2>4. at' # "begin" /\ (at' # "done" => verdict' = verdict) /\ scope' = scope /\ job' = job
    BY <1>5 DEF ReadNode, Narrow, probeVars
  <2> QED BY <2>1, <2>2, <2>3, <2>4, <1>0 DEF ScopeFits, Snapshotting
<1>6. CASE Push
  <2>1. /\ scope'.window = scope.window \/ (Snapshotting /\ cur.depth = 0 /\ scope'.window # Nil
                  /\ \E i \in DOMAIN cur.got : cur.got[i] = scope'.window)
        /\ DOMAIN scope' = {"roots", "scoped", "window"}
    BY <1>6, PushQueue
  <2>2. at' = "loop" /\ at = "push" /\ container' = container /\ verdict' = verdict /\ job' = job
    BY <1>6 DEF Push, probeVars
  <2> QED BY <2>1, <2>2, <1>0 DEF ScopeFits, Snapshotting
<1>7. CASE CountKids \/ StayAbove \/ \E i \in cur.left : ReadKid(i)
  BY <1>2, <1>7 DEF CountKids, StayAbove, ReadKid, probeVars
<1>8. CASE BeginFails \/ StopReading \/ EndReading
  BY <1>1, <1>8 DEF BeginFails, StopReading, EndReading, probeVars
<1> QED BY <1>3, <1>4, <1>5, <1>6, <1>7, <1>8 DEF TreeNext, ReaderStep

LEMMA WaitingHead ==
    ASSUME TreeFits, queue # <<>>
    PROVE  /\ {queue[i].el : i \in DOMAIN queue}
                = {Head(queue).el} \cup {Tail(queue)[i].el : i \in DOMAIN Tail(queue)}
           /\ Head(queue).el \in Roots => \A i \in DOMAIN Tail(queue) : Tail(queue)[i].el # Head(queue).el
<1>1. queue \in Seq(Items) BY DEF TreeFits, QueueFits
<1>2. /\ Len(queue) \in Nat \ {0}
      /\ DOMAIN queue = 1..Len(queue) /\ DOMAIN Tail(queue) = 1..Len(queue) - 1
      /\ \A i \in DOMAIN Tail(queue) : Tail(queue)[i] = queue[i + 1] /\ i + 1 \in DOMAIN queue
      /\ Head(queue) = queue[1] /\ 1 \in DOMAIN queue
  BY <1>1, TailOf
<1>3. \A i \in DOMAIN queue : i # 1 => i - 1 \in DOMAIN Tail(queue) /\ queue[i] = Tail(queue)[i - 1]
  <2> SUFFICES ASSUME NEW i \in DOMAIN queue, i # 1
               PROVE  i - 1 \in DOMAIN Tail(queue) /\ queue[i] = Tail(queue)[i - 1]
    OBVIOUS
  <2>1. i - 1 \in DOMAIN Tail(queue) /\ (i - 1) + 1 = i BY <1>2
  <2> QED BY <2>1, <1>2
<1>4. ASSUME NEW i \in DOMAIN Tail(queue), Head(queue).el \in Roots PROVE Tail(queue)[i].el # Head(queue).el
  <2>1. i + 1 # 1 /\ i + 1 \in DOMAIN queue BY <1>2
  <2> QED BY <2>1, <1>2, <1>4 DEF TreeFits, QueueFits
<1>5. ASSUME NEW i \in DOMAIN queue
      PROVE  queue[i].el = Head(queue).el \/ \E j \in DOMAIN Tail(queue) : queue[i].el = Tail(queue)[j].el
  BY <1>2, <1>3
<1>6. \A j \in DOMAIN Tail(queue) : \E i \in DOMAIN queue : Tail(queue)[j].el = queue[i].el BY <1>2
<1>7. \E i \in DOMAIN queue : Head(queue).el = queue[i].el BY <1>2
<1>8. {queue[i].el : i \in DOMAIN queue} = {Head(queue).el} \cup {Tail(queue)[i].el : i \in DOMAIN Tail(queue)}
  <2>1. {queue[i].el : i \in DOMAIN queue} \subseteq {Head(queue).el} \cup {Tail(queue)[i].el : i \in DOMAIN Tail(queue)}
    BY <1>5, Zenon
  <2>2. {Tail(queue)[i].el : i \in DOMAIN Tail(queue)} \subseteq {queue[i].el : i \in DOMAIN queue}
    BY <1>6, Zenon
  <2>3. Head(queue).el \in {queue[i].el : i \in DOMAIN queue}
    BY <1>7, Zenon
  <2> QED BY <2>1, <2>2, <2>3, Zenon
<1> QED BY <1>4, <1>8, Zenon

\* The walk forgets nothing: what a step takes from what waits was read, failed or is of another window.
LEMMA CoversStays ==
    ASSUME TreeFits, TreeNext, Roots' = Roots, failed \subseteq failed', NEW T \in SUBSET Elements, Covers(T),
           UNCHANGED <<kids, focused, edited, moved, job, scope, container, nodes, queue>>,
           Reading <=> Reading', Reading => cur'.el = cur.el
    PROVE  Covers(T)'
BY DEF Covers, NowWaiting, Base, OtherWindows, Snapshotting, Scoped

LEMMA ReadSoFarStep == TreeFits /\ ReadSoFar /\ TreeNext => ReadSoFar'
<1> SUFFICES ASSUME TreeFits, ReadSoFar, TreeNext, at' \notin {"begin", "done"}, ~cut', ~dropped'
             PROVE  \E T \in SUBSET Elements : Covers(T)'
  BY Zenon DEF ReadSoFar
<1>0. Roots' = Roots /\ failed \subseteq failed' BY RootsStay, FailedGrows DEF TreeFits
<1>1. ASSUME at \notin {"begin", "done"}, ~cut, ~dropped PROVE \E T \in SUBSET Elements : Covers(T)
  BY <1>1 DEF ReadSoFar
<1>2. CASE AppStep
  <2>1. UNCHANGED <<job, at, queue, dropped, cur, nodes, cut, scope, container, failed>>
        /\ at \notin {"begin", "done"}
    BY <1>2, AppKeeps
  <2>2. PICK T \in SUBSET Elements : Covers(T) BY <2>1, <1>1
  <2>3. edited \subseteq edited' /\ \A q \in Places : kids'[q] = kids[q] \/ q \in edited'
    BY <1>2, AppEdits DEF TreeFits
  <2>4. ~moved' => ~moved /\ focused' = focused
    BY <1>2 DEF AppStep, Detaches, Attaches, FocusGoes
  <2>5. NowWaiting' = NowWaiting /\ Base' = Base /\ OtherWindows' = OtherWindows
        /\ (Reading' <=> Reading) /\ (Snapshotting' <=> Snapshotting)
    BY <2>1 DEF NowWaiting, Base, OtherWindows, Reading, Snapshotting, Scoped
  <2>6. \A p \in T \ (edited' \cup failed') : SetOf(kids'[p]) \subseteq OtherWindows \cup failed \cup T \cup NowWaiting
    BY <2>1, <2>2, <2>3 DEF Covers, Places
  <2>7. Covers(T)'
    BY <2>1, <2>2, <2>4, <2>5, <2>6, <1>0 DEF Covers
  <2> QED BY <2>7
<1>3. CASE ReaderStep
  <2>0. UNCHANGED <<kids, focused, edits, edited, moved, job>> BY <1>3, ReaderKeeps
  <2>1. CASE BeginReading
    <3>1. /\ \A i \in DOMAIN queue' : queue'[i].el \in Roots
          /\ \A e \in scope'.roots : \E i \in DOMAIN queue' : queue'[i].el = e
          /\ at' = "loop"
      BY <2>1, BeginQueue
    <3>2. container'.el = Nil
      BY <2>1 DEF BeginReading, TreeFits, ScopeFits, TreeBegins, NoContainer
    <3>3. Covers({})' BY <3>1, <3>2 DEF Covers, NowWaiting, Base, Reading
    <3> QED BY <3>3
  <2>2. CASE ReadNode
    <3>1. at = "loop" /\ queue # <<>> BY <2>2, NodeIsRead
    <3>2. Head(queue).el \in Elements BY <2>2, NodeIsRead DEF Items
    <3>3. UNCHANGED <<nodes, scope>> BY <2>2 DEF ReadNode
    <3>4. /\ {queue[i].el : i \in DOMAIN queue}
                = {Head(queue).el} \cup {Tail(queue)[i].el : i \in DOMAIN Tail(queue)}
          /\ Head(queue).el \in Roots => \A i \in DOMAIN Tail(queue) : Tail(queue)[i].el # Head(queue).el
      BY <3>1, WaitingHead
    <3>5. NowWaiting = {Head(queue).el} \cup {Tail(queue)[i].el : i \in DOMAIN Tail(queue)} /\ ~Reading
      BY <3>1, <3>4 DEF NowWaiting, Reading
    <3>6. CASE /\ at' = "loop" /\ Head(queue).el \in failed' /\ queue' = Tail(queue) /\ Snapshotting /\ ~cut
               /\ UNCHANGED <<dropped, container>>
      <4>1. PICK T \in SUBSET Elements : Covers(T) BY <3>1, <3>6, <1>1
      <4>0. ~Reading' BY <3>6 DEF Reading
      <4>00. NowWaiting' = {Tail(queue)[i].el : i \in DOMAIN Tail(queue)} BY <4>0, <3>6 DEF NowWaiting
      <4>2. NowWaiting \subseteq NowWaiting' \cup failed' /\ NowWaiting' \subseteq NowWaiting /\ ~Reading'
        BY <3>5, <3>6, <4>0, <4>00
      <4>3. OtherWindows' = OtherWindows /\ Base' = Base /\ Snapshotting'
        BY <2>0, <3>3, <3>6 DEF OtherWindows, Base, Snapshotting, Scoped
      <4>4. Covers(T)' BY <2>0, <3>3, <3>6, <4>1, <4>2, <4>3, <1>0 DEF Covers
      <4> QED BY <4>4
    <3>7. CASE /\ at' = "kids" /\ cur'.el = Head(queue).el /\ queue' = Tail(queue) /\ ~cut /\ ~dropped
               /\ Snapshotting \/ \/ cur'.el \notin focused /\ container' = container
                                  \/ cur'.el \in Containers /\ container'.el = cur'.el /\ ~Scoped
               /\ Snapshotting => container' = container
      <4>1. PICK T \in SUBSET Elements : Covers(T) BY <3>1, <3>7, <1>1
      <4>2. NowWaiting' = NowWaiting /\ Reading'
        BY <3>5, <3>7 DEF NowWaiting, Reading
      <4>3. OtherWindows' = OtherWindows /\ Base' = Base /\ (Snapshotting' <=> Snapshotting)
        BY <2>0, <3>3, <3>7 DEF OtherWindows, Base, Snapshotting, Scoped
      <4>4. cur'.el \in Roots => \A i \in DOMAIN queue' : queue'[i].el # cur'.el
        BY <3>4, <3>7
      <4>5. ~Snapshotting /\ ~moved =>
               (T \cup {cur'.el}) \cap focused \subseteq IF container'.el = Nil THEN {} ELSE Containers
        BY <3>2, <3>5, <3>7, <4>1, TreeConstants DEF Covers
      <4>6. Base' \ failed' \subseteq T \cup NowWaiting' BY <4>1, <4>2, <4>3, <1>0 DEF Covers
      <4>7. \A p \in T \ (edited \cup failed') :
               SetOf(kids[p]) \subseteq OtherWindows \cup failed' \cup T \cup NowWaiting
        BY <4>1, <1>0 DEF Covers
      <4>8. Covers(T)'
        BY <2>0, <3>3, <4>1, <4>2, <4>3, <4>4, <4>5, <4>6, <4>7, <1>0 DEF Covers
      <4> QED BY <4>8
    <3>8. CASE /\ at' = "kids" /\ cur'.el = Head(queue).el /\ queue' = <<>> /\ Scoped /\ ~Snapshotting
               /\ cur'.el \in Containers /\ container'.el = cur'.el
      <4>1. Base' = {cur'.el} /\ NowWaiting' = {cur'.el} /\ DOMAIN queue' = {}
        BY <2>0, <3>2, <3>8, TreeConstants DEF Base, NowWaiting, Reading, Snapshotting, Scoped
      <4>2. Covers({})' BY <4>1, <3>2, <3>8, TreeConstants DEF Covers
      <4> QED BY <4>2
    <3>9. \/ cur' = NoCur /\ at' = "loop" /\ Head(queue).el \in failed' /\ queue' = Tail(queue)
             /\ (cut' => cut \/ ~Snapshotting) /\ (~Snapshotting => cut') /\ UNCHANGED <<dropped, container>>
          \/ cur'.el = Head(queue).el /\ at' = "kids"
      BY <2>2, ReadNodeCur
    <3>10. \/ Fault(Head(queue).el) /\ queue' = Tail(queue) /\ cut' = (cut \/ ~Snapshotting)
              /\ UNCHANGED <<dropped, container>>
           \/ /\ at' = "kids"
              /\ \/ /\ Snapshotting \/ Head(queue).el \notin focused
                    /\ queue' = Tail(queue) /\ UNCHANGED <<dropped, cut, container>>
                 \/ /\ ~Snapshotting /\ Head(queue).el \in Containers /\ container'.el = Head(queue).el
                    /\ \/ Scoped /\ queue' = <<>>
                       \/ ~Scoped /\ queue' = Tail(queue) /\ UNCHANGED <<dropped, cut>>
      BY <2>2 DEF ReadNode, Narrow, probeVars
    <3>11. ~(cut \/ ~Snapshotting) \/ cut' # (cut \/ ~Snapshotting) BY Zenon
    <3> QED BY <3>1, <3>6, <3>7, <3>8, <3>9, <3>10, <3>11
  <2>3. CASE Push
    <3>1. /\ at = "push" /\ at' = "loop" /\ UNCHANGED <<cut, container, failed>>
          /\ nodes' = IF Snapshotting THEN Append(nodes, [el |-> cur.el, parent |-> cur.parent]) ELSE nodes
      BY <2>3 DEF Push, probeVars, faultVars
    <3>2. /\ DOMAIN queue \subseteq DOMAIN queue'
          /\ \A i \in DOMAIN queue : queue'[i] = queue[i]
          /\ \A i \in DOMAIN queue' : i \notin DOMAIN queue => queue'[i].el \notin Roots
          /\ scope'.window = scope.window \/ (Snapshotting /\ cur.depth = 0 /\ scope'.window # Nil
                  /\ \E i \in DOMAIN cur.got : cur.got[i] = scope'.window)
          /\ scope'.roots = scope.roots
          /\ ~dropped
          /\ \A i \in DOMAIN cur.got : cur.got[i] # Nil =>
                    \/ \E k \in DOMAIN queue' : queue'[k].el = cur.got[i]
                    \/ scope'.window # Nil /\ cur.got[i] \in Frames \ {scope'.window}
      BY <2>3, PushQueue DEF TreeFits, QueueFits
    <3>3. PICK T \in SUBSET Elements : Covers(T) BY <3>1, <3>2, <1>1
    <3>4. cur.el \in Elements /\ (cur.depth = 0 <=> cur.el \in Roots) /\ Reading /\ ~Reading'
      BY <3>1 DEF TreeFits, CurFits, Reading
    <3>4a. PICK U, Els : U = T \cup {cur.el} /\ Els = {queue[i].el : i \in DOMAIN queue} OBVIOUS
    <3>5. NowWaiting = Els \cup {cur.el} /\ Els \subseteq NowWaiting'
          /\ \A e \in NowWaiting' : e \in Els \/ e \notin Roots
      <4>1. NowWaiting = Els \cup {cur.el} BY <3>4, <3>4a DEF NowWaiting
      <4>2. NowWaiting' = {queue'[i].el : i \in DOMAIN queue'} BY <3>4 DEF NowWaiting
      <4>3. Els \subseteq NowWaiting' BY <4>2, <3>2, <3>4a
      <4>4. ASSUME NEW i \in DOMAIN queue' PROVE queue'[i].el \in Els \/ queue'[i].el \notin Roots
        BY <3>2, <3>4a
      <4> QED BY <4>1, <4>2, <4>3, <4>4
    <3>6. Base' = Base /\ (Snapshotting' <=> Snapshotting)
      BY <2>0, <3>1, <3>2 DEF Base, Snapshotting, Scoped
    <3>7. Base \ failed \subseteq U \cup NowWaiting' BY <3>3, <3>4a, <3>5 DEF Covers
    <3>8. ASSUME NEW e \in SetOf(kids[cur.el]), cur.el \notin edited \cup failed
          PROVE  e \in OtherWindows' \cup failed \cup U \cup NowWaiting'
      <4>1. PICK i \in DOMAIN kids[cur.el] : e = kids[cur.el][i] BY DEF SetOf
      <4>2. kids[cur.el] \in Seq(Elements) BY <3>4 DEF TreeFits, TreeStands, Places
      <4>3. e \in Elements /\ e # Nil BY <4>1, <4>2, TreeConstants
      <4>4. ~cut /\ Steadily(cur.el) BY <3>1, <3>8 DEF Steadily
      <4>5. e \in failed \/ (i \in DOMAIN cur.got /\ cur.got[i] = e)
        BY <3>1, <4>1, <4>4 DEF TreeFits, KidsAreRead, GotIsOwn
      <4>6. ASSUME i \in DOMAIN cur.got, cur.got[i] = e PROVE e \in NowWaiting' \cup OtherWindows'
        <5>1. cur.got[i] # Nil BY <4>3, <4>6
        <5>2. \/ \E k \in DOMAIN queue' : queue'[k].el = cur.got[i]
              \/ scope'.window # Nil /\ cur.got[i] \in Frames \ {scope'.window}
          BY <5>1, <4>6, <3>2, Zenon
        <5>3. ASSUME NEW k \in DOMAIN queue', queue'[k].el = cur.got[i] PROVE e \in NowWaiting'
          <6>1. queue'[k].el \in NowWaiting' BY DEF NowWaiting
          <6> QED BY <6>1, <5>3, <4>6, Zenon
        <5>4. ASSUME scope'.window # Nil, cur.got[i] \in Frames \ {scope'.window} PROVE e \in OtherWindows'
          BY <5>4, <4>6 DEF OtherWindows
        <5> QED BY <5>2, <5>3, <5>4
      <4> QED BY <4>5, <4>6
    <3>9. ASSUME NEW p \in T \ (edited \cup failed), NEW e \in SetOf(kids[p])
          PROVE  e \in OtherWindows' \cup failed \cup U \cup NowWaiting'
      <4>1. e \in OtherWindows \cup failed \cup T \cup NowWaiting BY <3>3 DEF Covers
      <4>2. CASE e \in OtherWindows
        <5>1. scope.window # Nil /\ e \in Frames \ {scope.window} BY <4>2 DEF OtherWindows
        <5>2. CASE scope'.window = scope.window BY <5>1, <5>2 DEF OtherWindows
        <5>3. CASE scope'.window # scope.window
          <6>1. PICK i \in DOMAIN cur.got : cur.got[i] = scope'.window BY <5>3, <3>2
          <6>2. scope'.window # Nil /\ cur.el \in Roots BY <5>3, <3>2, <3>4
          <6>3. p # cur.el BY <6>2, <3>3, <3>5 DEF Covers
          <6>4. e # scope'.window
            <7>1. p \in Places BY DEF Places
            <7> QED BY <6>1, <6>2, <6>3, <7>1, <3>9 DEF TreeFits, GotIsOwn
          <6> QED BY <5>1, <6>2, <6>4 DEF OtherWindows
        <5> QED BY <5>2, <5>3
      <4> QED BY <4>1, <4>2, <3>4a, <3>5
    <3>10. \A e \in U \cap Roots : e \notin NowWaiting'
      <4>1. ASSUME NEW e \in U \cap Roots, e \in NowWaiting' PROVE FALSE
        <5>1. e \in Els BY <4>1, <3>5
        <5>2. e = cur.el BY <5>1, <4>1, <3>3, <3>4a, <3>5 DEF Covers
        <5>3. \A i \in DOMAIN queue : queue[i].el # cur.el BY <5>2, <4>1, <3>3, <3>4 DEF Covers
        <5> QED BY <5>1, <5>2, <5>3, <3>4a
      <4> QED BY <4>1
    <3>11. Snapshotting => U \subseteq {nodes'[i].el : i \in DOMAIN nodes'}
      <4> SUFFICES ASSUME Snapshotting PROVE U \subseteq {nodes'[i].el : i \in DOMAIN nodes'} OBVIOUS
      <4>1. PICK n, r : n = nodes /\ r = [el |-> cur.el, parent |-> cur.parent] OBVIOUS
      <4>2. n \in Seq([el : Elements, parent : Nat]) BY <4>1 DEF TreeFits, QueueFits
      <4>3. nodes' = Append(n, r) /\ r.el = cur.el BY <3>1, <4>1
      <4>4. r \in [el : Elements, parent : Nat] BY <4>1, <3>4 DEF TreeFits, CurFits
      <4>5. /\ Len(n) \in Nat /\ DOMAIN n = 1..Len(n) /\ DOMAIN Append(n, r) = 1..Len(n) + 1
            /\ \A i \in 1..Len(n) : Append(n, r)[i] = n[i]
            /\ Append(n, r)[Len(n) + 1] = r
        BY <4>2, <4>4
      <4>6. T \subseteq {n[i].el : i \in DOMAIN n} BY <3>3, <4>1 DEF Covers
      <4>7. \A i \in DOMAIN n : i \in DOMAIN nodes' /\ nodes'[i] = n[i] BY <4>3, <4>5
      <4>8. Len(n) + 1 \in DOMAIN nodes' /\ nodes'[Len(n) + 1] = r BY <4>3, <4>5
      <4> QED BY <4>3, <4>6, <4>7, <4>8, <3>4a
    <3>12. ~Snapshotting /\ ~moved => U \cap focused \subseteq IF container.el = Nil THEN {} ELSE Containers
      BY <3>3, <3>4, <3>4a DEF Covers
    <3>13. \A p \in U \ (edited \cup failed) :
              SetOf(kids[p]) \subseteq OtherWindows' \cup failed \cup U \cup NowWaiting'
      BY <3>8, <3>9, <3>4a
    <3>14. Covers(U)'
      BY <2>0, <3>1, <3>4, <3>6, <3>7, <3>10, <3>11, <3>12, <3>13, <1>0 DEF Covers
    <3> QED BY <3>4, <3>4a, <3>14
  <2>4. CASE CountKids \/ StayAbove \/ \E i \in cur.left : ReadKid(i)
    <3>1. at \in {"kids", "reading"} /\ at' \in {"kids", "reading", "push"}
          /\ UNCHANGED <<queue, nodes, scope, dropped, container>>
      BY <2>4 DEF CountKids, StayAbove, ReadKid, walkVars, probeVars
    <3>2. cur'.el = cur.el
      <4>1. CASE CountKids BY <4>1, CountKidsCur
      <4>2. CASE StayAbove BY <4>2 DEF StayAbove
      <4>3. CASE \E i \in cur.left : ReadKid(i) BY <4>3, ReadKidCur
      <4> QED BY <2>4, <4>1, <4>2, <4>3
    <3>3. ~cut BY <2>4, Zenon DEF CountKids, StayAbove, LeavesUnread, ReadKid
    <3>4. PICK T \in SUBSET Elements : Covers(T) BY <3>1, <3>3, <1>1
    <3>5. Reading /\ Reading' BY <3>1 DEF Reading
    <3>6. Covers(T)' BY <3>1, <3>2, <3>4, <3>5, <1>0, <2>0, CoversStays
    <3> QED BY <3>6
  <2>5. CASE BeginFails \/ StopReading \/ EndReading
    BY <2>5 DEF BeginFails, StopReading, EndReading
  <2> QED BY <1>3, <2>1, <2>2, <2>3, <2>4, <2>5 DEF ReaderStep
<1> QED BY <1>2, <1>3 DEF TreeNext


LEMMA EndIsWholeStep == TreeInv /\ TreeNext => EndIsWhole'
<1> SUFFICES ASSUME TreeInv, TreeNext, at' = "done" PROVE EndIsWhole' BY DEF EndIsWhole
<1>1. CASE AppStep BY <1>1, AppKeeps
<1>2. CASE BeginReading
  <2>1. ~Snapshotting' /\ verdict' = "no_app" BY <1>2 DEF BeginReading, Snapshotting
  <2> QED BY <2>1 DEF EndIsWhole
<1>3. CASE BeginFails BY <1>3 DEF BeginFails, EndIsWhole
<1>4. CASE ReadNode
  <2>1. ~Snapshotting' /\ verdict' = "found" /\ container'.el \notin Containers
    BY <1>4 DEF ReadNode, Narrow, Snapshotting, TreeInv, CurFits, probeVars
  <2> QED BY <2>1 DEF EndIsWhole
<1>5. CASE StopReading
  <2>1. Snapshotting' /\ cut' /\ verdict' = verdict /\ at \notin {"begin", "done"}
    BY <1>5 DEF StopReading, Snapshotting, probeVars
  <2>2. verdict' = "none_yet" BY <2>1 DEF TreeInv, ScopeFits
  <2> QED BY <2>1, <2>2 DEF EndIsWhole
<1>6. CASE EndReading
  <2>1. /\ at = "loop" /\ (queue = <<>> \/ attempted >= job.nodes) /\ cut' = (cut \/ dropped)
        /\ verdict' = IF Snapshotting THEN verdict
                      ELSE IF cut' THEN "incomplete"
                      ELSE IF container.el # Nil THEN "found"
                      ELSE IF Scoped /\ shell /\ attempted > 0 THEN "shell" ELSE "none"
        /\ UNCHANGED <<worldVars, job, walkVars, cur, nodes, scope, container, failed>>
    BY <1>6 DEF EndReading, faultVars
  <2>2. verdict = "none_yet" BY <2>1 DEF TreeInv, ScopeFits
  <2>3. queue = <<>>
    <3>1. /\ queue \in Seq(Items) /\ attempted \in Nat /\ attempted + Len(queue) <= job.nodes
          /\ job.nodes \in Nat
      BY TreeConstants DEF TreeInv, QueueFits, TreeStands
    <3>2. CASE attempted >= job.nodes
      <4>1. Len(queue) = 0 BY <3>1, <3>2
      <4> QED BY <3>1, <4>1
    <3> QED BY <3>2, <2>1
  <2>4. verdict' \in {"none", "shell"} => container'.el = Nil BY <2>1, <2>2
  <2>5. ASSUME \/ Snapshotting' /\ ~cut' /\ verdict' # "failed"
               \/ ~Snapshotting' /\ verdict' \in {"none", "shell"}
               \/ ~Snapshotting' /\ verdict' = "found" /\ container'.el \in Containers
        PROVE  \E T \in SUBSET Elements : Covers(T)'
    <3>1. ~cut' BY <2>1, <2>5 DEF Snapshotting
    <3>2. ~cut /\ ~dropped BY <2>1, <3>1, Zenon
    <3>3. PICK T \in SUBSET Elements : Covers(T) BY <2>1, <3>2 DEF TreeInv, ReadSoFar
    <3>4. ~Reading /\ ~Reading' BY <2>1 DEF Reading
    <3>5. NowWaiting' = NowWaiting /\ Base' = Base /\ OtherWindows' = OtherWindows
          /\ (Snapshotting' <=> Snapshotting) /\ Roots' = Roots
          /\ UNCHANGED <<kids, focused, edited, moved, container, nodes, failed>>
      BY <2>1, <3>4 DEF NowWaiting, Base, OtherWindows, Snapshotting, Scoped, Roots, worldVars, walkVars
    <3>6. Covers(T)' BY <3>3, <3>4, <3>5 DEF Covers
    <3> QED BY <3>6
  <2>6. queue' = <<>> BY <2>1, <2>3 DEF walkVars
  <2> QED BY <2>4, <2>5, <2>6, Zenon DEF EndIsWhole
<1>7. CASE CountKids \/ StayAbove \/ Push \/ \E i \in cur.left : ReadKid(i)
  BY <1>7 DEF CountKids, StayAbove, Push, ReadKid
<1> QED BY <1>1, <1>2, <1>3, <1>4, <1>5, <1>6, <1>7 DEF TreeNext, ReaderStep

LEMMA TreeInvStep == TreeInv /\ [TreeNext]_treeVars => TreeInv'
<1> SUFFICES ASSUME TreeInv, [TreeNext]_treeVars PROVE TreeInv' OBVIOUS
<1>1. CASE TreeNext
  <2>1. TreeFits BY DEF TreeInv, TreeFits
  <2> QED BY <1>1, <2>1, TreeStandsStep, QueueFitsStep, ReadsFitStep, CurFitsStep, GotIsOwnStep, KidsAreReadStep,
            ScopeFitsStep, ReadSoFarStep, EndIsWholeStep DEF TreeInv
<1>2. CASE UNCHANGED treeVars
  <2>0. UNCHANGED <<kids, focused, job, at, queue, attempted, dropped, reads, cur, nodes, cut,
              scope, container, shell, verdict, edits, edited, moved, faults, failed>>
    BY <1>2 DEF treeVars
  <2>1. TreeStands' BY <2>0 DEF TreeInv, TreeStands, Places
  <2>2. Roots' = Roots /\ Reading' = Reading BY <2>0 DEF Roots, Reading
  <2>3. QueueFits' /\ ReadsFit' BY <2>0, <2>2 DEF TreeInv, QueueFits, ReadsFit
  <2>4. CurFits' BY <2>0, <2>2 DEF TreeInv, CurFits
  <2>5. GotIsOwn' BY <2>0 DEF TreeInv, GotIsOwn, Places
  <2>6. KidsAreRead' BY <2>0 DEF TreeInv, KidsAreRead, Steadily
  <2>7. ScopeFits' BY <2>0 DEF TreeInv, ScopeFits, Snapshotting, TreeBegins
  <2>8. \A T \in SUBSET Elements : Covers(T) => Covers(T)'
    <3>1. NowWaiting' = NowWaiting /\ Base' = Base /\ OtherWindows' = OtherWindows
          /\ Snapshotting' = Snapshotting
      BY <2>0, <2>2 DEF NowWaiting, Base, OtherWindows, Snapshotting, Scoped
    <3> QED BY <2>0, <2>2, <3>1 DEF Covers
  <2>9. ReadSoFar' BY <2>0, <2>8 DEF TreeInv, ReadSoFar
  <2>10. EndIsWhole' BY <2>0, <2>8 DEF TreeInv, EndIsWhole, Snapshotting
  <2> QED BY <2>1, <2>3, <2>4, <2>5, <2>6, <2>7, <2>9, <2>10 DEF TreeInv
<1> QED BY <1>1, <1>2

LEMMA TreeInvInit == TreeInit => TreeInv
<1> SUFFICES ASSUME TreeInit PROVE TreeInv OBVIOUS
<1>1. kids \in Shapes /\ job \in Jobs /\ TreeBegins BY DEF TreeInit
<1>2. TreeStands
  <2>1. kids \in [Places -> Seq(Elements)] BY <1>1, TreeAssumption DEF Places
  <2>2. \A p, q \in Places : \A i \in DOMAIN kids[p], j \in DOMAIN kids[q] :
           kids[p][i] = kids[q][j] => p = q /\ i = j
    BY <1>1, TreeAssumption DEF Places
  <2>3. Registry \in Places BY DEF Places
  <2>4. \A p, q \in Places : SetOf(kids[p]) \cap SetOf(kids[q]) # {} => p = q BY <2>2 DEF SetOf
  <2> QED BY <2>1, <2>2, <2>3, <2>4, <1>1 DEF TreeStands, TreeBegins
<1>3. job.nodes \in Nat BY <1>1, TreeConstants
<1>4. QueueFits
  <2>1. queue \in Seq(Items) /\ Len(queue) = 0 /\ DOMAIN queue = {} BY <1>1 DEF TreeBegins
  <2>2. nodes \in Seq([el : Elements, parent : Nat]) BY <1>1 DEF TreeBegins
  <2>3. attempted = 0 /\ dropped = FALSE /\ cut = FALSE BY <1>1 DEF TreeBegins
  <2>4. attempted \in Nat /\ attempted + Len(queue) <= job.nodes BY <2>1, <2>3, <1>3
  <2> QED BY <2>1, <2>2, <2>3, <2>4 DEF QueueFits
<1>5. CurFits /\ GotIsOwn /\ KidsAreRead /\ ~Reading
  <2>1. cur = NoCur /\ at = "begin" BY <1>1 DEF TreeBegins
  <2>2. cur \in CurType /\ cur.left \subseteq DOMAIN cur.got BY <2>1, NoCurType
  <2>3. DOMAIN cur.got = {} BY <2>1 DEF NoCur
  <2> QED BY <2>1, <2>2, <2>3 DEF CurFits, CurType, GotIsOwn, KidsAreRead, Reading
<1>6. ReadsFit /\ ScopeFits BY <1>1, <1>3 DEF ReadsFit, ScopeFits, TreeBegins, NoContainer
<1>7. ReadSoFar /\ EndIsWhole BY <1>1 DEF ReadSoFar, EndIsWhole, TreeBegins
<1> QED BY <1>2, <1>4, <1>5, <1>6, <1>7 DEF TreeInv

\* A covered tree with nothing waiting was read whole.
LEMMA CoveredIsWhole ==
    ASSUME at = "done", queue = <<>>, NEW T \in SUBSET Elements, Covers(T)
    PROVE  Steady(Base, OtherWindows) \subseteq T
<1>1. NowWaiting = {} BY DEF NowWaiting, Reading
<1>2. Base \ failed \subseteq T BY <1>1 DEF Covers
<1>3. SteadyKids(T, OtherWindows) \subseteq T
  <2>1. \A p \in T \ (edited \cup failed) : SetOf(kids[p]) \subseteq OtherWindows \cup failed \cup T
    BY <1>1 DEF Covers
  <2> SUFFICES ASSUME NEW x \in SteadyKids(T, OtherWindows) PROVE x \in T OBVIOUS
  <2>2. x \in UNION {SetOf(kids[p]) : p \in T \ (edited \cup failed)} /\ x \notin OtherWindows \cup failed
    BY Zenon DEF SteadyKids
  <2>3. PICK s \in {SetOf(kids[p]) : p \in T \ (edited \cup failed)} : x \in s BY <2>2, Zenon
  <2>4. PICK p \in T \ (edited \cup failed) : s = SetOf(kids[p]) OBVIOUS
  <2> QED BY <2>1, <2>2, <2>3, <2>4
<1>4. Cardinality(Elements) \in Nat BY TreeConstants
<1>5. PICK B, X : B = Base /\ X = OtherWindows OBVIOUS
<1> QED BY <1>2, <1>3, <1>4, <1>5, SteadyWithin, Zenon

LEMMA TreeInvMeans == TreeInv => TreesAreRead
<1> SUFFICES ASSUME TreeInv, at = "done" PROVE SnapshotIsWhole /\ FocusIsFound
  BY DEF TreesAreRead, SnapshotIsWhole, FocusIsFound
<1>1. ASSUME Snapshotting, ~cut, verdict # "failed"
      PROVE  Steady(scope.roots, OtherWindows) \subseteq {nodes[i].el : i \in DOMAIN nodes}
  <2>1. queue = <<>> /\ \E T \in SUBSET Elements : Covers(T) BY <1>1 DEF TreeInv, EndIsWhole
  <2>2. PICK T \in SUBSET Elements : Covers(T) BY <2>1
  <2>3. Base = scope.roots BY <1>1 DEF Base
  <2>4. Steady(Base, OtherWindows) \subseteq T BY <2>1, <2>2, CoveredIsWhole
  <2> QED BY <1>1, <2>2, <2>3, <2>4 DEF Covers
<1>2. ASSUME ~Snapshotting PROVE OtherWindows = {} BY <1>2 DEF TreeInv, ScopeFits, OtherWindows
<1>3. ASSUME ~Snapshotting, ~moved, verdict \in {"none", "shell"}
      PROVE  Steady(scope.roots, {}) \cap focused = {}
  <2>1. queue = <<>> /\ container.el = Nil /\ \E T \in SUBSET Elements : Covers(T)
    BY <1>3 DEF TreeInv, EndIsWhole
  <2>2. PICK T \in SUBSET Elements : Covers(T) BY <2>1
  <2>3. Base = scope.roots BY <2>1 DEF Base
  <2>4. Steady(Base, OtherWindows) \subseteq T BY <2>1, <2>2, CoveredIsWhole
  <2>5. T \cap focused = {} BY <1>3, <2>1, <2>2 DEF Covers
  <2> QED BY <1>2, <1>3, <2>3, <2>4, <2>5
<1>4. ASSUME ~Snapshotting, ~moved, verdict = "found", container.el \in Containers
      PROVE  Steady(IF Scoped THEN {container.el} ELSE scope.roots, {}) \cap focused \subseteq Containers
  <2>1. queue = <<>> /\ \E T \in SUBSET Elements : Covers(T) BY <1>4 DEF TreeInv, EndIsWhole
  <2>2. PICK T \in SUBSET Elements : Covers(T) BY <2>1
  <2>3. Steady(Base, OtherWindows) \subseteq T BY <2>1, <2>2, CoveredIsWhole
  <2>4. T \cap focused \subseteq Containers BY <1>4, <2>2 DEF Covers
  <2>5. Base = IF Scoped THEN {container.el} ELSE scope.roots BY <1>4, TreeConstants DEF Base
  <2> QED BY <1>2, <1>4, <2>3, <2>4, <2>5
<1> QED BY <1>1, <1>3, <1>4 DEF SnapshotIsWhole, FocusIsFound

\* Shown.
THEOREM TreesStayRead == TreeSpec => []TreesAreRead
<1>1. TreeSpec => []TreeInv BY TreeInvInit, TreeInvStep, PTL DEF TreeSpec
<1> QED BY <1>1, TreeInvMeans, PTL

(*************************** The writes **************************************)

ActionNames == UNION {Range(l) : l \in ActionLists}
WriteSteps == {"begin", "role", "count", "chunk", "again", "names", "do", "doing", "gone", "done"}
Readings == {"role", "count", "chunk", "again"}

WriteTypes ==
    /\ element \in [faces : SUBSET {"value", "editable"}, password : BOOLEAN,
                   units : {"scalars", "utf16"}, keeps : BOOLEAN]
    /\ wish \in [kind : {"set"}, text : Texts, number : BOOLEAN] \cup [kind : {"act"}, name : ActionNames]
    /\ wish.kind = "set" => content \in Texts /\ pending \in Texts \cup {Null}
    /\ actions \in ActionLists \cup {<<>>}
    /\ step \in WriteSteps /\ \E n \in Nat : DOMAIN names = 1..n
    /\ readback \in [units : {Null, "scalars", "utf16"}, from : Nat]
    /\ changed \in BOOLEAN /\ replaced \in BOOLEAN
    /\ invoked = <<>> \/ \E name \in ActionNames : invoked = <<name>>

\* What has been sent and answered at each step of the call.
StagesFit ==
    /\ step \in {"begin", "names", "do"} => ~took /\ due = 0 /\ invoked = <<>>
    /\ step \in Readings => wish.kind = "set" /\ took /\ due = 0 /\ invoked = <<>>
    /\ step \in {"count", "chunk", "again"} => ~element.password
    /\ step \in {"names", "do", "doing", "gone"} => wish.kind = "act" /\ ~took
    /\ step = "gone" => outcome \in {"error", "unsure"}
    /\ step \notin {"gone", "done"} => outcome = Null
    /\ outcome = "error" => ~took /\ due = 0 /\ invoked = <<>>
    /\ step = "again" => content # wish.text \/ changed

\* The action that was chosen still has its name, until it was run.
ActionHeld ==
    /\ due # 0 => due = index /\ invoked = <<>> /\ wish.kind = "act"
    /\ (step = "do" \/ due # 0) /\ ~replaced => index \in DOMAIN actions /\ actions[index] = wish.name

Same(s, t, n) == \A i \in 1..n : s[i] = t[i]

\* As far as it was read, an unchanged field holds the text, and the peer's offset and the
\* reader's are at the same unit, which does not split a pair.
ReadAlike ==
    step = "chunk" =>
        /\ readback.units \in {"scalars", "utf16"}
        /\ ~changed =>
              /\ CharacterCount(content) = Wanted /\ readback.from <= Wanted
              /\ Before(content, element.units, readback.from) = Before(wish.text, readback.units, readback.from)
              /\ Same(content, wish.text, Before(wish.text, readback.units, readback.from))
              /\ readback.units = "utf16" =>
                    /\ Chars(wish.text) # Len(wish.text)
                    /\ readback.from \in 1..Len(wish.text) - 1 => wish.text[readback.from][2] # 1

\* Of a call in the middle: what it has done so far, and that what it holds is true.
WriteInv == WriteTypes /\ StagesFit /\ ActionHeld /\ ReadAlike /\ WritesAreTold

(*** Texts ***)

LEMMA SubSeqFits ==
    ASSUME NEW S, NEW s \in Seq(S), NEW a \in Nat, NEW c \in Nat, a <= c, c <= Len(s)
    PROVE  LET u == SubSeq(s, a + 1, c) IN
           /\ u \in Seq(S) /\ Len(u) = c - a /\ DOMAIN u = 1..(c - a)
           /\ \A i \in DOMAIN u : u[i] = s[a + i] /\ a + i \in DOMAIN s
<1> DEFINE u == SubSeq(s, a + 1, c)
<1>1. Len(u) = c - a /\ u \in Seq(S)
  OBVIOUS
<1>2. DOMAIN u = 1..(c - a)
  BY <1>1
<1>3. ASSUME NEW i \in 1..(c - a) PROVE u[i] = s[a + i] /\ a + i \in DOMAIN s
  OBVIOUS
<1> QED BY <1>1, <1>2, <1>3

LEMMA Interval ==
    ASSUME NEW n \in Nat
    PROVE  IsFiniteSet(1..n) /\ Cardinality(1..n) = n
<1>1. IsFiniteSet(1..n) /\ Cardinality(1..n) = IF 1 > n THEN 0 ELSE n - 1 + 1
  BY FS_Interval
<1> QED BY <1>1

LEMMA TextFits ==
    ASSUME NEW t \in Texts
    PROVE  /\ t \in Seq(Unit) /\ Len(t) \in Nat /\ DOMAIN t = 1..Len(t)
           /\ \A i \in DOMAIN t : t[i] \in Unit /\ t[i][1] \in Scalars /\ t[i][2] \in {0, 1, 2}
           /\ \A i \in DOMAIN t : t[i][2] = 1 => i + 1 \in DOMAIN t
           /\ \A i \in DOMAIN t : t[i][2] = 2 <=> i > 1 /\ t[i - 1][2] = 1
<1>1. /\ t \in Seq(Unit)
      /\ \A i \in DOMAIN t : /\ t[i][2] = 1 => i + 1 \in DOMAIN t
                             /\ t[i][2] = 2 <=> i > 1 /\ t[i - 1][2] = 1
  BY WritesAssumption
<1>2. Len(t) \in Nat /\ DOMAIN t = 1..Len(t) /\ \A i \in DOMAIN t : t[i] \in Unit
  BY <1>1
<1>3. \A u \in Unit : u[1] \in Scalars /\ u[2] \in {0, 1, 2}
  BY DEF Unit
<1> QED BY <1>1, <1>2, <1>3

LEMMA StartsFit ==
    ASSUME NEW t \in Texts
    PROVE  /\ Starts(t) \subseteq 1..Len(t) /\ IsFiniteSet(Starts(t)) /\ Chars(t) \in Nat
           /\ \A i \in 0..Len(t) : /\ IsFiniteSet(Starts(t) \cap 1..i)
                                   /\ Cardinality(Starts(t) \cap 1..i) \in Nat
                                   /\ Cardinality(Starts(t) \cap 1..i) <= Chars(t)
           /\ \A i \in 1..Len(t) : Cardinality(Starts(t) \cap 1..i) >= 1
<1>1. DOMAIN t = 1..Len(t) /\ Len(t) \in Nat
  BY TextFits
<1>2. Starts(t) \subseteq 1..Len(t)
  BY <1>1 DEF Starts
<1>3. IsFiniteSet(Starts(t)) /\ Chars(t) \in Nat
  BY <1>1, <1>2, Interval, FS_Subset, FS_CardinalityType DEF Chars
<1>4. \A i \in 0..Len(t) : /\ IsFiniteSet(Starts(t) \cap 1..i)
                          /\ Cardinality(Starts(t) \cap 1..i) \in Nat
                          /\ Cardinality(Starts(t) \cap 1..i) <= Chars(t)
  BY <1>3, FS_Subset, FS_CardinalityType DEF Chars
<1>5. ASSUME NEW i \in 1..Len(t) PROVE Cardinality(Starts(t) \cap 1..i) >= 1
  <2>1. 1 \in Starts(t) \cap 1..i
    BY <1>1, TextFits DEF Starts
  <2>2. i \in 0..Len(t)
    OBVIOUS
  <2>3. IsFiniteSet(Starts(t) \cap 1..i) /\ Cardinality(Starts(t) \cap 1..i) \in Nat
    BY <1>4, <2>2
  <2>4. Cardinality(Starts(t) \cap 1..i) # 0
    BY <2>1, <2>3, FS_EmptySet
  <2> QED BY <2>3, <2>4
<1> QED BY <1>2, <1>3, <1>4, <1>5

\* An offset is at a unit of the text: the first at its beginning, the last at its end.
LEMMA BeforeFits ==
    ASSUME NEW t \in Texts, NEW u \in {"scalars", "utf16"}
    PROVE  /\ Count(t, u) \in Nat
           /\ \A k \in 0..Count(t, u) : Before(t, u, k) \in 0..Len(t)
           /\ Before(t, u, 0) = 0 /\ Before(t, u, Count(t, u)) = Len(t)
           /\ \A k, l \in 0..Count(t, u) : k <= l => Before(t, u, k) <= Before(t, u, l)
<1> DEFINE N(i) == Cardinality(Starts(t) \cap 1..i)
           Until(k) == {i \in DOMAIN t : N(i) <= k}
<1>1. DOMAIN t = 1..Len(t) /\ Len(t) \in Nat
  BY TextFits
<1>2. CASE u = "utf16"
  BY <1>1, <1>2 DEF Count, Before
<1>3. CASE u = "scalars"
  <2>1. Count(t, u) = Chars(t) /\ Chars(t) \in Nat /\ \A k : Before(t, u, k) = Cardinality(Until(k))
    BY <1>3, StartsFit DEF Count, Before
  <2>2. \A i \in DOMAIN t : N(i) \in Nat /\ N(i) >= 1 /\ N(i) <= Chars(t)
    BY <1>1, StartsFit, 1..Len(t) \subseteq 0..Len(t)
  <2> HIDE DEF N
  <2>3. IsFiniteSet(DOMAIN t) /\ Cardinality(DOMAIN t) = Len(t)
    BY <1>1, Interval
  <2>4. ASSUME NEW k \in Nat
        PROVE  IsFiniteSet(Until(k)) /\ Cardinality(Until(k)) \in 0..Len(t)
    <3>1. Until(k) \subseteq DOMAIN t
      OBVIOUS
    <3>2. IsFiniteSet(Until(k)) /\ Cardinality(Until(k)) <= Len(t)
      BY <2>3, <3>1, FS_Subset
    <3>3. Cardinality(Until(k)) \in Nat
      BY <3>2, FS_CardinalityType
    <3> QED BY <1>1, <3>2, <3>3
  <2>5. Until(0) = {} /\ Until(Chars(t)) = DOMAIN t
    BY <2>1, <2>2
  <2>6. Cardinality(Until(0)) = 0 /\ Cardinality(Until(Chars(t))) = Len(t)
    BY <2>3, <2>5, FS_EmptySet
  <2>7. ASSUME NEW k \in Nat, NEW l \in Nat, k <= l
        PROVE  Cardinality(Until(k)) <= Cardinality(Until(l))
    <3>1. Until(k) \subseteq Until(l)
      BY <2>2, <2>7
    <3> QED BY <2>4, <3>1, FS_Subset
  <2> HIDE DEF Until
  <2> QED BY <2>1, <2>4, <2>6, <2>7
<1> QED BY <1>2, <1>3

\* Where there are as many characters as units, no unit is half a pair.
LEMMA NoPairs ==
    ASSUME NEW t \in Texts, Chars(t) = Len(t)
    PROVE  /\ \A i \in DOMAIN t : t[i][2] = 0
           /\ \A k \in 0..Len(t) : Before(t, "scalars", k) = k
<1>1. DOMAIN t = 1..Len(t) /\ Len(t) \in Nat
  BY TextFits
<1>2. Starts(t) = 1..Len(t)
  <2>1. IsFiniteSet(1..Len(t)) /\ Cardinality(1..Len(t)) = Len(t) /\ Starts(t) \subseteq 1..Len(t)
    BY <1>1, Interval, StartsFit
  <2>2. Cardinality(Starts(t)) = Cardinality(1..Len(t))
    BY <2>1 DEF Chars
  <2> QED BY <2>1, <2>2, FS_Subset
<1>3. \A i \in DOMAIN t : t[i][2] = 0
  <2>1. \A i \in DOMAIN t : t[i][2] # 2 /\ t[i][2] \in {0, 1, 2}
    BY <1>1, <1>2, TextFits DEF Starts
  <2>2. \A i \in DOMAIN t : t[i][2] # 1
    <3>1. SUFFICES ASSUME NEW i \in DOMAIN t, t[i][2] = 1 PROVE FALSE
      OBVIOUS
    <3>2. i \in Nat /\ i >= 1 /\ i + 1 \in DOMAIN t
      BY <1>1, <3>1, TextFits
    <3>3. PICK j \in DOMAIN t : j = i + 1
      BY <3>2
    <3>4. j - 1 = i /\ j > 1
      BY <3>2, <3>3
    <3>5. t[j][2] = 2
      BY <3>1, <3>3, <3>4, TextFits
    <3> QED BY <2>1, <3>5
  <2> QED BY <2>1, <2>2
<1>4. ASSUME NEW k \in 0..Len(t) PROVE Before(t, "scalars", k) = k
  <2>1. ASSUME NEW i \in 1..Len(t) PROVE Cardinality(Starts(t) \cap 1..i) = i
    <3>1. Starts(t) \cap 1..i = 1..i
      BY <1>1, <1>2
    <3>2. Cardinality(1..i) = i
      BY <1>1, Interval
    <3> QED BY <3>1, <3>2
  <2>2. {i \in DOMAIN t : Cardinality(Starts(t) \cap 1..i) <= k} = 1..k
    BY <1>1, <2>1
  <2>3. Cardinality(1..k) = k
    BY Interval
  <2> QED BY <2>2, <2>3 DEF Before
<1> QED BY <1>3, <1>4

\* What the reader compares with has no half of a pair replaced.
LEMMA HalvedOwn ==
    ASSUME NEW u \in Seq(Unit), NEW w \in Seq(Unit), Halved(u) = w
    PROVE  u = w
<1>1. DOMAIN u = DOMAIN w /\ \A i \in DOMAIN u : w[i] = u[i] \/ w[i] = <<Half, 0>>
  BY DEF Halved
<1>2. \A i \in DOMAIN w : w[i] # <<Half, 0>>
  <2>1. \A i \in DOMAIN w : w[i] \in Unit
    OBVIOUS
  <2>2. <<Half, 0>> \notin Unit
    BY WritesAssumption DEF Unit
  <2> QED BY <2>1, <2>2
<1>3. \A i \in DOMAIN u : w[i] = u[i]
  BY <1>1, <1>2
<1> QED BY <1>1, <1>3

LEMMA HalvedWhole ==
    ASSUME NEW u \in Seq(Unit),
           1 \in DOMAIN u => u[1][2] # 2,
           Len(u) \in DOMAIN u => u[Len(u)][2] # 1
    PROVE  Halved(u) = u
<1>1. \A i \in DOMAIN u : ~(i = 1 /\ u[i][2] = 2) /\ ~(i = Len(u) /\ u[i][2] = 1)
  OBVIOUS
<1>2. Halved(u) = [i \in DOMAIN u |-> u[i]]
  BY <1>1 DEF Halved
<1> QED BY <1>2

\* Two texts that agree up to a unit, and have the same piece after it, agree up to its end.
LEMMA PieceAgrees ==
    ASSUME NEW s \in Seq(Unit), NEW t \in Seq(Unit), NEW a \in Nat, NEW b \in Nat, NEW c \in Nat,
           a <= b, a <= c, b <= Len(s), c <= Len(t), Same(s, t, a),
           SubSeq(s, a + 1, b) = SubSeq(t, a + 1, c)
    PROVE  b = c /\ Same(s, t, b)
<1>1. Len(SubSeq(s, a + 1, b)) = b - a /\ Len(SubSeq(t, a + 1, c)) = c - a
  OBVIOUS
<1>2. b = c
  BY <1>1
<1>3. ASSUME NEW i \in 1..b PROVE s[i] = t[i]
  <2>1. CASE i <= a
    BY <2>1 DEF Same
  <2>2. CASE i > a
    <3>1. SubSeq(s, a + 1, b)[i - a] = s[i] /\ SubSeq(t, a + 1, c)[i - a] = t[i]
      BY <1>2, <2>2
    <3> QED BY <3>1
  <2> QED BY <2>1, <2>2
<1> QED BY <1>2, <1>3 DEF Same
(*** The reader ***)

LEMMA ChunkEndFits ==
    ASSUME wish.text \in Texts, readback.units \in {"scalars", "utf16"}, readback.from \in Nat,
           readback.from < Wanted
    PROVE  /\ ChunkEnd \in Nat /\ readback.from <= ChunkEnd /\ ChunkEnd <= Wanted
           /\ readback.units = "utf16" /\ ChunkEnd \in 1..Len(wish.text) => wish.text[ChunkEnd][2] # 1
<1> DEFINE t == wish.text
           end == IF readback.from + Chunk < Wanted THEN readback.from + Chunk ELSE Wanted
<1>1. Wanted \in Nat /\ Chunk \in Nat /\ Chunk >= 2
  BY BeforeFits, WritesAssumption DEF Wanted
<1>2. end \in Nat /\ readback.from + 1 <= end /\ end <= Wanted
  BY <1>1
<1>3. ChunkEnd = IF readback.units = "utf16" /\ end < Wanted /\ t[end][2] = 1 THEN end - 1 ELSE end
  BY DEF ChunkEnd
<1> HIDE DEF end
<1>4. ChunkEnd \in Nat /\ readback.from <= ChunkEnd /\ ChunkEnd <= Wanted
  BY <1>1, <1>2, <1>3
<1>5. ASSUME readback.units = "utf16", ChunkEnd \in 1..Len(t), t[ChunkEnd][2] = 1
      PROVE  FALSE
  <2>1. Wanted = Len(t) /\ Len(t) \in Nat /\ DOMAIN t = 1..Len(t)
    BY <1>5, TextFits DEF Wanted, Count
  <2>2. ChunkEnd + 1 \in DOMAIN t
    BY <1>5, <2>1, TextFits
  <2>3. end < Wanted
    BY <1>2, <1>3, <1>5, <2>1, <2>2
  <2>4. ChunkEnd = end - 1 /\ t[end][2] = 1
    BY <1>3, <1>5, <2>3
  <2>5. end \in DOMAIN t /\ end - 1 = ChunkEnd /\ end > 1
    BY <1>2, <1>5, <2>1, <2>3, <2>4
  <2>6. t[end][2] = 2 <=> end > 1 /\ t[end - 1][2] = 1
    BY <2>5, TextFits
  <2> QED BY <1>5, <2>4, <2>5, <2>6
<1> QED BY <1>4, <1>5

\* The field's state while a chunk is read of it that did not change since it was counted.
Reader ==
    /\ wish.text \in Texts /\ content \in Texts /\ element.units \in {"scalars", "utf16"}
    /\ readback.units \in {"scalars", "utf16"} /\ readback.from \in Nat
    /\ CharacterCount(content) = Wanted /\ readback.from <= Wanted
    /\ Before(content, element.units, readback.from) = Before(wish.text, readback.units, readback.from)
    /\ Same(content, wish.text, Before(wish.text, readback.units, readback.from))

\* At the end the whole text was the same.
LEMMA ReadToEnd ==
    ASSUME Reader, readback.from >= Wanted
    PROVE  content = wish.text
<1> DEFINE t == wish.text  u == readback.units  p == element.units
<1>1. Wanted \in Nat /\ readback.from = Wanted /\ Wanted = Count(t, u) /\ Wanted = Count(content, p)
  BY BeforeFits DEF Reader, Wanted, CharacterCount
<1>2. Before(t, u, Wanted) = Len(t) /\ Before(content, p, Wanted) = Len(content)
  BY <1>1, BeforeFits DEF Reader
<1>3. Len(content) = Len(t) /\ Same(content, t, Len(t))
  BY <1>1, <1>2 DEF Reader
<1>4. DOMAIN content = 1..Len(content) /\ DOMAIN t = 1..Len(t) /\ content \in Seq(Unit) /\ t \in Seq(Unit)
  BY TextFits DEF Reader
<1> QED BY <1>3, <1>4 DEF Same

\* The piece asked for, in units of the field and of the text.
LEMMA ChunkAt ==
    ASSUME Reader, readback.from < Wanted
    PROVE  LET a == Before(wish.text, readback.units, readback.from)
               b == Before(content, element.units, ChunkEnd)
               c == Before(wish.text, readback.units, ChunkEnd) IN
           /\ a \in Nat /\ b \in Nat /\ c \in Nat /\ a <= b /\ a <= c
           /\ b <= Len(content) /\ c <= Len(wish.text)
           /\ GetText(readback.from, ChunkEnd) =
                 IF element.units = "utf16" THEN Halved(SubSeq(content, a + 1, b)) ELSE SubSeq(content, a + 1, b)
           /\ Piece(wish.text, readback.units, readback.from, ChunkEnd) = SubSeq(wish.text, a + 1, c)
<1> DEFINE t == wish.text  u == readback.units  p == element.units  f == readback.from
           a == Before(t, u, f)  b == Before(content, p, ChunkEnd)  c == Before(t, u, ChunkEnd)
<1>1. Wanted \in Nat /\ Wanted = Count(t, u) /\ Wanted = Count(content, p) /\ f \in Nat
  BY BeforeFits DEF Reader, Wanted, CharacterCount
<1>2. ChunkEnd \in Nat /\ f <= ChunkEnd /\ ChunkEnd <= Wanted
  BY ChunkEndFits DEF Reader
<1>3. f \in 0..Wanted /\ ChunkEnd \in 0..Wanted
  BY <1>1, <1>2
<1>4. /\ a \in 0..Len(t) /\ c \in 0..Len(t) /\ a <= c
  BY <1>1, <1>2, <1>3, BeforeFits DEF Reader
<1>5. /\ Before(content, p, f) \in 0..Len(content) /\ b \in 0..Len(content) /\ Before(content, p, f) <= b
  BY <1>1, <1>2, <1>3, BeforeFits DEF Reader
<1>6. Before(content, p, f) = a
  BY DEF Reader
<1>7. GetText(f, ChunkEnd) = IF p = "utf16" THEN Halved(SubSeq(content, a + 1, b)) ELSE SubSeq(content, a + 1, b)
  <2>1. (IF ChunkEnd < CharacterCount(content) THEN ChunkEnd ELSE CharacterCount(content)) = ChunkEnd
    BY <1>1, <1>2 DEF CharacterCount
  <2> QED BY <1>6, <2>1 DEF GetText, Piece
<1>8. Len(t) \in Nat /\ Len(content) \in Nat
  BY TextFits DEF Reader
<1> QED BY <1>4, <1>5, <1>6, <1>7, <1>8 DEF Piece

\* What matches is the same, as far as the chunk goes.
LEMMA MatchIsSame ==
    ASSUME Reader, readback.from < Wanted,
           GetText(readback.from, ChunkEnd) = Piece(wish.text, readback.units, readback.from, ChunkEnd)
    PROVE  /\ Before(content, element.units, ChunkEnd) = Before(wish.text, readback.units, ChunkEnd)
           /\ Same(content, wish.text, Before(wish.text, readback.units, ChunkEnd))
<1> DEFINE t == wish.text
           a == Before(t, readback.units, readback.from)
           b == Before(content, element.units, ChunkEnd)
           c == Before(t, readback.units, ChunkEnd)
           got == SubSeq(content, a + 1, b)
           want == SubSeq(t, a + 1, c)
<1>1. /\ a \in Nat /\ b \in Nat /\ c \in Nat /\ a <= b /\ a <= c
      /\ b <= Len(content) /\ c <= Len(t)
      /\ GetText(readback.from, ChunkEnd) = IF element.units = "utf16" THEN Halved(got) ELSE got
      /\ Piece(t, readback.units, readback.from, ChunkEnd) = want
  BY ChunkAt
<1>2. content \in Seq(Unit) /\ t \in Seq(Unit) /\ Same(content, t, a)
  BY TextFits DEF Reader
<1> HIDE DEF a, b, c
<1>3. got \in Seq(Unit) /\ want \in Seq(Unit)
  BY <1>1, <1>2
<1>4. got = want
  BY <1>1, <1>3, HalvedOwn
<1>5. b = c /\ Same(content, t, b)
  BY <1>1, <1>2, <1>4, PieceAgrees
<1> QED BY <1>5 DEF b, c

\* The text itself matches, however the peer counts.
LEMMA SameMatches ==
    ASSUME Reader, readback.from < Wanted, content = wish.text,
           readback.units = "utf16" =>
               /\ Chars(wish.text) # Len(wish.text)
               /\ readback.from \in 1..Len(wish.text) - 1 => wish.text[readback.from][2] # 1
    PROVE  GetText(readback.from, ChunkEnd) = Piece(wish.text, readback.units, readback.from, ChunkEnd)
<1> DEFINE t == wish.text
           a == Before(t, readback.units, readback.from)
           b == Before(content, element.units, ChunkEnd)
           c == Before(t, readback.units, ChunkEnd)
           got == SubSeq(t, a + 1, c)
<1>1. /\ a \in Nat /\ b \in Nat /\ c \in Nat /\ a <= b /\ a <= c
      /\ b <= Len(content) /\ c <= Len(t)
      /\ GetText(readback.from, ChunkEnd) =
            IF element.units = "utf16" THEN Halved(SubSeq(content, a + 1, b)) ELSE SubSeq(content, a + 1, b)
      /\ Piece(t, readback.units, readback.from, ChunkEnd) = got
  BY ChunkAt
<1>2. /\ readback.from \in Nat /\ ChunkEnd \in Nat /\ readback.from <= ChunkEnd /\ ChunkEnd <= Wanted
      /\ readback.units = "utf16" /\ ChunkEnd \in 1..Len(t) => t[ChunkEnd][2] # 1
  BY ChunkEndFits DEF Reader
<1>3. /\ element.units \in {"scalars", "utf16"} /\ readback.units \in {"scalars", "utf16"} /\ t \in Texts
      /\ Count(t, element.units) = Count(t, readback.units) /\ Wanted = Count(t, readback.units)
  BY DEF Reader, CharacterCount, Wanted
<1>4. t \in Seq(Unit) /\ DOMAIN t = 1..Len(t) /\ Len(t) \in Nat
  BY <1>3, TextFits
<1>5. CASE element.units = readback.units /\ element.units = "scalars"
  BY <1>1, <1>5
<1>6. CASE element.units = "scalars" /\ readback.units = "utf16"
  BY <1>3, <1>6 DEF Count
<1>7. CASE element.units = "utf16" /\ readback.units = "utf16"
  <2>1. a = readback.from /\ b = ChunkEnd /\ c = ChunkEnd /\ Wanted = Len(t)
    BY <1>3, <1>7 DEF Before, Count
  <2> HIDE DEF a, b, c
  <2>2. got \in Seq(Unit) /\ Len(got) = c - a /\ DOMAIN got = 1..(c - a)
        /\ \A i \in DOMAIN got : got[i] = t[a + i] /\ a + i \in DOMAIN t
    BY <1>1, <1>4, SubSeqFits
  <2>3. ASSUME 1 \in DOMAIN got PROVE got[1][2] # 2
    <3> HIDE DEF got
    <3>0. a + 1 \in DOMAIN t /\ got[1] = t[a + 1] /\ a \in Nat
      BY <1>1, <2>2, <2>3
    <3>1. PICK j \in DOMAIN t : j = a + 1 /\ got[1] = t[j]
      BY <3>0, Zenon
    <3>4. j - 1 = a
      BY <3>0, <3>1
    <3>2. t[j][2] = 2 <=> j > 1 /\ t[j - 1][2] = 1
      BY <1>3, TextFits
    <3>3. j > 1 => t[a][2] # 1
      BY <1>1, <1>4, <1>7, <2>1, <3>1
    <3> QED BY <3>1, <3>4, <3>2, <3>3
  <2>4. ASSUME Len(got) \in DOMAIN got PROVE got[Len(got)][2] # 1
    <3>1. a + Len(got) = c /\ c \in Nat
      BY <1>1, <2>2
    <3>2. got[Len(got)] = t[c] /\ c \in 1..Len(t)
      BY <1>4, <2>2, <2>4, <3>1
    <3> QED BY <1>2, <1>7, <2>1, <3>2
  <2>5. Halved(got) = got
    BY <2>2, <2>3, <2>4, HalvedWhole
  <2> QED BY <1>1, <1>7, <2>1, <2>5
<1>8. CASE element.units = "utf16" /\ readback.units = "scalars"
  <2>1. Chars(t) = Len(t) /\ Wanted = Len(t)
    BY <1>3, <1>8 DEF Count
  <2>2. \A i \in DOMAIN t : t[i][2] = 0
    BY <1>3, <2>1, NoPairs
  <2>3. \A k \in 0..Len(t) : Before(t, "scalars", k) = k
    BY <1>3, <2>1, NoPairs
  <2>4. readback.from \in 0..Len(t) /\ ChunkEnd \in 0..Len(t)
    BY <1>2, <1>4, <2>1
  <2>5. a = readback.from /\ c = ChunkEnd
    BY <1>8, <2>3, <2>4
  <2>6. b = ChunkEnd
    BY <1>8 DEF Before
  <2> HIDE DEF a, b, c
  <2>7. got \in Seq(Unit) /\ Len(got) = c - a /\ DOMAIN got = 1..(c - a)
        /\ \A i \in DOMAIN got : got[i] = t[a + i] /\ a + i \in DOMAIN t
    BY <1>1, <1>4, SubSeqFits
  <2>8. Halved(got) = got
    <3>1. \A i \in DOMAIN got : got[i][2] = 0
      BY <2>2, <2>7
    <3> HIDE DEF got
    <3>2. (1 \in DOMAIN got => got[1][2] # 2) /\ (Len(got) \in DOMAIN got => got[Len(got)][2] # 1)
      BY <3>1
    <3> QED BY <2>7, <3>2, HalvedWhole
  <2> QED BY <1>1, <1>8, <2>5, <2>6, <2>8
<1> QED BY <1>3, <1>5, <1>6, <1>7, <1>8
(*** The call ***)

LEMMA WriteInvInit == WriteInit => WriteInv
<1> SUFFICES ASSUME WriteInit PROVE WriteInv
  OBVIOUS
<1>1. /\ pending = Null /\ step = "begin" /\ readback = NoRead /\ took = FALSE /\ due = 0
      /\ outcome = Null /\ changed = FALSE /\ replaced = FALSE /\ invoked = <<>>
  BY DEF WriteInit, WriteBegins
<1>2. WriteTypes
  <2>1. <<>> \in Texts
    BY WritesAssumption
  <2>2. readback \in [units : {Null, "scalars", "utf16"}, from : Nat]
    BY <1>1 DEF NoRead
  <2>3. wish.kind = "set" => content \in Texts /\ pending \in Texts \cup {Null}
    BY <1>1, <2>1 DEF WriteInit
  <2>4. actions \in ActionLists \cup {<<>>}
    BY DEF WriteInit
  <2>5. names = <<>> /\ DOMAIN names = 1..0
    BY DEF WriteInit, WriteBegins
  <2> QED BY <1>1, <2>2, <2>3, <2>4, <2>5 DEF WriteInit, WriteTypes, WriteSteps, ActionNames
<1>3. Null \notin {"verified", "mismatch", "error", "rejected", "refused", "ran"}
  BY WritesAssumption DEF Outcomes
<1> QED BY <1>1, <1>2, <1>3 DEF WriteInv, StagesFit, ActionHeld, ReadAlike, WritesAreTold, VerifiedIsHeld,
          ErrorMeansNothing, ActionIsNamed, Readings
LEMMA ActionsFit == WriteTypes => Len(actions) \in Nat /\ DOMAIN actions = 1..Len(actions)
<1> SUFFICES ASSUME WriteTypes PROVE Len(actions) \in Nat /\ DOMAIN actions = 1..Len(actions)
  OBVIOUS
<1>1. actions = <<>> \/ actions \in Seq(Range(actions))
  BY WritesAssumption DEF WriteTypes
<1> QED BY <1>1

LEMMA WriteTypesKept == WriteInv /\ [WriteNext]_writeVars => WriteTypes'
<1> SUFFICES ASSUME WriteInv, [WriteNext]_writeVars PROVE WriteTypes'
  OBVIOUS
<1>0. WriteTypes /\ StagesFit /\ ReadAlike
  BY DEF WriteInv
<1>1. element' = element /\ wish' = wish
  BY DEF WriteNext, WriteStep, CannotSet, SetNumber, SetText, ReadRole, ReadbackFails, ReadCount,
         ReadChunk, ReadAgain, DeadlinePasses, ReadActions, ReadNames, QueryTimesOut, DoAction,
         ActionAnswers, ActionFails, Recovers, GivesUp, RunsAction, AppliesText, EditsText, ReplacesActions, AppActs, writeVars
<1>2. step' \in WriteSteps
  BY <1>0 DEF WriteTypes, WriteSteps, Told, Mismatch, WriteNext, WriteStep, CannotSet, SetNumber,
         SetText, ReadRole, ReadbackFails, ReadCount, ReadChunk, ReadAgain, DeadlinePasses,
         ReadActions, ReadNames, QueryTimesOut, DoAction, ActionAnswers, ActionFails, Recovers, GivesUp, RunsAction, AppliesText, EditsText,
         ReplacesActions, AppActs, writeVars
<1>3. changed' \in BOOLEAN /\ replaced' \in BOOLEAN
  BY <1>0, Zenon DEF WriteTypes, appVars, WriteNext, WriteStep, CannotSet, SetNumber,
         SetText, ReadRole, ReadbackFails, ReadCount, ReadChunk, ReadAgain, DeadlinePasses,
         ReadActions, ReadNames, QueryTimesOut, DoAction, ActionAnswers, ActionFails, Recovers, GivesUp, RunsAction, AppliesText, EditsText,
         ReplacesActions, AppActs, writeVars
<1>4. actions' \in ActionLists \cup {<<>>}
  BY <1>0 DEF WriteTypes, appVars, WriteNext, WriteStep, CannotSet, SetNumber,
         SetText, ReadRole, ReadbackFails, ReadCount, ReadChunk, ReadAgain, DeadlinePasses,
         ReadActions, ReadNames, QueryTimesOut, DoAction, ActionAnswers, ActionFails, Recovers, GivesUp, RunsAction, AppliesText, EditsText,
         ReplacesActions, AppActs, writeVars
<1>5. readback' \in [units : {Null, "scalars", "utf16"}, from : Nat]
  <2>1. CASE ReadCount
    BY <1>0, <2>1 DEF ReadCount, WriteTypes, Mismatch
  <2>2. CASE ReadChunk
    <3>1. CASE readback' = [readback EXCEPT !.from = ChunkEnd] /\ readback.from < Wanted
      <4>1. wish.kind = "set" /\ readback.units \in {"scalars", "utf16"} /\ readback.from \in Nat
        BY <1>0, <2>2 DEF ReadChunk, StagesFit, ReadAlike, Readings, WriteTypes
      <4>2. wish.text \in Texts
        BY <1>0, <4>1 DEF WriteTypes
      <4>3. ChunkEnd \in Nat
        BY <3>1, <4>1, <4>2, ChunkEndFits
      <4> QED BY <1>0, <3>1, <4>3 DEF WriteTypes
    <3>2. CASE readback' = readback
      BY <1>0, <3>2 DEF WriteTypes
    <3>3. readback.from \in Nat /\ Wanted \in Nat
      <4>1. wish.kind = "set" /\ readback.units \in {"scalars", "utf16"} /\ readback.from \in Nat
        BY <1>0, <2>2 DEF ReadChunk, StagesFit, ReadAlike, Readings, WriteTypes
      <4>2. wish.text \in Texts
        BY <1>0, <4>1 DEF WriteTypes
      <4> QED BY <4>1, <4>2, BeforeFits DEF Wanted
    <3> QED BY <2>2, <3>1, <3>2, <3>3 DEF ReadChunk
  <2>3. CASE ReadAgain
    BY <2>3 DEF ReadAgain, NoRead
  <2>4. CASE ~ReadCount /\ ~ReadChunk /\ ~ReadAgain
    <3>1. readback' = readback
      BY <2>4 DEF WriteNext, WriteStep, CannotSet, SetNumber,
         SetText, ReadRole, ReadbackFails, DeadlinePasses,
         ReadActions, ReadNames, QueryTimesOut, DoAction, ActionAnswers, ActionFails, Recovers, GivesUp, RunsAction, AppliesText, EditsText,
         ReplacesActions, AppActs, writeVars
    <3> QED BY <1>0, <3>1 DEF WriteTypes
  <2> QED BY <2>1, <2>2, <2>3, <2>4
<1>6. ASSUME wish.kind = "set" PROVE content' \in Texts /\ pending' \in Texts \cup {Null}
  <2>1. CASE SetText
    <3>1. wish.text \in Texts /\ KeptOf[wish.text] \in Texts
      BY <1>0, <1>6, WritesAssumption DEF WriteTypes
    <3> QED BY <1>0, <1>6, <2>1, <3>1 DEF SetText, WriteTypes
  <2>2. CASE AppliesText
    BY <1>0, <1>6, <2>2 DEF AppliesText, WriteTypes
  <2>3. CASE EditsText
    BY <1>0, <1>6, <2>3 DEF EditsText, WriteTypes
  <2>4. CASE ~SetText /\ ~AppliesText /\ ~EditsText
    <3>1. content' = content /\ pending' = pending
      BY <2>4 DEF appVars, WriteNext, WriteStep, CannotSet, SetNumber,
         ReadRole, ReadbackFails, ReadCount, ReadChunk, ReadAgain, DeadlinePasses,
         ReadActions, ReadNames, QueryTimesOut, DoAction, ActionAnswers, ActionFails, Recovers,
         GivesUp, RunsAction, ReplacesActions, AppActs, writeVars
    <3> QED BY <1>0, <1>6, <3>1 DEF WriteTypes
  <2> QED BY <2>1, <2>2, <2>3, <2>4
<1>7. \E n \in Nat : DOMAIN names' = 1..n
  <2>1. CASE ReadActions /\ names' = [i \in DOMAIN actions |-> Null]
    BY <1>0, <2>1, ActionsFit
  <2>2. CASE names' = names
    BY <1>0, <2>2 DEF WriteTypes
  <2>3. CASE ReadNames
    <3>1. DOMAIN names' = DOMAIN names
      BY <2>3 DEF ReadNames
    <3> QED BY <1>0, <3>1 DEF WriteTypes
  <2>4. CASE ~ReadNames /\ ~(ReadActions /\ names' = [i \in DOMAIN actions |-> Null]) /\ ~Recovers
    <3>1. names' = names
      BY <2>4 DEF appVars, WriteNext, WriteStep, CannotSet, SetNumber, SetText,
         ReadRole, ReadbackFails, ReadCount, ReadChunk, ReadAgain, DeadlinePasses,
         ReadActions, QueryTimesOut, DoAction, ActionAnswers, ActionFails, GivesUp, RunsAction, AppliesText, EditsText,
         ReplacesActions, AppActs, writeVars
    <3> QED BY <2>2, <3>1
  <2>5. CASE Recovers
    <3>1. names' = <<>> /\ DOMAIN names' = 1..0
      BY <2>5 DEF Recovers
    <3> QED BY <3>1
  <2> QED BY <2>1, <2>2, <2>3, <2>4, <2>5
<1>8. invoked' = <<>> \/ \E name \in ActionNames : invoked' = <<name>>
  <2>1. CASE RunsAction
    <3>1. due # 0 /\ invoked = <<>>
      BY <2>1 DEF RunsAction, WriteInv, ActionHeld
    <3>2. invoked' = invoked \/ (due \in DOMAIN actions /\ invoked' = Append(invoked, actions[due]))
      BY <2>1 DEF RunsAction
    <3>3. due \in DOMAIN actions => actions[due] \in ActionNames
      BY <1>0, ActionsFit DEF WriteTypes, ActionNames, Range
    <3>4. \A name : Append(<<>>, name) = <<name>>
      OBVIOUS
    <3> QED BY <3>1, <3>2, <3>3, <3>4
  <2>2. CASE ~RunsAction
    <3>1. invoked' = invoked
      BY <2>2 DEF WriteNext, WriteStep, CannotSet, SetNumber, SetText, ReadRole, ReadbackFails, ReadCount,
         ReadChunk, ReadAgain, DeadlinePasses, ReadActions, ReadNames, QueryTimesOut, DoAction,
         ActionAnswers, ActionFails, Recovers, GivesUp, AppliesText, EditsText, ReplacesActions, AppActs,
         writeVars
    <3> QED BY <1>0, <3>1 DEF WriteTypes
  <2> QED BY <2>1, <2>2
<1> QED BY <1>0, <1>1, <1>2, <1>3, <1>4, <1>5, <1>6, <1>7, <1>8 DEF WriteTypes

\* What holds of a call besides the types.
WriteHolds == StagesFit /\ ActionHeld /\ ReadAlike /\ WritesAreTold

LEMMA WriteOutcomes ==
    /\ Null # "number" /\ Null # "error" /\ Null # "failed" /\ Null # "timed_out" /\ Null # "password"
    /\ Null # "verified" /\ Null # "mismatch" /\ Null # "ran" /\ Null # "rejected" /\ Null # "unsure"
    /\ Null # "refused"
BY WritesAssumption DEF Outcomes

LEMMA IdleKept == WriteInv /\ UNCHANGED writeVars => WriteHolds'
<1> SUFFICES ASSUME WriteInv, UNCHANGED writeVars PROVE WriteHolds'
  OBVIOUS
<1>1. WriteHolds
  BY DEF WriteInv, WriteHolds
<1> QED BY <1>1 DEF writeVars, WriteHolds, StagesFit, ActionHeld, ReadAlike, WritesAreTold, VerifiedIsHeld,
       ErrorMeansNothing, ActionIsNamed, Readings, CharacterCount, Wanted

LEMMA CannotSetKept == WriteInv /\ CannotSet => WriteHolds'
BY WriteOutcomes DEF CannotSet, Told, appVars, WriteInv, WriteHolds, StagesFit, ActionHeld, ReadAlike, WritesAreTold, VerifiedIsHeld,
       ErrorMeansNothing, ActionIsNamed, Readings, WriteTypes, NoRead, IsPassword, Revalidating

LEMMA SetNumberKept == WriteInv /\ SetNumber => WriteHolds'
BY WriteOutcomes DEF SetNumber, Told, appVars, WriteInv, WriteHolds, StagesFit, ActionHeld, ReadAlike, WritesAreTold, VerifiedIsHeld,
       ErrorMeansNothing, ActionIsNamed, Readings, WriteTypes, NoRead, IsPassword, Revalidating

LEMMA SetTextKept == WriteInv /\ SetText => WriteHolds'
BY WriteOutcomes DEF SetText, Told, appVars, WriteInv, WriteHolds, StagesFit, ActionHeld, ReadAlike, WritesAreTold, VerifiedIsHeld,
       ErrorMeansNothing, ActionIsNamed, Readings, WriteTypes, NoRead, IsPassword, Revalidating

LEMMA ReadRoleKept == WriteInv /\ ReadRole => WriteHolds'
BY WriteOutcomes DEF ReadRole, Told, appVars, WriteInv, WriteHolds, StagesFit, ActionHeld, ReadAlike, WritesAreTold, VerifiedIsHeld,
       ErrorMeansNothing, ActionIsNamed, Readings, WriteTypes, NoRead, IsPassword, Revalidating

LEMMA ReadbackFailsKept == WriteInv /\ ReadbackFails => WriteHolds'
BY WriteOutcomes DEF ReadbackFails, Told, appVars, WriteInv, WriteHolds, StagesFit, ActionHeld, ReadAlike, WritesAreTold, VerifiedIsHeld,
       ErrorMeansNothing, ActionIsNamed, Readings, WriteTypes, NoRead, IsPassword, Revalidating

LEMMA ReadAgainKept == WriteInv /\ ReadAgain => WriteHolds'
BY WriteOutcomes DEF ReadAgain, Told, appVars, WriteInv, WriteHolds, StagesFit, ActionHeld, ReadAlike, WritesAreTold, VerifiedIsHeld,
       ErrorMeansNothing, ActionIsNamed, Readings, WriteTypes, NoRead, IsPassword, Revalidating

LEMMA DeadlinePassesKept == WriteInv /\ DeadlinePasses => WriteHolds'
BY WriteOutcomes DEF DeadlinePasses, Told, appVars, WriteInv, WriteHolds, StagesFit, ActionHeld, ReadAlike, WritesAreTold, VerifiedIsHeld,
       ErrorMeansNothing, ActionIsNamed, Readings, WriteTypes, NoRead, IsPassword, Revalidating

LEMMA ReadActionsKept == WriteInv /\ ReadActions => WriteHolds'
BY WriteOutcomes DEF ReadActions, Told, appVars, WriteInv, WriteHolds, StagesFit, ActionHeld, ReadAlike, WritesAreTold, VerifiedIsHeld,
       ErrorMeansNothing, ActionIsNamed, Readings, WriteTypes, NoRead, IsPassword, Revalidating

LEMMA QueryTimesOutKept == WriteInv /\ QueryTimesOut => WriteHolds'
BY WriteOutcomes DEF QueryTimesOut, Told, appVars, WriteInv, WriteHolds, StagesFit, ActionHeld, ReadAlike, WritesAreTold, VerifiedIsHeld,
       ErrorMeansNothing, ActionIsNamed, Readings, WriteTypes, NoRead, IsPassword, Revalidating

LEMMA DoActionKept == WriteInv /\ DoAction => WriteHolds'
BY WriteOutcomes DEF DoAction, Told, appVars, WriteInv, WriteHolds, StagesFit, ActionHeld, ReadAlike, WritesAreTold, VerifiedIsHeld,
       ErrorMeansNothing, ActionIsNamed, Readings, WriteTypes, NoRead, IsPassword, Revalidating

LEMMA ActionAnswersKept == WriteInv /\ ActionAnswers => WriteHolds'
BY WriteOutcomes DEF ActionAnswers, Told, appVars, WriteInv, WriteHolds, StagesFit, ActionHeld, ReadAlike, WritesAreTold, VerifiedIsHeld,
       ErrorMeansNothing, ActionIsNamed, Readings, WriteTypes, NoRead, IsPassword, Revalidating

LEMMA ActionFailsKept == WriteInv /\ ActionFails => WriteHolds'
BY WriteOutcomes DEF ActionFails, Told, appVars, WriteInv, WriteHolds, StagesFit, ActionHeld, ReadAlike, WritesAreTold, VerifiedIsHeld,
       ErrorMeansNothing, ActionIsNamed, Readings, WriteTypes, NoRead, IsPassword, Revalidating

LEMMA RecoversKept == WriteInv /\ Recovers => WriteHolds'
BY WriteOutcomes DEF Recovers, MayRecover, Told, appVars, WriteInv, WriteHolds, StagesFit, ActionHeld, ReadAlike, WritesAreTold, VerifiedIsHeld,
       ErrorMeansNothing, ActionIsNamed, Readings, WriteTypes, NoRead, IsPassword, Revalidating

LEMMA GivesUpKept == WriteInv /\ GivesUp => WriteHolds'
BY WriteOutcomes DEF GivesUp, Told, appVars, WriteInv, WriteHolds, StagesFit, ActionHeld, ReadAlike, WritesAreTold, VerifiedIsHeld,
       ErrorMeansNothing, ActionIsNamed, Readings, WriteTypes, NoRead, IsPassword, Revalidating

\* The action that is run once had its name, or was replaced.
LEMMA RunsActionKept == WriteInv /\ RunsAction => WriteHolds'
<1> SUFFICES ASSUME WriteInv, RunsAction PROVE WriteHolds'
  OBVIOUS
<1>1. due # 0 /\ invoked = <<>> /\ wish.kind = "act" /\ due = index /\ outcome # "error"
  BY DEF RunsAction, WriteInv, ActionHeld, StagesFit
<1>2. /\ due' = 0
      /\ UNCHANGED <<element, content, pending, actions, replaced, wish, step, names, index, took, outcome, changed,
                     readback>>
  BY DEF RunsAction, appVars
<1>3. step \in {"doing", "gone", "done"}
  BY <1>1 DEF WriteInv, WriteTypes, WriteSteps, StagesFit, Readings
<1>4. step = "done" => outcome \notin {"error", "rejected", "refused", "ran"}
  BY <1>1 DEF WriteInv, WritesAreTold, ErrorMeansNothing
<1>5. invoked' = <<>> \/ (due \in DOMAIN actions /\ invoked' = <<actions[due]>>)
  <2>1. invoked' = invoked \/ (due \in DOMAIN actions /\ invoked' = Append(invoked, actions[due]))
    BY DEF RunsAction
  <2>2. \A name : Append(<<>>, name) = <<name>>
    OBVIOUS
  <2> QED BY <1>1, <2>1, <2>2
<1>6. Len(invoked') <= 1 /\ \A i \in DOMAIN invoked' : invoked'[i] = actions[due]
  <2>1. \A x : Len(<<x>>) = 1 /\ DOMAIN <<x>> = {1} /\ <<x>>[1] = x
    OBVIOUS
  <2>2. Len(<<>>) = 0 /\ DOMAIN <<>> = {}
    OBVIOUS
  <2>3. CASE invoked' = <<>>
    BY <2>2, <2>3
  <2>4. CASE invoked' = <<actions[due]>>
    BY <2>1, <2>4
  <2> QED BY <1>5, <2>3, <2>4
<1>7. ~replaced => actions[due] = wish.name
  BY <1>1 DEF WriteInv, ActionHeld
<1>8. StagesFit'
  BY <1>1, <1>2, <1>3 DEF StagesFit, WriteInv, Readings
<1>9. ActionHeld'
  BY <1>2, <1>3 DEF ActionHeld
<1>10. ReadAlike'
  BY <1>2, <1>3 DEF ReadAlike
<1>11. ErrorMeansNothing'
  BY <1>2, <1>4, <1>6 DEF ErrorMeansNothing
<1>12. ActionIsNamed'
  BY <1>2, <1>6, <1>7 DEF ActionIsNamed
<1>13. VerifiedIsHeld'
  BY <1>2 DEF VerifiedIsHeld, WriteInv, WritesAreTold
<1> QED BY <1>8, <1>9, <1>10, <1>11, <1>12, <1>13 DEF WriteHolds, WritesAreTold

LEMMA ReadCountKept == WriteInv /\ ReadCount => WriteHolds'
<1> SUFFICES ASSUME WriteInv, ReadCount PROVE WriteHolds'
  OBVIOUS
<1> DEFINE n == CharacterCount(content)  t == wish.text
<1>1. /\ step = "count" /\ wish.kind = "set" /\ took /\ ~element.password /\ outcome = Null
  BY DEF ReadCount, WriteInv, StagesFit, Readings
<1>2. /\ UNCHANGED <<element, content, pending, actions, replaced, wish, names, index, took, due, invoked>>
      /\ changed' = FALSE
  BY DEF ReadCount
<1>3. t \in Texts /\ content \in Texts /\ element.units \in {"scalars", "utf16"}
  BY <1>1 DEF WriteInv, WriteTypes
<1>4. CASE n \in {Chars(t), Len(t)}
  <2>1. /\ readback' = [units |-> IF n = Chars(t) THEN "scalars" ELSE "utf16", from |-> 0]
        /\ step' = "chunk" /\ outcome' = outcome
    BY <1>4 DEF ReadCount
  <2>2. readback'.units \in {"scalars", "utf16"} /\ readback'.from = 0
    BY <2>1
  <2>3. (readback'.units = "utf16" => n # Chars(t) /\ n = Len(t)) /\ (readback'.units = "scalars" => n = Chars(t))
    BY <1>4, <2>1
  <2>4. CharacterCount(content)' = n /\ Wanted' = Count(t, readback'.units)
    BY <1>2 DEF CharacterCount, Wanted
  <2>5. Wanted' = n /\ n \in Nat
    BY <1>3, <2>2, <2>3, <2>4, BeforeFits DEF Count, CharacterCount
  <2>6. Before(content, element.units, 0) = 0 /\ Before(t, readback'.units, 0) = 0
    BY <1>3, <2>2, BeforeFits
  <2>7. Same(content, t, 0)
    BY DEF Same
  <2>8. ReadAlike'
    BY <1>2, <2>2, <2>3, <2>4, <2>5, <2>6, <2>7 DEF ReadAlike
  <2> QED BY <1>1, <1>2, <2>1, <2>8, WriteOutcomes DEF WriteInv, WriteHolds, StagesFit, ActionHeld, ReadAlike, WritesAreTold, VerifiedIsHeld,
       ErrorMeansNothing, ActionIsNamed, Readings
<1>5. CASE n \notin {Chars(t), Len(t)}
  <2>1. readback' = readback /\ ((step' = "again" /\ outcome' = outcome) \/ (step' = "done" /\ outcome' = "mismatch"))
    BY <1>5 DEF ReadCount, Mismatch, Told
  <2>2. content # t
    BY <1>3, <1>5 DEF CharacterCount, Count
  <2> QED BY <1>1, <1>2, <2>1, <2>2, WriteOutcomes DEF WriteInv, WriteHolds, StagesFit, ActionHeld, ReadAlike, WritesAreTold, VerifiedIsHeld,
       ErrorMeansNothing, ActionIsNamed, Readings
<1> QED BY <1>4, <1>5

LEMMA ReadChunkKept == WriteInv /\ ReadChunk => WriteHolds'
<1> SUFFICES ASSUME WriteInv, ReadChunk PROVE WriteHolds'
  OBVIOUS
<1> DEFINE t == wish.text  f == readback.from
<1>1. /\ step = "chunk" /\ wish.kind = "set" /\ took /\ ~element.password /\ outcome = Null
  BY DEF ReadChunk, WriteInv, StagesFit, Readings
<1>2. UNCHANGED <<element, content, pending, actions, replaced, wish, names, index, took, due, invoked, changed>>
  BY DEF ReadChunk, appVars
<1>3. /\ t \in Texts /\ content \in Texts /\ element.units \in {"scalars", "utf16"} /\ f \in Nat
      /\ readback \in [units : {Null, "scalars", "utf16"}, from : Nat]
      /\ readback.units \in {"scalars", "utf16"} /\ changed \in BOOLEAN
  BY <1>1 DEF WriteInv, WriteTypes, ReadAlike
<1>4. Wanted \in Nat
  BY <1>3, BeforeFits DEF Wanted
<1>5. ~changed => /\ Reader
                  /\ readback.units = "utf16" =>
                        /\ Chars(t) # Len(t)
                        /\ f \in 1..Len(t) - 1 => t[f][2] # 1
  BY <1>1, <1>3 DEF WriteInv, ReadAlike, Reader
<1>6. CASE f >= Wanted
  <2>1. step' = "done" /\ outcome' = "verified" /\ readback' = readback
    BY <1>6 DEF ReadChunk, Told
  <2>2. content = t \/ changed
    BY <1>3, <1>5, <1>6, ReadToEnd
  <2> QED BY <1>1, <1>2, <2>1, <2>2, WriteOutcomes DEF WriteInv, WriteHolds, StagesFit, ActionHeld, ReadAlike, WritesAreTold, VerifiedIsHeld,
       ErrorMeansNothing, ActionIsNamed, Readings
<1>7. CASE f < Wanted /\ ChunkMatches(GetText(f, ChunkEnd), Piece(t, readback.units, f, ChunkEnd))
  <2>1. readback' = [readback EXCEPT !.from = ChunkEnd] /\ step' = step /\ outcome' = outcome
    BY <1>3, <1>4, <1>7 DEF ReadChunk
  <2>2. /\ ChunkEnd \in Nat /\ f <= ChunkEnd /\ ChunkEnd <= Wanted
        /\ readback.units = "utf16" /\ ChunkEnd \in 1..Len(t) => t[ChunkEnd][2] # 1
    BY <1>3, <1>7, ChunkEndFits
  <2>3. readback'.from = ChunkEnd /\ readback'.units = readback.units
    BY <1>3, <2>1
  <2>4. CharacterCount(content)' = CharacterCount(content) /\ Wanted' = Wanted
    BY <1>2, <2>3 DEF CharacterCount, Wanted
  <2>5. ASSUME ~changed
        PROVE  /\ CharacterCount(content) = Wanted
               /\ Before(content, element.units, ChunkEnd) = Before(t, readback.units, ChunkEnd)
               /\ Same(content, t, Before(t, readback.units, ChunkEnd))
    <3>1. Reader /\ GetText(f, ChunkEnd) = Piece(t, readback.units, f, ChunkEnd)
      BY <1>5, <1>7, <2>5 DEF ChunkMatches
    <3> QED BY <1>7, <3>1, MatchIsSame DEF Reader
  <2>6. readback.units = "utf16" =>
          /\ ~changed => Chars(t) # Len(t)
          /\ ChunkEnd \in 1..Len(t) - 1 => t[ChunkEnd][2] # 1
    <3>1. Len(t) \in Nat
      BY <1>3, TextFits
    <3> QED BY <1>5, <2>2, <3>1
  <2>7. ReadAlike'
    BY <1>2, <1>3, <2>2, <2>3, <2>4, <2>5, <2>6 DEF ReadAlike
  <2> QED BY <1>1, <1>2, <2>1, <2>7, WriteOutcomes DEF WriteInv, WriteHolds, StagesFit, ActionHeld, ReadAlike, WritesAreTold, VerifiedIsHeld,
       ErrorMeansNothing, ActionIsNamed, Readings
<1>8. CASE f < Wanted /\ ~ChunkMatches(GetText(f, ChunkEnd), Piece(t, readback.units, f, ChunkEnd))
  <2>1. readback' = readback /\ ((step' = "again" /\ outcome' = outcome) \/ (step' = "done" /\ outcome' = "mismatch"))
    BY <1>3, <1>4, <1>8 DEF ReadChunk, Mismatch, Told
  <2>2. content # t \/ changed
    <3>1. SUFFICES ASSUME content = t, ~changed PROVE FALSE
      OBVIOUS
    <3>2. GetText(f, ChunkEnd) = Piece(t, readback.units, f, ChunkEnd)
      BY <1>5, <1>8, <3>1, SameMatches
    <3> QED BY <1>8, <3>2 DEF ChunkMatches
  <2> QED BY <1>1, <1>2, <2>1, <2>2, WriteOutcomes DEF WriteInv, WriteHolds, StagesFit, ActionHeld, ReadAlike, WritesAreTold, VerifiedIsHeld,
       ErrorMeansNothing, ActionIsNamed, Readings
<1> QED BY <1>3, <1>4, <1>6, <1>7, <1>8

\* The chosen place has the name, if any has.
LEMMA ActionIndexIsNamed ==
    ASSUME NEW n \in Nat, NEW list, DOMAIN list = 1..n, NEW name, ActionIndex(list, name) # 0
    PROVE  ActionIndex(list, name) \in 1..n /\ list[ActionIndex(list, name)] = name
<1> DEFINE S == {i \in 1..n : list[i] = name}
<1>1. S # {} /\ S \subseteq Nat
  BY DEF ActionIndex
<1>2. PICK i \in S : \A k \in S : i <= k
  BY <1>1, LeastOf
<1>3. \E j \in DOMAIN list : list[j] = name /\ \A k \in 1..j - 1 : list[k] # name
  BY <1>2
<1> QED BY <1>3 DEF ActionIndex

LEMMA ReadNamesKept == WriteInv /\ ReadNames => WriteHolds'
<1> SUFFICES ASSUME WriteInv, ReadNames PROVE WriteHolds'
  OBVIOUS
<1>1. /\ step = "names" /\ wish.kind = "act" /\ ~took /\ due = 0 /\ invoked = <<>> /\ outcome = Null
  BY DEF ReadNames, WriteInv, StagesFit
<1>2. UNCHANGED <<element, content, pending, actions, replaced, wish, took, due, invoked, changed>>
  BY DEF ReadNames, appVars
<1>3. PICK lost \in SUBSET DOMAIN names :
          LET got == [i \in DOMAIN names |-> IF i \in lost \/ i > Len(actions) THEN Null ELSE actions[i]]
              place == ActionIndex(got, wish.name) IN
          IF place = 0 THEN Told("error") /\ UNCHANGED index
          ELSE step' = "do" /\ index' = place /\ UNCHANGED outcome
  BY DEF ReadNames
<1> DEFINE got == [i \in DOMAIN names |-> IF i \in lost \/ i > Len(actions) THEN Null ELSE actions[i]]
           place == ActionIndex(got, wish.name)
<1>4. CASE place = 0
  <2>1. Told("error") /\ index' = index
    BY <1>3, <1>4
  <2> QED BY <1>1, <1>2, <2>1, WriteOutcomes DEF Told, WriteInv, WriteHolds, StagesFit, ActionHeld, ReadAlike, WritesAreTold, VerifiedIsHeld,
       ErrorMeansNothing, ActionIsNamed, Readings
<1>5. CASE place # 0
  <2>1. step' = "do" /\ index' = place /\ outcome' = outcome
    BY <1>3, <1>5
  <2>2. PICK n \in Nat : DOMAIN names = 1..n
    BY DEF WriteInv, WriteTypes
  <2>3. place \in 1..n /\ got[place] = wish.name
    BY <1>5, <2>2, ActionIndexIsNamed
  <2>4. wish.name # Null
    BY <1>1, WritesAssumption DEF WriteInv, WriteTypes, ActionNames
  <2>5. got[place] = IF place \in lost \/ place > Len(actions) THEN Null ELSE actions[place]
    BY <2>2, <2>3
  <2> HIDE DEF place, got
  <2>6. actions[place] = wish.name /\ place <= Len(actions)
    <3>1. ~(place \in lost \/ place > Len(actions)) /\ actions[place] = wish.name
      BY <2>3, <2>4, <2>5
    <3>2. Len(actions) \in Nat /\ place \in Nat
      BY <2>3, ActionsFit DEF WriteInv
    <3> QED BY <3>1, <3>2
  <2>7. place \in DOMAIN actions
    BY <2>3, <2>6, ActionsFit DEF WriteInv
  <2> QED BY <1>1, <1>2, <2>1, <2>6, <2>7, WriteOutcomes DEF WriteInv, WriteHolds, StagesFit, ActionHeld, ReadAlike, WritesAreTold, VerifiedIsHeld,
       ErrorMeansNothing, ActionIsNamed, Readings
<1> QED BY <1>4, <1>5

LEMMA AppliesTextKept == WriteInv /\ AppliesText => WriteHolds'
BY WriteOutcomes DEF AppliesText, AppActs, WriteTypes, WriteInv, WriteHolds, StagesFit, ActionHeld, ReadAlike, WritesAreTold, VerifiedIsHeld,
       ErrorMeansNothing, ActionIsNamed, Readings

LEMMA EditsTextKept == WriteInv /\ EditsText => WriteHolds'
BY WriteOutcomes DEF EditsText, AppActs, WriteTypes, WriteInv, WriteHolds, StagesFit, ActionHeld, ReadAlike, WritesAreTold, VerifiedIsHeld,
       ErrorMeansNothing, ActionIsNamed, Readings

LEMMA ReplacesActionsKept == WriteInv /\ ReplacesActions => WriteHolds'
BY WriteOutcomes DEF ReplacesActions, AppActs, WriteTypes, WriteInv, WriteHolds, StagesFit, ActionHeld, ReadAlike, WritesAreTold, VerifiedIsHeld,
       ErrorMeansNothing, ActionIsNamed, Readings

LEMMA WriteHoldsKept == WriteInv /\ [WriteNext]_writeVars => WriteHolds'
BY IdleKept, CannotSetKept, SetNumberKept, SetTextKept, ReadRoleKept, ReadbackFailsKept, ReadCountKept,
   ReadChunkKept, ReadAgainKept, DeadlinePassesKept, ReadActionsKept, ReadNamesKept,
   QueryTimesOutKept, DoActionKept, ActionAnswersKept, ActionFailsKept, RecoversKept, GivesUpKept,
   RunsActionKept, AppliesTextKept, EditsTextKept,
   ReplacesActionsKept DEF WriteNext, WriteStep

\* A text that is reported as verified was in the field when it was read, a mismatch was one,
\* an action runs once at most and is the one that was named, and an error other than that
\* of the call that sets or invokes means that nothing was changed, for any texts, chunks,
\* counting, actions, lost answers and changes by the application.
THEOREM WritesStayTold == WriteSpec => []WritesAreTold
<1>1. WriteInv /\ [WriteNext]_writeVars => WriteInv'
  BY WriteTypesKept, WriteHoldsKept DEF WriteInv, WriteHolds
<1>2. WriteInv => WritesAreTold
  BY DEF WriteInv
<1> QED BY WriteInvInit, <1>1, <1>2, PTL DEF WriteSpec

(*************************** The result **************************************)

LEMMA GreatestOf ==
    ASSUME NEW n \in Nat, NEW T \in SUBSET (0..n), T # {} PROVE \E x \in T : \A y \in T : y <= x
<1> DEFINE D == {n - y : y \in T}
<1>1. D \in SUBSET Nat /\ D # {}
  <2>1. \A y \in T : n - y \in Nat
    <3>1. \A y \in 0..n : n - y \in Nat OBVIOUS
    <3> QED BY <3>1
  <2> QED BY <2>1
<1> HIDE DEF D
<1>2. PICK e \in D : \A d \in D : e <= d BY <1>1, LeastOf
<1>3. PICK x \in T : e = n - x BY DEF D
<1>4. ASSUME NEW y \in T PROVE y <= x
  <2>1. n - y \in D BY DEF D
  <2>2. n - x <= n - y BY <2>1, <1>2, <1>3
  <2>3. x \in Nat /\ y \in Nat OBVIOUS
  <2> QED BY <2>2, <2>3
<1> QED BY <1>4

\* A rule that gives a node's value, in V, by that of its parent.
RuleOf(n, p, V, base, rule) ==
    /\ n \in Nat /\ p \in [1..n -> Nat] /\ \A i \in 1..n : p[i] < i
    /\ base \in [1..n -> V] /\ rule \in [1..n -> [V -> V]]

FollowsRule(f, n, p, V, base, rule) ==
    /\ f \in [1..n -> V]
    /\ \A i \in 1..n : f[i] = IF p[i] = 0 THEN base[i] ELSE rule[i][f[p[i]]]

\* What is defined of a node by its parent is defined of all nodes.
LEMMA ByParents ==
    ASSUME NEW n, NEW p, NEW V, NEW base, NEW rule, RuleOf(n, p, V, base, rule)
    PROVE  \E f : FollowsRule(f, n, p, V, base, rule)
<1>0. /\ n \in Nat /\ p \in [1..n -> Nat] /\ \A i \in 1..n : p[i] < i
      /\ base \in [1..n -> V] /\ rule \in [1..n -> [V -> V]]
  BY DEF RuleOf
<1> DEFINE Value(f, i) == IF p[i] = 0 THEN base[i] ELSE rule[i][f[p[i]]]
           M == {m \in Nat : m <= n => \E f \in [1..m -> V] : \A i \in 1..m : f[i] = Value(f, i)}
<1>1. 0 \in M
  <2> DEFINE f == [i \in 1..0 |-> base[i]]
  <2>1. 1..0 = {} OBVIOUS
  <2>2. f \in [1..0 -> V] BY <2>1
  <2> QED BY <2>1, <2>2
<1>2. ASSUME NEW m \in Nat, m \in M PROVE m + 1 \in M
  <2> SUFFICES ASSUME m + 1 <= n
               PROVE  \E f \in [1..m + 1 -> V] : \A i \in 1..m + 1 : f[i] = Value(f, i)
    OBVIOUS
  <2>0. m <= n BY <1>0
  <2>1. PICK g \in [1..m -> V] : \A i \in 1..m : g[i] = Value(g, i) BY <1>2, <2>0
  <2> DEFINE h == [i \in 1..m + 1 |-> IF i <= m THEN g[i] ELSE Value(g, m + 1)]
  <2>2. ASSUME NEW i \in 1..m + 1
        PROVE  p[i] \in Nat /\ p[i] < i /\ (p[i] # 0 => p[i] \in 1..m)
    BY <1>0
  <2>3. Value(g, m + 1) \in V
    <3>1. CASE p[m + 1] = 0 BY <3>1, <1>0
    <3>2. CASE p[m + 1] # 0
      <4>1. g[p[m + 1]] \in V BY <2>2, <3>2
      <4> QED BY <4>1, <3>2, <1>0
    <3> QED BY <3>1, <3>2
  <2>4. h \in [1..m + 1 -> V]
    <3> HIDE DEF Value
    <3>1. ASSUME NEW i \in 1..m + 1 PROVE (IF i <= m THEN g[i] ELSE Value(g, m + 1)) \in V
      BY <2>3
    <3> QED BY <3>1
  <2>5. ASSUME NEW i \in 1..m + 1 PROVE h[i] = Value(h, i)
    <3>1. p[i] # 0 => h[p[i]] = g[p[i]] BY <2>2
    <3>2. Value(h, i) = Value(g, i)
      <4> HIDE DEF h
      <4> QED BY <3>1
    <3>3. i <= m => h[i] = Value(g, i)
      <4> SUFFICES ASSUME i <= m PROVE h[i] = Value(g, i) OBVIOUS
      <4>1. i \in 1..m /\ h[i] = g[i] OBVIOUS
      <4> HIDE DEF Value
      <4> QED BY <4>1, <2>1
    <3>4. ~(i <= m) => h[i] = Value(g, i)
      <4> SUFFICES ASSUME ~(i <= m) PROVE h[i] = Value(g, i) OBVIOUS
      <4>1. i = m + 1 OBVIOUS
      <4> HIDE DEF Value
      <4> QED BY <4>1
    <3> QED BY <3>2, <3>3, <3>4
  <2> QED
    <3> HIDE DEF h, Value
    <3> QED BY <2>4, <2>5
<1>3. n \in M
  <2> HIDE DEF M
  <2> QED BY <1>0, <1>1, <1>2, SetInduction
<1>4. PICK f \in [1..n -> V] : \A i \in 1..n : f[i] = Value(f, i) BY <1>3, <1>0
<1>5. FollowsRule(f, n, p, V, base, rule) BY <1>4 DEF FollowsRule
<1> QED BY <1>5

\* A tree in which parents come before their children.
Descends(t, n) ==
    /\ n \in Nat /\ DOMAIN t = 1..n
    /\ \A i \in 1..n : ParentAt(t, i) \in Nat /\ ParentAt(t, i) < i

LEMMA NearestKeptIs ==
    ASSUME NEW t, NEW n, Descends(t, n), NEW keep
    PROVE  \A i \in 1..n : NearestKept(t, keep)[i] =
              IF ParentAt(t, i) = 0 \/ ParentAt(t, i) \in keep THEN ParentAt(t, i)
              ELSE NearestKept(t, keep)[ParentAt(t, i)]
<1> DEFINE p == [i \in 1..n |-> ParentAt(t, i)]
           base == [i \in 1..n |-> 0]
           stay == [v \in Nat |-> v]
           rule == [i \in 1..n |-> IF p[i] \in keep THEN [v \in Nat |-> p[i]] ELSE stay]
           Is(u) == u = [i \in DOMAIN t |->
                            LET q == ParentAt(t, i) IN IF q = 0 \/ q \in keep THEN q ELSE u[q]]
<1>1. n \in Nat /\ p \in [1..n -> Nat] /\ \A i \in 1..n : p[i] < i BY DEF Descends
<1>2. base \in [1..n -> Nat] OBVIOUS
<1>3. rule \in [1..n -> [Nat -> Nat]]
  <2>1. ASSUME NEW i \in 1..n
        PROVE  (IF p[i] \in keep THEN [v \in Nat |-> p[i]] ELSE stay) \in [Nat -> Nat]
    <3>1. p[i] \in Nat BY <1>1
    <3> HIDE DEF p
    <3> QED BY <3>1
  <2> QED BY <2>1
<1>4. PICK f \in [1..n -> Nat] :
         \A i \in 1..n : f[i] = IF p[i] = 0 THEN base[i] ELSE rule[i][f[p[i]]]
  <2> HIDE DEF p, base, rule
  <2>1. RuleOf(n, p, Nat, base, rule) BY <1>1, <1>2, <1>3 DEF RuleOf
  <2>2. PICK f : FollowsRule(f, n, p, Nat, base, rule) BY <2>1, ByParents, Zenon
  <2> QED BY <2>2 DEF FollowsRule
<1>5. Is(f)
  <2>1. ASSUME NEW i \in 1..n
        PROVE  f[i] = LET q == ParentAt(t, i) IN IF q = 0 \/ q \in keep THEN q ELSE f[q]
    <3>1. p[i] = ParentAt(t, i) /\ p[i] \in Nat /\ p[i] < i BY <1>1
    <3>2. CASE p[i] = 0
      <4>1. f[i] = 0 BY <1>4, <3>2
      <4> QED BY <4>1, <3>1, <3>2
    <3>3. CASE p[i] # 0
      <4>1. p[i] \in 1..n BY <3>1, <3>3, <1>1
      <4>2. f[p[i]] \in Nat BY <4>1
      <4>3. f[i] = rule[i][f[p[i]]] BY <1>4, <3>3
      <4>4. rule[i][f[p[i]]] = IF p[i] \in keep THEN p[i] ELSE f[p[i]] BY <4>2
      <4> HIDE DEF p, rule
      <4> QED BY <4>3, <4>4, <3>1, <3>3
    <3> QED BY <3>2, <3>3
  <2>2. f = [i \in 1..n |-> f[i]] OBVIOUS
  <2>3. DOMAIN t = 1..n BY DEF Descends
  <2> QED BY <2>1, <2>2, <2>3
<1> DEFINE r == CHOOSE u : Is(u)
<1>6. Is(r) BY <1>5, Zenon
<1>7. NearestKept(t, keep) = r BY Zenon DEF NearestKept, r
<1> HIDE DEF r
<1>8. DOMAIN t = 1..n BY DEF Descends
<1>9. \A i \in 1..n : r[i] = IF ParentAt(t, i) = 0 \/ ParentAt(t, i) \in keep THEN ParentAt(t, i)
                             ELSE r[ParentAt(t, i)]
  BY <1>6, <1>8
<1> QED BY <1>7, <1>9

LEMMA InLiveRegionIs ==
    ASSUME NEW t, NEW n, Descends(t, n)
    PROVE  \A i \in 1..n :
              /\ InLiveRegion(t)[i] \in BOOLEAN
              /\ InLiveRegion(t)[i] <=>
                    /\ ParentAt(t, i) # 0
                    /\ \/ InLiveRegion(t)[ParentAt(t, i)]
                       \/ Has(t[ParentAt(t, i)], {"live"})
<1> DEFINE p == [i \in 1..n |-> ParentAt(t, i)]
           Live(i) == Has(t[p[i]], {"live"})
           base == [i \in 1..n |-> FALSE]
           rule == [i \in 1..n |-> [v \in BOOLEAN |-> v \/ Live(i)]]
           Is(u) == u = [i \in DOMAIN t |->
                            LET q == ParentAt(t, i) IN q # 0 /\ (u[q] \/ Has(t[q], {"live"}))]
<1>1. n \in Nat /\ p \in [1..n -> Nat] /\ \A i \in 1..n : p[i] < i BY DEF Descends
<1>2. base \in [1..n -> BOOLEAN] OBVIOUS
<1>3. rule \in [1..n -> [BOOLEAN -> BOOLEAN]]
  <2>1. ASSUME NEW i \in 1..n PROVE [v \in BOOLEAN |-> v \/ Live(i)] \in [BOOLEAN -> BOOLEAN]
    <3> DEFINE l == Live(i)
    <3> HIDE DEF Live
    <3> QED OBVIOUS
  <2> QED BY <2>1
<1>4. PICK f \in [1..n -> BOOLEAN] :
         \A i \in 1..n : f[i] = IF p[i] = 0 THEN base[i] ELSE rule[i][f[p[i]]]
  <2> HIDE DEF p, base, rule
  <2>1. RuleOf(n, p, BOOLEAN, base, rule) BY <1>1, <1>2, <1>3 DEF RuleOf
  <2>2. PICK f : FollowsRule(f, n, p, BOOLEAN, base, rule) BY <2>1, ByParents, Zenon
  <2> QED BY <2>2 DEF FollowsRule
<1>5. Is(f)
  <2>1. ASSUME NEW i \in 1..n
        PROVE  f[i] = LET q == ParentAt(t, i) IN q # 0 /\ (f[q] \/ Has(t[q], {"live"}))
    <3>1. p[i] = ParentAt(t, i) /\ p[i] \in Nat /\ p[i] < i BY <1>1
    <3>2. CASE p[i] = 0
      <4>1. f[i] = FALSE BY <1>4, <3>2
      <4> QED BY <4>1, <3>1, <3>2
    <3>3. CASE p[i] # 0
      <4>1. p[i] \in 1..n BY <3>1, <3>3, <1>1
      <4>2. f[p[i]] \in BOOLEAN BY <4>1
      <4>3. f[i] = rule[i][f[p[i]]] BY <1>4, <3>3
      <4>4. rule[i][f[p[i]]] = (f[p[i]] \/ Live(i))
        <5> HIDE DEF Live, p
        <5> QED BY <4>2
      <4>5. Live(i) = Has(t[p[i]], {"live"}) OBVIOUS
      <4> HIDE DEF p, rule, Live
      <4>6. f[i] = (f[p[i]] \/ Has(t[p[i]], {"live"})) BY <4>3, <4>4, <4>5
      <4>7. f[i] = (p[i] # 0 /\ (f[p[i]] \/ Has(t[p[i]], {"live"}))) BY <4>6, <3>3, <4>2
      <4> QED BY <4>7, <3>1, Zenon
    <3> QED BY <3>2, <3>3
  <2>2. f = [i \in 1..n |-> f[i]] OBVIOUS
  <2>3. DOMAIN t = 1..n BY DEF Descends
  <2> QED BY <2>1, <2>2, <2>3
<1> DEFINE r == CHOOSE u : Is(u)
<1>6. Is(r) BY <1>5, Zenon
<1>7. InLiveRegion(t) = r BY Zenon DEF InLiveRegion, r
<1> HIDE DEF r
<1>8. DOMAIN t = 1..n BY DEF Descends
<1>9. \A i \in 1..n : r[i] = (/\ ParentAt(t, i) # 0
                              /\ r[ParentAt(t, i)] \/ Has(t[ParentAt(t, i)], {"live"}))
  BY <1>6, <1>8
<1> QED BY <1>7, <1>9

LEMMA AboveIs ==
    ASSUME NEW t, NEW n, Descends(t, n)
    PROVE  \A i \in 1..n : Above(t)[i] =
              IF ParentAt(t, i) = 0 THEN {} ELSE {ParentAt(t, i)} \cup Above(t)[ParentAt(t, i)]
<1> DEFINE p == [i \in 1..n |-> ParentAt(t, i)]
           V == SUBSET Nat
           base == [i \in 1..n |-> {}]
           rule == [i \in 1..n |-> [v \in V |-> {p[i]} \cup v]]
           Is(u) == u = [i \in DOMAIN t |-> IF ParentAt(t, i) = 0 THEN {}
                                            ELSE {ParentAt(t, i)} \cup u[ParentAt(t, i)]]
<1>1. n \in Nat /\ p \in [1..n -> Nat] /\ \A i \in 1..n : p[i] < i BY DEF Descends
<1>2. base \in [1..n -> V] OBVIOUS
<1>3. rule \in [1..n -> [V -> V]]
  <2>1. ASSUME NEW i \in 1..n PROVE [v \in V |-> {p[i]} \cup v] \in [V -> V]
    <3>1. p[i] \in Nat BY <1>1
    <3> HIDE DEF p
    <3> QED BY <3>1
  <2> QED BY <2>1
<1>4. PICK f \in [1..n -> V] :
         \A i \in 1..n : f[i] = IF p[i] = 0 THEN base[i] ELSE rule[i][f[p[i]]]
  <2> HIDE DEF p, base, rule, V
  <2>1. RuleOf(n, p, V, base, rule) BY <1>1, <1>2, <1>3 DEF RuleOf
  <2>2. PICK f : FollowsRule(f, n, p, V, base, rule) BY <2>1, ByParents, Zenon
  <2> QED BY <2>2 DEF FollowsRule
<1>5. Is(f)
  <2>1. ASSUME NEW i \in 1..n
        PROVE  f[i] = IF ParentAt(t, i) = 0 THEN {} ELSE {ParentAt(t, i)} \cup f[ParentAt(t, i)]
    <3>1. p[i] = ParentAt(t, i) /\ p[i] \in Nat /\ p[i] < i BY <1>1
    <3>2. CASE p[i] = 0
      <4>1. f[i] = {} BY <1>4, <3>2
      <4> QED BY <4>1, <3>1, <3>2
    <3>3. CASE p[i] # 0
      <4>1. p[i] \in 1..n BY <3>1, <3>3, <1>1
      <4>2. f[p[i]] \in V
        <5> HIDE DEF V, p
        <5> QED BY <4>1
      <4>3. f[i] = rule[i][f[p[i]]] BY <1>4, <3>3
      <4>4. rule[i][f[p[i]]] = {p[i]} \cup f[p[i]]
        <5> HIDE DEF V, p
        <5> QED BY <4>2
      <4> HIDE DEF p, rule
      <4> QED BY <4>3, <4>4, <3>1, <3>3
    <3> QED BY <3>2, <3>3
  <2>2. f = [i \in 1..n |-> f[i]] OBVIOUS
  <2>3. DOMAIN t = 1..n BY DEF Descends
  <2> QED BY <2>1, <2>2, <2>3
<1> DEFINE r == CHOOSE u : Is(u)
<1>6. Is(r) BY <1>5, Zenon
<1>7. Above(t) = r BY Zenon DEF Above, r
<1> HIDE DEF r
<1>8. DOMAIN t = 1..n BY DEF Descends
<1>9. \A i \in 1..n : r[i] = IF ParentAt(t, i) = 0 THEN {}
                             ELSE {ParentAt(t, i)} \cup r[ParentAt(t, i)]
  BY <1>6, <1>8
<1> QED BY <1>7, <1>9

LEMMA ForestDescends ==
    ASSUME NEW r, IsForest(r), NoParent \notin Nat
    PROVE  /\ Descends(r, Len(r))
           /\ \A i \in 1..Len(r) :
                 ParentAt(r, i) = IF r[i].parent = NoParent THEN 0 ELSE r[i].parent
<1>1. r \in Seq(Nodes) /\ Len(r) \in Nat /\ DOMAIN r = 1..Len(r) BY DEF IsForest
<1>2. ASSUME NEW i \in 1..Len(r)
      PROVE  ParentAt(r, i) = IF r[i].parent = NoParent THEN 0 ELSE r[i].parent
  <2>1. \A j \in DOMAIN r : r[j].index = j /\ j \in Nat BY <1>1 DEF IsForest
  <2>2. CASE r[i].parent = NoParent
    <3>1. ~\E j \in DOMAIN r : r[j].index = r[i].parent BY <2>1, <2>2
    <3> QED BY <3>1, <2>2 DEF ParentAt
  <2>3. CASE r[i].parent # NoParent
    <3>1. r[i].parent \in DOMAIN r
      <4>1. r[i].parent \in 1..i - 1 BY <1>1, <2>3 DEF IsForest
      <4> QED BY <4>1, <1>1
    <3>2. \A j \in DOMAIN r : r[j].index = r[i].parent <=> j = r[i].parent BY <2>1
    <3>3. (CHOOSE j \in DOMAIN r : r[j].index = r[i].parent) = r[i].parent BY <3>1, <3>2
    <3> QED BY <3>1, <3>2, <3>3, <2>3 DEF ParentAt
  <2> QED BY <2>2, <2>3
<1>3. ASSUME NEW i \in 1..Len(r) PROVE ParentAt(r, i) \in Nat /\ ParentAt(r, i) < i
  <2>1. r[i].parent = NoParent \/ r[i].parent \in 1..i - 1 BY <1>1 DEF IsForest
  <2> QED BY <2>1, <1>2
<1> QED BY <1>1, <1>2, <1>3 DEF Descends

\* What is above a node comes before it and is in one line.
InLine(A, n) ==
    /\ n \in Nat
    /\ \A i \in 1..n : A[i] \subseteq 1..i - 1
    /\ \A i \in 1..n : \A a \in A[i] : A[a] \subseteq A[i]
    /\ \A i \in 1..n : \A a, b \in A[i] : a < b => a \in A[b]

LEMMA AboveInLine ==
    ASSUME NEW r, IsForest(r), NoParent \notin Nat PROVE InLine(Above(r), Len(r))
<1>1. PICK n \in Nat : n = Len(r)
  <2>1. r \in Seq(Nodes) BY DEF IsForest
  <2> QED BY <2>1
<1>2. PICK A : A = Above(r) OBVIOUS
<1> DEFINE p == [i \in 1..n |-> ParentAt(r, i)]
<1>3. ASSUME NEW i \in 1..n PROVE p[i] \in Nat /\ p[i] < i
  BY <1>1, ForestDescends DEF Descends
<1>4. ASSUME NEW i \in 1..n PROVE A[i] = IF p[i] = 0 THEN {} ELSE {p[i]} \cup A[p[i]]
  <2>1. Descends(r, n) BY <1>1, ForestDescends
  <2>2. A[i] = IF ParentAt(r, i) = 0 THEN {} ELSE {ParentAt(r, i)} \cup A[ParentAt(r, i)]
    BY <2>1, <1>2, AboveIs
  <2>3. p[i] = ParentAt(r, i) OBVIOUS
  <2> HIDE DEF p
  <2> QED BY <2>2, <2>3
<1> HIDE DEF p
<1> DEFINE Fine(i) == /\ A[i] \subseteq 1..i - 1
                      /\ \A a \in A[i] : A[a] \subseteq A[i]
                      /\ \A a, b \in A[i] : a < b => a \in A[b]
           Bad == {i \in 1..n : ~Fine(i)}
<1>5. Bad = {}
  <2> SUFFICES ASSUME Bad # {} PROVE FALSE OBVIOUS
  <2>1. PICK i \in Bad : \A j \in Bad : i <= j
    <3>1. Bad \in SUBSET Nat OBVIOUS
    <3> HIDE DEF Bad
    <3> QED BY <3>1, LeastOf
  <2>2. i \in 1..n /\ ~Fine(i) OBVIOUS
  <2>3. p[i] # 0
    <3> SUFFICES ASSUME p[i] = 0 PROVE FALSE OBVIOUS
    <3>1. A[i] = {} BY <2>2, <1>4
    <3> QED BY <3>1, <2>2
  <2>4. PICK q : q = p[i] OBVIOUS
  <2>5. q \in 1..n /\ q < i /\ q \in 1..i - 1 BY <2>2, <2>3, <2>4, <1>3
  <2>6. Fine(q)
    <3>1. q \notin Bad
      <4>1. i \in Nat BY <2>2
      <4> HIDE DEF Bad
      <4> QED BY <2>1, <2>5, <4>1
    <3> HIDE DEF Fine
    <3> QED BY <3>1, <2>5
  <2>7. A[i] = {q} \cup A[q] BY <1>4, <2>2, <2>3, <2>4
  <2> HIDE DEF Bad
  <2>8. A[q] \subseteq 1..q - 1 BY <2>6
  <2>9. A[i] \subseteq 1..i - 1
    <3>1. 1..q - 1 \subseteq 1..i - 1
      <4>1. q \in Nat /\ i \in Nat /\ q < i BY <2>2, <2>5
      <4> HIDE DEF Bad, Fine
      <4> QED BY <4>1
    <3> QED BY <3>1, <2>5, <2>7, <2>8
  <2>10. \A a \in A[i] : A[a] \subseteq A[i] BY <2>6, <2>7
  <2>11. ASSUME NEW a \in A[i], NEW b \in A[i], a < b PROVE a \in A[b]
    <3>1. CASE b = q
      <4>1. a # q BY <3>1, <2>11, <2>5
      <4> QED BY <4>1, <3>1, <2>7
    <3>2. CASE b \in A[q]
      <4>1. b \in 1..q - 1 BY <3>2, <2>8
      <4>2. a \in Nat BY <2>9
      <4>3. a # q BY <4>1, <4>2, <2>11, <2>5
      <4> QED BY <4>3, <3>2, <2>6, <2>7, <2>11
    <3> QED BY <3>1, <3>2, <2>7
  <2> QED BY <2>2, <2>9, <2>10, <2>11
<1>6. \A i \in 1..n : Fine(i)
  <2> HIDE DEF Fine
  <2> QED BY <1>5
<1>7. InLine(A, n) BY <1>6 DEF InLine
<1> QED BY <1>7, <1>1, <1>2

Greatest(g, S) == g \in S /\ \A b \in S : b <= g

\* c is the tree r with only the objects K, each below the nearest above it, where A is
\* what is above each in r.
Listed(c, r, A, K) ==
    /\ c \in Seq(Nodes)
    /\ K = {c[k].object : k \in DOMAIN c}
    /\ \A j, k \in DOMAIN c : j < k => c[j].object < c[k].object /\ c[j].index < c[k].index
    /\ \A k \in DOMAIN c : c[k].depth = r[c[k].object].depth /\ c[k].is = r[c[k].object].is
    /\ \A k \in DOMAIN c :
          \/ A[c[k].object] \cap K = {} /\ c[k].parent = NoParent
          \/ \E j \in DOMAIN c : /\ c[k].parent = c[j].index
                                 /\ Greatest(c[j].object, A[c[k].object] \cap K)

LEMMA ForestListed ==
    ASSUME NEW r, IsForest(r), NoParent \notin Nat PROVE Listed(r, r, Above(r), 1..Len(r))
<1>1. r \in Seq(Nodes) /\ Len(r) \in Nat /\ DOMAIN r = 1..Len(r) BY DEF IsForest
<1>2. PICK A : A = Above(r) OBVIOUS
<1>3. \A i \in 1..Len(r) : r[i].object = i /\ r[i].index = i BY <1>1 DEF IsForest
<1>4. ASSUME NEW k \in 1..Len(r)
      PROVE  \/ A[r[k].object] \cap 1..Len(r) = {} /\ r[k].parent = NoParent
             \/ \E j \in DOMAIN r : /\ r[k].parent = r[j].index
                                    /\ Greatest(r[j].object, A[r[k].object] \cap 1..Len(r))
  <2>1. r[k].object = k BY <1>3
  <2>2. A[k] = IF ParentAt(r, k) = 0 THEN {} ELSE {ParentAt(r, k)} \cup A[ParentAt(r, k)]
    BY <1>2, AboveIs, ForestDescends
  <2>3. ParentAt(r, k) = IF r[k].parent = NoParent THEN 0 ELSE r[k].parent BY ForestDescends
  <2>4. CASE r[k].parent = NoParent BY <2>1, <2>2, <2>3, <2>4
  <2>5. CASE r[k].parent # NoParent
    <3>1. PICK j : j = r[k].parent OBVIOUS
    <3>2. j \in 1..k - 1 /\ j \in 1..Len(r)
      <4>1. j \in 1..k - 1 BY <1>1, <2>5, <3>1 DEF IsForest
      <4> QED BY <4>1, <1>1
    <3>3. A[k] = {j} \cup A[j] BY <2>2, <2>3, <2>5, <3>1, <3>2
    <3>4. A[j] \subseteq 1..j - 1 BY <3>2, <1>2, AboveInLine DEF InLine
    <3>5. Greatest(j, A[k] \cap 1..Len(r)) BY <3>2, <3>3, <3>4 DEF Greatest
    <3> QED BY <3>5, <3>2, <3>1, <1>3, <1>1, <2>1
  <2> QED BY <2>4, <2>5
<1>5. 1..Len(r) = {r[k].object : k \in DOMAIN r} BY <1>1, <1>3
<1>6. \A j, k \in DOMAIN r : j < k => r[j].object < r[k].object /\ r[j].index < r[k].index
  BY <1>1, <1>3
<1>7. \A k \in DOMAIN r : r[k].depth = r[r[k].object].depth /\ r[k].is = r[r[k].object].is
  BY <1>1, <1>3
<1>8. Listed(r, r, A, 1..Len(r)) BY <1>1, <1>4, <1>5, <1>6, <1>7 DEF Listed
<1> QED BY <1>8, <1>2

LEMMA ListedTypes ==
    ASSUME NEW c, NEW r, NEW A, NEW K, Listed(c, r, A, K)
    PROVE  /\ Len(c) \in Nat /\ DOMAIN c = 1..Len(c)
           /\ \A k \in DOMAIN c : /\ c[k] \in Nodes /\ c[k].object \in Nat /\ c[k].index \in Nat
                                  /\ c[k].object \in K
           /\ \A j, k \in DOMAIN c : c[j].object <= c[k].object => j <= k
           /\ \A j, k \in DOMAIN c : c[j].index = c[k].index => j = k
<1>1. c \in Seq(Nodes) /\ Len(c) \in Nat /\ DOMAIN c = 1..Len(c) BY DEF Listed
<1>2. \A k \in DOMAIN c : c[k] \in Nodes BY <1>1
<1>3. \A k \in DOMAIN c : c[k].object \in Nat /\ c[k].index \in Nat BY <1>2 DEF Nodes
<1>4. \A k \in DOMAIN c : c[k].object \in K BY DEF Listed
<1>5. \A j, k \in DOMAIN c : j < k => c[j].object < c[k].object /\ c[j].index < c[k].index
  BY DEF Listed
<1>6. ASSUME NEW j \in DOMAIN c, NEW k \in DOMAIN c, ~(j <= k)
      PROVE  ~(c[j].object <= c[k].object) /\ c[j].index # c[k].index
  <2>1. k < j BY <1>6, <1>1
  <2>2. c[k].object < c[j].object /\ c[k].index < c[j].index BY <2>1, <1>5
  <2> QED BY <2>2, <1>3
<1>7. ASSUME NEW j \in DOMAIN c, NEW k \in DOMAIN c, c[j].index = c[k].index PROVE j = k
  <2>1. j <= k /\ k <= j BY <1>6, <1>7
  <2> QED BY <2>1, <1>1
<1> QED BY <1>1, <1>2, <1>3, <1>4, <1>6, <1>7

LEMMA ListedParent ==
    ASSUME NEW c, NEW r, NEW A, NEW K, Listed(c, r, A, K), NEW n, InLine(A, n), K \subseteq 1..n,
           NoParent \notin Nat, NEW k \in DOMAIN c
    PROVE  \/ A[c[k].object] \cap K = {} /\ c[k].parent = NoParent /\ ParentAt(c, k) = 0
           \/ \E j \in DOMAIN c : /\ j < k /\ c[k].parent = c[j].index /\ ParentAt(c, k) = j
                                  /\ Greatest(c[j].object, A[c[k].object] \cap K)
<1>0. PICK o : o = c[k].object OBVIOUS
<1>1. /\ \A j \in DOMAIN c : c[j].object \in Nat /\ c[j].index \in Nat /\ c[j].object \in K
      /\ \A i, j \in DOMAIN c : c[i].object <= c[j].object => i <= j
      /\ \A i, j \in DOMAIN c : c[i].index = c[j].index => i = j
      /\ DOMAIN c = 1..Len(c) /\ Len(c) \in Nat
  BY ListedTypes
<1>2. o \in 1..n BY <1>0, <1>1
<1>3. CASE A[o] \cap K = {} /\ c[k].parent = NoParent
  <2>1. ~\E j \in DOMAIN c : c[j].index = c[k].parent BY <1>1, <1>3
  <2> QED BY <2>1, <1>0, <1>3 DEF ParentAt
<1>4. CASE \E j \in DOMAIN c : c[k].parent = c[j].index /\ Greatest(c[j].object, A[o] \cap K)
  <2>1. PICK j \in DOMAIN c : c[k].parent = c[j].index /\ Greatest(c[j].object, A[o] \cap K)
    BY <1>4
  <2>2. \A i \in DOMAIN c : c[i].index = c[k].parent <=> i = j BY <2>1, <1>1
  <2>3. (CHOOSE i \in DOMAIN c : c[i].index = c[k].parent) = j BY <2>2
  <2>4. ParentAt(c, k) = j BY <2>2, <2>3 DEF ParentAt
  <2>5. c[j].object < c[k].object
    <3>1. c[j].object \in A[o] BY <2>1 DEF Greatest
    <3>2. A[o] \subseteq 1..o - 1 BY <1>2 DEF InLine
    <3> QED BY <3>1, <3>2, <1>2, <1>0
  <2>6. j < k
    <3>1. ~(c[k].object <= c[j].object) BY <2>5, <1>1
    <3>2. j # k BY <3>1, <1>1
    <3>3. j <= k
      <4>1. c[j].object <= c[k].object BY <2>5, <1>1
      <4> QED BY <4>1, <1>1
    <3> QED BY <3>2, <3>3, <1>1
  <2> QED BY <2>1, <2>4, <2>6, <1>0
<1>5. \/ A[o] \cap K = {} /\ c[k].parent = NoParent
      \/ \E j \in DOMAIN c : c[k].parent = c[j].index /\ Greatest(c[j].object, A[o] \cap K)
  BY <1>0 DEF Listed
<1> QED BY <1>3, <1>4, <1>5

LEMMA ListedDescends ==
    ASSUME NEW c, NEW r, NEW A, NEW K, Listed(c, r, A, K), NEW n, InLine(A, n), K \subseteq 1..n,
           NoParent \notin Nat
    PROVE  Descends(c, Len(c))
<1>1. Len(c) \in Nat /\ DOMAIN c = 1..Len(c) BY ListedTypes
<1>2. ASSUME NEW k \in DOMAIN c PROVE ParentAt(c, k) \in Nat /\ ParentAt(c, k) < k
  <2>1. CASE ParentAt(c, k) = 0 BY <2>1, <1>1
  <2>2. CASE \E j \in DOMAIN c : j < k /\ ParentAt(c, k) = j BY <2>2, <1>1
  <2> QED BY <2>1, <2>2, ListedParent
<1> QED BY <1>1, <1>2 DEF Descends

\* Objects of the nodes at positions S.
ObjectsAt(c, S) == {c[j].object : j \in S}

ListedWithin(c, r, A, K, n) ==
    Listed(c, r, A, K) /\ InLine(A, n) /\ K \subseteq 1..n /\ NoParent \notin Nat

\* up is the last of what is above node k of c and at keep, or 0.
IsNearest(up, c, A, keep, k) ==
    \/ A[c[k].object] \cap ObjectsAt(c, keep) = {} /\ up = 0
    \/ up \in keep /\ Greatest(c[up].object, A[c[k].object] \cap ObjectsAt(c, keep))

LEMMA NearestIsLast ==
    ASSUME NEW c, NEW r, NEW A, NEW K, NEW n, ListedWithin(c, r, A, K, n),
           NEW keep \in SUBSET DOMAIN c, NEW k \in DOMAIN c
    PROVE  IsNearest(NearestKept(c, keep)[k], c, A, keep, k)
<1>0. Listed(c, r, A, K) /\ InLine(A, n) /\ K \subseteq 1..n /\ NoParent \notin Nat
  BY DEF ListedWithin
<1> DEFINE L == {c[j].object : j \in keep}
<1>1. PICK N : N = NearestKept(c, keep) OBVIOUS
<1>2. /\ Len(c) \in Nat /\ DOMAIN c = 1..Len(c) /\ L \subseteq K
      /\ \A j \in DOMAIN c : c[j].object \in K /\ c[j].object \in 1..n
  BY <1>0, ListedTypes
<1>3. ASSUME NEW i \in DOMAIN c
      PROVE  N[i] = IF ParentAt(c, i) = 0 \/ ParentAt(c, i) \in keep THEN ParentAt(c, i)
                    ELSE N[ParentAt(c, i)]
  <2>1. Descends(c, Len(c)) BY <1>0, ListedDescends
  <2> QED BY <2>1, <1>1, <1>2, NearestKeptIs
<1> DEFINE Right(i) == \/ A[c[i].object] \cap L = {} /\ N[i] = 0
                       \/ N[i] \in keep /\ Greatest(c[N[i]].object, A[c[i].object] \cap L)
           Wrong == {i \in DOMAIN c : ~Right(i)}
<1>4. Wrong = {}
  <2> SUFFICES ASSUME Wrong # {} PROVE FALSE OBVIOUS
  <2>1. PICK i \in Wrong : \A j \in Wrong : i <= j
    <3>1. Wrong \in SUBSET Nat
      <4> HIDE DEF Right
      <4> QED BY <1>2
    <3> HIDE DEF Wrong
    <3> QED BY <3>1, LeastOf
  <2>2. i \in DOMAIN c /\ ~Right(i) OBVIOUS
  <2>3. PICK o : o = c[i].object OBVIOUS
  <2>4. o \in 1..n BY <2>2, <2>3, <1>2
  <2>5. CASE A[o] \cap K = {} /\ ParentAt(c, i) = 0
    <3>1. N[i] = 0 BY <1>3, <2>2, <2>5
    <3>2. A[o] \cap L = {} BY <2>5, <1>2
    <3> QED BY <3>1, <3>2, <2>2, <2>3
  <2>6. CASE \E j \in DOMAIN c : j < i /\ ParentAt(c, i) = j /\ Greatest(c[j].object, A[o] \cap K)
    <3>1. PICK j \in DOMAIN c : j < i /\ ParentAt(c, i) = j /\ Greatest(c[j].object, A[o] \cap K)
      BY <2>6
    <3>2. PICK g : g = c[j].object OBVIOUS
    <3>3. g \in A[o] /\ g \in K /\ \A b \in A[o] \cap K : b <= g BY <3>1, <3>2 DEF Greatest
    <3>4. CASE j \in keep
      <4>1. N[i] = j BY <1>3, <2>2, <3>1, <3>4
      <4>2. g \in L BY <3>4, <3>2
      <4>3. Greatest(g, A[o] \cap L) BY <4>2, <3>3, <1>2 DEF Greatest
      <4> QED BY <4>1, <4>3, <3>4, <3>2, <2>2, <2>3
    <3>5. CASE j \notin keep
      <4>1. j # 0 BY <1>2
      <4>2. N[i] = N[j] BY <1>3, <2>2, <3>1, <3>5, <4>1
      <4>3. Right(j)
        <5>1. j \notin Wrong
          <6>1. j \in Nat /\ i \in Nat BY <1>2, <2>2
          <6> HIDE DEF Wrong
          <6> QED BY <2>1, <3>1, <6>1
        <5> HIDE DEF Right
        <5> QED BY <5>1
      <4>4. g \notin L
        <5>1. ASSUME NEW m \in keep, c[m].object = g PROVE FALSE
          <6>1. m <= j /\ j <= m
            <7>1. \A x, y \in DOMAIN c : c[x].object <= c[y].object => x <= y BY <1>0, ListedTypes
            <7>2. c[m].object <= c[j].object /\ c[j].object <= c[m].object
              BY <5>1, <3>2, <1>2
            <7> QED BY <7>1, <7>2
          <6>2. m = j BY <6>1, <1>2
          <6> QED BY <6>2, <3>5
        <5> QED BY <5>1
      <4>5. A[o] \cap L = A[g] \cap L
        <5>1. A[g] \subseteq A[o] BY <3>3, <2>4, <1>0 DEF InLine
        <5>2. ASSUME NEW a \in A[o], a \in L PROVE a \in A[g]
          <6>1. a \in K /\ a <= g /\ a # g BY <5>2, <3>3, <4>4, <1>2
          <6>2. a \in Nat /\ g \in Nat
            <7>1. a \in 1..n /\ g \in 1..n BY <6>1, <3>3, <1>0
            <7> QED BY <7>1
          <6>3. a < g BY <6>1, <6>2
          <6> QED BY <6>3, <3>3, <2>4, <1>0 DEF InLine
        <5> QED BY <5>1, <5>2
      <4> QED BY <4>2, <4>3, <4>5, <3>2, <2>2, <2>3
    <3> QED BY <3>4, <3>5
  <2>7. \/ A[o] \cap K = {} /\ ParentAt(c, i) = 0
        \/ \E j \in DOMAIN c : j < i /\ ParentAt(c, i) = j /\ Greatest(c[j].object, A[o] \cap K)
    BY <2>2, <2>3, <1>0, ListedParent
  <2> QED BY <2>5, <2>6, <2>7
<1>5. Right(k)
  <2> HIDE DEF Right
  <2> QED BY <1>4
<1> QED BY <1>5, <1>1 DEF IsNearest, ObjectsAt

\* The positions that stay, in their order.
LEMMA KeptInOrder ==
    ASSUME NEW n \in Nat, NEW keep \in SUBSET (1..n)
    PROVE  /\ Cardinality(keep) \in Nat
           /\ \A k \in 1..Cardinality(keep) : Kept(keep, k) \in keep
           /\ \A j, k \in 1..Cardinality(keep) : j < k => Kept(keep, j) < Kept(keep, k)
           /\ \A i \in keep : \E k \in 1..Cardinality(keep) : Kept(keep, k) = i
<1> DEFINE To(i) == {j \in keep : j <= i}
           rank == [i \in keep |-> Cardinality(To(i))]
<1>1. IsFiniteSet(keep) /\ Cardinality(keep) \in Nat BY FiniteInterval
<1>2. PICK m \in Nat : m = Cardinality(keep) BY <1>1
<1>3. ASSUME NEW i \in keep PROVE rank[i] \in 1..m
  <2>1. To(i) \in SUBSET keep /\ i \in To(i) OBVIOUS
  <2> HIDE DEF To
  <2>2. IsFiniteSet(To(i)) /\ Cardinality(To(i)) <= m BY <2>1, <1>1, <1>2, FS_Subset
  <2>3. Cardinality(To(i)) \in Nat /\ Cardinality(To(i)) # 0
    BY <2>1, <2>2, FS_CardinalityType, FS_EmptySet
  <2> QED BY <2>2, <2>3
<1>4. ASSUME NEW i \in keep, NEW j \in keep, i < j PROVE rank[i] < rank[j]
  <2>1. To(i) \in SUBSET To(j) /\ j \in To(j) /\ j \notin To(i) /\ To(j) \in SUBSET keep
    <3>1. keep \subseteq Nat /\ i \in Nat /\ j \in Nat OBVIOUS
    <3>2. \A x \in keep : x <= i => x <= j BY <3>1, <1>4
    <3>3. ~(j <= i) /\ j <= j BY <3>1, <1>4
    <3> QED BY <3>2, <3>3
  <2>2. rank[i] = Cardinality(To(i)) /\ rank[j] = Cardinality(To(j)) OBVIOUS
  <2>3. rank[i] \in 1..m /\ rank[j] \in 1..m BY <1>3
  <2> HIDE DEF To, rank
  <2>4. IsFiniteSet(To(j)) BY <2>1, <1>1, FS_Subset
  <2>5. Cardinality(To(i)) <= Cardinality(To(j)) /\ Cardinality(To(i)) # Cardinality(To(j))
    BY <2>1, <2>4, FS_Subset
  <2> QED BY <2>2, <2>3, <2>5
<1>5. \A k \in 1..m : \E i \in keep : rank[i] = k
  <2>1. rank \in [keep -> 1..m]
    <3>1. rank = [i \in keep |-> rank[i]] OBVIOUS
    <3> HIDE DEF rank
    <3> QED BY <3>1, <1>3
  <2> HIDE DEF rank
  <2>2. \A i, j \in keep : rank[i] = rank[j] => i = j
    <3> SUFFICES ASSUME NEW i \in keep, NEW j \in keep, rank[i] = rank[j] PROVE i = j OBVIOUS
    <3>1. ~(i < j) /\ ~(j < i) BY <1>3, <1>4
    <3> QED BY <3>1
  <2>3. rank \in Injection(keep, 1..m) BY <2>1, <2>2, Fun_IsInj
  <2>4. IsFiniteSet(1..m) /\ Cardinality(1..m) = m BY FS_Interval
  <2>5. rank \in Surjection(keep, 1..m) BY <2>3, <2>4, <1>2, FS_Injection
  <2> QED BY <2>5 DEF Surjection
<1>6. ASSUME NEW k \in 1..m PROVE Kept(keep, k) \in keep /\ rank[Kept(keep, k)] = k
  <2>1. \A i \in keep : rank[i] = Cardinality({j \in keep : j <= i}) OBVIOUS
  <2> HIDE DEF rank
  <2>2. \E i \in keep : Cardinality({j \in keep : j <= i}) = k BY <2>1, <1>5
  <2>3. /\ Kept(keep, k) \in keep
        /\ Cardinality({j \in keep : j <= Kept(keep, k)}) = k
    BY <2>2, Zenon DEF Kept
  <2> QED BY <2>1, <2>3
<1> HIDE DEF rank
<1>7. ASSUME NEW j \in 1..m, NEW k \in 1..m, j < k PROVE Kept(keep, j) < Kept(keep, k)
  <2>1. PICK a, b : a = Kept(keep, j) /\ b = Kept(keep, k) OBVIOUS
  <2>2. a \in keep /\ b \in keep /\ rank[a] = j /\ rank[b] = k BY <2>1, <1>6
  <2>3. a # b /\ ~(b < a) BY <2>2, <1>4, <1>7
  <2>4. a < b BY <2>2, <2>3
  <2> QED BY <2>1, <2>4
<1>8. ASSUME NEW i \in keep PROVE \E k \in 1..m : Kept(keep, k) = i
  <2>1. PICK k \in 1..m : k = rank[i] BY <1>3
  <2>2. PICK a : a = Kept(keep, k) OBVIOUS
  <2>3. a \in keep /\ rank[a] = rank[i] BY <2>1, <2>2, <1>6
  <2>4. ~(a < i) /\ ~(i < a) BY <2>3, <1>4, <2>1
  <2>5. a = i BY <2>3, <2>4
  <2> QED BY <2>5, <2>2
<1> QED BY <1>2, <1>6, <1>7, <1>8

\* A node's children are those that name it as parent.
Counted(d) ==
    \A k \in DOMAIN d : d[k].children = Cardinality({j \in DOMAIN d : d[j].parent = d[k].index})

\* d is c with only the nodes at keep, indexed so.
Collapsed(d, c, r, A, keep, label) ==
    /\ Listed(d, r, A, ObjectsAt(c, keep))
    /\ Counted(d)
    /\ \A k \in DOMAIN d : \E i \in keep : d[k].object = c[i].object /\ d[k].index = label[i]

LEMMA CollapseListed ==
    ASSUME NEW c, NEW r, NEW A, NEW K, Listed(c, r, A, K), NEW n, InLine(A, n), K \subseteq 1..n,
           NoParent \notin Nat, NEW keep \in SUBSET DOMAIN c,
           NEW label \in [keep -> Nat], \A i, j \in keep : i < j => label[i] < label[j],
           NEW d, d = Collapse(c, keep, label)
    PROVE  Collapsed(d, c, r, A, keep, label)
<1>1. PICK m, f, up : /\ m = Cardinality(keep) /\ f = [k \in 1..m |-> Kept(keep, k)]
                      /\ up = NearestKept(c, keep)
  OBVIOUS
<1>2. /\ Len(c) \in Nat /\ DOMAIN c = 1..Len(c)
      /\ \A k \in DOMAIN c : c[k] \in Nodes /\ c[k].object \in Nat
      /\ \A j, k \in DOMAIN c : j < k => c[j].object < c[k].object
  BY ListedTypes DEF Listed
<1>3. /\ m \in Nat /\ IsFiniteSet(keep)
      /\ \A k \in 1..m : f[k] \in keep
      /\ \A j, k \in 1..m : j < k => f[j] < f[k]
      /\ \A i \in keep : \E k \in 1..m : f[k] = i
  <2>1. keep \in SUBSET (1..Len(c)) BY <1>2
  <2> QED BY <2>1, <1>1, <1>2, KeptInOrder, FiniteInterval
<1> DEFINE Node(i) == [c[i] EXCEPT
                          !.index = label[i],
                          !.parent = IF up[i] = 0 THEN NoParent ELSE label[up[i]],
                          !.children = Cardinality({j \in keep : up[j] = i})]
<1>4. d = [k \in 1..m |-> Node(f[k])]
  <2>1. d = [k \in 1..m |-> Node(Kept(keep, k))] BY <1>1 DEF Collapse
  <2>2. \A k \in 1..m : f[k] = Kept(keep, k) BY <1>1
  <2> HIDE DEF Node
  <2> QED BY <2>1, <2>2
<1>5. ASSUME NEW i \in keep PROVE up[i] = 0 \/ up[i] \in keep
  <2>1. ListedWithin(c, r, A, K, n) BY DEF ListedWithin
  <2>2. i \in DOMAIN c /\ up[i] = NearestKept(c, keep)[i] BY <1>1
  <2>3. IsNearest(up[i], c, A, keep, i) BY <2>1, <2>2, NearestIsLast
  <2> QED BY <2>3 DEF IsNearest
<1>6. 0 \notin keep BY <1>2
<1>7. ASSUME NEW i \in keep
      PROVE  /\ Node(i) \in Nodes
             /\ Node(i).object = c[i].object /\ Node(i).index = label[i]
             /\ Node(i).depth = c[i].depth /\ Node(i).is = c[i].is
             /\ Node(i).parent = IF up[i] = 0 THEN NoParent ELSE label[up[i]]
             /\ Node(i).children = Cardinality({j \in keep : up[j] = i})
  <2>1. c[i] \in Nodes BY <1>2
  <2>2. PICK x, p, s : /\ x = label[i] /\ p = (IF up[i] = 0 THEN NoParent ELSE label[up[i]])
                       /\ s = Cardinality({j \in keep : up[j] = i})
    OBVIOUS
  <2>3. x \in Nat /\ p \in Nat \cup {NoParent} BY <2>2, <1>5
  <2>4. s \in Int
    <3>1. {j \in keep : up[j] = i} \in SUBSET (1..Len(c)) BY <1>2
    <3>2. Cardinality({j \in keep : up[j] = i}) \in Nat BY <3>1, <1>2, FiniteInterval
    <3> QED BY <3>2, <2>2
  <2>5. Node(i) = [c[i] EXCEPT !.index = x, !.parent = p, !.children = s] BY <2>2
  <2> HIDE DEF Node
  <2> QED BY <2>1, <2>2, <2>3, <2>4, <2>5 DEF Nodes
<1>8. ASSUME NEW k \in 1..m
      PROVE  /\ f[k] \in keep /\ f[k] \in DOMAIN c /\ d[k] \in Nodes
             /\ d[k].object = c[f[k]].object /\ d[k].index = label[f[k]]
             /\ d[k].depth = c[f[k]].depth /\ d[k].is = c[f[k]].is
             /\ d[k].parent = IF up[f[k]] = 0 THEN NoParent ELSE label[up[f[k]]]
             /\ d[k].children = Cardinality({j \in keep : up[j] = f[k]})
  <2>1. PICK i \in keep : i = f[k] BY <1>3
  <2>2. d[k] = Node(i)
    <3> HIDE DEF Node
    <3> QED BY <1>4, <2>1
  <2> HIDE DEF Node
  <2> QED BY <1>7, <2>1, <2>2
<1> HIDE DEF Node
<1>9. DOMAIN d = 1..m BY <1>4
<1>10. d \in Seq(Nodes)
  <2>1. d = [k \in 1..m |-> d[k]] BY <1>4
  <2>2. d \in [1..m -> Nodes] BY <2>1, <1>8
  <2> QED BY <2>2, <1>3, SeqDef
<1> DEFINE L == ObjectsAt(c, keep)
<1>11. L = {d[k].object : k \in DOMAIN d}
  <2>1. ASSUME NEW i \in keep PROVE \E k \in DOMAIN d : c[i].object = d[k].object
    <3>1. PICK k \in 1..m : f[k] = i BY <1>3
    <3> QED BY <3>1, <1>8, <1>9
  <2>2. ASSUME NEW k \in DOMAIN d PROVE \E i \in keep : d[k].object = c[i].object
    <3>1. k \in 1..m BY <1>9
    <3>2. f[k] \in keep /\ d[k].object = c[f[k]].object BY <3>1, <1>8
    <3> QED BY <3>2
  <2> QED BY <2>1, <2>2 DEF ObjectsAt
<1>12. \A j, k \in DOMAIN d : j < k => d[j].object < d[k].object /\ d[j].index < d[k].index
  <2> SUFFICES ASSUME NEW j \in 1..m, NEW k \in 1..m, j < k
               PROVE  d[j].object < d[k].object /\ d[j].index < d[k].index
    BY <1>9
  <2>1. PICK a \in keep, b \in keep : a = f[j] /\ b = f[k] BY <1>3
  <2>2. a < b BY <2>1, <1>3
  <2>3. c[a].object < c[b].object BY <2>2, <1>2
  <2>4. label[a] < label[b] BY <2>2
  <2> QED BY <2>1, <2>3, <2>4, <1>8
<1>13. \A k \in DOMAIN d : d[k].depth = r[d[k].object].depth /\ d[k].is = r[d[k].object].is
  <2> SUFFICES ASSUME NEW k \in 1..m
               PROVE  d[k].depth = r[d[k].object].depth /\ d[k].is = r[d[k].object].is
    BY <1>9
  <2>1. PICK a \in DOMAIN c : a = f[k] BY <1>8
  <2>2. c[a].depth = r[c[a].object].depth /\ c[a].is = r[c[a].object].is BY DEF Listed
  <2> QED BY <2>1, <2>2, <1>8
<1>14. ASSUME NEW k \in DOMAIN d
       PROVE  \/ A[d[k].object] \cap L = {} /\ d[k].parent = NoParent
              \/ \E j \in DOMAIN d : /\ d[k].parent = d[j].index
                                     /\ Greatest(d[j].object, A[d[k].object] \cap L)
  <2>1. PICK a \in keep : a = f[k] BY <1>8, <1>9
  <2>2. d[k].object = c[a].object /\ d[k].parent = IF up[a] = 0 THEN NoParent ELSE label[up[a]]
    BY <2>1, <1>8, <1>9
  <2>3. CASE A[c[a].object] \cap L = {} /\ up[a] = 0 BY <2>2, <2>3
  <2>4. CASE up[a] \in keep /\ Greatest(c[up[a]].object, A[c[a].object] \cap L)
    <3>1. PICK j \in 1..m : f[j] = up[a] BY <2>4, <1>3
    <3>2. d[j].object = c[up[a]].object /\ d[j].index = label[up[a]] BY <3>1, <1>8
    <3>3. up[a] # 0 BY <2>4, <1>6
    <3>4. d[k].parent = d[j].index BY <3>2, <3>3, <2>2
    <3>5. Greatest(d[j].object, A[d[k].object] \cap L) BY <3>2, <2>2, <2>4
    <3> QED BY <3>4, <3>5, <1>9
  <2>5. \/ A[c[a].object] \cap L = {} /\ up[a] = 0
        \/ up[a] \in keep /\ Greatest(c[up[a]].object, A[c[a].object] \cap L)
    <3>1. ListedWithin(c, r, A, K, n) BY DEF ListedWithin
    <3>2. a \in DOMAIN c /\ up[a] = NearestKept(c, keep)[a] BY <1>1
    <3>3. IsNearest(up[a], c, A, keep, a) BY <3>1, <3>2, NearestIsLast
    <3> QED BY <3>3 DEF IsNearest
  <2> QED BY <2>3, <2>4, <2>5
<1>15. Listed(d, r, A, L)
  <2> HIDE DEF L
  <2> QED BY <1>10, <1>11, <1>12, <1>13, <1>14 DEF Listed
<1>16. ASSUME NEW k \in DOMAIN d
       PROVE  d[k].children = Cardinality({j \in DOMAIN d : d[j].parent = d[k].index})
  <2>1. PICK a \in keep : a = f[k] BY <1>8, <1>9
  <2> DEFINE X == {j \in keep : up[j] = a}
             Y == {j \in DOMAIN d : d[j].parent = d[k].index}
             g == [j \in Y |-> f[j]]
  <2>2. d[k].children = Cardinality(X) /\ d[k].index = label[a]
    <3>1. k \in 1..m BY <1>9
    <3>2. d[k].children = Cardinality({j \in keep : up[j] = f[k]}) /\ d[k].index = label[f[k]]
      BY <3>1, <1>8
    <3> QED BY <3>2, <2>1
  <2>3. ASSUME NEW j \in 1..m PROVE d[j].parent = d[k].index <=> up[f[j]] = a
    <3>1. PICK b \in keep : b = f[j] BY <1>3
    <3>2. d[j].parent = IF up[b] = 0 THEN NoParent ELSE label[up[b]] BY <3>1, <1>8
    <3>3. label[a] \in Nat OBVIOUS
    <3>4. CASE up[b] = 0
      <4>1. a # 0 BY <1>6
      <4> QED BY <3>2, <3>3, <3>4, <2>2, <3>1, <4>1
    <3>5. CASE up[b] \in keep
      <4>1. PICK e \in keep : e = up[b] BY <3>5
      <4>2. e = 0 => FALSE BY <1>6
      <4>3. d[j].parent = label[e] BY <4>1, <4>2, <3>2
      <4>4. label[e] = label[a] => e = a
        <5>1. e < a => label[e] < label[a] OBVIOUS
        <5>2. a < e => label[a] < label[e] OBVIOUS
        <5>3. label[e] \in Nat OBVIOUS
        <5>4. e \in Nat /\ a \in Nat BY <1>2
        <5> QED BY <5>1, <5>2, <5>3, <5>4, <3>3
      <4> QED BY <4>1, <4>3, <4>4, <2>2, <3>1
    <3> QED BY <3>4, <3>5, <1>5
  <2>4. g \in [Y -> X]
    <3>1. ASSUME NEW j \in Y PROVE f[j] \in X BY <2>3, <1>9, <1>3
    <3> HIDE DEF Y, X
    <3> QED BY <3>1
  <2>5. \A i, j \in Y : g[i] = g[j] => i = j
    <3> SUFFICES ASSUME NEW i \in Y, NEW j \in Y, g[i] = g[j] PROVE i = j OBVIOUS
    <3>1. i \in 1..m /\ j \in 1..m /\ f[i] = f[j] BY <1>9
    <3>2. f[i] \in Nat /\ f[j] \in Nat
      <4>1. f[i] \in DOMAIN c /\ f[j] \in DOMAIN c BY <3>1, <1>8
      <4> QED BY <4>1, <1>2
    <3>3. ~(i < j) /\ ~(j < i) BY <3>1, <3>2, <1>3
    <3> QED BY <3>1, <3>3
  <2>6. \A x \in X : \E j \in Y : g[j] = x
    <3> SUFFICES ASSUME NEW x \in X PROVE \E j \in Y : g[j] = x OBVIOUS
    <3>1. PICK j \in 1..m : f[j] = x BY <1>3
    <3>2. up[f[j]] = a BY <3>1
    <3>3. j \in Y BY <3>2, <2>3, <1>9
    <3> QED BY <3>1, <3>3
  <2>7. g \in Bijection(Y, X)
    <3> HIDE DEF g, X, Y
    <3> QED BY <2>4, <2>5, <2>6, Fun_IsBij
  <2>8. IsFiniteSet(Y)
    <3>1. Y \in SUBSET (1..m) BY <1>9
    <3> HIDE DEF Y
    <3> QED BY <3>1, <1>3, FiniteInterval
  <2>9. Cardinality(X) = Cardinality(Y)
    <3> HIDE DEF g, X, Y
    <3> QED BY <2>7, <2>8, FS_Bijection DEF ExistsBijection
  <2> QED BY <2>2, <2>9
<1>17. ASSUME NEW k \in DOMAIN d
       PROVE  \E i \in keep : d[k].object = c[i].object /\ d[k].index = label[i]
  <2>1. k \in 1..m BY <1>9
  <2>2. f[k] \in keep /\ d[k].object = c[f[k]].object /\ d[k].index = label[f[k]] BY <2>1, <1>8
  <2> QED BY <2>2
<1>18. Counted(d) BY <1>16 DEF Counted
<1> QED BY <1>15, <1>17, <1>18 DEF Collapsed

\* The objects compaction leaves, and the index of object o after it.
UsefulIn(r) == {i \in 1..Len(r) : ShouldKeep(r[i])}
IndexOf(r, o) == Cardinality({i \in DOMAIN r : i < o /\ ShouldKeep(r[i])})
Indexed(c, r) == \A k \in DOMAIN c : c[k].index = IndexOf(r, c[k].object)

LEMMA CompactListed ==
    ASSUME NEW r, IsForest(r), NoParent \notin Nat
    PROVE  /\ Listed(Compact(r), r, Above(r), UsefulIn(r))
           /\ Counted(Compact(r))
           /\ Indexed(Compact(r), r)
<1> DEFINE keep == UsefulIn(r)
           To(i) == {j \in keep : j < i}
           label == [i \in keep |-> Cardinality(To(i))]
<1>1. PICK d : d = Collapse(r, keep, label) OBVIOUS
<1>2. /\ r \in Seq(Nodes) /\ Len(r) \in Nat /\ DOMAIN r = 1..Len(r)
      /\ \A i \in DOMAIN r : r[i].object = i
  BY DEF IsForest
<1>3. keep \in SUBSET DOMAIN r /\ keep \in SUBSET (1..Len(r)) BY <1>2 DEF UsefulIn
<1>4. Compact(r) = d
  <2>1. keep = {i \in DOMAIN r : ShouldKeep(r[i])} BY <1>2 DEF UsefulIn
  <2> HIDE DEF keep
  <2> QED BY <2>1, <1>1 DEF Compact
<1>5. \A i \in keep : IsFiniteSet(To(i)) /\ Cardinality(To(i)) \in Nat
  <2> SUFFICES ASSUME NEW i \in keep PROVE IsFiniteSet(To(i)) /\ Cardinality(To(i)) \in Nat OBVIOUS
  <2>1. To(i) \in SUBSET (1..Len(r)) BY <1>3
  <2> HIDE DEF To
  <2> QED BY <2>1, <1>2, FiniteInterval
<1>6. label \in [keep -> Nat]
  <2> HIDE DEF To, keep
  <2> QED BY <1>5
<1>7. ASSUME NEW i \in keep, NEW j \in keep, i < j PROVE label[i] < label[j]
  <2>1. To(i) \in SUBSET To(j) /\ i \in To(j) /\ i \notin To(i) BY <1>7, <1>3
  <2>2. label[i] = Cardinality(To(i)) /\ label[j] = Cardinality(To(j)) OBVIOUS
  <2> HIDE DEF To, label, keep
  <2>3. Cardinality(To(i)) <= Cardinality(To(j)) /\ Cardinality(To(i)) # Cardinality(To(j))
    BY <2>1, <1>5, FS_Subset
  <2>4. Cardinality(To(i)) \in Nat /\ Cardinality(To(j)) \in Nat BY <1>5
  <2> QED BY <2>2, <2>3, <2>4
<1>8. \A i \in keep : label[i] = IndexOf(r, i)
  <2> SUFFICES ASSUME NEW i \in keep PROVE label[i] = IndexOf(r, i) OBVIOUS
  <2>1. To(i) = {j \in DOMAIN r : j < i /\ ShouldKeep(r[j])} BY <1>2 DEF UsefulIn
  <2>2. label[i] = Cardinality(To(i)) OBVIOUS
  <2> HIDE DEF To, label, keep
  <2> QED BY <2>1, <2>2 DEF IndexOf
<1> HIDE DEF label, keep
<1>9. Listed(r, r, Above(r), 1..Len(r)) /\ InLine(Above(r), Len(r))
  BY ForestListed, AboveInLine
<1>10. /\ Listed(d, r, Above(r), ObjectsAt(r, keep)) /\ Counted(d)
       /\ \A k \in DOMAIN d : \E i \in keep : d[k].object = r[i].object /\ d[k].index = label[i]
  <2>1. Collapsed(d, r, r, Above(r), keep, label)
    BY <1>1, <1>3, <1>6, <1>7, <1>9, CollapseListed
  <2> QED BY <2>1 DEF Collapsed
<1>11. ObjectsAt(r, keep) = keep BY <1>2, <1>3 DEF ObjectsAt
<1>12. Indexed(d, r)
  <2> SUFFICES ASSUME NEW k \in DOMAIN d PROVE d[k].index = IndexOf(r, d[k].object)
    BY DEF Indexed
  <2>1. PICK i \in keep : d[k].object = r[i].object /\ d[k].index = label[i] BY <1>10
  <2>2. r[i].object = i BY <1>2, <1>3
  <2> QED BY <2>1, <2>2, <1>8
<1> QED BY <1>4, <1>10, <1>11, <1>12 DEF keep

LEMMA InteractiveListed ==
    ASSUME NEW r, NEW A, NEW n, InLine(A, n), NoParent \notin Nat,
           NEW c, NEW K, Listed(c, r, A, K), K \subseteq 1..n, Indexed(c, r)
    PROVE  LET keep == {i \in DOMAIN c : IsInteractive(c[i], InLiveRegion(c)[i])} IN
           /\ Listed(Interactive(c), r, A, ObjectsAt(c, keep))
           /\ Counted(Interactive(c))
           /\ Indexed(Interactive(c), r)
<1> DEFINE keep == {i \in DOMAIN c : IsInteractive(c[i], InLiveRegion(c)[i])}
           label == [i \in keep |-> c[i].index]
<1>1. PICK d : d = Collapse(c, keep, label) OBVIOUS
<1>2. Interactive(c) = d BY <1>1 DEF Interactive
<1>3. keep \in SUBSET DOMAIN c OBVIOUS
<1> HIDE DEF keep
<1>4. label \in [keep -> Nat] BY <1>3, ListedTypes
<1>5. \A i, j \in keep : i < j => label[i] < label[j] BY <1>3 DEF Listed
<1>6. \A i \in keep : label[i] = c[i].index OBVIOUS
<1> HIDE DEF label
<1>7. /\ Listed(d, r, A, ObjectsAt(c, keep)) /\ Counted(d)
      /\ \A k \in DOMAIN d : \E i \in keep : d[k].object = c[i].object /\ d[k].index = label[i]
  <2>1. Collapsed(d, c, r, A, keep, label) BY <1>1, <1>3, <1>4, <1>5, CollapseListed
  <2> QED BY <2>1 DEF Collapsed
<1>8. Indexed(d, r) BY <1>3, <1>6, <1>7 DEF Indexed
<1> QED BY <1>2, <1>7, <1>8 DEF keep

\* What is below a live region is what has one above it, among what is listed.
LEMMA LiveRegionIs ==
    ASSUME NEW r, NEW A, NEW n, InLine(A, n), NoParent \notin Nat,
           NEW c, NEW K, Listed(c, r, A, K), K \subseteq 1..n, NEW k \in DOMAIN c
    PROVE  InLiveRegion(c)[k] <=> \E a \in A[c[k].object] \cap K : Has(r[a], {"live"})
<1>1. PICK N : N = InLiveRegion(c) OBVIOUS
<1>2. /\ Len(c) \in Nat /\ DOMAIN c = 1..Len(c)
      /\ \A j \in DOMAIN c : c[j].object \in K /\ c[j].object \in 1..n
  BY ListedTypes
<1>3. ASSUME NEW i \in DOMAIN c
      PROVE  N[i] <=> /\ ParentAt(c, i) # 0
                      /\ N[ParentAt(c, i)] \/ Has(c[ParentAt(c, i)], {"live"})
  <2>1. Descends(c, Len(c)) BY ListedDescends
  <2> QED BY <2>1, <1>1, <1>2, InLiveRegionIs
<1> DEFINE Right(i) == N[i] <=> \E a \in A[c[i].object] \cap K : Has(r[a], {"live"})
           Wrong == {i \in DOMAIN c : ~Right(i)}
<1>4. Wrong = {}
  <2> SUFFICES ASSUME Wrong # {} PROVE FALSE OBVIOUS
  <2>1. PICK i \in Wrong : \A j \in Wrong : i <= j
    <3>1. Wrong \in SUBSET Nat
      <4> HIDE DEF Right
      <4> QED BY <1>2
    <3> HIDE DEF Wrong
    <3> QED BY <3>1, LeastOf
  <2>2. i \in DOMAIN c /\ ~Right(i) OBVIOUS
  <2>3. PICK o : o = c[i].object OBVIOUS
  <2>4. o \in 1..n BY <2>2, <2>3, <1>2
  <2>5. CASE A[o] \cap K = {} /\ ParentAt(c, i) = 0
    <3>1. ~N[i] BY <1>3, <2>2, <2>5
    <3> QED BY <3>1, <2>5, <2>2, <2>3
  <2>6. CASE \E j \in DOMAIN c : j < i /\ ParentAt(c, i) = j /\ Greatest(c[j].object, A[o] \cap K)
    <3>1. PICK j \in DOMAIN c : j < i /\ ParentAt(c, i) = j /\ Greatest(c[j].object, A[o] \cap K)
      BY <2>6
    <3>2. PICK g : g = c[j].object OBVIOUS
    <3>3. g \in A[o] /\ g \in K /\ \A b \in A[o] \cap K : b <= g BY <3>1, <3>2 DEF Greatest
    <3>4. N[i] <=> N[j] \/ Has(c[j], {"live"})
      <4>1. j # 0 BY <1>2
      <4> QED BY <4>1, <1>3, <2>2, <3>1
    <3>5. Right(j)
      <4>1. j \notin Wrong
        <5>1. j \in Nat /\ i \in Nat BY <1>2, <2>2
        <5> HIDE DEF Wrong
        <5> QED BY <2>1, <3>1, <5>1
      <4> HIDE DEF Right
      <4> QED BY <4>1
    <3>6. Has(c[j], {"live"}) <=> Has(r[g], {"live"})
      <4>1. c[j].is = r[g].is BY <3>2 DEF Listed
      <4> QED BY <4>1 DEF Has
    <3>7. A[o] \cap K = {g} \cup (A[g] \cap K)
      <4>1. A[g] \subseteq A[o] BY <3>3, <2>4 DEF InLine
      <4>2. ASSUME NEW a \in A[o], a \in K, a # g PROVE a \in A[g]
        <5>1. a <= g BY <4>2, <3>3
        <5>2. a \in Nat /\ g \in Nat BY <4>2, <3>3
        <5>3. a < g BY <5>1, <5>2, <4>2
        <5> QED BY <5>3, <3>3, <2>4 DEF InLine
      <4> QED BY <4>1, <4>2, <3>3
    <3>8. (\E a \in A[o] \cap K : Has(r[a], {"live"}))
             <=> Has(r[g], {"live"}) \/ \E a \in A[g] \cap K : Has(r[a], {"live"})
      BY <3>7
    <3> QED BY <3>4, <3>5, <3>6, <3>8, <3>2, <2>2, <2>3
  <2>7. \/ A[o] \cap K = {} /\ ParentAt(c, i) = 0
        \/ \E j \in DOMAIN c : j < i /\ ParentAt(c, i) = j /\ Greatest(c[j].object, A[o] \cap K)
    BY <2>2, <2>3, ListedParent
  <2> QED BY <2>5, <2>6, <2>7
<1>5. Right(k)
  <2> HIDE DEF Right
  <2> QED BY <1>4
<1> QED BY <1>5, <1>1

\* What TreeIsExact asks of node k of c, where A is above each object and K are in c.
ExactNode(c, A, K, k) ==
    LET above == A[c[k].object] \cap K
        parent == IF c[k].parent = NoParent THEN {}
                  ELSE {m \in Range(c) : m.index = c[k].parent} IN
    /\ k > 1 => c[k - 1].object < c[k].object
    /\ {m.object : m \in parent} = {a \in above : \A b \in above : b = a \/ b \in A[a]}
    /\ c[k].children = Cardinality({m \in Range(c) : m.parent = c[k].index})

LEMMA ListedIsExact ==
    ASSUME NEW r, NEW n, NEW A, InLine(A, n), NoParent \notin Nat,
           NEW c, NEW K, Listed(c, r, A, K), K \subseteq 1..n, Counted(c), NEW k \in DOMAIN c
    PROVE  ExactNode(c, A, K, k)
<1>0. PICK o : o = c[k].object OBVIOUS
<1> DEFINE above == A[o] \cap K
           parent == IF c[k].parent = NoParent THEN {} ELSE {m \in Range(c) : m.index = c[k].parent}
           nearest == {a \in above : \A b \in above : b = a \/ b \in A[a]}
<1>1. /\ Len(c) \in Nat /\ DOMAIN c = 1..Len(c)
      /\ \A j \in DOMAIN c : c[j].object \in Nat /\ c[j].index \in Nat /\ c[j].object \in K
      /\ \A i, j \in DOMAIN c : c[i].index = c[j].index => i = j
      /\ \A i, j \in DOMAIN c : c[i].object <= c[j].object => i <= j
  BY ListedTypes
<1>2. k > 1 => c[k - 1].object < c[k].object
  <2> SUFFICES ASSUME k > 1 PROVE c[k - 1].object < c[k].object OBVIOUS
  <2>1. PICK j : j = k - 1 OBVIOUS
  <2>2. j \in DOMAIN c /\ j < k BY <2>1, <1>1
  <2> QED BY <2>1, <2>2 DEF Listed
<1>3. o \in 1..n BY <1>0, <1>1
<1>4. {m.object : m \in parent} = nearest
  <2>1. CASE above = {} /\ c[k].parent = NoParent BY <2>1
  <2>2. CASE \E j \in DOMAIN c : c[k].parent = c[j].index /\ Greatest(c[j].object, above)
    <3>1. PICK j \in DOMAIN c : c[k].parent = c[j].index /\ Greatest(c[j].object, above)
      BY <2>2
    <3>2. PICK g : g = c[j].object OBVIOUS
    <3>3. c[k].parent # NoParent BY <3>1, <1>1
    <3>4. parent = {c[j]}
      <4>1. \A i \in DOMAIN c : c[i].index = c[k].parent <=> i = j BY <3>1, <1>1
      <4> QED BY <4>1, <3>3 DEF Range
    <3>5. g \in above /\ \A b \in above : b <= g BY <3>1, <3>2 DEF Greatest
    <3>6. above \subseteq 1..o - 1 BY <1>3 DEF InLine
    <3>7. g \in nearest
      <4>1. ASSUME NEW b \in above, b # g PROVE b \in A[g]
        <5>1. b < g
          <6>1. b \in Nat /\ g \in Nat BY <3>5, <3>6
          <6> QED BY <6>1, <4>1, <3>5
        <5> QED BY <5>1, <3>5, <1>3 DEF InLine
      <4> QED BY <4>1, <3>5
    <3>8. ASSUME NEW a \in nearest PROVE a = g
      <4>1. SUFFICES ASSUME a # g PROVE FALSE OBVIOUS
      <4>2. g \in A[a] BY <3>5, <4>1
      <4>3. a \in above /\ a \in K BY <3>8
      <4>4. A[a] \subseteq 1..a - 1 BY <4>3 DEF InLine
      <4>5. a <= g BY <3>5, <4>3
      <4>6. a \in Nat /\ g \in Nat BY <4>3, <3>5, <3>6
      <4>7. g < a
        <5>1. g \in 1..a - 1 BY <4>2, <4>4
        <5> QED BY <5>1, <4>6
      <4> QED BY <4>5, <4>6, <4>7
    <3>9. {m.object : m \in parent} = {g} BY <3>4, <3>2
    <3> HIDE DEF parent, nearest
    <3> QED BY <3>7, <3>8, <3>9
  <2>3. \/ above = {} /\ c[k].parent = NoParent
        \/ \E j \in DOMAIN c : c[k].parent = c[j].index /\ Greatest(c[j].object, above)
    BY <1>0 DEF Listed
  <2> QED BY <2>1, <2>2, <2>3
<1>5. c[k].children = Cardinality({m \in Range(c) : m.parent = c[k].index})
  <2> DEFINE X == {j \in DOMAIN c : c[j].parent = c[k].index}
             Y == {m \in Range(c) : m.parent = c[k].index}
             g == [j \in X |-> c[j]]
  <2>1. c[k].children = Cardinality(X) BY DEF Counted
  <2>2. g \in [X -> Y] BY DEF Range
  <2>3. \A i, j \in X : g[i] = g[j] => i = j
    <3> SUFFICES ASSUME NEW i \in X, NEW j \in X, g[i] = g[j] PROVE i = j OBVIOUS
    <3>1. i \in DOMAIN c /\ j \in DOMAIN c /\ c[i] = c[j] OBVIOUS
    <3> QED BY <3>1, <1>1
  <2>4. \A m \in Y : \E j \in X : g[j] = m BY DEF Range
  <2>5. g \in Bijection(X, Y)
    <3> HIDE DEF g, X, Y
    <3> QED BY <2>2, <2>3, <2>4, Fun_IsBij
  <2>6. IsFiniteSet(X)
    <3>1. X \in SUBSET (1..Len(c)) BY <1>1
    <3> HIDE DEF X
    <3> QED BY <3>1, <1>1, FiniteInterval
  <2>7. Cardinality(X) = Cardinality(Y)
    <3> HIDE DEF g, X, Y
    <3> QED BY <2>5, <2>6, FS_Bijection DEF ExistsBijection
  <2> QED BY <2>1, <2>7
<1> QED BY <1>0, <1>2, <1>4, <1>5 DEF ExactNode

\* A node without children after compaction has nothing below it there.
LEMMA NoChildNothingBelow ==
    ASSUME NEW r, NEW n, NEW A, InLine(A, n), NEW c, NEW K, Listed(c, r, A, K), K \subseteq 1..n,
           Counted(c), NEW k \in DOMAIN c, ~(c[k].children > 0)
    PROVE  \A o \in K : c[k].object \notin A[o]
<1>0. PICK i : i = c[k].object OBVIOUS
<1>1. /\ Len(c) \in Nat /\ DOMAIN c = 1..Len(c)
      /\ \A j \in DOMAIN c : c[j].object \in Nat /\ c[j].object \in K
      /\ \A x, y \in DOMAIN c : c[x].object <= c[y].object => x <= y
  BY ListedTypes
<1> DEFINE T == {j \in DOMAIN c : i \in A[c[j].object]}
<1>2. T = {}
  <2> SUFFICES ASSUME T # {} PROVE FALSE OBVIOUS
  <2>1. PICK j \in T : \A x \in T : j <= x
    <3>1. T \in SUBSET Nat BY <1>1
    <3> HIDE DEF T
    <3> QED BY <3>1, LeastOf
  <2>2. PICK o : o = c[j].object OBVIOUS
  <2>3. j \in DOMAIN c /\ i \in A[o] /\ i \in K /\ o \in 1..n BY <2>2, <1>0, <1>1
  <2>4. PICK x \in DOMAIN c : c[j].parent = c[x].index /\ Greatest(c[x].object, A[o] \cap K)
    BY <2>2, <2>3 DEF Listed
  <2>5. PICK g : g = c[x].object OBVIOUS
  <2>6. g \in A[o] /\ g \in K /\ i <= g BY <2>3, <2>4, <2>5 DEF Greatest
  <2>7. A[o] \subseteq 1..o - 1 BY <2>3 DEF InLine
  <2>8. i \in Nat /\ g \in Nat /\ o \in Nat /\ g < o BY <2>3, <2>6, <2>7
  <2>9. CASE i = g
    <3>1. x = k
      <4>1. x <= k /\ k <= x
        <5>1. c[x].object <= c[k].object /\ c[k].object <= c[x].object BY <2>9, <2>5, <1>0, <2>8
        <5> QED BY <5>1, <1>1
      <4> QED BY <4>1, <1>1
    <3> DEFINE X == {y \in DOMAIN c : c[y].parent = c[k].index}
    <3>2. j \in X BY <3>1, <2>3, <2>4
    <3>3. X \in SUBSET (1..Len(c)) BY <1>1
    <3>4. c[k].children = Cardinality(X) BY DEF Counted
    <3> HIDE DEF X
    <3>5. IsFiniteSet(X) /\ Cardinality(X) \in Nat BY <3>3, <1>1, FiniteInterval
    <3>6. Cardinality(X) # 0 BY <3>2, <3>5, FS_EmptySet
    <3> QED BY <3>4, <3>5, <3>6
  <2>10. CASE i # g
    <3>1. i < g BY <2>10, <2>6, <2>8
    <3>2. i \in A[g] BY <3>1, <2>3, <2>6 DEF InLine
    <3>3. x \in T BY <3>2, <2>5
    <3>4. ~(j <= x)
      <4>1. ~(c[j].object <= c[x].object) BY <2>2, <2>5, <2>8
      <4>2. x <= j
        <5>1. c[x].object <= c[j].object BY <2>2, <2>5, <2>8
        <5> QED BY <5>1, <2>3, <1>1
      <4>3. x # j BY <4>1, <2>5, <2>8
      <4> QED BY <4>2, <4>3, <2>3, <1>1
    <3> HIDE DEF T
    <3> QED BY <3>3, <3>4, <2>1
  <2> QED BY <2>9, <2>10
<1>3. \A o \in K : \E j \in DOMAIN c : c[j].object = o BY DEF Listed
<1> QED BY <1>0, <1>2, <1>3

LEMMA UsedStays ==
    ASSUME NEW r, IsForest(r), NoParent \notin Nat, NEW i \in DOMAIN r,
           IsInteractive(r[i], \E a \in Above(r)[i] : Has(r[a], {"live"}) /\ r[a].children > 0)
    PROVE  LET d == Interactive(Compact(r)) IN
           \/ i \in ObjectsIn(d)
           \/ Has(r[i], {"window"}) /\ ~ShouldKeep(r[i])
           \/ Has(r[i], {"live"}) /\ ~Has(r[i], {"action", "control", "copy", "window"})
              /\ \A k \in ObjectsIn(d) : i \notin Above(r)[k]
<1>1. PICK A, c, d, K : A = Above(r) /\ c = Compact(r) /\ d = Interactive(c) /\ K = UsefulIn(r)
  OBVIOUS
<1>2. PICK n : n = Len(r) OBVIOUS
<1>3. DOMAIN r = 1..n /\ n \in Nat BY <1>2 DEF IsForest
<1>4. InLine(A, n) /\ K \subseteq 1..n BY <1>1, <1>2, AboveInLine DEF UsefulIn
<1>5. Listed(c, r, A, K) /\ Counted(c) /\ Indexed(c, r) BY <1>1, CompactListed
<1>6. PICK keep : keep = {k \in DOMAIN c : IsInteractive(c[k], InLiveRegion(c)[k])} OBVIOUS
<1>7. Listed(d, r, A, ObjectsAt(c, keep)) BY <1>1, <1>4, <1>5, <1>6, InteractiveListed
<1>8. ObjectsIn(d) = ObjectsAt(c, keep) BY <1>7 DEF Listed, ObjectsIn
<1>9. \A o \in ObjectsIn(d) : o \in K BY <1>8, <1>6, <1>5, ListedTypes DEF ObjectsAt
<1> DEFINE live == \E a \in A[i] : Has(r[a], {"live"}) /\ r[a].children > 0
<1>10. IsInteractive(r[i], live) BY <1>1
<1> HIDE DEF live
<1>11. r[i].depth <= 1 \/ r[i].depth > 1
  <2>1. r[i] \in Nodes BY DEF IsForest
  <2>2. r[i].depth \in Nat BY <2>1 DEF Nodes
  <2> QED BY <2>2
<1>12. CASE ~ShouldKeep(r[i])
  <2>1. ~(r[i].depth <= 1) BY <1>12 DEF ShouldKeep
  <2>2. ~Has(r[i], {"action", "copy", "control", "item"}) BY <1>12 DEF ShouldKeep
  <2>3. ~(Has(r[i], {"live"}) /\ r[i].children > 0) BY <1>12 DEF ShouldKeep
  <2>4. Has(r[i], {"window"})
    <3>1. \/ Has(r[i], {"action", "control", "window"}) \/ Has(r[i], {"copy"})
      BY <1>10, <2>1, <2>3 DEF IsInteractive
    <3> QED BY <3>1, <2>2 DEF Has
  <2> QED BY <2>4, <1>12
<1>13. CASE ShouldKeep(r[i])
  <2>1. i \in K BY <1>1, <1>2, <1>3, <1>13 DEF UsefulIn
  <2>2. PICK k \in DOMAIN c : c[k].object = i BY <2>1, <1>5 DEF Listed
  <2>3. c[k].depth = r[i].depth /\ c[k].is = r[i].is BY <2>2, <1>5 DEF Listed
  <2>4. CASE k \in keep BY <2>4, <2>2, <1>8, <1>1 DEF ObjectsAt
  <2>5. CASE k \notin keep
    <3> DEFINE below == InLiveRegion(c)[k]
    <3>1. ~IsInteractive(c[k], below) BY <2>5, <1>6
    <3>2. live => below
      <4> SUFFICES ASSUME live PROVE below OBVIOUS
      <4>1. PICK a \in A[i] : Has(r[a], {"live"}) /\ r[a].children > 0 BY DEF live
      <4>2. a \in 1..n
        <5>1. A[i] \subseteq 1..i - 1 BY <1>3, <1>4 DEF InLine
        <5> QED BY <5>1, <1>3
      <4>3. ShouldKeep(r[a]) BY <4>1 DEF ShouldKeep
      <4>4. a \in K BY <4>2, <4>3, <1>1, <1>2 DEF UsefulIn
      <4> QED BY <4>1, <4>4, <2>2, <1>4, <1>5, LiveRegionIs
    <3> HIDE DEF below
    <3>3. \A F : Has(c[k], F) <=> Has(r[i], F) BY <2>3 DEF Has
    <3>4. /\ ~(r[i].depth <= 1)
          /\ ~Has(r[i], {"action", "control", "window"})
          /\ ~((Has(r[i], {"heading", "live"}) \/ below) /\ Has(r[i], {"copy"}))
          /\ ~(Has(r[i], {"live"}) /\ c[k].children > 0)
      BY <3>1, <3>3, <2>3 DEF IsInteractive
    <3>5. Has(r[i], {"live"}) BY <3>2, <3>4, <1>10 DEF IsInteractive
    <3>6. ~Has(r[i], {"copy"}) BY <3>4, <3>5 DEF Has
    <3>7. ~Has(r[i], {"action", "control", "copy", "window"}) BY <3>4, <3>6 DEF Has
    <3>8. ~(c[k].children > 0) BY <3>4, <3>5
    <3>9. \A o \in K : i \notin A[o] BY <3>8, <2>2, <1>4, <1>5, NoChildNothingBelow
    <3> QED BY <3>5, <3>7, <3>9, <1>9, <1>1
  <2> QED BY <2>4, <2>5
<1> QED BY <1>12, <1>13

(* How much of it is given. *)

LEMMA NoSize == SizeOfAll(<<>>) = 0
<1> DEFINE t == <<>>
           Is(s) == s = [i \in 0..Len(t) |-> IF i = 0 THEN 0 ELSE s[i - 1] + SizeOf(t[i])]
           f == [i \in 0..0 |-> 0]
<1>1. Is(f)
  <2>1. Len(t) = 0 /\ \A i \in 0..0 : i = 0 OBVIOUS
  <2> QED BY <2>1
<1> DEFINE s == CHOOSE x : Is(x)
<1>2. Is(s) BY <1>1, Zenon
<1>3. SizeOfAll(t) = s[Len(t)] BY Zenon DEF SizeOfAll, s
<1> HIDE DEF s
<1>4. Len(t) = 0 OBVIOUS
<1>5. s[0] = 0 BY <1>2, <1>4
<1> QED BY <1>3, <1>4, <1>5

LEMMA MaxOf ==
    ASSUME NEW n \in Nat, NEW T \in SUBSET (0..n), T # {}
    PROVE  Max(T) \in T /\ \A y \in T : Max(T) >= y
<1>1. PICK x \in T : \A y \in T : y <= x BY GreatestOf
<1>2. \A y \in T : x >= y BY <1>1
<1>3. \E z \in T : \A y \in T : z >= y BY <1>2
<1> QED BY <1>3, Zenon DEF Max

LEMMA PrefixFits ==
    ASSUME NEW X, NEW t \in Seq(X), NEW b \in Nat
    PROVE  /\ InlinePrefixLen(t, b) \in 0..Len(t)
           /\ SizeOfAll(SubSeq(t, 1, InlinePrefixLen(t, b))) <= b
<1> DEFINE T == {i \in 0..Len(t) : SizeOfAll(SubSeq(t, 1, i)) <= b}
<1>1. Len(t) \in Nat /\ T \in SUBSET (0..Len(t)) OBVIOUS
<1>2. 0 \in T
  <2>1. SubSeq(t, 1, 0) = <<>> OBVIOUS
  <2>2. SizeOfAll(SubSeq(t, 1, 0)) = 0 BY <2>1, NoSize, Zenon
  <2>3. SizeOfAll(SubSeq(t, 1, 0)) <= b BY <2>2
  <2> QED BY <2>3, <1>1
<1>3. InlinePrefixLen(t, b) = Max(T) BY DEF InlinePrefixLen
<1>4. Max(T) \in T
  <2> HIDE DEF T
  <2> QED BY <1>1, <1>2, MaxOf
<1>5. \A i \in T : i \in 0..Len(t) /\ SizeOfAll(SubSeq(t, 1, i)) <= b OBVIOUS
<1> HIDE DEF T
<1> QED BY <1>3, <1>4, <1>5

LEMMA PageFits ==
    ASSUME NEW X, NEW rest \in Seq(X), ask.budget \in Nat
    PROVE  PageLen(rest) \in 0..Len(rest) /\ (rest # <<>> => PageLen(rest) >= 1)
<1>1. PICK a : a = InlinePrefixLen(rest, ask.budget) OBVIOUS
<1>2. a \in 0..Len(rest) /\ Len(rest) \in Nat BY <1>1, PrefixFits
<1>3. PICK b : b = IF rest = <<>> THEN 0 ELSE 1 OBVIOUS
<1>4. b \in 0..Len(rest) /\ (rest # <<>> => b = 1)
  <2>1. rest # <<>> => Len(rest) # 0 OBVIOUS
  <2> QED BY <2>1, <1>3, <1>2
<1>5. PageLen(rest) = Max({a, b}) BY <1>1, <1>3 DEF PageLen
<1>6. {a, b} \in SUBSET (0..Len(rest)) /\ {a, b} # {} BY <1>2, <1>4
<1>7. Max({a, b}) \in {a, b} /\ Max({a, b}) >= b BY <1>2, <1>6, MaxOf
<1> QED BY <1>2, <1>4, <1>5, <1>7

Shaped(r, interactive) == IF interactive THEN Interactive(Compact(r)) ELSE Compact(r)

\* The pages given so far are the beginning of the tree, at least a node each.
ResultInv ==
    /\ raw \in Forests
    /\ ask \in [interactive : BOOLEAN, budget : Budgets, file : BOOLEAN]
    /\ made \in {"read", "cached", "given"}
    /\ cached = IF made = "read" THEN <<>> ELSE Shaped(raw, ask.interactive)
    /\ made = "given" =>
          \E n \in 0..Len(cached) :
             /\ given = [nodes |-> SubSeq(cached, 1, n), file |-> n < Len(cached) /\ ask.file]
             /\ SizeOfAll(SubSeq(cached, 1, n)) <= ask.budget
    /\ made # "given" => paged = <<>> /\ offset = 0 /\ pages = 0
    /\ \/ offset = NoParent /\ paged = cached /\ pages \in Nat
       \/ /\ offset \in 0..Len(cached) /\ paged = SubSeq(cached, 1, offset) /\ pages \in 0..offset
          /\ offset < Len(cached) \/ offset = 0

LEMMA ShapedFits ==
    ASSUME NEW r \in Forests, NEW interactive \in BOOLEAN
    PROVE  LET c == Shaped(r, interactive) IN
           /\ c \in Seq(Nodes) /\ Counted(c) /\ Indexed(c, r)
           /\ ObjectsIn(c) \subseteq 1..Len(r) /\ Listed(c, r, Above(r), ObjectsIn(c))
           /\ IsForest(r) /\ NoParent \notin Nat /\ InLine(Above(r), Len(r))
<1>1. IsForest(r) /\ NoParent \notin Nat BY ForestAssumption
<1>2. InLine(Above(r), Len(r)) BY <1>1, AboveInLine
<1>3. PICK c, K : c = Compact(r) /\ K = UsefulIn(r) OBVIOUS
<1>4. Listed(c, r, Above(r), K) /\ Counted(c) /\ Indexed(c, r) BY <1>1, <1>3, CompactListed
<1>5. K \subseteq 1..Len(r) BY <1>3 DEF UsefulIn
<1>6. CASE interactive
  <2>1. PICK d : d = Interactive(c) OBVIOUS
  <2>2. PICK L : L = ObjectsAt(c, {i \in DOMAIN c : IsInteractive(c[i], InLiveRegion(c)[i])})
    OBVIOUS
  <2>3. Listed(d, r, Above(r), L) /\ Counted(d) /\ Indexed(d, r)
    BY <2>1, <2>2, <1>1, <1>2, <1>4, <1>5, InteractiveListed
  <2>4. L \subseteq K BY <2>2, <1>4, ListedTypes DEF ObjectsAt
  <2>5. L = ObjectsIn(d) /\ d \in Seq(Nodes) BY <2>3 DEF Listed, ObjectsIn
  <2>6. Shaped(r, interactive) = d BY <2>1, <1>3, <1>6 DEF Shaped
  <2> QED BY <2>3, <2>4, <2>5, <2>6, <1>1, <1>2, <1>5
<1>7. CASE ~interactive
  <2>1. K = ObjectsIn(c) /\ c \in Seq(Nodes) BY <1>4 DEF Listed, ObjectsIn
  <2>2. Shaped(r, interactive) = c BY <1>3, <1>7 DEF Shaped
  <2> QED BY <2>1, <2>2, <1>1, <1>2, <1>4, <1>5
<1> QED BY <1>6, <1>7

\* TreeIsExact, of any trees.
Exact(c, r) ==
    \A k \in DOMAIN c :
        LET n == c[k]
            above == Above(r)[n.object] \cap ObjectsIn(c)
            parent == IF n.parent = NoParent THEN {}
                      ELSE {m \in Range(c) : m.index = n.parent} IN
        /\ k > 1 => c[k - 1].object < n.object
        /\ n.index = Cardinality({i \in DOMAIN r : i < n.object /\ ShouldKeep(r[i])})
        /\ {m.object : m \in parent} = {a \in above : \A b \in above : b = a \/ b \in Above(r)[a]}
        /\ n.children = Cardinality({m \in Range(c) : m.parent = n.index})

LEMMA ShapedExact ==
    ASSUME NEW r \in Forests, NEW interactive \in BOOLEAN PROVE Exact(Shaped(r, interactive), r)
<1>1. PICK c : c = Shaped(r, interactive) OBVIOUS
<1>2. /\ Counted(c) /\ Indexed(c, r) /\ ObjectsIn(c) \subseteq 1..Len(r)
      /\ Listed(c, r, Above(r), ObjectsIn(c)) /\ NoParent \notin Nat /\ InLine(Above(r), Len(r))
  BY <1>1, ShapedFits
<1>3. ASSUME NEW k \in DOMAIN c
      PROVE  c[k].index = Cardinality({i \in DOMAIN r : i < c[k].object /\ ShouldKeep(r[i])})
  BY <1>2 DEF Indexed, IndexOf
<1>4. ASSUME NEW k \in DOMAIN c
      PROVE  ExactNode(c, Above(r), ObjectsIn(c), k)
  BY <1>2, ListedIsExact
<1>5. Exact(c, r) BY <1>3, <1>4, Zenon DEF Exact, ExactNode
<1> QED BY <1>1, <1>5

LEMMA ResultTypes ==
    ASSUME ResultInv
    PROVE  /\ cached \in Seq(Nodes) /\ Len(cached) \in Nat
           /\ ask.interactive \in BOOLEAN /\ ask.budget \in Nat
<1>1. ask.interactive \in BOOLEAN /\ ask.budget \in Budgets BY DEF ResultInv
<1>2. cached \in Seq(Nodes)
  <2>1. CASE made = "read" BY <2>1 DEF ResultInv
  <2>2. CASE made # "read"
    <3>1. cached = Shaped(raw, ask.interactive) /\ raw \in Forests BY <2>2 DEF ResultInv
    <3> QED BY <3>1, <1>1, ShapedFits
  <2> QED BY <2>1, <2>2
<1>3. Budgets \subseteq Nat BY ForestAssumption, Zenon
<1>4. Len(cached) \in Nat BY <1>2
<1> QED BY <1>1, <1>2, <1>3, <1>4, Zenon

LEMMA ResultInvInit == ResultInit => ResultInv
<1> SUFFICES ASSUME ResultInit PROVE ResultInv OBVIOUS
<1>1. /\ raw \in Forests /\ ask \in [interactive : BOOLEAN, budget : Budgets, file : BOOLEAN]
      /\ cached = <<>> /\ paged = <<>> /\ offset = 0 /\ pages = 0 /\ made = "read"
  BY DEF ResultInit, ResultBegins
<1>2. SubSeq(<<>>, 1, 0) = <<>> /\ Len(<<>>) = 0 OBVIOUS
<1>3. /\ offset \in 0..Len(cached) /\ paged = SubSeq(cached, 1, offset) /\ pages \in 0..offset
      /\ offset < Len(cached) \/ offset = 0
  BY <1>1, <1>2
<1> QED BY <1>1, <1>3 DEF ResultInv

LEMMA ShapeKeeps == ResultInv /\ Shape => ResultInv'
<1> SUFFICES ASSUME ResultInv, Shape PROVE ResultInv' OBVIOUS
<1>1. /\ made = "read" /\ made' = "cached" /\ cached' = Shaped(raw, ask.interactive)
      /\ raw' = raw /\ ask' = ask /\ given' = given /\ paged' = paged /\ offset' = offset
      /\ pages' = pages
  BY DEF Shape, Shaped
<1>2. raw \in Forests /\ ask.interactive \in BOOLEAN
  BY DEF ResultInv
<1>3. PICK c : c = Shaped(raw, ask.interactive) OBVIOUS
<1>4. c \in Seq(Nodes) BY <1>2, <1>3, ShapedFits
<1>5. paged = <<>> /\ offset = 0 /\ pages = 0 BY <1>1 DEF ResultInv
<1>6. /\ offset \in 0..Len(c) /\ paged = SubSeq(c, 1, offset) /\ pages \in 0..offset
  <2>1. Len(c) \in Nat /\ SubSeq(c, 1, 0) = <<>> BY <1>4
  <2> QED BY <2>1, <1>5
<1>7. cached' = c BY <1>1, <1>3
<1>8. cached' = IF made' = "read" THEN <<>> ELSE Shaped(raw', ask'.interactive) BY <1>1
<1>9. /\ raw' \in Forests
      /\ ask' \in [interactive : BOOLEAN, budget : Budgets, file : BOOLEAN]
  BY <1>1 DEF ResultInv
<1>10. \/ offset' = NoParent /\ paged' = cached' /\ pages' \in Nat
       \/ /\ offset' \in 0..Len(cached') /\ paged' = SubSeq(cached', 1, offset')
          /\ pages' \in 0..offset'
          /\ offset' < Len(cached') \/ offset' = 0
  BY <1>1, <1>5, <1>6, <1>7
<1> QED BY <1>1, <1>5, <1>8, <1>9, <1>10 DEF ResultInv

LEMMA FitKeeps == ResultInv /\ Fit => ResultInv'
<1> SUFFICES ASSUME ResultInv, Fit PROVE ResultInv' OBVIOUS
<1>1. PICK n : n = InlinePrefixLen(cached, ask.budget) OBVIOUS
<1>2. /\ made = "cached" /\ made' = "given" /\ raw' = raw /\ ask' = ask /\ cached' = cached
      /\ paged' = paged /\ offset' = offset /\ pages' = pages
      /\ given' = [nodes |-> SubSeq(cached, 1, n), file |-> n < Len(cached) /\ ask.file]
  BY <1>1 DEF Fit
<1>3. n \in 0..Len(cached) /\ SizeOfAll(SubSeq(cached, 1, n)) <= ask.budget
  BY <1>1, ResultTypes, PrefixFits
<1>4. \E m \in 0..Len(cached) :
             /\ given' = [nodes |-> SubSeq(cached, 1, m), file |-> m < Len(cached) /\ ask.file]
             /\ SizeOfAll(SubSeq(cached, 1, m)) <= ask.budget
  BY <1>2, <1>3
<1> QED BY <1>2, <1>4 DEF ResultInv

LEMMA PageKeeps == ResultInv /\ Page => ResultInv'
<1> SUFFICES ASSUME ResultInv, Page PROVE ResultInv' OBVIOUS
<1>1. PICK c, o, rest : c = cached /\ o = offset /\ rest = SubSeq(c, o + 1, Len(c)) OBVIOUS
<1>2. PICK l : l = PageLen(rest) OBVIOUS
<1>3. /\ made = "given" /\ made' = made /\ raw' = raw /\ ask' = ask /\ cached' = cached
      /\ given' = given /\ o # NoParent /\ pages' = pages + 1
      /\ paged' = paged \o SubSeq(c, o + 1, o + l)
      /\ offset' = IF o + l < Len(c) THEN o + l ELSE NoParent
  BY <1>1, <1>2 DEF Page
<1>4. c \in Seq(Nodes) /\ Len(c) \in Nat BY <1>1, ResultTypes
<1>5. /\ o \in 0..Len(c) /\ paged = SubSeq(c, 1, o) /\ pages \in 0..o
      /\ o < Len(c) \/ o = 0
  BY <1>1, <1>3 DEF ResultInv
<1>6. rest \in Seq(Nodes) /\ Len(rest) = Len(c) - o BY <1>1, <1>4, <1>5
<1>7. l \in 0..Len(c) - o /\ (Len(c) # o => l >= 1)
  <2>1. rest # <<>> => l >= 1 BY <1>2, <1>6, ResultTypes, PageFits
  <2>2. l \in 0..Len(rest) BY <1>2, <1>6, ResultTypes, PageFits
  <2>3. Len(c) # o => rest # <<>> BY <1>4, <1>5, <1>6
  <2> QED BY <2>1, <2>2, <2>3, <1>6
<1>8. PICK e : e = o + l OBVIOUS
<1>9. e \in 0..Len(c) /\ e >= o BY <1>4, <1>5, <1>7, <1>8
<1>10. paged' = SubSeq(c, 1, e)
  <2>1. SubSeq(c, 1, o) \o SubSeq(c, o + 1, e) = SubSeq(c, 1, e) BY <1>4, <1>5, <1>9
  <2> QED BY <2>1, <1>3, <1>5, <1>8
<1>11. CASE e < Len(c)
  <2>1. offset' = e BY <1>3, <1>8, <1>11
  <2>2. pages' \in 0..e
    <3>1. l >= 1 BY <1>11, <1>7, <1>8, <1>9, <1>4, <1>5
    <3> QED BY <3>1, <1>3, <1>5, <1>8, <1>7, <1>4
  <2>3. offset' \in 0..Len(c) /\ paged' = SubSeq(c, 1, offset') /\ pages' \in 0..offset'
        /\ offset' < Len(c)
    BY <2>1, <2>2, <1>9, <1>10, <1>11
  <2> QED BY <2>3, <1>1, <1>3 DEF ResultInv
<1>12. CASE ~(e < Len(c))
  <2>1. offset' = NoParent BY <1>3, <1>8, <1>12
  <2>2. e = Len(c) BY <1>12, <1>9, <1>4
  <2>3. paged' = c BY <1>10, <2>2, <1>4
  <2>4. pages' \in Nat BY <1>3, <1>5, <1>4
  <2> QED BY <2>1, <2>3, <2>4, <1>1, <1>3 DEF ResultInv
<1> QED BY <1>11, <1>12

LEMMA ResultInvStep == ResultInv /\ [ResultStep]_resultVars => ResultInv'
<1>1. ASSUME ResultInv, UNCHANGED resultVars PROVE ResultInv'
  <2>1. /\ raw' = raw /\ ask' = ask /\ cached' = cached /\ given' = given /\ paged' = paged
        /\ offset' = offset /\ pages' = pages /\ made' = made
    BY <1>1 DEF resultVars
  <2> QED BY <1>1, <2>1 DEF ResultInv
<1> QED BY <1>1, ShapeKeeps, FitKeeps, PageKeeps DEF ResultStep

LEMMA ResultInvMeans == ResultInv => TreeIsUsable
<1> SUFFICES ASSUME ResultInv PROVE TreeIsUsable OBVIOUS
<1>1. PICK c, r : c = cached /\ r = raw OBVIOUS
<1>2. r \in Forests /\ ask.interactive \in BOOLEAN
  BY <1>1 DEF ResultInv
<1>3. made # "read" => c = Shaped(r, ask.interactive) BY <1>1 DEF ResultInv
<1>4. TreeIsExact
  <2>1. CASE made = "read" BY <2>1 DEF TreeIsExact
  <2>2. CASE made # "read"
    <3>1. Exact(cached, raw) BY <1>1, <1>2, <1>3, <2>2, ShapedExact
    <3> QED BY <3>1 DEF Exact, TreeIsExact
  <2> QED BY <2>1, <2>2
<1>5. NothingUsedIsLost
  <2> SUFFICES ASSUME made # "read", ask.interactive, NEW i \in DOMAIN r,
                      IsInteractive(r[i], \E a \in Above(r)[i] :
                                             Has(r[a], {"live"}) /\ r[a].children > 0)
               PROVE  \/ i \in ObjectsIn(c)
                      \/ Has(r[i], {"window"}) /\ ~ShouldKeep(r[i])
                      \/ Has(r[i], {"live"}) /\ ~Has(r[i], {"action", "control", "copy", "window"})
                         /\ \A k \in ObjectsIn(c) : i \notin Above(r)[k]
    BY <1>1 DEF NothingUsedIsLost
  <2>1. c = Interactive(Compact(r)) BY <1>3 DEF Shaped
  <2>2. IsForest(r) /\ NoParent \notin Nat BY <1>2, ForestAssumption
  <2> QED BY <2>1, <2>2, UsedStays
<1>6. TreeIsGiven
  <2>1. c \in Seq(Nodes) /\ Len(c) \in Nat BY <1>1, ResultTypes
  <2>2. ASSUME made = "given"
        PROVE  /\ IsPrefix(given.nodes, c)
               /\ SizeOfAll(given.nodes) <= ask.budget
               /\ given.nodes # c => ~ask.file \/ given.file
    <3>1. PICK n \in 0..Len(c) :
             /\ given = [nodes |-> SubSeq(c, 1, n), file |-> n < Len(c) /\ ask.file]
             /\ SizeOfAll(SubSeq(c, 1, n)) <= ask.budget
      BY <2>2, <1>1 DEF ResultInv
    <3>2. given.nodes = SubSeq(c, 1, n) /\ given.file = (n < Len(c) /\ ask.file) BY <3>1
    <3>3. IsPrefix(SubSeq(c, 1, n), c)
      <4>1. Len(SubSeq(c, 1, n)) = n /\ n <= Len(c) BY <2>1
      <4>2. SubSeq(SubSeq(c, 1, n), 1, n) = SubSeq(c, 1, n) BY <2>1
      <4> QED BY <4>1, <4>2 DEF IsPrefix
    <3>4. n = Len(c) => SubSeq(c, 1, n) = c BY <2>1
    <3>5. n = Len(c) \/ n < Len(c) BY <2>1
    <3> QED BY <3>1, <3>2, <3>3, <3>4, <3>5
  <2>3. CASE offset = NoParent /\ paged = c /\ pages \in Nat
    <3>1. IsPrefix(c, c) BY <2>1 DEF IsPrefix
    <3> QED BY <3>1, <2>2, <2>3, <1>1 DEF TreeIsGiven
  <2>4. CASE offset \in 0..Len(c) /\ paged = SubSeq(c, 1, offset) /\ pages \in 0..offset
    <3>1. PICK o : o = offset OBVIOUS
    <3>2. IsPrefix(SubSeq(c, 1, o), c)
      <4>1. Len(SubSeq(c, 1, o)) = o /\ o <= Len(c) BY <2>1, <2>4, <3>1
      <4>2. SubSeq(SubSeq(c, 1, o), 1, o) = SubSeq(c, 1, o) BY <2>1, <2>4, <3>1
      <4> QED BY <4>1, <4>2 DEF IsPrefix
    <3>3. offset # NoParent
      <4>1. offset \in Nat BY <2>4, <2>1
      <4> QED BY <4>1, ForestAssumption
    <3>4. ~(pages > Len(c)) BY <2>4, <2>1
    <3> QED BY <3>1, <3>2, <3>3, <3>4, <2>2, <2>4, <1>1 DEF TreeIsGiven
  <2> QED BY <2>3, <2>4, <1>1 DEF ResultInv
<1> QED BY <1>4, <1>5, <1>6 DEF TreeIsUsable

\* Whatever trees are read: what is cached of a tree is the tree with some of its objects,
\* nothing a client operates or reads is left out of an interactive one, and a client that
\* asks for the pages gets all of it, once (compact_accessibility_tree,
\* interactive_accessibility_tree, TreeSpiller::fit, get_tree_page).
THEOREM TreesStayUsable == ResultSpec => []TreeIsUsable
<1> QED BY ResultInvInit, ResultInvStep, ResultInvMeans, PTL DEF ResultSpec
=============================================================================
