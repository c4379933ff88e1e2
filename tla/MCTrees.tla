------------------------------ MODULE MCTrees ------------------------------
(***************************************************************************)
(* Instances for TLC of what is read of an application and done to it by   *)
(* its accessibility tree: the cached snapshot, the walk that reads a tree *)
(* and finds the focus, what a client is given of a tree, and what a call  *)
(* does to one object.  A behaviour is that of one of them, the others     *)
(* rest in their initial states.                                           *)
(***************************************************************************)
EXTENDS SnapshotCache, TreeReading, TreeResult, ElementWrites, TLC

CONSTANTS o1, o2, o3, w1, w2, w3, p1, p2, button, r1, r2, f1, f2, b1, d1, e1, e2, ta, tX,
          TreeParts  \* what behaviours may be about

VARIABLE part  \* what a behaviour is about

(* The cache.  "TwoWindows": the app p1 has two windows and an object in each, o1 may     *)
(* die.  "Restart": o1 and o2 are one button before and after p1 came back on the bus.    *)
(* o3 belongs to another app.  All objects have one name, so a selector finds whichever   *)
(* of them was read.                                                                      *)
RestartWindowOf == (o1 :> w1) @@ (o2 :> w1) @@ (o3 :> w3)
RestartPidOf == (w1 :> p1) @@ (w3 :> p2)

TwoWindowsWindowOf == (o1 :> w1) @@ (o2 :> w2) @@ (o3 :> w3)
TwoWindowsPidOf == (w1 :> p1) @@ (w2 :> p1) @@ (w3 :> p2)

MCNameOf == [o \in Objects |-> button]

(* Two applications; one has two windows, a dialog or a document, and fields. *)
NoKids == [e \in Elements \cup {Registry} |-> <<>>]
Beside == [NoKids EXCEPT ![Registry] = <<r1, r2>>, ![r1] = <<f1, f2, b1>>, ![f1] = <<d1>>, ![d1] = <<e1>>]
Within == [NoKids EXCEPT ![Registry] = <<r2, r1>>, ![r1] = <<f1, f2>>, ![f1] = <<d1, e2>>, ![d1] = <<e1>>,
                         ![r2] = <<b1>>]
TwoShapes == {Beside, Within}
ByTitle == "one" :> << {f1}, {f1, f2} >>
OwnerOfRoot == [e \in Elements |-> IF e = r1 THEN 1 ELSE 2]
Snap(pid, named, title, n, d) ==
    [kind |-> "snapshot", pid |-> pid, named |-> named, title |-> title, nodes |-> n, depth |-> d]
Probe(pid, n, d) ==
    [kind |-> "probe", pid |-> pid, named |-> FALSE, title |-> Nil, nodes |-> n, depth |-> d]
SomeJobs ==
    {Snap(1, FALSE, "one", 3, 9), Snap(1, FALSE, "one", 9, 9), Snap(1, FALSE, Nil, 9, 2),
     Snap(Nil, TRUE, Nil, 5, 9),
     Probe(1, 4, 9), Probe(1, 9, 2), Probe(1, 9, 9), Probe(Nil, 9, 9)}

(* All trees of five nodes; the one below the root is a container or a live region. The   *)
(* children of a live region below it may have failed to be counted.                      *)
Kinds == {{}, {"action"}, {"copy"}, {"live"}, {"window"}}
Parents == {p \in [1..5 -> 0..4] : /\ p[1] = 0
                                   /\ \A i \in 2..5 : p[i] \in 1..i - 1 /\ p[i - 1] <= p[i]}
DepthIn(p) == LET d[i \in DOMAIN p] == IF p[i] = 0 THEN 0 ELSE d[p[i]] + 1 IN d
Forest(p, is, uncounted) ==
    [i \in DOMAIN p |->
        [object |-> i, index |-> i, parent |-> IF p[i] = 0 THEN NoParent ELSE p[i],
         depth |-> DepthIn(p)[i], is |-> is[i],
         children |-> IF i \in uncounted THEN 0 ELSE Cardinality({j \in DOMAIN p : p[j] = i})]]
FiveNodes ==
    LET some == {f \in [1..5 -> Kinds] : f[1] = {} /\ f[2] \in {{}, {"live"}}} IN
    {Forest(p, is, {}) : p \in Parents, is \in some}
    \cup {Forest(p, is, {3}) : p \in Parents, is \in {f \in some : f[3] = {"live"}}}
CopyIsLarge(n) == IF Has(n, {"copy"}) THEN 3 ELSE 1

UnitsOf(c) == IF c = tX THEN << <<tX, 1>>, <<tX, 2>> >> ELSE << <<c, 0>> >>
ShortTexts == {FlattenSeq([i \in 1..Len(f) |-> UnitsOf(f[i])]) : f \in UNION {[1..n -> {ta, tX}] : n \in 0..3}}
AllButFirst == [t \in ShortTexts |-> IF t = <<>> THEN <<>> ELSE SubSeq(t, t[1][2] + 2, Len(t))]
TwoLists == {<<"p", "q">>, <<"q", "p", "p">>}

TreesInit ==
    /\ part \in TreeParts
    /\ Init
    /\ IF part = "walk" THEN TreeInit
       ELSE kids = Beside /\ focused = {} /\ job = Probe(1, 9, 9) /\ TreeBegins
    /\ IF part = "write" THEN WriteInit
       ELSE /\ element = [faces |-> {}, password |-> FALSE, units |-> "scalars", keeps |-> TRUE]
            /\ wish = [kind |-> "set", text |-> <<>>, number |-> FALSE]
            /\ actions = <<>> /\ content = <<>> /\ WriteBegins
    /\ IF part = "result" THEN ResultInit
       ELSE /\ raw = <<>> /\ ask = [interactive |-> FALSE, budget |-> 2, file |-> FALSE]
            /\ ResultBegins
\* An identifier is not looked up in the cache, so one tree is enough for it. Whether an
\* object has vanished is found out when it is invoked, so it vanishes just before.
CacheNext ==
    /\ Next
    /\ \A c \in Actors : by'[c] \in Identifiers \ {by[c]} => snapshot = Empty
    /\ alive' # alive => \E c \in Actors : pc[c] = "resolved"

TreesNext ==
    /\ part' = part
    /\ \/ part = "cache" /\ CacheNext /\ UNCHANGED <<treeVars, resultVars, writeVars>>
       \/ part = "walk" /\ TreeNext /\ UNCHANGED <<vars, resultVars, writeVars>>
       \/ part = "result" /\ ResultStep /\ UNCHANGED <<vars, treeVars, writeVars>>
       \/ part = "write" /\ WriteNext /\ UNCHANGED <<vars, treeVars, resultVars>>
TreesSpec == TreesInit /\ [][TreesNext]_<<part, vars, treeVars, resultVars, writeVars>>
=============================================================================
