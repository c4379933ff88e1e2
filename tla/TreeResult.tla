----------------------------- MODULE TreeResult -----------------------------
(***************************************************************************)
(* What a client sees of a tree that was read: compaction drops empty      *)
(* containers, interactive_only drops what is not operated or read, the    *)
(* result carries the nodes that fit its budget, and get_tree_page gives   *)
(* the rest page by page.  Nodes that stay keep their order, get the       *)
(* nearest ancestor that stays as parent, and are named by their index in  *)
(* the compacted tree from then on.                                        *)
(***************************************************************************)
EXTENDS Integers, Sequences, FiniteSets, SequencesExt, FiniteSetsExt

CONSTANTS
    Forests,   \* the trees that may be read: sequences of nodes, parents before children
    Budgets,   \* the room for the nodes of a result
    SizeOf(_), \* the size of a node's encoding
    NoParent

\* A node: "object" names it, "is" is what is known of it, of these.
Features == {"action",    \* a specific action, editable text or a value
             "control",   \* a role that is operated
             "copy",      \* a name, a description or a text to read
             "live",      \* a status or a live region
             "heading",
             "window",    \* a window's role
             "item"}      \* an item of a list or a menu, with its bounds

\* A tree as it was read: a node is named by its position, and comes after its parent.
Nodes == [object : Nat, index : Nat, parent : Nat \cup {NoParent}, depth : Nat,
          is : SUBSET Features, children : Int]
IsForest(t) ==
    /\ t \in Seq(Nodes)
    /\ \A i \in DOMAIN t : /\ t[i].object = i /\ t[i].index = i
                          /\ (t[i].parent = NoParent \/ t[i].parent \in 1..i - 1)

ASSUME ForestAssumption ==
    /\ NoParent \notin Nat /\ Budgets \subseteq Nat
    /\ \A t \in Forests : IsForest(t)

VARIABLES
    raw,      \* the tree that was read
    ask,      \* interactive_only, the budget of the result, whether a file can be written
    cached,   \* the snapshot that is cached: what indices name
    given,    \* the nodes in the result, and whether it names a file with all of them
    paged,    \* the nodes get_tree_page has given
    offset,   \* the next offset, NoParent at the end
    pages,    \* how many pages that took
    made      \* how far this is

resultVars == <<raw, ask, cached, given, paged, offset, pages, made>>

ResultBegins ==
    /\ cached = <<>> /\ given = [nodes |-> <<>>, file |-> FALSE] /\ paged = <<>>
    /\ offset = 0 /\ pages = 0 /\ made = "read"

ResultInit ==
    /\ raw \in Forests
    /\ ask \in [interactive : BOOLEAN, budget : Budgets, file : BOOLEAN]
    /\ ResultBegins

Has(n, features) == n.is \cap features # {}

(***************************************************************************)
(* Which nodes stay                                                        *)
(***************************************************************************)

\* should_keep_accessibility_node
ShouldKeep(n) ==
    \/ n.depth <= 1
    \/ Has(n, {"action", "copy", "control", "item"})
    \/ Has(n, {"live"}) /\ n.children > 0

\* is_interactive_tree_node
IsInteractive(n, inLive) ==
    \/ n.depth <= 1
    \/ Has(n, {"action", "control", "window"})
    \/ (Has(n, {"heading", "live"}) \/ inLive) /\ Has(n, {"copy"})
    \/ Has(n, {"live"}) /\ n.children > 0

\* The position of a node's parent in t, 0 if it has none there.
ParentAt(t, i) == IF \E j \in DOMAIN t : t[j].index = t[i].parent
                  THEN CHOOSE j \in DOMAIN t : t[j].index = t[i].parent ELSE 0

\* Mutant: a node whose parent goes has no parent.
NearestKeptOnly(t, keep) == [i \in DOMAIN t |-> IF ParentAt(t, i) \in keep THEN ParentAt(t, i) ELSE 0]

\* nearest_kept_parent
NearestKept(t, keep) ==
    LET up[i \in DOMAIN t] ==
            LET p == ParentAt(t, i) IN IF p = 0 \/ p \in keep THEN p ELSE up[p]
    IN up

\* The k-th of the positions in keep.
Kept(keep, k) == CHOOSE i \in keep : Cardinality({j \in keep : j <= i}) = k

\* The nodes that stay, with their parents and the number of their children.
Collapse(t, keep, index) ==
    LET up == NearestKept(t, keep)
        node(i) == [t[i] EXCEPT
                      !.index = index[i],
                      !.parent = IF up[i] = 0 THEN NoParent ELSE index[up[i]],
                      !.children = Cardinality({j \in keep : up[j] = i})]
    IN [k \in 1..Cardinality(keep) |-> node(Kept(keep, k))]

\* compact_accessibility_tree: indices count the nodes that stay.
Compact(t) ==
    LET keep == {i \in DOMAIN t : ShouldKeep(t[i])}
    IN Collapse(t, keep, [i \in keep |-> Cardinality({j \in keep : j < i})])

\* Mutant: only the children of a live region are read out.
InLiveRegionDirect(t) == [i \in DOMAIN t |-> ParentAt(t, i) # 0 /\ Has(t[ParentAt(t, i)], {"live"})]

\* Whether a node is below a live region.
InLiveRegion(t) ==
    LET below[i \in DOMAIN t] ==
            LET p == ParentAt(t, i) IN p # 0 /\ (below[p] \/ Has(t[p], {"live"}))
    IN below

\* interactive_accessibility_tree: indices are not renumbered.
Interactive(t) ==
    LET keep == {i \in DOMAIN t : IsInteractive(t[i], InLiveRegion(t)[i])}
    IN Collapse(t, keep, [i \in keep |-> t[i].index])

Shape ==
    /\ made = "read"
    /\ cached' = IF ask.interactive THEN Interactive(Compact(raw)) ELSE Compact(raw)
    /\ made' = "cached"
    /\ UNCHANGED <<raw, ask, given, paged, offset, pages>>

(***************************************************************************)
(* How much of it a result carries                                         *)
(***************************************************************************)
SizeOfAll(t) ==
    LET sum[i \in 0..Len(t)] == IF i = 0 THEN 0 ELSE sum[i - 1] + SizeOf(t[i])
    IN sum[Len(t)]

\* Mutant: the nodes that fit, whatever comes between them.
InlinePrefixLenAll(t, budget) == Cardinality({i \in DOMAIN t : SizeOf(t[i]) <= budget})

\* inline_prefix_len: the leading nodes that fit.
InlinePrefixLen(t, budget) == Max({i \in 0..Len(t) : SizeOfAll(SubSeq(t, 1, i)) <= budget})

\* TreeSpiller::fit: the rest is in the file too, unless it cannot be written.
Fit ==
    /\ made = "cached"
    /\ LET n == InlinePrefixLen(cached, ask.budget) IN
       given' = [nodes |-> SubSeq(cached, 1, n), file |-> n < Len(cached) /\ ask.file]
    /\ made' = "given"
    /\ UNCHANGED <<raw, ask, cached, paged, offset, pages>>

\* Mutant: a page holds what fits.
PageLenFitting(rest) == InlinePrefixLen(rest, ask.budget)

\* A page has at least one node.
PageLen(rest) == Max({InlinePrefixLen(rest, ask.budget), IF rest = <<>> THEN 0 ELSE 1})

\* get_tree_page, from the offset the last page named.
Page ==
    /\ made = "given" /\ offset # NoParent
    /\ LET rest == SubSeq(cached, offset + 1, Len(cached))
           end == offset + PageLen(rest) IN
       /\ paged' = paged \o SubSeq(cached, offset + 1, end)
       /\ offset' = IF end < Len(cached) THEN end ELSE NoParent
    /\ pages' = pages + 1
    /\ UNCHANGED <<raw, ask, cached, given, made>>

ResultStep == Shape \/ Fit \/ (pages <= Len(raw) /\ Page)
ResultSpec == ResultInit /\ [][ResultStep]_resultVars
-----------------------------------------------------------------------------
\* The positions above each of a tree.
Above(t) ==
    LET up[j \in DOMAIN t] ==
            IF ParentAt(t, j) = 0 THEN {} ELSE {ParentAt(t, j)} \cup up[ParentAt(t, j)]
    IN up

ObjectsIn(t) == {t[k].object : k \in DOMAIN t}

\* What is cached is the tree that was read with some of its objects: in its order, each
\* below the nearest of them that is above it there, with its children counted, and with
\* the index it has in the compacted tree ("a kept node's parent_index names its nearest
\* kept ancestor and child_count counts kept children.  Indices are not renumbered").
TreeIsExact ==
    made # "read" =>
        \A k \in DOMAIN cached :
            LET n == cached[k]
                above == Above(raw)[n.object] \cap ObjectsIn(cached)
                parent == IF n.parent = NoParent THEN {}
                          ELSE {m \in Range(cached) : m.index = n.parent} IN
            /\ k > 1 => cached[k - 1].object < n.object
            /\ n.index = Cardinality({i \in DOMAIN raw : i < n.object /\ ShouldKeep(raw[i])})
            /\ {m.object : m \in parent} = {a \in above : \A b \in above : b = a \/ b \in Above(raw)[a]}
            /\ n.children = Cardinality({m \in Range(cached) : m.parent = n.index})

\* interactive_only leaves no control, no window and no text of a live region out of
\* what there was, but for a window below the first level with nothing to read on it,
\* which compaction has taken before ("keep what it keeps"), and a region with nothing in it.
\* A region whose children could not be counted is taken for one that has none.
NothingUsedIsLost ==
    (made # "read" /\ ask.interactive) =>
        \A i \in DOMAIN raw :
            LET inLive == \E a \in Above(raw)[i] : Has(raw[a], {"live"}) /\ raw[a].children > 0 IN
            IsInteractive(raw[i], inLive) =>
                \/ i \in ObjectsIn(cached)
                \/ Has(raw[i], {"window"}) /\ ~ShouldKeep(raw[i])
                \/ Has(raw[i], {"live"}) /\ ~Has(raw[i], {"action", "control", "copy", "window"})
                   /\ \A k \in ObjectsIn(cached) : i \notin Above(raw)[k]

\* The client gets the tree: a result is the beginning of it, all of it or as much as
\* fits, and the pages are the whole of it, once, in at most a page for each node.
TreeIsGiven ==
    /\ made = "given" => /\ IsPrefix(given.nodes, cached)
                         /\ SizeOfAll(given.nodes) <= ask.budget
                         /\ given.nodes # cached => ~ask.file \/ given.file
    /\ IsPrefix(paged, cached)
    /\ offset = NoParent => paged = cached
    /\ pages > Len(cached) => offset = NoParent

\* The client sees the tree as it was read, and all of it.
TreeIsUsable == TreeIsExact /\ NothingUsedIsLost /\ TreeIsGiven
=============================================================================
