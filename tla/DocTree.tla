------------------------------ MODULE DocTree ------------------------------
(***************************************************************************)
(* The navigation of a reference page as the older templates have it       *)
(* (templates-ndk/assets/js/docs.js, and the same functions in             *)
(* templates-sac and templates-pdk): two panels of lists, or a tree that   *)
(* is built from a script the first time it is wanted, that is opened node *)
(* by node and that greys out what the chosen API level does not have.     *)
(***************************************************************************)
EXTENDS Integers, Sequences, FiniteSets, SequencesExt

CONSTANTS
    TreeNodes,   \* the nodes of NAVTREE_DATA
    Mom,         \* the node above a node, NoMom for those at the top; no cycles
    NoMom,
    NodeLevel,   \* the API level a node came with
    ApiLevels,   \* what the level can be set to
    MaxTreeUses  \* bound on what the user does

ASSUME TreeAssumption ==
    /\ NoMom \notin TreeNodes
    /\ Mom \in [TreeNodes -> TreeNodes \union {NoMom}]
    /\ \A nodes \in SUBSET TreeNodes : nodes # {} => \E n \in nodes : Mom[n] \notin nodes
    /\ NodeLevel \in [TreeNodes -> ApiLevels] /\ ApiLevels # {}
    /\ MaxTreeUses \in Nat

VARIABLE tree

Branches == {Mom[n] : n \in TreeNodes} \ {NoMom}
NodesUnder(n) == {m \in TreeNodes : Mom[m] = n}

(* From the top down to a node. *)
find_page ==
    LET path[n \in TreeNodes \union {NoMom}] == IF n = NoMom THEN <<>> ELSE Append(path[Mom[n]], n)
    IN  path
-----------------------------------------------------------------------------
(* `pref' is the cookie and `nav' the variable nav_pref.  Every script that *)
(* arrives appends one more list of nodes to the page: `lists'.  Of a list, *)
(* `made' are the nodes in the document, `open' those with their flag       *)
(* expanded, `shown' those whose children are displayed, `sliding' their    *)
(* animations and `grey' the nodes with the class absent; `levelled' says   *)
(* that the API levels were applied since it was appended.                  *)

LoadedTree(pref, level, page, uses) ==
    [pref |-> pref, nav |-> pref, visible |-> pref, requests |-> IF pref = "tree" THEN 1 ELSE 0,
     failed |-> FALSE, lists |-> <<>>, level |-> level, page |-> page, uses |-> uses]

TreeInit ==
    \E page \in TreeNodes \union {NoMom}, level \in ApiLevels :
        tree = LoadedTree("panels", level, page, 0)

TreeRest == tree = LoadedTree("panels", CHOOSE l \in ApiLevels : TRUE, NoMom, 0)

UseTree(t) == [t EXCEPT !.uses = @ + 1]

LevelsApplied(t) ==
    [t EXCEPT !.lists = [i \in DOMAIN @ |->
        [@[i] EXCEPT !.grey = {n \in t.lists[i].made : NodeLevel[n] > t.level}, !.levelled = TRUE]]]

(* A node without children, or an expanded one, is left alone.              *)
expand_node(t, i, node) ==
    IF node \notin Branches \/ node \in t.lists[i].open THEN t
    ELSE LevelsApplied(
           [t EXCEPT !.lists[i].made = @ \union NodesUnder(node), !.lists[i].open = @ \union {node},
                     !.lists[i].sliding[node] = Append(@, "down")])

(* A slip: the flag stays, and the next click slides up again.               *)
collapseKeepsFlag(t, i, node) == [t EXCEPT !.lists[i].sliding[node] = Append(@, "up")]

collapse_node(t, i, node) ==
    [t EXCEPT !.lists[i].open = @ \ {node}, !.lists[i].sliding[node] = Append(@, "up")]

(* The navigation is swapped; the levels are applied to what is in the page  *)
(* already, before the script arrives.                                       *)
swapNav ==
    /\ tree.uses < MaxTreeUses
    /\ LET to   == IF tree.nav = "tree" THEN "panels" ELSE "tree"
           swap == [UseTree(tree) EXCEPT !.nav = to, !.pref = to,
                                         !.visible = IF @ = "tree" THEN "panels" ELSE "tree"]
       IN  tree' = IF to = "panels" THEN swap
                   ELSE LevelsApplied([swap EXCEPT !.requests = @ + 1])

(* The script arrives: a list of the nodes at the top is appended and opened *)
(* down to this page.                                                        *)
init_navtree(t) ==
    LET top == [made |-> NodesUnder(NoMom), open |-> {}, shown |-> {}, grey |-> {},
                levelled |-> FALSE, sliding |-> [n \in Branches |-> <<>>]]
        all == [t EXCEPT !.lists = Append(@, top), !.requests = @ - 1]
        breadcrumbs == find_page[t.page]
        opened[k \in 0 .. Len(breadcrumbs)] ==
            IF k = 0 THEN all ELSE expand_node(opened[k-1], Len(all.lists), breadcrumbs[k])
    IN  opened[Len(breadcrumbs)]

NavtreeArrives == tree.requests > 0 /\ tree' = init_navtree(tree)

(* It does not: nothing is called, and only the next swap asks again.        *)
NavtreeFails ==
    /\ tree.requests > 0
    /\ tree' = [tree EXCEPT !.requests = @ - 1, !.failed = TRUE]

(* A click on a node whose children, or on the node itself, when it is in    *)
(* view.                                                                     *)
ToggleNode ==
    /\ tree.uses < MaxTreeUses /\ tree.visible = "tree"
    /\ \E i \in DOMAIN tree.lists : \E node \in Branches \intersect tree.lists[i].made :
         /\ \A up \in ToSet(find_page[Mom[node]]) : up \in tree.lists[i].shown
         /\ tree' = IF node \in tree.lists[i].open THEN collapse_node(UseTree(tree), i, node)
                    ELSE expand_node(UseTree(tree), i, node)

ChangeLevel ==
    /\ tree.uses < MaxTreeUses
    /\ \E level \in ApiLevels \ {tree.level} :
         tree' = LevelsApplied([UseTree(tree) EXCEPT !.level = level])

(* Another page of the reference, with the navigation of the cookie.         *)
chooseDefaultNav ==
    /\ tree.uses < MaxTreeUses
    /\ \E page \in TreeNodes \union {NoMom} :
         tree' = LoadedTree(tree.pref, tree.level, page, tree.uses + 1)

NodeSlides ==
    \E i \in DOMAIN tree.lists : \E node \in Branches :
        LET queue == tree.lists[i].sliding[node]
        IN  /\ queue # <<>>
            /\ tree' = [tree EXCEPT !.lists[i].sliding[node] = Tail(queue),
                          !.lists[i].shown = IF Head(queue) = "down" THEN @ \union {node} ELSE @ \ {node}]

TreeNext ==
    swapNav \/ NavtreeArrives \/ NavtreeFails \/ ToggleNode \/ ChangeLevel \/ chooseDefaultNav \/ NodeSlides
-----------------------------------------------------------------------------
(* The navigation on display is the one the cookie names, and when it is    *)
(* the tree there is one or it is on its way, unless the script was lost.   *)
NavKept ==
    /\ tree.visible = tree.pref
    /\ tree.visible = "tree" /\ ~tree.failed => tree.lists # <<>> \/ tree.requests > 0

(* In every list, whatever is clicked while it slides: a node at rest shows  *)
(* its children exactly when it is expanded, the children are there, this    *)
(* page is among the nodes, and once the levels were applied exactly the     *)
(* nodes above the chosen level are grey, nodes appended later included.     *)
TreeHonest ==
    \A i \in DOMAIN tree.lists :
        LET list == tree.lists[i]
        IN  /\ \A n \in Branches : list.sliding[n] = <<>> => (n \in list.shown) = (n \in list.open)
            /\ \A n \in list.open : NodesUnder(n) \subseteq list.made
            /\ tree.page # NoMom => tree.page \in list.made
            /\ list.levelled => list.grey = {n \in list.made : NodeLevel[n] > tree.level}
=============================================================================
