------------------------------ MODULE DocLoads ------------------------------
(***************************************************************************)
(* The parts of a documentation page that wait for something to be loaded  *)
(* (templates-sdk/assets/js/docs.js): the reader of blog posts, the video  *)
(* player, the trees of the Google reference, whose two scripts may come   *)
(* in either order, and the reference navigation, whose namespaces are     *)
(* filled when they are first opened.  Answers, timeouts and the ends of   *)
(* animations are actions.  What a post or a video says is left out.       *)
(***************************************************************************)
EXTENDS Naturals, Sequences, FiniteSets, SequencesExt

CONSTANTS
    Posts, Videos,
    Nothing,
    Trees,       \* the trees of the Google reference, one script each
    TreeParent,  \* TreeParent[n]: the section that node n is in, or its tree; no cycles
    PageNode,    \* the node of the page
    Namespaces,
    MaxLoads     \* bound on what the user does

ASSUME LoadsAssumption ==
    /\ Nothing \notin Posts \union Videos /\ MaxLoads \in Nat
    /\ PageNode \in DOMAIN TreeParent
    /\ \A n \in DOMAIN TreeParent : n \notin Trees /\ TreeParent[n] \in Trees \union DOMAIN TreeParent
    /\ \A nodes \in SUBSET DOMAIN TreeParent :
         nodes # {} => \E n \in nodes : TreeParent[n] \notin nodes

VARIABLES
    blog,   \* BlogReader
    video,  \* VideoPlayer
    trees,  \* the Google reference trees and the highlighted page
    ref     \* the reference navigation

loadsVars == <<blog, video, trees, ref>>
-----------------------------------------------------------------------------
(* BlogReader.  `flight' are the requests, `tries' how many were made for    *)
(* the latest post asked for, `shown' the post in the modal.                 *)

BlogInit == blog = [setup |-> FALSE, flight |-> <<>>, shown |-> Nothing, open |-> FALSE,
                    left |-> FALSE, clicks |-> 0, requests |-> 0]

(* A slip: every try is taken for the first.                                 *)
showPostAgain(b, post, secondTry) ==
    [b EXCEPT !.flight = Append(@, [post |-> post, second |-> FALSE])]

showPost(b, post, secondTry) ==
    [b EXCEPT !.flight = Append(@, [post |-> post, second |-> secondTry]), !.requests = @ + 1]

wrapLinkWithReader ==
    /\ blog.clicks < MaxLoads /\ ~blog.left
    /\ \E post \in Posts :
         blog' = showPost([blog EXCEPT !.setup = TRUE, !.clicks = @ + 1], post, FALSE)

BlogDone ==
    \E i \in DOMAIN blog.flight :
        blog' = [blog EXCEPT !.flight = RemoveAt(@, i), !.shown = blog.flight[i].post, !.open = TRUE]

(* A failure, the timeout among them: an error of the server is retried      *)
(* once, anything else goes to the post itself.                              *)
BlogFail ==
    \E i \in DOMAIN blog.flight, serverError \in BOOLEAN :
        LET request == blog.flight[i]
            rest == [blog EXCEPT !.flight = RemoveAt(@, i)]
        IN  blog' = IF serverError /\ ~request.second THEN showPost(rest, request.post, TRUE)
                    ELSE [rest EXCEPT !.left = TRUE]

BlogClose == blog.open /\ blog' = [blog EXCEPT !.open = FALSE]

BlogAnswer == BlogDone \/ BlogFail
BlogNext == ~blog.left /\ (wrapLinkWithReader \/ BlogAnswer \/ BlogClose)
-----------------------------------------------------------------------------
(* VideoPlayer.  The shadow box is shown or not, and may be fading out; the  *)
(* player is made when the API is there and cannot be used before it says    *)
(* that it is ready.  `hasty' says that a click came between.                *)

VideoOf(mobile) ==
    [mobile |-> mobile, setup |-> FALSE, isLoaded |-> FALSE, queue |-> Nothing, box |-> FALSE,
     fading |-> FALSE, mini |-> FALSE, player |-> "none", of |-> Nothing, mPlayerPaused |-> FALSE,
     asked |-> Nothing, hasty |-> FALSE, clicks |-> 0]

VideoInit == \E mobile \in BOOLEAN : video = VideoOf(mobile)
VideoRest == video = VideoOf(FALSE)

(* A player that is not ready has none of its methods, and the call fails.   *)
startYouTubePlayer(v, id) ==
    LET shown == [v EXCEPT !.box = TRUE]
    IN  IF ~v.isLoaded THEN [shown EXCEPT !.queue = id]
        ELSE IF v.player = "none"
        THEN [shown EXCEPT !.player = "creating", !.of = id, !.mPlayerPaused = FALSE]
        ELSE IF v.player = "creating" THEN [shown EXCEPT !.mPlayerPaused = FALSE]
        ELSE [shown EXCEPT !.player = "playing", !.of = id, !.mPlayerPaused = FALSE]

wrapLinkInPlayer ==
    /\ video.clicks < MaxLoads
    /\ \E id \in Videos :
         video' = startYouTubePlayer(
                    [video EXCEPT !.setup = TRUE, !.asked = id, !.clicks = @ + 1,
                                  !.hasty = @ \/ video.fading \/ video.player = "creating"], id)

onYouTubeIframeAPIReady ==
    /\ video.setup /\ ~video.isLoaded
    /\ LET loaded == [video EXCEPT !.isLoaded = TRUE]
       IN  video' = IF video.queue = Nothing THEN loaded ELSE startYouTubePlayer(loaded, video.queue)

onPlayerReady ==
    /\ video.player = "creating"
    /\ video' = [video EXCEPT !.player = IF video.mobile THEN "paused" ELSE "playing",
                              !.mPlayerPaused = IF video.mobile THEN @ ELSE FALSE]

(* The buttons of the player itself, and onPlayerStateChange.                *)
PlayerButton ==
    /\ video.box /\ ~video.fading /\ video.clicks < MaxLoads
    /\ \/ /\ video.player = "playing"
          /\ video' = [video EXCEPT !.player = "paused", !.mPlayerPaused = TRUE, !.clicks = @ + 1]
       \/ /\ video.player = "paused"
          /\ video' = [video EXCEPT !.player = "playing", !.mPlayerPaused = FALSE, !.clicks = @ + 1]

toggleMinimizeVideo ==
    /\ video.box /\ video.clicks < MaxLoads
    /\ video' = [video EXCEPT !.mini = ~@, !.clicks = @ + 1]

(* A slip: the player is not paused.                                         *)
closeVideoOnly ==
    /\ video.box
    /\ video' = [video EXCEPT !.fading = TRUE]

closeVideo ==
    /\ video.box
    /\ video' = [video EXCEPT !.fading = TRUE,
                   !.player = IF @ = "playing" THEN "paused" ELSE @,
                   !.mPlayerPaused = IF video.player = "playing" THEN TRUE ELSE @,
                   !.hasty = @ \/ video.player \in {"none", "creating"}]

VideoFaded ==
    /\ video.fading
    /\ video' = [video EXCEPT !.fading = FALSE, !.box = FALSE, !.mini = FALSE]

VideoNext ==
    \/ wrapLinkInPlayer \/ onYouTubeIframeAPIReady \/ onPlayerReady \/ PlayerButton
    \/ toggleMinimizeVideo \/ closeVideo \/ VideoFaded
-----------------------------------------------------------------------------
(* The trees of the Google reference.  `nodes' are in the page, `selected'   *)
(* and `expanded' those with that class, `crumbs' the trail in the header,   *)
(* `lit' how often the page was highlighted.                                 *)

Root[n \in DOMAIN TreeParent] == IF TreeParent[n] \in Trees THEN TreeParent[n] ELSE Root[TreeParent[n]]
Ancestors[n \in DOMAIN TreeParent] ==
    IF TreeParent[n] \in Trees THEN <<>> ELSE Append(Ancestors[TreeParent[n]], TreeParent[n])

TreesInit == trees = [loaded |-> {}, nodes |-> {}, selected |-> {}, expanded |-> {},
                      crumbs |-> <<>>, lit |-> 0]

(* unHighlightSidenav, if need be, and highlightSidenav, which adds to the   *)
(* crumbs without looking at those that are there.                           *)
Highlighted(t) ==
    LET plain == IF t.selected = {} THEN t ELSE [t EXCEPT !.selected = {}, !.expanded = {}]
    IN  IF PageNode \notin t.nodes THEN plain
        ELSE [plain EXCEPT !.selected = {PageNode}, !.expanded = @ \union ToSet(Ancestors[PageNode]),
                           !.crumbs = @ \o Ancestors[PageNode], !.lit = @ + 1]

(* init_google_navtree: get_google_node and new_google_node put every node   *)
(* of the data into the list of the one it is in.                            *)
init_google_navtree(t) ==
    /\ t \notin trees.loaded
    /\ trees' = Highlighted([trees EXCEPT !.loaded = @ \union {t},
                               !.nodes = @ \union {n \in DOMAIN TreeParent : Root[n] = t}])

TreesNext == \E t \in Trees : init_google_navtree(t)
-----------------------------------------------------------------------------
(* The reference navigation.  The handler is there once the script has come; *)
(* it fills a namespace that is empty, and slides it.  `open' are the        *)
(* namespaces without the class "dac-closed", `shown' what is displayed.     *)

RefInit ==
    \E selected \in SUBSET Namespaces :
        /\ Cardinality(selected) <= 1
        /\ ref = [loaded |-> FALSE, filled |-> [n \in Namespaces |-> IF n \in selected THEN 1 ELSE 0],
                  open |-> selected, shown |-> selected, flips |-> [n \in Namespaces |-> 0], clicks |-> 0]

RefRest ==
    ref = [loaded |-> FALSE, filled |-> [n \in Namespaces |-> 0], open |-> {}, shown |-> {},
           flips |-> [n \in Namespaces |-> 0], clicks |-> 0]

RefLoaded == ~ref.loaded /\ ref' = [ref EXCEPT !.loaded = TRUE]

toggleResourcesHandler ==
    /\ ref.loaded /\ ref.clicks < MaxLoads
    /\ \E n \in Namespaces :
         ref' = [ref EXCEPT !.filled[n] = IF @ = 0 THEN 1 ELSE @,
                            !.open = IF n \in @ THEN @ \ {n} ELSE @ \union {n},
                            !.flips[n] = @ + 1, !.clicks = @ + 1]

(* slideToggle looks at what is displayed when it begins.                    *)
RefSettle ==
    \E n \in Namespaces :
        /\ ref.flips[n] > 0
        /\ ref' = [ref EXCEPT !.flips[n] = @ - 1,
                              !.shown = IF n \in @ THEN @ \ {n} ELSE @ \union {n}]

RefNext == RefLoaded \/ toggleResourcesHandler \/ RefSettle
-----------------------------------------------------------------------------
(* No click on a post makes more than two requests, and each of them ends:   *)
(* the reader shows a post, or the browser leaves for the blog.              *)
TwoTries ==
    /\ blog.requests <= 2 * blog.clicks
    /\ blog.clicks > 0 /\ blog.flight = <<>> => blog.shown # Nothing \/ blog.left
BlogAnswered == (blog.flight # <<>>) ~> (blog.flight = <<>> \/ blog.left)

(* A video that plays is in view and is the one asked for last.  This fails  *)
(* only when the box was closed before the player was ready, or a video was  *)
(* asked for while the box was fading out or the player was being made.      *)
VideoInView ==
    ~video.hasty /\ video.player = "playing" => video.box /\ video.of = video.asked

(* In whatever order the scripts come, the page ends up highlighted in its   *)
(* tree, in open sections, and the header has the whole trail: but once for  *)
(* each time the page was highlighted.                                       *)
PageHighlighted ==
    /\ trees.selected = {PageNode} \intersect trees.nodes
    /\ trees.expanded = IF trees.selected = {} THEN {} ELSE ToSet(Ancestors[PageNode])
    /\ \A n \in trees.nodes : TreeParent[n] \in trees.nodes \union Trees
    /\ Len(trees.crumbs) = trees.lit * Len(Ancestors[PageNode])
    /\ \A i \in DOMAIN trees.crumbs :
         trees.crumbs[i] = Ancestors[PageNode][1 + ((i - 1) % Len(Ancestors[PageNode]))]

(* A namespace is filled at most once and before it opens, and at rest it is *)
(* displayed exactly if it is marked as open.                                *)
NamespacesHonest ==
    \A n \in Namespaces :
        /\ ref.filled[n] <= 1
        /\ n \in ref.open \union ref.shown => ref.filled[n] = 1
        /\ ref.flips[n] = 0 => (n \in ref.open) = (n \in ref.shown)
=============================================================================
