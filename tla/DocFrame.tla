----------------------------- MODULE DocFrame ------------------------------
(***************************************************************************)
(* What stands around a page of the older templates: the scroll bars of    *)
(* the navigation, which are redrawn after a delay, the header that sticks *)
(* to the window and its quick navigation, and the pane of search results, *)
(* which follows the address (templates-ndk/assets/js/docs.js; the same    *)
(* functions stand in templates-sac), and the strip of slides of the old   *)
(* home page (templates-pdk/assets/carousel.js).                           *)
(***************************************************************************)
EXTENDS Integers, Sequences

CONSTANTS
    slideTotal,    \* slides of the strip
    slidesAtOnce,  \* of which so many are in view
    MaxEvents      \* bound on what the user does to each part

ASSUME FrameAssumption ==
    /\ slidesAtOnce \in {1, 3, 5}          \* "requires odd number"
    /\ slideTotal \in Nat /\ slideTotal > slidesAtOnce
    /\ MaxEvents \in Nat

VARIABLES
    bars,     \* the scroll bars
    header,   \* the sticky header and the quick navigation
    pane,     \* the pane of search results
    apps      \* the strip of slides

frameVars == <<bars, header, pane, apps>>
-----------------------------------------------------------------------------
(* The scroll bars.  `updateScrollbars' and `updateFromResize' are the flags *)
(* of that name, `timers' the calls scheduled, `ready' says that the panes   *)
(* have their scroll bars, `retries' that reInitScrollbars comes back for    *)
(* those without, and `stale' that the height changed since they were drawn. *)

BarsInit ==
    \E ready \in BOOLEAN :
        bars = [updateScrollbars |-> FALSE, updateFromResize |-> FALSE, timers |-> 0,
                ready |-> ready, retries |-> FALSE, stale |-> FALSE, events |-> 0]

BarsRest ==
    bars = [updateScrollbars |-> FALSE, updateFromResize |-> FALSE, timers |-> 0,
            ready |-> TRUE, retries |-> FALSE, stale |-> FALSE, events |-> 0]

reInitScrollbars(b) ==
    IF b.ready THEN [b EXCEPT !.stale = FALSE] ELSE [b EXCEPT !.retries = TRUE]

delayedReInitScrollbars(b) ==
    IF b.updateScrollbars /\ b.updateFromResize THEN [b EXCEPT !.updateFromResize = FALSE]
    ELSE IF b.updateScrollbars THEN [reInitScrollbars(b) EXCEPT !.updateScrollbars = FALSE]
    ELSE [b EXCEPT !.updateScrollbars = TRUE, !.updateFromResize = FALSE, !.timers = @ + 1]

(* The height changes: by scrolling or for the full screen with a delay, by  *)
(* dragging the bar or folding the navigation at once.                       *)
resizeNav ==
    /\ bars.events < MaxEvents
    /\ \E delay \in BOOLEAN :
         LET b == [bars EXCEPT !.stale = TRUE, !.events = @ + 1]
         IN  bars' = IF delay THEN delayedReInitScrollbars([b EXCEPT !.updateFromResize = TRUE])
                     ELSE reInitScrollbars(b)

BarsTimer ==
    /\ bars.timers > 0
    /\ bars' = delayedReInitScrollbars([bars EXCEPT !.timers = @ - 1])

BarsRetry == bars.retries /\ bars' = reInitScrollbars([bars EXCEPT !.retries = FALSE])

PanesReady == ~bars.ready /\ bars' = [bars EXCEPT !.ready = TRUE]

BarsNext == resizeNav \/ BarsTimer \/ BarsRetry \/ PanesReady
-----------------------------------------------------------------------------
(* The header.  `top' says that the window is scrolled beyond the site's     *)
(* header and `short' that the text is shorter than the navigation; `fading' *)
(* are the animations of the sticky header, `menu' its class on the menu;    *)
(* `open' is quicknav_open, `quick' whether the quick navigation is          *)
(* displayed, `wrap' its class on the header and `folding' that it is being  *)
(* folded.                                                                   *)

HeaderInit ==
    \E short \in BOOLEAN :
        header = [top |-> FALSE, short |-> short, sticky |-> FALSE, displayed |-> FALSE, menu |-> FALSE,
                  fading |-> <<>>, open |-> FALSE, quick |-> FALSE, wrap |-> FALSE, folding |-> FALSE,
                  events |-> 0]

HeaderRest ==
    header = [top |-> FALSE, short |-> FALSE, sticky |-> FALSE, displayed |-> FALSE, menu |-> FALSE,
              fading |-> <<>>, open |-> FALSE, quick |-> FALSE, wrap |-> FALSE, folding |-> FALSE,
              events |-> 0]

UseHeader(h) == [h EXCEPT !.events = @ + 1]

shouldBeSticky(h) == h.top /\ ~h.short

(* The handler of the scroll event.                                          *)
Scrolled(h) ==
    IF h.sticky = shouldBeSticky(h) THEN h
    ELSE [h EXCEPT !.sticky = ~@, !.menu = ~h.sticky, !.fading = Append(@, IF h.sticky THEN "out" ELSE "in")]

ScrollPage ==
    /\ header.events < MaxEvents
    /\ \E top \in BOOLEAN : header' = Scrolled([UseHeader(header) EXCEPT !.top = top])

(* Text comes or goes (the results pane, an inherited table): without an     *)
(* event, the header follows when the page is scrolled next.                 *)
TextChanges ==
    /\ header.events < MaxEvents
    /\ header' = [UseHeader(header) EXCEPT !.short = ~@]

HeaderFades ==
    /\ header.fading # <<>>
    /\ header' = [header EXCEPT !.fading = Tail(@), !.displayed = Head(header.fading) = "in"]

(* A slip: the fold that is under way is not stopped.                        *)
expandOnTop(h) == [h EXCEPT !.open = TRUE, !.wrap = TRUE, !.quick = TRUE]

(* The button: what is being animated stops where it is.                     *)
expand(h) == [h EXCEPT !.open = TRUE, !.wrap = TRUE, !.quick = TRUE, !.folding = FALSE]
collapse(h) == [h EXCEPT !.open = FALSE, !.folding = TRUE]

QuicknavClick ==
    /\ header.events < MaxEvents
    /\ header' = IF header.open THEN collapse(UseHeader(header)) ELSE expand(UseHeader(header))

QuicknavFolded ==
    /\ header.folding
    /\ header' = [header EXCEPT !.folding = FALSE, !.quick = FALSE, !.wrap = FALSE]

HeaderNext == ScrollPage \/ TextChanges \/ HeaderFades \/ QuicknavClick \/ QuicknavFolded
-----------------------------------------------------------------------------
(* The pane of results.  `hash' is what the address asks for, `changes' the  *)
(* events of its history that are still to be handled, `shown' whether the   *)
(* pane is displayed and `slides' its animations.                            *)

Asks == {"nothing", "query", "other query", "anchor"}
HasQuery(hash) == hash \in {"query", "other query"}

ResultsInit ==
    \E hash \in Asks :
        pane = [hash |-> hash, loaded |-> FALSE, changes |-> 0, shown |-> FALSE, slides |-> <<>>, events |-> 0]

ResultsRest ==
    pane = [hash |-> "nothing", loaded |-> TRUE, changes |-> 0, shown |-> FALSE, slides |-> <<>>, events |-> 0]

UseResults(r) == [r EXCEPT !.events = @ + 1]
GoTo(r, hash) == [r EXCEPT !.hash = hash, !.changes = IF r.hash = hash THEN @ ELSE @ + 1]

(* An animation to where the pane will be anyway does nothing; a pane that   *)
(* slides down is displayed from the start.                                  *)
Eventually(r) == IF r.slides = <<>> THEN r.shown ELSE r.slides[Len(r.slides)] = "down"

SlideDown(r) ==
    IF Eventually(r) THEN r ELSE [r EXCEPT !.slides = Append(@, "down"), !.shown = @ \/ r.slides = <<>>]
SlideUp(r) == IF Eventually(r) THEN [r EXCEPT !.slides = Append(@, "up")] ELSE r

(* The search library is there: google.setOnLoadCallback.                    *)
onLoadCallback ==
    /\ ~pane.loaded
    /\ pane' = IF HasQuery(pane.hash) THEN [SlideDown(pane) EXCEPT !.loaded = TRUE]
               ELSE [pane EXCEPT !.loaded = TRUE, !.shown = FALSE]

submit_search ==
    /\ pane.loaded /\ pane.events < MaxEvents
    /\ \E query \in {"query", "other query"} :
         pane' = SlideDown(GoTo(UseResults(pane), query))

hideResults(r) == GoTo(SlideUp(r), "nothing")

CloseClick ==
    /\ pane.events < MaxEvents
    /\ pane' = hideResults(UseResults(pane))

(* The back button, or a link to a place on the page.                        *)
Navigate ==
    /\ pane.loaded /\ pane.events < MaxEvents
    /\ \E hash \in Asks : pane' = GoTo(UseResults(pane), hash)

HashChanged(r) ==
    IF HasQuery(r.hash) THEN SlideDown(r)
    ELSE IF r.shown THEN hideResults(r) ELSE r

hashchange ==
    /\ pane.changes > 0
    /\ pane' = HashChanged([pane EXCEPT !.changes = @ - 1])

PaneSlides ==
    /\ pane.slides # <<>>
    /\ LET rest == Tail(pane.slides)
       IN  pane' = [pane EXCEPT !.slides = rest,
                      !.shown = Head(pane.slides) = "down" \/ (rest # <<>> /\ Head(rest) = "down")]

ResultsNext == onLoadCallback \/ submit_search \/ CloseClick \/ Navigate \/ hashchange \/ PaneSlides
-----------------------------------------------------------------------------
(* The strip, in widths of a slide: `position' is how far it is moved to the *)
(* left and `goal' where it is going.  The last frame of a movement by one   *)
(* width is less than half a pixel off and is rounded to the goal.           *)

rightScrollLimit == slideTotal - slidesAtOnce
centeringPoint == (slidesAtOnce + 1) \div 2

(* makeSlideStrip: the position that has a slide in the middle.               *)
originPosition(i) ==
    IF i <= centeringPoint - 1 THEN 0
    ELSE IF i >= slideTotal - centeringPoint + 1 THEN rightScrollLimit
    ELSE i - centeringPoint + 1

AppsInit ==
    apps = [position |-> 0, goal |-> 0, is_animating |-> FALSE, left |-> FALSE, right |-> TRUE,
             selected |-> 0, events |-> 0]

(* The arrows are set for the position that the movement is to end in.        *)
arrowChange(s, to) == [s EXCEPT !.right = to < rightScrollLimit, !.left = to > 0]

animateSlide(s, to) ==
    IF s.is_animating THEN s
    ELSE [arrowChange(s, to) EXCEPT !.is_animating = TRUE, !.goal = to]

UseApps(s) == [s EXCEPT !.events = @ + 1]

pageArrow ==
    /\ apps.events < MaxEvents
    /\ \/ apps.right /\ apps' = animateSlide(UseApps(apps), apps.position + 1)
       \/ apps.left /\ apps' = animateSlide(UseApps(apps), apps.position - 1)

(* A click on a slide in view selects it, and moves it to the middle unless  *)
(* the strip is moving.                                                     *)
showPreview ==
    /\ apps.events < MaxEvents
    /\ \E i \in apps.position .. apps.position + slidesAtOnce - 1 :
         apps' = [animateSlide(UseApps(apps), originPosition(i)) EXCEPT !.selected = i]

(* While it moves, the position is somewhere on the way.                      *)
AppsArrives ==
    /\ apps.is_animating
    /\ apps' = [apps EXCEPT !.position = apps.goal, !.is_animating = FALSE]

AppsNext == pageArrow \/ showPreview \/ AppsArrives
-----------------------------------------------------------------------------
(* However often the navigation is resized, and however early: a height that *)
(* the scroll bars do not have is followed by a redraw, and one redraw is    *)
(* scheduled at a time.                                                      *)
RedrawScheduled ==
    /\ bars.timers = IF bars.updateScrollbars THEN 1 ELSE 0
    /\ bars.stale => bars.timers = 1 \/ bars.retries

(* When nothing moves, the sticky header is on display exactly when the code *)
(* takes it to be, its menu too, and the quick navigation exactly when it is *)
(* open; an open one is never hidden.                                        *)
HeaderHonest ==
    /\ header.fading = <<>> => header.displayed = header.sticky
    /\ header.menu = header.sticky
    /\ header.open => header.quick /\ header.wrap
    /\ ~header.open /\ ~header.folding => ~header.quick /\ ~header.wrap

(* When nothing moves and the history is handled, the results are on display *)
(* exactly when the address asks for a query.                                *)
PaneFollowsAddress ==
    pane.loaded /\ pane.slides = <<>> /\ pane.changes = 0 => pane.shown = HasQuery(pane.hash)

(* The strip never leaves its slides, and at rest an arrow is on exactly      *)
(* when there is a slide to be had that way, whatever was clicked on the way. *)
AppsInRange ==
    /\ apps.position \in 0 .. rightScrollLimit
    /\ ~apps.is_animating =>
         /\ apps.right = (apps.position < rightScrollLimit)
         /\ apps.left = (apps.position > 0)

(* The scroll bars, the header, the pane of results and the strip of slides  *)
(* are, at rest, where the events of the browser should have brought them.   *)
FrameHonest == RedrawScheduled /\ HeaderHonest /\ PaneFollowsAddress /\ AppsInRange
=============================================================================
