----------------------------- MODULE DocSlides -----------------------------
(***************************************************************************)
(* The widgets of the documentation site that show one of several things   *)
(* at a time (templates-sdk/assets/js/docs.js): the slide show and the     *)
(* tabbed list with their animations, the touch carousel, the full screen  *)
(* carousel, the tab carousel with one animation queue per tab, and the    *)
(* tabs that may all be closed.  Each widget keeps its state in a variable *)
(* of its own; a timer or the end of an animation is an action, so that a  *)
(* user's click may fall before or after it.  The text of a slide, its     *)
(* size and the easing of an animation are left out.                       *)
(***************************************************************************)
EXTENDS Integers, Sequences, FiniteSets

CONSTANTS
    Slides,     \* number of slides, frames, sections or tabs of a widget
    Scroll,     \* the option "scroll" of the slide show: slides per step
    MaxClicks   \* bound on what the user does

ASSUME SlidesAssumption == Slides \in Nat \ {0} /\ Scroll \in Nat \ {0}
                           /\ Scroll <= Slides /\ MaxClicks \in Nat

Positions == 0 .. Slides - 1

VARIABLES
    show,     \* dacSlideshow
    list,     \* dacTabbedList
    carousel, \* DacCarousel
    screens,  \* the full screen carousel: the visible sections
    strip,    \* the tab carousel
    tabs      \* Tabs

slidesVars == <<show, list, carousel, screens, strip, tabs>>
-----------------------------------------------------------------------------
(* dacSlideshow.  `off' is the arrow that is greyed out. *)

ShowAt(auto, start) ==
    [auto |-> auto, curr |-> start, running |-> FALSE, timer |-> auto,
     paused |-> FALSE, dot |-> start, off |-> "none", clicks |-> 0]

ShowInit == \E auto \in BOOLEAN, start \in Positions : show = ShowAt(auto, start)

startRotateTimer(s) == [s EXCEPT !.timer = TRUE, !.paused = FALSE]
pauseRotateTimer(s) == [s EXCEPT !.timer = FALSE, !.paused = TRUE]

Wrapped(to) == IF to < 0 THEN Slides - 1 ELSE IF to > Slides - 1 THEN 0 ELSE to

(* A slip: a show that is moving loses its timer.                           *)
ShowGoStops(s, to) ==
    LET t == Wrapped(to)
    IN  IF s.running THEN [s EXCEPT !.timer = FALSE]
        ELSE startRotateTimer([s EXCEPT !.curr = t, !.running = TRUE, !.dot = t])

(* A slide show that is moving ignores the request but restarts its timer. *)
ShowGo(s, to) ==
    LET t == Wrapped(to)
        moved == IF s.running THEN s
                 ELSE [s EXCEPT !.curr = t, !.running = TRUE, !.dot = t,
                                !.off = IF t - Scroll < 0 THEN "prev"
                                        ELSE IF t + Scroll > Slides THEN "next" ELSE "none"]
    IN  IF s.auto THEN startRotateTimer(moved) ELSE moved

ShowClick ==
    /\ show.clicks < MaxClicks
    /\ \/ \E i \in Positions : show' = [ShowGo(show, i) EXCEPT !.clicks = @ + 1]
       \/ show' = [ShowGo(show, show.curr - Scroll) EXCEPT !.clicks = @ + 1]
       \/ show' = [ShowGo(show, show.curr + Scroll) EXCEPT !.clicks = @ + 1]
       \/ /\ show.paused
          /\ show' = [startRotateTimer(show) EXCEPT !.clicks = @ + 1]
       \/ /\ ~show.paused
          /\ show' = [pauseRotateTimer(show) EXCEPT !.clicks = @ + 1]

ShowTick ==
    /\ show.timer
    /\ show' = ShowGo(show, IF show.curr = Slides - 1 THEN 0 ELSE show.curr + Scroll)

ShowSettle == show.running /\ show' = [show EXCEPT !.running = FALSE]

ShowNext == ShowClick \/ ShowTick \/ ShowSettle
-----------------------------------------------------------------------------
(* dacTabbedList *)

ListInit == list = [curr |-> 0, running |-> FALSE, active |-> 0, clicks |-> 0]

ListClick ==
    /\ list.clicks < MaxClicks
    /\ \E i \in Positions :
           list' = IF list.running THEN [list EXCEPT !.clicks = @ + 1]
                   ELSE [curr |-> i, running |-> TRUE, active |-> i, clicks |-> list.clicks + 1]

ListSettle == list.running /\ list' = [list EXCEPT !.running = FALSE]

ListNext == ListClick \/ ListSettle
-----------------------------------------------------------------------------
(* DacCarousel.  The classes "active" and "out" of the frames, the active  *)
(* dot, the rotation timer (its identifier is set, and it is still to      *)
(* fire) and the horizontal positions at which the touch began and last    *)
(* moved, in units of the swipe threshold.                                 *)

CarouselInit ==
    carousel = [current |-> 0, active |-> {0}, out |-> {}, dot |-> 0,
                timer |-> FALSE, due |-> FALSE, from |-> 0, last |-> 0, clicks |-> 0]

Frame(next) == IF next >= Slides THEN next - Slides ELSE IF next < 0 THEN next + Slides ELSE next

Toggled(set, x) == IF x \in set THEN set \ {x} ELSE set \union {x}

(* A slip: the frame that comes back is not cleared of its class "out".     *)
CarouselGoOut(c, next) ==
    LET n == Frame(next)
    IN  [c EXCEPT !.current = n, !.dot = n, !.out = @ \union {c.current},
                  !.active = Toggled(Toggled(@, c.current), n)]

CarouselGo(c, next) ==
    LET n == Frame(next)
    IN  IF n = c.current THEN c
        ELSE [c EXCEPT !.current = n, !.dot = n,
                       !.active = Toggled(Toggled(@, c.current), n),
                       !.out = Toggled(@ \ {n}, c.current)]

(* Pointing at the carousel stops the timer, leaving it starts it. *)
CarouselHover ==
    /\ carousel.clicks < MaxClicks
    /\ carousel' = [carousel EXCEPT !.timer = FALSE, !.due = FALSE, !.clicks = @ + 1]

CarouselUnhover ==
    /\ carousel.clicks < MaxClicks
    /\ carousel' = IF carousel.timer THEN [carousel EXCEPT !.clicks = @ + 1]
                   ELSE [carousel EXCEPT !.timer = TRUE, !.due = TRUE, !.clicks = @ + 1]

(* The timer is not repeated, and its identifier stays set when it fires. *)
CarouselTick ==
    /\ carousel.due
    /\ carousel' = [CarouselGo(carousel, carousel.current + 1) EXCEPT !.due = FALSE]

CarouselClick ==
    /\ carousel.clicks < MaxClicks
    /\ \E next \in Positions \union {carousel.current - 1, carousel.current + 1} :
           carousel' = [CarouselGo(carousel, next) EXCEPT !.clicks = @ + 1]

(* A touch: it begins, it may move, and its end compares the last move with *)
(* the beginning, whichever touch that move belonged to.                    *)
CarouselTouch ==
    /\ carousel.clicks < MaxClicks
    /\ \E from \in 0 .. 2, moves \in BOOLEAN, to \in 0 .. 2 :
           LET last == IF moves THEN to ELSE carousel.last
               touched == [carousel EXCEPT !.from = from, !.last = last, !.clicks = @ + 1]
           IN  carousel' = IF last > from THEN CarouselGo(touched, carousel.current - 1)
                           ELSE IF last < from THEN CarouselGo(touched, carousel.current + 1)
                           ELSE touched

CarouselNext ==
    \/ CarouselHover \/ CarouselUnhover \/ CarouselTick \/ CarouselClick \/ CarouselTouch
-----------------------------------------------------------------------------
(* The full screen carousel.  The previous arrow takes every section but    *)
(* the first one to the first.                                              *)

ScreensInit == screens = [cur |-> 0, shown |-> {0}]

ScreensTo(index) ==
    screens' = [cur |-> index, shown |-> (screens.shown \ {screens.cur}) \union {index}]

ScreensNext ==
    /\ Slides > 1
    /\ \/ ScreensTo(IF screens.cur + 1 >= Slides THEN 0 ELSE screens.cur + 1)
       \/ ScreensTo(IF screens.cur - 1 < 0 THEN Slides - 1 ELSE 0)
-----------------------------------------------------------------------------
(* The tab carousel.  Each tab has a position (0 is in view) and a queue of  *)
(* animations, each the position it ends at; setting the position of a tab   *)
(* that is being animated does not outlive the animation.                    *)

StripInit ==
    strip = [cur |-> 0, left |-> [i \in Positions |-> IF i > 0 THEN 1 ELSE 0],
             queue |-> [i \in Positions |-> <<>>], light |-> 0, lights |-> <<>>, clicks |-> 0]

transitionWidget(to) ==
    LET dir == IF to > strip.cur THEN 1 ELSE -1
    IN  strip' = [strip EXCEPT
                    !.cur = to, !.clicks = @ + 1, !.left[to] = dir,
                    !.queue = [strip.queue EXCEPT ![strip.cur] = Append(@, -dir), ![to] = Append(@, 0)],
                    !.lights = Append(@, to)]

StripClick ==
    /\ strip.clicks < MaxClicks
    /\ \E to \in Positions \ {strip.cur} : transitionWidget(to)

StripSettle ==
    \/ \E i \in Positions :
           /\ strip.queue[i] # <<>>
           /\ strip' = [strip EXCEPT !.left[i] = Head(strip.queue[i]), !.queue[i] = Tail(@)]
    \/ /\ strip.lights # <<>>
       /\ strip' = [strip EXCEPT !.light = Head(strip.lights), !.lights = Tail(@)]

StripNext == StripClick \/ StripSettle
-----------------------------------------------------------------------------
(* Tabs: a click on the active tab closes it.  `items' and `views' are the  *)
(* tabs and the views with the active class.                                *)

TabsInit == tabs = [items |-> {0}, views |-> {0}]

changeTabs(i) ==
    tabs' = IF i \in tabs.items
            THEN [items |-> tabs.items \ {i}, views |-> tabs.views \ {i}]
            ELSE [items |-> {i}, views |-> {i}]

TabsNext == \E i \in Positions : changeTabs(i)
-----------------------------------------------------------------------------
(* Whatever the order of clicks, timers and ends of animations, a widget    *)
(* shows one thing, and what marks it as the chosen one agrees: the dot of  *)
(* a slide show and of a carousel, the tab of a list, the view of a tab and *)
(* the highlight of the tab carousel once its animations have ended.  A     *)
(* frame of the carousel is never sliding out while it is the active one.   *)
OneThingShown ==
    /\ show.curr \in Positions /\ show.dot = show.curr
    /\ list.active = list.curr
    /\ carousel.active = {carousel.current} /\ carousel.dot = carousel.current
    /\ carousel.current \notin carousel.out
    /\ screens.shown = {screens.cur}
    /\ (\A i \in Positions : strip.queue[i] = <<>>) /\ strip.lights = <<>> =>
           {i \in Positions : strip.left[i] = 0} = {strip.cur} /\ strip.light = strip.cur
    /\ tabs.items = tabs.views /\ Cardinality(tabs.items) <= 1

(* A slide show whose pause button says it is paused has no timer, and one  *)
(* with automatic rotation that does not say so has one.                    *)
PauseHonest ==
    /\ show.paused => ~show.timer
    /\ show.auto /\ ~show.paused => show.timer

(* Automatic rotation passes through the first slide again and again,       *)
(* unless the user leaves the show paused.                                  *)
Rotates == show.auto => (<>[](show.paused) \/ []<>(show.curr = 0))
=============================================================================
