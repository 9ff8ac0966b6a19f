----------------------------- MODULE DocProofs ------------------------------
(***************************************************************************)
(* The parts of a documentation page, proved for every order of the events *)
(* of the browser and every size of what is on the page.                   *)
(*                                                                         *)
(* A session (PagesSpec) moves each of its parts by the steps of that part *)
(* or not at all (the lemmas PagesMove...).  For each part: the states it  *)
(* can be in (a predicate on its record, ...Good), what the operators of   *)
(* its module make of such a state, and that every step ends in one.  What *)
(* is stated of the part follows from the predicate.  So are proved here   *)
(* the frame, the slide shows, the suggestions under the search field, the *)
(* lists of resources and what a search finds; the other parts are in      *)
(* DocWidgetProofs.                                                        *)
(*                                                                         *)
(* The search overlay: whatever the user types, clicks and goes back to,   *)
(* in whatever order timers, events of the address and answers come, the   *)
(* page behind is not left locked, the address does not name another query *)
(* than the one that was searched, and at rest the results on display are  *)
(* its results.                                                            *)
(***************************************************************************)
EXTENDS DocPages, DocSearch, SequenceTheorems, FiniteSetTheorems, FunctionTheorems,
        WellFoundedInduction, DataProofs, TLAPS
-----------------------------------------------------------------------------
(* The frame of a page.                                                    *)

BarsType == [updateScrollbars : BOOLEAN, updateFromResize : BOOLEAN, timers : Nat,
             ready : BOOLEAN, retries : BOOLEAN, stale : BOOLEAN, events : Nat]

(* The flag that a redraw is waited for is the timer, and the other flag is  *)
(* only up while the height is being changed.                                *)
BarsInv ==
    /\ bars \in BarsType
    /\ ~bars.updateFromResize
    /\ RedrawScheduled

(* A redraw leaves no height behind that will not be retried.               *)
LEMMA Redrawn ==
    ASSUME NEW b \in BarsType
    PROVE  /\ reInitScrollbars(b) \in BarsType
           /\ reInitScrollbars(b).updateScrollbars = b.updateScrollbars
           /\ reInitScrollbars(b).updateFromResize = b.updateFromResize
           /\ reInitScrollbars(b).timers = b.timers
           /\ reInitScrollbars(b).stale => reInitScrollbars(b).retries
<1>1. CASE b.ready
    BY <1>1 DEF reInitScrollbars, BarsType
<1>2. CASE ~b.ready
    BY <1>2 DEF reInitScrollbars, BarsType
<1>3. QED
    BY <1>1, <1>2

(* A call of the timer, or one while the height is being changed: whatever   *)
(* the flags were, a height still to be drawn has its timer afterwards.      *)
LEMMA Delayed ==
    ASSUME NEW b \in BarsType, 
           b.timers = 0 \/ (b.updateScrollbars /\ b.updateFromResize /\ b.timers = 1),
           b.updateFromResize => (b.timers = IF b.updateScrollbars THEN 1 ELSE 0)
    PROVE  LET d == delayedReInitScrollbars(b) IN 
           /\ d \in BarsType
           /\ ~d.updateFromResize
           /\ d.timers = IF d.updateScrollbars THEN 1 ELSE 0
           /\ d.stale => d.timers = 1 \/ d.retries
<1> DEFINE r == reInitScrollbars(b)
<1>1. CASE b.updateScrollbars /\ b.updateFromResize
    BY <1>1 DEF delayedReInitScrollbars, BarsType
<1>2. CASE b.updateScrollbars /\ ~b.updateFromResize
  <2>1. delayedReInitScrollbars(b) = [r EXCEPT !.updateScrollbars = FALSE]
    BY <1>2 DEF delayedReInitScrollbars
  <2>2. /\ r \in BarsType
        /\ ~r.updateFromResize
        /\ r.timers = 0
        /\ r.stale => r.retries
    BY <1>2, Redrawn
  <2> HIDE DEF r
  <2>3. QED
    BY <2>1, <2>2 DEF BarsType
<1>3. CASE ~b.updateScrollbars
  <2> DEFINE d == [b EXCEPT !.updateScrollbars = TRUE, !.updateFromResize = FALSE, !.timers = @ + 1]
  <2>1. b.timers = 0 /\ b.timers + 1 \in Nat
    BY <1>3
  <2>2. d \in BarsType
    BY <2>1 DEF BarsType
  <2>3. d.timers = 1
    BY <2>1 DEF BarsType
  <2>4. d.updateScrollbars
    BY DEF BarsType
  <2>5. ~d.updateFromResize
    BY DEF BarsType
  <2>6. delayedReInitScrollbars(b) = d
    BY <1>3 DEF delayedReInitScrollbars
  <2> HIDE DEF d
  <2>7. QED
    BY <2>2, <2>3, <2>4, <2>5, <2>6
<1>4. QED
    BY <1>1, <1>2, <1>3

LEMMA BarsKept == BarsInv /\ BarsNext => BarsInv'
<1> SUFFICES ASSUME BarsInv, BarsNext PROVE BarsInv'
    OBVIOUS
<1>0. /\ bars \in BarsType /\ ~bars.updateFromResize
      /\ bars.timers = IF bars.updateScrollbars THEN 1 ELSE 0
      /\ bars.stale => bars.timers = 1 \/ bars.retries
    BY DEF BarsInv, RedrawScheduled
<1> SUFFICES /\ bars' \in BarsType /\ ~bars'.updateFromResize
             /\ bars'.timers = IF bars'.updateScrollbars THEN 1 ELSE 0
             /\ bars'.stale => bars'.timers = 1 \/ bars'.retries
    BY DEF BarsInv, RedrawScheduled, BarsType
<1>1. CASE resizeNav
  <2> DEFINE b == [bars EXCEPT !.stale = TRUE, !.events = @ + 1]
             c == [b EXCEPT !.updateFromResize = TRUE]
  <2>1. PICK delay \in BOOLEAN : bars' = IF delay THEN delayedReInitScrollbars(c) ELSE reInitScrollbars(b)
    BY <1>1 DEF resizeNav
  <2>2. b \in BarsType /\ b.updateScrollbars = bars.updateScrollbars /\ b.timers = bars.timers
        /\ ~b.updateFromResize
    <3>0. bars.events + 1 \in Nat
      BY <1>0 DEF BarsType
    <3>1. b \in BarsType
      BY <1>0, <3>0 DEF BarsType
    <3>2. b.updateScrollbars = bars.updateScrollbars
      BY <1>0 DEF BarsType
    <3>3. b.timers = bars.timers
      BY <1>0 DEF BarsType
    <3>4. ~b.updateFromResize
      BY <1>0 DEF BarsType
    <3>5. QED
      BY <3>1, <3>2, <3>3, <3>4
  <2> HIDE DEF b
  <2>3. c \in BarsType /\ c.updateScrollbars = bars.updateScrollbars /\ c.timers = bars.timers
        /\ c.updateFromResize
    <3>1. c \in BarsType
      BY <2>2 DEF BarsType
    <3>2. c.updateScrollbars = b.updateScrollbars
      BY <2>2 DEF BarsType
    <3>3. c.timers = b.timers
      BY <2>2 DEF BarsType
    <3>4. c.updateFromResize
      BY <2>2 DEF BarsType
    <3>5. QED
      BY <2>2, <3>1, <3>2, <3>3, <3>4
  <2> HIDE DEF c
  <2>4. CASE delay
    <3>1. bars' = delayedReInitScrollbars(c)
      BY <2>1, <2>4
    <3>2. c.timers = 0 \/ (c.updateScrollbars /\ c.updateFromResize /\ c.timers = 1)
      BY <1>0, <2>3
    <3>3. c.updateFromResize => (c.timers = IF c.updateScrollbars THEN 1 ELSE 0)
      BY <1>0, <2>3
    <3>4. QED
      BY <2>3, <3>1, <3>2, <3>3, Delayed
  <2>5. CASE ~delay
    <3>1. bars' = reInitScrollbars(b)
      BY <2>1, <2>5
    <3>2. QED
      BY <1>0, <2>2, <3>1, Redrawn
  <2>6. QED
    BY <2>1, <2>4, <2>5
<1>2. CASE BarsTimer
  <2> DEFINE b == [bars EXCEPT !.timers = @ - 1]
  <2>1. b \in BarsType /\ b.timers = 0 /\ ~b.updateFromResize
    BY <1>0, <1>2 DEF BarsTimer, BarsType
  <2>2. bars' = delayedReInitScrollbars(b)
    BY <1>2 DEF BarsTimer
  <2> HIDE DEF b
  <2>3. QED
    BY <2>1, <2>2, Delayed
<1>3. CASE BarsRetry
  <2> DEFINE b == [bars EXCEPT !.retries = FALSE]
  <2>1. b \in BarsType /\ b.timers = bars.timers /\ ~b.updateFromResize
        /\ b.updateScrollbars = bars.updateScrollbars
    BY <1>0 DEF BarsType
  <2>2. bars' = reInitScrollbars(b)
    BY <1>3 DEF BarsRetry
  <2> HIDE DEF b
  <2>3. QED
    BY <1>0, <2>1, <2>2, Redrawn
<1>4. CASE PanesReady
    BY <1>0, <1>4 DEF PanesReady, BarsType
<1>5. QED
    BY <1>1, <1>2, <1>3, <1>4 DEF BarsNext
-----------------------------------------------------------------------------
Fades == {"in", "out"}

HeaderType ==
    [top : BOOLEAN, short : BOOLEAN, sticky : BOOLEAN, displayed : BOOLEAN, menu : BOOLEAN,
     fading : Seq(Fades), open : BOOLEAN, quick : BOOLEAN, wrap : BOOLEAN, folding : BOOLEAN,
     events : Nat]

(* The last of the animations ends where the code takes the header to be.    *)
StickyGood(h) ==
    /\ h.fading # <<>> => h.sticky = (h.fading[Len(h.fading)] = "in")
    /\ h.fading = <<>> => h.displayed = h.sticky
    /\ h.menu = h.sticky

QuickGood(h) ==
    /\ h.open => h.quick /\ h.wrap /\ ~h.folding
    /\ ~h.open /\ ~h.folding => ~h.quick /\ ~h.wrap

HeaderGood(h) == h \in HeaderType /\ StickyGood(h) /\ QuickGood(h)

SameSticky(h, k) ==
    h.fading = k.fading /\ h.sticky = k.sticky /\ h.displayed = k.displayed /\ h.menu = k.menu
SameQuick(h, k) ==
    h.open = k.open /\ h.quick = k.quick /\ h.wrap = k.wrap /\ h.folding = k.folding

LEMMA UsedHeader ==
    ASSUME NEW h \in HeaderType, NEW t \in BOOLEAN
    PROVE  /\ UseHeader(h) \in HeaderType
           /\ SameSticky(UseHeader(h), h) /\ SameQuick(UseHeader(h), h)
           /\ [h EXCEPT !.top = t] \in HeaderType
           /\ SameSticky([h EXCEPT !.top = t], h) /\ SameQuick([h EXCEPT !.top = t], h)
<1>1. UseHeader(h) \in HeaderType
    <2>1. h.events + 1 \in Nat
        BY DEF HeaderType
    <2>2. QED
        BY <2>1 DEF UseHeader, HeaderType
<1>2. SameSticky(UseHeader(h), h)
    BY DEF UseHeader, HeaderType, SameSticky
<1>3. SameQuick(UseHeader(h), h)
    BY DEF UseHeader, HeaderType, SameQuick
<1>4. [h EXCEPT !.top = t] \in HeaderType
    BY DEF HeaderType
<1>5. SameSticky([h EXCEPT !.top = t], h)
    BY DEF HeaderType, SameSticky
<1>6. SameQuick([h EXCEPT !.top = t], h)
    BY DEF HeaderType, SameQuick
<1>7. QED
    BY <1>1, <1>2, <1>3, <1>4, <1>5, <1>6

LEMMA ScrolledGood == ASSUME NEW h, HeaderGood(h) PROVE HeaderGood(Scrolled(h))
<1>1. CASE h.sticky = shouldBeSticky(h)
    BY <1>1 DEF Scrolled
<1>2. CASE h.sticky # shouldBeSticky(h)
  <2> DEFINE way == IF h.sticky THEN "out" ELSE "in"
             f == Append(h.fading, way)
             k == [h EXCEPT !.sticky = ~@, !.menu = ~h.sticky, !.fading = f]
  <2>0. h \in HeaderType /\ h.sticky \in BOOLEAN /\ h.fading \in Seq(Fades) /\ way \in Fades
    BY DEF HeaderGood, HeaderType, Fades
  <2>1. Scrolled(h) = k
    BY <1>2 DEF Scrolled
  <2>2. f \in Seq(Fades) /\ f # <<>> /\ f[Len(f)] = way
    <3> HIDE DEF way
    <3>1. QED
      BY <2>0, LastOfAppend
  <2>3. (f[Len(f)] = "in") = ~h.sticky
    <3> HIDE DEF f
    <3>1. QED
      BY <2>0, <2>2
  <2> HIDE DEF f, way
  <2>4. k \in HeaderType
    BY <2>0, <2>2 DEF HeaderType
  <2>5. k.fading = f
    BY <2>0 DEF HeaderType
  <2>6. k.sticky = ~h.sticky
    BY <2>0 DEF HeaderType
  <2>7. k.menu = ~h.sticky
    BY <2>0 DEF HeaderType
  <2>8. SameQuick(k, h)
    BY <2>0 DEF HeaderType, SameQuick
  <2> HIDE DEF k
  <2>9. StickyGood(k)
    BY <2>2, <2>3, <2>5, <2>6, <2>7 DEF StickyGood
  <2>10. QuickGood(k)
    BY <2>8 DEF SameQuick, QuickGood, HeaderGood
  <2>11. QED
    BY <2>1, <2>4, <2>9, <2>10 DEF HeaderGood
<1>3. QED
    BY <1>1, <1>2

LEMMA SameGood ==
    ASSUME NEW h, HeaderGood(h), NEW k \in HeaderType, SameSticky(k, h), SameQuick(k, h)
    PROVE  HeaderGood(k)
BY DEF HeaderGood, StickyGood, QuickGood, SameSticky, SameQuick

LEMMA HeaderKept == HeaderGood(header) /\ HeaderNext => HeaderGood(header')
<1> SUFFICES ASSUME HeaderGood(header), HeaderNext PROVE HeaderGood(header')
    OBVIOUS
<1>0. header \in HeaderType
    BY DEF HeaderGood
<1> DEFINE u == UseHeader(header)
<1>a. u \in HeaderType /\ HeaderGood(u)
    BY <1>0, UsedHeader, SameGood
<1>1. CASE ScrollPage
  <2>1. PICK top \in BOOLEAN : header' = Scrolled([u EXCEPT !.top = top])
    BY <1>1 DEF ScrollPage
  <2> HIDE DEF u
  <2>2. HeaderGood([u EXCEPT !.top = top])
    BY <1>a, UsedHeader, SameGood
  <2>3. QED
    BY <2>1, <2>2, ScrolledGood
<1>2. CASE TextChanges
  <2>1. header' = [u EXCEPT !.short = ~@]
    BY <1>2 DEF TextChanges
  <2> HIDE DEF u
  <2>2. header' \in HeaderType
    BY <1>a, <2>1 DEF HeaderType
  <2>3. SameSticky(header', u)
    BY <1>a, <2>1 DEF HeaderType, SameSticky
  <2>4. SameQuick(header', u)
    BY <1>a, <2>1 DEF HeaderType, SameQuick
  <2>5. QED
    BY <1>a, <2>2, <2>3, <2>4, SameGood
<1>3. CASE HeaderFades
  <2> DEFINE f == header.fading
             k == [header EXCEPT !.fading = Tail(f), !.displayed = Head(f) = "in"]
  <2>1. header' = k /\ f # <<>> /\ f \in Seq(Fades)
    BY <1>0, <1>3 DEF HeaderFades, HeaderType
  <2>2. /\ Tail(f) \in Seq(Fades)
        /\ Tail(f) = <<>> => f[Len(f)] = Head(f)
        /\ Tail(f) # <<>> => Tail(f)[Len(Tail(f))] = f[Len(f)]
    BY <2>1, LastOfTail
  <2>3. (Head(f) = "in") \in BOOLEAN
    OBVIOUS
  <2>4. k \in HeaderType
    BY <1>0, <2>2, <2>3 DEF HeaderType
  <2>5. k.fading = Tail(f)
    BY <1>0 DEF HeaderType
  <2>6. k.displayed = (Head(f) = "in")
    BY <1>0 DEF HeaderType
  <2>7. k.sticky = header.sticky /\ k.menu = header.menu
    BY <1>0 DEF HeaderType
  <2>8. SameQuick(k, header)
    BY <1>0 DEF HeaderType, SameQuick
  <2>9. header.sticky = (f[Len(f)] = "in") /\ header.menu = header.sticky
    BY <2>1 DEF HeaderGood, StickyGood
  <2> HIDE DEF k, f
  <2>10. StickyGood(k)
    <3>1. k.fading # <<>> => k.sticky = (k.fading[Len(k.fading)] = "in")
      BY <2>2, <2>5, <2>7, <2>9
    <3>2. k.fading = <<>> => k.displayed = k.sticky
      BY <2>2, <2>5, <2>6, <2>7, <2>9
    <3>3. QED
      BY <2>7, <2>9, <3>1, <3>2 DEF StickyGood
  <2>11. QuickGood(k)
    BY <2>8 DEF SameQuick, QuickGood, HeaderGood
  <2>12. QED
    BY <2>1, <2>4, <2>10, <2>11 DEF HeaderGood
<1>4. CASE QuicknavClick
  <2>1. header' = IF header.open THEN collapse(u) ELSE expand(u)
    BY <1>4 DEF QuicknavClick
  <2> HIDE DEF u
  <2>2. CASE header' = collapse(u) /\ u.open
    <3>1. header' \in HeaderType
      BY <1>a, <2>2 DEF collapse, HeaderType
    <3>2. SameSticky(header', u)
      BY <1>a, <2>2 DEF collapse, HeaderType, SameSticky
    <3>3. ~header'.open
      BY <1>a, <2>2 DEF collapse, HeaderType
    <3>4. header'.folding
      BY <1>a, <2>2 DEF collapse, HeaderType
    <3>5. QED
      BY <1>a, <3>1, <3>2, <3>3, <3>4 DEF SameSticky, HeaderGood, StickyGood, QuickGood
  <2>3. CASE header' = expand(u)
    <3>1. header' \in HeaderType
      BY <1>a, <2>3 DEF expand, HeaderType
    <3>2. SameSticky(header', u)
      BY <1>a, <2>3 DEF expand, HeaderType, SameSticky
    <3>3. header'.open
      BY <1>a, <2>3 DEF expand, HeaderType
    <3>4. header'.quick /\ header'.wrap
      BY <1>a, <2>3 DEF expand, HeaderType
    <3>5. ~header'.folding
      BY <1>a, <2>3 DEF expand, HeaderType
    <3>6. QED
      BY <1>a, <3>1, <3>2, <3>3, <3>4, <3>5 DEF SameSticky, HeaderGood, StickyGood, QuickGood
  <2>4. header.open = u.open
    BY <1>0, UsedHeader DEF SameQuick, u
  <2>5. QED
    BY <2>1, <2>2, <2>3, <2>4
<1>5. CASE QuicknavFolded
  <2>1. header' = [header EXCEPT !.folding = FALSE, !.quick = FALSE, !.wrap = FALSE] /\ ~header.open
    BY <1>5 DEF QuicknavFolded, HeaderGood, QuickGood
  <2>2. header' \in HeaderType
    BY <1>0, <2>1 DEF HeaderType
  <2>3. SameSticky(header', header)
    BY <1>0, <2>1 DEF HeaderType, SameSticky
  <2>4. header'.open = header.open
    BY <1>0, <2>1 DEF HeaderType
  <2>5. ~header'.quick /\ ~header'.wrap
    BY <1>0, <2>1 DEF HeaderType
  <2>6. QED
    BY <2>1, <2>2, <2>3, <2>4, <2>5 DEF SameSticky, HeaderGood, StickyGood, QuickGood
<1>6. QED
    BY <1>1, <1>2, <1>3, <1>4, <1>5 DEF HeaderNext
-----------------------------------------------------------------------------
Slidings == {"up", "down"}
ResultsType == [hash : Asks, loaded : BOOLEAN, changes : Nat, shown : BOOLEAN,
                slides : Seq(Slidings), events : Nat]

Alternating(slides) == \A i \in 1 .. Len(slides) - 1 : slides[i] # slides[i + 1]

(* What the animations rest on: they take turns, and the pane is displayed   *)
(* while there is one.                                                       *)
PaneGood(r) ==
    /\ r \in ResultsType
    /\ Alternating(r.slides)
    /\ r.slides # <<>> => r.shown

ResultsGood(r) ==
    /\ PaneGood(r)
    /\ ~r.loaded => ~r.shown /\ (r.changes > 0 => r.hash = "nothing")
    /\ r.loaded /\ r.changes = 0 => (Eventually(r) <=> HasQuery(r.hash))

SameAddress(r, q) == r.hash = q.hash /\ r.loaded = q.loaded /\ r.changes = q.changes
SamePane(r, q) == r.shown = q.shown /\ r.slides = q.slides

LEMMA AppendTakesTurns ==
    ASSUME NEW s \in Seq(Slidings), NEW x \in Slidings, Alternating(s),
           s # <<>> => s[Len(s)] # x
    PROVE  Alternating(Append(s, x))
<1> DEFINE t == Append(s, x)
<1>1. t \in Seq(Slidings) /\ Len(t) = Len(s) + 1 /\ t[Len(s) + 1] = x
      /\ \A i \in 1 .. Len(s) : t[i] = s[i]
    OBVIOUS
<1>2. ASSUME NEW i \in 1 .. Len(t) - 1 PROVE t[i] # t[i + 1]
  <2>1. CASE i < Len(s)
    <3>1. i \in 1 .. Len(s) - 1 /\ i \in 1 .. Len(s) /\ i + 1 \in 1 .. Len(s)
      BY <2>1
    <3>2. QED
      BY <1>1, <3>1 DEF Alternating
  <2>2. CASE i = Len(s)
    <3>1. s # <<>> /\ i \in 1 .. Len(s)
      BY <2>2
    <3>2. QED
      BY <1>1, <2>2, <3>1
  <2>3. i \in Nat /\ i <= Len(s)
    BY <1>1
  <2>4. QED
    BY <2>1, <2>2, <2>3
<1>3. QED
    BY <1>2 DEF Alternating

LEMMA TailTakesTurns ==
    ASSUME NEW s \in Seq(Slidings), s # <<>>, Alternating(s)
    PROVE  Alternating(Tail(s)) /\ (Tail(s) # <<>> => Head(Tail(s)) # Head(s))
<1> DEFINE t == Tail(s)
<1>1. t \in Seq(Slidings) /\ Len(t) = Len(s) - 1 /\ \A i \in 1 .. Len(t) : t[i] = s[i + 1]
    OBVIOUS
<1>2. ASSUME NEW i \in 1 .. Len(t) - 1 PROVE t[i] # t[i + 1]
  <2>1. i \in 1 .. Len(t) /\ i + 1 \in 1 .. Len(t) /\ i + 1 \in 1 .. Len(s) - 1
    BY <1>1
  <2>2. QED
    BY <1>1, <2>1 DEF Alternating
<1>3. ASSUME t # <<>> PROVE Head(t) # Head(s)
  <2>1. 1 \in 1 .. Len(t) /\ 1 \in 1 .. Len(s) - 1
    BY <1>1, <1>3
  <2>2. Head(t) = s[2] /\ Head(s) = s[1] /\ s[1] # s[2]
    <3>1. t[1] = s[2]
      BY <1>1, <2>1
    <3>2. s[1] # s[1 + 1]
      BY <2>1 DEF Alternating
    <3>3. QED
      BY <1>1, <1>3, <3>1, <3>2
  <2>3. QED
    BY <2>2
<1>4. QED
    BY <1>2, <1>3 DEF Alternating

LEMMA DownKeeps ==
    ASSUME NEW r, PaneGood(r)
    PROVE  PaneGood(SlideDown(r)) /\ Eventually(SlideDown(r)) /\ SameAddress(SlideDown(r), r)
<1>0. r \in ResultsType /\ r.slides \in Seq(Slidings) /\ Alternating(r.slides) /\ (r.slides # <<>> => r.shown)
    BY DEF PaneGood, ResultsType
<1>1. CASE Eventually(r)
    BY <1>1 DEF SlideDown, SameAddress
<1>2. CASE ~Eventually(r)
  <2> DEFINE f == Append(r.slides, "down")
             q == [r EXCEPT !.slides = f, !.shown = @ \/ r.slides = <<>>]
  <2>1. SlideDown(r) = q
    BY <1>2 DEF SlideDown
  <2>2. f \in Seq(Slidings) /\ f # <<>> /\ f[Len(f)] = "down"
    BY <1>0, LastOfAppend DEF Slidings
  <2>3. Alternating(f)
    <3>1. r.slides # <<>> => r.slides[Len(r.slides)] # "down"
      BY <1>2 DEF Eventually
    <3>2. QED
      BY <1>0, <3>1, AppendTakesTurns DEF Slidings
  <2> HIDE DEF f
  <2>4. (r.shown \/ r.slides = <<>>) = TRUE
    BY <1>0 DEF ResultsType
  <2>5. q \in ResultsType
    BY <1>0, <2>2, <2>4 DEF ResultsType
  <2>6. q.slides = f
    BY <1>0 DEF ResultsType
  <2>7. q.shown
    BY <1>0, <2>4 DEF ResultsType
  <2>8. SameAddress(q, r)
    BY <1>0 DEF ResultsType, SameAddress
  <2> HIDE DEF q
  <2>9. PaneGood(q) /\ Eventually(q)
    BY <2>2, <2>3, <2>5, <2>6, <2>7 DEF PaneGood, Eventually
  <2>10. QED
    BY <2>1, <2>8, <2>9
<1>3. QED
    BY <1>1, <1>2

LEMMA UpKeeps ==
    ASSUME NEW r, PaneGood(r)
    PROVE  PaneGood(SlideUp(r)) /\ ~Eventually(SlideUp(r)) /\ SameAddress(SlideUp(r), r)
           /\ SlideUp(r).shown = r.shown
<1>0. r \in ResultsType /\ r.slides \in Seq(Slidings) /\ Alternating(r.slides) /\ (r.slides # <<>> => r.shown)
    BY DEF PaneGood, ResultsType
<1>1. CASE ~Eventually(r)
    BY <1>1 DEF SlideUp, SameAddress
<1>2. CASE Eventually(r)
  <2> DEFINE f == Append(r.slides, "up")
             q == [r EXCEPT !.slides = f]
  <2>1. SlideUp(r) = q
    BY <1>2 DEF SlideUp
  <2>2. f \in Seq(Slidings) /\ f # <<>> /\ f[Len(f)] = "up"
    BY <1>0, LastOfAppend DEF Slidings
  <2>3. Alternating(f)
    <3>1. r.slides # <<>> => r.slides[Len(r.slides)] # "up"
      BY <1>2 DEF Eventually
    <3>2. QED
      BY <1>0, <3>1, AppendTakesTurns DEF Slidings
  <2> HIDE DEF f
  <2>4. r.shown
    BY <1>0, <1>2 DEF Eventually
  <2>5. q \in ResultsType
    BY <1>0, <2>2 DEF ResultsType
  <2>6. q.slides = f
    BY <1>0 DEF ResultsType
  <2>7. q.shown = r.shown
    BY <1>0 DEF ResultsType
  <2>8. SameAddress(q, r)
    BY <1>0 DEF ResultsType, SameAddress
  <2> HIDE DEF q
  <2>9. PaneGood(q) /\ ~Eventually(q)
    BY <2>2, <2>3, <2>4, <2>5, <2>6, <2>7 DEF PaneGood, Eventually
  <2>10. QED
    BY <2>1, <2>7, <2>8, <2>9
<1>3. QED
    BY <1>1, <1>2

LEMMA GoToKeeps ==
    ASSUME NEW r, PaneGood(r), NEW hash \in Asks
    PROVE  /\ PaneGood(GoTo(r, hash)) /\ SamePane(GoTo(r, hash), r)
           /\ GoTo(r, hash).hash = hash /\ GoTo(r, hash).loaded = r.loaded
           /\ GoTo(r, hash).changes = IF r.hash = hash THEN r.changes ELSE r.changes + 1
<1> DEFINE n == IF r.hash = hash THEN r.changes ELSE r.changes + 1
           q == [r EXCEPT !.hash = hash, !.changes = n]
<1>0. r \in ResultsType /\ n \in Nat
    BY DEF PaneGood, ResultsType
<1>1. GoTo(r, hash) = q
    BY DEF GoTo
<1> HIDE DEF n
<1>2. q \in ResultsType
    BY <1>0 DEF ResultsType
<1>3. SamePane(q, r)
    BY <1>0 DEF ResultsType, SamePane
<1>4. q.hash = hash
    BY <1>0 DEF ResultsType
<1>5. q.loaded = r.loaded
    BY <1>0 DEF ResultsType
<1>6. q.changes = n
    BY <1>0 DEF ResultsType
<1> HIDE DEF q
<1>7. PaneGood(q)
    BY <1>2, <1>3 DEF PaneGood, SamePane
<1>8. QED
    BY <1>1, <1>3, <1>4, <1>5, <1>6, <1>7 DEF n

LEMMA SamePaneIsSame ==
    ASSUME NEW r, NEW q, SamePane(q, r) PROVE Eventually(q) = Eventually(r)
BY DEF SamePane, Eventually

LEMMA UsedResults ==
    ASSUME NEW r, ResultsGood(r)
    PROVE  ResultsGood(UseResults(r)) /\ SameAddress(UseResults(r), r) /\ SamePane(UseResults(r), r)
<1> DEFINE q == UseResults(r)
<1>0. r \in ResultsType /\ r.events + 1 \in Nat
    BY DEF ResultsGood, PaneGood, ResultsType
<1>1. q \in ResultsType
    BY <1>0 DEF UseResults, ResultsType
<1>2. SameAddress(q, r)
    BY <1>0 DEF UseResults, ResultsType, SameAddress
<1>3. SamePane(q, r)
    BY <1>0 DEF UseResults, ResultsType, SamePane
<1> HIDE DEF q
<1>4. Eventually(q) = Eventually(r)
    BY <1>3, SamePaneIsSame
<1>5. ResultsGood(q)
    BY <1>1, <1>2, <1>3, <1>4 DEF ResultsGood, PaneGood, SameAddress, SamePane
<1>6. QED
    BY <1>2, <1>3, <1>5 DEF q

(* What is not displayed has no animation to bring it back.                  *)
LEMMA HiddenStays == ASSUME NEW r, PaneGood(r), ~r.shown PROVE ~Eventually(r)
BY DEF PaneGood, Eventually

LEMMA HideKeeps ==
    ASSUME NEW r, PaneGood(r), ~r.loaded => ~r.shown
    PROVE  ResultsGood(hideResults(r))
<1> DEFINE u == SlideUp(r)
           q == GoTo(u, "nothing")
<1>0. "nothing" \in Asks /\ ~HasQuery("nothing")
    BY DEF Asks, HasQuery
<1>1. PaneGood(u) /\ ~Eventually(u) /\ SameAddress(u, r) /\ u.shown = r.shown
    BY UpKeeps
<1> HIDE DEF u
<1>2. PaneGood(q) /\ SamePane(q, u) /\ q.hash = "nothing" /\ q.loaded = u.loaded
    BY <1>0, <1>1, GoToKeeps
<1> HIDE DEF q
<1>3. ~Eventually(q)
    BY <1>1, <1>2, SamePaneIsSame
<1>4. ResultsGood(q)
    BY <1>0, <1>1, <1>2, <1>3 DEF ResultsGood, SameAddress, SamePane
<1>5. QED
    BY <1>4 DEF hideResults, q, u

LEMMA ResultsKept == ResultsGood(pane) /\ ResultsNext => ResultsGood(pane')
<1> SUFFICES ASSUME ResultsGood(pane), ResultsNext PROVE ResultsGood(pane')
    OBVIOUS
<1>0. pane \in ResultsType /\ PaneGood(pane)
    BY DEF ResultsGood, PaneGood
<1>0a. ~pane.loaded => ~pane.shown /\ (pane.changes > 0 => pane.hash = "nothing")
    BY DEF ResultsGood
<1>0b. pane.hash \in Asks /\ pane.changes \in Nat
    BY <1>0 DEF ResultsType
<1> DEFINE u == UseResults(pane)
<1>a. ResultsGood(u) /\ PaneGood(u) /\ SameAddress(u, pane) /\ SamePane(u, pane)
    BY UsedResults DEF ResultsGood
<1>1. CASE onLoadCallback
  <2>1. CASE HasQuery(pane.hash)
    <3> DEFINE d == SlideDown(pane)
    <3>1. pane' = [d EXCEPT !.loaded = TRUE]
      BY <1>1, <2>1 DEF onLoadCallback
    <3>2. PaneGood(d) /\ Eventually(d) /\ SameAddress(d, pane) /\ d \in ResultsType
      BY <1>0, DownKeeps DEF PaneGood
    <3> HIDE DEF d
    <3>3. pane' \in ResultsType
      BY <3>1, <3>2 DEF ResultsType
    <3>4. SamePane(pane', d)
      BY <3>1, <3>2 DEF ResultsType, SamePane
    <3>5. pane'.loaded /\ pane'.hash = d.hash
      BY <3>1, <3>2 DEF ResultsType
    <3>6. Eventually(pane')
      BY <3>2, <3>4, SamePaneIsSame
    <3>7. PaneGood(pane')
      BY <3>2, <3>3, <3>4 DEF PaneGood, SamePane
    <3>8. QED
      BY <2>1, <3>2, <3>5, <3>6, <3>7 DEF ResultsGood, SameAddress
  <2>2. CASE ~HasQuery(pane.hash)
    <3>1. pane' = [pane EXCEPT !.loaded = TRUE, !.shown = FALSE] /\ ~pane.loaded
      BY <1>1, <2>2 DEF onLoadCallback
    <3>2. pane.slides = <<>>
      BY <1>0, <1>0a, <3>1 DEF PaneGood
    <3>3. pane' \in ResultsType
      BY <1>0, <3>1 DEF ResultsType
    <3>4. pane'.slides = pane.slides
      BY <1>0, <3>1 DEF ResultsType
    <3>5. ~pane'.shown
      BY <1>0, <3>1 DEF ResultsType
    <3>6. pane'.loaded
      BY <1>0, <3>1 DEF ResultsType
    <3>7. pane'.hash = pane.hash
      BY <1>0, <3>1 DEF ResultsType
    <3>8. PaneGood(pane')
      BY <1>0, <3>2, <3>3, <3>4 DEF PaneGood
    <3>9. ~Eventually(pane')
      BY <3>5, <3>8, HiddenStays
    <3>10. QED
      BY <2>2, <3>6, <3>7, <3>8, <3>9 DEF ResultsGood
  <2>3. QED
    BY <2>1, <2>2
<1>2. CASE submit_search
  <2>1. PICK asked \in {"query", "other query"} : pane' = SlideDown(GoTo(u, asked))
    BY <1>2 DEF submit_search
  <2>1a. pane.loaded
    BY <1>2 DEF submit_search
  <2> DEFINE g == GoTo(u, asked)
  <2> HIDE DEF u
  <2>2. asked \in Asks /\ HasQuery(asked)
    BY DEF Asks, HasQuery
  <2>3. PaneGood(g) /\ g.hash = asked /\ g.loaded = u.loaded
    BY <1>a, <2>2, GoToKeeps
  <2> HIDE DEF g
  <2>4. pane' = SlideDown(g)
    BY <2>1 DEF g
  <2>5. PaneGood(pane') /\ Eventually(pane') /\ SameAddress(pane', g)
    BY <2>3, <2>4, DownKeeps
  <2>6. pane'.loaded
    BY <1>a, <2>1a, <2>3, <2>5 DEF SameAddress
  <2>7. HasQuery(pane'.hash)
    BY <2>2, <2>3, <2>5 DEF SameAddress
  <2>8. QED
    BY <2>5, <2>6, <2>7 DEF ResultsGood
<1>3. CASE CloseClick
  <2>1. pane' = hideResults(u)
    BY <1>3 DEF CloseClick
  <2> HIDE DEF u
  <2>2. ~u.loaded => ~u.shown
    BY <1>a DEF ResultsGood
  <2>3. QED
    BY <1>a, <2>1, <2>2, HideKeeps
<1>4. CASE Navigate
  <2>1. PICK hash \in Asks : pane' = GoTo(u, hash)
    BY <1>4 DEF Navigate
  <2>1a. pane.loaded
    BY <1>4 DEF Navigate
  <2> HIDE DEF u
  <2>2. /\ PaneGood(pane') /\ SamePane(pane', u) /\ pane'.hash = hash /\ pane'.loaded = u.loaded
        /\ pane'.changes = IF u.hash = hash THEN u.changes ELSE u.changes + 1
    BY <1>a, <2>1, GoToKeeps
  <2>3. pane'.loaded /\ u.loaded
    BY <1>a, <2>1a, <2>2 DEF SameAddress
  <2>4. Eventually(pane') = Eventually(u)
    BY <2>2, SamePaneIsSame
  <2>5. u.changes \in Nat
    BY <1>a, <1>0b DEF SameAddress
  <2>6. pane'.changes = 0 => u.hash = hash /\ u.changes = 0
    BY <2>2, <2>5
  <2>7. QED
    BY <1>a, <2>2, <2>3, <2>4, <2>6 DEF ResultsGood
<1>5. CASE hashchange
  <2> DEFINE c == [pane EXCEPT !.changes = @ - 1]
  <2>1. pane' = HashChanged(c) /\ pane.changes > 0
    BY <1>5 DEF hashchange
  <2>2. pane.changes - 1 \in Nat
    BY <1>0b, <2>1
  <2>3. c \in ResultsType
    BY <1>0, <2>2 DEF ResultsType
  <2>4. SamePane(c, pane)
    BY <1>0 DEF ResultsType, SamePane
  <2>5. c.hash = pane.hash /\ c.loaded = pane.loaded
    BY <1>0 DEF ResultsType
  <2> HIDE DEF c
  <2>6. PaneGood(c)
    BY <1>0, <2>3, <2>4 DEF PaneGood, SamePane
  <2>7. ~c.loaded => ~c.shown /\ c.hash = "nothing"
    BY <1>0a, <2>1, <2>4, <2>5 DEF SamePane
  <2>8. CASE HasQuery(c.hash)
    <3>1. pane' = SlideDown(c)
      BY <2>1, <2>8 DEF HashChanged
    <3>2. PaneGood(pane') /\ Eventually(pane') /\ SameAddress(pane', c)
      BY <2>6, <3>1, DownKeeps
    <3>3. c.loaded
      BY <2>7, <2>8 DEF HasQuery
    <3>4. QED
      BY <2>8, <3>2, <3>3 DEF ResultsGood, SameAddress
  <2>9. CASE ~HasQuery(c.hash) /\ c.shown
    <3>1. pane' = hideResults(c)
      BY <2>1, <2>9 DEF HashChanged
    <3>2. QED
      BY <2>6, <2>7, <3>1, HideKeeps
  <2>10. CASE ~HasQuery(c.hash) /\ ~c.shown
    <3>1. pane' = c
      BY <2>1, <2>10 DEF HashChanged
    <3>2. ~Eventually(c)
      BY <2>6, <2>10, HiddenStays
    <3>3. QED
      BY <2>6, <2>7, <2>10, <3>1, <3>2 DEF ResultsGood
  <2>11. QED
    BY <2>8, <2>9, <2>10
<1>6. CASE PaneSlides
  <2> DEFINE s == pane.slides
             seen == Head(s) = "down" \/ (Tail(s) # <<>> /\ Head(Tail(s)) = "down")
             q == [pane EXCEPT !.slides = Tail(s), !.shown = seen]
  <2>1. pane' = q /\ s # <<>>
    BY <1>6 DEF PaneSlides
  <2>2. s \in Seq(Slidings) /\ Alternating(s)
    BY <1>0 DEF PaneGood, ResultsType
  <2>3. /\ Tail(s) \in Seq(Slidings) /\ Head(s) \in Slidings
        /\ Tail(s) = <<>> => s[Len(s)] = Head(s)
        /\ Tail(s) # <<>> => Tail(s)[Len(Tail(s))] = s[Len(s)]
    BY <2>1, <2>2, LastOfTail
  <2>4. Alternating(Tail(s)) /\ (Tail(s) # <<>> => Head(Tail(s)) # Head(s))
    BY <2>1, <2>2, TailTakesTurns
  <2>5. Tail(s) # <<>> => Head(Tail(s)) \in Slidings
    BY <2>3, LastOfTail
  <2>6. seen \in BOOLEAN
    OBVIOUS
  <2>7. Tail(s) # <<>> => seen
    BY <2>3, <2>4, <2>5 DEF Slidings
  <2>8. Tail(s) = <<>> => seen = (s[Len(s)] = "down")
    BY <2>3
  <2> HIDE DEF seen
  <2>9. q \in ResultsType
    BY <1>0, <2>3, <2>6 DEF ResultsType
  <2>10. q.slides = Tail(s)
    BY <1>0 DEF ResultsType
  <2>11. q.shown = seen
    BY <1>0 DEF ResultsType
  <2>12. SameAddress(q, pane)
    BY <1>0 DEF ResultsType, SameAddress
  <2> HIDE DEF q
  <2>13. PaneGood(q)
    BY <2>4, <2>7, <2>9, <2>10, <2>11 DEF PaneGood
  <2>14. Eventually(q) = Eventually(pane)
    <3>1. Eventually(pane) = (s[Len(s)] = "down")
      BY <2>1 DEF Eventually
    <3>2. Eventually(q) = IF Tail(s) = <<>> THEN seen ELSE Tail(s)[Len(Tail(s))] = "down"
      BY <2>10, <2>11 DEF Eventually
    <3>3. QED
      BY <2>3, <2>8, <3>1, <3>2
  <2>15. pane.loaded
    BY <1>0, <1>0a, <2>1 DEF PaneGood
  <2>16. QED
    BY <2>1, <2>12, <2>13, <2>14, <2>15 DEF ResultsGood, SameAddress
<1>7. QED
    BY <1>1, <1>2, <1>3, <1>4, <1>5, <1>6 DEF ResultsNext
-----------------------------------------------------------------------------
AppsType == [position : Int, goal : Int, is_animating : BOOLEAN, left : BOOLEAN, right : BOOLEAN,
             selected : Int, events : Nat]

(* The arrows are right for where the strip is going.                        *)
AppsGood(s) ==
    /\ s \in AppsType
    /\ s.position \in 0 .. rightScrollLimit /\ s.goal \in 0 .. rightScrollLimit
    /\ s.right = (s.goal < rightScrollLimit)
    /\ s.left = (s.goal > 0)
    /\ ~s.is_animating => s.goal = s.position

LEMMA LimitIsNat == rightScrollLimit \in Nat
BY FrameAssumption DEF rightScrollLimit

(* The strip is only ever sent to a position it has.                         *)
LEMMA OriginInRange ==
    ASSUME NEW i \in Int
    PROVE  originPosition(i) \in 0 .. rightScrollLimit
<1>1. centeringPoint \in {1, 2, 3} /\ 2 * centeringPoint = slidesAtOnce + 1
    BY FrameAssumption DEF centeringPoint
<1>2. QED
    BY <1>1, FrameAssumption DEF originPosition, rightScrollLimit

LEMMA SentSomewhere ==
    ASSUME NEW s, AppsGood(s), NEW to, ~s.is_animating => to \in 0 .. rightScrollLimit
    PROVE  AppsGood(animateSlide(UseApps(s), to))
<1> DEFINE u == UseApps(s)
<1>1. AppsGood(u) /\ u.is_animating = s.is_animating
    BY LimitIsNat DEF AppsGood, UseApps, AppsType
<1> HIDE DEF u
<1>2. CASE u.is_animating
    BY <1>1, <1>2 DEF animateSlide, u
<1>3. CASE ~u.is_animating
  <2> DEFINE a == animateSlide(u, to)
  <2>0. to \in 0 .. rightScrollLimit /\ u \in AppsType
    BY <1>1, <1>3 DEF AppsGood
  <2>1. a \in AppsType
    <3> DEFINE c == arrowChange(u, to)
    <3>0. (to < rightScrollLimit) \in BOOLEAN /\ (to > 0) \in BOOLEAN /\ to \in Int
      BY <2>0, LimitIsNat
    <3>1. c \in AppsType
      BY <2>0, <3>0 DEF AppsType, arrowChange
    <3> HIDE DEF c
    <3>2. [c EXCEPT !.is_animating = TRUE, !.goal = to] \in AppsType
      BY <3>0, <3>1 DEF AppsType
    <3>3. QED
      BY <1>3, <3>2 DEF animateSlide, c
  <2>2. a.position = u.position /\ a.goal = to /\ a.is_animating
    <3>1. a.position = u.position
      BY <1>3, <2>0 DEF AppsType, animateSlide, arrowChange
    <3>2. a.goal = to
      BY <1>3, <2>0 DEF AppsType, animateSlide, arrowChange
    <3>3. a.is_animating
      BY <1>3, <2>0 DEF AppsType, animateSlide, arrowChange
    <3>4. QED
      BY <3>1, <3>2, <3>3
  <2>3. a.right = (to < rightScrollLimit)
    BY <1>3, <2>0 DEF AppsType, animateSlide, arrowChange
  <2>4. a.left = (to > 0)
    BY <1>3, <2>0 DEF AppsType, animateSlide, arrowChange
  <2> HIDE DEF a
  <2>5. AppsGood(a)
    BY <1>1, <2>0, <2>1, <2>2, <2>3, <2>4 DEF AppsGood
  <2>6. QED
    BY <2>5 DEF a, u
<1>4. QED
    BY <1>2, <1>3

LEMMA AppsKept == AppsGood(apps) /\ AppsNext => AppsGood(apps')
<1> SUFFICES ASSUME AppsGood(apps), AppsNext PROVE AppsGood(apps')
    OBVIOUS
<1>1. CASE pageArrow
  <2>1. CASE apps.right /\ apps' = animateSlide(UseApps(apps), apps.position + 1)
    <3>1. apps.goal < rightScrollLimit
      BY <2>1 DEF AppsGood
    <3>2. ~apps.is_animating => apps.position + 1 \in 0 .. rightScrollLimit
      BY <3>1, LimitIsNat DEF AppsGood
    <3>3. QED
      BY <2>1, <3>2, SentSomewhere
  <2>2. CASE apps.left /\ apps' = animateSlide(UseApps(apps), apps.position - 1)
    <3>1. apps.goal > 0
      BY <2>2 DEF AppsGood
    <3>2. ~apps.is_animating => apps.position - 1 \in 0 .. rightScrollLimit
      BY <3>1, LimitIsNat DEF AppsGood
    <3>3. QED
      BY <2>2, <3>2, SentSomewhere
  <2>3. QED
    BY <1>1, <2>1, <2>2 DEF pageArrow
<1>2. CASE showPreview
  <2>1. PICK i \in apps.position .. apps.position + slidesAtOnce - 1 :
              apps' = [animateSlide(UseApps(apps), originPosition(i)) EXCEPT !.selected = i]
    BY <1>2 DEF showPreview
  <2>2. i \in Int /\ originPosition(i) \in 0 .. rightScrollLimit
    <3>1. i \in Int
      OBVIOUS
    <3>2. QED
      BY <3>1, OriginInRange
  <2> DEFINE a == animateSlide(UseApps(apps), originPosition(i))
  <2>3. AppsGood(a)
    BY <2>2, SentSomewhere
  <2> HIDE DEF a
  <2>4. apps' = [a EXCEPT !.selected = i]
    BY <2>1 DEF a
  <2>5. QED
    BY <2>2, <2>3, <2>4 DEF AppsGood, AppsType
<1>3. CASE AppsArrives
    BY <1>3 DEF AppsArrives, AppsGood, AppsType
<1>4. QED
    BY <1>1, <1>2, <1>3 DEF AppsNext
-----------------------------------------------------------------------------
FrameInv == BarsInv /\ HeaderGood(header) /\ ResultsGood(pane) /\ AppsGood(apps)

LEMMA FrameStarts == PagesInit => FrameInv
<1> SUFFICES ASSUME PagesInit PROVE FrameInv
    OBVIOUS
<1>1. BarsInv
  <2>1. BarsInit \/ BarsRest
    BY Zenon DEF PagesInit
  <2>2. PICK ready \in BOOLEAN :
          bars = [updateScrollbars |-> FALSE, updateFromResize |-> FALSE, timers |-> 0,
                  ready |-> ready, retries |-> FALSE, stale |-> FALSE, events |-> 0]
    BY <2>1 DEF BarsInit, BarsRest
  <2>3. bars \in BarsType
    BY <2>2 DEF BarsType
  <2>4. QED
    BY <2>2, <2>3 DEF BarsInv, RedrawScheduled
<1>2. HeaderGood(header)
  <2>1. HeaderInit \/ HeaderRest
    BY Zenon DEF PagesInit
  <2>2. PICK short \in BOOLEAN :
          header = [top |-> FALSE, short |-> short, sticky |-> FALSE, displayed |-> FALSE, menu |-> FALSE,
                    fading |-> <<>>, open |-> FALSE, quick |-> FALSE, wrap |-> FALSE, folding |-> FALSE,
                    events |-> 0]
    BY <2>1 DEF HeaderInit, HeaderRest
  <2>3. header \in HeaderType
    BY <2>2 DEF HeaderType
  <2>4. QED
    BY <2>2, <2>3 DEF HeaderGood, StickyGood, QuickGood
<1>3. ResultsGood(pane)
  <2>1. ResultsInit \/ ResultsRest
    BY Zenon DEF PagesInit
  <2>2. PICK hash \in Asks, loaded \in BOOLEAN :
              /\ pane = [hash |-> hash, loaded |-> loaded, changes |-> 0, shown |-> FALSE,
                         slides |-> <<>>, events |-> 0]
              /\ loaded => ~HasQuery(hash)
    BY <2>1 DEF ResultsInit, ResultsRest, Asks, HasQuery
  <2>3. pane \in ResultsType
    BY <2>2 DEF ResultsType
  <2>4. pane.slides = <<>> /\ ~pane.shown /\ pane.loaded = loaded /\ pane.changes = 0 /\ pane.hash = hash
    BY <2>2
  <2>5. ~Eventually(pane)
    BY <2>4 DEF Eventually
  <2>6. QED
    BY <2>2, <2>3, <2>4, <2>5 DEF ResultsGood, PaneGood, Alternating
<1>4. AppsGood(apps)
  <2>1. 0 \in 0 .. rightScrollLimit /\ (0 < rightScrollLimit)
    BY FrameAssumption DEF rightScrollLimit
  <2>2. apps = [position |-> 0, goal |-> 0, is_animating |-> FALSE, left |-> FALSE, right |-> TRUE,
                selected |-> 0, events |-> 0]
    BY DEF PagesInit, AppsInit
  <2>3. apps \in AppsType
    BY <2>2 DEF AppsType
  <2>4. apps.position = 0 /\ apps.goal = 0 /\ apps.right = TRUE /\ apps.left = FALSE
    BY <2>2
  <2>5. (0 < rightScrollLimit) = TRUE /\ (0 > 0) = FALSE
    BY <2>1
  <2>6. QED
    BY <2>1, <2>3, <2>4, <2>5 DEF AppsGood
<1>5. QED
    BY <1>1, <1>2, <1>3, <1>4 DEF FrameInv

(* A session moves the frame by a step of one of its parts at most.          *)
FrameSteps == [BarsNext]_bars /\ [HeaderNext]_header /\ [ResultsNext]_pane /\ [AppsNext]_apps

LEMMA PagesMoveFrame == [PagesNext]_pagesVars => FrameSteps
<1> SUFFICES ASSUME [PagesNext]_pagesVars PROVE FrameSteps
  OBVIOUS
<1>1. CASE FrameStep
  BY Zenon, <1>1 DEF FrameStep, FrameSteps
<1>2. FrameStep \/ UNCHANGED frameVars
  BY Zenon DEF PagesNext, pagesVars, SlidesStep, ListsStep, LoadsStep, NavStep, CompleteStep, TreeStep,
        TogglesStep, QueryStep, SiteStep, MatchStep, PanesStep
<1>3. CASE UNCHANGED frameVars
  BY Zenon, <1>3 DEF frameVars, FrameSteps
<1>4. QED
  BY <1>1, <1>2, <1>3

LEMMA FrameKept == FrameInv /\ [PagesNext]_pagesVars => FrameInv'
<1> SUFFICES ASSUME FrameInv, [PagesNext]_pagesVars PROVE FrameInv'
    OBVIOUS
<1>0. FrameSteps
    BY PagesMoveFrame
<1>1. BarsInv'
  <2>1. CASE UNCHANGED bars
    BY <2>1 DEF FrameInv, BarsInv, BarsType, RedrawScheduled
  <2>2. QED
    BY <1>0, <2>1, BarsKept DEF FrameInv, FrameSteps
<1>2. HeaderGood(header')
    BY Zenon, <1>0, HeaderKept DEF FrameInv, FrameSteps
<1>3. ResultsGood(pane')
    BY Zenon, <1>0, ResultsKept DEF FrameInv, FrameSteps
<1>4. AppsGood(apps')
    BY Zenon, <1>0, AppsKept DEF FrameInv, FrameSteps
<1>5. QED
    BY <1>1, <1>2, <1>3, <1>4 DEF FrameInv

LEMMA InvIsHonest == FrameInv => FrameHonest
<1> SUFFICES ASSUME FrameInv PROVE FrameHonest
    OBVIOUS
<1>1. RedrawScheduled
    BY DEF FrameInv, BarsInv
<1>2. HeaderHonest
    BY DEF FrameInv, HeaderGood, StickyGood, QuickGood, HeaderHonest
<1>3. PaneFollowsAddress
  <2>1. SUFFICES ASSUME pane.loaded, pane.slides = <<>>, pane.changes = 0
                 PROVE  pane.shown = HasQuery(pane.hash)
    BY DEF PaneFollowsAddress
  <2>2. pane.shown <=> HasQuery(pane.hash)
    BY <2>1 DEF FrameInv, ResultsGood, Eventually
  <2>3. pane.shown \in BOOLEAN
    BY DEF FrameInv, ResultsGood, PaneGood, ResultsType
  <2>4. HasQuery(pane.hash) \in BOOLEAN
    BY DEF HasQuery
  <2>5. QED
    BY <2>2, <2>3, <2>4
<1>4. AppsInRange
    BY DEF FrameInv, AppsGood, AppsInRange
<1>5. QED
    BY <1>1, <1>2, <1>3, <1>4 DEF FrameHonest

(* Whatever order the events of the browser come in, and however many: a     *)
(* height the scroll bars do not have is followed by a redraw, the header    *)
(* and the pane of results come to rest where the page and the address ask   *)
(* for, and the strip never leaves its slides, for every number of slides.   *)
THEOREM FrameStaysHonest == PagesSpec => []FrameHonest
<1>1. PagesSpec => []FrameInv
    BY FrameStarts, FrameKept, PTL DEF PagesSpec
<1>2. QED
    BY <1>1, InvIsHonest, PTL

-----------------------------------------------------------------------------
(* The search overlay: its inductive invariant.                            *)

Entries   == SearchTexts \cup {NoQuery}
Histories == {h \in [list : Seq(Entries), at : Nat] : h.at \in 1..Len(h.list)}
Requests  == [query : SearchTexts, page : Nat \ {0}, removes : SUBSET Nat]
ShownPage == [query : SearchTexts, page : Nat \ {0}]
Buttons   == [query : SearchTexts, page : Nat \ {0, 1}, no : Nat]
Shown     == [loading : BOOLEAN, pages : Seq(ShownPage), buttons : SUBSET Buttons, made : Nat]

SearchTypes ==
    /\ field \in SearchTexts /\ last \in Entries /\ timer \in Entries
    /\ isOpen \in BOOLEAN /\ classes \subseteq {MODAL, SEARCH, MODE}
    /\ icon \in [active : BOOLEAN, timers : Nat] /\ modal \in BOOLEAN
    /\ flight \in Seq(Requests)
    /\ results \in Shown
    /\ trouble \in [overtaken : BOOLEAN, failed : BOOLEAN]
    /\ recent \in Seq(SearchTexts) /\ selected \in 0..ResultLinks
    /\ history \in Histories /\ events \in Seq({"pop", "hash"})
    /\ uses \in 0..MaxUses

(* The last query is what the field holds, if that is long enough.         *)
LastIsField == last = Kept(field) \/ (last = NoQuery /\ field = Blank)

(* An address with another query is about to be noticed.                   *)
ChangeNoticed ==
    last \notin {Blank, NoQuery} /\ Address(history) \notin {NoQuery, last}
        => \E k \in DOMAIN events : events[k] = "hash"

TimerIsLast == timer # NoQuery => timer = last

(* Before the first search there is nothing, and after it the first page   *)
(* is the first one, or yet to come.                                       *)
FirstPageFirst ==
    /\ ~results.loading =>
           \A i \in DOMAIN results.pages : (results.pages[i].page = 1) = (i = 1)
    /\ ~results.loading /\ results.pages = <<>> =>
           flight = <<>> /\ results.buttons = {} /\ last = NoQuery
    /\ results.loading => last # NoQuery

(* The last request for a first page is one for the last query; when there *)
(* is none, its answer is on display.                                      *)
LastFirst(k) ==
    /\ flight[k].page = 1 /\ flight[k].query = last
    /\ \A j \in DOMAIN flight : flight[j].page = 1 => j <= k
Displayed ==
    /\ \A j \in DOMAIN flight : flight[j].page # 1
    /\ ~results.loading /\ results.pages # <<>>
    /\ results.pages[1] = [query |-> last, page |-> 1]
CurrentComes ==
    timer = NoQuery /\ ~trouble.overtaken /\ ~trouble.failed /\ last # NoQuery
        => Displayed \/ \E k \in DOMAIN flight : LastFirst(k)

SearchInv ==
    /\ SearchTypes /\ PageNotLocked /\ LastIsField /\ ChangeNoticed
    /\ TimerIsLast /\ FirstPageFirst /\ CurrentComes

-----------------------------------------------------------------------------
(* The queries and the addresses.                                          *)

LEMMA KeptQuery ==
    ASSUME NEW q \in SearchTexts
    PROVE  /\ Kept(q) \in SearchTexts /\ Kept(q) # NoQuery
           /\ Kept(q) # Blank => Kept(q) = q
           /\ Kept(Kept(q)) = Kept(q)
           /\ Kept(Blank) = Blank /\ Blank \in SearchTexts
BY SearchAssumption DEF Kept

LEMMA Replaced ==
    ASSUME NEW h \in Histories, NEW q \in Entries
    PROVE  replaceState(h, q) \in Histories /\ Address(replaceState(h, q)) = q
<1> DEFINE l == [h.list EXCEPT ![h.at] = q]
           r == [list |-> l, at |-> h.at]
<1>1. h.list \in Seq(Entries) /\ h.at \in 1..Len(h.list) /\ h.at \in Nat
  BY DEF Histories
<1>2. replaceState(h, q) = r
  BY DEF replaceState, Histories
<1>3. l \in Seq(Entries) /\ Len(l) = Len(h.list) /\ l[h.at] = q
  BY <1>1, ExceptSeq
<1>4. r.list = l /\ r.at = h.at
  OBVIOUS
<1>5. r \in Histories
  <2> HIDE DEF l
  <2> QED
    BY <1>1, <1>3 DEF Histories
<1> HIDE DEF r, l
<1> QED
  BY <1>2, <1>3, <1>4, <1>5 DEF Address

LEMMA Pushed ==
    ASSUME NEW h \in Histories, NEW q \in Entries
    PROVE  pushEntry(h, q) \in Histories /\ Address(pushEntry(h, q)) = q
<1> DEFINE s == SubSeq(h.list, 1, h.at)
           l == Append(s, q)
           r == [list |-> l, at |-> h.at + 1]
<1>1. h.list \in Seq(Entries) /\ h.at \in 1..Len(h.list) /\ h.at \in Nat
  BY DEF Histories
<1>2. s \in Seq(Entries) /\ Len(s) = h.at
  <2>1. \A i \in 1..h.at : h.list[i] \in Entries
    BY <1>1, ElementOfSeq
  <2> QED
    BY <1>1, <2>1, SubSeqProperties
<1>3. l \in Seq(Entries) /\ Len(l) = h.at + 1 /\ l[h.at + 1] = q
  <2> HIDE DEF s
  <2> QED
    BY <1>1, <1>2
<1>4. r.list = l /\ r.at = h.at + 1 /\ pushEntry(h, q) = r
  BY DEF pushEntry
<1>5. r \in Histories
  <2> HIDE DEF l
  <2> QED
    BY <1>1, <1>3 DEF Histories
<1> HIDE DEF r, l
<1> QED
  BY <1>3, <1>4, <1>5 DEF Address

LEMMA AddressType == ASSUME NEW h \in Histories PROVE Address(h) \in Entries
<1>1. h.list \in Seq(Entries) /\ h.at \in 1..Len(h.list)
  BY DEF Histories
<1> QED
  BY <1>1, ElementOfSeq DEF Address

LEMMA QueryAdded ==
    ASSUME NEW h \in Histories, NEW q \in SearchTexts
    PROVE  /\ addQueryToUrl(h, q) \in Histories
           /\ q # Blank => Address(addQueryToUrl(h, q)) = q
           /\ q = Blank => addQueryToUrl(h, q) = h
BY Replaced DEF addQueryToUrl, Entries

LEMMA QueryRemoved ==
    ASSUME NEW h \in Histories
    PROVE  removeQueryFromUrl(h) \in Histories /\ Address(removeQueryFromUrl(h)) = NoQuery
BY Pushed DEF removeQueryFromUrl, Entries

(* A search for another query than the last one puts it into the address,  *)
(* unless it is too short.                                                 *)
LEMMA RenderedHistory ==
    ASSUME NEW h \in Histories, NEW q \in SearchTexts
    PROVE  /\ RenderHistory(h, q) \in Histories
           /\ last = q => RenderHistory(h, q) = h
           /\ last # q /\ Kept(q) # Blank => Address(RenderHistory(h, q)) = Kept(q)
<1> DEFINE added == addQueryToUrl(h, Kept(q))
<1>1. added \in Histories /\ (Kept(q) # Blank => Address(added) = Kept(q))
  BY KeptQuery, QueryAdded
<1>2. pushEntry(added, Address(added)) \in Histories
  <2> HIDE DEF added
  <2> QED
    BY <1>1, AddressType, Pushed
<1>3. RenderHistory(h, q) = IF last = q THEN h
                            ELSE IF Kept(q) = Blank THEN pushEntry(added, Address(added))
                            ELSE added
  BY DEF RenderHistory
<1> HIDE DEF added
<1> QED
  BY <1>1, <1>2, <1>3

(* What render does to the results and the last query.                     *)
LEMMA Rendered ==
    ASSUME NEW q \in SearchTexts, render(q), results \in Shown
    PROVE  \/ last = q /\ UNCHANGED <<last, timer, results, selected>>
           \/ /\ last # q /\ last' = Kept(q) /\ timer' = Kept(q) /\ selected' = 0
              /\ results' \in Shown /\ results'.loading = TRUE /\ results'.pages = <<>>
              /\ results'.buttons = {}
<1>1. CASE last # q
  <2> DEFINE r == [results EXCEPT !.loading = TRUE, !.pages = <<>>, !.buttons = {}]
  <2>1. r.loading = TRUE /\ r.pages = <<>> /\ r.buttons = {}
    BY DEF Shown
  <2>2. r \in Shown
    <3>1. <<>> \in Seq(ShownPage)
      OBVIOUS
    <3> QED
      BY <3>1 DEF Shown
  <2>3. results' = r /\ last' = Kept(q) /\ timer' = Kept(q) /\ selected' = 0
    BY <1>1 DEF render
  <2> HIDE DEF r
  <2> QED
    BY <1>1, <2>1, <2>2, <2>3
<1> QED
  BY <1>1 DEF render

(* What an answer does to the results.                                     *)
LEMMA ResultsRendered ==
    ASSUME NEW r \in Shown, NEW request \in Requests
    PROVE  /\ renderResults(r, request) \in Shown
           /\ renderResults(r, request).loading = r.loading
           /\ renderResults(r, request).pages =
                  Append(r.pages, [query |-> request.query, page |-> request.page])
<1> DEFINE drawn == [query |-> request.query, page |-> request.page]
           button == [query |-> request.query, page |-> request.page + 1, no |-> r.made]
           more == IF request.query = Blank \/ request.page = Pages THEN r.buttons
                   ELSE r.buttons \cup {button}
           pages == Append(r.pages, drawn)
           made == r.made + 1
           s == [r EXCEPT !.pages = pages, !.made = made, !.buttons = more]
<1>1. /\ drawn \in ShownPage /\ button \in Buttons /\ r.pages \in Seq(ShownPage)
      /\ r.buttons \subseteq Buttons /\ r.made \in Nat /\ r.loading \in BOOLEAN
  BY DEF Requests, ShownPage, Buttons, Shown
<1>2. pages \in Seq(ShownPage) /\ more \subseteq Buttons /\ made \in Nat
  <2> HIDE DEF drawn, button
  <2> QED
    BY <1>1
<1>3. renderResults(r, request) = s
  BY DEF renderResults
<1> HIDE DEF drawn, button, more, pages, made
<1>4. s \in Shown
  BY <1>2 DEF Shown
<1>5. s.loading = r.loading /\ s.pages = pages
  BY DEF Shown
<1> HIDE DEF s
<1> QED
  BY <1>3, <1>4, <1>5 DEF pages, drawn

LEMMA AnswerRendered ==
    ASSUME NEW r \in Shown, NEW request \in Requests
    PROVE  LET s    == renderAnswer(r, request)
               drawn == [query |-> request.query, page |-> request.page]
           IN  /\ s \in Shown
               /\ request.page = 1 => ~s.loading /\ s.pages = <<drawn>>
               /\ request.page # 1 => s.loading = r.loading /\ s.pages = Append(r.pages, drawn)
<1> DEFINE drawn == [query |-> request.query, page |-> request.page]
           emptied == [r EXCEPT !.loading = FALSE, !.pages = <<>>, !.buttons = {}]
           left == {b \in r.buttons : b.no \notin request.removes}
           without == [r EXCEPT !.buttons = left]
<1>1. emptied \in Shown /\ emptied.loading = FALSE /\ emptied.pages = <<>>
  <2>1. <<>> \in Seq(ShownPage)
    OBVIOUS
  <2> QED
    BY <2>1 DEF Shown
<1>2. without \in Shown /\ without.loading = r.loading /\ without.pages = r.pages
  <2>1. left \subseteq Buttons
    BY DEF Shown
  <2> HIDE DEF left
  <2> QED
    BY <2>1 DEF Shown
<1>3. renderAnswer(r, request) = renderResults(IF request.page = 1 THEN emptied ELSE without,
                                               request)
  BY DEF renderAnswer
<1>4. Append(<<>>, drawn) = <<drawn>>
  OBVIOUS
<1> HIDE DEF emptied, without
<1>5. CASE request.page = 1
  BY <1>1, <1>3, <1>4, <1>5, ResultsRendered
<1>6. CASE request.page # 1
  BY <1>2, <1>3, <1>6, ResultsRendered
<1> QED
  BY <1>5, <1>6

-----------------------------------------------------------------------------
(* SearchTypes.                                                                  *)

(* The three things a search changes, when a query is rendered.            *)
LEMMA RenderTypes ==
    ASSUME SearchTypes, NEW q \in SearchTexts, render(q)
    PROVE  /\ last' \in Entries /\ timer' \in Entries /\ results' \in Shown
           /\ selected' \in 0..ResultLinks
<1>1. results \in Shown /\ selected \in 0..ResultLinks /\ last \in Entries /\ timer \in Entries
  BY DEF SearchTypes
<1>2. 0 \in 0..ResultLinks
  BY SearchAssumption
<1> QED
  BY <1>1, <1>2, KeptQuery, Rendered DEF Entries

LEMMA EventsType ==
    ASSUME SearchTypes, NEW h \in Histories
    PROVE  events \o Events(h) \in Seq({"pop", "hash"})
<1>1. <<>> \in Seq({"pop", "hash"}) /\ <<"pop", "hash">> \in Seq({"pop", "hash"})
  OBVIOUS
<1>2. Events(h) \in Seq({"pop", "hash"})
  BY <1>1 DEF Events
<1> QED
  BY <1>2, ConcatProperties DEF SearchTypes

LEMMA SearchTypesStep == SearchTypes /\ [SearchNext]_searchVars => SearchTypes'
<1> SUFFICES ASSUME SearchTypes, [SearchNext]_searchVars PROVE SearchTypes'
  OBVIOUS
<1> USE DEF ReaderActs
<1>0. uses \in 0..MaxUses /\ MaxUses \in Nat /\ ResultLinks \in Nat /\ history \in Histories
  BY SearchAssumption DEF SearchTypes
<1>1. CASE Focus
  <2>1. field \in SearchTexts /\ render(field)
    BY <1>1 DEF Focus, SearchTypes
  <2> QED
    BY <1>0, <1>1, <2>1, RenderTypes, RenderedHistory DEF Focus, SearchTypes
<1>2. CASE Type
  <2>1. PICK q \in SearchTexts : field' = q /\ render(q) /\ history' = RenderHistory(history, q)
    BY <1>2 DEF Type
  <2> QED
    BY <1>0, <1>2, <2>1, RenderTypes, RenderedHistory DEF Type, showOverlay, SearchTypes
<1>3. CASE IconTick
  <2>1. icon'.active = TRUE /\ icon'.timers \in Nat /\ icon' \in [active : BOOLEAN, timers : Nat]
    BY <1>3 DEF IconTick, SearchTypes
  <2> QED
    BY <1>3, <2>1 DEF IconTick, SearchTypes
<1>4. CASE clear
  <2>1. Blank \in SearchTexts /\ render(Blank)
    BY <1>4, SearchAssumption DEF clear
  <2>2. removeQueryFromUrl(history) \in Histories
    BY <1>0, QueryRemoved
  <2>3. history' \in Histories
    BY <1>4, <2>1, <2>2, RenderedHistory DEF clear
  <2>4. events' \in Seq({"pop", "hash"})
    BY <1>0, <1>4, EventsType DEF clear
  <2>5. icon' \in [active : BOOLEAN, timers : Nat]
    <3>1. icon \in [active : BOOLEAN, timers : Nat]
      BY DEF SearchTypes
    <3>2. icon' = [icon EXCEPT !.timers = @ + 1]
      BY <1>4 DEF clear
    <3> QED
      BY <3>1, <3>2
  <2>6. last' \in Entries /\ timer' \in Entries /\ results' \in Shown /\ selected' \in 0..ResultLinks
    BY <2>1, RenderTypes
  <2> QED
    BY <1>0, <1>4, <2>1, <2>3, <2>4, <2>5, <2>6 DEF clear, SearchTypes
<1>5. CASE close
  <2>1. history' \in Histories /\ events' \in Seq({"pop", "hash"})
    BY <1>0, <1>5, QueryRemoved, EventsType DEF close
  <2>2. icon' \in [active : BOOLEAN, timers : Nat]
    <3>1. icon \in [active : BOOLEAN, timers : Nat]
      BY DEF SearchTypes
    <3>2. icon' = [icon EXCEPT !.active = FALSE]
      BY <1>5 DEF close
    <3> QED
      BY <3>1, <3>2
  <2>3. classes' \subseteq {MODAL, SEARCH, MODE} /\ isOpen' \in BOOLEAN
    BY <1>5 DEF close, SearchTypes
  <2>4. uses' \in 0..MaxUses
    BY <1>0, <1>5 DEF close
  <2>5. UNCHANGED <<field, last, modal, timer, flight, results, trouble, recent, selected>>
    BY <1>5 DEF close
  <2> QED
    BY <2>1, <2>2, <2>3, <2>4, <2>5 DEF SearchTypes
<1>6. CASE goToResult
  <2>1. selected' \in 0..ResultLinks
    BY <1>0, <1>6 DEF goToResult, SearchTypes
  <2> QED
    BY <1>0, <1>6, <2>1 DEF goToResult, SearchTypes
<1>7. CASE navigateToResult
  <2>1. recent' \in Seq(SearchTexts)
    <3> DEFINE longer == <<field>> \o recent
               m == IF Len(longer) > MaxStore THEN MaxStore ELSE Len(longer)
    <3>1. longer \in Seq(SearchTexts) /\ Len(longer) \in Nat
      BY ConcatProperties DEF SearchTypes
    <3>2. m \in Int /\ \A i \in 1..m : longer[i] \in SearchTexts
      <4> HIDE DEF longer
      <4> QED
        BY <3>1, SearchAssumption, ElementOfSeq
    <3>3. SubSeq(longer, 1, m) \in Seq(SearchTexts)
      <4> HIDE DEF m, longer
      <4> QED
        BY <3>2, SubSeqProperties
    <3> QED
      BY <1>7, <3>3 DEF navigateToResult, push, SearchTypes
  <2>2. history' \in Histories
    BY <1>0, <1>7, QueryAdded DEF navigateToResult, SearchTypes
  <2> QED
    BY <1>0, <1>7, <2>1, <2>2 DEF navigateToResult, SearchTypes
<1>8. CASE GoBackOrForward
  <2>1. PICK at \in {history.at - 1, history.at + 1} \cap DOMAIN history.list :
            /\ history' = [history EXCEPT !.at = at]
            /\ events' = events \o (IF history.list[at] = Address(history) THEN <<"pop">>
                                    ELSE <<"pop", "hash">>)
    BY <1>8 DEF GoBackOrForward
  <2>2. history' \in Histories
    <3>1. /\ history.list \in Seq(Entries) /\ at \in 1..Len(history.list)
          /\ history' = [list |-> history.list, at |-> at]
      BY <1>0, <2>1 DEF Histories
    <3> QED
      BY <3>1 DEF Histories
  <2>3. events' \in Seq({"pop", "hash"})
    <3>1. <<"pop">> \in Seq({"pop", "hash"}) /\ <<"pop", "hash">> \in Seq({"pop", "hash"})
      OBVIOUS
    <3> QED
      BY <2>1, <3>1, ConcatProperties DEF SearchTypes
  <2> QED
    BY <1>0, <1>8, <2>2, <2>3 DEF GoBackOrForward, SearchTypes
<1>9. CASE onPopState
  BY <1>9, HeadTailProperties DEF onPopState, SearchTypes
<1>10. CASE onHashChange
  <2>1. events' \in Seq({"pop", "hash"})
    BY <1>10, HeadTailProperties DEF onHashChange, SearchTypes
  <2>2. CASE UNCHANGED <<field, isOpen, classes, last, timer, results, selected, history>>
    BY <1>10, <2>1, <2>2 DEF onHashChange, SearchTypes
  <2>3. CASE Address(history) # NoQuery /\ Address(history) # field
    <3> DEFINE q == Address(history)
    <3>1. q \in SearchTexts
      BY <1>0, <2>3, AddressType DEF Entries
    <3>2. /\ field' = q /\ showOverlay /\ render(q) /\ history' = RenderHistory(history, q)
          /\ UNCHANGED <<icon, modal, flight, trouble, recent, uses>>
      BY <1>10, <2>3 DEF onHashChange
    <3> HIDE DEF q
    <3>3. history' \in Histories
      BY <1>0, <3>1, <3>2, RenderedHistory
    <3>4. last' \in Entries /\ timer' \in Entries /\ results' \in Shown /\ selected' \in 0..ResultLinks
      BY <3>1, <3>2, RenderTypes
    <3> QED
      BY <2>1, <3>1, <3>2, <3>3, <3>4 DEF showOverlay, SearchTypes
  <2> QED
    BY <1>10, <2>2, <2>3 DEF onHashChange
<1>11. CASE CustomSearch
  <2>1. [query |-> timer, page |-> 1, removes |-> {}] \in Requests
    BY <1>11 DEF CustomSearch, SearchTypes, Requests, Entries
  <2> QED
    BY <1>11, <2>1 DEF CustomSearch, SearchTypes, Entries
<1>12. CASE loadMoreResults
  <2>1. PICK b \in results.buttons :
            flight' = Append(flight, [query |-> b.query, page |-> b.page,
                                      removes |-> {c.no : c \in results.buttons}])
    BY <1>12 DEF loadMoreResults
  <2>2. results.buttons \subseteq Buttons
    BY DEF SearchTypes, Shown
  <2>3. [query |-> b.query, page |-> b.page, removes |-> {c.no : c \in results.buttons}] \in Requests
    <3>1. {c.no : c \in results.buttons} \subseteq Nat
      BY <2>2 DEF Buttons
    <3>2. b.query \in SearchTexts /\ b.page \in Nat \ {0}
      BY <2>2 DEF Buttons
    <3> QED
      BY <3>1, <3>2 DEF Requests
  <2>4. flight' \in Seq(Requests)
    BY <2>1, <2>3 DEF SearchTypes
  <2> QED
    BY <1>0, <1>12, <2>4 DEF loadMoreResults, SearchTypes
<1>13. CASE Answer
  <2>1. PICK i \in DOMAIN flight :
            /\ flight' = RemoveAt(flight, i)
            /\ results' = renderAnswer(results, flight[i])
            /\ trouble' = [trouble EXCEPT !.overtaken =
                             @ \/ (flight[i].page = 1
                                     /\ \E j \in 1 .. i - 1 : flight[j].page = 1)]
    BY <1>13 DEF Answer
  <2>2. flight \in Seq(Requests) /\ flight[i] \in Requests
    BY ElementOfSeq DEF SearchTypes
  <2>3. flight' \in Seq(Requests)
    BY <2>1, <2>2, Removed
  <2>4. results' \in Shown
    BY <2>1, <2>2, AnswerRendered DEF SearchTypes
  <2>5. trouble' \in [overtaken : BOOLEAN, failed : BOOLEAN]
    BY <2>1 DEF SearchTypes
  <2> QED
    BY <1>13, <2>3, <2>4, <2>5 DEF Answer, SearchTypes
<1>14. CASE Fail
  <2>1. PICK i \in DOMAIN flight : flight' = RemoveAt(flight, i)
    BY <1>14 DEF Fail
  <2>2. flight' \in Seq(Requests)
    BY <2>1, Removed DEF SearchTypes
  <2> QED
    BY <1>14, <2>2 DEF Fail, SearchTypes
<1>15. CASE ModalToggle
  BY <1>0, <1>15 DEF ModalToggle, SearchTypes
<1>16. CASE UNCHANGED searchVars
  BY <1>16 DEF searchVars, SearchTypes
<1> QED
  BY <1>1, <1>2, <1>3, <1>4, <1>5, <1>6, <1>7, <1>8, <1>9, <1>10, <1>11, <1>12, <1>13, <1>14,
     <1>15, <1>16 DEF SearchNext

-----------------------------------------------------------------------------
(* The classes of the body.                                                *)

LEMMA LockStep == PageNotLocked /\ [SearchNext]_searchVars => PageNotLocked'
<1> SUFFICES ASSUME PageNotLocked, [SearchNext]_searchVars PROVE PageNotLocked'
  OBVIOUS
<1> USE DEF PageNotLocked, MODAL, SEARCH, MODE
<1>1. CASE Focus \/ Type \/ clear
  <2>1. classes' = classes \cup {MODAL, SEARCH, MODE} \/ classes' = classes \cup {MODAL, SEARCH}
    BY <1>1 DEF Focus, Type, clear, showOverlay
  <2> QED
    BY <2>1
<1>2. CASE close \/ onPopState
  <2>1. UNCHANGED modal
    BY <1>2 DEF close, onPopState
  <2>2. classes' = classes \ {MODAL, SEARCH, MODE} \/ classes' = classes
    BY <1>2 DEF close, onPopState
  <2> QED
    BY <2>1, <2>2
<1>3. CASE onHashChange
  <2>1. UNCHANGED modal
    BY <1>3 DEF onHashChange
  <2>2. classes' = classes \cup {MODAL, SEARCH} \/ classes' = classes
    BY <1>3 DEF onHashChange, showOverlay
  <2> QED
    BY <2>1, <2>2
<1>4. CASE ModalToggle
  <2>1. modal' = ~modal
    BY <1>4 DEF ModalToggle
  <2>2. classes' = IF modal THEN classes \ {MODAL} ELSE classes \cup {MODAL}
    BY <1>4 DEF ModalToggle
  <2>3. CASE modal = TRUE
    BY <2>1, <2>2, <2>3
  <2>4. CASE modal # TRUE
    <3>1. CASE modal
      BY <2>1, <2>2, <3>1
    <3>2. CASE ~modal
      BY <2>1, <2>2, <3>2
    <3> QED
      BY <3>1, <3>2
  <2> QED
    BY <2>3, <2>4
<1>5. CASE \/ IconTick \/ goToResult \/ navigateToResult \/ GoBackOrForward
           \/ CustomSearch \/ loadMoreResults \/ Answer \/ Fail \/ UNCHANGED searchVars
  <2>1. UNCHANGED <<classes, modal>>
    BY <1>5 DEF IconTick, goToResult, navigateToResult, GoBackOrForward, CustomSearch,
                loadMoreResults, Answer, Fail, searchVars
  <2> QED
    BY <2>1
<1> QED
  BY <1>1, <1>2, <1>3, <1>4, <1>5 DEF SearchNext

-----------------------------------------------------------------------------
(* The address.                                                            *)

LEMMA RenderedAddress ==
    ASSUME SearchTypes, LastIsField, NEW q \in SearchTexts, render(q), field' = q,
           NEW h \in Histories, history' = RenderHistory(h, q)
    PROVE  /\ last' = Kept(field')
           /\ \/ last' = q /\ last = q /\ history' = h
              \/ last' = Blank
              \/ Address(history') = last'
<1>1. results \in Shown /\ field \in SearchTexts
  BY DEF SearchTypes
<1>2. CASE last = q
  <2>1. last' = q /\ history' = h
    BY <1>1, <1>2, Rendered, RenderedHistory
  <2>2. last = Kept(field)
    BY <1>2, SearchAssumption DEF LastIsField
  <2> QED
    BY <1>1, <1>2, <2>1, <2>2, KeptQuery
<1>3. CASE last # q
  <2>1. last' = Kept(q)
    BY <1>1, <1>3, Rendered
  <2>2. Kept(q) # Blank => Address(RenderHistory(h, q)) = Kept(q)
    BY <1>3, RenderedHistory
  <2> QED
    BY <2>1, <2>2
<1> QED
  BY <1>2, <1>3

LEMMA FieldIsLast ==
    ASSUME SearchTypes, LastIsField, last \notin {Blank, NoQuery}
    PROVE  field = last /\ field # Blank
BY KeptQuery DEF LastIsField, SearchTypes

(* A change that is still to be noticed stays so behind an event that is   *)
(* delivered, and when others follow.                                      *)
LEMMA HashStays ==
    ASSUME NEW s \in Seq({"pop", "hash"}), NEW k \in DOMAIN s, s[k] = "hash"
    PROVE  /\ s # <<>> /\ Head(s) = "pop" => \E j \in DOMAIN Tail(s) : Tail(s)[j] = "hash"
           /\ \A t \in Seq({"pop", "hash"}) : \E j \in DOMAIN (s \o t) : (s \o t)[j] = "hash"
<1>1. ASSUME s # <<>>, Head(s) = "pop"
      PROVE  \E j \in DOMAIN Tail(s) : Tail(s)[j] = "hash"
  <2>1. k # 1
    BY <1>1
  <2>2. k - 1 \in DOMAIN Tail(s) /\ Tail(s)[k - 1] = s[k]
    BY <1>1, <2>1, HeadTailProperties
  <2> QED
    BY <2>2
<1>2. ASSUME NEW t \in Seq({"pop", "hash"})
      PROVE  \E j \in DOMAIN (s \o t) : (s \o t)[j] = "hash"
  <2>1. k \in DOMAIN (s \o t) /\ (s \o t)[k] = s[k]
    BY ConcatProperties
  <2> QED
    BY <2>1
<1> QED
  BY <1>1, <1>2

LEMMA AddressStep ==
    SearchTypes /\ LastIsField /\ ChangeNoticed /\ [SearchNext]_searchVars
        => LastIsField' /\ ChangeNoticed'
<1> SUFFICES ASSUME SearchTypes, LastIsField, ChangeNoticed, [SearchNext]_searchVars
             PROVE  LastIsField' /\ ChangeNoticed'
  OBVIOUS
<1>0. field \in SearchTexts /\ history \in Histories /\ events \in Seq({"pop", "hash"})
  BY DEF SearchTypes
<1>1. CASE Focus
  <2>1. /\ render(field) /\ field' = field /\ history' = RenderHistory(history, field)
        /\ events' = events
    BY <1>1 DEF Focus
  <2> QED
    BY <1>0, <2>1, RenderedAddress DEF LastIsField, ChangeNoticed
<1>2. CASE Type
  <2>1. PICK q \in SearchTexts : field' = q /\ render(q) /\ history' = RenderHistory(history, q)
    BY <1>2 DEF Type
  <2>2. events' = events
    BY <1>2 DEF Type
  <2> QED
    BY <1>0, <2>1, <2>2, RenderedAddress DEF LastIsField, ChangeNoticed
<1>3. CASE clear
  <2> DEFINE h == removeQueryFromUrl(history)
  <2>1. /\ render(Blank) /\ field' = Blank /\ history' = RenderHistory(h, Blank)
        /\ Blank \in SearchTexts
    BY <1>3, SearchAssumption DEF clear
  <2>2. h \in Histories
    BY <1>0, QueryRemoved
  <2>3. last' = Kept(field') /\ last' = Blank
    <3> HIDE DEF h
    <3>1. last' = Kept(field')
      BY <2>1, <2>2, RenderedAddress
    <3> QED
      BY <2>1, <3>1, KeptQuery
  <2> QED
    BY <2>3 DEF LastIsField, ChangeNoticed
<1>4. CASE close
  <2>1. UNCHANGED <<field, last>> /\ history' = removeQueryFromUrl(history)
    BY <1>4 DEF close
  <2>2. Address(history') = NoQuery
    BY <1>0, <2>1, QueryRemoved
  <2> QED
    BY <2>1, <2>2 DEF LastIsField, ChangeNoticed
<1>5. CASE navigateToResult
  <2>1. UNCHANGED <<field, last, events>> /\ history' = addQueryToUrl(history, field)
    BY <1>5 DEF navigateToResult
  <2>2. last \notin {Blank, NoQuery} => Address(history') = last
    BY <1>0, <2>1, FieldIsLast, QueryAdded
  <2> QED
    BY <2>1, <2>2 DEF LastIsField, ChangeNoticed
<1>6. CASE GoBackOrForward
  <2>1. UNCHANGED <<field, last>>
    BY <1>6 DEF GoBackOrForward
  <2>2. PICK at \in {history.at - 1, history.at + 1} \cap DOMAIN history.list :
            /\ history' = [history EXCEPT !.at = at]
            /\ events' = events \o (IF history.list[at] = Address(history) THEN <<"pop">>
                                    ELSE <<"pop", "hash">>)
    BY <1>6 DEF GoBackOrForward
  <2>3. Address(history') = history.list[at]
    BY <1>0, <2>2 DEF Histories, Address
  <2>4. <<"pop">> \in Seq({"pop", "hash"}) /\ <<"pop", "hash">> \in Seq({"pop", "hash"})
    OBVIOUS
  <2>5. CASE history.list[at] = Address(history)
    <3>1. events' = events \o <<"pop">>
      BY <2>2, <2>5
    <3>2. (\E k \in DOMAIN events : events[k] = "hash")
            => \E k \in DOMAIN events' : events'[k] = "hash"
      BY <1>0, <2>4, <3>1, HashStays
    <3> QED
      BY <2>1, <2>3, <2>5, <3>2 DEF LastIsField, ChangeNoticed
  <2>6. CASE history.list[at] # Address(history)
    <3>1. events' = events \o <<"pop", "hash">>
      BY <2>2, <2>6
    <3>2. Len(events) + 2 \in DOMAIN events' /\ events'[Len(events) + 2] = "hash"
      BY <1>0, <2>4, <3>1, ConcatProperties
    <3> QED
      BY <2>1, <3>2 DEF LastIsField, ChangeNoticed
  <2> QED
    BY <2>5, <2>6
<1>7. CASE onPopState
  <2>1. /\ UNCHANGED <<field, last, history>> /\ events' = Tail(events)
        /\ events # <<>> /\ Head(events) = "pop"
    BY <1>7 DEF onPopState
  <2>2. (\E k \in DOMAIN events : events[k] = "hash")
          => \E k \in DOMAIN events' : events'[k] = "hash"
    BY <1>0, <2>1, HashStays
  <2> QED
    BY <2>1, <2>2 DEF LastIsField, ChangeNoticed
<1>8. CASE onHashChange
  <2> DEFINE q == Address(history)
  <2>1. CASE q = NoQuery \/ q = field
    <3>1. UNCHANGED <<field, last, history>>
      BY <1>8, <2>1 DEF onHashChange
    <3>2. last \notin {Blank, NoQuery} => field = last
      BY FieldIsLast
    <3> QED
      BY <2>1, <3>1, <3>2 DEF LastIsField, ChangeNoticed
  <2>2. CASE q # NoQuery /\ q # field
    <3>1. q \in SearchTexts
      BY <1>0, <2>2, AddressType DEF Entries
    <3>2. field' = q /\ render(q) /\ history' = RenderHistory(history, q)
      BY <1>8, <2>2 DEF onHashChange
    <3>3. /\ last' = Kept(field')
          /\ \/ last' = q /\ history' = history
             \/ last' = Blank
             \/ Address(history') = last'
      <4> HIDE DEF q
      <4> QED
        BY <1>0, <3>1, <3>2, RenderedAddress
    <3> QED
      BY <3>3 DEF LastIsField, ChangeNoticed
  <2> QED
    BY <2>1, <2>2
<1>9. CASE \/ IconTick \/ goToResult \/ CustomSearch \/ loadMoreResults \/ Answer \/ Fail
           \/ ModalToggle \/ UNCHANGED searchVars
  <2>1. UNCHANGED <<field, last, history, events>>
    BY <1>9 DEF IconTick, goToResult, CustomSearch, loadMoreResults, Answer, Fail, ModalToggle,
                searchVars
  <2> QED
    BY <2>1 DEF LastIsField, ChangeNoticed
<1> QED
  BY <1>1, <1>2, <1>3, <1>4, <1>5, <1>6, <1>7, <1>8, <1>9 DEF SearchNext

-----------------------------------------------------------------------------
(* The results.                                                            *)

ResultsInv == TimerIsLast /\ FirstPageFirst /\ CurrentComes

LEMMA SameResults ==
    ASSUME ResultsInv, UNCHANGED <<last, timer, flight, results, trouble>>
    PROVE  ResultsInv'
BY DEF ResultsInv, TimerIsLast, FirstPageFirst, CurrentComes, Displayed, LastFirst

(* A query that is rendered starts everything anew.                        *)
LEMMA RenderedResults ==
    ASSUME SearchTypes, ResultsInv, NEW q \in SearchTexts, render(q), UNCHANGED <<flight, trouble>>
    PROVE  ResultsInv'
<1>1. results \in Shown
  BY DEF SearchTypes
<1>2. CASE UNCHANGED <<last, timer, results>>
  BY <1>2, SameResults
<1>3. CASE /\ last' = Kept(q) /\ timer' = Kept(q) /\ results'.loading = TRUE
           /\ results'.pages = <<>>
  <2>1. timer' # NoQuery /\ last' = timer'
    BY <1>3, KeptQuery
  <2>2. results'.loading
    BY <1>3
  <2> QED
    BY <2>1, <2>2 DEF ResultsInv, TimerIsLast, FirstPageFirst, CurrentComes
<1> QED
  BY <1>1, <1>2, <1>3, Rendered

(* The request of the timer is the last one for a first page.              *)
LEMMA RequestSent ==
    ASSUME SearchTypes, ResultsInv, CustomSearch
    PROVE  ResultsInv'
<1> DEFINE r == [query |-> timer, page |-> 1, removes |-> {}]
<1>1. /\ timer # NoQuery /\ timer' = NoQuery /\ flight' = Append(flight, r)
      /\ UNCHANGED <<last, results, trouble>>
  BY DEF CustomSearch
<1>2. timer = last /\ r.page = 1 /\ r.query = last
  BY <1>1 DEF ResultsInv, TimerIsLast
<1>3. flight \in Seq(Requests)
  BY DEF SearchTypes
<1> HIDE DEF r
<1>4. PICK k \in Nat : k = Len(flight) + 1
  BY <1>3
<1>5. DOMAIN flight' = 1..k /\ flight'[k] = r /\ k \in DOMAIN flight'
  BY <1>1, <1>3, <1>4
<1>6. LastFirst(k)'
  BY <1>1, <1>2, <1>5 DEF LastFirst
<1>7. CurrentComes'
  BY <1>5, <1>6 DEF CurrentComes
<1>8. TimerIsLast' /\ FirstPageFirst'
  BY <1>1, <1>2 DEF ResultsInv, TimerIsLast, FirstPageFirst
<1> QED
  BY <1>7, <1>8 DEF ResultsInv

(* A request for more results is not one for a first page.                 *)
LEMMA MoreRequested ==
    ASSUME SearchTypes, ResultsInv, loadMoreResults
    PROVE  ResultsInv'
<1>1. PICK b \in results.buttons :
          flight' = Append(flight, [query |-> b.query, page |-> b.page,
                                    removes |-> {c.no : c \in results.buttons}])
  BY DEF loadMoreResults
<1>2. UNCHANGED <<last, timer, results, trouble>>
  BY DEF loadMoreResults
<1> DEFINE r == [query |-> b.query, page |-> b.page, removes |-> {c.no : c \in results.buttons}]
<1>3. r.page # 1
  BY DEF SearchTypes, Shown, Buttons
<1>4. flight \in Seq(Requests) /\ flight' = Append(flight, r)
  BY <1>1 DEF SearchTypes
<1> HIDE DEF r
<1>5. /\ DOMAIN flight' = 1..(Len(flight) + 1) /\ Len(flight) \in Nat
      /\ flight'[Len(flight) + 1] = r
      /\ DOMAIN flight = 1..Len(flight)
      /\ \A k \in DOMAIN flight : flight'[k] = flight[k]
  BY <1>4
<1>6. \A j \in DOMAIN flight' : flight'[j].page = 1 => j \in DOMAIN flight
  BY <1>3, <1>5
<1>7. \A k \in DOMAIN flight : LastFirst(k) => LastFirst(k)'
  BY <1>2, <1>5, <1>6 DEF LastFirst
<1>8. Displayed => Displayed'
  BY <1>2, <1>5, <1>6 DEF Displayed
<1>9. CurrentComes'
  BY <1>2, <1>5, <1>7, <1>8 DEF ResultsInv, CurrentComes
<1>10. TimerIsLast' /\ FirstPageFirst'
  <2>1. results.buttons # {}
    BY <1>1
  <2> QED
    BY <1>2, <2>1 DEF ResultsInv, TimerIsLast, FirstPageFirst
<1> QED
  BY <1>9, <1>10 DEF ResultsInv

(* The answer of the first request for a first page is the one on display, *)
(* when no other such request is left.                                     *)
LEMMA AnswerCame ==
    ASSUME SearchTypes, ResultsInv, Answer
    PROVE  ResultsInv'
<1>1. PICK i \in DOMAIN flight :
          /\ flight' = RemoveAt(flight, i)
          /\ results' = renderAnswer(results, flight[i])
          /\ trouble' = [trouble EXCEPT !.overtaken =
                           @ \/ (flight[i].page = 1
                                   /\ \E j \in 1 .. i - 1 : flight[j].page = 1)]
          /\ UNCHANGED <<last, timer>>
  BY DEF Answer
<1> DEFINE r == flight[i]
           drawn == [query |-> r.query, page |-> r.page]
<1>2. /\ flight \in Seq(Requests) /\ r \in Requests /\ results \in Shown
      /\ DOMAIN flight = 1..Len(flight) /\ Len(flight) \in Nat
  BY ElementOfSeq DEF SearchTypes
<1>3. /\ results' \in Shown
      /\ r.page = 1 => ~results'.loading /\ results'.pages = <<drawn>>
      /\ r.page # 1 => results'.loading = results.loading
                       /\ results'.pages = Append(results.pages, drawn)
  BY <1>1, <1>2, AnswerRendered
<1>4. /\ DOMAIN flight' = 1..(Len(flight) - 1)
      /\ \A k \in 1..(Len(flight) - 1) :
             flight'[k] = IF k < i THEN flight[k] ELSE flight[k + 1]
  <2>1. /\ flight' \in Seq(Requests) /\ Len(flight') = Len(flight) - 1
        /\ \A k \in 1..(Len(flight) - 1) :
               flight'[k] = IF k < i THEN flight[k] ELSE flight[k + 1]
    BY <1>1, <1>2, Removed
  <2> QED
    BY <2>1
<1>5. drawn.query = r.query /\ drawn.page = r.page
  OBVIOUS
<1>6. results.pages \in Seq(ShownPage)
  BY <1>2 DEF Shown
<1> HIDE DEF r, drawn
<1>7. TimerIsLast'
  BY <1>1 DEF ResultsInv, TimerIsLast
<1>8. FirstPageFirst'
  <2>1. CASE r.page = 1
    <3>1. ~results'.loading /\ results'.pages = <<drawn>>
      BY <1>3, <2>1
    <3>2. /\ \A j \in DOMAIN results'.pages : (results'.pages[j].page = 1) = (j = 1)
          /\ results'.pages # <<>>
      BY <1>5, <2>1, <3>1
    <3> QED
      BY <3>1, <3>2 DEF FirstPageFirst
  <2>2. CASE r.page # 1
    <3>1. results'.loading = results.loading /\ results'.pages = Append(results.pages, drawn)
      BY <1>3, <2>2
    <3>2. /\ Len(results.pages) \in Nat /\ DOMAIN results.pages = 1..Len(results.pages)
          /\ DOMAIN results'.pages = 1..(Len(results.pages) + 1)
          /\ results'.pages[Len(results.pages) + 1] = drawn
          /\ \A j \in DOMAIN results.pages : results'.pages[j] = results.pages[j]
          /\ results'.pages # <<>>
      BY <1>6, <3>1
    <3>3. flight # <<>>
      BY <1>2
    <3>4. ASSUME ~results'.loading, NEW j \in DOMAIN results'.pages
          PROVE  (results'.pages[j].page = 1) = (j = 1)
      <4>1. results.pages # <<>>
        BY <3>1, <3>3, <3>4 DEF ResultsInv, FirstPageFirst
      <4>2. Len(results.pages) >= 1
        BY <1>6, <3>2, <4>1
      <4>3. CASE j \in DOMAIN results.pages
        BY <3>1, <3>2, <3>4, <4>3 DEF ResultsInv, FirstPageFirst
      <4>4. CASE j = Len(results.pages) + 1
        BY <1>5, <2>2, <3>2, <4>2, <4>4
      <4> QED
        BY <3>2, <4>3, <4>4
    <3>5. results'.loading => last' # NoQuery
      BY <1>1, <3>1 DEF ResultsInv, FirstPageFirst
    <3> QED
      BY <3>2, <3>4, <3>5 DEF FirstPageFirst
  <2> QED
    BY <2>1, <2>2
<1>9. CurrentComes'
  <2> SUFFICES ASSUME timer' = NoQuery, ~trouble'.overtaken, ~trouble'.failed, last' # NoQuery
               PROVE  Displayed' \/ \E k \in DOMAIN flight' : LastFirst(k)'
    BY DEF CurrentComes
  <2>1. /\ ~trouble.overtaken /\ ~trouble.failed
        /\ r.page = 1 => \A j \in 1..(i - 1) : flight[j].page # 1
    <3>1. trouble \in [overtaken : BOOLEAN, failed : BOOLEAN]
      BY DEF SearchTypes
    <3>2. trouble'.overtaken = (trouble.overtaken \/ (r.page = 1
                                  /\ \E j \in 1..(i - 1) : flight[j].page = 1))
      BY <1>1, <3>1 DEF r
    <3>3. trouble'.failed = trouble.failed
      BY <1>1, <3>1
    <3> QED
      BY <3>2, <3>3
  <2>2. Displayed \/ \E k \in DOMAIN flight : LastFirst(k)
    BY <1>1, <2>1 DEF ResultsInv, CurrentComes
  <2>3. CASE Displayed
    <3>1. r.page # 1
      BY <2>3 DEF Displayed, r
    <3>2. ~results'.loading /\ results'.pages = Append(results.pages, drawn)
      BY <1>3, <2>3, <3>1 DEF Displayed
    <3>3. results'.pages # <<>> /\ results'.pages[1] = results.pages[1]
      BY <1>6, <2>3, <3>2 DEF Displayed
    <3>4. \A j \in DOMAIN flight' : flight'[j].page # 1
      BY <1>2, <1>4, <2>3 DEF Displayed
    <3> QED
      BY <1>1, <2>3, <3>2, <3>3, <3>4 DEF Displayed
  <2>4. CASE \E k \in DOMAIN flight : LastFirst(k)
    <3>1. PICK k \in DOMAIN flight : LastFirst(k)
      BY <2>4
    <3>2. CASE k = i
      <4>1. r.page = 1 /\ r.query = last
        BY <3>1, <3>2 DEF LastFirst, r
      <4>2. \A j \in DOMAIN flight : j # i => flight[j].page # 1
        BY <1>2, <2>1, <3>1, <3>2, <4>1 DEF LastFirst
      <4>3. ASSUME NEW j \in DOMAIN flight' PROVE flight'[j].page # 1
        <5>1. CASE j < i
          BY <1>2, <1>4, <4>2, <5>1
        <5>2. CASE ~(j < i)
          <6>1. flight'[j] = flight[j + 1] /\ j + 1 \in DOMAIN flight /\ j + 1 # i
            BY <1>2, <1>4, <5>2
          <6> QED
            BY <4>2, <6>1
        <5> QED
          BY <5>1, <5>2
      <4>4. ~results'.loading /\ results'.pages = <<drawn>>
        BY <1>3, <4>1
      <4>5. drawn = [query |-> last', page |-> 1]
        BY <1>1, <4>1 DEF drawn
      <4> QED
        BY <4>3, <4>4, <4>5 DEF Displayed
    <3>3. CASE k # i
      <4> DEFINE m == IF k < i THEN k ELSE k - 1
      <4>1. m \in DOMAIN flight' /\ flight'[m] = flight[k]
        BY <1>2, <1>4, <3>3
      <4>2. ASSUME NEW j \in DOMAIN flight', flight'[j].page = 1
            PROVE  j <= m
        <5>1. CASE j < i
          <6>1. flight[j].page = 1 /\ j \in DOMAIN flight
            BY <1>2, <1>4, <4>2, <5>1
          <6>2. j <= k
            BY <3>1, <6>1 DEF LastFirst
          <6> QED
            BY <1>2, <3>3, <5>1, <6>2
        <5>2. CASE j >= i
          <6>1. flight[j + 1].page = 1 /\ j + 1 \in DOMAIN flight
            BY <1>2, <1>4, <4>2, <5>2
          <6>2. j + 1 <= k
            BY <3>1, <6>1 DEF LastFirst
          <6> QED
            BY <1>2, <1>4, <3>3, <5>2, <6>2
        <5> QED
          BY <1>2, <1>4, <5>1, <5>2
      <4> HIDE DEF m
      <4>3. LastFirst(m)'
        BY <1>1, <3>1, <4>1, <4>2 DEF LastFirst
      <4> QED
        BY <4>1, <4>3
    <3> QED
      BY <3>2, <3>3
  <2> QED
    BY <2>2, <2>3, <2>4
<1> QED
  BY <1>7, <1>8, <1>9 DEF ResultsInv

(* After a failure nothing is promised of the last query.                  *)
LEMMA RequestFailed ==
    ASSUME SearchTypes, ResultsInv, Fail
    PROVE  ResultsInv'
<1>1. PICK i \in DOMAIN flight :
          /\ flight' = RemoveAt(flight, i)
          /\ trouble' = [trouble EXCEPT !.failed = TRUE]
  BY DEF Fail
<1>2. UNCHANGED <<last, timer, results>>
  BY DEF Fail
<1>3. trouble'.failed
  BY <1>1 DEF SearchTypes
<1>4. flight # <<>>
  BY <1>1
<1> QED
  BY <1>2, <1>3, <1>4 DEF ResultsInv, TimerIsLast, FirstPageFirst, CurrentComes

LEMMA ResultsStep ==
    SearchTypes /\ ResultsInv /\ [SearchNext]_searchVars => ResultsInv'
<1> SUFFICES ASSUME SearchTypes, ResultsInv, [SearchNext]_searchVars PROVE ResultsInv'
  OBVIOUS
<1>0. field \in SearchTexts /\ history \in Histories
  BY DEF SearchTypes
<1>1. CASE Focus
  <2>1. render(field) /\ UNCHANGED <<flight, trouble>>
    BY <1>1 DEF Focus
  <2> QED
    BY <1>0, <2>1, RenderedResults
<1>2. CASE Type
  <2>1. \E q \in SearchTexts : render(q) /\ UNCHANGED <<flight, trouble>>
    BY <1>2 DEF Type
  <2> QED
    BY <2>1, RenderedResults
<1>3. CASE clear
  <2>1. render(Blank) /\ Blank \in SearchTexts /\ UNCHANGED <<flight, trouble>>
    BY <1>3, SearchAssumption DEF clear
  <2> QED
    BY <2>1, RenderedResults
<1>4. CASE onHashChange
  <2>1. CASE Address(history) = NoQuery \/ Address(history) = field
    <3>1. UNCHANGED <<last, timer, flight, results, trouble>>
      BY <1>4, <2>1 DEF onHashChange
    <3> QED
      BY <3>1, SameResults
  <2>2. CASE ~(Address(history) = NoQuery \/ Address(history) = field)
    <3>1. render(Address(history)) /\ UNCHANGED <<flight, trouble>>
      BY <1>4, <2>2 DEF onHashChange
    <3>2. Address(history) \in SearchTexts
      BY <1>0, <2>2, AddressType DEF Entries
    <3> QED
      BY <3>1, <3>2, RenderedResults
  <2> QED
    BY <2>1, <2>2
<1>5. CASE \/ IconTick \/ close \/ goToResult \/ navigateToResult \/ GoBackOrForward
           \/ onPopState \/ ModalToggle \/ UNCHANGED searchVars
  <2>1. UNCHANGED <<last, timer, flight, results, trouble>>
    BY <1>5 DEF IconTick, close, goToResult, navigateToResult, GoBackOrForward, onPopState,
                ModalToggle, searchVars
  <2> QED
    BY <2>1, SameResults
<1> QED
  BY <1>1, <1>2, <1>3, <1>4, <1>5, RequestSent, MoreRequested, AnswerCame, RequestFailed
  DEF SearchNext

-----------------------------------------------------------------------------

LEMMA InitSearchInv == SearchInit => SearchInv
<1> SUFFICES ASSUME SearchInit PROVE SearchInv
  OBVIOUS
<1> USE DEF SearchInit
<1>1. SearchTypes
  <2>1. Blank \in SearchTexts /\ 0 \in 0..ResultLinks /\ 0 \in 0..MaxUses
    BY SearchAssumption
  <2>2. history \in Histories
    <3>1. <<NoQuery>> \in Seq(Entries) /\ Len(<<NoQuery>>) = 1
      BY DEF Entries
    <3> QED
      BY <3>1 DEF Histories
  <2>3. results \in Shown
    <3>1. <<>> \in Seq(ShownPage)
      OBVIOUS
    <3> QED
      BY <3>1 DEF Shown
  <2>4. /\ icon \in [active : BOOLEAN, timers : Nat]
        /\ trouble \in [overtaken : BOOLEAN, failed : BOOLEAN]
    OBVIOUS
  <2>5. flight \in Seq(Requests) /\ recent \in Seq(SearchTexts) /\ events \in Seq({"pop", "hash"})
    OBVIOUS
  <2> QED
    BY <2>1, <2>2, <2>3, <2>4, <2>5 DEF SearchTypes, Entries
<1>2. PageNotLocked
  BY DEF PageNotLocked
<1>3. LastIsField /\ ChangeNoticed /\ TimerIsLast /\ FirstPageFirst /\ CurrentComes
  BY DEF LastIsField, ChangeNoticed, TimerIsLast, FirstPageFirst, CurrentComes
<1> QED
  BY <1>1, <1>2, <1>3 DEF SearchInv

(* What the search box keeps true whatever the user does and whenever its  *)
(* timers, answers and events of the address come (Search in docs.js).     *)
THEOREM SearchInvariant == SearchSpec => []SearchInv
<1>1. SearchInv /\ [SearchNext]_searchVars => SearchInv'
  BY SearchTypesStep, LockStep, AddressStep, ResultsStep DEF SearchInv, ResultsInv
<1> QED
  BY <1>1, InitSearchInv, PTL DEF SearchSpec

(* The class that keeps the page from scrolling is never left behind by    *)
(* open, close, the events of the address and the modal windows.           *)
THEOREM PageIsNotLocked == SearchSpec => []PageNotLocked
<1>1. SearchInv => PageNotLocked
  BY DEF SearchInv
<1> QED
  BY <1>1, SearchInvariant, PTL

(* When onPopState and onHashChange have had their events, the address     *)
(* names no query or the last one searched, however far back the user went *)
(* and whatever was typed in between.                                      *)
THEOREM AddressIsTheQuery == SearchSpec => []AddressIsQuery
<1>1. SearchInv => AddressIsQuery
  BY DEF SearchInv, ChangeNoticed, AddressIsQuery
<1> QED
  BY <1>1, SearchInvariant, PTL

(* When no timer of CustomSearch and no request is left, the first page on *)
(* display is that of the last query, unless an answer overtook another    *)
(* one or a request failed.                                                *)
THEOREM QuietSearchIsCurrent == SearchSpec => []QuietIsCurrent
<1>1. SearchInv => QuietIsCurrent
  <2> SUFFICES ASSUME SearchInv PROVE QuietIsCurrent
    OBVIOUS
  <2>1. ASSUME timer = NoQuery, flight = <<>>, last # NoQuery,
               trouble = [overtaken |-> FALSE, failed |-> FALSE]
        PROVE  ~results.loading /\ results.pages[1] = [query |-> last, page |-> 1]
    <3>1. DOMAIN flight = {}
      BY <2>1
    <3>2. Displayed
      BY <2>1, <3>1 DEF SearchInv, CurrentComes
    <3> QED
      BY <3>2 DEF Displayed
  <2> QED
    BY <2>1 DEF SearchInv, TimerIsLast, FirstPageFirst, QuietIsCurrent
<1> QED
  BY <1>1, SearchInvariant, PTL

-----------------------------------------------------------------------------
(* The slide shows.                                                         *)

(* A step of a session is a step of one widget at most.                      *)
SlidesSteps ==
    [ShowNext]_show /\ [ListNext]_list /\ [CarouselNext]_carousel
    /\ [ScreensNext]_screens /\ [StripNext]_strip /\ [TabsNext]_tabs

LEMMA PagesMoveSlides == [PagesNext]_pagesVars => SlidesSteps
<1> SUFFICES ASSUME [PagesNext]_pagesVars PROVE SlidesSteps
  OBVIOUS
<1>1. CASE SlidesStep
  BY Zenon, <1>1 DEF SlidesStep, SlidesSteps
<1>2. SlidesStep \/ UNCHANGED slidesVars
  BY Zenon DEF PagesNext, pagesVars, TogglesStep, ListsStep, LoadsStep, NavStep, CompleteStep, TreeStep,
        FrameStep, QueryStep, SiteStep, MatchStep, PanesStep
<1>3. CASE UNCHANGED slidesVars
  BY Zenon, <1>3 DEF slidesVars, SlidesSteps
<1>4. QED
  BY <1>1, <1>2, <1>3
-----------------------------------------------------------------------------
ShowType ==
    [auto : BOOLEAN, curr : Positions, running : BOOLEAN, timer : BOOLEAN, paused : BOOLEAN,
     dot : Positions, off : {"none", "prev", "next"}, clicks : Nat]

(* The dot marks the slide, and the timer is there unless the show is paused *)
(* or does not rotate.                                                       *)
ShowGood(s) ==
    /\ s \in ShowType
    /\ s.dot = s.curr
    /\ s.paused => ~s.timer
    /\ s.auto /\ ~s.paused => s.timer

LEMMA WrappedInRange == ASSUME NEW to \in Int PROVE Wrapped(to) \in Positions
BY SlidesAssumption DEF Wrapped, Positions

LEMMA RotatingGood ==
    ASSUME NEW s \in ShowType
    PROVE  /\ startRotateTimer(s) \in ShowType /\ startRotateTimer(s).curr = s.curr
           /\ startRotateTimer(s).dot = s.dot /\ startRotateTimer(s).auto = s.auto
           /\ startRotateTimer(s).timer /\ ~startRotateTimer(s).paused
           /\ pauseRotateTimer(s) \in ShowType /\ pauseRotateTimer(s).curr = s.curr
           /\ pauseRotateTimer(s).dot = s.dot /\ pauseRotateTimer(s).auto = s.auto
           /\ ~pauseRotateTimer(s).timer /\ pauseRotateTimer(s).paused
<1>1. startRotateTimer(s) \in ShowType
    BY DEF startRotateTimer, ShowType
<1>2. startRotateTimer(s).curr = s.curr /\ startRotateTimer(s).dot = s.dot
    BY DEF startRotateTimer, ShowType
<1>3. startRotateTimer(s).auto = s.auto
    BY DEF startRotateTimer, ShowType
<1>4. startRotateTimer(s).timer
    BY DEF startRotateTimer, ShowType
<1>5. ~startRotateTimer(s).paused
    BY DEF startRotateTimer, ShowType
<1>6. pauseRotateTimer(s) \in ShowType
    BY DEF pauseRotateTimer, ShowType
<1>7. pauseRotateTimer(s).curr = s.curr /\ pauseRotateTimer(s).dot = s.dot
    BY DEF pauseRotateTimer, ShowType
<1>8. pauseRotateTimer(s).auto = s.auto
    BY DEF pauseRotateTimer, ShowType
<1>9. ~pauseRotateTimer(s).timer
    BY DEF pauseRotateTimer, ShowType
<1>10. pauseRotateTimer(s).paused
    BY DEF pauseRotateTimer, ShowType
<1>11. QED
    BY <1>1, <1>2, <1>3, <1>4, <1>5, <1>6, <1>7, <1>8, <1>9, <1>10

LEMMA RotatesGood ==
    ASSUME NEW s \in ShowType, s.dot = s.curr
    PROVE  ShowGood(startRotateTimer(s)) /\ ShowGood(pauseRotateTimer(s))
<1>1. ShowGood(startRotateTimer(s))
    BY RotatingGood DEF ShowGood
<1>2. ShowGood(pauseRotateTimer(s))
    BY RotatingGood DEF ShowGood
<1>3. QED
    BY <1>1, <1>2

(* Asking for a slide, whether the show is moving or not.                    *)
LEMMA ShowGoGood ==
    ASSUME NEW s, ShowGood(s), NEW to \in Int
    PROVE  ShowGood(ShowGo(s, to))
<1> DEFINE t == Wrapped(to)
           off == IF t - Scroll < 0 THEN "prev" ELSE IF t + Scroll > Slides THEN "next" ELSE "none"
           gone == [s EXCEPT !.curr = t, !.running = TRUE, !.dot = t, !.off = off]
           moved == IF s.running THEN s ELSE gone
<1>0. s \in ShowType /\ s.dot = s.curr
    BY DEF ShowGood
<1>1. t \in Positions
    BY WrappedInRange
<1>2. off \in {"none", "prev", "next"}
    OBVIOUS
<1>3. ShowGo(s, to) = IF s.auto THEN startRotateTimer(moved) ELSE moved
    BY DEF ShowGo
<1> HIDE DEF t, off
<1>4. gone \in ShowType
    BY <1>0, <1>1, <1>2 DEF ShowType
<1>5. gone.curr = t /\ gone.dot = t
    BY <1>0 DEF ShowType
<1>6. gone.auto = s.auto
    BY <1>0 DEF ShowType
<1>7. gone.timer = s.timer
    BY <1>0 DEF ShowType
<1>8. gone.paused = s.paused
    BY <1>0 DEF ShowType
<1> HIDE DEF gone
<1>9. ShowGood(moved) /\ moved.auto = s.auto
    BY <1>4, <1>5, <1>6, <1>7, <1>8 DEF ShowGood
<1> HIDE DEF moved
<1>10. CASE s.auto
    BY <1>3, <1>9, <1>10, RotatesGood DEF ShowGood
<1>11. CASE ~s.auto
    BY <1>3, <1>9, <1>11
<1>12. QED
    BY <1>10, <1>11

LEMMA ShowCounted ==
    ASSUME NEW s, ShowGood(s)
    PROVE  ShowGood([s EXCEPT !.clicks = @ + 1])
<1> DEFINE k == [s EXCEPT !.clicks = @ + 1]
<1>0. s \in ShowType /\ s.clicks + 1 \in Nat
    BY DEF ShowGood, ShowType
<1>1. k \in ShowType
    BY <1>0 DEF ShowType
<1>2. k.curr = s.curr /\ k.dot = s.dot
    BY <1>0 DEF ShowType
<1>3. k.auto = s.auto
    BY <1>0 DEF ShowType
<1>4. k.timer = s.timer
    BY <1>0 DEF ShowType
<1>5. k.paused = s.paused
    BY <1>0 DEF ShowType
<1> HIDE DEF k
<1>6. ShowGood(k)
    BY <1>1, <1>2, <1>3, <1>4, <1>5 DEF ShowGood
<1>7. QED
    BY <1>6 DEF k

LEMMA ShowKept == ShowGood(show) /\ ShowNext => ShowGood(show')
<1> SUFFICES ASSUME ShowGood(show), ShowNext PROVE ShowGood(show')
    OBVIOUS
<1>0. show \in ShowType /\ show.dot = show.curr /\ show.curr \in Int /\ Scroll \in Int /\ Positions \subseteq Int
    BY SlidesAssumption DEF ShowGood, ShowType, Positions
<1>1. CASE ShowClick
  <2>1. CASE \E i \in Positions : show' = [ShowGo(show, i) EXCEPT !.clicks = @ + 1]
    <3>1. PICK i \in Positions : show' = [ShowGo(show, i) EXCEPT !.clicks = @ + 1]
        BY <2>1
    <3>2. i \in Int
        BY <1>0, <3>1
    <3>3. QED
        BY <3>1, <3>2, ShowGoGood, ShowCounted
  <2>2. CASE show' = [ShowGo(show, show.curr - Scroll) EXCEPT !.clicks = @ + 1]
    <3>1. show.curr - Scroll \in Int
        BY <1>0
    <3>2. QED
        BY <2>2, <3>1, ShowGoGood, ShowCounted
  <2>3. CASE show' = [ShowGo(show, show.curr + Scroll) EXCEPT !.clicks = @ + 1]
    <3>1. show.curr + Scroll \in Int
        BY <1>0
    <3>2. QED
        BY <2>3, <3>1, ShowGoGood, ShowCounted
  <2>4. CASE show' = [startRotateTimer(show) EXCEPT !.clicks = @ + 1]
    BY <1>0, <2>4, RotatesGood, ShowCounted
  <2>5. CASE show' = [pauseRotateTimer(show) EXCEPT !.clicks = @ + 1]
    BY <1>0, <2>5, RotatesGood, ShowCounted
  <2>6. QED
    BY Zenon, <1>1, <2>1, <2>2, <2>3, <2>4, <2>5 DEF ShowClick
<1>2. CASE ShowTick
  <2> DEFINE to == IF show.curr = Slides - 1 THEN 0 ELSE show.curr + Scroll
  <2>1. show' = ShowGo(show, to)
    BY <1>2 DEF ShowTick
  <2>2. to \in Int
    BY <1>0
  <2> HIDE DEF to
  <2>3. QED
    BY <2>1, <2>2, ShowGoGood
<1>3. CASE ShowSettle
  <2> DEFINE k == [show EXCEPT !.running = FALSE]
  <2>0. show' = k
    BY <1>3 DEF ShowSettle
  <2>1. k \in ShowType
    BY <1>0 DEF ShowType
  <2>2. k.curr = show.curr /\ k.dot = show.dot
    BY <1>0 DEF ShowType
  <2>3. k.auto = show.auto
    BY <1>0 DEF ShowType
  <2>4. k.timer = show.timer
    BY <1>0 DEF ShowType
  <2>5. k.paused = show.paused
    BY <1>0 DEF ShowType
  <2> HIDE DEF k
  <2>6. ShowGood(k)
    BY <2>1, <2>2, <2>3, <2>4, <2>5 DEF ShowGood
  <2>7. QED
    BY <2>0, <2>6
<1>4. QED
    BY <1>1, <1>2, <1>3 DEF ShowNext

LEMMA ShowStarts == ASSUME NEW auto \in BOOLEAN, NEW start \in Positions PROVE ShowGood(ShowAt(auto, start))
BY DEF ShowAt, ShowGood, ShowType
-----------------------------------------------------------------------------
ListGood(l) ==
    l \in [curr : Positions, running : BOOLEAN, active : Positions, clicks : Nat] /\ l.active = l.curr

LEMMA ListKept == ListGood(list) /\ ListNext => ListGood(list')
<1> SUFFICES ASSUME ListGood(list), ListNext PROVE ListGood(list')
    OBVIOUS
<1>0. list.clicks + 1 \in Nat
    BY DEF ListGood
<1>1. CASE ListClick
  <2>1. PICK i \in Positions :
           list' = IF list.running THEN [list EXCEPT !.clicks = @ + 1]
                   ELSE [curr |-> i, running |-> TRUE, active |-> i, clicks |-> list.clicks + 1]
    BY <1>1 DEF ListClick
  <2>2. CASE list' = [list EXCEPT !.clicks = @ + 1]
    BY <1>0, <2>2 DEF ListGood
  <2>3. CASE list' = [curr |-> i, running |-> TRUE, active |-> i, clicks |-> list.clicks + 1]
    BY <1>0, <2>1, <2>3 DEF ListGood
  <2>4. QED
    BY <2>1, <2>2, <2>3
<1>2. CASE ListSettle
  BY <1>2 DEF ListSettle, ListGood
<1>3. QED
  BY <1>1, <1>2 DEF ListNext
-----------------------------------------------------------------------------
CarouselType ==
    [current : Positions, active : SUBSET Positions, out : SUBSET Positions, dot : Positions,
     timer : BOOLEAN, due : BOOLEAN, from : 0 .. 2, last : 0 .. 2, clicks : Nat]

(* The active frame is the current one, and not on its way out.              *)
CarouselGood(c) ==
    /\ c \in CarouselType
    /\ c.active = {c.current} /\ c.dot = c.current /\ c.current \notin c.out

SameFrames(c, d) == c.current = d.current /\ c.active = d.active /\ c.dot = d.dot /\ c.out = d.out

LEMMA SameCarousel ==
    ASSUME NEW c, CarouselGood(c), NEW d \in CarouselType, SameFrames(d, c)
    PROVE  CarouselGood(d)
BY DEF CarouselGood, SameFrames

LEMMA CarouselGoGood ==
    ASSUME NEW c, CarouselGood(c), NEW next \in -1 .. Slides
    PROVE  CarouselGood(CarouselGo(c, next))
<1> DEFINE n == Frame(next)
           active == Toggled(Toggled(c.active, c.current), n)
           out == Toggled(c.out \ {n}, c.current)
           d == [c EXCEPT !.current = n, !.dot = n, !.active = active, !.out = out]
<1>0. c \in CarouselType
    BY DEF CarouselGood
<1>1. n \in Positions
    BY SlidesAssumption DEF Frame, Positions
<1>2. CarouselGo(c, next) = IF n = c.current THEN c ELSE d
    BY <1>0 DEF CarouselGo, CarouselType
<1>3. CASE n = c.current
    BY <1>2, <1>3
<1>4. CASE n # c.current
  <2> HIDE DEF n
  <2>1. active = {n}
    BY <1>4 DEF Toggled, CarouselGood
  <2>2. out \subseteq Positions /\ n \notin out
    BY <1>0, <1>4 DEF Toggled, CarouselType
  <2> HIDE DEF active, out
  <2>3. d \in CarouselType
    BY <1>0, <1>1, <2>1, <2>2 DEF CarouselType
  <2>4. d.current = n /\ d.dot = n /\ d.active = active /\ d.out = out
    BY <1>0 DEF CarouselType
  <2> HIDE DEF d
  <2>5. CarouselGood(d)
    BY <2>1, <2>2, <2>3, <2>4 DEF CarouselGood
  <2>6. QED
    BY <1>2, <1>4, <2>5
<1>5. QED
    BY <1>3, <1>4

LEMMA CarouselCounted ==
    ASSUME NEW c, CarouselGood(c)
    PROVE  CarouselGood([c EXCEPT !.clicks = @ + 1]) /\ CarouselGood([c EXCEPT !.due = FALSE])
<1>0. c \in CarouselType /\ c.clicks + 1 \in Nat
    BY DEF CarouselGood, CarouselType
<1>1. [c EXCEPT !.clicks = @ + 1] \in CarouselType
    BY <1>0 DEF CarouselType
<1>2. SameFrames([c EXCEPT !.clicks = @ + 1], c)
    BY <1>0 DEF CarouselType, SameFrames
<1>3. [c EXCEPT !.due = FALSE] \in CarouselType
    BY <1>0 DEF CarouselType
<1>4. SameFrames([c EXCEPT !.due = FALSE], c)
    BY <1>0 DEF CarouselType, SameFrames
<1>5. QED
    BY <1>1, <1>2, <1>3, <1>4, SameCarousel

LEMMA CarouselKept == CarouselGood(carousel) /\ CarouselNext => CarouselGood(carousel')
<1> SUFFICES ASSUME CarouselGood(carousel), CarouselNext PROVE CarouselGood(carousel')
    OBVIOUS
<1>0. carousel \in CarouselType /\ carousel.clicks + 1 \in Nat
    BY DEF CarouselGood, CarouselType
<1>a. /\ Positions \subseteq -1 .. Slides
      /\ carousel.current - 1 \in -1 .. Slides /\ carousel.current + 1 \in -1 .. Slides
    BY <1>0, SlidesAssumption DEF CarouselType, Positions
<1>1. CASE CarouselHover
  <2>1. carousel' = [carousel EXCEPT !.timer = FALSE, !.due = FALSE, !.clicks = @ + 1]
    BY <1>1 DEF CarouselHover
  <2>2. carousel' \in CarouselType
    BY <1>0, <2>1 DEF CarouselType
  <2>3. SameFrames(carousel', carousel)
    BY <1>0, <2>1 DEF CarouselType, SameFrames
  <2>4. QED
    BY <2>2, <2>3, SameCarousel
<1>2. CASE CarouselUnhover
  <2>1. CASE carousel' = [carousel EXCEPT !.clicks = @ + 1]
    BY <2>1, CarouselCounted
  <2>2. CASE carousel' = [carousel EXCEPT !.timer = TRUE, !.due = TRUE, !.clicks = @ + 1]
    <3>2. carousel' \in CarouselType
      BY <1>0, <2>2 DEF CarouselType
    <3>3. SameFrames(carousel', carousel)
      BY <1>0, <2>2 DEF CarouselType, SameFrames
    <3>4. QED
      BY <3>2, <3>3, SameCarousel
  <2>3. QED
    BY Zenon, <1>2, <2>1, <2>2 DEF CarouselUnhover
<1>3. CASE CarouselTick
  <2>1. carousel' = [CarouselGo(carousel, carousel.current + 1) EXCEPT !.due = FALSE]
    BY <1>3 DEF CarouselTick
  <2>2. QED
    BY <1>a, <2>1, CarouselGoGood, CarouselCounted
<1>4. CASE CarouselClick
  <2>1. PICK next \in Positions \union {carousel.current - 1, carousel.current + 1} :
           carousel' = [CarouselGo(carousel, next) EXCEPT !.clicks = @ + 1]
    BY <1>4 DEF CarouselClick
  <2>2. next \in -1 .. Slides
    BY <1>a, <2>1
  <2>3. QED
    BY <2>1, <2>2, CarouselGoGood, CarouselCounted
<1>5. CASE CarouselTouch
  <2>1. PICK from \in 0 .. 2, moves \in BOOLEAN, to \in 0 .. 2 :
           LET final == IF moves THEN to ELSE carousel.last
               touched == [carousel EXCEPT !.from = from, !.last = final, !.clicks = @ + 1]
           IN  carousel' = IF final > from THEN CarouselGo(touched, carousel.current - 1)
                           ELSE IF final < from THEN CarouselGo(touched, carousel.current + 1)
                           ELSE touched
    BY <1>5 DEF CarouselTouch
  <2> DEFINE final == IF moves THEN to ELSE carousel.last
             touched == [carousel EXCEPT !.from = from, !.last = final, !.clicks = @ + 1]
  <2>2. \/ carousel' = CarouselGo(touched, carousel.current - 1)
        \/ carousel' = CarouselGo(touched, carousel.current + 1)
        \/ carousel' = touched
    BY <2>1
  <2>3. final \in 0 .. 2
    BY <1>0, <2>1 DEF CarouselType
  <2> HIDE DEF final
  <2>4. touched \in CarouselType
    BY <1>0, <2>1, <2>3 DEF CarouselType
  <2>5. SameFrames(touched, carousel)
    BY <1>0 DEF CarouselType, SameFrames
  <2> HIDE DEF touched
  <2>6. CarouselGood(touched)
    BY <2>4, <2>5, SameCarousel
  <2>7. QED
    BY <1>a, <2>2, <2>6, CarouselGoGood
<1>6. QED
  BY <1>1, <1>2, <1>3, <1>4, <1>5 DEF CarouselNext
-----------------------------------------------------------------------------
ScreensGood(s) == s \in [cur : Positions, shown : SUBSET Positions] /\ s.shown = {s.cur}

LEMMA ScreensKept == ScreensGood(screens) /\ ScreensNext => ScreensGood(screens')
<1> SUFFICES ASSUME ScreensGood(screens), ScreensNext PROVE ScreensGood(screens')
    OBVIOUS
<1>1. PICK to \in Positions : ScreensTo(to)
    BY SlidesAssumption DEF ScreensNext, Positions, ScreensGood
<1>2. QED
    BY <1>1 DEF ScreensTo, ScreensGood

TabsGood(t) ==
    /\ t \in [items : SUBSET Positions, views : SUBSET Positions]
    /\ t.items = t.views
    /\ t.items = {} \/ \E i \in Positions : t.items = {i}

LEMMA TabsKept == TabsGood(tabs) /\ TabsNext => TabsGood(tabs')
<1> SUFFICES ASSUME TabsGood(tabs), TabsNext PROVE TabsGood(tabs')
    OBVIOUS
<1>1. PICK i \in Positions : changeTabs(i)
    BY DEF TabsNext
<1>2. CASE i \in tabs.items
    BY <1>1, <1>2 DEF changeTabs, TabsGood
<1>3. CASE i \notin tabs.items
    BY <1>1, <1>3 DEF changeTabs, TabsGood
<1>4. QED
    BY <1>2, <1>3
-----------------------------------------------------------------------------
Waypoints == {-1, 0, 1}

StripType ==
    [cur : Positions, left : [Positions -> Waypoints], queue : [Positions -> Seq(Waypoints)],
     light : Positions, lights : Seq(Positions), clicks : Nat]

(* Where a tab is once its animations have ended, and what is lit then.      *)
Ends(place, queue) == IF queue = <<>> THEN place ELSE queue[Len(queue)]

StripGood(s) ==
    /\ s \in StripType
    /\ \A i \in Positions : (Ends(s.left[i], s.queue[i]) = 0) <=> (i = s.cur)
    /\ Ends(s.light, s.lights) = s.cur

LEMMA EndsOfAppend ==
    ASSUME NEW S, NEW q \in Seq(S), NEW x \in S, NEW place
    PROVE  Append(q, x) \in Seq(S) /\ Ends(place, Append(q, x)) = x
BY LastOfAppend DEF Ends

LEMMA EndsOfTail ==
    ASSUME NEW S, NEW q \in Seq(S), q # <<>>, NEW place
    PROVE  Tail(q) \in Seq(S) /\ Head(q) \in S /\ Ends(Head(q), Tail(q)) = Ends(place, q)
BY LastOfTail DEF Ends

LEMMA StripKept == StripGood(strip) /\ StripNext => StripGood(strip')
<1> SUFFICES ASSUME StripGood(strip), StripNext PROVE StripGood(strip')
    OBVIOUS
<1>0. strip \in StripType /\ strip.clicks + 1 \in Nat /\ strip.cur \in Positions
    BY DEF StripGood, StripType
<1>1. CASE StripClick
  <2>1. PICK to \in Positions \ {strip.cur} : transitionWidget(to)
    BY <1>1 DEF StripClick
  <2> DEFINE dir == IF to > strip.cur THEN 1 ELSE -1
             left == [strip.left EXCEPT ![to] = dir]
             queue == [strip.queue EXCEPT ![strip.cur] = Append(@, -dir), ![to] = Append(@, 0)]
             lights == Append(strip.lights, to)
             s == [strip EXCEPT !.cur = to, !.clicks = @ + 1, !.left = left, !.queue = queue,
                                !.lights = lights]
  <2>2. strip' = s
    <3>1. strip' = [strip EXCEPT
                      !.cur = to, !.clicks = @ + 1, !.left[to] = dir,
                      !.queue = queue,
                      !.lights = Append(@, to)]
      BY <2>1 DEF transitionWidget
    <3> HIDE DEF dir
    <3> HIDE DEF queue
    <3>2. QED
      BY <1>0, <2>1, <3>1 DEF StripType
  <2>3. dir \in {-1, 1} /\ -dir \in {-1, 1}
    <3>1. dir = 1 \/ dir = -1
      OBVIOUS
    <3> HIDE DEF dir
    <3>2. QED
      BY <3>1
  <2>4. left \in [Positions -> Waypoints]
    BY <1>0, <2>3 DEF StripType, Waypoints
  <2>5. /\ Append(strip.queue[strip.cur], -dir) \in Seq(Waypoints)
        /\ Ends(left[strip.cur], Append(strip.queue[strip.cur], -dir)) = -dir
        /\ Append(strip.queue[to], 0) \in Seq(Waypoints)
        /\ Ends(left[to], Append(strip.queue[to], 0)) = 0
    <3>1. -dir \in Waypoints /\ 0 \in Waypoints
      BY <2>3 DEF Waypoints
    <3>2. strip.queue[strip.cur] \in Seq(Waypoints) /\ strip.queue[to] \in Seq(Waypoints)
      BY <1>0, <2>1 DEF StripType
    <3> HIDE DEF dir, left
    <3>3. QED
      BY <3>1, <3>2, EndsOfAppend
  <2>6. /\ queue \in [Positions -> Seq(Waypoints)]
        /\ queue[strip.cur] = Append(strip.queue[strip.cur], -dir)
        /\ queue[to] = Append(strip.queue[to], 0)
        /\ \A i \in Positions \ {to, strip.cur} : queue[i] = strip.queue[i] /\ left[i] = strip.left[i]
    <3> HIDE DEF dir
    <3>1. QED
      BY <1>0, <2>1, <2>5 DEF StripType
  <2>7. lights \in Seq(Positions) /\ Ends(strip.light, lights) = to
    BY <1>0, <2>1, EndsOfAppend DEF StripType
  <2> HIDE DEF dir, left, queue, lights
  <2>8. s \in StripType
    BY <1>0, <2>1, <2>4, <2>6, <2>7 DEF StripType
  <2>9. s.cur = to /\ s.left = left /\ s.queue = queue /\ s.lights = lights /\ s.light = strip.light
    BY <1>0 DEF StripType
  <2> HIDE DEF s
  <2>10. ASSUME NEW i \in Positions
         PROVE  (Ends(left[i], queue[i]) = 0) <=> (i = to)
    <3>1. CASE i = to
      BY <2>5, <2>6, <3>1
    <3>2. CASE i = strip.cur
      <4>1. Ends(left[i], queue[i]) = -dir /\ i # to
        BY <2>1, <2>5, <2>6, <3>2
      <4>2. -dir # 0
        BY <2>3
      <4>3. QED
        BY <4>1, <4>2
    <3>3. CASE i # to /\ i # strip.cur
      BY <2>6, <3>3 DEF StripGood
    <3>4. QED
      BY <3>1, <3>2, <3>3
  <2>11. StripGood(s)
    BY <2>7, <2>8, <2>9, <2>10 DEF StripGood
  <2>12. QED
    BY <2>2, <2>11
<1>2. CASE StripSettle
  <2>1. CASE \E i \in Positions :
               /\ strip.queue[i] # <<>>
               /\ strip' = [strip EXCEPT !.left[i] = Head(strip.queue[i]), !.queue[i] = Tail(@)]
    <3>1. PICK i \in Positions :
               /\ strip.queue[i] # <<>>
               /\ strip' = [strip EXCEPT !.left[i] = Head(strip.queue[i]), !.queue[i] = Tail(@)]
      BY <2>1
    <3> DEFINE left == [strip.left EXCEPT ![i] = Head(strip.queue[i])]
               queue == [strip.queue EXCEPT ![i] = Tail(@)]
               s == [strip EXCEPT !.left = left, !.queue = queue]
    <3>2. strip' = s
      BY <3>1, <1>0 DEF StripType
    <3>3. strip.queue[i] \in Seq(Waypoints)
      BY <1>0 DEF StripType
    <3>4. /\ Tail(strip.queue[i]) \in Seq(Waypoints) /\ Head(strip.queue[i]) \in Waypoints
          /\ Ends(Head(strip.queue[i]), Tail(strip.queue[i])) = Ends(strip.left[i], strip.queue[i])
      BY <3>1, <3>3, EndsOfTail
    <3>5. left \in [Positions -> Waypoints] /\ queue \in [Positions -> Seq(Waypoints)]
      BY <1>0, <3>4 DEF StripType
    <3>6. \A j \in Positions : Ends(left[j], queue[j]) = Ends(strip.left[j], strip.queue[j])
      BY <1>0, <3>4 DEF StripType
    <3> HIDE DEF left, queue
    <3>7. s \in StripType
      BY <1>0, <3>5 DEF StripType
    <3>8. s.cur = strip.cur /\ s.left = left /\ s.queue = queue /\ s.lights = strip.lights /\ s.light = strip.light
      BY <1>0 DEF StripType
    <3> HIDE DEF s
    <3>9. QED
      BY <3>2, <3>6, <3>7, <3>8 DEF StripGood
  <2>2. CASE /\ strip.lights # <<>>
             /\ strip' = [strip EXCEPT !.light = Head(strip.lights), !.lights = Tail(@)]
    <3>1. strip.lights \in Seq(Positions)
      BY <1>0 DEF StripType
    <3>2. /\ Tail(strip.lights) \in Seq(Positions) /\ Head(strip.lights) \in Positions
          /\ Ends(Head(strip.lights), Tail(strip.lights)) = Ends(strip.light, strip.lights)
      BY <2>2, <3>1, EndsOfTail
    <3>3. strip' \in StripType
      BY <1>0, <2>2, <3>2 DEF StripType
    <3>4. /\ strip'.cur = strip.cur /\ strip'.left = strip.left /\ strip'.queue = strip.queue
          /\ strip'.light = Head(strip.lights) /\ strip'.lights = Tail(strip.lights)
      BY <1>0, <2>2 DEF StripType
    <3>5. QED
      BY <3>2, <3>3, <3>4 DEF StripGood
  <2>3. QED
    BY <1>2, <2>1, <2>2 DEF StripSettle
<1>3. QED
  BY <1>1, <1>2 DEF StripNext
-----------------------------------------------------------------------------
SlidesInv ==
    /\ ShowGood(show) /\ ListGood(list) /\ CarouselGood(carousel)
    /\ ScreensGood(screens) /\ StripGood(strip) /\ TabsGood(tabs)

LEMMA SlidesStart == PagesInit => SlidesInv
<1> SUFFICES ASSUME PagesInit PROVE SlidesInv
    OBVIOUS
<1>0. 0 \in Positions
    BY SlidesAssumption DEF Positions
<1>1. ShowGood(show)
    BY <1>0, ShowStarts DEF PagesInit, ShowInit
<1>2. ListGood(list)
    BY <1>0 DEF PagesInit, ListInit, ListGood
<1>3. CarouselGood(carousel)
  <2>1. carousel = [current |-> 0, active |-> {0}, out |-> {}, dot |-> 0,
                    timer |-> FALSE, due |-> FALSE, from |-> 0, last |-> 0, clicks |-> 0]
    BY DEF PagesInit, CarouselInit
  <2>2. carousel \in CarouselType
    BY <1>0, <2>1 DEF CarouselType
  <2>3. QED
    BY <2>1, <2>2 DEF CarouselGood
<1>4. ScreensGood(screens)
    BY <1>0 DEF PagesInit, ScreensInit, ScreensGood
<1>5. StripGood(strip)
  <2> DEFINE left == [i \in Positions |-> IF i > 0 THEN 1 ELSE 0]
             queue == [i \in Positions |-> <<>>]
  <2>1. strip = [cur |-> 0, left |-> left, queue |-> queue, light |-> 0, lights |-> <<>>, clicks |-> 0]
    BY DEF PagesInit, StripInit
  <2>2. left \in [Positions -> Waypoints]
    BY DEF Waypoints
  <2>3. queue \in [Positions -> Seq(Waypoints)]
    OBVIOUS
  <2>4. \A i \in Positions : (left[i] = 0) <=> (i = 0)
    BY DEF Positions
  <2>5. \A i \in Positions : Ends(left[i], queue[i]) = left[i]
    BY DEF Ends
  <2>5a. Ends(0, <<>>) = 0 /\ <<>> \in Seq(Positions)
    BY DEF Ends
  <2> HIDE DEF left, queue
  <2>6. strip \in StripType
    BY <1>0, <2>1, <2>2, <2>3, <2>5a DEF StripType
  <2>7. QED
    BY <2>1, <2>4, <2>5, <2>5a, <2>6 DEF StripGood
<1>6. TabsGood(tabs)
    BY <1>0 DEF PagesInit, TabsInit, TabsGood
<1>7. QED
    BY <1>1, <1>2, <1>3, <1>4, <1>5, <1>6 DEF SlidesInv

LEMMA SlidesKept == SlidesInv /\ [PagesNext]_pagesVars => SlidesInv'
<1> SUFFICES ASSUME SlidesInv, [PagesNext]_pagesVars PROVE SlidesInv'
    OBVIOUS
<1>0. SlidesSteps
    BY PagesMoveSlides
<1>1. ShowGood(show')
    BY Zenon, <1>0, ShowKept DEF SlidesInv, SlidesSteps
<1>2. ListGood(list')
    BY Zenon, <1>0, ListKept DEF SlidesInv, SlidesSteps
<1>3. CarouselGood(carousel')
    BY Zenon, <1>0, CarouselKept DEF SlidesInv, SlidesSteps
<1>4. ScreensGood(screens')
    BY Zenon, <1>0, ScreensKept DEF SlidesInv, SlidesSteps
<1>5. StripGood(strip')
    BY Zenon, <1>0, StripKept DEF SlidesInv, SlidesSteps
<1>6. TabsGood(tabs')
    BY Zenon, <1>0, TabsKept DEF SlidesInv, SlidesSteps
<1>7. QED
    BY <1>1, <1>2, <1>3, <1>4, <1>5, <1>6 DEF SlidesInv

LEMMA SlidesInvIsHonest == SlidesInv => SlidesHonest
<1> SUFFICES ASSUME SlidesInv PROVE SlidesHonest
    OBVIOUS
<1>1. PauseHonest
    BY DEF SlidesInv, ShowGood, PauseHonest
<1>2. show.curr \in Positions /\ show.dot = show.curr
    BY DEF SlidesInv, ShowGood, ShowType
<1>3. list.active = list.curr /\ screens.shown = {screens.cur}
    BY DEF SlidesInv, ListGood, ScreensGood
<1>4. carousel.active = {carousel.current} /\ carousel.dot = carousel.current /\ carousel.current \notin carousel.out
    BY DEF SlidesInv, CarouselGood
<1>5. ASSUME \A i \in Positions : strip.queue[i] = <<>>, strip.lights = <<>>
      PROVE  {i \in Positions : strip.left[i] = 0} = {strip.cur} /\ strip.light = strip.cur
  <2>1. strip.cur \in Positions
    BY DEF SlidesInv, StripGood, StripType
  <2>2. \A i \in Positions : (strip.left[i] = 0) <=> (i = strip.cur)
    BY <1>5 DEF SlidesInv, StripGood, Ends
  <2>3. strip.light = strip.cur
    BY <1>5 DEF SlidesInv, StripGood, Ends
  <2>4. QED
    BY <2>1, <2>2, <2>3
<1>6. tabs.items = tabs.views /\ Cardinality(tabs.items) <= 1
  <2>1. tabs.items = {} \/ \E i \in Positions : tabs.items = {i}
    BY DEF SlidesInv, TabsGood
  <2>2. Cardinality(tabs.items) \in {0, 1}
    BY <2>1, FS_EmptySet, FS_Singleton
  <2>3. QED
    BY <2>2 DEF SlidesInv, TabsGood
<1>7. OneThingShown
    BY <1>2, <1>3, <1>4, <1>5, <1>6 DEF OneThingShown
<1>8. QED
    BY <1>1, <1>7 DEF SlidesHonest

(* Whatever the order of clicks, timers and ends of animations, and for      *)
(* every number of slides: a widget of docs.js that shows one thing shows    *)
(* one, and marks it, and a slide show that says it is paused is.            *)
THEOREM SlidesStayHonest == PagesSpec => []SlidesHonest
<1>1. PagesSpec => []SlidesInv
    BY SlidesStart, SlidesKept, PTL DEF PagesSpec
<1>2. QED
    BY <1>1, SlidesInvIsHonest, PTL

-----------------------------------------------------------------------------
(* The table of suggestions.                                                *)

(* A session moves the suggestions by a step of the cards or of the table.   *)
CompleteSteps == [SuggestNext]_suggest /\ [TableNext]_table

LEMMA PagesMoveComplete == [PagesNext]_pagesVars => CompleteSteps
<1> SUFFICES ASSUME [PagesNext]_pagesVars PROVE CompleteSteps
  OBVIOUS
<1>1. CASE CompleteStep
  BY Zenon, <1>1 DEF CompleteStep, CompleteSteps
<1>2. CompleteStep \/ UNCHANGED completeVars
  BY Zenon DEF PagesNext, pagesVars, SlidesStep, ListsStep, LoadsStep, NavStep, FrameStep, TreeStep,
        TogglesStep, QueryStep, SiteStep, MatchStep, PanesStep
<1>3. CASE UNCHANGED completeVars
  BY Zenon, <1>3 DEF completeVars, CompleteSteps
<1>4. QED
  BY <1>1, <1>2, <1>3
-----------------------------------------------------------------------------
(* The table.                                                                *)
TableFields == {"matches", "index", "id", "lit", "pointer", "open", "keys"}

TableGood(t) ==
    /\ DOMAIN t = TableFields
    /\ t.matches \in Seq(Nat) /\ t.index \in Int /\ t.index >= -1 /\ t.index < Len(t.matches)
    /\ t.index \in TableRows(t) => t.matches[t.index + 1] = t.id
    /\ t.lit \intersect TableRows(t) \subseteq {t.index, t.pointer}

LEMMA RowsOfTable ==
    ASSUME NEW t, t.matches \in Seq(Nat)
    PROVE  /\ \A i \in Int : i \in TableRows(t) <=> 0 <= i /\ i < Len(t.matches) /\ i < ROW_COUNT
           /\ TableRows(t) \subseteq Int
<1>1. Len(t.matches) \in Nat /\ ROW_COUNT \in Nat
    BY CompleteAssumption
<1>2. QED
    BY <1>1 DEF TableRows

LEMMA SyncTableGood ==
    ASSUME NEW t, DOMAIN t = TableFields, t.matches \in Seq(Nat), t.index \in Int, t.index >= -1,
           t.index < Len(t.matches)
    PROVE  TableGood(SyncTable(t))
<1> DEFINE r == SyncTable(t)
           rows == TableRows(t)
<1>1. /\ DOMAIN r = TableFields
      /\ r.matches = t.matches /\ r.index = t.index
      /\ r.lit = (t.lit \ rows) \union ({t.index} \intersect rows)
      /\ r.id = IF t.index \in rows THEN t.matches[t.index + 1] ELSE -1
    BY DEF SyncTable, TableFields
<1> HIDE DEF r
<1>2. TableRows(r) = rows
    BY <1>1 DEF TableRows
<1>3. QED
    BY <1>1, <1>2 DEF TableGood, r

LEMMA TableKept == TableGood(table) /\ TableNext => TableGood(table')
<1> SUFFICES ASSUME TableGood(table), TableNext PROVE TableGood(table')
    OBVIOUS
<1>0. /\ DOMAIN table = TableFields /\ table.matches \in Seq(Nat) /\ table.index \in Int
      /\ table.index >= -1 /\ table.index < Len(table.matches) /\ Len(table.matches) \in Nat
    BY DEF TableGood
<1>1. CASE TableKeyUp
  <2>1. PICK matches \in TableTexts : table' = SyncTable(Reselected(table, matches))
    BY Zenon, <1>1 DEF TableKeyUp
  <2> DEFINE r == Reselected(table, matches)
             at == {i \in DOMAIN matches : matches[i] = table.id}
  <2>2. matches \in Seq(Nat) /\ DOMAIN matches = 1 .. Len(matches) /\ Len(matches) \in Nat
    BY CompleteAssumption
  <2>3. at # {} => (CHOOSE i \in at : TRUE) \in 1 .. Len(matches)
    BY <2>2
  <2>4. /\ DOMAIN r = TableFields /\ r.matches = matches
        /\ r.index = IF at = {} THEN -1 ELSE (CHOOSE i \in at : TRUE) - 1
    BY <1>0 DEF Reselected, TableFields
  <2> HIDE DEF r, at
  <2>5. r.index \in Int /\ r.index >= -1 /\ r.index < Len(r.matches)
    BY <2>2, <2>3, <2>4
  <2>6. TableGood(SyncTable(r))
    BY <2>2, <2>4, <2>5, SyncTableGood
  <2>7. QED
    BY <2>1, <2>6 DEF r
<1>2. CASE TableArrow
  <2>1. PICK i \in Int : /\ table' = SyncTable([table EXCEPT !.index = i])
                         /\ i >= -1 /\ i < Len(table.matches)
    <3>1. CASE table' = SyncTable([table EXCEPT !.index = IF @ >= 0 THEN @ - 1 ELSE @])
      <4> DEFINE i == IF table.index >= 0 THEN table.index - 1 ELSE table.index
      <4>1. i \in Int /\ i >= -1 /\ i < Len(table.matches)
        BY <1>0
      <4>2. table' = SyncTable([table EXCEPT !.index = i])
        BY Zenon, <3>1
      <4>3. QED
        BY Zenon, <4>1, <4>2
    <3>2. CASE table' = SyncTable([table EXCEPT !.index =
                   IF @ < Len(table.matches) - 1 /\ @ < ROW_COUNT - 1 THEN @ + 1 ELSE @])
      <4> DEFINE i == IF table.index < Len(table.matches) - 1 /\ table.index < ROW_COUNT - 1
                      THEN table.index + 1 ELSE table.index
      <4>1. i \in Int /\ i >= -1 /\ i < Len(table.matches)
        BY <1>0
      <4>2. table' = SyncTable([table EXCEPT !.index = i])
        BY Zenon, <3>2
      <4>3. QED
        BY Zenon, <4>1, <4>2
    <3>3. QED
      BY Zenon, <1>2, <3>1, <3>2 DEF TableArrow
  <2> DEFINE r == [table EXCEPT !.index = i]
  <2>2. DOMAIN r = TableFields /\ r.matches = table.matches /\ r.index = i
    BY <1>0 DEF TableFields
  <2> HIDE DEF r
  <2>3. TableGood(SyncTable(r))
    BY <1>0, <2>1, <2>2, SyncTableGood
  <2>4. QED
    BY <2>1, <2>3 DEF r
<1>3. CASE TableMouse
  <2>1. PICK row \in TableRows(table) \ {table.pointer} :
          table' = [table EXCEPT !.pointer = row, !.keys = @ + 1,
                     !.lit = IF table.index >= 0 THEN ((table.lit \ {table.pointer}) \union {row}) \ {table.index}
                             ELSE (table.lit \ {table.pointer}) \union {row},
                     !.index = IF table.index >= ROW_COUNT THEN @ ELSE -1]
    BY Zenon, <1>3 DEF TableMouse
  <2>2. /\ DOMAIN table' = TableFields /\ table'.matches = table.matches /\ table'.pointer = row
        /\ table'.lit = IF table.index >= 0 THEN ((table.lit \ {table.pointer}) \union {row}) \ {table.index}
                        ELSE (table.lit \ {table.pointer}) \union {row}
        /\ table'.index = IF table.index >= ROW_COUNT THEN table.index ELSE -1
    BY <1>0, <2>1 DEF TableFields
  <2>3. TableRows(table') = TableRows(table)
    BY <2>2 DEF TableRows
  <2>4. \A i \in Int : i \in TableRows(table) <=> 0 <= i /\ i < Len(table.matches) /\ i < ROW_COUNT
    BY <1>0, RowsOfTable
  <2>5. ROW_COUNT \in Nat \ {0}
    BY CompleteAssumption
  <2>6. table'.index \in Int /\ table'.index >= -1 /\ table'.index < Len(table.matches)
    BY <1>0, <2>2
  <2>7. table'.index \notin TableRows(table)
    BY <1>0, <2>2, <2>4, <2>5, <2>6
  <2>8. table'.lit \intersect TableRows(table) \subseteq {row}
    <3>1. table.lit \intersect TableRows(table) \subseteq {table.index, table.pointer}
      BY DEF TableGood
    <3>2. table.index < 0 => table.index \notin TableRows(table)
      BY <1>0, <2>4
    <3>3. CASE table.index >= 0
      BY <2>2, <3>1, <3>3
    <3>4. CASE table.index < 0
      BY <1>0, <2>2, <3>1, <3>2, <3>4
    <3>5. QED
      BY <1>0, <3>3, <3>4
  <2>9. QED
    BY <1>0, <2>2, <2>3, <2>6, <2>7, <2>8 DEF TableGood
<1>4. CASE TableClose
  <2>1. table' = [table EXCEPT !.open = FALSE, !.keys = @ + 1]
    BY Zenon, <1>4 DEF TableClose
  <2>2. DOMAIN table' = TableFields /\ \A f \in TableFields \ {"open", "keys"} : table'[f] = table[f]
    BY <1>0, <2>1 DEF TableFields
  <2>3. QED
    BY <2>2 DEF TableGood, TableRows, TableFields
<1>5. QED
    BY Zenon, <1>1, <1>2, <1>3, <1>4 DEF TableNext

LEMMA TableStarts == TableInit => TableGood(table)
<1> SUFFICES ASSUME TableInit PROVE TableGood(table)
    OBVIOUS
<1>1. /\ DOMAIN table = TableFields /\ table.matches = <<>> /\ table.index = -1 /\ table.lit = {}
    BY DEF TableInit, TableFields
<1>2. <<>> \in Seq(Nat) /\ Len(<<>>) = 0
    OBVIOUS
<1>3. -1 \notin TableRows(table)
  <2>1. table.matches \in Seq(Nat)
    BY <1>1, <1>2
  <2>2. \A i \in Int : i \in TableRows(table) <=> 0 <= i /\ i < Len(table.matches) /\ i < ROW_COUNT
    BY <2>1, RowsOfTable
  <2>3. QED
    BY <2>2
<1>4. QED
    BY <1>1, <1>2, <1>3 DEF TableGood

LEMMA TableGoodIsHonest == TableGood(table) => TableHonest
<1> SUFFICES ASSUME TableGood(table) PROVE TableHonest
    OBVIOUS
<1>1. \A i \in Int : i \in TableRows(table) <=> 0 <= i /\ i < Len(table.matches) /\ i < ROW_COUNT
    BY RowsOfTable DEF TableGood
<1>2. QED
    BY <1>1 DEF TableGood, TableHonest

-----------------------------------------------------------------------------
(* What is in the cards of suggestions.                                     *)

(* The list of a card: a heading is followed by a link.                      *)
CardEntries == {"header", "link"}
Headed(l) == \A i \in 1 .. Len(l) : l[i] = "header" => i + 1 \in 1 .. Len(l) /\ l[i + 1] = "link"
GoodList(l) == l \in Seq(CardEntries) /\ Headed(l)

LEMMA EmptyGood == GoodList(<<>>)
BY DEF GoodList, Headed

LEMMA ManyGood == ASSUME NEW n \in Nat PROVE GoodList(Many("link", n))
<1>1. Many("link", n) \in Seq(CardEntries) /\ Len(Many("link", n)) = n
    BY DEF Many, CardEntries
<1>2. \A i \in 1 .. n : Many("link", n)[i] = "link"
    BY DEF Many
<1>3. QED
    BY <1>1, <1>2 DEF GoodList, Headed

LEMMA SectionGood == ASSUME NEW n \in Nat PROVE GoodList(Section(n))
<1>1. CASE n = 0
    BY <1>1, EmptyGood DEF Section
<1>2. CASE n # 0
  <2> DEFINE l == Many("link", n)
  <2>1. l \in Seq(CardEntries) /\ Len(l) = n
    BY DEF Many, CardEntries
  <2>2. \A i \in 1 .. n : l[i] = "link"
    BY DEF Many
  <2>3. <<"header">> \in Seq(CardEntries) /\ Len(<<"header">>) = 1 /\ <<"header">>[1] = "header"
    BY DEF CardEntries
  <2> HIDE DEF l
  <2>4. <<"header">> \o l \in Seq(CardEntries) /\ Len(<<"header">> \o l) = n + 1
    BY <2>1, <2>3
  <2>5. \A i \in 1 .. n + 1 : (<<"header">> \o l)[i] = IF i = 1 THEN "header" ELSE l[i - 1]
    BY <2>1, <2>3
  <2>6. Headed(<<"header">> \o l)
    BY <1>2, <2>2, <2>4, <2>5 DEF Headed
  <2>7. QED
    BY <1>2, <2>4, <2>6 DEF GoodList, Section, l
<1>3. QED
    BY <1>1, <1>2

LEMMA JoinGood == ASSUME NEW k, NEW l, GoodList(k), GoodList(l) PROVE GoodList(k \o l)
<1> DEFINE j == k \o l
<1>1. /\ k \in Seq(CardEntries) /\ l \in Seq(CardEntries) /\ Len(k) \in Nat /\ Len(l) \in Nat
    BY DEF GoodList
<1>2. j \in Seq(CardEntries) /\ Len(j) = Len(k) + Len(l)
    BY <1>1
<1>3. \A i \in 1 .. Len(k) + Len(l) : j[i] = IF i <= Len(k) THEN k[i] ELSE l[i - Len(k)]
    BY <1>1
<1> HIDE DEF j
<1>4. ASSUME NEW i \in 1 .. Len(j), j[i] = "header" PROVE i + 1 \in 1 .. Len(j) /\ j[i + 1] = "link"
  <2>1. CASE i <= Len(k)
    <3>1. i \in 1 .. Len(k) /\ k[i] = "header"
      BY <1>1, <1>2, <1>3, <1>4, <2>1
    <3>2. i + 1 \in 1 .. Len(k) /\ k[i + 1] = "link"
      BY <3>1 DEF GoodList, Headed
    <3>3. QED
      BY <1>1, <1>2, <1>3, <3>2
  <2>2. CASE ~(i <= Len(k))
    <3>1. i - Len(k) \in 1 .. Len(l) /\ l[i - Len(k)] = "header"
      BY <1>1, <1>2, <1>3, <1>4, <2>2
    <3>2. i - Len(k) + 1 \in 1 .. Len(l) /\ l[i - Len(k) + 1] = "link"
      BY <3>1 DEF GoodList, Headed
    <3>3. i + 1 \in 1 .. Len(j) /\ ~(i + 1 <= Len(k)) /\ (i + 1) - Len(k) = i - Len(k) + 1
      BY <1>1, <1>2, <2>2, <3>2
    <3>4. QED
      BY <1>2, <1>3, <3>2, <3>3
  <2>3. QED
    BY <2>1, <2>2
<1>5. QED
    BY <1>2, <1>4 DEF GoodList, Headed, j

LEMMA ListOfGood == ASSUME NEW a \in Answers, NEW c \in Cards PROVE GoodList(ListOf(a, c))
<1>1. \A kind \in Kind : a[kind] \in Nat
    BY CompleteAssumption
<1>2. GoodList(Many("link", a["android"])) /\ GoodList(Section(a["google"])) /\ GoodList(Section(a["guides"]))
      /\ GoodList(Section(a["training"])) /\ GoodList(Section(a["samples"]))
      /\ GoodList(Section(a["design"])) /\ GoodList(Section(a["distribute"]))
    BY <1>1, ManyGood, SectionGood DEF Kind
<1>3. GoodList(Many("link", a["android"]) \o Section(a["google"]))
    BY <1>2, JoinGood
<1>4. GoodList(Section(a["guides"]) \o Section(a["training"]))
    BY <1>2, JoinGood
<1>5. GoodList((Section(a["guides"]) \o Section(a["training"])) \o Section(a["samples"]))
    BY <1>2, <1>4, JoinGood
<1> HIDE DEF Section, Many
<1>6. QED
    BY Zenon, <1>2, <1>3, <1>4, <1>5 DEF ListOf, Cards

(* The columns are cards, and the same as long as the same are displayed.    *)
LEMMA ColumnsAreCards ==
    ASSUME NEW s
    PROVE  /\ Columns(s) \in Seq(Cards)
           /\ \A t : t.shown = s.shown => Columns(t) = Columns(s)
<1>1. \A c \in Cards : CardColumn(s, c) \in Seq(Cards)
    BY DEF CardColumn
<1>2. "reference" \in Cards /\ "develop" \in Cards /\ "design" \in Cards /\ "distribute" \in Cards
    BY DEF Cards
<1>3. Columns(s) \in Seq(Cards)
    BY <1>1, <1>2 DEF Columns
<1>4. ASSUME NEW t, t.shown = s.shown PROVE Columns(t) = Columns(s)
    BY Zenon, <1>4 DEF Columns, CardColumn
<1>5. QED
    BY <1>3, <1>4

-----------------------------------------------------------------------------
(* The selection among the cards.                                           *)

SuggestFields == {"list", "shown", "queue", "wanted", "column", "index", "pane", "hasty", "shifted", "keys"}

ListsGood(lists) == DOMAIN lists = Cards /\ \A c \in Cards : GoodList(lists[c])

SuggestSound(s) ==
    /\ DOMAIN s = SuggestFields
    /\ ListsGood(s.list) /\ s.queue \in [Cards -> Seq({"show", "hide"})]
    /\ s.shown \in SUBSET Cards /\ s.wanted \in SUBSET Cards
    /\ s.column \in Int /\ s.index \in Int /\ s.index >= -1
    /\ s.hasty \in BOOLEAN /\ s.shifted \in BOOLEAN

(* The selection is a link unless the cards moved under it.                  *)
LinkSelected(s) ==
    s.index >= 0 /\ ~s.shifted =>
        /\ HasColumn(s)
        /\ s.index + 1 \in 1 .. Len(CardItems(s))
        /\ CardItems(s)[s.index + 1] = "link"

(* Whether a card will be on display when its animations have ended.         *)
WillShow(s, c) == IF s.queue[c] = <<>> THEN c \in s.shown ELSE s.queue[c][Len(s.queue[c])] = "show"
WantedCome(s) == ~s.hasty => \A c \in Cards : WillShow(s, c) <=> c \in s.wanted

SuggestGood(s) == SuggestSound(s) /\ LinkSelected(s) /\ WantedCome(s)

LEMMA ItemsGood ==
    ASSUME NEW s, SuggestSound(s), HasColumn(s)
    PROVE  GoodList(CardItems(s)) /\ Len(CardItems(s)) \in Nat /\ Column(s) \in Nat
           /\ DOMAIN CardItems(s) = 1 .. Len(CardItems(s))
<1>1. Columns(s) \in Seq(Cards)
    BY ColumnsAreCards
<1>2. Column(s) \in Nat /\ Column(s) < Len(Columns(s)) /\ Len(Columns(s)) \in Nat
    BY <1>1 DEF SuggestSound, Column, HasColumn
<1>3. Column(s) + 1 \in 1 .. Len(Columns(s))
    BY <1>2
<1>4. Columns(s)[Column(s) + 1] \in Cards
    BY <1>1, <1>3
<1>5. GoodList(CardItems(s))
    BY <1>4 DEF SuggestSound, ListsGood, CardItems
<1>6. QED
    BY <1>2, <1>5 DEF GoodList

(* A step of the selection only.                                             *)
SelectionOnly(s, t) ==
    /\ DOMAIN t = SuggestFields
    /\ \A f \in SuggestFields \ {"column", "index", "shifted", "keys", "pane"} : t[f] = s[f]

LEMMA SelectionMoves ==
    ASSUME NEW s, NEW t, SuggestGood(s), SelectionOnly(s, t), t.column \in Int, t.index \in Int,
           t.index >= -1, t.shifted \in BOOLEAN, LinkSelected(t)
    PROVE  SuggestGood(t)
<1>1. SuggestSound(t)
    BY DEF SuggestGood, SuggestSound, SelectionOnly, SuggestFields
<1>2. WantedCome(t)
    BY DEF SuggestGood, WantedCome, WillShow, SelectionOnly, SuggestFields
<1>3. QED
    BY <1>1, <1>2 DEF SuggestGood

(* The columns and what is in one, when the selection has moved.             *)
LEMMA SameColumns ==
    ASSUME NEW s, NEW t, SelectionOnly(s, t)
    PROVE  /\ Columns(t) = Columns(s)
           /\ Column(t) = Column(s) => CardItems(t) = CardItems(s) /\ (HasColumn(t) <=> HasColumn(s))
<1>1. t.shown = s.shown /\ t.list = s.list
    BY DEF SelectionOnly, SuggestFields
<1>2. Columns(t) = Columns(s)
    BY <1>1, ColumnsAreCards
<1>3. QED
    BY <1>1, <1>2 DEF CardItems, HasColumn

LEMMA DownGood ==
    ASSUME NEW s, SuggestGood(s), HasColumn(s)
    PROVE  SuggestGood(GoDown(s))
<1> DEFINE items == CardItems(s)
           i == IF IsHeader(s, s.index + 1) THEN s.index + 1 ELSE s.index
           to == IF i < Len(items) - 1 THEN i + 1 ELSE i
           t == GoDown(s)
<1>0. /\ SuggestSound(s) /\ DOMAIN s = SuggestFields /\ s.index \in Int /\ s.index >= -1 /\ s.column \in Int
      /\ s.shifted \in BOOLEAN
    BY DEF SuggestGood, SuggestSound
<1>1. GoodList(items) /\ Len(items) \in Nat /\ Column(s) \in Nat
    BY <1>0, ItemsGood
<1>2. t.column = Column(s) /\ t.index = to /\ t.shifted = s.shifted /\ SelectionOnly(s, t)
    BY <1>0 DEF GoDown, Use, SelectionOnly, SuggestFields
<1>3. IsHeader(s, s.index + 1) <=> s.index + 1 <= Len(items) - 1 /\ items[s.index + 2] = "header"
  <2>1. s.index + 1 \in 0 .. Len(items) - 1 <=> s.index + 1 <= Len(items) - 1
    BY <1>0, <1>1
  <2>2. (s.index + 1) + 1 = s.index + 2
    BY <1>0
  <2>3. QED
    BY <2>1, <2>2 DEF IsHeader
<1>4. Column(t) = Column(s)
    BY <1>1, <1>2 DEF Column
<1> HIDE DEF t, items
<1>5. Column(t) = Column(s) /\ CardItems(t) = items /\ HasColumn(t)
    BY <1>2, <1>4, SameColumns DEF items
<1>6. to \in Int /\ to >= -1
    BY <1>0, <1>1
<1>7. ASSUME to >= 0, ~s.shifted PROVE to + 1 \in 1 .. Len(items) /\ items[to + 1] = "link"
  <2>1. CASE IsHeader(s, s.index + 1)
    <3>1. s.index + 2 \in 1 .. Len(items) /\ items[s.index + 2] = "header"
      BY <1>0, <1>1, <1>3, <2>1
    <3>2. (s.index + 2) + 1 \in 1 .. Len(items) /\ items[(s.index + 2) + 1] = "link"
      BY <1>1, <3>1 DEF GoodList, Headed
    <3>3. i = s.index + 1 /\ to = s.index + 2
      BY <1>0, <1>1, <2>1, <3>2
    <3>4. QED
      BY <3>2, <3>3
  <2>2. CASE ~IsHeader(s, s.index + 1)
    <3>1. CASE s.index < Len(items) - 1
      <4>1. to = s.index + 1 /\ to + 1 = s.index + 2
        BY <1>0, <2>2, <3>1
      <4>2. s.index + 2 \in 1 .. Len(items) /\ items[s.index + 2] # "header"
        BY <1>0, <1>1, <1>3, <2>2, <3>1
      <4>3. items[s.index + 2] \in CardEntries
        BY <1>1, <4>2 DEF GoodList
      <4>4. QED
        BY <4>1, <4>2, <4>3 DEF CardEntries
    <3>2. CASE ~(s.index < Len(items) - 1)
      <4>1. to = s.index
        BY <2>2, <3>2
      <4>2. QED
        BY <1>7, <4>1 DEF SuggestGood, LinkSelected, items
    <3>3. QED
      BY <3>1, <3>2
  <2>3. QED
    BY <2>1, <2>2
<1> HIDE DEF to
<1>8. LinkSelected(t)
    BY <1>2, <1>5, <1>7 DEF LinkSelected
<1>9. SuggestGood(t)
    BY <1>1, <1>2, <1>6, <1>8, <1>0, SelectionMoves
<1>10. QED
    BY <1>9 DEF t

LEMMA UpGood ==
    ASSUME NEW s, SuggestGood(s), HasColumn(s)
    PROVE  SuggestGood(GoUp(s))
<1> DEFINE items == CardItems(s)
           i == IF IsHeader(s, s.index - 1) THEN s.index - 1 ELSE s.index
           to == IF i >= 0 THEN i - 1 ELSE s.index
           t == GoUp(s)
<1>0. /\ SuggestSound(s) /\ DOMAIN s = SuggestFields /\ s.index \in Int /\ s.index >= -1 /\ s.column \in Int
      /\ s.shifted \in BOOLEAN
    BY DEF SuggestGood, SuggestSound
<1>1. GoodList(items) /\ Len(items) \in Nat /\ Column(s) \in Nat
    BY <1>0, ItemsGood
<1>2. t.index = to /\ t.shifted = s.shifted /\ SelectionOnly(s, t) /\ t.column = IF i = 0 THEN -1 ELSE Column(s)
  <2>0. i \in Int
    BY <1>0
  <2>1. CASE i >= 0
    <3>1. t = [Use(s) EXCEPT !.index = i - 1, !.column = IF i = 0 THEN -1 ELSE Column(s)]
      BY Zenon, <2>1 DEF GoUp
    <3>2. QED
      BY <1>0, <2>1, <3>1 DEF Use, SelectionOnly, SuggestFields
  <2>2. CASE ~(i >= 0)
    <3>1. t = [Use(s) EXCEPT !.column = Column(s)]
      BY Zenon, <2>2 DEF GoUp
    <3>2. i # 0
      BY <2>0, <2>2
    <3>3. QED
      BY <1>0, <2>2, <3>1, <3>2 DEF Use, SelectionOnly, SuggestFields
  <2>3. QED
    BY <2>1, <2>2
<1>3. IsHeader(s, s.index - 1) <=> s.index - 1 >= 0 /\ s.index <= Len(items) /\ items[s.index] = "header"
  <2>1. s.index - 1 \in 0 .. Len(items) - 1 <=> s.index - 1 >= 0 /\ s.index <= Len(items)
    BY <1>0, <1>1
  <2>2. (s.index - 1) + 1 = s.index
    BY <1>0
  <2>3. QED
    BY <2>1, <2>2 DEF IsHeader
<1>4. i # 0 => Column(t) = Column(s)
    BY <1>1, <1>2 DEF Column
<1>5. to \in Int /\ to >= -1 /\ (to >= 0 => i # 0 /\ i >= 0)
    BY <1>0, <1>1, <1>3
<1> HIDE DEF t, items
<1>6. ASSUME to >= 0, ~s.shifted PROVE to + 1 \in 1 .. Len(items) /\ items[to + 1] = "link"
  <2>1. CASE IsHeader(s, s.index - 1)
    <3>1. s.index \in 1 .. Len(items) /\ items[s.index] = "header" /\ to = s.index - 2 /\ s.index >= 2
      BY <1>0, <1>1, <1>3, <1>6, <2>1
    <3>2. s.index - 1 \in 1 .. Len(items) /\ to + 1 = s.index - 1 /\ (s.index - 1) + 1 = s.index
      BY <1>0, <1>1, <3>1
    <3>3. items[s.index - 1] # "header"
      BY <1>1, <3>1, <3>2 DEF GoodList, Headed
    <3>4. items[s.index - 1] \in CardEntries
      BY <1>1, <3>2 DEF GoodList
    <3>5. QED
      BY <3>2, <3>3, <3>4 DEF CardEntries
  <2>2. CASE ~IsHeader(s, s.index - 1)
    <3>1. to = s.index - 1 /\ s.index >= 1 /\ to + 1 = s.index
      BY <1>0, <1>5, <1>6, <2>2
    <3>2. s.index + 1 \in 1 .. Len(items)
      BY <1>6, <3>1, <1>0 DEF SuggestGood, LinkSelected, items
    <3>3. s.index \in 1 .. Len(items) /\ items[s.index] # "header"
      BY <1>0, <1>1, <1>3, <2>2, <3>1, <3>2
    <3>4. items[s.index] \in CardEntries
      BY <1>1, <3>3 DEF GoodList
    <3>5. QED
      BY <3>1, <3>3, <3>4 DEF CardEntries
  <2>3. QED
    BY <2>1, <2>2
<1>7. i # 0 => CardItems(t) = items /\ HasColumn(t)
    BY <1>2, <1>4, SameColumns DEF items
<1> HIDE DEF to
<1>8. LinkSelected(t)
    BY <1>2, <1>5, <1>6, <1>7 DEF LinkSelected
<1>9. t.column \in Int
    BY <1>1, <1>2
<1>10. SuggestGood(t)
    BY <1>2, <1>5, <1>8, <1>9, <1>0, SelectionMoves
<1>11. QED
    BY <1>10 DEF t

LEMMA SidewaysGood ==
    ASSUME NEW s, SuggestGood(s), NEW to \in Nat, to < Len(Columns(s))
    PROVE  SuggestGood(Sideways(s, to))
<1> DEFINE there == [s EXCEPT !.column = to]
           items == CardItems(there)
           i == IF s.index > Len(items) - 1 THEN Len(items) - 1 ELSE s.index
           j == IF IsHeader(there, i) THEN i + 1 ELSE i
           t == Sideways(s, to)
<1>0. /\ SuggestSound(s) /\ DOMAIN s = SuggestFields /\ s.index \in Int /\ s.index >= -1 /\ s.shifted \in BOOLEAN
    BY DEF SuggestGood, SuggestSound
<1>1. there.column = to /\ SelectionOnly(s, there) /\ there.index = s.index /\ there.shifted = s.shifted
    BY <1>0 DEF SelectionOnly, SuggestFields
<1>2. SuggestSound(there)
    BY <1>0, <1>1 DEF SuggestSound, SelectionOnly, SuggestFields
<1> HIDE DEF there
<1>3. Columns(there) = Columns(s) /\ Column(there) = to /\ HasColumn(there)
    BY <1>1, SameColumns DEF Column, HasColumn
<1>4. GoodList(items) /\ Len(items) \in Nat
    BY <1>2, <1>3, ItemsGood
<1>5. t = [Use(there) EXCEPT !.index = j]
    BY Zenon DEF Sideways, there
<1> HIDE DEF t
<1>6. t.column = to /\ t.index = j /\ t.shifted = s.shifted /\ SelectionOnly(s, t) /\ SelectionOnly(there, t)
    BY <1>1, <1>5 DEF Use, SelectionOnly, SuggestFields
<1>7. Column(t) = Column(there)
    BY <1>1, <1>6 DEF Column
<1>8. CardItems(t) = items /\ HasColumn(t)
    BY <1>3, <1>6, <1>7, SameColumns
<1> HIDE DEF items
<1>9. i \in Int /\ i >= -1 /\ i <= Len(items) - 1 /\ j \in Int /\ j >= -1
    BY <1>0, <1>4
<1>10. ASSUME j >= 0 PROVE j + 1 \in 1 .. Len(items) /\ items[j + 1] = "link"
  <2>0. IsHeader(there, i) <=> i >= 0 /\ items[i + 1] = "header"
    BY <1>4, <1>9 DEF IsHeader, items
  <2>1. CASE IsHeader(there, i)
    <3>1. i + 1 \in 1 .. Len(items) /\ items[i + 1] = "header"
      BY <1>4, <1>9, <2>0, <2>1
    <3>2. (i + 1) + 1 \in 1 .. Len(items) /\ items[(i + 1) + 1] = "link"
      BY <1>4, <3>1 DEF GoodList, Headed
    <3>3. j = i + 1
      BY <2>1
    <3>4. QED
      BY <3>2, <3>3
  <2>2. CASE ~IsHeader(there, i)
    <3>1. j = i
      BY <2>2
    <3>2. i + 1 \in 1 .. Len(items) /\ items[i + 1] # "header"
      BY <1>4, <1>9, <1>10, <2>0, <2>2, <3>1
    <3>3. items[i + 1] \in CardEntries
      BY <1>4, <3>2 DEF GoodList
    <3>4. QED
      BY <3>1, <3>2, <3>3 DEF CardEntries
  <2>3. QED
    BY <2>1, <2>2
<1> HIDE DEF i, j
<1>11. LinkSelected(t)
    BY <1>6, <1>8, <1>10 DEF LinkSelected
<1>12. to \in Int /\ t.column \in Int
    BY <1>6
<1>13. SuggestGood(t)
    BY <1>0, <1>6, <1>9, <1>11, <1>12, SelectionMoves
<1>14. QED
    BY <1>13 DEF t

-----------------------------------------------------------------------------
(* Cards are drawn.                                                         *)

Shows == Seq({"show", "hide"})

(* Cards are shown or hidden at once.                                        *)
AtOnceGives(s, t, cards, visible) ==
    /\ DOMAIN t = SuggestFields
    /\ \A f \in SuggestFields \ {"shown", "hasty", "shifted"} : t[f] = s[f]
    /\ t.shown = IF visible THEN s.shown \union cards ELSE s.shown \ cards
    /\ t.hasty = (s.hasty \/ \E c \in cards : s.queue[c] # <<>>)
    /\ t.shifted = (s.shifted \/ s.index >= 0)

LEMMA AtOnceFields ==
    ASSUME NEW s, DOMAIN s = SuggestFields, NEW cards, NEW visible
    PROVE  AtOnceGives(s, AtOnce(s, cards, visible), cards, visible)
<1> DEFINE r == AtOnce(s, cards, visible)
<1>1. DOMAIN r = SuggestFields /\ \A f \in SuggestFields \ {"shown", "hasty", "shifted"} : r[f] = s[f]
    BY DEF AtOnce, SuggestFields
<1>2. r.shown = IF visible THEN s.shown \union cards ELSE s.shown \ cards
    BY DEF AtOnce, SuggestFields
<1>3. r.hasty = (s.hasty \/ \E c \in cards : s.queue[c] # <<>>)
    BY DEF AtOnce, SuggestFields
<1>4. r.shifted = (s.shifted \/ s.index >= 0)
    BY DEF AtOnce, SuggestFields
<1> HIDE DEF r
<1>5. AtOnceGives(s, r, cards, visible)
    BY <1>1, <1>2, <1>3, <1>4 DEF AtOnceGives
<1>6. QED
    BY Zenon, <1>5 DEF r

(* Cards begin to be shown or hidden.                                        *)
LEMMA AnimateFields ==
    ASSUME NEW s, DOMAIN s = SuggestFields, s.queue \in [Cards -> Shows], NEW cards, NEW dir \in {"show", "hide"}
    PROVE  /\ DOMAIN Animate(s, cards, dir) = SuggestFields
           /\ \A f \in SuggestFields \ {"queue"} : Animate(s, cards, dir)[f] = s[f]
           /\ Animate(s, cards, dir).queue \in [Cards -> Shows]
           /\ \A c \in Cards : IF c \in cards
                               THEN WillShow(Animate(s, cards, dir), c) <=> dir = "show"
                               ELSE WillShow(Animate(s, cards, dir), c) <=> WillShow(s, c)
<1> DEFINE r == Animate(s, cards, dir)
           queue == [c \in Cards |-> IF c \in cards THEN Append(s.queue[c], dir) ELSE s.queue[c]]
<1>1. r = [s EXCEPT !.queue = queue]
    BY DEF Animate, SuggestFields
<1>2. \A c \in Cards : s.queue[c] \in Shows
    OBVIOUS
<1>3. ASSUME NEW c \in Cards
      PROVE  /\ Append(s.queue[c], dir) \in Shows /\ Append(s.queue[c], dir) # <<>>
             /\ Append(s.queue[c], dir)[Len(Append(s.queue[c], dir))] = dir
    BY <1>2, LastOfAppend DEF Shows
<1>4. queue \in [Cards -> Shows] /\ \A c \in Cards : queue[c] = IF c \in cards THEN Append(s.queue[c], dir) ELSE s.queue[c]
    BY <1>2, <1>3
<1> HIDE DEF r, queue
<1>5. DOMAIN r = SuggestFields /\ r.queue = queue /\ \A f \in SuggestFields \ {"queue"} : r[f] = s[f]
    BY <1>1 DEF SuggestFields
<1>5a. r.shown = s.shown
    BY <1>5 DEF SuggestFields
<1>6. ASSUME NEW c \in Cards
      PROVE  IF c \in cards THEN WillShow(r, c) <=> dir = "show" ELSE WillShow(r, c) <=> WillShow(s, c)
  <2>1. CASE c \in cards
    <3>1. r.queue[c] # <<>> /\ r.queue[c][Len(r.queue[c])] = dir
      BY <1>3, <1>4, <1>5, <2>1
    <3>2. QED
      BY <2>1, <3>1 DEF WillShow
  <2>2. CASE c \notin cards
    <3>1. r.queue[c] = s.queue[c]
      BY <1>4, <1>5, <2>2
    <3>2. QED
      BY <1>5a, <2>2, <3>1 DEF WillShow
  <2>3. QED
    BY <2>1, <2>2
<1>7. QED
    BY <1>4, <1>5, <1>6 DEF r

(* A new text is searched, whatever moves.                                   *)
LEMMA SyncGood ==
    ASSUME NEW s, SuggestGood(s), NEW a \in Answers
    PROVE  SuggestGood(sync_selection_table(s, a))
<1> DEFINE reference == a["android"] + a["google"] > 0
           docs  == Cards \ {"reference"}
           found == {c \in docs : ListOf(a, c) # <<>>}
           lists == [c \in Cards |-> IF (IF c = "reference" THEN reference ELSE found # {}) THEN ListOf(a, c) ELSE s.list[c]]
           wants == found \union (IF reference THEN {"reference"} ELSE {})
           drawn == [s EXCEPT !.index = -1, !.wanted = wants, !.list = lists]
           r == sync_selection_table(s, a)
           o == AtOnce(drawn, {"reference"}, reference)
           p == Animate(o, found, "show")
<1>0. /\ SuggestSound(s) /\ DOMAIN s = SuggestFields /\ s.shifted \in BOOLEAN /\ s.column \in Int
      /\ s.hasty \in BOOLEAN /\ s.queue \in [Cards -> Shows] /\ s.shown \in SUBSET Cards
    BY DEF SuggestGood, SuggestSound, Shows
<1>1. ListsGood(lists)
  <2>1. DOMAIN lists = Cards
    OBVIOUS
  <2>2. \A c \in Cards : lists[c] = ListOf(a, c) \/ lists[c] = s.list[c]
    BY Zenon
  <2>3. \A c \in Cards : GoodList(s.list[c])
    BY <1>0 DEF SuggestSound, ListsGood
  <2> HIDE DEF lists
  <2>4. QED
    BY <2>1, <2>2, <2>3, ListOfGood DEF ListsGood
<1>2. wants \in SUBSET Cards /\ "reference" \notin found /\ found \subseteq docs /\ "reference" \in Cards
      /\ ("reference" \in wants <=> reference) /\ (\A c \in docs : c \in wants <=> c \in found)
    BY DEF Cards
<1>3. /\ DOMAIN drawn = SuggestFields /\ drawn.index = -1 /\ drawn.wanted = wants /\ drawn.list = lists
      /\ \A f \in SuggestFields \ {"index", "wanted", "list"} : drawn[f] = s[f]
  <2> HIDE DEF wants, lists
  <2>1. QED
    BY <1>0 DEF SuggestFields
<1>4. r = IF ~reference /\ found = {} THEN Animate(drawn, Cards, "hide")
          ELSE Animate(p, docs \ found, "hide")
    BY Zenon DEF sync_selection_table
<1> HIDE DEF reference, found, lists, wants, drawn, r
<1>5. drawn.queue \in [Cards -> Shows] /\ drawn.queue = s.queue /\ drawn.shown = s.shown /\ drawn.hasty = s.hasty
      /\ drawn.shifted = s.shifted /\ drawn.column = s.column
    BY <1>0, <1>3 DEF SuggestFields
<1>6. CASE ~reference /\ found = {}
  <2>1. /\ DOMAIN r = SuggestFields /\ \A f \in SuggestFields \ {"queue"} : r[f] = drawn[f]
        /\ r.queue \in [Cards -> Shows]
        /\ \A c \in Cards : ~WillShow(r, c)
    BY <1>3, <1>4, <1>5, <1>6, AnimateFields
  <2>2. r.index = -1 /\ r.list = lists /\ r.shown = s.shown /\ r.wanted = wants /\ r.column = s.column
        /\ r.hasty = s.hasty /\ r.shifted = s.shifted
    BY <1>3, <1>5, <2>1 DEF SuggestFields
  <2>3. \A c \in Cards : c \notin wants
    BY <1>2, <1>6
  <2>4. SuggestSound(r)
    BY <1>0, <1>1, <1>2, <2>1, <2>2 DEF SuggestSound, Shows
  <2>5. QED
    BY <2>1, <2>2, <2>3, <2>4 DEF SuggestGood, LinkSelected, WantedCome, r
<1>7. CASE ~(~reference /\ found = {})
  <2>1. /\ DOMAIN o = SuggestFields
        /\ \A f \in SuggestFields \ {"shown", "hasty", "shifted"} : o[f] = drawn[f]
        /\ o.shown = IF reference THEN drawn.shown \union {"reference"} ELSE drawn.shown \ {"reference"}
        /\ o.hasty = (drawn.hasty \/ \E c \in {"reference"} : drawn.queue[c] # <<>>)
        /\ o.shifted = (drawn.shifted \/ drawn.index >= 0)
    <3>1. AtOnceGives(drawn, o, {"reference"}, reference)
      BY Zenon, <1>3, AtOnceFields
    <3> HIDE DEF o
    <3>2. QED
      BY <3>1 DEF AtOnceGives
  <2> HIDE DEF o
  <2>2. o.queue = drawn.queue /\ o.index = -1 /\ o.wanted = wants /\ o.list = lists /\ o.column = s.column
    BY <1>3, <1>5, <2>1 DEF SuggestFields
  <2>3. /\ DOMAIN p = SuggestFields /\ \A f \in SuggestFields \ {"queue"} : p[f] = o[f]
        /\ p.queue \in [Cards -> Shows]
        /\ \A c \in Cards : IF c \in found THEN WillShow(p, c) ELSE WillShow(p, c) <=> WillShow(o, c)
    BY <1>5, <2>1, <2>2, AnimateFields
  <2> HIDE DEF p
  <2>4. /\ DOMAIN r = SuggestFields /\ \A f \in SuggestFields \ {"queue"} : r[f] = p[f]
        /\ r.queue \in [Cards -> Shows]
        /\ \A c \in Cards : IF c \in docs \ found THEN ~WillShow(r, c) ELSE WillShow(r, c) <=> WillShow(p, c)
    BY <1>4, <1>7, <2>3, AnimateFields
  <2>5. r.index = -1 /\ r.list = lists /\ r.shown = o.shown /\ r.wanted = wants /\ r.column = s.column
        /\ r.hasty = o.hasty /\ r.shifted = o.shifted
    BY <2>2, <2>3, <2>4 DEF SuggestFields
  <2>6. o.hasty \in BOOLEAN /\ o.shifted \in BOOLEAN /\ o.shown \in SUBSET Cards
    BY <1>0, <1>2, <1>5, <2>1
  <2>7. ASSUME ~r.hasty, NEW c \in Cards PROVE WillShow(r, c) <=> c \in wants
    <3>1. CASE c = "reference"
      <4>1. drawn.queue[c] = <<>>
        BY <2>1, <2>5, <2>7, <3>1
      <4>2. o.queue[c] = <<>> /\ (c \in o.shown <=> reference)
        BY <2>1, <2>2, <3>1, <4>1
      <4>3. WillShow(o, c) <=> reference
        BY <4>2 DEF WillShow
      <4>4. WillShow(r, c) <=> reference
        BY <1>2, <2>3, <2>4, <3>1, <4>3
      <4>5. QED
        BY <1>2, <3>1, <4>4
    <3>2. CASE c # "reference"
      BY <1>2, <2>3, <2>4, <3>2
    <3>3. QED
      BY <3>1, <3>2
  <2>8. SuggestSound(r)
    BY <1>0, <1>1, <1>2, <2>4, <2>5, <2>6 DEF SuggestSound, Shows
  <2>9. QED
    BY <2>5, <2>7, <2>8 DEF SuggestGood, LinkSelected, WantedCome, r
<1>8. QED
    BY <1>6, <1>7

-----------------------------------------------------------------------------
(* The suggestions together.                                                *)

(* The selection stays, or is where no card is any more.                     *)
LEMMA SameSelection ==
    ASSUME NEW s, SuggestGood(s), NEW t, SelectionOnly(s, t), t.column = s.column, t.index = s.index,
           t.shifted = TRUE \/ t.shifted = s.shifted
    PROVE  SuggestGood(t)
<1>0. /\ SuggestSound(s) /\ s.index \in Int /\ s.index >= -1 /\ s.column \in Int /\ s.shifted \in BOOLEAN
    BY DEF SuggestGood, SuggestSound
<1>1. Column(t) = Column(s)
    BY DEF Column
<1>2. LinkSelected(t)
  <2>1. CASE t.shifted
    BY <2>1 DEF LinkSelected
  <2>2. CASE ~t.shifted
    <3>1. CardItems(t) = CardItems(s) /\ (HasColumn(t) <=> HasColumn(s)) /\ ~s.shifted
      BY <1>1, <2>2, SameColumns
    <3>2. QED
      BY <3>1 DEF LinkSelected, SuggestGood
  <2>3. QED
    BY <2>1, <2>2
<1>3. QED
    BY <1>0, <1>2, SelectionMoves

(* A key is counted, and the arrow keys may find no column.                  *)
LEMMA UseGood == ASSUME NEW s, SuggestGood(s) PROVE SuggestGood(Use(s)) /\ SuggestGood(Lost(s))
<1>0. DOMAIN s = SuggestFields
    BY DEF SuggestGood, SuggestSound
<1>1. SuggestGood(Use(s))
  <2> DEFINE t == Use(s)
  <2>1. SelectionOnly(s, t) /\ t.column = s.column /\ t.index = s.index /\ t.shifted = s.shifted
    BY <1>0 DEF Use, SelectionOnly, SuggestFields
  <2> HIDE DEF t
  <2>2. SuggestGood(t)
    BY <2>1, SameSelection
  <2>3. QED
    BY <2>2 DEF t
<1>2. SuggestGood(Lost(s))
  <2> DEFINE t == Lost(s)
  <2>1. SelectionOnly(s, t) /\ t.column = s.column /\ t.index = s.index /\ t.shifted = TRUE
    BY <1>0 DEF Lost, Use, SelectionOnly, SuggestFields
  <2> HIDE DEF t
  <2>2. SuggestGood(t)
    BY <2>1, SameSelection
  <2>3. QED
    BY <2>2 DEF t
<1>3. QED
    BY <1>1, <1>2

(* The mouse points at a link of a card on display.                          *)
LEMMA PointGood ==
    ASSUME NEW s, SuggestGood(s), NEW k \in DOMAIN Columns(s), NEW i \in DOMAIN s.list[Columns(s)[k]],
           s.list[Columns(s)[k]][i] = "link"
    PROVE  SuggestGood([Use(s) EXCEPT !.column = k - 1, !.index = i - 1])
<1> DEFINE t == [Use(s) EXCEPT !.column = k - 1, !.index = i - 1]
           items == s.list[Columns(s)[k]]
<1>0. SuggestSound(s) /\ DOMAIN s = SuggestFields /\ s.shifted \in BOOLEAN
    BY DEF SuggestGood, SuggestSound
<1>1. Columns(s) \in Seq(Cards)
    BY ColumnsAreCards
<1>2. k \in 1 .. Len(Columns(s)) /\ Len(Columns(s)) \in Nat /\ Columns(s)[k] \in Cards
    BY <1>1
<1>3. GoodList(items)
    BY <1>0, <1>2 DEF SuggestSound, ListsGood
<1>4. i \in 1 .. Len(items) /\ Len(items) \in Nat /\ items[i] = "link"
    BY <1>3 DEF GoodList
<1>5. SelectionOnly(s, t) /\ t.column = k - 1 /\ t.index = i - 1 /\ t.shifted = s.shifted /\ t.list = s.list
    BY <1>0 DEF Use, SelectionOnly, SuggestFields
<1> HIDE DEF t
<1>6. Columns(t) = Columns(s)
    BY <1>5, SameColumns
<1>7. Column(t) = k - 1 /\ HasColumn(t) /\ Column(t) + 1 = k
    BY <1>2, <1>5, <1>6 DEF Column, HasColumn
<1>8. CardItems(t) = items
    BY <1>5, <1>6, <1>7 DEF CardItems
<1> HIDE DEF items
<1>9. t.index + 1 = i /\ t.index \in Int /\ t.index >= -1 /\ t.column \in Int
    BY <1>2, <1>4, <1>5
<1>10. LinkSelected(t)
    BY <1>4, <1>7, <1>8, <1>9 DEF LinkSelected
<1>11. SuggestGood(t)
    BY <1>0, <1>5, <1>9, <1>10, SelectionMoves
<1>12. QED
    BY <1>11 DEF t

(* All cards close at once.                                                  *)
LEMMA CloseGood ==
    ASSUME NEW s, SuggestGood(s), NEW enter \in BOOLEAN
    PROVE  SuggestGood([AtOnce(s, Cards, FALSE) EXCEPT !.wanted = {}, !.pane = enter])
<1> DEFINE o == AtOnce(s, Cards, FALSE)
           t == [o EXCEPT !.wanted = {}, !.pane = enter]
<1>0. SuggestSound(s) /\ DOMAIN s = SuggestFields /\ s.shifted \in BOOLEAN /\ s.hasty \in BOOLEAN /\ s.index \in Int
    BY DEF SuggestGood, SuggestSound
<1>1. AtOnceGives(s, o, Cards, FALSE)
    BY Zenon, <1>0, AtOnceFields
<1> HIDE DEF o
<1>2. /\ DOMAIN o = SuggestFields
      /\ \A f \in SuggestFields \ {"shown", "hasty", "shifted"} : o[f] = s[f]
      /\ o.shown = s.shown \ Cards
      /\ o.hasty = (s.hasty \/ \E c \in Cards : s.queue[c] # <<>>)
      /\ o.shifted = (s.shifted \/ s.index >= 0)
    BY <1>1 DEF AtOnceGives
<1>3. /\ DOMAIN t = SuggestFields /\ t.wanted = {}
      /\ \A f \in SuggestFields \ {"wanted", "pane"} : t[f] = o[f]
    BY <1>2 DEF SuggestFields
<1> HIDE DEF t
<1>4. /\ t.shown = {} /\ t.list = s.list /\ t.queue = s.queue /\ t.column = s.column /\ t.index = s.index
      /\ t.hasty = (s.hasty \/ \E c \in Cards : s.queue[c] # <<>>)
      /\ t.shifted = (s.shifted \/ s.index >= 0)
    BY <1>0, <1>2, <1>3 DEF SuggestFields, SuggestSound
<1>5. t.hasty \in BOOLEAN /\ t.shifted \in BOOLEAN
    BY <1>0, <1>4
<1>6. SuggestSound(t)
    BY <1>0, <1>3, <1>4, <1>5 DEF SuggestSound
<1>7. LinkSelected(t)
    BY <1>4 DEF LinkSelected
<1>8. WantedCome(t)
  <2> SUFFICES ASSUME ~t.hasty, NEW c \in Cards PROVE ~WillShow(t, c) /\ c \notin t.wanted
    BY DEF WantedCome
  <2>1. t.queue[c] = <<>>
    BY <1>4
  <2>2. QED
    BY <1>3, <1>4, <2>1 DEF WillShow
<1>9. SuggestGood(t)
    BY <1>6, <1>7, <1>8 DEF SuggestGood
<1>10. QED
    BY Zenon, <1>9 DEF t, o

(* An animation of a card ends.                                              *)
LEMMA SettleGood ==
    ASSUME SuggestGood(suggest), NEW c \in Cards, suggest.queue[c] # <<>>, NEW toShow \in BOOLEAN,
           toShow = (Head(suggest.queue[c]) = "show"),
           suggest' = [suggest EXCEPT !.queue[c] = Tail(@),
                         !.shown = IF toShow THEN @ \union {c} ELSE @ \ {c},
                         !.shifted = @ \/ (suggest.index >= 0 /\ ~CardIdle(c))]
    PROVE  SuggestGood(suggest')
<1> DEFINE s == suggest
           t == suggest'
           q == suggest.queue[c]
<1>0. /\ SuggestSound(s) /\ DOMAIN s = SuggestFields /\ s.shifted \in BOOLEAN /\ s.hasty \in BOOLEAN
      /\ s.queue \in [Cards -> Shows] /\ s.shown \in SUBSET Cards /\ s.index \in Int /\ s.column \in Int
    BY DEF SuggestGood, SuggestSound, Shows
<1>1. q \in Seq({"show", "hide"}) /\ q # <<>>
    BY <1>0 DEF Shows
<1>2. /\ Tail(q) \in Shows
      /\ Head(q) \in {"show", "hide"}
      /\ Tail(q) = <<>> => q[Len(q)] = Head(q)
      /\ Tail(q) # <<>> => Tail(q)[Len(Tail(q))] = q[Len(q)]
    BY <1>1, LastOfTail DEF Shows
<1>3. /\ DOMAIN t = SuggestFields
      /\ \A f \in SuggestFields \ {"queue", "shown", "shifted"} : t[f] = s[f]
      /\ t.queue = [s.queue EXCEPT ![c] = Tail(q)]
      /\ t.shown = IF toShow THEN s.shown \union {c} ELSE s.shown \ {c}
      /\ t.shifted = (s.shifted \/ (s.index >= 0 /\ ~CardIdle(c)))
    BY <1>0 DEF SuggestFields
<1>4. /\ t.list = s.list /\ t.wanted = s.wanted /\ t.column = s.column /\ t.index = s.index /\ t.hasty = s.hasty
    BY <1>3 DEF SuggestFields
<1>5. t.queue \in [Cards -> Shows] /\ \A d \in Cards : t.queue[d] = IF d = c THEN Tail(q) ELSE s.queue[d]
    BY <1>0, <1>2, <1>3
<1>6. t.shown \in SUBSET Cards /\ t.shifted \in BOOLEAN
    BY <1>0, <1>3 DEF CardIdle
<1> HIDE DEF s, t, q
<1>7. SuggestSound(t)
    BY <1>0, <1>3, <1>4, <1>5, <1>6 DEF SuggestSound, Shows
<1>8. CardIdle(c) <=> (toShow = (c \in s.shown))
    BY DEF CardIdle, s
<1>9. LinkSelected(t)
  <2>1. CASE s.index >= 0 /\ ~t.shifted
    <3>1. CardIdle(c) /\ ~s.shifted
      BY <1>3, <2>1
    <3>2. t.shown = s.shown
      BY <1>3, <1>8, <3>1
    <3>3. Columns(t) = Columns(s) /\ Column(t) = Column(s)
      BY <1>4, <3>2, ColumnsAreCards DEF Column
    <3>4. CardItems(t) = CardItems(s) /\ (HasColumn(t) <=> HasColumn(s))
      BY <1>4, <3>3 DEF CardItems, HasColumn
    <3>5. LinkSelected(s)
      BY DEF SuggestGood, s
    <3>6. QED
      BY <1>4, <2>1, <3>1, <3>4, <3>5 DEF LinkSelected
  <2>2. CASE ~(s.index >= 0 /\ ~t.shifted)
    BY <1>4, <2>2 DEF LinkSelected
  <2>3. QED
    BY <2>1, <2>2
<1>10. ASSUME NEW d \in Cards PROVE WillShow(t, d) <=> WillShow(s, d)
  <2>1. CASE d = c
    <3>1. WillShow(s, c) <=> q[Len(q)] = "show"
      BY <1>1 DEF WillShow, q, s
    <3>2. CASE Tail(q) = <<>>
      <4>1. t.queue[c] = <<>>
        BY <1>5, <3>2
      <4>2. WillShow(t, c) <=> toShow
        BY <1>3, <4>1 DEF WillShow
      <4>3. toShow <=> q[Len(q)] = "show"
        BY <1>2, <3>2 DEF q, s
      <4>4. QED
        BY <2>1, <3>1, <4>2, <4>3
    <3>3. CASE Tail(q) # <<>>
      <4>1. t.queue[c] = Tail(q)
        BY <1>5
      <4>2. WillShow(t, c) <=> Tail(q)[Len(Tail(q))] = "show"
        BY <3>3, <4>1 DEF WillShow
      <4>3. QED
        BY <1>2, <2>1, <3>1, <3>3, <4>2
    <3>4. QED
      BY <3>2, <3>3
  <2>2. CASE d # c
    <3>1. t.queue[d] = s.queue[d] /\ (d \in t.shown <=> d \in s.shown)
      BY <1>3, <1>5, <2>2
    <3>2. QED
      BY <3>1 DEF WillShow
  <2>3. QED
    BY <2>1, <2>2
<1>11. WantedCome(t)
  <2>1. WantedCome(s)
    BY DEF SuggestGood, s
  <2>2. QED
    BY <1>4, <1>10, <2>1 DEF WantedCome
<1>12. QED
    BY <1>7, <1>9, <1>11 DEF SuggestGood, t

(* Every step of the cards keeps them as they should be.                     *)
LEMMA SuggestKept == SuggestGood(suggest) /\ SuggestNext => SuggestGood(suggest')
<1> SUFFICES ASSUME SuggestGood(suggest), SuggestNext PROVE SuggestGood(suggest')
    OBVIOUS
<1>1. CASE TypeText
  <2>1. PICK a \in Answers : suggest' = sync_selection_table(Use(suggest), a)
    BY Zenon, <1>1 DEF TypeText
  <2>2. SuggestGood(Use(suggest))
    BY UseGood
  <2>3. QED
    BY Zenon, <2>1, <2>2, SyncGood
<1>2. CASE ArrowKey
  <2>1. CASE ~HasColumn(suggest)
    <3>1. suggest' = Lost(suggest)
      BY Zenon, <1>2, <2>1 DEF ArrowKey
    <3>2. QED
      BY Zenon, <3>1, UseGood
  <2>2. CASE HasColumn(suggest)
    <3>1. \/ suggest' = GoUp(suggest)
          \/ suggest' = GoDown(suggest)
          \/ /\ Column(suggest) < Len(Columns(suggest)) - 1
             /\ suggest' = Sideways(suggest, Column(suggest) + 1)
          \/ /\ Column(suggest) > 0
             /\ suggest' = Sideways(suggest, Column(suggest) - 1)
      BY Zenon, <1>2, <2>2 DEF ArrowKey
    <3>2. Column(suggest) \in Nat /\ Column(suggest) < Len(Columns(suggest)) /\ Len(Columns(suggest)) \in Nat
      <4>1. SuggestSound(suggest) /\ Columns(suggest) \in Seq(Cards)
        BY ColumnsAreCards DEF SuggestGood
      <4>2. Column(suggest) \in Nat
        BY <2>2, <4>1, ItemsGood
      <4>3. QED
        BY <2>2, <4>1, <4>2 DEF HasColumn
    <3>3. CASE suggest' = GoUp(suggest)
      BY Zenon, <2>2, <3>3, UpGood
    <3>4. CASE suggest' = GoDown(suggest)
      BY Zenon, <2>2, <3>4, DownGood
    <3>5. CASE Column(suggest) < Len(Columns(suggest)) - 1 /\ suggest' = Sideways(suggest, Column(suggest) + 1)
      <4>1. Column(suggest) + 1 \in Nat /\ Column(suggest) + 1 < Len(Columns(suggest))
        BY <3>2, <3>5
      <4>2. QED
        BY Zenon, <3>5, <4>1, SidewaysGood
    <3>6. CASE Column(suggest) > 0 /\ suggest' = Sideways(suggest, Column(suggest) - 1)
      <4>1. Column(suggest) - 1 \in Nat /\ Column(suggest) - 1 < Len(Columns(suggest))
        BY <3>2, <3>6
      <4>2. QED
        BY Zenon, <3>6, <4>1, SidewaysGood
    <3>7. QED
      BY <3>1, <3>3, <3>4, <3>5, <3>6
  <2>3. QED
    BY <2>1, <2>2
<1>3. CASE PointAt
  <2>1. PICK k \in DOMAIN Columns(suggest) : \E i \in DOMAIN suggest.list[Columns(suggest)[k]] :
           /\ suggest.list[Columns(suggest)[k]][i] = "link"
           /\ suggest' = [Use(suggest) EXCEPT !.column = k - 1, !.index = i - 1]
    BY Zenon, <1>3 DEF PointAt
  <2>2. PICK i \in DOMAIN suggest.list[Columns(suggest)[k]] :
           /\ suggest.list[Columns(suggest)[k]][i] = "link"
           /\ suggest' = [Use(suggest) EXCEPT !.column = k - 1, !.index = i - 1]
    BY Zenon, <2>1
  <2>3. QED
    BY Zenon, <2>2, PointGood
<1>4. CASE EnterOrBlur
  <2>1. PICK enter \in BOOLEAN :
           suggest' = [AtOnce(Use(suggest), Cards, FALSE) EXCEPT !.wanted = {}, !.pane = enter]
    BY Zenon, <1>4 DEF EnterOrBlur
  <2>2. SuggestGood(Use(suggest))
    BY UseGood
  <2>3. QED
    BY Zenon, <2>1, <2>2, CloseGood
<1>5. CASE ResultsClosed
  <2>1. suggest' = [suggest EXCEPT !.pane = FALSE]
    BY Zenon, <1>5 DEF ResultsClosed
  <2>2. DOMAIN suggest = SuggestFields
    BY DEF SuggestGood, SuggestSound
  <2>3. /\ DOMAIN suggest' = SuggestFields
        /\ \A f \in SuggestFields \ {"pane"} : suggest'[f] = suggest[f]
    BY <2>1, <2>2 DEF SuggestFields
  <2>4. SelectionOnly(suggest, suggest')
    BY <2>3 DEF SelectionOnly, SuggestFields
  <2>4a. suggest'.column = suggest.column /\ suggest'.index = suggest.index /\ suggest'.shifted = suggest.shifted
    BY <2>3 DEF SuggestFields
  <2>5. QED
    BY Zenon, <2>4, <2>4a, SameSelection
<1>6. CASE CardSettle
  <2>1. PICK c \in Cards :
          /\ suggest.queue[c] # <<>>
          /\ suggest' = [suggest EXCEPT !.queue[c] = Tail(@),
                           !.shown = IF Head(suggest.queue[c]) = "show" THEN @ \union {c} ELSE @ \ {c},
                           !.shifted = @ \/ (suggest.index >= 0 /\ ~CardIdle(c))]
    BY Zenon, <1>6 DEF CardSettle
  <2>2. (Head(suggest.queue[c]) = "show") \in BOOLEAN
    OBVIOUS
  <2>3. QED
    BY Zenon, <2>1, <2>2, SettleGood
<1>7. QED
    BY Zenon, <1>1, <1>2, <1>3, <1>4, <1>5, <1>6 DEF SuggestNext

LEMMA SuggestStarts == SuggestInit => SuggestGood(suggest)
<1> SUFFICES ASSUME SuggestInit PROVE SuggestGood(suggest)
    OBVIOUS
<1>1. /\ DOMAIN suggest = SuggestFields
      /\ suggest.list = [c \in Cards |-> <<>>] /\ suggest.queue = [c \in Cards |-> <<>>]
      /\ suggest.shown = {} /\ suggest.wanted = {} /\ suggest.column = -1 /\ suggest.index = -1
      /\ suggest.hasty = FALSE /\ suggest.shifted = FALSE
    BY DEF SuggestInit, SuggestFields
<1>2. suggest.queue \in [Cards -> Seq({"show", "hide"})] /\ \A c \in Cards : suggest.queue[c] = <<>>
    BY <1>1
<1>3. ListsGood(suggest.list)
  <2>1. DOMAIN suggest.list = Cards /\ \A c \in Cards : suggest.list[c] = <<>>
    BY <1>1
  <2>2. QED
    BY <2>1, EmptyGood DEF ListsGood
<1>4. SuggestSound(suggest)
  <2>1. suggest.column \in Int /\ suggest.index \in Int /\ suggest.index >= -1
    BY <1>1
  <2>1a. suggest.hasty \in BOOLEAN /\ suggest.shifted \in BOOLEAN
    BY <1>1
  <2>2. suggest.shown \in SUBSET Cards /\ suggest.wanted \in SUBSET Cards
    BY <1>1
  <2>3. QED
    BY <1>1, <1>2, <1>3, <2>1, <2>1a, <2>2, Zenon DEF SuggestSound
<1>5. LinkSelected(suggest) /\ WantedCome(suggest)
    BY <1>1, <1>2 DEF LinkSelected, WantedCome, WillShow
<1>6. QED
    BY <1>4, <1>5 DEF SuggestGood

SuggestionsInv == SuggestGood(suggest) /\ TableGood(table)

LEMMA SuggestionsInvIsHonest == SuggestionsInv => SuggestionsHonest
<1> SUFFICES ASSUME SuggestionsInv PROVE SuggestionsHonest
    OBVIOUS
<1>1. SelectionIsLink
  <2>1. ASSUME suggest.index >= 0, ~suggest.shifted
        PROVE  HasColumn(suggest) /\ suggest.index + 1 \in DOMAIN CardItems(suggest)
               /\ CardItems(suggest)[suggest.index + 1] = "link"
    <3>1. /\ HasColumn(suggest) /\ suggest.index + 1 \in 1 .. Len(CardItems(suggest))
          /\ CardItems(suggest)[suggest.index + 1] = "link"
      BY <2>1 DEF SuggestionsInv, SuggestGood, LinkSelected
    <3>2. DOMAIN CardItems(suggest) = 1 .. Len(CardItems(suggest))
      BY <3>1, ItemsGood DEF SuggestionsInv, SuggestGood
    <3>3. QED
      BY <3>1, <3>2
  <2>2. QED
    BY Zenon, <2>1 DEF SelectionIsLink
<1>2. CardsHaveMatches
  <2>1. ASSUME \A c \in Cards : suggest.queue[c] = <<>>, ~suggest.hasty PROVE suggest.shown = suggest.wanted
    <3>1. \A c \in Cards : c \in suggest.shown <=> c \in suggest.wanted
      BY <2>1 DEF SuggestionsInv, SuggestGood, WantedCome, WillShow
    <3>2. suggest.shown \in SUBSET Cards /\ suggest.wanted \in SUBSET Cards
      BY DEF SuggestionsInv, SuggestGood, SuggestSound
    <3>3. QED
      BY <3>1, <3>2
  <2>2. QED
    BY Zenon, <2>1 DEF CardsHaveMatches
<1>3. TableHonest
    BY TableGoodIsHonest DEF SuggestionsInv
<1>4. QED
    BY <1>1, <1>2, <1>3 DEF SuggestionsHonest

LEMMA SuggestionsStart == PagesInit => SuggestionsInv
BY Zenon, SuggestStarts, TableStarts DEF PagesInit, SuggestionsInv

LEMMA SuggestionsKept == SuggestionsInv /\ [PagesNext]_pagesVars => SuggestionsInv'
<1> SUFFICES ASSUME SuggestionsInv, [PagesNext]_pagesVars PROVE SuggestionsInv'
    OBVIOUS
<1>1. [SuggestNext]_suggest /\ [TableNext]_table
    BY PagesMoveComplete DEF CompleteSteps
<1>2. SuggestGood(suggest')
    BY Zenon, <1>1, SuggestKept DEF SuggestionsInv
<1>3. TableGood(table')
    BY Zenon, <1>1, TableKept DEF SuggestionsInv
<1>4. QED
    BY <1>2, <1>3 DEF SuggestionsInv

(* However the cards and the table of suggestions are used, for every        *)
(* answer: what the enter key follows is a suggestion and not a heading, at  *)
(* rest the cards with matches are the ones on display, and the table        *)
(* remembers the suggestion that is selected (templates-ndk docs.js and      *)
(* templates-pdk search_autocomplete.js).                                    *)
THEOREM SuggestionsStayHonest == PagesSpec => []SuggestionsHonest
<1>1. PagesSpec => []SuggestionsInv
    BY SuggestionsStart, SuggestionsKept, PTL DEF PagesSpec
<1>2. QED
    BY <1>1, SuggestionsInvIsHonest, PTL

-----------------------------------------------------------------------------
(* Cards are dealt to stacks.                                               *)

CardSizes == {z \in Seq(Nat \ {0}) : z # <<>>}
CardStacks == Seq(Seq(Nat))

LEMMA SizeOfIs ==
    ASSUME NEW z \in CardSizes, NEW k \in Nat \ {0}
    PROVE  SizeOf(z, k) \in Nat \ {0}
<1>1. Len(z) \in Nat \ {0} /\ \A i \in 1 .. Len(z) : z[i] \in Nat \ {0}
    BY EmptySeq DEF CardSizes
<1> DEFINE n == Len(z)
           m == (k - 1) % n
<1> HIDE DEF n
<1>2. n \in Nat \ {0}
    BY <1>1 DEF n
<1>3. m \in 0 .. n - 1
    BY <1>2
<1> HIDE DEF m
<1>4. m + 1 \in 1 .. n
    BY <1>2, <1>3
<1>5. z[m + 1] \in Nat \ {0}
    BY <1>1, <1>4 DEF n
<1>6. QED
    BY <1>5 DEF SizeOf, m, n

(* Every stack but the last is full, and none is too long.                   *)
StacksFull(stacks, z) ==
    \A k \in 1 .. Len(stacks) :
       /\ Len(stacks[k]) <= SizeOf(z, k)
       /\ k < Len(stacks) => Len(stacks[k]) = SizeOf(z, k)

LEMMA DealtToKeeps ==
    ASSUME NEW z \in CardSizes, NEW stacks \in CardStacks, StacksFull(stacks, z), NEW c \in Nat
    PROVE  /\ DealtTo(stacks, c, z) \in CardStacks
           /\ StacksFull(DealtTo(stacks, c, z), z)
           /\ FlattenSeq(DealtTo(stacks, c, z)) = Append(FlattenSeq(stacks), c)
<1> DEFINE n == Len(stacks)
           t == DealtTo(stacks, c, z)
           one == <<c>>
<1>1. n \in Nat /\ \A k \in 1 .. n : stacks[k] \in Seq(Nat) /\ Len(stacks[k]) \in Nat
    BY DEF CardStacks
<1>2. FlattenSeq(stacks) \in Seq(Nat)
    BY FlattenIsSeq DEF CardStacks
<1>3. one \in Seq(Nat) /\ Len(one) = 1
    OBVIOUS
<1>4. CASE stacks # <<>> /\ Len(Last(stacks)) < SizeOf(z, n)
  <2>1. PICK front \in CardStacks, end \in Seq(Nat) : stacks = Append(front, end)
      BY <1>4, SequenceEmptyOrAppend DEF CardStacks
  <2> DEFINE longer == Append(end, c)
  <2>2. n = Len(front) + 1 /\ stacks[n] = end /\ Last(stacks) = end /\ Len(front) \in Nat
        /\ \A k \in 1 .. Len(front) : stacks[k] = front[k]
      BY <2>1, AppendProperties DEF Last, CardStacks
  <2>3. longer \in Seq(Nat) /\ Len(longer) = Len(end) + 1 /\ Len(end) \in Nat
      BY AppendProperties
  <2>4. t = [stacks EXCEPT ![n] = longer]
      BY <1>4, <2>2 DEF DealtTo
  <2> HIDE DEF longer
  <2>5. t = Append(front, longer)
    <3> DEFINE a == Append(front, longer)
    <3>1. a \in CardStacks /\ Len(a) = n /\ a[n] = longer /\ \A k \in 1 .. Len(front) : a[k] = front[k]
        BY <2>2, <2>3, AppendProperties DEF CardStacks
    <3>2. t \in CardStacks /\ Len(t) = n /\ t[n] = longer /\ \A k \in 1 .. n : k # n => t[k] = stacks[k]
        BY <1>1, <2>2, <2>3, <2>4, ExceptSeq DEF CardStacks
    <3>3. \A k \in 1 .. n : k # n => k \in 1 .. Len(front)
        BY <2>2
    <3> HIDE DEF a, t, n
    <3>4. \A k \in 1 .. n : a[k] = t[k]
        BY <2>2, <3>1, <3>2, <3>3
    <3>5. a = t
        BY <3>1, <3>2, <3>4, SeqEqual DEF CardStacks
    <3>6. QED
        BY <3>5 DEF a
  <2>6. t \in CardStacks /\ Len(t) = n /\ t[n] = longer /\ \A k \in 1 .. Len(front) : t[k] = front[k]
      BY <2>2, <2>3, <2>5, AppendProperties DEF CardStacks
  <2>7. StacksFull(t, z)
    <3> HIDE DEF t
    <3>1. SizeOf(z, n) \in Nat
        BY <2>2, SizeOfIs
    <3>2. Len(end) < SizeOf(z, n)
        BY <1>4, <2>2
    <3> HIDE DEF n
    <3>3. ASSUME NEW k \in 1 .. n
          PROVE  Len(t[k]) <= SizeOf(z, k) /\ (k < n => Len(t[k]) = SizeOf(z, k))
      <4>1. CASE k = n
          BY <2>3, <2>6, <3>1, <3>2, <4>1
      <4>2. CASE k # n
        <5>1. k \in 1 .. Len(front) /\ k < n
            BY <2>2, <4>2
        <5>2. t[k] = stacks[k]
            BY <2>2, <2>6, <5>1
        <5>3. Len(stacks[k]) <= SizeOf(z, k) /\ Len(stacks[k]) = SizeOf(z, k)
            BY <5>1 DEF StacksFull, n
        <5>4. QED
            BY <5>2, <5>3
      <4>3. QED
          BY <4>1, <4>2
    <3>4. QED
        BY <2>6, <3>3 DEF StacksFull
  <2>8. FlattenSeq(t) = Append(FlattenSeq(stacks), c)
    <3> DEFINE f == FlattenSeq(front)
    <3>1. f \in Seq(Nat) /\ FlattenSeq(stacks) = f \o end /\ FlattenSeq(t) = f \o longer
        BY <2>1, <2>3, <2>5, FlattenAppend DEF CardStacks
    <3> HIDE DEF f
    <3>2. f \o longer = Append(f \o end, c)
        BY <3>1, AppendToConcat DEF longer
    <3>3. QED
        BY <3>1, <3>2
  <2>9. QED
      BY <2>6, <2>7, <2>8
<1>5. CASE ~(stacks # <<>> /\ Len(Last(stacks)) < SizeOf(z, n))
  <2>1. t = Append(stacks, one)
      BY <1>5 DEF DealtTo
  <2>2. t \in CardStacks /\ Len(t) = n + 1 /\ t[n + 1] = one /\ \A k \in 1 .. n : t[k] = stacks[k]
      BY <1>3, <2>1, AppendProperties DEF CardStacks
  <2>3. StacksFull(t, z)
    <3>1. ASSUME n > 0 PROVE Len(stacks[n]) = SizeOf(z, n)
      <4>1. stacks # <<>> /\ n \in 1 .. n
          BY <1>1, <3>1
      <4>2. ~(Len(Last(stacks)) < SizeOf(z, n)) /\ Last(stacks) = stacks[n]
          BY <1>5, <4>1 DEF Last
      <4>3. Len(stacks[n]) <= SizeOf(z, n) /\ Len(stacks[n]) \in Nat
          BY <1>1, <4>1 DEF StacksFull
      <4>4. SizeOf(z, n) \in Nat
          BY <1>1, <3>1, SizeOfIs
      <4>5. QED
          BY <4>2, <4>3, <4>4
    <3>2. SizeOf(z, n + 1) \in Nat \ {0}
        BY <1>1, SizeOfIs
    <3>3. \A k \in 1 .. n : Len(stacks[k]) <= SizeOf(z, k) /\ (k < n => Len(stacks[k]) = SizeOf(z, k))
        BY DEF StacksFull
    <3> HIDE DEF t, n, one
    <3>4. ASSUME NEW k \in 1 .. n + 1
          PROVE  Len(t[k]) <= SizeOf(z, k) /\ (k < n + 1 => Len(t[k]) = SizeOf(z, k))
      <4>1. CASE k = n + 1
        <5>1. Len(t[n + 1]) = 1
            BY <1>3, <2>2
        <5>2. 1 <= SizeOf(z, n + 1) /\ ~(n + 1 < n + 1)
            BY <1>1, <3>2
        <5>3. QED
            BY Zenon, <4>1, <5>1, <5>2
      <4>2. CASE k # n + 1
        <5>1. k \in 1 .. n /\ (k = n => n > 0)
            BY <1>1, <4>2
        <5>2. k = n \/ k < n
            BY <1>1, <5>1
        <5>3. QED
            BY <2>2, <3>1, <3>3, <5>1, <5>2
      <4>3. QED
          BY <4>1, <4>2
    <3>5. QED
        BY <2>2, <3>4 DEF StacksFull
  <2>4. FlattenSeq(t) = Append(FlattenSeq(stacks), c)
    <3>1. FlattenSeq(t) = FlattenSeq(stacks) \o one
        BY <1>3, <2>1, FlattenAppend DEF CardStacks
    <3>2. Append(FlattenSeq(stacks), c) = FlattenSeq(stacks) \o one
        BY <1>2, AppendIsConcat
    <3>3. QED
        BY <3>1, <3>2
  <2>5. QED
      BY <2>2, <2>3, <2>4
<1>6. QED
    BY <1>4, <1>5

(* The stacks of a page, one card at a time.                                 *)
Deals(f, cards, z) ==
    f = [k \in 0 .. Len(cards) |-> IF k = 0 THEN <<>> ELSE DealtTo(f[k-1], cards[k], z)]

Dealer(cards, z) == CHOOSE f : Deals(f, cards, z)

LEMMA DealtIs == ASSUME NEW cards, NEW z PROVE Dealt(cards, z) = Dealer(cards, z)[Len(cards)]
BY Zenon DEF Dealt, Dealer, Deals

DealtStacks(z) == {s \in CardStacks : StacksFull(s, z)}

LEMMA DealerDeals ==
    ASSUME NEW z \in CardSizes, NEW cards \in Seq(Nat)
    PROVE  Deals(Dealer(cards, z), cards, z)
<1> DEFINE R == DealtStacks(z)
           n == Len(cards)
           h == [k \in 1 .. n |-> [s \in R |-> DealtTo(s, cards[k], z)]]
<1>1. n \in Nat /\ \A k \in 1 .. n : cards[k] \in Nat
    OBVIOUS
<1>2. <<>> \in R
  <2>1. <<>> \in CardStacks /\ Len(<<>>) = 0 /\ 1 .. 0 = {}
      BY DEF CardStacks
  <2>2. StacksFull(<<>>, z)
      BY <2>1 DEF StacksFull
  <2>3. QED
      BY <2>1, <2>2 DEF DealtStacks
<1>3. \A k \in 1 .. n, s \in R : DealtTo(s, cards[k], z) \in R
    BY <1>1, DealtToKeeps DEF DealtStacks
<1> HIDE DEF R, n
<1>4. h \in Rules(n, R) /\ \A k \in 1 .. n, s \in R : h[k][s] = DealtTo(s, cards[k], z)
  <2>1. \A k \in 1 .. n : [s \in R |-> DealtTo(s, cards[k], z)] \in [R -> R]
      BY <1>3
  <2>2. QED
      BY Zenon, <2>1 DEF Rules
<1> HIDE DEF h
<1>5. PICK f : Follows(f, n, R, <<>>, h)
    BY <1>1, <1>2, <1>4, RecursionExists
<1>6. f \in [0 .. n -> R] /\ f[0] = <<>> /\ \A k \in 1 .. n : f[k] = h[k][f[k-1]] /\ f[k-1] \in R
  <2>1. \A k \in 1 .. n : k - 1 \in 0 .. n
      BY <1>1
  <2>2. QED
      BY <1>5, <2>1 DEF Follows
<1>7. \A k \in 0 .. n : f[k] = IF k = 0 THEN <<>> ELSE DealtTo(f[k-1], cards[k], z)
  <2>1. \A k \in 0 .. n : k = 0 \/ k \in 1 .. n
      BY <1>1
  <2>2. QED
      BY Zenon, <1>4, <1>6, <2>1
<1>8. f = [k \in 0 .. n |-> f[k]]
    BY <1>6
<1>9. Deals(f, cards, z)
    BY Zenon, <1>7, <1>8 DEF Deals, n
<1>10. QED
    BY Zenon, <1>9 DEF Dealer

(* A page holds the cards dealt, in their order, in stacks that are full.    *)
LEMMA DealtKeeps ==
    ASSUME NEW z \in CardSizes, NEW cards \in Seq(Nat)
    PROVE  /\ Dealt(cards, z) \in CardStacks /\ StacksFull(Dealt(cards, z), z)
           /\ FlattenSeq(Dealt(cards, z)) = cards
<1> DEFINE f == Dealer(cards, z)
           n == Len(cards)
           upto(k) == [i \in 1 .. k |-> cards[i]]
           B == {k \in 0 .. n : f[k] \in DealtStacks(z) /\ FlattenSeq(f[k]) = upto(k)}
<1>1. n \in Nat /\ (\A k \in 1 .. n : cards[k] \in Nat) /\ cards = upto(n)
    OBVIOUS
<1>2. f[0] = <<>> /\ \A k \in 1 .. n : f[k] = DealtTo(f[k-1], cards[k], z)
  <2>1. Deals(f, cards, z)
      BY DealerDeals
  <2> HIDE DEF f
  <2>2. 0 \in 0 .. n /\ \A k \in 1 .. n : k \in 0 .. n /\ k # 0
      BY <1>1
  <2>3. QED
      BY Zenon, <2>1, <2>2 DEF Deals
<1> HIDE DEF f
<1>3. 0 \in B
  <2>1. <<>> \in CardStacks /\ Len(<<>>) = 0 /\ 1 .. 0 = {} /\ upto(0) = <<>>
      BY DEF CardStacks
  <2>2. StacksFull(<<>>, z)
      BY <2>1 DEF StacksFull
  <2>3. FlattenSeq(f[0]) = upto(0)
      BY Zenon, <1>2, <2>1, FlattenNone
  <2>4. 0 \in 0 .. n
      BY <1>1
  <2>5. QED
      BY <1>2, <2>1, <2>2, <2>3, <2>4 DEF DealtStacks
<1>4. ASSUME NEW k \in 1 .. n, k - 1 \in B PROVE k \in B
  <2>1. f[k-1] \in CardStacks /\ StacksFull(f[k-1], z) /\ FlattenSeq(f[k-1]) = upto(k-1)
      BY <1>4 DEF DealtStacks
  <2>2. cards[k] \in Nat
      BY <1>1
  <2>3. f[k] \in CardStacks /\ StacksFull(f[k], z) /\ FlattenSeq(f[k]) = Append(upto(k-1), cards[k])
    <3> HIDE DEF upto, n
    <3>1. QED
        BY <1>2, <2>1, <2>2, DealtToKeeps
  <2>4. Append(upto(k-1), cards[k]) = upto(k)
      BY <1>1
  <2>5. k \in 0 .. n
      BY <1>1
  <2>6. QED
      BY <2>3, <2>4, <2>5 DEF DealtStacks
<1>5. B = 0 .. n
  <2>1. B \in SUBSET (0 .. n)
      OBVIOUS
  <2> HIDE DEF B
  <2>2. QED
      BY <1>1, <1>3, <1>4, <2>1, UpTo
<1>6. n \in B
  <2>1. n \in 0 .. n
      BY <1>1
  <2>2. QED
      BY Zenon, <1>5, <2>1
<1>7. f[n] \in CardStacks /\ StacksFull(f[n], z) /\ FlattenSeq(f[n]) = cards
    BY <1>1, <1>6 DEF DealtStacks
<1>8. Dealt(cards, z) = f[n]
    BY Zenon, DealtIs DEF f, n
<1>9. QED
    BY Zenon, <1>7, <1>8

-----------------------------------------------------------------------------
(* The flow of resources.                                                   *)

Flows ==
    [n : Nat, initial : Nat, perPage : Nat, sizes : CardSizes, index : Nat, pages : Seq(CardStacks),
     more : BOOLEAN, less : BOOLEAN, lessUsed : BOOLEAN]

(* How many resources the first page has.                                    *)
FirstOf(f) ==
    Least(f.n, IF f.initial # 0 THEN f.initial ELSE IF f.perPage # 0 THEN f.perPage ELSE f.n)

(* One more page: u is what it makes of f.                                   *)
PageDrawn(u, f, drawn) ==
    /\ u \in Flows /\ drawn \in CardStacks /\ StacksFull(drawn, f.sizes)
    /\ u.pages = Append(f.pages, drawn)
    /\ u.index \in f.index .. f.n /\ FlattenSeq(drawn) = Numbered(f.index, u.index)
    /\ f.index = 0 => u.index = FirstOf(f)
    /\ f.perPage # 0 /\ f.n > 0 => u.index > 0
    /\ u.more = (u.index < f.n) /\ u.less = (f.index # 0)
    /\ u.n = f.n /\ u.initial = f.initial /\ u.perPage = f.perPage /\ u.sizes = f.sizes
    /\ u.lessUsed = f.lessUsed

LEMMA LeastIs ==
    ASSUME NEW a \in Nat, NEW b \in Nat
    PROVE  /\ Least(a, b) \in Nat /\ Least(a, b) <= a /\ Least(a, b) <= b /\ Least(a, b) = Least(b, a)
           /\ \A c \in Nat : c <= a /\ c <= b => c <= Least(a, b)
           /\ a > 0 /\ b > 0 => Least(a, b) > 0
BY DEF Least

LEMMA FirstIs ==
    ASSUME NEW f \in Flows
    PROVE  FirstOf(f) \in 0 .. f.n /\ (f.n > 0 => FirstOf(f) > 0)
<1>1. f.n \in Nat /\ f.initial \in Nat /\ f.perPage \in Nat
    BY DEF Flows
<1> DEFINE b == IF f.initial # 0 THEN f.initial ELSE IF f.perPage # 0 THEN f.perPage ELSE f.n
<1>2. b \in Nat /\ (f.n > 0 => b > 0)
    BY <1>1
<1>3. FirstOf(f) = Least(f.n, b)
    BY DEF FirstOf
<1> HIDE DEF b
<1>4. QED
    BY <1>1, <1>2, <1>3, LeastIs

LEMMA DrawsPage ==
    ASSUME NEW f \in Flows, f.index <= f.n
    PROVE  \E drawn \in CardStacks : PageDrawn(drawResourceFlowPage(f), f, drawn)
<1> DEFINE b == IF f.initial # 0 THEN f.initial ELSE IF f.perPage # 0 THEN f.perPage ELSE f.n
           c == IF f.index = 0 THEN b ELSE f.index + f.perPage
           max == Least(f.n, c)
           cards == [k \in 1 .. max - f.index |-> f.index + k]
           drawn == Dealt(cards, f.sizes)
           pages == Append(f.pages, drawn)
           u == drawResourceFlowPage(f)
<1>1. /\ f.n \in Nat /\ f.initial \in Nat /\ f.perPage \in Nat /\ f.index \in Nat
      /\ f.sizes \in CardSizes /\ f.pages \in Seq(CardStacks) /\ f.lessUsed \in BOOLEAN
    BY DEF Flows
<1>2. u = [f EXCEPT !.pages = pages, !.index = max, !.more = max < f.n, !.less = ~(f.index = 0)]
    BY DEF drawResourceFlowPage
<1> HIDE DEF u
<1>3. f.index = 0 => max = FirstOf(f)
    BY DEF FirstOf
<1>4. b \in Nat /\ (f.n > 0 => b > 0)
    BY <1>1
<1> HIDE DEF b
<1>5. c \in Nat /\ f.index <= c /\ (f.n > 0 /\ f.perPage # 0 => c > 0)
    BY <1>1, <1>4
<1> HIDE DEF c
<1>6. max \in Nat /\ max <= f.n /\ f.index <= max /\ (f.n > 0 /\ f.perPage # 0 => max > 0)
    BY <1>1, <1>5, LeastIs
<1> HIDE DEF max
<1>7. cards \in Seq(Nat) /\ cards = Numbered(f.index, max)
  <2>1. \A k \in 1 .. max - f.index : f.index + k \in Nat
      BY <1>1, <1>6
  <2>2. max - f.index \in Nat
      BY <1>1, <1>6
  <2>3. cards \in Seq(Nat)
      BY <2>1, <2>2
  <2>4. QED
      BY <2>3 DEF Numbered
<1> HIDE DEF cards
<1>8. drawn \in CardStacks /\ StacksFull(drawn, f.sizes) /\ FlattenSeq(drawn) = cards
    BY <1>1, <1>7, DealtKeeps
<1> HIDE DEF drawn
<1>9. pages \in Seq(CardStacks)
    BY <1>1, <1>8, AppendProperties
<1> HIDE DEF pages
<1>10. /\ u.pages = pages /\ u.index = max /\ u.more = (max < f.n) /\ u.less = ~(f.index = 0)
       /\ u.n = f.n /\ u.initial = f.initial /\ u.perPage = f.perPage /\ u.sizes = f.sizes
       /\ u.lessUsed = f.lessUsed
    BY <1>2 DEF Flows
<1>11. u \in Flows
  <2>1. (max < f.n) \in BOOLEAN /\ (~(f.index = 0)) \in BOOLEAN
      OBVIOUS
  <2>2. QED
      BY <1>2, <1>6, <1>9, <2>1 DEF Flows
<1>12. max \in f.index .. f.n
    BY <1>1, <1>6
<1>13. (f.index = 0 => u.index = FirstOf(f)) /\ (f.perPage # 0 /\ f.n > 0 => u.index > 0)
    BY <1>3, <1>6, <1>10
<1>14. PageDrawn(u, f, drawn)
    BY Zenon, <1>7, <1>8, <1>10, <1>11, <1>12, <1>13 DEF PageDrawn, pages
<1>15. QED
    BY <1>8, <1>14 DEF u

(* What a flow shows, unless the index was lost.                             *)
FlowShows(f) ==
    /\ FlattenSeq(FlattenSeq(f.pages)) = Numbered(0, f.index)
    /\ FlattenSeq(f.pages[1]) = Numbered(0, FirstOf(f))
    /\ FirstOf(f) <= f.index /\ (Len(f.pages) > 1 => FirstOf(f) < f.n)
    /\ f.perPage # 0 => f.more = (f.index < f.n)
    /\ f.less = (Len(f.pages) > 1)

FlowGood(f) ==
    /\ f \in Flows /\ f.index <= f.n /\ f.pages # <<>>
    /\ \A p \in 1 .. Len(f.pages) : StacksFull(f.pages[p], f.sizes)
    /\ ~(f.initial = 0 /\ f.lessUsed) => FlowShows(f)

LEMMA FlattenPages ==
    ASSUME NEW pages \in Seq(CardStacks), NEW drawn \in CardStacks
    PROVE  /\ FlattenSeq(FlattenSeq(Append(pages, drawn))) = FlattenSeq(FlattenSeq(pages)) \o FlattenSeq(drawn)
           /\ FlattenSeq(<<drawn>>) = drawn
<1>1. /\ FlattenSeq(Append(pages, drawn)) = FlattenSeq(pages) \o drawn /\ FlattenSeq(pages) \in CardStacks
      /\ FlattenSeq(<<drawn>>) = drawn
    BY FlattenAppend, FlattenOne DEF CardStacks
<1>2. FlattenSeq(FlattenSeq(pages) \o drawn) = FlattenSeq(FlattenSeq(pages)) \o FlattenSeq(drawn)
    BY <1>1, FlattenConcat DEF CardStacks
<1>3. QED
    BY <1>1, <1>2

LEMMA FlowOfIs ==
    ASSUME NEW n \in Nat, NEW initial \in Nat, NEW perPage \in Nat, NEW z \in CardSizes
    PROVE  FlowGood(drawResourceFlowPage(FlowOf(n, initial, perPage, z)))
<1> DEFINE f == FlowOf(n, initial, perPage, z)
           u == drawResourceFlowPage(f)
<1>1. f \in Flows /\ f.index = 0 /\ f.pages = <<>> /\ f.n = n
  <2>1. <<>> \in Seq(CardStacks)
      OBVIOUS
  <2>2. QED
      BY <2>1 DEF FlowOf, Flows
<1> HIDE DEF f
<1>2. PICK drawn \in CardStacks : PageDrawn(u, f, drawn)
    BY <1>1, DrawsPage
<1> HIDE DEF u
<1>3. u.pages = <<drawn>> /\ Len(u.pages) = 1 /\ u.pages # <<>> /\ u.pages[1] = drawn
    BY <1>1, <1>2 DEF PageDrawn
<1>4. FlattenSeq(u.pages) = drawn
    BY Zenon, <1>1, <1>3, FlattenOne DEF CardStacks
<1>5. u.index = FirstOf(f) /\ FirstOf(u) = FirstOf(f) /\ FlattenSeq(drawn) = Numbered(0, u.index)
      /\ u.more = (u.index < u.n) /\ u.less = FALSE /\ u \in Flows
      /\ StacksFull(drawn, u.sizes) /\ u.index <= u.n /\ u.index \in Nat
  <2>1. FirstOf(u) = FirstOf(f)
      BY <1>2 DEF PageDrawn, FirstOf
  <2>2. f.index \in Nat /\ f.n \in Nat
      BY <1>1 DEF Flows
  <2>3. /\ u.index \in f.index .. f.n /\ u.n = f.n /\ u.more = (u.index < f.n) /\ u.less = (f.index # 0)
        /\ u.sizes = f.sizes /\ u.index = FirstOf(f) /\ FlattenSeq(drawn) = Numbered(0, u.index)
        /\ u \in Flows /\ StacksFull(drawn, f.sizes)
      BY Zenon, <1>1, <1>2 DEF PageDrawn
  <2>4. u.index <= u.n /\ u.index \in Nat
      BY <2>2, <2>3
  <2>5. u.less = FALSE
      BY <1>1, <2>3
  <2>6. QED
      BY Zenon, <2>1, <2>3, <2>4, <2>5
<1>6. u.less = (Len(u.pages) > 1) /\ ~(Len(u.pages) > 1) /\ FirstOf(u) <= u.index
  <2>1. ~(Len(u.pages) > 1)
      BY <1>3
  <2>2. FirstOf(u) <= u.index
      BY <1>5
  <2> DEFINE long == Len(u.pages) > 1
  <2>3. long = FALSE
      BY <2>1
  <2> HIDE DEF long
  <2>4. u.less = long
      BY <1>5, <2>3
  <2>5. QED
      BY <2>1, <2>2, <2>4 DEF long
<1>7. FlowShows(u)
    BY Zenon, <1>3, <1>4, <1>5, <1>6 DEF FlowShows
<1>8. \A p \in 1 .. Len(u.pages) : StacksFull(u.pages[p], u.sizes)
    BY <1>3, <1>5
<1>9. FlowGood(u)
    BY Zenon, <1>3, <1>5, <1>7, <1>8 DEF FlowGood
<1>10. QED
    BY <1>9 DEF u, f

LEMMA FlowStarts == (FlowInit \/ FlowRest) => FlowGood(flow)
<1>1. ASSUME FlowInit PROVE FlowGood(flow)
  <2>1. PICK n \in 0 .. MaxResults, initial \in 0 .. 3, perPage \in 0 .. 2, z \in {<<1>>, <<1, 3>>, <<2>>} :
            flow = drawResourceFlowPage(FlowOf(n, initial, perPage, z))
      BY <1>1 DEF FlowInit
  <2>2. n \in Nat /\ initial \in Nat /\ perPage \in Nat
      BY ListsAssumption DEF ListsAssumption
  <2>3. z \in CardSizes
    <3>1. <<1>> \in Seq(Nat \ {0}) /\ <<2>> \in Seq(Nat \ {0}) /\ <<1>> # <<>> /\ <<2>> # <<>>
        OBVIOUS
    <3>2. <<1, 3>> \in Seq(Nat \ {0}) /\ <<1, 3>> # <<>>
      <4>1. \A k \in 1 .. 2 : <<1, 3>>[k] \in Nat \ {0}
          OBVIOUS
      <4>2. QED
          BY <4>1
    <3>3. QED
        BY Zenon, <3>1, <3>2 DEF CardSizes
  <2>4. QED
      BY <2>1, <2>2, <2>3, FlowOfIs
<1>2. ASSUME FlowRest PROVE FlowGood(flow)
  <2>1. <<1>> \in CardSizes
      BY DEF CardSizes
  <2>2. QED
      BY <1>2, <2>1, FlowOfIs DEF FlowRest
<1>3. QED
    BY Zenon, <1>1, <1>2

LEMMA MoreKeeps == FlowGood(flow) /\ FlowMore => FlowGood(flow')
<1> SUFFICES ASSUME FlowGood(flow), FlowMore PROVE FlowGood(flow')
    OBVIOUS
<1> DEFINE f == flow
           u == flow'
<1>1. /\ f \in Flows /\ f.index <= f.n /\ f.pages # <<>> /\ f.perPage # 0 /\ f.more
      /\ u = drawResourceFlowPage(f)
    BY DEF FlowGood, FlowMore
<1>2. PICK drawn \in CardStacks : PageDrawn(u, f, drawn)
    BY <1>1, DrawsPage
<1>3. \A p \in 1 .. Len(f.pages) : StacksFull(f.pages[p], f.sizes)
    BY DEF FlowGood
<1>4. ~(f.initial = 0 /\ f.lessUsed) => FlowShows(f)
    BY DEF FlowGood
<1> HIDE DEF f, u
<1> DEFINE m == Len(f.pages)
<1>5. m \in Nat \ {0} /\ f.pages \in Seq(CardStacks) /\ f.index \in Nat /\ f.n \in Nat
    BY <1>1, EmptySeq DEF Flows
<1>6. /\ u \in Flows /\ u.pages = Append(f.pages, drawn) /\ Len(u.pages) = m + 1 /\ u.pages # <<>>
      /\ u.pages[m + 1] = drawn /\ (\A p \in 1 .. m : u.pages[p] = f.pages[p])
      /\ u.sizes = f.sizes /\ u.index \in f.index .. f.n /\ u.n = f.n /\ FirstOf(u) = FirstOf(f)
      /\ u.initial = f.initial /\ u.lessUsed = f.lessUsed
    BY <1>2, <1>5, AppendProperties DEF PageDrawn, FirstOf
<1>7. \A p \in 1 .. Len(u.pages) : StacksFull(u.pages[p], u.sizes)
  <2>1. StacksFull(drawn, f.sizes)
      BY <1>2 DEF PageDrawn
  <2> HIDE DEF m
  <2>2. \A p \in 1 .. m + 1 : p = m + 1 \/ p \in 1 .. m
      BY <1>5
  <2>3. QED
      BY Zenon, <1>3, <1>6, <2>1, <2>2 DEF m
<1>8. ASSUME ~(f.initial = 0 /\ f.lessUsed) PROVE FlowShows(u)
  <2>1. FlowShows(f)
      BY <1>4, <1>8
  <2>2. f.index < f.n /\ FirstOf(f) <= f.index /\ FirstOf(f) \in Nat /\ f.index > 0
    <3>1. f.index < f.n /\ FirstOf(f) <= f.index
        BY <1>1, <2>1 DEF FlowShows
    <3>2. FirstOf(f) \in 0 .. f.n /\ (f.n > 0 => FirstOf(f) > 0)
        BY <1>1, FirstIs
    <3>3. QED
        BY <1>5, <3>1, <3>2
  <2>3. FlattenSeq(FlattenSeq(u.pages)) = Numbered(0, u.index)
    <3>1. FlattenSeq(FlattenSeq(u.pages)) = Numbered(0, f.index) \o Numbered(f.index, u.index)
      <4>1. FlattenSeq(FlattenSeq(f.pages)) = Numbered(0, f.index)
          BY <2>1 DEF FlowShows
      <4>2. FlattenSeq(drawn) = Numbered(f.index, u.index)
          BY <1>2 DEF PageDrawn
      <4>3. QED
          BY Zenon, <1>5, <1>6, <4>1, <4>2, FlattenPages
    <3>2. u.index \in Nat /\ f.index <= u.index /\ 0 \in Nat /\ 0 <= f.index
        BY <1>5, <1>6
    <3>3. Numbered(0, f.index) \o Numbered(f.index, u.index) = Numbered(0, u.index)
        BY Zenon, <1>5, <3>2, NumbersJoin
    <3>4. QED
        BY <3>1, <3>3
  <2>4. FlattenSeq(u.pages[1]) = Numbered(0, FirstOf(u))
    <3>1. 1 \in 1 .. m
        BY <1>5
    <3>2. FlattenSeq(f.pages[1]) = Numbered(0, FirstOf(f))
        BY <2>1 DEF FlowShows
    <3>3. QED
        BY Zenon, <1>6, <3>1, <3>2
  <2>5. FirstOf(u) <= u.index /\ FirstOf(u) < u.n
      BY <1>5, <1>6, <2>2
  <2>6. u.more = (u.index < u.n)
      BY <1>2 DEF PageDrawn
  <2>7. u.less = (Len(u.pages) > 1)
    <3>1. u.less = TRUE
      <4>1. u.less = (f.index # 0)
          BY <1>2 DEF PageDrawn
      <4>2. f.index # 0
          BY <1>5, <2>2
      <4>3. QED
          BY <4>1, <4>2
    <3>2. Len(u.pages) > 1
        BY <1>5, <1>6
    <3>3. QED
        BY <3>1, <3>2
  <2>8. QED
      BY Zenon, <2>3, <2>4, <2>5, <2>6, <2>7 DEF FlowShows
<1>9. u.index <= u.n
    BY <1>5, <1>6
<1>10. FlowGood(u)
    BY Zenon, <1>6, <1>7, <1>8, <1>9 DEF FlowGood
<1>11. QED
    BY <1>10 DEF u

LEMMA LessKeeps == FlowGood(flow) /\ FlowLess => FlowGood(flow')
<1> SUFFICES ASSUME FlowGood(flow), FlowLess PROVE FlowGood(flow')
    OBVIOUS
<1> DEFINE f == flow
           u == flow'
           one == SubSeq(f.pages, 1, 1)
           index == IF f.initial = 0 THEN 0 ELSE Least(f.initial, f.n)
<1>1. /\ f \in Flows /\ f.pages # <<>> /\ f.perPage # 0 /\ f.less
      /\ u = [f EXCEPT !.pages = one, !.more = TRUE, !.less = FALSE, !.lessUsed = TRUE, !.index = index]
    BY DEF FlowGood, FlowLess, drawResourceFlowReset
<1>2. \A p \in 1 .. Len(f.pages) : StacksFull(f.pages[p], f.sizes)
    BY DEF FlowGood
<1>3. ~(f.initial = 0 /\ f.lessUsed) => FlowShows(f)
    BY DEF FlowGood
<1> HIDE DEF f, u
<1>4. /\ f.n \in Nat /\ f.initial \in Nat /\ f.pages \in Seq(CardStacks) /\ Len(f.pages) \in Nat \ {0}
      /\ f.pages[1] \in CardStacks
    BY <1>1, EmptySeq DEF Flows
<1>5. one = <<f.pages[1]>> /\ one \in Seq(CardStacks) /\ Len(one) = 1 /\ one[1] = f.pages[1] /\ one # <<>>
  <2> DEFINE x == <<f.pages[1]>>
  <2>1. x \in Seq(CardStacks) /\ Len(x) = 1 /\ x[1] = f.pages[1] /\ x # <<>>
      BY <1>4
  <2>2. one \in Seq(CardStacks) /\ Len(one) = 1 /\ one[1] = f.pages[1]
      BY <1>4
  <2> HIDE DEF one, x
  <2>3. \A k \in 1 .. Len(one) : one[k] = x[k]
      BY <2>1, <2>2
  <2>4. one = x
      BY <2>1, <2>2, <2>3, SeqEqual
  <2>5. QED
      BY <2>1, <2>4 DEF x
<1> HIDE DEF one
<1>6. index \in Nat /\ index <= f.n /\ (f.initial # 0 => index = FirstOf(f))
  <2>1. Least(f.initial, f.n) \in Nat /\ Least(f.initial, f.n) <= f.n
        /\ Least(f.initial, f.n) = Least(f.n, f.initial)
      BY <1>4, LeastIs
  <2>2. f.initial # 0 => FirstOf(f) = Least(f.n, f.initial)
      BY DEF FirstOf
  <2>3. QED
      BY <1>4, <2>1, <2>2
<1> HIDE DEF index
<1>7. /\ u \in Flows /\ u.pages = one /\ u.more = TRUE /\ u.less = FALSE /\ u.lessUsed = TRUE
      /\ u.index = index /\ u.n = f.n /\ u.initial = f.initial /\ u.perPage = f.perPage /\ u.sizes = f.sizes
    BY <1>1, <1>5, <1>6 DEF Flows
<1>8. FirstOf(u) = FirstOf(f)
    BY <1>7 DEF FirstOf
<1>9. \A p \in 1 .. Len(u.pages) : StacksFull(u.pages[p], u.sizes)
    BY <1>2, <1>4, <1>5, <1>7
<1>10. ASSUME u.initial # 0 PROVE FlowShows(u)
  <2>1. FlowShows(f) /\ u.index = FirstOf(f)
      BY <1>3, <1>6, <1>7, <1>10
  <2>2. FlattenSeq(u.pages) = f.pages[1] /\ FlattenSeq(f.pages[1]) = Numbered(0, FirstOf(f))
    <3>1. FlattenSeq(<<f.pages[1]>>) = f.pages[1]
        BY Zenon, <1>4, FlattenPages
    <3>2. QED
        BY <1>5, <1>7, <2>1, <3>1 DEF FlowShows
  <2>3. FirstOf(f) < f.n
      BY <1>1, <2>1 DEF FlowShows
  <2>4. u.more = (u.index < u.n)
      BY <1>7, <2>1, <2>3
  <2>5. u.less = (Len(u.pages) > 1) /\ ~(Len(u.pages) > 1)
    <3>1. ~(Len(u.pages) > 1)
        BY <1>5, <1>7
    <3> DEFINE long == Len(u.pages) > 1
    <3>2. long = FALSE
        BY <3>1
    <3> HIDE DEF long
    <3>3. u.less = long
        BY <1>7, <3>2
    <3>4. QED
        BY <3>1, <3>3 DEF long
  <2>6. FirstOf(u) <= u.index
      BY <1>6, <1>7, <1>8, <2>1
  <2>7. u.pages[1] = f.pages[1]
      BY <1>5, <1>7
  <2>8. QED
      BY Zenon, <1>8, <2>1, <2>2, <2>4, <2>5, <2>6, <2>7 DEF FlowShows
<1>11. u.index <= u.n /\ u.pages # <<>>
    BY <1>5, <1>6, <1>7
<1>12. FlowGood(u)
    BY Zenon, <1>7, <1>9, <1>10, <1>11 DEF FlowGood
<1>13. QED
    BY <1>12 DEF u

LEMMA FlowStays == FlowGood(flow) /\ [FlowNext]_flow => FlowGood(flow')
BY Zenon, MoreKeeps, LessKeeps DEF FlowNext

LEMMA FlowGoodIsPrefix == FlowGood(flow) => FlowIsPrefix
<1> SUFFICES ASSUME FlowGood(flow), ~(flow.initial = 0 /\ flow.lessUsed)
             PROVE  LET all == FlattenSeq(FlattenSeq(flow.pages))
                    IN  /\ \A p \in DOMAIN flow.pages : \A k \in 1 .. Len(flow.pages[p]) - 1 :
                             Len(flow.pages[p][k]) = SizeOf(flow.sizes, k)
                        /\ all = [k \in 1 .. flow.index |-> k]
                        /\ flow.perPage # 0 => flow.more = (Len(all) < flow.n)
                        /\ flow.less = (Len(flow.pages) > 1)
    BY Zenon DEF FlowIsPrefix
<1>1. FlowShows(flow) /\ flow \in Flows
    BY DEF FlowGood
<1>2. flow.index \in Nat /\ flow.pages \in Seq(CardStacks) /\ DOMAIN flow.pages = 1 .. Len(flow.pages)
    BY <1>1 DEF Flows
<1>3. Numbered(0, flow.index) = [k \in 1 .. flow.index |-> k] /\ Len(Numbered(0, flow.index)) = flow.index
    BY <1>2 DEF Numbered
<1>4. ASSUME NEW p \in DOMAIN flow.pages, NEW k \in 1 .. Len(flow.pages[p]) - 1
      PROVE  Len(flow.pages[p][k]) = SizeOf(flow.sizes, k)
  <2>1. flow.pages[p] \in CardStacks /\ Len(flow.pages[p]) \in Nat
      BY <1>2 DEF CardStacks
  <2>2. k \in 1 .. Len(flow.pages[p]) /\ k < Len(flow.pages[p])
      BY <2>1
  <2>3. StacksFull(flow.pages[p], flow.sizes)
      BY <1>2 DEF FlowGood
  <2>4. QED
      BY <2>2, <2>3 DEF StacksFull
<1>5. QED
    BY Zenon, <1>1, <1>3, <1>4 DEF FlowShows

-----------------------------------------------------------------------------
(* The stacks of cards.                                                     *)

(* The stack that the next card goes to, found from left to right.           *)
Finds(f, height) ==
    f = [j \in 1 .. Stacks |->
           IF j = 1 THEN 1
           ELSE IF height[j] + Margin < height[f[j-1]] THEN j ELSE f[j-1]]

Finder(height) == CHOOSE f : Finds(f, height)

LEMMA ShortestIs == Shortest = Finder(stack.height)[Stacks]
BY Zenon DEF Shortest, Finder, Finds

LEMMA FinderFinds ==
    ASSUME NEW height \in [1 .. Stacks -> Nat]
    PROVE  Finds(Finder(height), height)
<1> DEFINE R == 1 .. Stacks
           h == [j \in R |-> [m \in R |-> IF j = 1 THEN 1 ELSE IF height[j] + Margin < height[m] THEN j ELSE m]]
<1>1. Stacks \in Nat \ {0} /\ 1 \in R
    BY ListsAssumption DEF ListsAssumption
<1>2. \A j \in R, m \in R : (IF j = 1 THEN 1 ELSE IF height[j] + Margin < height[m] THEN j ELSE m) \in R
    BY <1>1
<1>3. \A j \in R : j \in Nat /\ (j # 1 => j - 1 \in R) /\ j - 1 \in 0 .. Stacks
    BY <1>1
<1>4. R = 1 .. Stacks
    OBVIOUS
<1> HIDE DEF R
<1>5. h \in Rules(Stacks, R)
      /\ \A j \in R, m \in R :
           h[j][m] = IF j = 1 THEN 1 ELSE IF height[j] + Margin < height[m] THEN j ELSE m
  <2>1. \A j \in R :
            [m \in R |-> IF j = 1 THEN 1 ELSE IF height[j] + Margin < height[m] THEN j ELSE m] \in [R -> R]
      BY <1>2
  <2>2. QED
      BY Zenon, <1>4, <2>1 DEF Rules
<1> HIDE DEF h
<1>6. PICK e : Follows(e, Stacks, R, 1, h)
    BY <1>1, <1>5, RecursionExists
<1>7. e \in [0 .. Stacks -> R] /\ \A j \in R : e[j] = h[j][e[j-1]] /\ e[j-1] \in R
    BY <1>3, <1>4, <1>6 DEF Follows
<1> DEFINE f == [j \in R |-> e[j]]
<1>8. \A j \in R : f[j] = IF j = 1 THEN 1 ELSE IF height[j] + Margin < height[f[j-1]] THEN j ELSE f[j-1]
  <2> TAKE j \in R
  <2>1. e[j] = IF j = 1 THEN 1 ELSE IF height[j] + Margin < height[e[j-1]] THEN j ELSE e[j-1]
      BY Zenon, <1>5, <1>7
  <2>2. CASE j = 1
      BY <2>1, <2>2
  <2>3. CASE j # 1
    <3>1. f[j-1] = e[j-1] /\ f[j] = e[j]
        BY <1>3, <2>3
    <3> HIDE DEF f
    <3>2. QED
        BY Zenon, <2>1, <2>3, <3>1
  <2>4. QED
      BY <2>2, <2>3
<1>9. f = [j \in R |-> f[j]]
    OBVIOUS
<1> HIDE DEF f
<1>10. Finds(f, height)
    BY Zenon, <1>4, <1>8, <1>9 DEF Finds
<1>11. QED
    BY Zenon, <1>10 DEF Finder

(* No stack is shorter than the one found by more than the margin.           *)
LEMMA ShortestFound ==
    ASSUME stack.height \in [1 .. Stacks -> Nat]
    PROVE  /\ Shortest \in 1 .. Stacks
           /\ \A j \in 1 .. Stacks : stack.height[Shortest] <= stack.height[j] + Margin
<1> DEFINE f == Finder(stack.height)
           height == stack.height
           B == {k \in 0 .. Stacks :
                   k > 0 => /\ f[k] \in 1 .. k
                            /\ \A j \in 1 .. k : height[f[k]] <= height[j] + Margin}
<1>1. Stacks \in Nat \ {0} /\ \A j \in 1 .. Stacks : height[j] \in Nat
    BY ListsAssumption DEF ListsAssumption
<1>2. \A j \in 1 .. Stacks :
         f[j] = IF j = 1 THEN 1 ELSE IF height[j] + Margin < height[f[j-1]] THEN j ELSE f[j-1]
  <2>1. Finds(f, height)
      BY FinderFinds
  <2> HIDE DEF f, height
  <2>2. QED
      BY Zenon, <2>1 DEF Finds
<1> HIDE DEF f, height
<1>3. 0 \in B /\ B \in SUBSET (0 .. Stacks)
    BY <1>1
<1>4. ASSUME NEW k \in 1 .. Stacks, k - 1 \in B PROVE k \in B
  <2>1. CASE k = 1
    <3>1. f[1] = 1 /\ height[1] \in Nat /\ 1 .. 1 = {1}
        BY <1>1, <1>2, <2>1
    <3>2. QED
        BY <1>1, <2>1, <3>1 DEF Margin
  <2>2. CASE k # 1
    <3> DEFINE m == f[k-1]
    <3>1. m \in 1 .. k - 1 /\ \A j \in 1 .. k - 1 : height[m] <= height[j] + Margin
        BY <1>1, <1>4, <2>2
    <3>2. f[k] = IF height[k] + Margin < height[m] THEN k ELSE m
        BY <1>2, <2>2
    <3> HIDE DEF m
    <3>3. height[k] \in Nat /\ height[m] \in Nat /\ \A j \in 1 .. k : height[j] \in Nat
        BY <1>1, <3>1
    <3>4. f[k] \in 1 .. k
        BY <1>1, <3>1, <3>2
    <3>5. ASSUME NEW j \in 1 .. k PROVE height[f[k]] <= height[j] + Margin
      <4>1. CASE j = k
          BY <3>2, <3>3, <4>1 DEF Margin
      <4>2. CASE j # k
        <5>1. height[m] <= height[j] + Margin /\ height[j] \in Nat
            BY <1>1, <3>1, <3>3, <4>2
        <5>2. QED
            BY <3>2, <3>3, <5>1 DEF Margin
      <4>3. QED
          BY <4>1, <4>2
    <3>6. QED
        BY <1>1, <3>4, <3>5
  <2>3. QED
      BY <2>1, <2>2
<1>5. B = 0 .. Stacks
  <2> HIDE DEF B
  <2>1. QED
      BY <1>1, <1>3, <1>4, UpTo
<1>6. Stacks \in B
  <2>1. Stacks \in 0 .. Stacks
      BY <1>1
  <2>2. QED
      BY Zenon, <1>5, <2>1
<1>7. f[Stacks] \in 1 .. Stacks /\ \A j \in 1 .. Stacks : height[f[Stacks]] <= height[j] + Margin
    BY <1>1, <1>6
<1>8. Shortest = f[Stacks]
    BY Zenon, ShortestIs DEF f
<1>9. QED
    BY Zenon, <1>7, <1>8 DEF height

StackGood(s) ==
    /\ s \in [height : [1 .. Stacks -> Nat], cards : Nat]
    /\ \A i, j \in 1 .. Stacks : \E h \in Heights : s.height[i] - s.height[j] <= h + Margin

LEMMA StackStarts == StackInit => StackGood(stack)
<1> SUFFICES ASSUME StackInit PROVE StackGood(stack)
    OBVIOUS
<1>1. stack = [height |-> [j \in 1 .. Stacks |-> 0], cards |-> 0]
    BY DEF StackInit
<1>2. PICK h \in Heights : h \in Nat
    BY ListsAssumption DEF ListsAssumption
<1>3. stack \in [height : [1 .. Stacks -> Nat], cards : Nat]
    BY <1>1
<1>4. \A i \in 1 .. Stacks : stack.height[i] = 0
    BY <1>1
<1>5. ASSUME NEW i \in 1 .. Stacks, NEW j \in 1 .. Stacks
      PROVE  \E g \in Heights : stack.height[i] - stack.height[j] <= g + Margin
  <2>1. stack.height[i] - stack.height[j] <= h + Margin
      BY <1>2, <1>4 DEF Margin
  <2>2. QED
      BY Zenon, <1>2, <2>1
<1>6. QED
    BY <1>3, <1>5 DEF StackGood

LEMMA StackKept == StackGood(stack) /\ StackNext => StackGood(stack')
<1> SUFFICES ASSUME StackGood(stack), StackNext PROVE StackGood(stack')
    OBVIOUS
<1> DEFINE s == stack.height
           m == Shortest
<1>1. s \in [1 .. Stacks -> Nat] /\ stack.cards \in Nat
    BY DEF StackGood
<1>2. m \in 1 .. Stacks /\ \A j \in 1 .. Stacks : s[m] <= s[j] + Margin
    BY <1>1, ShortestFound
<1>3. PICK h \in Heights : stack' = [height |-> [s EXCEPT ![m] = @ + h], cards |-> stack.cards + 1]
    BY Zenon DEF StackNext
<1>4. h \in Nat
    BY ListsAssumption DEF ListsAssumption
<1> HIDE DEF m
<1> DEFINE t == [s EXCEPT ![m] = @ + h]
<1>5. t[m] = s[m] + h /\ (\A j \in 1 .. Stacks : j # m => t[j] = s[j]) /\ \A j \in 1 .. Stacks : s[j] \in Nat
    BY <1>1, <1>2
<1>6. t \in [1 .. Stacks -> Nat]
  <2>1. \A j \in 1 .. Stacks : t[j] \in Nat
      BY <1>2, <1>4, <1>5
  <2>2. t = [j \in 1 .. Stacks |-> t[j]]
      BY <1>1
  <2> HIDE DEF t
  <2>3. QED
      BY <2>1, <2>2
<1>7. \A i, j \in 1 .. Stacks : \E g \in Heights : g \in Nat /\ s[i] - s[j] <= g + Margin
    BY ListsAssumption DEF StackGood, ListsAssumption
<1> HIDE DEF s, t
<1>8. stack'.height = t /\ stack'.cards = stack.cards + 1
      /\ stack' \in [height : [1 .. Stacks -> Nat], cards : Nat]
    BY <1>1, <1>3, <1>6 DEF t
<1>9. ASSUME NEW i \in 1 .. Stacks, NEW j \in 1 .. Stacks
      PROVE  \E g \in Heights : t[i] - t[j] <= g + Margin
  <2>1. CASE i = m /\ j = m
    <3>1. t[i] - t[j] <= h + Margin
        BY <1>2, <1>4, <1>5, <2>1 DEF Margin
    <3>2. QED
        BY Zenon, <3>1
  <2>2. CASE i = m /\ j # m
    <3>1. t[i] - t[j] <= h + Margin
        BY <1>2, <1>4, <1>5, <2>2 DEF Margin
    <3>2. QED
        BY Zenon, <3>1
  <2>3. CASE i # m
    <3>1. PICK g \in Heights : g \in Nat /\ s[i] - s[j] <= g + Margin
        BY <1>7
    <3>2. t[i] = s[i] /\ (t[j] = s[j] \/ t[j] = s[j] + h) /\ s[j] \in Nat /\ s[i] \in Nat
        BY <1>5, <2>3
    <3>3. t[i] - t[j] <= g + Margin
        BY <1>4, <3>1, <3>2 DEF Margin
    <3>4. QED
        BY Zenon, <3>3
  <2>4. QED
      BY <2>1, <2>2, <2>3
<1>10. QED
    BY Zenon, <1>8, <1>9 DEF StackGood

LEMMA StackStays == StackGood(stack) /\ [StackNext]_stack => StackGood(stack')
BY Zenon, StackKept

LEMMA StackGoodBalanced == StackGood(stack) => StacksBalanced
BY Zenon DEF StackGood, StacksBalanced

-----------------------------------------------------------------------------
(* The filter.                                                              *)

OfTab(checked, t) == {i \in checked : i.tab = t}

Filters ==
    [checked : SUBSET Items, chips : Seq(Items), drawn : SUBSET Resources, changes : Nat,
     count : [FilterTabs -> Int]]

FilterGood(f) ==
    /\ f \in Filters /\ IsInjective(f.chips)
    /\ ToSet(f.chips) = f.checked /\ Len(f.chips) = Cardinality(f.checked)
    /\ \A t \in FilterTabs : f.count[t] = Cardinality(OfTab(f.checked, t))
    /\ f.changes > 0 => f.drawn = Filtered(f.checked)

LEMMA ItemsFinite == \A checked \in SUBSET Items : IsFiniteSet(checked) /\ Cardinality(checked) \in Nat
BY ListsAssumption, FS_Subset, FS_CardinalityType DEF ListsAssumption

LEMMA OfTabIs ==
    ASSUME NEW checked \in SUBSET Items, NEW i \in Items, NEW t
    PROVE  /\ OfTab(checked, t) \in SUBSET Items
           /\ OfTab(checked \union {i}, t) =
                IF i.tab = t THEN OfTab(checked, t) \union {i} ELSE OfTab(checked, t)
           /\ OfTab(checked \ {i}, t) =
                IF i.tab = t THEN OfTab(checked, t) \ {i} ELSE OfTab(checked, t)
           /\ i \in OfTab(checked, t) <=> i \in checked /\ i.tab = t
BY DEF OfTab

LEMMA FilterOfIs == ASSUME NEW checked \in SUBSET Items PROVE FilterGood(FilterOf(checked))
<1> DEFINE f == FilterOf(checked)
           chips == SetToSeq(checked)
           count == [t \in FilterTabs |-> Cardinality({i \in checked : i.tab = t})]
<1>1. f = [checked |-> checked, chips |-> chips, drawn |-> Resources, changes |-> 0, count |-> count]
    BY DEF FilterOf
<1> HIDE DEF f
<1>2. chips \in Seq(checked) /\ IsInjective(chips) /\ ToSet(chips) = checked /\ Len(chips) = Cardinality(checked)
    BY ItemsFinite, SetInSequence
<1> HIDE DEF chips
<1>3. chips \in Seq(Items)
    BY <1>2
<1>4. \A t \in FilterTabs : Cardinality(OfTab(checked, t)) \in Int
  <2>1. \A t \in FilterTabs : OfTab(checked, t) \in SUBSET Items
      BY DEF OfTab
  <2>2. QED
      BY <2>1, ItemsFinite
<1>5. (\A t \in FilterTabs : count[t] = Cardinality(OfTab(checked, t))) /\ count \in [FilterTabs -> Int]
    BY <1>4 DEF OfTab
<1> HIDE DEF count
<1>6. /\ f \in Filters /\ f.checked = checked /\ f.chips = chips /\ f.changes = 0 /\ f.count = count
    BY <1>1, <1>3, <1>5 DEF Filters
<1>7. ~(f.changes > 0)
    BY <1>6
<1>8. FilterGood(f)
    BY Zenon, <1>2, <1>5, <1>6, <1>7 DEF FilterGood
<1>9. QED
    BY <1>8 DEF f

LEMMA FilterStarts == (FilterInit \/ FilterRest) => FilterGood(filter)
<1>1. ASSUME FilterInit PROVE FilterGood(filter)
    BY <1>1, FilterOfIs DEF FilterInit
<1>2. ASSUME FilterRest PROVE FilterGood(filter)
    BY <1>2, FilterOfIs DEF FilterRest
<1>3. QED
    BY Zenon, <1>1, <1>2

LEMMA TabOf == \A i \in Items : i.tab \in FilterTabs
BY DEF FilterTabs

LEMMA FilteredIs == \A checked : Filtered(checked) \in SUBSET Resources
BY DEF Filtered

LEMMA CheckKeeps ==
    ASSUME FilterGood(filter), NEW i \in Items, FilterCheck(i)
    PROVE  FilterGood(filter')
<1> DEFINE f == filter
           u == filter'
           checked == f.checked \union {i}
           chips == Append(f.chips, i)
           count == [f.count EXCEPT ![i.tab] = @ + 1]
           drawn == Filtered(checked)
<1>1. /\ f \in Filters /\ IsInjective(f.chips) /\ ToSet(f.chips) = f.checked
      /\ Len(f.chips) = Cardinality(f.checked) /\ i \notin f.checked
      /\ \A t \in FilterTabs : f.count[t] = Cardinality(OfTab(f.checked, t))
    BY Zenon DEF FilterGood, FilterCheck
<1>2. u = [f EXCEPT !.checked = checked, !.chips = chips, !.count = count, !.drawn = drawn, !.changes = @ + 1]
    BY DEF FilterCheck
<1> HIDE DEF f, u
<1>3. f.checked \in SUBSET Items /\ f.chips \in Seq(Items) /\ f.changes \in Nat /\ f.count \in [FilterTabs -> Int]
    BY <1>1 DEF Filters
<1>4. chips \in Seq(Items) /\ IsInjective(chips) /\ Len(chips) = Len(f.chips) + 1 /\ ToSet(chips) = checked
    BY <1>1, <1>3, OneAdded
<1>5. IsFiniteSet(f.checked) /\ Cardinality(checked) = Cardinality(f.checked) + 1 /\ checked \in SUBSET Items
    BY <1>1, <1>3, ItemsFinite, FS_AddElement
<1>6. i.tab \in FilterTabs
    BY TabOf
<1>7. count \in [FilterTabs -> Int]
      /\ \A t \in FilterTabs : count[t] = IF t = i.tab THEN f.count[t] + 1 ELSE f.count[t]
    BY <1>3, <1>6
<1> HIDE DEF count, chips
<1>8. \A t \in FilterTabs : count[t] = Cardinality(OfTab(checked, t))
  <2> TAKE t \in FilterTabs
  <2> DEFINE old == OfTab(f.checked, t)
  <2>1. old \in SUBSET Items /\ OfTab(checked, t) = (IF i.tab = t THEN old \union {i} ELSE old) /\ i \notin old
      BY <1>1, <1>3, OfTabIs
  <2> HIDE DEF old
  <2>2. Cardinality(old \union {i}) = Cardinality(old) + 1
      BY <2>1, ItemsFinite, FS_AddElement
  <2>3. f.count[t] = Cardinality(old)
      BY <1>1 DEF old
  <2>4. QED
      BY <1>7, <2>1, <2>2, <2>3
<1>9. drawn \in SUBSET Resources
    BY FilteredIs
<1> HIDE DEF checked
<1> HIDE DEF drawn
<1>10. /\ u \in Filters /\ u.checked = checked /\ u.chips = chips /\ u.count = count /\ u.drawn = drawn
  <2>1. u = [checked |-> checked, chips |-> chips, drawn |-> drawn, changes |-> f.changes + 1, count |-> count]
      BY <1>1, <1>2 DEF Filters
  <2>2. f.changes + 1 \in Nat
      BY <1>3
  <2>3. QED
      BY <1>4, <1>5, <1>7, <1>9, <2>1, <2>2 DEF Filters
<1>11. u.drawn = Filtered(u.checked)
    BY <1>10 DEF drawn
<1>12. FilterGood(u)
    BY Zenon, <1>1, <1>4, <1>5, <1>8, <1>10, <1>11 DEF FilterGood
<1>13. QED
    BY <1>12 DEF u

LEMMA UncheckKeeps ==
    ASSUME FilterGood(filter), NEW i \in Items, FilterUncheck(i)
    PROVE  FilterGood(filter')
<1> DEFINE f == filter
           u == filter'
           k == CHOOSE j \in DOMAIN f.chips : f.chips[j] = i
           checked == f.checked \ {i}
           chips == RemoveAt(f.chips, k)
           count == [f.count EXCEPT ![i.tab] = @ - 1]
           drawn == Filtered(checked)
<1>1. /\ f \in Filters /\ IsInjective(f.chips) /\ ToSet(f.chips) = f.checked
      /\ Len(f.chips) = Cardinality(f.checked) /\ i \in f.checked
      /\ \A t \in FilterTabs : f.count[t] = Cardinality(OfTab(f.checked, t))
    BY Zenon DEF FilterGood, FilterUncheck
<1>2. u = [f EXCEPT !.checked = checked, !.chips = chips, !.count = count, !.drawn = drawn, !.changes = @ + 1]
    BY DEF FilterUncheck
<1> HIDE DEF f, u
<1>3. f.checked \in SUBSET Items /\ f.chips \in Seq(Items) /\ f.changes \in Nat /\ f.count \in [FilterTabs -> Int]
    BY <1>1 DEF Filters
<1>4. k \in DOMAIN f.chips /\ f.chips[k] = i
  <2>1. \E j \in DOMAIN f.chips : f.chips[j] = i
      BY <1>1 DEF ToSet
  <2>2. QED
      BY Zenon, <2>1
<1> HIDE DEF k
<1>5. chips \in Seq(Items) /\ IsInjective(chips) /\ Len(chips) = Len(f.chips) - 1 /\ ToSet(chips) = checked
    BY <1>1, <1>3, <1>4, OneRemoved
<1>6. IsFiniteSet(f.checked) /\ Cardinality(checked) = Cardinality(f.checked) - 1 /\ checked \in SUBSET Items
    BY <1>1, <1>3, ItemsFinite, FS_RemoveElement
<1>7. i.tab \in FilterTabs
    BY TabOf
<1>8. count \in [FilterTabs -> Int]
      /\ \A t \in FilterTabs : count[t] = IF t = i.tab THEN f.count[t] - 1 ELSE f.count[t]
    BY <1>3, <1>7
<1> HIDE DEF count, chips
<1>9. \A t \in FilterTabs : count[t] = Cardinality(OfTab(checked, t))
  <2> TAKE t \in FilterTabs
  <2> DEFINE old == OfTab(f.checked, t)
  <2>1. /\ old \in SUBSET Items /\ OfTab(checked, t) = (IF i.tab = t THEN old \ {i} ELSE old)
        /\ i.tab = t => i \in old
    <3>1. f.checked \in SUBSET Items /\ i \in f.checked
        BY <1>1, <1>3
    <3>2. QED
        BY Zenon, <3>1, OfTabIs
  <2> HIDE DEF old
  <2>2. i \in old => Cardinality(old \ {i}) = Cardinality(old) - 1
      BY <2>1, ItemsFinite, FS_RemoveElement
  <2>3. f.count[t] = Cardinality(old)
      BY <1>1 DEF old
  <2>4. QED
      BY <1>8, <2>1, <2>2, <2>3
<1>10. drawn \in SUBSET Resources
    BY FilteredIs
<1> HIDE DEF checked
<1> HIDE DEF drawn
<1>11. /\ u \in Filters /\ u.checked = checked /\ u.chips = chips /\ u.count = count /\ u.drawn = drawn
  <2>1. u = [checked |-> checked, chips |-> chips, drawn |-> drawn, changes |-> f.changes + 1, count |-> count]
      BY <1>1, <1>2 DEF Filters
  <2>2. f.changes + 1 \in Nat
      BY <1>3
  <2>3. QED
      BY <1>5, <1>6, <1>8, <1>10, <2>1, <2>2 DEF Filters
<1>12. u.drawn = Filtered(u.checked)
    BY <1>11 DEF drawn
<1>13. FilterGood(u)
    BY Zenon, <1>1, <1>5, <1>6, <1>9, <1>11, <1>12 DEF FilterGood
<1>14. QED
    BY <1>13 DEF u

LEMMA FilterStays == FilterGood(filter) /\ [FilterNext]_filter => FilterGood(filter')
<1> SUFFICES ASSUME FilterGood(filter), [FilterNext]_filter PROVE FilterGood(filter')
    OBVIOUS
<1>1. ASSUME FilterNext PROVE FilterGood(filter')
    BY Zenon, <1>1, CheckKeeps, UncheckKeeps DEF FilterNext
<1>2. QED
    BY Zenon, <1>1

LEMMA FilterGoodAgrees == FilterGood(filter) => FilterAgrees
<1> SUFFICES ASSUME FilterGood(filter) PROVE FilterAgrees
    OBVIOUS
<1> DEFINE c == filter.checked
<1>1. ToSet(filter.chips) = filter.checked /\ Len(filter.chips) = Cardinality(filter.checked)
    BY DEF FilterGood
<1>2. \A t \in FilterTabs : filter.count[t] = Cardinality({i \in filter.checked : i.tab = t})
    BY Zenon DEF FilterGood, OfTab
<1>3. ASSUME filter.changes > 0, NEW r \in Resources
      PROVE  r \in filter.drawn <=>
               /\ \E i \in filter.checked : i.kind = "type" /\ i.value = r.type
               /\ \A i \in filter.checked :
                    i.kind = "tag" => i.value \in r.tags
               /\ (\E i \in filter.checked : i.kind = "category") =>
                    \E i \in filter.checked : i.kind = "category" /\ i.value = r.category
  <2>1. filter.drawn = Filtered(c)
      BY <1>3 DEF FilterGood
  <2> HIDE DEF c
  <2>2. r.type \in Values(c, "type") <=> \E i \in c : i.kind = "type" /\ i.value = r.type
      BY DEF Values
  <2>3. Values(c, "tag") \subseteq r.tags <=> \A i \in c : i.kind = "tag" => i.value \in r.tags
      BY DEF Values
  <2>4. Values(c, "category") # {} <=> \E i \in c : i.kind = "category"
      BY DEF Values
  <2>5. r.category \in Values(c, "category") <=> \E i \in c : i.kind = "category" /\ i.value = r.category
      BY DEF Values
  <2>6. QED
      BY <2>1, <2>2, <2>3, <2>4, <2>5 DEF Filtered, c
<1>4. QED
    BY Zenon, <1>1, <1>2, <1>3 DEF FilterAgrees

-----------------------------------------------------------------------------
(* The resource browser, and the lists together.                            *)

(* The resources that have the tags, one at a time.                          *)
Tagging(f, wanted) ==
    f = [i \in 0 .. Len(Technical) |->
           IF i = 0 THEN <<>>
           ELSE IF wanted \subseteq Technical[i].tags THEN Append(f[i-1], i) ELSE f[i-1]]

Tagger(wanted) == CHOOSE f : Tagging(f, wanted)

LEMMA TaggedIs == ASSUME NEW tags PROVE Tagged(tags) = Tagger(searchTags(tags))[Len(Technical)]
BY Zenon DEF Tagged, Tagger, Tagging

LEMMA TechnicalIs == Len(Technical) \in Nat /\ DOMAIN Technical = 1 .. Len(Technical)
BY ListsAssumption DEF ListsAssumption

LEMMA TaggerTags == ASSUME NEW wanted PROVE Tagging(Tagger(wanted), wanted)
<1> DEFINE R == Seq(Nat)
           n == Len(Technical)
           h == [i \in 1 .. n |-> [r \in R |-> IF wanted \subseteq Technical[i].tags THEN Append(r, i) ELSE r]]
<1>1. n \in Nat /\ <<>> \in R
    BY TechnicalIs
<1>2. \A i \in 1 .. n, r \in R : (IF wanted \subseteq Technical[i].tags THEN Append(r, i) ELSE r) \in R
  <2>1. \A i \in 1 .. n, r \in R : Append(r, i) \in R
      BY <1>1
  <2>2. QED
      BY Zenon, <2>1
<1> HIDE DEF R, n
<1>3. h \in Rules(n, R)
      /\ \A i \in 1 .. n, r \in R : h[i][r] = IF wanted \subseteq Technical[i].tags THEN Append(r, i) ELSE r
  <2>1. \A i \in 1 .. n :
            [r \in R |-> IF wanted \subseteq Technical[i].tags THEN Append(r, i) ELSE r] \in [R -> R]
      BY <1>2
  <2>2. QED
      BY Zenon, <2>1 DEF Rules
<1> HIDE DEF h
<1>4. PICK f : Follows(f, n, R, <<>>, h)
    BY <1>1, <1>3, RecursionExists
<1>5. f \in [0 .. n -> R] /\ f[0] = <<>> /\ \A i \in 1 .. n : f[i] = h[i][f[i-1]] /\ f[i-1] \in R
  <2>1. \A i \in 1 .. n : i - 1 \in 0 .. n
      BY <1>1
  <2>2. QED
      BY <1>4, <2>1 DEF Follows
<1>6. \A i \in 0 .. n : f[i] = IF i = 0 THEN <<>>
                               ELSE IF wanted \subseteq Technical[i].tags THEN Append(f[i-1], i) ELSE f[i-1]
  <2>1. \A i \in 0 .. n : i = 0 \/ i \in 1 .. n
      BY <1>1
  <2>2. QED
      BY Zenon, <1>3, <1>5, <2>1
<1>7. f = [i \in 0 .. n |-> f[i]]
    BY <1>5
<1>8. Tagging(f, wanted)
    BY Zenon, <1>6, <1>7 DEF Tagging, n
<1>9. QED
    BY Zenon, <1>8 DEF Tagger

Ascending(s) == \A k, l \in DOMAIN s : k < l => s[k] < s[l]

WithTags(wanted, n) == {i \in 1 .. n : wanted \subseteq Technical[i].tags}

(* What has the tags is found, in order.                                     *)
LEMMA TaggedFinds ==
    ASSUME NEW tags
    PROVE  /\ Tagged(tags) \in Seq(Nat) /\ Ascending(Tagged(tags))
           /\ ToSet(Tagged(tags)) = WithTags(searchTags(tags), Len(Technical))
<1> DEFINE wanted == searchTags(tags)
           f == Tagger(wanted)
           n == Len(Technical)
           Found(r, k) == r \in Seq(Nat) /\ Ascending(r) /\ ToSet(r) = WithTags(wanted, k)
           B == {k \in 0 .. n : Found(f[k], k)}
<1>1. n \in Nat
    BY TechnicalIs
<1>2. \A i \in 0 .. n : f[i] = IF i = 0 THEN <<>>
                               ELSE IF wanted \subseteq Technical[i].tags THEN Append(f[i-1], i) ELSE f[i-1]
  <2>1. Tagging(f, wanted)
      BY TaggerTags
  <2> HIDE DEF f, wanted
  <2>2. QED
      BY Zenon, <2>1 DEF Tagging
<1> HIDE DEF f, wanted, n
<1>3. 0 \in B
  <2>1. f[0] = <<>>
      BY <1>1, <1>2
  <2>2. Found(<<>>, 0)
      BY DEF Ascending, ToSet, WithTags
  <2>3. 0 \in 0 .. n
      BY <1>1
  <2> HIDE DEF Found
  <2>4. QED
      BY Zenon, <2>1, <2>2, <2>3
<1>4. ASSUME NEW k \in 1 .. n, k - 1 \in B PROVE k \in B
  <2> DEFINE r == f[k-1]
  <2>1. r \in Seq(Nat) /\ Ascending(r) /\ ToSet(r) = WithTags(wanted, k - 1)
      BY <1>4
  <2>2. k \in Nat /\ k \in 0 .. n /\ k # 0 /\ 1 .. k = (1 .. k - 1) \union {k}
      BY <1>1
  <2>3. f[k] = IF wanted \subseteq Technical[k].tags THEN Append(r, k) ELSE r
      BY Zenon, <1>2, <2>2
  <2> HIDE DEF r
  <2>4. CASE wanted \subseteq Technical[k].tags
    <3> DEFINE t == Append(r, k)
               m == Len(r)
    <3>1. /\ m \in Nat /\ DOMAIN r = 1 .. m /\ t \in Seq(Nat) /\ DOMAIN t = 1 .. m + 1 /\ t[m + 1] = k
          /\ \A j \in 1 .. m : t[j] = r[j]
        BY <2>1, <2>2, AppendProperties
    <3> HIDE DEF t, m
    <3>2. \A j \in 1 .. m + 1 : j = m + 1 \/ j \in 1 .. m
        BY <3>1
    <3>3. m + 1 \in 1 .. m + 1 /\ \A j \in 1 .. m : j \in 1 .. m + 1
        BY <3>1
    <3>4. ToSet(t) = ToSet(r) \union {k}
        BY <3>1, <3>2, <3>3 DEF ToSet
    <3>5. ToSet(t) = WithTags(wanted, k)
        BY <2>1, <2>2, <2>4, <3>4 DEF WithTags
    <3>6. \A j \in 1 .. m : r[j] \in 1 .. k - 1
        BY <2>1, <3>1 DEF ToSet, WithTags
    <3>7. ASSUME NEW i \in 1 .. m + 1, NEW j \in 1 .. m + 1, i < j PROVE t[i] < t[j]
      <4>1. i \in 1 .. m /\ t[i] = r[i]
          BY <3>1, <3>7
      <4>2. CASE j = m + 1
        <5>1. t[j] = k /\ r[i] \in 1 .. k - 1
            BY <3>1, <3>6, <4>1, <4>2
        <5>2. QED
            BY <2>2, <4>1, <5>1
      <4>3. CASE j \in 1 .. m
          BY <2>1, <3>1, <3>7, <4>1, <4>3 DEF Ascending
      <4>4. QED
          BY <3>2, <4>2, <4>3
    <3>8. Found(t, k)
        BY <3>1, <3>5, <3>7 DEF Ascending
    <3>9. QED
        BY <2>2, <2>3, <2>4, <3>8 DEF t
  <2>5. CASE ~(wanted \subseteq Technical[k].tags)
    <3>1. WithTags(wanted, k) = WithTags(wanted, k - 1)
        BY <2>2, <2>5 DEF WithTags
    <3>2. QED
        BY <2>1, <2>2, <2>3, <2>5, <3>1
  <2>6. QED
      BY <2>4, <2>5
<1>5. B = 0 .. n
  <2>1. B \in SUBSET (0 .. n)
      OBVIOUS
  <2> HIDE DEF B
  <2>2. QED
      BY <1>1, <1>3, <1>4, <2>1, UpTo
<1>6. n \in B
  <2>1. n \in 0 .. n
      BY <1>1
  <2>2. QED
      BY Zenon, <1>5, <2>1
<1>7. Tagged(tags) = f[n]
    BY Zenon, TaggedIs DEF f, wanted, n
<1>8. Found(f[n], n)
    BY <1>6
<1>9. QED
    BY <1>7, <1>8 DEF n, wanted

AskedTags(tags) == {t \in DOMAIN TagClass : \E k \in DOMAIN tags : tags[k] = t}

(* A zero that is dropped is no tag.                                         *)
LEMMA ParsedTags ==
    ASSUME NEW tags \in TagParams \union {<<>>}
    PROVE  searchTags(parseParams(tags)) = AskedTags(tags)
<1>1. tags \in Seq(STRING) /\ "0" \notin DOMAIN TagClass
  <2>1. TagParams \subseteq Seq(STRING) /\ "0" \notin DOMAIN TagClass
      BY Zenon, ListsAssumption DEF ListsAssumption
  <2>2. <<>> \in Seq(STRING)
      OBVIOUS
  <2>3. QED
      BY Zenon, <2>1, <2>2
<1>2. CASE tags # <<>> /\ Head(tags) = "0"
  <2> DEFINE rest == Tail(tags)
             n == Len(tags)
  <2>1. parseParams(tags) = rest
      BY <1>2 DEF parseParams
  <2>2. /\ n \in Nat \ {0} /\ DOMAIN tags = 1 .. n /\ DOMAIN rest = 1 .. n - 1 /\ tags[1] = "0"
        /\ \A k \in 1 .. n - 1 : rest[k] = tags[k + 1]
      BY <1>1, <1>2, EmptySeq
  <2> HIDE DEF rest, n
  <2>3. \A k \in 1 .. n : k = 1 \/ (k - 1 \in 1 .. n - 1 /\ (k - 1) + 1 = k)
      BY <2>2
  <2>4. \A k \in 1 .. n - 1 : k + 1 \in 1 .. n
      BY <2>2
  <2>5. \A t \in DOMAIN TagClass : t \in ToSet(rest) <=> \E k \in DOMAIN tags : tags[k] = t
    <3> TAKE t \in DOMAIN TagClass
    <3>1. ASSUME t \in ToSet(rest) PROVE \E k \in DOMAIN tags : tags[k] = t
        BY <2>2, <2>4, <3>1 DEF ToSet
    <3>2. ASSUME NEW k \in DOMAIN tags, tags[k] = t PROVE t \in ToSet(rest)
      <4>1. k # 1
          BY <1>1, <2>2, <3>2
      <4>2. rest[k - 1] = t /\ k - 1 \in DOMAIN rest
          BY <2>2, <2>3, <3>2, <4>1
      <4>3. QED
          BY <4>2 DEF ToSet
    <3>3. QED
        BY <3>1, <3>2
  <2>6. QED
      BY <2>1, <2>5 DEF searchTags, AskedTags
<1>3. CASE ~(tags # <<>> /\ Head(tags) = "0")
  <2>1. parseParams(tags) = tags
      BY <1>3 DEF parseParams
  <2>2. QED
      BY <2>1 DEF searchTags, AskedTags, ToSet
<1>4. QED
    BY <1>2, <1>3

Lacking(found, keywords) == {i \in found : \E word \in keywords : ~resultMatchesKeyword(i, word)}

BrowserGood(b) ==
    /\ DOMAIN b = {"tags", "alive", "hidden", "typed", "keywords", "results"}
    /\ b.tags \in TagParams \union {<<>>} /\ Ascending(b.results)
    /\ b.alive => ToSet(b.results) = WithTags(AskedTags(b.tags), Len(Technical))
    /\ b.hidden = Lacking(ToSet(b.results), b.keywords)

LEMMA BrowserOfIs == ASSUME NEW tags \in TagParams \union {<<>>} PROVE BrowserGood(BrowserOf(tags))
<1> DEFINE b == BrowserOf(tags)
           alive == ToSet(parseParams(tags)) \intersect Numbers = {}
           found == Tagged(parseParams(tags))
<1>1. b = [tags |-> tags, alive |-> alive, hidden |-> {}, typed |-> 0, keywords |-> {},
           results |-> IF alive THEN found ELSE <<>>]
    BY Zenon DEF BrowserOf
<1>2. Ascending(found) /\ ToSet(found) = WithTags(AskedTags(tags), Len(Technical))
    BY TaggedFinds, ParsedTags
<1> HIDE DEF b, alive, found
<1>3. /\ DOMAIN b = {"tags", "alive", "hidden", "typed", "keywords", "results"}
      /\ b.tags = tags /\ b.alive = alive /\ b.hidden = {} /\ b.keywords = {}
      /\ b.results = IF alive THEN found ELSE <<>>
    BY <1>1
<1>4. Ascending(<<>>)
    BY DEF Ascending
<1>5. Ascending(b.results) /\ (b.alive => ToSet(b.results) = WithTags(AskedTags(b.tags), Len(Technical)))
    BY Zenon, <1>2, <1>3, <1>4
<1>6. b.hidden = Lacking(ToSet(b.results), b.keywords)
    BY <1>3 DEF Lacking
<1>7. BrowserGood(b)
    BY Zenon, <1>3, <1>5, <1>6 DEF BrowserGood
<1>8. QED
    BY <1>7 DEF b

LEMMA BrowserStarts == (BrowserInit \/ BrowserRest) => BrowserGood(browser)
<1>1. ASSUME BrowserInit PROVE BrowserGood(browser)
    BY <1>1, BrowserOfIs DEF BrowserInit
<1>2. ASSUME BrowserRest PROVE BrowserGood(browser)
    BY <1>2, BrowserOfIs DEF BrowserRest
<1>3. QED
    BY Zenon, <1>1, <1>2

LEMMA BrowserStays == BrowserGood(browser) /\ [BrowserNext]_browser => BrowserGood(browser')
<1>1. ASSUME BrowserGood(browser), BrowserNext PROVE BrowserGood(browser')
  <2>1. PICK one \in Typeable, two \in Typeable :
          browser' = [browser EXCEPT !.typed = @ + 1, !.keywords = {one, two},
                        !.hidden = {i \in ToSet(browser.results) :
                            ~resultMatchesKeyword(i, one) \/ ~resultMatchesKeyword(i, two)}]
      BY <1>1 DEF BrowserNext
  <2> DEFINE b == browser
             u == browser'
             keywords == {one, two}
             hidden == {i \in ToSet(b.results) :
                          ~resultMatchesKeyword(i, one) \/ ~resultMatchesKeyword(i, two)}
  <2>2. u = [b EXCEPT !.typed = @ + 1, !.keywords = keywords, !.hidden = hidden]
      BY <2>1
  <2>3. /\ DOMAIN b = {"tags", "alive", "hidden", "typed", "keywords", "results"}
        /\ b.tags \in TagParams \union {<<>>} /\ Ascending(b.results)
        /\ b.alive => ToSet(b.results) = WithTags(AskedTags(b.tags), Len(Technical))
      BY <1>1 DEF BrowserGood
  <2>4. hidden = Lacking(ToSet(b.results), keywords)
      BY DEF Lacking
  <2> HIDE DEF b, u, keywords, hidden
  <2>5. /\ DOMAIN u = {"tags", "alive", "hidden", "typed", "keywords", "results"}
        /\ u.tags = b.tags /\ u.alive = b.alive /\ u.results = b.results
        /\ u.keywords = keywords /\ u.hidden = hidden
      BY <2>2, <2>3
  <2>6. BrowserGood(u)
      BY Zenon, <2>3, <2>4, <2>5 DEF BrowserGood
  <2>7. QED
      BY <2>6 DEF u
<1>2. QED
    BY Zenon, <1>1

LEMMA BrowserGoodAgrees == BrowserGood(browser) => BrowserAgrees
<1> SUFFICES ASSUME BrowserGood(browser) PROVE BrowserAgrees
    OBVIOUS
<1> DEFINE asked == {t \in DOMAIN TagClass : \E k \in DOMAIN browser.tags : browser.tags[k] = t}
           has(i, word) == \/ word \in Technical[i].title \union Technical[i].description \union {""}
                           \/ word \in Technical[i].tags \intersect DOMAIN TagClass /\ TagClass[word] = "topic"
<1>1. \A i, word : has(i, word) <=> resultMatchesKeyword(i, word)
    BY DEF resultMatchesKeyword, Topics
<1>2. asked = AskedTags(browser.tags)
    BY DEF AskedTags
<1> HIDE DEF asked, has
<1>3. ASSUME browser.alive, NEW i \in DOMAIN Technical
      PROVE  i \in ToSet(browser.results) \ browser.hidden <=>
                 /\ asked \subseteq Technical[i].tags
                 /\ \A word \in browser.keywords : has(i, word)
  <2>1. ToSet(browser.results) = WithTags(asked, Len(Technical))
      BY <1>2, <1>3 DEF BrowserGood
  <2>2. browser.hidden = Lacking(ToSet(browser.results), browser.keywords)
      BY DEF BrowserGood
  <2>3. i \in ToSet(browser.results) <=> asked \subseteq Technical[i].tags
      BY <2>1, TechnicalIs DEF WithTags
  <2>4. i \in browser.hidden <=>
          i \in ToSet(browser.results) /\ \E word \in browser.keywords : ~has(i, word)
      BY <1>1, <2>2 DEF Lacking
  <2>5. QED
      BY <2>3, <2>4
<1>4. \A k, l \in DOMAIN browser.results : k < l => browser.results[k] < browser.results[l]
    BY DEF BrowserGood, Ascending
<1>5. QED
    BY Zenon, <1>3, <1>4 DEF BrowserAgrees, asked, has
-----------------------------------------------------------------------------
ListsSteps == [FlowNext]_flow /\ [StackNext]_stack /\ [FilterNext]_filter /\ [BrowserNext]_browser

LEMMA PagesMoveLists == [PagesNext]_pagesVars => ListsSteps
<1> SUFFICES ASSUME [PagesNext]_pagesVars PROVE ListsSteps
    OBVIOUS
<1>1. ASSUME ListsStep PROVE ListsSteps
    BY Zenon, <1>1 DEF ListsStep, ListsSteps
<1>2. ASSUME UNCHANGED listsVars PROVE ListsSteps
    BY Zenon, <1>2 DEF listsVars, ListsSteps
<1>3. ListsStep \/ UNCHANGED listsVars
    BY Zenon DEF PagesNext, SlidesStep, TogglesStep, LoadsStep, NavStep, CompleteStep, TreeStep,
                 FrameStep, QueryStep, SiteStep, MatchStep, PanesStep, pagesVars
<1>4. QED
    BY Zenon, <1>1, <1>2, <1>3

ListsInv == FlowGood(flow) /\ StackGood(stack) /\ FilterGood(filter) /\ BrowserGood(browser)

LEMMA ListsInvStarts == PagesInit => ListsInv
<1> SUFFICES ASSUME PagesInit PROVE ListsInv
    OBVIOUS
<1>1. (FlowInit \/ FlowRest) /\ StackInit /\ (FilterInit \/ FilterRest) /\ (BrowserInit \/ BrowserRest)
    BY Zenon DEF PagesInit
<1>2. QED
    BY Zenon, <1>1, FlowStarts, StackStarts, FilterStarts, BrowserStarts DEF ListsInv

LEMMA ListsInvKept == ListsInv /\ [PagesNext]_pagesVars => ListsInv'
<1> SUFFICES ASSUME ListsInv, [PagesNext]_pagesVars PROVE ListsInv'
    OBVIOUS
<1>1. ListsSteps
    BY PagesMoveLists
<1>2. FlowGood(flow') /\ StackGood(stack') /\ FilterGood(filter') /\ BrowserGood(browser')
    BY Zenon, <1>1, FlowStays, StackStays, FilterStays, BrowserStays DEF ListsInv, ListsSteps
<1>3. QED
    BY <1>2 DEF ListsInv

LEMMA ListsInvAgrees == ListsInv => ListsAgree
BY Zenon, FlowGoodIsPrefix, StackGoodBalanced, FilterGoodAgrees, BrowserGoodAgrees DEF ListsInv, ListsAgree

(* For every number of resources, options of the widget, height of a card,   *)
(* item of the filter and word: what a list shows is the beginning of what   *)
(* was found, however often "More" and "Less" are used; no stack is longer   *)
(* than another by more than a card and the margin; chips, counts and cards  *)
(* follow the items checked; and the resource browser shows exactly what has *)
(* the tags and the words (templates-sdk docs.js, templates-pdk              *)
(* android-developer-resource-browser.js).                                   *)
THEOREM ListsStayInAgreement == PagesSpec => []ListsAgree
<1>1. PagesSpec => []ListsInv
    BY ListsInvStarts, ListsInvKept, PTL DEF PagesSpec
<1>2. QED
    BY <1>1, ListsInvAgrees, PTL

-----------------------------------------------------------------------------
(* What a search finds: each match once, ranked, and shown in a card.       *)

(* toUnique: what is above the place it stands at is there once, and what it *)
(* stands at is not among those it has been compared with.  When it cuts one *)
(* out, what comes to stand there is from above.                             *)
UniqOf(given, array, b, c) == [given |-> given, array |-> array, b |-> b, c |-> c]

UniqGood(u) ==
    /\ u = UniqOf(u.given, u.array, u.b, u.c)
    /\ u.array \in Seq(ToSet(u.given)) /\ ToSet(u.array) = ToSet(u.given)
    /\ u.b \in Int /\ u.c \in Int /\ u.c <= u.b /\ u.b <= Len(u.array) /\ (u.b > 0 => u.c >= 0)
    /\ \A p, q \in 1 .. Len(u.array) : p < q /\ q > u.b + 1 => u.array[p] # u.array[q]
    /\ u.b + 1 <= Len(u.array) => \A p \in 1 .. u.b : p > u.c => u.array[p] # u.array[u.b + 1]

LEMMA UniqStarts == (UniqInit \/ UniqRest) => UniqGood(uniq)
<1>1. ASSUME NEW s, s \in Seq(ToSet(s)) PROVE UniqGood(UniqOf(s, s, Len(s) - 1, Len(s) - 1))
  <2>1. Len(s) \in Nat
      BY <1>1
  <2>2. QED
      BY <1>1, <2>1 DEF UniqGood, UniqOf
<1>2. ASSUME UniqInit PROVE UniqGood(uniq)
  <2>1. PICK s \in Copies : uniq = UniqOf(s, s, Len(s) - 1, Len(s) - 1)
      BY <1>2 DEF UniqInit, UniqOf
  <2>2. s \in Seq(ToSet(s))
      BY QueryAssumption DEF QueryAssumption
  <2>3. QED
      BY <1>1, <2>1, <2>2
<1>3. ASSUME UniqRest PROVE UniqGood(uniq)
  <2>1. uniq = UniqOf(<<>>, <<>>, 0, 0)
      BY <1>3 DEF UniqRest, UniqOf
  <2>2. <<>> \in Seq(ToSet(<<>>)) /\ Len(<<>>) = 0
      OBVIOUS
  <2>3. QED
      BY <2>1, <2>2 DEF UniqGood, UniqOf
<1>4. QED
    BY <1>2, <1>3

LEMMA UniqKept == UniqGood(uniq) /\ UniqStep => UniqGood(uniq')
<1> SUFFICES ASSUME UniqGood(uniq), UniqStep PROVE UniqGood(uniq')
    OBVIOUS
<1> DEFINE s == uniq.array
           S == ToSet(uniq.given)
           b == uniq.b
           c == uniq.c
           n == Len(s)
           r == IF At(s, b) = At(s, c - 1) THEN RemoveAt(s, c) ELSE s
<1>1. /\ s \in Seq(S) /\ ToSet(s) = S /\ b \in Int /\ c \in Int /\ c <= b /\ b <= n /\ n \in Nat
      /\ b > 0 /\ c >= 0
    BY DEF UniqGood, UniqStep
<1>2. \A p, q \in 1 .. n : p < q /\ q > b + 1 => s[p] # s[q]
    BY DEF UniqGood
<1>3. b + 1 <= n => \A p \in 1 .. b : p > c => s[p] # s[b + 1]
    BY DEF UniqGood
<1>4. uniq = UniqOf(uniq.given, s, b, c)
    BY DEF UniqGood
<1>5. uniq' = IF c > 0 THEN UniqOf(uniq.given, r, b, c - 1) ELSE UniqOf(uniq.given, s, b - 1, b - 1)
  <2>1. (c - 1) + 1 = c
      BY <1>1
  <2> DEFINE given == uniq.given
  <2>0. uniq = [given |-> given, array |-> s, b |-> b, c |-> c]
      BY <1>4 DEF UniqOf
  <2>2. CASE c > 0
    <3>1. uniq' = [uniq EXCEPT !.c = c - 1, !.array = r]
        BY <2>1, <2>2 DEF UniqStep
    <3> HIDE DEF r, s, b, c, given
    <3>2. uniq' = [given |-> given, array |-> r, b |-> b, c |-> c - 1]
        BY <2>0, <3>1
    <3>3. QED
        BY <2>2, <3>2 DEF UniqOf, given
  <2>3. CASE ~(c > 0)
    <3>1. uniq' = [uniq EXCEPT !.b = b - 1, !.c = b - 1]
        BY <2>3 DEF UniqStep
    <3> HIDE DEF s, b, c, given
    <3>2. uniq' = [given |-> given, array |-> s, b |-> b - 1, c |-> b - 1]
        BY <2>0, <3>1
    <3>3. QED
        BY <2>3, <3>2 DEF UniqOf, given
  <2>4. QED
      BY <2>2, <2>3
<1>6. CASE c > 0 /\ At(s, b) = At(s, c - 1)
  <2>1. c \in 1 .. n /\ At(s, c - 1) = <<s[c]>>
      BY <1>1, <1>6 DEF At
  <2>2. b + 1 <= n /\ s[b + 1] = s[c] /\ b + 1 \in 1 .. n
    <3>1. At(s, b) = <<s[c]>>
        BY <1>6, <2>1
    <3>2. b < n
        BY <3>1 DEF At
    <3>3. <<s[b + 1]>> = <<s[c]>>
        BY <3>1, <3>2 DEF At
    <3>4. QED
        BY <1>1, <3>2, <3>3
  <2>3. r = RemoveAt(s, c)
      BY <1>6
  <2> HIDE DEF r
  <2>3a. c \in DOMAIN s
      BY <1>1, <2>1
  <2>4. r \in Seq(S) /\ Len(r) = n - 1 /\ \A k \in 1 .. n - 1 : r[k] = IF k < c THEN s[k] ELSE s[k + 1]
      BY <1>1, <2>3, <2>3a, Removed
  <2> HIDE DEF s, S, b, c, n
  <2>5. ToSet(r) = S
    <3>1. ToSet(r) \subseteq S
        BY <2>4 DEF ToSet
    <3>2. ASSUME NEW x \in S PROVE x \in ToSet(r)
      <4>1. PICK j \in 1 .. n : s[j] = x
          BY <1>1, <3>2 DEF ToSet, n
      <4>2. PICK k \in 1 .. n : s[k] = x /\ k # c
          BY <1>1, <1>6, <2>2, <4>1
      <4>3. CASE k < c
        <5>1. k \in 1 .. n - 1 /\ r[k] = x
            BY <1>1, <2>1, <2>4, <4>2, <4>3
        <5>2. QED
            BY <1>1, <2>4, <5>1 DEF ToSet
      <4>4. CASE k > c
        <5>1. k - 1 \in 1 .. n - 1 /\ ~(k - 1 < c) /\ (k - 1) + 1 = k
            BY <1>1, <2>1, <4>2, <4>4
        <5>2. r[k - 1] = x
            BY <2>4, <4>2, <5>1
        <5>3. QED
            BY <1>1, <2>4, <5>1, <5>2 DEF ToSet
      <4>5. QED
          BY <1>1, <4>2, <4>3, <4>4
    <3>3. QED
        BY <3>1, <3>2
  <2>6. \A p, q \in 1 .. Len(r) : p < q /\ q > b + 1 => r[p] # r[q]
    <3> SUFFICES ASSUME NEW p \in 1 .. n - 1, NEW q \in 1 .. n - 1, p < q, q > b + 1 PROVE r[p] # r[q]
        BY <2>4
    <3>1. r[q] = s[q + 1] /\ q + 1 \in 1 .. n
        BY <1>1, <1>6, <2>4
    <3>2. r[p] = s[p] \/ r[p] = s[p + 1]
        BY <2>4
    <3>3. p \in 1 .. n /\ p + 1 \in 1 .. n /\ p < q + 1 /\ p + 1 < q + 1 /\ q + 1 > b + 1
        BY <1>1
    <3>4. QED
        BY <1>2, <3>1, <3>2, <3>3
  <2>7. ASSUME b + 1 <= Len(r) PROVE \A p \in 1 .. b : r[p] # r[b + 1]
    <3> TAKE p \in 1 .. b
    <3>1. b + 1 \in 1 .. n - 1 /\ b + 2 \in 1 .. n /\ b + 2 > b + 1 /\ ~(b + 1 < c) /\ (b + 1) + 1 = b + 2
        BY <1>1, <2>4, <2>7
    <3>2. r[b + 1] = s[b + 2]
        BY <2>4, <3>1
    <3>3. p \in 1 .. n - 1 /\ p \in 1 .. n /\ p + 1 \in 1 .. n /\ p < b + 2 /\ p + 1 < b + 2
        BY <1>1, <2>2
    <3>4. r[p] = s[p] \/ r[p] = s[p + 1]
        BY <2>4, <3>3
    <3>5. QED
        BY <1>2, <3>1, <3>2, <3>3, <3>4
  <2>8. uniq' = UniqOf(uniq.given, r, b, c - 1)
      BY <1>5, <1>6
  <2>9. uniq'.given = uniq.given /\ uniq'.array = r /\ uniq'.b = b /\ uniq'.c = c - 1
      BY <2>8 DEF UniqOf
  <2>10. b <= Len(r) /\ c - 1 \in Int /\ c - 1 <= b /\ c - 1 >= 0
      BY <1>1, <1>6, <2>2, <2>4
  <2>11. \A p \in 1 .. b : b + 1 <= Len(r) /\ p > c - 1 => r[p] # r[b + 1]
      BY <2>7
  <2>12. uniq' = UniqOf(uniq'.given, uniq'.array, uniq'.b, uniq'.c)
      BY <2>8, <2>9
  <2>13. uniq'.array \in Seq(ToSet(uniq'.given)) /\ ToSet(uniq'.array) = ToSet(uniq'.given)
      BY <2>4, <2>5, <2>9 DEF S
  <2>14. \A p, q \in 1 .. Len(uniq'.array) : p < q /\ q > uniq'.b + 1 => uniq'.array[p] # uniq'.array[q]
      BY <2>6, <2>9
  <2>15. uniq'.b + 1 <= Len(uniq'.array) =>
            \A p \in 1 .. uniq'.b : p > uniq'.c => uniq'.array[p] # uniq'.array[uniq'.b + 1]
      BY <2>9, <2>11
  <2>16. uniq'.b \in Int /\ uniq'.c \in Int /\ uniq'.c <= uniq'.b /\ uniq'.b <= Len(uniq'.array)
         /\ (uniq'.b > 0 => uniq'.c >= 0)
      BY <1>1, <2>9, <2>10
  <2>17. QED
      BY Zenon, <2>12, <2>13, <2>14, <2>15, <2>16 DEF UniqGood
<1>7. CASE c > 0 /\ At(s, b) # At(s, c - 1)
  <2>1. uniq' = UniqOf(uniq.given, s, b, c - 1)
      BY <1>5, <1>7
  <2>2. c \in 1 .. n /\ At(s, c - 1) = <<s[c]>>
      BY <1>1, <1>7 DEF At
  <2>3. b + 1 <= n => s[b + 1] # s[c]
    <3> SUFFICES ASSUME b + 1 <= n, s[b + 1] = s[c] PROVE FALSE
        OBVIOUS
    <3>1. At(s, b) = <<s[b + 1]>>
        BY <1>1 DEF At
    <3>2. QED
        BY <1>7, <2>2, <3>1
  <2> HIDE DEF s, S, b, c, n
  <2>4. b + 1 <= n => \A p \in 1 .. b : p > c - 1 => s[p] # s[b + 1]
      BY <1>1, <1>3, <2>3
  <2>5. uniq'.given = uniq.given /\ uniq'.array = s /\ uniq'.b = b /\ uniq'.c = c - 1
      BY <2>1 DEF UniqOf
  <2>6. c - 1 \in Int /\ c - 1 <= b /\ c - 1 >= 0
      BY <1>1, <1>7
  <2>7. QED
      BY <1>1, <1>2, <2>1, <2>4, <2>5, <2>6 DEF UniqGood, S, n
<1>8. CASE ~(c > 0)
  <2>1. uniq' = UniqOf(uniq.given, s, b - 1, b - 1)
      BY <1>5, <1>8
  <2> HIDE DEF s, S, b, c, n
  <2>2. \A p, q \in 1 .. n : p < q /\ q > (b - 1) + 1 => s[p] # s[q]
    <3> TAKE p, q \in 1 .. n
    <3> HAVE p < q /\ q > (b - 1) + 1
    <3>1. CASE q > b + 1
        BY <1>2, <3>1
    <3>2. CASE q = b + 1
      <4>1. p \in 1 .. b /\ p > c /\ b + 1 <= n
          BY <1>1, <1>8, <3>2
      <4>2. QED
          BY <1>3, <3>2, <4>1
    <3>3. QED
        BY <1>1, <3>1, <3>2
  <2>3. uniq'.given = uniq.given /\ uniq'.array = s /\ uniq'.b = b - 1 /\ uniq'.c = b - 1
      BY <2>1 DEF UniqOf
  <2>4. b - 1 \in Int /\ b - 1 <= n /\ (b - 1 > 0 => b - 1 >= 0) /\ \A p \in 1 .. b - 1 : ~(p > b - 1)
      BY <1>1
  <2>5. QED
      BY <1>1, <2>1, <2>2, <2>3, <2>4 DEF UniqGood, S, n
<1>9. QED
    BY <1>6, <1>7, <1>8

LEMMA UniqStays == UniqGood(uniq) /\ [UniqStep]_uniq => UniqGood(uniq')
BY Zenon, UniqKept

LEMMA UniqGoodUnique == UniqGood(uniq) => UniqueAtEnd
<1> SUFFICES ASSUME UniqGood(uniq) PROVE UniqueAtEnd
    OBVIOUS
<1>1. ASSUME uniq.b <= 0 PROVE IsInjective(uniq.array)
  <2> DEFINE s == uniq.array
  <2>1. s \in Seq(ToSet(uniq.given)) /\ uniq.b \in Int
      BY DEF UniqGood
  <2>2. \A p, q \in 1 .. Len(s) : p < q /\ q > uniq.b + 1 => s[p] # s[q]
      BY DEF UniqGood
  <2> HIDE DEF s
  <2>3. Len(s) \in Nat /\ DOMAIN s = 1 .. Len(s)
      BY <2>1
  <2>4. \A p, q \in 1 .. Len(s) : p < q => s[p] # s[q]
    <3> TAKE p, q \in 1 .. Len(s)
    <3> HAVE p < q
    <3>1. q > uniq.b + 1
        BY <1>1, <2>1, <2>3
    <3>2. QED
        BY <2>2, <3>1
  <2>5. \A p, q \in 1 .. Len(s) : s[p] = s[q] => p = q
      BY <2>3, <2>4
  <2>6. QED
      BY <2>3, <2>5 DEF IsInjective, s
<1>2. ToSet(uniq.array) = ToSet(uniq.given)
    BY DEF UniqGood
<1>3. QED
    BY <1>1, <1>2 DEF UniqueAtEnd

(* The search for a word in a label.                                         *)
Labels == {s \in Seq(Alphabet) : s # <<>>}

FirstHit(s, word, exact, from) ==
    CHOOSE i \in Hits(s, word, exact, from) : \A j \in Hits(s, word, exact, from) : i <= j

Seeks(f, s, word, exact) ==
    f = [from \in 1 .. Len(s) + 1 |->
            IF Hits(s, word, exact, from) = {} THEN -1
            ELSE LET more == f[FirstHit(s, word, exact, from) + 1]
                 IN  FirstHit(s, word, exact, from) - from + (IF more < 0 THEN 0 ELSE more)]

Seeker(s, word, exact) == CHOOSE f : Seeks(f, s, word, exact)

LEMMA SearchIs ==
    ASSUME NEW s, NEW word, NEW exact
    PROVE  lastSearch(s, word, exact) = Seeker(s, word, exact)[1]
BY Zenon DEF lastSearch, Seeker, Seeks, FirstHit

LEMMA HitsFrom ==
    ASSUME NEW s \in Labels, NEW word, NEW exact, NEW from \in 1 .. Len(s) + 1
    PROVE  /\ Hits(s, word, exact, from) \subseteq from .. Len(s)
           /\ Hits(s, word, exact, from) # {} =>
                 /\ FirstHit(s, word, exact, from) \in Hits(s, word, exact, from)
                 /\ \A j \in Hits(s, word, exact, from) : FirstHit(s, word, exact, from) <= j
<1> DEFINE H == Hits(s, word, exact, from)
<1>1. H \subseteq from .. Len(s)
    BY DEF Hits
<1>2. H \in SUBSET Nat
    BY <1>1 DEF Labels
<1>3. H # {} => \E i \in H : \A j \in H : i <= j
    BY <1>2, LeastOfNats
<1>4. FirstHit(s, word, exact, from) = CHOOSE i \in H : \A j \in H : i <= j
    BY DEF FirstHit
<1> HIDE DEF H
<1>5. H # {} => FirstHit(s, word, exact, from) \in H /\ \A j \in H : FirstHit(s, word, exact, from) <= j
    BY Zenon, <1>3, <1>4
<1>6. QED
    BY <1>1, <1>5 DEF H

LEMMA SeekerSeeks ==
    ASSUME NEW s \in Labels, NEW word, NEW exact
    PROVE  Seeks(Seeker(s, word, exact), s, word, exact)
<1> DEFINE n == Len(s)
           D == 1 .. n + 1
           H(from) == Hits(s, word, exact, from)
           at(from) == FirstHit(s, word, exact, from)
           Over == [from \in D |-> IF H(from) = {} THEN 0 ELSE at(from) + 1]
           base == [from \in D |-> -1]
           rule == [from \in D |-> [v \in Int |-> IF H(from) = {} THEN 0 ELSE at(from) - from + (IF v < 0 THEN 0 ELSE v)]]
<1>1. n \in Nat
    BY DEF Labels
<1>2. \A from \in D : H(from) # {} => at(from) \in Int /\ at(from) + 1 \in D /\ at(from) + 1 > from
  <2> TAKE from \in D
  <2> HAVE H(from) # {}
  <2>1. at(from) \in from .. n
      BY HitsFrom
  <2>2. QED
      BY <1>1, <2>1
<1> HIDE DEF H, at
<1>3. NoCycles(D, Over)
  <2> SUFFICES ASSUME NEW nodes \in SUBSET D, nodes # {} PROVE \E k \in nodes : Over[k] \notin nodes
      BY DEF NoCycles
  <2>1. nodes \in SUBSET (1 .. n + 1) /\ n + 1 \in Nat
      BY <1>1
  <2>2. Max(nodes) \in nodes /\ \A j \in nodes : j <= Max(nodes)
      BY <2>1, MaxOfPlaces
  <2>3. PICK k \in nodes : \A j \in nodes : j <= k
      BY <2>2
  <2>4. k \in D /\ k \in Nat /\ Over[k] = IF H(k) = {} THEN 0 ELSE at(k) + 1
      BY <1>1
  <2>5. CASE H(k) = {}
      BY <2>1, <2>4, <2>5
  <2>6. CASE H(k) # {}
    <3>1. Over[k] > k /\ Over[k] \in Int
        BY <1>2, <2>4, <2>6
    <3> HIDE DEF Over
    <3>2. QED
        BY <2>3, <2>4, <3>1
  <2>7. QED
      BY <2>5, <2>6
<1>4. base \in [D -> Int] /\ \A from \in D : base[from] = -1
    OBVIOUS
<1>5. /\ rule \in UpRules(D, Int)
      /\ \A from \in D, v \in Int : H(from) # {} =>
           rule[from][v] = at(from) - from + (IF v < 0 THEN 0 ELSE v)
  <2>1. \A from \in D, v \in Int :
            (IF H(from) = {} THEN 0 ELSE at(from) - from + (IF v < 0 THEN 0 ELSE v)) \in Int
      BY <1>1, <1>2
  <2>2. \A from \in D : rule[from] = [v \in Int |-> IF H(from) = {} THEN 0 ELSE at(from) - from + (IF v < 0 THEN 0 ELSE v)]
      OBVIOUS
  <2>3. rule = [from \in D |-> rule[from]]
      OBVIOUS
  <2> HIDE DEF rule
  <2>4. \A from \in D : rule[from] \in [Int -> Int]
      BY <2>1, <2>2
  <2>5. \A from \in D, v \in Int : H(from) # {} =>
           rule[from][v] = at(from) - from + (IF v < 0 THEN 0 ELSE v)
      BY <2>2
  <2>6. QED
      BY <2>3, <2>4, <2>5 DEF UpRules
<1>6. \A from \in D : /\ H(from) # {} => Over[from] = at(from) + 1 /\ Over[from] \in D
                      /\ H(from) = {} => Over[from] \notin D
    BY <1>1, <1>2
<1> HIDE DEF rule, base, Over
<1>7. PICK f : FollowsUp(f, D, Over, Int, base, rule)
    BY <1>3, <1>4, <1>5, UpwardRecursionExists
<1> HIDE DEF D
<1>8. \A from \in D :
         f[from] = IF H(from) = {} THEN -1
                   ELSE LET more == f[at(from) + 1]
                        IN  at(from) - from + (IF more < 0 THEN 0 ELSE more)
  <2> TAKE from \in D
  <2>1. f \in [D -> Int] /\ f[from] = IF Over[from] \in D THEN rule[from][f[Over[from]]] ELSE base[from]
      BY <1>7 DEF FollowsUp
  <2>2. CASE H(from) = {}
      BY <1>4, <1>6, <2>1, <2>2
  <2>3. CASE H(from) # {}
    <3>1. Over[from] = at(from) + 1 /\ Over[from] \in D /\ f[at(from) + 1] \in Int
        BY <1>6, <2>1, <2>3
    <3>2. f[from] = rule[from][f[at(from) + 1]]
        BY <2>1, <3>1
    <3>3. QED
        BY <1>5, <2>3, <3>1, <3>2
  <2>4. QED
      BY <2>2, <2>3
<1>9. f = [from \in D |-> f[from]]
    BY <1>7 DEF FollowsUp
<1>10. Seeks(f, s, word, exact)
    BY Zenon, <1>8, <1>9 DEF Seeks, D, H, at
<1>11. QED
    BY Zenon, <1>10 DEF Seeker

(* The parts of a label that begin with the word, or are the word.           *)
Begins(s, word) == {i \in PartStarts(s) : BeginsAt(s, word, i)}
WordParts(s, word, exact) == {i \in Begins(s, word) : exact => EndsPart(s, i + Len(word) - 1)}
Doubled(s, word) == \E i \in DOMAIN s : BeginsAt(s, word, i) /\ BeginsAt(s, word, i + 1)

LEMMA WordIs ==
    ASSUME NEW word \in Words
    PROVE  word \in Seq(Alphabet) /\ Len(word) \in Nat \ {0} /\ word[1] # "."
<1>1. word \in Seq(Alphabet \ {"."}) /\ word # <<>>
    BY QueryAssumption DEF QueryAssumption
<1>2. Len(word) \in Nat \ {0} /\ word[1] \in Alphabet \ {"."}
    BY <1>1, EmptySeq
<1>3. word \in Seq(Alphabet)
    BY <1>1
<1>4. QED
    BY <1>2, <1>3

(* From the beginning the parts with the word are found, and from behind one *)
(* of them those that follow.                                                *)
LEMMA HitsAreParts ==
    ASSUME NEW s \in Labels, NEW word \in Words, NEW exact \in BOOLEAN
    PROVE  /\ WordParts(s, word, exact) \subseteq 1 .. Len(s)
           /\ \A i \in WordParts(s, word, exact) : s[i] # "."
           /\ Hits(s, word, exact, 1) = WordParts(s, word, exact)
           /\ ~Doubled(s, word) => \A i \in WordParts(s, word, exact) :
                 Hits(s, word, exact, i + 1) = {j \in WordParts(s, word, exact) : j > i}
<1> DEFINE n == Len(s)
           P == WordParts(s, word, exact)
           ends(i) == exact => EndsPart(s, i + Len(word) - 1)
<1>1. n \in Nat /\ DOMAIN s = 1 .. n
    BY DEF Labels
<1>2. ASSUME NEW i \in 1 .. n, BeginsAt(s, word, i) PROVE s[i] # "."
  <2>1. 1 \in DOMAIN word /\ Len(word) \in Nat /\ word[1] # "."
      BY WordIs
  <2>2. s[i + 1 - 1] = word[1]
      BY <1>2, <2>1 DEF BeginsAt
  <2>3. i + 1 - 1 = i
      BY <1>1
  <2>4. QED
      BY <2>1, <2>2, <2>3
<1>3. \A i : i \in P <=> i \in 1 .. n /\ BeginsAt(s, word, i) /\ (i = 1 \/ s[i - 1] = ".") /\ ends(i)
    BY <1>1, <1>2 DEF WordParts, Begins, PartStarts
<1>4. \A from, i : i \in Hits(s, word, exact, from) <=>
         i \in from .. n /\ BeginsAt(s, word, i) /\ (i = from \/ s[i - 1] = ".") /\ ends(i)
    BY DEF Hits
<1> HIDE DEF P, ends
<1>5. Hits(s, word, exact, 1) = P
    BY <1>3, <1>4
<1>6. ASSUME ~Doubled(s, word), NEW i \in P
      PROVE  Hits(s, word, exact, i + 1) = {j \in P : j > i}
  <2>1. i \in 1 .. n /\ BeginsAt(s, word, i) /\ ~BeginsAt(s, word, i + 1)
      BY <1>1, <1>3, <1>6 DEF Doubled
  <2>2. ASSUME NEW j PROVE j \in Hits(s, word, exact, i + 1) <=> j \in P /\ j > i
    <3>1. j \in Hits(s, word, exact, i + 1) <=>
            j \in i + 1 .. n /\ BeginsAt(s, word, j) /\ (j = i + 1 \/ s[j - 1] = ".") /\ ends(j)
        BY <1>4
    <3>2. j \in P <=> j \in 1 .. n /\ BeginsAt(s, word, j) /\ (j = 1 \/ s[j - 1] = ".") /\ ends(j)
        BY <1>3
    <3>3. j \in i + 1 .. n <=> j \in 1 .. n /\ j > i
        BY <1>1, <2>1
    <3>4. j \in i + 1 .. n => j # 1
        BY <1>1, <2>1
    <3>5. BeginsAt(s, word, j) => j # i + 1
        BY <2>1
    <3>6. QED
        BY Zenon, <3>1, <3>2, <3>3, <3>4, <3>5
  <2>3. QED
      BY <2>2
<1>7. P \subseteq 1 .. n /\ \A i \in P : s[i] # "."
    BY <1>2, <1>3
<1>8. QED
    BY <1>5, <1>6, <1>7 DEF P

LEMMA TwoAtMost ==
    ASSUME NEW T, IsFiniteSet(T), Cardinality(T) <= 2, NEW i \in T, NEW j \in T, NEW k \in T
    PROVE  i = j \/ j = k \/ i = k
<1> SUFFICES ASSUME i # j, j # k, i # k PROVE FALSE
    OBVIOUS
<1> DEFINE A == {i}
           B == A \union {j}
<1>1. IsFiniteSet(A) /\ Cardinality(A) = 1 /\ j \notin A
    BY FS_Singleton
<1>2. k \notin B /\ B \union {k} \in SUBSET T
    OBVIOUS
<1> HIDE DEF A
<1>3. IsFiniteSet(B) /\ Cardinality(B) = 2
    BY <1>1, FS_AddElement
<1> HIDE DEF B
<1>4. Cardinality(B \union {k}) = 3
    BY <1>2, <1>3, FS_AddElement
<1>6. 3 <= Cardinality(T)
    BY <1>2, <1>4, FS_Subset
<1>7. Cardinality(T) \in Nat
    BY FS_CardinalityType
<1>8. QED
    BY <1>6, <1>7

(* The places add up to one or two less than the last part with the word.    *)
LEMMA SearchFindsLast ==
    ASSUME NEW s \in Labels, NEW word \in Words, NEW exact \in BOOLEAN,
           ~Doubled(s, word), Cardinality(Begins(s, word)) <= 2
    PROVE  LET T == WordParts(s, word, exact)
               v == lastSearch(s, word, exact)
           IN  /\ T = {} => v = -1
               /\ T # {} => \E m \in T : (\A j \in T : j <= m) /\ v \in {m - 1, m - 2} /\ v >= 0
<1> DEFINE n == Len(s)
           T == WordParts(s, word, exact)
           v == lastSearch(s, word, exact)
           H(from) == Hits(s, word, exact, from)
           at(from) == FirstHit(s, word, exact, from)
           f == Seeker(s, word, exact)
<1>1. n \in Nat
    BY DEF Labels
<1>2. T \subseteq 1 .. n /\ H(1) = T /\ \A i \in T : H(i + 1) = {j \in T : j > i}
    BY HitsAreParts
<1>3. \A from \in 1 .. n + 1 :
         f[from] = IF H(from) = {} THEN -1
                   ELSE LET more == f[at(from) + 1]
                        IN  at(from) - from + (IF more < 0 THEN 0 ELSE more)
  <2>1. Seeks(f, s, word, exact)
      BY SeekerSeeks
  <2> HIDE DEF f
  <2>2. QED
      BY <2>1 DEF Seeks
<1>4. v = f[1]
    BY SearchIs
<1>5. \A from \in 1 .. n + 1 : H(from) # {} => at(from) \in H(from) /\ \A j \in H(from) : at(from) <= j
    BY HitsFrom
<1>6. ASSUME NEW i \in T, NEW j \in T, NEW k \in T PROVE i = j \/ j = k \/ i = k
  <2>1. Begins(s, word) \subseteq 1 .. n
      BY <1>1 DEF Begins, PartStarts, Labels
  <2>2. IsFiniteSet(1 .. n)
      BY <1>1, FS_Interval
  <2>3. IsFiniteSet(Begins(s, word))
      BY <2>1, <2>2, FS_Subset
  <2>4. i \in Begins(s, word) /\ j \in Begins(s, word) /\ k \in Begins(s, word)
      BY <1>6 DEF WordParts
  <2>5. QED
      BY <2>3, <2>4, TwoAtMost
<1> HIDE DEF f, H, at, T, v
<1>7. CASE T = {}
    BY <1>1, <1>2, <1>3, <1>4, <1>7 DEF T, v
<1>8. CASE T # {}
  <2> DEFINE i == at(1)
  <2>1. i \in T /\ (\A j \in T : i <= j) /\ i \in 1 .. n /\ i + 1 \in 1 .. n + 1
    <3>1. i \in H(1) /\ \A j \in H(1) : i <= j
      <4>1. 1 \in 1 .. n + 1 /\ H(1) # {}
          BY <1>1, <1>2, <1>8
      <4>2. QED
          BY <1>5, <4>1
    <3> HIDE DEF i
    <3>2. i \in T /\ \A j \in T : i <= j
        BY <1>2, <3>1
    <3>3. i \in 1 .. n
        BY <1>2, <3>2
    <3>4. QED
        BY <1>1, <3>2, <3>3
  <2>2. v = LET more == f[i + 1] IN i - 1 + (IF more < 0 THEN 0 ELSE more)
      BY <1>1, <1>2, <1>3, <1>4, <1>8
  <2> HIDE DEF i
  <2>3. CASE H(i + 1) = {}
    <3>1. f[i + 1] = -1
        BY <1>3, <2>1, <2>3
    <3>2. v = i - 1 /\ v >= 0
        BY <2>1, <2>2, <3>1
    <3>3. \A j \in T : j <= i
      <4> TAKE j \in T
      <4>1. ~(j > i)
          BY <1>2, <2>1, <2>3
      <4>2. j \in 1 .. n
          BY <1>2
      <4>3. QED
          BY <1>1, <2>1, <4>1, <4>2
    <3>4. QED
        BY <1>8, <2>1, <3>2, <3>3 DEF T, v
  <2>4. CASE H(i + 1) # {}
    <3> DEFINE m == at(i + 1)
    <3>1. m \in T /\ m > i /\ m \in 1 .. n /\ m + 1 \in 1 .. n + 1
      <4>1. m \in H(i + 1)
          BY <1>5, <2>1, <2>4
      <4> HIDE DEF m
      <4>2. m \in T /\ m > i
          BY <1>2, <2>1, <4>1
      <4>3. m \in 1 .. n
          BY <1>2, <4>2
      <4>4. QED
          BY <1>1, <4>2, <4>3
    <3>2. f[i + 1] = LET more == f[m + 1] IN m - (i + 1) + (IF more < 0 THEN 0 ELSE more)
        BY <1>3, <2>1, <2>4
    <3> HIDE DEF m
    <3>3. \A j \in T : j <= m
      <4> TAKE j \in T
      <4>1. j = i \/ j = m
          BY <1>6, <2>1, <3>1
      <4>2. QED
          BY <1>1, <2>1, <3>1, <4>1
    <3>4. H(m + 1) = {}
      <4> SUFFICES ASSUME NEW j \in H(m + 1) PROVE FALSE
          OBVIOUS
      <4>1. j \in T /\ j > m
          BY <1>2, <3>1
      <4>2. j <= m /\ j \in 1 .. n
          BY <1>2, <3>3, <4>1
      <4>3. QED
          BY <1>1, <3>1, <4>1, <4>2
    <3>5. f[m + 1] = -1
        BY <1>3, <3>1, <3>4
    <3>6. f[i + 1] = m - (i + 1)
        BY <1>1, <2>1, <3>1, <3>2, <3>5
    <3>7. v = m - 2 /\ v >= 0
        BY <1>1, <2>1, <2>2, <3>1, <3>6
    <3>8. QED
        BY <1>8, <3>1, <3>3, <3>7 DEF T, v
  <2>5. QED
      BY <2>3, <2>4
<1>9. QED
    BY <1>7, <1>8

(* A character that is no dot is not counted.                                *)
LEMMA DotsBehind ==
    ASSUME NEW s \in Labels, NEW m \in 1 .. Len(s), s[m] # "."
    PROVE  Dots(SubSeq(s, m + 1, Len(s))) = Dots(SubSeq(s, m, Len(s))) /\ Dots(SubSeq(s, m, Len(s))) \in Nat
<1> DEFINE n == Len(s)
           x == SubSeq(s, m, n)
           y == SubSeq(s, m + 1, n)
           A == {i \in DOMAIN x : x[i] = "."}
           B == {i \in DOMAIN y : y[i] = "."}
           shift == [i \in B |-> i + 1]
<1>1. n \in Nat /\ s \in Seq(Alphabet)
    BY DEF Labels
<1>2. DOMAIN x = 1 .. n - m + 1 /\ \A i \in 1 .. n - m + 1 : x[i] = s[m + i - 1]
    BY <1>1
<1>3. DOMAIN y = 1 .. n - m /\ \A i \in 1 .. n - m : y[i] = s[m + 1 + i - 1]
    BY <1>1
<1>4. Dots(x) = Cardinality(A) /\ Dots(y) = Cardinality(B)
    BY DEF Dots
<1> HIDE DEF x, y
<1>5. \A i : i \in A <=> i \in 1 .. n - m + 1 /\ s[m + i - 1] = "."
    BY <1>2
<1>6. \A i : i \in B <=> i \in 1 .. n - m /\ s[m + 1 + i - 1] = "."
    BY <1>3
<1>7. A \subseteq 1 .. n - m + 1 /\ B \subseteq 1 .. n - m
    BY <1>5, <1>6
<1> HIDE DEF A, B
<1>8. \A i \in B : i + 1 \in A
  <2> TAKE i \in B
  <2>1. i \in 1 .. n - m /\ s[m + 1 + i - 1] = "."
      BY <1>6
  <2>2. i + 1 \in 1 .. n - m + 1 /\ m + 1 + i - 1 = m + (i + 1) - 1
      BY <1>1, <2>1
  <2>3. QED
      BY <1>5, <2>1, <2>2
<1>9. \A j \in A : j - 1 \in B /\ (j - 1) + 1 = j
  <2> TAKE j \in A
  <2>1. j \in 1 .. n - m + 1 /\ s[m + j - 1] = "."
      BY <1>5
  <2>2. j # 1
    <3>1. j = 1 => m + j - 1 = m
        BY <1>1
    <3>2. QED
        BY <2>1, <3>1
  <2>3. j - 1 \in 1 .. n - m /\ m + j - 1 = m + 1 + (j - 1) - 1 /\ (j - 1) + 1 = j
      BY <1>1, <2>1, <2>2
  <2>4. QED
      BY <1>6, <2>1, <2>3
<1>10. shift \in Bijection(B, A)
  <2>1. shift \in [B -> A]
      BY <1>8
  <2>2. \A a, b \in B : shift[a] = shift[b] => a = b
      BY <1>1, <1>7
  <2>3. \A j \in A : \E i \in B : shift[i] = j
      BY <1>9
  <2>4. QED
      BY <2>1, <2>2, <2>3, Fun_IsBij
<1>11. ExistsBijection(B, A)
    BY <1>10 DEF ExistsBijection
<1>12. IsFiniteSet(1 .. n - m)
    BY <1>1, FS_Interval
<1>13. IsFiniteSet(B)
    BY <1>7, <1>12, FS_Subset
<1>14. Cardinality(A) = Cardinality(B) /\ IsFiniteSet(A)
    BY <1>11, <1>13, FS_Bijection
<1>15. Cardinality(A) \in Nat
    BY <1>14, FS_CardinalityType
<1>16. QED
    BY <1>4, <1>14, <1>15 DEF x, y, A, B

RankGood(r) ==
    /\ r = [label |-> r.label, word |-> r.word, score |-> r.score]
    /\ r.label \in Labels /\ r.word \in Words
    /\ r.score # -1 => r.score = resultScore(r.label, r.word)

LEMMA RankStarts == (RankInit \/ RankRest) => RankGood(rank)
<1>1. ASSUME NEW label \in Labels, NEW word \in Words
      PROVE  RankGood([label |-> label, word |-> word, score |-> -1])
    BY <1>1 DEF RankGood
<1>2. ASSUME RankInit PROVE RankGood(rank)
  <2>1. PICK n \in 1 .. MaxLabel : \E label \in [1 .. n -> Alphabet], word \in Words :
            rank = [label |-> label, word |-> word, score |-> -1]
      BY <1>2 DEF RankInit
  <2>2. PICK label \in [1 .. n -> Alphabet], word \in Words : rank = [label |-> label, word |-> word, score |-> -1]
      BY <2>1
  <2>3. n \in Nat \ {0}
      BY QueryAssumption DEF QueryAssumption
  <2>4. label \in Seq(Alphabet) /\ label # <<>>
      BY <2>3
  <2>5. QED
      BY <1>1, <2>2, <2>4 DEF Labels
<1>3. ASSUME RankRest PROVE RankGood(rank)
  <2>1. Words # {} /\ "." \in Alphabet
      BY QueryAssumption DEF QueryAssumption
  <2>2. (CHOOSE w \in Words : TRUE) \in Words
      BY <2>1
  <2>3. <<".">> \in Labels
      BY <2>1 DEF Labels
  <2>4. QED
      BY <1>1, <1>3, <2>2, <2>3 DEF RankRest
<1>4. QED
    BY <1>2, <1>3

LEMMA RankStays == RankGood(rank) /\ [rankAutocompleteApiResults]_rank => RankGood(rank')
<1> SUFFICES ASSUME RankGood(rank), rankAutocompleteApiResults PROVE RankGood(rank')
    BY Zenon
<1>1. rank' = [label |-> rank.label, word |-> rank.word, score |-> resultScore(rank.label, rank.word)]
    BY DEF rankAutocompleteApiResults, RankGood
<1>2. QED
    BY <1>1 DEF RankGood

LEMMA RankGoodByLastPart == RankGood(rank) => RankedByLastPart
<1> DEFINE s == rank.label
           word == rank.word
           begins == {i \in PartStarts(s) : BeginsAt(s, word, i)}
           whole == {i \in begins : EndsPart(s, i + Len(word) - 1)}
           lastOf(set) == CHOOSE i \in set : \A j \in set : j <= i
           parts(set) == Dots(SubSeq(s, lastOf(set), Len(s))) + 1
           doubled == \E i \in DOMAIN s : BeginsAt(s, word, i) /\ BeginsAt(s, word, i + 1)
           after(t) == Dots(SubSeq(s, t + 2, Len(s)))
           exact == lastSearch(s, word, TRUE)
           prefix == lastSearch(s, word, FALSE)
<1> SUFFICES ASSUME RankGood(rank), rank.score # -1, Cardinality(begins) <= 2, ~doubled
             PROVE  rank.score = IF whole # {} THEN 12000 \div parts(whole)
                                 ELSE IF begins # {} THEN 1200 \div parts(begins) ELSE 60
    BY DEF RankedByLastPart
<1>1. s \in Labels /\ word \in Words
    BY DEF RankGood
<1>2. rank.score = CASE exact >= 0 -> 12000 \div (after(exact) + 1)
                     [] exact < 0 /\ prefix >= 0 -> 1200 \div (after(prefix) + 1)
                     [] OTHER -> 60
    BY DEF RankGood, resultScore
<1>3. begins = WordParts(s, word, FALSE) /\ whole = WordParts(s, word, TRUE) /\ begins = Begins(s, word)
      /\ ~Doubled(s, word)
    BY DEF WordParts, Begins, Doubled
<1> HIDE DEF s, word, begins, whole, exact, prefix
<1>4. ASSUME NEW e \in BOOLEAN, NEW T, T = WordParts(s, word, e), NEW v, v = lastSearch(s, word, e)
      PROVE  /\ T = {} => v = -1
             /\ T # {} => v \in Nat /\ after(v) + 1 = parts(T)
  <2>1. /\ T = {} => v = -1
        /\ T # {} => \E m \in T : (\A j \in T : j <= m) /\ v \in {m - 1, m - 2} /\ v >= 0
    <3>1. LET T1 == WordParts(s, word, e)
              v1 == lastSearch(s, word, e)
          IN  /\ T1 = {} => v1 = -1
              /\ T1 # {} => \E m \in T1 : (\A j \in T1 : j <= m) /\ v1 \in {m - 1, m - 2} /\ v1 >= 0
        BY Zenon, <1>1, <1>3, SearchFindsLast
    <3>2. QED
        BY <1>4, <3>1
  <2>2. T \subseteq 1 .. Len(s) /\ \A i \in T : s[i] # "."
      BY <1>1, <1>4, HitsAreParts
  <2>3. ASSUME T # {} PROVE v \in Nat /\ after(v) + 1 = parts(T)
    <3>1. PICK m \in T : (\A j \in T : j <= m) /\ v \in {m - 1, m - 2} /\ v >= 0
        BY <2>1, <2>3
    <3>2. m \in 1 .. Len(s) /\ m \in Nat /\ s[m] # "."
        BY <2>2
    <3>3. lastOf(T) = m
      <4>1. \A i \in T : (\A j \in T : j <= i) => i = m
        <5> TAKE i \in T
        <5> HAVE \A j \in T : j <= i
        <5>1. m <= i /\ i <= m /\ i \in Nat
            BY <2>2, <3>1
        <5>2. QED
            BY <3>2, <5>1
      <4>2. QED
          BY <3>1, <4>1
    <3>4. Dots(SubSeq(s, m + 1, Len(s))) = Dots(SubSeq(s, m, Len(s)))
        BY <1>1, <3>2, DotsBehind
    <3>5. v \in Nat /\ (v + 2 = m \/ v + 2 = m + 1)
        BY <3>1, <3>2
    <3>6. after(v) = Dots(SubSeq(s, m, Len(s)))
        BY <3>4, <3>5
    <3>7. QED
        BY <3>3, <3>5, <3>6
  <2>4. QED
      BY <2>1, <2>3
<1> HIDE DEF after, parts
<1>5. /\ whole = {} => exact = -1
      /\ whole # {} => exact \in Nat /\ after(exact) + 1 = parts(whole)
  <2>1. ASSUME NEW e \in BOOLEAN, e = TRUE
        PROVE  /\ whole = {} => exact = -1
               /\ whole # {} => exact \in Nat /\ after(exact) + 1 = parts(whole)
    <3>1. whole = WordParts(s, word, e) /\ exact = lastSearch(s, word, e)
        BY <1>3, <2>1 DEF exact
    <3>2. QED
        BY <1>4, <3>1
  <2>2. QED
      BY <2>1
<1>6. /\ begins = {} => prefix = -1
      /\ begins # {} => prefix \in Nat /\ after(prefix) + 1 = parts(begins)
    BY <1>3, <1>4 DEF prefix
<1>7. CASE whole # {}
    BY <1>2, <1>5, <1>7
<1>8. CASE whole = {} /\ begins # {}
    BY <1>2, <1>5, <1>6, <1>8
<1>9. CASE whole = {} /\ begins = {}
    BY <1>2, <1>5, <1>6, <1>9
<1>10. QED
    BY <1>7, <1>8, <1>9

LEMMA LesserIs == ASSUME NEW a \in Int, NEW b \in Int PROVE Min({a, b}) = IF a <= b THEN a ELSE b
<1> DEFINE m == IF a <= b THEN a ELSE b
<1>1. m \in {a, b} /\ (\A x \in {a, b} : m <= x) /\ \A x \in {a, b} : (\A y \in {a, b} : x <= y) => x = m
    OBVIOUS
<1> HIDE DEF m
<1>2. Min({a, b}) = m
    BY <1>1 DEF Min
<1>3. QED
    BY <1>2 DEF m

LEMMA GreaterIs == ASSUME NEW a \in Int, NEW b \in Int PROVE Max({a, b}) = IF a <= b THEN b ELSE a
<1> DEFINE m == IF a <= b THEN b ELSE a
<1>1. m \in {a, b} /\ (\A x \in {a, b} : m >= x) /\ \A x \in {a, b} : (\A y \in {a, b} : x >= y) => x = m
    OBVIOUS
<1> HIDE DEF m
<1>2. Max({a, b}) = m
    BY <1>1 DEF Max
<1>3. QED
    BY <1>2 DEF m

(* How many rows there are for each kind of match.                           *)
RowsDrawn(android, docs, total, atLeast) ==
    LET left    == IF atLeast <= total - android THEN total - android ELSE atLeast
        google  == IF left <= docs THEN left ELSE docs
        headed  == IF google > 0 THEN google + 1 ELSE 0
        room    == IF 0 <= total - headed THEN total - headed ELSE 0
        under   == IF room = 0 THEN headed - 1 ELSE headed
    IN  [android |-> IF room <= android THEN room ELSE android, docs |-> IF under = 0 THEN 0 ELSE under - 1]

LEMMA DrawnIs ==
    ASSUME NEW c, c.android \in Nat, c.docs \in Nat, NEW expanded \in BOOLEAN
    PROVE  Drawn(c, expanded) = RowsDrawn(c.android, c.docs, IF expanded THEN 40 ELSE 20, IF expanded THEN 8 ELSE 1)
<1> DEFINE android == c.android
           docs == c.docs
           total == IF expanded THEN 40 ELSE 20
           atLeast == IF expanded THEN 8 ELSE 1
           left == Max({atLeast, total - android})
           google == Min({left, docs})
           headed == IF google > 0 THEN google + 1 ELSE 0
           room == Max({0, total - headed})
           under == IF room = 0 THEN headed - 1 ELSE headed
<1>1. Drawn(c, expanded) = [android |-> Min({room, android}), docs |-> IF under = 0 THEN 0 ELSE under - 1]
    BY DEF Drawn, RowsFor, ROW_COUNT_COLLAPSED, ROW_COUNT_EXPANDED, ROW_COUNT_GOOGLE_COLLAPSED,
           ROW_COUNT_GOOGLE_EXPANDED
<1>2. total \in Int /\ atLeast \in Int /\ android \in Nat /\ docs \in Nat /\ total - android \in Int
    OBVIOUS
<1> HIDE DEF total, atLeast, android, docs
<1>3. left = IF atLeast <= total - android THEN total - android ELSE atLeast
    BY <1>2, GreaterIs
<1>4. left \in Int
    BY <1>2, <1>3
<1> HIDE DEF left
<1>5. google = IF left <= docs THEN left ELSE docs
    BY <1>2, <1>4, LesserIs
<1>6. google \in Int
    BY <1>2, <1>4, <1>5
<1> HIDE DEF google
<1>7. headed \in Int
    BY <1>6
<1> HIDE DEF headed
<1>8. room = IF 0 <= total - headed THEN total - headed ELSE 0
    BY <1>2, <1>7, GreaterIs
<1>9. room \in Int
    BY <1>2, <1>7, <1>8
<1> HIDE DEF room
<1>10. Min({room, android}) = IF room <= android THEN room ELSE android
    BY <1>2, <1>9, LesserIs
<1>11. headed = IF google > 0 THEN google + 1 ELSE 0
    BY DEF headed
<1>12. Drawn(c, expanded) = RowsDrawn(android, docs, total, atLeast)
    BY Zenon, <1>1, <1>3, <1>5, <1>8, <1>10, <1>11 DEF RowsDrawn
<1>13. QED
    BY <1>12 DEF android, docs, total, atLeast

(* The two numbers, each with all that they depend on.                       *)
RowsAre(a, d, total, atLeast, rows, left, google, headed, room) ==
    /\ left = IF atLeast <= total - a THEN total - a ELSE atLeast
    /\ google = IF left <= d THEN left ELSE d
    /\ headed = IF google > 0 THEN google + 1 ELSE 0
    /\ room = IF 0 <= total - headed THEN total - headed ELSE 0
    /\ rows.android = IF room <= a THEN room ELSE a
    /\ rows.docs = IF room = 0 THEN IF headed = 1 THEN 0 ELSE headed - 2 ELSE IF headed = 0 THEN 0 ELSE headed - 1
    /\ left \in Int /\ google \in Int /\ headed \in Int /\ room \in Int
    /\ rows.android \in Int /\ rows.docs \in Int
    /\ rows = [android |-> rows.android, docs |-> rows.docs]

LEMMA RowsExist ==
    ASSUME NEW a \in Nat, NEW d \in Nat, NEW total \in Nat, NEW atLeast \in Nat, NEW rows,
           rows = RowsDrawn(a, d, total, atLeast)
    PROVE  \E left, google, headed, room \in Int : RowsAre(a, d, total, atLeast, rows, left, google, headed, room)
<1> DEFINE left == IF atLeast <= total - a THEN total - a ELSE atLeast
           google == IF left <= d THEN left ELSE d
           headed == IF google > 0 THEN google + 1 ELSE 0
           room == IF 0 <= total - headed THEN total - headed ELSE 0
           under == IF room = 0 THEN headed - 1 ELSE headed
           android == IF room <= a THEN room ELSE a
           docs == IF under = 0 THEN 0 ELSE under - 1
<1>1. rows = [android |-> android, docs |-> docs]
    BY DEF RowsDrawn
<1>2. left \in Int
    OBVIOUS
<1>3. left = IF atLeast <= total - a THEN total - a ELSE atLeast
    OBVIOUS
<1> HIDE DEF left
<1>4. google \in Int /\ google = IF left <= d THEN left ELSE d
    BY <1>2
<1> HIDE DEF google
<1>5. headed \in Int /\ headed = IF google > 0 THEN google + 1 ELSE 0
    BY <1>4
<1> HIDE DEF headed
<1>6. room \in Int /\ room = IF 0 <= total - headed THEN total - headed ELSE 0
    BY <1>5
<1> HIDE DEF room
<1>7. android \in Int /\ android = IF room <= a THEN room ELSE a
    BY <1>6
<1>8. docs \in Int /\ docs = IF room = 0 THEN IF headed = 1 THEN 0 ELSE headed - 2
                               ELSE IF headed = 0 THEN 0 ELSE headed - 1
    BY <1>5, <1>6
<1> HIDE DEF under, android, docs
<1>9. rows.android = android /\ rows.docs = docs
    BY <1>1
<1>10. RowsAre(a, d, total, atLeast, rows, left, google, headed, room)
    BY <1>1, <1>2, <1>3, <1>4, <1>5, <1>6, <1>7, <1>8, <1>9 DEF RowsAre
<1>11. QED
    BY <1>2, <1>4, <1>5, <1>6, <1>10

(* The rows that the two kinds share.                                        *)
RowsUsed(drawn) ==
    drawn.android + drawn.docs + (IF drawn.docs > 0 THEN 1 ELSE 0) + (IF drawn.android = 0 THEN 1 ELSE 0)

RowsFair(drawn, a, d, total, atLeast) ==
    /\ RowsUsed(drawn) <= total + (IF a = 0 THEN 1 ELSE 0)
    /\ a > 0 /\ a + d < total => drawn = [android |-> a, docs |-> d]
    /\ a < total => a - drawn.android <= atLeast

LEMMA RowsShared ==
    ASSUME NEW a \in Nat, NEW d \in Nat, NEW total \in {20, 40}, NEW atLeast \in {1, 8}, NEW rows,
           total = 40 <=> atLeast = 8,
           rows = RowsDrawn(a, d, total, atLeast)
    PROVE  RowsFair(rows, a, d, total, atLeast)
<1>0. total \in Nat /\ atLeast \in Nat
    OBVIOUS
<1>1. PICK left, google, headed, room \in Int : RowsAre(a, d, total, atLeast, rows, left, google, headed, room)
    BY <1>0, RowsExist
<1>2. PICK x, y \in Int : x = rows.android /\ y = rows.docs /\ rows = [android |-> x, docs |-> y]
    BY <1>1 DEF RowsAre
<1>3. /\ left = IF atLeast <= total - a THEN total - a ELSE atLeast
      /\ google = IF left <= d THEN left ELSE d
      /\ headed = IF google > 0 THEN google + 1 ELSE 0
      /\ room = IF 0 <= total - headed THEN total - headed ELSE 0
      /\ x = IF room <= a THEN room ELSE a
      /\ y = IF room = 0 THEN IF headed = 1 THEN 0 ELSE headed - 2 ELSE IF headed = 0 THEN 0 ELSE headed - 1
    BY <1>1, <1>2 DEF RowsAre
<1>4. a > 0 /\ a + d < total => x = a /\ y = d
    BY <1>3
<1>5. a < total => a - x <= atLeast
    BY <1>3
<1>6. x + y + (IF y > 0 THEN 1 ELSE 0) + (IF x = 0 THEN 1 ELSE 0) <= total + (IF a = 0 THEN 1 ELSE 0)
    BY <1>3
<1>7. RowsUsed(rows) = x + y + (IF y > 0 THEN 1 ELSE 0) + (IF x = 0 THEN 1 ELSE 0)
    BY <1>2 DEF RowsUsed
<1>8. QED
    BY <1>2, <1>4, <1>5, <1>6, <1>7 DEF RowsFair

LEMMA MoreRows ==
    ASSUME NEW a \in Nat, NEW d \in Nat, NEW more, NEW less,
           more = RowsDrawn(a, d, 40, 8), less = RowsDrawn(a, d, 20, 1)
    PROVE  less.android <= more.android /\ less.docs <= more.docs
<1>1. PICK left, google, headed, room \in Int : RowsAre(a, d, 40, 8, more, left, google, headed, room)
    BY RowsExist
<1>2. PICK left1, google1, header1, room1 \in Int : RowsAre(a, d, 20, 1, less, left1, google1, header1, room1)
    BY RowsExist
<1>3. QED
    BY <1>1, <1>2 DEF RowsAre

CardAt(android, docs, pages, mobile, index, expanded, drawn, more, less, searches) ==
    [android |-> android, docs |-> docs, pages |-> pages, mobile |-> mobile, index |-> index,
     expanded |-> expanded, drawn |-> drawn, more |-> more, less |-> less, searches |-> searches]

(* What is drawn on a card are its rows, and what can be had is offered.     *)
CardGood(c) ==
    /\ c = CardAt(c.android, c.docs, c.pages, c.mobile, c.index, c.expanded, c.drawn, c.more, c.less, c.searches)
    /\ c.android \in Nat /\ c.docs \in Nat /\ c.pages \in Nat /\ c.index \in Nat
    /\ c.mobile \in BOOLEAN /\ c.expanded \in BOOLEAN /\ c.more \in BOOLEAN /\ c.less \in BOOLEAN
    /\ c.drawn = Drawn(c, c.expanded)
    /\ c.mobile => ~c.expanded
    /\ c.index < c.pages \/ (HasMore(c) /\ ~c.expanded) => c.more
    /\ c.index > initialResults \/ c.expanded => c.less

LEMMA CardAtIs ==
    ASSUME NEW android \in Nat, NEW docs \in Nat, NEW pages \in Nat, NEW mobile \in BOOLEAN,
           NEW index \in Nat, NEW expanded \in BOOLEAN, NEW drawn, NEW more \in BOOLEAN, NEW less \in BOOLEAN,
           NEW searches, NEW c,
           c = CardAt(android, docs, pages, mobile, index, expanded, drawn, more, less, searches)
    PROVE  /\ c.android = android /\ c.docs = docs /\ c.pages = pages /\ c.mobile = mobile /\ c.index = index
           /\ c.expanded = expanded /\ c.drawn = drawn /\ c.more = more /\ c.less = less /\ c.searches = searches
           /\ HasMore(c) <=> android + docs > 20 /\ ~mobile
           /\ Drawn(c, expanded) = RowsDrawn(android, docs, IF expanded THEN 40 ELSE 20, IF expanded THEN 8 ELSE 1)
<1>1. /\ c.android = android /\ c.docs = docs /\ c.pages = pages /\ c.mobile = mobile /\ c.index = index
      /\ c.expanded = expanded /\ c.drawn = drawn /\ c.more = more /\ c.less = less /\ c.searches = searches
    BY DEF CardAt
<1>2. HasMore(c) <=> android + docs > 20 /\ ~mobile
    BY <1>1 DEF HasMore, ROW_COUNT_COLLAPSED
<1>3. Drawn(c, expanded) = RowsDrawn(c.android, c.docs, IF expanded THEN 40 ELSE 20, IF expanded THEN 8 ELSE 1)
    BY <1>1, DrawnIs
<1>4. QED
    BY <1>1, <1>2, <1>3

ToDraw(android, docs, expanded) ==
    RowsDrawn(android, docs, IF expanded THEN 40 ELSE 20, IF expanded THEN 8 ELSE 1)

LEMMA CardAtGood ==
    ASSUME NEW android \in Nat, NEW docs \in Nat, NEW pages \in Nat, NEW mobile \in BOOLEAN,
           NEW index \in Nat, NEW expanded \in BOOLEAN, NEW drawn, NEW more \in BOOLEAN, NEW less \in BOOLEAN,
           NEW searches, NEW c,
           c = CardAt(android, docs, pages, mobile, index, expanded, drawn, more, less, searches),
           drawn = ToDraw(android, docs, expanded),
           mobile => ~expanded,
           index < pages \/ (android + docs > 20 /\ ~mobile /\ ~expanded) => more,
           index > 6 \/ expanded => less
    PROVE  CardGood(c)
<1>1. /\ c.android = android /\ c.docs = docs /\ c.pages = pages /\ c.mobile = mobile /\ c.index = index
      /\ c.expanded = expanded /\ c.drawn = drawn /\ c.more = more /\ c.less = less /\ c.searches = searches
    BY DEF CardAt
<1>2. HasMore(c) <=> android + docs > 20 /\ ~mobile
    BY <1>1 DEF HasMore, ROW_COUNT_COLLAPSED
<1>3. Drawn(c, expanded) = ToDraw(android, docs, expanded)
    BY <1>1, DrawnIs DEF ToDraw
<1>4. c = CardAt(c.android, c.docs, c.pages, c.mobile, c.index, c.expanded, c.drawn, c.more, c.less, c.searches)
    BY <1>1
<1>5. QED
    BY <1>1, <1>2, <1>3, <1>4 DEF CardGood, initialResults

(* The card is drawn again from what is known of the matches.                *)
LEMMA RenderIs ==
    ASSUME NEW android \in Nat, NEW docs \in Nat, NEW pages \in Nat, NEW mobile \in BOOLEAN,
           NEW index \in Nat, NEW before \in BOOLEAN, NEW drawn, NEW more \in BOOLEAN, NEW less \in BOOLEAN,
           NEW searches, NEW expanded \in BOOLEAN, NEW c,
           c = CardAt(android, docs, pages, mobile, index, before, drawn, more, less, searches)
    PROVE  renderReferences(c, expanded) =
             CardAt(android, docs, pages, mobile, index, expanded, ToDraw(android, docs, expanded),
                    more \/ (android + docs > 20 /\ ~mobile /\ ~expanded),
                    less \/ (android + docs > 20 /\ ~mobile /\ expanded), searches)
<1> DEFINE toDraw == Drawn(c, expanded)
           moreNow == c.more \/ (HasMore(c) /\ ~expanded)
           lessNow == c.less \/ (HasMore(c) /\ expanded)
<1>1. renderReferences(c, expanded) = [c EXCEPT !.expanded = expanded, !.drawn = toDraw, !.more = moreNow, !.less = lessNow]
    BY DEF renderReferences
<1>2. /\ c.android = android /\ c.docs = docs /\ c.mobile = mobile /\ c.more = more /\ c.less = less
      /\ HasMore(c) <=> android + docs > 20 /\ ~mobile
    BY CardAtIs
<1>3. toDraw = ToDraw(android, docs, expanded)
    BY <1>2, DrawnIs DEF ToDraw
<1>4. moreNow = (more \/ (android + docs > 20 /\ ~mobile /\ ~expanded))
    BY <1>2
<1>5. lessNow = (less \/ (android + docs > 20 /\ ~mobile /\ expanded))
    BY <1>2
<1> HIDE DEF toDraw, moreNow, lessNow
<1>6. renderReferences(c, expanded) =
         CardAt(android, docs, pages, mobile, index, expanded, toDraw, moreNow, lessNow, searches)
    BY <1>1 DEF CardAt
<1>7. QED
    BY Zenon, <1>3, <1>4, <1>5, <1>6

LEMMA CardOfIs ==
    ASSUME NEW android \in Nat, NEW docs \in Nat, NEW pages \in Nat, NEW mobile \in BOOLEAN, NEW searches
    PROVE  CardGood(CardOf(android, docs, pages, mobile, searches))
<1>0. PICK no \in BOOLEAN : no = FALSE
    OBVIOUS
<1> DEFINE index == Min({pages, initialResults})
           offered == index < pages
           drawn == [android |-> 0, docs |-> 0]
           c == CardAt(android, docs, pages, mobile, index, no, drawn, offered, no, searches)
           more == offered \/ (android + docs > 20 /\ ~mobile /\ ~no)
           less == no \/ (android + docs > 20 /\ ~mobile /\ no)
           u == renderReferences(c, no)
<1>1. CardOf(android, docs, pages, mobile, searches) = u
    BY <1>0 DEF CardOf, CardAt
<1>2. index \in Nat /\ ~(index > 6)
    BY LesserIs DEF initialResults
<1> HIDE DEF index
<1>3. offered \in BOOLEAN /\ (index < pages => offered)
    OBVIOUS
<1>4. c = CardAt(android, docs, pages, mobile, index, no, drawn, offered, no, searches)
    OBVIOUS
<1> HIDE DEF offered, c, drawn
<1>5. u = CardAt(android, docs, pages, mobile, index, no, ToDraw(android, docs, no), more, less, searches)
    BY <1>2, <1>3, <1>4, RenderIs
<1>6. more \in BOOLEAN /\ less \in BOOLEAN /\ ~less /\ (index < pages \/ (android + docs > 20 /\ ~mobile) => more)
    BY <1>0, <1>3
<1> HIDE DEF more, less, u
<1>7. CardGood(u)
    BY <1>0, <1>2, <1>5, <1>6, CardAtGood
<1>8. QED
    BY <1>1, <1>7

LEMMA CardStarts == (CardInit \/ CardRest) => CardGood(card)
<1>1. ASSUME NEW mobile \in BOOLEAN, card = CardOf(0, 0, 0, mobile, 0) PROVE CardGood(card)
    BY <1>1, CardOfIs
<1>2. QED
    BY <1>1 DEF CardInit, CardRest

LEMMA CardIs ==
    ASSUME CardGood(card)
    PROVE  /\ card.android \in Nat /\ card.docs \in Nat /\ card.pages \in Nat /\ card.index \in Nat
           /\ card.mobile \in BOOLEAN /\ card.expanded \in BOOLEAN /\ card.more \in BOOLEAN /\ card.less \in BOOLEAN
           /\ card.drawn = ToDraw(card.android, card.docs, card.expanded)
           /\ card.mobile => ~card.expanded
           /\ card.index < card.pages \/ (HasMore(card) /\ ~card.expanded) => card.more
           /\ card.index > 6 \/ card.expanded => card.less
           /\ card = CardAt(card.android, card.docs, card.pages, card.mobile, card.index, card.expanded,
                            card.drawn, card.more, card.less, card.searches)
           /\ HasMore(card) <=> card.android + card.docs > 20 /\ ~card.mobile
<1>1. /\ card.android \in Nat /\ card.docs \in Nat /\ card.pages \in Nat /\ card.index \in Nat
      /\ card.mobile \in BOOLEAN /\ card.expanded \in BOOLEAN /\ card.more \in BOOLEAN /\ card.less \in BOOLEAN
      /\ card.drawn = Drawn(card, card.expanded)
      /\ card.mobile => ~card.expanded
      /\ card.index < card.pages \/ (HasMore(card) /\ ~card.expanded) => card.more
      /\ card.index > 6 \/ card.expanded => card.less
      /\ card = CardAt(card.android, card.docs, card.pages, card.mobile, card.index, card.expanded, card.drawn,
                       card.more, card.less, card.searches)
    BY Zenon DEF CardGood, initialResults
<1>2. card.drawn = ToDraw(card.android, card.docs, card.expanded)
    BY <1>1, DrawnIs DEF ToDraw
<1>3. HasMore(card) <=> card.android + card.docs > 20 /\ ~card.mobile
    BY <1>1 DEF HasMore, ROW_COUNT_COLLAPSED
<1>4. QED
    BY Zenon, <1>1, <1>2, <1>3

(* A click that shows another page of the flow, or only the first.           *)
LEMMA ToggleKeeps ==
    ASSUME NEW android \in Nat, NEW docs \in Nat, NEW pages \in Nat, NEW mobile \in BOOLEAN,
           NEW index \in Nat, NEW before \in BOOLEAN, NEW more \in BOOLEAN, NEW less \in BOOLEAN,
           NEW searches, NEW expanded \in BOOLEAN,
           mobile => ~before,
           index < pages => more, index > 6 => less,
           expanded => less \/ android + docs > 20
    PROVE  CardGood(onToggleMore(CardAt(android, docs, pages, mobile, index, before, ToDraw(android, docs, before),
                                        more, less, searches), expanded))
<1>0. PICK c : c = CardAt(android, docs, pages, mobile, index, before, ToDraw(android, docs, before), more, less, searches)
    OBVIOUS
<1>1. c.mobile = mobile
    BY <1>0, CardAtIs
<1>2. CASE mobile
  <2>1. onToggleMore(c, expanded) = c
      BY <1>1, <1>2 DEF onToggleMore
  <2>2. CardGood(c)
    <3>1. CardGood(CardAt(android, docs, pages, mobile, index, before, ToDraw(android, docs, before), more, less, searches))
        BY <1>2, CardAtGood
    <3>2. QED
        BY <1>0, <3>1
  <2>3. QED
      BY <1>0, <2>1, <2>2
<1>3. CASE ~mobile
  <2> DEFINE moreNow == more \/ (android + docs > 20 /\ ~mobile /\ ~expanded)
             lessNow == less \/ (android + docs > 20 /\ ~mobile /\ expanded)
             u == renderReferences(c, expanded)
  <2>1. onToggleMore(c, expanded) = u
      BY <1>1, <1>3 DEF onToggleMore
  <2>2. u = CardAt(android, docs, pages, mobile, index, expanded, ToDraw(android, docs, expanded), moreNow, lessNow, searches)
      BY <1>0, RenderIs
  <2>3. moreNow \in BOOLEAN /\ lessNow \in BOOLEAN
        /\ (index < pages \/ (android + docs > 20 /\ ~mobile /\ ~expanded) => moreNow)
        /\ (index > 6 \/ expanded => lessNow)
      BY <1>3
  <2> HIDE DEF moreNow, lessNow, u
  <2>4. CardGood(u)
      BY <1>3, <2>2, <2>3, CardAtGood
  <2>5. QED
      BY <1>0, <2>1, <2>4
<1>4. QED
    BY <1>0, <1>2, <1>3

LEMMA CardKept == CardGood(card) /\ CardNext => CardGood(card')
<1> SUFFICES ASSUME CardGood(card), CardNext PROVE CardGood(card')
    OBVIOUS
<1>8. /\ card.android \in Nat /\ card.docs \in Nat /\ card.pages \in Nat /\ card.index \in Nat
      /\ card.mobile \in BOOLEAN /\ card.expanded \in BOOLEAN /\ card.more \in BOOLEAN /\ card.less \in BOOLEAN
      /\ card.drawn = ToDraw(card.android, card.docs, card.expanded)
      /\ (card.mobile => ~card.expanded)
      /\ (card.index < card.pages => card.more)
      /\ (card.index > 6 => card.less)
      /\ card = CardAt(card.android, card.docs, card.pages, card.mobile, card.index, card.expanded,
                       card.drawn, card.more, card.less, card.searches)
    BY Zenon, CardIs
<1>9. PICK android \in Nat, docs \in Nat, pages \in Nat, at \in Nat :
           android = card.android /\ docs = card.docs /\ pages = card.pages /\ at = card.index
    BY Zenon, <1>8
<1>10. PICK mobile \in BOOLEAN, before \in BOOLEAN : mobile = card.mobile /\ before = card.expanded
    BY Zenon, <1>8
<1>11. PICK more0 \in BOOLEAN, less0 \in BOOLEAN : more0 = card.more /\ less0 = card.less
    BY Zenon, <1>8
<1>12. PICK drawn, since : drawn = card.drawn /\ since = card.searches
    OBVIOUS
<1>13. /\ card = CardAt(android, docs, pages, mobile, at, before, drawn, more0, less0, since)
       /\ drawn = ToDraw(android, docs, before)
       /\ mobile => ~before
       /\ at < pages => more0
       /\ at > 6 => less0
    BY <1>8, <1>9, <1>10, <1>11, <1>12
<1> USE <1>13
<1>0. PICK yes \in BOOLEAN, no \in BOOLEAN : yes = TRUE /\ no = FALSE
    OBVIOUS
<1> DEFINE searches == since + 1
<1>1. /\ card.android = android /\ card.docs = docs /\ card.pages = pages /\ card.mobile = mobile
      /\ card.index = at /\ card.searches = since
      /\ (HasMore(card) <=> android + docs > 20 /\ ~mobile)
  <2>1. /\ card.android = android /\ card.docs = docs /\ card.pages = pages /\ card.mobile = mobile
        /\ card.index = at /\ card.searches = since
      BY DEF CardAt
  <2>2. QED
      BY <2>1 DEF HasMore, ROW_COUNT_COLLAPSED
<1>3. CASE CardSearch
  <2>1. PICK a, d, p \in Counts : card' = CardOf(a, d, p, mobile, searches)
      BY <1>1, <1>3 DEF CardSearch
  <2>2. Counts \subseteq Nat
      BY MatchAssumption DEF MatchAssumption
  <2>3. QED
      BY <2>1, <2>2, CardOfIs
<1>4. CASE SeeMore
  <2> DEFINE u == onToggleMore(card, TRUE)
             moreNow == more0 \/ (android + docs > 20 /\ ~mobile /\ ~yes)
             lessNow == less0 \/ (android + docs > 20 /\ ~mobile /\ yes)
  <2>1. HasMore(card) /\ card' = [u EXCEPT !.searches = @ + 1]
      BY <1>4 DEF SeeMore
  <2>2. ~mobile /\ android + docs > 20
      BY <1>1, <2>1
  <2>3. u = renderReferences(card, yes)
      BY <1>0, <1>1, <2>2 DEF onToggleMore
  <2> HIDE DEF u
  <2>4. u = CardAt(android, docs, pages, mobile, at, yes, ToDraw(android, docs, yes), moreNow, lessNow, since)
      BY <2>3, RenderIs
  <2>5. moreNow \in BOOLEAN /\ lessNow \in BOOLEAN /\ (at < pages => moreNow) /\ lessNow
      BY <1>0, <2>2
  <2>6. PICK m \in BOOLEAN, l \in BOOLEAN : m = moreNow /\ l = lessNow
      BY <2>5
  <2> HIDE DEF moreNow, lessNow
  <2>7. card' = CardAt(android, docs, pages, mobile, at, yes, ToDraw(android, docs, yes), m, l, searches)
      BY <2>1, <2>4, <2>6 DEF CardAt
  <2>8. /\ mobile => ~yes
        /\ at < pages \/ (android + docs > 20 /\ ~mobile /\ ~yes) => m
        /\ at > 6 \/ yes => l
      BY <1>0, <2>2, <2>5, <2>6
  <2>9. QED
      BY <2>7, <2>8, CardAtGood
<1>5. CASE CardMore
  <2>0. PICK index \in Nat : index = Min({pages, at + itemsPerPage})
      BY LesserIs DEF itemsPerPage
  <2>1. PICK more \in BOOLEAN : more = (index < pages)
    <3>1. (index < pages) \in BOOLEAN
        OBVIOUS
    <3>2. QED
        BY Zenon, <3>1
  <2>2. PICK c : c = [card EXCEPT !.index = index, !.more = more, !.less = yes, !.searches = since + 1]
      OBVIOUS
  <2>3. card' = onToggleMore(c, yes)
    <3>1. card' = onToggleMore([card EXCEPT !.index = index, !.more = index < pages, !.less = TRUE, !.searches = @ + 1], TRUE)
        BY <1>1, <1>5, <2>0 DEF CardMore
    <3>2. QED
        BY <1>0, <1>1, <2>1, <2>2, <3>1
  <2>4. c = CardAt(android, docs, pages, mobile, index, before, ToDraw(android, docs, before), more, yes, searches)
      BY <2>2 DEF CardAt
  <2>5. (index < pages => more) /\ (index > 6 => yes) /\ (yes => yes \/ android + docs > 20)
      BY <1>0, <2>1
  <2>6. CardGood(onToggleMore(c, yes))
    <3>1. (mobile => ~before) /\ (index < pages => more) /\ (index > 6 => yes) /\ (yes => yes \/ android + docs > 20)
        BY <2>5
    <3>2. CardGood(onToggleMore(CardAt(android, docs, pages, mobile, index, before, ToDraw(android, docs, before),
                                       more, yes, searches), yes))
        BY <3>1, ToggleKeeps
    <3>3. QED
        BY <2>4, <3>2
  <2>7. QED
      BY <2>3, <2>6
<1>6. CASE CardLess
  <2>1. PICK index \in Nat : index = Min({pages, initialResults}) /\ ~(index > 6)
      BY LesserIs DEF initialResults
  <2>2. PICK c : c = [card EXCEPT !.index = index, !.more = yes, !.less = no, !.searches = since + 1]
      OBVIOUS
  <2>3. card' = onToggleMore(c, no)
    <3>1. card' = onToggleMore([card EXCEPT !.index = index, !.more = TRUE, !.less = FALSE, !.searches = @ + 1], FALSE)
        BY <1>1, <1>6, <2>1 DEF CardLess
    <3>2. QED
        BY <1>0, <1>1, <2>2, <3>1
  <2>4. c = CardAt(android, docs, pages, mobile, index, before, ToDraw(android, docs, before), yes, no, searches)
      BY <2>2 DEF CardAt
  <2>5. (index < pages => yes) /\ (index > 6 => no) /\ (no => no \/ android + docs > 20)
      BY <1>0, <2>1
  <2>6. CardGood(onToggleMore(c, no))
    <3>1. (mobile => ~before) /\ (index < pages => yes) /\ (index > 6 => no) /\ (no => no \/ android + docs > 20)
        BY <2>5
    <3>2. CardGood(onToggleMore(CardAt(android, docs, pages, mobile, index, before, ToDraw(android, docs, before),
                                       yes, no, searches), no))
        BY <3>1, ToggleKeeps
    <3>3. QED
        BY <2>4, <3>2
  <2>7. QED
      BY <2>3, <2>6
<1>7. QED
    BY <1>3, <1>4, <1>5, <1>6 DEF CardNext

LEMMA CardStays == CardGood(card) /\ [CardNext]_card => CardGood(card')
BY Zenon, CardKept

LEMMA CardGoodHonest == CardGood(card) => CardHonest
<1> SUFFICES ASSUME CardGood(card) PROVE CardHonest
    OBVIOUS
<1> DEFINE a == card.android
           d == card.docs
           drawn == card.drawn
           total == IF card.expanded THEN 40 ELSE 20
           atLeast == IF card.expanded THEN 8 ELSE 1
           fewer == Drawn(card, FALSE)
<1>1. /\ a \in Nat /\ d \in Nat /\ card.expanded \in BOOLEAN
      /\ drawn = RowsDrawn(a, d, total, atLeast)
      /\ (card.index < card.pages \/ (HasMore(card) /\ ~card.expanded) => card.more)
      /\ (card.index > 6 \/ card.expanded => card.less)
    BY CardIs DEF ToDraw
<1>2. fewer = RowsDrawn(a, d, 20, 1)
  <2>1. PICK no \in BOOLEAN : no = FALSE
      OBVIOUS
  <2>2. Drawn(card, no) = RowsDrawn(a, d, 20, 1)
      BY <1>1, <2>1, DrawnIs
  <2>3. QED
      BY <2>1, <2>2
<1>3. total = RowsFor(card.expanded) /\ total \in {20, 40} /\ atLeast \in {1, 8} /\ (total = 40 <=> atLeast = 8)
      /\ (card.expanded => total = 40 /\ atLeast = 8)
      /\ atLeast = IF card.expanded THEN ROW_COUNT_GOOGLE_EXPANDED ELSE ROW_COUNT_GOOGLE_COLLAPSED
    BY DEF RowsFor, ROW_COUNT_COLLAPSED, ROW_COUNT_EXPANDED, ROW_COUNT_GOOGLE_COLLAPSED, ROW_COUNT_GOOGLE_EXPANDED
<1> HIDE DEF a, d, drawn, total, atLeast, fewer
<1>4. RowsFair(drawn, a, d, total, atLeast)
    BY <1>1, <1>3, RowsShared
<1>5. card.expanded => fewer.android <= drawn.android /\ fewer.docs <= drawn.docs
  <2> SUFFICES ASSUME card.expanded PROVE fewer.android <= drawn.android /\ fewer.docs <= drawn.docs
      OBVIOUS
  <2>1. drawn = RowsDrawn(a, d, 40, 8)
      BY <1>1, <1>3
  <2>2. QED
      BY <1>1, <1>2, <2>1, MoreRows
<1>6. /\ RowsUsed(drawn) <= total + (IF a = 0 THEN 1 ELSE 0)
      /\ a > 0 /\ a + d < total => drawn = [android |-> a, docs |-> d]
      /\ a < total => a - drawn.android <= atLeast
    BY Zenon, <1>4 DEF RowsFair
<1>7. QED
    BY Zenon, <1>1, <1>3, <1>5, <1>6 DEF CardHonest, RowsUsed, a, d, drawn, fewer, initialResults

LEMMA PagesMoveMatches ==
    [PagesNext]_pagesVars => [UniqStep]_uniq /\ [rankAutocompleteApiResults]_rank /\ [CardNext]_card
<1> SUFFICES ASSUME [PagesNext]_pagesVars
             PROVE  [UniqStep]_uniq /\ [rankAutocompleteApiResults]_rank /\ [CardNext]_card
    OBVIOUS
<1>1. ASSUME QueryStep PROVE [UniqStep]_uniq /\ [rankAutocompleteApiResults]_rank /\ UNCHANGED card
    BY Zenon, <1>1 DEF QueryStep, matchVars
<1>2. ASSUME MatchStep PROVE UNCHANGED <<uniq, rank>> /\ [CardNext]_card
    BY Zenon, <1>2 DEF MatchStep, queryVars
<1>3. ASSUME ~QueryStep, ~MatchStep PROVE UNCHANGED <<uniq, rank, card>>
    BY Zenon, <1>3 DEF PagesNext, SlidesStep, TogglesStep, ListsStep, LoadsStep, NavStep, CompleteStep,
                       TreeStep, FrameStep, SiteStep, PanesStep, queryVars, matchVars, pagesVars
<1>4. QED
    BY Zenon, <1>1, <1>2, <1>3

MatchesGood == UniqGood(uniq) /\ RankGood(rank) /\ CardGood(card)

(* For every list, label, word and number of matches: toUnique leaves        *)
(* everything once, a label is ranked by the last of its parts that has the  *)
(* word, and the card with the matches in the reference offers what it does  *)
(* not show (templates-sdk docs.js).                                         *)
THEOREM MatchesStayExact == PagesSpec => []MatchesExact
<1>1. PagesInit => MatchesGood
  <2>1. PagesInit => /\ UniqInit \/ UniqRest
                     /\ RankInit \/ RankRest
                     /\ CardInit \/ CardRest
      BY Zenon DEF PagesInit
  <2>2. QED
      BY Zenon, <2>1, UniqStarts, RankStarts, CardStarts DEF MatchesGood
<1>2. MatchesGood /\ [PagesNext]_pagesVars => MatchesGood'
    BY Zenon, PagesMoveMatches, UniqStays, RankStays, CardStays DEF MatchesGood
<1>3. MatchesGood => MatchesExact
    BY Zenon, UniqGoodUnique, RankGoodByLastPart, CardGoodHonest DEF MatchesGood, MatchesExact
<1>4. QED
    BY <1>1, <1>2, <1>3, PTL DEF PagesSpec
=============================================================================
