----------------------------- MODULE DocToggles -----------------------------
(***************************************************************************)
(* The parts of a documentation page that open and close                   *)
(* (templates-sdk/assets/js/docs.js): the sections of the side navigation, *)
(* supplemental content, the other panels, the inherited members of a      *)
(* class, and the newsletter form that gives way to a thank-you.           *)
(*                                                                         *)
(* A panel slides: each element has a queue of animations, the head one    *)
(* running, and a click may fall while it runs.  jQuery starts an          *)
(* animation when it reaches the head of the queue, and one that has       *)
(* nothing to do (hiding what is hidden) ends there and then, its callback *)
(* included.  What is in a panel and how high it is are left out.          *)
(***************************************************************************)
EXTENDS Integers, Sequences, FiniteSets, SequencesExt, FiniteSetsExt

CONSTANTS
    Sections,   \* the sections of the side navigation, two levels of them
    NoSection,
    NavParent,  \* the section a section is in, or NoSection
    Sticky,     \* the sections with class "sticky"
    Tables,     \* tables of inherited members, and their rows
    Rows,
    MaxToggles, \* bound on what the user does
    MaxNodes    \* bound on the nodes of a text with headings

ASSUME TogglesAssumption ==
    /\ NoSection \notin Sections /\ Sections # {}
    /\ NavParent \in [Sections -> Sections \union {NoSection}]
    /\ \A s \in Sections : NavParent[s] # NoSection => NavParent[NavParent[s]] = NoSection
    /\ Sticky \subseteq Sections /\ MaxToggles \in Nat /\ MaxNodes \in Nat

VARIABLES
    nav,       \* the side navigation
    content,   \* toggleContent
    panel,     \* the panels of toggle, toggleExpandable, hideNestedItems, slideToggle
    inherited, \* the inherited members
    news,      \* the newsletter modal
    fold,      \* the content of a toggle section
    toc        \* a text whose headings become toggle sections

togglesVars == <<nav, content, panel, inherited, news, fold, toc>>

Going(queue) == IF queue = <<>> THEN "none" ELSE Head(queue).dir
-----------------------------------------------------------------------------
(* The side navigation.  `expanded' are the sections with that class,       *)
(* `shown' those whose list is displayed; an animation that hides a list    *)
(* may have a callback, for the section that was clicked.                   *)

Inside(s) == {t \in Sections : t = s \/ NavParent[t] = s}

(* highlightSidenav: the section of the page, and the one it is in. *)
highlightSidenav(s) ==
    nav = [expanded |-> {s, NavParent[s]} \ {NoSection}, shown |-> {s, NavParent[s]} \ {NoSection},
           queue |-> [t \in Sections |-> <<>>], clicks |-> 0]

NavInit == \E s \in Sections : highlightSidenav(s)

Hidden(s) == s \notin nav.shown \/ (NavParent[s] # NoSection /\ NavParent[s] \notin nav.shown)

Down == [dir |-> "down", of |-> NoSection]
Up(s) == [dir |-> "up", of |-> s]

Idle(s) == \/ Going(nav.queue[s]) = "up" /\ Hidden(s)
           \/ Going(nav.queue[s]) = "down" /\ ~Hidden(s)

(* The end of an animation: the callback removes the class from the section *)
(* that was clicked and from those in it.                                   *)
NavEnd(s) ==
    LET head == Head(nav.queue[s])
    IN  nav' = [nav EXCEPT
                  !.queue[s] = Tail(@),
                  !.shown = IF Idle(s) THEN @ ELSE IF head.dir = "down" THEN @ \union {s} ELSE @ \ {s},
                  !.expanded = IF head.of = NoSection THEN @ ELSE @ \ Inside(head.of)]

NavSkip == \E s \in Sections : Idle(s) /\ NavEnd(s)

NavSettle ==
    /\ \A t \in Sections : ~Idle(t)
    /\ \E s \in Sections : nav.queue[s] # <<>> /\ NavEnd(s)

(* The icon of a section can be clicked while the list it is in is in view.  *)
NavVisible(s) ==
    NavParent[s] # NoSection =>
        NavParent[s] \in nav.shown \/ Going(nav.queue[NavParent[s]]) = "down"

Queued(anims) == [t \in Sections |-> nav.queue[t] \o anims[t]]

doNavToggle(s) ==
    IF s \in nav.expanded
    THEN nav' = [nav EXCEPT !.clicks = @ + 1,
                   !.queue = Queued([t \in Sections |-> IF t \in Inside(s) THEN <<Up(s)>> ELSE <<>>])]
    ELSE LET level == {t \in Sections : NavParent[t] = NavParent[s]}
             others == (nav.expanded \ Sticky) \intersect UNION {Inside(t) : t \in level}
         IN  nav' = [nav EXCEPT !.clicks = @ + 1,
                       !.expanded = (@ \ others) \union {s},
                       !.queue = Queued([t \in Sections |->
                           (IF t \in others THEN <<Up(NoSection)>> ELSE <<>>)
                               \o (IF t = s THEN <<Down>> ELSE <<>>)])]

NavClick ==
    /\ nav.clicks < MaxToggles
    /\ \A t \in Sections : ~Idle(t)
    /\ \E s \in Sections : NavVisible(s) /\ doNavToggle(s)

NavNext == NavClick \/ NavSkip \/ NavSettle
-----------------------------------------------------------------------------
(* toggleContent.  `open' is the class, `shown' what is displayed, `text'   *)
(* whether the label has been toggled; `hasty' says that a click fell while *)
(* the content was closing.                                                 *)

ContentInit == content = [open |-> FALSE, shown |-> FALSE, text |-> FALSE,
                          queue |-> <<>>, hasty |-> FALSE, clicks |-> 0]

toggleContent ==
    /\ content.clicks < MaxToggles
    /\ content' = IF ~content.open
         THEN [content EXCEPT !.open = TRUE, !.text = ~@, !.clicks = @ + 1,
                              !.queue = Append(@, "down")]
         ELSE [content EXCEPT !.queue = Append(@, "up"), !.clicks = @ + 1,
                              !.hasty = @ \/ \E i \in DOMAIN content.queue : content.queue[i] = "up"]

(* The second of two closing animations ends at once, and so follows the    *)
(* first one directly.                                                      *)
ContentSettle ==
    /\ content.queue # <<>>
    /\ LET closings == {i \in DOMAIN content.queue : content.queue[i] = "up"}
       IN  content' =
             IF Head(content.queue) = "down"
             THEN [content EXCEPT !.shown = TRUE, !.queue = Tail(@)]
             ELSE [content EXCEPT !.shown = FALSE, !.open = FALSE, !.queue = <<>>,
                     !.text = IF Cardinality(closings) % 2 = 1 THEN ~@ ELSE @]

ContentNext == toggleContent \/ ContentSettle
-----------------------------------------------------------------------------
(* The other panels.  `kind' is the function that toggles the panel and      *)
(* `marked' its class; "flip" is jQuery's slideToggle, which looks at the    *)
(* element when it begins.                                                   *)

Kinds == {"toggle", "expandable", "nested", "slideToggle"}

PanelOf(kind) == [kind |-> kind, marked |-> FALSE, shown |-> FALSE, queue |-> <<>>, clicks |-> 0]

PanelInit == \E kind \in Kinds : panel = PanelOf(kind)

PanelTo(marked, anim) ==
    panel' = [panel EXCEPT !.marked = marked, !.queue = Append(@, anim), !.clicks = @ + 1]

(* The class decides in toggle and in hideNestedItems. *)
toggle ==
    /\ panel.kind \in {"toggle", "nested"}
    /\ PanelTo(~panel.marked, IF panel.marked THEN "up" ELSE "down")

(* What is on the screen decides in toggleExpandable. *)
toggleExpandable ==
    /\ panel.kind = "expandable"
    /\ LET visible == panel.shown \/ (panel.queue # <<>> /\ Head(panel.queue) = "down")
       IN  PanelTo(~visible, IF visible THEN "up" ELSE "down")

hideExpandable == panel.kind = "expandable" /\ PanelTo(FALSE, "up")

slideToggle == panel.kind = "slideToggle" /\ PanelTo(~panel.marked, "flip")

PanelClick ==
    /\ panel.clicks < MaxToggles
    /\ toggle \/ toggleExpandable \/ hideExpandable \/ slideToggle

PanelSettle ==
    /\ panel.queue # <<>>
    /\ panel' = [panel EXCEPT !.queue = Tail(@),
                   !.shown = IF Head(panel.queue) = "flip" THEN ~@ ELSE Head(panel.queue) = "down"]

PanelNext == PanelClick \/ PanelSettle
-----------------------------------------------------------------------------
(* The inherited members of a class: rows with their class (opened) and what *)
(* is displayed (summary), the label of each table and the one of the class. *)

InheritedInit ==
    inherited = [opened |-> {}, summary |-> {}, table |-> [t \in Tables |-> "[Expand]"],
                 class |-> "[Expand All]"]

RowIds == Tables \X Rows
RowsOf(ts) == ts \X Rows

toggleInherited(row) ==
    inherited' = IF row \in inherited.opened
                 THEN [inherited EXCEPT !.opened = @ \ {row}, !.summary = @ \ {row}]
                 ELSE [inherited EXCEPT !.opened = @ \union {row}, !.summary = @ \union {row}]

(* A slip: the labels of the tables are not changed.                         *)
AllRowsOnly(i, ts, expand) ==
    [i EXCEPT !.opened = IF expand THEN @ \union RowsOf(ts) ELSE @ \ RowsOf(ts),
              !.summary = IF expand THEN @ \union RowsOf(ts) ELSE @ \ RowsOf(ts)]

(* Every row of the tables ts, and their labels. *)
AllInherited(i, ts, expand) ==
    [i EXCEPT
       !.opened = IF expand THEN @ \union RowsOf(ts) ELSE @ \ RowsOf(ts),
       !.summary = IF expand THEN @ \union RowsOf(ts) ELSE @ \ RowsOf(ts),
       !.table = [t \in Tables |-> IF t \notin ts THEN @[t]
                                   ELSE IF expand THEN "[Collapse]" ELSE "[Expand]"]]

toggleAllInherited(t) ==
    inherited' = AllInherited(inherited, {t}, inherited.table[t] = "[Expand]")

toggleAllClassInherited ==
    LET expand == inherited.class = "[Expand All]"
    IN  inherited' = [AllInherited(inherited, Tables, expand)
                        EXCEPT !.class = IF expand THEN "[Collapse All]" ELSE "[Expand All]"]

ensureAllInheritedExpanded ==
    inherited' = [AllInherited(inherited, Tables, TRUE) EXCEPT !.class = "[Collapse All]"]

InheritedNext ==
    \/ \E row \in RowIds : toggleInherited(row)
    \/ \E t \in Tables : toggleAllInherited(t)
    \/ toggleAllClassInherited
    \/ ensureAllInheritedExpanded
-----------------------------------------------------------------------------
(* The newsletter: a modal with two views that SwapContent exchanges with an *)
(* animation.  `swaps' are the animations under way, `onSwap' and `onClose'  *)
(* the one-time handlers, `resets' the timers that are to restore the form.  *)

NewsInit == news = [open |-> FALSE, view |-> "form", swaps |-> 0, onSwap |-> 0,
                    onClose |-> 0, resets |-> 0, clicks |-> 0]

OtherView(view) == IF view = "form" THEN "thanks" ELSE "form"

NewsOpen ==
    /\ ~news.open /\ news.clicks < MaxToggles
    /\ news' = [news EXCEPT !.open = TRUE, !.clicks = @ + 1]

NewsSubmit ==
    /\ news.open /\ news.view = "form" /\ news.clicks < MaxToggles
    /\ news' = [news EXCEPT !.onSwap = @ + 1, !.view = OtherView(@), !.swaps = @ + 1,
                            !.clicks = @ + 1]

(* complete and reset_: the form is only to come back at a later close. *)
NewsSwapped ==
    /\ news.swaps > 0
    /\ news' = [news EXCEPT !.swaps = @ - 1, !.onSwap = 0, !.onClose = @ + news.onSwap]

(* A slip: the handler of the close is not a one-time handler.               *)
NewsCloseAgain ==
    /\ news.open
    /\ news' = [news EXCEPT !.open = FALSE, !.resets = @ + news.onClose]

NewsClose ==
    /\ news.open
    /\ news' = [news EXCEPT !.open = FALSE, !.onClose = 0, !.resets = @ + news.onClose]

NewsReset ==
    /\ news.resets > 0
    /\ news' = [news EXCEPT !.resets = @ - 1, !.view = OtherView(@)]

NewsNext == NewsOpen \/ NewsSubmit \/ NewsSwapped \/ NewsClose \/ NewsReset
-----------------------------------------------------------------------------
(* A toggle section.  `inline' is the max-height that transitionMaxHeight    *)
(* sets, NoLimit when it is that of the style sheet, which shows the content *)
(* of a section that is expanded.  `timers' are those that are to take it    *)
(* away; a click does not stop them.  What is in the content may grow.       *)

NoLimit == -1

FoldInit == fold = [expanded |-> FALSE, inline |-> NoLimit, scrollHeight |-> 1, timers |-> 0, clicks |-> 0]

transitionMaxHeight(visible) ==
    fold' = [fold EXCEPT !.inline = IF visible THEN fold.scrollHeight ELSE 0, !.timers = @ + 1,
                         !.expanded = visible, !.clicks = @ + 1]

FoldClick == fold.clicks < MaxToggles /\ transitionMaxHeight(~fold.expanded)

FoldTimer == fold.timers > 0 /\ fold' = [fold EXCEPT !.inline = NoLimit, !.timers = @ - 1]

FoldGrows ==
    /\ fold.clicks < MaxToggles
    /\ fold' = [fold EXCEPT !.scrollHeight = @ + 1, !.clicks = @ + 1]

FoldNext == FoldClick \/ FoldTimer \/ FoldGrows

(* How much of the content can be seen once a transition is over.            *)
FoldShown ==
    IF fold.inline = NoLimit THEN IF fold.expanded THEN fold.scrollHeight ELSE 0
    ELSE IF fold.inline < fold.scrollHeight THEN fold.inline ELSE fold.scrollHeight
-----------------------------------------------------------------------------
(* The headings of a text become toggle sections when the window is narrow   *)
(* (makeTogglable).  A text is a sequence of nodes: headings, each with the  *)
(* rule that initWidget puts after it, anchors a[name], paragraphs, loose    *)
(* text, which jQuery's prev passes over, and the element of class next-docs.*)

Node(kind, of) == [kind |-> kind, of |-> of, nodes |-> <<>>]

NodesOf(kinds) ==
    FlattenSeq([i \in DOMAIN kinds |-> IF kinds[i] = "h2" THEN <<Node("h2", i), Node("hr", i)>>
                                       ELSE <<Node(kinds[i], i)>>])

ElementBefore(dom, i) == Max({j \in 1 .. i - 1 : dom[j].kind # "text"} \union {0})

Picked(dom, places) == [k \in 1 .. Cardinality(places) |-> dom[SetToSortSeq(places, <)[k]]]

(* One heading: with its rule, the anchor before it and all up to the next   *)
(* heading it is taken out, and put back after the element before it.        *)
WrapSection(dom, title) ==
    LET at       == CHOOSE i \in DOMAIN dom : dom[i].kind = "h2" /\ dom[i].of = title
        stop     == Min({i \in at + 2 .. Len(dom) : dom[i].kind \in {"h2", "next"}} \union {Len(dom) + 1})
        before   == ElementBefore(dom, at)
        named    == before > 0 /\ dom[before].kind = "a"
        section  == (at .. stop - 1) \union (IF named THEN {before} ELSE {})
        anchor   == ElementBefore(dom, Min(section))
    IN  IF stop = at + 2 THEN dom
        ELSE SubSeq(dom, 1, anchor)
                 \o <<[kind |-> "section", of |-> title, nodes |-> Picked(dom, section)]>>
                 \o Picked(dom, (anchor + 1 .. Len(dom)) \ section)

Titles(kinds) == SelectSeq([i \in DOMAIN kinds |-> i], LAMBDA i : kinds[i] = "h2")

TocOf(kinds) == [kinds |-> kinds, dom |-> NodesOf(kinds), upgraded |-> FALSE]

TocInit == \E n \in 0 .. MaxNodes : \E kinds \in [1 .. n -> {"h2", "a", "p", "text", "next"}] : toc = TocOf(kinds)
TocRest == toc = TocOf(<<>>)

makeTogglable ==
    /\ ~toc.upgraded
    /\ toc' = [toc EXCEPT !.upgraded = TRUE,
                 !.dom = IF Len(Titles(toc.kinds)) < 2 THEN @
                         ELSE FoldLeft(WrapSection, @, Titles(toc.kinds))]
-----------------------------------------------------------------------------
(* The side navigation is honest once its animations have ended: a section  *)
(* marked as expanded shows its list, and of the sections of one level at   *)
(* most one that is not sticky is expanded, even in between.                *)
NavHonest ==
    /\ (\A s \in Sections : nav.queue[s] = <<>>) => nav.expanded \subseteq nav.shown
    /\ \A s, t \in nav.expanded \ Sticky : NavParent[s] = NavParent[t] => s = t

(* When no animation is left, a panel's class tells what is displayed,       *)
(* however many clicks fell while it moved; the label of supplemental        *)
(* content is right too unless a click fell while it was closing, which      *)
(* toggles it twice.  A section that is not expanded shows nothing, timers   *)
(* or not, and one that is shows all that is in it when no timer is left,    *)
(* what came since included.                                                 *)
PanelsHonest ==
    /\ ~fold.expanded => FoldShown = 0
    /\ fold.expanded /\ fold.timers = 0 => FoldShown = fold.scrollHeight
    /\ panel.queue = <<>> => panel.marked = panel.shown
    /\ content.queue = <<>> => /\ content.open = content.shown
                               /\ ~content.hasty => content.text = content.shown

(* The page search finds everything: the step that expands all inherited     *)
(* members (Ctrl+F, or "[Expand All]") leaves no row closed and no label     *)
(* that offers to expand, whatever was toggled by row or by table before.    *)
SearchSeesAll ==
    [][ \/ inherited'.class = inherited.class
        \/ \A t \in Tables :
             /\ inherited'.table[t] = IF inherited'.class = "[Collapse All]" THEN "[Collapse]"
                                      ELSE "[Expand]"
             /\ \A r \in Rows : /\ (<<t, r>> \in inherited'.opened) = (inherited'.class = "[Collapse All]")
                                /\ (<<t, r>> \in inherited'.summary) = (<<t, r>> \in inherited'.opened)
      ]_inherited

(* No node of the text is lost when its headings become sections, and all    *)
(* stay in their order but for loose text before a heading that is under no  *)
(* other, which may end up behind the section; every heading with something  *)
(* under it has a section of its own.                                        *)
TextKept ==
    LET flat  == FlattenSeq([i \in DOMAIN toc.dom |->
                     IF toc.dom[i].kind = "section" THEN toc.dom[i].nodes ELSE <<toc.dom[i]>>])
        first == Titles(toc.kinds)
        loose == \E i, j \in DOMAIN toc.kinds :
                     /\ i < j /\ toc.kinds[i] = "text" /\ toc.kinds[j] = "h2"
                     /\ \A k \in i + 1 .. j - 1 : toc.kinds[k] \in {"text", "a"}
                     /\ \A h \in 1 .. i - 1 : toc.kinds[h] = "h2" =>
                          \E k \in h + 1 .. i - 1 : toc.kinds[k] = "next"
    IN  /\ Len(flat) = Len(NodesOf(toc.kinds)) /\ ToSet(flat) = ToSet(NodesOf(toc.kinds))
        /\ ~loose => flat = NodesOf(toc.kinds)
        /\ toc.upgraded /\ Len(first) > 1 =>
             \A k \in DOMAIN first :
                 (first[k] < Len(toc.kinds) /\ toc.kinds[first[k] + 1] \notin {"h2", "next"}) =>
                     \E i \in DOMAIN toc.dom : toc.dom[i].kind = "section" /\ toc.dom[i].of = first[k]

(* The newsletter is never stuck on its thank-you: when nothing is under way *)
(* the form is there, or the next close of the modal brings it back.         *)
FormComesBack ==
    news.swaps = 0 /\ news.resets = 0 => (news.view = "form") = (news.onClose = 0)
=============================================================================
