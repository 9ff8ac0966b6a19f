------------------------------ MODULE DocPanes ------------------------------
(***************************************************************************)
(* The frame of a page of templates-pdk                                    *)
(* (assets/android-developer-docs.js): the side navigation and the content *)
(* beside it, in the reference the list of packages over that of classes,  *)
(* all with handles, and the cookies that keep the sizes and the page last *)
(* read from one page to the next.  Sizes are pixels; what the style sheet *)
(* says is in the Css definitions.                                         *)
(***************************************************************************)
EXTENDS Integers, Sequences, FiniteSetsExt

CONSTANTS
    PdkPages,       \* the pages: records [section, n], of which n = 1 is the index
    WindowHeights,
    PaneWidths,     \* what the reader drags the handles to
    PaneHeights,
    MaxPanes        \* bound on what the reader does

PdkSections == {"reference", "guide", "sdk", "resources", "training", "other"}
Tabbed == {"reference", "guide", "resources"}

ASSUME PanesAssumption ==
    /\ PdkPages \subseteq [section : PdkSections, n : Nat \ {0}]
    /\ \A s \in Tabbed : [section |-> s, n |-> 1] \in PdkPages
    /\ WindowHeights \subseteq Nat \ 0 .. 130 /\ WindowHeights # {}
    /\ PaneWidths \subseteq Nat \ {0} /\ PaneHeights \subseteq Nat \ {0} /\ MaxPanes \in Nat

VARIABLE panes

HEADER_HEIGHT == 117
SwapLink == 13
Handle == 6
CssHeight == 270
CssWidth == 240
Unset == -1

HasNav(page) == page.section # "other"
InReference(p) == p.page.section = "reference"

(* max-height is "100%" until it is set. *)
Used(p) == Min({p.packages, IF p.max = Unset THEN p.swapper ELSE p.max})

(* A negative height is no height: it changes nothing. *)
Height(new, old) == IF new < 0 THEN old ELSE new

(* The cookies, by section and name.  A size is written under the first      *)
(* directory of the path, and read under a section that the address holds    *)
(* anywhere; 0 is no cookie.                                                 *)
Group(section) == IF section = "training" THEN "resources" ELSE section
FirstDirectory(p) == IF p.rooted THEN Group(p.page.section) ELSE "directory"

readCookie(jar, section, cookie) ==
    IF <<section, cookie>> \in DOMAIN jar THEN jar[<<section, cookie>>] ELSE 0
writeCookie(jar, section, cookie, val) ==
    [key \in DOMAIN jar \union {<<section, cookie>>} |->
        IF key = <<section, cookie>> THEN val ELSE jar[key]]
-----------------------------------------------------------------------------
resizeWidth(p) ==
    [p EXCEPT !.margin = p.width + Handle,
              !.jar = writeCookie(@, FirstDirectory(p), "width", p.width)]

restoreWidth(p, navWidth) == [p EXCEPT !.margin = navWidth + Handle, !.width = navWidth]

resizeHeight(p) ==
    LET room    == p.window - HEADER_HEIGHT
        swapped == [p EXCEPT !.frame = room, !.swapper = room - SwapLink, !.tree = room - SwapLink]
    IN  IF InReference(p)
        THEN [swapped EXCEPT !.classes = Height(swapped.swapper - Used(swapped), @)]
        ELSE [p EXCEPT !.frame = room]

restoreHeight(p, packageHeight) ==
    LET swapper == p.window - HEADER_HEIGHT - SwapLink
    IN  [p EXCEPT !.frame = p.window - HEADER_HEIGHT, !.swapper = swapper, !.tree = swapper,
                  !.max = swapper, !.packages = packageHeight,
                  !.classes = Height(swapper - packageHeight, @)]

resizePackagesHeight(p) ==
    LET limited == [p EXCEPT !.swapper = p.window - HEADER_HEIGHT - SwapLink,
                             !.max = p.window - HEADER_HEIGHT - SwapLink]
    IN  [limited EXCEPT !.classes = limited.swapper - Used(limited),
                        !.jar = writeCookie(@, FirstDirectory(p), "height", Used(limited))]

(* init, on a page as the style sheet has it.                                *)
PaneInit(p) ==
    LET sheet  == [p EXCEPT !.width = CssWidth, !.margin = 0, !.packages = CssHeight, !.max = Unset,
                     !.classes = Unset, !.swapper = Unset, !.tree = Unset, !.fresh = TRUE]
        width  == readCookie(p.jar, Group(p.page.section), "width")
        height == readCookie(p.jar, Group(p.page.section), "height")
        wide   == IF ~HasNav(p.page) THEN sheet
                  ELSE IF width # 0 THEN restoreWidth(sheet, width) ELSE resizeWidth(sheet)
    IN  IF height # 0 THEN restoreHeight(wide, height) ELSE resizeHeight(wide)

(* The handler of unload.                                                    *)
Unload(p) ==
    [p EXCEPT !.left = Append(@, p.page),
              !.jar = IF Group(p.page.section) \in Tabbed
                      THEN writeCookie(@, Group(p.page.section), "lastpage", p.page) ELSE @]

(* The tab of a section: the page that is followed, its index by default.    *)
loadLast(p, section) ==
    LET lastPage == readCookie(p.jar, section, "lastpage")
    IN  IF p.page.section = section \/ <<section, "lastpage">> \notin DOMAIN p.jar
        THEN [section |-> section, n |-> 1] ELSE lastPage
-----------------------------------------------------------------------------
PanesOf(page, window, rooted) ==
    PaneInit([page |-> page, window |-> window, rooted |-> rooted, width |-> 0, margin |-> 0,
              packages |-> 0, max |-> 0, classes |-> 0, swapper |-> 0, tree |-> 0, frame |-> 0,
              jar |-> <<>>, fresh |-> TRUE, left |-> <<>>, tab |-> "none",
              dragged |-> [s \in PdkSections |-> 0], pulled |-> 0, acts |-> 0])

PanesInit ==
    \E page \in PdkPages, window \in WindowHeights, rooted \in BOOLEAN :
        panes = PanesOf(page, window, rooted)

PanesRest == panes = PanesOf([section |-> "guide", n |-> 1], CHOOSE h \in WindowHeights : TRUE, TRUE)

Acted == [panes EXCEPT !.acts = @ + 1, !.fresh = FALSE]

DragWidth ==
    /\ HasNav(panes.page)
    /\ \E w \in PaneWidths :
         panes' = [resizeWidth([Acted EXCEPT !.width = w])
                     EXCEPT !.dragged[Group(panes.page.section)] = w]

DragHeight ==
    /\ InReference(panes)
    /\ \E h \in PaneHeights :
         LET dropped == resizePackagesHeight([Acted EXCEPT !.packages = h])
         IN  panes' = [dropped EXCEPT !.pulled = Used(dropped)]

ResizeWindow == \E h \in WindowHeights : panes' = resizeHeight([Acted EXCEPT !.window = h])

FollowPage ==
    \E page \in PdkPages :
        panes' = PaneInit([Unload(Acted) EXCEPT !.page = page, !.tab = "none"])

ClickTab ==
    \E s \in Tabbed :
        panes' = PaneInit([Unload(Acted) EXCEPT !.page = loadLast(panes, s), !.tab = s])

PanesNext ==
    /\ panes.acts < MaxPanes
    /\ DragWidth \/ DragHeight \/ ResizeWindow \/ FollowPage \/ ClickTab
-----------------------------------------------------------------------------
(* Whatever is dragged and however the window is resized: the content begins *)
(* where the navigation and its handle end, both are as high as the window   *)
(* leaves them, and in the reference the packages and the classes share that *)
(* height without a gap, if the packages as they were sized leave room.      *)
PanesFit ==
    /\ HasNav(panes.page) => panes.margin = panes.width + Handle
    /\ panes.frame = panes.window - HEADER_HEIGHT
    /\ InReference(panes) =>
         /\ panes.tree = panes.swapper /\ panes.swapper + SwapLink = panes.frame
         /\ panes.packages <= panes.swapper => Used(panes) + panes.classes = panes.swapper

(* Sizes come back on the next page: the width last dragged in the section,  *)
(* the height of the packages as far as the window has room, in a site at    *)
(* the root of its server; and a tab leads to the page that was left last.   *)
SizesKept ==
    LET dragged == panes.dragged[Group(panes.page.section)]
        lefts   == {i \in DOMAIN panes.left : Group(panes.left[i].section) = panes.tab}
        before  == lefts \ {Len(panes.left)}
    IN  /\ panes.rooted /\ dragged # 0 => panes.width = dragged
        /\ panes.rooted /\ panes.fresh /\ InReference(panes) /\ panes.pulled # 0 =>
             Used(panes) = Min({panes.pulled, panes.swapper})
        /\ panes.tab # "none" /\ panes.left[Len(panes.left)].section # panes.tab =>
             panes.page = IF before = {} THEN [section |-> panes.tab, n |-> 1]
                          ELSE panes.left[Max(before)]
=============================================================================
