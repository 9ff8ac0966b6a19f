------------------------------ MODULE DocPages ------------------------------
(***************************************************************************)
(* The pages that the droiddoc templates make: one session with one of the *)
(* parts modelled in the modules below, chosen at the start.  The parts    *)
(* share no variable of the program and no element of the document, so     *)
(* that what two of them do on one page is what each does alone; within a  *)
(* part everything that can interleave does.  The search overlay, which    *)
(* shares the address and the scrolling of the page with the reader, is in *)
(* DocSearch.                                                              *)
(***************************************************************************)
EXTENDS DocSlides, DocToggles, DocLists, DocLoads, DocNav, DocComplete, DocTree, DocFrame,
        DocQuery, DocSite, DocMatch, DocPanes

VARIABLE page  \* the part the session is about

pagesVars == <<page, slidesVars, togglesVars, listsVars, loadsVars, reading, completeVars, tree,
               frameVars, queryVars, siteVars, matchVars, panes>>

Widgets == {"slideshow", "tabbed list", "carousel", "full screen", "slide strip", "tabs",
            "navigation", "contents", "panel", "inherited", "newsletter", "resources", "stacks",
            "filter", "blog", "video", "google trees", "namespaces", "reading", "cards",
            "table", "tree", "scroll bars", "header", "results", "apps", "query", "unique",
            "rank", "parse", "site", "section", "browser", "matches", "panes", "headings", "card"}

PagesInit ==
    /\ page \in Widgets
    /\ IF page = "slideshow" THEN ShowInit ELSE show = ShowAt(FALSE, 0)
    /\ ListInit
    /\ CarouselInit
    /\ ScreensInit
    /\ StripInit
    /\ TabsInit
    /\ IF page = "navigation" THEN NavInit
       ELSE highlightSidenav(CHOOSE s \in Sections : NavParent[s] = NoSection)
    /\ ContentInit
    /\ IF page = "panel" THEN PanelInit ELSE panel = PanelOf("toggle")
    /\ InheritedInit
    /\ NewsInit
    /\ IF page = "resources" THEN FlowInit ELSE FlowRest
    /\ StackInit
    /\ IF page = "filter" THEN FilterInit ELSE FilterRest
    /\ BlogInit
    /\ IF page = "video" THEN VideoInit ELSE VideoRest
    /\ TreesInit
    /\ IF page = "namespaces" THEN RefInit ELSE RefRest
    /\ IF page = "reading" THEN NavPageInit ELSE NavPageRest
    /\ SuggestInit
    /\ TableInit
    /\ IF page = "tree" THEN TreeInit ELSE TreeRest
    /\ IF page = "scroll bars" THEN BarsInit ELSE BarsRest
    /\ IF page = "header" THEN HeaderInit ELSE HeaderRest
    /\ IF page = "results" THEN ResultsInit ELSE ResultsRest
    /\ AppsInit
    /\ IF page = "query" THEN QueryInit ELSE QueryRest
    /\ IF page = "unique" THEN UniqInit ELSE UniqRest
    /\ IF page = "rank" THEN RankInit ELSE RankRest
    /\ IF page = "site" THEN SiteInit ELSE SiteRest
    /\ FoldInit
    /\ IF page = "headings" THEN TocInit ELSE TocRest
    /\ IF page = "card" THEN CardInit ELSE CardRest
    /\ IF page = "browser" THEN BrowserInit ELSE BrowserRest
    /\ IF page = "parse" THEN ParseInit ELSE ParseRest
    /\ IF page = "matches" THEN MatchInit ELSE MatchRest
    /\ IF page = "panes" THEN PanesInit ELSE PanesRest
-----------------------------------------------------------------------------
SlidesStep ==
    /\ \/ page = "slideshow" /\ ShowNext /\ UNCHANGED <<list, carousel, screens, strip, tabs>>
       \/ page = "tabbed list" /\ ListNext /\ UNCHANGED <<show, carousel, screens, strip, tabs>>
       \/ page = "carousel" /\ CarouselNext /\ UNCHANGED <<show, list, screens, strip, tabs>>
       \/ page = "full screen" /\ ScreensNext /\ UNCHANGED <<show, list, carousel, strip, tabs>>
       \/ page = "slide strip" /\ StripNext /\ UNCHANGED <<show, list, carousel, screens, tabs>>
       \/ page = "tabs" /\ TabsNext /\ UNCHANGED <<show, list, carousel, screens, strip>>
    /\ UNCHANGED <<page, togglesVars, listsVars, loadsVars, reading, completeVars, tree, frameVars,
                    queryVars, siteVars, matchVars, panes>>

TogglesStep ==
    /\ \/ page = "navigation" /\ NavNext /\ UNCHANGED <<content, panel, inherited, news, fold, toc>>
       \/ page = "contents" /\ ContentNext /\ UNCHANGED <<nav, panel, inherited, news, fold, toc>>
       \/ page = "panel" /\ PanelNext /\ UNCHANGED <<nav, content, inherited, news, fold, toc>>
       \/ page = "inherited" /\ InheritedNext /\ UNCHANGED <<nav, content, panel, news, fold, toc>>
       \/ page = "newsletter" /\ NewsNext /\ UNCHANGED <<nav, content, panel, inherited, fold, toc>>
       \/ page = "section" /\ FoldNext /\ UNCHANGED <<nav, content, panel, inherited, news, toc>>
       \/ page = "headings" /\ makeTogglable /\ UNCHANGED <<nav, content, panel, inherited, news, fold>>
    /\ UNCHANGED <<page, slidesVars, listsVars, loadsVars, reading, completeVars, tree, frameVars,
                    queryVars, siteVars, matchVars, panes>>

ListsStep ==
    /\ \/ page = "resources" /\ FlowNext /\ UNCHANGED <<stack, filter, browser>>
       \/ page = "stacks" /\ StackNext /\ UNCHANGED <<flow, filter, browser>>
       \/ page = "filter" /\ FilterNext /\ UNCHANGED <<flow, stack, browser>>
       \/ page = "browser" /\ BrowserNext /\ UNCHANGED <<flow, stack, filter>>
    /\ UNCHANGED <<page, slidesVars, togglesVars, loadsVars, reading, completeVars, tree,
                    frameVars, queryVars, siteVars, matchVars, panes>>

LoadsStep ==
    /\ \/ page = "blog" /\ BlogNext /\ UNCHANGED <<video, trees, ref>>
       \/ page = "video" /\ VideoNext /\ UNCHANGED <<blog, trees, ref>>
       \/ page = "google trees" /\ TreesNext /\ UNCHANGED <<blog, video, ref>>
       \/ page = "namespaces" /\ RefNext /\ UNCHANGED <<blog, video, trees>>
    /\ UNCHANGED <<page, slidesVars, togglesVars, listsVars, reading, completeVars, tree,
                    frameVars, queryVars, siteVars, matchVars, panes>>

NavStep ==
    /\ page = "reading" /\ FollowLink
    /\ UNCHANGED <<page, slidesVars, togglesVars, listsVars, loadsVars, completeVars, tree,
                    frameVars, queryVars, siteVars, matchVars, panes>>

CompleteStep ==
    /\ \/ page = "cards" /\ SuggestNext /\ UNCHANGED <<table>>
       \/ page = "table" /\ TableNext /\ UNCHANGED <<suggest>>
    /\ UNCHANGED <<page, slidesVars, togglesVars, listsVars, loadsVars, reading, tree, frameVars,
                    queryVars, siteVars, matchVars, panes>>

TreeStep ==
    /\ page = "tree" /\ TreeNext
    /\ UNCHANGED <<page, slidesVars, togglesVars, listsVars, loadsVars, reading, completeVars,
                    frameVars, queryVars, siteVars, matchVars, panes>>

FrameStep ==
    /\ \/ page = "scroll bars" /\ BarsNext /\ UNCHANGED <<header, pane, apps>>
       \/ page = "header" /\ HeaderNext /\ UNCHANGED <<bars, pane, apps>>
       \/ page = "results" /\ ResultsNext /\ UNCHANGED <<bars, header, apps>>
       \/ page = "apps" /\ AppsNext /\ UNCHANGED <<bars, header, pane>>
    /\ UNCHANGED <<page, slidesVars, togglesVars, listsVars, loadsVars, reading, completeVars,
                    tree, queryVars, siteVars, matchVars, panes>>

QueryStep ==
    /\ \/ page = "query" /\ buildResourceList /\ UNCHANGED <<uniq, rank, parse>>
       \/ page = "query" /\ buildOlderList /\ UNCHANGED <<uniq, rank, parse>>
       \/ page = "unique" /\ UniqStep /\ UNCHANGED <<query, rank, parse>>
       \/ page = "rank" /\ rankAutocompleteApiResults /\ UNCHANGED <<query, uniq, parse>>
       \/ page = "parse" /\ ParseStep /\ UNCHANGED <<query, uniq, rank>>
    /\ UNCHANGED <<page, slidesVars, togglesVars, listsVars, loadsVars, reading, completeVars,
                    tree, frameVars, siteVars, matchVars, panes>>

SiteStep ==
    /\ page = "site" /\ SiteNext
    /\ UNCHANGED <<page, slidesVars, togglesVars, listsVars, loadsVars, reading, completeVars,
                    tree, frameVars, queryVars, matchVars, panes>>

MatchStep ==
    /\ \/ page = "matches" /\ findResourceMatches /\ UNCHANGED card
       \/ page = "card" /\ CardNext /\ UNCHANGED matching
    /\ UNCHANGED <<page, slidesVars, togglesVars, listsVars, loadsVars, reading, completeVars,
                    tree, frameVars, queryVars, siteVars, panes>>

PanesStep ==
    /\ page = "panes" /\ PanesNext
    /\ UNCHANGED <<page, slidesVars, togglesVars, listsVars, loadsVars, reading, completeVars,
                    tree, frameVars, queryVars, siteVars, matchVars>>

PagesNext ==
    SlidesStep \/ TogglesStep \/ ListsStep \/ LoadsStep \/ NavStep \/ CompleteStep \/ TreeStep
    \/ FrameStep \/ QueryStep \/ SiteStep \/ MatchStep \/ PanesStep
-----------------------------------------------------------------------------
(* What the browser does by itself: the timer of a slide show goes off and   *)
(* its animation ends, and a request for the blog is answered or times out   *)
(* ("timeout: 650").                                                         *)
Others == UNCHANGED <<page, reading, tree, frameVars, queryVars, siteVars, matchVars, panes>>

SlidesAlone(step) ==
    /\ page = "slideshow" /\ step /\ UNCHANGED <<list, carousel, screens, strip, tabs>>
    /\ UNCHANGED <<togglesVars, listsVars, loadsVars, completeVars>> /\ Others

ShowTimer == SlidesAlone(ShowTick)
ShowEnds == SlidesAlone(ShowSettle)

BlogTimer ==
    /\ page = "blog" /\ ~blog.left /\ BlogAnswer /\ UNCHANGED <<video, trees, ref>>
    /\ UNCHANGED <<slidesVars, togglesVars, listsVars, completeVars>> /\ Others

PagesSpec ==
    /\ PagesInit /\ [][PagesNext]_pagesVars
    /\ WF_pagesVars(ShowTimer) /\ WF_pagesVars(ShowEnds) /\ WF_pagesVars(BlogTimer)
-----------------------------------------------------------------------------
(* A widget of which one thing is to be seen shows one, the one it marks,    *)
(* and a slide show that says it is paused is.                               *)
SlidesHonest == OneThingShown /\ PauseHonest

(* A reader who follows the links reads the pages of the navigation in       *)
(* order, and the home page of a course lists all of it.                     *)
ReadingInOrder == LinksInOrder /\ CourseComplete

(* Whatever is clicked, and however fast: when nothing moves, every part     *)
(* that opens and closes shows what it takes itself to show - the side       *)
(* navigation, the panels, the lists of the namespaces, the video box - and  *)
(* the panes of the frame share the window.                                  *)
WidgetsHonest == NavHonest /\ PanelsHonest /\ NamespacesHonest /\ VideoInView /\ PanesFit

(* The form of the newsletter comes back after every opening, and a post of  *)
(* the blog is asked for at most twice.                                      *)
TriesEnd == FormComesBack /\ TwoTries

(* What a list of resources shows is the beginning of what was found, in     *)
(* order, and with filters exactly what agrees with every group of them, or  *)
(* in the resource browser with every tag and keyword;                       *)
(* stacks of cards differ by no more than one card.                          *)
ListsAgree == FlowIsPrefix /\ FilterAgrees /\ StacksBalanced /\ BrowserAgrees

(* This page is highlighted in the trees and nothing else is; a tree shows   *)
(* what it takes to be open, and greys out what the API level lacks.         *)
TreesHonest == PageHighlighted /\ NavKept /\ TreeHonest

(* The suggestions under the search field, of the cards and of the table.    *)
SuggestionsHonest == SelectionIsLink /\ CardsHaveMatches /\ TableHonest

(* Matches of a search: each once, classes ranked by the last part of their  *)
(* name; and the card with the matches in the reference offers what it does  *)
(* not show.                                                                 *)
MatchesExact == UniqueAtEnd /\ RankedByLastPart /\ CardHonest

(* What is asked of the metadata is read as it was written and answered; of  *)
(* the pages that match a search none is lost and none is above a better     *)
(* one; a text whose headings become sections reads as it did.               *)
PagesFound == ReadAsWritten /\ QueryAnswered /\ MatchesKept /\ BetterFirst /\ TextKept

(* What the site remembers is what the reader did last.                      *)
SiteRemembers == VisitsAreRecent /\ ReloadRestores /\ LevelHonest /\ SizesKept
=============================================================================
