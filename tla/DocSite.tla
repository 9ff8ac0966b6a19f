------------------------------ MODULE DocSite ------------------------------
(***************************************************************************)
(* What the documentation site remembers between pages                     *)
(* (templates-sdk/assets/js/docs.js): the pages visited, the toasts        *)
(* closed, the parts of the navigation left open, the side bar, full       *)
(* screen mode, the API level and the language, kept in localStorage and   *)
(* in cookies.  Several windows of one browser share them: some code reads *)
(* them afresh, some keeps what it read when its page was loaded.          *)
(*                                                                         *)
(* The features use keys of their own, so a session is about one of them   *)
(* (about).  How a page looks is left out.                                 *)
(***************************************************************************)
EXTENDS Naturals, Sequences, FiniteSets, SequencesExt

CONSTANTS
    Windows,
    NoWindow,
    Paths,      \* pages of the site
    Fronts,     \* the front pages, whose visits are not recorded
    PAGES_TO_STORE_,
    Toasts,     \* a toast is shown on every page until it is closed
    Navs,       \* the parts of the navigation that open and close
    Landing,    \* Landing[p]: the part that page p belongs to
    Levels,     \* API_LEVELS, 1 .. n
    MinLevel,   \* MinLevel[p]: the level of the class on page p
    Langs,
    DefaultLang,
    MaxActs     \* bound on what the user does

ASSUME SiteAssumption ==
    /\ NoWindow \notin Windows /\ Fronts \subseteq Paths
    /\ Paths # {} /\ PAGES_TO_STORE_ \in Nat \ {0}
    /\ IsFiniteSet(Levels) /\ Levels = 1 .. Cardinality(Levels)
    /\ Landing \in [Paths -> Navs] /\ MinLevel \in [Paths -> Levels]
    /\ DefaultLang \in Langs /\ MaxActs \in Nat

Features == {"visits", "toasts", "navigation", "sidebar", "fullscreen", "level", "language"}

VARIABLES
    about,   \* the feature the session is about
    stored,  \* localStorage and the cookies
    shown,   \* what each window shows, and what its page has read
    trail,   \* the visits recorded so far
    writer,  \* the window that wrote last
    acts

siteVars == <<about, stored, shown, trail, writer, acts>>

EmptyStore ==
    [visited |-> <<>>, closed |-> {}, expanded |-> <<>>, sidebar |-> "unset",
     fullscreen |-> FALSE, level |-> 0, lang |-> DefaultLang]

(* toggleSidebarVisibility, when the page is loaded and when it is resized.  *)
Sidebar(store, wide) == store.sidebar # "closed" /\ wide

(* buildApiLevelSelector: the cookie, or the newest level.                   *)
UserLevel(store) == IF store.level = 0 THEN Cardinality(Levels) ELSE store.level

(* toggleVisisbleApis: what is greyed out.                                   *)
toggleVisisbleApis(selected) == {l \in Levels : l > selected}

(* A page as it is loaded.  `due': its visit is still to be recorded;        *)
(* `dictionary' and `config' are what the toasts and the navigation keep;    *)
(* `locale' is the preference and `dialog' whether to change it is asked.    *)
Page(store, path, hl, wide) ==
    [path |-> path, due |-> TRUE, dictionary |-> store.closed, toasts |-> Toasts \ store.closed,
     config |-> store.expanded, open |-> ToSet(store.expanded) \union {Landing[path]},
     wide |-> wide, sidebar |-> Sidebar(store, wide), fullscreen |-> store.fullscreen,
     level |-> UserLevel(store), absent |-> toggleVisisbleApis(UserLevel(store)),
     notice |-> UserLevel(store) < MinLevel[path],
     locale |-> store.lang, target |-> hl, dialog |-> hl # store.lang]

(* On a reference page the level is applied, and so written, at once.        *)
Loaded(store) ==
    IF about = "level" THEN [store EXCEPT !.level = UserLevel(store)] ELSE store

SiteInit ==
    /\ about \in Features
    /\ \E wide \in BOOLEAN, path \in Paths :
         shown = [w \in Windows |-> Page(EmptyStore, path, DefaultLang, wide)]
    /\ stored = Loaded(EmptyStore)
    /\ trail = <<>> /\ writer = NoWindow /\ acts = 0

SiteRest ==
    /\ about = "visits"
    /\ shown = [w \in Windows |-> Page(EmptyStore, CHOOSE p \in Paths : TRUE, DefaultLang, TRUE)]
    /\ stored = EmptyStore /\ trail = <<>> /\ writer = NoWindow /\ acts = 0

User == acts < MaxActs /\ acts' = acts + 1

Write(w, store, page) ==
    /\ stored' = store /\ shown' = [shown EXCEPT ![w] = page] /\ writer' = w
-----------------------------------------------------------------------------
(* A page is loaded in a window, with the language of its address (hl) or    *)
(* without one.                                                              *)
LoadPage(w) ==
    /\ User
    /\ \E path \in IF about = "language" THEN {shown[w].path} ELSE Paths,
          hl \in IF about = "language" THEN Langs ELSE {stored.lang} :
         /\ shown' = [shown EXCEPT ![w] = Page(stored, path, hl, shown[w].wide)]
         /\ stored' = Loaded(stored)
    /\ UNCHANGED <<about, trail, writer>>

(* addCurrectPage, a moment after the page was loaded, with the list read    *)
(* afresh.  A slip: a page known is not moved to the end.                    *)
VisitedInPlace(pages, path) ==
    IF \E i \in DOMAIN pages : pages[i].path = path
    THEN [i \in DOMAIN pages |-> IF pages[i].path = path
                                 THEN [pages[i] EXCEPT !.hit = @ + 1] ELSE pages[i]]
    ELSE Append(IF Len(pages) >= PAGES_TO_STORE_ THEN Tail(pages) ELSE pages,
                [path |-> path, hit |-> 1])

(* getPageForPath: the page found is taken out; for a new one the list may   *)
(* have to lose its first.                                                   *)
Visited(pages, path) ==
    LET at == {i \in DOMAIN pages : pages[i].path = path}
        i  == CHOOSE i \in at : \A j \in at : j <= i
    IN  IF at # {} THEN Append(RemoveAt(pages, i), [path |-> path, hit |-> pages[i].hit + 1])
        ELSE Append(IF Len(pages) >= PAGES_TO_STORE_ THEN Tail(pages) ELSE pages,
                    [path |-> path, hit |-> 1])

addCurrectPage(w) ==
    /\ about = "visits" /\ shown[w].due
    /\ shown' = [shown EXCEPT ![w].due = FALSE]
    /\ IF shown[w].path \in Fronts THEN UNCHANGED <<stored, trail>>
       ELSE /\ stored' = [stored EXCEPT !.visited = Visited(@, shown[w].path)]
            /\ trail' = Append(trail, shown[w].path)
    /\ UNCHANGED <<about, writer, acts>>

(* Toast.onClickHandler: what is written is the dictionary of this page.     *)
CloseToast(w) ==
    /\ about = "toasts" /\ User
    /\ \E t \in shown[w].toasts :
         LET dictionary == shown[w].dictionary \union {t}
         IN  Write(w, [stored EXCEPT !.closed = dictionary],
                      [shown[w] EXCEPT !.toasts = @ \ {t}, !.dictionary = dictionary])
    /\ UNCHANGED <<about, trail>>

(* What filter leaves of the parts stored.                                   *)
Without(config, n) ==
    LET kept[i \in 0 .. Len(config)] ==
          IF i = 0 THEN <<>>
          ELSE IF config[i] = n THEN kept[i-1] ELSE Append(kept[i-1], config[i])
    IN  kept[Len(config)]

(* toggleSubNav_ and updateStore: what is written is the configuration of    *)
(* this page.                                                                *)
Configured(config, n, opens) == IF opens THEN Append(config, n) ELSE Without(config, n)

ToggleSubNav(w) ==
    /\ about = "navigation" /\ User
    /\ \E n \in Navs :
         LET opens  == n \notin shown[w].open
             config == Configured(shown[w].config, n, opens)
         IN  Write(w, [stored EXCEPT !.expanded = config],
                      [shown[w] EXCEPT !.config = config,
                                       !.open = IF opens THEN @ \union {n} ELSE @ \ {n}])
    /\ UNCHANGED <<about, trail>>

(* ToggleNav.clickHandler_ stores the state of a wide window only.           *)
ToggleSidebar(w) ==
    /\ about = "sidebar" /\ User
    /\ IF shown[w].wide
       THEN Write(w, [stored EXCEPT !.sidebar = IF shown[w].sidebar THEN "closed" ELSE "open"],
                     [shown[w] EXCEPT !.sidebar = ~@])
       ELSE shown' = [shown EXCEPT ![w].sidebar = ~@] /\ UNCHANGED <<stored, writer>>
    /\ UNCHANGED <<about, trail>>

Resize(w) ==
    /\ about = "sidebar" /\ User
    /\ \E wide \in BOOLEAN :
         shown' = [shown EXCEPT ![w].wide = wide, ![w].sidebar = Sidebar(stored, wide)]
    /\ UNCHANGED <<about, stored, trail, writer>>

(* Fullscreen.toggle                                                         *)
ToggleFullscreen(w) ==
    /\ about = "fullscreen" /\ User
    /\ Write(w, [stored EXCEPT !.fullscreen = ~shown[w].fullscreen],
                [shown[w] EXCEPT !.fullscreen = ~@])
    /\ UNCHANGED <<about, trail>>

(* changeApiLevel, from the selector and from the button of the notice.      *)
changeApiLevel(w) ==
    /\ about = "level" /\ User
    /\ \E l \in Levels :
         /\ shown[w].notice => l = MinLevel[shown[w].path]
         /\ Write(w, [stored EXCEPT !.level = l],
                     [shown[w] EXCEPT !.level = l, !.absent = toggleVisisbleApis(l),
                                      !.notice = l < MinLevel[shown[w].path]])
    /\ UNCHANGED <<about, trail>>

(* changeLangPref: from the menu, or as the answer to the dialog, which      *)
(* offers the language of the address and the one that was preferred when    *)
(* the page was loaded.  The form it submits loads the page again, without   *)
(* a language in its address.                                                *)
changeLangPref(w) ==
    /\ about = "language" /\ User
    /\ \E lang \in Langs :
         LET store == [stored EXCEPT !.lang = lang]
         IN  /\ shown[w].dialog => lang \in {shown[w].target, shown[w].locale}
             /\ Write(w, store, Page(store, shown[w].path, lang, shown[w].wide))
    /\ UNCHANGED <<about, trail>>

SiteNext ==
    \E w \in Windows :
        \/ LoadPage(w) \/ addCurrectPage(w) \/ CloseToast(w) \/ ToggleSubNav(w)
        \/ ToggleSidebar(w) \/ Resize(w) \/ ToggleFullscreen(w)
        \/ changeApiLevel(w) \/ changeLangPref(w)

-----------------------------------------------------------------------------
Occurrences(path) == {i \in DOMAIN trail : trail[i] = path}

(* However the windows take turns, the store holds the pages visited last,   *)
(* as many as it can, each once, the latest at the end; and while no page    *)
(* ever had to leave it, the hits of a page are its visits.                  *)
VisitsAreRecent ==
    LET at(path) == CHOOSE i \in Occurrences(path) : \A j \in Occurrences(path) : j <= i
        paths == [i \in DOMAIN stored.visited |-> stored.visited[i].path]
    IN  /\ Len(paths) = IF Cardinality(ToSet(trail)) < PAGES_TO_STORE_
                        THEN Cardinality(ToSet(trail)) ELSE PAGES_TO_STORE_
        /\ \A i, j \in DOMAIN paths : i < j => at(paths[i]) < at(paths[j])
        /\ \A lost \in ToSet(trail) \ ToSet(paths) : \A i \in DOMAIN paths : at(lost) < at(paths[i])
        /\ \A i \in DOMAIN paths :
             LET visits == Cardinality(Occurrences(paths[i]))
             IN  /\ stored.visited[i].hit <= visits
                 /\ Cardinality(ToSet(trail)) <= PAGES_TO_STORE_ => stored.visited[i].hit = visits

(* A reload changes nothing in the window that wrote last: what is stored is *)
(* what it shows, whatever stale copies the windows had; only the part of    *)
(* the navigation its page belongs to may be open without being stored.      *)
ReloadRestores ==
    \A w \in Windows :
        writer = w =>
          LET s == shown[w]
          IN  /\ about = "navigation" =>
                   /\ IsInjective(stored.expanded) /\ ToSet(stored.expanded) \subseteq s.open
                   /\ s.open \subseteq ToSet(stored.expanded) \union {Landing[s.path]}
              /\ about = "toasts" => s.toasts = Toasts \ stored.closed
              /\ about = "sidebar" /\ s.wide => s.sidebar = (stored.sidebar = "open")
              /\ s.fullscreen = stored.fullscreen
              /\ about = "level" => s.level = stored.level
              /\ s.locale = stored.lang

(* The elements greyed out are those above the level that is selected, and   *)
(* the notice that the class needs a newer level is there when it does.      *)
LevelHonest ==
    \A w \in Windows :
        /\ \A l \in Levels : (l \in shown[w].absent) = (l > shown[w].level)
        /\ shown[w].notice = (MinLevel[shown[w].path] \in shown[w].absent)
=============================================================================
