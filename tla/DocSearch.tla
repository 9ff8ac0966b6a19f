----------------------------- MODULE DocSearch -----------------------------
(***************************************************************************)
(* The search box of the documentation site                                *)
(* (templates-sdk/assets/js/docs.js): SearchInput, Search, the custom      *)
(* search with its pages, the store of recent searches, and the modal      *)
(* windows, which share a class of the body with the search overlay.       *)
(*                                                                         *)
(* Time passes between a keystroke and its request (one second), between a *)
(* request and its answer, and between a change of the address and the     *)
(* events it causes; whatever else the user does may come in between.  The *)
(* matches found in the metadata, which are shown at once, are left out.   *)
(***************************************************************************)
EXTENDS Naturals, Sequences, SequencesExt

CONSTANTS
    SearchTexts,  \* what the search field may hold
    Blank,        \* the empty field
    Short,        \* the queries of fewer than two characters
    NoQuery,      \* no query: lastQuery at first, an address without q=
    Pages,        \* pages of results that the service has for a query
    MaxStore,     \* size of the store of recent searches
    ResultLinks,  \* links in the results that arrow keys reach
    MaxUses       \* bound on what the user does

ASSUME SearchAssumption ==
    /\ Blank \in Short /\ Short \subseteq SearchTexts /\ NoQuery \notin SearchTexts
    /\ Pages \in Nat \ {0} /\ MaxStore \in Nat \ {0} /\ ResultLinks \in Nat /\ MaxUses \in Nat

VARIABLES
    field,    \* what the search field holds
    last,     \* lastQuery
    isOpen,   \* Search.isOpen
    classes,  \* classes of the body
    icon,     \* the icon has its active class, and timers that will set it
    modal,    \* a modal window is open
    timer,    \* the query that waits for the debounce timer, or NoQuery
    flight,   \* requests without an answer, oldest first
    results,  \* the custom search results: loading mark, pages, buttons
    trouble,  \* whether an answer overtook another one, or a request failed
    recent,   \* the recent searches, last one first
    selected, \* the link the arrow keys have selected, or 0
    history,  \* the addresses of the session, and the current one
    events,   \* events of the address that are still to be delivered
    uses

searchVars == <<field, last, isOpen, classes, icon, modal, timer, flight, results,
                trouble, recent, selected, history, events, uses>>

MODAL  == "dac-modal-open"
SEARCH == "dac-search-open"
MODE   == "dac-search-mode"

Address(h) == h.list[h.at]

SearchInit ==
    /\ field = Blank /\ last = NoQuery /\ isOpen = FALSE /\ classes = {}
    /\ icon = [active |-> FALSE, timers |-> 0] /\ modal = FALSE
    /\ timer = NoQuery /\ flight = <<>>
    /\ results = [loading |-> FALSE, pages |-> <<>>, buttons |-> {}, made |-> 0]
    /\ trouble = [overtaken |-> FALSE, failed |-> FALSE]
    /\ recent = <<>> /\ selected = 0
    /\ history = [list |-> <<NoQuery>>, at |-> 1] /\ events = <<>> /\ uses = 0
-----------------------------------------------------------------------------
(* The address: replaceState, pushState and an assignment to the hash, which *)
(* is the only one of them to cause events, and only when it is a change.    *)

replaceState(h, q) == [h EXCEPT !.list[h.at] = q]
pushEntry(h, q) == [list |-> Append(SubSeq(h.list, 1, h.at), q), at |-> h.at + 1]
\* A slip: a query that is there already stays.
addFirstQueryToUrl(h, q) == IF q = Blank \/ Address(h) # NoQuery THEN h ELSE replaceState(h, q)
addQueryToUrl(h, q) == IF q = Blank THEN h ELSE replaceState(h, q)
removeQueryFromUrl(h) == IF Address(h) = NoQuery THEN h ELSE pushEntry(h, NoQuery)
Events(h) == IF Address(h) = NoQuery THEN <<>> ELSE <<"pop", "hash">>

(* render: what it does with the query q when it is not the last one.  The   *)
(* comparison is made with the whole query, before short ones are dropped.   *)
Kept(q) == IF q \in Short THEN Blank ELSE q

RenderHistory(h, q) ==
    IF last = q THEN h
    ELSE LET added == addQueryToUrl(h, Kept(q))
         IN  IF Kept(q) = Blank THEN pushEntry(added, Address(added)) ELSE added

(* A slip: nothing is started for the blank query.                           *)
renderUnlessBlank(q) ==
    IF last = q THEN UNCHANGED <<last, timer, results, selected>>
    ELSE /\ last' = Kept(q) /\ timer' = (IF Kept(q) = Blank THEN NoQuery ELSE Kept(q)) /\ selected' = 0
         /\ results' = [results EXCEPT !.loading = TRUE, !.pages = <<>>, !.buttons = {}]

(* The custom search starts when no other query comes for a second.          *)
render(q) ==
    IF last = q THEN UNCHANGED <<last, timer, results, selected>>
    ELSE /\ last' = Kept(q) /\ timer' = Kept(q) /\ selected' = 0
         /\ results' = [results EXCEPT !.loading = TRUE, !.pages = <<>>, !.buttons = {}]

showOverlay == isOpen' = TRUE /\ classes' = classes \union {MODAL, SEARCH}

ReaderActs == uses < MaxUses /\ uses' = uses + 1

(* Focus: SearchInput.setActiveState, then onSearchChanged.                  *)
Focus ==
    /\ ReaderActs
    /\ isOpen' = TRUE /\ classes' = classes \union {MODAL, SEARCH, MODE}
    /\ icon' = [icon EXCEPT !.timers = @ + 1]
    /\ render(field) /\ history' = RenderHistory(history, field)
    /\ UNCHANGED <<field, modal, flight, trouble, recent, events>>

(* A keystroke in the field.                                                 *)
Type ==
    /\ ReaderActs
    /\ \E q \in SearchTexts \ {field} :
         /\ field' = q /\ showOverlay /\ render(q) /\ history' = RenderHistory(history, q)
    /\ UNCHANGED <<icon, modal, flight, trouble, recent, events>>

IconTick ==
    /\ icon.timers > 0
    /\ icon' = [active |-> TRUE, timers |-> icon.timers - 1]
    /\ UNCHANGED <<field, last, isOpen, classes, modal, timer, flight, results, trouble,
                   recent, selected, history, events, uses>>

(* clear: clearInput, the address without its query, onSearchChanged and     *)
(* the focus, which the click has taken from the field.                      *)
clear ==
    /\ ReaderActs /\ field # Blank
    /\ field' = Blank
    /\ isOpen' = TRUE /\ classes' = classes \union {MODAL, SEARCH, MODE}
    /\ icon' = [icon EXCEPT !.timers = @ + 1]
    /\ render(Blank) /\ history' = RenderHistory(removeQueryFromUrl(history), Blank)
    /\ events' = events \o Events(history)
    /\ UNCHANGED <<modal, flight, trouble, recent>>

(* A slip: the class it shares with the modal windows stays.                 *)
closeOverlayOnly ==
    /\ ReaderActs
    /\ history' = removeQueryFromUrl(history) /\ events' = events \o Events(history)
    /\ isOpen' = FALSE /\ classes' = classes \ {SEARCH, MODE}
    /\ icon' = [icon EXCEPT !.active = FALSE]
    /\ UNCHANGED <<field, last, modal, timer, flight, results, trouble, recent, selected>>

(* close: the click of the close button, the escape key, and the focus that  *)
(* moves to the navigation while the search is open.                         *)
close ==
    /\ ReaderActs
    /\ history' = removeQueryFromUrl(history) /\ events' = events \o Events(history)
    /\ isOpen' = FALSE /\ classes' = classes \ {MODAL, SEARCH, MODE}
    /\ icon' = [icon EXCEPT !.active = FALSE]
    /\ UNCHANGED <<field, last, modal, timer, flight, results, trouble, recent, selected>>

(* goToResult: up from the first link selects the last one, and down from    *)
(* the last one selects none.                                                *)
goToResult ==
    /\ ReaderActs /\ SEARCH \in classes /\ ResultLinks > 0
    /\ \/ selected' = IF selected = 0 THEN 1 ELSE (selected + 1) % (ResultLinks + 1)
       \/ selected' = IF selected = 1 THEN ResultLinks ELSE IF selected = 0 THEN 0 ELSE selected - 1
    /\ UNCHANGED <<field, last, isOpen, classes, icon, modal, timer, flight, results,
                   trouble, recent, history, events>>

(* Store.push                                                                *)
push(store, item) ==
    IF store # <<>> /\ store[1] = item THEN store
    ELSE LET longer == <<item>> \o store
         IN  SubSeq(longer, 1, IF Len(longer) > MaxStore THEN MaxStore ELSE Len(longer))

(* The enter key without a link selected; with one, the page is left.        *)
navigateToResult ==
    /\ ReaderActs /\ SEARCH \in classes /\ selected = 0
    /\ recent' = push(recent, field) /\ history' = addQueryToUrl(history, field)
    /\ UNCHANGED <<field, last, isOpen, classes, icon, modal, timer, flight, results,
                   trouble, selected, events>>
-----------------------------------------------------------------------------
(* The buttons of the browser, and the two handlers of the events.           *)

GoBackOrForward ==
    /\ ReaderActs
    /\ \E at \in {history.at - 1, history.at + 1} \intersect DOMAIN history.list :
         /\ history' = [history EXCEPT !.at = at]
         /\ events' = events \o (IF history.list[at] = Address(history) THEN <<"pop">>
                                 ELSE <<"pop", "hash">>)
    /\ UNCHANGED <<field, last, isOpen, classes, icon, modal, timer, flight, results,
                   trouble, recent, selected>>

onPopState ==
    /\ events # <<>> /\ Head(events) = "pop"
    /\ events' = Tail(events)
    /\ IF Address(history) = NoQuery
       THEN /\ classes' = classes \ {MODAL, SEARCH, MODE}
            /\ icon' = [icon EXCEPT !.active = FALSE]
       ELSE UNCHANGED <<classes, icon>>
    /\ UNCHANGED <<field, last, isOpen, modal, timer, flight, results, trouble, recent,
                   selected, history, uses>>

onHashChange ==
    /\ events # <<>> /\ Head(events) = "hash"
    /\ events' = Tail(events)
    /\ LET q == Address(history)
       IN  IF q = NoQuery \/ q = field
           THEN UNCHANGED <<field, isOpen, classes, last, timer, results, selected, history>>
           ELSE field' = q /\ showOverlay /\ render(q) /\ history' = RenderHistory(history, q)
    /\ UNCHANGED <<icon, modal, flight, trouble, recent, uses>>
-----------------------------------------------------------------------------
(* The custom search.  A request names its query and page, and the buttons   *)
(* it removes when it is answered; a button names the page it asks for.      *)

CustomSearch ==
    /\ timer # NoQuery
    /\ timer' = NoQuery
    /\ flight' = Append(flight, [query |-> timer, page |-> 1, removes |-> {}])
    /\ UNCHANGED <<field, last, isOpen, classes, icon, modal, results, trouble, recent,
                   selected, history, events, uses>>

loadMoreResults ==
    /\ ReaderActs
    /\ \E b \in results.buttons :
         flight' = Append(flight, [query |-> b.query, page |-> b.page,
                                   removes |-> {c.no : c \in results.buttons}])
    /\ UNCHANGED <<field, last, isOpen, classes, icon, modal, timer, results, trouble,
                   recent, selected, history, events>>

(* renderResults appends to the container; the blank query has no results.   *)
renderResults(r, request) ==
    [r EXCEPT !.pages = Append(@, [query |-> request.query, page |-> request.page]),
              !.made = @ + 1,
              !.buttons = IF request.query = Blank \/ request.page = Pages THEN @
                          ELSE @ \union {[query |-> request.query, page |-> request.page + 1,
                                          no |-> r.made]}]

(* A slip: the container is not emptied.                                     *)
renderOnTop(r, request) ==
    renderResults(IF request.page = 1 THEN [r EXCEPT !.loading = FALSE]
                  ELSE [r EXCEPT !.buttons = {b \in @ : b.no \notin request.removes}], request)

(* The answer to a first page empties the container, whatever is in it.      *)
renderAnswer(r, request) ==
    renderResults(IF request.page = 1
                  THEN [r EXCEPT !.loading = FALSE, !.pages = <<>>, !.buttons = {}]
                  ELSE [r EXCEPT !.buttons = {b \in @ : b.no \notin request.removes}], request)

Answer ==
    \E i \in DOMAIN flight :
        /\ flight' = RemoveAt(flight, i)
        /\ results' = renderAnswer(results, flight[i])
        /\ trouble' = [trouble EXCEPT !.overtaken =
                         @ \/ (flight[i].page = 1 /\ \E j \in 1 .. i - 1 : flight[j].page = 1)]
        /\ UNCHANGED <<field, last, isOpen, classes, icon, modal, timer, recent, selected,
                       history, events, uses>>

(* There is no handler for a request that fails.                             *)
Fail ==
    \E i \in DOMAIN flight :
        /\ flight' = RemoveAt(flight, i)
        /\ trouble' = [trouble EXCEPT !.failed = TRUE]
        /\ UNCHANGED <<field, last, isOpen, classes, icon, modal, timer, results, recent,
                       selected, history, events, uses>>
-----------------------------------------------------------------------------
(* Modal.open_ and close_                                                    *)

ModalToggle ==
    /\ ReaderActs
    /\ modal' = ~modal
    /\ classes' = IF modal THEN classes \ {MODAL} ELSE classes \union {MODAL}
    /\ UNCHANGED <<field, last, isOpen, icon, timer, flight, results, trouble, recent,
                   selected, history, events>>

SearchNext ==
    \/ Focus \/ Type \/ IconTick \/ clear \/ close \/ goToResult \/ navigateToResult
    \/ GoBackOrForward \/ onPopState \/ onHashChange
    \/ CustomSearch \/ loadMoreResults \/ Answer \/ Fail \/ ModalToggle

(* Timers fire, events are delivered and requests are answered or fail.      *)
Network == Answer \/ Fail
SearchSpec ==
    /\ SearchInit /\ [][SearchNext]_searchVars
    /\ WF_searchVars(CustomSearch) /\ WF_searchVars(Network)
    /\ WF_searchVars(onPopState \/ onHashChange)
-----------------------------------------------------------------------------
(* The page behind is never left locked: the class that stops it from        *)
(* scrolling is there only under the search overlay or a modal window, and   *)
(* the header is in search mode only under the overlay, whatever the order   *)
(* of clicks, history events and windows.                                    *)
PageNotLocked ==
    /\ MODAL \in classes => SEARCH \in classes \/ modal
    /\ MODE \in classes => SEARCH \in classes

(* The address never offers another query than the one that was searched:    *)
(* once the events of the address have been delivered, it names no query or  *)
(* the last one, unless that was too short to be searched.                   *)
AddressIsQuery ==
    events = <<>> /\ last \notin {Blank, NoQuery} => Address(history) \in {NoQuery, last}

(* At rest the first page of results is that of the query on display, and it *)
(* is the only first page, provided no answer overtook an older one and none *)
(* failed; a page that was asked for with "Load more" follows.               *)
QuietIsCurrent ==
    /\ timer # NoQuery => timer = last
    /\ ~results.loading => \A i \in DOMAIN results.pages : (results.pages[i].page = 1) = (i = 1)
    /\ timer = NoQuery /\ flight = <<>> /\ trouble = [overtaken |-> FALSE, failed |-> FALSE]
       /\ last # NoQuery =>
         ~results.loading /\ results.pages[1] = [query |-> last, page |-> 1]

(* The mark "Loading Results..." goes away, unless a request failed.         *)
LoadingEnds == results.loading ~> (~results.loading \/ trouble.failed)

(* "so user's aren't looking at two different sets of search results at one  *)
(* time": no page of results is of another query than the one on display.    *)
OneQueryShown ==
    \A i \in DOMAIN results.pages : results.pages[i].query = last
=============================================================================
