------------------------------ MODULE DocLists ------------------------------
(***************************************************************************)
(* Lists of resource cards on a documentation page                         *)
(* (templates-sdk/assets/js/docs.js): the flow widget with its pages of    *)
(* cards, the stacks that cards are dealt to, and the filter with its      *)
(* checkboxes, chips and counts.  A resource is a record of what the code  *)
(* compares; how a card is drawn is left out.                              *)
(***************************************************************************)
EXTENDS Naturals, Sequences, FiniteSets, SequencesExt

CONSTANTS
    MaxResults,  \* bound on the number of resources of a flow widget
    Stacks,      \* number of stacks
    Heights,     \* heights of cards, in units of fifteen pixels
    MaxCards,    \* bound on the cards dealt
    Items,       \* checkboxes of the filter: records [kind, value, tab]
    Resources,   \* resources of the filter: records [type, category, tags]
    MaxFilters,  \* bound on the changes of the filter
    Technical,   \* ANDROID_RESOURCES: records [title, description, tags], of sets of words
    TagClass,    \* ANDROID_TAGS: the class of each tag
    TagParams,   \* values of the parameter "tag" of the address
    MaxTyped     \* bound on the keys typed into the keyword filter

ASSUME ListsAssumption ==
    /\ Stacks \in Nat \ {0} /\ MaxResults \in Nat /\ MaxCards \in Nat /\ MaxFilters \in Nat
    /\ Heights \subseteq Nat /\ IsFiniteSet(Heights) /\ Heights # {}
    /\ MaxTyped \in Nat /\ IsFiniteSet(Items)
    /\ "0" \notin DOMAIN TagClass /\ TagParams \subseteq Seq(STRING)
    /\ DOMAIN Technical = 1 .. Len(Technical) /\ Len(Technical) \in Nat
    /\ \A i \in DOMAIN Technical : \A words \in {"title", "description", "tags"} :
         IsFiniteSet(Technical[i][words])

VARIABLES
    flow,   \* the flow widget
    stack,  \* the stack widget
    filter, \* the filter
    browser \* the resource browser

listsVars == <<flow, stack, filter, browser>>

Least(a, b) == IF a < b THEN a ELSE b
-----------------------------------------------------------------------------
(* The flow widget.  `pages' are the pages drawn, each a sequence of stacks  *)
(* of the numbers of resources; `index' is currentIndex; an option that is   *)
(* not given is 0.  `sizes' are the cards of a stack, in turn, 1 for a card  *)
(* on its own (cardSizes).                                                   *)

FlowOf(n, initial, perPage, sizes) ==
    [n |-> n, initial |-> initial, perPage |-> perPage, sizes |-> sizes, index |-> 0, pages |-> <<>>,
     more |-> FALSE, less |-> FALSE, lessUsed |-> FALSE]

SizeOf(sizes, k) == sizes[((k - 1) % Len(sizes)) + 1]

(* A stack takes cards until it is full, and each page begins a new one.     *)
DealtTo(stacks, card, sizes) ==
    IF stacks # <<>> /\ Len(Last(stacks)) < SizeOf(sizes, Len(stacks))
    THEN [stacks EXCEPT ![Len(stacks)] = Append(@, card)] ELSE Append(stacks, <<card>>)

Dealt(cards, sizes) ==
    LET stacks[k \in 0 .. Len(cards)] == IF k = 0 THEN <<>> ELSE DealtTo(stacks[k-1], cards[k], sizes)
    IN  stacks[Len(cards)]

drawResourceFlowPage(f) ==
    LET first == f.index = 0
        initialResults == IF f.initial # 0 THEN f.initial
                          ELSE IF f.perPage # 0 THEN f.perPage ELSE f.n
        max == Least(f.n, IF first THEN initialResults ELSE f.index + f.perPage)
    IN  [f EXCEPT !.pages = Append(@, Dealt([k \in 1 .. max - f.index |-> f.index + k], f.sizes)),
                  !.index = max, !.more = max < f.n, !.less = ~first]

(* A slip: the next page begins after those that were removed.              *)
ResetKeepsIndex(f) ==
    [f EXCEPT !.pages = SubSeq(@, 1, 1), !.more = TRUE, !.less = FALSE, !.lessUsed = TRUE]

(* Without the option the index is not a number, and counts as zero later. *)
drawResourceFlowReset(f) ==
    [f EXCEPT !.pages = SubSeq(@, 1, 1), !.more = TRUE, !.less = FALSE, !.lessUsed = TRUE,
              !.index = IF f.initial = 0 THEN 0 ELSE Least(f.initial, f.n)]

(* drawResourcesFlowWidget draws the first page; a widget without pages     *)
(* shows all its resources.                                                 *)
FlowInit ==
    \E n \in 0 .. MaxResults, initial \in 0 .. 3, perPage \in 0 .. 2, sizes \in {<<1>>, <<1, 3>>, <<2>>} :
        flow = drawResourceFlowPage(FlowOf(n, initial, perPage, sizes))

FlowRest == flow = drawResourceFlowPage(FlowOf(1, 0, 0, <<1>>))

FlowMore == /\ flow.perPage # 0 /\ flow.more /\ Len(flow.pages) <= MaxResults
            /\ flow' = drawResourceFlowPage(flow)

FlowLess == flow.perPage # 0 /\ flow.less /\ flow' = drawResourceFlowReset(flow)

FlowNext == FlowMore \/ FlowLess
-----------------------------------------------------------------------------
(* The stack widget: each card goes to the stack that is the shortest, but  *)
(* one further right is preferred only when it is shorter by more than 45   *)
(* pixels, three units.                                                     *)

Margin == 3

StackInit == stack = [height |-> [j \in 1 .. Stacks |-> 0], cards |-> 0]

Shortest ==
    LET min[j \in 1 .. Stacks] ==
          IF j = 1 THEN 1
          ELSE IF stack.height[j] + Margin < stack.height[min[j-1]] THEN j ELSE min[j-1]
    IN  min[Stacks]

StackNext ==
    /\ stack.cards < MaxCards
    /\ \E h \in Heights :
           stack' = [height |-> [stack.height EXCEPT ![Shortest] = @ + h], cards |-> stack.cards + 1]
-----------------------------------------------------------------------------
(* The filter.  `chips' in the order shown; `count' is the number shown on  *)
(* a tab; `drawn' the resources in the container.                           *)

FilterTabs == {i.tab : i \in Items}

(* activateInitialFilters_: the values the query names are checked, and     *)
(* all that the query returns is drawn.                                     *)
FilterOf(checked) ==
    [checked |-> checked, chips |-> SetToSeq(checked), drawn |-> Resources, changes |-> 0,
     count |-> [t \in FilterTabs |-> Cardinality({i \in checked : i.tab = t})]]

FilterInit == \E checked \in SUBSET Items : filter = FilterOf(checked)
FilterRest == filter = FilterOf({})

Values(checked, kind) == {i.value : i \in {j \in checked : j.kind = kind}}

(* getActiveClauses and filteredResources *)
Filtered(checked) ==
    {r \in Resources :
        /\ r.type \in Values(checked, "type")
        /\ Values(checked, "category") # {} => r.category \in Values(checked, "category")
        /\ Values(checked, "tag") \subseteq r.tags}

(* changeStateForCheckbox, for the checkbox and for the cross of its chip.  *)
FilterCheck(i) ==
    /\ i \notin filter.checked
    /\ filter' = [filter EXCEPT !.checked = @ \union {i}, !.chips = Append(@, i),
                    !.count[i.tab] = @ + 1, !.drawn = Filtered(filter.checked \union {i}),
                    !.changes = @ + 1]

FilterUncheck(i) ==
    /\ i \in filter.checked
    /\ filter' = [filter EXCEPT !.checked = @ \ {i},
                    !.chips = RemoveAt(@, CHOOSE k \in DOMAIN @ : filter.chips[k] = i),
                    !.count[i.tab] = @ - 1, !.drawn = Filtered(filter.checked \ {i}),
                    !.changes = @ + 1]

FilterNext ==
    /\ filter.changes < MaxFilters
    /\ \E i \in Items : FilterCheck(i) \/ FilterUncheck(i)
-----------------------------------------------------------------------------
(* The resource browser of templates-pdk: the resources tagged as the        *)
(* address asks, of which those are hidden that lack a keyword that is       *)
(* typed.  `results' are loadedResults, `hidden' of them, by number.         *)

(* parseParams and makeArray: the values "0" and "1" become numbers, and a   *)
(* zero that is the first value is dropped.                                  *)
Numbers == {"0", "1"}
parseParams(tags) == IF tags # <<>> /\ Head(tags) = "0" THEN Tail(tags) ELSE tags

(* Tags that the site does not know are ignored.                             *)
searchTags(tags) == ToSet(tags) \intersect DOMAIN TagClass

Tagged(tags) ==
    LET results[i \in 0 .. Len(Technical)] ==
          IF i = 0 THEN <<>>
          ELSE IF searchTags(tags) \subseteq Technical[i].tags THEN Append(results[i-1], i)
          ELSE results[i-1]
    IN  results[Len(Technical)]

(* loadResources: the topics of a resource are its tags of that class, and   *)
(* every keyword is looked for in the title, the description and the topics. *)
Topics(i) == {tag \in Technical[i].tags \intersect DOMAIN TagClass : TagClass[tag] = "topic"}

resultMatchesKeyword(i, keyword) ==
    \/ keyword = ""
    \/ keyword \in Technical[i].title \/ keyword \in Technical[i].description
    \/ keyword \in Topics(i)

(* A number has no toLowerCase: the page stays empty and does not listen.    *)
BrowserOf(tags) ==
    LET alive == ToSet(parseParams(tags)) \intersect Numbers = {}
    IN  [tags |-> tags, alive |-> alive, hidden |-> {}, typed |-> 0, keywords |-> {},
         results |-> IF alive THEN Tagged(parseParams(tags)) ELSE <<>>]

BrowserInit == \E tags \in TagParams : browser = BrowserOf(tags)
BrowserRest == browser = BrowserOf(<<>>)

Typeable == {""} \union UNION {Technical[i].title \union Technical[i].description : i \in DOMAIN Technical}
                \union DOMAIN TagClass

BrowserNext ==
    /\ browser.alive /\ browser.typed < MaxTyped
    /\ \E one, two \in Typeable :
         browser' = [browser EXCEPT !.typed = @ + 1, !.keywords = {one, two},
                       !.hidden = {i \in ToSet(browser.results) :
                           ~resultMatchesKeyword(i, one) \/ ~resultMatchesKeyword(i, two)}]
-----------------------------------------------------------------------------
(* The resource browser shows in order what has all tags of the address that *)
(* the site knows, and of that what has each of the words typed last, however *)
(* often they were changed, in its text or as a topic; an address with a     *)
(* number for a tag shows nothing.                                           *)
BrowserAgrees ==
    LET asked == {t \in DOMAIN TagClass : \E k \in DOMAIN browser.tags : browser.tags[k] = t}
        has(i, word) == \/ word \in Technical[i].title \union Technical[i].description \union {""}
                        \/ word \in Technical[i].tags \intersect DOMAIN TagClass /\ TagClass[word] = "topic"
    IN  /\ \A k, l \in DOMAIN browser.results : k < l => browser.results[k] < browser.results[l]
        /\ browser.alive =>
             \A i \in DOMAIN Technical :
                 i \in ToSet(browser.results) \ browser.hidden <=>
                     /\ asked \subseteq Technical[i].tags
                     /\ \A word \in browser.keywords : has(i, word)

(* A flow widget shows each resource at most once and in order, whatever    *)
(* sequence of "More" and "Less": its pages together are a prefix of the    *)
(* results, "More" is offered exactly when some are left and "Less" exactly *)
(* when there is a second page; every stack of a page but its last is full.  *)
(* The exception is a widget with pages but   *)
(* without the option initialResults, once "Less" has been used.            *)
FlowIsPrefix ==
    ~(flow.initial = 0 /\ flow.lessUsed) =>
        LET shown == FlattenSeq(FlattenSeq(flow.pages))
        IN  /\ \A p \in DOMAIN flow.pages : \A k \in 1 .. Len(flow.pages[p]) - 1 :
                 Len(flow.pages[p][k]) = SizeOf(flow.sizes, k)
            /\ shown = [k \in 1 .. flow.index |-> k]
            /\ flow.perPage # 0 => flow.more = (Len(shown) < flow.n)
            /\ flow.less = (Len(flow.pages) > 1)

(* However the heights of the cards come, two stacks differ by no more than *)
(* one card and the margin that keeps cards to the left.                    *)
StacksBalanced ==
    \A i, j \in 1 .. Stacks :
        \E h \in Heights : stack.height[i] - stack.height[j] <= h + Margin

(* The filter's four views of one choice agree after any changes, made with *)
(* checkboxes or with the chips: a chip for each checked item and no other, *)
(* the counts on the tabs, and the resources drawn: of a checked type, of a *)
(* checked category if there is one, and with every checked tag.            *)
FilterAgrees ==
    /\ ToSet(filter.chips) = filter.checked /\ Len(filter.chips) = Cardinality(filter.checked)
    /\ \A t \in FilterTabs : filter.count[t] = Cardinality({i \in filter.checked : i.tab = t})
    /\ filter.changes > 0 =>
         \A r \in Resources : r \in filter.drawn <=>
           /\ \E i \in filter.checked : i.kind = "type" /\ i.value = r.type
           /\ \A i \in filter.checked :
                i.kind = "tag" => i.value \in r.tags
           /\ (\E i \in filter.checked : i.kind = "category") =>
                \E i \in filter.checked : i.kind = "category" /\ i.value = r.category
=============================================================================
