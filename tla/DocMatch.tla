------------------------------ MODULE DocMatch ------------------------------
(***************************************************************************)
(* The pages of the site that match a search: which ones match by their    *)
(* keywords or their title, which other page stands in for a match, and    *)
(* how they are ranked.  Two generations of the templates are modelled:    *)
(* findResourceMatches and rankAutocompleteDocResults of templates-sdk,    *)
(* and the loops of search_changed and rank_autocomplete_doc_results of    *)
(* templates-ndk.  A page is a number; whether the query matches a title   *)
(* or a keyword (a regular expression in the code) is chosen.              *)
(***************************************************************************)
EXTENDS Integers, Sequences, FiniteSets, SequencesExt, FiniteSetsExt

CONSTANTS
    Guides,       \* number of pages; a page is a number from 1 up
    Keywords,     \* number of keywords of a page
    Lessons,      \* pages of type training that are not an index.html
    TutorialOf,   \* the index page of the tutorial of a lesson
    Localized,    \* METADATA.byUrl of a page's base url
    LangOf,       \* the language of a page
    Counts,       \* numbers of matches of each kind that a search may have
    MaxSearches   \* bound on the searches and the clicks on "More" and "Less"

Documents == 1 .. Guides

ASSUME MatchAssumption ==
    /\ Guides \in Nat \ {0} /\ Keywords \in Nat \ {0} /\ Lessons \subseteq Documents
    /\ TutorialOf \in [Lessons -> Documents \ Lessons]
    /\ Localized \in [Documents -> Documents]
    /\ \A d \in Documents : Localized[Localized[d]] = Localized[d]
    /\ Counts \subseteq Nat /\ MaxSearches \in Nat

VARIABLES
    matching,  \* a search: what the query matches, and the list that is found
    card       \* what the overlay shows of the matches in the reference

matchVars == <<matching, card>>

(* `keys' are the keywords that match and `titles' the pages whose title     *)
(* does; `tag' and `title' are the fields matched_tag and matched_title.     *)
MatchOf(version, lang, first, titles) ==
    [version |-> version, lang |-> lang, first |-> first, titles |-> titles,
     tag |-> [d \in Documents |-> 0], title |-> [d \in Documents |-> FALSE],
     list |-> <<>>, done |-> FALSE]

(* A query can match several keywords of a page; the loop that works its way *)
(* back to the first one leaves the position of the first that matches, so   *)
(* that only this one is chosen here.                                        *)
MatchInit ==
    \E version \in {"sdk", "ndk"}, lang \in {LangOf[d] : d \in Documents},
       first \in [Documents -> 0 .. Keywords], titles \in SUBSET Documents :
        matching = MatchOf(version, lang, first, titles)

MatchRest == matching = MatchOf("sdk", LangOf[1], [d \in Documents |-> 0], {})

(* templates-ndk looks at the titles of pages in the language of the reader  *)
(* only, and at that of a lesson only when a keyword matches already.        *)
TitleCounts(m, d) ==
    m.version = "ndk" => LangOf[d] = m.lang /\ (d \in Lessons => m.first[d] > 0)

matched_title(m, d) == d \in m.titles /\ TitleCounts(m, d)

Matching(m) == SelectSeq([d \in Documents |-> d], LAMBDA d : m.first[d] > 0 \/ matched_title(m, d))

(* lookupBetterResult: the index page of the tutorial stands in for a        *)
(* lesson, and takes over the larger of the two positions; the page found    *)
(* under the base url stands in for either.                                  *)
lookupTutorialIndex(d) == IF d \in Lessons THEN TutorialOf[d] ELSE d
Better(d) == Localized[lookupTutorialIndex(d)]

Pupils(m, d) == {e \in ToSet(Matching(m)) \intersect Lessons : TutorialOf[e] = d}

lookupReplacementByUrl(m) ==
    [m EXCEPT !.tag = [d \in Documents |-> Max({m.first[d]} \union {m.first[e] : e \in Pupils(m, d)})],
              !.title = [d \in Documents |-> \/ matched_title(m, d)
                                             \/ \E e \in Pupils(m, d) : matched_title(m, e)]]

(* Of what comes twice toUnique leaves the last.                             *)
LastOnes(list) ==
    LET kept == {i \in DOMAIN list : \A j \in i + 1 .. Len(list) : list[j] # list[i]}
    IN  [k \in 1 .. Cardinality(kept) |-> list[SetToSortSeq(kept, <)[k]]]

lookupBetterResult(list) ==
    LET replaced == SelectSeq(list, LAMBDA d : Better(d) # d)
    IN  LastOnes([i \in DOMAIN replaced |-> Better(replaced[i])]
                     \o SelectSeq(list, LAMBDA d : Better(d) = d))

(* The score, 60 times as large.                                             *)
docScore(m, d) ==
    LET byTagOrTitle == IF m.tag[d] > 0 THEN (180 \div m.tag[d]) * (IF m.title[d] THEN 2 ELSE 1)
                        ELSE IF m.title[d] THEN 180 ELSE 60
    IN  byTagOrTitle * (IF m.version = "sdk" /\ LangOf[d] = m.lang THEN 5 ELSE 1)

(* Equal scores: by title in templates-sdk; in templates-ndk by a label that *)
(* pages do not have, and so in any order.                                   *)
Ranked(m, ranked) ==
    \A i, j \in DOMAIN ranked : i < j =>
        \/ docScore(m, ranked[i]) > docScore(m, ranked[j])
        \/ /\ docScore(m, ranked[i]) = docScore(m, ranked[j])
           /\ m.version = "sdk" => ranked[i] <= ranked[j]

Rankings(m, list) ==
    LET reordered == {[k \in DOMAIN list |-> list[order[k]]] : order \in SetToSeqs(DOMAIN list)}
    IN  {ranked \in reordered : Ranked(m, ranked)}

findResourceMatches ==
    /\ ~matching.done
    /\ LET found == [matching EXCEPT !.done = TRUE, !.tag = matching.first,
                       !.title = [d \in Documents |-> matched_title(matching, d)]]
           m     == IF matching.version = "sdk"
                    THEN [lookupReplacementByUrl(matching) EXCEPT !.done = TRUE] ELSE found
           list  == IF matching.version = "sdk" THEN lookupBetterResult(Matching(matching))
                    ELSE Matching(matching)
       IN  \E ranked \in Rankings(m, list) : matching' = [m EXCEPT !.list = ranked]
-----------------------------------------------------------------------------
(* The card with the matches in the reference (dacSearchRenderReferences),   *)
(* and beside it the flow of matching pages, of which six are shown at first *)
(* and eighteen with every "More".  The two share the links "More" and       *)
(* "Less"; the card has a link "see more matches" of its own.                *)
ROW_COUNT_COLLAPSED == 20
ROW_COUNT_EXPANDED == 40
ROW_COUNT_GOOGLE_COLLAPSED == 1
ROW_COUNT_GOOGLE_EXPANDED == 8
initialResults == 6
itemsPerPage == 18

RowsFor(expanded) == IF expanded THEN ROW_COUNT_EXPANDED ELSE ROW_COUNT_COLLAPSED

(* How many of the matches are drawn; the header of the second kind takes a  *)
(* row, and so does the line that says there are none of the first.          *)
Drawn(c, expanded) ==
    LET total        == RowsFor(expanded)
        atLeast      == IF expanded THEN ROW_COUNT_GOOGLE_EXPANDED ELSE ROW_COUNT_GOOGLE_COLLAPSED
        google       == Min({Max({atLeast, total - c.android}), c.docs})
        withHeader   == IF google > 0 THEN google + 1 ELSE 0
        androidCount == Max({0, total - withHeader})
        googleCount  == IF androidCount = 0 THEN withHeader - 1 ELSE withHeader
    IN  [android |-> Min({androidCount, c.android}), docs |-> IF googleCount = 0 THEN 0 ELSE googleCount - 1]

HasMore(c) == c.android + c.docs > ROW_COUNT_COLLAPSED /\ ~c.mobile

renderReferences(c, expanded) ==
    [c EXCEPT !.expanded = expanded, !.drawn = Drawn(c, expanded),
              !.more = @ \/ (HasMore(c) /\ ~expanded), !.less = @ \/ (HasMore(c) /\ expanded)]

CardOf(android, docs, pages, mobile, searches) ==
    renderReferences([android |-> android, docs |-> docs, pages |-> pages, mobile |-> mobile,
                   index |-> Min({pages, initialResults}), expanded |-> FALSE,
                   drawn |-> [android |-> 0, docs |-> 0],
                   more |-> Min({pages, initialResults}) < pages, less |-> FALSE,
                   searches |-> searches], FALSE)

CardInit == \E mobile \in BOOLEAN : card = CardOf(0, 0, 0, mobile, 0)
CardRest == card = CardOf(0, 0, 0, FALSE, 0)

CardSearch ==
    \E android, docs, pages \in Counts :
        card' = CardOf(android, docs, pages, card.mobile, card.searches + 1)

(* onToggleMore does nothing on a small screen. *)
onToggleMore(c, expanded) == IF c.mobile THEN c ELSE renderReferences(c, expanded)

SeeMore == HasMore(card) /\ card' = [onToggleMore(card, TRUE) EXCEPT !.searches = @ + 1]

CardMore ==
    /\ card.more
    /\ LET index == Min({card.pages, card.index + itemsPerPage})
       IN  card' = onToggleMore([card EXCEPT !.index = index, !.more = index < card.pages, !.less = TRUE,
                                             !.searches = @ + 1], TRUE)

CardLess ==
    /\ card.less
    /\ card' = onToggleMore([card EXCEPT !.index = Min({card.pages, initialResults}), !.more = TRUE,
                                         !.less = FALSE, !.searches = @ + 1], FALSE)

CardNext == card.searches < MaxSearches /\ (CardSearch \/ SeeMore \/ CardMore \/ CardLess)
-----------------------------------------------------------------------------
(* The card keeps to its rows, but for one when there is nothing of the      *)
(* first kind; with matches of the first kind all are drawn when they fit,   *)
(* and while it has fewer matches than there are rows no more of that kind   *)
(* are left out for the sake of the other than are kept for the other; "see  *)
(* more" hides nothing that was shown.  What can be had is offered: "More"   *)
(* while pages or rows are left, and "Less" after it.                        *)
CardHonest ==
    LET drawn == card.drawn
        rows  == drawn.android + drawn.docs + (IF drawn.docs > 0 THEN 1 ELSE 0)
                     + (IF drawn.android = 0 THEN 1 ELSE 0)
    IN  /\ rows <= RowsFor(card.expanded) + (IF card.android = 0 THEN 1 ELSE 0)
        /\ card.android > 0 /\ card.android + card.docs < RowsFor(card.expanded) =>
             drawn = [android |-> card.android, docs |-> card.docs]
        /\ card.android < RowsFor(card.expanded) =>
             card.android - drawn.android <= IF card.expanded THEN ROW_COUNT_GOOGLE_EXPANDED
                                             ELSE ROW_COUNT_GOOGLE_COLLAPSED
        /\ card.expanded => /\ Drawn(card, FALSE).android <= drawn.android
                            /\ Drawn(card, FALSE).docs <= drawn.docs
        /\ card.index < card.pages \/ (HasMore(card) /\ ~card.expanded) => card.more
        /\ card.index > initialResults \/ card.expanded => card.less

(* Nothing that matches is lost and nothing else is found, each page once:   *)
(* a match is in the list, or the page that stands in for it is, which in    *)
(* turn is in the language that the site has it in.                          *)
Speaks(d) == IF matching.version = "sdk" THEN Better(d) ELSE d

MatchesKept ==
    matching.done =>
        /\ IsInjective(matching.list)
        /\ ToSet(matching.list) = {Speaks(d) : d \in ToSet(Matching(matching))}

(* A page that matches better than another of its language is ranked above   *)
(* it, for the pages that stand in for nobody: its keyword comes earlier, or *)
(* it has the word in its title and the other has not, and is not behind in  *)
(* the other respect.  Against a page with the word in its title only, the   *)
(* keyword has to be the first: as the second it leaves the two equal, and   *)
(* as the third it ranks the page below.                                     *)
Alone(d) == {e \in ToSet(Matching(matching)) : Speaks(e) = d} \subseteq {d}
MatchesBetter(d, e) ==
    LET p(x) == matching.first[x]
        t(x) == matched_title(matching, x)
    IN  /\ LangOf[d] = LangOf[e] /\ Alone(d) /\ Alone(e)
        /\ t(e) => t(d)
        /\ IF p(e) = 0 THEN p(d) = 1 ELSE p(d) \in 1 .. p(e)
        /\ p(d) # p(e) \/ t(d) # t(e)

BetterFirst ==
    matching.done =>
        \A i, j \in DOMAIN matching.list :
            MatchesBetter(matching.list[i], matching.list[j]) => i < j
=============================================================================
