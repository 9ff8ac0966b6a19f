----------------------------- MODULE DocQuery ------------------------------
(***************************************************************************)
(* What the pages of templates-sdk look up in the metadata of the site     *)
(* (templates-sdk/assets/js/docs.js): the lists of resources that a page   *)
(* asks for with a query, of which the later ones leave out what the       *)
(* earlier ones show (metadata.query), and the matches of a search, from   *)
(* which duplicates are removed in place and which are ranked by the place *)
(* of the match (metadata.search).  A query is a sequence of expressions,    *)
(* and an expression a sequence of clauses; what is written in the page is a *)
(* text, of which the parts below are its commas, signs, colons, blanks and  *)
(* words.                                                                    *)
(***************************************************************************)
EXTENDS Integers, Sequences, FiniteSets, SequencesExt

CONSTANTS
    All,           \* METADATA.all: type, tags, language and baseUrl of every resource
    Collections,   \* METADATA.collections: a sequence of urls for each name
    SiteMap,       \* the same of the sections of the older site (SITE_MAP)
    Visits,        \* lists of visited pages: their url and hit, the last visited last
    Queries,       \* what pages ask for
    Limits,        \* values of maxResults
    MaxLists,      \* bound on the lists of a page
    Copies,        \* lists with duplicates, for toUnique
    Alphabet,      \* characters of labels, "." among them
    Words,         \* what is searched for: sequences of other characters
    MaxLabel       \* bound on the length of a label

ASSUME QueryAssumption ==
    /\ \A i \in DOMAIN All : /\ DOMAIN All[i] = {"type", "tags", "lang", "baseUrl"}
                             /\ IsFiniteSet(All[i].tags)
    /\ \A q \in Queries : q # <<>> /\ \A i \in DOMAIN q : q[i] # <<>>
    /\ Visits # {}
    /\ Limits \subseteq Nat /\ MaxLists \in Nat /\ MaxLabel \in Nat
    /\ "." \in Alphabet
    /\ Words # {} /\ Words \subseteq Seq(Alphabet \ {"."}) \ {<<>>}
    /\ \A s \in Copies : s \in Seq(ToSet(s))

VARIABLES
    query,  \* the lists of a page
    uniq,   \* a run of toUnique
    rank,   \* a label and its score
    parse   \* a text that is parsed

queryVars == <<query, uniq, rank, parse>>

Indices == DOMAIN All

(* createIndices: of two resources with one url (the English page and its   *)
(* translation) the later one is found.                                     *)
Urls == {All[r].baseUrl : r \in Indices}
byUrl(url) == CHOOSE r \in Indices :
                 /\ All[r].baseUrl = url
                 /\ \A s \in Indices : All[s].baseUrl = url => s <= r
Canonical(r) == byUrl(All[r].baseUrl)

inOrder(set) == SetToSortSeq(set, <)

(* Attributes with a lookup of their own, and what a clause of one finds     *)
(* (hasType, hasTag); where nothing is found the lookup is undefined.        *)
Indexed == {"type", "tag"} \union (IF query.version = "ndk" THEN {"lang"} ELSE {})
Having(clause) ==
    {r \in Indices : CASE clause.attr = "type" -> All[r].type = clause.value
                       [] clause.attr = "tag"  -> clause.value \in All[r].tags
                       [] clause.attr = "lang" -> All[r].lang = clause.value}
Defined(clause) == clause.attr \in Indexed => Having(clause) # {}

(* Addresses that are no resource's are undefined and are filtered out.     *)
Listed(urls) ==
    LET known == SelectSeq(urls, LAMBDA u : u \in Urls)
    IN  [i \in DOMAIN known |-> byUrl(known[i])]

(* A page's history is read before the visit of the page itself is stored    *)
(* (DocSite).  Any order but "recent" is that of the hits; pages with as     *)
(* many are in any order among themselves.                                   *)
dacGetVisitedUrls(order) ==
    LET pages == IF order = "recent" THEN Reverse(query.visited) ELSE query.byHit
    IN  [i \in DOMAIN pages |-> pages[i].url]

SortedByHit(pages) ==
    {sorted \in {[i \in DOMAIN pages |-> pages[o[i]]] : o \in SetToSeqs(DOMAIN pages)} :
        \A i, j \in DOMAIN pages : i < j => sorted[i].hit >= sorted[j].hit}

(* In templates-sdk a section is looked up in the wrong place: it is empty.  *)
getResourcesForClause(clause) ==
    CASE clause.attr \in Indexed -> inOrder(Having(clause))
      [] clause.attr = "collection" /\ clause.value \in DOMAIN Collections ->
            Listed(Collections[clause.value])
      [] clause.attr = "history" /\ query.version = "sdk" -> Listed(dacGetVisitedUrls(clause.value))
      [] clause.attr = "section" /\ query.version = "ndk" -> Listed(SiteMap[clause.value])
      [] OTHER -> <<>>

(* The lookup that a later clause is judged by: its own, or the one of the   *)
(* clause before it when it has none, as `map' is not reset.                 *)
Map(clauses, i) ==
    LET indexed == {j \in 1 .. i : clauses[j].attr \in Indexed}
    IN  IF indexed = {} THEN {} ELSE Having(clauses[CHOOSE j \in indexed : \A k \in indexed : k <= j])

(* The first clause of the rest decides that is negative and holds, or that *)
(* does not hold, or that there is no lookup for; and what is negative is   *)
(* returned, which is true.                                                 *)
Decides(r, clauses, i) ==
    LET map == Map(clauses, i)
    IN  map = {} \/ (r \in map <=> clauses[i].negative)

(* A slip: one clause that holds is enough.                                  *)
matchesSomeClause(r, clauses) ==
    clauses = <<>> \/ \E i \in DOMAIN clauses : ~Decides(r, clauses, i)

doesResourceMatchClauses(r, clauses) ==
    LET deciding == {i \in DOMAIN clauses : Decides(r, clauses, i)}
    IN  deciding = {} \/ clauses[CHOOSE i \in deciding : \A j \in deciding : i <= j].negative

(* One expression: `used' is instanceMap.                                    *)
filterResources(acc, r, clauses, removeDuplicates) ==
    LET resource == Canonical(r)
        allowed  == /\ removeDuplicates => resource \notin acc.used
                    /\ doesResourceMatchClauses(resource, clauses)
    IN  IF allowed THEN [used |-> acc.used \union {resource}, results |-> Append(acc.results, resource)]
        ELSE acc

AddExpression(acc, clauses, removeDuplicates) ==
    FoldLeft(LAMBDA a, r : filterResources(a, r, Tail(clauses), removeDuplicates), acc,
             getResourcesForClause(Head(clauses)))

AllResults(expressions) ==
    LET from[n \in 0 .. Len(expressions)] ==
            IF n = 0 THEN [used |-> {}, results |-> <<>>]
            ELSE AddExpression(from[n - 1], expressions[n], n > 1)
    IN  from[Len(expressions)].results

Sliced(results, max) == SubSeq(results, 1, IF max < Len(results) THEN max ELSE Len(results))

removePageLevelDuplicates(results, pageMap) == SelectSeq(results, LAMBDA r : r \notin pageMap)
-----------------------------------------------------------------------------
(* The page asks for one list after the other.  An expression that begins   *)
(* with an unknown type or tag makes buildResourceList fail: no list.       *)

QueryInit ==
    \E version \in {"sdk", "ndk"}, visited \in Visits : \E byHit \in SortedByHit(visited) :
        query = [version |-> version, visited |-> visited, byHit |-> byHit, pageMap |-> {}, lists |-> <<>>]

QueryRest ==
    query = [version |-> "sdk", visited |-> <<>>, byHit |-> <<>>, pageMap |-> {}, lists |-> <<>>]

Reorderings(results, shuffle) ==
    IF shuffle THEN {[i \in DOMAIN results |-> results[order[i]]] : order \in SetToSeqs(DOMAIN results)}
    ELSE {results}

buildResourceList ==
    /\ query.version = "sdk" /\ Len(query.lists) < MaxLists
    /\ \E q \in Queries, max \in Limits, shuffle \in BOOLEAN, allowDuplicates \in BOOLEAN :
         /\ \A i \in DOMAIN q : Defined(Head(q[i]))
         /\ \E results \in Reorderings(AllResults(q), shuffle) :
              LET sliced == Sliced(results, max)
                  list   == IF allowDuplicates THEN sliced
                            ELSE removePageLevelDuplicates(sliced, query.pageMap)
                  asked  == [query |-> q, max |-> max, allowDuplicates |-> allowDuplicates, list |-> list]
              IN  query' = [query EXCEPT !.pageMap = @ \union (IF allowDuplicates THEN {} ELSE ToSet(list)),
                              !.lists = Append(@, asked)]

(* The older buildResourceList of templates-ndk.  What the earlier ones have *)
(* is left out of an expression from the third one on; the list is cut only  *)
(* after the duplicates on the page are left out.  An unknown type or tag    *)
(* finds nothing; an unknown collection or section, or one with an address   *)
(* that is no resource's, makes it fail.                                     *)
OlderResults(expressions) ==
    LET from[n \in 0 .. Len(expressions)] ==
            IF n = 0 THEN <<>>
            ELSE LET found == SelectSeq(getResourcesForClause(Head(expressions[n])),
                                LAMBDA r : doesResourceMatchClauses(r, Tail(expressions[n])))
                 IN  from[n - 1] \o (IF n > 2 THEN SelectSeq(found, LAMBDA r : r \notin ToSet(from[n - 1]))
                                     ELSE found)
    IN  from[Len(expressions)]

Whole(clause) ==
    LET whole(lists) == clause.value \in DOMAIN lists /\ ToSet(lists[clause.value]) \subseteq Urls
    IN  /\ clause.attr = "collection" => whole(Collections)
        /\ clause.attr = "section" => whole(SiteMap)

buildOlderList ==
    /\ query.version = "ndk" /\ Len(query.lists) < MaxLists
    /\ \E q \in Queries, max \in Limits, shuffle \in BOOLEAN :
         /\ \A i \in DOMAIN q : Whole(Head(q[i]))
         /\ \E results \in Reorderings(OlderResults(q), shuffle) :
              LET list  == Sliced(removePageLevelDuplicates(results, query.pageMap), max)
                  asked == [query |-> q, max |-> max, allowDuplicates |-> FALSE, list |-> list]
              IN  query' = [query EXCEPT !.pageMap = @ \union ToSet(list), !.lists = Append(@, asked)]
-----------------------------------------------------------------------------
(* toUnique, one comparison a step: array[b] is compared with what is below, *)
(* and what equals it is cut out of the array, under the index b.            *)

UniqInit == \E given \in Copies :
    uniq = [given |-> given, array |-> given, b |-> Len(given) - 1, c |-> Len(given) - 1]

UniqRest == uniq = [given |-> <<>>, array |-> <<>>, b |-> 0, c |-> 0]

At(array, i) == IF i < Len(array) THEN <<array[i + 1]>> ELSE <<>>

(* A slip: the first element is never compared.                              *)
UniqShort ==
    LET c == uniq.c - 1
    IN  /\ uniq.b > 0
        /\ uniq' = IF uniq.c > 1
                   THEN [uniq EXCEPT !.c = c,
                           !.array = IF At(@, uniq.b) = At(@, c) THEN RemoveAt(@, c + 1) ELSE @]
                   ELSE [uniq EXCEPT !.b = @ - 1, !.c = uniq.b - 1]

UniqStep ==
    LET c == uniq.c - 1
    IN  /\ uniq.b > 0
        /\ uniq' = IF uniq.c > 0
                   THEN [uniq EXCEPT !.c = c,
                           !.array = IF At(@, uniq.b) = At(@, c) THEN RemoveAt(@, c + 1) ELSE @]
                   ELSE [uniq EXCEPT !.b = @ - 1, !.c = uniq.b - 1]

-----------------------------------------------------------------------------
(* The score of a label, 60 times as large: a match of a whole part between  *)
(* dots, else of its beginning, counts the less the more parts follow.       *)

BeginsAt(s, word, i) == i + Len(word) - 1 <= Len(s) /\ \A k \in DOMAIN word : s[i + k - 1] = word[k]
EndsPart(s, i) == i = Len(s) \/ s[i + 1] = "."

(* Where a match is found when the search begins at a place; it begins there *)
(* as if a word did.                                                         *)
Hits(s, word, exact, from) ==
    {i \in from .. Len(s) : /\ BeginsAt(s, word, i)
                            /\ i = from \/ s[i - 1] = "."
                            /\ exact => EndsPart(s, i + Len(word) - 1)}

(* _lastSearch: the search goes on one character after the last match, and   *)
(* the places are added up.  -1 without a match.                             *)
lastSearch(s, word, exact) ==
    LET hits(from) == Hits(s, word, exact, from)
        first(from) == CHOOSE i \in hits(from) : \A j \in hits(from) : i <= j
        last[from \in 1 .. Len(s) + 1] ==
            IF hits(from) = {} THEN -1
            ELSE LET more == last[first(from) + 1]
                 IN  first(from) - from + (IF more < 0 THEN 0 ELSE more)
    IN  last[1]

Dots(s) == Cardinality({i \in DOMAIN s : s[i] = "."})

resultScore(label, word) ==
    LET exact  == lastSearch(label, word, TRUE)
        prefix == lastSearch(label, word, FALSE)
        after(t) == Dots(SubSeq(label, t + 2, Len(label)))
    IN  CASE exact >= 0 -> 12000 \div (after(exact) + 1)
          [] exact < 0 /\ prefix >= 0 -> 1200 \div (after(prefix) + 1)
          [] OTHER -> 60

RankInit ==
    \E n \in 1 .. MaxLabel : \E label \in [1 .. n -> Alphabet], word \in Words :
        rank = [label |-> label, word |-> word, score |-> -1]

RankRest == rank = [label |-> <<".">>, word |-> CHOOSE w \in Words : TRUE, score |-> -1]

rankAutocompleteApiResults ==
    /\ rank.score = -1
    /\ rank' = [rank EXCEPT !.score = resultScore(rank.label, rank.word)]
-----------------------------------------------------------------------------
(* parseResourceQuery.  An expression is cut before every sign, and a clause *)
(* loses the blanks around it before it loses its sign.                      *)

Places(text, symbols) == {i \in DOMAIN text : text[i] \in symbols}

splitAfter(text, symbol) ==
    LET at == SetToSortSeq(Places(text, {symbol}) \union {0, Len(text) + 1}, <)
    IN  [k \in 1 .. Len(at) - 1 |-> SubSeq(text, at[k] + 1, at[k + 1] - 1)]

splitBefore(text, symbols) ==
    LET at == SetToSortSeq((Places(text, symbols) \ {1}) \union {1, Len(text) + 1}, <)
    IN  IF text = <<>> THEN <<text>> ELSE [k \in 1 .. Len(at) - 1 |-> SubSeq(text, at[k], at[k + 1] - 1)]

trim(text) ==
    LET kept == {i \in DOMAIN text : text[i] # " "}
    IN  IF kept = {} THEN <<>>
        ELSE SubSeq(text, CHOOSE i \in kept : \A j \in kept : i <= j, CHOOSE i \in kept : \A j \in kept : j <= i)

parseClause(text) ==
    LET parts  == splitAfter(text, ":")
        attr   == trim(parts[1])
        signed == attr # <<>> /\ Head(attr) \in {"+", "-"}
    IN  [attr |-> IF signed THEN Tail(attr) ELSE attr, negative |-> signed /\ Head(attr) = "-",
         value |-> IF Len(parts) > 1 THEN trim(parts[2]) ELSE <<>>]

parseResourceQuery(text) ==
    LET exprs == splitAfter(text, ",")
    IN  [i \in DOMAIN exprs |->
            LET clauses == splitBefore(exprs[i], {"+", "-"})
            IN  [j \in DOMAIN clauses |-> parseClause(clauses[j])]]

(* A page writes a query with blanks or without, and perhaps one after a     *)
(* sign, as the comment in the code has it.                                  *)
Written(q, blank, loose) ==
    LET sp(yes) == IF yes THEN <<" ">> ELSE <<>>
        clause(j, c) == sp(blank) \o (IF c.negative THEN <<"-">> ELSE IF j > 1 THEN <<"+">> ELSE <<>>)
                            \o sp(loose) \o <<c.attr>> \o sp(blank) \o <<":">> \o sp(blank) \o <<c.value>>
        expr(e) == FlattenSeq([j \in DOMAIN e |-> clause(j, e[j])])
    IN  FlattenSeq([i \in DOMAIN q |-> (IF i > 1 THEN sp(blank) \o <<",">> ELSE <<>>) \o expr(q[i])])

ParseInit ==
    \E q \in Queries, blank, loose \in BOOLEAN :
        parse = [asked |-> q, text |-> Written(q, blank, loose), loose |-> loose, parsed |-> <<>>]

ParseRest == parse = [asked |-> <<>>, text |-> <<>>, loose |-> FALSE, parsed |-> <<>>]

ParseStep == parse.parsed = <<>> /\ parse' = [parse EXCEPT !.parsed = parseResourceQuery(parse.text)]
-----------------------------------------------------------------------------
(* A query is read as the clauses it was written from, wherever blanks are.  *)
(* But one after a sign becomes part of the attribute, for which there is no *)
(* lookup then: the comment's 'tag:foo + type:video' (docs.js:5047) is not   *)
(* read as it is meant.                                                      *)
ReadAsWritten ==
    parse.parsed # <<>> =>
        parse.parsed = [i \in DOMAIN parse.asked |-> [j \in DOMAIN parse.asked[i] |->
            LET c == parse.asked[i][j]
                kept == IF parse.loose /\ (c.negative \/ j > 1) THEN <<" ">> ELSE <<>>
            IN  [attr |-> kept \o <<c.attr>>, negative |-> c.negative, value |-> <<c.value>>]]]

(* What a query without negative clauses gets: what the first clause of an   *)
(* expression finds and every other one has a lookup for.  One that has none *)
(* of its own adds nothing to those before it, and with none before it lets  *)
(* nothing through, although a resource "must fulfill all criteria"          *)
(* (docs.js:4968): type:video+tag:a+collection:c is not cut down to c.       *)
Positive(q) == \A i \in DOMAIN q : \A j \in DOMAIN q[i] : ~q[i][j].negative

FoundBy(clause) ==
    {IF query.version = "sdk" THEN Canonical(r) ELSE r : r \in ToSet(getResourcesForClause(clause))}

Satisfies(r, clauses) ==
    /\ r \in FoundBy(Head(clauses))
    /\ \A j \in 2 .. Len(clauses) : clauses[j].attr \in Indexed => r \in Having(clauses[j])
    /\ Len(clauses) > 1 => clauses[2].attr \in Indexed

(* Lists of a page that leave out duplicates share nothing with each other,  *)
(* no list is longer than was asked for or has anything more than twice (the *)
(* first expressions are not compared).  When no clause is negative nothing  *)
(* is in the list that does not satisfy an expression, and something that    *)
(* does, and that is on no earlier list, is missing only where the list is   *)
(* full: in templates-sdk, where it is cut before duplicates are left out,   *)
(* with the places that these may have taken.                                *)
QueryAnswered ==
    \A i \in DOMAIN query.lists :
        LET asked   == query.lists[i]
            listed  == ToSet(asked.list)
            earlier == {k \in 1 .. i - 1 : ~asked.allowDuplicates /\ ~query.lists[k].allowDuplicates}
            shown   == UNION {ToSet(query.lists[k].list) : k \in earlier}
            wanted  == {r \in Indices : \E j \in DOMAIN asked.query : Satisfies(r, asked.query[j])}
            cut     == IF query.version = "sdk" THEN 2 * Cardinality(wanted \intersect shown) ELSE 0
        IN  /\ Len(asked.list) <= asked.max
            /\ \A r \in listed : Cardinality({k \in DOMAIN asked.list : asked.list[k] = r}) <= 2
            /\ listed \intersect shown = {}
            /\ Positive(asked.query) =>
                 /\ listed \subseteq wanted
                 /\ Len(asked.list) + cut >= asked.max \/ wanted \ shown \subseteq listed

(* "Must fulfill all criteria" (docs.js:4968): nothing is in a list that a   *)
(* negative clause of every one of its expressions excludes.                 *)
NegativesExclude ==
    \A i \in DOMAIN query.lists : \A r \in ToSet(query.lists[i].list) : query.version = "sdk" =>
        \E j \in DOMAIN query.lists[i].query :
            \A k \in 2 .. Len(query.lists[i].query[j]) :
                LET clause == query.lists[i].query[j][k]
                IN  clause.negative /\ clause.attr \in Indexed => r \notin Having(clause)

(* The array that toUnique leaves has everything once, although it cuts      *)
(* under the index it stands at.                                             *)
UniqueAtEnd ==
    /\ ToSet(uniq.array) = ToSet(uniq.given)
    /\ uniq.b <= 0 => IsInjective(uniq.array)

(* A label that has the word in at most two of its parts, and nowhere twice  *)
(* without a letter in between, is ranked by the last of them: how many      *)
(* parts follow the last one that is the word, or else the last one that     *)
(* begins with it.                                                           *)
PartStarts(s) == {i \in DOMAIN s : s[i] # "." /\ (i = 1 \/ s[i - 1] = ".")}

RankedByLastPart ==
    LET s      == rank.label
        begins == {i \in PartStarts(s) : BeginsAt(s, rank.word, i)}
        whole  == {i \in begins : EndsPart(s, i + Len(rank.word) - 1)}
        parts(set) == Dots(SubSeq(s, CHOOSE i \in set : \A j \in set : j <= i, Len(s))) + 1
        doubled == \E i \in DOMAIN s : BeginsAt(s, rank.word, i) /\ BeginsAt(s, rank.word, i + 1)
    IN  rank.score # -1 /\ Cardinality(begins) <= 2 /\ ~doubled =>
            rank.score = IF whole # {} THEN 12000 \div parts(whole)
                         ELSE IF begins # {} THEN 1200 \div parts(begins) ELSE 60
=============================================================================
