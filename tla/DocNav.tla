------------------------------- MODULE DocNav -------------------------------
(***************************************************************************)
(* Reading the documentation by its links (templates-sdk/assets/js/docs.js)*)
(* the script computes the previous and next links of a page from the side *)
(* navigation, and the list of classes on the home page of a course.       *)
(*                                                                         *)
(* The side navigation is an outline: its items in document order, each    *)
(* with its depth and its kind.  An "empty" section has a header that is   *)
(* no link to a page, and a "class" is a section with a description.       *)
(***************************************************************************)
EXTENDS Naturals, Sequences, FiniteSets, SequencesExt

CONSTANTS
    MaxItems,  \* bound on the length of an outline
    MaxDepth   \* bound on its depth

ASSUME NavAssumption == MaxItems \in Nat \ {0} /\ MaxDepth \in Nat \ {0}

VARIABLE reading   \* the outline, the kind of site, and the page that is read

ItemKinds == {"leaf", "section", "class", "empty"}
Item == [depth : 1 .. MaxDepth, kind : ItemKinds]

IsOutline(o) ==
    /\ o[1].depth = 1
    /\ \A i \in 2 .. Len(o) : o[i].depth <= o[i - 1].depth
                               \/ (o[i].depth = o[i - 1].depth + 1 /\ o[i - 1].kind # "leaf")

IsSection(o, i) == o[i].kind # "leaf"
-----------------------------------------------------------------------------
(* The list items around one: jQuery's next, prev, parents and find.  Zero   *)
(* stands for none.                                                          *)

Inner(o, i) ==
    {j \in i + 1 .. Len(o) : \A k \in i + 1 .. j : o[k].depth > o[i].depth}

Largest(set) == IF set = {} THEN 0 ELSE CHOOSE i \in set : \A j \in set : j <= i

ParentItem(o, i) == IF i = 0 THEN 0 ELSE Largest({j \in 1 .. i - 1 : i \in Inner(o, j) /\ o[j].depth = o[i].depth - 1})

NextItem(o, i) ==
    IF i = 0 THEN 0
    ELSE LET after == i + Cardinality(Inner(o, i)) + 1
         IN  IF after <= Len(o) /\ o[after].depth = o[i].depth THEN after ELSE 0

PrevItem(o, i) == Largest({j \in 1 .. i - 1 : NextItem(o, j) = i})

LastLink(o, i) == Largest({i} \union Inner(o, i))

(* The previous link: the last topic of the section before, the topic        *)
(* before, or the index page of this section.                                *)
PrevLink(o, i, crossBoundaries) ==
    LET before == PrevItem(o, i)
    IN  IF before # 0
        THEN IF IsSection(o, before) \/ crossBoundaries THEN LastLink(o, before)
             ELSE IF ~IsSection(o, i) THEN before ELSE 0
        ELSE IF ~crossBoundaries /\ ParentItem(o, i) # 0 /\ IsSection(o, i) THEN 0
             ELSE ParentItem(o, i)

(* A slip: the search for the next section begins one layer too high.        *)
NextSectionTooHigh(o, i) == NextItem(o, ParentItem(o, ParentItem(o, i)))

(* No more topics in this section: the next section, or up another layer.    *)
NextSection(o, i) ==
    LET next == NextItem(o, ParentItem(o, i))
        up   == NextItem(o, ParentItem(o, ParentItem(o, i)))
    IN  IF next # 0 THEN next ELSE IF up # 0 /\ IsSection(o, up) THEN up ELSE 0

IsCrossing(o, i) == ~IsSection(o, i) /\ NextItem(o, i) = 0

NextLink(o, i) ==
    IF IsSection(o, i)
    THEN IF Inner(o, i) # {} THEN i + 1 ELSE NextItem(o, i)
    ELSE IF IsCrossing(o, i) THEN NextSection(o, i) ELSE NextItem(o, i)

StartsClass(o, i) ==
    IsSection(o, i) /\ \E j \in {i} \union Inner(o, i) : o[j].kind = "class"

(* The links that are shown: to the first lesson of a class, to the next     *)
(* class, or to the next page; and to the previous one.                      *)
Links(o, i, site) ==
    LET next == NextLink(o, i)
        starts == StartsClass(o, i)
        crossing == IsCrossing(o, i) /\ site # "design"
    IN  [start |-> IF starts THEN next ELSE 0,
         class |-> IF ~starts /\ crossing THEN next ELSE 0,
         next  |-> IF ~starts /\ ~crossing THEN next ELSE 0,
         prev  |-> IF starts THEN 0 ELSE PrevLink(o, i, site \in {"design", "guide"})]

(* The home page of a course lists its classes, those links of it that are   *)
(* not in a section within a section, and the lessons of each.               *)
ClassLinks(o, i) ==
    {j \in Inner(o, i) : ~\E a, b \in 1 .. Len(o) :
        IsSection(o, a) /\ IsSection(o, b) /\ b \in Inner(o, a) /\ j \in Inner(o, b)}

(* The lessons of a class, in the order of the navigation.                   *)
Listing(o, items) == FlattenSeq([k \in 1 .. Len(o) |-> IF k \in items THEN <<k>> ELSE <<>>])

CourseList(o, i) ==
    FlattenSeq([k \in 1 .. Len(o) |-> IF k \notin ClassLinks(o, i) THEN <<>>
                                      ELSE <<k>> \o Listing(o, Inner(o, k))])
-----------------------------------------------------------------------------
NavPageInit ==
    \E n \in 1 .. MaxItems : \E o \in [1 .. n -> Item] :
        /\ IsOutline(o)
        /\ \E site \in {"design", "guide", "training"}, at \in 1 .. n :
             o[at].kind # "empty" /\ reading = [outline |-> o, site |-> site, at |-> at]

NavPageRest == reading = [outline |-> <<[depth |-> 1, kind |-> "leaf"]>>, site |-> "guide", at |-> 1]

(* A link is followed; that of an empty section leads nowhere.               *)
FollowLink ==
    LET links == Links(reading.outline, reading.at, reading.site)
    IN  \E to \in {links.start, links.class, links.next, links.prev} \ {0} :
          /\ reading.outline[to].kind # "empty"
          /\ reading' = [reading EXCEPT !.at = to]
-----------------------------------------------------------------------------
(* A reader who follows the links reads everything in order: a link forward  *)
(* leads to the item that comes next in the navigation and a link back to    *)
(* the one before.  There is none forward only at the end, or when the next  *)
(* item is a page outside of two sections that end here, or more than two    *)
(* end; and none back at the beginning, on the home page of a class, or, on  *)
(* a training page, from a section that follows a page or begins one.        *)
LinksInOrder ==
    LET o == reading.outline
        i == reading.at
        links == Links(o, i, reading.site)
        forward == {links.start, links.class, links.next} \ {0}
        ends == o[i].depth - o[i + 1].depth
    IN  /\ forward \subseteq {i + 1} /\ links.prev \in {0, i - 1}
        /\ forward = {} => \/ i = Len(o)
                           \/ IsSection(o, i) /\ ends > 0
                           \/ ends > 2
                           \/ ends = 2 /\ ~IsSection(o, i + 1)
        /\ links.prev = 0 => \/ i = 1 \/ StartsClass(o, i)
                             \/ reading.site = "training" /\ IsSection(o, i)

(* The home page of a course lists each of its classes and lessons once, in  *)
(* order, provided the course is not itself in a section.                    *)
CourseComplete ==
    LET o == reading.outline
        i == reading.at
    IN  IsSection(o, i) /\ o[i].depth = 1 => CourseList(o, i) = Listing(o, Inner(o, i))
=============================================================================
