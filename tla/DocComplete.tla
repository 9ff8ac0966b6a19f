---------------------------- MODULE DocComplete ----------------------------
(***************************************************************************)
(* The suggestions under the search field of the older templates: the      *)
(* cards of templates-ndk/assets/js/docs.js, which open and close with an  *)
(* animation and are walked through with the arrow keys, and the table of  *)
(* templates-pdk/assets/search_autocomplete.js, which remembers the chosen *)
(* suggestion by its identifier.  What matches a text is an answer out of  *)
(* a given set; labels and links are left out.                             *)
(***************************************************************************)
EXTENDS Integers, Sequences, FiniteSets

CONSTANTS
    Answers,     \* matches of a text: how many of each kind (see Kind)
    TableTexts,  \* matches of a text in the table: sequences of identifiers
    ROW_COUNT,   \* rows of the table
    MaxKeys      \* bound on what the user does

Kind == {"android", "google", "guides", "training", "samples", "design", "distribute"}

ASSUME CompleteAssumption ==
    /\ Answers \subseteq [Kind -> Nat] /\ TableTexts \subseteq Seq(Nat)
    /\ ROW_COUNT \in Nat \ {0} /\ MaxKeys \in Nat

VARIABLES
    suggest,  \* the cards
    table     \* the table

completeVars == <<suggest, table>>
-----------------------------------------------------------------------------
(* The cards.  `list' is what is in a card, `shown' and `queue' whether it  *)
(* is displayed and its animations, `wanted' the cards that the last event  *)
(* was to leave open.  `hasty' says that a card was opened or closed at     *)
(* once while it was being animated, and `shifted' that a card came or went *)
(* while a suggestion was selected, or a key was pressed when the selected  *)
(* column was no longer there.                                              *)

Cards == {"reference", "develop", "design", "distribute"}

Many(what, n) == [i \in 1 .. n |-> what]
Section(n) == IF n = 0 THEN <<>> ELSE <<"header">> \o Many("link", n)

(* What sync_selection_table puts into each card.                           *)
ListOf(a, card) ==
    CASE card = "reference"  -> Many("link", a["android"]) \o Section(a["google"])
      [] card = "develop"    -> Section(a["guides"]) \o Section(a["training"]) \o Section(a["samples"])
      [] card = "design"     -> Section(a["design"])
      [] card = "distribute" -> Section(a["distribute"])

SuggestInit ==
    suggest = [list |-> [c \in Cards |-> <<>>], shown |-> {}, queue |-> [c \in Cards |-> <<>>],
               wanted |-> {}, column |-> -1, index |-> -1, pane |-> FALSE,
               hasty |-> FALSE, shifted |-> FALSE, keys |-> 0]

(* The columns: the cards on display, in the order of the page; those that   *)
(* are closing still are.                                                    *)
CardColumn(s, c) == IF c \in s.shown THEN <<c>> ELSE <<>>
Columns(s) ==
    CardColumn(s, "reference") \o CardColumn(s, "develop")
    \o CardColumn(s, "design") \o CardColumn(s, "distribute")
Column(s) == IF s.column < 0 THEN 0 ELSE s.column
HasColumn(s) == Column(s) < Len(Columns(s))
CardItems(s) == s.list[Columns(s)[Column(s) + 1]]
IsHeader(s, i) == i \in 0 .. Len(CardItems(s)) - 1 /\ CardItems(s)[i + 1] = "header"

Use(s) == [s EXCEPT !.keys = @ + 1]

(* Showing or hiding at once, whatever is being animated.                   *)
AtOnce(s, cards, visible) ==
    [s EXCEPT !.shown = IF visible THEN @ \union cards ELSE @ \ cards,
              !.hasty = @ \/ \E c \in cards : s.queue[c] # <<>>,
              !.shifted = @ \/ s.index >= 0]

Animate(s, cards, dir) ==
    [s EXCEPT !.queue = [c \in Cards |-> IF c \in cards THEN Append(@[c], dir) ELSE @[c]]]

(* The key is released and the text has other matches: everything is        *)
(* searched anew, and the cards are drawn.  The lists of a kind without any *)
(* match stay as they were, in a card that is being closed.                 *)
sync_selection_table(s, a) ==
    LET reference == a["android"] + a["google"] > 0
        docs  == Cards \ {"reference"}
        found == {c \in docs : ListOf(a, c) # <<>>}
        drawn == [s EXCEPT !.index = -1, !.wanted = found \union (IF reference THEN {"reference"} ELSE {}),
                    !.list = [c \in Cards |->
                        IF (IF c = "reference" THEN reference ELSE found # {}) THEN ListOf(a, c) ELSE @[c]]]
    IN  IF ~reference /\ found = {} THEN Animate(drawn, Cards, "hide")
        ELSE Animate(Animate(AtOnce(drawn, {"reference"}, reference), found, "show"), docs \ found, "hide")

CardIdle(c) ==
    suggest.queue[c] # <<>> /\ (Head(suggest.queue[c]) = "show") = (c \in suggest.shown)

TypeText ==
    /\ suggest.keys < MaxKeys /\ ~suggest.pane
    /\ \A c \in Cards : ~CardIdle(c)
    /\ \E a \in Answers : suggest' = sync_selection_table(Use(suggest), a)

(* An arrow key.  With a column that is not there the code would walk       *)
(* through every list item of the page.                                     *)
Lost(s) == [Use(s) EXCEPT !.shifted = TRUE]

GoUp(s) ==
    LET i == IF IsHeader(s, s.index - 1) THEN s.index - 1 ELSE s.index
    IN  IF i >= 0 THEN [Use(s) EXCEPT !.index = i - 1, !.column = IF i = 0 THEN -1 ELSE Column(s)]
        ELSE [Use(s) EXCEPT !.column = Column(s)]

(* A slip: the last suggestion is not noticed.                               *)
GoDownTooFar(s) ==
    LET i == IF IsHeader(s, s.index + 1) THEN s.index + 1 ELSE s.index
    IN  [Use(s) EXCEPT !.column = Column(s), !.index = i + 1]

GoDown(s) ==
    LET i == IF IsHeader(s, s.index + 1) THEN s.index + 1 ELSE s.index
    IN  [Use(s) EXCEPT !.column = Column(s), !.index = IF i < Len(CardItems(s)) - 1 THEN i + 1 ELSE i]

Sideways(s, to) ==
    LET there == [s EXCEPT !.column = to]
        last  == Len(CardItems(there)) - 1
        i     == IF s.index > last THEN last ELSE s.index
    IN  [Use(there) EXCEPT !.index = IF IsHeader(there, i) THEN i + 1 ELSE i]

ArrowKey ==
    /\ suggest.keys < MaxKeys /\ ~suggest.pane
    /\ \A c \in Cards : ~CardIdle(c)
    /\ IF ~HasColumn(suggest) THEN suggest' = Lost(suggest)
       ELSE \/ suggest' = GoUp(suggest)
            \/ suggest' = GoDown(suggest)
            \/ /\ Column(suggest) < Len(Columns(suggest)) - 1
               /\ suggest' = Sideways(suggest, Column(suggest) + 1)
            \/ /\ Column(suggest) > 0
               /\ suggest' = Sideways(suggest, Column(suggest) - 1)

(* The mouse over a suggestion selects it.                                   *)
PointAt ==
    /\ suggest.keys < MaxKeys
    /\ \E k \in DOMAIN Columns(suggest) :
         LET items == suggest.list[Columns(suggest)[k]]
         IN  \E i \in DOMAIN items :
               /\ items[i] = "link"
               /\ suggest' = [Use(suggest) EXCEPT !.column = k - 1, !.index = i - 1]

(* The enter key without a suggestion, and the field losing the focus: the   *)
(* cards close, and with the key the results open.                           *)
EnterOrBlur ==
    /\ suggest.keys < MaxKeys /\ ~suggest.pane
    /\ \A c \in Cards : ~CardIdle(c)
    /\ \E enter \in BOOLEAN :
         /\ enter => suggest.index < 0
         /\ suggest' = [AtOnce(Use(suggest), Cards, FALSE) EXCEPT !.wanted = {}, !.pane = enter]

(* The escape key closes the results, and so does the close button.          *)
ResultsClosed ==
    /\ suggest.pane
    /\ suggest' = [suggest EXCEPT !.pane = FALSE]

CardSettle ==
    \E c \in Cards :
        /\ suggest.queue[c] # <<>>
        /\ CardIdle(c) \/ \A d \in Cards : ~CardIdle(d)
        /\ LET show == Head(suggest.queue[c]) = "show"
           IN  suggest' = [suggest EXCEPT !.queue[c] = Tail(@),
                             !.shown = IF show THEN @ \union {c} ELSE @ \ {c},
                             !.shifted = @ \/ (suggest.index >= 0 /\ ~CardIdle(c))]

SuggestNext ==
    TypeText \/ ArrowKey \/ PointAt \/ EnterOrBlur \/ ResultsClosed \/ CardSettle
-----------------------------------------------------------------------------
(* The table.  `index' is gSelectedIndex and `id' gSelectedID; `lit' are the *)
(* rows that are highlighted and `pointer' the one under the mouse, or -1.   *)

TableInit ==
    table = [matches |-> <<>>, index |-> -1, id |-> -1, lit |-> {}, pointer |-> -1,
             open |-> FALSE, keys |-> 0]

TableRows(t) == IF Len(t.matches) < ROW_COUNT THEN 0 .. Len(t.matches) - 1 ELSE 0 .. ROW_COUNT - 1

SyncTable(t) ==
    LET rows == TableRows(t)
    IN  [t EXCEPT !.open = t.matches # <<>>, !.keys = @ + 1,
                  !.lit = (@ \ rows) \union ({t.index} \intersect rows),
                  !.id = IF t.index \in rows THEN t.matches[t.index + 1] ELSE -1]

(* Any key that is released, the arrow keys included: the suggestion with    *)
(* the identifier of the selected one is selected.                           *)
Reselected(t, matches) ==
    LET at == {i \in DOMAIN matches : matches[i] = t.id}
    IN  [t EXCEPT !.matches = matches, !.index = IF at = {} THEN -1 ELSE (CHOOSE i \in at : TRUE) - 1]

TableKeyUp == \E matches \in TableTexts : table' = SyncTable(Reselected(table, matches))

TableArrow ==
    \/ table' = SyncTable([table EXCEPT !.index = IF @ >= 0 THEN @ - 1 ELSE @])
    \/ table' = SyncTable([table EXCEPT !.index =
                   IF @ < Len(table.matches) - 1 /\ @ < ROW_COUNT - 1 THEN @ + 1 ELSE @])

(* The mouse leaves one row for another.  When the selected suggestion has   *)
(* no row the handler fails, and the selection stays.                        *)
TableMouse ==
    \E row \in TableRows(table) \ {table.pointer} :
        /\ table.open
        /\ LET lit == (table.lit \ {table.pointer}) \union {row}
           IN  table' = [table EXCEPT !.pointer = row, !.keys = @ + 1,
                           !.lit = IF table.index >= 0 THEN lit \ {table.index} ELSE lit,
                           !.index = IF table.index >= ROW_COUNT THEN @ ELSE -1]

(* The enter key without a selection, and the field losing the focus.        *)
TableClose ==
    /\ table.open
    /\ table' = [table EXCEPT !.open = FALSE, !.keys = @ + 1]

TableNext == table.keys < MaxKeys /\ (TableKeyUp \/ TableArrow \/ TableMouse \/ TableClose)
-----------------------------------------------------------------------------
(* What the enter key would follow is a suggestion and not a heading of a    *)
(* card or nothing, however the arrow keys were used, unless a card came or  *)
(* went meanwhile.                                                           *)
SelectionIsLink ==
    suggest.index >= 0 /\ ~suggest.shifted =>
        /\ HasColumn(suggest)
        /\ suggest.index + 1 \in DOMAIN CardItems(suggest)
        /\ CardItems(suggest)[suggest.index + 1] = "link"

(* When no card is moving, the cards on display are those with matches of    *)
(* the last text, and none after the field lost the focus, unless one was    *)
(* opened or closed at once while it was being animated.                     *)
CardsHaveMatches ==
    (\A c \in Cards : suggest.queue[c] = <<>>) /\ ~suggest.hasty => suggest.shown = suggest.wanted

(* The table keeps its selection by identifier: the enter key follows the    *)
(* suggestion that is remembered, or one that has fallen below the last row; *)
(* and no row is highlighted but the selected one and the one pointed at.    *)
TableHonest ==
    /\ table.index >= 0 => /\ table.index < Len(table.matches)
                           /\ table.index < ROW_COUNT => table.matches[table.index + 1] = table.id
    /\ table.lit \intersect TableRows(table) \subseteq {table.index, table.pointer}
=============================================================================
